--------------------------- MODULE AlgorithmsProofs ---------------------------
(* Theorems about the parts that have no concurrency of their own: any        *)
(* password, any modules and faults of discovery, any cron expression on any  *)
(* calendar, any text of a field, any list of manifests. Each component is    *)
(* proved about alone; EachAlone carries that over to all of them together.   *)
(*                                                                            *)
(* Discovery: a package counts as done although some of its modules failed,   *)
(* so what a walk leaves behind has to be followed while it goes (Walked).    *)
(* That a module is marked only after it ran is Imported.                     *)
(*                                                                            *)
(* Cron: that a jump passes over no match is arithmetic: within the year, the *)
(* month, the day or the hour that is left, the part of the wall clock that   *)
(* did not match stays what it is. What DaysBefore, which is recursive, comes *)
(* to is found by the least place at which it would be wrong (LeastNatural).  *)
(*                                                                            *)
(* Validation: cleaning a text twice is cleaning it once; for white space     *)
(* that is again the least place at which two texts would differ.             *)
(*                                                                            *)
(* Deploy: that objects are there with what they need follows from where a    *)
(* command has come to: a deployment has applied all that it passed, and a    *)
(* deletion has left none of it but the claim (Behind).                       *)
EXTENDS MCAlgorithms, Integers, FiniteSetTheorems, SequenceTheorems, WellFoundedInduction,
        TLAPS

-----------------------------------------------------------------------------
(* Naturals and sequences.                                                    *)

\* A set of naturals that is not empty has a least member.
LEMMA LeastNatural ==
  ASSUME NEW T, T \subseteq Nat, T # {}
  PROVE  \E n \in T : \A m \in T : n <= m
<1>1. PICK R : IsWellFoundedOn(R, Nat) /\ \A x, y \in Nat : x < y => <<x, y>> \in R
  <2>1. IsWellFoundedOn(OpToRel(<, Nat), Nat)
    BY NatLessThanWellFounded
  <2>2. \A x, y \in Nat : x < y => <<x, y>> \in OpToRel(<, Nat)
    BY DEF OpToRel
  <2>3. QED BY <2>1, <2>2, Zenon
<1>2. PICK n \in T : \A m \in T : ~(<<m, n>> \in R)
  <2>1. IsWellFoundedOn(R, Nat)
    BY <1>1, Zenon
  <2>2. QED BY <2>1, WFMin, Zenon
<1>3. ASSUME NEW m \in T PROVE n <= m
  <2>1. m \in Nat /\ n \in Nat /\ <<m, n>> \notin R
    BY <1>2
  <2>2. ~(m < n)
    BY <1>1, <2>1, Zenon
  <2>3. QED BY <2>1, <2>2
<1>4. QED BY <1>3

\* The reverse order, place by place.
LEMMA Backwards ==
  ASSUME NEW S, NEW seq \in Seq(S)
  PROVE  /\ Reverse(seq) \in Seq(S) /\ Len(Reverse(seq)) = Len(seq)
         /\ \A i \in 1..Len(seq) : Reverse(seq)[i] = seq[Len(seq) - i + 1]
<1>1. Len(seq) \in Nat /\ \A i \in 1..Len(seq) : seq[i] \in S
  BY LenProperties
<1>2. \A i \in 1..Len(seq) : seq[(Len(seq) - i) + 1] \in S
  BY <1>1
<1>3. Reverse(seq) \in [1..Len(seq) -> S]
  BY <1>2 DEF Reverse
<1>4. Reverse(seq) \in Seq(S)
  BY <1>1, <1>3, SeqDef
<1>5. Len(Reverse(seq)) = Len(seq)
  BY <1>1, <1>3, <1>4, LenProperties
<1>6. QED BY <1>4, <1>5 DEF Reverse

\* A sequence that ends another is its suffix.
LEMMA Suffix ==
  ASSUME NEW S, NEW s \in Seq(S), NEW t \in Seq(S), Len(s) <= Len(t),
         \A i \in 1..Len(s) : s[i] = t[Len(t) - Len(s) + i]
  PROVE  IsSuffix(s, t)
<1> DEFINE n == Len(s)   r == Reverse(s)   q == Reverse(t)
<1>1. /\ n \in Nat /\ Len(t) \in Nat /\ r \in Seq(S) /\ q \in Seq(S)
      /\ Len(r) = n /\ Len(q) = Len(t)
      /\ \A i \in 1..n : r[i] = s[n - i + 1]
      /\ \A i \in 1..Len(t) : q[i] = t[Len(t) - i + 1]
  BY Backwards, LenProperties
<1>2. ASSUME NEW i \in 1..n PROVE r[i] = q[i] /\ r[i] \in S /\ q[i] \in S
  <2>1. n - i + 1 \in 1..n /\ i \in 1..Len(t)
    BY <1>1
  <2>2. s[n - i + 1] = t[Len(t) - n + (n - i + 1)]
    BY <2>1
  <2>3. Len(t) - n + (n - i + 1) = Len(t) - i + 1
    BY <1>1
  <2>4. r[i] \in S
    BY <1>1, LenProperties
  <2>5. QED BY <1>1, <2>1, <2>2, <2>3, <2>4
<1> HIDE DEF n, r, q
<1>3. /\ SubSeq(r, 1, n) \in Seq(S) /\ SubSeq(q, 1, n) \in Seq(S)
      /\ Len(SubSeq(r, 1, n)) = n /\ Len(SubSeq(q, 1, n)) = n
      /\ \A i \in 1..n : SubSeq(r, 1, n)[i] = r[i] /\ SubSeq(q, 1, n)[i] = q[i]
  <2>1. \A i \in 1..n : r[i] \in S /\ q[i] \in S
    BY <1>2
  <2>2. 1 \in Int /\ n \in Int /\ n - 1 + 1 = n /\ (~(1 <= n) => n = 0)
    BY <1>1
  <2>3. \A i \in 1..n : 1 + i - 1 = i
    OBVIOUS
  <2>4. /\ SubSeq(r, 1, n) \in Seq(S) /\ Len(SubSeq(r, 1, n)) = (IF 1 <= n THEN n - 1 + 1 ELSE 0)
        /\ \A i \in 1..(n - 1 + 1) : SubSeq(r, 1, n)[i] = r[1 + i - 1]
    BY <2>1, <2>2, SubSeqProperties
  <2>5. /\ SubSeq(q, 1, n) \in Seq(S) /\ Len(SubSeq(q, 1, n)) = (IF 1 <= n THEN n - 1 + 1 ELSE 0)
        /\ \A i \in 1..(n - 1 + 1) : SubSeq(q, 1, n)[i] = q[1 + i - 1]
    BY <2>1, <2>2, SubSeqProperties
  <2>6. QED BY <2>2, <2>3, <2>4, <2>5
<1>4. SubSeq(r, 1, n) = SubSeq(q, 1, n)
  <2>1. \A i \in 1..n : SubSeq(r, 1, n)[i] = SubSeq(q, 1, n)[i]
    BY <1>2, <1>3
  <2>2. QED BY <1>3, <2>1, SeqEqual
<1>5. Len(r) <= Len(q)
  BY <1>1 DEF n
<1>6. QED BY <1>1, <1>4, <1>5 DEF IsSuffix, IsPrefix, n, r, q

\* A set of naturals up to k that is not empty has a greatest member.
LEMMA GreatestNatural ==
  ASSUME NEW T, NEW k \in Nat, T \subseteq 0..k, T # {}
  PROVE  \E n \in T : \A m \in T : n >= m
<1> DEFINE U == {k - n : n \in T}
<1>1. PICK u \in U : \A v \in U : u <= v
  <2>1. \A n \in T : k - n \in Nat
    OBVIOUS
  <2>2. U \subseteq Nat /\ U # {}
    BY <2>1
  <2>3. QED BY <2>2, LeastNatural
<1>2. PICK n \in T : u = k - n
  BY <1>1
<1>3. ASSUME NEW m \in T PROVE n >= m
  <2>1. u <= k - m /\ m \in Nat /\ n \in Nat
    BY <1>1
  <2>2. QED BY <1>2, <2>1
<1>4. QED BY <1>3

\* The length, the domain and the members of a sequence.
LEMMA SeqIs ==
  ASSUME NEW S, NEW t \in Seq(S)
  PROVE  Len(t) \in Nat /\ DOMAIN t = 1..Len(t) /\ \A i \in 1..Len(t) : t[i] \in S
BY LenProperties

\* The part of a sequence from place a to place b.
LEMMA SubSeqIs ==
  ASSUME NEW S, NEW t \in Seq(S), NEW a \in 1..(Len(t) + 1), NEW b \in 0..Len(t), a <= b + 1
  PROVE  /\ SubSeq(t, a, b) \in Seq(S) /\ Len(SubSeq(t, a, b)) = b - a + 1
         /\ \A k \in 1..(b - a + 1) : SubSeq(t, a, b)[k] = t[a + k - 1]
<1>1. Len(t) \in Nat /\ \A i \in 1..Len(t) : t[i] \in S
  BY SeqIs
<1>2. SubSeq(t, a, b) = [k \in 1..(b - a + 1) |-> t[a + k - 1]]
  OBVIOUS
<1>3. b - a + 1 \in Nat /\ \A k \in 1..(b - a + 1) : t[a + k - 1] \in S
  <2>1. \A k \in 1..(b - a + 1) : a + k - 1 \in 1..Len(t)
    BY <1>1
  <2>2. QED BY <1>1, <2>1
<1>4. SubSeq(t, a, b) \in [1..(b - a + 1) -> S]
  BY <1>2, <1>3
<1>5. SubSeq(t, a, b) \in Seq(S)
  BY <1>3, <1>4, SeqDef
<1>6. QED BY <1>2, <1>3, <1>4, <1>5, LenProperties

-----------------------------------------------------------------------------
(* Passwords.                                                                 *)

\* A finite set with one member more.
LEMMA OneMore ==
  ASSUME NEW S, NEW T, NEW x, NEW n \in Nat, IsFiniteSet(S), Cardinality(S) = n, x \notin S, T = S \cup {x}
  PROVE  IsFiniteSet(T) /\ Cardinality(T) = n + 1
<1>1. QED BY FS_AddElement

\* The character classes are four and the requirements of the service six.
LEMMA Counted ==
  /\ Cardinality({"upper", "lower", "digit", "special"}) = 4
  /\ Cardinality(ServiceRequirements) = 6
<1> DEFINE R1 == {"special"}
           R2 == {"digit", "special"}
           R3 == {"lower", "digit", "special"}
           R4 == {"upper", "lower", "digit", "special"}
           R5 == R4 \cup {"length"}
           R6 == R5 \cup {"uncommon"}
<1>1. /\ "digit" \notin R1 /\ R2 = R1 \cup {"digit"}
      /\ "lower" \notin R2 /\ R3 = R2 \cup {"lower"}
      /\ "upper" \notin R3 /\ R4 = R3 \cup {"upper"}
      /\ "length" \notin R4 /\ R5 = R4 \cup {"length"}
      /\ "uncommon" \notin R5 /\ R6 = R5 \cup {"uncommon"}
  OBVIOUS
<1>2. IsFiniteSet(R1) /\ Cardinality(R1) = 1
  BY FS_Singleton
<1>3. ServiceRequirements = R6
  BY DEF ServiceRequirements
<1>4. /\ Cardinality(R4) = 4 /\ Cardinality(R6) = 6
  <2> HIDE DEF R1, R2, R3, R4, R5, R6
  <2>1. IsFiniteSet(R2) /\ Cardinality(R2) = 2
    BY <1>1, <1>2, OneMore
  <2>2. IsFiniteSet(R3) /\ Cardinality(R3) = 3
    BY <1>1, <2>1, OneMore
  <2>3. IsFiniteSet(R4) /\ Cardinality(R4) = 4
    BY <1>1, <2>2, OneMore
  <2>4. IsFiniteSet(R5) /\ Cardinality(R5) = 5
    BY <1>1, <2>3, OneMore
  <2>5. IsFiniteSet(R6) /\ Cardinality(R6) = 6
    BY <1>1, <2>4, OneMore
  <2>6. QED BY <2>3, <2>5
<1>5. QED BY <1>3, <1>4

\* Each password checker agrees with its own analysis on every password, whatever its
\* length: what either accepts is strong by its own score, the validator has nothing left to
\* ask of it, and the service accepts just what meets all of its requirements and is not too
\* long. Nothing is said of one checker beside the other: they accept different passwords.
THEOREM StrengthAgreesHolds == PasswordInit => StrengthAgrees
<1> SUFFICES ASSUME PasswordInit PROVE StrengthAgrees
  OBVIOUS
<1> DEFINE p == password
<1>1. p \in Password /\ p.length \in Nat
  BY PasswordsAssumption DEF PasswordInit, Passwords, Password, PasswordsAssumption
<1>2. p.hashed => p.length < 12
  BY DEF PasswordInit, Passwords
<1> HIDE DEF p
<1>3. ServiceAccepts(p) => ServiceStrength(p) = "strong"
  BY <1>1, Counted DEF ServiceAccepts, ServicePasses, ServiceStrength, ServiceScore, ServiceRequirements
<1>4. ServiceAccepts(p) <=> ServiceMeets(p) = ServiceRequirements /\ p.length <= MaxLength
  <2>1. ServiceMeets(p) = ServiceRequirements => p.length >= MinLength
    <3>1. "length" \in ServiceMeets(p) => p.length >= MinLength
      BY DEF ServiceMeets, ServiceRequirements
    <3>2. QED BY <3>1 DEF ServiceRequirements
  <2>2. QED BY <1>1, <1>2, <2>1 DEF ServiceAccepts, ServicePasses, MinLength
<1>5. Accepts(p) => Strength(p) = "strong" /\ Feedback(p) = {}
  <2> SUFFICES ASSUME Accepts(p) PROVE Strength(p) = "strong" /\ Feedback(p) = {}
    OBVIOUS
  <2>1. CharClasses(p) = {"upper", "lower", "digit", "special"}
    BY DEF Accepts, CharClasses
  <2>2. Penalty(p) = {}
    BY DEF Accepts, TooCommon, Penalty
  <2>3. LengthPoints(p) = 25
    BY <1>1 DEF Accepts, LengthPoints, MinLength
  <2>4. Score(p) = 85
    BY <2>1, <2>2, <2>3, Counted DEF Score
  <2>5. Strength(p) = "strong"
    BY <2>4 DEF Strength
  <2>6. ~(p.length < MinLength)
    BY <1>1 DEF Accepts, MinLength
  <2>7. Feedback(p) = {}
    BY <2>1, <2>2, <2>6 DEF Feedback
  <2>8. QED BY <2>5, <2>7
<1>6. QED BY <1>3, <1>4, <1>5 DEF StrengthAgrees, p

-----------------------------------------------------------------------------
(* Discovery.                                                                 *)

\* The registry has the jobs of x, and schedules for those that it schedules.
Registered(x) ==
  \A d \in Range(Registers[x]) : /\ d.name \in registry
                                 /\ d.schedule # "none" => d.name \in scheduled

\* What is marked was imported, and what was imported has its jobs in the registry.
Imported ==
  /\ discovered \subseteq loaded
  /\ \A x \in loaded : Registered(x)

\* Sequence s ends t.
Ends(s, t) == Len(s) <= Len(t) /\ \A i \in 1..Len(s) : s[i] = t[Len(t) - Len(s) + i]

\* What a walk has left behind was imported or has failed, and so has all of a package that
\* is marked.
Walked ==
  /\ walk # Idle =>
       /\ walk.package \in Domains /\ Jobs(walk.package) \in loaded
       /\ walk.left \in Seq(Modules)
       /\ Range(JobModules[walk.package]) \subseteq discovered \cup failed \cup Range(walk.left)
       /\ Ends(walk.left, JobModules[walk.package])
  /\ \A p \in Domains : Jobs(p) \in discovered => Range(JobModules[p]) \subseteq discovered \cup failed

\* While on_app_init treats the jobs, a package is still to be treated, is walked or was
\* treated; afterwards each was.
Treated(p) == Jobs(p) \in IF p \in Flat THEN loaded ELSE discovered
Started ==
  /\ phase = "jobs" => \A p \in Configured \ (Plain \cup unimported) :
       p \in todo \/ (walk # Idle /\ walk.package = p) \/ Treated(p)
  /\ phase \in {"listeners", "ready"} => \A p \in Configured \ (Plain \cup unimported) : Treated(p)

\* The controllers of the packages that a scan has left behind are found or lost.
Scanned ==
  /\ scan.list \subseteq Packages /\ scan.left \subseteq scan.list
  /\ scan.lost \subseteq scan.list \ scan.left
  /\ scan.found = ControllersOf((scan.list \ scan.left) \ scan.lost)
  /\ scan = [list |-> scan.list, left |-> scan.left, found |-> scan.found, lost |-> scan.lost]

Entries == [list : SUBSET Packages, lost : SUBSET Packages]

\* The cache has the controllers of the last scan and the packages of them all, and an
\* answer is what the cache has.
Cached ==
  /\ scans \in Seq(Entries)
  /\ cache.packages = UNION {scans[i].list : i \in 1..Len(scans)}
  /\ cache.known => /\ Len(scans) > 0
                    /\ cache.controllers =
                         ControllersOf(scans[Len(scans)].list \ scans[Len(scans)].lost)
  /\ asked # {} => cache.known /\ answer = cache.controllers /\ asked \subseteq cache.packages

AllClasses == UNION {Classes[p] : p \in Packages}

Typed ==
  /\ fault \in [Sources -> Faults]
  /\ loaded \subseteq Sources
  /\ scheduled \subseteq registry /\ registry \subseteq Names
  /\ cache.controllers \subseteq AllClasses /\ handlers \subseteq AllClasses
  /\ phase \in {"new", "controllers", "jobs", "listeners", "ready", "failed"}
  /\ todo \subseteq Configured
  /\ events \in 0..MaxEvents

DiscoveryInv == Imported /\ Walked /\ Started /\ Scanned /\ Cached /\ Typed

\* The controllers of some packages and of others are those of all.
LEMMA ControllersAdd ==
  ASSUME NEW A, NEW B PROVE ControllersOf(A \cup B) = ControllersOf(A) \cup ControllersOf(B)
BY DEF ControllersOf

\* Controllers are classes of the packages.
LEMMA ControllersAre == ASSUME NEW A, A \subseteq Packages PROVE ControllersOf(A) \subseteq AllClasses
BY DEF ControllersOf, FindControllers, AllClasses

\* What the invariant says of an answer is what is promised of it.
LEMMA AnswersCover == Cached => AnswerCovers
<1> SUFFICES ASSUME Cached, asked # {}
             PROVE  /\ answer = ControllersOf(Last(scans).list \ Last(scans).lost)
                    /\ \A p \in asked \ Last(scans).list : \E i \in 1..(Len(scans) - 1) : p \in scans[i].list
  BY DEF AnswerCovers
<1>1. Len(scans) \in Nat /\ Len(scans) > 0 /\ Last(scans) = scans[Len(scans)]
  BY LenProperties DEF Cached, Last
<1>2. ASSUME NEW p \in asked \ Last(scans).list PROVE \E i \in 1..(Len(scans) - 1) : p \in scans[i].list
  <2>1. PICK i \in 1..Len(scans) : p \in scans[i].list
    BY <1>2 DEF Cached
  <2>2. i # Len(scans)
    BY <1>1, <1>2, <2>1
  <2>3. QED BY <1>1, <2>1, <2>2
<1>3. QED BY <1>1, <1>2 DEF Cached

\* A call for controllers that the cache cannot answer begins a scan of them all.
LEMMA CallKeeps ==
  ASSUME Scanned, Cached, NEW ps, ps \subseteq Packages, DiscoverControllers(ps)
  PROVE  /\ Scanned' /\ Cached'
         /\ IsCached(ps) => answer' = cache.controllers
         /\ cache' = cache
<1>1. cache' = cache /\ scans' = scans
  BY DEF DiscoverControllers
<1>2. CASE IsCached(ps)
  BY <1>1, <1>2 DEF DiscoverControllers, Scanned, Cached, IsCached
<1>3. CASE ~IsCached(ps)
  <2>1. asked' = {} /\ scan' = [list |-> ps, left |-> ps, found |-> {}, lost |-> {}]
    BY <1>3 DEF DiscoverControllers, NoScan
  <2>2. ControllersOf({}) = {}
    BY DEF ControllersOf
  <2>3. Scanned'
    BY <2>1, <2>2 DEF Scanned
  <2>4. QED BY <1>1, <1>3, <2>1, <2>3 DEF Cached
<1>4. QED BY <1>2, <1>3

\* A scan leaves a package behind with its controllers, or as one that is lost.
LEMMA ScanKeeps ==
  ASSUME Scanned, NEW p \in scan.left, ScanPackage(p) \/ \E f, n : ScanFails(p, f, n)
  PROVE  Scanned'
<1>1. p \in scan.list /\ p \notin scan.lost
  BY DEF Scanned
<1>2. CASE ScanPackage(p)
  <2>1. scan' = [list |-> scan.list, left |-> scan.left \ {p},
                 found |-> scan.found \cup ControllersOf({p}), lost |-> scan.lost]
    BY <1>2 DEF ScanPackage, Scanned
  <2>2. (scan.list \ (scan.left \ {p})) \ scan.lost = ((scan.list \ scan.left) \ scan.lost) \cup {p}
    BY <1>1
  <2>3. scan'.found = ControllersOf((scan'.list \ scan'.left) \ scan'.lost)
    BY <2>1, <2>2, ControllersAdd DEF Scanned
  <2>4. QED BY <1>1, <2>1, <2>3 DEF Scanned
<1>3. ASSUME NEW f, NEW n, ScanFails(p, f, n) PROVE Scanned'
  <2>1. CASE f = "import"
    <3>1. scan' = [list |-> scan.list, left |-> scan.left \ {p},
                   found |-> scan.found, lost |-> scan.lost \cup {p}]
      BY <1>3, <2>1 DEF ScanFails, Scanned
    <3>2. (scan.list \ (scan.left \ {p})) \ (scan.lost \cup {p}) = (scan.list \ scan.left) \ scan.lost
      BY <1>1
    <3>3. QED BY <1>1, <3>1, <3>2 DEF Scanned
  <2>2. CASE f # "import"
    <3>1. scan' = NoScan /\ ControllersOf({}) = {}
      BY <1>3, <2>2 DEF ScanFails, ControllersOf
    <3>2. QED BY <3>1 DEF Scanned, NoScan
  <2>3. QED BY <2>1, <2>2
<1>4. QED BY <1>2, <1>3

\* The end of a scan caches what it found.
LEMMA FinishKeeps ==
  ASSUME Scanned, Cached, FinishScan
  PROVE  Scanned' /\ Cached' /\ cache'.controllers = scan.found /\ answer' = scan.found
<1> DEFINE e == [list |-> scan.list, lost |-> scan.lost]  L == Len(scans)
<1>1. e \in Entries /\ scan.found = ControllersOf(e.list \ e.lost)
  <2>1. (scan.list \ scan.left) \ scan.lost = scan.list \ scan.lost
    BY DEF FinishScan
  <2>2. QED BY <2>1 DEF Scanned, Entries
<1>2. /\ scans' = Append(scans, e) /\ asked' = e.list /\ answer' = scan.found
      /\ cache' = [known |-> TRUE, controllers |-> scan.found, packages |-> cache.packages \cup e.list]
  BY DEF FinishScan
<1> HIDE DEF e
<1>3. L \in Nat
  BY LenProperties DEF Cached
<1>4. /\ scans' \in Seq(Entries) /\ Len(scans') = L + 1 /\ scans'[L + 1] = e
      /\ \A i \in 1..L : scans'[i] = scans[i]
  BY <1>1, <1>2, AppendProperties DEF Cached
<1>5. cache'.packages = UNION {scans'[i].list : i \in 1..Len(scans')}
  <2>1. 1..(L + 1) = (1..L) \cup {L + 1}
    BY <1>3
  <2>2. {scans'[i].list : i \in 1..(L + 1)} = {scans[i].list : i \in 1..L} \cup {e.list}
    BY <1>4, <2>1
  <2>3. QED BY <1>2, <1>4, <2>2 DEF Cached
<1>6. Cached'
  BY <1>1, <1>2, <1>3, <1>4, <1>5 DEF Cached
<1>7. Scanned'
  <2>1. scan' = NoScan /\ ControllersOf({}) = {}
    BY DEF FinishScan, ControllersOf
  <2>2. QED BY <2>1 DEF Scanned, NoScan
<1>8. QED BY <1>2, <1>6, <1>7

\* Every step keeps what is known of the scan and of the cache.
LEMMA CachedStep ==
  ASSUME Scanned, Cached, [DiscoveryNext]_discoveryVars PROVE Scanned' /\ Cached'
<1>1. CASE UNCHANGED controllerVars
  BY <1>1 DEF Scanned, Cached, controllerVars
<1>2. ASSUME NEW ps, ps \subseteq Packages, DiscoverControllers(ps) PROVE Scanned' /\ Cached'
  BY <1>2, CallKeeps
<1>3. CASE ScanStep
  <2>1. CASE FinishScan
    BY <2>1, FinishKeeps
  <2>2. ASSUME NEW p \in scan.left, ScanPackage(p) \/ \E f, n : ScanFails(p, f, n)
        PROVE  Scanned' /\ Cached'
    <3>1. Scanned'
      BY <2>2, ScanKeeps
    <3>2. UNCHANGED <<cache, scans, asked, answer>>
      BY <2>2 DEF ScanPackage, ScanFails
    <3>3. QED BY <3>1, <3>2 DEF Cached
  <2>3. QED BY <1>3, <2>1, <2>2 DEF ScanStep
<1>4. CASE ClearDiscoveryCache
  <2>1. cache' = Empty /\ scans' = <<>> /\ asked' = {} /\ scan' = scan
    BY <1>4 DEF ClearDiscoveryCache, ClearCache
  <2>2. Len(<<>>) = 0 /\ <<>> \in Seq(Entries)
    OBVIOUS
  <2>3. Cached'
    BY <2>1, <2>2 DEF Cached, Empty
  <2>4. QED BY <2>1, <2>3 DEF Scanned
<1>5. CASE InitControllers
  BY <1>2, <1>5, DiscoveryAssumption DEF InitControllers, DiscoveryAssumption
<1>6. ASSUME NEW ps \in SUBSET Packages, CallDiscoverControllers(ps) PROVE Scanned' /\ Cached'
  BY <1>2, <1>6 DEF CallDiscoverControllers
<1>7. QED
  BY <1>1, <1>3, <1>4, <1>5, <1>6
     DEF DiscoveryNext, discoveryVars, WalkStep, EndJobs, Ready, InitJobs, InitListeners,
         CallDiscoverJobs, Change

\* The first members of a sequence are members of it.
LEMMA Prefix ==
  ASSUME NEW S, NEW s \in Seq(S), NEW n \in Nat, n <= Len(s)
  PROVE  Range(SubSeq(s, 1, n)) \subseteq Range(s)
<1>1. SubSeq(s, 1, n) = [i \in 1..n |-> s[i]]
  OBVIOUS
<1>2. QED BY <1>1, LenProperties DEF Range

\* A sequence has its head and the members of its tail.
LEMMA HeadAndTail ==
  ASSUME NEW S, NEW s \in Seq(S), s # <<>>
  PROVE  Head(s) \in S /\ Tail(s) \in Seq(S) /\ Range(s) = {Head(s)} \cup Range(Tail(s))
<1>1. /\ Head(s) \in S /\ Tail(s) \in Seq(S) /\ Len(Tail(s)) = Len(s) - 1 /\ Len(s) \in Nat
      /\ \A i \in 1..Len(Tail(s)) : Tail(s)[i] = s[i + 1]
      /\ Head(s) = s[1] /\ Len(s) >= 1 /\ Len(Tail(s)) \in Nat
  BY HeadTailProperties, LenProperties
<1>2. /\ Range(s) = {s[i] : i \in 1..Len(s)}
      /\ Range(Tail(s)) = {Tail(s)[i] : i \in 1..Len(Tail(s))}
  BY <1>1, RangeEquality
<1>3. ASSUME NEW i \in 1..Len(s) PROVE s[i] \in {Head(s)} \cup Range(Tail(s))
  <2>1. CASE i = 1
    BY <1>1, <2>1
  <2>2. CASE i # 1
    <3>1. i - 1 \in 1..Len(Tail(s)) /\ s[i] = Tail(s)[i - 1]
      BY <1>1, <2>2
    <3>2. QED BY <1>2, <3>1
  <2>3. QED BY <2>1, <2>2
<1>4. ASSUME NEW i \in 1..Len(Tail(s)) PROVE Tail(s)[i] \in Range(s)
  <2>1. i + 1 \in 1..Len(s) /\ Tail(s)[i] = s[i + 1]
    BY <1>1
  <2>2. QED BY <1>2, <2>1
<1>5. Head(s) \in Range(s)
  BY <1>1, <1>2
<1>6. QED BY <1>1, <1>2, <1>3, <1>4, <1>5

\* What ends a sequence still ends it without its first member.
LEMMA EndsTail ==
  ASSUME NEW S, NEW s \in Seq(S), NEW t \in Seq(S), s # <<>>, Ends(s, t)
  PROVE  Ends(Tail(s), t)
<1>1. /\ Len(Tail(s)) = Len(s) - 1 /\ Len(s) \in Nat /\ Len(t) \in Nat
      /\ \A i \in 1..Len(Tail(s)) : Tail(s)[i] = s[i + 1]
      /\ Len(s) <= Len(t) /\ \A i \in 1..Len(s) : s[i] = t[Len(t) - Len(s) + i]
  BY HeadTailProperties, LenProperties DEF Ends
<1>2. ASSUME NEW i \in 1..Len(Tail(s)) PROVE Tail(s)[i] = t[Len(t) - Len(Tail(s)) + i]
  <2>1. i + 1 \in 1..Len(s) /\ Tail(s)[i] = s[i + 1]
    BY <1>1
  <2>2. s[i + 1] = t[Len(t) - Len(s) + (i + 1)]
    BY <1>1, <2>1
  <2>3. Len(t) - Len(s) + (i + 1) = Len(t) - Len(Tail(s)) + i
    BY <1>1
  <2>4. QED BY <2>1, <2>2, <2>3
<1>3. QED BY <1>1, <1>2 DEF Ends

\* What the modules of a domain and the body of its import are.
LEMMA Modular ==
  ASSUME NEW p \in Domains
  PROVE  /\ JobModules[p] \in Seq(Modules) /\ Range(JobModules[p]) \subseteq Modules
         /\ Jobs(p) \notin Modules /\ Modules \subseteq Sources
         /\ Len(Body(p)) \in Nat /\ Jobs(p) \in New(p, Len(Body(p))) \cup loaded
         /\ \A k \in 0..Len(Body(p)) : New(p, k) \subseteq Sources
         /\ \A k \in 1..Len(Body(p)) : Body(p)[k] \in Sources
<1> DEFINE T == Range(JobModules[p]) \cup {Controllers(p), Jobs(p), <<p, "domain">>}
           R == ReExports[p]   B == Body(p)
           first == <<Controllers(p)>>   last == <<Jobs(p), <<p, "domain">>>>
<1>1. JobModules[p] \in Seq(Modules) /\ Range(JobModules[p]) \subseteq Modules /\ Jobs(p) \notin Modules
  BY DiscoveryAssumption DEF DiscoveryAssumption, Modules, Domains
<1>2. Modules \subseteq Sources
  BY DEF Modules, Sources
<1>3. R \in Seq(T)
  BY DiscoveryAssumption, SeqMonotonic DEF DiscoveryAssumption
<1>4. first \in Seq(T) /\ Len(first) = 1 /\ last \in Seq(T) /\ Len(last) = 2 /\ last[1] = Jobs(p)
  OBVIOUS
<1>5. B = (first \o R) \o last
  BY DEF Body
<1> HIDE DEF first, last, R, T, B
<1>6. first \o R \in Seq(T) /\ Len(first \o R) = 1 + Len(R) /\ Len(R) \in Nat
  <2>1. Len(R) \in Nat
    BY <1>3, LenProperties
  <2>2. first \o R \in Seq(T) /\ Len(first \o R) = Len(first) + Len(R)
    BY <1>3, <1>4, ConcatProperties
  <2>3. QED BY <1>4, <2>1, <2>2
<1>7. /\ B \in Seq(T) /\ Len(B) = Len(R) + 3
      /\ \A i \in 1..(Len(R) + 3) :
           B[i] = IF i <= 1 + Len(R) THEN (first \o R)[i] ELSE last[i - (1 + Len(R))]
  <2>1. Len(first \o R) + Len(last) = Len(R) + 3
    BY <1>4, <1>6
  <2> DEFINE f == first \o R
  <2>2. f \in Seq(T) /\ Len(f) = 1 + Len(R) /\ B = f \o last
    BY <1>5, <1>6
  <2>3. Len(f) + Len(last) = Len(R) + 3
    BY <2>1
  <2> HIDE DEF f
  <2>4. /\ f \o last \in Seq(T) /\ Len(f \o last) = Len(R) + 3
        /\ \A i \in 1..(Len(R) + 3) :
             (f \o last)[i] = IF i <= Len(f) THEN f[i] ELSE last[i - Len(f)]
    <3>1. f \in Seq(T) /\ last \in Seq(T)
      BY <1>4, <2>2
    <3>2. /\ f \o last \in Seq(T) /\ Len(f \o last) = Len(f) + Len(last)
          /\ \A i \in 1..(Len(f) + Len(last)) :
               (f \o last)[i] = IF i <= Len(f) THEN f[i] ELSE last[i - Len(f)]
      BY <3>1, ConcatProperties
    <3>3. QED BY <2>3, <3>2, Zenon
  <2>5. QED BY <2>2, <2>4 DEF f
<1>8. Len(B) \in Nat /\ Len(R) + 2 \in 1..Len(B) /\ B[Len(R) + 2] = Jobs(p)
  <2>1. Len(R) + 2 \in 1..(Len(R) + 3) /\ ~(Len(R) + 2 <= 1 + Len(R)) /\ Len(R) + 2 - (1 + Len(R)) = 1
    BY <1>6
  <2>2. QED BY <1>4, <1>6, <1>7, <2>1
<1>9. \A k \in 1..Len(B) : B[k] \in Sources
  <2>1. \A k \in 1..Len(B) : B[k] \in Range(B)
    BY <1>7, LenProperties DEF Range
  <2>2. Range(B) \subseteq Sources
    BY DEF Sources, B
  <2>3. QED BY <2>1, <2>2
<1>10. \A k \in 0..Len(B) : New(p, k) \subseteq Sources
  BY <1>8, <1>9 DEF New, B
<1>11. Jobs(p) \in New(p, Len(B)) \cup loaded
  BY <1>8 DEF New, B
<1>12. QED BY <1>1, <1>2, <1>8, <1>9, <1>10, <1>11 DEF B

\* What registering leaves: it adds names, and what it is given is registered.
LEMMA RegisterDoes ==
  ASSUME NEW ds, Register(ds)
  PROVE  /\ registry \subseteq registry' /\ scheduled \subseteq scheduled'
         /\ \A x : Registered(x) => Registered(x)'
         /\ \A x : Range(Registers[x]) \subseteq ds => Registered(x)'
  BY DEF Register, Registered

\* Nothing that was imported or registered is lost, and what is imported is registered.
Grown ==
  /\ loaded \subseteq loaded' /\ loaded' \subseteq Sources
  /\ scheduled' \subseteq registry' /\ registry' \subseteq Names
  /\ \A x \in loaded' : Registered(x)'

\* Importing X with what it registers, and perhaps more, is of that kind.
LEMMA RegisterGrows ==
  ASSUME Imported, Typed, NEW X, X \subseteq Sources, loaded' = loaded \cup X,
         NEW ds, Register(ds), \A x \in X : Range(Registers[x]) \subseteq ds,
         \A d \in ds : d.name \in Names
  PROVE  Grown
<1>1. \A x \in loaded' : Registered(x)'
  BY RegisterDoes DEF Imported
<1>2. scheduled' \subseteq registry' /\ registry' \subseteq Names
  BY DEF Register, Typed
<1>3. QED BY <1>1, <1>2 DEF Grown, Typed

\* The jobs of what runs are named.
LEMMA Named ==
  ASSUME NEW x \in Sources
  PROVE  /\ \A d \in Range(Registers[x]) : d.name \in Names
         /\ \A n \in 0..2 : n <= Len(Registers[x]) =>
              \A d \in Range(SubSeq(Registers[x], 1, n)) : d.name \in Names
<1>1. \A d \in Range(Registers[x]) : d.name \in Names
  BY DEF Names
<1>2. ASSUME NEW n \in 0..2, n <= Len(Registers[x])
      PROVE  Range(SubSeq(Registers[x], 1, n)) \subseteq Range(Registers[x])
  BY <1>2, Prefix, DiscoveryAssumption DEF DiscoveryAssumption
<1>3. QED BY <1>1, <1>2

\* An import that succeeds leaves the jobs' package imported.
LEMMA ImportGrows ==
  ASSUME Imported, Typed, NEW p \in Domains, NEW x, Imports(p, x)
  PROVE  Grown /\ (x = Jobs(p) => Jobs(p) \in loaded')
<1>1. CASE x \in loaded
  BY <1>1 DEF Imports, importVars, Imported, Typed, Grown, Registered
<1>2. CASE x \notin loaded
  <2> DEFINE X == New(p, Len(Body(p)))  ds == NewJobs(p, Len(Body(p)))
  <2>1. loaded' = loaded \cup X /\ Register(ds)
    BY <1>2 DEF Imports
  <2>2. X \subseteq Sources /\ Jobs(p) \in X \cup loaded
    BY Modular
  <2>3. \A y \in X : Range(Registers[y]) \subseteq ds
    BY DEF NewJobs
  <2>4. \A d \in ds : d.name \in Names
    BY <2>2, Named DEF NewJobs
  <2> HIDE DEF X, ds
  <2>5. QED BY <2>1, <2>2, <2>3, <2>4, RegisterGrows
<1>3. QED BY <1>1, <1>2

\* An import that fails leaves what it ran before imported.
LEMMA FailureGrows ==
  ASSUME Imported, Typed, NEW p \in Domains, NEW x, NEW f, NEW n \in 0..2, ImportRaises(p, x, f, n)
  PROVE  Grown
<1>1. PICK k \in 1..Len(Body(p)) :
        /\ n <= Len(Registers[Body(p)[k]])
        /\ loaded' = loaded \cup New(p, k - 1)
        /\ Register(NewJobs(p, k - 1) \cup Range(SubSeq(Registers[Body(p)[k]], 1, n)))
  BY DEF ImportRaises
<1> DEFINE X == New(p, k - 1)  more == Range(SubSeq(Registers[Body(p)[k]], 1, n))
           ds == NewJobs(p, k - 1) \cup more
<1>2. Body(p)[k] \in Sources /\ X \subseteq Sources
  <2>1. k - 1 \in 0..Len(Body(p)) /\ k \in 1..Len(Body(p))
    BY Modular
  <2>2. QED BY <2>1, Modular
<1>3. \A d \in more : d.name \in Names
  BY <1>1, <1>2, Named
<1>4. \A d \in NewJobs(p, k - 1) : d.name \in Names
  BY <1>2, Named DEF NewJobs
<1>5. \A y \in X : Range(Registers[y]) \subseteq ds
  BY DEF NewJobs
<1>6. loaded' = loaded \cup X /\ Register(ds) /\ \A d \in ds : d.name \in Names
  BY <1>1, <1>3, <1>4
<1> HIDE DEF X, ds, more
<1>7. QED BY <1>2, <1>5, <1>6, RegisterGrows

\* Every step lets the imports grow.
LEMMA GrowingStep ==
  ASSUME Imported, Walked, Scanned, Typed, [DiscoveryNext]_discoveryVars
  PROVE  Grown
<1>1. ASSUME UNCHANGED importVars PROVE Grown
  BY <1>1 DEF Imported, Typed, Grown, Registered, importVars
<1>2. ASSUME NEW p \in Domains, NEW x, Imports(p, x) PROVE Grown
  BY <1>2, ImportGrows
<1>3. ASSUME NEW p \in Domains, NEW x, NEW f, NEW n \in 0..2, ImportRaises(p, x, f, n) PROVE Grown
  BY <1>3, FailureGrows
<1>4. ASSUME Walking PROVE Module \in Modules /\ Module \in Sources
  <2>1. walk.left \in Seq(Modules) /\ walk.left # <<>> /\ walk.package \in Domains
    BY <1>4 DEF Walking, Walked
  <2>2. QED BY <2>1, HeadAndTail, Modular DEF Module
<1>5. CASE LoadModule
  <2>1. Module \in Sources /\ loaded' = loaded \cup {Module}
    BY <1>4, <1>5 DEF LoadModule
  <2>2. CASE Runs(Module)
    <3> DEFINE X == {Module}  ds == Range(Registers[Module])
    <3>1. Register(ds) /\ \A d \in ds : d.name \in Names
      BY <1>5, <2>1, <2>2, Named DEF LoadModule
    <3>2. X \subseteq Sources /\ loaded' = loaded \cup X /\ \A y \in X : Range(Registers[y]) \subseteq ds
      BY <2>1
    <3> HIDE DEF X, ds
    <3>3. QED BY <3>1, <3>2, RegisterGrows
  <2>3. CASE ~Runs(Module)
    <3>1. UNCHANGED importVars
      BY <1>5, <2>1, <2>3 DEF LoadModule, Runs, importVars
    <3>2. QED BY <1>1, <3>1
  <2>4. QED BY <2>2, <2>3
<1>6. ASSUME NEW n \in 0..2, FailModule(n) PROVE Grown
  <2> DEFINE ds == Range(SubSeq(Registers[Module], 1, n))  X == {}
  <2>1. Module \in Sources /\ loaded' = loaded \cup X /\ Register(ds) /\ n <= Len(Registers[Module])
    BY <1>4, <1>6 DEF FailModule
  <2>2. \A d \in ds : d.name \in Names
    BY <2>1, Named
  <2>3. X \subseteq Sources /\ \A y \in X : Range(Registers[y]) \subseteq ds
    OBVIOUS
  <2> HIDE DEF ds, X
  <2>4. QED BY <2>1, <2>2, <2>3, RegisterGrows
<1>7. CASE WalkStep
  BY <1>1, <1>5, <1>6, <1>7 DEF WalkStep, PassModule, FinishWalk
<1>8. CASE ScanStep
  <2>1. scan.left \ Plain \subseteq Domains
    BY DEF Scanned, Domains
  <2>2. ASSUME NEW p \in scan.left, ScanPackage(p) PROVE Grown
    BY <1>1, <1>2, <2>1, <2>2 DEF ScanPackage
  <2>3. ASSUME NEW p \in scan.left, NEW f, NEW n \in 0..2, ScanFails(p, f, n) PROVE Grown
    BY <1>3, <2>1, <2>3 DEF ScanFails
  <2>4. QED BY <1>1, <1>8, <2>2, <2>3 DEF ScanStep
<1>9. ASSUME NEW p \in Configured, InitJobs(p) \/ InitListeners(p) PROVE Grown
  <2>1. p \notin Plain => p \in Domains
    BY DiscoveryAssumption DEF Domains, DiscoveryAssumption
  <2>2. QED BY <1>1, <1>2, <1>3, <1>9, <2>1 DEF InitJobs, InitListeners, Walk, WalkFails, jobVars
<1>10. ASSUME NEW p \in Domains, NEW force, CallDiscoverJobs(p, force) PROVE Grown
  BY <1>2, <1>3, <1>10 DEF CallDiscoverJobs, Walk, WalkFails
<1>11. QED
  BY <1>1, <1>7, <1>8, <1>9, <1>10
     DEF DiscoveryNext, discoveryVars, jobVars, InitControllers, EndJobs, Ready,
         ClearDiscoveryCache, CallDiscoverControllers, Change

\* Every step marks only what was imported, and keeps the marks.
LEMMA ImportedStep ==
  ASSUME Imported, Walked, Scanned, Typed, [DiscoveryNext]_discoveryVars
  PROVE  Imported' /\ discovered \subseteq discovered' /\ failed \subseteq failed'
         /\ unimported \subseteq unimported'
<1>1. Grown
  BY GrowingStep
<1> DEFINE Kept == /\ discovered \subseteq discovered' /\ discovered' \subseteq loaded'
                   /\ failed \subseteq failed' /\ unimported \subseteq unimported'
<1>2. ASSUME UNCHANGED <<discovered, failed, unimported>> PROVE Kept
  BY <1>1, <1>2 DEF Grown, Imported
<1>3. ASSUME NEW p, NEW force, Walk(p, force) PROVE Kept
  BY <1>2, <1>3 DEF Walk
<1>4. ASSUME NEW p, NEW force, NEW f, NEW n, WalkFails(p, force, f, n) PROVE Kept
  BY <1>1, <1>4 DEF WalkFails, Grown, Imported
<1>5. ASSUME WalkStep PROVE Kept
  <2>1. ASSUME PassModule PROVE Kept
    BY <1>2, <2>1 DEF PassModule
  <2>2. ASSUME LoadModule PROVE Kept
    BY <1>1, <2>2 DEF LoadModule, Grown, Imported
  <2>3. ASSUME NEW n, FailModule(n) PROVE Kept
    BY <1>1, <2>3 DEF FailModule, Grown, Imported
  <2>4. ASSUME FinishWalk PROVE Kept
    BY <1>1, <2>4 DEF FinishWalk, Grown, Imported, Walked
  <2>5. QED BY <1>5, <2>1, <2>2, <2>3, <2>4 DEF WalkStep
<1>6. ASSUME NEW p, InitJobs(p) PROVE Kept
  BY <1>2, <1>3, <1>4, <1>6 DEF InitJobs, jobVars
<1>7. ASSUME NEW p, NEW force, CallDiscoverJobs(p, force) PROVE Kept
  BY <1>3, <1>4, <1>7 DEF CallDiscoverJobs
<1>8. Kept
  BY <1>2, <1>5, <1>6, <1>7
     DEF DiscoveryNext, discoveryVars, jobVars, InitControllers, EndJobs, Ready, ScanStep, InitListeners,
         ClearDiscoveryCache, CallDiscoverControllers, Change
<1>9. QED BY <1>1, <1>8 DEF Imported, Grown

\* A walk that goes on is still a walk of its package.
LEMMA ProceedDoes ==
  ASSUME Walked, Walking, Proceed
  PROVE  /\ walk'.left = Tail(walk.left) /\ walk'.package = walk.package /\ walk' # Idle
         /\ Tail(walk.left) \in Seq(Modules) /\ Range(walk.left) = {Module} \cup Range(Tail(walk.left))
         /\ Module \in Modules /\ walk.package \in Domains
<1>1. walk.left \in Seq(Modules) /\ walk.left # <<>> /\ walk # Idle /\ walk.package \in Domains
  BY DEF Walking, Walked
<1>2. walk'.left = Tail(walk.left) /\ walk'.package = walk.package
  BY DEF Proceed
<1>3. walk.package # "none"
  BY <1>1, DiscoveryAssumption DEF DiscoveryAssumption, Domains
<1>4. QED BY <1>1, <1>2, <1>3, HeadAndTail DEF Module, Idle

\* Every step keeps Walked: a walk passes a module that is marked, loaded or has failed.
LEMMA WalkedStep ==
  ASSUME Imported, Walked, Scanned, Typed, [DiscoveryNext]_discoveryVars PROVE Walked'
<1>1. loaded \subseteq loaded' /\ discovered \subseteq discovered' /\ failed \subseteq failed'
  BY GrowingStep, ImportedStep DEF Grown
<1>2. CASE UNCHANGED <<walk, discovered>>
  BY <1>1, <1>2 DEF Walked
<1>3. ASSUME NEW p \in Domains, NEW force, Walk(p, force) PROVE Walked'
  <2>1. Len(JobModules[p]) \in Nat /\ JobModules[p] \in Seq(Modules)
    BY Modular, LenProperties
  <2>2. \A l \in Nat : l <= l /\ \A i \in 1..l : l - l + i = i
    OBVIOUS
  <2>3. Ends(JobModules[p], JobModules[p])
    BY <2>1, <2>2 DEF Ends
  <2>4. Jobs(p) \in loaded'
    BY <1>3, ImportGrows DEF Walk
  <2>5. CASE p \in Flat
    BY <1>1, <1>3, <2>5 DEF Walk, Walked
  <2>6. CASE p \notin Flat
    <3>1. walk'.left = JobModules[p] /\ walk'.package = p /\ discovered' = discovered /\ failed' = failed
      BY <1>3, <2>6 DEF Walk
    <3>2. QED BY <2>1, <2>3, <2>4, <3>1 DEF Walked
  <2>7. QED BY <2>5, <2>6
<1>4. ASSUME Walking, Proceed, \A p \in Domains : Jobs(p) \in discovered' => Jobs(p) \in discovered,
             Module \in discovered' \cup failed'
      PROVE  Walked'
  <2>1. /\ walk.left \in Seq(Modules) /\ walk.left # <<>> /\ walk # Idle /\ walk.package \in Domains
        /\ Range(JobModules[walk.package]) \subseteq discovered \cup failed \cup Range(walk.left)
        /\ Jobs(walk.package) \in loaded
    BY <1>4 DEF Walking, Walked
  <2>2. /\ walk'.left = Tail(walk.left) /\ walk'.package = walk.package
        /\ Tail(walk.left) \in Seq(Modules) /\ Range(walk.left) = {Module} \cup Range(Tail(walk.left))
    BY <1>4, ProceedDoes
  <2>3. Ends(Tail(walk.left), JobModules[walk.package])
    BY <2>1, Modular, EndsTail DEF Walked
  <2>4. QED BY <1>1, <1>4, <2>1, <2>2, <2>3 DEF Walked
<1>5. CASE WalkStep
  <2>1. CASE PassModule
    BY <1>4, <2>1 DEF PassModule
  <2>2. CASE LoadModule
    <3>1. Module \in Modules
      BY <2>2, ProceedDoes DEF LoadModule
    <3>2. \A p \in Domains : Jobs(p) \in discovered' => Jobs(p) \in discovered
      BY <2>2, <3>1, Modular DEF LoadModule
    <3>3. QED BY <1>4, <2>2, <3>2 DEF LoadModule
  <2>3. ASSUME NEW n, FailModule(n) PROVE Walked'
    <3>1. CASE fault[Module] = "value"
      BY <1>1, <2>3, <3>1 DEF FailModule, Walked
    <3>2. CASE fault[Module] # "value"
      BY <1>4, <2>3, <3>2 DEF FailModule
    <3>3. QED BY <3>1, <3>2
  <2>4. CASE FinishWalk
    <3>1. Range(<<>>) = {}
      BY DEF Range
    <3>2. /\ discovered' = discovered \cup {Jobs(walk.package)} /\ failed' = failed /\ walk' = Idle
          /\ Range(JobModules[walk.package]) \subseteq discovered \cup failed
      BY <2>4, <3>1 DEF FinishWalk, Walked
    <3>3. ASSUME NEW p \in Domains, Jobs(p) \in discovered'
          PROVE  Range(JobModules[p]) \subseteq discovered' \cup failed'
      <4>1. Jobs(p) \in discovered \/ p = walk.package
        BY <3>2, <3>3 DEF Jobs
      <4>2. QED BY <3>2, <4>1 DEF Walked
    <3>4. QED BY <3>2, <3>3 DEF Walked
  <2>5. QED BY <1>5, <2>1, <2>2, <2>3, <2>4 DEF WalkStep
<1>6. ASSUME NEW p \in Configured, InitJobs(p) PROVE Walked'
  <2>1. p \notin Plain => p \in Domains
    BY DiscoveryAssumption DEF Domains, DiscoveryAssumption
  <2>2. QED BY <1>2, <1>3, <1>6, <2>1 DEF InitJobs, WalkFails, jobVars
<1>7. ASSUME NEW p \in Domains, NEW force, CallDiscoverJobs(p, force) PROVE Walked'
  BY <1>2, <1>3, <1>7 DEF CallDiscoverJobs, WalkFails
<1>8. QED
  BY <1>2, <1>5, <1>6, <1>7
     DEF DiscoveryNext, discoveryVars, jobVars, InitControllers, EndJobs, Ready, ScanStep, InitListeners,
         ClearDiscoveryCache, CallDiscoverControllers, Change

\* Every step keeps Started: on_app_init leaves a package's jobs behind when they are treated.
LEMMA StartedStep ==
  ASSUME Imported, Walked, Scanned, Started, Typed, [DiscoveryNext]_discoveryVars PROVE Started'
<1>1. /\ loaded \subseteq loaded' /\ discovered \subseteq discovered' /\ unimported \subseteq unimported'
      /\ \A p : Treated(p) => Treated(p)'
  BY GrowingStep, ImportedStep DEF Grown, Treated
<1>2. CASE phase' = phase /\ todo' = todo /\ walk' = walk
  BY <1>1, <1>2 DEF Started
<1>3. CASE phase' \in {"new", "controllers", "failed"}
  BY <1>3 DEF Started
<1>4. CASE phase' = "jobs" /\ todo' = Configured
  BY <1>4 DEF Started
<1>5. CASE phase' = phase /\ phase \notin {"jobs"}
  BY <1>1, <1>5 DEF Started
<1>6. CASE EndJobs
  BY <1>1, <1>6 DEF EndJobs, Started
<1>7. CASE Ready
  BY <1>1, <1>7 DEF Ready, Started
<1>8. CASE WalkStep
  <2>1. CASE phase # "jobs"
    BY <1>5, <1>8, <2>1 DEF WalkStep
  <2>2. CASE phase = "jobs" /\ Walking /\ Proceed
    <3>1. walk'.package = walk.package /\ walk' # Idle /\ todo' = todo /\ phase' = phase
      BY <1>8, <2>2, ProceedDoes DEF WalkStep
    <3>2. QED BY <1>1, <2>2, <3>1 DEF Started
  <2>3. CASE phase = "jobs" /\ FinishWalk
    <3>1. /\ todo' = todo /\ phase' = "jobs" /\ walk' = Idle
          /\ Jobs(walk.package) \in discovered' /\ Jobs(walk.package) \in loaded'
      BY <1>1, <1>8, <2>3 DEF WalkStep, FinishWalk, Walked
    <3>2. ASSUME NEW p, p = walk.package PROVE Treated(p)'
      BY <3>1, <3>2 DEF Treated
    <3>3. QED BY <1>1, <2>3, <3>1, <3>2 DEF Started
  <2>4. CASE phase = "jobs" /\ \E n \in 0..2 : FailModule(n) /\ walk' = Idle
    <3>1. walk.left # <<>> /\ walk' = Idle
      BY <2>4 DEF FailModule, Walking
    <3>2. QED BY <1>3, <1>8, <2>4, <3>1 DEF WalkStep
  <2>5. QED BY <1>8, <2>1, <2>2, <2>3, <2>4 DEF WalkStep, PassModule, LoadModule, FailModule
<1>9. ASSUME NEW p \in Configured, InitJobs(p) PROVE Started'
  <2>1. phase = "jobs" /\ todo' = todo \ {p} /\ walk = Idle
    BY <1>9 DEF InitJobs
  <2>2. ASSUME phase' = "jobs", walk' = Idle \/ walk'.package = p,
               p \in Plain \cup unimported' \/ (walk' # Idle /\ walk'.package = p) \/ Treated(p)'
        PROVE  Started'
    BY <1>1, <2>1, <2>2 DEF Started
  <2>3. CASE p \in Plain /\ UNCHANGED <<jobVars, phase>>
    BY <2>1, <2>2, <2>3 DEF jobVars
  <2>4. CASE Jobs(p) \in discovered /\ UNCHANGED <<jobVars, phase>>
    <3>1. Treated(p)'
      BY <1>1, <2>4 DEF Treated, Imported
    <3>2. QED BY <2>1, <2>2, <2>4, <3>1 DEF jobVars
  <2>5. CASE p \notin Plain /\ Walk(p, FALSE) /\ UNCHANGED phase
    <3>1. p \in Domains /\ p # "none"
      BY <2>5, DiscoveryAssumption DEF Domains, DiscoveryAssumption
    <3>2. CASE p \in Flat
      <4>1. Jobs(p) \in loaded' /\ walk' = Idle
        BY <2>5, <3>1, <3>2, ImportGrows DEF Walk
      <4>2. QED BY <2>1, <2>2, <2>5, <3>2, <4>1 DEF Treated
    <3>3. CASE p \notin Flat
      <4>1. walk'.package = p /\ walk' # Idle
        BY <2>5, <3>1, <3>3 DEF Walk, Idle
      <4>2. QED BY <2>1, <2>2, <2>5, <4>1
    <3>4. QED BY <3>2, <3>3
  <2>6. ASSUME NEW f \in Errors, NEW n, WalkFails(p, FALSE, f, n),
               phase' = IF f = "import" THEN phase ELSE "failed"
        PROVE  Started'
    <3>1. CASE f = "import"
      BY <2>1, <2>2, <2>6, <3>1 DEF WalkFails
    <3>2. CASE f # "import"
      BY <1>3, <2>6, <3>2
    <3>3. QED BY <3>1, <3>2
  <2>7. QED BY <1>9, <2>3, <2>4, <2>5, <2>6 DEF InitJobs
<1>10. ASSUME NEW p, InitListeners(p) PROVE Started'
  <2>1. phase = "listeners" /\ (phase' = phase \/ phase' = "failed")
    BY <1>10 DEF InitListeners
  <2>2. QED BY <1>3, <1>5, <2>1
<1>11. ASSUME NEW p, NEW force, CallDiscoverJobs(p, force) PROVE Started'
  BY <1>5, <1>11 DEF CallDiscoverJobs, Quiet, appVars
<1>12. CASE ScanStep
  <2>1. phase' = "failed" \/ (phase' = "jobs" /\ todo' = Configured)
        \/ (phase' = phase /\ todo' = todo /\ walk' = walk)
    BY <1>12 DEF ScanStep, appVars
  <2>2. QED BY <1>2, <1>3, <1>4, <2>1
<1>13. CASE InitControllers
  BY <1>3, <1>4, <1>13 DEF InitControllers
<1>14. QED
  BY <1>2, <1>6, <1>7, <1>8, <1>9, <1>10, <1>11, <1>12, <1>13
     DEF DiscoveryNext, discoveryVars, jobVars, appVars, ClearDiscoveryCache, CallDiscoverControllers, Change

\* Every step keeps the types.
LEMMA TypedStep ==
  ASSUME Imported, Walked, Scanned, Cached, Typed, [DiscoveryNext]_discoveryVars PROVE Typed'
<1>1. Grown
  BY GrowingStep
<1> DEFINE App == /\ handlers' \subseteq AllClasses /\ todo' \subseteq Configured
                  /\ phase' \in {"new", "controllers", "jobs", "listeners", "ready", "failed"}
           Data == /\ fault' \in [Sources -> Faults] /\ cache'.controllers \subseteq AllClasses
                   /\ events' \in 0..MaxEvents
<1>2. ASSUME Event PROVE events' \in 0..MaxEvents
  BY <1>2, DiscoveryAssumption DEF Event, Typed, DiscoveryAssumption
<1>3. ASSUME App, Data PROVE Typed'
  BY <1>1, <1>3 DEF Grown, Typed
<1>4. ASSUME UNCHANGED appVars PROVE App
  BY <1>4 DEF appVars, Typed
<1>5. ASSUME UNCHANGED <<fault, events, cache>> PROVE Data
  BY <1>5 DEF Typed
<1>6. CASE InitControllers
  <2>1. Configured \subseteq Packages /\ DiscoverControllers(Configured)
    BY <1>6, DiscoveryAssumption DEF InitControllers, DiscoveryAssumption
  <2>2. cache' = cache /\ UNCHANGED <<fault, events>>
    BY <1>6, <2>1 DEF InitControllers, DiscoverControllers
  <2>3. IsCached(Configured) => answer' = cache.controllers
    BY <2>1 DEF DiscoverControllers
  <2>4. App
    BY <1>6, <2>3 DEF InitControllers, Typed
  <2>5. QED BY <1>3, <1>5, <2>2, <2>4
<1>7. CASE ScanStep
  <2>1. CASE FinishScan
    <3>1. cache'.controllers = scan.found /\ answer' = scan.found
      BY <2>1 DEF FinishScan
    <3>2. scan.found \subseteq AllClasses
      BY ControllersAre DEF Scanned
    <3>3. UNCHANGED <<fault, events>>
      BY <1>7 DEF ScanStep
    <3>4. Data
      BY <3>1, <3>2, <3>3 DEF Typed
    <3>5. scan # NoScan /\ scan' = NoScan /\ scan.left = {}
      BY <2>1 DEF FinishScan
    <3>6. App
      BY <1>7, <3>1, <3>2, <3>5 DEF ScanStep, Typed, appVars
    <3>7. QED BY <1>3, <3>4, <3>6
  <2>2. CASE ~FinishScan
    <3>1. App
      BY <1>7, <2>2 DEF ScanStep, Typed, appVars
    <3>2. UNCHANGED <<fault, events, cache>>
      BY <1>7, <2>2 DEF ScanStep, ScanPackage, ScanFails
    <3>3. QED BY <1>3, <1>5, <3>1, <3>2
  <2>3. QED BY <2>1, <2>2
<1>8. CASE WalkStep \/ EndJobs \/ Ready
  <2>1. UNCHANGED <<fault, events, cache, handlers>>
    BY <1>8 DEF WalkStep, EndJobs, Ready, controllerVars
  <2>2. App
    BY <1>8, <2>1 DEF WalkStep, EndJobs, Ready, Typed
  <2>3. QED BY <1>3, <1>5, <2>1, <2>2
<1>9. ASSUME NEW p, InitJobs(p) \/ InitListeners(p) PROVE Typed'
  <2>1. UNCHANGED <<fault, events, cache, handlers>> /\ todo' = todo \ {p}
    BY <1>9 DEF InitJobs, InitListeners, controllerVars
  <2>2. phase' = phase \/ phase' = "failed"
    BY <1>9 DEF InitJobs, InitListeners
  <2>3. App
    BY <2>1, <2>2 DEF Typed
  <2>4. QED BY <1>3, <1>5, <2>1, <2>3
<1>10. CASE ClearDiscoveryCache
  BY <1>2, <1>3, <1>4, <1>10 DEF ClearDiscoveryCache, ClearCache, Empty, Typed
<1>11. ASSUME NEW p, NEW force, CallDiscoverJobs(p, force) PROVE Typed'
  BY <1>2, <1>3, <1>4, <1>11 DEF CallDiscoverJobs, controllerVars, Typed
<1>12. ASSUME NEW ps, CallDiscoverControllers(ps) PROVE Typed'
  BY <1>2, <1>3, <1>4, <1>12 DEF CallDiscoverControllers, DiscoverControllers, Typed
<1>13. ASSUME NEW x, NEW f \in Faults, Change(x, f) PROVE Typed'
  BY <1>2, <1>3, <1>4, <1>13 DEF Change, controllerVars, Typed
<1>14. CASE UNCHANGED discoveryVars
  BY <1>3, <1>4, <1>5, <1>14 DEF discoveryVars, controllerVars
<1>15. QED
  BY <1>6, <1>7, <1>8, <1>9, <1>10, <1>11, <1>12, <1>13, <1>14 DEF DiscoveryNext

\* The invariant of Discovery, from the initial states and the steps.
LEMMA DiscoveryInvHolds == DiscoverySpec => []DiscoveryInv
<1>1. ASSUME DiscoveryInit PROVE DiscoveryInv
  <2>1. loaded = {} /\ discovered = {} /\ phase = "new" /\ walk = Idle
    BY <1>1 DEF DiscoveryInit
  <2>2. Imported /\ Walked /\ Started
    BY <2>1 DEF Imported, Walked, Started
  <2>3. Scanned
    BY <1>1 DEF DiscoveryInit, Scanned, NoScan, ControllersOf
  <2>4. Cached
    <3>1. scans = <<>> /\ cache = Empty /\ asked = {}
      BY <1>1 DEF DiscoveryInit
    <3>2. Len(<<>>) = 0 /\ <<>> \in Seq(Entries)
      OBVIOUS
    <3>3. QED BY <3>1, <3>2 DEF Cached, Empty
  <2>5. Typed
    <3>1. fault \in [Sources -> Faults]
      <4>1. PICK faulty \in SUBSET Sources : \E errors \in [faulty -> Errors] :
              fault = [x \in Sources |-> IF x \in faulty THEN errors[x] ELSE "none"]
        BY <1>1 DEF DiscoveryInit, FirstFaults
      <4>2. QED BY <4>1 DEF Faults
    <3>2. QED BY <1>1, <3>1, DiscoveryAssumption DEF DiscoveryInit, Typed, Empty, DiscoveryAssumption
  <2>6. QED BY <2>2, <2>3, <2>4, <2>5 DEF DiscoveryInv
<1>2. ASSUME DiscoveryInv, [DiscoveryNext]_discoveryVars PROVE DiscoveryInv'
  BY <1>2, ImportedStep, WalkedStep, StartedStep, CachedStep, TypedStep DEF DiscoveryInv
<1>3. QED BY <1>1, <1>2, PTL DEF DiscoverySpec

\* What discovery keeps is of its types: the registry schedules only jobs it has, and a walk
\* always has an end of its package still to go.
THEOREM DiscoveryTypeCorrect == DiscoverySpec => []DiscoveryTypeOK
<1>1. ASSUME DiscoveryInv PROVE DiscoveryTypeOK
  <2>1. ASSUME walk # Idle PROVE IsSuffix(walk.left, JobModules[walk.package])
    BY <1>1, <2>1, Suffix, Modular DEF DiscoveryInv, Walked, Ends
  <2>2. discovered \subseteq Sources
    BY <1>1 DEF DiscoveryInv, Imported, Typed
  <2>3. QED BY <1>1, <2>1, <2>2 DEF DiscoveryInv, Typed, DiscoveryTypeOK, AllClasses
<1>2. QED BY <1>1, DiscoveryInvHolds, PTL

\* However the phases of on_app_init, other calls, failures, forced walks and clearings of
\* the cache follow each other: what was imported has registered its jobs, with their
\* schedules, a package that is marked has no module that neither ran nor failed, an
\* application that came up has treated the jobs of each of its packages, and an answer
\* about controllers has those of the list that was scanned last, but for failed imports, so
\* that what it lacks of another list was scanned before that one.
THEOREM DiscoveryCompleteHolds == DiscoverySpec => []DiscoveryComplete
<1>1. ASSUME DiscoveryInv PROVE JobsLoaded
  BY <1>1 DEF DiscoveryInv, JobsLoaded, Imported, Registered, Walked, Started, Treated
<1>2. DiscoveryInv => DiscoveryComplete
  BY <1>1, AnswersCover DEF DiscoveryInv, DiscoveryComplete
<1>3. QED BY <1>2, DiscoveryInvHolds, PTL


-----------------------------------------------------------------------------
(* Cron: arithmetic.                                                          *)

\* Multiplication keeps an order.
LEMMA Times == ASSUME NEW a \in Int, NEW b \in Int, NEW d \in Nat, a <= b PROVE a * d <= b * d
OBVIOUS

\* Division: quotient and remainder.
LEMMA DivMod ==
  ASSUME NEW t \in Nat, NEW d \in Nat \ {0}
  PROVE  t \div d \in Nat /\ t % d \in 0..(d - 1) /\ t = (t \div d) * d + (t % d)
<1>1. t \div d \in Int /\ t \div d >= 0 /\ t % d \in 0..(d - 1)
  OBVIOUS
<1>2. PICK q \in Int : q = t \div d
  BY <1>1
<1>3. d > 0
  OBVIOUS
<1>4. t = d * q + (t % d)
  BY <1>2, <1>3
<1>5. d * q = q * d
  BY <1>2
<1>6. QED BY <1>1, <1>2, <1>4, <1>5

\* Quotient and remainder are those of the only way to write a number.
LEMMA Split ==
  ASSUME NEW d \in Nat \ {0}, NEW q \in Nat, NEW r \in 0..(d - 1), NEW t, t = q * d + r
  PROVE  t \div d = q /\ t % d = r
<1>1. t \in Nat
  OBVIOUS
<1>2. /\ t \div d \in Nat /\ t % d \in 0..(d - 1) /\ t = (t \div d) * d + (t % d)
  BY <1>1, DivMod
<1> DEFINE p == t \div d  s == t % d
<1>3. p \in Nat /\ s \in 0..(d-1) /\ p * d + s = q * d + r
  BY <1>2
<1> HIDE DEF p, s
<1>4. ~(p < q)
  <2> SUFFICES ASSUME p + 1 <= q PROVE FALSE
    BY <1>3
  <2>1. (p + 1) * d <= q * d
    BY <1>3, Times
  <2>2. (p + 1) * d = p * d + d
    BY <1>3
  <2>3. QED BY <1>3, <2>1, <2>2
<1>5. ~(q < p)
  <2> SUFFICES ASSUME q + 1 <= p PROVE FALSE
    BY <1>3
  <2>1. (q + 1) * d <= p * d
    BY <1>3, Times
  <2>2. (q + 1) * d = q * d + d
    BY <1>3
  <2>3. QED BY <1>3, <2>1, <2>2
<1>6. p = q
  BY <1>3, <1>4, <1>5
<1>7. s = r
  BY <1>3, <1>6
<1>8. QED BY <1>6, <1>7 DEF p, s

\* Division by a product, in terms of a division by each factor.
LEMMA NestedSplit ==
  ASSUME NEW t \in Nat, NEW d \in Nat \ {0}, NEW k \in Nat \ {0},
         NEW a \in Nat, NEW b \in 0..(d - 1), NEW c \in Nat, NEW e \in 0..(k - 1),
         t = a * d + b, a = c * k + e
  PROVE  /\ k * d \in Nat \ {0} /\ t \div (k * d) = c
         /\ (t % (k * d)) \div d = e /\ t % (k * d) = e * d + b
<1>3. k * d \in Nat \ {0} /\ e * d \in Nat
  OBVIOUS
<1>4. e * d + b \in 0..(k * d - 1)
  <2>1. (e + 1) * d <= k * d
    BY Times
  <2>2. (e + 1) * d = e * d + d
    OBVIOUS
  <2>3. QED BY <1>3, <2>1, <2>2
<1>5. t = c * (k * d) + (e * d + b)
  <2>1. a * d = (c * k) * d + e * d
    OBVIOUS
  <2>2. (c * k) * d = c * (k * d)
    OBVIOUS
  <2>3. QED BY <1>3, <2>1, <2>2
<1>6. t \div (k * d) = c /\ t % (k * d) = e * d + b
  <2> DEFINE m == k * d   r == e * d + b
  <2>1. m \in Nat \ {0} /\ r \in 0..(m - 1) /\ t = c * m + r /\ c \in Nat
    BY <1>3, <1>4, <1>5
  <2> HIDE DEF m, r
  <2>2. t \div m = c /\ t % m = r
    BY <2>1, Split
  <2>3. QED BY <2>2 DEF m, r
<1>7. (e * d + b) \div d = e
  BY Split
<1>8. QED BY <1>3, <1>6, <1>7, Zenon

\* A product of positive numbers is positive.
LEMMA Product ==
  ASSUME NEW d \in Nat \ {0}, NEW k \in Nat \ {0} PROVE k * d \in Nat \ {0}
OBVIOUS

\* To divide by a product is to divide by one factor and then by the other.
LEMMA NestedDiv ==
  ASSUME NEW t \in Nat, NEW d \in Nat \ {0}, NEW k \in Nat \ {0}
  PROVE  t \div (k * d) = (t \div d) \div k
<1> DEFINE a == t \div d  b == t % d  c == a \div k  e == a % k
<1>1. a \in Nat /\ b \in 0..(d - 1) /\ t = a * d + b
  BY DivMod
<1>2. c \in Nat /\ e \in 0..(k - 1) /\ a = c * k + e
  BY <1>1, DivMod
<1> HIDE DEF a, b, c, e
<1>3. /\ k * d \in Nat \ {0} /\ t \div (k * d) = c
      /\ (t % (k * d)) \div d = e /\ t % (k * d) = e * d + b
  BY <1>1, <1>2, NestedSplit
<1>4. t \div (k * d) = c
  BY <1>3, Zenon
<1>5. QED BY <1>4 DEF a, c

\* The remainder by a product has the remainder of the quotient.
LEMMA NestedMod ==
  ASSUME NEW t \in Nat, NEW d \in Nat \ {0}, NEW k \in Nat \ {0}
  PROVE  (t % (k * d)) \div d = (t \div d) % k
<1> DEFINE a == t \div d  b == t % d  c == a \div k  e == a % k
<1>1. a \in Nat /\ b \in 0..(d - 1) /\ t = a * d + b
  BY DivMod
<1>2. c \in Nat /\ e \in 0..(k - 1) /\ a = c * k + e
  BY <1>1, DivMod
<1> HIDE DEF a, b, c, e
<1>3. /\ k * d \in Nat \ {0} /\ t \div (k * d) = c
      /\ (t % (k * d)) \div d = e /\ t % (k * d) = e * d + b
  BY <1>1, <1>2, NestedSplit
<1>4. (t % (k * d)) \div d = e
  BY <1>3, Zenon
<1>5. QED BY <1>4 DEF a, e

\* Numbers from t to the end of its block have its quotient.
LEMMA Block ==
  ASSUME NEW d \in Nat \ {0}, NEW t \in Nat, NEW u \in Nat,
         t <= u, u < (t \div d) * d + d
  PROVE  u \div d = t \div d
<1> DEFINE q == t \div d
<1>1. q \in Nat /\ t % d \in 0..(d - 1) /\ t = q * d + (t % d)
  BY DivMod
<1> HIDE DEF q
<1>2. q * d \in Nat
  BY <1>1
<1>3. PICK r \in 0..(d - 1) : u = q * d + r
  <2>1. u - q * d \in 0..(d - 1) /\ u = q * d + (u - q * d)
    BY <1>1, <1>2 DEF q
  <2>2. QED BY <2>1
<1>4. u \div d = q
  BY <1>1, <1>3, Split
<1>5. QED BY <1>4 DEF q

\* Quotients keep an order, and stay below a bound that the numbers stay below.
LEMMA Between ==
  ASSUME NEW d \in Nat \ {0}, NEW t \in Nat, NEW u \in Nat, NEW k \in Nat,
         t <= u, u < k * d
  PROVE  t \div d <= u \div d /\ u \div d < k
<1> DEFINE a == t \div d  b == u \div d
<1>1. a \in Nat /\ t % d \in 0..(d - 1) /\ t = a * d + (t % d)
  BY DivMod
<1>2. b \in Nat /\ u % d \in 0..(d - 1) /\ u = b * d + (u % d)
  BY DivMod
<1> HIDE DEF a, b
<1>3. a * d \in Nat /\ b * d \in Nat
  BY <1>1, <1>2
<1>4. ~(b < a)
  <2> SUFFICES ASSUME b + 1 <= a PROVE FALSE
    BY <1>1, <1>2
  <2>1. (b + 1) * d <= a * d
    BY <1>1, <1>2, Times
  <2>2. (b + 1) * d = b * d + d
    BY <1>2
  <2>3. QED BY <1>1, <1>2, <1>3, <2>1, <2>2
<1>5. ~(k <= b)
  <2> SUFFICES ASSUME k <= b PROVE FALSE
    OBVIOUS
  <2>1. k * d <= b * d
    BY <1>2, Times
  <2>2. k * d \in Nat
    OBVIOUS
  <2>3. QED BY <1>2, <1>3, <2>1, <2>2
<1>6. QED BY <1>1, <1>2, <1>4, <1>5 DEF a, b

-----------------------------------------------------------------------------
(* Cron: the calendar.                                                        *)

\* The months, and their days.
LEMMA MonthsAre ==
  /\ Len(MonthDays) \in Nat \ {0} /\ DOMAIN MonthDays = 1..Len(MonthDays)
  /\ \A m \in 1..Len(MonthDays) : MonthDays[m] \in Nat \ {0}
BY CronAssumption

\* What the recursion of DaysBefore defines.
LEMMA DaysBeforeIs ==
  /\ DaysBefore[1] = 0
  /\ \A m \in 1..Len(MonthDays) : DaysBefore[m + 1] = DaysBefore[m] + MonthDays[m]
<1> DEFINE D == MonthDays  L == Len(MonthDays)
           Is(g, n) == g = [m \in 1..n |-> IF m = 1 THEN 0 ELSE g[m - 1] + D[m - 1]]
           Bad == {n \in Nat \ {0} : ~ \E g : Is(g, n)}
<1>1. Bad = {}
  <2>1. ASSUME Bad # {} PROVE FALSE
    <3>1. PICK n \in Bad : \A m \in Bad : n <= m
      BY <2>1, LeastNatural
    <3>2. CASE n = 1
      <4> DEFINE g == [m \in 1..1 |-> 0]
      <4>1. g = [m \in 1..1 |-> IF m = 1 THEN 0 ELSE g[m - 1] + D[m - 1]]
        OBVIOUS
      <4>2. QED BY <3>1, <3>2, <4>1
    <3>3. CASE n # 1
      <4>1. n \in Nat /\ n > 1 /\ n - 1 \in Nat \ {0} /\ n - 1 \notin Bad
        BY <3>1, <3>3
      <4>2. PICK h : Is(h, n - 1)
        BY <4>1
      <4> DEFINE g == [m \in 1..n |-> IF m = 1 THEN 0 ELSE IF m = n THEN h[n - 1] + D[n - 1] ELSE h[m]]
      <4>3. ASSUME NEW m \in 1..n PROVE g[m] = (IF m = 1 THEN 0 ELSE g[m - 1] + D[m - 1])
        <5>1. CASE m = 1
          BY <5>1
        <5>2. CASE m > 1 /\ m = n
          BY <4>2, <5>2, <4>1
        <5>3. CASE m > 1 /\ m < n
          BY <4>2, <5>3, <4>1
        <5>4. QED BY <5>1, <5>2, <5>3, <4>1
      <4>4. Is(g, n)
        BY <4>3
      <4>5. QED BY <4>4, <3>1
    <3>4. QED BY <3>2, <3>3
  <2>2. QED BY <2>1
<1>2. L \in Nat \ {0} /\ L + 1 \in Nat \ {0}
  BY MonthsAre
<1>3. PICK g : Is(g, L + 1)
  BY <1>1, <1>2
<1>4. DaysBefore = [m \in 1..(L + 1) |-> IF m = 1 THEN 0 ELSE DaysBefore[m - 1] + D[m - 1]]
  BY <1>3, Zenon DEF DaysBefore
<1>5. QED BY <1>2, <1>4

\* The days before a month are a natural number.
LEMMA DaysBeforeNat ==
  \A m \in 1..(Len(MonthDays) + 1) : DaysBefore[m] \in Nat
<1> DEFINE L == Len(MonthDays)  Bad == {m \in 1..(L + 1) : DaysBefore[m] \notin Nat}
<1>1. L \in Nat \ {0}
  BY MonthsAre
<1>2. ASSUME Bad # {} PROVE FALSE
  <2>1. PICK n \in Bad : \A m \in Bad : n <= m
    <3>1. Bad \subseteq Nat
      BY <1>1
    <3>2. QED BY <1>2, <3>1, LeastNatural
  <2>2. n # 1 /\ n \in 1..(L + 1)
    BY <2>1, DaysBeforeIs
  <2>3. n - 1 \in 1..L /\ n - 1 \notin Bad /\ n = (n - 1) + 1
    BY <1>1, <2>1, <2>2
  <2>4. DaysBefore[n] = DaysBefore[n - 1] + MonthDays[n - 1] /\ MonthDays[n - 1] \in Nat
    BY <2>3, DaysBeforeIs, MonthsAre
  <2>5. DaysBefore[n - 1] \in Nat
    BY <2>3, <1>1
  <2>6. QED BY <2>1, <2>4, <2>5
<1>3. QED BY <1>2

\* A later month has more days before it.
LEMMA DaysBeforeGrows ==
  ASSUME NEW a \in 1..(Len(MonthDays) + 1), NEW b \in 1..(Len(MonthDays) + 1), a < b
  PROVE  DaysBefore[a] < DaysBefore[b]
<1> DEFINE L == Len(MonthDays)
           Bad == {c \in (a + 1)..(L + 1) : ~(DaysBefore[a] < DaysBefore[c])}
<1>1. L \in Nat \ {0} /\ a \in Nat /\ b \in (a + 1)..(L + 1)
  BY MonthsAre
<1>2. ASSUME Bad # {} PROVE FALSE
  <2>1. PICK n \in Bad : \A m \in Bad : n <= m
    <3>1. Bad \subseteq Nat
      BY <1>1
    <3>2. QED BY <1>2, <3>1, LeastNatural
  <2>2. n \in (a + 1)..(L + 1) /\ n - 1 \in 1..L /\ n = (n - 1) + 1
    BY <1>1, <2>1
  <2>3. /\ DaysBefore[n] = DaysBefore[n - 1] + MonthDays[n - 1]
        /\ MonthDays[n - 1] \in Nat \ {0}
        /\ DaysBefore[n - 1] \in Nat /\ DaysBefore[a] \in Nat
    BY <1>1, <2>2, DaysBeforeIs, MonthsAre, DaysBeforeNat
  <2>4. DaysBefore[a] <= DaysBefore[n - 1]
    <3>1. CASE n - 1 = a
      BY <3>1, <2>3
    <3>2. CASE n - 1 # a
      <4>1. n - 1 \in (a + 1)..(L + 1) /\ n - 1 \notin Bad
        BY <1>1, <2>1, <2>2, <3>2
      <4>2. QED BY <2>3, <4>1
    <3>3. QED BY <3>1, <3>2
  <2>5. DaysBefore[a] < DaysBefore[n]
    BY <2>3, <2>4
  <2>6. QED BY <2>1, <2>5
<1>3. QED BY <1>1, <1>2

\* The days of a year.
YearDays == DaysBefore[Len(MonthDays) + 1]

\* The units of the calendar are positive.
LEMMA Units ==
  /\ YearDays \in Nat \ {0} /\ PerDay \in Nat \ {0} /\ PerYear \in Nat \ {0}
  /\ PerYear = YearDays * PerDay
  /\ HoursPerDay \in Nat \ {0} /\ MinutesPerHour \in Nat \ {0}
<1>1. YearDays \in Nat \ {0}
  <2>1. 1 \in 1..(Len(MonthDays) + 1) /\ Len(MonthDays) + 1 \in 1..(Len(MonthDays) + 1) /\ 1 < Len(MonthDays) + 1
    BY MonthsAre
  <2>2. DaysBefore[1] < YearDays /\ YearDays \in Nat /\ DaysBefore[1] = 0
    BY <2>1, DaysBeforeGrows, DaysBeforeNat, DaysBeforeIs DEF YearDays
  <2>3. QED BY <2>2
<1>2. HoursPerDay \in Nat \ {0} /\ MinutesPerHour \in Nat \ {0}
  BY CronAssumption
<1>3. PerDay \in Nat \ {0}
  BY <1>2, Product DEF PerDay
<1>4. PerYear = YearDays * PerDay
  BY DEF PerYear, YearDays
<1>5. PerYear \in Nat \ {0}
  BY <1>1, <1>3, <1>4, Product
<1>6. QED BY <1>1, <1>2, <1>3, <1>4, <1>5

\* The highest day is the length of the longest month.
LEMMA Longest ==
  /\ HighOf("day") \in Nat
  /\ \A m \in 1..Len(MonthDays) : MonthDays[m] <= HighOf("day")
  /\ \E m \in 1..Len(MonthDays) : MonthDays[m] = HighOf("day")
<1> DEFINE L == Len(MonthDays)  S == {MonthDays[i] : i \in DOMAIN MonthDays}
           T == {YearDays - MonthDays[i] : i \in 1..L}
<1>1. L \in Nat \ {0} /\ YearDays \in Nat
  BY MonthsAre, Units
<1>2. ASSUME NEW i \in 1..L PROVE MonthDays[i] \in Nat /\ YearDays - MonthDays[i] \in Nat
  <2>1. i + 1 \in 1..(L + 1) /\ i \in 1..(L + 1) /\ L + 1 \in 1..(L + 1)
    BY <1>1
  <2>2. DaysBefore[i + 1] <= YearDays
    <3>1. CASE i = L
      BY <3>1, <1>1 DEF YearDays
    <3>2. CASE i # L
      <4>1. i + 1 < L + 1
        BY <1>1, <3>2
      <4>2. DaysBefore[i + 1] < YearDays /\ DaysBefore[i + 1] \in Nat
        BY <2>1, <4>1, DaysBeforeGrows, DaysBeforeNat DEF YearDays
      <4>3. QED BY <4>2, <1>1
    <3>3. QED BY <3>1, <3>2
  <2>3. DaysBefore[i + 1] = DaysBefore[i] + MonthDays[i] /\ DaysBefore[i] \in Nat /\ MonthDays[i] \in Nat
    BY <2>1, DaysBeforeIs, DaysBeforeNat, MonthsAre
  <2>4. QED BY <1>1, <2>2, <2>3
<1>3. PICK n \in T : \A m \in T : n <= m
  <2>1. T \subseteq Nat /\ T # {}
    BY <1>1, <1>2
  <2>2. QED BY <2>1, LeastNatural
<1>4. PICK j \in 1..L : n = YearDays - MonthDays[j]
  BY <1>3
<1>5. ASSUME NEW i \in 1..L PROVE MonthDays[i] <= MonthDays[j]
  <2>1. YearDays - MonthDays[j] <= YearDays - MonthDays[i]
    BY <1>3, <1>4
  <2>2. MonthDays[i] \in Nat /\ MonthDays[j] \in Nat
    BY <1>2
  <2>3. QED BY <1>1, <2>1, <2>2
<1>6. Max(S) \in S /\ \A y \in S : Max(S) >= y
  <2>1. MonthDays[j] \in S /\ \A y \in S : MonthDays[j] >= y
    BY <1>2, <1>5, MonthsAre
  <2>2. QED BY <2>1 DEF Max
<1>7. HighOf("day") = Max(S)
  BY DEF HighOf
<1>8. QED BY <1>2, <1>6, <1>7, MonthsAre

\* The month of a moment is the one whose days hold its day of the year.
LEMMA MonthFound ==
  ASSUME NEW t \in Nat
  PROVE  /\ DayOfYear(t) = (t \div PerDay) % YearDays
         /\ Year(t) = 1 + (t \div PerDay) \div YearDays
         /\ DayOfYear(t) \in 0..(YearDays - 1)
         /\ Month(t) \in 1..Len(MonthDays)
         /\ DaysBefore[Month(t)] <= DayOfYear(t)
         /\ DayOfYear(t) < DaysBefore[Month(t) + 1]
<1> DEFINE L == Len(MonthDays)  e == DayOfYear(t)
           Ending == {m \in 1..L : e < DaysBefore[m + 1]}
<1>1. L \in Nat \ {0} /\ L \in 1..L /\ DOMAIN MonthDays = 1..L
  BY MonthsAre
<1>2. e = (t \div PerDay) % YearDays /\ Year(t) = 1 + (t \div PerDay) \div YearDays
  <2>1. /\ t \div (YearDays * PerDay) = (t \div PerDay) \div YearDays
        /\ (t % (YearDays * PerDay)) \div PerDay = (t \div PerDay) % YearDays
    <3>1. YearDays \in Nat \ {0} /\ PerDay \in Nat \ {0}
      BY Units
    <3>2. QED BY <3>1, NestedDiv, NestedMod
  <2>2. PerYear = YearDays * PerDay
    BY Units
  <2>3. QED BY <2>1, <2>2, Zenon DEF DayOfYear, Year
<1>3. e \in 0..(YearDays - 1)
  BY <1>2, Units, DivMod
<1>4. PICK n \in Ending : \A m \in Ending : n <= m
  <2>1. L \in Ending /\ Ending \subseteq Nat
    BY <1>1, <1>3, Units DEF YearDays
  <2>2. QED BY <2>1, LeastNatural
<1>5. DaysBefore[n] <= e
  <2>1. CASE n = 1
    BY <2>1, <1>3, DaysBeforeIs
  <2>2. CASE n # 1
    <3>0. n \in 1..L
      BY <1>4
    <3>1. n - 1 \in 1..L /\ n - 1 \notin Ending /\ n = (n - 1) + 1 /\ n \in 1..(L + 1)
      <4>1. n - 1 \in 1..L /\ n = (n - 1) + 1 /\ n \in 1..(L + 1) /\ ~(n <= n - 1)
        BY <1>1, <3>0, <2>2
      <4>2. QED BY <4>1, <1>4
    <3>2. DaysBefore[n] \in Nat
      BY <3>1, DaysBeforeNat
    <3>3. QED BY <1>3, <3>1, <3>2, Units
  <2>3. QED BY <2>1, <2>2
<1>6. \E m \in DOMAIN MonthDays : DaysBefore[m] <= e /\ e < DaysBefore[m + 1]
  BY <1>1, <1>4, <1>5
<1> HIDE DEF e
<1>7. Month(t) = CHOOSE m \in DOMAIN MonthDays : DaysBefore[m] <= e /\ e < DaysBefore[m + 1]
  BY Zenon DEF Month, e
<1>8. /\ Month(t) \in DOMAIN MonthDays /\ DaysBefore[Month(t)] <= e
      /\ e < DaysBefore[Month(t) + 1]
  BY <1>6, <1>7
<1>9. QED BY <1>1, <1>2, <1>3, <1>8 DEF e

\* No other month holds that day.
LEMMA MonthIs ==
  ASSUME NEW t \in Nat, NEW m \in 1..Len(MonthDays),
         DaysBefore[m] <= DayOfYear(t), DayOfYear(t) < DaysBefore[m + 1]
  PROVE  Month(t) = m
<1> DEFINE L == Len(MonthDays)  e == DayOfYear(t)  n == Month(t)
<1>1. L \in Nat \ {0} /\ e \in Nat /\ n \in 1..L /\ DaysBefore[n] <= e /\ e < DaysBefore[n + 1]
  <2>1. DayOfYear(t) \in 0..(YearDays - 1) /\ YearDays \in Nat \ {0}
    BY MonthFound, Units
  <2>2. DayOfYear(t) \in Nat
    BY <2>1
  <2>3. Len(MonthDays) \in Nat \ {0}
    BY MonthsAre
  <2>4. QED BY <2>2, <2>3, MonthFound, Zenon
<1> HIDE DEF n, e
<1>2. DaysBefore[m] <= e /\ e < DaysBefore[m + 1]
  BY DEF e
<1>3. \A k \in 1..L : DaysBefore[k + 1] \in Nat /\ DaysBefore[k] \in Nat
  <2>1. \A k \in 1..L : k \in 1..(L + 1) /\ k + 1 \in 1..(L + 1)
    BY <1>1
  <2>2. QED BY <2>1, DaysBeforeNat
<1>4. ASSUME NEW a \in 1..L, NEW b \in 1..L, a < b,
             DaysBefore[b] <= e, e < DaysBefore[a + 1]
      PROVE  FALSE
  <2>1. CASE b = a + 1
    BY <1>1, <1>3, <1>4, <2>1
  <2>2. CASE b # a + 1
    <3>1. a + 1 \in 1..(L + 1) /\ b \in 1..(L + 1) /\ a + 1 < b
      BY <1>1, <1>4, <2>2
    <3>2. DaysBefore[a + 1] < DaysBefore[b]
      BY <3>1, DaysBeforeGrows
    <3>3. QED BY <1>1, <1>3, <1>4, <3>2
  <2>3. QED BY <2>1, <2>2
<1>5. ~(n < m) /\ ~(m < n)
  BY <1>1, <1>2, <1>4
<1>6. n = m
  BY <1>1, <1>5
<1>7. QED BY <1>6 DEF n

\* A moment whose day, or year, is before another is before its start.
LEMMA Ahead ==
  ASSUME NEW d \in Nat \ {0}, NEW t \in Nat, NEW k \in Nat, t \div d < k
  PROVE  t < k * d
<1> DEFINE q == t \div d
<1>1. q \in Nat /\ t % d \in 0..(d - 1) /\ t = q * d + (t % d)
  BY DivMod
<1>2. q + 1 <= k
  BY <1>1
<1> HIDE DEF q
<1>3. (q + 1) * d <= k * d /\ (q + 1) * d = q * d + d
  BY <1>1, <1>2, Times
<1>4. q * d \in Nat /\ k * d \in Nat
  BY <1>1
<1>5. QED BY <1>1, <1>3, <1>4

\* The year, month, day and weekday are those of the day.
LEMMA SameDay ==
  ASSUME NEW t \in Nat, NEW u \in Nat, u \div PerDay = t \div PerDay
  PROVE  /\ Year(u) = Year(t) /\ Month(u) = Month(t)
         /\ Day(u) = Day(t) /\ Weekday(u) = Weekday(t)
<1>1. DayOfYear(u) = DayOfYear(t) /\ Year(u) = Year(t)
  BY MonthFound
<1>2. Month(u) = Month(t)
  BY <1>1, MonthFound, MonthIs
<1>3. QED BY <1>1, <1>2 DEF Day, Weekday

\* The hour and the day are those of the hour.
LEMMA SameHour ==
  ASSUME NEW t \in Nat, NEW u \in Nat, u \div MinutesPerHour = t \div MinutesPerHour
  PROVE  Hour(u) = Hour(t) /\ u \div PerDay = t \div PerDay
<1>1. HoursPerDay \in Nat \ {0} /\ MinutesPerHour \in Nat \ {0}
  BY Units
<1>2. \A v \in Nat : Hour(v) = (v \div MinutesPerHour) % HoursPerDay
  <2> TAKE v \in Nat
  <2>1. (v % (HoursPerDay * MinutesPerHour)) \div MinutesPerHour = (v \div MinutesPerHour) % HoursPerDay
    BY <1>1, NestedMod
  <2>2. QED BY <2>1, Zenon DEF Hour, PerDay
<1>3. \A v \in Nat : v \div PerDay = (v \div MinutesPerHour) \div HoursPerDay
  <2> TAKE v \in Nat
  <2>1. v \div (HoursPerDay * MinutesPerHour) = (v \div MinutesPerHour) \div HoursPerDay
    BY <1>1, NestedDiv
  <2>2. QED BY <2>1, Zenon DEF PerDay
<1>4. QED BY <1>2, <1>3

\* The start of the day and of the hour of a moment.
LEMMA StartsAre ==
  ASSUME NEW t \in Nat
  PROVE  /\ StartOfDay(t) = (t \div PerDay) * PerDay
         /\ StartOfHour(t) = (t \div MinutesPerHour) * MinutesPerHour
         /\ StartOfDay(t) \in Nat /\ StartOfHour(t) \in Nat
         /\ t < StartOfDay(t) + PerDay /\ t < StartOfHour(t) + MinutesPerHour
<1>1. PerDay \in Nat \ {0} /\ MinutesPerHour \in Nat \ {0}
  BY Units
<1>2. ASSUME NEW d \in Nat \ {0}
      PROVE  t - (t % d) = (t \div d) * d /\ t - (t % d) \in Nat /\ t < t - (t % d) + d
  <2> DEFINE q == t \div d  r == t % d
  <2>1. q \in Nat /\ r \in 0..(d - 1) /\ t = q * d + r
    BY DivMod
  <2> HIDE DEF q, r
  <2>2. q * d \in Nat
    BY <2>1
  <2>3. t - r = q * d /\ t - r \in Nat /\ t < t - r + d
    BY <2>1, <2>2
  <2>4. QED BY <2>3, Zenon DEF q, r
<1>3. QED BY <1>1, <1>2, Zenon DEF StartOfDay, StartOfHour

\* The days of the years before.
YearsDays(t) == ((t \div PerDay) \div YearDays) * YearDays

\* The start of its month, counted from the start of its year.
LEMMA StartOfMonthIs ==
  ASSUME NEW t \in Nat
  PROVE  /\ YearsDays(t) \in Nat
         /\ t \div PerDay = YearsDays(t) + DayOfYear(t)
         /\ DaysBefore[Month(t)] \in Nat /\ DaysBefore[Month(t) + 1] \in Nat
         /\ StartOfMonth(t) = (YearsDays(t) + DaysBefore[Month(t)]) * PerDay
<1> DEFINE q == t \div PerDay  b == DaysBefore[Month(t)]  e == DayOfYear(t)
           z == YearsDays(t)
<1>1. PerDay \in Nat \ {0} /\ YearDays \in Nat \ {0}
  BY Units
<1>2. q \in Nat
  BY <1>1, DivMod
<1>3. q \div YearDays \in Nat /\ z \in Nat
  <2>1. q \div YearDays \in Nat
    BY <1>1, <1>2, DivMod
  <2>2. \A i, j \in Nat : i * j \in Nat
    OBVIOUS
  <2>3. QED BY <1>1, <2>1, <2>2 DEF YearsDays
<1>4. q = z + e
  BY <1>1, <1>2, DivMod, MonthFound DEF YearsDays
<1>5. b \in Nat /\ DaysBefore[Month(t) + 1] \in Nat /\ e \in Nat /\ b <= e
  <2>1. Month(t) \in 1..(Len(MonthDays) + 1) /\ Month(t) + 1 \in 1..(Len(MonthDays) + 1)
    <3>1. Month(t) \in 1..Len(MonthDays)
      BY MonthFound
    <3>2. QED BY <3>1, MonthsAre
  <2>2. e \in 0..(YearDays - 1) /\ b <= e
    BY MonthFound
  <2>3. QED BY <1>1, <2>1, <2>2, DaysBeforeNat
<1>6. StartOfMonth(t) = q * PerDay - ((1 + e - b) - 1) * PerDay
  <2>1. StartOfDay(t) = q * PerDay
    BY StartsAre
  <2>2. QED BY <2>1, Zenon DEF StartOfMonth, Day
<1> HIDE DEF q, b, e, z
<1>7. q * PerDay - ((1 + e - b) - 1) * PerDay = (z + b) * PerDay
  <2>1. (1 + e - b) - 1 = e - b /\ z + b = q - (e - b) /\ e - b \in Nat
    BY <1>3, <1>4, <1>5
  <2>2. q * PerDay - (e - b) * PerDay = (q - (e - b)) * PerDay
    BY <1>1, <1>2, <2>1
  <2>3. QED BY <2>1, <2>2
<1>8. QED BY <1>3, <1>4, <1>5, <1>6, <1>7 DEF q, b, e, z

\* A moment at the start of day f of year y.
LEMMA OnDayOf ==
  ASSUME NEW y \in Nat, NEW f \in 0..(YearDays - 1), NEW s \in Nat,
         s = (y * YearDays + f) * PerDay
  PROVE  s \div PerDay = y * YearDays + f /\ DayOfYear(s) = f /\ YearsDays(s) = y * YearDays
<1>1. PerDay \in Nat \ {0} /\ YearDays \in Nat \ {0}
  BY Units
<1> DEFINE p == y * YearDays + f
<1>2. p \in Nat
  BY <1>1
<1>3. p \div YearDays = y /\ p % YearDays = f
  BY <1>1, Split
<1> HIDE DEF p
<1>4. s = p * PerDay + 0 /\ 0 \in 0..(PerDay - 1)
  BY <1>1, <1>2 DEF p
<1>5. s \div PerDay = p
  BY <1>1, <1>2, <1>4, Split
<1>6. DayOfYear(s) = f /\ YearsDays(s) = y * YearDays
  BY <1>3, <1>5, MonthFound DEF YearsDays
<1>7. QED BY <1>5, <1>6 DEF p

\* The first of the month, the longest month and one day on, and back to the first, is the
\* first of the next month: never of the month after it.
LEMMA NextMonthIs ==
  ASSUME NEW t \in Nat
  PROVE  FirstOfNextMonth(t) = (YearsDays(t) + DaysBefore[Month(t) + 1]) * PerDay
<1> DEFINE L == Len(MonthDays)  m == Month(t)  X == HighOf("day")  z == YearsDays(t)
           y == (t \div PerDay) \div YearDays
           s == StartOfMonth(t) + (X + 1) * PerDay
<1>1. /\ PerDay \in Nat \ {0} /\ YearDays \in Nat \ {0} /\ L \in Nat \ {0}
      /\ m \in 1..L /\ X \in Nat
  BY Units, MonthsAre, MonthFound, Longest
<1>2. y \in Nat /\ z = y * YearDays /\ z \in Nat
  <2>1. t \div PerDay \in Nat
    BY <1>1, DivMod
  <2>2. y \in Nat
    BY <1>1, <2>1, DivMod
  <2>3. QED BY <2>2, StartOfMonthIs DEF YearsDays
<1>3. /\ DaysBefore[m] \in Nat /\ DaysBefore[m + 1] \in Nat
      /\ StartOfMonth(t) = (z + DaysBefore[m]) * PerDay
  BY StartOfMonthIs
<1>4. DaysBefore[m + 1] = DaysBefore[m] + MonthDays[m] /\ MonthDays[m] \in Nat \ {0} /\ MonthDays[m] <= X
  BY <1>1, DaysBeforeIs, MonthsAre, Longest
<1>5. X + 1 < MonthDays[m] + MonthDays[IF m = L THEN 1 ELSE m + 1]
  BY <1>1, Longest, MonthsAre, CalendarAssumption
<1>6. FirstOfNextMonth(t) = StartOfMonth(s)
  BY DEF FirstOfNextMonth
<1> HIDE DEF L, m, X, z, y
<1>7. s = (z + DaysBefore[m] + X + 1) * PerDay /\ s \in Nat
  <2>1. s = (z + DaysBefore[m]) * PerDay + (X + 1) * PerDay
    BY <1>3
  <2>2. QED BY <1>1, <1>2, <1>3, <2>1
<1> HIDE DEF s
<1>8. ASSUME NEW v \in Nat, NEW f \in 0..(YearDays - 1), NEW n \in 1..L,
             z + DaysBefore[m] + X + 1 = v * YearDays + f,
             DaysBefore[n] <= f, f < DaysBefore[n + 1]
      PROVE  StartOfMonth(s) = (v * YearDays + DaysBefore[n]) * PerDay
  <2>1. s = (v * YearDays + f) * PerDay
    BY <1>7, <1>8
  <2>2. DayOfYear(s) = f /\ YearsDays(s) = v * YearDays
    BY <1>7, <2>1, OnDayOf
  <2>3. Month(s) = n
    BY <1>7, <1>8, <2>2, MonthIs DEF L
  <2>4. QED BY <1>7, <2>2, <2>3, StartOfMonthIs
<1>9. CASE m # L
  <2>1. m + 1 \in 1..L /\ m + 1 \in 1..(L + 1) /\ m + 2 \in 1..(L + 1) /\ (m + 1) + 1 = m + 2
    BY <1>1, <1>9
  <2>2. /\ DaysBefore[m + 2] = DaysBefore[m + 1] + MonthDays[m + 1]
        /\ DaysBefore[m + 2] \in Nat /\ MonthDays[m + 1] \in Nat
    BY <2>1, DaysBeforeIs, DaysBeforeNat, MonthsAre DEF L
  <2>3. DaysBefore[m + 2] <= YearDays
    <3>1. CASE m + 2 = L + 1
      BY <3>1, <1>1 DEF YearDays, L
    <3>2. CASE m + 2 # L + 1
      <4>1. m + 2 < L + 1 /\ L + 1 \in 1..(L + 1)
        BY <1>1, <2>1, <3>2
      <4>2. DaysBefore[m + 2] < YearDays
        BY <2>1, <4>1, DaysBeforeGrows DEF YearDays, L
      <4>3. QED BY <4>2, <2>2, <1>1
    <3>3. QED BY <3>1, <3>2
  <2> DEFINE f == DaysBefore[m] + X + 1
  <2>4. X + 1 < MonthDays[m] + MonthDays[m + 1]
    BY <1>5, <1>9
  <2>5. f \in 0..(YearDays - 1) /\ DaysBefore[m + 1] <= f /\ f < DaysBefore[m + 2]
    BY <1>1, <1>3, <1>4, <2>2, <2>3, <2>4
  <2>6. z + DaysBefore[m] + X + 1 = y * YearDays + f
    BY <1>1, <1>2, <1>3
  <2> HIDE DEF f
  <2>7. StartOfMonth(s) = (y * YearDays + DaysBefore[m + 1]) * PerDay
    BY <1>2, <1>8, <2>1, <2>5, <2>6
  <2>8. QED BY <1>2, <1>6, <2>7 DEF z, m
<1>10. CASE m = L
  <2>1. 1 \in 1..L /\ 1 \in 1..(L + 1) /\ 1 + 1 = 2 /\ 2 \in 1..(L + 1)
    BY <1>1
  <2>2. /\ DaysBefore[1] = 0 /\ DaysBefore[2] = MonthDays[1] /\ MonthDays[1] \in Nat
        /\ DaysBefore[m + 1] = YearDays
    BY <2>1, <1>10, DaysBeforeIs, MonthsAre DEF L, YearDays
  <2>3. MonthDays[1] <= YearDays
    <3>1. CASE L = 1
      BY <3>1, <1>1, <1>10, <2>2
    <3>2. CASE L # 1
      <4>1. 2 < L + 1 /\ L + 1 \in 1..(L + 1)
        BY <1>1, <3>2
      <4>2. DaysBefore[2] < YearDays
        BY <2>1, <4>1, DaysBeforeGrows DEF YearDays, L
      <4>3. QED BY <4>2, <2>2, <1>1
    <3>3. QED BY <3>1, <3>2
  <2> DEFINE f == DaysBefore[m] + X + 1 - YearDays
  <2>4. X + 1 < MonthDays[m] + MonthDays[1]
    BY <1>5, <1>10
  <2>5. f \in 0..(YearDays - 1) /\ DaysBefore[1] <= f /\ f < DaysBefore[1 + 1]
    BY <1>1, <1>3, <1>4, <2>1, <2>2, <2>3, <2>4
  <2>6. z + DaysBefore[m] + X + 1 = (y + 1) * YearDays + f /\ y + 1 \in Nat
    <3>1. (y + 1) * YearDays = y * YearDays + YearDays
      BY <1>1, <1>2
    <3>2. QED BY <1>1, <1>2, <1>3, <3>1
  <2> HIDE DEF f
  <2>7. StartOfMonth(s) = ((y + 1) * YearDays + DaysBefore[1]) * PerDay
    BY <1>8, <2>1, <2>5, <2>6
  <2>8. (y + 1) * YearDays + DaysBefore[1] = z + DaysBefore[m + 1]
    BY <1>1, <1>2, <2>2
  <2>9. QED BY <1>6, <2>7, <2>8 DEF z, m
<1>11. QED BY <1>9, <1>10

-----------------------------------------------------------------------------
(* Cron: the invariant and its steps.                                         *)

\* A part of the year field allows no more than the field does.
LEMMA PartInField ==
  ASSUME NEW piece, PartValid(piece, "year")
  PROVE  PartValues(piece, "year") \subseteq Allowed("year")
<1> DEFINE A == Allowed("year")
<1>1. CASE piece.form = "value"
  <2>1. piece.from \in A
    BY <1>1 DEF PartValid
  <2>2. PartValues(piece, "year") = {piece.from}
    BY <1>1 DEF PartValues
  <2>3. QED BY <2>1, <2>2
<1>2. CASE piece.form = "every"
  <2>1. PartValues(piece, "year") = {v \in A : (v - LowOf("year")) % piece.step = 0}
    BY <1>2 DEF PartValues
  <2> HIDE DEF A
  <2>2. PartValues(piece, "year") \subseteq A
    BY <2>1
  <2>3. QED BY <2>2 DEF A
<1>3. CASE piece.form # "value" /\ piece.form # "every"
  <2> DEFINE first == Max({piece.from, LowOf("year")})
             last == IF piece.form = "range" THEN piece.to ELSE HighOf("year")
             Kept(v) == v >= first /\ v <= last /\ (v - first) % piece.step = 0
  <2>1. PartValues(piece, "year") = {v \in A : Kept(v)}
    BY <1>3, Zenon DEF PartValues
  <2> HIDE DEF A, Kept
  <2>2. PartValues(piece, "year") \subseteq A
    BY <2>1
  <2>3. QED BY <2>2 DEF A
<1>4. QED BY <1>1, <1>2, <1>3

\* The years that an expression allows are natural numbers.
LEMMA YearsAre ==
  ASSUME Valid(expression) PROVE FieldValues("year") \subseteq Nat
<1>1. Allowed("year") \subseteq Nat
  BY CronAssumption DEF Allowed, LowOf, HighOf
<1>2. CASE Field("year") = AnyValue
  BY <1>1, <1>2 DEF FieldValues
<1>3. CASE Field("year") # AnyValue
  <2>1. ASSUME NEW i \in DOMAIN Field("year")
        PROVE  PartValues(Field("year")[i], "year") \subseteq Allowed("year")
    <3>1. PartValid(Field("year")[i], "year")
      BY DEF Valid, FieldTypes, Field
    <3>2. QED BY <3>1, PartInField
  <2>2. FieldValues("year") = UNION {PartValues(Field("year")[i], "year") : i \in DOMAIN Field("year")}
    BY <1>3 DEF FieldValues
  <2>3. QED BY <1>1, <2>1, <2>2
<1>4. QED BY <1>2, <1>3

\* Which moments match is up to the expression.
LEMMA Unmoved ==
  ASSUME expression' = expression
  PROVE  /\ \A t : Matches(t)' <=> Matches(t)
         /\ Valid(expression)' <=> Valid(expression)
<1>1. \A type : FieldValues(type)' = FieldValues(type) /\ Field(type)' = Field(type)
  BY DEF FieldValues, Field
<1>2. \A t : Matches(t)' <=> Matches(t)
  BY <1>1, Zenon DEF Matches, YearMatches, MonthMatches, DayMatches, HourMatches, MinuteMatches
<1>3. QED BY <1>2 DEF Valid

\* The wall clock is later than the start, by a minute at least for each iteration, and no
\* moment that it passed over matches.
Advances == outcome = "searching" => current > ToWall(after) + steps
CronInv == CronTypeOK /\ current > ToWall(after) /\ Advances /\ NextRunIsFirst

\* The wall clock never shows a negative time.
LEMMA WallIsNat == ASSUME CronTypeOK PROVE ToWall(after) \in Nat
<1>1. zone \in [turn : {"none", "back", "forward"}, at : Nat] /\ MinutesPerHour \in Nat /\ after \in Nat
  BY CronAssumption DEF CronTypeOK
<1>2. QED BY <1>1 DEF ToWall, ZoneHour

\* Up to the target of a jump: what was passed before it, and what it passes.
LEMMA Reach ==
  ASSUME NEW w \in Nat, NEW c \in Nat, NEW t \in Nat, c < t,
         NEW d \in {c, t}, NEW u \in (w + 1)..(d - 1)
  PROVE  u \in (w + 1)..(c - 1) \/ u \in c..(t - 1)
OBVIOUS

\* A moment that datetime cannot show is past every one that it can.
LEMMA PastTheEnd ==
  ASSUME NEW t \in Nat, Year(t) > EndOfTime
  PROVE  EndOfTime * PerYear <= t
<1>1. PerYear \in Nat \ {0} /\ EndOfTime \in Nat
  BY Units, CronAssumption
<1>2. t \div PerYear \in Nat /\ EndOfTime <= t \div PerYear
  BY <1>1, DivMod DEF Year
<1>3. EndOfTime * PerYear <= (t \div PerYear) * PerYear
  BY <1>1, <1>2, Times
<1>4. (t \div PerYear) * PerYear <= t
  BY <1>1, DivMod
<1>5. \A a, b \in Nat : a * b \in Nat
  OBVIOUS
<1>6. QED BY <1>1, <1>2, <1>3, <1>4, <1>5

\* A jump over moments that do not match keeps the invariant.
LEMMA MoveOnKeeps ==
  ASSUME CronInv, Iterate, NEW t \in Nat, current < t, MoveOn(t),
         \A u \in current..(t - 1) : ~Matches(u)
  PROVE  CronInv'
<1>1. /\ expression' = expression /\ zone' = zone /\ after' = after
      /\ steps' = steps + 1 /\ outcome' \in {"overflow", "searching"}
      /\ current' \in {current, t}
  BY DEF MoveOn
<1>2. CronTypeOK'
  <2>1. Valid(expression)' /\ (zone \in Zones)'
    BY <1>1, Unmoved DEF CronInv, CronTypeOK
  <2>2. steps' \in 0..SearchLimit
    BY <1>1, CronAssumption DEF CronInv, CronTypeOK, Iterate
  <2>3. current' \in Nat /\ after' \in Nat
    BY <1>1 DEF CronInv, CronTypeOK
  <2>4. QED BY <1>1, <2>1, <2>2, <2>3 DEF CronTypeOK
<1>3. ToWall(after)' = ToWall(after)
  BY <1>1 DEF ToWall
<1>4. ToWall(after) \in Nat /\ current \in Nat /\ current > ToWall(after)
  BY WallIsNat DEF CronInv, CronTypeOK
<1>5. (current > ToWall(after))'
  BY <1>1, <1>3, <1>4
<1>6. ASSUME NEW u \in (ToWall(after) + 1)..(current' - 1) PROVE ~Matches(u)
  <2>1. u \in (ToWall(after) + 1)..(current - 1) \/ u \in current..(t - 1)
    BY <1>1, <1>4, Reach, Zenon
  <2>2. QED BY <2>1 DEF CronInv, NextRunIsFirst
<1>7. ASSUME outcome' = "overflow" PROVE \A u \in current..(EndOfTime * PerYear - 1) : ~Matches(u)
  <2>1. Year(t) > EndOfTime
    BY <1>7, Zenon DEF MoveOn
  <2>2. EndOfTime * PerYear <= t /\ EndOfTime * PerYear \in Nat
    <3>1. \A a, b \in Nat : a * b \in Nat
      OBVIOUS
    <3>2. QED BY <2>1, <3>1, PastTheEnd, Units, CronAssumption
  <2> DEFINE last == EndOfTime * PerYear
  <2> HIDE DEF last
  <2>3. last <= t /\ last \in Nat
    BY <2>2 DEF last
  <2>4. \A u \in current..(last - 1) : u \in current..(t - 1)
    BY <1>4, <2>3
  <2>5. QED BY <2>4 DEF last
<1>8. outcome' = "overflow" => current' = current
  BY DEF MoveOn
<1>9. NextRunIsFirst'
  <2>1. \A u \in (ToWall(after)' + 1)..(current' - 1) : ~Matches(u)'
    BY <1>1, <1>3, <1>6, Unmoved
  <2>2. outcome' = "overflow" => \A u \in current'..(EndOfTime * PerYear - 1) : ~Matches(u)'
    BY <1>1, <1>7, <1>8, Unmoved
  <2>3. QED BY <1>1, <2>1, <2>2 DEF NextRunIsFirst
<1>10. Advances'
  <2>1. current > ToWall(after) + steps /\ steps \in Nat
    BY CronAssumption DEF CronInv, Advances, Iterate, CronTypeOK
  <2>2. outcome' = "searching" => current' = t
    BY DEF MoveOn
  <2>3. QED BY <1>1, <1>3, <1>4, <2>1, <2>2 DEF Advances
<1>11. QED BY <1>2, <1>5, <1>9, <1>10 DEF CronInv

\* So does an end of the search that is right about the current moment.
LEMMA StopAtKeeps ==
  ASSUME CronInv, Iterate, NEW result \in {"found", "noYear"}, StopAt(result),
         result = "found" => Matches(current),
         result = "noYear" => \A t \in current..(EndOfTime * PerYear - 1) : ~Matches(t)
  PROVE  CronInv'
<1>1. /\ expression' = expression /\ zone' = zone /\ after' = after
      /\ steps' = steps + 1 /\ outcome' = result /\ current' = current
  BY DEF StopAt
<1>2. CronTypeOK'
  <2>1. Valid(expression)' /\ (zone \in Zones)'
    BY <1>1, Unmoved DEF CronInv, CronTypeOK
  <2>2. steps' \in 0..SearchLimit
    BY <1>1, CronAssumption DEF CronInv, CronTypeOK, Iterate
  <2>3. QED BY <1>1, <2>1, <2>2 DEF CronTypeOK, CronInv
<1>3. ToWall(after)' = ToWall(after)
  BY <1>1 DEF ToWall
<1>4. \A t : Matches(t)' <=> Matches(t)
  BY <1>1, Unmoved
<1>5. /\ \A t \in (ToWall(after)' + 1)..(current' - 1) : ~Matches(t)'
      /\ outcome' = "found" => Matches(current)
      /\ outcome' \in {"noYear", "overflow"}
           => \A t \in current'..(EndOfTime * PerYear - 1) : ~Matches(t)'
  BY <1>1, <1>3, <1>4 DEF CronInv, NextRunIsFirst
<1>6. outcome' = "found" => Matches(current)'
  <2>1. ASSUME outcome' = "found" PROVE Matches(current)'
    <3>1. Matches(current)
      BY <1>5, <2>1
    <3>2. QED BY <3>1, <1>1 DEF Matches, YearMatches, MonthMatches, DayMatches, HourMatches, MinuteMatches, FieldValues, Field
  <2>2. QED BY <2>1
<1>7. NextRunIsFirst'
  BY <1>1, <1>5, <1>6 DEF NextRunIsFirst
<1>8. QED BY <1>1, <1>2, <1>3, <1>7 DEF CronInv, Advances

\* The jump to the next year of the field passes over the years that are not in it.
LEMMA NextYearKeeps ==
  ASSUME CronInv, NextYear PROVE CronInv'
<1> DEFINE t == current  F == FieldValues("year")  later == {y \in F : y > Year(t)}  z == Min(later)
<1>1. t \in Nat /\ Iterate /\ ~YearMatches(t)
  BY DEF CronInv, CronTypeOK, NextYear
<1>2. F \subseteq Nat /\ Field("year") # AnyValue /\ F # {} /\ Year(t) \notin F
  BY <1>1, YearsAre DEF CronInv, CronTypeOK, YearMatches
<1>3. PerYear \in Nat \ {0}
  BY Units
<1>4. \A u \in Nat : u \div PerYear \in Nat /\ Year(u) = 1 + u \div PerYear
  BY <1>3, DivMod DEF Year
<1>5. ASSUME NEW u \in Nat, Matches(u), t <= u PROVE Year(u) \in later
  <2>1. Year(u) \in F
    BY <1>2, <1>5 DEF Matches, YearMatches
  <2>2. u < (u + 1) * PerYear /\ u + 1 \in Nat
    <3>1. \A d \in Nat \ {0} : u < (u + 1) * d
      OBVIOUS
    <3>2. QED BY <1>3, <3>1
  <2>3. t \div PerYear <= u \div PerYear
    BY <1>1, <1>3, <1>5, <2>2, Between
  <2>4. Year(t) <= Year(u) /\ Year(t) # Year(u) /\ Year(t) \in Nat /\ Year(u) \in Nat
    BY <1>1, <1>2, <1>4, <2>1, <2>3
  <2>5. QED BY <2>1, <2>4
<1>6. CASE later = {}
  <2>1. StopAt("noYear")
    BY <1>6 DEF NextYear
  <2>2. \A u \in t..(EndOfTime * PerYear - 1) : ~Matches(u)
    <3>1. \A u \in t..(EndOfTime * PerYear - 1) : u \in Nat /\ t <= u
      <4>1. EndOfTime * PerYear \in Nat
        <5>1. \A i, j \in Nat : i * j \in Nat
          OBVIOUS
        <5>2. QED BY <1>3, <5>1, CronAssumption
      <4>2. QED BY <1>1, <4>1
    <3>2. QED BY <1>5, <1>6, <3>1
  <2>3. QED BY <1>1, <2>1, <2>2, StopAtKeeps
<1>7. CASE later # {}
  <2>1. z \in later /\ \A y \in later : z <= y
    <3>1. later \subseteq Nat
      BY <1>2
    <3>2. PICK n \in later : \A y \in later : n <= y
      BY <1>7, <3>1, LeastNatural
    <3>3. QED BY <3>2, Zenon DEF Min
  <2>2. MoveOn((z - 1) * PerYear)
    BY <1>7 DEF NextYear
  <2> HIDE DEF later, z
  <2>3. z \in Nat /\ z > Year(t) /\ Year(t) = 1 + t \div PerYear /\ t \div PerYear \in Nat
    BY <1>1, <1>2, <1>4, <2>1 DEF later
  <2>4. z - 1 \in Nat /\ t \div PerYear < z - 1
    BY <2>3
  <2> DEFINE w == (z - 1) * PerYear
  <2>5. w \in Nat
    <3>1. \A i, j \in Nat : i * j \in Nat
      OBVIOUS
    <3>2. QED BY <1>3, <2>4, <3>1
  <2>6. t < w
    BY <1>1, <1>3, <2>4, Ahead
  <2>7. ASSUME NEW u \in t..(w - 1) PROVE ~Matches(u)
    <3>1. u \in Nat /\ t <= u /\ u < w
      BY <1>1, <2>5
    <3>2. u \div PerYear < z - 1
      BY <1>1, <1>3, <2>4, <3>1, Between
    <3>3. Year(u) < z /\ Year(u) \in Nat
      BY <1>4, <2>3, <3>1, <3>2
    <3>4. Year(u) \notin later
      BY <2>1, <2>3, <3>3
    <3>5. QED BY <1>5, <3>1, <3>4
  <2> HIDE DEF w
  <2>8. MoveOn(w)
    BY <2>2 DEF w
  <2>9. QED BY <1>1, <2>5, <2>6, <2>7, <2>8, MoveOnKeeps
<1>8. QED BY <1>6, <1>7

\* The jump to the next month passes over the rest of this one.
LEMMA NextMonthKeeps ==
  ASSUME CronInv, NextMonth PROVE CronInv'
<1> DEFINE t == current  n == Month(t)  z == YearsDays(t)  w == FirstOfNextMonth(t)
           k == z + DaysBefore[n + 1]
<1>1. t \in Nat /\ Iterate /\ n \notin FieldValues("month") /\ MoveOn(w)
  BY DEF CronInv, CronTypeOK, NextMonth, MonthMatches
<1>2. /\ PerDay \in Nat \ {0} /\ YearDays \in Nat \ {0}
      /\ z \in Nat /\ DaysBefore[n] \in Nat /\ DaysBefore[n + 1] \in Nat
      /\ w = k * PerDay
  BY <1>1, Units, StartOfMonthIs, NextMonthIs
<1>3. /\ t \div PerDay = z + DayOfYear(t) /\ DayOfYear(t) \in 0..(YearDays - 1)
      /\ n \in 1..Len(MonthDays)
      /\ DaysBefore[n] <= DayOfYear(t) /\ DayOfYear(t) < DaysBefore[n + 1]
  BY <1>1, StartOfMonthIs, MonthFound
<1>4. k \in Nat /\ t \div PerDay < k
  BY <1>2, <1>3
<1>5. w \in Nat /\ t < w
  <2>1. \A i, j \in Nat : i * j \in Nat
    OBVIOUS
  <2>2. t < k * PerDay
    BY <1>1, <1>2, <1>4, Ahead
  <2>3. QED BY <1>2, <1>4, <2>1, <2>2
<1>6. DaysBefore[n + 1] <= YearDays
  <2>1. CASE n = Len(MonthDays)
    BY <2>1, <1>2 DEF YearDays
  <2>2. CASE n # Len(MonthDays)
    <3>1. /\ n + 1 < Len(MonthDays) + 1 /\ n + 1 \in 1..(Len(MonthDays) + 1)
          /\ Len(MonthDays) + 1 \in 1..(Len(MonthDays) + 1)
      BY <1>3, <2>2, MonthsAre
    <3>2. DaysBefore[n + 1] < YearDays
      BY <3>1, DaysBeforeGrows DEF YearDays
    <3>3. QED BY <1>2, <3>2
  <2>3. QED BY <2>1, <2>2
<1>7. ASSUME NEW u \in t..(w - 1) PROVE ~Matches(u)
  <2>1. u \in Nat /\ t <= u /\ u < k * PerDay
    BY <1>1, <1>2, <1>5
  <2>2. t \div PerDay <= u \div PerDay /\ u \div PerDay < k
    BY <1>1, <1>2, <1>4, <2>1, Between
  <2> DEFINE q == u \div PerDay  f == q - z
  <2>3. q \in Nat
    BY <1>2, <2>1, DivMod
  <2>4. f \in 0..(YearDays - 1) /\ DaysBefore[n] <= f /\ f < DaysBefore[n + 1] /\ q = z + f
    <3> HIDE DEF q, z, n
    <3>1. t \div PerDay \in Nat /\ t \div PerDay <= q /\ q < k
      BY <1>1, <1>2, <2>2, DivMod DEF q
    <3>2. DayOfYear(t) \in Nat /\ DaysBefore[n] <= DayOfYear(t) /\ t \div PerDay = z + DayOfYear(t)
      BY <1>2, <1>3
    <3>3. QED BY <1>2, <1>6, <2>3, <3>1, <3>2
  <2>5. q % YearDays = f
    <3>1. (t \div PerDay) \div YearDays \in Nat /\ z = ((t \div PerDay) \div YearDays) * YearDays
      BY <1>1, <1>2, DivMod DEF YearsDays
    <3> HIDE DEF q, z, f
    <3>2. QED BY <1>2, <2>4, <3>1, Split
  <2>6. DayOfYear(u) = f
    BY <2>1, <2>5, MonthFound
  <2>7. Month(u) = n
    BY <1>3, <2>1, <2>4, <2>6, MonthIs
  <2>8. QED BY <1>1, <2>7 DEF Matches, MonthMatches
<1> HIDE DEF w
<1>8. QED BY <1>1, <1>5, <1>7, MoveOnKeeps

\* The jump to the next day passes over the rest of this one.
LEMMA NextDayKeeps ==
  ASSUME CronInv, NextDay PROVE CronInv'
<1> DEFINE t == current  w == StartOfDay(t) + PerDay
<1>1. t \in Nat /\ Iterate /\ ~DayMatches(t) /\ MoveOn(w)
  BY DEF CronInv, CronTypeOK, NextDay
<1>2. /\ PerDay \in Nat \ {0} /\ StartOfDay(t) \in Nat /\ t < w
      /\ StartOfDay(t) = (t \div PerDay) * PerDay
  BY <1>1, Units, StartsAre
<1>3. ASSUME NEW u \in t..(w - 1) PROVE ~Matches(u)
  <2>1. u \in Nat /\ t <= u /\ u < (t \div PerDay) * PerDay + PerDay
    BY <1>1, <1>2
  <2>2. u \div PerDay = t \div PerDay
    BY <1>1, <1>2, <2>1, Block
  <2>3. Day(u) = Day(t) /\ Weekday(u) = Weekday(t)
    BY <1>1, <2>1, <2>2, SameDay
  <2>4. QED BY <1>1, <2>3, Zenon DEF Matches, DayMatches
<1>4. w \in Nat
  BY <1>2
<1> HIDE DEF w
<1>5. QED BY <1>1, <1>2, <1>3, <1>4, MoveOnKeeps

\* The jump to the next hour passes over the rest of this one.
LEMMA NextHourKeeps ==
  ASSUME CronInv, NextHour PROVE CronInv'
<1> DEFINE t == current  w == StartOfHour(t) + MinutesPerHour
<1>1. t \in Nat /\ Iterate /\ ~HourMatches(t) /\ MoveOn(w)
  BY DEF CronInv, CronTypeOK, NextHour, OnDay
<1>2. /\ MinutesPerHour \in Nat \ {0} /\ StartOfHour(t) \in Nat /\ t < w
      /\ StartOfHour(t) = (t \div MinutesPerHour) * MinutesPerHour
  BY <1>1, Units, StartsAre
<1>3. ASSUME NEW u \in t..(w - 1) PROVE ~Matches(u)
  <2>1. u \in Nat /\ t <= u /\ u < (t \div MinutesPerHour) * MinutesPerHour + MinutesPerHour
    BY <1>1, <1>2
  <2>2. u \div MinutesPerHour = t \div MinutesPerHour
    BY <1>1, <1>2, <2>1, Block
  <2>3. Hour(u) = Hour(t)
    BY <1>1, <2>1, <2>2, SameHour
  <2>4. QED BY <1>1, <2>3 DEF Matches, HourMatches
<1>4. w \in Nat
  BY <1>2
<1> HIDE DEF w
<1>5. QED BY <1>1, <1>2, <1>3, <1>4, MoveOnKeeps

\* The invariant of Cron, from the initial states and the steps.
LEMMA CronInvHolds == CronSpec => []CronInv
<1>1. ASSUME CronInit PROVE CronInv
  <2>1. ToWall(after) \in Nat
    <3>1. zone \in [turn : {"none", "back", "forward"}, at : Nat] /\ MinutesPerHour \in Nat /\ after \in Nat
      BY <1>1, CronAssumption DEF CronInit
    <3>2. QED BY <3>1 DEF ToWall, ZoneHour
  <2>2. CronTypeOK
    <3>1. current \in Nat /\ after \in Nat /\ steps \in 0..SearchLimit
      BY <1>1, <2>1, CronAssumption DEF CronInit
    <3>2. QED BY <1>1, <3>1 DEF CronTypeOK, CronInit
  <2>3. current = ToWall(after) + 1 /\ outcome = "searching"
    BY <1>1 DEF CronInit
  <2>4. (ToWall(after) + 1)..(current - 1) = {}
    BY <2>1, <2>3
  <2>5. NextRunIsFirst
    BY <2>3, <2>4 DEF NextRunIsFirst
  <2>6. current > ToWall(after) /\ steps = 0
    BY <1>1, <2>1, <2>3 DEF CronInit
  <2>7. QED BY <2>1, <2>2, <2>5, <2>6 DEF CronInv, Advances
<1>2. ASSUME CronInv, [CronNext]_cronVars PROVE CronInv'
  <2>1. CASE NextYear
    BY <1>2, <2>1, NextYearKeeps
  <2>2. CASE NextMonth
    BY <1>2, <2>2, NextMonthKeeps
  <2>3. CASE NextDay
    BY <1>2, <2>3, NextDayKeeps
  <2>4. CASE NextHour
    BY <1>2, <2>4, NextHourKeeps
  <2>5. CASE NextMinute
    <3> DEFINE t == current  w == t + 1
    <3>1. t \in Nat /\ Iterate /\ ~MinuteMatches(t) /\ MoveOn(w)
      BY <1>2, <2>5 DEF CronInv, CronTypeOK, NextMinute, OnDay
    <3>2. w \in Nat /\ t < w /\ \A u \in t..(w - 1) : u = t
      BY <3>1
    <3>3. \A u \in t..(w - 1) : ~Matches(u)
      BY <3>1, <3>2 DEF Matches
    <3> HIDE DEF w
    <3>4. QED BY <1>2, <3>1, <3>2, <3>3, MoveOnKeeps
  <2>6. CASE Found
    <3>1. Iterate /\ Matches(current) /\ StopAt("found")
      BY <2>6, Zenon DEF Found, OnDay, Matches
    <3>2. QED BY <1>2, <3>1, StopAtKeeps
  <2>7. CASE Exhaust
    <3>1. /\ expression' = expression /\ zone' = zone /\ after' = after
          /\ current' = current /\ steps' = steps /\ outcome' = "exhausted"
      BY <2>7 DEF Exhaust
    <3>2. ToWall(after)' = ToWall(after)
      BY <3>1 DEF ToWall
    <3>3. Valid(expression)' /\ \A t : Matches(t)' <=> Matches(t)
      BY <1>2, <3>1, Unmoved DEF CronInv, CronTypeOK
    <3>4. CronTypeOK'
      BY <1>2, <3>1, <3>3 DEF CronInv, CronTypeOK
    <3>5. current > ToWall(after) + SearchLimit
      BY <1>2, <2>7 DEF CronInv, Advances, Exhaust
    <3>6. NextRunIsFirst'
      BY <1>2, <3>1, <3>2, <3>3, <3>5 DEF CronInv, NextRunIsFirst
    <3>7. QED BY <1>2, <3>1, <3>2, <3>4, <3>6 DEF CronInv, Advances
  <2>8. CASE UNCHANGED cronVars
    <3>1. /\ expression' = expression /\ zone' = zone /\ after' = after
          /\ current' = current /\ steps' = steps /\ outcome' = outcome
      BY <2>8 DEF cronVars
    <3>2. ToWall(after)' = ToWall(after)
      BY <3>1 DEF ToWall
    <3>3. Valid(expression)' /\ (\A t : Matches(t)' <=> Matches(t))
      BY <1>2, <3>1, Unmoved DEF CronInv, CronTypeOK
    <3>4. CronTypeOK'
      BY <1>2, <3>1, <3>3 DEF CronInv, CronTypeOK
    <3>5. Matches(current)' <=> Matches(current)
      BY <3>1 DEF Matches, YearMatches, MonthMatches, DayMatches, HourMatches, MinuteMatches, FieldValues, Field
    <3>6. NextRunIsFirst'
      BY <1>2, <3>1, <3>2, <3>3, <3>5 DEF CronInv, NextRunIsFirst
    <3>7. QED BY <1>2, <3>1, <3>2, <3>4, <3>6 DEF CronInv, Advances
  <2>9. QED BY <1>2, <2>1, <2>2, <2>3, <2>4, <2>5, <2>6, <2>7, <2>8 DEF CronNext
<1>3. QED BY <1>1, <1>2, PTL DEF CronSpec

\* The search stays within its types: its wall clock is a moment of the calendar and its
\* iterations stay within the limit.
THEOREM CronTypeCorrect == CronSpec => []CronTypeOK
<1>1. CronInv => CronTypeOK
  BY DEF CronInv
<1>2. QED BY <1>1, CronInvHolds, PTL

\* For every expression, start, time zone and calendar: get_next_run passes over no match,
\* the moment it returns matches, it gives up for want of a year or past the end of time only
\* when none is left, and for its limit only when none is within that many minutes.
THEOREM NextRunIsFirstHolds == CronSpec => []NextRunIsFirst
<1>1. CronInv => NextRunIsFirst
  BY DEF CronInv
<1>2. QED BY <1>1, CronInvHolds, PTL

\* For every expression and start, and wherever the clock goes back or forward: the next run
\* is later than the moment it is computed from, unless that lies in the repeated hour.
THEOREM NextRunIsLaterHolds == CronSpec => []NextRunIsLater
<1>1. ASSUME CronInv PROVE NextRunIsLater
  <2>1. /\ zone \in [turn : {"none", "back", "forward"}, at : Nat]
        /\ MinutesPerHour \in Nat /\ after \in Nat /\ current \in Nat /\ current > ToWall(after)
    BY <1>1, CronAssumption DEF CronInv, CronTypeOK
  <2>2. QED BY <2>1 DEF NextRunIsLater, NextRun, ToUtc, ToWall, Repeated, ZoneHour
<1>2. QED BY <1>1, CronInvHolds, PTL

-----------------------------------------------------------------------------
(* Validation.                                                              *)

\* Begins and ends with no white space, if it has any symbol.
Bare(t) == t # <<>> => t[1] \notin White /\ t[Len(t)] \notin White

\* strip leaves no white space at either end, and leaves a text without any as it is.
LEMMA StripIs ==
  ASSUME NEW S, NEW t \in Seq(S)
  PROVE  Strip(t) \in Seq(S) /\ Bare(Strip(t)) /\ (Bare(t) => Strip(t) = t)
<1> DEFINE kept == {i \in DOMAIN t : t[i] \notin White}
           a == CHOOSE i \in kept : \A j \in kept : i <= j
           b == CHOOSE i \in kept : \A j \in kept : i >= j
<1>1. Len(t) \in Nat /\ DOMAIN t = 1..Len(t)
  BY SeqIs
<1>2. CASE kept = {}
  <2>1. Strip(t) = <<>>
    BY <1>2 DEF Strip
  <2>2. <<>> \in Seq(S) /\ Bare(<<>>)
    BY EmptySeq DEF Bare
  <2>3. ASSUME Bare(t) PROVE t = <<>>
    <3>1. ASSUME t # <<>> PROVE FALSE
      <4>1. 1 \in 1..Len(t)
        BY <3>1, <1>1, EmptySeq
      <4>2. 1 \in kept
        BY <4>1, <3>1, <2>3, <1>1 DEF Bare
      <4>3. QED BY <1>2, <4>2
    <3>2. QED BY <3>1
  <2>4. QED BY <2>1, <2>2, <2>3
<1>3. CASE kept # {}
  <2>1. \E i \in kept : \A j \in kept : i <= j
    <3>1. kept \subseteq Nat
      BY <1>1
    <3>2. QED BY <1>3, <3>1, LeastNatural
  <2>2. \E i \in kept : \A j \in kept : i >= j
    <3>1. kept \subseteq 0..Len(t)
      BY <1>1
    <3>2. QED BY <1>1, <1>3, <3>1, GreatestNatural
  <2>3. /\ a \in kept /\ \A j \in kept : a <= j
        /\ b \in kept /\ \A j \in kept : b >= j
    BY <2>1, <2>2
  <2>4. Strip(t) = SubSeq(t, a, b)
    BY <1>3, Zenon DEF Strip
  <2> HIDE DEF a, b
  <2>5. /\ a \in 1..(Len(t) + 1) /\ b \in 0..Len(t) /\ a <= b + 1 /\ a <= b
        /\ t[a] \notin White /\ t[b] \notin White
    BY <1>1, <2>3
  <2>6. /\ Strip(t) \in Seq(S) /\ Len(Strip(t)) = b - a + 1
        /\ \A k \in 1..(b - a + 1) : Strip(t)[k] = t[a + k - 1]
    BY <2>4, <2>5, SubSeqIs
  <2>7. Bare(Strip(t))
    <3>1. 1 \in 1..(b - a + 1) /\ a + 1 - 1 = a
          /\ b - a + 1 \in 1..(b - a + 1) /\ a + (b - a + 1) - 1 = b
      BY <2>5
    <3>2. Strip(t)[1] = t[a] /\ Strip(t)[b - a + 1] = t[b]
      BY <2>6, <3>1
    <3>3. QED BY <2>5, <2>6, <3>2 DEF Bare
  <2>8. ASSUME Bare(t) PROVE Strip(t) = t
    <3>1. t # <<>> /\ Len(t) \in 1..Len(t) /\ 1 \in 1..Len(t)
      BY <1>1, <1>3, <2>5, EmptySeq
    <3>2. 1 \in kept /\ Len(t) \in kept
      BY <1>1, <2>8, <3>1 DEF Bare
    <3>3. a = 1 /\ b = Len(t)
      BY <1>1, <2>3, <2>5, <3>2
    <3>4. QED BY <2>4, <3>3, SubSeqFull
  <2>9. QED BY <2>6, <2>7, <2>8
<1>4. QED BY <1>2, <1>3

\* A small letter is its own small letter, and white space has none.
LEMMA SmallIs ==
  ASSUME NEW c
  PROVE  Small(Small(c)) = Small(c) /\ (Small(c) \in White <=> c \in White)
<1> DEFINE Capitals == {"A", "ADMIN", "HTTP", "LOCALHOST", "FILE"}
           Smalls == {"a", "admin", "http", "localhost", "file"}
<1>1. c \in Capitals => Small(c) \in Smalls
  BY DEF Small
<1>2. \A d : d \notin Capitals => Small(d) = d
  BY DEF Small
<1>3. \A d \in Smalls : d \notin Capitals /\ d \notin White
  BY DEF White
<1>4. \A d \in Capitals : d \notin White
  BY DEF White
<1>5. QED BY <1>1, <1>2, <1>3, <1>4

\* lower keeps the length and the ends of a text, and a second time changes nothing.
LEMMA LowerIs ==
  ASSUME NEW S, NEW t \in Seq(S)
  PROVE  /\ Lower(t) \in Seq({Small(c) : c \in S}) /\ Len(Lower(t)) = Len(t)
         /\ Lower(Lower(t)) = Lower(t) /\ (Bare(t) => Bare(Lower(t)))
<1>1. Len(t) \in Nat /\ DOMAIN t = 1..Len(t) /\ \A i \in 1..Len(t) : t[i] \in S
  BY SeqIs
<1>2. Lower(t) \in [1..Len(t) -> {Small(c) : c \in S}] /\ \A i \in 1..Len(t) : Lower(t)[i] = Small(t[i])
  BY <1>1, SmallIs DEF Lower
<1>3. Lower(t) \in Seq({Small(c) : c \in S}) /\ Len(Lower(t)) = Len(t)
  <2>1. Lower(t) \in Seq({Small(c) : c \in S})
    BY <1>1, <1>2, SeqDef
  <2>2. QED BY <1>1, <1>2, <2>1, LenProperties
<1>4. Lower(Lower(t)) = Lower(t)
  <2>1. DOMAIN Lower(t) = 1..Len(t)
    BY <1>2
  <2>2. Lower(Lower(t)) = [i \in 1..Len(t) |-> Small(Lower(t)[i])]
    BY <2>1 DEF Lower
  <2>3. \A i \in 1..Len(t) : Small(Lower(t)[i]) = Lower(t)[i]
    BY <1>1, <1>2, SmallIs
  <2>4. QED BY <1>2, <2>2, <2>3
<1>5. ASSUME Bare(t) PROVE Bare(Lower(t))
  <2>1. ASSUME Lower(t) # <<>> PROVE Lower(t)[1] \notin White /\ Lower(t)[Len(t)] \notin White
    <3>1. Len(t) # 0
      BY <1>3, <2>1, EmptySeq
    <3>2. 1 \in 1..Len(t) /\ Len(t) \in 1..Len(t) /\ t # <<>>
      BY <1>1, <3>1
    <3>3. t[1] \notin White /\ t[Len(t)] \notin White
      BY <1>5, <3>2 DEF Bare
    <3>4. QED BY <1>1, <1>2, <3>2, <3>3, SmallIs
  <2>2. QED BY <1>3, <2>1 DEF Bare
<1>6. QED BY <1>3, <1>4, <1>5

\* White space is single spaces.
Tidy(t) == \A i \in 1..Len(t) : t[i] \in White => t[i] = "space" /\ (i > 1 => t[i - 1] \notin White)

\* What Collapse has put together after each symbol.
LEMMA CollapseSteps ==
  ASSUME NEW S, NEW t \in Seq(S)
  PROVE  \E done : /\ Collapse(t) = done[Len(t)] /\ done[0] = <<>>
                   /\ \A n \in 1..Len(t) :
                        done[n] = IF t[n] \notin White THEN Append(done[n - 1], t[n])
                                  ELSE IF n > 1 /\ t[n - 1] \in White THEN done[n - 1]
                                  ELSE Append(done[n - 1], "space")
<1> DEFINE Next(g, n) == IF t[n] \notin White THEN Append(g[n - 1], t[n])
                         ELSE IF n > 1 /\ t[n - 1] \in White THEN g[n - 1]
                         ELSE Append(g[n - 1], "space")
           Is(g, m) == g = [n \in 0..m |-> IF n = 0 THEN <<>> ELSE Next(g, n)]
           Bad == {m \in Nat : ~ \E g : Is(g, m)}
           done == CHOOSE g : Is(g, Len(t))
<1>1. ASSUME Bad # {} PROVE FALSE
  <2>1. PICK m \in Bad : \A k \in Bad : m <= k
    BY <1>1, LeastNatural
  <2>2. CASE m = 0
    <3> DEFINE g == [n \in 0..0 |-> <<>>]
    <3>1. Is(g, 0)
      OBVIOUS
    <3>2. QED BY <2>1, <2>2, <3>1
  <2>3. CASE m # 0
    <3>1. m \in Nat /\ m - 1 \in Nat /\ m - 1 \notin Bad
      <4> HIDE DEF Is
      <4>1. m \in Nat /\ m - 1 \in Nat /\ ~(m <= m - 1)
        BY <2>1, <2>3
      <4>2. m - 1 \notin Bad
        <5> HIDE DEF Bad
        <5>1. QED BY <2>1, <4>1
      <4>3. QED BY <4>1, <4>2
    <3>2. PICK h : Is(h, m - 1)
      BY <3>1
    <3> DEFINE g == [n \in 0..m |-> IF n = m THEN Next(h, m) ELSE h[n]]
    <3>3. \A n \in 0..(m - 1) : g[n] = h[n]
      BY <3>1
    <3>4. ASSUME NEW n \in 0..m PROVE g[n] = IF n = 0 THEN <<>> ELSE Next(g, n)
      <4>1. CASE n = m
        <5>1. g[m] = Next(h, m) /\ g[m - 1] = h[m - 1]
          BY <3>1, <3>3
        <5>2. QED BY <4>1, <5>1, <2>3
      <4>2. CASE n # m /\ n # 0
        <5>1. n \in 0..(m - 1) /\ n - 1 \in 0..(m - 1)
          BY <3>1, <4>2
        <5>2. h[n] = Next(h, n)
          BY <3>2, <4>2, <5>1
        <5>3. QED BY <3>3, <4>2, <5>1, <5>2
      <4>3. CASE n = 0 /\ n # m
        BY <3>1, <3>2, <4>3
      <4>4. QED BY <2>3, <4>1, <4>2, <4>3
    <3>5. Is(g, m)
      BY <3>4
    <3>6. QED BY <2>1, <3>5
  <2>4. QED BY <2>2, <2>3
<1>2. Len(t) \in Nat
  BY SeqIs
<1>3. \E g : Is(g, Len(t))
  BY <1>1, <1>2
<1>4. Is(done, Len(t))
  BY <1>3
<1>5. Collapse(t) = done[Len(t)]
  BY DEF Collapse
<1> HIDE DEF done
<1>6. done[0] = <<>> /\ \A n \in 1..Len(t) : done[n] = Next(done, n)
  <2>1. ASSUME NEW n \in 0..Len(t) PROVE done[n] = IF n = 0 THEN <<>> ELSE Next(done, n)
    BY <1>4, <2>1
  <2>2. 0 \in 0..Len(t) /\ \A n \in 1..Len(t) : n \in 0..Len(t) /\ n # 0
    BY <1>2
  <2> HIDE DEF Next
  <2>3. QED BY <2>1, <2>2
<1>7. QED BY <1>5, <1>6

\* The text of a name after its white space is collapsed: single spaces, none at an
\* end, and a text that is so already is left as it is.
LEMMA CollapseIs ==
  ASSUME NEW S, NEW t \in Seq(S), Bare(t)
  PROVE  /\ Collapse(t) \in Seq(S \cup {"space"}) /\ Tidy(Collapse(t)) /\ Bare(Collapse(t))
         /\ Tidy(t) => Collapse(t) = t
<1> DEFINE L == Len(t)  U == S \cup {"space"}
<1>1. L \in Nat /\ \A i \in 1..L : t[i] \in S /\ t[i] \in U
  BY SeqIs
<1>2. PICK done : /\ Collapse(t) = done[L] /\ done[0] = <<>>
                  /\ \A n \in 1..L :
                       done[n] = IF t[n] \notin White THEN Append(done[n - 1], t[n])
                                 ELSE IF n > 1 /\ t[n - 1] \in White THEN done[n - 1]
                                 ELSE Append(done[n - 1], "space")
  BY CollapseSteps
<1> DEFINE First(n) == done[n][1] \notin White
           End(n) == done[n][Len(done[n])] \in White <=> t[n] \in White
           Same(n) == Len(done[n]) = n /\ \A i \in 1..n : done[n][i] = t[i]
           Good(n) == /\ done[n] \in Seq(U) /\ Tidy(done[n])
                      /\ n > 0 => Len(done[n]) > 0 /\ First(n) /\ End(n)
                      /\ Tidy(t) => Same(n)
<1>3. Good(0)
  <2>1. done[0] \in Seq(U) /\ Len(done[0]) = 0
    BY <1>2, EmptySeq
  <2>2. QED BY <2>1 DEF Tidy
<1>4. ASSUME NEW n \in 1..L, Good(n - 1) PROVE Good(n)
  <2> DEFINE d == done[n - 1]  k == Len(d)
  <2>1. d \in Seq(U) /\ k \in Nat /\ \A i \in 1..k : d[i] \in U
    BY <1>4, SeqIs
  <2>2. ASSUME NEW c \in U, done[n] = Append(d, c), c \in White <=> t[n] \in White,
               c \in White => c = "space" /\ n > 1 /\ t[n - 1] \notin White,
               Tidy(t) => c = t[n]
        PROVE  Good(n)
    <3> DEFINE e == done[n]
    <3>1. /\ e \in Seq(U) /\ Len(e) = k + 1 /\ e[k + 1] = c
          /\ \A i \in 1..k : e[i] = d[i]
      BY <2>1, <2>2, AppendProperties
    <3>2. n > 1 => k > 0 /\ First(n - 1) /\ End(n - 1)
      BY <1>4
    <3>3. n = 1 => k = 0
      BY <1>1, <1>2, EmptySeq
    <3>4. Tidy(d) /\ (Tidy(t) => Same(n - 1))
      BY <1>4
    <3>5. Tidy(e)
      <4>1. ASSUME NEW i \in 1..(k + 1), e[i] \in White
            PROVE  e[i] = "space" /\ (i > 1 => e[i - 1] \notin White)
        <5>1. CASE i = k + 1
          <6>1. c = "space" /\ n > 1 /\ t[n - 1] \notin White
            BY <2>2, <3>1, <4>1, <5>1
          <6>2. d[k] \notin White /\ k > 0
            BY <3>2, <6>1
          <6>3. e[k] = d[k] /\ i - 1 = k
            BY <2>1, <3>1, <5>1, <6>2
          <6>4. QED BY <3>1, <5>1, <6>1, <6>2, <6>3
        <5>2. CASE i # k + 1
          <6>1. i \in 1..k /\ (i > 1 => i - 1 \in 1..k)
            BY <2>1, <5>2
          <6>2. QED BY <3>1, <3>4, <4>1, <6>1 DEF Tidy
        <5>3. QED BY <5>1, <5>2
      <4>2. QED BY <3>1, <4>1 DEF Tidy
    <3>6. Len(e) > 0 /\ End(n)
      BY <2>1, <2>2, <3>1
    <3>7. First(n)
      <4>1. CASE n = 1
        <5>1. c \notin White /\ k = 0
          BY <2>2, <3>3, <4>1
        <5>2. QED BY <3>1, <5>1
      <4>2. CASE n # 1
        <5>1. n > 1
          BY <1>1, <4>2
        <5>2. k > 0 /\ d[1] \notin White
          BY <3>2, <5>1
        <5>3. 1 \in 1..k
          BY <2>1, <5>2
        <5>4. QED BY <3>1, <5>2, <5>3
      <4>3. QED BY <4>1, <4>2
    <3>8. Tidy(t) => Same(n)
      BY <1>1, <2>2, <3>1, <3>4
    <3> HIDE DEF d, k
    <3>9. QED BY <3>1, <3>5, <3>6, <3>7, <3>8
  <2>3. CASE t[n] \notin White
    <3>1. done[n] = Append(d, t[n]) /\ t[n] \in U
      BY <1>1, <1>2, <2>3
    <3>2. QED BY <2>2, <2>3, <3>1
  <2>4. CASE t[n] \in White /\ ~(n > 1 /\ t[n - 1] \in White)
    <3>1. n # 1
      <4>1. ASSUME n = 1 PROVE FALSE
        <5>1. t # <<>>
          BY <1>1, <4>1, EmptySeq
        <5>2. QED BY <2>4, <4>1, <5>1 DEF Bare
      <4>2. QED BY <4>1
    <3>2. done[n] = Append(d, "space") /\ n > 1 /\ "space" \in U /\ "space" \in White
      <4>1. done[n] = Append(d, "space")
        BY <1>2, <2>4
      <4>2. n > 1 /\ "space" \in U
        BY <1>1, <3>1
      <4>3. "space" \in White
        BY DEF White
      <4>4. QED BY <4>1, <4>2, <4>3
    <3>3. Tidy(t) => t[n] = "space"
      BY <2>4 DEF Tidy
    <3>4. QED BY <2>2, <2>4, <3>2, <3>3
  <2>5. CASE t[n] \in White /\ n > 1 /\ t[n - 1] \in White
    <3>1. done[n] = d
      BY <1>2, <2>5
    <3>2. ~Tidy(t)
      BY <1>1, <2>5 DEF Tidy
    <3>3. QED BY <1>4, <2>5, <3>1, <3>2
  <2>6. QED BY <2>3, <2>4, <2>5
<1> HIDE DEF Good
<1>5. Good(L)
  <2> DEFINE Bad == {n \in 0..L : ~Good(n)}
  <2>1. ASSUME Bad # {} PROVE FALSE
    <3>1. PICK n \in Bad : \A m \in Bad : n <= m
      <4>1. Bad \subseteq Nat
        BY <1>1
      <4>2. QED BY <2>1, <4>1, LeastNatural
    <3>2. n \in 1..L
      BY <1>1, <1>3, <3>1
    <3>3. n - 1 \in 0..L /\ n - 1 \notin Bad
      <4>1. n - 1 \in 0..L /\ ~(n <= n - 1)
        BY <1>1, <3>2
      <4> HIDE DEF Bad
      <4>2. QED BY <3>1, <4>1
    <3>4. Good(n)
      BY <1>4, <3>2, <3>3
    <3>5. QED BY <3>1, <3>4
  <2>2. QED BY <1>1, <2>1
<1> USE DEF Good
<1>6. Collapse(t) \in Seq(U) /\ Tidy(Collapse(t))
  BY <1>2, <1>5
<1>7. Bare(Collapse(t))
  <2>1. CASE L = 0
    BY <1>2, <2>1 DEF Bare
  <2>2. CASE L # 0
    <3>1. t # <<>> /\ L > 0
      BY <1>1, <2>2, EmptySeq
    <3>2. t[L] \notin White
      BY <3>1 DEF Bare
    <3>3. First(L) /\ End(L)
      BY <1>5, <3>1
    <3>4. QED BY <1>2, <3>2, <3>3 DEF Bare
  <2>3. QED BY <2>1, <2>2
<1>8. ASSUME Tidy(t) PROVE Collapse(t) = t
  <2>1. Len(done[L]) = L /\ (\A i \in 1..L : done[L][i] = t[i]) /\ done[L] \in Seq(U)
    BY <1>5, <1>8
  <2>2. t \in Seq(U)
    BY SeqMonotonic
  <2>3. QED BY <1>2, <2>1, <2>2, SeqEqual
<1>9. QED BY <1>6, <1>7, <1>8

\* An address that the validator returns fits the type: the symbols before and after its
\* one "@" are the parts that the validator looked at.
LEMMA EmailFits ==
  ASSUME NEW S, NEW t \in Seq(S), ValidEmail(t) PROVE FitsEmail(t)
<1> DEFINE L == Len(t)
<1>1. L \in Nat /\ DOMAIN t = 1..L
  BY SeqIs
<1>2. PICK i \in 1..L : Ats(t) = {i}
  BY <1>1 DEF ValidEmail
<1>3. t[i] = "@" /\ i \in Nat
  BY <1>1, <1>2 DEF Ats
<1>4. LocalPart(t) = SubSeq(t, 1, i - 1)
  <2>1. (CHOOSE k \in 0..L : k + 1 \in Ats(t)) = i - 1
    <3>1. i - 1 \in 0..L /\ (i - 1) + 1 \in Ats(t)
      BY <1>1, <1>2
    <3>2. \A k \in 0..L : k + 1 \in Ats(t) => k = i - 1
      BY <1>1, <1>2
    <3>3. QED BY <3>1, <3>2
  <2>2. QED BY <2>1 DEF LocalPart
<1>5. DomainPart(t) = SubSeq(t, 1 + i, L)
  <2>1. (CHOOSE k \in Ats(t) : TRUE) = i
    BY <1>2
  <2>2. QED BY <2>1 DEF DomainPart
<1> DEFINE l == LocalPart(t)  d == DomainPart(t)  D == L - i
<1>6. l \in Seq(S) /\ Len(l) = i - 1 /\ l # <<>> /\ Only(l, LocalSymbols)
  <2>1. 1 \in 1..(L + 1) /\ i - 1 \in 0..L /\ 1 <= (i - 1) + 1
    BY <1>1
  <2>2. SubSeq(t, 1, i - 1) \in Seq(S) /\ Len(SubSeq(t, 1, i - 1)) = (i - 1) - 1 + 1
    BY <2>1, SubSeqIs
  <2>3. (i - 1) - 1 + 1 = i - 1
    BY <1>1
  <2>4. QED BY <1>4, <2>2, <2>3 DEF ValidEmail
<1>7. i > 1
  BY <1>1, <1>6, EmptySeq
<1>8. d \in Seq(S) /\ Len(d) = D /\ D \in Nat /\ \A k \in 1..D : d[k] = t[i + k]
  <2>1. 1 + i \in 1..(L + 1) /\ L \in 0..L /\ 1 + i <= L + 1 /\ L - (1 + i) + 1 = D /\ D \in Nat
        /\ \A k \in 1..D : (1 + i) + k - 1 = i + k
    BY <1>1
  <2>2. /\ d \in Seq(S) /\ Len(d) = L - (1 + i) + 1
        /\ \A k \in 1..(L - (1 + i) + 1) : d[k] = t[(1 + i) + k - 1]
    <3>1. /\ SubSeq(t, 1 + i, L) \in Seq(S) /\ Len(SubSeq(t, 1 + i, L)) = L - (1 + i) + 1
          /\ \A k \in 1..(L - (1 + i) + 1) : SubSeq(t, 1 + i, L)[k] = t[(1 + i) + k - 1]
      <4>1. PICK a \in 1..(L + 1), b \in 0..L : a = 1 + i /\ b = L /\ a <= b + 1
        BY <2>1
      <4>2. /\ SubSeq(t, a, b) \in Seq(S) /\ Len(SubSeq(t, a, b)) = b - a + 1
            /\ \A k \in 1..(b - a + 1) : SubSeq(t, a, b)[k] = t[a + k - 1]
        BY <4>1, SubSeqIs
      <4>3. QED BY <4>1, <4>2
    <3>2. d = SubSeq(t, 1 + i, L)
      BY <1>5
    <3> HIDE DEF d
    <3>3. QED BY <3>1, <3>2
  <2> HIDE DEF d, D
  <2>3. Len(d) = D /\ \A k \in 1..D : d[k] = t[(1 + i) + k - 1]
    BY <2>1, <2>2
  <2>4. QED BY <2>1, <2>2, <2>3
<1> HIDE DEF d, D
<1>9. PICK j \in 2..D : /\ d[j] = "." /\ TopLevel(SubSeq(d, j + 1, D))
                        /\ Only(SubSeq(d, 1, j - 1), DomainSymbols)
  BY <1>8 DEF ValidEmail, DomainOK, d
<1> DEFINE top == SubSeq(d, j + 1, D)  mid == SubSeq(d, 1, j - 1)
           top2 == SubSeq(t, i + j + 1, L)  mid2 == SubSeq(t, i + 1, i + j - 1)
<1>10. j \in Nat /\ D = L - i /\ i + j \in 1..L /\ 1 < i /\ i + 1 < i + j /\ t[i + j] = "."
  <2>1. D = L - i
    BY DEF D
  <2>2. j \in Nat /\ 2 <= j /\ j <= D /\ j \in 1..D /\ L \in Nat /\ i \in Nat
    BY <1>1, <1>3, <1>8, <1>9
  <2>3. t[i + j] = "."
    BY <1>8, <1>9, <2>2
  <2>4. i + j \in 1..L /\ 1 < i /\ i + 1 < i + j
    BY <1>7, <2>1, <2>2
  <2>5. QED BY <2>1, <2>2, <2>3, <2>4
<1>11. top2 = top
  <2>1. /\ top \in Seq(S) /\ Len(top) = D - (j + 1) + 1
        /\ \A k \in 1..(D - (j + 1) + 1) : top[k] = d[(j + 1) + k - 1]
    <3>1. j + 1 \in 1..(Len(d) + 1) /\ D \in 0..Len(d) /\ j + 1 <= D + 1 /\ d \in Seq(S)
      BY <1>8, <1>9
    <3>2. QED BY <3>1, SubSeqIs
  <2>2. /\ top2 \in Seq(S) /\ Len(top2) = L - (i + j + 1) + 1
        /\ \A k \in 1..(L - (i + j + 1) + 1) : top2[k] = t[(i + j + 1) + k - 1]
    <3>1. i + j + 1 \in 1..(L + 1) /\ L \in 0..L /\ i + j + 1 <= L + 1
      BY <1>1, <1>10
    <3>2. QED BY <3>1, SubSeqIs
  <2>3. L - (i + j + 1) + 1 = D - (j + 1) + 1
    BY <1>1, <1>10
  <2>4. ASSUME NEW k \in 1..(D - (j + 1) + 1) PROVE top2[k] = top[k]
    <3>1. (j + 1) + k - 1 \in 1..D /\ i + ((j + 1) + k - 1) = (i + j + 1) + k - 1
      BY <1>1, <1>8, <1>9, <1>10
    <3>2. QED BY <1>8, <2>1, <2>2, <2>3, <3>1
  <2> HIDE DEF top, top2
  <2>5. QED BY <2>1, <2>2, <2>3, <2>4, SeqEqual
<1>12. mid2 = mid
  <2>1. /\ mid \in Seq(S) /\ Len(mid) = (j - 1) - 1 + 1
        /\ \A k \in 1..((j - 1) - 1 + 1) : mid[k] = d[1 + k - 1]
    <3>1. 1 \in 1..(Len(d) + 1) /\ j - 1 \in 0..Len(d) /\ 1 <= (j - 1) + 1
      BY <1>8, <1>9
    <3>2. QED BY <1>8, <3>1, SubSeqIs
  <2>2. /\ mid2 \in Seq(S) /\ Len(mid2) = (i + j - 1) - (i + 1) + 1
        /\ \A k \in 1..((i + j - 1) - (i + 1) + 1) : mid2[k] = t[(i + 1) + k - 1]
    <3>1. i + 1 \in 1..(L + 1) /\ i + j - 1 \in 0..L /\ i + 1 <= (i + j - 1) + 1
      BY <1>1, <1>10
    <3>2. QED BY <3>1, SubSeqIs
  <2>3. (i + j - 1) - (i + 1) + 1 = (j - 1) - 1 + 1
    BY <1>1, <1>10
  <2>4. ASSUME NEW k \in 1..((j - 1) - 1 + 1) PROVE mid2[k] = mid[k]
    <3>1. 1 + k - 1 \in 1..D /\ i + (1 + k - 1) = (i + 1) + k - 1
      BY <1>1, <1>8, <1>9, <1>10
    <3>2. QED BY <1>8, <2>1, <2>2, <2>3, <3>1
  <2> HIDE DEF mid, mid2
  <2>5. QED BY <2>1, <2>2, <2>3, <2>4, SeqEqual
<1>13. TypeTopLevel(top)
  <2>1. LowerLetters \subseteq AnyCase \ Digits
    BY DEF LowerLetters, AnyCase, Digits, Alnum, Words
  <2>2. QED BY <1>9, <2>1 DEF TopLevel, TypeTopLevel, Only
<1> HIDE DEF top, mid, top2, mid2
<1>14. /\ i \in DOMAIN t /\ i + j \in DOMAIN t /\ 1 < i /\ i + 1 < i + j
       /\ t[i] = "@" /\ t[i + j] = "."
       /\ Only(SubSeq(t, 1, i - 1), LocalSymbols)
       /\ Only(SubSeq(t, i + 1, i + j - 1), DomainSymbols)
       /\ TypeTopLevel(SubSeq(t, i + j + 1, Len(t)))
  <2>1. Only(SubSeq(t, 1, i - 1), LocalSymbols)
    BY <1>4, <1>6
  <2>2. Only(SubSeq(t, i + 1, i + j - 1), DomainSymbols)
    <3>1. Only(mid, DomainSymbols) /\ mid2 = mid
      BY <1>9, <1>12 DEF mid
    <3>2. Only(mid2, DomainSymbols)
      BY <3>1
    <3>3. QED BY <3>2 DEF mid2
  <2>3. TypeTopLevel(SubSeq(t, i + j + 1, Len(t)))
    BY <1>11, <1>13 DEF top, top2
  <2>4. /\ i \in DOMAIN t /\ i + j \in DOMAIN t /\ 1 < i /\ i + 1 < i + j
        /\ t[i] = "@" /\ t[i + j] = "."
    BY <1>1, <1>3, <1>10
  <2>5. QED BY <2>1, <2>2, <2>3, <2>4
<1>15. QED BY <1>14 DEF FitsEmail

\* The validator of slugs and the type of slugs describe the same texts.
LEMMA SlugFits ==
  ASSUME NEW S, NEW t \in Seq(S), LengthOK("slug", t)
  PROVE  ValidSlug(t) <=> FitsSlug(t)
<1> DEFINE L == Len(t)
<1>1. L \in Nat \ {0} /\ DOMAIN t = 1..L
  <2>1. MinLengthOf["slug"] > 0 /\ MinLengthOf["slug"] \in Nat /\ MaxLengthOf["slug"] \in Nat
    BY ValidationAssumption DEF Fields
  <2>2. QED BY <2>1, SeqIs DEF LengthOK
<1>2. "-" \notin Alnum
  BY DEF Alnum, LowerLetters, Digits, Words
<1>3. ASSUME ValidSlug(t) PROVE FitsSlug(t)
  <2>1. /\ \A i \in 1..L : t[i] \in Alnum \cup {"-"}
        /\ t[1] # "-" /\ t[L] # "-"
        /\ \A i \in 1..(L - 1) : ~(t[i] = "-" /\ t[i + 1] = "-")
    BY <1>1, <1>3 DEF ValidSlug, Only
  <2>2. ASSUME NEW i \in 1..L, t[i] = "-"
        PROVE  1 < i /\ i < L /\ t[i - 1] \in Alnum /\ t[i + 1] \in Alnum
    <3>1. 1 < i /\ i < L
      BY <1>1, <2>1, <2>2
    <3>2. /\ i - 1 \in 1..(L - 1) /\ i - 1 \in 1..L /\ (i - 1) + 1 = i
          /\ i \in 1..(L - 1) /\ i + 1 \in 1..L
      BY <1>1, <3>1
    <3>3. t[i - 1] # "-" /\ t[i + 1] # "-"
      BY <2>1, <2>2, <3>2
    <3>4. QED BY <2>1, <3>1, <3>2, <3>3
  <2>3. QED BY <1>1, <2>1, <2>2 DEF FitsSlug, Only
<1>4. ASSUME FitsSlug(t) PROVE ValidSlug(t)
  <2>1. /\ Only(t, Alnum \cup {"-"})
        /\ \A i \in 1..L : t[i] = "-" => /\ 1 < i /\ i < L
                                         /\ t[i - 1] \in Alnum /\ t[i + 1] \in Alnum
    BY <1>1, <1>4 DEF FitsSlug
  <2>2. 1 \in 1..L /\ L \in 1..L
    BY <1>1
  <2>3. t[1] # "-" /\ t[L] # "-"
    BY <1>1, <2>1, <2>2
  <2>4. \A i \in 1..(L - 1) : ~(t[i] = "-" /\ t[i + 1] = "-")
    BY <1>1, <1>2, <2>1
  <2>5. QED BY <2>1, <2>3, <2>4 DEF ValidSlug
<1>5. QED BY <1>3, <1>4

\* The validator of usernames refuses of what fits the type the reserved ones and those
\* that repeat a symbol four times.
LEMMA UsernameFits ==
  ASSUME NEW S, NEW t \in Seq(S), LengthOK("username", t)
  PROVE  ValidUsername(t) <=> FitsUsername(t) /\ t \notin Reserved /\ ~Repeats(t, 4)
<1>1. MinLengthOf["username"] > 0 /\ MinLengthOf["username"] \in Nat /\ MaxLengthOf["username"] \in Nat
  BY ValidationAssumption DEF Fields
<1>2. Len(t) # 0
  BY <1>1, SeqIs DEF LengthOK
<1>3. t # <<>>
  BY <1>2, EmptySeq
<1>4. QED BY <1>3 DEF ValidUsername, FitsUsername

\* What Parsed has put together after each symbol.
LEMMA ParsedSteps ==
  ASSUME NEW S, NEW t \in Seq(S)
  PROVE  \E done : /\ Parsed(t) = done[Len(t)] /\ done[0] = <<>>
                   /\ \A n \in 1..Len(t) :
                        done[n] = IF t[n] = "tab" \/ (t[n] \in {"ctrl", "space"} /\ done[n - 1] = <<>>)
                                    THEN done[n - 1]
                                  ELSE Append(done[n - 1], t[n])
<1> DEFINE Next(g, n) == IF t[n] = "tab" \/ (t[n] \in {"ctrl", "space"} /\ g[n - 1] = <<>>)
                           THEN g[n - 1]
                         ELSE Append(g[n - 1], t[n])
           Is(g, m) == g = [n \in 0..m |-> IF n = 0 THEN <<>> ELSE Next(g, n)]
           Bad == {m \in Nat : ~ \E g : Is(g, m)}
           done == CHOOSE g : Is(g, Len(t))
<1>1. ASSUME Bad # {} PROVE FALSE
  <2>1. PICK m \in Bad : \A k \in Bad : m <= k
    BY <1>1, LeastNatural
  <2>2. CASE m = 0
    <3> DEFINE g == [n \in 0..0 |-> <<>>]
    <3>1. Is(g, 0)
      OBVIOUS
    <3>2. QED BY <2>1, <2>2, <3>1
  <2>3. CASE m # 0
    <3>1. m \in Nat /\ m - 1 \in Nat /\ m - 1 \notin Bad
      <4> HIDE DEF Is
      <4>1. m \in Nat /\ m - 1 \in Nat /\ ~(m <= m - 1)
        BY <2>1, <2>3
      <4>2. m - 1 \notin Bad
        <5> HIDE DEF Bad
        <5>1. QED BY <2>1, <4>1
      <4>3. QED BY <4>1, <4>2
    <3>2. PICK h : Is(h, m - 1)
      BY <3>1
    <3> DEFINE g == [n \in 0..m |-> IF n = m THEN Next(h, m) ELSE h[n]]
    <3>3. \A n \in 0..(m - 1) : g[n] = h[n]
      BY <3>1
    <3>4. ASSUME NEW n \in 0..m PROVE g[n] = IF n = 0 THEN <<>> ELSE Next(g, n)
      <4>1. CASE n = m
        <5>1. g[m] = Next(h, m) /\ g[m - 1] = h[m - 1]
          BY <3>1, <3>3
        <5>2. QED BY <4>1, <5>1, <2>3
      <4>2. CASE n # m /\ n # 0
        <5>1. n \in 0..(m - 1) /\ n - 1 \in 0..(m - 1)
          BY <3>1, <4>2
        <5>2. h[n] = Next(h, n)
          BY <3>2, <4>2, <5>1
        <5>3. QED BY <3>3, <4>2, <5>1, <5>2
      <4>3. CASE n = 0 /\ n # m
        BY <3>1, <3>2, <4>3
      <4>4. QED BY <2>3, <4>1, <4>2, <4>3
    <3>5. Is(g, m)
      BY <3>4
    <3>6. QED BY <2>1, <3>5
  <2>4. QED BY <2>2, <2>3
<1>2. Len(t) \in Nat
  BY SeqIs
<1>3. \E g : Is(g, Len(t))
  BY <1>1, <1>2
<1>4. Is(done, Len(t))
  BY <1>3
<1>5. Parsed(t) = done[Len(t)]
  BY DEF Parsed
<1> HIDE DEF done
<1>6. done[0] = <<>> /\ \A n \in 1..Len(t) : done[n] = Next(done, n)
  <2>1. ASSUME NEW n \in 0..Len(t) PROVE done[n] = IF n = 0 THEN <<>> ELSE Next(done, n)
    BY <1>4, <2>1
  <2>2. 0 \in 0..Len(t) /\ \A n \in 1..Len(t) : n \in 0..Len(t) /\ n # 0
    BY <1>2
  <2> HIDE DEF Next
  <2>3. QED BY <2>1, <2>2
<1>7. QED BY <1>5, <1>6

\* The start of a text in which urlparse drops nothing is the start of what it parses.
LEMMA ParsedIs ==
  ASSUME NEW S, NEW t \in Seq(S)
  PROVE  /\ Parsed(t) \in Seq(S) /\ Len(Parsed(t)) <= Len(t)
         /\ t[1] \notin {"ctrl", "space"} /\ (\A i \in 1..4 : i <= Len(t) => t[i] # "tab") =>
              \A i \in 1..4 : i <= Len(t) => i <= Len(Parsed(t)) /\ Parsed(t)[i] = t[i]
<1> DEFINE L == Len(t)
           Clear == t[1] \notin {"ctrl", "space"} /\ \A i \in 1..4 : i <= L => t[i] # "tab"
<1>1. L \in Nat /\ \A i \in 1..L : t[i] \in S
  BY SeqIs
<1>2. PICK done : /\ Parsed(t) = done[L] /\ done[0] = <<>>
                  /\ \A n \in 1..L :
                       done[n] = IF t[n] = "tab" \/ (t[n] \in {"ctrl", "space"} /\ done[n - 1] = <<>>)
                                   THEN done[n - 1]
                                 ELSE Append(done[n - 1], t[n])
  BY ParsedSteps
<1> DEFINE Good(n) == /\ done[n] \in Seq(S) /\ Len(done[n]) <= n
                      /\ Clear => \A i \in 1..4 : i <= n => i <= Len(done[n]) /\ done[n][i] = t[i]
<1>3. Good(0)
  BY <1>2, EmptySeq
<1>4. ASSUME NEW n \in 1..L, Good(n - 1) PROVE Good(n)
  <2> DEFINE d == done[n - 1]  k == Len(d)
  <2>1. /\ d \in Seq(S) /\ k \in Nat /\ k <= n - 1
        /\ Clear => \A i \in 1..4 : i <= n - 1 => i <= k /\ d[i] = t[i]
    BY <1>4, SeqIs
  <2>2. n \in Nat /\ n > 0 /\ n <= L /\ t[n] \in S
    BY <1>1
  <2>3. CASE t[n] = "tab" \/ (t[n] \in {"ctrl", "space"} /\ d = <<>>)
    <3>1. done[n] = d
      BY <1>2, <2>3
    <3>2. ASSUME Clear PROVE n > 4
      <4>1. ASSUME n <= 4 PROVE FALSE
        <5>1. t[n] # "tab"
          BY <2>2, <3>2, <4>1
        <5>2. d = <<>> /\ k = 0
          BY <2>1, <2>3, <5>1, EmptySeq
        <5>3. n = 1
          BY <2>1, <2>2, <3>2, <5>2
        <5>4. QED BY <2>3, <3>2, <5>1, <5>3
      <4>2. QED BY <2>2, <4>1
    <3> HIDE DEF Clear, d
    <3>3. QED BY <2>1, <2>2, <3>1, <3>2 DEF k
  <2>4. CASE ~(t[n] = "tab" \/ (t[n] \in {"ctrl", "space"} /\ d = <<>>))
    <3>1. done[n] = Append(d, t[n])
      BY <1>2, <2>4
    <3>2. /\ done[n] \in Seq(S) /\ Len(done[n]) = k + 1 /\ done[n][k + 1] = t[n]
          /\ \A i \in 1..k : done[n][i] = d[i]
      BY <2>1, <2>2, <3>1, AppendProperties
    <3>3. ASSUME Clear, NEW i \in 1..4, i <= n PROVE i <= k + 1 /\ done[n][i] = t[i]
      <4>1. CASE i < n
        <5>1. i <= k /\ d[i] = t[i]
          BY <2>1, <2>2, <3>3, <4>1
        <5>2. QED BY <2>1, <3>2, <5>1
      <4>2. CASE i = n
        <5>1. n > 1 => n - 1 <= k
          BY <2>1, <2>2, <3>3, <4>2
        <5>2. k + 1 = n
          BY <2>1, <2>2, <5>1
        <5>3. QED BY <3>2, <4>2, <5>2
      <4>3. QED BY <2>2, <3>3, <4>1, <4>2
    <3> HIDE DEF Clear, d, k
    <3>4. QED BY <2>1, <2>2, <3>2, <3>3
  <2>5. QED BY <2>3, <2>4
<1> HIDE DEF Good
<1>5. Good(L)
  <2> DEFINE Bad == {n \in 0..L : ~Good(n)}
  <2>1. ASSUME Bad # {} PROVE FALSE
    <3>1. PICK n \in Bad : \A m \in Bad : n <= m
      <4>1. Bad \subseteq Nat
        BY <1>1
      <4>2. QED BY <2>1, <4>1, LeastNatural
    <3>2. n \in 1..L
      BY <1>1, <1>3, <3>1
    <3>3. n - 1 \in 0..L /\ n - 1 \notin Bad
      <4>1. n - 1 \in 0..L /\ ~(n <= n - 1)
        BY <1>1, <3>2
      <4> HIDE DEF Bad
      <4>2. QED BY <3>1, <4>1
    <3>4. Good(n)
      BY <1>4, <3>2, <3>3
    <3>5. QED BY <3>1, <3>4
  <2>2. QED BY <1>1, <2>1
<1>6. QED BY <1>2, <1>5 DEF Good

\* What urlparse splits into an allowed scheme and a host name begins with http:// or
\* https://, in small letters or capitals.
LEMMA AllowedStart ==
  ASSUME NEW S, NEW p \in Seq(S), Scheme(p) \in {<<"http">>, <<"https">>}, Host(p) # <<>>
  PROVE  Len(p) >= 4 /\ Small(p[1]) \in {"http", "https"} /\ p[2] = ":" /\ p[3] = "/" /\ p[4] = "/"
<1> DEFINE L == Len(p)
           Stops(i) == (\A j \in 1..i : p[j] \notin {":"}) /\ (i < L => p[i + 1] \in {":"})
           k == CHOOSE i \in 0..Len(p) : /\ \A j \in 1..i : p[j] \notin {":"}
                                         /\ i < Len(p) => p[i + 1] \in {":"}
           b == Before(p, {":"})
<1>1. L \in Nat /\ DOMAIN p = 1..L
  BY SeqIs
<1>2. ":" \in Range(p) /\ Scheme(p) = Lower(b)
  BY DEF Scheme
<1>3. PICK m \in 1..L : p[m] = ":"
  BY <1>1, <1>2 DEF Range
<1>4. \E i \in 0..L : Stops(i)
  <2> DEFINE C == {i \in 1..L : p[i] = ":"}
  <2>1. C # {} /\ C \subseteq Nat
    BY <1>1, <1>3
  <2>2. PICK i \in C : \A j \in C : i <= j
    <3> HIDE DEF C
    <3>1. QED BY <2>1, LeastNatural
  <2>3. i \in 1..L /\ p[i] = ":"
    BY <2>2
  <2>4. \A j \in 1..(i - 1) : p[j] # ":"
    <3>1. ASSUME NEW j \in 1..(i - 1), p[j] = ":" PROVE FALSE
      <4>1. j \in C /\ ~(i <= j)
        BY <1>1, <2>3, <3>1
      <4>2. QED BY <2>2, <4>1
    <3>2. QED BY <3>1
  <2>5. i - 1 \in 0..L /\ i - 1 + 1 = i
    BY <1>1, <2>3
  <2>6. Stops(i - 1)
    BY <2>3, <2>4, <2>5
  <2>7. QED BY <2>5, <2>6
<1>5. k \in 0..L /\ Stops(k)
  BY <1>4
<1>6. b = SubSeq(p, 1, k)
  BY DEF Before
<1> HIDE DEF k
<1>7. b \in Seq(S) /\ Len(b) = k /\ \A i \in 1..k : b[i] = p[i]
  <2>1. 1 \in 1..(L + 1) /\ 1 <= k + 1 /\ k - 1 + 1 = k /\ \A i \in 1..k : 1 + i - 1 = i
    BY <1>1, <1>5
  <2>2. QED BY <1>5, <1>6, <2>1, SubSeqIs
<1> HIDE DEF b
<1>8. Len(Lower(b)) = k /\ \A i \in 1..k : Lower(b)[i] = Small(p[i])
  <2>1. DOMAIN b = 1..k
    BY <1>7, SeqIs
  <2>2. QED BY <1>7, <2>1, LowerIs DEF Lower
<1>9. k = 1 /\ Small(p[1]) \in {"http", "https"}
  <2>1. Lower(b) \in {<<"http">>, <<"https">>}
    BY <1>2
  <2>2. Len(Lower(b)) = 1 /\ Lower(b)[1] \in {"http", "https"}
    BY <2>1
  <2>3. QED BY <1>8, <2>2
<1>10. L >= 2 /\ p[2] = ":"
  <2>1. k < L
    BY <1>1, <1>3, <1>5
  <2>2. QED BY <1>1, <1>5, <1>9, <2>1
<1>11. Rest(p) = SubSeq(p, 3, L)
  <2>1. Rest(p) = SubSeq(p, (Len(b) + 1) + 1, L)
    BY DEF Rest, Past, b
  <2>2. (Len(b) + 1) + 1 = 3
    BY <1>7, <1>9
  <2>3. QED BY <2>1, <2>2
<1>12. Len(Rest(p)) = L - 2 /\ \A i \in 1..(L - 2) : Rest(p)[i] = p[i + 2]
  <2>1. 3 \in 1..(L + 1) /\ 3 <= L + 1 /\ L \in 0..L /\ L - 3 + 1 = L - 2
    BY <1>1, <1>10
  <2>2. \A i \in 1..(L - 2) : 3 + i - 1 = i + 2
    BY <1>1
  <2>3. QED BY <1>11, <2>1, <2>2, SubSeqIs
<1>13. ~(Len(Rest(p)) < 2 \/ Rest(p)[1] # "/" \/ Rest(p)[2] # "/")
  BY DEF Host
<1>14. L >= 4 /\ p[3] = "/" /\ p[4] = "/"
  BY <1>1, <1>12, <1>13
<1>15. QED BY <1>9, <1>10, <1>14

\* A URL that the validator returns fits the type unless its start is disguised.
LEMMA UrlFits ==
  ASSUME NEW S, NEW t \in Seq(S), Bare(t), ValidUrl(t)
  PROVE  FitsUrl(t) <=> ~Disguised(t)
<1> DEFINE p == Parsed(t)
<1>1. Len(t) \in Nat /\ DOMAIN t = 1..Len(t)
  BY SeqIs
<1>2. p \in Seq(S) /\ Len(p) <= Len(t)
  BY ParsedIs
<1>3. Scheme(p) \in {<<"http">>, <<"https">>} /\ Host(p) # <<>>
  BY DEF ValidUrl
<1>4. /\ Len(p) >= 4 /\ Small(p[1]) \in {"http", "https"} /\ p[2] = ":" /\ p[3] = "/" /\ p[4] = "/"
      /\ Len(p) \in Nat
  BY <1>2, <1>3, AllowedStart, SeqIs
<1>5. Len(t) >= 4
  BY <1>1, <1>2, <1>4
<1>6. ASSUME ~Disguised(t) PROVE FitsUrl(t)
  <2>1. \A i \in 1..4 : Small(t[i]) = t[i] /\ t[i] \notin {"ctrl", "tab"}
    BY <1>1, <1>5, <1>6 DEF Disguised
  <2>2. t[1] # "space"
    BY <1>5, EmptySeq DEF Bare, White
  <2>3. \A i \in 1..4 : p[i] = t[i]
    BY <1>5, <2>1, <2>2, ParsedIs
  <2>4. QED BY <1>4, <1>5, <2>1, <2>3 DEF FitsUrl
<1>7. ASSUME FitsUrl(t), Disguised(t) PROVE FALSE
  <2>1. PICK i \in 1..4 : Small(t[i]) # t[i] \/ t[i] \in {"ctrl", "tab"}
    BY <1>1, <1>7 DEF Disguised
  <2>2. t[i] \in {"http", "https", ":", "/"}
    BY <1>7 DEF FitsUrl
  <2>3. QED BY <2>1, <2>2 DEF Small
<1>8. QED BY <1>6, <1>7

\* What a validator has cleaned it leaves as it is when it cleans it again.
LEMMA CleanedIs ==
  ASSUME NEW S, NEW x \in Seq(S), NEW f \in Fields
  PROVE  /\ \E U : Cleaned(f, x) \in Seq(U)
         /\ Cleaned(f, Cleaned(f, x)) = Cleaned(f, x)
<1> DEFINE s == Strip(x)
<1>1. s \in Seq(S) /\ Bare(s)
  BY StripIs
<1> HIDE DEF s
<1>2. CASE f \in {"email", "username", "slug"}
  <2> DEFINE l == Lower(s)
  <2>1. /\ l \in Seq({Small(c) : c \in S}) /\ Bare(l) /\ Lower(l) = l
    BY <1>1, LowerIs
  <2>2. Strip(l) = l
    BY <2>1, StripIs
  <2>3. \A y : Cleaned(f, y) = Lower(Strip(y))
    BY <1>2 DEF Cleaned
  <2> HIDE DEF l
  <2>4. Cleaned(f, x) = l
    BY <2>3 DEF l, s
  <2>5. QED BY <2>1, <2>2, <2>3, <2>4
<1>3. CASE f = "name"
  <2> DEFINE c == Collapse(s)
  <2>1. c \in Seq(S \cup {"space"}) /\ Tidy(c) /\ Bare(c)
    BY <1>1, CollapseIs
  <2>2. Strip(c) = c /\ Collapse(c) = c
    BY <2>1, StripIs, CollapseIs
  <2>3. \A y : Cleaned(f, y) = Collapse(Strip(y))
    BY <1>3 DEF Cleaned
  <2> HIDE DEF c
  <2>4. Cleaned(f, x) = c
    BY <2>3 DEF c, s
  <2>5. QED BY <2>1, <2>2, <2>3, <2>4
<1>4. CASE f = "url"
  <2>1. Strip(s) = s
    BY <1>1, StripIs
  <2>2. \A y : Cleaned(f, y) = Strip(y)
    BY <1>4 DEF Cleaned
  <2>3. Cleaned(f, x) = s
    BY <2>2 DEF s
  <2>4. QED BY <1>1, <2>1, <2>2, <2>3
<1>5. QED BY <1>2, <1>3, <1>4 DEF Fields

\* The validators of utils/validation.py and the types of utils/types.py agree, for texts
\* of any length: what a validator returns is returned unchanged the next time and fits the
\* type of its field, but for exactly the URLs whose start is disguised.
THEOREM LayersAgreeHolds == ValidationInit => LayersAgree
<1> SUFFICES ASSUME ValidationInit PROVE LayersAgree
  OBVIOUS
<1> DEFINE t == Cleaned(field, text)
<1>1. field \in Fields /\ text \in Seq(Range(text))
  BY ValidationAssumption DEF ValidationInit
<1>2. Cleaned(field, t) = t
  BY <1>1, CleanedIs
<1>3. PICK U : t \in Seq(U)
  BY <1>1, CleanedIs
<1>4. Returns(field, text) = Validates(field, t) /\ Returns(field, t) = Validates(field, t)
  BY <1>2 DEF Returns
<1>9. field = "url" => Bare(t)
  BY <1>1, StripIs DEF Cleaned
<1> HIDE DEF t
<1>5. ASSUME Validates(field, t)
      PROVE  Fits(field, t) <=> ~(field = "url" /\ Disguised(t))
  <2>1. CASE field = "email"
    <3>1. ValidEmail(t)
      BY <1>5, <2>1 DEF Validates
    <3>2. LengthOK("email", t) /\ FitsEmail(t)
      BY <1>3, <3>1, EmailFits DEF ValidEmail
    <3>3. QED BY <2>1, <3>2 DEF Fits
  <2>2. CASE field = "name"
    <3>1. LengthOK("name", t)
      BY <1>5, <2>2 DEF Validates, ValidName
    <3>2. QED BY <2>2, <3>1 DEF Fits
  <2>3. CASE field = "username"
    <3>1. ValidUsername(t)
      BY <1>5, <2>3 DEF Validates
    <3>2. LengthOK("username", t)
      BY <3>1 DEF ValidUsername
    <3>3. FitsUsername(t)
      BY <1>3, <3>1, <3>2, UsernameFits
    <3>4. QED BY <2>3, <3>2, <3>3 DEF Fits
  <2>4. CASE field = "slug"
    <3>1. ValidSlug(t)
      BY <1>5, <2>4 DEF Validates
    <3>2. LengthOK("slug", t)
      BY <3>1 DEF ValidSlug
    <3>3. FitsSlug(t)
      BY <1>3, <3>1, <3>2, SlugFits
    <3>4. QED BY <2>4, <3>2, <3>3 DEF Fits
  <2>5. CASE field = "url"
    <3>1. ValidUrl(t)
      BY <1>5, <2>5 DEF Validates
    <3>2. LengthOK("url", t)
      BY <3>1 DEF ValidUrl
    <3>3. FitsUrl(t) <=> ~Disguised(t)
      BY <1>3, <1>9, <2>5, <3>1, UrlFits
    <3>4. QED BY <2>5, <3>2, <3>3 DEF Fits
  <2>6. QED BY <1>1, <2>1, <2>2, <2>3, <2>4, <2>5 DEF Fields
<1>6. ASSUME field = "slug", Fits("slug", t) PROVE Validates(field, t)
  <2>1. LengthOK("slug", t) /\ FitsSlug(t)
    BY <1>6 DEF Fits
  <2>2. ValidSlug(t)
    BY <1>3, <2>1, SlugFits
  <2>3. QED BY <1>6, <2>2 DEF Validates
<1>7. ASSUME field = "username", Fits("username", t)
      PROVE  Validates(field, t) <=> t \notin Reserved /\ ~Repeats(t, 4)
  <2>1. LengthOK("username", t) /\ FitsUsername(t)
    BY <1>7 DEF Fits
  <2>2. ValidUsername(t) <=> t \notin Reserved /\ ~Repeats(t, 4)
    BY <1>3, <2>1, UsernameFits
  <2>3. QED BY <1>7, <2>2 DEF Validates
<1>8. QED BY <1>2, <1>4, <1>5, <1>6, <1>7 DEF LayersAgree, t

-----------------------------------------------------------------------------
(* Deploy: the invariant.                                                     *)

\* What a command has still to process ends the order that it goes by.
Remaining ==
  /\ left \in Seq(Range(Manifests)) /\ Len(left) <= Len(Manifests)
  /\ \A i \in 1..Len(left) :
       left[i] = IF command = "delete" THEN Manifests[Len(left) - i + 1]
                 ELSE Manifests[Len(Manifests) - Len(left) + i]

\* What is there has what stands before it, the claim aside.
InOrder(there) ==
  \A j \in 1..Len(Manifests) : Manifests[j] \in there \ {Claim} =>
    \A i \in 1..j : Enabled(Manifests[i]) => Manifests[i] \in there

\* A deployment has applied what it has passed, and a deletion that nothing failed has left
\* nothing of it but the claim.
Behind ==
  /\ command = "deploy" =>
       \A i \in 1..(Len(Manifests) - Len(left)) : Enabled(Manifests[i]) => Manifests[i] \in cluster
  /\ command = "delete" /\ ~skipped =>
       \A i \in (Len(left) + 1)..Len(Manifests) : Manifests[i] \in cluster => Manifests[i] = Claim

DeployTypes ==
  /\ environment \in Environments /\ asText \in BOOLEAN
  /\ command \in {"none", "deploy", "delete"}
  /\ flags \subseteq {"pvc", "namespace"}
  /\ commands \in 0..MaxCommands
  /\ skipped \in BOOLEAN
  /\ cluster \subseteq Range(Manifests) /\ \A m \in cluster : Enabled(m)

DeployInv ==
  /\ DeployTypes /\ Remaining /\ Behind
  /\ ~skipped => InOrder(cluster)
  /\ ~asText => cluster \subseteq {Namespace}

\* The order: its places are its manifests, each once, the namespace first.
LEMMA Order ==
  /\ Manifests \in Seq(Range(Manifests)) /\ Len(Manifests) \in Nat \ {0}
  /\ Range(Manifests) = {Manifests[i] : i \in 1..Len(Manifests)}
  /\ \A i, j \in 1..Len(Manifests) : Manifests[i] = Manifests[j] => i = j
  /\ Namespace = Manifests[1] /\ Namespace \in Range(Manifests)
  /\ Namespace # Claim /\ Namespace # Ingress
<1>1. /\ Manifests \in Seq(Range(Manifests)) /\ Manifests # <<>> /\ IsInjective(Manifests)
      /\ Namespace # Claim /\ Namespace # Ingress
  BY DeployAssumption DEF DeployAssumption, Namespace
<1>2. /\ Len(Manifests) \in Nat /\ DOMAIN Manifests = 1..Len(Manifests)
      /\ Len(Manifests) # 0
  BY <1>1, LenProperties, EmptySeq
<1>3. Range(Manifests) = {Manifests[i] : i \in 1..Len(Manifests)}
  BY <1>2 DEF Range
<1>4. Namespace = Manifests[1]
  BY <1>1, HeadTailProperties DEF Namespace
<1>5. QED BY <1>1, <1>2, <1>3, <1>4 DEF IsInjective

\* The types of Deploy, from what remains.
LEMMA RemainingTyped == DeployInv => DeployTypeOK
<1> SUFFICES ASSUME DeployInv PROVE DeployTypeOK
  OBVIOUS
<1> DEFINE order == IF command = "delete" THEN TEMPLATES_DELETE_ORDER ELSE Manifests
<1>1. /\ order \in Seq(Range(Manifests)) /\ Len(order) = Len(Manifests)
      /\ Len(Manifests) \in Nat /\ left \in Seq(Range(Manifests))
      /\ Len(left) <= Len(order) /\ Len(left) \in Nat
  BY Order, Backwards, LenProperties DEF TEMPLATES_DELETE_ORDER, DeployInv, Remaining
<1>2. ASSUME NEW i \in 1..Len(left) PROVE left[i] = order[Len(order) - Len(left) + i]
  <2> DEFINE k == Len(Manifests) - Len(left) + i
  <2>1. k \in 1..Len(Manifests) /\ Len(Manifests) - k + 1 = Len(left) - i + 1
    BY <1>1
  <2>2. CASE command = "delete"
    <3>1. left[i] = Manifests[Len(left) - i + 1]
      BY <2>2 DEF DeployInv, Remaining
    <3>2. Reverse(Manifests)[k] = Manifests[Len(Manifests) - k + 1]
      BY <2>1, Order, Backwards
    <3>3. QED BY <1>1, <2>1, <2>2, <3>1, <3>2 DEF TEMPLATES_DELETE_ORDER
  <2>3. CASE command # "delete"
    BY <1>1, <2>3 DEF DeployInv, Remaining
  <2>4. QED BY <2>2, <2>3
<1> HIDE DEF order
<1>3. IsSuffix(left, order)
  BY <1>1, <1>2, Suffix
<1>4. QED BY <1>3 DEF order, DeployTypeOK, DeployInv, DeployTypes

-----------------------------------------------------------------------------
(* Deploy: the steps.                                                         *)

\* A command is over, or none was given: nothing remains.
LEMMA NothingRemains ==
  ASSUME left' = <<>> PROVE Remaining'
<1>1. <<>> \in Seq(Range(Manifests)) /\ Len(<<>>) = 0
  BY EmptySeq
<1>2. QED BY <1>1, Order DEF Remaining

\* A command goes on to the next manifest: which one that is, and what then remains.
LEMMA NextManifest ==
  ASSUME Remaining, left # <<>>, command \in {"deploy", "delete"}
  PROVE  /\ Len(left) \in 1..Len(Manifests) /\ Manifest \in Range(Manifests)
         /\ command = "deploy" => Manifest = Manifests[Len(Manifests) - Len(left) + 1]
         /\ command = "delete" => Manifest = Manifests[Len(left)]
         /\ left' = Tail(left) /\ command' = command =>
              Remaining' /\ Len(left') = Len(left) - 1
<1>1. /\ left \in Seq(Range(Manifests)) /\ Len(left) \in Nat \ {0} /\ Len(left) <= Len(Manifests)
      /\ Len(Manifests) \in Nat /\ Manifest = left[1] /\ Manifest \in Range(Manifests)
      /\ Tail(left) \in Seq(Range(Manifests)) /\ Len(Tail(left)) = Len(left) - 1
      /\ \A i \in 1..Len(Tail(left)) : Tail(left)[i] = left[i + 1]
  <2> DEFINE S == Range(Manifests)
  <2>1. left \in Seq(S) /\ left # <<>> /\ Len(left) <= Len(Manifests)
    BY DEF Remaining
  <2> HIDE DEF S
  <2>2. /\ Len(left) \in Nat \ {0} /\ Head(left) = left[1] /\ Head(left) \in S
        /\ Tail(left) \in Seq(S) /\ Len(Tail(left)) = Len(left) - 1
        /\ \A i \in 1..Len(Tail(left)) : Tail(left)[i] = left[i + 1]
    BY <2>1, HeadTailProperties, EmptySeq
  <2>3. Len(Manifests) \in Nat
    BY Order
  <2>4. QED BY <2>1, <2>2, <2>3 DEF Manifest, S
<1>2. left[1] = IF command = "delete" THEN Manifests[Len(left)]
                ELSE Manifests[Len(Manifests) - Len(left) + 1]
  <2>1. 1 \in 1..Len(left) /\ Len(left) - 1 + 1 = Len(left)
    BY <1>1
  <2>2. QED BY <2>1 DEF Remaining
<1>3. ASSUME left' = Tail(left), command' = command
      PROVE  Remaining' /\ Len(left') = Len(left) - 1
  <2>1. ASSUME NEW i \in 1..Len(left')
        PROVE  left'[i] = IF command' = "delete" THEN Manifests[Len(left') - i + 1]
                          ELSE Manifests[Len(Manifests) - Len(left') + i]
    <3>1. /\ i + 1 \in 1..Len(left) /\ left'[i] = left[i + 1]
          /\ Len(left) - (i + 1) + 1 = Len(left') - i + 1
          /\ Len(Manifests) - Len(left) + (i + 1) = Len(Manifests) - Len(left') + i
      BY <1>1, <1>3
    <3>2. left[i + 1] = IF command = "delete" THEN Manifests[Len(left) - (i + 1) + 1]
                        ELSE Manifests[Len(Manifests) - Len(left) + (i + 1)]
      BY <3>1 DEF Remaining
    <3>3. QED BY <1>3, <3>1, <3>2
  <2>2. QED BY <1>1, <1>3, <2>1 DEF Remaining
<1>4. /\ command = "deploy" => Manifest = Manifests[Len(Manifests) - Len(left) + 1]
      /\ command = "delete" => Manifest = Manifests[Len(left)]
  BY <1>1, <1>2
<1>5. Len(left) \in 1..Len(Manifests)
  BY <1>1
<1>6. QED BY <1>1, <1>3, <1>4, <1>5

\* A command is given.
LEMMA BeginInv ==
  ASSUME DeployInv,
         \/ \E tagged, secrets \in BOOLEAN : StartDeploy(tagged, secrets)
         \/ \E options \in SUBSET {"pvc", "namespace"} : StartDelete(options)
  PROVE  DeployInv'
<1>1. Len(Manifests) \in Nat \ {0} /\ Enabled(Namespace)
  BY Order DEF Enabled
<1>2. CASE \E tagged, secrets \in BOOLEAN : StartDeploy(tagged, secrets)
  <2>1. /\ command' = "deploy" /\ flags' = {} /\ left' = Manifests
        /\ commands < MaxCommands /\ commands' = commands + 1
        /\ UNCHANGED <<environment, asText, skipped>>
        /\ cluster' = cluster \/ cluster' = cluster \cup {Namespace}
    BY <1>2 DEF StartDeploy, Begin
  <2>2. \A m : Enabled(m)' <=> Enabled(m)
    BY <2>1 DEF Enabled, IngressEnabled
  <2>3. DeployTypes'
    <3>1. commands' \in 0..MaxCommands
      BY <2>1, DeployAssumption DEF DeployInv, DeployTypes, DeployAssumption
    <3>2. cluster' \subseteq Range(Manifests)
      BY <2>1, Order DEF DeployInv, DeployTypes
    <3>3. \A m \in cluster' : Enabled(m)
      BY <1>1, <2>1 DEF DeployInv, DeployTypes
    <3>4. QED BY <2>1, <2>2, <3>1, <3>2, <3>3 DEF DeployInv, DeployTypes
  <2>4. Remaining'
    <3>1. \A i \in 1..Len(Manifests) : Len(Manifests) - Len(Manifests) + i = i
      BY <1>1
    <3>2. QED BY <2>1, <3>1, Order DEF Remaining
  <2>5. Behind'
    <3>1. 1..(Len(Manifests) - Len(Manifests)) = {}
      BY <1>1
    <3>2. QED BY <2>1, <3>1 DEF Behind
  <2>6. ASSUME ~skipped' PROVE InOrder(cluster)'
    <3>1. InOrder(cluster)
      BY <2>1, <2>6 DEF DeployInv
    <3>2. CASE cluster' = cluster
      BY <2>2, <3>1, <3>2 DEF InOrder
    <3>3. CASE cluster' = cluster \cup {Namespace}
      <4> SUFFICES ASSUME NEW j \in 1..Len(Manifests), Manifests[j] \in cluster' \ {Claim},
                          NEW i \in 1..j, Enabled(Manifests[i])
                   PROVE  Manifests[i] \in cluster'
        BY <2>2 DEF InOrder
      <4>1. CASE Manifests[j] \in cluster
        BY <3>1, <3>3, <4>1 DEF InOrder
      <4>2. CASE Manifests[j] = Namespace
        <5>1. j = 1
          BY <1>1, <4>2, Order
        <5>2. i = 1
          BY <5>1
        <5>3. QED BY <3>3, <5>2, Order
      <4>3. QED BY <3>3, <4>1, <4>2
    <3>4. QED BY <2>1, <3>2, <3>3
  <2>7. ~asText' => cluster' \subseteq {Namespace}
    BY <2>1 DEF DeployInv
  <2>8. QED BY <2>3, <2>4, <2>5, <2>6, <2>7 DEF DeployInv
<1>3. CASE \E options \in SUBSET {"pvc", "namespace"} : StartDelete(options)
  <2>1. /\ command' = "delete" /\ flags' \subseteq {"pvc", "namespace"}
        /\ left' = Reverse(Manifests)
        /\ commands < MaxCommands /\ commands' = commands + 1
        /\ UNCHANGED <<environment, asText, cluster, skipped>>
    BY <1>3 DEF StartDelete, Begin, TEMPLATES_DELETE_ORDER
  <2>2. \A m : Enabled(m)' <=> Enabled(m)
    BY <2>1 DEF Enabled, IngressEnabled
  <2>3. DeployTypes'
    BY <1>1, <2>1, <2>2, DeployAssumption DEF DeployInv, DeployTypes, DeployAssumption
  <2>4. /\ Reverse(Manifests) \in Seq(Range(Manifests))
        /\ Len(Reverse(Manifests)) = Len(Manifests)
        /\ \A i \in 1..Len(Manifests) : Reverse(Manifests)[i] = Manifests[Len(Manifests) - i + 1]
    BY Order, Backwards
  <2>5. Remaining'
    BY <1>1, <2>1, <2>4 DEF Remaining
  <2>6. Behind'
    <3>1. (Len(Manifests) + 1)..Len(Manifests) = {}
      BY <1>1
    <3>2. QED BY <2>1, <2>4, <3>1 DEF Behind
  <2>7. InOrder(cluster)' <=> InOrder(cluster)
    BY <2>1, <2>2 DEF InOrder
  <2>8. QED BY <2>1, <2>3, <2>5, <2>6, <2>7 DEF DeployInv
<1>4. QED BY <1>2, <1>3

\* A command passes over a manifest, or ends early.
LEMMA PassInv == ASSUME DeployInv, SkipManifest \/ Fail PROVE DeployInv'
<1>1. /\ UNCHANGED <<environment, asText, cluster, commands, skipped>>
      /\ command \in {"none", "deploy", "delete"}
  BY DEF SkipManifest, Fail, DeployInv, DeployTypes
<1>2. \A m : Enabled(m)' <=> Enabled(m)
  BY <1>1 DEF Enabled, IngressEnabled
<1>3. InOrder(cluster)' <=> InOrder(cluster)
  BY <1>1, <1>2 DEF InOrder
<1>4. CASE Fail
  <2>1. command' = "none" /\ flags' = {} /\ left' = <<>>
    BY <1>4 DEF Fail, Quit
  <2>2. DeployTypes'
    BY <1>1, <1>2, <2>1 DEF DeployInv, DeployTypes
  <2>3. Behind' /\ Remaining'
    BY <2>1, NothingRemains DEF Behind
  <2>4. QED BY <1>1, <1>3, <2>2, <2>3 DEF DeployInv
<1>5. CASE SkipManifest
  <2>1. /\ command \in {"deploy", "delete"} /\ left # <<>> /\ left' = Tail(left)
        /\ command' = command /\ flags' = flags
        /\ ~Enabled(Manifest) \/ (command = "delete" /\ Manifest = Claim)
    BY <1>1, <1>5 DEF SkipManifest, Advance
  <2>2. /\ Len(left) \in 1..Len(Manifests) /\ Len(left') = Len(left) - 1 /\ Remaining'
        /\ command = "deploy" => Manifest = Manifests[Len(Manifests) - Len(left) + 1]
        /\ command = "delete" => Manifest = Manifests[Len(left)]
    BY <2>1, NextManifest DEF DeployInv
  <2>3. DeployTypes'
    BY <1>1, <1>2, <2>1 DEF DeployInv, DeployTypes
  <2>4. ASSUME command' = "deploy",
               NEW i \in 1..(Len(Manifests) - Len(left')), Enabled(Manifests[i])
        PROVE  Manifests[i] \in cluster'
    <3>1. \/ i \in 1..(Len(Manifests) - Len(left))
          \/ i = Len(Manifests) - Len(left) + 1
      <4>1. Len(Manifests) \in Nat /\ Len(left) \in Nat /\ Len(left') = Len(left) - 1
        BY <2>2, Order
      <4>2. QED BY <4>1
    <3>2. i \in 1..(Len(Manifests) - Len(left))
      BY <2>1, <2>2, <2>4, <3>1
    <3>3. QED BY <1>1, <2>1, <2>4, <3>2 DEF DeployInv, Behind
  <2>5. ASSUME command' = "delete", ~skipped',
               NEW i \in (Len(left') + 1)..Len(Manifests), Manifests[i] \in cluster'
        PROVE  Manifests[i] = Claim
    <3>1. i \in (Len(left) + 1)..Len(Manifests) \/ i = Len(left)
      BY <2>2, Order
    <3>2. CASE i \in (Len(left) + 1)..Len(Manifests)
      BY <1>1, <2>1, <2>5, <3>2 DEF DeployInv, Behind
    <3>3. CASE i = Len(left)
      <4>1. Enabled(Manifests[i])
        BY <1>1, <2>5 DEF DeployInv, DeployTypes
      <4>2. QED BY <2>1, <2>2, <2>5, <3>3, <4>1
    <3>4. QED BY <3>1, <3>2, <3>3
  <2>6. Behind'
    BY <1>2, <2>4, <2>5 DEF Behind
  <2>7. QED BY <1>1, <1>3, <2>2, <2>3, <2>6 DEF DeployInv
<1>6. QED BY <1>4, <1>5

\* apply_manifest: all that stands before the manifest has been applied.
LEMMA ApplyInv == ASSUME DeployInv, Apply PROVE DeployInv'
<1>1. /\ command = "deploy" /\ left # <<>> /\ Enabled(Manifest) /\ asText
      /\ cluster' = cluster \cup {Manifest}
      /\ left' = Tail(left) /\ command' = command /\ flags' = flags
      /\ UNCHANGED <<environment, asText, commands, skipped>>
  BY DEF Apply, Advance
<1>2. \A m : Enabled(m)' <=> Enabled(m)
  BY <1>1 DEF Enabled, IngressEnabled
<1> DEFINE n == Len(Manifests) - Len(left) + 1
<1>3. /\ Len(left) \in 1..Len(Manifests) /\ Len(left') = Len(left) - 1 /\ Remaining'
      /\ Manifest = Manifests[n] /\ Manifest \in Range(Manifests)
  BY <1>1, NextManifest DEF DeployInv
<1>4. n \in 1..Len(Manifests) /\ Len(Manifests) - Len(left') = n /\ n \in Nat
  BY <1>3, Order
<1>5. \A i \in 1..n : i \in 1..(Len(Manifests) - Len(left)) \/ i = n
  <2>1. Len(Manifests) \in Nat /\ Len(left) \in Nat
    BY <1>3, Order
  <2>2. QED BY <2>1
<1> HIDE DEF n
<1>6. \A i \in 1..n : Enabled(Manifests[i]) => Manifests[i] \in cluster'
  BY <1>1, <1>3, <1>5 DEF DeployInv, Behind
<1>7. DeployTypes'
  BY <1>1, <1>2, <1>3 DEF DeployInv, DeployTypes
<1>8. Behind'
  BY <1>1, <1>2, <1>4, <1>6 DEF Behind
<1>9. ASSUME ~skipped' PROVE InOrder(cluster)'
  <2> SUFFICES ASSUME NEW j \in 1..Len(Manifests), Manifests[j] \in cluster' \ {Claim},
                      NEW i \in 1..j, Enabled(Manifests[i])
               PROVE  Manifests[i] \in cluster'
    BY <1>2 DEF InOrder
  <2>1. CASE Manifests[j] \in cluster
    <3>1. InOrder(cluster)
      BY <1>1, <1>9 DEF DeployInv
    <3>2. QED BY <1>1, <2>1, <3>1 DEF InOrder
  <2>2. CASE Manifests[j] = Manifest
    <3>1. j = n
      BY <1>3, <1>4, <2>2, Order
    <3>2. QED BY <1>6, <3>1
  <2>3. QED BY <1>1, <2>1, <2>2
<1>10. QED BY <1>1, <1>3, <1>7, <1>8, <1>9 DEF DeployInv

\* A deletion removes the last of what is there, the claim aside, or the namespace and all.
LEMMA DeleteInv == ASSUME DeployInv, DeleteManifest \/ DeleteFails PROVE DeployInv'
<1>1. /\ command = "delete" /\ left # <<>> /\ asText
      /\ left' = Tail(left) /\ command' = command /\ flags' = flags
      /\ UNCHANGED <<environment, asText, commands>>
      /\ skipped \in BOOLEAN
  BY DEF DeleteManifest, DeleteFails, Deleting, Advance, DeployInv, DeployTypes
<1>2. \A m : Enabled(m)' <=> Enabled(m)
  BY <1>1 DEF Enabled, IngressEnabled
<1>3. /\ Len(left) \in 1..Len(Manifests) /\ Len(left') = Len(left) - 1 /\ Remaining'
      /\ Manifest = Manifests[Len(left)]
  BY <1>1, NextManifest DEF DeployInv
<1>4. CASE DeleteFails
  <2>1. skipped' = TRUE /\ cluster' = cluster
    BY <1>4 DEF DeleteFails
  <2>2. DeployTypes'
    BY <1>1, <1>2, <2>1 DEF DeployInv, DeployTypes
  <2>3. Behind'
    BY <1>1, <2>1 DEF Behind
  <2>4. QED BY <1>1, <1>3, <2>1, <2>2, <2>3 DEF DeployInv
<1>5. CASE DeleteManifest /\ Manifest = Namespace
  <2>1. cluster' = {} /\ skipped' = FALSE
    BY <1>5 DEF DeleteManifest, Without
  <2>2. DeployTypes'
    BY <1>1, <2>1 DEF DeployInv, DeployTypes
  <2>3. Behind' /\ InOrder(cluster)'
    BY <1>1, <2>1 DEF Behind, InOrder
  <2>4. QED BY <1>1, <1>3, <2>1, <2>2, <2>3 DEF DeployInv
<1>6. CASE DeleteManifest /\ Manifest # Namespace
  <2>1. cluster' = cluster \ {Manifest} /\ skipped' = skipped
    BY <1>1, <1>6 DEF DeleteManifest, Without
  <2>2. DeployTypes'
    BY <1>1, <1>2, <2>1 DEF DeployInv, DeployTypes
  <2>3. ASSUME ~skipped', NEW i \in Len(left)..Len(Manifests), Manifests[i] \in cluster'
        PROVE  Manifests[i] = Claim
    <3>1. i # Len(left)
      BY <1>3, <2>1, <2>3
    <3>2. i \in (Len(left) + 1)..Len(Manifests)
      BY <1>3, <3>1, Order
    <3>3. QED BY <1>1, <2>1, <2>3, <3>2 DEF DeployInv, Behind
  <2>4. Behind'
    <3>1. Len(left') + 1 = Len(left)
      BY <1>3
    <3>2. QED BY <1>1, <2>3, <3>1 DEF Behind
  <2>5. ASSUME ~skipped' PROVE InOrder(cluster)'
    <3> SUFFICES ASSUME NEW j \in 1..Len(Manifests), Manifests[j] \in cluster' \ {Claim},
                        NEW i \in 1..j, Enabled(Manifests[i])
                 PROVE  Manifests[i] \in cluster'
      BY <1>2 DEF InOrder
    <3>1. ~(j \in Len(left)..Len(Manifests))
      BY <2>3, <2>5
    <3>2. j < Len(left)
      BY <1>3, <3>1, Order
    <3>3. Manifests[i] # Manifest
      <4>1. i \in 1..Len(Manifests) /\ Len(left) \in 1..Len(Manifests) /\ i # Len(left)
        <5>1. Len(Manifests) \in Nat /\ Len(left) \in 1..Len(Manifests)
          BY <1>3, Order
        <5>2. QED BY <3>2, <5>1
      <4>2. QED BY <1>3, <4>1, Order
    <3>4. Manifests[i] \in cluster
      BY <2>1, <2>5 DEF DeployInv, InOrder
    <3>5. QED BY <2>1, <3>3, <3>4
  <2>6. QED BY <1>1, <1>3, <2>1, <2>2, <2>4, <2>5 DEF DeployInv
<1>7. QED BY <1>4, <1>5, <1>6

\* A command comes to its end.
LEMMA FinishInv == ASSUME DeployInv, Deployed \/ FinishDelete PROVE DeployInv'
<1>1. /\ command' = "none" /\ flags' = {} /\ left' = <<>>
      /\ UNCHANGED <<environment, asText, commands>>
      /\ cluster' = cluster \/ cluster' = {}
  BY DEF Deployed, FinishDelete, Quit
<1>2. \A m : Enabled(m)' <=> Enabled(m)
  BY <1>1 DEF Enabled, IngressEnabled
<1>3. Behind' /\ Remaining'
  BY <1>1, NothingRemains DEF Behind
<1>4. skipped' \in BOOLEAN /\ skipped \in BOOLEAN
  BY DEF Deployed, FinishDelete, DeployInv, DeployTypes
<1>5. DeployTypes'
  BY <1>1, <1>2, <1>4 DEF DeployInv, DeployTypes
<1>6. ASSUME ~skipped' PROVE InOrder(cluster)'
  <2>1. CASE cluster' = {}
    BY <2>1 DEF InOrder
  <2>2. CASE Deployed
    <3>1. command = "deploy" /\ left = <<>> /\ cluster' = cluster
      BY <2>2 DEF Deployed
    <3>2. Len(Manifests) - Len(left) = Len(Manifests)
      BY <3>1, EmptySeq, Order
    <3>3. \A i \in 1..Len(Manifests) : Enabled(Manifests[i]) => Manifests[i] \in cluster
      BY <3>1, <3>2 DEF DeployInv, Behind
    <3>4. \A j \in 1..Len(Manifests) : 1..j \subseteq 1..Len(Manifests)
      BY Order
    <3>5. \A j \in 1..Len(Manifests) : \A i \in 1..j :
            Enabled(Manifests[i]) => Manifests[i] \in cluster
      BY <3>3, <3>4
    <3>6. QED BY <1>2, <3>1, <3>5 DEF InOrder
  <2>3. CASE FinishDelete /\ cluster' # {}
    <3>1. cluster' = cluster /\ ~skipped
      BY <1>1, <1>4, <1>6, <2>3 DEF FinishDelete
    <3>2. InOrder(cluster)
      BY <3>1 DEF DeployInv
    <3>3. QED BY <1>2, <3>1, <3>2 DEF InOrder
  <2>4. QED BY <2>1, <2>2, <2>3
<1>7. QED BY <1>1, <1>3, <1>5, <1>6 DEF DeployInv

-----------------------------------------------------------------------------
\* The invariant of the deployment tool holds of every sequence of commands.
LEMMA DeployInvHolds == DeploySpec => []DeployInv
<1>1. DeployInit => DeployInv
  <2> SUFFICES ASSUME DeployInit PROVE DeployInv
    OBVIOUS
  <2>1. <<>> \in Seq(Range(Manifests)) /\ Len(<<>>) = 0
    BY EmptySeq
  <2>2. Remaining
    BY <2>1, Order DEF DeployInit, Remaining
  <2>3. DeployTypes
    <3>1. 0 \in 0..MaxCommands
      BY DeployAssumption DEF DeployAssumption
    <3>2. cluster \subseteq Range(Manifests) /\ \A m \in cluster : Enabled(m)
      BY DEF DeployInit
    <3>3. flags \subseteq {"pvc", "namespace"} /\ skipped \in BOOLEAN
      BY DEF DeployInit
    <3>4. QED BY <3>1, <3>2, <3>3 DEF DeployInit, DeployTypes
  <2>4. QED BY <2>2, <2>3 DEF DeployInit, DeployInv, Behind, InOrder
<1>2. DeployInv /\ [DeployNext]_deployVars => DeployInv'
  <2>1. ASSUME DeployInv, DeployNext PROVE DeployInv'
    BY <2>1, BeginInv, PassInv, ApplyInv, DeleteInv, FinishInv DEF DeployNext
  <2>2. ASSUME DeployInv, UNCHANGED deployVars PROVE DeployInv'
    BY <2>2 DEF deployVars, DeployInv, DeployTypes, Remaining, Behind, InOrder, Enabled,
                IngressEnabled
  <2>3. QED BY <2>1, <2>2
<1>3. QED BY <1>1, <1>2, PTL DEF DeploySpec

\* What deploy.py keeps of its command, and what the cluster has, are of their types: what
\* remains to be processed always ends the order in which the command goes.
THEOREM DeployTypeCorrect == DeploySpec => []DeployTypeOK
<1>1. QED BY RemainingTyped, DeployInvHolds, PTL

\* Whatever commands were given, and wherever they stopped, unless a deletion failed no
\* object is there without those that its manifest needs, for any list of manifests; and as
\* the program is, none but the namespace is ever there.
THEOREM DependenciesPresentHolds == DeploySpec => []DependenciesPresent
<1>1. ASSUME DeployInv PROVE DependenciesPresent
  <2>1. ~asText => cluster \subseteq {Namespace}
    BY <1>1 DEF DeployInv
  <2>2. ASSUME ~skipped, NEW m \in cluster \ {Claim} PROVE NeedsMet(m)
    <3>0. m \in Range(Manifests)
      BY <1>1 DEF DeployInv, DeployTypes
    <3>1. PICK j \in 1..Len(Manifests) : Manifests[j] = m
      BY <3>0, Order
    <3>2. DOMAIN Manifests = 1..Len(Manifests)
      BY Order, LenProperties
    <3>3. (CHOOSE i \in DOMAIN Manifests : Manifests[i] = m) = j
      BY <3>1, <3>2, Order
    <3>4. Needs(m) = {Manifests[i] : i \in 1..j}
      BY <3>3 DEF Needs
    <3>5. \A i \in 1..j : Enabled(Manifests[i]) => Manifests[i] \in cluster
      BY <1>1, <2>2, <3>1 DEF DeployInv, InOrder
    <3>6. QED BY <3>4, <3>5 DEF NeedsMet
  <2>3. QED BY <2>1, <2>2 DEF DependenciesPresent
<1>2. QED BY <1>1, DeployInvHolds, PTL

-----------------------------------------------------------------------------
(* The parts side by side.                                                    *)

\* A step of one part leaves the others as they are.
LEMMA OneAtWork ==
  ASSUME [AlgorithmsNext]_algorithmsVars
  PROVE  /\ [CronNext]_cronVars /\ [DiscoveryNext]_discoveryVars /\ [DeployNext]_deployVars
         /\ UNCHANGED <<part, field, text, password>>
<1>1. CASE AlgorithmsNext
  BY <1>1 DEF AlgorithmsNext, Still
<1>2. CASE UNCHANGED algorithmsVars
  BY <1>2 DEF algorithmsVars
<1>3. QED BY <1>1, <1>2

\* The job registry, the cron parser and the deployment tool share no state: what each does
\* beside the others it does alone, so the theorems about each hold of them together.
THEOREM EachAlone == AlgorithmsSpec => CronSpec /\ DiscoverySpec /\ DeploySpec
<1>1. AlgorithmsInit => CronInit /\ DiscoveryInit /\ DeployInit
  BY DEF AlgorithmsInit
<1>2. QED
  BY <1>1, OneAtWork, PTL DEF AlgorithmsSpec, CronSpec, DiscoverySpec, DeploySpec

\* The parts keep to their types side by side.
THEOREM AlgorithmsTypeCorrect == AlgorithmsSpec => []AlgorithmsTypeOK
<1> DEFINE Given == part \in Parts /\ field \in Fields /\ text \in Texts[field]
<1>1. AlgorithmsSpec => []Given
  <2>1. AlgorithmsInit => Given
    BY DEF AlgorithmsInit, ValidationInit
  <2>2. Given /\ [AlgorithmsNext]_algorithmsVars => Given'
    BY OneAtWork
  <2>3. QED BY <2>1, <2>2, PTL DEF AlgorithmsSpec
<1>2. Given /\ CronTypeOK /\ DiscoveryTypeOK /\ DeployTypeOK => AlgorithmsTypeOK
  BY DEF AlgorithmsTypeOK
<1>3. QED
  BY <1>1, <1>2, EachAlone, CronTypeCorrect, DiscoveryTypeCorrect, DeployTypeCorrect, PTL
=============================================================================
