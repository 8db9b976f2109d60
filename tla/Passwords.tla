------------------------------ MODULE Passwords ------------------------------
(* The two password checkers, PasswordService and utils/validation.py, each   *)
(* with a validator that raises and an analysis that scores. A password is    *)
(* told by the features that either of them looks at.                         *)
EXTENDS Naturals, FiniteSets

CONSTANTS
  Lengths         \* the lengths of the passwords considered

ASSUME PasswordsAssumption == Lengths \subseteq Nat

VARIABLE
  password        \* the password that is checked

MinLength == 12                   \* PASSWORD_MIN_LENGTH, of both
MaxLength == 128                  \* PASSWORD_MAX_LENGTH, of both

\* "other": letters and digits that isupper, islower and isdigit know and [A-Z], [a-z] and \d
\* do not. special: a character of both lists, of the service's alone (" or \), or of the
\* other's alone (;). listed: in whose list of common passwords it is, apart from case.
\* hashed: in COMMON_PASSWORDS_HASHES. prefix: it begins with a password listed in
\* validation.py, or with three keys or digits in sequence. alike: equal characters, three
\* in a row, three but for their case, or all of them. run: four in sequence.
Password ==
  [length : Lengths, upper : {"none", "ascii", "other"}, lower : {"none", "ascii", "other"},
   digit : {"none", "ascii", "other"}, special : {"none", "both", "service", "validation"},
   listed : {"no", "service", "validation"}, hashed : BOOLEAN,
   prefix : SUBSET {"listed", "three"},
   alike : {"no", "three", "caseless", "all"}, run : BOOLEAN]

\* Which features go together is a matter of the lists and of spelling: the listed passwords
\* have up to 13 characters in the service and 11 in validation.py, none of them special;
\* the hashed ones have up to 10, without capitals; those of one character have one class.
Passwords ==
  {p \in Password :
     /\ p.listed # "no" => /\ p.special = "none" /\ "listed" \in p.prefix
                           /\ p.length < (IF p.listed = "service" THEN 14 ELSE 12)
     /\ p.hashed => p.length < 12 /\ p.upper = "none" /\ p.special = "none"
     /\ p.alike = "all" => /\ ~p.run /\ p.prefix = {}
                           /\ Cardinality({f \in {"upper", "lower", "digit", "special"} :
                                             p[f] # "none"}) <= 1}

----------------------------------------------------------------------------
(* PasswordService                                                            *)

\* _is_common_password: of one character only from MinLength characters on
ServiceCommon(p) ==
  p.listed = "service" \/ "three" \in p.prefix \/ (p.alike = "all" /\ p.length >= MinLength)

ServiceRequirements == {"length", "upper", "lower", "digit", "special", "uncommon"}
ServiceMeets(p) ==
  {r \in ServiceRequirements :
     CASE r = "length" -> p.length >= MinLength
       [] r = "special" -> p.special \in {"both", "service"}
       [] r = "uncommon" -> ~ServiceCommon(p)
       [] OTHER -> p[r] = "ascii"}

\* validate_password_strength, and validate_password, which looks at the hash as well
ServicePasses(p) == ServiceMeets(p) = ServiceRequirements /\ p.length <= MaxLength
ServiceAccepts(p) == ServicePasses(p) /\ ~p.hashed

\* Mutant of ServiceScore: length counts like any other requirement.
ServiceScoreFlat(p) ==
  Cardinality(ServiceMeets(p))
    + (IF p.length >= 16 THEN 1 ELSE 0) + (IF p.length >= 20 THEN 1 ELSE 0)

ServiceScore(p) ==
  Cardinality(ServiceMeets(p)) + (IF "length" \in ServiceMeets(p) THEN 1 ELSE 0)
    + (IF p.length >= 16 THEN 1 ELSE 0) + (IF p.length >= 20 THEN 1 ELSE 0)
ServiceStrength(p) ==
  IF ServiceScore(p) >= 7 THEN "strong" ELSE IF ServiceScore(p) >= 5 THEN "medium" ELSE "weak"

----------------------------------------------------------------------------
(* utils/validation.py                                                        *)
HasSpecial(p) == p.special \in {"both", "validation"}

TooCommon(p) ==
  p.listed = "validation" \/ "listed" \in p.prefix \/ p.alike # "no" \/ p.run

Accepts(p) ==
  /\ p.length \in MinLength..MaxLength
  /\ ~TooCommon(p)
  /\ p.upper # "none" /\ p.lower # "none" /\ p.digit # "none" /\ HasSpecial(p)

LengthPoints(p) ==
  IF p.length < 8 THEN 2 * p.length ELSE IF p.length < MinLength THEN 15 ELSE 25
CharClasses(p) ==
  {f \in {"upper", "lower", "digit"} : p[f] # "none"}
    \cup (IF HasSpecial(p) THEN {"special"} ELSE {})
Less(n, m) == IF n > m THEN n - m ELSE 0

\* The analysis looks at repeated characters as they are written, the validator apart from
\* case, and the analysis at no prefix and no run.
Penalty(p) == (IF p.listed = "validation" THEN {20} ELSE {})
                \cup (IF p.alike \in {"three", "all"} THEN {10} ELSE {})
Score(p) ==
  LET points == LengthPoints(p) + 15 * Cardinality(CharClasses(p))
      listed == IF 20 \in Penalty(p) THEN Less(points, 20) ELSE points
  IN IF 10 \in Penalty(p) THEN Less(listed, 10) ELSE listed
Strength(p) ==
  IF Score(p) < 50 THEN "weak" ELSE IF Score(p) < 80 THEN "medium" ELSE "strong"
Feedback(p) ==
  (IF p.length < MinLength THEN {"length"} ELSE {})
    \cup ({"upper", "lower", "digit", "special"} \ CharClasses(p)) \cup Penalty(p)

PasswordInit == password \in Passwords

----------------------------------------------------------------------------
\* A validator and the analysis beside it agree: what PasswordService accepts it rates as
\* strong, and it accepts just what it has no advice on, up to the maximal length, so that
\* the list of hashes never decides; what validation.py accepts it rates as strong and has
\* no advice on.
StrengthAgrees ==
  LET p == password
  IN /\ ServiceAccepts(p) => ServiceStrength(p) = "strong"
     /\ ServiceAccepts(p) <=> ServiceMeets(p) = ServiceRequirements /\ p.length <= MaxLength
     /\ Accepts(p) => Strength(p) = "strong" /\ Feedback(p) = {}

=============================================================================
