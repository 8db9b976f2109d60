----------------------------- MODULE Discovery ------------------------------
(* What a process finds of its domain packages: the job registry that        *)
(* @register_job fills as modules are imported, the modules that discover_jobs *)
(* marks, the controllers that discover_domain_controllers caches, and the    *)
(* initialization of the application by DomainPlugin, which asks for the      *)
(* controllers, the jobs and the event listeners. A domain package stands for *)
(* the one domain in it. Importing anything of a domain first runs the domain *)
(* itself, which imports its controllers and its jobs. What fails to import   *)
(* can be repaired, and break, while the process runs.                        *)
EXTENDS Naturals, Sequences, FiniteSets, SequencesExt

CONSTANTS
  Packages,       \* domain packages
  Plain,          \* those that cannot be imported or have no __path__: no domain is in them
  Flat,           \* those whose jobs are one module and no package
  JobModules,     \* JobModules[p]: the modules of p's jobs, in the order of walk_packages
  ReExports,      \* ReExports[p]: those that the package of the jobs imports, in order
  Classes,        \* Classes[p]: the members of p's controller modules
  ListenersIn,    \* ListenersIn[p]: the listeners of p's event modules
  Registers,      \* Registers[x]: the [name, schedule] that x registers, in order
  Configured,     \* DomainPluginConfig.domain_packages
  MaxFaults,      \* bound on what fails at the start
  MaxEvents       \* bound on the imports broken or repaired and on the calls

Domains == Packages \ Plain
Modules == UNION {Range(JobModules[p]) : p \in Domains}
Controllers(p) == <<p, "controllers">>   \* the packages of the controllers and the events
Jobs(p) == <<p, "jobs">>                 \* the package of the jobs

\* What importing the domain runs, in order; at last, the rest of its __init__
Body(p) == <<Controllers(p)>> \o ReExports[p] \o <<Jobs(p), <<p, "domain">>>>
Sources == UNION {Range(Body(p)) \cup Range(JobModules[p]) : p \in Domains}

\* What an import may raise: an ImportError, a SyntaxError or AttributeError, a ValueError
Errors == {"import", "syntax", "value"}
Faults == Errors \cup {"none"}

ASSUME DiscoveryAssumption ==
  /\ Plain \subseteq Packages /\ Flat \subseteq Domains /\ Configured \subseteq Packages
  /\ MaxFaults \in Nat /\ MaxEvents \in Nat
  /\ \A p \in Domains : /\ JobModules[p] \in Seq(Modules)
                        /\ ReExports[p] \in Seq(Range(JobModules[p]))
  /\ "none" \notin Packages /\ \A p \in Packages : Jobs(p) \notin Modules
  /\ \A x \in Sources : Registers[x] \in Seq(Range(Registers[x]))

VARIABLES
  fault,          \* fault[x]: what importing x raises
  loaded,         \* sys.modules
  discovered,     \* _discovered_modules
  registry,       \* _job_registry: the names
  scheduled,      \* _schedule_registry: the names
  walk,           \* the run of discover_jobs: the package, force_reload, the modules left
  scan,           \* the run of discover_domain_controllers: the list, what is left of it, the
                  \* controllers so far, the packages lost to an ImportError
  cache,          \* _DiscoveryCache: whether it is set, the controllers, the packages
  phase,          \* how far on_app_init has come
  todo,           \* the packages that its phase has still to treat
  handlers,       \* the controllers of the application
  listeners,      \* its listeners
  events,         \* the events so far
  failed,         \* history: modules whose import failed and was logged
  unimported,     \* history: packages that discover_jobs could not import
  scans,          \* history: the scans since the cache was cleared: a list and what was lost
  asked,          \* history: the packages last asked for and
  answer          \* the controllers returned

importVars == <<loaded, registry, scheduled>>
jobVars == <<importVars, discovered, walk, failed, unimported>>
controllerVars == <<scan, cache, scans, asked, answer>>
appVars == <<phase, todo, handlers, listeners>>
discoveryVars == <<fault, events, jobVars, controllerVars, appVars>>

Names == UNION {{d.name : d \in Range(Registers[x])} : x \in Sources}
Idle == [package |-> "none", force |-> FALSE, left |-> <<>>]
NoScan == [list |-> {}, left |-> {}, found |-> {}, lost |-> {}]
Empty == [known |-> FALSE, controllers |-> {}, packages |-> {}]

DiscoveryTypeOK ==
  /\ fault \in [Sources -> Faults]
  /\ loaded \subseteq Sources /\ discovered \subseteq Sources
  /\ scheduled \subseteq registry /\ registry \subseteq Names
  /\ walk = Idle \/ IsSuffix(walk.left, JobModules[walk.package])
  /\ handlers \subseteq UNION {Classes[p] : p \in Packages}
  /\ phase \in {"new", "controllers", "jobs", "listeners", "ready", "failed"}
  /\ todo \subseteq Configured
  /\ events \in 0..MaxEvents

FirstFaults ==
  UNION {{[x \in Sources |-> IF x \in faulty THEN errors[x] ELSE "none"] : errors \in [faulty -> Errors]} :
           faulty \in {X \in SUBSET Sources : Cardinality(X) <= MaxFaults}}

DiscoveryInit ==
  /\ fault \in FirstFaults
  /\ loaded = {} /\ discovered = {}
  /\ registry = {} /\ scheduled = {}
  /\ walk = Idle /\ scan = NoScan /\ cache = Empty
  /\ phase = "new" /\ todo = {} /\ handlers = {} /\ listeners = {}
  /\ events = 0 /\ failed = {} /\ unimported = {}
  /\ scans = <<>> /\ asked = {} /\ answer = {}

Event == events < MaxEvents /\ events' = events + 1

----------------------------------------------------------------------------
(* Imports                                                                    *)

\* Mutant of Register: only a job without a schedule goes into the registry.
RegisterAdHoc(declarations) ==
  /\ registry' = registry \cup {d.name : d \in {e \in declarations : e.schedule = "none"}}
  /\ scheduled' = scheduled \cup {d.name : d \in {e \in declarations : e.schedule # "none"}}

\* register_job for each declaration: one without cron and interval leaves the schedule that
\* its name has
Register(declarations) ==
  /\ registry' = registry \cup {d.name : d \in declarations}
  /\ scheduled' = scheduled \cup {d.name : d \in {e \in declarations : e.schedule # "none"}}

\* What runs for the first time among the first k imports of the domain
New(p, k) == {Body(p)[i] : i \in 1..k} \ loaded
NewJobs(p, k) == UNION {Range(Registers[x]) : x \in New(p, k)}

\* import_module of a package x of domain p: one that is in sys.modules is there even if the
\* domain is not; for another the domain runs.
Imports(p, x) ==
  LET all == Len(Body(p))
  IN IF x \in loaded THEN UNCHANGED importVars
     ELSE /\ \A y \in New(p, all) : fault[y] = "none"
          /\ loaded' = loaded \cup New(p, all)
          /\ Register(NewJobs(p, all))

\* The import raises f: what the domain has run before stays, and the one that fails has made
\* n of its registrations.
ImportRaises(p, x, f, n) ==
  /\ x \notin loaded /\ f \in Errors
  /\ \E k \in 1..Len(Body(p)) :
       LET y == Body(p)[k]
       IN /\ y \notin loaded /\ fault[y] = f /\ n <= Len(Registers[y])
          /\ \A z \in New(p, k - 1) : fault[z] = "none"
          /\ loaded' = loaded \cup New(p, k - 1)
          /\ Register(NewJobs(p, k - 1) \cup Range(SubSeq(Registers[y], 1, n)))

----------------------------------------------------------------------------
(* discover_jobs                                                              *)
Called(p, force) == walk = Idle /\ (Jobs(p) \in discovered => force)

\* Mutant of Walk: the package is marked before its modules are imported.
WalkMarked(p, force) ==
  /\ Called(p, force) /\ Imports(p, Jobs(p))
  /\ walk' = IF p \in Flat THEN Idle
             ELSE [package |-> p, force |-> force, left |-> JobModules[p]]
  /\ discovered' = discovered \cup {Jobs(p)}
  /\ UNCHANGED <<failed, unimported>>

\* The package is imported before its modules; one without __path__ is left there, unmarked.
Walk(p, force) ==
  /\ Called(p, force) /\ Imports(p, Jobs(p))
  /\ walk' = IF p \in Flat THEN Idle
             ELSE [package |-> p, force |-> force, left |-> JobModules[p]]
  /\ UNCHANGED <<discovered, failed, unimported>>

\* The package cannot be imported, and is not marked. Only an ImportError is caught.
WalkFails(p, force, f, n) ==
  /\ Called(p, force) /\ ImportRaises(p, Jobs(p), f, n)
  /\ unimported' = IF f = "import" THEN unimported \cup {p} ELSE unimported
  /\ UNCHANGED <<walk, discovered, failed>>

Module == Head(walk.left)
Walking == walk # Idle /\ walk.left # <<>>
Proceed == walk' = [walk EXCEPT !.left = Tail(@)]
\* import_module runs a module once, reload runs it again
Runs(x) == x \notin loaded \/ walk.force

PassModule ==
  /\ Walking /\ Module \in discovered /\ ~walk.force
  /\ Proceed
  /\ UNCHANGED <<importVars, discovered, failed, unimported>>

LoadModule ==
  /\ Walking /\ (Module \in discovered => walk.force)
  /\ Runs(Module) => fault[Module] = "none"
  /\ Proceed
  /\ discovered' = discovered \cup {Module}
  /\ loaded' = loaded \cup {Module}
  /\ IF Runs(Module)
     THEN Register(Range(Registers[Module]))
     ELSE UNCHANGED <<registry, scheduled>>
  /\ UNCHANGED <<failed, unimported>>

\* A module fails after some of its registrations. Import, attribute and syntax errors are
\* logged and the walk goes on; ValueError, as for a bad cron expression, leaves discover_jobs.
FailModule(n) ==
  /\ Walking /\ (Module \in discovered => walk.force)
  /\ Runs(Module) /\ fault[Module] # "none"
  /\ n <= Len(Registers[Module])
  /\ Register(Range(SubSeq(Registers[Module], 1, n)))
  /\ IF fault[Module] = "value" THEN walk' = Idle /\ UNCHANGED failed
     ELSE Proceed /\ failed' = failed \cup {Module}
  /\ UNCHANGED <<loaded, discovered, unimported>>

FinishWalk ==
  /\ walk # Idle /\ walk.left = <<>>
  /\ walk' = Idle
  /\ discovered' = discovered \cup {Jobs(walk.package)}
  /\ UNCHANGED <<importVars, failed, unimported>>

----------------------------------------------------------------------------
(* discover_domain_controllers                                                *)

\* find_controllers_in_module takes the controllers that a module itself defines
FindControllers(members) ==
  {c \in members : c.kind = "controller" /\ ~c.imported /\ ~c.private}
ControllersOf(ps) == UNION {FindControllers(Classes[p]) : p \in ps \ Plain}

IsCached(ps) == cache.known /\ ps \subseteq cache.packages

\* An answer from the cache is that of the last scan, whatever list that was of.
DiscoverControllers(ps) ==
  /\ scan = NoScan
  /\ IF IsCached(ps)
     THEN asked' = ps /\ answer' = cache.controllers /\ UNCHANGED scan
     ELSE asked' = {} /\ answer' = {} /\ scan' = [NoScan EXCEPT !.list = ps, !.left = ps]
  /\ UNCHANGED <<cache, scans>>

\* The controllers of a domain whose import fails are passed over in silence; another error
\* than ImportError ends the scan.
ScanPackage(p) ==
  /\ p \in scan.left
  /\ IF p \in Plain THEN UNCHANGED importVars ELSE Imports(p, Controllers(p))
  /\ scan' = [scan EXCEPT !.left = @ \ {p}, !.found = @ \cup ControllersOf({p})]
  /\ UNCHANGED <<cache, scans, asked, answer>>
ScanFails(p, f, n) ==
  /\ p \in scan.left \ Plain
  /\ ImportRaises(p, Controllers(p), f, n)
  /\ scan' = IF f = "import" THEN [scan EXCEPT !.left = @ \ {p}, !.lost = @ \cup {p}] ELSE NoScan
  /\ UNCHANGED <<cache, scans, asked, answer>>

FinishScan ==
  /\ scan # NoScan /\ scan.left = {}
  /\ scan' = NoScan
  /\ cache' = [known |-> TRUE, controllers |-> scan.found, packages |-> cache.packages \cup scan.list]
  /\ scans' = Append(scans, [list |-> scan.list, lost |-> scan.lost])
  /\ asked' = scan.list /\ answer' = scan.found

ClearCache ==
  /\ cache' = Empty /\ scans' = <<>>
  /\ asked' = {} /\ answer' = {}

----------------------------------------------------------------------------
(* DomainPlugin.on_app_init: controllers, then jobs, then listeners. What      *)
(* discover_jobs and the scan raise ends it.                                  *)
InitControllers ==
  /\ phase = "new" /\ walk = Idle
  /\ DiscoverControllers(Configured)
  /\ IF IsCached(Configured)
     THEN handlers' = answer' /\ phase' = "jobs" /\ todo' = Configured
     ELSE phase' = "controllers" /\ UNCHANGED <<handlers, todo>>
  /\ UNCHANGED <<fault, events, jobVars, listeners>>

ScanStep ==
  /\ \/ (\E p \in scan.left : ScanPackage(p)) /\ UNCHANGED appVars
     \/ /\ \E p \in scan.left, f \in Errors, n \in 0..2 : ScanFails(p, f, n)
        /\ phase' = IF phase = "controllers" /\ scan' = NoScan THEN "failed" ELSE phase
        /\ UNCHANGED <<todo, handlers, listeners>>
     \/ /\ FinishScan /\ UNCHANGED importVars
        /\ IF phase = "controllers"
           THEN handlers' = answer' /\ phase' = "jobs" /\ todo' = Configured
           ELSE UNCHANGED <<handlers, phase, todo>>
        /\ UNCHANGED listeners
  /\ UNCHANGED <<fault, events, discovered, walk, failed, unimported>>

\* A package that is marked, or has no domain, is passed.
InitJobs(p) ==
  /\ phase = "jobs" /\ walk = Idle /\ p \in todo
  /\ todo' = todo \ {p}
  /\ \/ p \in Plain /\ UNCHANGED <<jobVars, phase>>
     \/ p \notin Plain /\ Jobs(p) \in discovered /\ UNCHANGED <<jobVars, phase>>
     \/ p \notin Plain /\ Walk(p, FALSE) /\ UNCHANGED phase
     \/ \E f \in Errors, n \in 0..2 :
          /\ p \notin Plain /\ WalkFails(p, FALSE, f, n)
          /\ phase' = IF f = "import" THEN phase ELSE "failed"
  /\ UNCHANGED <<fault, events, controllerVars, handlers, listeners>>

WalkStep ==
  /\ PassModule \/ LoadModule \/ FinishWalk \/ \E n \in 0..2 : FailModule(n)
  /\ phase' = IF phase = "jobs" /\ walk' = Idle /\ walk.left # <<>> THEN "failed" ELSE phase
  /\ UNCHANGED <<fault, events, controllerVars, todo, handlers, listeners>>

EndJobs ==
  /\ phase = "jobs" /\ walk = Idle /\ todo = {}
  /\ phase' = "listeners" /\ todo' = Configured
  /\ UNCHANGED <<fault, events, jobVars, controllerVars, handlers, listeners>>

\* A listener that its package re-exports is found twice, and kept once by the emitter.
InitListeners(p) ==
  /\ phase = "listeners" /\ p \in todo
  /\ todo' = todo \ {p}
  /\ \/ p \in Plain /\ UNCHANGED <<importVars, listeners, phase>>
     \/ /\ p \notin Plain /\ Imports(p, Controllers(p))
        /\ listeners' = listeners \cup ListenersIn[p]
        /\ UNCHANGED phase
     \/ \E f \in Errors, n \in 0..2 :
          /\ p \notin Plain /\ ImportRaises(p, Controllers(p), f, n)
          /\ phase' = IF f = "import" THEN phase ELSE "failed"
          /\ UNCHANGED listeners
  /\ UNCHANGED <<fault, events, discovered, walk, failed, unimported, controllerVars, handlers>>

Ready ==
  /\ phase = "listeners" /\ todo = {}
  /\ phase' = "ready"
  /\ UNCHANGED <<fault, events, jobVars, controllerVars, todo, handlers, listeners>>

----------------------------------------------------------------------------
(* Other callers, before on_app_init and after it, and what happens to files   *)
Quiet == phase \in {"new", "ready", "failed"} /\ walk = Idle /\ scan = NoScan

CallDiscoverJobs(p, force) ==
  /\ Quiet /\ Event
  /\ Walk(p, force) \/ \E f \in Errors, n \in 0..2 : WalkFails(p, force, f, n)
  /\ UNCHANGED <<fault, controllerVars, appVars>>
CallDiscoverControllers(ps) ==
  /\ Quiet /\ Event
  /\ DiscoverControllers(ps)
  /\ UNCHANGED <<fault, jobVars, appVars>>
ClearDiscoveryCache ==
  /\ Quiet /\ Event
  /\ ClearCache
  /\ UNCHANGED <<fault, jobVars, scan, appVars>>
Change(x, f) ==
  /\ fault[x] # f /\ Event
  /\ fault' = [fault EXCEPT ![x] = f]
  /\ UNCHANGED <<jobVars, controllerVars, appVars>>

DiscoveryNext ==
  \/ InitControllers \/ ScanStep \/ WalkStep \/ EndJobs \/ Ready \/ ClearDiscoveryCache
  \/ \E p \in Configured : InitJobs(p) \/ InitListeners(p)
  \/ \E p \in Domains, force \in BOOLEAN : CallDiscoverJobs(p, force)
  \/ \E ps \in SUBSET Packages \ {{}} : CallDiscoverControllers(ps)
  \/ \E x \in Sources, f \in Faults : Change(x, f)
DiscoverySpec == DiscoveryInit /\ [][DiscoveryNext]_discoveryVars

----------------------------------------------------------------------------
\* What has been imported, by whichever phase, has its jobs in the registry and a schedule for
\* those that it schedules, though others may register a job of that name anew. A package
\* that is marked, and so is not imported again, has had each module imported, or its failure
\* logged. An application that comes up has been through the jobs of all its packages: one
\* that is not marked had an ImportError, or its jobs are one module, which was imported.
JobsLoaded ==
  /\ \A x \in loaded \cup discovered : \A d \in Range(Registers[x]) :
       /\ d.name \in registry
       /\ d.schedule # "none" => d.name \in scheduled
  /\ \A p \in Domains : Jobs(p) \in discovered =>
       Range(JobModules[p]) \subseteq discovered \cup failed
  /\ phase \in {"listeners", "ready"} =>
       \A p \in Configured \ (Plain \cup unimported) :
         Jobs(p) \in IF p \in Flat THEN loaded ELSE discovered

\* An answer has the controllers of every package of the list scanned last, but for those
\* whose import failed in that scan. A package that was asked for and is not of that list was
\* scanned before it, since the cache was cleared: its controllers are missing, for the
\* cache adds up the packages of all lists and keeps the controllers of the last.
AnswerCovers ==
  asked # {} =>
    /\ answer = ControllersOf(Last(scans).list \ Last(scans).lost)
    /\ \A p \in asked \ Last(scans).list : \E i \in 1..(Len(scans) - 1) : p \in scans[i].list

\* What the process has marked as found is there, jobs and controllers, whatever imports
\* failed, in whichever phase, and were retried or forced; what is missing was lost to an
\* error of an import, or to a scan of another list.
DiscoveryComplete == JobsLoaded /\ AnswerCovers

=============================================================================
