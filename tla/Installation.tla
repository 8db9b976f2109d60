---------------------------- MODULE Installation ----------------------------
(* The start of an application process: config.py takes the settings at      *)
(* import, SystemConfigPlugin merges the rows of system_config into the      *)
(* environment and drops the cached settings, and InstallationService        *)
(* resolves the id of the installation, which each process then caches. One  *)
(* setting stands for all; the .env file is the same for every process.      *)
EXTENDS Naturals, FiniteSets

CONSTANTS
  Procs,          \* application processes
  Values,         \* values of the setting
  MaxIds          \* bound on the ids generated

ASSUME InstallAssumption == MaxIds \in Nat

VARIABLES
  dotenv,         \* the setting in the .env file, or "unset"
  configRow,      \* its row in system_config, or "unset"
  idRow,          \* the row installation_id, or 0
  generated,      \* the ids generated so far are 1..generated
  app,            \* app[p]: one process
  raced           \* history: two processes generated an id at a time

installVars == <<dotenv, configRow, idRow, generated, app, raced>>

\* environ: the process's variable; captured: what the module level of config.py holds;
\* cached: the settings that from_env caches; merged: history, the row as merged
Off == [stage |-> "off", environ |-> "unset", captured |-> "unset", cached |-> "none",
        merged |-> "unset", id |-> 0]
Settings == Values \cup {"unset"}
AppRecord == [stage : {"off", "imported", "resolving", "generating", "up"},
              environ : Settings, captured : Settings, cached : Settings \cup {"none"},
              merged : Settings, id : 0..MaxIds]

InstallTypeOK ==
  /\ dotenv \in Settings /\ configRow \in Settings
  /\ idRow \in 0..generated /\ generated \in 0..MaxIds
  /\ app \in [Procs -> AppRecord]
  /\ raced \in BOOLEAN

InstallInit ==
  /\ dotenv \in Settings /\ configRow = "unset"
  /\ idRow = 0 /\ generated = 0
  /\ app = [p \in Procs |-> Off]
  /\ raced = FALSE

----------------------------------------------------------------------------
Stage(p, stage) == app[p].stage = stage
AppIs(p, state) == app' = [app EXCEPT ![p] = state]

\* Mutant of Effective: load_dotenv without override.
EffectiveEnvironFirst(environ) == IF environ # "unset" THEN environ ELSE dotenv

\* from_env: the .env file overrides the environment while the settings are read, and the
\* environment is put back
Effective(environ) == IF dotenv # "unset" THEN dotenv ELSE environ

\* The import reads the settings, and all of config.py is made of them
Import(p) ==
  /\ Stage(p, "off")
  /\ \E environ \in Settings :
       AppIs(p, [Off EXCEPT !.stage = "imported", !.environ = environ,
                   !.captured = Effective(environ), !.cached = Effective(environ)])
  /\ UNCHANGED <<dotenv, configRow, idRow, generated, raced>>

\* _on_startup: get_all, the merge, and cache_clear
Merge(p) ==
  /\ Stage(p, "imported")
  /\ AppIs(p, [app[p] EXCEPT !.stage = "resolving", !.merged = configRow, !.cached = "none",
                 !.environ = IF configRow = "unset" THEN @ ELSE configRow])
  /\ UNCHANGED <<dotenv, configRow, idRow, generated, raced>>

\* get_settings, by what starts or runs after the plugin, such as Worker.__init__
GetSettings(p) ==
  /\ ~Stage(p, "off") /\ app[p].cached = "none"
  /\ AppIs(p, [app[p] EXCEPT !.cached = Effective(app[p].environ)])
  /\ UNCHANGED <<dotenv, configRow, idRow, generated, raced>>

\* get_id: the row's id, or an id of one's own
SelectId(p) ==
  /\ Stage(p, "resolving")
  /\ \/ /\ idRow # 0
        /\ AppIs(p, [app[p] EXCEPT !.stage = "up", !.id = idRow])
        /\ UNCHANGED <<generated, raced>>
     \/ /\ idRow = 0 /\ generated < MaxIds
        /\ generated' = generated + 1
        /\ AppIs(p, [app[p] EXCEPT !.stage = "generating", !.id = generated + 1])
        /\ raced' = (raced \/ \E q \in Procs : Stage(q, "generating"))
  /\ UNCHANGED <<dotenv, configRow, idRow>>

\* Mutant of UpsertId: the transaction is never committed.
UpsertUncommitted(p) ==
  /\ Stage(p, "generating")
  /\ AppIs(p, [app[p] EXCEPT !.stage = "up"])
  /\ UNCHANGED <<dotenv, configRow, idRow, generated, raced>>

\* ON CONFLICT DO UPDATE: the last one wins in the table, not in the caches
UpsertId(p) ==
  /\ Stage(p, "generating")
  /\ idRow' = app[p].id
  /\ AppIs(p, [app[p] EXCEPT !.stage = "up"])
  /\ UNCHANGED <<dotenv, configRow, generated, raced>>

Stop(p) ==
  /\ ~Stage(p, "off")
  /\ AppIs(p, Off)
  /\ UNCHANGED <<dotenv, configRow, idRow, generated, raced>>

\* SystemConfigService.set and delete, of the setting
SetConfig ==
  /\ configRow' \in Values
  /\ UNCHANGED <<dotenv, idRow, generated, app, raced>>
DeleteConfig ==
  /\ configRow' = "unset"
  /\ UNCHANGED <<dotenv, idRow, generated, app, raced>>

InstallNext ==
  \/ SetConfig \/ DeleteConfig
  \/ \E p \in Procs : \/ Import(p) \/ Merge(p) \/ GetSettings(p)
                      \/ SelectId(p) \/ UpsertId(p) \/ Stop(p)

InstallSpec == InstallInit /\ [][InstallNext]_installVars

----------------------------------------------------------------------------
\* Every process that is up logs the id in the table, through crashes and restarts, unless
\* two of them once generated their ids at the same time.
OneIdUnlessRace ==
  ~raced => \A p \in Procs : Stage(p, "up") => app[p].id = idRow

\* Two parts of a process use different values of one setting (config.py what it took at
\* import, a later reader another) only where system_config had a row for it and the .env
\* file has not.
SplitOnlyByRow ==
  \A p \in Procs : app[p].cached \notin {"none", app[p].captured}
                     => app[p].merged = app[p].cached /\ dotenv = "unset"

============================================================================
