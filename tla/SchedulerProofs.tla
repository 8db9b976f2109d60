--------------------------- MODULE SchedulerProofs ---------------------------
(***************************************************************************)
(* Theorems about Scheduler, for any number of processes, schedules,        *)
(* releases and deaths.                                                     *)
(*                                                                          *)
(* UpIsScheduled is not inductive: that a process may become up depends on  *)
(* what its loop has already done, and on what it skips for the SELECT made *)
(* at its start.  Progress says that a schedule the loop is through with    *)
(* has been given a row, and that the rows found are still there.           *)
(*                                                                         *)
(* OverwritesOnlyOvertaken is about what a start has missed since its       *)
(* SELECT: Unmissed says that a row it found and that no worker has claimed *)
(* since is queued still, or cancelled by another start.  For that no       *)
(* queued row may be in a worker's hands, which is Exclusive.               *)
(***************************************************************************)
EXTENDS Scheduler, TLAPS

\* A row that exists was given to its schedule; one that is executed exists.
Recorded ==
    /\ \A n \in Names : row[n] # None => n \in given
    /\ \A n \in executing : row[n] # None

\* A process in this state has left no schedule behind, when the table holds
\* these rows and these schedules have been given one.
Sound(state, rows, had) ==
    /\ state.phase = "up" => had = Names
    /\ state.phase = "starting" =>
         state.release \in Configs /\ Names \ state.todo \subseteq had
    /\ \A n \in state.found : rows[n] # None

Progress == \A a \in Apps : Sound(app[a], row, given)

SchedulerInv == SchedulerTypeOK /\ Recorded /\ Progress

-----------------------------------------------------------------------------
(* The invariant.                                                            *)

\* A process that is down is well formed and owes nothing.
LEMMA DownState == Down \in AppState /\ Down.phase = "down" /\ Down.found = {}
  BY DEF Down, AppState

\* The invariant holds before any process has started.
LEMMA InitInv == Init => SchedulerInv
<1> SUFFICES ASSUME Init PROVE SchedulerInv
  OBVIOUS
<1>1. SchedulerTypeOK
  BY DownState, SchedulerAssumption DEF Init, SchedulerTypeOK, SchedulerAssumption
<1>2. Recorded /\ Progress
  BY DownState DEF Init, Recorded, Progress, Sound
<1>3. QED BY <1>1, <1>2 DEF SchedulerInv

\* A step of one process keeps the invariant when its new state is well
\* formed and sound and no row is taken away.
LEMMA BecomesInv ==
    ASSUME SchedulerInv, NEW a \in Apps, NEW state \in AppState,
           Becomes(a, state), Sound(state, row', given'),
           row' \in [Names -> Row \union {None}],
           \A n \in Names : row[n] # None => row'[n] # None,
           Recorded', given \subseteq given', given' \subseteq Names,
           executing' \subseteq Names, deaths' \in 0 .. MaxDeaths
    PROVE  SchedulerInv'
<1>1. app' \in [Apps -> AppState] /\ app'[a] = state /\ overtaken' \subseteq overtaken
  BY DEF SchedulerInv, SchedulerTypeOK, Becomes
<1>2. SchedulerTypeOK'
  BY <1>1 DEF SchedulerInv, SchedulerTypeOK
<1>3. Progress'
  <2> SUFFICES ASSUME NEW b \in Apps PROVE Sound(app'[b], row', given')
    BY DEF Progress
  <2>1. CASE b = a
    BY <2>1, <1>1 DEF Sound
  <2>2. CASE b # a
    <3>1. app'[b] = app[b] /\ app[b].found \subseteq Names
      BY <2>2 DEF SchedulerInv, SchedulerTypeOK, Becomes, AppState
    <3>2. QED BY <3>1 DEF SchedulerInv, Progress, Sound
  <2>3. QED BY <2>1, <2>2
<1>4. QED BY <1>2, <1>3 DEF SchedulerInv

\* The steps of the workers and of maintenance, which leave the processes.
LEMMA OutsideInv ==
    ASSUME SchedulerInv, UNCHANGED <<app, given, deaths>>,
           row' \in [Names -> Row \union {None}], executing' \subseteq Names,
           overtaken' \subseteq Apps \X Names,
           \A n \in executing' : row'[n] # None,
           \A n \in Names : row'[n] # None => row[n] # None,
           \A n \in Names : row[n] # None /\ row'[n] = None =>
              \A a \in Apps : n \notin app[a].found
    PROVE  SchedulerInv'
<1>1. SchedulerTypeOK' /\ Recorded'
  BY DEF SchedulerInv, SchedulerTypeOK, Recorded
<1>2. Progress'
  <2> SUFFICES ASSUME NEW b \in Apps PROVE Sound(app'[b], row', given')
    BY DEF Progress
  <2>1. app[b].found \subseteq Names
    BY DEF SchedulerInv, SchedulerTypeOK, AppState
  <2>2. QED BY <2>1 DEF SchedulerInv, Progress, Sound
<1>3. QED BY <1>1, <1>2 DEF SchedulerInv

\* Writing another status leaves a row with the same configuration.
LEMMA StatusRow ==
    ASSUME SchedulerInv, NEW n \in Names, row[n] # None, NEW s \in Status,
           row' = [row EXCEPT ![n].status = s]
    PROVE  /\ row' \in [Names -> Row \union {None}]
           /\ row'[n].status = s /\ row'[n].config = row[n].config
           /\ \A m \in Names : row[m] # None <=> row'[m] # None
           /\ \A m \in Names \ {n} : row'[m] = row[m]
<1>1. row[n] \in Row /\ row \in [Names -> Row \union {None}]
  BY DEF SchedulerInv, SchedulerTypeOK
<1> DEFINE new == [row[n] EXCEPT !.status = s]
<1>2. new \in Row /\ new.status = s /\ new.config = row[n].config
  BY <1>1 DEF Row
<1>3. row' = [row EXCEPT ![n] = new]
  OBVIOUS
<1>4. new # None
  BY <1>2, SchedulerAssumption DEF SchedulerAssumption
<1>5. QED BY <1>1, <1>2, <1>3, <1>4

-----------------------------------------------------------------------------
(* The steps of a starting process.                                          *)

\* Start.
LEMMA StartInv ==
    ASSUME SchedulerInv, NEW a \in Apps, Start(a) PROVE SchedulerInv'
<1>1. PICK c \in Configs :
        Becomes(a, [Down EXCEPT !.phase = "starting", !.release = c, !.todo = Names,
                                !.found = {n \in Names : InStatus(n, Queued)}])
  BY DEF Start, Selects
<1> DEFINE new == [Down EXCEPT !.phase = "starting", !.release = c, !.todo = Names,
                               !.found = {n \in Names : InStatus(n, Queued)}]
<1>2. new \in AppState /\ Sound(new, row', given')
  BY DEF Down, AppState, Sound, InStatus, Start, Selects
<1> HIDE DEF new
<1>3. Becomes(a, new)
  BY <1>1 DEF new
<1>4. UNCHANGED <<row, executing, given, deaths>>
  BY DEF Start, Selects
<1>5. QED
  BY <1>2, <1>3, <1>4, BecomesInv DEF SchedulerInv, SchedulerTypeOK, Recorded

\* Being done with a name, once it has been given a row.
LEMMA DoneInv ==
    ASSUME SchedulerInv, NEW a \in Apps, NEW n \in Names, Done(a, n),
           app[a].phase = "starting",
           row' \in [Names -> Row \union {None}],
           \A m \in Names : row[m] # None => row'[m] # None,
           Recorded', given \subseteq given', given' \subseteq Names, n \in given',
           UNCHANGED <<executing, deaths>>
    PROVE  SchedulerInv'
<1> DEFINE new == [app[a] EXCEPT !.todo = @ \ {n}, !.found = @ \ {n},
                                 !.at = "loop", !.name = None]
<1>1. app[a] \in AppState /\ Sound(app[a], row, given)
  BY DEF SchedulerInv, SchedulerTypeOK, Progress
<1>2. /\ new \in AppState /\ new.phase = app[a].phase /\ new.release = app[a].release
      /\ new.todo = app[a].todo \ {n} /\ new.found \subseteq app[a].found
  BY <1>1 DEF AppState
<1>3. Becomes(a, new)
  BY DEF Done
<1> HIDE DEF new
<1>4. app[a].found \subseteq Names
  BY <1>1 DEF AppState
<1>5. Sound(new, row', given')
  BY <1>1, <1>2, <1>4 DEF Sound
<1>6. QED
  BY <1>2, <1>3, <1>5, BecomesInv DEF SchedulerInv, SchedulerTypeOK

\* Going to a statement of create_task; a row may be cancelled on the way.
LEMMA AtInv ==
    ASSUME SchedulerInv, NEW a \in Apps, NEW state \in AppState, Becomes(a, state),
           app[a].phase = "starting", state.phase = "starting",
           state.release = app[a].release, state.todo = app[a].todo,
           state.found = app[a].found,
           row' \in [Names -> Row \union {None}],
           \A m \in Names : row[m] # None <=> row'[m] # None,
           UNCHANGED <<executing, given, deaths>>
    PROVE  SchedulerInv'
<1>1. Sound(app[a], row, given) /\ app[a].found \subseteq Names
  BY DEF SchedulerInv, SchedulerTypeOK, Progress, AppState
<1>2. Sound(state, row', given')
  BY <1>1 DEF Sound
<1>3. QED
  BY <1>2, BecomesInv DEF SchedulerInv, SchedulerTypeOK, Recorded

\* The state in which a process goes to a statement for a name.
LEMMA AtState ==
    ASSUME SchedulerInv, NEW a \in Apps, NEW n \in Names
    PROVE  LET state == [app[a] EXCEPT !.at = "check", !.name = n]
           IN  /\ state \in AppState
               /\ state.phase = app[a].phase /\ state.release = app[a].release
               /\ state.todo = app[a].todo /\ state.found = app[a].found
<1>1. app[a] \in AppState
  BY DEF SchedulerInv, SchedulerTypeOK
<1>2. QED BY <1>1 DEF AppState

\* Keep: what was found was given.
LEMMA KeepInv ==
    ASSUME SchedulerInv, NEW a \in Apps, NEW n \in Names, Keep(a, n)
    PROVE  SchedulerInv'
<1>1. n \in given
  BY DEF Keep, SchedulerInv, Recorded, Progress, Sound
<1>2. QED
  BY <1>1, DoneInv DEF Keep, Treating, SchedulerInv, SchedulerTypeOK, Recorded

\* Replace: the row found is still there, cancelled now.
LEMMA ReplaceInv ==
    ASSUME SchedulerInv, NEW a \in Apps, NEW n \in Names, Replace(a, n)
    PROVE  SchedulerInv'
<1>1. row[n] # None /\ app[a].phase = "starting"
  BY DEF Replace, Treating, SchedulerInv, Progress, Sound
<1>2. /\ row' \in [Names -> Row \union {None}]
      /\ \A m \in Names : row[m] # None <=> row'[m] # None
  BY <1>1, StatusRow DEF Replace, CancelAndCreate, Status, Terminal
<1> DEFINE state == [app[a] EXCEPT !.at = "check", !.name = n]
<1>3. /\ state \in AppState
      /\ state.phase = app[a].phase /\ state.release = app[a].release
      /\ state.todo = app[a].todo /\ state.found = app[a].found
  BY AtState
<1>4. Becomes(a, state) /\ UNCHANGED <<executing, given, deaths>>
  BY DEF Replace, CancelAndCreate
<1> HIDE DEF state
<1>5. QED BY <1>1, <1>2, <1>3, <1>4, AtInv

\* Register.
LEMMA RegisterInv ==
    ASSUME SchedulerInv, NEW a \in Apps, NEW n \in Names, Register(a, n)
    PROVE  SchedulerInv'
<1> DEFINE state == [app[a] EXCEPT !.at = "check", !.name = n]
<1>1. /\ state \in AppState
      /\ state.phase = app[a].phase /\ state.release = app[a].release
      /\ state.todo = app[a].todo /\ state.found = app[a].found
  BY AtState
<1>2. /\ Becomes(a, state) /\ app[a].phase = "starting"
      /\ UNCHANGED <<row, executing, given, deaths>>
  BY DEF Register, Treating
<1> HIDE DEF state
<1>3. QED BY <1>1, <1>2, AtInv DEF SchedulerInv, SchedulerTypeOK

\* Check: a row with the key was given to the schedule.
LEMMA CheckInv ==
    ASSUME SchedulerInv, NEW a \in Apps, NEW n \in Names, Check(a, n)
    PROVE  SchedulerInv'
<1>1. app[a].phase = "starting" /\ UNCHANGED <<row, executing, given, deaths>>
  BY DEF Check, At
<1>2. CASE row[n] # None
  <2>1. n \in given /\ Done(a, n)
    BY <1>2 DEF Check, SchedulerInv, Recorded
  <2>2. QED BY <1>1, <2>1, DoneInv DEF SchedulerInv, SchedulerTypeOK, Recorded
<1>3. CASE row[n] = None
  <2> DEFINE state == [app[a] EXCEPT !.at = "insert"]
  <2>1. Becomes(a, state)
    BY <1>3 DEF Check
  <2>2. app[a] \in AppState
    BY DEF SchedulerInv, SchedulerTypeOK
  <2>3. /\ state \in AppState
        /\ state.phase = app[a].phase /\ state.release = app[a].release
        /\ state.todo = app[a].todo /\ state.found = app[a].found
    BY <2>2 DEF AppState
  <2> HIDE DEF state
  <2>4. QED BY <1>1, <2>1, <2>3, AtInv DEF SchedulerInv, SchedulerTypeOK
<1>4. QED BY <1>2, <1>3

\* A process that stops keeps the invariant.
LEMMA StopInv ==
    ASSUME SchedulerInv, NEW a \in Apps, Becomes(a, Down),
           UNCHANGED <<row, executing, given>>, deaths' \in 0 .. MaxDeaths
    PROVE  SchedulerInv'
<1>1. Sound(Down, row', given')
  BY DownState DEF Sound
<1>2. QED
  BY <1>1, DownState, BecomesInv DEF SchedulerInv, SchedulerTypeOK, Recorded

\* Insert: the row is given, or the process stops.
LEMMA InsertInv ==
    ASSUME SchedulerInv, NEW a \in Apps, NEW n \in Names, Insert(a, n)
    PROVE  SchedulerInv'
<1>1. app[a].phase = "starting" /\ UNCHANGED <<executing, deaths>>
  BY DEF Insert, At
<1>2. CASE row[n] = None
  <2>1. Done(a, n) /\ InsertRow(a, n, app[a].release)
    BY <1>2 DEF Insert
  <2>2. app[a].release \in Configs
    BY <1>1 DEF SchedulerInv, Progress, Sound
  <2> DEFINE new == [status |-> "scheduled", config |-> app[a].release]
  <2>3. new \in Row
    BY <2>2 DEF Row, Status, Queued
  <2>4. new # None
    BY <2>3, SchedulerAssumption DEF SchedulerAssumption
  <2>5. row' = [row EXCEPT ![n] = new] /\ given' = given \union {n}
    BY <2>1 DEF InsertRow
  <2> HIDE DEF new
  <2>6. row' \in [Names -> Row \union {None}]
    BY <2>3, <2>5 DEF SchedulerInv, SchedulerTypeOK
  <2>7. \A m \in Names : row[m] # None => row'[m] # None
    BY <2>4, <2>5 DEF SchedulerInv, SchedulerTypeOK
  <2>8. Recorded' /\ given' \subseteq Names
    BY <1>1, <2>5, <2>7 DEF SchedulerInv, SchedulerTypeOK, Recorded
  <2>9. QED BY <1>1, <2>1, <2>5, <2>6, <2>7, <2>8, DoneInv
<1>3. CASE row[n] # None
  BY <1>1, <1>3, StopInv DEF Insert, SchedulerInv, SchedulerTypeOK
<1>4. QED BY <1>2, <1>3

\* Ready: the loop is through, so every schedule has been given a row.
LEMMA ReadyInv ==
    ASSUME SchedulerInv, NEW a \in Apps, Ready(a) PROVE SchedulerInv'
<1> DEFINE state == [Down EXCEPT !.phase = "up"]
<1>1. state \in AppState /\ state.phase = "up" /\ state.found = {}
  BY DEF Down, AppState
<1>2. Becomes(a, state) /\ UNCHANGED <<row, executing, given, deaths>>
  BY DEF Ready
<1> HIDE DEF state
<1>3. given = Names
  BY DEF Ready, SchedulerInv, SchedulerTypeOK, Progress, Sound
<1>4. Sound(state, row', given')
  BY <1>1, <1>2, <1>3 DEF Sound
<1>5. QED
  BY <1>1, <1>2, <1>4, BecomesInv DEF SchedulerInv, SchedulerTypeOK, Recorded

-----------------------------------------------------------------------------
(* The steps of the workers and of maintenance.                              *)

\* A worker's UPDATE leaves the row in its place.
LEMMA UpdateInv ==
    ASSUME SchedulerInv, NEW n \in Names, row[n] # None, NEW s \in Status,
           row' = [row EXCEPT ![n].status = s],
           executing' \subseteq executing \union {n}, overtaken' \subseteq Apps \X Names,
           UNCHANGED <<app, given, deaths>>
    PROVE  SchedulerInv'
<1>1. executing' \subseteq Names /\ \A m \in executing' : row[m] # None
  BY DEF SchedulerInv, SchedulerTypeOK, Recorded
<1>2. QED BY <1>1, StatusRow, OutsideInv

\* Every step keeps the invariant.
LEMMA NextInv == SchedulerInv /\ [Next]_vars => SchedulerInv'
<1> SUFFICES ASSUME SchedulerInv, [Next]_vars PROVE SchedulerInv'
  OBVIOUS
<1>1. ASSUME NEW a \in Apps, Process(a) PROVE SchedulerInv'
  BY <1>1, StartInv, ReadyInv, KeepInv, ReplaceInv, RegisterInv, CheckInv, InsertInv
  DEF Process
<1>2. ASSUME NEW a \in Apps, Die(a) PROVE SchedulerInv'
  <2>1. deaths' \in 0 .. MaxDeaths
    BY <1>2, SchedulerAssumption
    DEF Die, SchedulerInv, SchedulerTypeOK, SchedulerAssumption
  <2>2. QED BY <1>2, <2>1, StopInv DEF Die
<1>3. ASSUME NEW n \in Names, Claim(n) PROVE SchedulerInv'
  <2>1. /\ row[n] # None /\ executing' \subseteq executing \union {n}
        /\ overtaken' \subseteq Apps \X Names
    BY <1>3 DEF Claim, InStatus, SchedulerInv, SchedulerTypeOK
  <2>2. QED BY <1>3, <2>1, UpdateInv DEF Claim, Status
<1>4. ASSUME NEW n \in Names, NEW s \in Status, Write(n, s) PROVE SchedulerInv'
  <2>1. row[n] # None
    BY <1>4 DEF Write, SchedulerInv, Recorded
  <2>2. QED BY <1>4, <2>1, UpdateInv DEF Write, SchedulerInv, SchedulerTypeOK
<1>5. ASSUME NEW n \in Names, Purge(n) PROVE SchedulerInv'
  <2>1. row' \in [Names -> Row \union {None}]
    BY <1>5 DEF Purge, SchedulerInv, SchedulerTypeOK
  <2>2. QED
    BY <1>5, <2>1, OutsideInv DEF Purge, SchedulerInv, SchedulerTypeOK, Recorded
<1>6. CASE UNCHANGED vars
  BY <1>6, OutsideInv DEF vars, SchedulerInv, SchedulerTypeOK, Recorded
<1>7. QED
  BY <1>1, <1>2, <1>3, <1>4, <1>5, <1>6
  DEF Next, End, Retry, Status, Queued, Terminal

-----------------------------------------------------------------------------
(* The theorems.                                                             *)

\* The invariant holds in every behaviour of the specification.
LEMMA SchedulerInvHolds == Spec => []SchedulerInv
<1>1. QED BY InitInv, NextInv, PTL DEF Spec

\* The variables keep their types.
THEOREM SchedulerTypeCorrect == Spec => []SchedulerTypeOK
<1>1. SchedulerInv => SchedulerTypeOK
  BY DEF SchedulerInv
<1>2. QED BY <1>1, SchedulerInvHolds, PTL

\* However many processes start, die and race for a key, one that is up leaves
\* no schedule that was never given a row.
THEOREM UpIsScheduledHolds == Spec => []UpIsScheduled
<1>1. SchedulerInv => UpIsScheduled
  BY DEF SchedulerInv, Progress, Sound, UpIsScheduled
<1>2. QED BY <1>1, SchedulerInvHolds, PTL

-----------------------------------------------------------------------------
(* What a start has missed since its SELECT.                                 *)

\* What a worker has in hand is not in the queue: it is running, or was cancelled.
Exclusive == \A n \in executing : InStatus(n, {"running", "cancelled"})

\* A row that a start found is what it was, or cancelled, unless it was overtaken.
Unmissed ==
    \A a \in Apps : \A n \in app[a].found :
        <<a, n>> \notin overtaken =>
            n \notin executing /\ InStatus(n, Queued \union {"cancelled"})

\* A process goes on: it has no more found than before, and rows are left alone,
\* cancelled or created.
LEMMA BecomesTaken ==
    ASSUME SchedulerInv, Exclusive, Unmissed, NEW a \in Apps, NEW state \in AppState,
           Becomes(a, state), state.found \subseteq app[a].found, executing' = executing,
           \A m \in Names : row[m] # None =>
              row'[m] = row[m] \/ (row'[m] # None /\ row'[m].status = "cancelled")
    PROVE  Exclusive' /\ Unmissed'
<1>1. /\ app' \in [Apps -> AppState] /\ app'[a] = state
      /\ \A b \in Apps \ {a} : app'[b] = app[b]
      /\ overtaken' = {p \in overtaken : p[1] = a => p[2] \in state.found}
      /\ executing \subseteq Names
  BY DEF SchedulerInv, SchedulerTypeOK, Becomes
<1>2. Exclusive'
  BY <1>1 DEF Exclusive, InStatus
<1>3. Unmissed'
  <2> SUFFICES ASSUME NEW b \in Apps, NEW n \in app'[b].found, <<b, n>> \notin overtaken'
               PROVE  n \notin executing' /\ InStatus(n, Queued \union {"cancelled"})'
    BY DEF Unmissed
  <2>1. n \in app[b].found /\ <<b, n>> \notin overtaken
    BY <1>1
  <2>2. n \in Names
    BY <2>1 DEF SchedulerInv, SchedulerTypeOK, AppState
  <2>3. n \notin executing /\ InStatus(n, Queued \union {"cancelled"})
    BY <2>1 DEF Unmissed
  <2>4. QED BY <2>2, <2>3 DEF InStatus
<1>4. QED BY <1>2, <1>3

\* Start: what its SELECT finds is in the queue, so in nobody's hands.
LEMMA StartTaken ==
    ASSUME SchedulerInv, Exclusive, Unmissed, NEW a \in Apps, Start(a)
    PROVE  Exclusive' /\ Unmissed'
<1>1. PICK c \in Configs :
        Becomes(a, [Down EXCEPT !.phase = "starting", !.release = c, !.todo = Names,
                                !.found = {n \in Names : InStatus(n, Queued)}])
  BY DEF Start, Selects
<1> DEFINE new == [Down EXCEPT !.phase = "starting", !.release = c, !.todo = Names,
                               !.found = {n \in Names : InStatus(n, Queued)}]
<1>2. new \in AppState /\ new.found = {n \in Names : InStatus(n, Queued)}
  BY DEF Down, AppState
<1>3. Becomes(a, new) /\ UNCHANGED <<row, executing>>
  BY <1>1 DEF new, Start, Selects
<1> HIDE DEF new
<1>4. /\ app'[a] = new /\ \A b \in Apps \ {a} : app'[b] = app[b]
      /\ \A b \in Apps \ {a} : \A n : <<b, n>> \in overtaken => <<b, n>> \in overtaken'
  BY <1>2, <1>3 DEF SchedulerInv, SchedulerTypeOK, Becomes
<1>5. Exclusive'
  BY <1>3 DEF Exclusive, InStatus
<1>6. Unmissed'
  <2> SUFFICES ASSUME NEW b \in Apps, NEW n \in app'[b].found, <<b, n>> \notin overtaken'
               PROVE  n \notin executing /\ InStatus(n, Queued \union {"cancelled"})
    BY <1>3 DEF Unmissed, InStatus
  <2>1. CASE b = a
    <3>1. InStatus(n, Queued)
      BY <1>2, <1>4, <2>1
    <3>2. QED BY <3>1 DEF Exclusive, InStatus, Queued
  <2>2. CASE b # a
    BY <1>4, <2>2 DEF Unmissed
  <2>3. QED BY <2>1, <2>2
<1>7. QED BY <1>5, <1>6

\* The steps of a process that is starting, or stops.
LEMMA ProcessTaken ==
    ASSUME SchedulerInv, Exclusive, Unmissed, NEW a \in Apps, Process(a) \/ Die(a)
    PROVE  Exclusive' /\ Unmissed'
<1>1. app[a] \in AppState
  BY DEF SchedulerInv, SchedulerTypeOK
<1>2. CASE Ready(a) \/ Die(a)
  <2>1. PICK state \in {Down, [Down EXCEPT !.phase = "up"]} :
          Becomes(a, state) /\ UNCHANGED <<row, executing>>
    BY <1>2 DEF Ready, Die
  <2>2. state \in AppState /\ state.found = {}
    BY DownState DEF Down, AppState
  <2>3. QED BY <2>1, <2>2, BecomesTaken
<1>3. ASSUME NEW n \in Names, Done(a, n), UNCHANGED executing,
             \A m \in Names : row[m] # None => row'[m] = row[m]
      PROVE  Exclusive' /\ Unmissed'
  <2> DEFINE new == [app[a] EXCEPT !.todo = @ \ {n}, !.found = @ \ {n},
                                   !.at = "loop", !.name = None]
  <2>1. new \in AppState /\ new.found \subseteq app[a].found
    BY <1>1 DEF AppState
  <2>2. Becomes(a, new)
    BY <1>3 DEF Done
  <2> HIDE DEF new
  <2>3. QED BY <1>3, <2>1, <2>2, BecomesTaken
<1>4. ASSUME NEW n \in Names,
             Becomes(a, [app[a] EXCEPT !.at = "check", !.name = n]), UNCHANGED executing,
             \A m \in Names : row[m] # None =>
                row'[m] = row[m] \/ (row'[m] # None /\ row'[m].status = "cancelled")
      PROVE  Exclusive' /\ Unmissed'
  <2> DEFINE new == [app[a] EXCEPT !.at = "check", !.name = n]
  <2>1. new \in AppState /\ new.found = app[a].found
    BY AtState
  <2> HIDE DEF new
  <2>2. Becomes(a, new)
    BY <1>4 DEF new
  <2>3. QED BY <1>4, <2>1, <2>2, BecomesTaken
<1>5. ASSUME NEW n \in Names, Keep(a, n) \/ Register(a, n) PROVE Exclusive' /\ Unmissed'
  BY <1>3, <1>4, <1>5 DEF Keep, Register
<1>6. ASSUME NEW n \in Names, Replace(a, n) PROVE Exclusive' /\ Unmissed'
  <2>1. row[n] # None
    BY <1>6 DEF Replace, Treating, SchedulerInv, Progress, Sound
  <2>2. /\ row'[n] # None /\ row'[n].status = "cancelled"
        /\ \A m \in Names \ {n} : row'[m] = row[m]
    BY <1>6, <2>1, StatusRow DEF Replace, CancelAndCreate, Status, Terminal
  <2>3. QED BY <1>4, <1>6, <2>2 DEF Replace, CancelAndCreate
<1>7. ASSUME NEW n \in Names, Check(a, n) PROVE Exclusive' /\ Unmissed'
  <2>1. CASE Done(a, n)
    BY <1>3, <1>7, <2>1 DEF Check
  <2>2. CASE Becomes(a, [app[a] EXCEPT !.at = "insert"])
    <3> DEFINE new == [app[a] EXCEPT !.at = "insert"]
    <3>1. new \in AppState /\ new.found = app[a].found
      BY <1>1 DEF AppState
    <3> HIDE DEF new
    <3>2. Becomes(a, new) /\ UNCHANGED <<row, executing>>
      BY <1>7, <2>2 DEF new, Check
    <3>3. QED BY <3>1, <3>2, BecomesTaken
  <2>3. QED BY <1>7, <2>1, <2>2 DEF Check
<1>8. ASSUME NEW n \in Names, Insert(a, n) PROVE Exclusive' /\ Unmissed'
  <2>1. CASE row[n] = None
    <3>1. \A m \in Names : row[m] # None => row'[m] = row[m]
      BY <1>8, <2>1 DEF Insert, InsertRow, SchedulerInv, SchedulerTypeOK
    <3>2. QED BY <1>3, <1>8, <2>1, <3>1 DEF Insert
  <2>2. CASE row[n] # None
    BY <1>8, <2>2, DownState, BecomesTaken DEF Insert
  <2>3. QED BY <2>1, <2>2
<1>9. QED BY <1>2, <1>5, <1>6, <1>7, <1>8, StartTaken DEF Process

\* So do those of the workers and of maintenance.
LEMMA TakenStep ==
    ASSUME SchedulerInv, Exclusive, Unmissed, [Next]_vars
    PROVE  Exclusive' /\ Unmissed'
<1>1. ASSUME NEW n \in Names, Claim(n) PROVE Exclusive' /\ Unmissed'
  <2>1. row[n] # None
    BY <1>1 DEF Claim, InStatus
  <2>2. /\ row'[n] # None /\ row'[n].status = "running"
        /\ \A m \in Names \ {n} : row'[m] = row[m]
    BY <1>1, <2>1, StatusRow DEF Claim, Status
  <2>3. executing \subseteq Names /\ \A b \in Apps : app[b].found \subseteq Names
    BY DEF SchedulerInv, SchedulerTypeOK, AppState
  <2>4. Exclusive'
    BY <1>1, <2>2, <2>3 DEF Claim, Exclusive, InStatus
  <2>5. Unmissed'
    BY <1>1, <2>2, <2>3 DEF Claim, Unmissed, InStatus
  <2>6. QED BY <2>4, <2>5
<1>2. ASSUME NEW n \in Names, NEW s \in Status, Write(n, s) PROVE Exclusive' /\ Unmissed'
  <2>1. row[n] # None /\ executing \subseteq Names /\ \A b \in Apps : app[b].found \subseteq Names
    BY <1>2 DEF Write, SchedulerInv, SchedulerTypeOK, AppState, Recorded
  <2>2. \A m \in Names \ {n} : row'[m] = row[m]
    BY <1>2, <2>1, StatusRow DEF Write
  <2>3. Exclusive'
    BY <1>2, <2>1, <2>2 DEF Write, Exclusive, InStatus
  <2>4. Unmissed'
    BY <1>2, <2>1, <2>2 DEF Write, Unmissed, InStatus
  <2>5. QED BY <2>3, <2>4
<1>3. ASSUME NEW n \in Names, Purge(n) PROVE Exclusive' /\ Unmissed'
  <2>1. /\ executing \subseteq Names /\ \A b \in Apps : app[b].found \subseteq Names
        /\ \A m \in Names \ {n} : row'[m] = row[m]
    BY <1>3 DEF Purge, SchedulerInv, SchedulerTypeOK, AppState
  <2>2. QED BY <1>3, <2>1 DEF Purge, Exclusive, Unmissed, InStatus
<1>4. CASE UNCHANGED vars
  BY <1>4 DEF vars, Exclusive, Unmissed, InStatus
<1>5. QED
  BY <1>1, <1>2, <1>3, <1>4, ProcessTaken DEF Next, End, Retry, Status, Queued, Terminal

LEMMA TakenHolds == Spec => [](Exclusive /\ Unmissed)
<1>1. Init => Exclusive /\ Unmissed
  BY DownState DEF Init, Exclusive, Unmissed
<1>2. SchedulerInv /\ Exclusive /\ Unmissed /\ [Next]_vars => (Exclusive /\ Unmissed)'
  BY TakenStep
<1>3. QED BY <1>1, <1>2, SchedulerInvHolds, PTL DEF Spec

\* Only Replace cancels a row, and of those out of the queue only one overtaken.
LEMMA StepOverwrites == SchedulerInv /\ Unmissed /\ [Next]_vars => OverwriteStep
<1> SUFFICES ASSUME SchedulerInv, Unmissed, [Next]_vars, NEW n \in Names, Overwrites(n)
             PROVE  \E a \in Apps : /\ app[a].phase = "starting"
                                   /\ app[a].release # row[n].config
                                   /\ <<a, n>> \in overtaken
  BY DEF OverwriteStep
<1>1. /\ row[n] # None /\ row'[n] # None
      /\ ~InStatus(n, Queued \union {"cancelled"})
      /\ row[n].status # "cancelled" /\ row'[n].status = "cancelled"
  BY DEF Overwrites, InStatus
<1>2. row' # row
  BY <1>1
<1>3. ASSUME NEW m \in Names, NEW s \in Status \ {"cancelled"}, row[m] # None,
             row' = [row EXCEPT ![m].status = s]
      PROVE  FALSE
  <2>1. row'[m].status = s /\ \A k \in Names \ {m} : row'[k] = row[k]
    BY <1>3, StatusRow
  <2>2. QED BY <1>1, <2>1
<1>4. ASSUME NEW m \in Names, Claim(m) PROVE FALSE
  BY <1>3, <1>4 DEF Claim, InStatus, Status
<1>5. ASSUME NEW m \in Names, End(m) \/ Retry(m) PROVE FALSE
  <2>1. row[m] # None
    BY <1>5 DEF End, Retry, Write, SchedulerInv, Recorded
  <2>2. QED BY <1>3, <1>5, <2>1 DEF End, Retry, Write, Status, Queued, Terminal
<1>6. ASSUME NEW m \in Names, Purge(m) PROVE FALSE
  BY <1>1, <1>6 DEF Purge, SchedulerInv, SchedulerTypeOK
<1>7. ASSUME NEW a \in Apps, NEW m \in Names, Insert(a, m) PROVE FALSE
  <2>1. row[m] = None /\ row' = [row EXCEPT ![m] =
                          [status |-> "scheduled", config |-> app[a].release]]
    BY <1>2, <1>7 DEF Insert, InsertRow
  <2>2. m # n
    BY <1>1, <2>1
  <2>3. row'[n] = row[n]
    BY <2>1, <2>2 DEF SchedulerInv, SchedulerTypeOK
  <2>4. QED BY <1>1, <2>3
<1>8. ASSUME NEW a \in Apps, NEW m \in Names, Replace(a, m)
      PROVE  /\ app[a].phase = "starting"
             /\ app[a].release # row[n].config
             /\ <<a, n>> \in overtaken
  <2>1. row[m] # None
    BY <1>8 DEF Replace, SchedulerInv, Progress, Sound
  <2>2. \A k \in Names \ {m} : row'[k] = row[k]
    BY <1>8, <2>1, StatusRow DEF Replace, CancelAndCreate, Status, Terminal
  <2>3. m = n
    BY <1>1, <2>2
  <2>4. <<a, n>> \in overtaken
    BY <1>1, <1>8, <2>3 DEF Replace, Unmissed
  <2>5. QED BY <1>8, <2>3, <2>4 DEF Replace, Treating
<1>9. QED
  BY <1>2, <1>4, <1>5, <1>6, <1>7, <1>8
  DEF Next, Process, Start, Selects, Ready, Keep, Register, Check, Die, vars

\* No start cancels a row that was out of the queue when it looked, whatever interleaving of
\* starts, deaths and workers; the one it takes from a worker carried another configuration.
THEOREM OverwritesOnlyOvertakenHolds == Spec => OverwritesOnlyOvertaken
<1>1. QED
  BY SchedulerInvHolds, TakenHolds, StepOverwrites, PTL DEF Spec, OverwritesOnlyOvertaken

=============================================================================
