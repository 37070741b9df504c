------------------------------ MODULE JobControl ------------------------------
(***************************************************************************)
(* The management queue: a GUI-side controller (management/                *)
(* job_controller.py) that supervises one worker process at a time         *)
(* (job_worker.py, execution_worker.py) through the management DB          *)
(* (jobs.py) and the files of a job directory: the start gate, the worker  *)
(* identity, the cancel sentinel and the append-only event log.  The GUI   *)
(* and the workers are separate processes, and each of them may die.       *)
(* A controller lease admits one GUI process, hence the single `gui`.      *)
(***************************************************************************)
EXTENDS Integers, Sequences, FiniteSets

CONSTANTS
  Jobs,            \* jobs that may be queued
  NoJob,           \* no active job
  Launches,        \* worker processes, in launch order: an interval from 1
  NTasks,          \* sites of a job, worked on one after the other
  MaxExits,        \* bound on the GUI's exits
  MaxFaults,       \* bound on failing DB or file writes and on killed workers
  ReconcileMayFail \* whether one of those faults may hit reconcile

ASSUME JobAssumption ==
  /\ NoJob \notin Jobs
  /\ Launches \subseteq Nat \ {0}
  /\ NTasks \in Nat \ {0}
  /\ MaxExits \in Nat
  /\ MaxFaults \in Nat
  /\ ReconcileMayFail \in BOOLEAN

VARIABLES
  state,      \* jobs.state: the queue as the DB has it
  flag,       \* jobs.cancel_requested
  pid,        \* jobs.worker_pid and worker_start_token: a launch, or 0
  imported,   \* job_events: the worker events already in the DB
  gate,       \* start.gate
  identity,   \* worker.identity: the launch that wrote it, or 0
  sentinel,   \* cancel.request exists
  log,        \* events.jsonl, its complete lines
  torn,       \* events.jsonl ends with an incomplete line
  gui,        \* what the GUI process is doing
  polling,    \* its poll timer runs
  orphaned,   \* orphaned_live_worker
  active,     \* active_job_id
  proc,       \* the launch behind `process`, or 0
  offset,     \* lines of the active job's log read so far
  latch,      \* _supervision_error is set
  logError,   \* _log_errors is not empty
  jobOf,      \* the job a launch was started for
  phase,      \* where each worker is
  seq,        \* the last event sequence a worker's sink has used
  done,       \* tasks a worker has finished
  todo,       \* terminal events a worker has yet to write
  code,       \* its return code
  exits, faults

dbVars  == <<state, flag, pid, imported>>
dirVars == <<gate, identity, sentinel, log, torn>>
ctlVars == <<gui, polling, orphaned, active, proc, offset, latch, logError>>
workVars == <<jobOf, phase, seq, done, todo, code>>
vars == <<dbVars, dirVars, ctlVars, workVars, exits, faults>>

Terminal == {"succeeded", "partial", "failed", "cancelled", "interrupted"}
States == {"absent", "queued", "running"} \cup Terminal
Begun == {"locking", "site", "task", "ending"}
TerminalKinds == {"task_failed", "job_finished", "exit_ok", "exit_bad"}
Events == [seq : Nat, kind : {"job_started", "task_finished"} \cup TerminalKinds,
           of : Nat]
Phases == {"none", "boot", "gate", "dead"} \cup Begun

Init ==
  /\ state = [j \in Jobs |-> "absent"]
  /\ flag = [j \in Jobs |-> FALSE]
  /\ pid = [j \in Jobs |-> 0]
  /\ imported = [j \in Jobs |-> {}]
  /\ gate = [j \in Jobs |-> "none"]
  /\ identity = [j \in Jobs |-> 0]
  /\ sentinel = [j \in Jobs |-> FALSE]
  /\ log = [j \in Jobs |-> <<>>]
  /\ torn = [j \in Jobs |-> FALSE]
  /\ gui = "down" /\ polling = FALSE /\ orphaned = FALSE
  /\ active = NoJob /\ proc = 0 /\ offset = 0
  /\ latch = FALSE /\ logError = FALSE
  /\ jobOf = [w \in Launches |-> NoJob]
  /\ phase = [w \in Launches |-> "none"]
  /\ seq = [w \in Launches |-> 0]
  /\ done = [w \in Launches |-> 0]
  /\ todo = [w \in Launches |-> <<>>]
  /\ code = [w \in Launches |-> 0]
  /\ exits = 0 /\ faults = 0

-------------------------------------------------------------------------------
Live(w) == phase[w] \notin {"none", "dead"}
Fault == faults < MaxFaults /\ faults' = faults + 1
NoFault == UNCHANGED faults
CancelRequested(j) == flag[j] \/ sentinel[j]

\* process_is_alive of a recorded launch; 0 is no launch.
Alive(w) == w # 0 /\ Live(w)

(* A worker's sink.  A line written after an incomplete one is glued to    *)
(* it: the import skips the result as malformed.                           *)
Emit(w, kind, of) ==
  LET j == jobOf[w]
      event == [seq |-> seq[w] + 1, kind |-> kind, of |-> of] IN
  /\ seq' = [seq EXCEPT ![w] = @ + 1]
  /\ torn' = [torn EXCEPT ![j] = FALSE]
  /\ log' = IF torn[j] THEN log ELSE [log EXCEPT ![j] = Append(@, event)]

\* A new sink goes on from the highest sequence in the complete lines.
UsedSequences(j) == {0} \cup {log[j][i].seq : i \in DOMAIN log[j]}
LastSequence(j, n) == n \in UsedSequences(j) /\ \A m \in UsedSequences(j) : m <= n

(* import_events: the lines after the offset go to the DB one at a time.   *)
Pending == IF active = NoJob THEN 0 ELSE Len(log[active]) - offset
Taking(k) ==
  imported[active] \cup {log[active][i] : i \in offset + 1 .. offset + k}

\* append_event accepts an event again only with the same content.
Agree(events) == \A d, e \in events : d.seq = e.seq => d = e
-------------------------------------------------------------------------------
(* The GUI process.                                                        *)

\* Live evidence of a worker: its identity file, or the pid in the DB.
WrongSeenAlive(j) == FALSE
SeenAlive(j) == Alive(identity[j]) \/ Alive(pid[j])

\* Reconcile leaves alone what is queued or has ended.
Interrupts(j) == state[j] = "running" /\ ~SeenAlive(j)

Open ==
  /\ gui = "down"
  /\ gui' = "idle"
  /\ polling' = TRUE
  /\ orphaned' = \E j \in Jobs : state[j] = "running" /\ SeenAlive(j)
  /\ state' = [j \in Jobs |-> IF Interrupts(j) THEN "interrupted" ELSE state[j]]
  /\ UNCHANGED <<flag, pid, imported, dirVars, active, proc, offset, latch,
                 logError, workVars, exits, faults>>

\* The DB fails in reconcile: the exception leaves a controller that has not
\* looked at every job, and no poll timer.
OpenUnreconciled ==
  /\ ReconcileMayFail
  /\ gui = "down"
  /\ Fault
  /\ gui' = "idle"
  /\ UNCHANGED <<dbVars, dirVars, polling, orphaned, active, proc, offset,
                 latch, logError, workVars, exits>>

\* The window is closed or the GUI dies; what it kept in memory is gone.
Exit ==
  /\ gui # "down"
  /\ exits < MaxExits
  /\ exits' = exits + 1
  /\ gui' = "down" /\ polling' = FALSE /\ orphaned' = FALSE
  /\ active' = NoJob /\ proc' = 0 /\ offset' = 0
  /\ latch' = FALSE /\ logError' = FALSE
  /\ UNCHANGED <<dbVars, dirVars, workVars, faults>>

Queue(j) ==
  /\ gui = "idle"
  /\ state[j] = "absent"
  /\ state' = [state EXCEPT ![j] = "queued"]
  /\ UNCHANGED <<flag, pid, imported, dirVars, ctlVars, workVars, exits, faults>>

\* The jobs page cancels a job that this controller does not supervise.
CancelOther(j) ==
  /\ gui = "idle"
  /\ active # j
  /\ state[j] \in {"queued", "running"}
  /\ flag' = [flag EXCEPT ![j] = TRUE]
  /\ sentinel' = [sentinel EXCEPT ![j] = TRUE]
  /\ UNCHANGED <<state, pid, imported, gate, identity, log, torn, ctlVars,
                 workVars, exits, faults>>

(* start_job, up to the running child: the gate is shut before the launch. *)
MayStart(j) ==
  /\ gui = "idle"
  /\ active = NoJob
  /\ ~orphaned
  /\ state[j] = "queued"

StartCancelled(j) ==
  /\ MayStart(j)
  /\ CancelRequested(j)
  /\ state' = [state EXCEPT ![j] = "cancelled"]
  /\ UNCHANGED <<flag, pid, imported, dirVars, ctlVars, workVars, exits, faults>>

NextLaunch(w) ==
  phase[w] = "none" /\ \A v \in Launches : phase[v] = "none" => w <= v

StartJob(j, w) ==
  /\ MayStart(j)
  /\ ~CancelRequested(j)
  /\ NextLaunch(w)
  /\ gate' = [gate EXCEPT ![j] = "wait"]
  /\ jobOf' = [jobOf EXCEPT ![w] = j]
  /\ phase' = [phase EXCEPT ![w] = "boot"]
  /\ gui' = "spawned"
  /\ active' = j /\ proc' = w /\ offset' = 0
  /\ latch' = FALSE /\ logError' = FALSE
  /\ UNCHANGED <<dbVars, identity, sentinel, log, torn, polling, orphaned,
                 seq, done, todo, code, exits, faults>>

\* set_worker_identity, which only changes a queued row.
WrongRecord(j) == UNCHANGED state
Record(j) == state' = [state EXCEPT ![j] = IF @ = "queued" THEN "running" ELSE @]
RecordIdentity ==
  /\ gui = "spawned"
  /\ Record(active)
  /\ pid' = [pid EXCEPT ![active] = IF state[active] = "queued" THEN proc ELSE @]
  /\ gui' = "recorded"
  /\ UNCHANGED <<flag, imported, dirVars, polling, orphaned, active, proc,
                 offset, latch, logError, workVars, exits, faults>>

\* The planning event is stored, then the gate is opened.
OpenGate ==
  /\ gui = "recorded"
  /\ gate' = [gate EXCEPT ![active] = "go"]
  /\ gui' = "idle"
  /\ UNCHANGED <<dbVars, identity, sentinel, log, torn, polling, orphaned,
                 active, proc, offset, latch, logError, workVars, exits, faults>>

Interrupted(j) == state' = [state EXCEPT ![j] = "interrupted"]
Released == active' = NoJob /\ proc' = 0 /\ offset' = 0

\* A process ends: all that is left of its memory is the return code.
Gone(w, c) ==
  /\ phase' = [phase EXCEPT ![w] = "dead"]
  /\ code' = [code EXCEPT ![w] = c]
  /\ seq' = [seq EXCEPT ![w] = 0]
  /\ done' = [done EXCEPT ![w] = 0]
  /\ todo' = [todo EXCEPT ![w] = <<>>]
  /\ UNCHANGED jobOf
Killed(w) == Gone(w, IF Live(w) THEN 1 ELSE code[w])
MayTear(w) ==
  \E t \in BOOLEAN : torn' = [torn EXCEPT ![jobOf[w]] = @ \/ (t /\ phase[w] \in Begun)]

\* A durable write of start_job fails: the child is killed behind its gate.
\* Shutting the gate and marking the job interrupted are tried once.
StartFails ==
  /\ gui \in {"spawned", "recorded"}
  /\ Fault
  /\ Killed(proc)
  /\ \E g \in {"cancel", gate[active]} : gate' = [gate EXCEPT ![active] = g]
  /\ Interrupted(active) \/ UNCHANGED state
  /\ gui' = "idle"
  /\ Released
  /\ UNCHANGED <<flag, pid, imported, identity, sentinel, log, torn, polling,
                 orphaned, latch, logError, exits>>

(* poll.  A step reads one answer of process.poll(): what the worker did   *)
(* before is in the log, and what it does after belongs to the next poll.  *)
Supervising == gui = "idle" /\ active # NoJob
Polls == Supervising /\ polling

\* _mark_unverified: the controller lets go even if the DB refuses the state.
WrongUnverified == Interrupted(active) /\ NoFault /\ UNCHANGED <<active, proc, offset>>
Unverified ==
  /\ \/ Interrupted(active) /\ NoFault
     \/ UNCHANGED state /\ Fault
  /\ Released

WriteSentinel == sentinel' = [sentinel EXCEPT ![active] = TRUE]

\* Once latched, a sentinel that cannot be written changes nothing else: what
\* made the import fail may make this write fail too.
TrySentinel == WriteSentinel \/ UNCHANGED sentinel

\* request_stop: the sentinel first, then the DB; either write may fail, and
\* a sentinel that cannot be written is latched.
AskToStop ==
  \/ WriteSentinel /\ flag' = [flag EXCEPT ![active] = TRUE] /\ NoFault /\ UNCHANGED latch
  \/ WriteSentinel /\ Fault /\ UNCHANGED <<flag, latch>>
  \/ flag' = [flag EXCEPT ![active] = TRUE] /\ latch' = TRUE /\ Fault /\ UNCHANGED sentinel

\* A latched failure is never repaired: stop the worker, then give up on it.
PollLatched ==
  /\ Polls /\ latch
  /\ TrySentinel
  /\ IF Live(proc)
     THEN UNCHANGED <<state, active, proc, offset, faults>>
     ELSE Unverified
  /\ UNCHANGED <<flag, pid, imported, gate, identity, log, torn, gui, polling,
                 orphaned, latch, logError, workVars, exits>>

\* The import fails after k of the pending lines, on a clash or a DB failure.
\* The offset is past all of them already, so the rest is never read again.
WrongLatched == UNCHANGED latch
Latched == latch' = TRUE

PollFails(k) ==
  /\ Polls /\ ~latch
  /\ Agree(Taking(k))
  /\ \/ k < Pending /\ ~Agree(Taking(k + 1)) /\ NoFault
     \/ Fault
  /\ imported' = [imported EXCEPT ![active] = Taking(k)]
  /\ Latched
  /\ TrySentinel
  /\ IF Live(proc)
     THEN offset' = Len(log[active]) /\ UNCHANGED <<state, active, proc>>
     ELSE (Interrupted(active) \/ UNCHANGED state) /\ Released
  /\ UNCHANGED <<flag, pid, gate, identity, log, torn, gui, polling, orphaned,
                 logError, workVars, exits>>

Imported ==
  /\ Agree(Taking(Pending))
  /\ imported' = [imported EXCEPT ![active] = Taking(Pending)]

\* The worker is alive: import, and ask it to stop when its log is lost.
PollLive ==
  /\ Polls /\ ~latch
  /\ Live(proc)
  /\ Pending > 0 \/ logError
  /\ Imported
  /\ offset' = Len(log[active])
  /\ IF logError
     THEN AskToStop
     ELSE UNCHANGED <<sentinel, flag, latch, faults>>
  /\ UNCHANGED <<state, pid, gate, identity, log, torn, gui, polling, orphaned,
                 active, proc, logError, workVars, exits>>

(* The worker has exited: drain the log, then believe it or not.           *)
Verified == ~torn[active] /\ identity[active] = proc /\ ~logError

\* terminal_event_summary
Has(kind) == \E e \in imported'[active] : e.kind = kind
FinishedTasks == {e.of : e \in {d \in imported'[active] : d.kind = "task_finished"}}
WrongHasSuccess == Cardinality(FinishedTasks) = NTasks
HasSuccess == FinishedTasks # {}
HasFailure == Has("task_failed") \/ Has("exit_bad")
AuthoritativeSuccess ==
  /\ code[proc] = 0
  /\ ~HasFailure
  /\ Has("job_finished") /\ Has("exit_ok")
  /\ Cardinality(FinishedTasks) = NTasks

Outcome ==
  CASE CancelRequested(active) -> IF HasSuccess THEN "partial" ELSE "cancelled"
    [] OTHER -> CASE AuthoritativeSuccess -> "succeeded"
                  [] OTHER -> IF HasSuccess THEN "partial" ELSE "failed"

PollExited ==
  /\ Polls /\ ~latch
  /\ ~Live(proc)
  /\ Imported
  /\ IF Verified
     THEN state' = [state EXCEPT ![active] = Outcome] /\ Released /\ NoFault
     ELSE Unverified
  /\ UNCHANGED <<flag, pid, dirVars, gui, polling, orphaned, latch, logError,
                 workVars, exits>>

\* The operator stops the job it supervises.
RequestStop ==
  /\ Supervising
  /\ AskToStop
  /\ UNCHANGED <<state, pid, imported, gate, identity, log, torn, gui, polling,
                 orphaned, active, proc, offset, logError, workVars, exits>>

\* force_stop: kill the worker, possibly in the middle of a line.
ForceStop ==
  /\ Supervising
  /\ Killed(proc)
  /\ MayTear(proc)
  /\ Unverified
  /\ UNCHANGED <<flag, pid, imported, gate, identity, sentinel, log, gui, polling,
                 orphaned, latch, logError, exits>>

\* Writing the captured output fails.
LogFails ==
  /\ Supervising
  /\ ~logError
  /\ Fault
  /\ logError' = TRUE
  /\ UNCHANGED <<dbVars, dirVars, gui, polling, orphaned, active, proc, offset,
                 latch, workVars, exits>>
-------------------------------------------------------------------------------
(* The worker process w.                                                   *)
Goes(w, here, next) == phase[w] = here /\ phase' = [phase EXCEPT ![w] = next]

\* run_job opens the sink and leaves its identity before it looks at the gate.
Boot(w) ==
  /\ Goes(w, "boot", "gate")
  /\ identity' = [identity EXCEPT ![jobOf[w]] = w]
  /\ \E n \in UsedSequences(jobOf[w]) :
       LastSequence(jobOf[w], n) /\ seq' = [seq EXCEPT ![w] = n]
  /\ UNCHANGED <<dbVars, gate, sentinel, log, torn, ctlVars, jobOf, done, todo,
                 code, exits, faults>>

\* The gate is open: the first event follows.
GateOpen(w) == gate[jobOf[w]] = "go"
PassGate(w) ==
  /\ Goes(w, "gate", "locking")
  /\ GateOpen(w)
  /\ Emit(w, "job_started", w)
  /\ UNCHANGED <<dbVars, gate, identity, sentinel, ctlVars, jobOf, done, todo,
                 code, exits, faults>>

\* The gate says cancel, or fifteen seconds have passed.
GiveUpGate(w) ==
  /\ phase[w] = "gate"
  /\ Gone(w, 1)
  /\ UNCHANGED <<dbVars, dirVars, ctlVars, exits, faults>>

\* _run works inside the Catalog job lock.
HoldsCatalog(v) == phase[v] \in {"site", "task"}
LockCatalog(w) ==
  /\ ~\E v \in Launches : HoldsCatalog(v)
  /\ Goes(w, "locking", "site")
  /\ UNCHANGED <<dbVars, dirVars, ctlVars, jobOf, seq, done, todo, code, exits, faults>>

\* Sites in order, with a cancellation checkpoint before each.
Checkpoint(w) == ~sentinel[jobOf[w]]
StartTask(w) ==
  /\ Goes(w, "site", "task")
  /\ done[w] < NTasks
  /\ Checkpoint(w)
  /\ UNCHANGED <<dbVars, dirVars, ctlVars, jobOf, seq, done, todo, code, exits, faults>>

FinishTask(w) ==
  /\ Goes(w, "task", "site")
  /\ done' = [done EXCEPT ![w] = @ + 1]
  /\ Emit(w, "task_finished", done[w] + 1)
  /\ UNCHANGED <<dbVars, gate, identity, sentinel, ctlVars, jobOf, todo, code,
                 exits, faults>>

\* The three ways out of _run: all sites done, a checkpoint that sees the
\* sentinel (or a heartbeat that could not be written), an exception.
Ends(w, events, c) ==
  /\ phase' = [phase EXCEPT ![w] = "ending"]
  /\ todo' = [todo EXCEPT ![w] = events]
  /\ code' = [code EXCEPT ![w] = c]
  /\ UNCHANGED <<dbVars, dirVars, ctlVars, jobOf, seq, done, exits>>

Complete(w) ==
  /\ phase[w] = "site" /\ done[w] = NTasks
  /\ Ends(w, <<"job_finished", "exit_ok">>, 0)
  /\ NoFault

ObeyCancel(w) ==
  /\ phase[w] = "task" \/ (phase[w] = "site" /\ done[w] < NTasks)
  /\ IF sentinel[jobOf[w]] THEN NoFault ELSE Fault
  /\ Ends(w, <<"task_failed", "exit_bad">>, 0)

Raise(w) ==
  /\ phase[w] \in {"locking", "site", "task"}
  /\ Ends(w, <<"task_failed", "exit_bad">>, 1)
  /\ NoFault

EmitTerminal(w) ==
  /\ phase[w] = "ending" /\ todo[w] # <<>>
  /\ todo' = [todo EXCEPT ![w] = Tail(@)]
  /\ Emit(w, Head(todo[w]), 0)
  /\ UNCHANGED <<dbVars, gate, identity, sentinel, ctlVars, jobOf, phase, done,
                 code, exits, faults>>

Leave(w) ==
  /\ phase[w] = "ending" /\ todo[w] = <<>>
  /\ Gone(w, code[w])
  /\ UNCHANGED <<dbVars, dirVars, ctlVars, exits, faults>>

\* The worker is killed or cannot report, perhaps in the middle of a line.
Die(w) ==
  /\ Live(w)
  /\ Fault
  /\ Killed(w)
  /\ MayTear(w)
  /\ UNCHANGED <<dbVars, gate, identity, sentinel, log, ctlVars, exits>>

-------------------------------------------------------------------------------
Poll ==
  \/ PollLatched
  \/ \E k \in 0..Pending : PollFails(k)
  \/ PollLive
  \/ PollExited

Gui ==
  \/ Open \/ OpenUnreconciled \/ Exit
  \/ \E j \in Jobs : Queue(j) \/ CancelOther(j) \/ StartCancelled(j)
  \/ \E j \in Jobs, w \in Launches : StartJob(j, w)
  \/ RecordIdentity \/ OpenGate \/ StartFails
  \/ Poll
  \/ RequestStop \/ ForceStop \/ LogFails

Worker(w) ==
  \/ Boot(w) \/ PassGate(w) \/ GiveUpGate(w) \/ LockCatalog(w)
  \/ StartTask(w) \/ FinishTask(w) \/ Complete(w) \/ ObeyCancel(w) \/ Raise(w)
  \/ EmitTerminal(w) \/ Leave(w) \/ Die(w)

Next == Gui \/ \E w \in Launches : Worker(w)

Spec == Init /\ [][Next]_vars

\* start_job runs to its end and the poll timer keeps firing; nothing is
\* assumed of the worker or the user.
FairSpec == Spec /\ WF_vars(RecordIdentity \/ OpenGate) /\ WF_vars(Poll)

-------------------------------------------------------------------------------
DbTypeOK ==
  /\ state \in [Jobs -> States]
  /\ flag \in [Jobs -> BOOLEAN]
  /\ pid \in [Jobs -> Launches \cup {0}]
  /\ gate \in [Jobs -> {"none", "wait", "go", "cancel"}]
  /\ identity \in [Jobs -> Launches \cup {0}]
  /\ sentinel \in [Jobs -> BOOLEAN]
  /\ torn \in [Jobs -> BOOLEAN]

CtlTypeOK ==
  /\ gui \in {"down", "idle", "spawned", "recorded"}
  /\ exits \in 0..MaxExits
  /\ faults \in 0..MaxFaults

CtlFlagsOK ==
  /\ polling \in BOOLEAN /\ orphaned \in BOOLEAN
  /\ latch \in BOOLEAN /\ logError \in BOOLEAN

WorkTypeOK ==
  /\ active \in Jobs \cup {NoJob}
  /\ proc \in Launches \cup {0}
  /\ active # NoJob => proc # 0 /\ jobOf[proc] = active
  /\ jobOf \in [Launches -> Jobs \cup {NoJob}]
  /\ phase \in [Launches -> Phases]
  /\ \A w \in Launches : phase[w] # "none" => jobOf[w] \in Jobs
  /\ done \in [Launches -> 0..NTasks]
  /\ code \in [Launches -> {0, 1}]

LogTypeOK ==
  /\ imported \in [Jobs -> SUBSET Events]
  /\ log \in [Jobs -> Seq(Events)]
  /\ seq \in [Launches -> Nat]
  /\ todo \in [Launches -> Seq(TerminalKinds)]
  /\ offset \in Nat

TypeOK == DbTypeOK /\ CtlTypeOK /\ CtlFlagsOK /\ WorkTypeOK /\ LogTypeOK

(* The barrier: a worker that is past its gate belongs to a job that the   *)
(* management DB no longer shows as queued, so that no restart of the GUI, *)
(* at whatever moment, offers a job that has begun for another start.      *)
BegunIsRecorded ==
  \A w \in Launches : phase[w] \in Begun =>
    state[jobOf[w]] \notin {"absent", "queued"}

(* A job that has ended stays as it ended: no reconcile, late poll or      *)
(* failing start may rewrite what the operator was told.                   *)
TerminalIsFinal ==
  [][\A j \in Jobs : state[j] \in Terminal => state'[j] = state[j]]_state

(* A job is called succeeded only on full evidence: every task has a       *)
(* finished event, the process has exited cleanly, and every line of its   *)
(* log is in the DB, whatever import failures, clashes, orphans and dying  *)
(* writers there were.                                                     *)
SucceededOnFullEvidence ==
  [][\A j \in Jobs : state[j] # "succeeded" /\ state'[j] = "succeeded" =>
       /\ \A t \in 1..NTasks : \E i \in DOMAIN log[j] :
            log[j][i].kind = "task_finished" /\ log[j][i].of = t
       /\ \A i \in DOMAIN log[j] : log[j][i] \in imported'[j]
       /\ ~torn[j]
       /\ \E w \in Launches : jobOf[w] = j /\ phase[w] = "dead" /\ code[w] = 0]_vars

(* "Cancelled" and "failed" tell the operator that nothing was finished: a  *)
(* job with a finished task in its log never gets one of these two states, *)
(* also when the stop, the exit and the last events race.                  *)
NoHiddenWork ==
  [][\A j \in Jobs :
       state[j] # state'[j] /\ state'[j] \in {"cancelled", "failed"} =>
         \A i \in DOMAIN log[j] : log[j][i].kind # "task_finished"]_vars

(* No worker is launched while one that the DB knows is alive, be it of    *)
(* this GUI or of one that is gone, whatever the state of its job by then. *)
KnownWorkerBlocksLaunch ==
  [][\A w \in Launches : phase[w] = "none" /\ phase'[w] = "boot" =>
       \A v \in Launches : Live(v) => pid[jobOf[v]] # v]_vars

(* After its worker has exited a job does not stay with the controller:    *)
(* the queue cannot be wedged by a torn log, an impostor or a failing DB.  *)
SupervisionEnds ==
  active # NoJob /\ phase[proc] = "dead" ~> active = NoJob

(* "Queue and supervise exactly one worker process at a time."             *)
OneBegunWorker ==
  \A v, w \in Launches : phase[v] \in Begun /\ phase[w] \in Begun => v = w
===============================================================================
