------------------------------- MODULE JobProofs -------------------------------
(***************************************************************************)
(* The Catalog job lock is correct for every set of processes and owners   *)
(* and every nesting bound; the start barrier and the finality of job      *)
(* states hold for every set of jobs and launches and every number of      *)
(* tasks, GUI exits and faults.                                            *)
(***************************************************************************)
EXTENDS CatalogJobLock, JobControl, FiniteSetTheorems, TLAPS

-------------------------------------------------------------------------------
\* The lock (CatalogJobLock).

\* An owner inside a block owns the registry entry and the locked file, its
\* depth counts its blocks, and only its first block is not a nested one.
InsideFacts(o) ==
  /\ flock = o
  /\ holders[ProcOf[o]] = o
  /\ op[o] = "idle"
  /\ depth[o] = blocks[o]
  /\ \A k \in 1..MaxNest : k <= blocks[o] => (nested[o][k] <=> k # 1)

LockingFacts(o) ==
  /\ holders[ProcOf[o]] = o
  /\ blocks[o] = 0
  /\ depth[o] = 1

UnlockingFacts(o) ==
  /\ flock = o
  /\ blocks[o] = 0

\* The inductive invariant: mutual exclusion needs the agreement of the
\* registry, the counters and the file in every intermediate state.
LockInv ==
  /\ LockTypeOK
  /\ \A o \in Owners : Inside(o) => InsideFacts(o)
  /\ \A o \in Owners : op[o] = "locking" => LockingFacts(o)
  /\ \A o \in Owners : op[o] = "unlocking" => UnlockingFacts(o)
  /\ \A p \in Procs : holders[p] # NoOwner =>
       /\ ProcOf[holders[p]] = p
       /\ Inside(holders[p]) \/ op[holders[p]] = "locking"
  /\ flock # NoOwner => Inside(flock) \/ op[flock] = "unlocking"

-------------------------------------------------------------------------------
LEMMA InitLockInv == LockInit => LockInv
  BY LockAssumption
  DEF LockInit, LockInv, LockTypeOK, Inside, InsideFacts, LockingFacts, UnlockingFacts

LEMMA NextLockInv == LockInv /\ [LockNext]_lockVars => LockInv'
<1> SUFFICES ASSUME LockInv, [LockNext]_lockVars PROVE LockInv'
  OBVIOUS
<1> USE LockAssumption
    DEF LockInv, LockTypeOK, Inside, InsideFacts, LockingFacts, UnlockingFacts
<1>1. ASSUME NEW o \in Owners, EnterFirst(o) PROVE LockInv'
  BY <1>1 DEF EnterFirst
<1>2. ASSUME NEW o \in Owners, EnterNested(o) PROVE LockInv'
<2> USE <1>2 DEF EnterNested, MayNest
<2>1. LockTypeOK'
  OBVIOUS
<2>2. ASSUME NEW q \in Owners, Inside(q)' PROVE InsideFacts(q)'
  <3>1. CASE q = o
    <4>1. depth'[o] = depth[o] + 1 /\ blocks'[o] = blocks[o] + 1
      OBVIOUS
    <4>2. flock = o /\ holders[ProcOf[o]] = o /\ op[o] = "idle" /\ depth[o] = blocks[o]
      <5>1. Inside(o)
        OBVIOUS
      <5> QED
        BY <5>1
    <4>3. \A k \in 1..MaxNest : k <= blocks[o] + 1 => (nested'[o][k] <=> k # 1)
      BY <4>2
    <4> QED
      BY <3>1, <4>1, <4>2, <4>3
  <3>2. CASE q # o
    BY <2>2, <3>2
  <3> QED
    BY <3>1, <3>2
<2>3. \A q \in Owners : op'[q] = "locking" => LockingFacts(q)'
  OBVIOUS
<2>4. \A q \in Owners : op'[q] = "unlocking" => UnlockingFacts(q)'
  OBVIOUS
<2>5. \A p \in Procs : holders'[p] # NoOwner =>
        /\ ProcOf[holders'[p]] = p
        /\ Inside(holders[p])' \/ op'[holders'[p]] = "locking"
  OBVIOUS
<2>6. flock' # NoOwner => Inside(flock)' \/ op'[flock'] = "unlocking"
  OBVIOUS
<2> QED
  BY <2>1, <2>2, <2>3, <2>4, <2>5, <2>6
<1>3. ASSUME NEW o \in Owners, LockFile(o) PROVE LockInv'
  BY <1>3 DEF LockFile, FileFree
<1>4. ASSUME NEW o \in Owners, LockFileFails(o) PROVE LockInv'
  BY <1>4 DEF LockFileFails, Unregistered
<1>5. ASSUME NEW o \in Owners, ExitBlock(o) PROVE LockInv'
  BY <1>5 DEF ExitBlock, Unregistered, UnlocksFile, DepthLeft
<1>6. ASSUME NEW o \in Owners, UnlockFile(o) PROVE LockInv'
  BY <1>6 DEF UnlockFile
<1>7. ASSUME NEW p \in Procs, Crash(p) PROVE LockInv'
  BY <1>7 DEF Crash
<1>8. CASE UNCHANGED lockVars
  BY <1>8 DEF lockVars
<1> QED
  BY <1>1, <1>2, <1>3, <1>4, <1>5, <1>6, <1>7, <1>8 DEF LockNext, Finish

\* Every reachable state of the lock satisfies the inductive invariant.
THEOREM LockInvariant == LockSpec => []LockInv
<1>1. LockInit => LockInv
  BY InitLockInv
<1>2. LockInv /\ [LockNext]_lockVars => LockInv'
  BY NextLockInv
<1> QED
  BY <1>1, <1>2, PTL DEF LockSpec

\* The variables of the lock keep their types; in particular the depth counter
\* and the blocks of an owner stay within the nesting bound.
THEOREM LockTypeCorrect == LockSpec => []LockTypeOK
<1>1. LockInv => LockTypeOK
  BY DEF LockInv
<1> QED
  BY <1>1, LockInvariant, PTL

\* Two owners are never inside the lock of one Catalog together: each of them
\* would have the one lock file locked.
THEOREM LockMutualExclusion == LockSpec => []MutualExclusion
<1>1. LockInv => MutualExclusion
  BY DEF LockInv, MutualExclusion, InsideFacts
<1> QED
  BY <1>1, LockInvariant, PTL

\* Registry entries and file locks always have an owner that gives them back.
THEOREM LockNothingLeaks == LockSpec => []NothingLeaks
<1>1. LockInv => NothingLeaks
  BY DEF LockInv, NothingLeaks
<1> QED
  BY <1>1, LockInvariant, PTL

-------------------------------------------------------------------------------
\* Under the invariant the abstract holder is the owner inside a block.
LEMMA HolderIsInside ==
  ASSUME LockInv
  PROVE  /\ \A o \in Owners : Inside(o) => Holder = o
         /\ (\A o \in Owners : ~Inside(o)) => Holder = NoOwner
  BY DEF LockInv, InsideFacts, Holder

LEMMA HolderIsInsideNext ==
  ASSUME LockInv'
  PROVE  /\ \A o \in Owners : Inside(o)' => Holder' = o
         /\ (\A o \in Owners : ~Inside(o)') => Holder' = NoOwner
  BY DEF LockInv, InsideFacts, Holder

\* Every step of the lock acquires, releases or leaves alone the abstract lock.
LEMMA StepSimulation ==
  LockInv /\ LockInv' /\ [LockNext]_lockVars => [Exclusion!Next]_Holder
<1> SUFFICES ASSUME LockInv, LockInv', [LockNext]_lockVars
             PROVE  [Exclusion!Next]_Holder
  OBVIOUS
<1> USE LockAssumption, HolderIsInside, HolderIsInsideNext
    DEF Exclusion!Next, Exclusion!Acquire, Exclusion!Release
<1>0. ASSUME \A o \in Owners : Inside(o)' <=> Inside(o)
      PROVE  Holder' = Holder
  <2>1. CASE \E o \in Owners : Inside(o)
    BY <1>0, <2>1
  <2>2. CASE \A o \in Owners : ~Inside(o)
    BY <1>0, <2>2
  <2> QED
    BY <2>1, <2>2
<1>1. ASSUME NEW o \in Owners, EnterFirst(o) PROVE Holder' = Holder
  BY <1>0, <1>1 DEF EnterFirst, Inside
<1>2. ASSUME NEW o \in Owners, EnterNested(o) PROVE Holder' = Holder
  BY <1>0, <1>2 DEF EnterNested, MayNest, Inside, LockInv, LockTypeOK
<1>3. ASSUME NEW o \in Owners, LockFile(o) PROVE Exclusion!Next
  <2>1. \A q \in Owners : ~Inside(q)
    BY <1>3 DEF LockFile, FileFree, LockInv, InsideFacts
  <2>2. Inside(o)'
    BY <1>3 DEF LockFile, Inside, LockInv, LockTypeOK
  <2> QED
    BY <2>1, <2>2
<1>4. ASSUME NEW o \in Owners, LockFileFails(o) PROVE Holder' = Holder
  BY <1>0, <1>4 DEF LockFileFails, Inside
<1>5. ASSUME NEW o \in Owners, ExitBlock(o) PROVE [Exclusion!Next]_Holder
  <2>1. Inside(o)
    BY <1>5 DEF ExitBlock, Inside
  <2>2. CASE Inside(o)'
    BY <2>1, <2>2
  <2>3. CASE ~Inside(o)'
    <3>1. \A q \in Owners : ~Inside(q)'
      BY <1>5, <2>1, <2>3 DEF ExitBlock, DepthLeft, Inside, LockInv, LockTypeOK, InsideFacts
    <3> QED
      BY <2>1, <3>1
  <2> QED
    BY <2>2, <2>3
<1>6. ASSUME NEW o \in Owners, UnlockFile(o) PROVE Holder' = Holder
  BY <1>0, <1>6 DEF UnlockFile, Inside
<1>7. ASSUME NEW p \in Procs, Crash(p) PROVE [Exclusion!Next]_Holder
  <2>1. CASE \A o \in Owners : ~Inside(o)
    BY <1>0, <1>7, <2>1 DEF Crash, Inside, LockInv, LockTypeOK
  <2>2. ASSUME NEW o \in Owners, Inside(o), ProcOf[o] = p
        PROVE  [Exclusion!Next]_Holder
    <3>1. \A q \in Owners : ~Inside(q)'
      BY <1>7, <2>2 DEF Crash, Inside, LockInv, LockTypeOK, InsideFacts
    <3> QED
      BY <2>2, <3>1
  <2>3. ASSUME NEW o \in Owners, Inside(o), ProcOf[o] # p
        PROVE  [Exclusion!Next]_Holder
    <3>1. Inside(o)'
      BY <1>7, <2>3 DEF Crash, Inside, LockInv, LockTypeOK
    <3> QED
      BY <2>3, <3>1
  <2> QED
    BY <2>1, <2>2, <2>3
<1>8. CASE UNCHANGED lockVars
  BY <1>0, <1>8 DEF lockVars, Inside
<1> QED
  BY <1>1, <1>2, <1>3, <1>4, <1>5, <1>6, <1>7, <1>8 DEF LockNext, Finish

\* The registry, the counters and the lock file together implement a lock with
\* one holder at a time.
THEOREM LockImplementsExclusion == LockSpec => ImplementsExclusion
<1>1. LockInit => Exclusion!Init
  BY DEF LockInit, Exclusion!Init, Holder, Inside
<1>2. LockInv /\ LockInv' /\ [LockNext]_lockVars => [Exclusion!Next]_Holder
  BY StepSimulation
<1> QED
  BY <1>1, <1>2, LockInvariant, PTL DEF LockSpec, ImplementsExclusion, Exclusion!Spec

-------------------------------------------------------------------------------
\* The jobs (JobControl).

\* What the DB shows of the active job at each stage of its supervision.
Stage ==
  /\ gui = "down" => active = NoJob
  /\ gui \in {"spawned", "recorded"} => active # NoJob
  /\ gui = "spawned" => state[active] = "queued"
  /\ gui = "recorded" => state[active] = "running"
  /\ gui = "idle" /\ active # NoJob => state[active] = "running"
  /\ active # NoJob => phase[proc] # "none"

\* The gate opens only for a job whose start is in the DB.
GateRecorded == \A j \in Jobs : gate[j] = "go" => state[j] \notin {"absent", "queued"}

\* A worker in the middle of a task has one left to finish.
TaskLeft == \A w \in Launches : phase[w] = "task" => done[w] < NTasks

\* All but the types of the event logs, which need more than this.
StageTypeOK == DbTypeOK /\ CtlTypeOK /\ CtlFlagsOK /\ WorkTypeOK

JobInv == StageTypeOK /\ Stage /\ GateRecorded /\ BegunIsRecorded /\ TaskLeft

\* The states a row can be in when a step changes it.
RowStep ==
  \A j \in Jobs :
    \/ state'[j] = state[j]
    \/ state[j] = "absent" /\ state'[j] = "queued"
    \/ state[j] = "queued" /\ state'[j] = "running"
    \/ state[j] \in {"queued", "running"} /\ state'[j] \in Terminal

LEMMA InitJobInv == Init => JobInv
<1> SUFFICES ASSUME Init PROVE JobInv
  OBVIOUS
<1> USE JobAssumption DEF JobAssumption, Init
<1>1. DbTypeOK
  BY DEF DbTypeOK, States, Terminal
<1>2. CtlTypeOK /\ CtlFlagsOK
  <2>1. CtlTypeOK
    BY DEF CtlTypeOK
  <2>2. CtlFlagsOK
    BY DEF CtlFlagsOK
  <2>3. QED
    BY <2>1, <2>2
<1>3. WorkTypeOK
  BY DEF WorkTypeOK, Phases, Begun
<1>4. Stage /\ GateRecorded /\ BegunIsRecorded /\ TaskLeft
  BY DEF Stage, GateRecorded, BegunIsRecorded, TaskLeft, Begun
<1>5. QED
  BY <1>1, <1>2, <1>3, <1>4 DEF JobInv, StageTypeOK

USE JobAssumption
    DEF JobAssumption, JobInv, StageTypeOK, DbTypeOK, CtlTypeOK,
        CtlFlagsOK, WorkTypeOK, Stage, GateRecorded, BegunIsRecorded, TaskLeft, RowStep,
        States, Phases, Begun, Terminal, dbVars, dirVars, ctlVars, workVars

LEMMA GuiJobInv == JobInv /\ Gui => JobInv' /\ RowStep
<1> SUFFICES ASSUME JobInv, Gui PROVE JobInv' /\ RowStep
  OBVIOUS
<1>1. CASE Open
  BY <1>1 DEF Open, Interrupts
<1>2. CASE OpenUnreconciled
  BY <1>2 DEF OpenUnreconciled, Fault
<1>3. CASE Exit
  <2> USE <1>3 DEF Exit
  <2>1. DbTypeOK'
    OBVIOUS
  <2>2. CtlTypeOK'
    OBVIOUS
  <2>3. CtlFlagsOK'
    OBVIOUS
  <2>4. WorkTypeOK'
    OBVIOUS
  <2>5. Stage' /\ GateRecorded' /\ BegunIsRecorded' /\ TaskLeft' /\ RowStep
    OBVIOUS
  <2>6. QED
    BY <2>1, <2>2, <2>3, <2>4, <2>5
<1>4. ASSUME NEW j \in Jobs, Queue(j) PROVE JobInv' /\ RowStep
  BY <1>4 DEF Queue
<1>5. ASSUME NEW j \in Jobs, CancelOther(j) PROVE JobInv' /\ RowStep
  BY <1>5 DEF CancelOther
<1>6. ASSUME NEW j \in Jobs, StartCancelled(j) PROVE JobInv' /\ RowStep
  BY <1>6 DEF StartCancelled, MayStart
<1>7. ASSUME NEW j \in Jobs, NEW w \in Launches, StartJob(j, w)
      PROVE JobInv' /\ RowStep
  BY <1>7 DEF StartJob, MayStart, NextLaunch
<1>8. CASE RecordIdentity
  BY <1>8 DEF RecordIdentity, Record
<1>9. CASE OpenGate
  BY <1>9 DEF OpenGate
<1>10. CASE StartFails
  BY <1>10 DEF StartFails, Fault, Killed, Gone, Interrupted, Released, Live
<1>11. CASE Poll
  <2> USE DEF Polls, Supervising, Unverified, Interrupted, Released, Fault,
              NoFault, WriteSentinel, TrySentinel, Pending
  <2>1. CASE PollLatched
    <3> USE <2>1 DEF PollLatched
    <3>1. DbTypeOK'
      OBVIOUS
    <3>2. CtlTypeOK'
      OBVIOUS
    <3>3. CtlFlagsOK'
      OBVIOUS
    <3>4. WorkTypeOK'
      OBVIOUS
    <3>5. Stage'
      OBVIOUS
    <3>6. GateRecorded' /\ BegunIsRecorded' /\ TaskLeft' /\ RowStep
      OBVIOUS
    <3>7. QED
      BY <3>1, <3>2, <3>3, <3>4, <3>5, <3>6
  <2>2. ASSUME NEW k \in 0..Pending, PollFails(k) PROVE JobInv' /\ RowStep
    <3> USE <2>2 DEF PollFails, Latched
    <3>1. DbTypeOK'
      OBVIOUS
    <3>2. CtlTypeOK'
      OBVIOUS
    <3>3. CtlFlagsOK'
      OBVIOUS
    <3>4. WorkTypeOK'
      OBVIOUS
    <3>5. Stage'
      OBVIOUS
    <3>6. GateRecorded' /\ BegunIsRecorded' /\ TaskLeft' /\ RowStep
      OBVIOUS
    <3>7. QED
      BY <3>1, <3>2, <3>3, <3>4, <3>5, <3>6
  <2>3. CASE PollLive
    <3> USE <2>3 DEF PollLive, AskToStop
    <3>1. DbTypeOK'
      OBVIOUS
    <3>2. CtlTypeOK'
      OBVIOUS
    <3>3. CtlFlagsOK'
      OBVIOUS
    <3>4. WorkTypeOK'
      OBVIOUS
    <3>5. Stage'
      OBVIOUS
    <3>6. GateRecorded' /\ BegunIsRecorded' /\ TaskLeft' /\ RowStep
      OBVIOUS
    <3>7. QED
      BY <3>1, <3>2, <3>3, <3>4, <3>5, <3>6
  <2>4. CASE PollExited
    BY <2>4 DEF PollExited, Outcome
  <2>5. QED
    BY <1>11, <2>1, <2>2, <2>3, <2>4 DEF Poll
<1>12. CASE RequestStop
  <2> USE <1>12 DEF RequestStop, AskToStop, Supervising, WriteSentinel, Fault,
                     NoFault
  <2>1. DbTypeOK'
    OBVIOUS
  <2>2. CtlTypeOK'
    OBVIOUS
  <2>3. CtlFlagsOK'
    OBVIOUS
  <2>4. WorkTypeOK'
    OBVIOUS
  <2>5. Stage' /\ GateRecorded' /\ BegunIsRecorded' /\ TaskLeft' /\ RowStep
    OBVIOUS
  <2>6. QED
    BY <2>1, <2>2, <2>3, <2>4, <2>5
<1>13. CASE ForceStop
  <2> USE <1>13 DEF ForceStop, Supervising, MayTear, Killed, Gone, Unverified,
               Interrupted, Released, Fault, NoFault, Live
  <2>1. DbTypeOK'
    OBVIOUS
  <2>2. CtlTypeOK' /\ CtlFlagsOK'
    OBVIOUS
  <2>3. WorkTypeOK'
    OBVIOUS
  <2>4. Stage' /\ GateRecorded' /\ BegunIsRecorded' /\ TaskLeft' /\ RowStep
    OBVIOUS
  <2>5. QED
    BY <2>1, <2>2, <2>3, <2>4
<1>14. CASE LogFails
  BY <1>14 DEF LogFails, Fault
<1>15. QED
  BY <1>1, <1>2, <1>3, <1>4, <1>5, <1>6, <1>7, <1>8, <1>9, <1>10, <1>11,
     <1>12, <1>13, <1>14 DEF Gui

LEMMA WorkerJobInv ==
  ASSUME JobInv, NEW w \in Launches, Worker(w)
  PROVE  JobInv' /\ UNCHANGED state
<1> USE DEF Goes, Emit, Gone
<1>1. CASE Boot(w)
  BY <1>1 DEF Boot
<1>2. CASE PassGate(w)
  BY <1>2 DEF PassGate, GateOpen
<1>3. CASE GiveUpGate(w)
  BY <1>3 DEF GiveUpGate
<1>4. CASE LockCatalog(w)
  BY <1>4 DEF LockCatalog
<1>5. CASE StartTask(w)
  BY <1>5 DEF StartTask
<1>6. CASE FinishTask(w)
  BY <1>6 DEF FinishTask
<1>7. CASE Complete(w)
  BY <1>7 DEF Complete, Ends, NoFault
<1>8. CASE ObeyCancel(w)
  BY <1>8 DEF ObeyCancel, Ends, Fault, NoFault
<1>9. CASE Raise(w)
  BY <1>9 DEF Raise, Ends, NoFault
<1>10. CASE EmitTerminal(w)
  BY <1>10 DEF EmitTerminal
<1>11. CASE Leave(w)
  BY <1>11 DEF Leave
<1>12. CASE Die(w)
  BY <1>12 DEF Die, Fault, Killed, MayTear, Live
<1>13. QED
  BY <1>1, <1>2, <1>3, <1>4, <1>5, <1>6, <1>7, <1>8, <1>9, <1>10, <1>11, <1>12
  DEF Worker

LEMMA StepJobInv == JobInv /\ [Next]_vars => JobInv' /\ RowStep
<1> SUFFICES ASSUME JobInv, [Next]_vars PROVE JobInv' /\ RowStep
  OBVIOUS
<1>1. CASE Gui
  BY <1>1, GuiJobInv
<1>2. ASSUME NEW w \in Launches, Worker(w) PROVE JobInv' /\ RowStep
  <2>1. JobInv' /\ UNCHANGED state
    BY <1>2, WorkerJobInv
  <2>2. QED
    BY <2>1
<1>3. CASE UNCHANGED vars
  BY <1>3 DEF vars
<1>4. QED
  BY <1>1, <1>2, <1>3 DEF Next

THEOREM JobInvariant == Spec => []JobInv
<1>1. Init => JobInv
  BY InitJobInv
<1>2. JobInv /\ [Next]_vars => JobInv'
  BY StepJobInv
<1>3. QED
  BY <1>1, <1>2, PTL DEF Spec
-------------------------------------------------------------------------------
(* The event logs.  Lines are only ever added, an import reads on from the *)
(* offset, and what it could not store is behind a latched failure.        *)
Lines(j) == {log[j][i] : i \in DOMAIN log[j]}

TaskOf(e) == e.kind = "task_finished" => e.of \in 1..NTasks

ReadOn ==
  /\ active # NoJob => offset <= Len(log[active])
  /\ active # NoJob /\ ~latch => \A i \in 1..offset : log[active][i] \in imported[active]

LogInv ==
  /\ LogTypeOK
  /\ ReadOn
  /\ \A j \in Jobs : imported[j] \subseteq Lines(j)
  /\ \A j \in Jobs : \A i \in DOMAIN log[j] : TaskOf(log[j][i])

HIDE JobAssumption
     DEF JobAssumption, JobInv, StageTypeOK, DbTypeOK, CtlTypeOK, CtlFlagsOK,
         WorkTypeOK, Stage, GateRecorded, BegunIsRecorded, TaskLeft, RowStep,
         States, Phases, Begun, Terminal, dbVars, dirVars, ctlVars, workVars

LEMMA InitLogInv == Init => LogInv
  BY DEF Init, LogInv, LogTypeOK, ReadOn, Lines

\* An import stores lines of the log; a complete one stores them all.
LEMMA ImportLines ==
  ASSUME LogInv, active \in Jobs, active # NoJob, NEW k \in 0..Pending
  PROVE  /\ imported[active] \subseteq Taking(k)
         /\ Taking(k) \subseteq Lines(active)
         /\ Taking(k) \subseteq Events
         /\ ~latch => Lines(active) \subseteq Taking(Pending)
<1> USE DEF LogInv, LogTypeOK
<1>1. log[active] \in Seq(Events) /\ offset \in Nat /\ offset <= Len(log[active])
  BY DEF ReadOn
<1>2. k <= Len(log[active]) - offset
  BY <1>1 DEF Pending
<1>3. \A i \in offset + 1 .. offset + k : i \in DOMAIN log[active]
  BY <1>1, <1>2
<1>4. Taking(k) \subseteq Lines(active) /\ Taking(k) \subseteq Events
  BY <1>1, <1>3 DEF Taking, Lines
<1>5. ASSUME ~latch PROVE Lines(active) \subseteq Taking(Pending)
  <2>1. \A i \in DOMAIN log[active] :
          i \in 1..offset \/ i \in offset + 1 .. offset + Pending
    BY <1>1 DEF Pending
  <2>2. QED
    BY <1>5, <2>1 DEF Lines, Taking, ReadOn
<1>6. QED
  BY <1>4, <1>5 DEF Taking

\* Writing a line keeps the invariant.
LEMMA EmitLogInv ==
  ASSUME LogInv, JobAssumption, NEW w \in Launches, jobOf[w] \in Jobs, active \in Jobs \cup {NoJob},
         NEW kind \in {"job_started", "task_finished"} \cup TerminalKinds, NEW of \in Nat,
         kind = "task_finished" => of \in 1..NTasks,
         Emit(w, kind, of), UNCHANGED <<imported, active, offset, latch>>,
         todo' \in [Launches -> Seq(TerminalKinds)]
  PROVE  LogInv'
<1> USE DEF LogInv, LogTypeOK
<1> DEFINE event == [seq |-> seq[w] + 1, kind |-> kind, of |-> of]
<1>1. event \in Events /\ TaskOf(event)
  BY DEF Events, TaskOf
<1>2. seq' \in [Launches -> Nat]
  BY DEF Emit
<1>3. \A j \in Jobs : log'[j] = log[j] \/ log'[j] = Append(log[j], event)
  BY DEF Emit
<1>4. log' \in [Jobs -> Seq(Events)]
  <2>1. Append(log[jobOf[w]], event) \in Seq(Events)
    BY <1>1
  <2>2. QED
    BY <2>1 DEF Emit
<1>5. \A j \in Jobs : /\ Len(log[j]) <= Len(log'[j])
                      /\ \A i \in DOMAIN log[j] : i \in DOMAIN log'[j] /\ log'[j][i] = log[j][i]
                      /\ \A i \in DOMAIN log'[j] : i \in DOMAIN log[j] \/ log'[j][i] = event
  <2>1. TAKE j \in Jobs
  <2>2. CASE log'[j] = log[j]
    BY <2>2
  <2>3. CASE log'[j] = Append(log[j], event)
    <3>1. log[j] \in Seq(Events) /\ event \in Events
      BY <1>1
    <3>2. /\ Len(log'[j]) = Len(log[j]) + 1
          /\ \A i \in 1..Len(log[j]) : log'[j][i] = log[j][i]
          /\ log'[j][Len(log[j]) + 1] = event
      BY <2>3, <3>1
    <3>3. DOMAIN log[j] = 1..Len(log[j]) /\ DOMAIN log'[j] = 1..Len(log'[j])
      BY <1>4, <3>1
    <3>4. QED
      BY <3>1, <3>2, <3>3
  <2>4. QED
    BY <1>3, <2>2, <2>3
<1>6. ReadOn'
  <2>1. active \in Jobs => (offset <= Len(log[active]) => offset <= Len(log'[active]))
    BY <1>3, <1>4, <1>5
  <2>2. ASSUME active \in Jobs, active # NoJob, ~latch, NEW i \in 1..offset
        PROVE  log'[active][i] \in imported[active]
    <3>1. i \in DOMAIN log[active] /\ log[active][i] \in imported[active]
      BY <2>2 DEF ReadOn
    <3>2. QED
      BY <2>2, <3>1, <1>5
  <2>3. QED
    BY <2>1, <2>2 DEF ReadOn
<1>7. \A j \in Jobs : imported'[j] \subseteq Lines(j)'
  <2>1. TAKE j \in Jobs
  <2>2. ASSUME NEW e \in Lines(j) PROVE e \in Lines(j)'
    <3>1. PICK i \in DOMAIN log[j] : e = log[j][i]
      BY <2>2 DEF Lines
    <3>2. i \in DOMAIN log'[j] /\ log'[j][i] = e
      BY <3>1, <1>5
    <3>3. QED
      BY <3>2 DEF Lines
  <2>3. QED
    BY <2>2
<1>8. \A j \in Jobs : \A i \in DOMAIN log'[j] : TaskOf(log'[j][i])
  BY <1>1, <1>5 DEF TaskOf
<1>9. QED
  BY <1>2, <1>4, <1>6, <1>7, <1>8

\* A step that leaves the logs and the imported events alone, and does not
\* move the offset unless it lets the job go or takes up one anew.
LEMMA QuietLogInv ==
  ASSUME LogInv, UNCHANGED <<imported, log>>,
         seq' \in [Launches -> Nat], todo' \in [Launches -> Seq(TerminalKinds)],
         \/ UNCHANGED <<active, offset>> /\ (latch => latch')
         \/ active' = NoJob /\ offset' = 0
         \/ active' \in Jobs /\ offset' = 0,
         JobAssumption, active \in Jobs \cup {NoJob}
  PROVE  LogInv'
<1> USE DEF LogInv, LogTypeOK
<1>1. LogTypeOK'
  OBVIOUS
<1>2. ReadOn'
  BY DEF ReadOn, JobAssumption
<1>3. QED
  BY <1>1, <1>2 DEF Lines

LEMMA GoneLogTypes ==
  ASSUME LogInv, NEW w \in Launches, NEW c, Gone(w, c)
  PROVE  todo' \in [Launches -> Seq(TerminalKinds)] /\ seq' \in [Launches -> Nat]
  BY DEF LogInv, LogTypeOK, Gone

\* A step that imports the first k pending lines.
LEMMA ImportLogInv ==
  ASSUME LogInv, JobAssumption, active \in Jobs, active # NoJob, ~latch, NEW k \in 0..Pending,
         imported' = [imported EXCEPT ![active] = Taking(k)],
         UNCHANGED <<log, seq, todo>>,
         \/ active' = NoJob /\ offset' = 0
         \/ active' = active /\ offset' = Len(log[active]) /\ (k = Pending \/ latch')
  PROVE  LogInv'
<1> USE DEF LogInv, LogTypeOK
<1>1. /\ Taking(k) \subseteq Lines(active)
      /\ Taking(k) \subseteq Events
      /\ Lines(active) \subseteq Taking(Pending)
  BY ImportLines
<1>2. LogTypeOK'
  BY <1>1
<1>3. \A i \in 1..Len(log[active]) : log[active][i] \in Lines(active)
  BY DEF Lines
<1>4. ReadOn'
  BY <1>1, <1>2, <1>3 DEF ReadOn, JobAssumption
<1>5. \A j \in Jobs : imported'[j] \subseteq Lines(j)'
  BY <1>1 DEF Lines
<1>6. QED
  BY <1>2, <1>4, <1>5

LEMMA GuiLogInv == JobAssumption /\ JobInv /\ LogInv /\ Gui => LogInv'
<1> SUFFICES ASSUME JobAssumption, JobInv, LogInv, Gui PROVE LogInv'
  OBVIOUS
<1> USE DEF dbVars, dirVars, ctlVars, workVars
<1>0. /\ active \in Jobs \cup {NoJob}
      /\ seq \in [Launches -> Nat] /\ todo \in [Launches -> Seq(TerminalKinds)]
      /\ active # NoJob => proc \in Launches /\ active \in Jobs
  BY DEF JobInv, StageTypeOK, WorkTypeOK, LogInv, LogTypeOK
<1>p. active # NoJob => Pending \in 0..Pending
  BY <1>0 DEF Pending, LogInv, LogTypeOK, ReadOn
<1>a1. CASE Open
  BY <1>a1, <1>0, QuietLogInv DEF Open
<1>a2. CASE OpenUnreconciled
  BY <1>a2, <1>0, QuietLogInv DEF OpenUnreconciled
<1>a3. CASE Exit
  BY <1>a3, <1>0, QuietLogInv DEF Exit
<1>a4. CASE RecordIdentity
  BY <1>a4, <1>0, QuietLogInv DEF RecordIdentity
<1>a5. CASE OpenGate
  BY <1>a5, <1>0, QuietLogInv DEF OpenGate
<1>a6. CASE LogFails
  BY <1>a6, <1>0, QuietLogInv DEF LogFails
<1>q. ASSUME NEW j \in Jobs, Queue(j) \/ CancelOther(j) \/ StartCancelled(j)
      PROVE LogInv'
  BY <1>q, <1>0, QuietLogInv DEF Queue, CancelOther, StartCancelled
<1>s. ASSUME NEW j \in Jobs, NEW w \in Launches, StartJob(j, w) PROVE LogInv'
  BY <1>s, <1>0, QuietLogInv DEF StartJob
<1>b. CASE StartFails
  BY <1>b, <1>0, QuietLogInv, GoneLogTypes
  DEF StartFails, Killed, Released, JobInv, Stage
<1>c. CASE PollLatched
  BY <1>c, <1>0, QuietLogInv DEF PollLatched, Unverified, Released
<1>d. ASSUME NEW k \in 0..Pending, PollFails(k) PROVE LogInv'
  BY <1>d, <1>0, ImportLogInv DEF PollFails, Polls, Supervising, Released, Latched
<1>e. CASE PollLive
  BY <1>e, <1>0, <1>p, ImportLogInv
  DEF PollLive, AskToStop, Imported, Polls, Supervising
<1>f. CASE PollExited
  BY <1>f, <1>0, <1>p, ImportLogInv
  DEF PollExited, Imported, Polls, Supervising, Unverified, Released
<1>g. CASE RequestStop
  BY <1>g, <1>0, QuietLogInv DEF RequestStop, AskToStop
<1>h. CASE ForceStop
  BY <1>h, <1>0, QuietLogInv, GoneLogTypes
  DEF ForceStop, Killed, Unverified, Released, Supervising
<1>i. QED
  BY <1>a1, <1>a2, <1>a3, <1>a4, <1>a5, <1>a6, <1>q, <1>s, <1>b, <1>c, <1>d, <1>e, <1>f, <1>g, <1>h DEF Gui, Poll

LEMMA WorkerLogInv ==
  ASSUME JobAssumption, JobInv, LogInv, NEW w \in Launches, Worker(w)
  PROVE  LogInv'
<1> USE DEF dbVars, dirVars, ctlVars, workVars
<1>0. /\ active \in Jobs \cup {NoJob}
      /\ seq \in [Launches -> Nat] /\ todo \in [Launches -> Seq(TerminalKinds)]
      /\ phase[w] # "none" => jobOf[w] \in Jobs
      /\ done[w] \in Nat /\ (phase[w] = "task" => done[w] + 1 \in 1..NTasks)
  BY DEF JobInv, StageTypeOK, WorkTypeOK, TaskLeft, LogInv, LogTypeOK, JobAssumption
<1>1. CASE Boot(w)
  <2>1. seq' \in [Launches -> Nat]
    <3>1. jobOf[w] \in Jobs
      BY <1>0, <1>1 DEF Boot, Goes
    <3>2. UsedSequences(jobOf[w]) \subseteq Nat
      <4>1. \A i \in DOMAIN log[jobOf[w]] : log[jobOf[w]][i] \in Events
        BY <3>1 DEF LogInv, LogTypeOK
      <4>2. \A e \in Events : e.seq \in Nat
        BY DEF Events
      <4>3. QED
        BY <4>1, <4>2 DEF UsedSequences
    <3>3. QED
      BY <1>0, <1>1, <3>2 DEF Boot
  <2>2. QED
    BY <1>0, <1>1, <2>1, QuietLogInv DEF Boot
<1>2. CASE PassGate(w)
  BY <1>0, <1>2, EmitLogInv DEF PassGate, Goes, JobAssumption
<1>3. CASE GiveUpGate(w) \/ Leave(w) \/ Die(w)
  BY <1>0, <1>3, QuietLogInv, GoneLogTypes DEF GiveUpGate, Leave, Die, Killed
<1>4. CASE LockCatalog(w) \/ StartTask(w)
  BY <1>0, <1>4, QuietLogInv DEF LockCatalog, StartTask
<1>5. CASE FinishTask(w)
  BY <1>0, <1>5, EmitLogInv DEF FinishTask, Goes
<1>6. CASE Complete(w) \/ ObeyCancel(w) \/ Raise(w)
  <2>1. todo' \in [Launches -> Seq(TerminalKinds)]
    <3>1. /\ <<"job_finished", "exit_ok">> \in Seq(TerminalKinds)
          /\ <<"task_failed", "exit_bad">> \in Seq(TerminalKinds)
      BY DEF TerminalKinds
    <3>2. QED
      BY <1>0, <1>6, <3>1 DEF Complete, ObeyCancel, Raise, Ends
  <2>2. QED
    BY <1>0, <1>6, <2>1, QuietLogInv DEF Complete, ObeyCancel, Raise, Ends
<1>7. CASE EmitTerminal(w)
  <2>1. /\ todo' \in [Launches -> Seq(TerminalKinds)]
        /\ Head(todo[w]) \in TerminalKinds
    BY <1>0, <1>7 DEF EmitTerminal
  <2>2. Head(todo[w]) # "task_finished"
    BY <2>1 DEF TerminalKinds
  <2>3. QED
    BY <1>0, <1>7, <2>1, <2>2, EmitLogInv DEF EmitTerminal
<1>8. QED
  BY <1>1, <1>2, <1>3, <1>4, <1>5, <1>6, <1>7 DEF Worker

LEMMA StepLogInv == JobAssumption /\ JobInv /\ LogInv /\ [Next]_vars => LogInv'
<1> SUFFICES ASSUME JobAssumption, JobInv, LogInv, [Next]_vars PROVE LogInv'
  OBVIOUS
<1>1. CASE Gui
  BY <1>1, GuiLogInv
<1>2. ASSUME NEW w \in Launches, Worker(w) PROVE LogInv'
  BY <1>2, WorkerLogInv
<1>3. CASE UNCHANGED vars
  BY <1>3 DEF vars, dbVars, dirVars, ctlVars, workVars, LogInv, LogTypeOK,
              ReadOn, Lines, TaskOf
<1>4. QED
  BY <1>1, <1>2, <1>3 DEF Next

THEOREM LogInvariant == Spec => [](JobInv /\ LogInv)
<1>1. Init => LogInv
  BY InitLogInv
<1>2. JobInv /\ LogInv /\ [Next]_vars => LogInv'
  BY StepLogInv, JobAssumption
<1>3. QED
  BY <1>1, <1>2, JobInvariant, PTL DEF Spec

-------------------------------------------------------------------------------
(* What the runs check on small instances.                                 *)

\* Every variable keeps its type: the rows, files, counters and event logs
\* of the controller and of its workers.
THEOREM JobTypeCorrect == Spec => []TypeOK
<1>1. JobInv /\ LogInv => TypeOK
  BY DEF JobInv, StageTypeOK, LogInv, TypeOK
<1>2. QED
  BY <1>1, LogInvariant, PTL

\* The start barrier of start_job and run_job: a worker past its gate belongs
\* to a job the DB has recorded as begun.
THEOREM JobBegunIsRecorded == Spec => []BegunIsRecorded
<1>1. JobInv => BegunIsRecorded
  BY DEF JobInv
<1>2. QED
  BY <1>1, JobInvariant, PTL

\* No later poll, reconcile or failing start rewrites the state of a job that
\* has ended.
THEOREM JobTerminalIsFinal == Spec => TerminalIsFinal
<1> DEFINE Final == \A j \in Jobs : state[j] \in Terminal => state'[j] = state[j]
<1>1. RowStep => Final
  BY DEF RowStep, Terminal
<1>2. JobInv /\ [Next]_vars => [Final]_state
  BY <1>1, StepJobInv
<1>3. Spec => [][Final]_state
  BY <1>2, JobInvariant, PTL DEF Spec
<1>4. QED
  BY <1>3 DEF TerminalIsFinal

\* Only a poll that has seen the worker's exit can call a job succeeded.
LEMMA SuccessIsPolled ==
  ASSUME JobInv, [Next]_vars, ~PollExited, NEW j \in Jobs
  PROVE  state'[j] = state[j] \/ state'[j] # "succeeded"
<1> USE DEF JobInv, StageTypeOK, DbTypeOK, dbVars
<1>1. CASE Gui
  <2>1. CASE Open \/ OpenUnreconciled \/ Exit \/ OpenGate \/ LogFails
    BY <2>1 DEF Open, OpenUnreconciled, Exit, OpenGate, LogFails
  <2>2. ASSUME NEW i \in Jobs, Queue(i) \/ CancelOther(i) \/ StartCancelled(i)
        PROVE  state'[j] = state[j] \/ state'[j] # "succeeded"
    BY <2>2 DEF Queue, CancelOther, StartCancelled
  <2>3. ASSUME NEW i \in Jobs, NEW w \in Launches, StartJob(i, w)
        PROVE  state'[j] = state[j]
    BY <2>3 DEF StartJob
  <2>4. CASE RecordIdentity \/ StartFails
    BY <2>4 DEF RecordIdentity, Record, StartFails, Interrupted
  <2>5. CASE PollLatched \/ PollLive
    BY <2>5 DEF PollLatched, PollLive, Unverified, Interrupted
  <2>6. ASSUME NEW k \in 0..Pending, PollFails(k)
        PROVE  state'[j] = state[j] \/ state'[j] # "succeeded"
    BY <2>6 DEF PollFails, Interrupted
  <2>7. CASE RequestStop \/ ForceStop
    BY <2>7 DEF RequestStop, ForceStop, Unverified, Interrupted
  <2>8. QED
    BY <1>1, <2>1, <2>2, <2>3, <2>4, <2>5, <2>6, <2>7 DEF Gui, Poll
<1>2. ASSUME NEW w \in Launches, Worker(w) PROVE state'[j] = state[j]
  BY <1>2, WorkerJobInv
<1>3. CASE UNCHANGED vars
  BY <1>3 DEF vars
<1>4. QED
  BY <1>1, <1>2, <1>3 DEF Next

\* The evidence behind one step of a job to succeeded.
Evidence(j) ==
  /\ \A t \in 1..NTasks : \E i \in DOMAIN log[j] :
       log[j][i].kind = "task_finished" /\ log[j][i].of = t
  /\ \A i \in DOMAIN log[j] : log[j][i] \in imported'[j]
  /\ ~torn[j]
  /\ \E w \in Launches : jobOf[w] = j /\ phase[w] = "dead" /\ code[w] = 0

LEMMA PolledOnEvidence ==
  ASSUME JobAssumption, JobInv, LogInv, PollExited,
         NEW j \in Jobs, state[j] # "succeeded", state'[j] = "succeeded"
  PROVE  Evidence(j)
<1>1. /\ active \in Jobs /\ active # NoJob /\ proc \in Launches
      /\ jobOf[proc] = active /\ phase[proc] # "none" /\ NTasks \in Nat
  BY DEF PollExited, Polls, Supervising, JobInv, StageTypeOK, WorkTypeOK, Stage,
         JobAssumption
<1>2. j = active /\ Verified /\ Outcome = "succeeded"
  BY <1>1 DEF PollExited, Unverified, Interrupted, JobInv, StageTypeOK, DbTypeOK
<1>3. AuthoritativeSuccess
  BY <1>2 DEF Outcome
<1>4. phase[proc] = "dead"
  BY <1>1 DEF PollExited, Live
<1>5. Pending \in 0..Pending
  BY <1>1 DEF Pending, LogInv, LogTypeOK, ReadOn
<1>6. imported'[active] = Taking(Pending)
  BY <1>1 DEF PollExited, Imported, LogInv, LogTypeOK
<1>7. Lines(active) = imported'[active]
  BY <1>1, <1>5, <1>6, ImportLines DEF PollExited
<1>8. FinishedTasks \subseteq 1..NTasks
  <2>1. \A e \in Lines(active) : TaskOf(e)
    BY <1>1 DEF LogInv, Lines
  <2>2. QED
    BY <1>7, <2>1 DEF FinishedTasks, TaskOf
<1>9. FinishedTasks = 1..NTasks
  <2>1. IsFiniteSet(1..NTasks) /\ Cardinality(1..NTasks) = NTasks
    BY <1>1, FS_Interval
  <2>2. Cardinality(FinishedTasks) = NTasks
    BY <1>3 DEF AuthoritativeSuccess
  <2>3. QED
    BY <1>8, <2>1, <2>2, FS_Subset
<1>10. ASSUME NEW t \in 1..NTasks
       PROVE  \E i \in DOMAIN log[active] :
                log[active][i].kind = "task_finished" /\ log[active][i].of = t
  BY <1>7, <1>9 DEF FinishedTasks, Lines
<1>11. \A i \in DOMAIN log[active] : log[active][i] \in imported'[active]
  BY <1>7 DEF Lines
<1>12. ~torn[active] /\ code[proc] = 0
  BY <1>2, <1>3 DEF Verified, AuthoritativeSuccess
<1>13. QED
  BY <1>1, <1>2, <1>4, <1>10, <1>11, <1>12 DEF Evidence

\* A job is called succeeded only when every task of it has a finished event,
\* its whole log is in the DB and its worker has exited cleanly.
THEOREM JobSucceededOnFullEvidence == Spec => SucceededOnFullEvidence
<1> DEFINE Full == \A j \in Jobs :
             state[j] # "succeeded" /\ state'[j] = "succeeded" => Evidence(j)
<1>1. JobInv /\ LogInv /\ [Next]_vars => Full
  BY SuccessIsPolled, PolledOnEvidence, JobAssumption
<1>2. Spec => [][Full]_vars
  BY <1>1, LogInvariant, PTL DEF Spec
<1>3. QED
  BY <1>2 DEF SucceededOnFullEvidence, Evidence

-------------------------------------------------------------------------------
(* Cancelled and failed jobs.  A job that waits has done nothing, and what a *)
(* verified exit calls cancelled or failed has no finished task in the DB,   *)
(* which by then has the whole log.                                          *)
NoTaskIn(j) == \A i \in DOMAIN log[j] : log[j][i].kind # "task_finished"

WaitingIsClean == \A j \in Jobs : state[j] \in {"absent", "queued"} => NoTaskIn(j)

\* A line that is written keeps a job clean if it tells of no task.
LEMMA EmitClean ==
  ASSUME LogInv, NEW w \in Launches, jobOf[w] \in Jobs, NEW kind, NEW of,
         Emit(w, kind, of), UNCHANGED state, WaitingIsClean,
         kind # "task_finished" \/ state[jobOf[w]] \notin {"absent", "queued"}
  PROVE  WaitingIsClean'
<1> DEFINE event == [seq |-> seq[w] + 1, kind |-> kind, of |-> of]
<1> SUFFICES ASSUME NEW j \in Jobs, state[j] \in {"absent", "queued"} PROVE NoTaskIn(j)'
  BY DEF WaitingIsClean
<1>1. NoTaskIn(j)
  BY DEF WaitingIsClean
<1>2. CASE log'[j] = log[j]
  BY <1>1, <1>2 DEF NoTaskIn
<1>3. CASE log'[j] # log[j]
  <2>1. j = jobOf[w] /\ log'[j] = Append(log[j], event)
    BY <1>3 DEF Emit, LogInv, LogTypeOK
  <2>2. log[j] \in Seq(Events) /\ event.kind # "task_finished"
    BY <2>1 DEF LogInv, LogTypeOK
  <2>3. /\ DOMAIN log[j] = 1..Len(log[j]) /\ Len(log[j]) \in Nat
        /\ DOMAIN log'[j] = 1..Len(log[j]) + 1
        /\ \A i \in 1..Len(log[j]) : log'[j][i] = log[j][i]
        /\ log'[j][Len(log[j]) + 1] = event
    BY <2>1, <2>2
  <2> QED
    BY <1>1, <2>2, <2>3 DEF NoTaskIn
<1> QED
  BY <1>2, <1>3

LEMMA StepWaitingIsClean ==
  ASSUME JobAssumption, JobInv, LogInv, WaitingIsClean, [Next]_vars
  PROVE  WaitingIsClean'
<1> USE DEF dbVars, dirVars, ctlVars, workVars
<1>1. CASE Gui
  <2>1. UNCHANGED log
    BY <1>1 DEF Gui, Poll, Open, OpenUnreconciled, Exit, Queue, CancelOther, StartCancelled, StartJob,
       RecordIdentity, OpenGate, StartFails, PollLatched, PollFails, PollLive, PollExited,
       RequestStop, ForceStop, LogFails
  <2>2. \A j \in Jobs : state'[j] \in {"absent", "queued"} => state[j] \in {"absent", "queued"}
    BY StepJobInv DEF RowStep, Terminal
  <2> QED
    BY <2>1, <2>2 DEF WaitingIsClean, NoTaskIn
<1>2. ASSUME NEW w \in Launches, Worker(w) PROVE WaitingIsClean'
  <2>0. /\ UNCHANGED state
        /\ phase[w] # "none" => jobOf[w] \in Jobs
        /\ phase[w] = "task" => state[jobOf[w]] \notin {"absent", "queued"} /\ done[w] + 1 \in Nat
    BY <1>2, WorkerJobInv DEF JobInv, StageTypeOK, WorkTypeOK, BegunIsRecorded, Begun
  <2>1. CASE PassGate(w)
    BY <2>0, <2>1, EmitClean DEF PassGate, Goes, JobInv, StageTypeOK, WorkTypeOK, JobAssumption
  <2>2. CASE FinishTask(w)
    BY <2>0, <2>2, EmitClean DEF FinishTask, Goes
  <2>3. CASE EmitTerminal(w)
    <3>1. Head(todo[w]) \in TerminalKinds
      BY <2>3 DEF EmitTerminal, LogInv, LogTypeOK
    <3> QED
      BY <2>0, <2>3, <3>1, EmitClean DEF EmitTerminal, TerminalKinds
  <2>4. CASE UNCHANGED log
    BY <2>0, <2>4 DEF WaitingIsClean, NoTaskIn
  <2> QED
    BY <1>2, <2>1, <2>2, <2>3, <2>4 DEF Worker, Boot, GiveUpGate, LockCatalog, StartTask, Complete,
       ObeyCancel, Raise, Leave, Die, Ends
<1>3. CASE UNCHANGED vars
  BY <1>3 DEF vars, WaitingIsClean, NoTaskIn
<1> QED
  BY <1>1, <1>2, <1>3 DEF Next

\* Only a start finds a waiting job cancelled, and only a poll that has seen the
\* exit calls one cancelled or failed.
LEMMA EndIsSeen ==
  ASSUME JobInv, [Next]_vars, NEW j \in Jobs, state'[j] # state[j], state'[j] \in {"cancelled", "failed"}
  PROVE  state[j] = "queued" \/ (PollExited /\ j = active /\ Verified /\ Outcome = state'[j])
<1> USE DEF JobInv, StageTypeOK, DbTypeOK, dbVars
<1>1. CASE Gui
  <2>1. CASE Open \/ OpenUnreconciled \/ Exit \/ OpenGate \/ LogFails
    BY <2>1 DEF Open, OpenUnreconciled, Exit, OpenGate, LogFails
  <2>2. ASSUME NEW i \in Jobs, Queue(i) \/ CancelOther(i) \/ StartCancelled(i)
        PROVE  state[j] = "queued"
    BY <2>2 DEF Queue, CancelOther, StartCancelled, MayStart
  <2>3. ASSUME NEW i \in Jobs, NEW w \in Launches, StartJob(i, w) PROVE FALSE
    BY <2>3 DEF StartJob
  <2>4. CASE RecordIdentity \/ StartFails
    BY <2>4 DEF RecordIdentity, Record, StartFails, Interrupted
  <2>5. CASE PollLatched \/ PollLive
    BY <2>5 DEF PollLatched, PollLive, Unverified, Interrupted
  <2>6. ASSUME NEW k \in 0..Pending, PollFails(k) PROVE FALSE
    BY <2>6 DEF PollFails, Interrupted
  <2>7. CASE RequestStop \/ ForceStop
    BY <2>7 DEF RequestStop, ForceStop, Unverified, Interrupted
  <2>8. CASE PollExited
    BY <2>8 DEF PollExited, Unverified, Interrupted
  <2> QED
    BY <1>1, <2>1, <2>2, <2>3, <2>4, <2>5, <2>6, <2>7, <2>8 DEF Gui, Poll
<1>2. ASSUME NEW w \in Launches, Worker(w) PROVE FALSE
  BY <1>2, WorkerJobInv
<1>3. CASE UNCHANGED vars
  BY <1>3 DEF vars
<1> QED
  BY <1>1, <1>2, <1>3 DEF Next

LEMMA EndHidesNothing ==
  ASSUME JobAssumption, JobInv, LogInv, WaitingIsClean, [Next]_vars,
         NEW j \in Jobs, state'[j] # state[j], state'[j] \in {"cancelled", "failed"}
  PROVE  NoTaskIn(j)
<1>1. CASE state[j] = "queued"
  BY <1>1 DEF WaitingIsClean
<1>2. CASE PollExited /\ j = active /\ Verified /\ Outcome = state'[j]
  <2>1. active \in Jobs /\ active # NoJob /\ ~latch
    BY <1>2 DEF PollExited, Polls, Supervising, JobInv, StageTypeOK, WorkTypeOK
  <2>2. Pending \in 0..Pending
    BY <2>1 DEF Pending, LogInv, LogTypeOK, ReadOn
  <2>3. imported'[active] = Taking(Pending)
    BY <1>2, <2>1 DEF PollExited, Imported, LogInv, LogTypeOK
  <2>4. Lines(active) \subseteq imported'[active]
    BY <2>1, <2>2, <2>3, ImportLines
  <2>5. ~HasSuccess
    BY <1>2 DEF Outcome
  <2> QED
    BY <1>2, <2>4, <2>5 DEF HasSuccess, FinishedTasks, Lines, NoTaskIn
<1> QED
  BY <1>1, <1>2, EndIsSeen

\* A job with a finished task is never called cancelled or failed, however the
\* stop, the exit and the last events race.
THEOREM JobNoHiddenWork == Spec => NoHiddenWork
<1> DEFINE Told == \A j \in Jobs :
             state[j] # state'[j] /\ state'[j] \in {"cancelled", "failed"} =>
               \A i \in DOMAIN log[j] : log[j][i].kind # "task_finished"
<1>1. Init => WaitingIsClean
  BY DEF Init, WaitingIsClean, NoTaskIn
<1>2. JobInv /\ LogInv /\ WaitingIsClean /\ [Next]_vars => WaitingIsClean'
  BY StepWaitingIsClean, JobAssumption
<1>3. JobInv /\ LogInv /\ WaitingIsClean /\ [Next]_vars => Told
  BY EndHidesNothing, JobAssumption DEF NoTaskIn
<1>4. Spec => [][Told]_vars
  BY <1>1, <1>2, <1>3, LogInvariant, PTL DEF Spec
<1> QED
  BY <1>4 DEF NoHiddenWork

-------------------------------------------------------------------------------
(* Workers the DB knows.  A launch is known once its pid is recorded; from   *)
(* then until it is gone its job runs, and a controller either supervises it *)
(* or starts nothing.  A reconcile that fails leaves a controller that knows *)
(* of no orphan: with it the property does not hold.                         *)
Known(v) == Live(v) /\ pid[jobOf[v]] = v

RecordedLaunches == \A j \in Jobs : pid[j] # 0 => phase[pid[j]] # "none"
KnownRuns == \A v \in Launches : Known(v) => state[jobOf[v]] = "running"
KnownHeld == gui # "down" /\ ~orphaned => \A v \in Launches : Known(v) => active # NoJob /\ v = proc
HeldAlone == active # NoJob => ~orphaned

KnownInv == RecordedLaunches /\ KnownRuns /\ KnownHeld /\ HeldAlone

LEMMA InitKnownInv == Init => KnownInv
  BY DEF Init, KnownInv, RecordedLaunches, KnownRuns, KnownHeld, HeldAlone, Known, Live

\* What a step may do to a launch: nothing, or kill it.
Fewer == \A v \in Launches : jobOf'[v] = jobOf[v] /\ (Live(v)' => Live(v)) /\ (phase[v] # "none" => phase'[v] # "none")

\* A step that records no pid, launches nothing and leaves the controller's hands
\* as they are, or empties them of what is gone.
LEMMA FewerKeepsKnown ==
  ASSUME JobInv, KnownInv, Fewer, UNCHANGED <<pid, orphaned>>,
         gui' = "down" <=> gui = "down",
         \A j \in Jobs : state'[j] = state[j] \/ j = active \/ state[j] # "running",
         \/ UNCHANGED <<active, proc>> /\ (active # NoJob => state'[active] = state[active])
         \/ active' = NoJob /\ active # NoJob /\ phase'[proc] = "dead"
  PROVE  KnownInv'
<1> USE DEF JobInv, StageTypeOK, DbTypeOK, WorkTypeOK
<1>1. \A v \in Launches : Known(v)' => Known(v) /\ jobOf'[v] = jobOf[v] /\ jobOf[v] \in Jobs
  BY DEF Known, Fewer, Live
<1>2. RecordedLaunches'
  BY DEF KnownInv, RecordedLaunches, Fewer
<1>3. HeldAlone'
  BY DEF KnownInv, HeldAlone
<1>4. KnownHeld'
  <2> SUFFICES ASSUME gui' # "down", ~orphaned', NEW v \in Launches, Known(v)'
               PROVE  active' # NoJob /\ v = proc'
    BY DEF KnownHeld
  <2>1. active # NoJob /\ v = proc
    BY <1>1 DEF KnownInv, KnownHeld
  <2>2. phase'[v] # "dead"
    BY DEF Known, Live
  <2> QED
    BY <2>1, <2>2
<1>5. KnownRuns'
  <2> SUFFICES ASSUME NEW v \in Launches, Known(v)' PROVE state'[jobOf[v]] = "running"
    BY <1>1 DEF KnownRuns
  <2>1. Known(v) /\ jobOf[v] \in Jobs /\ state[jobOf[v]] = "running"
    BY <1>1 DEF KnownInv, KnownRuns
  <2>2. CASE jobOf[v] # active
    BY <2>1, <2>2
  <2>3. CASE jobOf[v] = active
    <3>1. active # NoJob /\ ~orphaned /\ gui # "down"
      BY <2>1, <2>3, JobAssumption DEF JobAssumption, KnownInv, HeldAlone, Stage
    <3>2. v = proc /\ phase'[proc] # "dead"
      BY <2>1, <3>1 DEF KnownInv, KnownHeld, Known, Live
    <3> QED
      BY <2>1, <2>3, <3>1, <3>2
  <2> QED
    BY <2>2, <2>3
<1> QED
  BY <1>2, <1>3, <1>4, <1>5 DEF KnownInv

LEMMA KilledIsFewer ==
  ASSUME JobInv, NEW w \in Launches, NEW c, Gone(w, c)
  PROVE  Fewer /\ phase'[w] = "dead"
BY DEF Gone, Fewer, Live, JobInv, StageTypeOK, WorkTypeOK

\* The three steps that are about known workers: a reconcile, a launch, a pid.
LEMMA OpenKnown == ASSUME JobInv, KnownInv, Open PROVE KnownInv'
<1> USE DEF JobInv, StageTypeOK, DbTypeOK, WorkTypeOK, dirVars, workVars
<1>1. \A v \in Launches : Known(v)' <=> Known(v)
  BY DEF Open, Known, Live
<1>2. \A v \in Launches : Known(v) => jobOf[v] \in Jobs /\ SeenAlive(jobOf[v])
  BY JobAssumption DEF JobAssumption, Known, SeenAlive, Alive, Live
<1>3. KnownRuns'
  BY <1>1, <1>2 DEF KnownInv, KnownRuns, Open, Interrupts
<1>4. KnownHeld'
  BY <1>1, <1>2 DEF KnownInv, KnownRuns, KnownHeld, Open
<1>5. RecordedLaunches' /\ HeldAlone'
  BY DEF Open, KnownInv, RecordedLaunches, HeldAlone, Stage
<1> QED
  BY <1>3, <1>4, <1>5 DEF KnownInv

LEMMA StartKnown ==
  ASSUME JobInv, KnownInv, NEW j \in Jobs, NEW w \in Launches, StartJob(j, w)
  PROVE  KnownInv' /\ \A v \in Launches : ~Known(v)
<1> USE DEF JobInv, StageTypeOK, DbTypeOK, WorkTypeOK, dbVars
<1>1. \A v \in Launches : ~Known(v)
  BY DEF StartJob, MayStart, KnownInv, KnownHeld
<1>2. phase[w] = "none" /\ \A i \in Jobs : pid[i] # w
  BY JobAssumption DEF JobAssumption, StartJob, NextLaunch, KnownInv, RecordedLaunches
<1>3. \A v \in Launches : ~Known(v)'
  BY <1>1, <1>2 DEF StartJob, Known, Live
<1>4. RecordedLaunches'
  BY <1>2 DEF StartJob, KnownInv, RecordedLaunches
<1> QED
  BY <1>1, <1>3, <1>4 DEF StartJob, MayStart, KnownInv, KnownRuns, KnownHeld, HeldAlone

LEMMA RecordKnown == ASSUME JobInv, KnownInv, RecordIdentity PROVE KnownInv'
<1> USE DEF JobInv, StageTypeOK, DbTypeOK, WorkTypeOK, dirVars, workVars
<1>1. /\ active \in Jobs /\ active # NoJob /\ proc \in Launches /\ jobOf[proc] = active
      /\ phase[proc] # "none" /\ state[active] = "queued"
  BY DEF RecordIdentity, Stage
<1>2. state' = [state EXCEPT ![active] = "running"] /\ pid' = [pid EXCEPT ![active] = proc]
  BY <1>1 DEF RecordIdentity, Record
<1>3. \A v \in Launches : Known(v)' => v = proc \/ (Known(v) /\ jobOf[v] # active)
  BY <1>1, <1>2 DEF RecordIdentity, Known, Live
<1>4. KnownRuns'
  BY <1>1, <1>2, <1>3 DEF RecordIdentity, KnownInv, KnownRuns, Known, Live
<1>5. KnownHeld' /\ HeldAlone'
  BY <1>1, <1>3 DEF RecordIdentity, KnownInv, KnownHeld, HeldAlone
<1>6. RecordedLaunches'
  BY <1>1, <1>2 DEF RecordIdentity, KnownInv, RecordedLaunches
<1> QED
  BY <1>4, <1>5, <1>6 DEF KnownInv

\* Every other step of the GUI leaves them, or lets go of what is gone.
LEMMA GuiKnown == ASSUME JobInv, KnownInv, Gui, ~ReconcileMayFail PROVE KnownInv'
<1> USE DEF dbVars, dirVars, ctlVars, workVars
<1>0. /\ active # NoJob => active \in Jobs /\ proc \in Launches /\ phase[proc] # "none"
      /\ state \in [Jobs -> States]
      /\ UNCHANGED <<jobOf, phase>> => Fewer
  BY DEF JobInv, StageTypeOK, DbTypeOK, WorkTypeOK, Stage, Fewer, Live
<1>1. CASE Open
  BY <1>1, OpenKnown
<1>2. CASE Exit
  BY <1>2 DEF Exit, KnownInv, RecordedLaunches, KnownRuns, KnownHeld, HeldAlone, Known, Live
<1>3. ASSUME NEW j \in Jobs, Queue(j) \/ CancelOther(j) \/ StartCancelled(j) PROVE KnownInv'
  <2>1. /\ UNCHANGED <<pid, orphaned, gui, active, proc, jobOf, phase>>
        /\ \A i \in Jobs : state'[i] = state[i] \/ state[i] \in {"absent", "queued"}
        /\ active # NoJob => state'[active] = state[active]
    BY <1>0, <1>3 DEF Queue, CancelOther, StartCancelled, MayStart, JobInv, Stage
  <2> QED
    BY <1>0, <2>1, FewerKeepsKnown
<1>4. ASSUME NEW j \in Jobs, NEW w \in Launches, StartJob(j, w) PROVE KnownInv'
  BY <1>4, StartKnown
<1>5. CASE RecordIdentity
  BY <1>5, RecordKnown
<1>6. CASE OpenGate \/ LogFails \/ RequestStop \/ PollLive
  BY <1>0, <1>6, FewerKeepsKnown DEF OpenGate, LogFails, RequestStop, AskToStop, PollLive, Polls, Supervising
<1>7. CASE StartFails
  <2>1. active # NoJob
    BY <1>7 DEF StartFails, JobInv, Stage
  <2>2. Fewer /\ phase'[proc] = "dead"
    BY <1>0, <1>7, <2>1, KilledIsFewer DEF StartFails, Killed
  <2> QED
    BY <1>0, <1>7, <2>1, <2>2, FewerKeepsKnown DEF StartFails, Released, Interrupted
<1>8. CASE ForceStop
  <2>1. Fewer /\ phase'[proc] = "dead"
    BY <1>0, <1>8, KilledIsFewer DEF ForceStop, Killed, Supervising
  <2> QED
    BY <1>0, <1>8, <2>1, FewerKeepsKnown DEF ForceStop, Supervising, Unverified, Released, Interrupted
<1>9. CASE PollLatched \/ PollExited \/ \E k \in 0..Pending : PollFails(k)
  <2>1. /\ UNCHANGED <<pid, orphaned, gui, jobOf, phase>> /\ active # NoJob
        /\ \A j \in Jobs : state'[j] = state[j] \/ j = active
        /\ \/ UNCHANGED <<state, active, proc>>
           \/ active' = NoJob /\ phase'[proc] = "dead"
    BY <1>0, <1>9 DEF PollLatched, PollExited, PollFails, Polls, Supervising, Unverified, Released, Interrupted, Live
  <2> QED
    BY <1>0, <2>1, FewerKeepsKnown
<1> QED
  BY <1>1, <1>2, <1>3, <1>4, <1>5, <1>6, <1>7, <1>8, <1>9 DEF Gui, Poll, OpenUnreconciled

LEMMA WorkerKnown == ASSUME JobInv, KnownInv, NEW w \in Launches, Worker(w) PROVE KnownInv'
<1>1. Fewer
  BY DEF Fewer, Live, Worker, Boot, PassGate, GiveUpGate, LockCatalog, StartTask, FinishTask, Complete, ObeyCancel,
     Raise, EmitTerminal, Leave, Die, Goes, Emit, Ends, Gone, Killed, JobInv, StageTypeOK, WorkTypeOK
<1>2. UNCHANGED <<pid, orphaned, gui, active, proc, state>>
  BY DEF Worker, Boot, PassGate, GiveUpGate, LockCatalog, StartTask, FinishTask, Complete, ObeyCancel, Raise,
     EmitTerminal, Leave, Die, Ends, dbVars, ctlVars
<1> QED
  BY <1>1, <1>2, FewerKeepsKnown

\* Where reconcile does not fail, no worker is launched while one that the DB knows
\* is alive, whatever became of its controller and of its job.
THEOREM JobKnownWorkerBlocksLaunch == ASSUME ~ReconcileMayFail PROVE Spec => KnownWorkerBlocksLaunch
<1> DEFINE Blocks == \A w \in Launches : phase[w] = "none" /\ phase'[w] = "boot" =>
             \A v \in Launches : Live(v) => pid[jobOf[v]] # v
<1>1. Init => KnownInv
  BY InitKnownInv
<1>2. ASSUME JobInv, KnownInv, [Next]_vars PROVE KnownInv'
  <2>1. CASE UNCHANGED vars
    BY <1>2, <2>1 DEF vars, dbVars, ctlVars, workVars, KnownInv, RecordedLaunches, KnownRuns, KnownHeld, HeldAlone,
       Known, Live
  <2> QED
    BY <1>2, <2>1, GuiKnown, WorkerKnown DEF Next
<1>3. ASSUME JobInv, KnownInv, [Next]_vars PROVE Blocks
  <2> SUFFICES ASSUME NEW w \in Launches, phase[w] = "none", phase'[w] = "boot" PROVE \A v \in Launches : ~Known(v)
    BY DEF Known
  <2>1. \E j \in Jobs : StartJob(j, w)
    <3>1. \A v \in Launches : Worker(v) => phase'[w] # "boot"
      BY <1>3 DEF Worker, Boot, PassGate, GiveUpGate, LockCatalog, StartTask, FinishTask, Complete, ObeyCancel, Raise,
         EmitTerminal, Leave, Die, Goes, Ends, Gone, Killed, JobInv, StageTypeOK, WorkTypeOK
    <3>2. CASE Gui
      BY <1>3, <3>2 DEF Gui, Poll, Open, OpenUnreconciled, Exit, Queue, CancelOther, StartCancelled, StartJob,
         RecordIdentity, OpenGate, StartFails, PollLatched, PollFails, PollLive, PollExited, RequestStop,
         ForceStop, LogFails, Killed, Gone, workVars, JobInv, StageTypeOK, WorkTypeOK
    <3> QED
      BY <1>3, <3>1, <3>2 DEF Next, vars, workVars
  <2> QED
    BY <1>3, <2>1, StartKnown
<1>4. Spec => [][Blocks]_vars
  BY <1>1, <1>2, <1>3, JobInvariant, PTL DEF Spec
<1> QED
  BY <1>4 DEF KnownWorkerBlocksLaunch
===============================================================================
