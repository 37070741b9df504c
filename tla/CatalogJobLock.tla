---------------------------- MODULE CatalogJobLock ----------------------------
(***************************************************************************)
(* The fail-fast, re-entrant lock of catalog/job_lock.py for one Catalog   *)
(* path: a registry inside each process that admits nesting by one owner,  *)
(* and an advisory lock on a sibling file that excludes other processes.   *)
(* An owner is an asyncio task, or a thread when no task is running.       *)
(* `with` blocks of one owner are left in the reverse order of entry.      *)
(***************************************************************************)
EXTENDS Integers

CONSTANTS
  Procs,     \* processes that open the Catalog
  Owners,    \* the tasks and threads of all those processes
  ProcOf,    \* ProcOf[o] is the process that o runs in
  NoOwner,   \* no registry entry, or the file is unlocked
  MaxNest    \* bound on the nesting of one owner's blocks

ASSUME LockAssumption ==
  /\ NoOwner \notin Owners
  /\ ProcOf \in [Owners -> Procs]
  /\ MaxNest \in Nat \ {0}

VARIABLES
  holders,  \* holders[p]: owner of p's registry entry for this Catalog
  depth,    \* depth[o]: depth counter of the entry o owns
  blocks,   \* blocks[o]: `with` blocks o has entered and not left
  nested,   \* nested[o][k]: the _nested flag of o's k-th block
  flock,    \* the owner whose handle has the lock file locked
  op        \* op[o]: the lock operation o is in the middle of

lockVars == <<holders, depth, blocks, nested, flock, op>>

LockInit ==
  /\ holders = [p \in Procs |-> NoOwner]
  /\ depth   = [o \in Owners |-> 0]
  /\ blocks = [o \in Owners |-> 0]
  /\ nested = [o \in Owners |-> [k \in 1..MaxNest |-> FALSE]]
  /\ flock  = NoOwner
  /\ op     = [o \in Owners |-> "idle"]

-------------------------------------------------------------------------------
(* The decisions of the lock, each followed by nothing but its use.  The   *)
(* definitions named Wrong... are mutants: plausible slips that no         *)
(* specification below uses.                                               *)

\* A second `with` is a nesting only for the registered owner itself.
MayNest(o) == holders[ProcOf[o]] = o

\* The operating system grants an exclusive lock.
WrongFileFree == TRUE
FileFree == flock = NoOwner

\* Removing o's entry from the registry.
WrongUnregistered(o) == holders
Unregistered(o) == [holders EXCEPT ![ProcOf[o]] = NoOwner]

\* Leaving a block counts its entry down.
DepthLeft(o) == [depth EXCEPT ![o] = @ - 1]

\* The file is unlocked by the block that takes the depth to zero, when that
\* block is the one that locked it.
UnlocksFile(o) == depth[o] = 1 /\ ~nested[o][blocks[o]]

-------------------------------------------------------------------------------
(* __enter__.  An entry with another owner refuses the attempt at once:    *)
(* an exception is raised and nothing changes, which is a stuttering step. *)

\* No entry yet: register one, then go for the lock file.
EnterFirst(o) ==
  /\ op[o] = "idle"
  /\ holders[ProcOf[o]] = NoOwner
  /\ holders' = [holders EXCEPT ![ProcOf[o]] = o]
  /\ depth' = [depth EXCEPT ![o] = 1]
  /\ op' = [op EXCEPT ![o] = "locking"]
  /\ UNCHANGED <<blocks, nested, flock>>

\* The same owner is already registered: only the depth grows.
EnterNested(o) ==
  /\ op[o] = "idle"
  /\ MayNest(o)
  /\ blocks[o] < MaxNest
  /\ depth' = [depth EXCEPT ![o] = @ + 1]
  /\ blocks' = [blocks EXCEPT ![o] = @ + 1]
  /\ nested' = [nested EXCEPT ![o][blocks[o] + 1] = TRUE]
  /\ UNCHANGED <<holders, flock, op>>

\* The operating system grants the file lock: the outermost block is entered.
LockFile(o) ==
  /\ op[o] = "locking"
  /\ FileFree
  /\ flock' = o
  /\ blocks' = [blocks EXCEPT ![o] = 1]
  /\ nested' = [nested EXCEPT ![o][1] = FALSE]
  /\ op' = [op EXCEPT ![o] = "idle"]
  /\ UNCHANGED <<holders, depth>>

\* The file is locked elsewhere, or cannot be opened: the attempt is undone.
LockFileFails(o) ==
  /\ op[o] = "locking"
  /\ holders' = Unregistered(o)
  /\ depth' = [depth EXCEPT ![o] = 0]
  /\ op' = [op EXCEPT ![o] = "idle"]
  /\ UNCHANGED <<blocks, nested, flock>>

(* __exit__.  The registry entry goes first, under its guard; the file     *)
(* lock is given back afterwards, by the block that acquired it.           *)
ExitBlock(o) ==
  /\ op[o] = "idle"
  /\ blocks[o] > 0
  /\ depth' = DepthLeft(o)
  /\ holders' = IF depth[o] = 1 THEN Unregistered(o) ELSE holders
  /\ op' = IF UnlocksFile(o) THEN [op EXCEPT ![o] = "unlocking"] ELSE op
  /\ blocks' = [blocks EXCEPT ![o] = @ - 1]
  /\ UNCHANGED <<nested, flock>>

UnlockFile(o) ==
  /\ op[o] = "unlocking"
  /\ flock' = NoOwner
  /\ op' = [op EXCEPT ![o] = "idle"]
  /\ UNCHANGED <<holders, depth, blocks, nested>>

\* A process dies and may be started again: its registry is gone and the
\* operating system drops the locks of its open handles.
Crash(p) ==
  LET Survives(o) == ProcOf[o] # p IN
  /\ holders' = [holders EXCEPT ![p] = NoOwner]
  /\ depth' = [o \in Owners |-> IF Survives(o) THEN depth[o] ELSE 0]
  /\ blocks' = [o \in Owners |-> IF Survives(o) THEN blocks[o] ELSE 0]
  /\ op' = [o \in Owners |-> IF Survives(o) THEN op[o] ELSE "idle"]
  /\ flock' = IF flock \in Owners /\ ~Survives(flock) THEN NoOwner ELSE flock
  /\ UNCHANGED nested

Finish(o) == LockFile(o) \/ LockFileFails(o) \/ UnlockFile(o)

LockNext ==
  \/ \E o \in Owners : EnterFirst(o) \/ EnterNested(o) \/ ExitBlock(o) \/ Finish(o)
  \/ \E p \in Procs : Crash(p)

LockSpec == LockInit /\ [][LockNext]_lockVars

\* The two operations that touch the file run to their end; nothing says that
\* a job ever leaves its block, so ExitBlock has no fairness.
LockFairSpec == LockSpec /\ \A o \in Owners : WF_lockVars(Finish(o))

-------------------------------------------------------------------------------
Inside(o) == blocks[o] > 0

LockTypeOK ==
  /\ holders \in [Procs -> Owners \cup {NoOwner}]
  /\ depth \in [Owners -> 0..MaxNest]
  /\ blocks \in [Owners -> 0..MaxNest]
  /\ nested \in [Owners -> [1..MaxNest -> BOOLEAN]]
  /\ flock \in Owners \cup {NoOwner}
  /\ op \in [Owners -> {"idle", "locking", "unlocking"}]

(* Two jobs, in one process or in two, are never inside the Catalog lock   *)
(* together, whatever nesting, refusals and crashes came before.           *)
MutualExclusion ==
  \A o, q \in Owners : Inside(o) /\ Inside(q) => o = q

(* A registry entry or a file lock never outlives the operation or block   *)
(* that owns it: what is held can always be traced to an owner that will   *)
(* give it back, so a refused attempt or a nested block cannot wedge the   *)
(* Catalog for later jobs.                                                 *)
NothingLeaks ==
  /\ \A p \in Procs : holders[p] # NoOwner =>
       Inside(holders[p]) \/ op[holders[p]] = "locking"
  /\ flock # NoOwner => Inside(flock) \/ op[flock] = "unlocking"

(* Fail-fast: an attempt to enter ends, granted or refused, even if the    *)
(* present holder never leaves its block.                                  *)
FailFast == \A o \in Owners : op[o] = "locking" ~> op[o] # "locking"

(* The lock implements the one-holder abstraction the jobs rely on, where  *)
(* the holder is whoever is inside a block: control passes from one job to *)
(* the next only through a moment in which nobody is inside.               *)
Holder ==
  IF \E o \in Owners : Inside(o) THEN CHOOSE o \in Owners : Inside(o) ELSE NoOwner
Exclusion == INSTANCE JobExclusion WITH holder <- Holder
ImplementsExclusion == Exclusion!Spec
===============================================================================
