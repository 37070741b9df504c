-------------------------------- MODULE MCJobs --------------------------------
(***************************************************************************)
(* A job's worker, the lock it needs, and what a worker does first with a  *)
(* page: the components that share nothing, in one run.  The initial state *)
(* chooses which of them moves.                                            *)
(*   "faults":     JobControl with one job, whatever fails, reconcile too; *)
(*   "queue":      JobControl with two jobs in one order, the first may be *)
(*                 cancelled, nothing fails;                               *)
(*   "lock":       CatalogJobLock with two processes, of which the first   *)
(*                 runs two tasks;                                         *)
(*   "comicdays":  ComicDaysEntry;                                         *)
(*   "viewer":     MagapokeViewer;                                         *)
(*   "dated":      DatedEntries, where the owner reads elsewhere too;      *)
(*   "hollow":     DatedEntries, where the site may accept a checkout      *)
(*                 without effect and garble an answer.                    *)
(***************************************************************************)
EXTENDS JobControl, CatalogJobLock, ComicDaysEntry, MagapokeViewer, DatedEntries

CONSTANTS p1, p2, t1, t2, t3, a, b

MCProcs == {p1, p2}
MCOwners == {t1, t2, t3}
MCProcOf == [o \in MCOwners |-> IF o = t3 THEN p2 ELSE p1]

VARIABLE part

Healthy == INSTANCE JobControl WITH MaxFaults <- 0, ReconcileMayFail <- FALSE

WhereHollow == INSTANCE DatedEntries WITH
  Clock <- 1, MaxGarbled <- 1, OwnerReads <- FALSE, Hollow <- TRUE

-----------------------------------------------------------------------------
MCInit ==
  /\ Init /\ LockInit /\ ComicInit /\ ViewInit /\ DatedInit
  /\ part \in {"faults", "queue", "lock", "comicdays", "viewer", "dated", "hollow"}
  (* What does not move begins in one way only.                              *)
  /\ part # "comicdays" => ~charged /\ ~entryOnly
  /\ part # "viewer" => shown = 1 /\ drawn
  /\ part \notin {"dated", "hollow"} => until = 0 /\ site = "hanayume"

OneJob ==
  /\ Next /\ state'[b] = "absent"
  /\ phase[2] # "none" => faults' = faults

TwoJobs ==
  /\ Healthy!Next
  /\ state'[b] # "absent" => state'[a] # "absent" /\ ~flag'[b]
  /\ exits' # 0 => ~flag'[a]

(* Two answers are on their way at most.                                       *)
TwoAtOnce ==
  Cardinality({i \in DOMAIN asked' : asked'[i].state \in {"sent", "served"}}) <= 2

(* The page asks once for the whole work, and for nothing at the last tick of  *)
(* the clock; "hollow" has it ask again and at any time.                       *)
AsksLittle ==
  /\ \A i, j \in DOMAIN asked' : asked'[i].kind = "series" /\ asked'[j].kind = "series" => i = j
  /\ time = Clock => Len(asked') <= Len(asked)

MCNext ==
  /\ UNCHANGED part
  /\ \/ /\ \/ part = "faults" /\ OneJob
           \/ part = "queue" /\ TwoJobs
        /\ UNCHANGED <<lockVars, comicVars, viewVars, datedVars>>
     \/ /\ part = "lock" /\ LockNext
        /\ UNCHANGED <<vars, comicVars, viewVars, datedVars>>
     \/ /\ part = "comicdays" /\ ComicNext
        /\ UNCHANGED <<vars, lockVars, viewVars, datedVars>>
     \/ /\ part = "viewer" /\ ViewNext
        /\ UNCHANGED <<vars, lockVars, comicVars, datedVars>>
     \/ /\ \/ part = "dated" /\ DatedNext /\ AsksLittle
           \/ part = "hollow" /\ WhereHollow!DatedNext
        /\ TwoAtOnce
        /\ UNCHANGED <<vars, lockVars, comicVars, viewVars>>

MCSpec == MCInit /\ [][MCNext]_<<vars, lockVars, comicVars, viewVars, datedVars, part>>
===============================================================================
