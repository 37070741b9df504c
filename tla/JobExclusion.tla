----------------------------- MODULE JobExclusion -----------------------------
(***************************************************************************)
(* What the Catalog job lock promises to the jobs that share one Catalog:  *)
(* at most one owner (an asyncio task or a thread of some process) holds   *)
(* it at a time, and only the holder, or the death of its process, gives   *)
(* it back.  Refused attempts change nothing (the lock is fail-fast).      *)
(* CatalogJobLock implements this specification.                           *)
(***************************************************************************)
CONSTANTS
  Owners,   \* every task or thread that may ask for the lock
  NoOwner   \* "nobody holds the lock"

VARIABLE holder

Init == holder = NoOwner

\* An outermost `with catalog.job_lock():` is entered.
Acquire(o) ==
  /\ holder = NoOwner
  /\ holder' = o

\* The outermost block is left, or the holder's process dies.
Release(o) ==
  /\ holder = o
  /\ holder' = NoOwner

Next == \E o \in Owners : Acquire(o) \/ Release(o)

Spec == Init /\ [][Next]_holder
===============================================================================
