------------------------------ MODULE MCBatches ------------------------------
(***************************************************************************)
(* BatchExecution on three kinds of site and BatchPlanner on two, for one  *)
(* run: the initial state chooses which of them moves.                     *)
(*   "reserve": one slot per window, reserved before the reader opens;     *)
(*   "ticket":  one ticket per Work, observed when it is gone;             *)
(*   "library": a ticket and a free book, and others who write the library;*)
(*   "slots", "tickets": plans of many Sources, several to an Item.        *)
(* The three batches use the same variables, the planner its own.          *)
(***************************************************************************)
EXTENDS BatchExecution

CONSTANTS a, b

VARIABLES
  part,
  kind, itemStatus, started, grants, spent, keys, order, skipped, at, fresh, failures

plannerVars == <<kind, itemStatus, started, grants, spent, keys, order, skipped, at, fresh, failures>>

Ticket == INSTANCE BatchExecution WITH
  Site <- "ticket", MaxClock <- 2, MaxRuns <- 3, MaxFaults <- 2, MaxOutside <- 0
Library == INSTANCE BatchExecution WITH
  Site <- "ticket", FreeBooks <- {a}, Cooldown <- 1, Grant <- 2,
  MaxClock <- 0, MaxRuns <- 3

(* Item 1 has two Sources; Items 1 and 3 are of one Work, Item 3 goes before *)
(* Item 2; key "b" was registered before "a".                                *)
MCItemOf == [s \in 1..4 |-> IF s <= 2 THEN 1 ELSE s - 1]
MCKeyOf == [s \in 1..4 |-> IF s \in {1, 4} THEN "b" ELSE "a"]
MCWorkOf == [i \in 1..3 |-> IF i = 2 THEN 2 ELSE 1]
MCPosition == [i \in 1..3 |-> CASE i = 1 -> 1 [] i = 2 -> 3 [] OTHER -> 2]
MCPublished == [s \in 1..4 |-> IF s = 4 THEN 0 ELSE 1]
Kinds(modes, uses) == [mode : modes, use : uses]
All == Kinds({"soon", "free", "owned", "quota", "paid"}, {"ok", "barred", "no target"})
MCVariants ==
  [s \in 1..4 |-> CASE s <= 2 -> All
                    [] s = 3 -> Kinds({"quota", "owned", "free"}, {"ok"})
                    [] OTHER -> Kinds({"quota"}, {"ok", "barred"})]

Slots == INSTANCE BatchPlanner WITH
  Items <- 1..3, Sources <- 1..4, ItemOf <- MCItemOf, KeyOf <- MCKeyOf, WorkOf <- MCWorkOf,
  Position <- MCPosition, Published <- MCPublished, Variants <- MCVariants,
  DirectModes <- {"free", "soon", "owned"}, Scope <- "site", Capacity <- 2, Lasts <- TRUE,
  Ordering <- "catalog", MaxFaults <- 1,
  status <- itemStatus, granted <- grants, plan <- order, pc <- at, faults <- failures
Tickets == INSTANCE BatchPlanner WITH
  Items <- 1..3, Sources <- 1..4, ItemOf <- MCItemOf, KeyOf <- MCKeyOf, WorkOf <- MCWorkOf,
  Position <- MCPosition, Published <- MCPublished, Variants <- MCVariants,
  DirectModes <- {"free", "soon"}, Scope <- "work", Capacity <- 1, Lasts <- TRUE,
  Ordering <- "published_at", MaxFaults <- 1,
  status <- itemStatus, granted <- grants, plan <- order, pc <- at, faults <- failures

ASSUME Slots!BatchPlannerAssumption /\ Tickets!BatchPlannerAssumption

-----------------------------------------------------------------------------
(* The kinds of the Sources are those of one plan where no plan is made.     *)
Unplanned == \A s \in 1..4 : kind[s] = [mode |-> "quota", use |-> "ok"]

MCInit ==
  /\ Slots!Init
  /\ \/ part \in {"slots", "tickets"} /\ Init
     \/ part = "reserve" /\ Init /\ Unplanned
     \/ part = "ticket" /\ Ticket!Init /\ Unplanned
     \/ part = "library" /\ Library!Init /\ Unplanned

(* Where no book is free the two are alike: the first run is of a.           *)
FirstOfA == runs' # <<>> => runs'[1].book = a
(* The first two runs may fail, and so may what handles that.                *)
ThirdIsFine == Len(runs) = 3 => UNCHANGED faults

MCNext ==
  /\ UNCHANGED part
  /\ \/ part = "reserve" /\ Next /\ FirstOfA /\ UNCHANGED plannerVars
     \/ part = "ticket" /\ Ticket!Next /\ FirstOfA /\ ThirdIsFine /\ UNCHANGED plannerVars
     \/ part = "library" /\ Library!Next /\ UNCHANGED plannerVars
     \/ part = "slots" /\ Slots!Next /\ UNCHANGED vars
     \/ part = "tickets" /\ Tickets!Next /\ UNCHANGED vars

MCSpec == MCInit /\ [][MCNext]_<<vars, plannerVars, part>>

(* What the two planners promise of one site: WithinCapacity, NoneForFree    *)
(* and PlanHolds of BatchPlanner.                                            *)
PlansHold ==
  /\ part = "slots" =>
       Slots!TypeOK /\ Slots!WithinCapacity /\ Slots!NoneForFree /\ Slots!PlanHolds
  /\ part = "tickets" =>
       Tickets!TypeOK /\ Tickets!WithinCapacity /\ Tickets!NoneForFree /\ Tickets!PlanHolds
=============================================================================
