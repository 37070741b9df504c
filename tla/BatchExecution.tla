---------------------------- MODULE BatchExecution ----------------------------
(***************************************************************************)
(* A batch over the books of one site and one Work: plan, run each         *)
(* candidate, package its pages, finalize it in the Catalog (batch/        *)
(* planner.py, executor.py, archive_guard.py, core/packaging.py, the crawl *)
(* rows of catalog/service.py, the loop of cli.py).  A site grants access  *)
(* in one of two ways: BookWalker has one slot per window, reserved before *)
(* the reader opens; Magapoke has a ticket per Work, recorded once its     *)
(* consumption is observed, that rents the book for a while.               *)
(* The batch holds the Catalog job lock (CatalogJobLock) from plan to end. *)
(* prepare_recrawl.py and everything else that writes the library do not.  *)
(***************************************************************************)
EXTENDS Integers, Sequences, FiniteSets

CONSTANTS
  Books,       \* items of the site, one Source and one Target each
  FreeBooks,   \* those whose access needs neither slot nor ticket
  NoBook,
  Site,        \* "reserve" or "ticket"
  WindowLen,   \* ticks in a quota window
  Cooldown,    \* ticks before the Work ticket is used again
  Grant,       \* ticks a rental is relied on
  MaxClock,    \* bound on the clock
  MaxRuns,     \* bound on crawl runs
  MaxFaults,   \* bound on failing writes, interrupts and killed processes
  MaxOutside   \* bound on what others do to the library and the Catalog

ASSUME BatchAssumption ==
  /\ NoBook \notin Books /\ FreeBooks \subseteq Books
  /\ Site \in {"reserve", "ticket"}
  /\ WindowLen \in Nat \ {0} /\ Cooldown \in Nat /\ Grant \in Nat
  /\ MaxClock \in Nat /\ MaxRuns \in Nat /\ MaxFaults \in Nat /\ MaxOutside \in Nat

VARIABLES
  clock,
  status,     \* items.status
  runs,       \* crawl_runs
  artifacts,  \* artifacts: the runs that have one
  locator,    \* artifacts.locator: where a run's ZIP should be
  quota,      \* sources.quota_started_at
  granted,    \* sources.access_granted_until
  used,       \* quota_resource_states.last_consumed_at of the Work
  zip, side,  \* ZIP and status file of a book: the run it is of, if any
  backup,     \* ZIPs moved out of the library
  pc,         \* what the batch is about to do
  mode,       \* "capture" or "grant": grant-only batches stop at the entry
  plan,       \* the candidates left, with their access strategy
  cur,        \* the candidate being executed
  recrawl,    \* the archive prepare_recrawl.py is returning, and whether it is booked
  faults, outside,
  \* Auxiliary: no action reads them.
  entered,    \* runs that opened the reader on a reserved slot
  restored,   \* the times slots were restored by hand
  debits,     \* tickets the site has taken: when, and in which run
  lost,       \* runs whose ticket could not be seen or stored
  left,       \* runs whose end could not be stored
  strayed     \* artifacts whose ZIP was moved and not booked

catalogVars == <<status, runs, artifacts, locator, quota, granted, used>>
fileVars == <<zip, side, backup>>
batchVars == <<pc, mode, plan, cur>>
auxVars == <<entered, restored, debits, lost, left, strayed>>
vars == <<clock, catalogVars, fileVars, batchVars, recrawl, faults, outside, auxVars>>

Nothing == 0   \* no file, no run
Foreign == -1  \* a file that is not a batch's
NoTime == -1

Idle == [book |-> NoBook, run |-> Nothing, how |-> "direct", base |-> Nothing,
         seen |-> NoTime, checked |-> FALSE, goOn |-> FALSE]
NoRecrawl == [run |-> Nothing, booked |-> FALSE]
RunStates == {"running", "succeeded", "failed"}

Init ==
  /\ clock = 0
  /\ status = [b \in Books |-> "pending"]
  /\ runs = <<>> /\ artifacts = {}
  /\ locator = [r \in 1..MaxRuns |-> "none"]
  /\ quota = [b \in Books |-> NoTime]
  /\ granted = [b \in Books |-> NoTime]
  /\ used = NoTime
  /\ zip = [b \in Books |-> Nothing] /\ side = [b \in Books |-> Nothing]
  /\ backup = {}
  /\ pc = "off" /\ mode = "capture" /\ plan = <<>> /\ cur = Idle
  /\ recrawl = NoRecrawl
  /\ faults = 0 /\ outside = 0
  /\ entered = {} /\ restored = <<>> /\ debits = {}
  /\ lost = {} /\ left = {} /\ strayed = {}

Fault == faults < MaxFaults /\ faults' = faults + 1
Outside == outside < MaxOutside /\ outside' = outside + 1

-------------------------------------------------------------------------------
(* Site policies.                                                          *)

\* quota_window is half open.
WindowStart(now) == now - (now % WindowLen)
WrongInWindow(t, now) == WindowStart(now) < t /\ t < WindowStart(now) + WindowLen
InWindow(t, now) == WindowStart(now) <= t /\ t < WindowStart(now) + WindowLen

\* available_quota of BookWalker, whose capacity is one.
SlotFree(now) == ~\E b \in Books : InWindow(quota[b], now)

\* The decision for a book: how it is accessed, or that it is not.
Access(b, now) ==
  CASE b \in FreeBooks -> "direct"
    [] Site = "ticket" -> IF granted[b] > now THEN "direct" ELSE "quota"
    [] OTHER -> IF SlotFree(now) THEN "quota" ELSE "none"

\* resource_state_skip_reason: the Work's ticket is not back yet.
Cooling(now) == used # NoTime /\ now < used + Cooldown

(* validate_candidate_output_paths: the ZIP must be absent; a status file  *)
(* may only be one that the Catalog proves to be of an archived run of the *)
(* same Source.  With a baseline it must also be the same as before.       *)
PathsFree(b) == zip[b] = Nothing /\ side[b] \in artifacts \cup {Nothing}
PathsStillFree(b) == PathsFree(b) /\ side[b] \in {Nothing, cur.base}

-------------------------------------------------------------------------------
(* Planning.                                                               *)
Pending == {b \in Books : status[b] = "pending"}
Direct == {b \in Pending : Access(b, clock) = "direct"}
Paying == {b \in Pending : Access(b, clock) = "quota"}

\* One slot or one ticket admits one paying candidate.
OnePaying(chosen) ==
  /\ chosen \subseteq Paying
  /\ Cardinality(chosen) = (IF Paying = {} THEN 0 ELSE 1)

Candidates(m, chosen) ==
  [b \in chosen \cup (IF m = "capture" THEN Direct ELSE {}) |-> Access(b, clock)]

\* An occupied output path of any selected book refuses the plan of the site.
StartBatch(m) ==
  /\ pc = "off"
  /\ m = "grant" => Site = "ticket"
  /\ m = "capture" => \A b \in Direct \cup Paying : PathsFree(b)
  /\ \E chosen \in SUBSET Paying :
       /\ OnePaying(chosen)
       /\ Len(runs) + Cardinality(DOMAIN Candidates(m, chosen)) <= MaxRuns
       /\ plan' = Candidates(m, chosen)
  /\ mode' = m
  /\ pc' = "choose"
  /\ UNCHANGED <<clock, catalogVars, fileVars, cur, recrawl, faults, outside, auxVars>>

WrongRest(b) == plan
Rest(b) == [c \in DOMAIN plan \ {b} |-> plan[c]]
-------------------------------------------------------------------------------
(* One candidate: execute_candidate and execute_grant_only_candidate.      *)
Leaves == pc' = "off" /\ plan' = <<>> /\ cur' = Idle
GoesTo(next) == pc' = next /\ UNCHANGED <<mode, plan, cur>>

EndBatch ==
  /\ pc = "choose" /\ DOMAIN plan = {}
  /\ Leaves
  /\ UNCHANGED <<clock, catalogVars, fileVars, mode, recrawl, faults, outside, auxVars>>

\* _validate_candidate: the row, the access decision and the paths are as
\* they were planned.
Valid(b) ==
  /\ status[b] = "pending"
  /\ Access(b, clock) = plan[b]
  /\ mode = "capture" => PathsFree(b)

Skip(b) ==
  /\ pc = "choose" /\ b \in DOMAIN plan
  /\ Site = "ticket" /\ plan[b] = "quota" /\ Cooling(clock)
  /\ plan' = Rest(b)
  /\ UNCHANGED <<clock, catalogVars, fileVars, pc, mode, cur, recrawl, faults,
                 outside, auxVars>>

Chooses(b) ==
  /\ pc = "choose" /\ b \in DOMAIN plan
  /\ Site = "ticket" /\ plan[b] = "quota" => ~Cooling(clock)

\* A stale candidate, or a run that cannot be created, stops the batch.
Refuse(b) ==
  /\ Chooses(b)
  /\ IF Valid(b) THEN Fault ELSE UNCHANGED faults
  /\ Leaves
  /\ UNCHANGED <<clock, catalogVars, fileVars, mode, recrawl, outside, auxVars>>

Begin(b) ==
  /\ Chooses(b) /\ Valid(b)
  /\ Len(runs) < MaxRuns
  /\ runs' = Append(runs, [book |-> b, at |-> clock, mode |-> mode, state |-> "running"])
  /\ cur' = [Idle EXCEPT !.book = b, !.run = Len(runs) + 1, !.how = plan[b],
                         !.base = side[b]]
  /\ pc' = "open"
  /\ UNCHANGED <<clock, status, artifacts, locator, quota, granted, used, fileVars,
                 mode, plan, recrawl, faults, outside, auxVars>>

Reserves == Site = "reserve" /\ cur.how = "quota"

\* record_quota_access is committed before the reader opens.
Reserve ==
  /\ pc = "open" /\ Reserves
  /\ quota' = [quota EXCEPT ![cur.book] = runs[cur.run].at]
  /\ GoesTo("enter")
  /\ UNCHANGED <<clock, status, runs, artifacts, locator, granted, used, fileVars,
                 recrawl, faults, outside, auxVars>>

ReadyToEnter == pc = (IF Reserves THEN "enter" ELSE "open")
Enter ==
  /\ ReadyToEnter
  /\ entered' = IF Reserves THEN entered \cup {cur.run} ELSE entered
  /\ GoesTo("crawl")
  /\ UNCHANGED <<clock, catalogVars, fileVars, recrawl, faults, outside, restored,
                 debits, lost, left, strayed>>

\* The site takes the ticket; the adapter gets to see it, or does not.
Debit ==
  /\ pc = "crawl" /\ Site = "ticket" /\ cur.how = "quota"
  /\ \A d \in debits : d.run # cur.run
  /\ debits' = debits \cup {[at |-> clock, run |-> cur.run]}
  /\ \/ cur' = [cur EXCEPT !.seen = clock] /\ UNCHANGED lost
     \/ lost' = lost \cup {cur.run} /\ UNCHANGED cur
  /\ UNCHANGED <<clock, catalogVars, fileVars, pc, mode, plan, recrawl, faults,
                 outside, entered, restored, left, strayed>>

\* An exception goes to the handler, which lets the loop go on or stops it.
Raises(goOn) == pc' = "failing" /\ cur' = [cur EXCEPT !.goOn = goOn]

\* The runner returns, having stopped as it should or not.
CrawlEnds ==
  /\ pc = "crawl"
  /\ GoesTo("record")
  /\ UNCHANGED <<clock, catalogVars, fileVars, recrawl, faults, outside, auxVars>>

\* It raises: an access stop or an error ends the batch, a resource that is
\* not available ends the candidate, or the pass.
CrawlRaises ==
  /\ pc = "crawl"
  /\ \E goOn \in BOOLEAN : Raises(goOn)
  /\ UNCHANGED <<clock, catalogVars, fileVars, mode, plan, recrawl, faults, outside, auxVars>>

\* record_quota_access_with_resource_state, one transaction, in which an older
\* consumption does not replace a newer one.
StoresUse ==
  IF cur.seen # NoTime /\ used <= cur.seen
  THEN /\ quota' = [quota EXCEPT ![cur.book] = cur.seen]
       /\ granted' = [granted EXCEPT ![cur.book] = cur.seen + Grant]
       /\ used' = cur.seen
  ELSE UNCHANGED <<quota, granted, used>>

\* Then the result is judged: a capture must have stopped normally, a grant
\* must have seen a ticket go.
Record ==
  /\ pc = "record"
  /\ StoresUse
  /\ LET after == [cur EXCEPT !.checked = TRUE] IN
     IF mode = "capture"
     THEN \/ pc' = "recheck" /\ cur' = after
          \/ pc' = "failing" /\ cur' = after
     ELSE IF cur.seen # NoTime
          THEN pc' = "finalize" /\ cur' = after
          ELSE pc' = "failing" /\ cur' = [after EXCEPT !.goOn = TRUE]
  /\ UNCHANGED <<clock, status, runs, artifacts, locator, fileVars, mode, plan,
                 recrawl, faults, outside, auxVars>>

\* The paths once more, just before packaging.
Recheck ==
  /\ pc = "recheck"
  /\ IF PathsStillFree(cur.book) THEN GoesTo("pack") ELSE Raises(FALSE) /\ UNCHANGED <<mode, plan>>
  /\ UNCHANGED <<clock, catalogVars, fileVars, recrawl, faults, outside, auxVars>>

\* package_crawl_output: look, zip into a temporary file, move it into place,
\* write the status file.
PackCheck ==
  /\ pc = "pack"
  /\ IF zip[cur.book] = Nothing THEN GoesTo("move") ELSE Raises(FALSE) /\ UNCHANGED <<mode, plan>>
  /\ UNCHANGED <<clock, catalogVars, fileVars, recrawl, faults, outside, auxVars>>

PackMove ==
  /\ pc = "move"
  /\ zip' = [zip EXCEPT ![cur.book] = cur.run]
  /\ GoesTo("status")
  /\ UNCHANGED <<clock, catalogVars, side, backup, recrawl, faults, outside, auxVars>>

PackStatus ==
  /\ pc = "status"
  /\ side' = [side EXCEPT ![cur.book] = cur.run]
  /\ GoesTo("finalize")
  /\ UNCHANGED <<clock, catalogVars, zip, backup, recrawl, faults, outside, auxVars>>

\* Only a running run may end, in either way.
StillOpen == runs[cur.run].state = "running"
Ended(state) == runs' = [runs EXCEPT ![cur.run].state = state]

\* finalize_successful_crawl, one transaction; a grant only ends its run.
\* A confirmed consumption may end the pass, an interrupt come right after.
Finalize ==
  /\ pc = "finalize" /\ StillOpen
  /\ Ended("succeeded")
  /\ IF mode = "capture"
     THEN /\ artifacts' = artifacts \cup {cur.run}
          /\ locator' = [locator EXCEPT ![cur.run] = "library"]
          /\ status' = [status EXCEPT ![cur.book] = "completed"]
     ELSE UNCHANGED <<artifacts, locator, status>>
  /\ \/ pc' = "choose" /\ plan' = Rest(cur.book) /\ cur' = Idle /\ UNCHANGED faults
     \/ cur.seen # NoTime /\ Leaves /\ UNCHANGED faults
     \/ Raises(FALSE) /\ Fault /\ UNCHANGED plan
  /\ UNCHANGED <<clock, quota, granted, used, fileVars, mode, recrawl, outside, auxVars>>

\* A write fails or the operator interrupts, anywhere before the end.
Fails ==
  /\ pc \in {"open", "enter", "crawl", "record", "recheck", "pack", "move",
             "status", "finalize"}
  /\ Fault
  /\ Raises(FALSE)
  /\ UNCHANGED <<clock, catalogVars, fileVars, mode, plan, recrawl, outside, auxVars>>
-------------------------------------------------------------------------------
(* The handler: a consumption that was not stored yet, then the run.       *)
WrongUnstored == FALSE
Unstored == ~cur.checked /\ cur.seen # NoTime
LateRecord ==
  /\ pc = "failing"
  /\ Unstored
  /\ \/ StoresUse /\ UNCHANGED <<faults, lost>>
     \/ Fault /\ lost' = lost \cup {cur.run} /\ UNCHANGED <<quota, granted, used>>
  /\ cur' = [cur EXCEPT !.checked = TRUE]
  /\ UNCHANGED <<clock, status, runs, artifacts, locator, fileVars, pc, mode, plan,
                 recrawl, outside, entered, restored, debits, left, strayed>>

\* A run that has ended, or a DB that fails, keeps the handler from ending it.
\* Whatever happens, the error goes on to the loop.
WrongRunFails == UNCHANGED <<runs, faults, left>>
RunFails ==
  \/ StillOpen /\ Ended("failed") /\ UNCHANGED <<faults, left>>
  \/ ~StillOpen /\ UNCHANGED <<runs, faults, left>>
  \/ StillOpen /\ Fault /\ left' = left \cup {cur.run} /\ UNCHANGED runs
FailRun ==
  /\ pc = "failing"
  /\ ~Unstored
  /\ RunFails
  /\ IF cur.goOn THEN pc' = "choose" /\ plan' = Rest(cur.book) /\ cur' = Idle ELSE Leaves
  /\ UNCHANGED <<clock, status, artifacts, locator, quota, granted, used, fileVars,
                 mode, recrawl, outside, entered, restored, debits, lost, strayed>>

\* The process is killed: its lock goes, its run stays as it is.
Die ==
  /\ pc # "off"
  /\ Fault
  /\ lost' = IF Unstored THEN lost \cup {cur.run} ELSE lost
  /\ left' = IF cur.run = Nothing THEN left ELSE left \cup {cur.run}
  /\ Leaves
  /\ UNCHANGED <<clock, catalogVars, fileVars, mode, recrawl, outside, entered,
                 restored, debits, strayed>>

-------------------------------------------------------------------------------
(* Others.                                                                 *)
Tick ==
  /\ clock < MaxClock
  /\ clock' = clock + 1
  /\ UNCHANGED <<catalogVars, fileVars, batchVars, recrawl, faults, outside, auxVars>>

\* restore_bookwalker_quota.py, under the job lock, for the only reservation.
RestoreQuota(b) ==
  /\ Site = "reserve" /\ pc = "off"
  /\ {c \in Books : InWindow(quota[c], clock)} = {b}
  /\ Outside
  /\ quota' = [quota EXCEPT ![b] = NoTime]
  /\ granted' = [granted EXCEPT ![b] = NoTime]
  /\ restored' = Append(restored, clock)
  /\ UNCHANGED <<clock, status, runs, artifacts, locator, used, fileVars, batchVars,
                 recrawl, faults, entered, debits, lost, left, strayed>>

\* Another program puts a file where a book's ZIP or status file would go,
\* like `crawl`, whose packaging refuses to replace a ZIP.
ForeignZip(b) ==
  /\ Outside
  /\ zip[b] = Nothing
  /\ zip' = [zip EXCEPT ![b] = Foreign]
  /\ UNCHANGED <<clock, catalogVars, side, backup, batchVars, recrawl, faults, auxVars>>

ForeignStatus(b) ==
  /\ Outside
  /\ side' = [side EXCEPT ![b] = Foreign]
  /\ UNCHANGED <<clock, catalogVars, zip, backup, batchVars, recrawl, faults, auxVars>>

(* prepare_recrawl.py returns an archived book to the queue: it moves what  *)
(* is at the locator of its newest archive away, or notes that nothing is,  *)
(* books that, and makes the item pending.  A failing write or a crash      *)
(* leaves the rest undone.                                                  *)
Shelved(b, r) ==
  /\ recrawl = NoRecrawl
  /\ status[b] = "completed"
  /\ runs[r].book = b /\ \A s \in artifacts : runs[s].book = b => s <= r

\* Where the row says the ZIP is, there is a file.
AtLocator(b, r) == locator[r] = "backup" \/ (locator[r] = "library" /\ zip[b] # Nothing)

RecrawlMove(b, r) ==
  /\ Shelved(b, r) /\ AtLocator(b, r)
  /\ Outside
  /\ IF locator[r] = "library"
     THEN zip' = [zip EXCEPT ![b] = Nothing] /\ backup' = backup \cup {zip[b]}
     ELSE UNCHANGED <<zip, backup>>  \* from one backup to another
  /\ recrawl' = [run |-> r, booked |-> FALSE]
  /\ UNCHANGED <<clock, catalogVars, side, batchVars, faults, auxVars>>

RecrawlLocate ==
  /\ recrawl # NoRecrawl /\ ~recrawl.booked
  /\ locator' = [locator EXCEPT ![recrawl.run] = "backup"]
  /\ recrawl' = [recrawl EXCEPT !.booked = TRUE]
  /\ UNCHANGED <<clock, status, runs, artifacts, quota, granted, used, fileVars,
                 batchVars, faults, outside, auxVars>>

RecrawlMissing(b, r) ==
  /\ Shelved(b, r) /\ ~AtLocator(b, r)
  /\ Outside
  /\ locator' = [locator EXCEPT ![r] = "missing"]
  /\ recrawl' = [run |-> r, booked |-> TRUE]
  /\ UNCHANGED <<clock, status, runs, artifacts, quota, granted, used, fileVars,
                 batchVars, faults, auxVars>>

WrongBooked == TRUE
Booked == recrawl.booked
RecrawlPending ==
  /\ recrawl # NoRecrawl /\ Booked
  /\ status' = [status EXCEPT ![runs[recrawl.run].book] = "pending"]
  /\ recrawl' = NoRecrawl
  /\ UNCHANGED <<clock, runs, artifacts, locator, quota, granted, used, fileVars,
                 batchVars, faults, outside, auxVars>>

RecrawlFails ==
  /\ recrawl # NoRecrawl
  /\ Fault
  /\ strayed' = IF recrawl.booked THEN strayed ELSE strayed \cup {recrawl.run}
  /\ recrawl' = NoRecrawl
  /\ UNCHANGED <<clock, catalogVars, fileVars, batchVars, outside, entered, restored,
                 debits, lost, left>>

-------------------------------------------------------------------------------
Candidate(b) == Skip(b) \/ Refuse(b) \/ Begin(b)

Batch ==
  \/ EndBatch
  \/ \E b \in Books : Candidate(b)
  \/ Reserve \/ Enter \/ Record
  \/ Recheck \/ PackCheck \/ PackMove \/ PackStatus \/ Finalize
  \/ LateRecord \/ FailRun

Crawl == CrawlEnds \/ CrawlRaises \/ Debit

Others ==
  \/ Tick
  \/ \E b \in Books : RestoreQuota(b) \/ ForeignZip(b) \/ ForeignStatus(b)
  \/ \E b \in Books, r \in artifacts : RecrawlMove(b, r) \/ RecrawlMissing(b, r)
  \/ RecrawlLocate \/ RecrawlPending \/ RecrawlFails

Next ==
  \/ \E m \in {"capture", "grant"} : StartBatch(m)
  \/ Batch \/ Crawl \/ Fails \/ Die
  \/ Others

Spec == Init /\ [][Next]_vars

\* The code of the batch runs on.  Nothing is assumed of the crawl: its pages
\* and its repeats have a maximum and its steps a time limit, but a viewer that
\* shows one advertisement after the other keeps it going.
FairSpec == Spec /\ WF_vars(Batch)

-------------------------------------------------------------------------------
Times == 0..MaxClock
RunRows == [book : Books, at : Times, mode : {"capture", "grant"}, state : RunStates]
Files == DOMAIN runs \cup {Nothing, Foreign}
Executing == pc \notin {"off", "choose"}
Candidacies ==
  [book : Books \cup {NoBook}, run : Nat, how : {"direct", "quota"}, base : Int,
   seen : Times \cup {NoTime}, checked : BOOLEAN, goOn : BOOLEAN]

CatalogTypeOK ==
  /\ status \in [Books -> {"pending", "completed"}]
  /\ runs \in Seq(RunRows) /\ Len(runs) <= MaxRuns
  /\ artifacts \subseteq DOMAIN runs
  /\ locator \in [1..MaxRuns -> {"none", "library", "backup", "missing"}]
  /\ quota \in [Books -> Times \cup {NoTime}]
  /\ granted \in [Books -> Int]
  /\ used \in Times \cup {NoTime}

FileTypeOK ==
  /\ zip \in [Books -> Files] /\ side \in [Books -> Files]
  /\ backup \subseteq Files

BatchTypeOK ==
  /\ clock \in Times
  /\ pc \in {"off", "choose", "open", "enter", "crawl", "record", "recheck", "pack",
             "move", "status", "finalize", "failing"}
  /\ mode \in {"capture", "grant"}
  /\ DOMAIN plan \subseteq Books
  /\ \A b \in DOMAIN plan : plan[b] \in {"direct", "quota"}
  /\ cur \in Candidacies
  /\ Executing => cur.book \in DOMAIN plan /\ cur.run \in DOMAIN runs
  /\ recrawl \in [run : artifacts \cup {Nothing}, booked : BOOLEAN]

TypeOK == CatalogTypeOK /\ FileTypeOK /\ BatchTypeOK

(* The Catalog's account of an acquisition is all or nothing: a capture has *)
(* succeeded exactly if it has an artifact, a completed book has one, and   *)
(* neither an interrupt after the commit nor a failing handler turns a run  *)
(* that has ended into something else.                                      *)
SuccessIsAtomic ==
  /\ \A r \in DOMAIN runs :
       r \in artifacts <=> runs[r].mode = "capture" /\ runs[r].state = "succeeded"
  /\ \A b \in Books : status[b] = "completed" =>
       \E r \in artifacts : runs[r].book = b

(* Every artifact row leads to the bytes it was written for, through any   *)
(* number of recaptures: only a move that could not be booked is excused.  *)
LocatorsLead ==
  \A r \in artifacts \ (strayed \cup {recrawl.run}) :
    /\ locator[r] = "library" => zip[runs[r].book] = r
    /\ locator[r] = "backup" => r \in backup

(* No run stays open: what is "running" is what the batch is executing now, *)
(* or it was cut off by a kill or by a Catalog that could not be written.   *)
NoOpenRun ==
  \A r \in DOMAIN runs : runs[r].state = "running" =>
    r \in left \/ (Executing /\ r = cur.run)

(* One reader per window on the site's slot, and one more for each slot an  *)
(* operator has given back, whatever fails, dies or rolls over in between.  *)
SameWindow(t, u) == WindowStart(t) = WindowStart(u)
ReserveHolds ==
  \A t \in Times :
    Cardinality({r \in entered : SameWindow(runs[r].at, t)})
      <= 1 + Cardinality({i \in DOMAIN restored : SameWindow(restored[i], t)})

(* A reader opened on a slot has a reservation that outlives a crash: until *)
(* an operator gives it back or the book is reserved again, it counts.      *)
EntryIsReserved ==
  \A r \in entered : quota[runs[r].book] >= runs[r].at
    \/ \E i \in DOMAIN restored : restored[i] >= runs[r].at

(* A ticket that was seen to go is not spent again before it is back: the  *)
(* handler stores it also when the crawl fails, so only a consumption that *)
(* nobody saw or that could not be stored twice lets another one follow.   *)
TicketNotSpentTwice ==
  \A d, e \in debits : d.run < e.run /\ d.run \notin lost =>
    e.at >= d.at + Cooldown

(* A batch ends and gives the Catalog back, whatever fails or is skipped,   *)
(* unless one crawl never ends: nothing else in the loop can go on forever. *)
BatchEnds == (pc # "off" ~> pc = "off") \/ <>[](pc = "crawl")

(* "Recheck the final ZIP/status path immediately before packaging so a    *)
(* file that appeared during the crawl is preserved rather than replaced." *)
ForeignKept ==
  [][\A b \in Books : zip[b] = Foreign => zip'[b] \in {Foreign, Nothing}]_vars
===============================================================================
