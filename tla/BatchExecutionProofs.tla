------------------------- MODULE BatchExecutionProofs -------------------------
(***************************************************************************)
(* The safety of a batch for every set of books, every window, cooldown    *)
(* and rental length, and any number of runs, faults and outside steps.    *)
(***************************************************************************)
EXTENDS BatchExecution, FiniteSetTheorems, TLAPS

(* What is known of the run that is being executed.                        *)
RunInv ==
  /\ ~Executing => cur = Idle
  /\ Executing =>
       /\ cur.run = Len(runs)
       /\ runs[cur.run].book = cur.book
       /\ runs[cur.run].mode = mode
       /\ \A r \in DOMAIN runs : runs[r].at <= runs[cur.run].at
       /\ pc # "failing" => runs[cur.run].state = "running"
  /\ \A r \in DOMAIN runs : runs[r].at <= clock

CatalogInv == TypeOK /\ RunInv /\ SuccessIsAtomic /\ NoOpenRun

(* Slots.  Of the windows that can still be entered, one without a          *)
(* reservation has had no more readers than restorations, and the run that  *)
(* is about to reserve has found its own window like that.                  *)
EnteredIn(t) == {r \in entered : SameWindow(runs[r].at, t)}
RestoredIn(t) == {i \in DOMAIN restored : SameWindow(restored[i], t)}
Taken(t) == \E b \in Books : InWindow(quota[b], t)
Even(t) == Cardinality(EnteredIn(t)) <= Cardinality(RestoredIn(t))
At == runs[cur.run].at

SlotTypeOK ==
  /\ entered \subseteq DOMAIN runs /\ IsFiniteSet(entered)
  /\ restored \in Seq(Times)
  /\ Site # "reserve" => entered = {}
  /\ Site = "reserve" => cur.seen = NoTime /\ \A b \in Books : quota[b] <= clock

SlotInv ==
  /\ pc = "enter" => Reserves /\ quota[cur.book] = At
  /\ pc = "open" /\ Reserves => quota[cur.book] < WindowStart(At)
  /\ pc \in {"open", "enter"} /\ Reserves => Even(At)
  /\ Site = "reserve" => \A t \in Times :
       WindowStart(clock) <= WindowStart(t) /\ ~Taken(t) => Even(t)

ReserveInv == SlotTypeOK /\ SlotInv /\ ReserveHolds /\ EntryIsReserved

(* Tickets.  A consumption that is not lost is in the Catalog, or it is the *)
(* one the current run has seen and has still to store; and a run that pays *)
(* began when all earlier ones were back.                                   *)
Stored(d) == d.at <= used
TicketInv ==
  /\ debits \subseteq [at : Times, run : DOMAIN runs]
  /\ \A d \in debits : d.at <= clock
  /\ cur.seen <= clock
  /\ pc \in {"open", "enter", "crawl", "record"} => ~cur.checked
  /\ pc \in {"recheck", "pack", "move", "status", "finalize"} => cur.checked
  /\ \A d \in debits : d.run \notin lost =>
       Stored(d) \/ (Executing /\ d.run = cur.run /\ d.at = cur.seen /\ ~cur.checked)
  /\ Executing /\ Site = "ticket" /\ cur.how = "quota" =>
       \A d \in debits : d.run < cur.run /\ d.run \notin lost => clock >= d.at + Cooldown
  /\ TicketNotSpentTwice

(* The library.  A ZIP that belongs to an artifact is of the newest one of  *)
(* its book, so moving it away concerns no other row.                       *)
FileInv ==
  /\ pc \notin {"off", "choose", "failing"} => status[cur.book] = "pending"
  /\ pc = "move" => zip[cur.book] \in {Nothing, Foreign}
  /\ pc = "status" \/ (pc = "finalize" /\ mode = "capture") => zip[cur.book] = cur.run
  /\ \A b \in Books : zip[b] \in DOMAIN runs => runs[zip[b]].book = b
  /\ \A b \in Books, s \in artifacts :
       zip[b] \in artifacts /\ runs[s].book = b => s <= zip[b]

RecrawlInv ==
  LET r == recrawl.run IN
  /\ recrawl.booked => r \in artifacts /\ locator[r] # "library"
  /\ recrawl.booked /\ locator[r] = "backup" => r \in backup \cup strayed
  /\ r \in artifacts /\ ~recrawl.booked => r \in backup \cup strayed

LibraryInv == FileInv /\ RecrawlInv /\ LocatorsLead
USE BatchAssumption
    DEF BatchAssumption, catalogVars, fileVars, batchVars, auxVars, Nothing, Foreign,
        NoTime, Executing, Leaves, GoesTo, Raises, Ended, StillOpen

LEMMA CandidateTypes ==
  /\ Idle \in Candidacies
  /\ Idle.run = Nothing /\ Idle.seen = NoTime
  BY DEF Idle, Candidacies

LEMMA InitCatalog == Init => CatalogInv
<1> SUFFICES ASSUME Init PROVE CatalogInv
  OBVIOUS
<1> USE DEF Init
<1>1. runs \in Seq(RunRows) /\ Len(runs) = 0 /\ DOMAIN runs = {} /\ DOMAIN plan = {}
  OBVIOUS
<1>2. CatalogTypeOK /\ FileTypeOK
  BY <1>1 DEF CatalogTypeOK, FileTypeOK, Files, Times
<1>3. BatchTypeOK
  BY <1>1, CandidateTypes DEF BatchTypeOK, Times, NoRecrawl
<1>4. RunInv /\ SuccessIsAtomic /\ NoOpenRun
  BY <1>1 DEF RunInv, SuccessIsAtomic, NoOpenRun
<1>5. QED
  BY <1>2, <1>3, <1>4 DEF CatalogInv, TypeOK

-------------------------------------------------------------------------------
(* Type correctness, one step per action.                                  *)

LEMMA PlanTypes ==
  ASSUME NEW m, NEW chosen \in SUBSET Paying
  PROVE  /\ DOMAIN Candidates(m, chosen) \subseteq Books
         /\ \A b \in DOMAIN Candidates(m, chosen) :
              Candidates(m, chosen)[b] \in {"direct", "quota"}
  BY DEF Candidates, Paying, Direct, Pending

LEMMA RowTypes ==
  ASSUME runs \in Seq(RunRows), NEW r \in DOMAIN runs
  PROVE  /\ runs[r].at \in Times /\ runs[r].book \in Books
         /\ runs[r].mode \in {"capture", "grant"} /\ runs[r].state \in RunStates
<1>1. runs[r] \in RunRows
  OBVIOUS
<1>2. QED
  BY <1>1 DEF RunRows

LEMMA EndedRows ==
  ASSUME runs \in Seq(RunRows), NEW r \in DOMAIN runs, NEW st \in RunStates,
         runs' = [runs EXCEPT ![r].state = st]
  PROVE  /\ runs' \in Seq(RunRows)
         /\ Len(runs') = Len(runs) /\ DOMAIN runs' = DOMAIN runs
         /\ \A q \in DOMAIN runs : /\ runs'[q].book = runs[q].book
                                   /\ runs'[q].at = runs[q].at
                                   /\ runs'[q].mode = runs[q].mode
                                   /\ runs'[q].state = (IF q = r THEN st ELSE runs[q].state)
<1>1. runs[r] \in RunRows
  OBVIOUS
<1> DEFINE row == [runs[r] EXCEPT !.state = st]
<1>2. row \in RunRows
  BY <1>1 DEF RunRows
<1>3. runs' = [runs EXCEPT ![r] = row]
  OBVIOUS
<1>4. row.book = runs[r].book /\ row.at = runs[r].at /\ row.mode = runs[r].mode /\ row.state = st
  BY <1>1 DEF RunRows
<1> HIDE DEF row
<1>5. QED
  BY <1>2, <1>3, <1>4

LEMMA NewRow ==
  ASSUME TypeOK, NEW b \in Books, Begin(b)
  PROVE  /\ runs' \in Seq(RunRows) /\ Len(runs') = Len(runs) + 1 /\ Len(runs') <= MaxRuns
         /\ DOMAIN runs' = DOMAIN runs \cup {Len(runs) + 1}
         /\ \A q \in DOMAIN runs : runs'[q] = runs[q]
         /\ runs'[Len(runs) + 1] = [book |-> b, at |-> clock, mode |-> mode, state |-> "running"]
<1> DEFINE row == [book |-> b, at |-> clock, mode |-> mode, state |-> "running"]
<1>1. row \in RunRows /\ runs' = Append(runs, row) /\ runs \in Seq(RunRows)
  BY DEF Begin, TypeOK, CatalogTypeOK, BatchTypeOK, RunRows, RunStates
<1> HIDE DEF row
<1>2. QED
  BY <1>1 DEF Begin, TypeOK, CatalogTypeOK, row

\* What the updates of the current candidate leave of its type.
SameCandidate == cur' \in Candidacies /\ cur'.book = cur.book /\ cur'.run = cur.run
                 /\ cur'.how = cur.how

LEMMA CandidateUpdates ==
  ASSUME TypeOK
  PROVE  /\ \A g \in BOOLEAN : cur' = [cur EXCEPT !.goOn = g] =>
              SameCandidate /\ cur'.seen = cur.seen /\ cur'.checked = cur.checked
         /\ cur' = [cur EXCEPT !.seen = clock] =>
              SameCandidate /\ cur'.seen = clock /\ cur'.checked = cur.checked
         /\ cur' = [cur EXCEPT !.checked = TRUE] =>
              SameCandidate /\ cur'.seen = cur.seen /\ cur'.checked
         /\ cur' = [[cur EXCEPT !.checked = TRUE] EXCEPT !.goOn = TRUE] =>
              SameCandidate /\ cur'.seen = cur.seen /\ cur'.checked
<1>1. cur \in Candidacies /\ clock \in Times
  BY DEF TypeOK, BatchTypeOK
<1>2. ASSUME NEW g \in BOOLEAN, cur' = [cur EXCEPT !.goOn = g]
      PROVE  SameCandidate /\ cur'.seen = cur.seen /\ cur'.checked = cur.checked
  BY <1>1, <1>2 DEF Candidacies, SameCandidate
<1>3. ASSUME cur' = [cur EXCEPT !.seen = clock]
      PROVE  SameCandidate /\ cur'.seen = clock /\ cur'.checked = cur.checked
  BY <1>1, <1>3 DEF Candidacies, SameCandidate
<1>4. ASSUME cur' = [cur EXCEPT !.checked = TRUE]
      PROVE  SameCandidate /\ cur'.seen = cur.seen /\ cur'.checked
  BY <1>1, <1>4 DEF Candidacies, SameCandidate
<1>5. ASSUME cur' = [[cur EXCEPT !.checked = TRUE] EXCEPT !.goOn = TRUE]
      PROVE  SameCandidate /\ cur'.seen = cur.seen /\ cur'.checked
  BY <1>1, <1>5 DEF Candidacies, SameCandidate
<1>6. QED
  BY <1>2, <1>3, <1>4, <1>5

LEMMA UseTypes ==
  ASSUME TypeOK, StoresUse
  PROVE  /\ quota' \in [Books -> Times \cup {NoTime}]
         /\ granted' \in [Books -> Int]
         /\ used' \in Times \cup {NoTime}
<1>1. cur.seen \in Times \cup {NoTime} /\ cur.seen \in Int
  BY DEF TypeOK, BatchTypeOK, Candidacies, Times
<1>2. QED
  BY <1>1 DEF TypeOK, CatalogTypeOK, StoresUse

LEMMA TypeStep ==
  ASSUME TypeOK, RunInv, Next
  PROVE  TypeOK'
<1> USE DEF TypeOK, CatalogTypeOK, FileTypeOK, BatchTypeOK, Files
<1>1. ASSUME NEW m \in {"capture", "grant"}, StartBatch(m) PROVE TypeOK'
  <2>1. PICK chosen \in SUBSET Paying : plan' = Candidates(m, chosen)
    BY <1>1 DEF StartBatch
  <2>2. DOMAIN plan' \subseteq Books /\ \A b \in DOMAIN plan' : plan'[b] \in {"direct", "quota"}
    BY <2>1, PlanTypes
  <2>3. QED
    BY <1>1, <2>2 DEF StartBatch
<1>2. CASE EndBatch
  BY <1>2, CandidateTypes DEF EndBatch
<1>3. ASSUME NEW b \in Books, Skip(b) PROVE TypeOK'
  BY <1>3 DEF Skip, Rest
<1>4. ASSUME NEW b \in Books, Refuse(b) PROVE TypeOK'
  BY <1>4, CandidateTypes DEF Refuse, Chooses
<1>5. ASSUME NEW b \in Books, Begin(b) PROVE TypeOK'
  <2>1. CatalogTypeOK' /\ FileTypeOK'
    BY <1>5, NewRow DEF Begin
  <2>2. plan[b] \in {"direct", "quota"} /\ b \in DOMAIN plan
    BY <1>5 DEF Begin, Chooses
  <2>3. cur' \in Candidacies /\ cur'.book = b /\ cur'.run = Len(runs) + 1
    <3>1. side[b] \in Int
      <4>1. Files \subseteq Int
        OBVIOUS
      <4>2. side[b] \in Files
        OBVIOUS
      <4>3. QED
        BY <4>1, <4>2
    <3>2. cur' = [book |-> b, run |-> Len(runs) + 1, how |-> plan[b], base |-> side[b],
                  seen |-> NoTime, checked |-> FALSE, goOn |-> FALSE]
      BY <1>5 DEF Begin, Idle
    <3>3. QED
      BY <2>2, <3>1, <3>2 DEF Candidacies
  <2>4. BatchTypeOK'
    BY <1>5, <2>2, <2>3, NewRow DEF Begin
  <2>5. QED
    BY <2>1, <2>4
<1>6. CASE Reserve
  <2>1. cur.run \in DOMAIN runs
    BY <1>6 DEF Reserve
  <2>2. runs[cur.run].at \in Times
    BY <2>1, RowTypes
  <2>3. QED
    BY <1>6, <2>2 DEF Reserve
<1>7. CASE Enter
  BY <1>7 DEF Enter, ReadyToEnter
<1>8. CASE CrawlEnds
  BY <1>8 DEF CrawlEnds
<1>9. CASE CrawlRaises
  BY <1>9, CandidateUpdates DEF CrawlRaises, SameCandidate
<1>10. CASE Debit
  BY <1>10, CandidateUpdates DEF Debit, SameCandidate
<1>11. CASE Record
  <2>1. CatalogTypeOK'
    BY <1>11, UseTypes DEF Record
  <2>2. SameCandidate
    BY <1>11, CandidateUpdates DEF Record
  <2>3. FileTypeOK' /\ BatchTypeOK'
    BY <1>11, <2>2 DEF Record, SameCandidate
  <2>4. QED
    BY <2>1, <2>3
<1>12. CASE Recheck
  BY <1>12, CandidateUpdates DEF Recheck, SameCandidate
<1>13. CASE PackCheck
  BY <1>13, CandidateUpdates DEF PackCheck, SameCandidate
<1>14. CASE PackMove
  BY <1>14 DEF PackMove
<1>15. CASE PackStatus
  BY <1>15 DEF PackStatus
<1>16. CASE Finalize
  <2>1. cur.run \in DOMAIN runs /\ "succeeded" \in RunStates
    BY <1>16 DEF Finalize, RunStates
  <2>2. runs' \in Seq(RunRows) /\ Len(runs') = Len(runs) /\ DOMAIN runs' = DOMAIN runs
    BY <1>16, <2>1, EndedRows DEF Finalize
  <2>3. CatalogTypeOK' /\ FileTypeOK'
    <3>1. /\ status' \in [Books -> {"pending", "completed"}]
          /\ artifacts' \subseteq DOMAIN runs
      <4>1. status \in [Books -> {"pending", "completed"}] /\ artifacts \subseteq DOMAIN runs
        OBVIOUS
      <4>2. \/ UNCHANGED <<artifacts, status>>
            \/ /\ artifacts' = artifacts \cup {cur.run}
               /\ status' = [status EXCEPT ![cur.book] = "completed"]
        BY <1>16 DEF Finalize
      <4>3. QED
        BY <2>1, <4>1, <4>2
    <3>2. locator' \in [1..MaxRuns -> {"none", "library", "backup", "missing"}]
      BY <1>16 DEF Finalize
    <3>3. QED
      BY <1>16, <2>2, <3>1, <3>2 DEF Finalize
  <2>4. SameCandidate \/ (pc' = "choose" /\ cur' = Idle) \/ (pc' = "off" /\ cur' = Idle)
    BY <1>16, CandidateUpdates DEF Finalize
  <2>5. cur' \in Candidacies /\ (Executing' => cur'.book = cur.book /\ cur'.run = cur.run)
    BY <2>4, CandidateTypes DEF SameCandidate
  <2>6. /\ DOMAIN plan' \subseteq DOMAIN plan
        /\ \A b \in DOMAIN plan' : plan'[b] = plan[b]
        /\ Executing' => plan' = plan
    <3>1. CASE plan' = Rest(cur.book) /\ pc' = "choose"
      BY <3>1 DEF Rest
    <3>2. CASE plan' = <<>> /\ pc' = "off"
      BY <3>2
    <3>3. CASE plan' = plan
      BY <3>3
    <3>4. QED
      BY <1>16, <3>1, <3>2, <3>3 DEF Finalize
  <2>7. pc' \in {"off", "choose", "failing"} /\ mode' = mode /\ recrawl' = recrawl
        /\ clock' = clock /\ artifacts \subseteq artifacts'
    BY <1>16 DEF Finalize
  <2>8. BatchTypeOK'
    BY <1>16, <2>2, <2>5, <2>6, <2>7 DEF Finalize
  <2>9. QED
    BY <2>3, <2>8
<1>17. CASE Fails
  BY <1>17, CandidateUpdates DEF Fails, SameCandidate
<1>18. CASE LateRecord
  <2>1. CatalogTypeOK'
    BY <1>18, UseTypes DEF LateRecord
  <2>2. SameCandidate
    BY <1>18, CandidateUpdates DEF LateRecord
  <2>3. FileTypeOK' /\ BatchTypeOK'
    BY <1>18, <2>2 DEF LateRecord, SameCandidate
  <2>4. QED
    BY <2>1, <2>3
<1>19. CASE FailRun
  <2>1. cur.run \in DOMAIN runs /\ "failed" \in RunStates
    BY <1>19 DEF FailRun, RunStates
  <2>2. runs' \in Seq(RunRows) /\ Len(runs') = Len(runs) /\ DOMAIN runs' = DOMAIN runs
    BY <1>19, <2>1, EndedRows DEF FailRun, RunFails
  <2>3. CatalogTypeOK' /\ FileTypeOK'
    BY <1>19, <2>2 DEF FailRun
  <2>4. BatchTypeOK'
    BY <1>19, <2>2, CandidateTypes DEF FailRun, Rest
  <2>5. QED
    BY <2>3, <2>4
<1>20. CASE Die
  BY <1>20, CandidateTypes DEF Die
<1>21. CASE Tick
  BY <1>21 DEF Tick, Times
<1>22. ASSUME NEW b \in Books, RestoreQuota(b) PROVE TypeOK'
  <2>1. CatalogTypeOK'
    BY <1>22 DEF RestoreQuota
  <2>2. FileTypeOK' /\ BatchTypeOK'
    BY <1>22 DEF RestoreQuota
  <2>3. QED
    BY <2>1, <2>2
<1>23. ASSUME NEW b \in Books, ForeignZip(b) \/ ForeignStatus(b) PROVE TypeOK'
  BY <1>23 DEF ForeignZip, ForeignStatus
<1>24. ASSUME NEW b \in Books, NEW r \in artifacts, RecrawlMove(b, r) PROVE TypeOK'
  <2>1. CatalogTypeOK' /\ BatchTypeOK'
    BY <1>24 DEF RecrawlMove
  <2>2. zip' \in [Books -> Files] /\ backup' \subseteq Files /\ Files' = Files
    <3>1. Files' = Files /\ zip[b] \in Files /\ Nothing \in Files
      BY <1>24 DEF RecrawlMove
    <3>2. CASE zip' = [zip EXCEPT ![b] = Nothing] /\ backup' = backup \cup {zip[b]}
      <4> HIDE DEF Files
      <4>1. QED
        BY <3>1, <3>2
    <3>3. CASE UNCHANGED <<zip, backup>>
      BY <3>1, <3>3
    <3>4. QED
      BY <1>24, <3>2, <3>3 DEF RecrawlMove
  <2>3. QED
    BY <1>24, <2>1, <2>2 DEF RecrawlMove
<1>25. ASSUME NEW b \in Books, NEW r \in artifacts, RecrawlMissing(b, r) PROVE TypeOK'
  BY <1>25 DEF RecrawlMissing
<1>26. CASE RecrawlLocate
  BY <1>26 DEF RecrawlLocate, NoRecrawl
<1>27. CASE RecrawlPending
  BY <1>27 DEF RecrawlPending, NoRecrawl
<1>28. CASE RecrawlFails
  BY <1>28 DEF RecrawlFails, NoRecrawl
<1>29. QED
  BY <1>1, <1>2, <1>3, <1>4, <1>5, <1>6, <1>7, <1>8, <1>9, <1>10, <1>11, <1>12, <1>13,
     <1>14, <1>15, <1>16, <1>17, <1>18, <1>19, <1>20, <1>21, <1>22, <1>23, <1>24, <1>25,
     <1>26, <1>27, <1>28
  DEF Next, Batch, Crawl, Others, Candidate
-------------------------------------------------------------------------------
(* The account of runs and artifacts.  Most steps leave it alone: they go   *)
(* on with the current run, or happen while there is none or beside it.     *)

KeepsCatalog ==
  /\ UNCHANGED <<runs, artifacts>>
  /\ left \subseteq left'
  /\ \A b \in Books : status'[b] = "completed" => status[b] = "completed"

GoesOn ==
  /\ KeepsCatalog /\ UNCHANGED <<clock, mode, plan>>
  /\ Executing /\ Executing' /\ SameCandidate
  /\ pc = "failing" => pc' = "failing"

Beside == KeepsCatalog /\ UNCHANGED <<pc, mode, cur>> /\ clock' \in Times /\ clock <= clock'

LEMMA GoingOn ==
  ASSUME TypeOK,
         Reserve \/ Enter \/ CrawlEnds \/ CrawlRaises \/ Debit \/ Record \/ Recheck
           \/ PackCheck \/ PackMove \/ PackStatus \/ Fails \/ LateRecord
  PROVE  GoesOn
<1> USE DEF GoesOn, KeepsCatalog
<1>1. cur \in Candidacies /\ (UNCHANGED cur => SameCandidate)
  BY DEF TypeOK, BatchTypeOK, SameCandidate
<1>2. CASE Reserve \/ Enter
  BY <1>1, <1>2 DEF Reserve, Enter, ReadyToEnter
<1>3. CASE CrawlEnds \/ CrawlRaises \/ Fails
  BY <1>1, <1>3, CandidateUpdates DEF CrawlEnds, CrawlRaises, Fails
<1>4. CASE Debit \/ LateRecord
  BY <1>1, <1>4, CandidateUpdates DEF Debit, LateRecord
<1>5. CASE Record
  BY <1>5, CandidateUpdates DEF Record
<1>6. CASE Recheck \/ PackCheck
  BY <1>1, <1>6, CandidateUpdates DEF Recheck, PackCheck
<1>7. CASE PackMove \/ PackStatus
  BY <1>1, <1>7 DEF PackMove, PackStatus
<1>8. QED
  BY <1>2, <1>3, <1>4, <1>5, <1>6, <1>7

LEMMA GoingBeside ==
  ASSUME TypeOK, Others \/ \E b \in Books : Skip(b)
  PROVE  Beside
<1> USE DEF Beside, KeepsCatalog
<1>1. clock \in Times
  BY DEF TypeOK, BatchTypeOK
<1>2. ASSUME NEW b \in Books, Skip(b) PROVE Beside
  BY <1>1, <1>2 DEF Skip, Times
<1>3. CASE Tick
  BY <1>1, <1>3 DEF Tick, Times
<1>4. ASSUME NEW b \in Books, RestoreQuota(b) \/ ForeignZip(b) \/ ForeignStatus(b)
      PROVE  Beside
  BY <1>1, <1>4 DEF RestoreQuota, ForeignZip, ForeignStatus, Times
<1>5. ASSUME NEW b \in Books, NEW r \in artifacts, RecrawlMove(b, r) \/ RecrawlMissing(b, r)
      PROVE  Beside
  BY <1>1, <1>5 DEF RecrawlMove, RecrawlMissing, Times
<1>6. CASE RecrawlLocate \/ RecrawlFails
  BY <1>1, <1>6 DEF RecrawlLocate, RecrawlFails, Times
<1>7. CASE RecrawlPending
  <2>1. \A b \in Books : status'[b] = "completed" => status[b] = "completed"
    BY <1>7 DEF RecrawlPending, TypeOK, CatalogTypeOK
  <2>2. QED
    BY <1>1, <1>7, <2>1 DEF RecrawlPending, Times
<1>8. QED
  BY <1>2, <1>3, <1>4, <1>5, <1>6, <1>7 DEF Others

\* A step that starts nothing and leaves no run behind.
BetweenRuns ==
  KeepsCatalog /\ ~Executing /\ ~Executing' /\ cur' = Idle /\ clock' = clock

LEMMA GoingBetween ==
  ASSUME RunInv,
         (\E m \in {"capture", "grant"} : StartBatch(m)) \/ EndBatch
           \/ \E b \in Books : Refuse(b)
  PROVE  BetweenRuns
<1> USE DEF BetweenRuns, KeepsCatalog, RunInv
<1>1. ASSUME NEW m \in {"capture", "grant"}, StartBatch(m) PROVE BetweenRuns
  BY <1>1 DEF StartBatch
<1>2. CASE EndBatch
  BY <1>2 DEF EndBatch
<1>3. ASSUME NEW b \in Books, Refuse(b) PROVE BetweenRuns
  BY <1>3 DEF Refuse, Chooses
<1>4. QED
  BY <1>1, <1>2, <1>3

LEMMA StepKinds ==
  ASSUME TypeOK, RunInv, Next
  PROVE  \/ GoesOn \/ Beside \/ BetweenRuns
         \/ Finalize \/ FailRun \/ Die
         \/ \E b \in Books : Begin(b)
  BY GoingOn, GoingBeside, GoingBetween DEF Next, Batch, Crawl, Candidate

LEMMA CatalogStep ==
  ASSUME CatalogInv, Next
  PROVE  CatalogInv'
<1> USE DEF CatalogInv
<1>1. TypeOK'
  BY TypeStep
<1>2. /\ clock \in Nat /\ Len(runs) \in Nat /\ DOMAIN runs = 1..Len(runs)
      /\ artifacts \subseteq DOMAIN runs
      /\ Executing => cur.run \in DOMAIN runs
  BY DEF TypeOK, CatalogTypeOK, BatchTypeOK, Times
<1>3. \A r \in DOMAIN runs : runs[r].at \in Nat
  BY RowTypes DEF TypeOK, CatalogTypeOK, Times
<1> USE DEF RunInv, SuccessIsAtomic, NoOpenRun
<1>4. CASE GoesOn
  BY <1>1, <1>4 DEF GoesOn, KeepsCatalog, SameCandidate
<1>5. CASE Beside
  <2>1. clock' \in Nat /\ clock <= clock'
    BY <1>5 DEF Beside, Times
  <2>2. RunInv'
    BY <1>2, <1>3, <1>5, <2>1 DEF Beside, KeepsCatalog
  <2>3. SuccessIsAtomic' /\ NoOpenRun'
    BY <1>5 DEF Beside, KeepsCatalog
  <2>4. QED
    BY <1>1, <2>2, <2>3
<1>6. CASE BetweenRuns
  BY <1>1, <1>6 DEF BetweenRuns, KeepsCatalog
<1>7. ASSUME NEW b \in Books, Begin(b) PROVE CatalogInv'
  <2>1. /\ ~Executing /\ Executing' /\ pc' = "open" /\ cur'.run = Len(runs) + 1
        /\ cur'.book = b /\ UNCHANGED <<status, artifacts, left, mode, clock>>
    BY <1>7 DEF Begin, Chooses, Idle
  <2> DEFINE new == Len(runs) + 1
  <2>2. /\ Len(runs') = new /\ DOMAIN runs' = DOMAIN runs \cup {new} /\ new \notin DOMAIN runs
        /\ \A q \in DOMAIN runs : runs'[q] = runs[q]
        /\ runs'[new].book = b /\ runs'[new].at = clock /\ runs'[new].mode = mode
        /\ runs'[new].state = "running"
    <3>1. /\ Len(runs') = new /\ DOMAIN runs' = DOMAIN runs \cup {new}
          /\ \A q \in DOMAIN runs : runs'[q] = runs[q]
          /\ runs'[new] = [book |-> b, at |-> clock, mode |-> mode, state |-> "running"]
      BY <1>7, NewRow
    <3>2. new \notin DOMAIN runs
      BY <1>2
    <3> HIDE DEF new
    <3>3. /\ runs'[new].book = b /\ runs'[new].at = clock /\ runs'[new].mode = mode
          /\ runs'[new].state = "running"
      BY <3>1
    <3>4. QED
      BY <3>1, <3>2, <3>3
  <2> HIDE DEF new
  <2>3. cur'.run = new
    BY <2>1 DEF new
  <2>4. RunInv'
    BY <1>2, <1>3, <2>1, <2>2, <2>3
  <2>5. SuccessIsAtomic'
    BY <1>2, <2>1, <2>2
  <2>6. NoOpenRun'
    BY <2>1, <2>2, <2>3
  <2>7. QED
    BY <1>1, <2>4, <2>5, <2>6
<1>8. ASSUME Executing, StillOpen, NEW st \in {"succeeded", "failed"}, Ended(st)
      PROVE  /\ DOMAIN runs' = DOMAIN runs /\ Len(runs') = Len(runs)
             /\ \A q \in DOMAIN runs : /\ runs'[q].book = runs[q].book
                                       /\ runs'[q].at = runs[q].at
                                       /\ runs'[q].mode = runs[q].mode
                                       /\ runs'[q].state = (IF q = cur.run THEN st ELSE runs[q].state)
  BY <1>2, <1>8, EndedRows DEF TypeOK, CatalogTypeOK, RunStates
<1>9. CASE Finalize
  <2>1. Executing /\ StillOpen /\ Ended("succeeded") /\ UNCHANGED <<clock, mode, left>>
    BY <1>9 DEF Finalize
  <2>2. (~Executing' /\ cur' = Idle) \/ (pc' = "failing" /\ SameCandidate)
    BY <1>9, CandidateUpdates DEF Finalize
  <2>3. RunInv'
    BY <1>2, <1>8, <2>1, <2>2 DEF SameCandidate
  <2>4. SuccessIsAtomic'
    <3>1. CASE mode = "capture"
      <4>1. /\ artifacts' = artifacts \cup {cur.run}
            /\ status' = [status EXCEPT ![cur.book] = "completed"]
        BY <1>9, <3>1 DEF Finalize
      <4>2. runs[cur.run].book = cur.book /\ runs[cur.run].mode = "capture"
        BY <2>1, <3>1
      <4>3. status \in [Books -> {"pending", "completed"}]
        BY DEF TypeOK, CatalogTypeOK
      <4>4. QED
        BY <1>2, <1>8, <2>1, <4>1, <4>2, <4>3
    <3>2. CASE mode # "capture"
      <4>1. UNCHANGED <<artifacts, status>> /\ runs[cur.run].mode # "capture"
        BY <1>9, <2>1, <3>2 DEF Finalize
      <4>2. /\ DOMAIN runs' = DOMAIN runs
            /\ \A r \in DOMAIN runs :
                 /\ runs'[r].book = runs[r].book /\ runs'[r].mode = runs[r].mode
                 /\ r # cur.run => runs'[r].state = runs[r].state
        BY <1>8, <2>1
      <4>3. \A r \in DOMAIN runs :
              r \in artifacts <=> runs'[r].mode = "capture" /\ runs'[r].state = "succeeded"
        BY <4>1, <4>2 DEF SuccessIsAtomic
      <4>4. \A b \in Books : status[b] = "completed" =>
              \E r \in artifacts : runs'[r].book = b
        BY <1>2, <4>2 DEF SuccessIsAtomic
      <4>5. QED
        BY <4>1, <4>2, <4>3, <4>4 DEF SuccessIsAtomic
    <3>3. QED
      BY <3>1, <3>2
  <2>5. NoOpenRun'
    BY <1>8, <2>1
  <2>6. QED
    BY <1>1, <2>3, <2>4, <2>5
<1>10. CASE FailRun
  <2>1. /\ Executing /\ ~Executing' /\ cur' = Idle
        /\ UNCHANGED <<clock, mode, status, artifacts>>
    BY <1>10 DEF FailRun
  <2>2. CASE StillOpen /\ Ended("failed") /\ UNCHANGED left
    BY <1>1, <1>2, <1>8, <2>1, <2>2
  <2>3. CASE ~StillOpen /\ UNCHANGED <<runs, left>>
    BY <1>1, <1>2, <2>1, <2>3
  <2>4. CASE left' = left \cup {cur.run} /\ UNCHANGED runs
    BY <1>1, <1>2, <2>1, <2>4
  <2>5. QED
    BY <1>10, <2>2, <2>3, <2>4 DEF FailRun, RunFails
<1>11. CASE Die
  <2>1. ~Executing' /\ cur' = Idle /\ UNCHANGED <<clock, runs, status, artifacts, mode>>
    BY <1>11 DEF Die
  <2>2. left' = IF cur.run = Nothing THEN left ELSE left \cup {cur.run}
    BY <1>11 DEF Die
  <2>3. QED
    BY <1>1, <1>2, <2>1, <2>2, CandidateTypes
<1>12. QED
  BY <1>4, <1>5, <1>6, <1>7, <1>9, <1>10, <1>11, StepKinds
-------------------------------------------------------------------------------
(* The library: what the ZIPs are of, and where the artifact rows lead.     *)

LEMMA InitLibrary == Init => LibraryInv
<1> SUFFICES ASSUME Init PROVE LibraryInv
  OBVIOUS
<1> USE DEF Init
<1>1. DOMAIN runs = {}
  OBVIOUS
<1>2. QED
  BY <1>1 DEF LibraryInv, FileInv, RecrawlInv, LocatorsLead, NoRecrawl

\* The facts about the types that the library needs, with integers apart.
LibraryTypes ==
  /\ DOMAIN runs = 1..Len(runs) /\ Len(runs) \in Nat
  /\ artifacts \subseteq DOMAIN runs
  /\ zip \in [Books -> DOMAIN runs \cup {Nothing, Foreign}]
  /\ status \in [Books -> {"pending", "completed"}]
  /\ \A r \in DOMAIN runs : runs[r].book \in Books
  /\ \A r \in DOMAIN runs : r \in DOMAIN locator
  /\ recrawl.run \in artifacts \cup {Nothing}
  /\ recrawl = NoRecrawl => recrawl.run = Nothing /\ ~recrawl.booked
  /\ Executing => cur.run \in DOMAIN runs /\ cur.run = Len(runs) /\ cur.book \in Books
                  /\ runs[cur.run].book = cur.book
  /\ Executing /\ pc # "failing" => cur.run \notin artifacts

LEMMA LibraryTyped ==
  ASSUME CatalogInv
  PROVE  LibraryTypes
<1>1. /\ DOMAIN runs = 1..Len(runs) /\ Len(runs) \in Nat /\ artifacts \subseteq DOMAIN runs
      /\ zip \in [Books -> DOMAIN runs \cup {Nothing, Foreign}]
      /\ status \in [Books -> {"pending", "completed"}]
      /\ recrawl.run \in artifacts \cup {Nothing}
  BY DEF CatalogInv, TypeOK, CatalogTypeOK, FileTypeOK, BatchTypeOK, Files
<1>2. \A r \in DOMAIN runs : runs[r].book \in Books
  BY RowTypes DEF CatalogInv, TypeOK, CatalogTypeOK
<1>3. \A r \in DOMAIN runs : r \in DOMAIN locator
  BY <1>1 DEF CatalogInv, TypeOK, CatalogTypeOK
<1>4. recrawl = NoRecrawl => recrawl.run = Nothing /\ ~recrawl.booked
  BY DEF NoRecrawl
<1>5. Executing => cur.run \in DOMAIN runs /\ cur.run = Len(runs) /\ cur.book \in Books
                  /\ runs[cur.run].book = cur.book
  BY DEF CatalogInv, TypeOK, BatchTypeOK, RunInv
<1>6. Executing /\ pc # "failing" => cur.run \notin artifacts
  BY <1>5 DEF CatalogInv, RunInv, SuccessIsAtomic
<1>7. QED
  BY <1>1, <1>2, <1>3, <1>4, <1>5, <1>6 DEF LibraryTypes

\* No row, file or locator changes, and runs keep their books.
SameRows ==
  /\ DOMAIN runs \subseteq DOMAIN runs'
  /\ \A r \in DOMAIN runs : runs'[r].book = runs[r].book
SameFiles == SameRows /\ UNCHANGED <<artifacts, locator, zip, backup, recrawl, strayed>>
SameLibrary == SameFiles /\ DOMAIN runs' = DOMAIN runs

\* The candidate the packaging is at, if it is at one.
SamePlace ==
  /\ mode' = mode
  /\ pc' \notin {"off", "choose", "failing"} =>
       /\ pc \notin {"off", "choose", "failing"}
       /\ cur'.book = cur.book /\ cur'.run = cur.run
       /\ status'[cur.book] = "pending" \/ status'[cur.book] = status[cur.book]
  /\ pc' = "move" => pc = "move" \/ zip[cur.book] = Nothing
  /\ pc' = "status" => pc = "status"
  /\ pc' = "finalize" /\ mode = "capture" => pc \in {"finalize", "status"}

LEMMA PlaceKept ==
  ASSUME TypeOK, RunInv,
         \/ (\E m \in {"capture", "grant"} : StartBatch(m)) \/ EndBatch
         \/ (\E b \in Books : Skip(b) \/ Refuse(b) \/ RestoreQuota(b) \/ ForeignStatus(b))
         \/ Reserve \/ Enter \/ CrawlEnds \/ CrawlRaises \/ Debit \/ Record \/ Recheck
         \/ PackCheck \/ PackStatus \/ Fails \/ LateRecord \/ FailRun \/ Die \/ Tick
  PROVE  SameLibrary /\ (pc \in {"off", "choose"} \/ SamePlace)
                     /\ (pc \in {"off", "choose"} => pc' \in {"off", "choose"})
<1> USE DEF SameLibrary, SameFiles, SameRows, SamePlace
<1>1. ASSUME NEW m \in {"capture", "grant"}, StartBatch(m) PROVE
             SameLibrary /\ pc \in {"off", "choose"} /\ pc' \in {"off", "choose"}
  BY <1>1 DEF StartBatch
<1>2. ASSUME EndBatch \/ \E b \in Books : Skip(b) \/ Refuse(b)
      PROVE  SameLibrary /\ pc \in {"off", "choose"} /\ pc' \in {"off", "choose"}
  BY <1>2 DEF EndBatch, Skip, Refuse, Chooses
<1>3. ASSUME Tick \/ \E b \in Books : RestoreQuota(b) \/ ForeignStatus(b)
      PROVE  SameLibrary /\ SamePlace /\ pc' = pc
  BY <1>3 DEF RestoreQuota, ForeignStatus, Tick
<1>4. ASSUME Reserve \/ Enter \/ CrawlEnds \/ CrawlRaises \/ Debit \/ Record \/ Recheck
               \/ PackCheck \/ PackStatus \/ Fails \/ LateRecord
      PROVE  SameLibrary /\ SamePlace /\ pc \notin {"off", "choose"}
  <2>1. SameCandidate /\ pc \notin {"off", "choose"} /\ mode' = mode /\ UNCHANGED runs
        /\ (pc = "failing" => pc' = "failing")
    BY <1>4, GoingOn DEF GoesOn, KeepsCatalog
  <2>2. CASE Reserve \/ Enter \/ CrawlEnds \/ CrawlRaises \/ Debit
    BY <2>1, <2>2 DEF Reserve, Enter, ReadyToEnter, CrawlEnds, CrawlRaises, Debit, SameCandidate
  <2>3. CASE Record
    BY <2>1, <2>3 DEF Record, SameCandidate
  <2>4. CASE Recheck \/ PackCheck \/ PackStatus
    BY <2>1, <2>4 DEF Recheck, PackCheck, PackStatus, SameCandidate
  <2>5. CASE Fails \/ LateRecord
    BY <2>1, <2>5 DEF Fails, LateRecord, SameCandidate
  <2>6. QED
    BY <1>4, <2>1, <2>2, <2>3, <2>4, <2>5
<1>5. CASE FailRun
  <2>1. cur.run \in DOMAIN runs /\ runs \in Seq(RunRows) /\ "failed" \in RunStates
    BY <1>5 DEF FailRun, TypeOK, BatchTypeOK, CatalogTypeOK, RunStates
  <2>2. SameRows /\ DOMAIN runs' = DOMAIN runs
    BY <1>5, <2>1, EndedRows DEF FailRun, RunFails
  <2>3. QED
    BY <1>5, <2>2 DEF FailRun
<1>6. CASE Die
  BY <1>6 DEF Die
<1>7. QED
  BY <1>1, <1>2, <1>3, <1>4, <1>5, <1>6
LEMMA LibraryStep ==
  ASSUME CatalogInv, LibraryInv, Next
  PROVE  LibraryInv'
<1> USE DEF LibraryInv
<1>1. LibraryTypes /\ TypeOK /\ RunInv
  BY LibraryTyped DEF CatalogInv
<1>2. ASSUME SameLibrary, pc \in {"off", "choose"} \/ SamePlace,
             pc \in {"off", "choose"} => pc' \in {"off", "choose"}
      PROVE  LibraryInv'
  <2> USE DEF SameLibrary, SameFiles, SameRows
  <2>1. FileInv'
    BY <1>1, <1>2 DEF FileInv, SamePlace, LibraryTypes
  <2>2. RecrawlInv' /\ LocatorsLead'
    BY <1>1, <1>2 DEF RecrawlInv, LocatorsLead, LibraryTypes
  <2>3. QED
    BY <2>1, <2>2
<1>4. ASSUME NEW b \in Books, Begin(b) PROVE LibraryInv'
  <2>1. SameFiles /\ ~Executing /\ pc' = "open" /\ cur'.book = b /\ status' = status
        /\ status[b] = "pending"
    BY <1>1, <1>4, NewRow DEF Begin, Chooses, Valid, Idle, SameFiles, SameRows
  <2>2. DOMAIN runs' = DOMAIN runs \cup {Len(runs) + 1}
    BY <1>1, <1>4, NewRow
  <2>3. \A c \in Books : zip[c] \in DOMAIN runs' => zip[c] \in DOMAIN runs
    BY <1>1, <2>2 DEF LibraryTypes
  <2>4. FileInv'
    BY <1>1, <2>1, <2>3 DEF FileInv, SameFiles, SameRows, LibraryTypes
  <2>5. RecrawlInv' /\ LocatorsLead'
    BY <1>1, <2>1 DEF RecrawlInv, LocatorsLead, SameFiles, SameRows, LibraryTypes
  <2>6. QED
    BY <2>4, <2>5
<1>5. CASE PackMove
  <2>1. /\ pc = "move" /\ pc' = "status" /\ Executing
        /\ UNCHANGED <<runs, artifacts, locator, status, backup, recrawl, strayed, cur>>
        /\ zip' = [zip EXCEPT ![cur.book] = cur.run]
    BY <1>5 DEF PackMove
  <2>2. /\ zip'[cur.book] = cur.run /\ \A b \in Books \ {cur.book} : zip'[b] = zip[b]
        /\ zip[cur.book] \notin DOMAIN runs /\ cur.run \notin artifacts
        /\ runs[cur.run].book = cur.book
    BY <1>1, <2>1 DEF FileInv, LibraryTypes
  <2>3. FileInv'
    BY <1>1, <2>1, <2>2 DEF FileInv, LibraryTypes
  <2>4. RecrawlInv' /\ LocatorsLead'
    BY <1>1, <2>1, <2>2 DEF RecrawlInv, LocatorsLead, LibraryTypes
  <2>5. QED
    BY <2>3, <2>4
<1>6. CASE Finalize
  <2>1. /\ pc = "finalize" /\ pc' \in {"off", "choose", "failing"} /\ Executing
        /\ UNCHANGED <<zip, backup, recrawl, strayed>>
        /\ \/ /\ mode = "capture" /\ artifacts' = artifacts \cup {cur.run}
              /\ locator' = [locator EXCEPT ![cur.run] = "library"]
           \/ UNCHANGED <<artifacts, locator>>
    BY <1>6 DEF Finalize
  <2>2. SameRows /\ DOMAIN runs' = DOMAIN runs
    <3>1. cur.run \in DOMAIN runs /\ runs \in Seq(RunRows) /\ "succeeded" \in RunStates
      BY <1>1, <2>1 DEF TypeOK, BatchTypeOK, CatalogTypeOK, RunStates
    <3>2. QED
      BY <1>6, <3>1, EndedRows DEF Finalize, SameRows
  <2>3. CASE UNCHANGED <<artifacts, locator>>
    BY <1>1, <2>1, <2>2, <2>3 DEF FileInv, RecrawlInv, LocatorsLead, SameRows, LibraryTypes
  <2>4. CASE /\ mode = "capture" /\ artifacts' = artifacts \cup {cur.run}
             /\ locator' = [locator EXCEPT ![cur.run] = "library"]
    <3>1. /\ zip[cur.book] = cur.run /\ cur.run \notin artifacts /\ cur.run = Len(runs)
          /\ runs[cur.run].book = cur.book
      BY <1>1, <2>1, <2>4 DEF FileInv, LibraryTypes
    <3>2. locator'[cur.run] = "library" /\ \A r \in artifacts : locator'[r] = locator[r]
      BY <1>1, <2>1, <2>4, <3>1 DEF LibraryTypes
    <3>3. FileInv'
      <4>1. \A b \in Books : zip'[b] \in DOMAIN runs' => runs'[zip'[b]].book = b
        BY <2>1, <2>2 DEF FileInv, SameRows
      <4>2. ASSUME NEW b \in Books, NEW s \in artifacts', zip'[b] \in artifacts',
                   runs'[s].book = b
            PROVE  s <= zip'[b]
        <5>1. CASE zip[b] = cur.run
          BY <1>1, <2>1, <2>4, <3>1, <5>1 DEF LibraryTypes
        <5>2. CASE zip[b] # cur.run
          <6>1. b # cur.book /\ zip[b] \in artifacts /\ s \in artifacts /\ runs[s].book = b
            BY <1>1, <2>1, <2>2, <2>4, <3>1, <4>2, <5>2 DEF SameRows, LibraryTypes
          <6>2. QED
            BY <2>1, <6>1 DEF FileInv
        <5>3. QED
          BY <5>1, <5>2
      <4>3. QED
        BY <2>1, <4>1, <4>2 DEF FileInv
    <3>4. LocatorsLead'
      <4>1. ASSUME NEW r \in artifacts' \ (strayed' \cup {recrawl'.run})
            PROVE  /\ locator'[r] = "library" => zip'[runs'[r].book] = r
                   /\ locator'[r] = "backup" => r \in backup'
        <5>1. CASE r = cur.run
          BY <1>1, <2>1, <2>2, <3>1, <3>2, <5>1 DEF SameRows, LibraryTypes
        <5>2. CASE r # cur.run
          <6>1. r \in artifacts \ (strayed \cup {recrawl.run})
            BY <2>1, <2>4, <4>1, <5>2
          <6>2. QED
            BY <1>1, <2>1, <2>2, <3>2, <6>1 DEF LocatorsLead, SameRows, LibraryTypes
        <5>3. QED
          BY <5>1, <5>2
      <4>2. QED
        BY <4>1 DEF LocatorsLead
    <3>5. RecrawlInv'
      BY <1>1, <2>1, <2>4, <3>1, <3>2 DEF RecrawlInv, LibraryTypes
    <3>6. QED
      BY <3>3, <3>4, <3>5
  <2>5. QED
    BY <2>1, <2>3, <2>4
<1>7. ASSUME NEW b \in Books, ForeignZip(b) PROVE LibraryInv'
  <2>1. /\ zip[b] = Nothing /\ zip' = [zip EXCEPT ![b] = Foreign]
        /\ UNCHANGED <<runs, artifacts, locator, status, backup, recrawl, strayed, pc, cur, mode>>
    BY <1>7 DEF ForeignZip
  <2>2. /\ zip'[b] = Foreign /\ \A c \in Books \ {b} : zip'[c] = zip[c]
        /\ Nothing \notin DOMAIN runs /\ Foreign \notin DOMAIN runs
    BY <1>1, <2>1 DEF LibraryTypes
  <2>3. FileInv'
    BY <1>1, <2>1, <2>2 DEF FileInv, LibraryTypes
  <2>4. RecrawlInv' /\ LocatorsLead'
    BY <1>1, <2>1, <2>2 DEF RecrawlInv, LocatorsLead, LibraryTypes
  <2>5. QED
    BY <2>3, <2>4
<1>8. ASSUME NEW b \in Books, NEW r \in artifacts, RecrawlMove(b, r) PROVE LibraryInv'
  <2>1. /\ Shelved(b, r) /\ AtLocator(b, r)
        /\ UNCHANGED <<runs, artifacts, locator, status, strayed, pc, cur, mode>>
        /\ recrawl' = [run |-> r, booked |-> FALSE]
    BY <1>8 DEF RecrawlMove
  <2>2. /\ recrawl.run = Nothing /\ status[b] = "completed" /\ runs[r].book = b
        /\ \A s \in artifacts : runs[s].book = b => s <= r
    BY <1>1, <2>1 DEF Shelved, LibraryTypes
  <2>3. r \notin strayed =>
          /\ locator[r] = "library" => zip[b] = r
          /\ locator[r] = "backup" => r \in backup
    BY <1>1, <2>2 DEF LocatorsLead, LibraryTypes
  <2>4. CASE locator[r] = "library"
    <3>1. zip' = [zip EXCEPT ![b] = Nothing] /\ backup' = backup \cup {zip[b]}
      BY <1>8, <2>4 DEF RecrawlMove
    <3>2. /\ zip'[b] = Nothing /\ \A c \in Books \ {b} : zip'[c] = zip[c]
          /\ Nothing \notin DOMAIN runs
      BY <1>1, <3>1 DEF LibraryTypes
    <3>3. FileInv'
      BY <1>1, <2>1, <2>2, <3>2 DEF FileInv, LibraryTypes
    <3>4. RecrawlInv'
      BY <2>1, <2>3, <2>4, <3>1 DEF RecrawlInv
    <3>5. LocatorsLead'
      <4>1. ASSUME NEW s \in artifacts \ (strayed \cup {r}), locator[s] = "library"
            PROVE  zip'[runs[s].book] = s
        <5>1. zip[runs[s].book] = s
          BY <1>1, <2>2, <4>1 DEF LocatorsLead, LibraryTypes
        <5>2. runs[s].book # b
          BY <1>1, <2>2, <5>1, <4>1 DEF FileInv, LibraryTypes
        <5>3. QED
          BY <1>1, <3>2, <5>1, <5>2 DEF LibraryTypes
      <4>2. \A s \in artifacts \ (strayed \cup {r}) : locator[s] = "backup" => s \in backup'
        BY <1>1, <2>2, <3>1 DEF LocatorsLead, LibraryTypes
      <4>3. QED
        BY <2>1, <4>1, <4>2 DEF LocatorsLead
    <3>6. QED
      BY <3>3, <3>4, <3>5
  <2>5. CASE locator[r] # "library"
    <3>1. UNCHANGED <<zip, backup>> /\ locator[r] = "backup"
      BY <1>8, <2>1, <2>5 DEF RecrawlMove, AtLocator
    <3>2. FileInv' /\ RecrawlInv'
      BY <2>1, <2>3, <3>1 DEF FileInv, RecrawlInv
    <3>3. LocatorsLead'
      BY <1>1, <2>1, <2>2, <3>1 DEF LocatorsLead, LibraryTypes
    <3>4. QED
      BY <3>2, <3>3
  <2>6. QED
    BY <2>4, <2>5
<1>9. ASSUME NEW b \in Books, NEW r \in artifacts, RecrawlMissing(b, r) PROVE LibraryInv'
  <2>1. /\ recrawl.run = Nothing
        /\ UNCHANGED <<runs, artifacts, zip, backup, status, strayed, pc, cur, mode>>
        /\ recrawl' = [run |-> r, booked |-> TRUE]
        /\ locator' = [locator EXCEPT ![r] = "missing"]
    BY <1>1, <1>9 DEF RecrawlMissing, Shelved, LibraryTypes
  <2>2. locator'[r] = "missing" /\ \A s \in artifacts \ {r} : locator'[s] = locator[s]
    BY <1>1, <2>1 DEF LibraryTypes
  <2>3. FileInv' /\ RecrawlInv'
    BY <2>1, <2>2 DEF FileInv, RecrawlInv
  <2>4. LocatorsLead'
    BY <1>1, <2>1, <2>2 DEF LocatorsLead, LibraryTypes
  <2>5. QED
    BY <2>3, <2>4
<1>10. CASE RecrawlLocate
  <2>1. /\ recrawl # NoRecrawl /\ ~recrawl.booked
        /\ UNCHANGED <<runs, artifacts, zip, backup, status, strayed, pc, cur, mode>>
        /\ recrawl'.run = recrawl.run /\ recrawl'.booked
        /\ locator' = [locator EXCEPT ![recrawl.run] = "backup"]
    BY <1>10, <1>1 DEF RecrawlLocate, TypeOK, BatchTypeOK
  <2>2. recrawl.run \in artifacts
    BY <1>1, <2>1 DEF LibraryTypes, NoRecrawl, TypeOK, BatchTypeOK
  <2>3. /\ locator'[recrawl.run] = "backup"
        /\ \A s \in artifacts \ {recrawl.run} : locator'[s] = locator[s]
    BY <1>1, <2>1, <2>2 DEF LibraryTypes
  <2>4. FileInv' /\ RecrawlInv'
    BY <2>1, <2>2, <2>3 DEF FileInv, RecrawlInv
  <2>5. LocatorsLead'
    BY <1>1, <2>1, <2>3 DEF LocatorsLead, LibraryTypes
  <2>6. QED
    BY <2>4, <2>5
<1>11. CASE RecrawlPending
  <2>1. /\ recrawl.booked /\ recrawl' = NoRecrawl /\ recrawl'.run = Nothing /\ ~recrawl'.booked
        /\ UNCHANGED <<runs, artifacts, zip, backup, locator, strayed, pc, cur, mode>>
        /\ status' = [status EXCEPT ![runs[recrawl.run].book] = "pending"]
    BY <1>11 DEF RecrawlPending, Booked, NoRecrawl
  <2>2. \A b \in Books : status[b] = "pending" => status'[b] = "pending"
    BY <1>1, <2>1 DEF LibraryTypes
  <2>3. FileInv'
    BY <1>1, <2>1, <2>2 DEF FileInv, LibraryTypes
  <2>4. Nothing \notin artifacts
    BY <1>1 DEF LibraryTypes
  <2>5. RecrawlInv' /\ LocatorsLead'
    BY <2>1, <2>4 DEF RecrawlInv, LocatorsLead
  <2>6. QED
    BY <2>3, <2>5
<1>12. CASE RecrawlFails
  <2>1. /\ recrawl' = NoRecrawl /\ recrawl'.run = Nothing /\ ~recrawl'.booked
        /\ UNCHANGED <<runs, artifacts, zip, backup, locator, status, pc, cur, mode>>
        /\ strayed' = IF recrawl.booked THEN strayed ELSE strayed \cup {recrawl.run}
    BY <1>12 DEF RecrawlFails, NoRecrawl
  <2>2. FileInv'
    BY <2>1 DEF FileInv
  <2>3. Nothing \notin artifacts
    BY <1>1 DEF LibraryTypes
  <2>4. RecrawlInv' /\ LocatorsLead'
    BY <2>1, <2>3 DEF RecrawlInv, LocatorsLead
  <2>5. QED
    BY <2>2, <2>4
<1>13. ASSUME \/ (\E m \in {"capture", "grant"} : StartBatch(m)) \/ EndBatch
              \/ (\E b \in Books : Skip(b) \/ Refuse(b) \/ RestoreQuota(b) \/ ForeignStatus(b))
              \/ Reserve \/ Enter \/ CrawlEnds \/ CrawlRaises \/ Debit \/ Record \/ Recheck
              \/ PackCheck \/ PackStatus \/ Fails \/ LateRecord \/ FailRun \/ Die \/ Tick
       PROVE  LibraryInv'
  <2>1. SameLibrary /\ (pc \in {"off", "choose"} \/ SamePlace)
                    /\ (pc \in {"off", "choose"} => pc' \in {"off", "choose"})
    BY <1>1, <1>13, PlaceKept
  <2>2. QED
    BY <1>2, <2>1
<1>14. QED
  BY <1>4, <1>5, <1>6, <1>7, <1>8, <1>9, <1>10, <1>11, <1>12, <1>13
  DEF Next, Batch, Crawl, Others, Candidate
-------------------------------------------------------------------------------
(* Tickets: what has been consumed and seen is in the Catalog when the next *)
(* candidate that pays is chosen.                                           *)

LEMMA InitTicket == Init => TicketInv
<1> SUFFICES ASSUME Init PROVE TicketInv
  OBVIOUS
<1>1. cur.seen = NoTime /\ clock = 0 /\ debits = {} /\ pc = "off"
  BY CandidateTypes DEF Init
<1>2. QED
  BY <1>1 DEF TicketInv, TicketNotSpentTwice

TicketTypes ==
  /\ clock \in Nat /\ Cooldown \in Nat
  /\ used \in Nat \cup {NoTime} /\ cur.seen \in Nat \cup {NoTime}
  /\ DOMAIN runs = 1..Len(runs) /\ Len(runs) \in Nat
  /\ Executing => cur.run = Len(runs) /\ cur.run \in DOMAIN runs
  /\ ~Executing => cur.seen = NoTime
  /\ \A d \in debits : d.at \in Nat /\ d.run \in 1..Len(runs)

LEMMA TicketTyped ==
  ASSUME CatalogInv, TicketInv
  PROVE  TicketTypes
<1>1. /\ clock \in Nat /\ used \in Nat \cup {NoTime}
      /\ DOMAIN runs = 1..Len(runs) /\ Len(runs) \in Nat
  BY DEF CatalogInv, TypeOK, CatalogTypeOK, BatchTypeOK, Times
<1>2. cur \in Candidacies
  BY DEF CatalogInv, TypeOK, BatchTypeOK
<1>3. cur.seen \in Nat \cup {NoTime}
  BY <1>2 DEF Candidacies, Times
<1>4. \A d \in debits : d.at \in Nat /\ d.run \in 1..Len(runs)
  BY <1>1 DEF TicketInv, Times
<1>5. Executing => cur.run = Len(runs) /\ cur.run \in DOMAIN runs
  BY DEF CatalogInv, TypeOK, BatchTypeOK, RunInv
<1>6. ~Executing => cur.seen = NoTime
  BY CandidateTypes DEF CatalogInv, RunInv
<1>7. QED
  BY <1>1, <1>3, <1>4, <1>5, <1>6 DEF TicketTypes

SameDebits ==
  /\ UNCHANGED <<debits, lost, used>> /\ DOMAIN runs' = DOMAIN runs
  /\ clock' \in Times /\ clock <= clock'

\* The candidate goes on with the ticket it has or has not seen.
SameTicket ==
  /\ SameDebits
  /\ Executing /\ Executing' /\ SameCandidate
  /\ cur'.seen = cur.seen /\ cur'.checked = cur.checked
  /\ pc' \in {"open", "enter", "crawl", "record"} =>
       pc \in {"open", "enter", "crawl", "record"}
  /\ pc' \in {"recheck", "pack", "move", "status", "finalize"} =>
       pc \in {"recheck", "pack", "move", "status", "finalize"}

\* There is no candidate, or it has nothing to store and the step ends it.
NoTicket ==
  /\ SameDebits
  /\ ~Executing \/ cur.checked \/ cur.seen = NoTime
  /\ ~Executing' /\ cur' = Idle

LEMMA TicketKept ==
  ASSUME TypeOK, RunInv, TicketInv,
         \/ (\E m \in {"capture", "grant"} : StartBatch(m)) \/ EndBatch
         \/ (\E b \in Books : Skip(b) \/ Refuse(b))
         \/ Reserve \/ Enter \/ CrawlEnds \/ CrawlRaises \/ Recheck \/ PackCheck
         \/ PackMove \/ PackStatus \/ Finalize \/ Fails \/ FailRun \/ Others
  PROVE  SameTicket \/ NoTicket
<1> USE DEF SameDebits, RunInv
<1>1. clock \in Times /\ clock <= clock
  BY DEF TypeOK, BatchTypeOK, Times
<1>2. CASE (\E m \in {"capture", "grant"} : StartBatch(m)) \/ EndBatch
  BY <1>1, <1>2 DEF NoTicket, StartBatch, EndBatch
<1>3. ASSUME NEW b \in Books, Skip(b) \/ Refuse(b) PROVE NoTicket
  BY <1>1, <1>3 DEF NoTicket, Skip, Refuse, Chooses
<1>4. CASE Reserve \/ Enter \/ CrawlEnds \/ CrawlRaises \/ Recheck \/ PackCheck
           \/ PackMove \/ PackStatus \/ Fails
  <2>1. Executing /\ Executing' /\ SameCandidate
    BY <1>4, GoingOn DEF GoesOn
  <2>2. cur'.seen = cur.seen /\ cur'.checked = cur.checked
    <3>1. UNCHANGED cur \/ \E g \in BOOLEAN : cur' = [cur EXCEPT !.goOn = g]
      BY <1>4 DEF Reserve, Enter, CrawlEnds, CrawlRaises, Recheck, PackCheck, PackMove,
                  PackStatus, Fails
    <3>2. QED
      BY <3>1, CandidateUpdates
  <2>3. CASE Reserve \/ Enter \/ CrawlEnds \/ CrawlRaises \/ Fails
    BY <1>1, <2>1, <2>2, <2>3
    DEF SameTicket, Reserve, Enter, ReadyToEnter, CrawlEnds, CrawlRaises, Fails
  <2>4. CASE Recheck \/ PackCheck \/ PackMove \/ PackStatus
    BY <1>1, <2>1, <2>2, <2>4 DEF SameTicket, Recheck, PackCheck, PackMove, PackStatus
  <2>5. QED
    BY <1>4, <2>3, <2>4
<1>5. CASE Finalize \/ FailRun
  <2>1. cur.run \in DOMAIN runs /\ runs \in Seq(RunRows) /\ Executing
        /\ {"succeeded", "failed"} \subseteq RunStates
    BY <1>5 DEF Finalize, FailRun, TypeOK, BatchTypeOK, CatalogTypeOK, RunStates
  <2>2. DOMAIN runs' = DOMAIN runs
    BY <1>5, <2>1, EndedRows DEF Finalize, FailRun, RunFails
  <2>3. CASE Finalize
    <3>1. cur.checked
      BY <2>3 DEF Finalize, TicketInv
    <3>2. (~Executing' /\ cur' = Idle)
          \/ (pc' = "failing" /\ cur' = [cur EXCEPT !.goOn = FALSE])
      BY <2>3 DEF Finalize
    <3>3. CASE ~Executing' /\ cur' = Idle
      BY <1>1, <2>2, <2>3, <3>1, <3>3 DEF Finalize, NoTicket
    <3>4. CASE pc' = "failing" /\ cur' = [cur EXCEPT !.goOn = FALSE]
      <4>1. SameCandidate /\ cur'.seen = cur.seen /\ cur'.checked = cur.checked
        BY <3>4, CandidateUpdates
      <4>2. QED
        BY <1>1, <2>1, <2>2, <2>3, <3>4, <4>1 DEF Finalize, SameTicket
    <3>5. QED
      BY <3>2, <3>3, <3>4
  <2>4. CASE FailRun
    BY <1>1, <2>2, <2>4 DEF FailRun, Unstored, NoTicket
  <2>5. QED
    BY <1>5, <2>3, <2>4
<1>6. CASE Others
  <2>1. /\ UNCHANGED <<pc, mode, cur, runs>> /\ clock' \in Times /\ clock <= clock'
    BY <1>6, GoingBeside DEF Beside, KeepsCatalog
  <2>2. UNCHANGED <<debits, lost, used>>
    BY <1>6 DEF Others, Tick, RestoreQuota, ForeignZip, ForeignStatus, RecrawlMove,
       RecrawlMissing, RecrawlLocate, RecrawlPending, RecrawlFails
  <2>3. cur \in Candidacies
    BY DEF TypeOK, BatchTypeOK
  <2>4. CASE Executing
    BY <2>1, <2>2, <2>3, <2>4 DEF SameTicket, SameCandidate
  <2>5. CASE ~Executing
    BY <2>1, <2>2, <2>5 DEF NoTicket
  <2>6. QED
    BY <2>4, <2>5
<1>7. QED
  BY <1>2, <1>3, <1>4, <1>5, <1>6

LEMMA UseStored ==
  ASSUME TicketTypes, StoresUse
  PROVE  used' \in Int /\ used <= used' /\ (cur.seen # NoTime => cur.seen <= used')
BY DEF TicketTypes, StoresUse

LEMMA TicketStep ==
  ASSUME CatalogInv, TicketInv, Next
  PROVE  TicketInv'
<1> USE DEF TicketInv, Stored
<1>1. TicketTypes /\ TypeOK /\ RunInv
  BY TicketTyped DEF CatalogInv
<1>2. \A d \in debits : d.run \notin lost =>
        Stored(d) \/ (Executing /\ d.run = cur.run /\ d.at = cur.seen /\ ~cur.checked
                      /\ cur.seen # NoTime)
  BY <1>1 DEF TicketTypes
<1>3. CASE SameTicket
  <2> USE DEF SameTicket, SameDebits, SameCandidate
  <2>1. clock' \in Nat
    BY <1>3 DEF Times
  <2>2. debits' \subseteq [at : Times, run : DOMAIN runs'] /\ TicketNotSpentTwice'
    BY <1>3 DEF TicketNotSpentTwice
  <2>3. (\A d \in debits' : d.at <= clock') /\ cur'.seen <= clock'
    BY <1>1, <1>3, <2>1 DEF TicketTypes
  <2>4. /\ pc' \in {"open", "enter", "crawl", "record"} => ~cur'.checked
        /\ pc' \in {"recheck", "pack", "move", "status", "finalize"} => cur'.checked
    BY <1>3
  <2>5. \A d \in debits' : d.run \notin lost' =>
          Stored(d)' \/ (Executing' /\ d.run = cur'.run /\ d.at = cur'.seen /\ ~cur'.checked)
    BY <1>3
  <2>6. Executing' /\ Site = "ticket" /\ cur'.how = "quota" =>
          \A d \in debits' : d.run < cur'.run /\ d.run \notin lost' => clock' >= d.at + Cooldown
    BY <1>1, <1>3, <2>1 DEF TicketTypes
  <2>7. QED
    BY <2>2, <2>3, <2>4, <2>5, <2>6
<1>4. CASE NoTicket
  <2> USE DEF NoTicket, SameDebits
  <2>1. clock' \in Nat /\ cur'.seen = NoTime
    BY <1>4, CandidateTypes DEF Times
  <2>2. debits' \subseteq [at : Times, run : DOMAIN runs'] /\ TicketNotSpentTwice'
    BY <1>4 DEF TicketNotSpentTwice
  <2>3. (\A d \in debits' : d.at <= clock') /\ cur'.seen <= clock'
    BY <1>1, <1>4, <2>1 DEF TicketTypes
  <2>4. \A d \in debits' : d.run \notin lost' => Stored(d)'
    BY <1>2, <1>4
  <2>5. QED
    BY <1>4, <2>2, <2>3, <2>4
<1>5. ASSUME NEW b \in Books, Begin(b) PROVE TicketInv'
  <2>1. /\ ~Executing /\ pc' = "open" /\ UNCHANGED <<debits, lost, used, clock>>
        /\ cur'.seen = NoTime /\ ~cur'.checked /\ cur'.how = plan[b]
        /\ (Site = "ticket" /\ plan[b] = "quota" => ~Cooling(clock))
    BY <1>5 DEF Begin, Chooses, Idle
  <2>2. DOMAIN runs \subseteq DOMAIN runs'
    BY <1>1, <1>5, NewRow
  <2>3. \A d \in debits : d.run \notin lost => d.at <= used
    BY <1>2, <2>1
  <2>4. Site = "ticket" /\ cur'.how = "quota" =>
          \A d \in debits : d.run \notin lost => clock >= d.at + Cooldown
    BY <1>1, <2>1, <2>3 DEF Cooling, TicketTypes
  <2>5. debits' \subseteq [at : Times, run : DOMAIN runs'] /\ TicketNotSpentTwice'
    BY <2>1, <2>2 DEF TicketNotSpentTwice
  <2>6. cur'.seen <= clock'
    BY <1>1, <2>1 DEF TicketTypes
  <2>7. QED
    BY <2>1, <2>3, <2>4, <2>5, <2>6
<1>6. CASE Debit
  <2> DEFINE new == [at |-> clock, run |-> cur.run]
  <2>1. /\ pc = "crawl" /\ pc' = "crawl" /\ Executing /\ Executing'
        /\ Site = "ticket" /\ cur.how = "quota" /\ ~cur.checked
        /\ UNCHANGED <<runs, used, clock>> /\ debits' = debits \cup {new}
        /\ \A d \in debits : d.run # cur.run
    BY <1>6 DEF Debit
  <2>2. \/ cur' = [cur EXCEPT !.seen = clock] /\ UNCHANGED lost
        \/ lost' = lost \cup {cur.run} /\ UNCHANGED cur
    BY <1>6 DEF Debit
  <2>3. SameCandidate /\ ~cur'.checked
        /\ ((cur'.seen = clock /\ lost' = lost)
            \/ (cur'.seen = cur.seen /\ lost' = lost \cup {cur.run}))
    <3>1. cur \in Candidacies
      BY <1>1 DEF TypeOK, BatchTypeOK
    <3>2. QED
      BY <1>1, <2>1, <2>2, <3>1, CandidateUpdates DEF SameCandidate
  <2>4. new.at = clock /\ new.run = cur.run /\ new \in [at : Times, run : DOMAIN runs]
    BY <1>1, <2>1 DEF TypeOK, BatchTypeOK
  <2> HIDE DEF new
  <2>5. debits' \subseteq [at : Times, run : DOMAIN runs']
        /\ (\A d \in debits' : d.at <= clock') /\ cur'.seen <= clock'
    BY <1>1, <2>1, <2>3, <2>4 DEF TicketTypes
  <2>6. \A d \in debits' : d.run \notin lost' =>
          Stored(d)' \/ (Executing' /\ d.run = cur'.run /\ d.at = cur'.seen /\ ~cur'.checked)
    BY <1>2, <2>1, <2>3, <2>4 DEF SameCandidate
  <2>7. \A d \in debits' : d.run < cur.run /\ d.run \notin lost' => clock >= d.at + Cooldown
    BY <1>1, <2>1, <2>3, <2>4 DEF TicketTypes
  <2>8. TicketNotSpentTwice'
    <3>1. ASSUME NEW d \in debits', NEW e \in debits', d.run < e.run, d.run \notin lost'
          PROVE  e.at >= d.at + Cooldown
      <4>1. d.run \notin lost /\ d \in debits
        BY <1>1, <2>1, <2>3, <2>4, <3>1 DEF TicketTypes
      <4>2. CASE e = new
        BY <2>1, <2>4, <2>7, <3>1, <4>2
      <4>3. CASE e # new
        BY <2>1, <3>1, <4>1, <4>3 DEF TicketNotSpentTwice
      <4>4. QED
        BY <4>2, <4>3
    <3>2. QED
      BY <3>1 DEF TicketNotSpentTwice
  <2>9. QED
    BY <2>1, <2>3, <2>5, <2>6, <2>7, <2>8 DEF SameCandidate
<1>7. CASE Record
  <2>1. /\ Executing /\ Executing' /\ StoresUse
        /\ UNCHANGED <<runs, debits, lost, clock>>
        /\ pc' \notin {"open", "enter", "crawl", "record"}
    BY <1>7 DEF Record
  <2>2. SameCandidate /\ cur'.seen = cur.seen /\ cur'.checked
    BY <1>1, <1>7, CandidateUpdates DEF Record
  <2>3. \A d \in debits' : d.run \notin lost' => Stored(d)'
    BY <1>1, <1>2, <2>1, UseStored DEF TicketTypes
  <2>4. TicketNotSpentTwice'
    BY <2>1 DEF TicketNotSpentTwice
  <2>5. QED
    BY <2>1, <2>2, <2>3, <2>4 DEF SameCandidate
<1>8. CASE LateRecord
  <2>1. /\ pc = "failing" /\ pc' = "failing" /\ UNCHANGED <<runs, debits, clock>>
        /\ (StoresUse /\ UNCHANGED lost)
           \/ (lost' = lost \cup {cur.run} /\ UNCHANGED used)
    BY <1>8 DEF LateRecord
  <2>2. SameCandidate /\ cur'.seen = cur.seen /\ cur'.checked
    BY <1>1, <1>8, CandidateUpdates DEF LateRecord
  <2>3. \A d \in debits' : d.run \notin lost' => Stored(d)'
    BY <1>1, <1>2, <2>1, UseStored DEF TicketTypes
  <2>4. TicketNotSpentTwice'
    BY <2>1 DEF TicketNotSpentTwice
  <2>5. QED
    BY <2>1, <2>2, <2>3, <2>4 DEF SameCandidate
<1>9. CASE Die
  <2>1. /\ ~Executing' /\ cur' = Idle /\ UNCHANGED <<runs, debits, used, clock>>
        /\ lost' = IF Unstored THEN lost \cup {cur.run} ELSE lost
    BY <1>9 DEF Die
  <2>2. \A d \in debits' : d.run \notin lost' => Stored(d)'
    BY <1>2, <2>1 DEF Unstored
  <2>3. TicketNotSpentTwice'
    BY <2>1 DEF TicketNotSpentTwice
  <2>4. cur'.seen <= clock'
    BY <1>1, <2>1, CandidateTypes DEF TicketTypes
  <2>5. QED
    BY <2>1, <2>2, <2>3, <2>4
<1>10. ASSUME \/ (\E m \in {"capture", "grant"} : StartBatch(m)) \/ EndBatch
              \/ (\E b \in Books : Skip(b) \/ Refuse(b))
              \/ Reserve \/ Enter \/ CrawlEnds \/ CrawlRaises \/ Recheck \/ PackCheck
              \/ PackMove \/ PackStatus \/ Finalize \/ Fails \/ FailRun \/ Others
       PROVE  TicketInv'
  BY <1>1, <1>3, <1>4, <1>10, TicketKept
<1>11. QED
  BY <1>5, <1>6, <1>7, <1>8, <1>9, <1>10 DEF Next, Batch, Crawl, Candidate
-------------------------------------------------------------------------------
(* Windows: which times share one, and in which order they come.            *)

LEMMA Remainder ==
  ASSUME NEW t \in Nat
  PROVE  \E q \in Nat : /\ WindowStart(t) = q * WindowLen
                        /\ q * WindowLen <= t /\ t < q * WindowLen + WindowLen
<1>1. /\ t % WindowLen \in 0..(WindowLen - 1)
      /\ t = WindowLen * (t \div WindowLen) + (t % WindowLen)
      /\ t \div WindowLen \in Nat
  OBVIOUS
<1>2. WITNESS t \div WindowLen \in Nat
<1>3. QED
  BY <1>1 DEF WindowStart

LEMMA MultiplesOrdered ==
  ASSUME NEW q \in Nat, NEW p \in Nat, NEW t \in Nat, NEW u \in Nat, t <= u,
         q * WindowLen <= t, u < p * WindowLen + WindowLen
  PROVE  q * WindowLen <= p * WindowLen
<1>1. q * WindowLen \in Nat /\ p * WindowLen \in Nat
  OBVIOUS
<1>2. CASE q <= p
  BY <1>2
<1>3. CASE p + 1 <= q
  <2>1. (p + 1) * WindowLen <= q * WindowLen
    BY <1>3
  <2>2. (p + 1) * WindowLen = p * WindowLen + WindowLen
    OBVIOUS
  <2>3. QED
    BY <1>1, <2>1, <2>2
<1>4. QED
  BY <1>2, <1>3

\* A window begins at or before its times, later times are in later windows,
\* and two times are in one window exactly if it begins at the same time.
LEMMA Windows ==
  /\ \A t \in Nat : WindowStart(t) \in Nat /\ WindowStart(t) <= t
                      /\ t < WindowStart(t) + WindowLen
  /\ \A t, u \in Nat : t <= u => WindowStart(t) <= WindowStart(u)
  /\ \A t, u \in Nat : InWindow(t, u) <=> WindowStart(t) = WindowStart(u)
  /\ \A u \in Nat : ~InWindow(NoTime, u)
<1>1. ASSUME NEW t \in Nat
      PROVE  /\ WindowStart(t) \in Nat /\ WindowStart(t) <= t
             /\ t < WindowStart(t) + WindowLen
  <2>1. PICK q \in Nat : /\ WindowStart(t) = q * WindowLen
                         /\ q * WindowLen <= t /\ t < q * WindowLen + WindowLen
    BY Remainder
  <2>2. q * WindowLen \in Nat
    OBVIOUS
  <2>3. QED
    BY <2>1, <2>2
<1>2. ASSUME NEW t \in Nat, NEW u \in Nat, NEW v \in Nat, t <= u, u < WindowStart(v) + WindowLen
      PROVE  WindowStart(t) <= WindowStart(v)
  <2>1. PICK q \in Nat : /\ WindowStart(t) = q * WindowLen
                         /\ q * WindowLen <= t /\ t < q * WindowLen + WindowLen
    BY Remainder
  <2>2. PICK p \in Nat : /\ WindowStart(v) = p * WindowLen
                         /\ p * WindowLen <= v /\ v < p * WindowLen + WindowLen
    BY Remainder
  <2>3. QED
    BY <1>2, <2>1, <2>2, MultiplesOrdered
<1>3. \A t, u \in Nat : t <= u => WindowStart(t) <= WindowStart(u)
  BY <1>1, <1>2
<1>4. ASSUME NEW t \in Nat, NEW u \in Nat
      PROVE  InWindow(t, u) <=> WindowStart(t) = WindowStart(u)
  <2>1. ASSUME WindowStart(t) = WindowStart(u) PROVE InWindow(t, u)
    BY <1>1, <2>1 DEF InWindow
  <2>2. ASSUME InWindow(t, u) PROVE WindowStart(t) = WindowStart(u)
    <3>1. WindowStart(u) <= t /\ t < WindowStart(u) + WindowLen
      BY <2>2 DEF InWindow
    <3>2. WindowStart(t) <= WindowStart(u)
      BY <1>2, <3>1
    <3>3. WindowStart(u) <= WindowStart(t)
      <4>1. CASE u <= t
        BY <1>3, <4>1
      <4>2. CASE t <= u
        <5>1. PICK q \in Nat : WindowStart(u) = q * WindowLen
          BY Remainder
        <5>2. PICK p \in Nat : WindowStart(t) = p * WindowLen /\ t < p * WindowLen + WindowLen
          BY Remainder
        <5>3. QED
          BY <3>1, <5>1, <5>2, MultiplesOrdered
      <4>3. QED
        BY <4>1, <4>2
    <3>4. QED
      BY <1>1, <3>2, <3>3
  <2>3. QED
    BY <2>1, <2>2
<1>5. \A u \in Nat : ~InWindow(NoTime, u)
  BY <1>1 DEF InWindow
<1>6. QED
  BY <1>1, <1>3, <1>4, <1>5
-------------------------------------------------------------------------------
(* Slots: an even window gets one reader, and the reservation made before   *)
(* it keeps the window from being entered again.                            *)

LEMMA HoldsCounted ==
  ReserveHolds <=>
    \A t \in Times : Cardinality(EnteredIn(t)) <= 1 + Cardinality(RestoredIn(t))
BY DEF ReserveHolds, EnteredIn, RestoredIn

LEMMA InitReserve == Init => ReserveInv
<1> SUFFICES ASSUME Init PROVE ReserveInv
  OBVIOUS
<1>1. /\ entered = {} /\ restored = <<>> /\ cur.seen = NoTime /\ clock = 0 /\ pc = "off"
      /\ \A b \in Books : quota[b] = NoTime
  BY CandidateTypes DEF Init
<1>2. /\ \A t : Cardinality(EnteredIn(t)) = 0 /\ Cardinality(RestoredIn(t)) = 0
      /\ IsFiniteSet({})
  <2>1. \A t : EnteredIn(t) = {} /\ RestoredIn(t) = {}
    BY <1>1 DEF EnteredIn, RestoredIn
  <2>2. QED
    BY <2>1, FS_EmptySet
<1>3. SlotTypeOK
  BY <1>1, <1>2 DEF SlotTypeOK
<1>4. SlotInv
  BY <1>1, <1>2 DEF SlotInv, Even
<1>5. ReserveHolds
  BY <1>2, HoldsCounted
<1>6. EntryIsReserved
  BY <1>1 DEF EntryIsReserved
<1>7. QED
  BY <1>3, <1>4, <1>5, <1>6 DEF ReserveInv

SlotTypes ==
  /\ clock \in Times /\ Times \subseteq Nat
  /\ quota \in [Books -> Nat \cup {NoTime}]
  /\ \A r \in DOMAIN runs : runs[r].at \in Times /\ runs[r].at <= clock
                            /\ runs[r].book \in Books
  /\ Executing => cur.run \in DOMAIN runs /\ cur.book \in Books
                  /\ runs[cur.run].book = cur.book
                  /\ \A r \in DOMAIN runs : runs[r].at <= At
  /\ entered \subseteq DOMAIN runs /\ IsFiniteSet(entered)
  /\ \A i \in DOMAIN restored : restored[i] \in Times

LEMMA SlotTyped ==
  ASSUME CatalogInv, ReserveInv
  PROVE  SlotTypes
<1>1. clock \in Times /\ Times \subseteq Nat /\ quota \in [Books -> Nat \cup {NoTime}]
  BY DEF CatalogInv, TypeOK, CatalogTypeOK, BatchTypeOK, Times
<1>2. \A r \in DOMAIN runs : runs[r].at \in Times /\ runs[r].at <= clock
                             /\ runs[r].book \in Books
  BY RowTypes DEF CatalogInv, TypeOK, CatalogTypeOK, RunInv
<1>3. Executing => cur.run \in DOMAIN runs /\ cur.book \in Books
                   /\ runs[cur.run].book = cur.book
                   /\ \A r \in DOMAIN runs : runs[r].at <= At
  BY DEF CatalogInv, TypeOK, BatchTypeOK, RunInv, At
<1>4. QED
  BY <1>1, <1>2, <1>3 DEF SlotTypes, ReserveInv, SlotTypeOK

LEMMA Counted ==
  ASSUME SlotTypes, restored \in Seq(Times), NEW t
  PROVE  /\ IsFiniteSet(EnteredIn(t)) /\ Cardinality(EnteredIn(t)) \in Nat
         /\ IsFiniteSet(RestoredIn(t)) /\ Cardinality(RestoredIn(t)) \in Nat
<1>1. EnteredIn(t) \subseteq entered /\ IsFiniteSet(entered)
  BY DEF EnteredIn, SlotTypes
<1>2. DOMAIN restored = 1..Len(restored) /\ Len(restored) \in Int
  OBVIOUS
<1>3. IsFiniteSet(DOMAIN restored) /\ RestoredIn(t) \subseteq DOMAIN restored
  <2>1. IsFiniteSet(1..Len(restored))
    BY <1>2, FS_Interval
  <2>2. QED
    BY <1>2, <2>1 DEF RestoredIn
<1>4. IsFiniteSet(EnteredIn(t)) /\ IsFiniteSet(RestoredIn(t))
  BY <1>1, <1>3, FS_Subset
<1>5. QED
  BY <1>4, FS_CardinalityType

\* Runs keep their times and books.
SameTimes == \A r \in DOMAIN runs : r \in DOMAIN runs' /\ runs'[r].at = runs[r].at
                                    /\ runs'[r].book = runs[r].book

LEMMA CountsKept ==
  ASSUME SlotTypes, SameTimes, NEW t
  PROVE  /\ entered' = entered => EnteredIn(t)' = EnteredIn(t)
         /\ restored' = restored => RestoredIn(t)' = RestoredIn(t)
BY DEF SlotTypes, SameTimes, EnteredIn, RestoredIn, SameWindow, WindowStart

LEMMA SameCounts ==
  ASSUME NEW t \in Times, NEW u \in Times, SameWindow(t, u)
  PROVE  EnteredIn(t) = EnteredIn(u) /\ RestoredIn(t) = RestoredIn(u) /\ (Even(t) <=> Even(u))
BY DEF EnteredIn, RestoredIn, SameWindow, Even

\* Slots are left alone and the reader is as far from its entry as before.
SlotsKept ==
  /\ SameTimes /\ UNCHANGED <<entered, restored>>
  /\ Site = "reserve" => UNCHANGED quota /\ cur'.seen = NoTime
  /\ clock' \in Times /\ clock <= clock'
  /\ pc' \in {"open", "enter"} => pc' = pc /\ cur'.run = cur.run /\ cur'.book = cur.book
                                  /\ cur'.how = cur.how

LEMMA KeepingSlots ==
  ASSUME CatalogInv, ReserveInv, SlotsKept
  PROVE  ReserveInv'
<1>1. SlotTypes /\ restored \in Seq(Times)
  BY SlotTyped DEF ReserveInv, SlotTypeOK
<1>2. \A t : EnteredIn(t)' = EnteredIn(t) /\ RestoredIn(t)' = RestoredIn(t)
  BY <1>1, CountsKept DEF SlotsKept
<1>3. \A t : Even(t)' <=> Even(t)
  BY <1>2 DEF Even
<1>4. clock \in Nat /\ clock' \in Nat
  BY <1>1 DEF SlotTypes, SlotsKept
<1>5. SlotTypeOK'
  <2>1. ASSUME Site = "reserve", NEW b \in Books PROVE quota'[b] <= clock'
    BY <1>1, <1>4, <2>1 DEF ReserveInv, SlotTypeOK, SlotsKept, SlotTypes
  <2>2. QED
    BY <2>1 DEF ReserveInv, SlotTypeOK, SlotsKept, SameTimes
<1>6. SlotInv'
  <2>1. ASSUME pc' \in {"open", "enter"}
        PROVE  At' = At /\ (Reserves' <=> Reserves) /\ pc' = pc /\ cur'.book = cur.book
               /\ (Reserves => quota' = quota)
    BY <1>1, <2>1 DEF SlotsKept, SameTimes, SlotTypes, At, Reserves
  <2>2. /\ pc' = "enter" => Reserves' /\ quota'[cur'.book] = At'
        /\ pc' = "open" /\ Reserves' => quota'[cur'.book] < WindowStart(At')
        /\ pc' \in {"open", "enter"} /\ Reserves' => Even(At)'
    <3>1. pc' \in {"open", "enter"} /\ Reserves' => Even(At)'
      <4>1. ASSUME pc' \in {"open", "enter"}, Reserves' PROVE Even(At)'
        <5>1. Even(At)
          BY <2>1, <4>1 DEF ReserveInv, SlotInv
        <5>2. At' = At /\ EnteredIn(At)' = EnteredIn(At) /\ RestoredIn(At)' = RestoredIn(At)
          <6>1. At' = At
            BY <2>1, <4>1
          <6>2. QED
            BY <6>1, <1>1 DEF SlotsKept, SlotTypes, SameTimes, EnteredIn, RestoredIn,
                              SameWindow, WindowStart
        <5>3. QED
          BY <5>1, <5>2 DEF Even
      <4>2. QED
        BY <4>1
    <3>2. QED
      BY <2>1, <3>1 DEF ReserveInv, SlotInv
  <2>3. ASSUME Site = "reserve", NEW t \in Times,
               WindowStart(clock') <= WindowStart(t), ~Taken(t)'
        PROVE  Even(t)'
    <3>1. WindowStart(clock) <= WindowStart(clock')
      BY <1>4, Windows DEF SlotsKept
    <3>2. WindowStart(clock) <= WindowStart(t)
      BY <1>1, <1>4, <2>3, <3>1, Windows DEF SlotTypes
    <3>3. ~Taken(t)
      BY <2>3 DEF Taken, SlotsKept, InWindow, WindowStart
    <3>4. QED
      BY <1>3, <2>3, <3>2, <3>3 DEF ReserveInv, SlotInv
  <2>4. QED
    BY <2>2, <2>3 DEF SlotInv
<1>7. ReserveHolds'
  BY <1>2 DEF ReserveInv, ReserveHolds, EnteredIn, RestoredIn
<1>8. EntryIsReserved'
  BY <1>1 DEF ReserveInv, SlotTypeOK, EntryIsReserved, SlotsKept, SameTimes, SlotTypes
<1>9. QED
  BY <1>5, <1>6, <1>7, <1>8 DEF ReserveInv
OtherSteps ==
  \/ Tick
  \/ \E b \in Books : ForeignZip(b) \/ ForeignStatus(b)
  \/ \E b \in Books, r \in artifacts : RecrawlMove(b, r) \/ RecrawlMissing(b, r)
  \/ RecrawlLocate \/ RecrawlPending \/ RecrawlFails

LEMMA SlotsLeftAlone ==
  ASSUME TypeOK, RunInv, SlotTypeOK,
         \/ (\E m \in {"capture", "grant"} : StartBatch(m)) \/ EndBatch
         \/ (\E b \in Books : Skip(b) \/ Refuse(b))
         \/ CrawlEnds \/ CrawlRaises \/ Debit \/ Record \/ Recheck \/ PackCheck
         \/ PackMove \/ PackStatus \/ Finalize \/ Fails \/ LateRecord \/ FailRun \/ Die
         \/ OtherSteps
  PROVE  SlotsKept
<1> USE DEF SlotsKept, SameTimes
<1>1. clock \in Times /\ clock <= clock /\ (Site = "reserve" => cur.seen = NoTime)
  BY DEF TypeOK, BatchTypeOK, Times, SlotTypeOK
<1>2. CASE (\E m \in {"capture", "grant"} : StartBatch(m)) \/ EndBatch
  BY <1>1, <1>2, CandidateTypes DEF StartBatch, EndBatch
<1>3. ASSUME NEW b \in Books, Skip(b) \/ Refuse(b) PROVE SlotsKept
  BY <1>1, <1>3, CandidateTypes DEF Skip, Refuse, Chooses
<1>4. CASE CrawlEnds \/ CrawlRaises \/ Recheck \/ PackCheck \/ PackMove \/ PackStatus \/ Fails
  <2>1. cur'.seen = cur.seen
    <3>1. UNCHANGED cur \/ \E g \in BOOLEAN : cur' = [cur EXCEPT !.goOn = g]
      BY <1>4 DEF CrawlEnds, CrawlRaises, Recheck, PackCheck, PackMove, PackStatus, Fails
    <3>2. QED
      BY <3>1, CandidateUpdates
  <2>2. pc' \notin {"open", "enter"}
    BY <1>4 DEF CrawlEnds, CrawlRaises, Recheck, PackCheck, PackMove, PackStatus, Fails
  <2>3. UNCHANGED <<runs, clock, entered, restored, quota>>
    BY <1>4 DEF CrawlEnds, CrawlRaises, Recheck, PackCheck, PackMove, PackStatus, Fails
  <2>4. QED
    BY <1>1, <2>1, <2>2, <2>3
<1>5. CASE Debit
  BY <1>1, <1>5 DEF Debit
<1>6. CASE Record \/ LateRecord
  <2>1. cur'.seen = cur.seen
    BY <1>6, CandidateUpdates DEF Record, LateRecord
  <2>2. Site = "reserve" => UNCHANGED quota
    BY <1>1, <1>6 DEF Record, LateRecord, StoresUse
  <2>3. UNCHANGED <<runs, clock, entered, restored>> /\ pc' \notin {"open", "enter"}
    BY <1>6 DEF Record, LateRecord
  <2>4. QED
    BY <1>1, <2>1, <2>2, <2>3
<1>7. CASE Finalize \/ FailRun
  <2>1. cur.run \in DOMAIN runs /\ runs \in Seq(RunRows)
        /\ {"succeeded", "failed"} \subseteq RunStates
    BY <1>7 DEF Finalize, FailRun, TypeOK, BatchTypeOK, CatalogTypeOK, RunStates
  <2>2. SameTimes
    BY <1>7, <2>1, EndedRows DEF Finalize, FailRun, RunFails
  <2>3. cur' = Idle \/ cur'.seen = cur.seen
    BY <1>7, CandidateUpdates DEF Finalize, FailRun
  <2>4. UNCHANGED <<clock, entered, restored, quota>> /\ pc' \notin {"open", "enter"}
    BY <1>7 DEF Finalize, FailRun
  <2>5. QED
    BY <1>1, <2>2, <2>3, <2>4, CandidateTypes
<1>8. CASE Die
  BY <1>1, <1>8, CandidateTypes DEF Die
<1>9. CASE OtherSteps
  <2>1. /\ UNCHANGED <<pc, mode, cur, runs>> /\ clock' \in Times /\ clock <= clock'
    BY <1>9, GoingBeside DEF Beside, KeepsCatalog, OtherSteps, Others
  <2>2. UNCHANGED <<quota, entered, restored>>
    BY <1>9 DEF OtherSteps, Tick, ForeignZip, ForeignStatus, RecrawlMove,
       RecrawlMissing, RecrawlLocate, RecrawlPending, RecrawlFails
  <2>3. QED
    BY <1>1, <2>1, <2>2
<1>10. QED
  BY <1>2, <1>3, <1>4, <1>5, <1>6, <1>7, <1>8, <1>9

LEMMA ReserveStep ==
  ASSUME CatalogInv, ReserveInv, Next
  PROVE  ReserveInv'
<1>1. SlotTypes /\ restored \in Seq(Times) /\ TypeOK /\ RunInv
  BY SlotTyped DEF CatalogInv, ReserveInv, SlotTypeOK
<1>2. \A t : Cardinality(EnteredIn(t)) \in Nat /\ Cardinality(RestoredIn(t)) \in Nat
  BY <1>1, Counted
<1>3. clock \in Nat /\ (Executing => At \in Nat /\ At <= clock /\ At \in Times)
  BY <1>1 DEF SlotTypes, At
<1>4. ASSUME NEW b \in Books, Begin(b) PROVE ReserveInv'
  <2>1. /\ pc' = "open" /\ cur'.book = b /\ cur'.run = Len(runs) + 1 /\ cur'.how = plan[b]
        /\ cur'.seen = NoTime /\ UNCHANGED <<entered, restored, quota, clock>>
        /\ Access(b, clock) = plan[b]
    BY <1>4 DEF Begin, Chooses, Valid, Idle
  <2>2. SameTimes /\ At' = clock
    <3>1. TypeOK /\ DOMAIN runs' = DOMAIN runs \cup {Len(runs) + 1}
          /\ \A q \in DOMAIN runs : runs'[q] = runs[q]
      BY <1>1, <1>4, NewRow
    <3>2. runs'[Len(runs) + 1] = [book |-> b, at |-> clock, mode |-> mode, state |-> "running"]
      BY <1>1, <1>4, NewRow
    <3>3. At' = clock
      BY <2>1, <3>2 DEF At
    <3>4. QED
      BY <3>1, <3>3 DEF SameTimes
  <2>3. \A t : EnteredIn(t)' = EnteredIn(t) /\ RestoredIn(t)' = RestoredIn(t)
    BY <1>1, <2>1, <2>2, CountsKept
  <2>4. \A t : Even(t)' <=> Even(t)
    BY <2>3 DEF Even
  <2>5. ASSUME Reserves' PROVE ~Taken(clock)
    BY <2>1, <2>5 DEF Reserves, Access, SlotFree, Taken
  <2>6. ASSUME Reserves' PROVE Even(clock) /\ quota[b] < WindowStart(clock)
    <3>1. Even(clock)
      <4>1. Site = "reserve" /\ ~Taken(clock) /\ clock \in Times
        BY <1>1, <2>5, <2>6 DEF Reserves, SlotTypes
      <4>2. WindowStart(clock) <= WindowStart(clock)
        BY <1>3, Windows
      <4>3. QED
        BY <4>1, <4>2 DEF ReserveInv, SlotInv
    <3>2. ~InWindow(quota[b], clock)
      BY <2>5, <2>6 DEF Taken
    <3>3. quota[b] \in Nat \cup {NoTime} /\ quota[b] <= clock
      BY <1>1, <2>6 DEF ReserveInv, SlotTypeOK, SlotTypes, Reserves
    <3>4. clock < WindowStart(clock) + WindowLen /\ WindowStart(clock) \in Nat
      BY <1>3, Windows
    <3>5. quota[b] < WindowStart(clock)
      BY <1>3, <3>2, <3>3, <3>4 DEF InWindow
    <3>6. QED
      BY <3>1, <3>5
  <2>7. SlotInv'
    <3>1. (Reserves' => Even(At)')
      <4>1. ASSUME Reserves' PROVE Even(At)'
        <5>1. EnteredIn(At)' = EnteredIn(clock) /\ RestoredIn(At)' = RestoredIn(clock)
          BY <1>1, <2>1, <2>2 DEF SlotTypes, SameTimes, EnteredIn, RestoredIn,
                                  SameWindow, WindowStart
        <5>2. QED
          BY <2>6, <4>1, <5>1 DEF Even
      <4>2. QED
        BY <4>1
    <3>2. Site = "reserve" => \A t \in Times :
            WindowStart(clock') <= WindowStart(t) /\ ~Taken(t)' => Even(t)'
      <4>1. \A t : (Taken(t)' <=> Taken(t)) /\ WindowStart(clock') = WindowStart(clock)
        BY <2>1 DEF Taken, InWindow, WindowStart
      <4>2. QED
        BY <2>4, <4>1 DEF ReserveInv, SlotInv
    <3>3. QED
      BY <2>1, <2>2, <2>6, <3>1, <3>2 DEF SlotInv
  <2>8. SlotTypeOK'
    BY <2>1, <2>2 DEF ReserveInv, SlotTypeOK, SameTimes
  <2>9. ReserveHolds'
    BY <2>3 DEF ReserveInv, ReserveHolds, EnteredIn, RestoredIn
  <2>10. EntryIsReserved'
    BY <1>1, <2>1, <2>2 DEF ReserveInv, EntryIsReserved, SameTimes, SlotTypes
  <2>11. QED
    BY <2>7, <2>8, <2>9, <2>10 DEF ReserveInv
<1>5. CASE Reserve
  <2>1. /\ pc = "open" /\ Reserves /\ pc' = "enter" /\ Reserves' /\ Executing
        /\ UNCHANGED <<runs, cur, clock, entered, restored>>
        /\ quota' = [quota EXCEPT ![cur.book] = At] /\ Site = "reserve"
    BY <1>5 DEF Reserve, Reserves, At
  <2>2. /\ quota'[cur.book] = At /\ \A b \in Books \ {cur.book} : quota'[b] = quota[b]
        /\ cur.book \in Books
    BY <1>1, <2>1 DEF SlotTypes
  <2>3. At' = At
    BY <2>1 DEF At
  <2>4. \A t : EnteredIn(t)' = EnteredIn(t) /\ RestoredIn(t)' = RestoredIn(t)
    BY <2>1 DEF EnteredIn, RestoredIn, SameWindow, WindowStart
  <2>5. SlotTypeOK'
    BY <1>3, <2>1, <2>2 DEF ReserveInv, SlotTypeOK
  <2>6. Even(At)'
    BY <2>1 DEF ReserveInv, SlotInv, Even, EnteredIn, RestoredIn, SameWindow, WindowStart, At
  <2>7. ASSUME NEW t \in Times, WindowStart(clock) <= WindowStart(t), ~Taken(t)'
        PROVE  Even(t)'
    <3>1. t \in Nat
      BY <1>1 DEF SlotTypes
    <3>2. quota[cur.book] < WindowStart(t)
      <4>1. quota[cur.book] < WindowStart(At)
        BY <2>1 DEF ReserveInv, SlotInv
      <4>2. WindowStart(At) <= WindowStart(clock)
        BY <1>3, <2>1, Windows
      <4>3. quota[cur.book] \in Int
        BY <1>1, <2>2 DEF SlotTypes
      <4>4. QED
        BY <1>3, <2>1, <2>7, <3>1, <4>1, <4>2, <4>3, Windows
    <3>3. ~InWindow(quota[cur.book], t)
      <4>1. quota[cur.book] \in Int
        BY <1>1, <2>2 DEF SlotTypes
      <4>2. WindowStart(t) \in Nat
        BY <3>1, Windows
      <4>3. QED
        BY <3>2, <4>1, <4>2 DEF InWindow
    <3>4. ~Taken(t)
      BY <2>2, <2>7, <3>3 DEF Taken, InWindow, WindowStart
    <3>5. Even(t)
      BY <2>1, <2>7, <3>4 DEF ReserveInv, SlotInv
    <3>6. QED
      BY <2>4, <3>5 DEF Even
  <2>8. SlotInv'
    BY <2>1, <2>2, <2>3, <2>6, <2>7 DEF SlotInv, WindowStart
  <2>9. ReserveHolds'
    BY <2>4 DEF ReserveInv, ReserveHolds, EnteredIn, RestoredIn
  <2>10. EntryIsReserved'
    BY <1>1, <2>1, <2>2 DEF ReserveInv, EntryIsReserved, SlotTypes
  <2>11. QED
    BY <2>5, <2>8, <2>9, <2>10 DEF ReserveInv
<1>6. CASE Enter
  <2>1. /\ pc' = "crawl" /\ Executing /\ UNCHANGED <<runs, cur, clock, quota, restored>>
        /\ entered' = IF Reserves THEN entered \cup {cur.run} ELSE entered
        /\ (Reserves => pc = "enter" /\ Site = "reserve")
    BY <1>6 DEF Enter, ReadyToEnter, Reserves
  <2>2. CASE ~Reserves
    <3>1. SlotsKept
      BY <1>1, <1>3, <2>1, <2>2
      DEF SlotsKept, SameTimes, SlotTypes, ReserveInv, SlotTypeOK
    <3>2. QED
      BY <3>1, KeepingSlots
  <2>3. CASE Reserves
    <3>1. quota[cur.book] = At /\ Even(At) /\ cur.run \in DOMAIN runs
      BY <1>1, <2>1, <2>3 DEF ReserveInv, SlotInv, SlotTypes
    <3>2. entered' = entered \cup {cur.run} /\ IsFiniteSet(entered')
      BY <1>1, <2>1, <2>3, FS_AddElement DEF SlotTypes
    <3>3. ASSUME NEW t \in Times
          PROVE  /\ RestoredIn(t)' = RestoredIn(t)
                 /\ EnteredIn(t)' = IF SameWindow(At, t) THEN EnteredIn(t) \cup {cur.run}
                                                         ELSE EnteredIn(t)
      BY <2>1, <3>1, <3>2 DEF EnteredIn, RestoredIn, SameWindow, WindowStart, At
    <3>4. SlotTypeOK'
      BY <2>1, <2>3, <3>1, <3>2 DEF ReserveInv, SlotTypeOK
    <3>5. ASSUME NEW t \in Times, SameWindow(At, t)
          PROVE  /\ InWindow(At, t) /\ Even(t)
                 /\ Cardinality(EnteredIn(t)') <= 1 + Cardinality(EnteredIn(t))
      <4>1. Even(t)
        BY <1>3, <2>1, <3>1, <3>5, SameCounts
      <4>2. InWindow(At, t)
        BY <1>1, <1>3, <2>1, <3>5, Windows DEF SameWindow, SlotTypes
      <4>3. IsFiniteSet(EnteredIn(t)) /\ Cardinality(EnteredIn(t)) \in Nat
        BY <1>1, Counted
      <4>4. Cardinality(EnteredIn(t) \cup {cur.run}) <= 1 + Cardinality(EnteredIn(t))
        BY <4>3, FS_AddElement
      <4>5. QED
        BY <3>3, <3>5, <4>1, <4>2, <4>4
    <3>6. ASSUME NEW t \in Times, WindowStart(clock) <= WindowStart(t), ~Taken(t)
          PROVE  Even(t)'
      <4>1. ~InWindow(At, t)
        BY <1>1, <2>1, <3>1, <3>6 DEF Taken, SlotTypes
      <4>2. ~SameWindow(At, t)
        BY <3>5, <4>1
      <4>3. Even(t)
        BY <2>1, <2>3, <3>6 DEF ReserveInv, SlotInv
      <4>4. QED
        BY <3>3, <4>2, <4>3 DEF Even
    <3>7. SlotInv'
      <4>1. \A t \in Times : Taken(t)' <=> Taken(t)
        BY <2>1 DEF Taken, InWindow, WindowStart
      <4>2. QED
        BY <2>1, <3>6, <4>1 DEF SlotInv, WindowStart
    <3>8. \A t \in Times : Cardinality(EnteredIn(t)') <= 1 + Cardinality(RestoredIn(t)')
      <4>1. ASSUME NEW t \in Times
            PROVE  Cardinality(EnteredIn(t)') <= 1 + Cardinality(RestoredIn(t)')
        <5>1. CASE SameWindow(At, t)
          <6>1. Cardinality(EnteredIn(t)) <= Cardinality(RestoredIn(t))
            BY <3>5, <5>1 DEF Even
          <6>2. /\ Cardinality(EnteredIn(t)') <= 1 + Cardinality(EnteredIn(t))
                /\ Cardinality(RestoredIn(t)') = Cardinality(RestoredIn(t))
            BY <3>3, <3>5, <5>1
          <6>3. Cardinality(EnteredIn(t)') \in Nat
            <7>1. IsFiniteSet(EnteredIn(t)')
              BY <3>2, FS_Subset DEF EnteredIn
            <7>2. QED
              BY <7>1, FS_CardinalityType
          <6>4. QED
            BY <1>2, <6>1, <6>2, <6>3
        <5>2. CASE ~SameWindow(At, t)
          BY <3>3, <5>2, HoldsCounted DEF ReserveInv
        <5>3. QED
          BY <5>1, <5>2
      <4>2. QED
        BY <4>1
    <3>9. ReserveHolds'
      BY <3>8 DEF ReserveHolds, EnteredIn, RestoredIn
    <3>10. EntryIsReserved'
      <4>1. quota[runs[cur.run].book] = runs[cur.run].at /\ At \in Nat
        BY <1>1, <1>3, <2>1, <3>1 DEF SlotTypes, At
      <4>2. QED
        BY <2>1, <3>2, <4>1 DEF ReserveInv, EntryIsReserved, At
    <3>11. QED
      BY <3>4, <3>7, <3>9, <3>10 DEF ReserveInv
  <2>4. QED
    BY <2>2, <2>3
<1>7. ASSUME NEW b \in Books, RestoreQuota(b) PROVE ReserveInv'
  <2>1. /\ Site = "reserve" /\ pc = "off" /\ UNCHANGED <<pc, runs, cur, clock, entered>>
        /\ {c \in Books : InWindow(quota[c], clock)} = {b}
        /\ quota' = [quota EXCEPT ![b] = NoTime]
        /\ restored' = Append(restored, clock)
    BY <1>7 DEF RestoreQuota
  <2> DEFINE n == Len(restored) + 1
  <2>2. /\ restored' \in Seq(Times) /\ DOMAIN restored' = DOMAIN restored \cup {n}
        /\ n \notin DOMAIN restored /\ restored'[n] = clock
        /\ \A i \in DOMAIN restored : restored'[i] = restored[i]
    BY <1>1, <2>1 DEF SlotTypes
  <2> HIDE DEF n
  <2>3. quota'[b] = NoTime /\ \A c \in Books \ {b} : quota'[c] = quota[c]
    BY <1>1, <2>1 DEF SlotTypes
  <2>4. ASSUME NEW t
        PROVE  /\ EnteredIn(t)' = EnteredIn(t)
               /\ RestoredIn(t)' = IF SameWindow(clock, t) THEN RestoredIn(t) \cup {n}
                                                           ELSE RestoredIn(t)
    <3>1. EnteredIn(t)' = EnteredIn(t)
      BY <2>1 DEF EnteredIn, SameWindow, WindowStart
    <3>2. RestoredIn(t)' = {i \in DOMAIN restored' : SameWindow(restored'[i], t)}
      BY DEF RestoredIn, SameWindow, WindowStart
    <3>3. QED
      BY <2>2, <3>1, <3>2 DEF RestoredIn
  <2>5. ASSUME NEW t
        PROVE  /\ Cardinality(RestoredIn(t)') \in Nat
               /\ Cardinality(RestoredIn(t)) <= Cardinality(RestoredIn(t)')
               /\ SameWindow(clock, t) =>
                    Cardinality(RestoredIn(t)') = Cardinality(RestoredIn(t)) + 1
    <3>1. IsFiniteSet(RestoredIn(t)) /\ n \notin RestoredIn(t)
          /\ Cardinality(RestoredIn(t)) \in Nat
      BY <1>1, <2>2, Counted DEF RestoredIn
    <3>2. Cardinality(RestoredIn(t) \cup {n}) = Cardinality(RestoredIn(t)) + 1
      BY <3>1, FS_AddElement
    <3>3. CASE SameWindow(clock, t)
      <4>1. RestoredIn(t)' = RestoredIn(t) \cup {n}
        BY <2>4, <3>3
      <4>2. Cardinality(RestoredIn(t)') = Cardinality(RestoredIn(t)) + 1
        BY <3>2, <4>1
      <4>3. QED
        BY <3>1, <4>2
    <3>4. CASE ~SameWindow(clock, t)
      BY <2>4, <3>1, <3>4
    <3>5. QED
      BY <3>3, <3>4
  <2>6. SlotTypeOK'
    BY <1>3, <2>1, <2>2, <2>3 DEF ReserveInv, SlotTypeOK
  <2>7. ASSUME NEW t \in Times, WindowStart(clock) <= WindowStart(t), ~Taken(t)'
        PROVE  Even(t)'
    <3>1. CASE ~Taken(t)
      <4>1. Even(t)
        BY <2>1, <2>7, <3>1 DEF ReserveInv, SlotInv
      <4>2. Cardinality(EnteredIn(t)') <= Cardinality(RestoredIn(t)')
        BY <1>2, <2>4, <2>5, <4>1 DEF Even
      <4>3. QED
        BY <4>2 DEF Even
    <3>2. CASE Taken(t)
      <4>1. InWindow(quota[b], t)
        BY <2>3, <2>7, <3>2 DEF Taken, InWindow, WindowStart
      <4>2. quota[b] \in Nat \cup {NoTime} /\ quota[b] <= clock /\ t \in Nat
        BY <1>1, <2>1 DEF ReserveInv, SlotTypeOK, SlotTypes
      <4>3. quota[b] \in Nat
        BY <4>1, <4>2, Windows
      <4>4. WindowStart(quota[b]) = WindowStart(t)
        BY <4>1, <4>2, <4>3, Windows
      <4>5. WindowStart(quota[b]) <= WindowStart(clock)
        BY <1>3, <4>2, <4>3, Windows
      <4>6. SameWindow(clock, t)
        <5>1. WindowStart(clock) \in Nat /\ WindowStart(t) \in Nat
          BY <1>3, <4>2, Windows
        <5>2. QED
          BY <2>7, <4>4, <4>5, <5>1 DEF SameWindow
      <4>7. Cardinality(EnteredIn(t)) <= 1 + Cardinality(RestoredIn(t))
        BY HoldsCounted DEF ReserveInv
      <4>8. Cardinality(EnteredIn(t)') <= Cardinality(RestoredIn(t)')
        BY <1>2, <2>4, <2>5, <4>6, <4>7
      <4>9. QED
        BY <4>8 DEF Even
    <3>3. QED
      BY <3>1, <3>2
  <2>8. SlotInv'
    BY <2>1, <2>7 DEF SlotInv, WindowStart
  <2>9. ReserveHolds'
    <3>1. \A t \in Times : Cardinality(EnteredIn(t)') <= 1 + Cardinality(RestoredIn(t)')
      <4>1. ASSUME NEW t \in Times
            PROVE  Cardinality(EnteredIn(t)') <= 1 + Cardinality(RestoredIn(t)')
        <5>1. Cardinality(EnteredIn(t)) <= 1 + Cardinality(RestoredIn(t))
          BY HoldsCounted DEF ReserveInv
        <5>2. QED
          BY <1>2, <2>4, <2>5, <5>1
      <4>2. QED
        BY <4>1
    <3>2. QED
      BY <3>1 DEF ReserveHolds, EnteredIn, RestoredIn
  <2>10. EntryIsReserved'
    <3>1. \A r \in entered : runs[r].at \in Nat /\ clock >= runs[r].at
      BY <1>1, <1>3 DEF SlotTypes
    <3>2. QED
      BY <2>1, <2>2, <3>1 DEF EntryIsReserved
  <2>11. QED
    BY <2>6, <2>8, <2>9, <2>10 DEF ReserveInv
<1>8. ASSUME \/ (\E m \in {"capture", "grant"} : StartBatch(m)) \/ EndBatch
             \/ (\E b \in Books : Skip(b) \/ Refuse(b))
             \/ CrawlEnds \/ CrawlRaises \/ Debit \/ Record \/ Recheck \/ PackCheck
             \/ PackMove \/ PackStatus \/ Finalize \/ Fails \/ LateRecord \/ FailRun \/ Die
             \/ OtherSteps
      PROVE  ReserveInv'
  BY <1>1, <1>8, SlotsLeftAlone, KeepingSlots DEF ReserveInv
<1>9. QED
  BY <1>4, <1>5, <1>6, <1>7, <1>8 DEF Next, Batch, Crawl, Others, OtherSteps, Candidate
-------------------------------------------------------------------------------
(* The four invariants, the catalog's first, and what they say of a batch.  *)

BatchInv == CatalogInv /\ ReserveInv /\ TicketInv /\ LibraryInv

LEMMA Stuttering ==
  ASSUME BatchInv, UNCHANGED vars
  PROVE  BatchInv'
<1> USE DEF vars
<1>1. CatalogInv'
  BY DEF BatchInv, CatalogInv, TypeOK, CatalogTypeOK, FileTypeOK, BatchTypeOK, Files, Times,
         RunInv, SuccessIsAtomic, NoOpenRun
<1>2. SlotTypeOK' /\ SlotInv'
  BY DEF BatchInv, ReserveInv, SlotTypeOK, SlotInv, Reserves, At, Even, Taken, EnteredIn,
         RestoredIn, SameWindow, InWindow, WindowStart
<1>3. ReserveHolds' /\ EntryIsReserved'
  BY DEF BatchInv, ReserveInv, ReserveHolds, EntryIsReserved, SameWindow, WindowStart
<1>4. TicketInv'
  BY DEF BatchInv, TicketInv, Stored, TicketNotSpentTwice
<1>5. LibraryInv'
  BY DEF BatchInv, LibraryInv, FileInv, RecrawlInv, LocatorsLead
<1>6. QED
  BY <1>1, <1>2, <1>3, <1>4, <1>5 DEF BatchInv, ReserveInv

(* Every state a batch, its crash and everything beside it can lead to      *)
(* satisfies the four invariants.                                           *)
THEOREM BatchInvariant == Spec => []BatchInv
<1>1. Init => BatchInv
  BY InitCatalog, InitReserve, InitTicket, InitLibrary DEF BatchInv
<1>2. BatchInv /\ [Next]_vars => BatchInv'
  <2>1. ASSUME BatchInv, Next PROVE BatchInv'
    BY <2>1, CatalogStep, ReserveStep, TicketStep, LibraryStep DEF BatchInv
  <2>2. QED
    BY <2>1, Stuttering
<1>3. QED
  BY <1>1, <1>2, PTL DEF Spec

(* The Catalog's rows, the library's files and the batch's own state keep   *)
(* their types: a run row is never overwritten, a file is of a known run.   *)
THEOREM BatchTypeCorrect == Spec => []TypeOK
<1>1. BatchInv => TypeOK
  BY DEF BatchInv, CatalogInv
<1>2. QED
  BY <1>1, BatchInvariant, PTL

(* A capture has succeeded exactly if it has an artifact, whatever comes    *)
(* between the commit of finalize_successful_crawl and the handler.         *)
THEOREM BatchSuccessIsAtomic == Spec => []SuccessIsAtomic
<1>1. BatchInv => SuccessIsAtomic
  BY DEF BatchInv, CatalogInv
<1>2. QED
  BY <1>1, BatchInvariant, PTL

(* Only a kill or a Catalog that cannot be written leaves a run open.       *)
THEOREM BatchNoOpenRun == Spec => []NoOpenRun
<1>1. BatchInv => NoOpenRun
  BY DEF BatchInv, CatalogInv
<1>2. QED
  BY <1>1, BatchInvariant, PTL

(* The reader opens once per quota window and once more per restoration,    *)
(* for every length of the window.                                          *)
THEOREM BatchReserveHolds == Spec => []ReserveHolds
<1>1. BatchInv => ReserveHolds
  BY DEF BatchInv, ReserveInv
<1>2. QED
  BY <1>1, BatchInvariant, PTL

(* A reader that opened on the slot has a reservation in the Catalog that   *)
(* no failure takes back.                                                   *)
THEOREM BatchEntryIsReserved == Spec => []EntryIsReserved
<1>1. BatchInv => EntryIsReserved
  BY DEF BatchInv, ReserveInv
<1>2. QED
  BY <1>1, BatchInvariant, PTL

(* A ticket seen to go and not lost is not followed by another one before   *)
(* its cooldown is over, for every cooldown.                                *)
THEOREM BatchTicketNotSpentTwice == Spec => []TicketNotSpentTwice
<1>1. BatchInv => TicketNotSpentTwice
  BY DEF BatchInv, TicketInv
<1>2. QED
  BY <1>1, BatchInvariant, PTL

(* An artifact's locator leads to the ZIP of its own run, in the library or *)
(* the backup, through any number of recaptures.                            *)
THEOREM BatchLocatorsLead == Spec => []LocatorsLead
<1>1. BatchInv => LocatorsLead
  BY DEF BatchInv, LibraryInv
<1>2. QED
  BY <1>1, BatchInvariant, PTL
===============================================================================
