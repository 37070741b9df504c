------------------------------- MODULE MCEndings -------------------------------
(***************************************************************************)
(* What must come to an end, and the runs and passes it is about, for one   *)
(* run: the initial state chooses which of them moves.                      *)
(*   "job":    JobControl, one job whose worker and DB may fail;            *)
(*   "pages":  CrawlerRunner, the book MCBook, two page limits;             *)
(*   "next":   CrawlerRunner, a work that runs into the next, entered in    *)
(*             three ways, with advertisements that may never end;          *)
(*   "grants": DeferredGrants, three works of which two may be tried;       *)
(*   "batch":  BatchExecution, a ticket and a free book;                    *)
(*   "editor": WatchlistEditor beside the main window and a job.            *)
(***************************************************************************)
EXTENDS JobControl, DeferredGrants, SequencesExt

CONSTANT a

\* Three works, in this order.
MCOrder == <<"w1", "w2", "w3">>

VARIABLES
  part,
  \* CrawlerRunner, with its AccessGuard
  cChallenged, cStop, cWatching, cAnswer, cHeard,
  at, turns, mode, max_pages, pc, then, screen, ident, grabbed, tries, same,
  saved, batch, written, result, files, manifest, progress, late,
  \* BatchExecution
  clock, status, runs, artifacts, locator, quota, granted, bUsed, zip, side, backup,
  bPc, bMode, plan, cur, recrawl, bFaults, outside,
  entered, restored, debits, lost, left, strayed,
  \* WatchlistEditor
  pageFile, pageCatalog, stamp, handler, targets, revision, fields, dirty, guard, previewGuard,
  pending, scopePreview, syncPreview, shown, worker, told, mainWatch, stale, load,
  again, refresh, toggle, owed, others, pageEdits

crawlVars == <<cChallenged, cStop, cWatching, cAnswer, cHeard,
  at, turns, mode, max_pages, pc, then, screen, ident, grabbed, tries, same,
  saved, batch, written, result, files, manifest, progress, late>>
batchVars == <<clock, status, runs, artifacts, locator, quota, granted, bUsed, zip, side, backup,
  bPc, bMode, plan, cur, recrawl, bFaults, outside, entered, restored, debits, lost, left, strayed>>
editorVars == <<pageFile, pageCatalog, stamp, handler, targets, revision, fields, dirty, guard, previewGuard,
  pending, scopePreview, syncPreview, shown, worker, told, mainWatch, stale, load,
  again, refresh, toggle, owed, others, pageEdits>>
allVars == <<vars, crawlVars, passVars, batchVars, editorVars, part>>

-----------------------------------------------------------------------------
(* Books: two screens with the same bytes, a spread whose halves are equal,  *)
(* an advertisement in between, and the end; a work that the next one        *)
(* follows without an end screen of its own.                                 *)
Content(parts) == [kind |-> "content", work |-> 1, parts |-> parts]
Ad == [kind |-> "ad", work |-> 1, parts |-> <<>>]
EndScreen == [kind |-> "end", work |-> 1, parts |-> <<>>]
MCBook == <<Content(<<"x">>), Content(<<"x">>), Ad, Content(<<"y", "y">>), EndScreen>>
MCNextWork ==
  <<Content(<<"x">>), Ad, [kind |-> "content", work |-> 2, parts |-> <<"z">>], EndScreen>>

Pages == INSTANCE CrawlerRunner WITH
  Book <- MCBook, Modes <- {"full"}, Limits <- {3, 4}, MaxSame <- 2, Retries <- 1,
  Lag <- TRUE, StickyAds <- FALSE, state <- screen,
  challenged <- cChallenged, stop <- cStop, watching <- cWatching, answer <- cAnswer,
  heard <- cHeard
Followed == INSTANCE CrawlerRunner WITH
  Book <- MCNextWork, Modes <- {"full", "entry", "prepared"}, Limits <- {1, 2}, MaxSame <- 3,
  Retries <- 1, Lag <- TRUE, StickyAds <- TRUE, state <- screen,
  challenged <- cChallenged, stop <- cStop, watching <- cWatching, answer <- cAnswer,
  heard <- cHeard

Batch == INSTANCE BatchExecution WITH
  Books <- {"a", "b"}, FreeBooks <- {"a"}, NoBook <- "none", Site <- "ticket", WindowLen <- 2,
  Cooldown <- 1, Grant <- 2, MaxClock <- 1, MaxRuns <- 2, MaxFaults <- 1, MaxOutside <- 1,
  pc <- bPc, mode <- bMode, used <- bUsed, faults <- bFaults

Editor == INSTANCE WatchlistEditor WITH
  PageKeys <- {"mine", "theirs"}, Mine <- "mine", WritesBetweenReads <- FALSE, MaxOthers <- 0,
  MaxEdits <- 0, MaxCatalog <- 1, at <- handler, active <- told

ASSUME Pages!RunnerAssumption /\ Followed!RunnerAssumption /\ GrantsAssumption

-----------------------------------------------------------------------------
MCInit ==
  /\ part \in {"job", "pages", "next", "grants", "batch", "editor"}
  /\ Init /\ PassInit /\ Batch!Init /\ Editor!PageInit
  /\ IF part = "next" THEN Followed!Init ELSE Pages!Init
  (* What does not move begins in one way only.                              *)
  /\ part \notin {"pages", "next"} => max_pages = 3
  (* One work may wait for its ticket from the beginning.                    *)
  /\ stored \subseteq IF part = "grants" THEN {"w2"} ELSE {}

MCNext ==
  /\ UNCHANGED part
  /\ \/ part = "job" /\ Next /\ UNCHANGED <<crawlVars, passVars, batchVars, editorVars>>
     \/ part = "pages" /\ Pages!Next /\ UNCHANGED <<vars, passVars, batchVars, editorVars>>
     \/ part = "next" /\ Followed!Next /\ UNCHANGED <<vars, passVars, batchVars, editorVars>>
     \/ part = "grants" /\ PassNext /\ UNCHANGED <<vars, crawlVars, batchVars, editorVars>>
     \/ part = "batch" /\ Batch!Next /\ UNCHANGED <<vars, crawlVars, passVars, editorVars>>
     \/ part = "editor" /\ Editor!PageNext /\ UNCHANGED <<vars, crawlVars, passVars, batchVars>>

(* The fairness of each module, of the part that moves.                      *)
JobFairness ==
  /\ WF_vars(part = "job" /\ (RecordIdentity \/ OpenGate))
  /\ WF_vars(part = "job" /\ Poll)
RunFairness ==
  /\ WF_crawlVars(part = "pages" /\ Pages!Runner)
  /\ WF_crawlVars(part = "next" /\ Followed!Runner)
  /\ WF_passVars(part = "grants" /\ Pass /\ UNCHANGED mishaps)
  /\ WF_batchVars(part = "batch" /\ Batch!Batch)
EditorFairness ==
  /\ WF_editorVars(part = "editor" /\ Editor!Threads)
  /\ WF_editorVars(part = "editor" /\ Editor!Arrivals)
  /\ WF_editorVars(part = "editor" /\ Editor!Handlers)
  /\ WF_editorVars(part = "editor" /\ (Editor!LoadReads \/ Editor!LoadFails))
  /\ WF_editorVars(part = "editor" /\ Editor!ToggleWrites)
  /\ WF_editorVars(part = "editor" /\ (Editor!ToggleArrives \/ Editor!ToggleFails))
  /\ WF_editorVars(part = "editor" /\ Editor!LoadArrives)

MCSpec == MCInit /\ [][MCNext]_allVars /\ JobFairness /\ RunFairness /\ EditorFairness

-----------------------------------------------------------------------------
ScreenKeys(book, n) ==
  IF book[n].kind = "content" /\ book[n].work = book[1].work
  THEN [i \in DOMAIN book[n].parts |->
         [id |-> n, count |-> Len(book[n].parts), index |-> i, bytes |-> book[n].parts[i]]]
  ELSE <<>>
AllPages(book) == FlattenSeq([n \in DOMAIN book |-> ScreenKeys(book, n)])

(* The pages are saved once each, in the order of the book and with none     *)
(* left out, whatever is repeated, equal or in between; a complete run has   *)
(* them all.  max_pages fails a run only if the work has more pages than     *)
(* that, or the last one is shown again.  With CrawlerRunner's               *)
(* ManifestHolds, NoPageTwice and OneAnswerAfterStop.                        *)
PagesInOrder ==
  /\ part = "pages" =>
       /\ Pages!TypeOK /\ Pages!ManifestHolds /\ Pages!NoPageTwice /\ Pages!OneAnswerAfterStop
       /\ IsPrefix(saved, AllPages(MCBook)) /\ IsPrefix(manifest, AllPages(MCBook))
       /\ result = "complete" => saved = AllPages(MCBook)
       /\ result = "too_many" => Len(AllPages(MCBook)) > max_pages \/ turns > 0
  /\ part = "next" =>
       Followed!TypeOK /\ Followed!ManifestHolds /\ Followed!NoPageTwice /\ Followed!OneAnswerAfterStop

(* A stop ends the run and the pass it comes in, a pass with its error;      *)
(* CrawlerRunner's StopEndsRun and DeferredGrants' StopEndsPass.             *)
StopsEnd ==
  \/ part \in {"pages", "next"} /\ cStop # "none"
  \/ part = "grants" /\ Stopping
  ~> \/ part \in {"pages", "next"} /\ Pages!Over
     \/ part = "grants" /\ outcome \in {"failed", "interrupted"}

(* Batches, runs and passes come back, unless a run in a batch never does:   *)
(* BatchExecution's BatchEnds, CrawlerRunner's RunEnds where no               *)
(* advertisement follows another for ever, and DeferredGrants' PassEnds.     *)
BatchEnds ==
  \/ \/ part = "batch" /\ bPc # "off"
     \/ part \in {"pages", "grants"}
     ~> \/ part = "batch" /\ bPc = "off"
        \/ part = "pages" /\ Pages!Over
        \/ part = "grants" /\ PassOver
  \/ <>[](part = "batch" /\ bPc = "crawl")

(* WatchlistEditor: OperationsEnd and SyncIsShown.                           *)
SyncIsShown == Editor!OperationsEnd /\ Editor!SyncIsShown
=============================================================================
