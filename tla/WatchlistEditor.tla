--------------------------- MODULE WatchlistEditor ---------------------------
(* The Watchlist page of the GUI (gui/watchlist_editor.py) beside the main   *)
(* window (gui/main_window.py), which reloads and whose switch writes the    *)
(* same file. The page keeps the targets it shows and the revision it saves  *)
(* against, hands its work to one thread at a time, and drops the results of *)
(* threads that the Catalog has overtaken. Others (the command line, a text  *)
(* editor, other dialogs) write the file too; what a write does inside is    *)
(* the module WatchlistEdits'.                                               *)
EXTENDS Naturals

CONSTANTS
  PageKeys,      \* of one Work in the Watchlist
  Mine,          \* the key the page has selected
  WritesBetweenReads, \* others may write while the page reads the file twice
  MaxOthers,     \* writes of others to the Watchlist
  MaxEdits,      \* changes the operator makes to the fields and with the switch
  MaxCatalog     \* changes of the Catalog

ASSUME WatchlistEditorAssumption ==
  Mine \in PageKeys /\ WritesBetweenReads \in BOOLEAN /\ MaxOthers \in Nat /\ MaxEdits \in Nat /\ MaxCatalog \in Nat

VARIABLES
  pageFile,      \* the Watchlist; its revision is its content
  pageCatalog,   \* the content of the Catalog
  stamp,         \* size and time of the Catalog's file
  at,            \* the page: where its handler is
  targets, revision, \* what it shows and what it saves against
  fields, dirty, \* its fields, and the mark of a draft
  guard, previewGuard, \* the stamps it has seen
  pending,       \* the preview of the draft
  scopePreview,  \* its part that was computed against the Catalog
  syncPreview,   \* the preview of a scope-sync
  shown,         \* the Catalog it displays
  worker,        \* its thread
  active,        \* it has been told of a job or of a save of the main window
  mainWatch, stale, \* the main window: the Watchlist it shows, and that it is old
  load,          \* its reload
  again, refresh, \* a second reload is due; the reload follows a switch
  toggle,        \* its switch
  owed,          \* auxiliary: the Catalog after the page's last scope-sync, until a failure to show it is told
  others, pageEdits  \* bounds

world == <<pageFile, pageCatalog, stamp, others, pageEdits>>
baseline == <<targets, revision>>
previews == <<pending, scopePreview, syncPreview>>
main == <<mainWatch, stale, load, again, refresh, toggle>>
page == <<at, baseline, fields, dirty, guard, previewGuard, previews, shown, worker, active>>
pageVars == <<world, page, main, owed>>

Texts == {0, 1}
Targets == [text : Texts, scope : {0, 1}]
Contents == [PageKeys -> Targets]

None == [kind |-> "none"]
NoWorker == None

Affects(draftOf, base) == \E k \in PageKeys : draftOf[k].scope # base[k].scope
Busy == worker # NoWorker
Is(kind, step) == Busy /\ worker.kind = kind /\ worker.step = step
Ready == at = "idle" /\ ~Busy
Editable == Ready /\ ~active

PageInit ==
  /\ pageFile = [k \in PageKeys |-> [text |-> 0, scope |-> 0]] /\ pageCatalog = 0 /\ stamp = 0
  /\ at = "idle" /\ targets = pageFile /\ revision = pageFile /\ fields = pageFile /\ dirty = FALSE
  /\ guard = 0 /\ previewGuard = 0
  /\ pending = None /\ scopePreview = None /\ syncPreview = None
  /\ shown = 0 /\ worker = NoWorker /\ active = FALSE
  /\ mainWatch = pageFile /\ stale = FALSE /\ load = None /\ again = FALSE /\ refresh = FALSE
  /\ toggle = None /\ owed = 0 /\ others = 0 /\ pageEdits = 0

Edits == pageEdits < MaxEdits /\ pageEdits' = pageEdits + 1

ForgetPreviews == pending' = None /\ scopePreview' = None /\ syncPreview' = None

-----------------------------------------------------------------------------
(* Others.                                                                   *)

HoldsJobLock == Is("apply", "locked") \/ (Is("save", "locked") /\ worker.of.affects)

(* The page has the targets of one reading, or of its own save, and reads    *)
(* the revision next.                                                        *)
HalfRead == at \in {"saved", "reloading", "opening", "discarding"} \/ Is("save", "done")

OtherWrites ==
  /\ others < MaxOthers /\ others' = others + 1
  /\ HalfRead => WritesBetweenReads
  /\ \E k \in PageKeys, t \in Texts : t # pageFile[k].text /\ pageFile' = [pageFile EXCEPT ![k].text = t]
  /\ UNCHANGED <<pageCatalog, stamp, pageEdits, page, main, owed>>

(* A change need not show in the size and the time of the file.              *)
CatalogChanges ==
  /\ pageCatalog' = pageCatalog + 1 /\ pageCatalog < MaxCatalog
  /\ stamp' \in {stamp, stamp + 1}

(* A Discovery or a Batch, under the job lock.                               *)
JobWrites ==
  /\ ~HoldsJobLock /\ CatalogChanges
  /\ UNCHANGED <<pageFile, page, main, owed, others, pageEdits>>

-----------------------------------------------------------------------------
(* The page: its fields.                                                     *)

Edit ==
  /\ Editable /\ Edits
  /\ \/ fields' = [fields EXCEPT ![Mine].text = 1 - @]
     \/ fields' = [fields EXCEPT ![Mine].scope = 1 - @]
  /\ dirty' = TRUE /\ ForgetPreviews
  /\ UNCHANGED <<pageFile, pageCatalog, stamp, others, at, baseline, guard, previewGuard, shown, worker, active, main, owed>>

(* Moving a key up or down renumbers every key of the Work.                  *)
Reorder ==
  /\ Editable /\ Edits
  /\ fields' = [k \in PageKeys |-> [fields[k] EXCEPT !.scope = 1 - @]]
  /\ dirty' = TRUE /\ ForgetPreviews
  /\ UNCHANGED <<pageFile, pageCatalog, stamp, others, at, baseline, guard, previewGuard, shown, worker, active, main, owed>>

(* Discarding, on the way to another key, restores the whole baseline, read  *)
(* anew; its revision is the next reading.                                   *)
Discard ==
  /\ Ready /\ dirty
  /\ targets' = pageFile /\ fields' = pageFile /\ dirty' = FALSE /\ ForgetPreviews
  /\ at' = "discarding"
  /\ UNCHANGED <<world, revision, guard, previewGuard, shown, worker, active, main, owed>>

-----------------------------------------------------------------------------
(* The page: preview and save.                                               *)

(* The page counts a generation and compares; all that matters is whether it *)
(* still is the one the thread was started in.                               *)
Starts(kind, of) ==
  worker' = [kind |-> kind, step |-> "begun", current |-> TRUE, overtaken |-> FALSE, of |-> of, found |-> None]
ThreadGoes(step, found) == worker' = [worker EXCEPT !.step = step, !.found = found]

(* A draft that changes what is selected needs a complete listing (listed)   *)
(* and the Catalog; any other is previewed on the spot.                      *)
Preview ==
  /\ Editable
  /\ scopePreview' = None /\ syncPreview' = syncPreview /\ previewGuard' = stamp
  /\ \/ /\ revision # pageFile \/ Affects(fields, targets)
        /\ pending' = None /\ worker' = worker
     \/ /\ revision = pageFile /\ ~Affects(fields, targets)
        /\ pending' = [kind |-> "ready", targets |-> fields] /\ worker' = worker
     \/ /\ revision = pageFile /\ Affects(fields, targets)
        /\ pending' = [kind |-> "running", targets |-> fields] /\ Starts("preview", fields)
  /\ UNCHANGED <<world, at, baseline, fields, dirty, guard, shown, active, main, owed>>

PreviewReads ==
  /\ Is("preview", "begun") /\ ThreadGoes("done", pageCatalog)
  /\ UNCHANGED <<world, at, baseline, fields, dirty, guard, previewGuard, previews, shown, active, main, owed>>

AsksReload ==
  IF toggle # None \/ load # None
  THEN again' = TRUE /\ UNCHANGED <<mainWatch, stale, load, refresh, toggle>>
  ELSE load' = [kind |-> "reading"] /\ UNCHANGED <<mainWatch, stale, again, refresh, toggle>>

(* Handlers run one after another; while a question is open, those of        *)
(* threads and of the main window do.                                        *)
GuiFree == at \in {"idle", "asking", "closed"}

PreviewArrives ==
  /\ GuiFree /\ Is("preview", "done")
  /\ worker' = NoWorker
  /\ IF worker.current
     THEN /\ scopePreview' = [kind |-> "scope", proposal |-> worker.of, catalog |-> worker.found,
                              overtaken |-> worker.overtaken]
          /\ pending' = IF pending = None THEN None ELSE [pending EXCEPT !.kind = "ready"]
     ELSE UNCHANGED <<scopePreview, pending>>
  /\ UNCHANGED <<world, at, baseline, fields, dirty, guard, previewGuard, syncPreview, shown, active, main, owed>>

Covered ==
  /\ pending # None /\ pending.kind = "ready" /\ pending.targets = fields
  /\ Affects(fields, targets) => scopePreview # None /\ scopePreview.proposal = fields
  /\ guard = stamp /\ previewGuard = stamp

Save ==
  /\ Editable /\ Covered
  /\ Starts("save", [proposal |-> fields, against |-> revision, affects |-> Affects(fields, targets),
                     stamp |-> guard, catalog |-> IF Affects(fields, targets) THEN scopePreview.catalog ELSE 0])
  /\ UNCHANGED <<world, at, baseline, fields, dirty, guard, previewGuard, previews, shown, active, main, owed>>

SameCatalog(of) == of.affects => stamp = of.stamp /\ pageCatalog = of.catalog

SaveEnters ==
  /\ Is("save", "begun") /\ SameCatalog(worker.of) /\ ThreadGoes("locked", None)
  /\ UNCHANGED <<world, at, baseline, fields, dirty, guard, previewGuard, previews, shown, active, main, owed>>

SaveWrites ==
  /\ Is("save", "locked")
  /\ IF pageFile = worker.of.against
     THEN pageFile' = worker.of.proposal /\ ThreadGoes("done", None)
     ELSE pageFile' = pageFile /\ ThreadGoes("failed", None)
  /\ UNCHANGED <<pageCatalog, stamp, others, pageEdits, at, baseline, fields, dirty, guard, previewGuard, previews, shown, active, main, owed>>

(* The result of a generation that is over would never be looked at.         *)
SaveArrives ==
  /\ GuiFree /\ Is("save", "done")
  /\ IF worker.current
     THEN worker' = NoWorker /\ targets' = worker.of.proposal /\ at' = "saved"
     ELSE ThreadGoes("dropped", None) /\ UNCHANGED <<targets, at>>
  /\ UNCHANGED <<world, revision, fields, dirty, guard, previewGuard, previews, shown, active, main, owed>>

(* The revision is read again, in the page, after the thread has written.    *)
SaveSettles ==
  /\ at = "saved" /\ at' = "idle"
  /\ revision' = pageFile /\ fields' = targets /\ dirty' = FALSE /\ guard' = stamp /\ ForgetPreviews
  /\ AsksReload
  /\ UNCHANGED <<world, targets, previewGuard, shown, worker, active, owed>>

-----------------------------------------------------------------------------
(* The page: the Catalog shown, and a scope-sync.                            *)

(* A Catalog to display: previews are of the one before. A thread that is    *)
(* computing one must not bring it back.                                     *)
Overtakes(w) ==
  IF w = NoWorker THEN w
  ELSE IF w.kind \in {"preview", "sync", "apply"} THEN [w EXCEPT !.current = FALSE, !.overtaken = TRUE]
  ELSE w

Receives(c, w) ==
  /\ worker' = Overtakes(w) /\ shown' = c /\ guard' = stamp /\ ForgetPreviews

Rereads ==
  /\ targets' = pageFile /\ fields' = pageFile /\ dirty' = FALSE /\ ForgetPreviews /\ at' = "reloading"

Reload ==
  /\ Ready /\ Rereads
  /\ UNCHANGED <<world, revision, guard, previewGuard, shown, worker, active, main, owed>>

ReloadSettles ==
  /\ at = "reloading" /\ at' = "idle"
  /\ revision' = pageFile /\ guard' = stamp /\ Starts("reload", None)
  /\ UNCHANGED <<world, targets, fields, dirty, previewGuard, previews, shown, active, main, owed>>

ReloadReads ==
  /\ Is("reload", "begun") /\ ThreadGoes("done", pageCatalog)
  /\ UNCHANGED <<world, at, baseline, fields, dirty, guard, previewGuard, previews, shown, active, main, owed>>

ReloadArrives ==
  /\ GuiFree /\ Is("reload", "done")
  /\ IF worker.current
     THEN Receives(worker.found, NoWorker) /\ AsksReload
     ELSE ThreadGoes("dropped", None) /\ UNCHANGED <<shown, guard, previews, main>>
  /\ UNCHANGED <<world, at, baseline, fields, dirty, previewGuard, active, owed>>

Sync ==
  /\ Editable /\ ~dirty /\ Starts("sync", None)
  /\ UNCHANGED <<world, at, baseline, fields, dirty, guard, previewGuard, previews, shown, active, main, owed>>

SyncReads ==
  /\ Is("sync", "begun") /\ ThreadGoes("done", [watch |-> pageFile, catalog |-> pageCatalog])
  /\ UNCHANGED <<world, at, baseline, fields, dirty, guard, previewGuard, previews, shown, active, main, owed>>

SyncArrives ==
  /\ GuiFree /\ Is("sync", "done")
  /\ worker' = NoWorker
  /\ syncPreview' = IF worker.current
                    THEN [kind |-> "sync", watch |-> worker.found.watch, catalog |-> worker.found.catalog,
                          revision |-> pageFile, overtaken |-> worker.overtaken]
                    ELSE syncPreview
  /\ UNCHANGED <<world, at, baseline, fields, dirty, guard, previewGuard, pending, scopePreview, shown, active, main, owed>>

MayApply == ~Busy /\ ~dirty /\ ~active /\ syncPreview # None /\ syncPreview.revision = pageFile

Asks ==
  /\ at = "idle" /\ MayApply /\ at' = "asking"
  /\ UNCHANGED <<world, baseline, fields, dirty, guard, previewGuard, previews, shown, worker, active, main, owed>>

(* Everything is asked again after the answer.                               *)
Answered ==
  /\ at = "asking" /\ at' = "idle"
  /\ \/ MayApply /\ Starts("apply", syncPreview)
     \/ worker' = worker
  /\ UNCHANGED <<world, baseline, fields, dirty, guard, previewGuard, previews, shown, active, main, owed>>

ApplyEnters ==
  /\ Is("apply", "begun") /\ ThreadGoes("locked", None)
  /\ UNCHANGED <<world, at, baseline, fields, dirty, guard, previewGuard, previews, shown, active, main, owed>>

ApplyWrites ==
  /\ Is("apply", "locked")
  /\ IF pageFile = worker.of.watch /\ pageCatalog = worker.of.catalog
     THEN /\ CatalogChanges \/ UNCHANGED <<pageCatalog, stamp>>
          /\ owed' = pageCatalog' /\ ThreadGoes("done", None)
     ELSE UNCHANGED <<pageCatalog, stamp, owed>> /\ ThreadGoes("failed", None)
  /\ UNCHANGED <<pageFile, others, pageEdits, at, baseline, fields, dirty, guard, previewGuard, previews, shown, active, main>>

(* Fault: a result that comes late is forgotten.                             *)
WrongApplyArrives ==
  /\ GuiFree /\ Is("apply", "done")
  /\ worker' = NoWorker
  /\ IF worker.current THEN syncPreview' = None /\ AsksReload ELSE UNCHANGED <<syncPreview, main>>
  /\ UNCHANGED <<world, at, baseline, fields, dirty, guard, previewGuard, pending, scopePreview, shown, active, owed>>

(* Applied; but the display was renewed meanwhile, perhaps from before: the  *)
(* page reads what is there now.                                             *)
ApplyArrives ==
  /\ GuiFree /\ Is("apply", "done")
  /\ worker' = NoWorker
  /\ IF worker.current
     THEN /\ syncPreview' = None /\ AsksReload
          /\ UNCHANGED <<at, targets, fields, dirty, pending, scopePreview>>
     ELSE Rereads /\ UNCHANGED main
  /\ UNCHANGED <<world, revision, guard, previewGuard, shown, active, owed>>

-----------------------------------------------------------------------------
(* The page: listings, failures, opening and closing.                        *)

(* The listings of the Work, one key after another; for a Full run the main  *)
(* window asks in the end.                                                   *)
Fetch ==
  /\ Editable /\ \E full \in {FALSE, ~dirty} : Starts("listing", [full |-> full])
  /\ UNCHANGED <<world, at, baseline, fields, dirty, guard, previewGuard, previews, shown, active, main, owed>>

Fetched ==
  /\ GuiFree /\ Is("listing", "begun")
  /\ IF worker.current
     THEN /\ worker' = NoWorker
          /\ IF worker.of.full /\ ~dirty /\ revision = pageFile /\ ~active THEN AsksReload ELSE UNCHANGED main
     ELSE ThreadGoes("dropped", None) /\ UNCHANGED main
  /\ UNCHANGED <<world, at, baseline, fields, dirty, guard, previewGuard, previews, shown, active, owed>>

ThreadFails ==
  /\ Busy /\ worker.step \in {"begun", "locked"} /\ worker.kind # "listing" /\ ThreadGoes("failed", None)
  /\ UNCHANGED <<world, at, baseline, fields, dirty, guard, previewGuard, previews, shown, active, main, owed>>

(* Fault: a refused save takes up the revision it was refused for.           *)
WrongFailureArrives ==
  /\ GuiFree /\ Busy /\ worker.step = "failed" /\ worker' = NoWorker
  /\ revision' = pageFile
  /\ UNCHANGED <<world, at, targets, fields, dirty, guard, previewGuard, previews, shown, active, main, owed>>

FailureArrives ==
  /\ GuiFree /\ Busy /\ worker.step = "failed" /\ worker' = NoWorker
  /\ IF worker.kind = "preview" THEN pending' = None /\ scopePreview' = None ELSE UNCHANGED <<pending, scopePreview>>
  /\ owed' = IF worker.kind = "reload" THEN 0 ELSE owed
  /\ UNCHANGED <<world, at, baseline, fields, dirty, guard, previewGuard, syncPreview, shown, active, main>>

DiscardSettles ==
  /\ at \in {"discarding", "opening"} /\ at' = "idle"
  /\ revision' = pageFile /\ guard' = (IF at = "opening" THEN stamp ELSE guard)
  /\ UNCHANGED <<world, targets, fields, dirty, previewGuard, previews, shown, worker, active, main, owed>>

Close ==
  /\ Ready /\ at' = "closed"
  /\ UNCHANGED <<world, baseline, fields, dirty, guard, previewGuard, previews, shown, worker, active, main, owed>>

-----------------------------------------------------------------------------
(* The main window.                                                          *)

Saving == toggle # None \/ refresh
Told(saving) == active' \in {TRUE, saving}

(* The timer that follows the jobs also tells the page.                      *)
Poll ==
  /\ GuiFree /\ Told(Saving)
  /\ UNCHANGED <<world, at, baseline, fields, dirty, guard, previewGuard, previews, shown, worker, main, owed>>

MainReload ==
  /\ GuiFree /\ at # "asking" /\ load = None /\ ~Saving /\ AsksReload
  /\ UNCHANGED <<world, page, owed>>

LoadReads ==
  /\ load # None /\ load.kind = "reading"
  /\ load' = [kind |-> "read", watch |-> pageFile, catalog |-> pageCatalog]
  /\ UNCHANGED <<world, page, mainWatch, stale, again, refresh, toggle, owed>>

(* A page with a draft or a thread keeps what it goes by; any other is moved *)
(* to the targets and the revision of the main window.                       *)
Accepts(watch) ==
  IF at = "closed" \/ dirty \/ Busy
  THEN UNCHANGED <<baseline, fields>>
  ELSE targets' = watch /\ revision' = watch /\ fields' = watch

LoadArrives ==
  /\ GuiFree /\ load # None /\ load.kind = "read"
  /\ IF again
     THEN /\ again' = FALSE /\ load' = [kind |-> "reading"]
          /\ UNCHANGED <<baseline, fields, guard, previews, shown, worker, active, mainWatch, stale, refresh>>
     ELSE /\ load' = None /\ mainWatch' = load.watch /\ stale' = FALSE
          /\ Receives(load.catalog, worker)
          /\ IF refresh THEN Accepts(load.watch) ELSE UNCHANGED <<baseline, fields>>
          /\ refresh' = FALSE /\ again' = again /\ Told(toggle # None)
  /\ UNCHANGED <<world, at, dirty, previewGuard, toggle, owed>>

LoadFails ==
  /\ GuiFree /\ load # None /\ load.kind = "reading"
  /\ stale' = TRUE /\ owed' = 0
  /\ IF again
     THEN again' = FALSE /\ load' = load /\ UNCHANGED <<refresh, active>>
     ELSE load' = None /\ refresh' = FALSE /\ again' = again /\ Told(toggle # None)
  /\ UNCHANGED <<world, at, baseline, fields, dirty, guard, previewGuard, previews, shown, worker, mainWatch, toggle>>

(* The switch of a key: not beside a job, a draft or a thread of the page.   *)
Toggle ==
  /\ GuiFree /\ at # "asking" /\ Edits /\ ~Saving /\ load = None /\ ~stale /\ ~active
  /\ at = "closed" \/ (~dirty /\ ~Busy)
  /\ \E k \in PageKeys : toggle' = [kind |-> "saving", key |-> k]
  /\ active' = TRUE
  /\ UNCHANGED <<pageFile, pageCatalog, stamp, others, at, baseline, fields, dirty, guard, previewGuard, previews, shown, worker, mainWatch, stale, load, again, refresh, owed>>

(* Write and reading back are one under the file's lock.                     *)
ToggleWrites ==
  /\ toggle # None /\ toggle.kind = "saving"
  /\ HalfRead => WritesBetweenReads
  /\ \/ /\ pageFile = mainWatch
        /\ pageFile' = [pageFile EXCEPT ![toggle.key].text = 1 - @]
        /\ \E kind \in {"done", "unverified"} : toggle' = [kind |-> kind, watch |-> pageFile']
     \/ pageFile' = pageFile /\ toggle' = [kind |-> "failed"]
  /\ UNCHANGED <<pageCatalog, stamp, others, pageEdits, page, mainWatch, stale, load, again, refresh, owed>>

ToggleArrives ==
  /\ GuiFree /\ toggle # None /\ toggle.kind \in {"done", "unverified"}
  /\ toggle' = None /\ refresh' = TRUE /\ again' = FALSE /\ load' = [kind |-> "reading"]
  /\ mainWatch' = toggle.watch /\ stale' = (toggle.kind = "unverified")
  /\ IF toggle.kind = "done" /\ ~(at = "closed" \/ dirty \/ Busy)
     THEN Accepts(toggle.watch) /\ Receives(shown, worker)
     ELSE UNCHANGED <<baseline, fields, guard, previews, shown, worker>>
  /\ UNCHANGED <<world, at, dirty, previewGuard, active, owed>>

ToggleFails ==
  /\ GuiFree /\ toggle # None /\ toggle.kind = "failed"
  /\ toggle' = None /\ stale' = TRUE /\ again' = FALSE /\ Told(refresh)
  /\ UNCHANGED <<world, at, baseline, fields, dirty, guard, previewGuard, previews, shown, worker, mainWatch, load, refresh, owed>>

(* Opened anew, the page begins with the snapshot of the main window.        *)
Open ==
  /\ at = "closed" /\ ~Saving /\ at' = "opening"
  /\ targets' = pageFile /\ fields' = pageFile /\ dirty' = FALSE /\ ForgetPreviews
  /\ previewGuard' = 0 /\ active' \in BOOLEAN
  /\ UNCHANGED <<world, revision, guard, shown, worker, main, owed>>

-----------------------------------------------------------------------------
Operator == Edit \/ Reorder \/ Discard \/ Preview \/ Save \/ Reload \/ Sync \/ Asks \/ Answered \/ Fetch \/ Close \/ Open
            \/ MainReload \/ Toggle
Threads == PreviewReads \/ SaveEnters \/ SaveWrites \/ ReloadReads \/ SyncReads \/ ApplyEnters \/ ApplyWrites \/ ThreadFails
Arrivals == PreviewArrives \/ SaveArrives \/ ReloadArrives \/ SyncArrives \/ ApplyArrives \/ Fetched \/ FailureArrives
Handlers == SaveSettles \/ ReloadSettles \/ DiscardSettles
Window == LoadReads \/ LoadArrives \/ LoadFails \/ ToggleWrites \/ ToggleArrives \/ ToggleFails \/ Poll
PageNext == Operator \/ Threads \/ Arrivals \/ Handlers \/ Window \/ OtherWrites \/ JobWrites

Fairness ==
  /\ WF_pageVars(Threads) /\ WF_pageVars(Arrivals) /\ WF_pageVars(Handlers)
  /\ WF_pageVars(LoadReads \/ LoadFails) /\ WF_pageVars(ToggleWrites) /\ WF_pageVars(ToggleArrives \/ ToggleFails)
  /\ WF_pageVars(LoadArrives)

PageSpec == PageInit /\ [][PageNext]_pageVars /\ Fairness

-----------------------------------------------------------------------------
(* Types; between handlers the page's targets are those of its revision, and *)
(* a draft that is not marked as one is what the page shows.                 *)
PageTypeOK ==
  /\ pageFile \in Contents /\ targets \in Contents /\ revision \in Contents /\ fields \in Contents /\ mainWatch \in Contents
  /\ at \in {"idle", "asking", "closed", "saved", "reloading", "opening", "discarding"}
  /\ dirty \in BOOLEAN /\ active \in BOOLEAN /\ stale \in BOOLEAN /\ again \in BOOLEAN /\ refresh \in BOOLEAN
  /\ Busy => worker.kind \in {"preview", "save", "sync", "apply", "reload", "listing"}
  /\ GuiFree /\ ~dirty => fields = targets

SaveMade == Is("save", "locked") /\ worker' # NoWorker /\ worker'.step = "done"

(* A save changes the keys its draft changed and undoes nobody else's change *)
(* ("changed since the edit was started", watchlist/service.py:450).         *)
PageUndoesNothing == [][SaveMade => \A k \in PageKeys : pageFile'[k] # pageFile[k] => pageFile'[k] # targets[k]]_pageVars

(* A save that moves what the file selects is made on the Catalog its        *)
(* preview was computed on, although the file's size and time may not tell.  *)
SavedOnPreviewedCatalog ==
  [][SaveMade /\ Affects(pageFile', pageFile) => worker.of.affects /\ pageCatalog = worker.of.catalog]_pageVars

(* A preview that was cleared while it was being computed does not come back *)
(* ("must not revive a cleared preview", watchlist_editor.py:1680).          *)
NotRevived ==
  /\ scopePreview # None => ~scopePreview.overtaken
  /\ syncPreview # None => ~syncPreview.overtaken

(* The three together.                                                       *)
SavesHold == []NotRevived /\ PageUndoesNothing /\ SavedOnPreviewedCatalog

(* Whatever the page hands to its thread ends, and its fields come back:     *)
(* no result is thrown away with the thread still in its place.              *)
OperationsEnd == Busy ~> ~Busy

(* The Catalog a scope-sync has written is displayed, or the failure to read *)
(* it is told, although an older display may arrive while it runs - once the *)
(* operator lets the page rest, since every save begins the reload again.    *)
SyncIsShown ==
  <>[]~Busy => \A c \in 1..MaxCatalog : owed = c ~> (shown >= c \/ owed # c \/ at = "closed")
=============================================================================
