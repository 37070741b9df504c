------------------------------- MODULE SiteSync -------------------------------
(* The sync of all works of one site (watchlist/site_sync.py): a preview of  *)
(* every work, then, under the job lock, one transaction per work, between   *)
(* checks that the Watchlist still selects what was shown, and a report of   *)
(* how far it came. Every look at the Watchlist is a reading of a file that  *)
(* other programs write; the Catalog moves only when the job lock is free.   *)
EXTENDS Naturals, FiniteSets, FiniteSetsExt

CONSTANTS
  Works,       \* in the order of their keys
  Defs,        \* what a work's targets on all sites may say
  MaxSiteEdits, MaxListings, MaxSiteFaults

NoWork == 0

ASSUME SiteSyncAssumption ==
  Works \subseteq Nat \ {NoWork} /\ IsFiniteSet(Works) /\ MaxSiteEdits \in Nat /\ MaxListings \in Nat /\ MaxSiteFaults \in Nat

VARIABLES
  site, def,               \* Watchlist: works with a target on the site; definitions
  revision, proven, synced, \* Catalog, per work: revision, definitions its proofs allow, definition last synced
  lock,                    \* the apply holds the job lock
  pc, todo,
  view,                    \* the preview being made: its works, and what each looks like
  offered, current,          \* the preview given to the apply, and the one it made itself
  applied, result,
  attempted, committed,    \* auxiliary: works given to the reconciler, works changed
  siteEdits, listings, siteFaults  \* bounds

watchlist == <<site, def>>
catalog == <<revision, proven, synced>>
history == <<attempted, committed>>
siteBounds == <<siteEdits, listings, siteFaults>>
apply == <<lock, pc, todo, view, offered, current, applied, result>>
siteSyncVars == <<watchlist, catalog, apply, history, siteBounds>>

Unsynced == "unsynced"
NotLooked == [def |-> Unsynced, revision |-> 0, ready |-> FALSE]
NoView == [works |-> {}, look |-> [w \in Works |-> NotLooked]]
NoResult == [stage |-> "none", failed |-> NoWork, applied |-> {}, notApplied |-> {}, complete |-> FALSE]

SiteInit ==
  /\ site \in SUBSET Works /\ site # {} /\ def \in [Works -> Defs]
  /\ revision = [w \in Works |-> 0]
  /\ proven \in [Works -> SUBSET Defs]
  /\ synced = [w \in Works |-> Unsynced]
  /\ lock = FALSE /\ pc = "idle" /\ todo = {}
  /\ view = NoView /\ offered = NoView /\ current = NoView
  /\ applied = {} /\ result = NoResult
  /\ attempted = {} /\ committed = {}
  /\ siteEdits = 0 /\ listings = 0 /\ siteFaults = 0

-----------------------------------------------------------------------------
(* The world.                                                                *)

Edit ==
  /\ siteEdits < MaxSiteEdits /\ siteEdits' = siteEdits + 1
  /\ \/ (\E w \in Works : site' = (site \ {w}) \cup ({w} \ site)) /\ def' = def
     \/ \E w \in Works : (\E d \in Defs \ {def[w]} : def' = [def EXCEPT ![w] = d]) /\ site' = site
  /\ UNCHANGED <<catalog, apply, history, listings, siteFaults>>

(* A Discovery of the work, which needs the job lock.                        *)
List(w, allowed) ==
  /\ ~lock /\ listings < MaxListings /\ listings' = listings + 1
  /\ revision' = [revision EXCEPT ![w] = @ + 1]
  /\ proven' = [proven EXCEPT ![w] = allowed]
  /\ synced' = [synced EXCEPT ![w] = Unsynced]
  /\ UNCHANGED <<watchlist, apply, history, siteEdits, siteFaults>>

-----------------------------------------------------------------------------
(* preview_site: the selection is read once, then the Watchlist again for    *)
(* each work.                                                                *)

Look(w) == [def |-> def[w], revision |-> revision[w], ready |-> def[w] \in proven[w]]
Next1 == Min(todo)
AllReady(v) == v.works # {} /\ \A w \in v.works : v.look[w].ready
FirstBlocked(v) == LET blocked == {w \in v.works : ~v.look[w].ready} IN IF blocked = {} THEN NoWork ELSE Min(blocked)

Begin(from, to) ==
  /\ pc = from /\ todo = {}
  /\ pc' = to /\ todo' = site /\ view' = [NoView EXCEPT !.works = site]

ReadWork ==
  /\ pc \in {"looking", "rechecking", "finishing"} /\ todo # {}
  /\ view' = [view EXCEPT !.look[Next1] = Look(Next1)]
  /\ todo' = todo \ {Next1}
  /\ UNCHANGED <<watchlist, catalog, history, siteBounds, lock, pc, offered, current, applied, result>>

PreviewSite ==
  /\ Begin("idle", "looking")
  /\ UNCHANGED <<watchlist, catalog, history, siteBounds, lock, offered, current, applied, result>>

Show ==
  /\ pc = "looking" /\ todo = {}
  /\ pc' = "shown" /\ offered' = view
  /\ UNCHANGED <<watchlist, catalog, history, siteBounds, lock, todo, view, current, applied, result>>

-----------------------------------------------------------------------------
(* apply_site.                                                               *)

(* Works of which it can be said that nothing was tried.                     *)
WrongRemaining(seen, tried) == (offered.works \cup seen) \ applied
Remaining(seen, tried) == (offered.works \cup seen) \ (applied \cup tried)

(* Mutant: the lock outlives a result.                                       *)
WrongReport(stage, failed, notApplied) ==
  /\ result' = [NoResult EXCEPT !.stage = stage, !.failed = failed, !.applied = applied, !.notApplied = notApplied]
  /\ pc' = "done" /\ todo' = {} /\ lock' = lock
Report(stage, failed, notApplied) ==
  /\ result' = [NoResult EXCEPT !.stage = stage, !.failed = failed, !.applied = applied, !.notApplied = notApplied]
  /\ pc' = "done" /\ todo' = {} /\ lock' = FALSE

RefuseBlocked ==
  /\ pc = "shown" /\ ~AllReady(offered)
  /\ Report("preflight", FirstBlocked(offered), offered.works)
  /\ UNCHANGED <<watchlist, catalog, history, siteBounds, view, offered, current, applied>>

Recheck ==
  /\ Begin("shown", "rechecking") /\ AllReady(offered)
  /\ lock' = TRUE
  /\ UNCHANGED <<watchlist, catalog, history, siteBounds, offered, current, applied, result>>

SamePreview(v) == AllReady(v) /\ v = offered

Preflight ==
  /\ pc = "rechecking" /\ todo = {}
  /\ IF SamePreview(view)
     THEN pc' = "selecting" /\ todo' = offered.works /\ current' = view /\ UNCHANGED <<lock, result>>
     ELSE Report("preflight", FirstBlocked(view), Remaining(view.works, {})) /\ UNCHANGED current
  /\ UNCHANGED <<watchlist, catalog, history, siteBounds, view, offered, applied>>

(* Before each work.                                                         *)
CheckSelection ==
  /\ pc = "selecting" /\ todo # {}
  /\ IF site = offered.works
     THEN pc' = "applying" /\ UNCHANGED <<todo, lock, result>>
     ELSE Report("selection", NoWork, Remaining(site, {}))
  /\ UNCHANGED <<watchlist, catalog, history, siteBounds, view, offered, current, applied>>

ApplyFails == Report("apply", Next1, Remaining(site, {Next1}))

(* reconciler.apply looks at the work once more, then commits.               *)
CheckWork ==
  /\ pc = "applying" /\ attempted' = attempted \cup {Next1}
  /\ IF Look(Next1) = current.look[Next1]
     THEN pc' = "committing" /\ UNCHANGED <<todo, lock, result>>
     ELSE ApplyFails
  /\ UNCHANGED <<watchlist, catalog, siteBounds, view, offered, current, applied, committed>>

Committed ==
  /\ synced' = [synced EXCEPT ![Next1] = current.look[Next1].def]
  /\ revision' = [revision EXCEPT ![Next1] = @ + 1]
  /\ committed' = committed \cup {Next1}
  /\ UNCHANGED proven

CommitWork ==
  /\ pc = "committing" /\ Committed
  /\ applied' = applied \cup {Next1} /\ todo' = todo \ {Next1} /\ pc' = "selecting"
  /\ UNCHANGED <<watchlist, attempted, siteBounds, lock, view, offered, current, result>>

SiteFault == siteFaults < MaxSiteFaults /\ siteFaults' = siteFaults + 1

(* The reconciler raises, before its transaction or after the commit.        *)
CommitRaises ==
  /\ pc = "committing" /\ SiteFault /\ ApplyFails
  /\ Committed \/ UNCHANGED <<catalog, committed>>
  /\ UNCHANGED <<watchlist, attempted, siteEdits, listings, view, offered, current, applied>>

Finish ==
  /\ Begin("selecting", "finishing")
  /\ UNCHANGED <<watchlist, catalog, history, siteBounds, lock, offered, current, applied, result>>

FinalPreview ==
  /\ pc = "finishing" /\ todo = {}
  /\ IF view.works # offered.works THEN Report("selection", NoWork, Remaining(view.works, {}))
     ELSE IF ~AllReady(view) THEN Report("final_validation", FirstBlocked(view), {})
     ELSE pc' = "gate" /\ todo' = view.works /\ UNCHANGED <<lock, result>>
  /\ UNCHANGED <<watchlist, catalog, history, siteBounds, view, offered, current, applied>>

(* require_synchronized of each work.                                        *)
Gate ==
  /\ pc = "gate" /\ todo # {}
  /\ IF Look(Next1).ready /\ synced[Next1] = def[Next1]
     THEN todo' = todo \ {Next1} /\ UNCHANGED <<pc, lock, result>>
     ELSE Report("final_validation", Next1, {})
  /\ UNCHANGED <<watchlist, catalog, history, siteBounds, view, offered, current, applied>>

(* Mutant: the last look asks for the selection only.                        *)
WrongUnchanged == site = offered.works
Unchanged == site = offered.works /\ \A w \in offered.works : def[w] = offered.look[w].def

LastLook ==
  /\ pc = "gate" /\ todo = {}
  /\ IF Unchanged
     THEN /\ result' = [NoResult EXCEPT !.applied = applied, !.complete = TRUE]
          /\ pc' = "done" /\ lock' = FALSE /\ UNCHANGED todo
     ELSE Report("selection", NoWork, Remaining(site, {}))
  /\ UNCHANGED <<watchlist, catalog, history, siteBounds, view, offered, current, applied>>

(* The job lock is refused, or a reading of the Watchlist raises.            *)
Stops ==
  /\ SiteFault
  /\ \/ pc = "shown" /\ AllReady(offered) /\ Report("preflight", NoWork, Remaining({}, {}))
     \/ pc = "rechecking" /\ Report("preflight", NoWork, Remaining({}, {}))
     \/ pc = "selecting" /\ todo # {} /\ Report("preflight", NoWork, Remaining({}, {}))
     \/ pc = "finishing" /\ Report("final_validation", NoWork, Remaining({}, {}))
     \/ pc = "gate" /\ todo = {} /\ Report("final_validation", NoWork, Remaining({}, {}))
     \/ pc = "gate" /\ todo # {} /\ Report("final_validation", Next1, {})
  /\ UNCHANGED <<watchlist, catalog, history, siteEdits, listings, view, offered, current, applied>>

-----------------------------------------------------------------------------

Steps ==
  \/ PreviewSite \/ ReadWork \/ Show
  \/ RefuseBlocked \/ Recheck \/ Preflight
  \/ CheckSelection \/ CheckWork \/ CommitWork \/ CommitRaises
  \/ Finish \/ FinalPreview \/ Gate \/ LastLook \/ Stops

SiteNext == Steps \/ Edit \/ \E w \in Works, allowed \in SUBSET Defs : List(w, allowed)

SiteSpec == SiteInit /\ [][SiteNext]_siteSyncVars

-----------------------------------------------------------------------------

(* The state of an apply; the job lock is held in its middle part only, so   *)
(* every way out lets go of it.                                              *)
SiteTypeOK ==
  /\ site \subseteq Works /\ def \in [Works -> Defs]
  /\ proven \in [Works -> SUBSET Defs] /\ synced \in [Works -> Defs \cup {Unsynced}]
  /\ todo \subseteq Works /\ applied \subseteq Works
  /\ lock <=> pc \in {"rechecking", "selecting", "applying", "committing", "finishing", "gate"}
  /\ pc \in {"applying", "committing"} => todo # {}

(* The report is true, and misses no work that was selected: works reported  *)
(* as applied are committed, a work reported as not applied was not tried,   *)
(* and only the work at which an apply failed may be committed without being *)
(* reported (docs/DISCOVERY_AND_BATCH.md:2180).                              *)
ReportTruthful ==
  pc = "done" =>
    /\ result.applied \subseteq committed
    /\ result.notApplied \cap attempted = {}
    /\ committed \ result.applied \subseteq (IF result.stage = "apply" THEN {result.failed} ELSE {})
    /\ result.stage = "preflight" => result.failed \notin attempted
    /\ offered.works \subseteq result.applied \cup result.notApplied \cup {result.failed}

(* An apply that calls itself complete has synced every work of the site, as *)
(* the Watchlist defines them all at that moment, whatever was edited, also  *)
(* to and fro, in between (watchlist/site_sync.py:246).                      *)
CompleteIsTrue ==
  [][result'.complete => site # {} /\ \A w \in site : synced[w] = def[w] /\ def[w] \in proven[w]]_result

(* What is committed is what the preview showed, of a Catalog that has not   *)
(* moved since in any work not yet committed, and only if every work was     *)
(* ready (watchlist/site_sync.py:114).                                       *)
OnlyShownIsApplied ==
  [][committed' # committed =>
      \A w \in offered.works :
        /\ offered.look[w].ready
        /\ w \notin committed => revision[w] = offered.look[w].revision
        /\ w \in committed' \ committed => synced'[w] = offered.look[w].def]_siteSyncVars

=============================================================================
