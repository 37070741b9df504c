---------------------------- MODULE SiteSyncProofs ----------------------------
(* The sync of a site tells the truth and applies only what it showed, for   *)
(* every set of works, of definitions and every number of edits.             *)
EXTENDS SiteSync, WellFoundedInduction, TLAPS

Looks == [def : Defs \cup {Unsynced}, revision : Nat, ready : BOOLEAN]
Views == [works : SUBSET Works, look : [Works -> Looks]]
Stages == {"none", "preflight", "selection", "apply", "final_validation"}
Results == [stage : Stages, failed : Works \cup {NoWork}, applied : SUBSET Works,
            notApplied : SUBSET Works, complete : BOOLEAN]
Before == {"idle", "looking", "shown"}
Holding == {"rechecking", "selecting", "applying", "committing", "finishing", "gate"}

Typed ==
  /\ site \subseteq Works /\ def \in [Works -> Defs]
  /\ revision \in [Works -> Nat] /\ proven \in [Works -> SUBSET Defs]
  /\ synced \in [Works -> Defs \cup {Unsynced}]
  /\ lock \in BOOLEAN /\ pc \in Before \cup Holding \cup {"done"}
  /\ todo \subseteq Works /\ applied \subseteq Works
  /\ attempted \subseteq Works /\ committed \subseteq Works
  /\ view \in Views /\ offered \in Views /\ current \in Views /\ result \in Results

\* The job lock is held while the Catalog must not move.
LockFits ==
  /\ lock <=> pc \in Holding
  /\ pc \in {"applying", "committing"} => todo # {}

\* How far the apply has come.
Progress ==
  /\ pc \in Before \cup {"rechecking"} => attempted = {} /\ committed = {} /\ applied = {}
  /\ pc \in {"selecting", "applying", "finishing", "gate"} => attempted = applied /\ committed = applied
  /\ pc = "committing" => attempted = applied \cup {Next1} /\ committed = applied
  /\ pc \in {"selecting", "applying", "committing"} => offered.works = applied \cup todo /\ applied \cap todo = {}
  /\ pc \in {"finishing", "gate"} => offered.works = applied

\* What has been looked at again under the lock is still so.
Fresh ==
  pc = "rechecking" => \A w \in view.works \ todo :
    /\ view.look[w].revision = revision[w]
    /\ view.look[w].ready => view.look[w].def \in proven[w]

\* What was shown holds of the works that are not committed yet, and is synced in
\* the others.
AsShown ==
  pc \in Holding \ {"rechecking"} =>
    /\ current = offered /\ offered.works # {}
    /\ \A w \in offered.works :
         /\ offered.look[w].ready /\ offered.look[w].def \in proven[w]
         /\ w \notin committed => revision[w] = offered.look[w].revision
         /\ w \in committed => synced[w] = offered.look[w].def

\* The report of an apply that is over.
Reported ==
  /\ pc # "done" => ~result.complete
  /\ pc = "done" =>
      /\ result.applied \subseteq committed
      /\ result.notApplied \cap attempted = {}
      /\ committed \ result.applied \subseteq (IF result.stage = "apply" THEN {result.failed} ELSE {})
      /\ result.stage = "preflight" => result.failed \notin attempted
      /\ offered.works \subseteq result.applied \cup result.notApplied \cup {result.failed}

\* The inductive invariant.
SyncInv == Typed /\ LockFits /\ Progress /\ Fresh /\ AsShown /\ Reported

-------------------------------------------------------------------------------
\* Works are taken in the order of their keys: there is always a next one.
LEMMA MinIsElement ==
  ASSUME NEW S \in SUBSET Nat, S # {} PROVE Min(S) \in S
<1>1. PICK x \in S : \A y \in S : ~(<<y, x>> \in OpToRel(<, Nat))
  BY NatLessThanWellFounded, WFMin
<1>2. \A y \in S : ~(y < x)
  BY <1>1 DEF OpToRel
<1>3. \A y \in S : x =< y
  BY <1>2
<1> QED
  BY <1>3 DEF Min

LEMMA NextIsLeft ==
  ASSUME Typed, todo # {} PROVE Next1 \in todo /\ Next1 \in Works /\ Next1 # NoWork
BY MinIsElement, SiteSyncAssumption DEF Typed, Next1

LEMMA BlockedIsWork ==
  ASSUME NEW v \in Views PROVE FirstBlocked(v) \in Works \cup {NoWork}
<1> DEFINE blocked == {w \in v.works : ~v.look[w].ready}
<1>1. blocked \in SUBSET Nat /\ blocked \subseteq Works
  BY SiteSyncAssumption DEF Views
<1>2. blocked # {} => Min(blocked) \in Works
  BY <1>1, MinIsElement
<1> QED
  BY <1>2 DEF FirstBlocked

LEMMA LookIsLook ==
  ASSUME Typed, NEW w \in Works
  PROVE  /\ Look(w) \in Looks /\ Look(w).revision = revision[w]
         /\ Look(w).ready => Look(w).def \in proven[w]
<1>1. (def[w] \in proven[w]) \in BOOLEAN
  OBVIOUS
<1> QED
  BY <1>1 DEF Typed, Look, Looks

\* The parts of a report.
LEMMA ReportParts ==
  ASSUME Typed, NEW stage \in Stages, NEW failed \in Works \cup {NoWork}, NEW rest \in SUBSET Works,
         Report(stage, failed, rest)
  PROVE  /\ result' \in Results /\ result'.stage = stage /\ result'.failed = failed
         /\ result'.applied = applied /\ result'.notApplied = rest /\ ~result'.complete
         /\ pc' = "done" /\ todo' = {} /\ lock' = FALSE
BY DEF Typed, Report, Results, NoResult, Stages

LEMMA InitSyncInv == ASSUME SiteInit PROVE SyncInv
<1>1. NoView \in Views /\ NoResult \in Results /\ ~NoResult.complete
  BY DEF NoView, Views, NotLooked, Looks, NoResult, Results, Stages
<1>2. Typed
  BY <1>1 DEF SiteInit, Typed, Before
<1>3. LockFits
  BY DEF SiteInit, LockFits, Holding
<1>4. Progress /\ Fresh /\ AsShown
  BY DEF SiteInit, Progress, Fresh, AsShown, Holding
<1>5. Reported
  BY <1>1 DEF SiteInit, Reported
<1> QED
  BY <1>2, <1>3, <1>4, <1>5 DEF SyncInv

\* The world: an edit touches the Watchlist only, and a Discovery waits for the
\* job lock.
LEMMA WorldKeeps ==
  ASSUME SyncInv, Edit \/ \E w \in Works, allowed \in SUBSET Defs : List(w, allowed)
  PROVE  SyncInv'
<1> USE DEF SyncInv, apply, history, catalog, watchlist
<1>1. CASE Edit
  <2>1. Typed'
    BY <1>1 DEF Edit, Typed
  <2>2. LockFits' /\ Progress' /\ Fresh' /\ AsShown' /\ Reported'
    BY <1>1 DEF Edit, LockFits, Progress, Next1, Fresh, AsShown, Reported
  <2> QED
    BY <2>1, <2>2
<1>2. ASSUME NEW w \in Works, NEW allowed \in SUBSET Defs, List(w, allowed) PROVE SyncInv'
  <2>1. Typed'
    BY <1>2 DEF List, Typed
  <2>2. LockFits' /\ Progress' /\ Reported'
    BY <1>2 DEF List, LockFits, Progress, Next1, Reported
  <2>3. pc \notin Holding
    BY <1>2 DEF List, LockFits
  <2>4. Fresh' /\ AsShown'
    BY <1>2, <2>3 DEF List, Fresh, AsShown, Holding
  <2> QED
    BY <2>1, <2>2, <2>4
<1> QED
  BY <1>1, <1>2

\* The previews.
LEMMA PreviewKeeps ==
  ASSUME SyncInv, PreviewSite \/ ReadWork \/ Show \/ Recheck \/ Finish PROVE SyncInv'
<1> USE DEF SyncInv, history, catalog, watchlist, Begin
<1>1. CASE PreviewSite
  <2>1. view' \in Views
    BY <1>1 DEF PreviewSite, Typed, NoView, Views, NotLooked, Looks
  <2>2. Typed'
    BY <1>1, <2>1 DEF PreviewSite, Typed, Before
  <2>3. LockFits' /\ Progress' /\ Fresh' /\ AsShown' /\ Reported'
    BY <1>1 DEF PreviewSite, LockFits, Progress, Next1, Fresh, AsShown, Reported, Before, Holding
  <2> QED
    BY <2>2, <2>3
<1>2. CASE ReadWork
  <2>0. Next1 \in todo /\ Next1 \in Works
    BY <1>2, NextIsLeft DEF ReadWork
  <2>1. /\ view' = [view EXCEPT !.look[Next1] = Look(Next1)] /\ todo' = todo \ {Next1}
        /\ pc' = pc /\ pc \in {"looking", "rechecking", "finishing"}
    BY <1>2 DEF ReadWork
  <2>2. view' \in Views /\ view'.works = view.works
        /\ \A w \in Works : view'.look[w] = IF w = Next1 THEN Look(Next1) ELSE view.look[w]
    BY <2>0, <2>1, LookIsLook DEF Typed, Views
  <2>3. Typed'
    BY <1>2, <2>1, <2>2 DEF ReadWork, Typed
  <2>4. LockFits' /\ Progress' /\ AsShown' /\ Reported'
    BY <1>2, <2>1 DEF ReadWork, LockFits, Progress, Next1, AsShown, Reported
  <2>5. Fresh'
    BY <1>2, <2>0, <2>1, <2>2, LookIsLook DEF ReadWork, Fresh, Typed, Views
  <2> QED
    BY <2>3, <2>4, <2>5
<1>3. CASE Show
  <2>1. Typed'
    BY <1>3 DEF Show, Typed, Before
  <2>2. LockFits' /\ Progress' /\ Fresh' /\ AsShown' /\ Reported'
    BY <1>3 DEF Show, LockFits, Progress, Next1, Fresh, AsShown, Reported, Before, Holding
  <2> QED
    BY <2>1, <2>2
<1>4. CASE Recheck
  <2>1. view' \in Views /\ view'.works = site
    BY <1>4 DEF Recheck, Typed, NoView, Views, NotLooked, Looks
  <2>2. Typed'
    BY <1>4, <2>1 DEF Recheck, Typed, Holding
  <2>3. LockFits' /\ Progress' /\ AsShown' /\ Reported'
    BY <1>4 DEF Recheck, LockFits, Progress, Next1, AsShown, Reported, Before, Holding
  <2>4. Fresh'
    BY <1>4, <2>1 DEF Recheck, Fresh
  <2> QED
    BY <2>2, <2>3, <2>4
<1>5. CASE Finish
  <2>1. view' \in Views
    BY <1>5 DEF Finish, Typed, NoView, Views, NotLooked, Looks
  <2>2. Typed'
    BY <1>5, <2>1 DEF Finish, Typed, Holding
  <2>3. LockFits' /\ Progress' /\ Fresh' /\ AsShown' /\ Reported'
    BY <1>5 DEF Finish, LockFits, Progress, Next1, Fresh, AsShown, Reported, Before, Holding
  <2> QED
    BY <2>2, <2>3
<1> QED
  BY <1>1, <1>2, <1>3, <1>4, <1>5

\* A report of what is applied and of works not tried, at any of the places where
\* one is made.
LEMMA ReportKeeps ==
  ASSUME SyncInv, NEW stage \in Stages, NEW failed \in Works \cup {NoWork}, NEW rest \in SUBSET Works,
         Report(stage, failed, rest),
         stage = "preflight" => failed \notin attempted',
         rest \cap attempted' = {}, offered.works \subseteq applied \cup rest \cup {failed},
         applied \subseteq committed',
         committed' \subseteq applied \cup (IF stage = "apply" THEN {failed} ELSE {}),
         attempted' \subseteq Works, committed' \subseteq Works,
         UNCHANGED <<site, def, proven, view, offered, applied, current>>,
         revision' \in [Works -> Nat], synced' \in [Works -> Defs \cup {Unsynced}]
  PROVE  SyncInv'
<1>1. /\ result' \in Results /\ result'.stage = stage /\ result'.failed = failed
      /\ result'.applied = applied /\ result'.notApplied = rest /\ ~result'.complete
      /\ pc' = "done" /\ todo' = {} /\ lock' = FALSE
  BY ReportParts DEF SyncInv
<1>2. Typed'
  BY <1>1 DEF SyncInv, Typed
<1>3. LockFits' /\ Progress' /\ Fresh' /\ AsShown'
  BY <1>1 DEF LockFits, Progress, Fresh, AsShown, Before, Holding
<1>4. Reported'
  BY <1>1 DEF Reported
<1> QED
  BY <1>2, <1>3, <1>4 DEF SyncInv

\* Works of which it is said that nothing was tried.
LEMMA RemainingFits ==
  ASSUME Typed, NEW seen \in SUBSET Works, NEW tried \in SUBSET Works
  PROVE  /\ Remaining(seen, tried) \in SUBSET Works
         /\ Remaining(seen, tried) \cap (applied \cup tried) = {}
         /\ offered.works \subseteq applied \cup tried \cup Remaining(seen, tried)
BY DEF Typed, Views, Remaining

\* The ways out of an apply, one by one.
LEMMA EndKeeps ==
  ASSUME SyncInv,
         \/ RefuseBlocked \/ Stops
         \/ CommitRaises
         \/ (Preflight /\ ~SamePreview(view))
         \/ (CheckSelection /\ site # offered.works)
         \/ (CheckWork /\ Look(Next1) # current.look[Next1])
         \/ (FinalPreview /\ pc' = "done")
         \/ (Gate /\ pc' = "done")
         \/ (LastLook /\ ~Unchanged)
  PROVE  SyncInv'
<1> USE DEF history, catalog, watchlist
<1>a. /\ Typed /\ offered \in Views /\ offered.works \in SUBSET Works /\ view.works \in SUBSET Works
      /\ site \in SUBSET Works /\ {} \in SUBSET Works /\ NoWork \notin Works
      /\ FirstBlocked(offered) \in Works \cup {NoWork} /\ FirstBlocked(view) \in Works \cup {NoWork}
  BY BlockedIsWork, SiteSyncAssumption DEF SyncInv, Typed, Views
<1>b. {"preflight", "selection", "apply", "final_validation"} \subseteq Stages
  BY DEF Stages
<1>c. revision \in [Works -> Nat] /\ synced \in [Works -> Defs \cup {Unsynced}]
      /\ attempted \subseteq Works /\ committed \subseteq Works
  BY <1>a DEF Typed
<1>1. CASE RefuseBlocked
  BY <1>1, <1>a, <1>b, <1>c, ReportKeeps DEF RefuseBlocked, SyncInv, Progress, Before
<1>2. CASE Stops
  <2> DEFINE Stop(stage, failed, rest) ==
        /\ Report(stage, failed, rest)
        /\ stage = "preflight" => failed = NoWork /\ rest = Remaining({}, {})
        /\ stage = "final_validation" => pc \in {"finishing", "gate"}
        /\ failed = Next1 => todo # {} \/ failed = NoWork
        /\ pc \in {"shown", "rechecking", "selecting", "finishing", "gate"}
  <2>0. \/ pc \in {"shown", "rechecking", "selecting"} /\ Report("preflight", NoWork, Remaining({}, {}))
        \/ pc \in {"finishing", "gate"} /\ Report("final_validation", NoWork, Remaining({}, {}))
        \/ pc = "gate" /\ todo # {} /\ Report("final_validation", Next1, {})
    BY <1>2 DEF Stops
  <2>1. PICK stage \in {"preflight", "final_validation"}, failed \in {NoWork, Next1}, rest \in {Remaining({}, {}), {}} :
          Stop(stage, failed, rest)
    <3>1. CASE pc \in {"shown", "rechecking", "selecting"} /\ Report("preflight", NoWork, Remaining({}, {}))
      <4>1. Stop("preflight", NoWork, Remaining({}, {}))
        BY <3>1
      <4> QED
        BY <4>1
    <3>2. CASE pc \in {"finishing", "gate"} /\ Report("final_validation", NoWork, Remaining({}, {}))
      <4>1. Stop("final_validation", NoWork, Remaining({}, {}))
        BY <3>2
      <4> QED
        BY <4>1
    <3>3. CASE pc = "gate" /\ todo # {} /\ Report("final_validation", Next1, {})
      <4>1. Stop("final_validation", Next1, {})
        BY <3>3
      <4> QED
        BY <4>1
    <3> QED
      BY <2>0, <3>1, <3>2, <3>3
  <2>2. UNCHANGED <<watchlist, catalog, history, view, offered, current, applied>>
    BY <1>2 DEF Stops
  <2>3. failed \in Works \cup {NoWork}
    BY <2>1, <1>a, NextIsLeft
  <2>4. attempted = applied /\ committed = applied /\ (pc \in {"finishing", "gate"} => offered.works = applied)
    BY <2>1 DEF SyncInv, Progress, Before
  <2>5. /\ rest \in SUBSET Works /\ rest \cap attempted = {}
        /\ offered.works \subseteq applied \cup rest
    BY <2>1, <2>4, <1>a, RemainingFits
  <2>6. stage = "preflight" => failed \notin attempted
    BY <2>1, <1>a, <1>c
  <2> QED
    BY <2>1, <2>2, <2>3, <2>4, <2>5, <2>6, <1>b, <1>c, ReportKeeps
<1>3. CASE CommitRaises
  <2>1. todo # {} /\ attempted = applied \cup {Next1} /\ committed = applied
    BY <1>3 DEF CommitRaises, SyncInv, LockFits, Progress
  <2>2. Next1 \in Works
    BY <2>1, <1>a, NextIsLeft
  <2>3. /\ committed' \in {committed, committed \cup {Next1}} /\ proven' = proven
        /\ revision' \in [Works -> Nat] /\ synced' \in [Works -> Defs \cup {Unsynced}]
    <3>1. CASE Committed
      <4>1. current.look[Next1].def \in Defs \cup {Unsynced}
        BY <2>2, <1>a DEF Typed, Views, Looks
      <4> QED
        BY <3>1, <4>1, <1>c, <2>2 DEF Committed
    <3>2. CASE UNCHANGED <<catalog, committed>>
      BY <3>2, <1>c
    <3> QED
      BY <1>3, <3>1, <3>2 DEF CommitRaises
  <2>4. /\ Report("apply", Next1, Remaining(site, {Next1}))
        /\ UNCHANGED <<watchlist, attempted, view, offered, current, applied>>
    BY <1>3 DEF CommitRaises, ApplyFails
  <2>5. /\ Remaining(site, {Next1}) \in SUBSET Works /\ Remaining(site, {Next1}) \cap attempted = {}
        /\ offered.works \subseteq applied \cup Remaining(site, {Next1}) \cup {Next1}
    BY <2>1, <2>2, <1>a, RemainingFits
  <2> QED
    BY <2>1, <2>2, <2>3, <2>4, <2>5, <1>b, <1>c, ReportKeeps
<1>4. CASE Preflight /\ ~SamePreview(view)
  <2>1. /\ Report("preflight", FirstBlocked(view), Remaining(view.works, {}))
        /\ UNCHANGED <<watchlist, catalog, history, view, offered, current, applied>> /\ pc = "rechecking"
    BY <1>4 DEF Preflight
  <2>2. attempted = {} /\ committed = {} /\ applied = {}
    BY <2>1 DEF SyncInv, Progress
  <2> QED
    BY <2>1, <2>2, <1>a, <1>b, <1>c, RemainingFits, ReportKeeps
<1>5. CASE CheckSelection /\ site # offered.works
  <2>1. /\ Report("selection", NoWork, Remaining(site, {})) /\ pc = "selecting"
        /\ UNCHANGED <<watchlist, catalog, history, view, offered, current, applied>>
    BY <1>5 DEF CheckSelection
  <2>2. attempted = applied /\ committed = applied
    BY <2>1 DEF SyncInv, Progress
  <2> QED
    BY <2>1, <2>2, <1>a, <1>b, <1>c, RemainingFits, ReportKeeps
<1>6. CASE CheckWork /\ Look(Next1) # current.look[Next1]
  <2>1. /\ Report("apply", Next1, Remaining(site, {Next1})) /\ pc = "applying"
        /\ attempted' = attempted \cup {Next1}
        /\ UNCHANGED <<watchlist, catalog, view, offered, current, applied, committed>>
    BY <1>6 DEF CheckWork, ApplyFails
  <2>2. todo # {} /\ attempted = applied /\ committed = applied
    BY <2>1 DEF SyncInv, LockFits, Progress
  <2>3. Next1 \in Works
    BY <2>2, <1>a, NextIsLeft
  <2>4. /\ Remaining(site, {Next1}) \in SUBSET Works /\ Remaining(site, {Next1}) \cap attempted' = {}
        /\ offered.works \subseteq applied \cup Remaining(site, {Next1}) \cup {Next1}
    BY <2>1, <2>2, <2>3, <1>a, RemainingFits
  <2> QED
    BY <2>1, <2>2, <2>3, <2>4, <1>b, <1>c, ReportKeeps
<1>7. CASE FinalPreview /\ pc' = "done"
  <2>1. PICK stage \in {"selection", "final_validation"}, failed \in {NoWork, FirstBlocked(view)},
             rest \in {Remaining(view.works, {}), {}} : Report(stage, failed, rest)
    BY <1>7 DEF FinalPreview
  <2>2. UNCHANGED <<watchlist, catalog, history, view, offered, current, applied>> /\ pc = "finishing"
    BY <1>7 DEF FinalPreview
  <2>3. attempted = applied /\ committed = applied /\ offered.works = applied
    BY <2>2 DEF SyncInv, Progress
  <2>4. rest \in SUBSET Works /\ rest \cap attempted = {}
    BY <2>1, <2>3, <1>a, RemainingFits
  <2> QED
    BY <2>1, <2>2, <2>3, <2>4, <1>a, <1>b, <1>c, ReportKeeps
<1>8. CASE Gate /\ pc' = "done"
  <2>1. /\ Report("final_validation", Next1, {}) /\ todo # {} /\ pc = "gate"
        /\ UNCHANGED <<watchlist, catalog, history, view, offered, current, applied>>
    BY <1>8 DEF Gate
  <2>2. attempted = applied /\ committed = applied /\ offered.works = applied /\ Next1 \in Works
    BY <2>1, <1>a, NextIsLeft DEF SyncInv, Progress
  <2> QED
    BY <2>1, <2>2, <1>a, <1>b, <1>c, ReportKeeps
<1>9. CASE LastLook /\ ~Unchanged
  <2>1. /\ Report("selection", NoWork, Remaining(site, {})) /\ pc = "gate"
        /\ UNCHANGED <<watchlist, catalog, history, view, offered, current, applied>>
    BY <1>9 DEF LastLook
  <2>2. attempted = applied /\ committed = applied
    BY <2>1 DEF SyncInv, Progress
  <2> QED
    BY <2>1, <2>2, <1>a, <1>b, <1>c, RemainingFits, ReportKeeps
<1> QED
  BY <1>1, <1>2, <1>3, <1>4, <1>5, <1>6, <1>7, <1>8, <1>9

\* The steps of an apply that goes on.
LEMMA ApplyKeeps ==
  ASSUME SyncInv,
         \/ (Preflight /\ SamePreview(view))
         \/ (CheckSelection /\ site = offered.works)
         \/ (CheckWork /\ Look(Next1) = current.look[Next1])
         \/ CommitWork
         \/ (FinalPreview /\ pc' # "done")
         \/ (Gate /\ pc' # "done")
  PROVE  SyncInv'
<1> USE DEF SyncInv, history, catalog, watchlist
<1>1. CASE Preflight /\ SamePreview(view)
  <2>1. /\ pc' = "selecting" /\ todo' = offered.works /\ current' = view /\ view = offered /\ pc = "rechecking" /\ todo = {}
        /\ UNCHANGED <<watchlist, catalog, history, view, offered, applied, lock, result>>
    BY <1>1 DEF Preflight, SamePreview
  <2>2. AllReady(offered)
    BY <1>1, <2>1 DEF SamePreview
  <2>3. Typed' /\ LockFits'
    BY <2>1 DEF Typed, LockFits, Views, Holding
  <2>4. Progress' /\ Fresh' /\ Reported'
    BY <2>1 DEF Progress, Fresh, Reported, Before
  <2>5. AsShown'
    BY <2>1, <2>2 DEF AsShown, Fresh, AllReady, Progress, Holding
  <2> QED
    BY <2>3, <2>4, <2>5
<1>2. CASE CheckSelection /\ site = offered.works
  <2>1. /\ pc = "selecting" /\ pc' = "applying" /\ todo # {}
        /\ UNCHANGED <<watchlist, catalog, history, view, offered, current, applied, todo, lock, result>>
    BY <1>2 DEF CheckSelection
  <2> QED
    BY <2>1 DEF Typed, LockFits, Progress, Fresh, AsShown, Reported, Before, Holding
<1>3. CASE CheckWork /\ Look(Next1) = current.look[Next1]
  <2>1. /\ pc = "applying" /\ pc' = "committing" /\ attempted' = attempted \cup {Next1}
        /\ UNCHANGED <<watchlist, catalog, view, offered, current, applied, committed, todo, lock, result>>
    BY <1>3 DEF CheckWork
  <2>2. Next1 \in Works /\ todo # {}
    BY <2>1, NextIsLeft DEF LockFits
  <2>3. Typed' /\ LockFits'
    BY <2>1, <2>2 DEF Typed, LockFits, Holding
  <2>4. Progress' /\ Fresh' /\ AsShown' /\ Reported'
    BY <2>1 DEF Progress, Next1, Fresh, AsShown, Reported, Before, Holding
  <2> QED
    BY <2>3, <2>4
<1>4. CASE CommitWork
  <2>1. /\ pc = "committing" /\ pc' = "selecting" /\ Committed
        /\ applied' = applied \cup {Next1} /\ todo' = todo \ {Next1}
        /\ UNCHANGED <<watchlist, attempted, lock, view, offered, current, result>>
    BY <1>4 DEF CommitWork
  <2>2. /\ Next1 \in todo /\ Next1 \in Works
        /\ attempted = applied \cup {Next1} /\ committed = applied
        /\ offered.works = applied \cup todo /\ applied \cap todo = {} /\ current = offered
    BY <2>1, NextIsLeft DEF LockFits, Progress, AsShown, Holding
  <2>3. current.look[Next1].def \in Defs \cup {Unsynced}
    BY <2>2 DEF Typed, Views, Looks
  <2>4. Typed' /\ LockFits'
    BY <2>1, <2>2, <2>3 DEF Committed, Typed, LockFits, Holding
  <2>5. Progress' /\ Fresh' /\ Reported'
    BY <2>1, <2>2 DEF Committed, Progress, Fresh, Reported, Before
  <2>6. AsShown'
    BY <2>1, <2>2, <2>3 DEF Committed, AsShown, Typed, Holding
  <2> QED
    BY <2>4, <2>5, <2>6
<1>5. CASE FinalPreview /\ pc' # "done"
  <2>1. /\ pc = "finishing" /\ pc' = "gate" /\ todo' = view.works
        /\ UNCHANGED <<watchlist, catalog, history, view, offered, current, applied, lock, result>>
    BY <1>5 DEF FinalPreview, Report
  <2> QED
    BY <2>1 DEF Typed, Views, LockFits, Progress, Fresh, AsShown, Reported, Before, Holding
<1>6. CASE Gate /\ pc' # "done"
  <2>1. /\ pc = "gate" /\ pc' = "gate" /\ todo' = todo \ {Next1}
        /\ UNCHANGED <<watchlist, catalog, history, view, offered, current, applied, lock, result>>
    BY <1>6 DEF Gate, Report
  <2> QED
    BY <2>1 DEF Typed, LockFits, Progress, Fresh, AsShown, Reported, Before, Holding
<1> QED
  BY <1>1, <1>2, <1>3, <1>4, <1>5, <1>6

\* An apply that calls itself complete: every work was committed as it was shown,
\* and the last look finds the Watchlist as it was shown.
LEMMA CompleteStep ==
  ASSUME SyncInv, LastLook, Unchanged
  PROVE  /\ SyncInv' /\ result'.complete /\ UNCHANGED <<watchlist, catalog>>
         /\ site # {} /\ \A w \in site : synced[w] = def[w] /\ def[w] \in proven[w]
<1>1. /\ pc = "gate" /\ pc' = "done" /\ lock' = FALSE
      /\ result' = [NoResult EXCEPT !.applied = applied, !.complete = TRUE]
      /\ UNCHANGED <<watchlist, catalog, history, view, offered, current, applied, todo>>
  BY DEF LastLook
<1>2. /\ attempted = applied /\ committed = applied /\ offered.works = applied
      /\ site = offered.works /\ offered.works # {}
      /\ \A w \in offered.works : /\ offered.look[w].def \in proven[w] /\ synced[w] = offered.look[w].def
                                /\ def[w] = offered.look[w].def
  BY <1>1 DEF SyncInv, Progress, AsShown, Unchanged, Holding
<1>3. /\ result' \in Results /\ result'.complete /\ result'.applied = applied
      /\ result'.notApplied = {} /\ result'.stage = "none" /\ result'.failed = NoWork
  BY <1>1 DEF NoResult, Results, Stages, SyncInv, Typed
<1>4. Typed'
  BY <1>1, <1>3 DEF SyncInv, Typed, watchlist, catalog, history
<1>5. LockFits' /\ Progress' /\ Fresh' /\ AsShown'
  BY <1>1 DEF LockFits, Progress, Fresh, AsShown, Before, Holding
<1>6. Reported'
  BY <1>1, <1>2, <1>3 DEF Reported, history
<1> QED
  BY <1>1, <1>2, <1>3, <1>4, <1>5, <1>6 DEF SyncInv

LEMMA SyncInvariant == SiteSpec => []SyncInv
<1>1. SiteInit => SyncInv
  BY InitSyncInv
<1>2. SyncInv /\ [SiteNext]_siteSyncVars => SyncInv'
  <2> SUFFICES ASSUME SyncInv, [SiteNext]_siteSyncVars PROVE SyncInv'
    OBVIOUS
  <2>1. CASE PreviewSite \/ ReadWork \/ Show \/ Recheck \/ Finish
    BY <2>1, PreviewKeeps
  <2>2. CASE RefuseBlocked \/ Stops \/ CommitRaises
    BY <2>2, EndKeeps
  <2>3. CASE Preflight \/ CheckSelection \/ CheckWork \/ CommitWork \/ FinalPreview \/ Gate
    BY <2>3, EndKeeps, ApplyKeeps
  <2>4. CASE LastLook
    BY <2>4, EndKeeps, CompleteStep
  <2>5. CASE Edit \/ \E w \in Works, allowed \in SUBSET Defs : List(w, allowed)
    BY <2>5, WorldKeeps
  <2>6. CASE UNCHANGED siteSyncVars
    BY <2>6 DEF siteSyncVars, watchlist, catalog, apply, history, SyncInv, Typed, LockFits, Progress, Next1, Fresh, AsShown, Reported
  <2> QED
    BY <2>1, <2>2, <2>3, <2>4, <2>5, <2>6 DEF SiteNext, Steps
<1> QED
  BY <1>1, <1>2, PTL DEF SiteSpec

-------------------------------------------------------------------------------
\* The apply keeps its types, and holds the job lock in its middle part only.
THEOREM SiteSyncTypeCorrect == SiteSpec => []SiteTypeOK
<1>1. SyncInv => SiteTypeOK
  BY DEF SyncInv, Typed, LockFits, SiteTypeOK, Holding
<1> QED
  BY <1>1, SyncInvariant, PTL

\* What the report says is applied is committed, what it says is not was not
\* tried, and every work that was selected is in it.
THEOREM SiteSyncReportTruthful == SiteSpec => []ReportTruthful
<1>1. SyncInv => ReportTruthful
  BY DEF SyncInv, Reported, ReportTruthful
<1> QED
  BY <1>1, SyncInvariant, PTL

\* An apply that calls itself complete has synced every work of the site as the
\* Watchlist defines it at that moment.
THEOREM SiteSyncCompleteIsTrue == SiteSpec => CompleteIsTrue
<1>1. ASSUME SyncInv, [SiteNext]_siteSyncVars, result' # result, result'.complete
      PROVE  site # {} /\ \A w \in site : synced[w] = def[w] /\ def[w] \in proven[w]
  <2>1. ASSUME NEW stage, NEW failed, NEW rest, Report(stage, failed, rest) PROVE ~result'.complete
    BY <2>1 DEF Report, NoResult
  <2>2. LastLook /\ Unchanged
    BY <1>1, <2>1 DEF SiteNext, Steps, siteSyncVars, apply, PreviewSite, ReadWork, Show, RefuseBlocked, Recheck, Preflight, CheckSelection,
       CheckWork, ApplyFails, CommitWork, CommitRaises, Finish, FinalPreview, Gate, LastLook, Stops, Edit, List
  <2> QED
    BY <1>1, <2>2, CompleteStep
<1>2. SyncInv /\ [SiteNext]_siteSyncVars =>
        [result'.complete => site # {} /\ \A w \in site : synced[w] = def[w] /\ def[w] \in proven[w]]_result
  BY <1>1
<1> QED
  BY <1>2, SyncInvariant, PTL DEF SiteSpec, CompleteIsTrue

\* What is committed is what the preview showed, of a Catalog that has not moved
\* since.
THEOREM SiteSyncOnlyShownIsApplied == SiteSpec => OnlyShownIsApplied
<1> DEFINE Right ==
      committed' # committed =>
        \A w \in offered.works :
          /\ offered.look[w].ready
          /\ w \notin committed => revision[w] = offered.look[w].revision
          /\ w \in committed' \ committed => synced'[w] = offered.look[w].def
<1>1. ASSUME SyncInv, [SiteNext]_siteSyncVars, committed' # committed PROVE Right
  <2>1. pc = "committing" /\ Committed
    BY <1>1 DEF SiteNext, Steps, siteSyncVars, history, catalog, PreviewSite, ReadWork, Show, RefuseBlocked, Recheck, Preflight,
       CheckSelection, CheckWork, CommitWork, CommitRaises, Finish, FinalPreview, Gate, LastLook, Stops, Edit, List
  <2>2. current = offered
    BY <1>1, <2>1 DEF SyncInv, AsShown, Holding
  <2>3. \A w \in offered.works : offered.look[w].ready /\ (w \notin committed => revision[w] = offered.look[w].revision)
    BY <1>1, <2>1 DEF SyncInv, AsShown, Holding
  <2>4. \A w \in Works : w \in committed' \ committed => synced'[w] = offered.look[w].def
    BY <1>1, <2>1, <2>2 DEF Committed, SyncInv, Typed
  <2>5. offered.works \subseteq Works
    BY <1>1 DEF SyncInv, Typed, Views
  <2> QED
    BY <2>3, <2>4, <2>5
<1>2. SyncInv /\ [SiteNext]_siteSyncVars => [Right]_siteSyncVars
  BY <1>1
<1> QED
  BY <1>2, SyncInvariant, PTL DEF SiteSpec, OnlyShownIsApplied
===============================================================================
