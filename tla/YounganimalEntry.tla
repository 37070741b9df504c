--------------------------- MODULE YounganimalEntry ---------------------------
(* Entering an episode of younganimal.com with the work's ticket             *)
(* (_initialize_work_ticket_entry and YounganimalLiveAccessObserver).  The   *)
(* adapter judges by the answers its page gets, before and after one click;  *)
(* requests asked before the click are never looked at after it.             *)
EXTENDS TicketSite

VARIABLES
  pc,
  before,     \* the state the click was decided on
  acted,      \* _ticket_action_attempted
  landed,     \* checkouts that the page is about to ask for
  cancelled,  \* a cancellation waits for the reconciliation to end
  report,     \* the AccessConsumption
  result

entryVars == <<pc, before, acted, landed, cancelled, report, result>>
vars == <<siteVars, entryVars>>

Quiet == [yes |-> FALSE, left |-> 0]
NoReport == [consumed |-> FALSE, at |-> 0, until |-> 0]

Waits == {"current", "series", "control", "refresh", "refreshed", "again", "match"}

\* The answers whose times the observer looks at.
Dated == {"episode"}

TypeOK ==
  /\ SiteTypeOK
  /\ pc \in Waits \cup {"reconcile", "settle", "conclude", "gate", "done"}
  /\ acted \in BOOLEAN /\ cancelled \in BOOLEAN
  /\ before \in [yes : BOOLEAN, left : 0..(Term + 1)]
  /\ landed \in 0..2
  /\ report \in [consumed : BOOLEAN, at : 0..MaxTime, until : 0..(MaxTime + Term + 1)]
  /\ result \in {"none", "entered", "unavailable", "unconfirmed", "failed", "cancelled"}
  /\ (result # "none") <=> (pc = "done")

Init ==
  /\ SiteInit
  /\ pc = "current"
  /\ before = Quiet /\ report = NoReport
  /\ acted = FALSE /\ landed = 0 /\ cancelled = FALSE
  /\ result = "none"

-------------------------------------------------------------------------------
(* What the observer makes of the answers.                                 *)

\* The request begun last, whether or not it was answered.
Latest(kind) ==
  IF Of(kind) = {} THEN 0 ELSE CHOOSE i \in Of(kind) : \A j \in Of(kind) : i >= j

Current == Latest("episode")
CurrentKnown == Current # 0 /\ Seen(Current)

SeriesSettled == \A i \in Of("series") : Answered(i)
SeriesFine == \A i \in Of("series") : Seen(i)

SeriesConflict ==
  \E i \in Of("series") :
    \/ asked[i].state = "bad"
    \/ Seen(i) /\ i >= Current /\ asked[i].yes # asked[Current].yes

\* pre_click_state, or nothing.
PreClick ==
  IF CurrentKnown /\ ~SeriesConflict
  THEN {[yes |-> asked[Current].yes, left |-> asked[Current].left]} ELSE {}

WrongProven ==
  /\ \E i \in Of("checkout") : Of("checkout") = {i} /\ Seen(i) /\ asked[i].yes
  /\ CurrentKnown
  /\ ~SeriesConflict

\* One checkout, accepted, and the newest request says that the episode is open.
Proven ==
  /\ \E i \in Of("checkout") : Of("checkout") = {i} /\ Seen(i) /\ asked[i].yes
  /\ CurrentKnown /\ asked[Current].yes
  /\ ~SeriesConflict

\* The grant is counted from when the request began, less a second.
ProofOf(checkout, current) ==
  LET expiry == asked[current].at + asked[current].left - 1
  IN [consumed |-> TRUE, at |-> asked[checkout].when,
      until |-> IF asked[current].left > 0 /\ expiry > now THEN expiry ELSE 0]

-------------------------------------------------------------------------------
Goto(next) == pc' = next /\ UNCHANGED <<before, acted, landed,
                                        cancelled, report, result>>

End(how) ==
  /\ pc' = "done" /\ result' = how
  /\ UNCHANGED <<before, acted, landed, cancelled, report>>

Still == UNCHANGED siteVars

\* Each wait before the click may time out or find what it cannot judge; a page
\* without the one trusted control of this episode ends as "unavailable".
GiveUp ==
  /\ pc \in Waits
  /\ End("failed") \/ End("cancelled") \/ (pc \in {"control", "match"} /\ End("unavailable"))
  /\ Still

SeeCurrent ==
  /\ pc = "current" /\ CurrentKnown
  /\ Goto("series") /\ Still

\* _classify_work_ticket_prestate; an open episode is "unavailable" to entry_only.
Classify ==
  /\ pc = "series" /\ SeriesSettled
  /\ \/ (PreClick = {} \/ ~SeriesFine) /\ End("failed")
     \/ /\ SeriesFine
        /\ \E state \in PreClick :
             \/ state.yes /\ state.left = 0 /\ End("failed")
             \/ /\ state.yes /\ state.left > 0
                /\ End("entered") \/ End("unavailable")
             \/ /\ ~state.yes
                /\ pc' = "control" /\ before' = state
                /\ UNCHANGED <<acted, landed, cancelled, report, result>>
  /\ Still

\* The one trusted control is there; the page itself asks for fresh state.
Refresh ==
  /\ pc = "control" /\ Len(asked) < MaxAsked
  /\ Goto("refresh")
  /\ asked' = Asking(Dated, "episode")
  /\ UNCHANGED <<now, ticket, until, garbled>>

SeeRefreshed ==
  /\ pc = "refresh" /\ CurrentKnown
  /\ Goto("refreshed") /\ Still

SettleAgain ==
  /\ pc = "refreshed" /\ SeriesSettled
  /\ IF SeriesFine THEN Goto("again") ELSE End("failed")
  /\ Still

\* Header and control are read once more, then the state compared.
Compare ==
  /\ pc = "again"
  /\ IF PreClick = {before} THEN Goto("match") ELSE End("unavailable")
  /\ Still

\* The latch, and the only click; it may raise, or be cancelled, and land all the
\* same.
Click ==
  /\ pc = "match"
  /\ pc' = "reconcile" /\ acted' = TRUE
  /\ landed' \in 0..2 /\ cancelled' \in BOOLEAN
  /\ asked' = <<>>
  /\ UNCHANGED <<now, ticket, until, garbled, before, report, result>>

\* A cancellation is kept until the reconciliation is over.
Cancel ==
  /\ pc \in {"reconcile", "settle"} /\ ~cancelled
  /\ cancelled' = TRUE
  /\ UNCHANGED <<pc, before, acted, landed, report, result>>
  /\ Still

Reconcile ==
  /\ pc = "reconcile"
  /\ \/ Proven /\ Goto("settle")
     \/ Goto("conclude")  \* its time is over, or a second checkout was seen
  /\ Still

\* The aggregates in flight are awaited and everything is judged again.
Settle ==
  /\ pc = "settle"
  /\ pc' = "conclude"
  /\ \/ /\ SeriesSettled /\ SeriesFine /\ Proven
        /\ \E i \in Of("checkout") : report' = ProofOf(i, Current)
     \/ (~Proven \/ ~SeriesFine) /\ report' = report
  /\ UNCHANGED <<before, acted, landed, cancelled, result>>
  /\ Still

\* In this order; what the click raised is forgotten once the use is proven, and
\* the route may have changed under a proven entry.
Conclude ==
  /\ pc = "conclude"
  /\ \/ cancelled /\ End("cancelled")
     \/ ~cancelled /\ ~report.consumed /\ End("unconfirmed")
     \/ ~cancelled /\ report.consumed
        /\ \/ End("unconfirmed")
           \/ End("entered") \/ Goto("gate")
  /\ Still

\* entry_only: the header is verified and the gate has to be gone.
Gate ==
  /\ pc = "gate"
  /\ \E how \in {"entered", "unconfirmed", "failed", "cancelled"} : End(how)
  /\ Still

Entry ==
  \/ GiveUp \/ SeeCurrent \/ Classify \/ Refresh \/ SeeRefreshed \/ SettleAgain
  \/ Compare \/ Click \/ Reconcile \/ Settle \/ Conclude \/ Gate

\* The page asks for the checkout that the click set off.
CheckOut ==
  /\ landed > 0 /\ Len(asked) < MaxAsked
  /\ landed' = landed - 1
  /\ asked' = Asking(Dated, "checkout")
  /\ UNCHANGED <<now, ticket, until, garbled, pc, before, acted,
                 cancelled, report, result>>

\* Once everything is judged no answer matters any more.
Outside == CheckOut \/ (Site(Dated) /\ pc \notin {"conclude", "gate", "done"} /\ UNCHANGED entryVars)

Next == Entry \/ Cancel \/ Outside

Spec == Init /\ [][Next]_vars

-------------------------------------------------------------------------------
\* What the batch relies on of an entry is kept: one action, a report only of a
\* ticket that is gone, "entered" after an action only with a report, and
\* "unavailable", which the batch passes over, only where nothing was done.
Promise == INSTANCE TicketEntry WITH spent <- ~ticket, reported <- report.consumed
KeepsPromise == Promise!Spec

\* A report dates the use no earlier than the ticket went (the cooldown counts
\* from there) and never grants the episode longer than the site does.
ReportedTimes ==
  report.consumed => report.at >= until - Term /\ report.until <= until
===============================================================================
