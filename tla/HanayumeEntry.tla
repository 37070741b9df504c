---------------------------- MODULE HanayumeEntry ----------------------------
(* Entering an episode of hanayume.com with the work's ticket                *)
(* (_initialize_work_ticket_entry, _reconcile_work_ticket_consumption and    *)
(* _CurrentEpisodeAccessObserver).  Two answers tell of the episode, its own *)
(* and the work's; the one whose request began last counts.  Requests begun  *)
(* before the click are never looked at after it.                            *)
EXTENDS TicketSite

VARIABLES
  pc,
  first,     \* the request the first reading took
  acted,     \* _ticket_click_attempted
  landed,    \* checkouts the page is about to ask for
  fallbacks, \* _ticket_fallback_reads
  report,    \* the AccessConsumption
  result

entryVars == <<pc, first, acted, landed, fallbacks, report, result>>
vars == <<siteVars, entryVars>>

\* The answers whose times are looked at.
Dated == {"episode", "series"}

TypeOK ==
  /\ SiteTypeOK
  /\ pc \in {"first", "control", "second", "match", "reconcile", "read", "raise", "done"}
  /\ acted \in BOOLEAN
  /\ first \in 0..MaxAsked /\ landed \in 0..2 /\ fallbacks \in 0..2
  /\ report \in [consumed : BOOLEAN, at : 0..MaxTime, until : 0..(MaxTime + Term)]
  /\ result \in {"none", "entered", "unavailable", "unconfirmed", "failed", "cancelled"}
  /\ (result # "none") <=> (pc = "done")

Init ==
  /\ SiteInit
  /\ pc = "first" /\ first = 0
  /\ acted = FALSE /\ landed = 0 /\ fallbacks = 0
  /\ report = [consumed |-> FALSE, at |-> 0, until |-> 0] /\ result = "none"

-------------------------------------------------------------------------------
(* What the answers say.                                                   *)

\* The newest of a kind that could be read.
Newest(kind) == {i \in Of(kind) : Seen(i) /\ \A j \in Of(kind) : Seen(j) => j <= i}

\* An episode request is on its way; its answer is awaited first.
Pending == \E i \in Of("episode") : ~Answered(i)

\* latest_access raises if a newer answer, or the only one, could not be read.
Ambiguous ==
  \E i \in Of("episode") : asked[i].state = "bad" /\ \A j \in Newest("episode") : j <= i

Usable == ~Pending /\ ~Ambiguous

\* The newer of the two that tell of the episode.
Telling ==
  {i \in Newest("episode") \cup Newest("series") :
     \A j \in Newest("episode") \cup Newest("series") : j <= i}

Yes(i) == asked[i].yes /\ asked[i].left > 0
No(i) == ~asked[i].yes /\ asked[i].left = 0

\* checkout_confirmed: one answer has come and it accepts.
Paid ==
  \E i \in Of("checkout") : /\ Seen(i) /\ asked[i].yes
                            /\ {j \in Of("checkout") : Answered(j)} = {i}

\* The answers that prove the use: the newest of all, and beside one of the work the
\* episode's own before it, if that says yes too.  (To the work's alone the account
\* row of the page must agree; it may not, and the window then ends.)
Proof ==
  {i \in Newest("episode") \cup Telling : Yes(i) /\ \A j \in Telling : Yes(j)}

Expiries == {asked[i].at + asked[i].left - 1 : i \in Proof}

WrongReport ==
  [consumed |-> TRUE, at |-> now,
   until |-> CHOOSE e \in {now + asked[i].left : i \in Proof} : TRUE]

Report ==
  [consumed |-> TRUE, at |-> now,
   until |-> CHOOSE e \in Expiries : \A other \in Expiries : e <= other]

-------------------------------------------------------------------------------
Still == UNCHANGED siteVars

Goto(next) ==
  pc' = next /\ UNCHANGED <<first, acted, landed, fallbacks, report, result>>

End(how) ==
  /\ pc' = "done" /\ result' = how
  /\ UNCHANGED <<first, acted, landed, fallbacks, report>>

\* Every step before the click may time out or find what it cannot judge; a page
\* or a control that is not the expected one ends as "unavailable".
GiveUp ==
  /\ pc \in {"first", "control", "second", "match"}
  /\ \E how \in {"unavailable", "failed", "cancelled"} : End(how)
  /\ Still

\* An open episode is "unavailable" to entry_only.  The account row of the page
\* may disagree with the answer: that is GiveUp.
First ==
  /\ pc = "first" /\ Usable
  /\ \E i \in Telling :
       \/ Yes(i) /\ (End("entered") \/ End("unavailable"))
       \/ /\ No(i)
          /\ pc' = "control" /\ first' = i
          /\ UNCHANGED <<acted, landed, fallbacks, report, result>>
  /\ Still

Control == pc = "control" /\ Goto("second") /\ Still

Second ==
  /\ pc = "second" /\ Usable
  /\ \E i \in Telling : No(i) /\ i >= first
  /\ Goto("match") /\ Still

\* The latch, and the only click; what it raises is raised at the end.
Click ==
  /\ pc = "match"
  /\ pc' = "reconcile" /\ acted' = TRUE
  /\ landed' \in 0..2 /\ first' = 0
  /\ asked' = <<>>
  /\ UNCHANGED <<now, ticket, until, garbled, fallbacks, report, result>>

Confirm ==
  /\ pc = "reconcile" /\ Usable /\ Paid /\ Proof # {}
  /\ pc' = "raise" /\ report' = Report
  /\ UNCHANGED <<first, acted, landed, fallbacks, result>>
  /\ Still

\* The newest answer, if there is any, still says no: the adapter asks itself.
FallBack ==
  /\ pc = "reconcile" /\ Usable /\ Paid /\ fallbacks < 2
  /\ \A i \in Telling : ~asked[i].yes
  /\ fallbacks' = fallbacks + 1
  /\ Len(asked) < MaxAsked /\ asked' = Asking(Dated, "episode")
  /\ UNCHANGED <<now, ticket, until, garbled, pc, first, acted, landed,
                 report, result>>

WindowOver == pc = "reconcile" /\ Goto("raise") /\ Still

\* The reconciliation is not shielded: a cancellation ends it and the entry.
Cancelled == pc = "reconcile" /\ End("cancelled") /\ Still

\* What the click raised is raised, as "unconfirmed" unless it is a cancellation
\* or the use is confirmed; even then the page may have left its route, or
\* initialize may fail in the viewer.
Raise ==
  /\ pc = "raise"
  /\ \/ End("cancelled") \/ End("unconfirmed")
     \/ report.consumed /\ (End("entered") \/ End("failed"))
  /\ Still

Entry ==
  \/ GiveUp \/ First \/ Control \/ Second \/ Click
  \/ Confirm \/ FallBack \/ WindowOver \/ Cancelled \/ Raise

\* The page asks for the checkout that the click set off.
CheckOut ==
  /\ landed > 0 /\ Len(asked) < MaxAsked
  /\ landed' = landed - 1 /\ asked' = Asking(Dated, "checkout")
  /\ UNCHANGED <<now, ticket, until, garbled, pc, first, acted,
                 fallbacks, report, result>>

Outside == CheckOut \/ (Site(Dated) /\ UNCHANGED entryVars)

Next == Entry \/ (pc \notin {"raise", "done"} /\ Outside)

Spec == Init /\ [][Next]_vars

-------------------------------------------------------------------------------
\* The entry implements what the batch relies on of an adapter.
Promise == INSTANCE TicketEntry WITH spent <- ~ticket, reported <- report.consumed
KeepsPromise == Promise!Spec

\* A report dates the use no earlier than the ticket went (the cooldown counts
\* from there) and never grants the episode longer than the site does.
ReportedTimes ==
  report.consumed => report.at >= until - Term /\ report.until <= until
===============================================================================
