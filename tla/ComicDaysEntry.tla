---------------------------- MODULE ComicDaysEntry ----------------------------
(* Entering an episode of comic-days.com with the work's ticket              *)
(* (_initialize_ticket_entry and live_access.py).  The adapter reads the     *)
(* ticket of the work first and the page of the episode after it; the two    *)
(* belong to different moments.  It clicks once, then reads both again until *)
(* they prove the use; whatever is raised, it reads on for a while before it *)
(* is raised.                                                                *)
EXTENDS Naturals

CONSTANTS
  MaxTime,   \* bound on the clock
  Recharge,  \* how long a used ticket takes to come back
  Others     \* whether the owner reads elsewhere with the same account

ASSUME ComicDaysAssumption ==
  MaxTime \in Nat /\ Recharge \in Nat \ {0} /\ Others \in BOOLEAN

VARIABLES
  now,
  charged,    \* the ticket is there
  chargedAt,  \* when it came, or will come
  spent,      \* the ticket went on this episode
  spentAt,
  page,       \* what the page shows of the episode
  landed,     \* the click is on its way to the site
  pc,
  entryOnly,
  read,       \* the ticket as it was read
  before,     \* chargedAt at the decision to click
  acted,      \* _ticket_click_attempted
  raised,     \* what is raised once the recovery is over
  report,     \* the AccessConsumption
  result

siteVars == <<now, charged, chargedAt, spent, spentAt, page, landed>>
entryVars == <<pc, entryOnly, read, before, acted, raised, report, result>>
comicVars == <<siteVars, entryVars>>

Times == 0..(MaxTime + Recharge)
Tickets == [charged : BOOLEAN, at : Times]

ComicTypeOK ==
  /\ now \in 0..MaxTime /\ charged \in BOOLEAN /\ chargedAt \in Times
  /\ spent \in BOOLEAN /\ spentAt \in 0..MaxTime
  /\ page \in {"locked", "hidden", "normal"} /\ landed \in BOOLEAN
  /\ pc \in {"ticket", "dom", "control", "click", "poll", "pollDom", "entered", "done"}
  /\ entryOnly \in BOOLEAN /\ read \in Tickets /\ before \in Times /\ acted \in BOOLEAN
  /\ raised \in {"none", "unconfirmed", "failed", "cancelled"}
  /\ report \in [consumed : BOOLEAN, at : 0..MaxTime]
  /\ result \in {"none", "entered", "unavailable", "unconfirmed", "failed", "cancelled"}
  /\ (result # "none") <=> (pc = "done")
  /\ (raised # "none" \/ report.consumed) => acted

ComicInit ==
  /\ now = 0 /\ charged \in BOOLEAN
  /\ chargedAt = IF charged THEN 0 ELSE Recharge
  /\ spent = FALSE /\ spentAt = 0 /\ page = "locked" /\ landed = FALSE
  /\ pc = "ticket" /\ entryOnly \in BOOLEAN
  /\ read = [charged |-> FALSE, at |-> 0] /\ before = 0
  /\ acted = FALSE /\ raised = "none"
  /\ report = [consumed |-> FALSE, at |-> 0] /\ result = "none"

-------------------------------------------------------------------------------
(* The site and the page, outside the program.                             *)

\* The ticket goes on this episode or on another one.
Use(onThis) ==
  /\ charged' = FALSE /\ chargedAt' = now + Recharge
  /\ spent' = (spent \/ onThis)
  /\ spentAt' = IF onThis THEN now ELSE spentAt

\* The click reaches the site, which may refuse it.
Land ==
  /\ landed /\ landed' = FALSE
  /\ \/ charged /\ ~spent /\ Use(TRUE)
     \/ UNCHANGED <<charged, chargedAt, spent, spentAt>>
  /\ UNCHANGED <<now, page>>

Elsewhere ==
  /\ Others /\ charged /\ ~spent
  /\ \E onThis \in BOOLEAN : Use(onThis)
  /\ UNCHANGED <<now, page, landed>>

Tick ==
  /\ now < MaxTime /\ now' = now + 1
  /\ charged' = (charged \/ chargedAt = now')
  /\ UNCHANGED <<chargedAt, spent, spentAt, page, landed>>

\* The page hides and shows its control, and opens once the episode is open.
Render ==
  /\ page # "normal"
  /\ page' \in {"locked", "hidden"} \cup (IF spent THEN {"normal"} ELSE {})
  /\ page' # page
  /\ UNCHANGED <<now, charged, chargedAt, spent, spentAt, landed>>

Site == pc # "done" /\ (Land \/ Elsewhere \/ Tick \/ Render) /\ UNCHANGED entryVars

-------------------------------------------------------------------------------
Still == UNCHANGED siteVars

Goto(next) ==
  pc' = next /\ UNCHANGED <<entryOnly, read, before, acted, raised, report, result>>

End(how) ==
  /\ pc' = "done" /\ result' = how
  /\ UNCHANGED <<entryOnly, read, before, acted, raised, report>>

\* observe_comicdays_ticket, the first half of an observation.
ReadTicket(next) ==
  /\ pc' = next /\ read' = [charged |-> charged, at |-> chargedAt]
  /\ UNCHANGED <<entryOnly, before, acted, raised, report, result>> /\ Still

FirstTicket == pc = "ticket" /\ ReadTicket("dom")
NextTicket == pc = "poll" /\ ReadTicket("pollDom")

\* _classify_comicdays_target_dom: a ticket that is gone makes a locked page
\* "quota", whatever it shows; a control that stays hidden is unknown.
AccessMode ==
  CASE page = "normal" -> "free"
    [] page = "locked" \/ ~read.charged -> "quota"
    [] OTHER -> "unknown"

Decide ==
  /\ pc = "dom"
  /\ CASE AccessMode = "unknown" -> End("failed")
       [] AccessMode = "free" \/ ~read.charged -> End("unavailable")
       [] OTHER -> /\ pc' = "control" /\ before' = read.at
                   /\ UNCHANGED <<entryOnly, read, acted, raised, report, result>>
  /\ Still

\* The one control of this episode, found and judged; then the latch.
Control ==
  /\ pc = "control" /\ page = "locked"
  /\ pc' = "click" /\ acted' = TRUE
  /\ UNCHANGED <<entryOnly, read, before, raised, report, result>>
  /\ Still

\* Before the latch anything may fail or run out of time; a page or a contract
\* that is not the expected one is "unavailable".
GiveUp ==
  /\ pc \in {"ticket", "dom", "control"}
  /\ \E how \in {"unavailable", "failed", "cancelled"} : End(how)
  /\ Still

Recover(how) ==
  /\ pc' = "poll" /\ raised' = how
  /\ UNCHANGED <<entryOnly, read, before, acted, report, result>>

\* No time may be left for it; a click that raises may land all the same.
Click ==
  /\ pc = "click"
  /\ \/ /\ landed' \in BOOLEAN
        /\ Goto("poll") \/ Recover("failed") \/ Recover("cancelled")
     \/ Recover("failed") /\ UNCHANGED landed
  /\ UNCHANGED <<now, charged, chargedAt, spent, spentAt, page>>

WrongPositive == ~read.charged /\ read.at > now /\ read.at > before

\* The ticket went since the click was decided, and this episode is open.
Positive == /\ ~read.charged /\ read.at > now /\ read.at > before
            /\ page = "normal"

WrongReport == [consumed |-> TRUE, at |-> before]
Report == [consumed |-> TRUE, at |-> now]

Confirm ==
  /\ pc = "pollDom" /\ Positive
  /\ pc' = "entered" /\ report' = Report
  /\ UNCHANGED <<entryOnly, read, before, acted, raised, result>>
  /\ Still

PollAgain ==
  /\ pc = "pollDom" /\ ~Positive
  /\ Goto("poll") /\ Still

\* The time is over or a cancellation comes: at first that starts the recovery;
\* in the recovery what was raised first is raised.
PollEnds(how) ==
  /\ pc \in {"poll", "pollDom"}
  /\ IF raised = "none" THEN Recover(how) ELSE End(raised)
  /\ Still

\* After a recovery that found the proof what was raised is raised.  Otherwise
\* initialize goes on to the first page of the viewer and may fail there.
EntryEnds ==
  /\ pc = "entered"
  /\ \/ raised # "none" /\ End(raised)
     \/ raised = "none" /\ End("entered")
     \/ raised = "none" /\ ~entryOnly /\ (End("failed") \/ End("cancelled"))
  /\ Still

Entry ==
  \/ FirstTicket \/ Decide \/ GiveUp \/ Control \/ Click
  \/ NextTicket \/ Confirm \/ PollAgain
  \/ \E how \in {"unconfirmed", "cancelled"} : PollEnds(how)
  \/ EntryEnds

ComicNext == Entry \/ Site

ComicSpec == ComicInit /\ [][ComicNext]_comicVars

-------------------------------------------------------------------------------
\* The entry implements what the batch relies on: one click, and a report only
\* when the ticket went on this episode and not on another one of the work.
Promise == INSTANCE TicketEntry WITH reported <- report.consumed
KeepsPromise == Promise!Spec

\* The cooldown of the work is counted from no earlier than the use of its ticket.
CooldownFromUse == report.consumed => report.at >= spentAt
===============================================================================
