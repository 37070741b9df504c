---------------------------- MODULE DeferredGrants ----------------------------
(* The pass that spends one ticket per work (cli.py, batch/grants.py): for  *)
(* each work a page is opened, a resolver of the site picks the episode to  *)
(* spend the ticket on, and the grant enters that episode on the very page, *)
(* adapter and guard the resolver has left (batch/executor.py).             *)
EXTENDS AccessGuard, Sequences, FiniteSets

CONSTANTS
  Works,
  Order,     \* the works in the order they were planned
  NoWork,
  Limit,     \* attempt_limit
  MaxMishaps  \* bound on failing writes, stale rows and interrupts

GrantsAssumption ==
  /\ NoWork \notin Works
  /\ Order \in Seq(Works) /\ \A i, j \in DOMAIN Order : Order[i] = Order[j] => i = j
  /\ Limit \in Nat /\ MaxMishaps \in Nat

VARIABLES
  groups, work,     \* the groups left; the one in hand
  stage,
  page,           \* this work's page is open
  lingers,        \* a cancelled resolver has not ended within its grace
  chosen,         \* what the resolver selected
  held, used,   \* PreparedAccessResource
  attempts,
  seen, checked,  \* the adapter saw its ticket go; consumption_checked
  error,          \* what is being raised
  run,            \* crawl_runs: the run of each work
  stored,         \* quota_resource_states: works that wait for their next ticket
  debited,        \* works whose ticket the site took in this pass
  rows,           \* GrantOnlyReport
  confirmed,      \* confirmed_grants, which the caller captures next
  outcome, mishaps,
  proven          \* auxiliary: works whose ticket an adapter saw go

catalogVars == <<run, stored>>
entryVars == <<held, used>>
attemptVars == <<seen, checked>>
passVars == <<guardVars, callVars, groups, work, stage, page, lingers, chosen, entryVars,
              attempts, attemptVars, error, catalogVars, debited, rows, confirmed, outcome,
              mishaps, proven>>

Selections == {"nothing", "one", "several", "outside"}
Row(status, consumed) == [status |-> status, consumed |-> consumed]
NotRun == Row("not_run", "unknown")

PassInit ==
  /\ challenged = FALSE /\ stop = "none" /\ watching = FALSE
  /\ answer = "none" /\ heard = FALSE
  /\ groups = Order /\ work = NoWork /\ stage = "group"
  /\ page = FALSE /\ lingers = FALSE /\ chosen = "nothing"
  /\ held = FALSE /\ used = FALSE
  /\ attempts = 0 /\ seen = FALSE /\ checked = FALSE /\ error = "none"
  /\ run = [w \in Works |-> "none"]
  /\ stored \in SUBSET Works
  /\ debited = {} /\ rows = [w \in Works |-> NotRun] /\ confirmed = {}
  /\ outcome = "none" /\ mishaps = 0 /\ proven = {}

PassOver == outcome # "none"
Mishap == mishaps < MaxMishaps /\ mishaps' = mishaps + 1
Records(row) == rows' = [rows EXCEPT ![work] = row]

\* GrantOnlyReport.failure: a ticket that is known to be gone stays known.
Spent == rows[work].consumed = "yes"
WrongFailureRow(proof) == Row("NG", "unknown")
FailureRow(proof) == IF proof \/ Spent THEN Row("OK", "yes") ELSE Row("NG", "unknown")

EndsPass(how) == outcome' = how /\ stage' = "over"
WrongEndsFor(e) ==
  IF e = "interrupt" THEN EndsPass("interrupted") ELSE stage' = "group" /\ UNCHANGED outcome
EndsFor(e) == EndsPass(IF e = "interrupt" THEN "interrupted" ELSE "failed")
LeavesWith(e) == stage' = "leave" /\ error' = e
FailsWith(e) == stage' = "failing" /\ error' = e

-------------------------------------------------------------------------------
(* _execute_deferred_grants, up to the first contact.                      *)
BeforeContact == UNCHANGED <<guardVars, callVars, lingers, chosen, entryVars, attemptVars,
                             catalogVars, debited, confirmed, proven>>

NextWork ==
  /\ stage = "group"
  /\ IF groups = <<>> \/ attempts >= Limit
     THEN EndsPass("done") /\ UNCHANGED <<groups, work>>
     ELSE stage' = "gate" /\ work' = Head(groups) /\ groups' = Tail(groups) /\ UNCHANGED outcome
  /\ BeforeContact
  /\ UNCHANGED <<page, attempts, error, rows, mishaps>>

\* A work whose ticket is not back yet is skipped without looking at the site.
Gate ==
  /\ stage = "gate"
  /\ IF work \in stored
     THEN Records(Row("SKIP", "no")) /\ stage' = "group"
     ELSE stage' = "open" /\ UNCHANGED rows
  /\ BeforeContact
  /\ UNCHANGED <<groups, work, page, attempts, error, outcome, mishaps>>

\* At a checkpoint, in the delay, or because the Catalog cannot be read.
StopsEarly ==
  /\ stage \in {"group", "gate", "open"} /\ Mishap
  /\ \/ EndsPass("interrupted") /\ UNCHANGED rows
     \/ stage # "group" /\ EndsPass("failed") /\ Records(FailureRow(FALSE))
  /\ BeforeContact
  /\ UNCHANGED <<groups, work, page, attempts, error>>

\* The page opens, the rows are still those of the plan, the guard is on.
OpenPage ==
  /\ stage = "open"
  /\ page' = TRUE
  /\ \/ /\ stage' = "resolve"
        /\ watching' = TRUE /\ stop' = "none" /\ challenged' = FALSE
        /\ answer' = "none" /\ heard' = FALSE
        /\ held' = FALSE /\ used' = FALSE /\ seen' = FALSE /\ checked' = FALSE
        /\ UNCHANGED <<error, mishaps>>
     \/ /\ stage' = "close" /\ error' = "error" /\ Mishap
        /\ UNCHANGED <<guardVars, callVars, entryVars, attemptVars>>
  /\ UNCHANGED <<groups, work, lingers, chosen, attempts, catalogVars, debited, rows,
                 confirmed, outcome, proven>>

-------------------------------------------------------------------------------
(* prepare_access_resource_candidates: the resolver under the guard.       *)
ResolverAnswers ==
  /\ stage = "resolve" /\ answer = "none"
  /\ \/ answer' = "ok" /\ chosen' \in Selections
     \/ answer' = "raised" /\ UNCHANGED chosen
  /\ UNCHANGED <<guardVars, heard, groups, work, stage, page, lingers, entryVars, attempts,
                 attemptVars, error, catalogVars, debited, rows, confirmed, outcome, mishaps,
                 proven>>

Resolving == UNCHANGED <<challenged, stop, callVars, groups, work, page, chosen, used, attempts,
                         attemptVars, catalogVars, debited, rows, confirmed, outcome, proven>>
TimeUp == FoundNothing

\* A resolver that is not done is cancelled, and may not end in its grace.
GivesUp ==
  /\ stage = "resolve"
  /\ FoundStop \/ TimeUp \/ FoundError
  /\ LeavesWith("error")
  /\ lingers' \in IF answer = "none" THEN BOOLEAN ELSE {lingers}
  /\ Resolving /\ UNCHANGED <<watching, held, mishaps>>

\* What was resolved is handed on with the guard still on.  The stop may have
\* come while the answer was on its way.
Lends == held' = TRUE /\ UNCHANGED watching
Resolved ==
  /\ stage = "resolve" /\ FoundAnswer
  /\ IF Stopped THEN LeavesWith("error") /\ UNCHANGED <<watching, held>>
                ELSE stage' = "select" /\ Lends /\ UNCHANGED error
  /\ Resolving /\ UNCHANGED <<lingers, mishaps>>

PassInterrupted ==
  /\ stage \in {"resolve", "attempt"} /\ Mishap
  /\ LeavesWith("interrupt")
  /\ Resolving /\ UNCHANGED <<watching, lingers, held>>

\* _apply_access_resolution, and a checkpoint.
ApplyResolution ==
  /\ stage = "select"
  /\ IF chosen = "nothing" THEN Records(Row("NG", "no")) ELSE UNCHANGED rows
  /\ \/ /\ CASE chosen = "nothing" -> LeavesWith("none")
             [] chosen = "one" -> stage' = "attempt" /\ UNCHANGED error
             [] OTHER -> LeavesWith("error")
        /\ UNCHANGED mishaps
     \/ chosen # "outside" /\ LeavesWith("interrupt") /\ Mishap
  /\ UNCHANGED <<guardVars, callVars, groups, work, page, lingers, chosen, entryVars, attempts,
                 attemptVars, catalogVars, debited, confirmed, outcome, proven>>

-------------------------------------------------------------------------------
(* execute_grant_only_candidate on what the resolver prepared.             *)
Granting == UNCHANGED <<guardVars, callVars, groups, work, page, lingers, chosen, held,
                        outcome, debited, proven>>

\* PreparedAccessResource.take.
MayTake == held /\ ~used /\ ~Stopped

Attempt ==
  /\ stage = "attempt"
  /\ \/ /\ MayTake
        /\ used' = TRUE
        /\ run' = [run EXCEPT ![work] = "running"]
        /\ stage' = "enter"
        /\ UNCHANGED <<error, mishaps>>
     \/ ~MayTake /\ FailsWith("error") /\ UNCHANGED <<used, run, mishaps>>
     \/ /\ Mishap
        /\ used' \in {used, MayTake \/ used}
        /\ \E e \in {"error", "interrupt"} : FailsWith(e)
        /\ UNCHANGED run
  /\ Granting /\ UNCHANGED <<attempts, attemptVars, stored, rows, confirmed>>

\* The site takes the ticket; the adapter sees it, or does not.
Debit ==
  /\ stage = "enter" /\ work \notin debited
  /\ debited' = debited \cup {work}
  /\ seen' \in BOOLEAN
  /\ proven' = IF seen' THEN proven \cup {work} ELSE proven
  /\ UNCHANGED <<guardVars, callVars, groups, work, stage, page, lingers, chosen, entryVars,
                 attempts, checked, error, catalogVars, rows, confirmed, outcome, mishaps>>

\* The runner returns, or raises.  An adapter that has seen the ticket go does
\* not call it unavailable.
EnterEpisode ==
  /\ stage = "enter"
  /\ \/ stage' = "record" /\ UNCHANGED <<error, mishaps>>
     \/ FailsWith("error") /\ UNCHANGED mishaps
     \/ ~seen /\ FailsWith("unavailable") /\ UNCHANGED mishaps
     \/ FailsWith("interrupt") /\ Mishap
  /\ Granting /\ UNCHANGED <<used, attempts, attemptVars, catalogVars, rows, confirmed>>

StoresUse == stored' = IF seen THEN stored \cup {work} ELSE stored

Observed == seen
RecordUse ==
  /\ stage = "record"
  /\ \/ /\ StoresUse /\ checked' = TRUE
        /\ IF Observed THEN stage' = "trace" /\ UNCHANGED error ELSE FailsWith("unavailable")
        /\ UNCHANGED mishaps
     \/ seen /\ Mishap /\ FailsWith("error") /\ UNCHANGED <<stored, checked>>
  /\ Granting /\ UNCHANGED <<used, attempts, seen, run, rows, confirmed>>

\* The trace, the run's end, and what the loop makes of the result.  An event
\* that cannot be written fails the grant after it was reported.
Confirm ==
  /\ stage = "trace"
  /\ run' = [run EXCEPT ![work] = "succeeded"]
  /\ confirmed' = confirmed \cup {work}
  /\ Records(Row("OK", "yes"))
  /\ \/ LeavesWith("none") /\ attempts' = attempts + 1 /\ UNCHANGED mishaps
     \/ LeavesWith("error") /\ Mishap /\ UNCHANGED attempts
  /\ Granting /\ UNCHANGED <<used, attemptVars, stored>>

ConfirmFails ==
  /\ stage = "trace" /\ Mishap
  /\ \E e \in {"error", "interrupt"} : FailsWith(e)
  /\ Granting /\ UNCHANGED <<used, attempts, attemptVars, catalogVars, rows, confirmed>>

\* The handler and the loop's: the consumption if it is not stored yet, the
\* run, the report.  An unavailable ticket ends only this work.
Counted(e) == IF e = "unavailable" THEN attempts + 1 ELSE attempts
PassedOn(e) == IF e = "unavailable" THEN "none" ELSE e
Handle ==
  /\ stage = "failing"
  /\ \/ (IF checked THEN UNCHANGED stored ELSE StoresUse) /\ UNCHANGED mishaps
     \/ ~checked /\ seen /\ Mishap /\ UNCHANGED stored
  /\ run' = IF run[work] = "running" THEN [run EXCEPT ![work] = "failed"] ELSE run
  /\ Records(IF error = "unavailable" THEN Row("NG", "no") ELSE FailureRow(seen))
  /\ attempts' = Counted(error)
  /\ LeavesWith(PassedOn(error))
  /\ Granting /\ UNCHANGED <<used, attemptVars, confirmed>>

-------------------------------------------------------------------------------
(* The way out of a work.                                                  *)
Leaving == UNCHANGED <<callVars, groups, work, lingers, chosen, used, attempts, attemptVars,
                       catalogVars, debited, confirmed, proven>>

\* A stop that nobody has raised yet is raised now.
RaisesAtExit == error = "none" /\ Stopped
LeaveWork ==
  /\ stage = "leave"
  /\ error' = IF RaisesAtExit THEN "error" ELSE error
  /\ held' = FALSE
  /\ stage' = "cleanup"
  /\ Leaving /\ UNCHANGED <<guardVars, page, rows, outcome, mishaps>>

\* An interrupt in here may leave the guard on the page that is closed next.
Cleanup ==
  /\ stage = "cleanup"
  /\ stage' = "close"
  /\ \/ watching' = FALSE /\ UNCHANGED <<error, mishaps>>
     \/ Mishap /\ error' = "interrupt" /\ watching' \in {watching, FALSE}
  /\ Leaving /\ UNCHANGED <<challenged, stop, held, page, rows, outcome>>

\* The report of an error that has none yet, and the page.
Close ==
  /\ stage = "close"
  /\ page' = FALSE
  /\ IF error # "none" /\ rows[work] = NotRun THEN Records(FailureRow(FALSE)) ELSE UNCHANGED rows
  /\ \/ error = "none" /\ stage' = "group" /\ UNCHANGED <<outcome, mishaps>>
     \/ error # "none" /\ EndsFor(error) /\ UNCHANGED mishaps
     \/ EndsPass("interrupted") /\ Mishap
  /\ Leaving /\ UNCHANGED <<guardVars, held, error>>

-------------------------------------------------------------------------------
Pass ==
  \/ NextWork \/ Gate \/ StopsEarly \/ OpenPage \/ GivesUp \/ Resolved \/ PassInterrupted
  \/ ApplyResolution \/ Attempt \/ EnterEpisode \/ RecordUse \/ Confirm \/ ConfirmFails \/ Handle
  \/ LeaveWork \/ Cleanup \/ Close

GuardLoop ==
  /\ ~PassOver
  /\ Observe \/ Hear
  /\ UNCHANGED <<groups, work, stage, page, lingers, chosen, entryVars, attempts, attemptVars,
                 error, catalogVars, debited, rows, confirmed, outcome, mishaps, proven>>

LingererEnds ==
  /\ lingers /\ lingers' = FALSE
  /\ UNCHANGED <<guardVars, callVars, groups, work, stage, page, chosen, entryVars, attempts,
                 attemptVars, error, catalogVars, debited, rows, confirmed, outcome, mishaps,
                 proven>>

PassNext == Pass \/ ResolverAnswers \/ Debit \/ GuardLoop \/ LingererEnds
PassSpec == PassInit /\ [][PassNext]_passVars
\* Every await of the pass has a time limit; mishaps are owed by nobody.
PassFairSpec == PassSpec /\ WF_passVars(Pass /\ UNCHANGED mishaps)

-------------------------------------------------------------------------------
PassTypeOK ==
  /\ GuardTypeOK
  /\ groups \in Seq(Works) /\ work \in Works \cup {NoWork}
  /\ stage \in {"group", "gate", "open", "resolve", "select", "attempt", "enter", "record",
             "trace", "failing", "leave", "cleanup", "close", "over"}
  /\ page \in BOOLEAN /\ lingers \in BOOLEAN /\ chosen \in Selections
  /\ held \in BOOLEAN /\ used \in BOOLEAN
  /\ attempts \in 0..Len(Order) /\ seen \in BOOLEAN /\ checked \in BOOLEAN
  /\ error \in {"none", "error", "interrupt"}
               \cup (IF stage = "failing" THEN {"unavailable"} ELSE {})
  /\ run \in [Works -> {"none", "running", "succeeded", "failed"}]
  /\ stored \subseteq Works /\ debited \subseteq Works
  /\ rows \in [Works -> [status : {"not_run", "SKIP", "NG", "OK"},
                         consumed : {"unknown", "yes", "no"}]]
  /\ confirmed \subseteq Works
  /\ outcome \in {"none", "done", "failed", "interrupted"}
  /\ mishaps \in 0..MaxMishaps /\ proven \subseteq Works

\* When the pass is over, its report says of exactly the works whose ticket an
\* adapter saw go that the ticket is gone, whatever failed after that: the
\* operator is neither told to spend another one nor that one was spent.
ReportTruthful == PassOver => {w \in Works : rows[w].consumed = "yes"} = proven

\* What the caller captures next has had its ticket taken, with the
\* consumption in the Catalog and a run that succeeded.
ConfirmedIsStored ==
  \A w \in confirmed : w \in debited /\ w \in stored /\ run[w] = "succeeded"

\* The site takes no more tickets than the pass may attempt, also when an
\* adapter does not notice.
TicketsWithinLimit == Cardinality(debited) <= Limit

\* What the report, the Catalog and the site say of a pass agrees.
GrantsTruthful == PassTypeOK /\ ReportTruthful /\ ConfirmedIsStored /\ TicketsWithinLimit

\* Beside a resolver that outlives its cancel, the batch touches the site no
\* more: it opens no page and spends no ticket.
NoContactBesideLingerer ==
  [][lingers => (page' => page) /\ debited' = debited]_passVars

\* A ticket goes only while the guard of the page is on and the resolver's
\* context is open for the one grant it was handed to.
GrantUnderGuard == [][debited' # debited => watching /\ held /\ used]_passVars

\* What the pass asks of the site: nothing beside a lingering resolver, and no
\* ticket but under the guard.
ContactsGuarded == NoContactBesideLingerer /\ GrantUnderGuard

\* A stop that comes before a work is left ends the pass: no other work is
\* contacted and the pass does not count as done.
Stopping ==
  Stopped /\ stage \in {"resolve", "select", "attempt", "enter", "record", "trace", "failing"}
StopEndsPass == Stopping ~> outcome \in {"failed", "interrupted"}

\* Every pass ends: no resolver, entry or cleanup holds it for ever.
PassEnds == <>PassOver
===============================================================================
