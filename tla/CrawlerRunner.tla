----------------------------- MODULE CrawlerRunner -----------------------------
(* One run of the crawler: a page loop over a viewer that it sees only     *)
(* through an adapter, under the guard, with the pages it saves and the    *)
(* manifest and progress it keeps on disk.                                 *)
EXTENDS AccessGuard, FiniteSets, Sequences

CONSTANTS
  Book,      \* the screens of the viewer: [kind, work, parts], parts in order
  Modes,     \* how runs are started: "full", "entry" only, "prepared" entry
  Limits,    \* values of RunConfig.max_pages
  MaxSame,   \* RunConfig.max_same_content
  Retries,   \* RunConfig.retry_count, for a screen that is loading
  Lag,       \* a wait may return before the page has turned
  StickyAds  \* an advertisement may be followed by another one for ever

RunnerAssumption ==
  /\ Book \in Seq([kind : {"content", "ad", "end", "next_content"},
                   work : Nat, parts : Seq(STRING)])
  /\ Book # <<>> /\ Book[Len(Book)].kind \in {"end", "next_content"}
  /\ Modes \subseteq {"full", "entry", "prepared"}
  /\ Limits \subseteq Nat /\ MaxSame \in Nat \ {0} /\ Retries \in Nat
  /\ Lag \in BOOLEAN /\ StickyAds \in BOOLEAN

VARIABLES
  at, turns,              \* the viewer: its screen, 0 for none; keys in flight
  mode, max_pages,        \* how this run was started, and its limit
  pc, then,               \* where it awaits; what follows a check
  state, ident, grabbed,  \* what the calls returned: PageState, screen, parts
  tries, same,            \* detections of a loading screen; repeats in a row
  saved,                  \* keys of the saved pages, in memory
  batch, written,         \* keys being saved, and how many have a file
  result,
  files, manifest, progress,  \* on disk: page by number; page list; last number
  late                    \* answers accepted after the stop

viewVars == <<at, turns>>
runVars == <<mode, max_pages>>
seenVars == <<state, ident, grabbed, tries, same>>
saveVars == <<saved, batch, written>>
diskVars == <<files, manifest, progress>>
vars == <<guardVars, callVars, viewVars, runVars, pc, then, seenVars, saveVars,
          result, diskVars, late>>

Calls == {"prepare", "configure", "resource", "adopt", "initialize", "context0",
          "detect", "context", "identity", "capture", "targets", "cleanup",
          "debug", "advance", "change", "repeat"}
Local == {"navigate", "check", "shoot", "saving", "flush", "pace"}
Kinds == {"none", "content", "ad", "end", "next_content", "loading", "unknown"}
Results == {"none", "complete", "entered", "unconfirmed", "too_many", "stopped",
            "timeout", "error", "killed"}
Screens == 0..Len(Book)
Keys == [id : Screens, count : Nat, index : Nat, bytes : STRING]

Init ==
  /\ mode \in Modes /\ max_pages \in Limits
  /\ at = IF mode = "prepared" THEN 1 ELSE 0
  /\ turns = 0
  /\ challenged = FALSE /\ stop = "none" /\ watching = TRUE
  /\ answer = "none" /\ heard = FALSE
  /\ pc = "prepare" /\ then = "top"
  /\ state = "none" /\ ident = 0 /\ grabbed = <<>> /\ tries = 0 /\ same = 0
  /\ saved = <<>> /\ batch = <<>> /\ written = 0
  /\ result = "none"
  /\ files = <<>> /\ manifest = <<>> /\ progress = 0
  /\ late = 0

-------------------------------------------------------------------------------
(* The viewer and the adapter's answers about it.                          *)
Shown == Book[at]
InCall == pc \in Calls

\* A key that was pressed takes effect.  The adapters make sure that nothing
\* moves while they identify and capture a screen.
Turn ==
  /\ turns > 0
  /\ pc \in {"change", "repeat"}
  /\ turns' = turns - 1
  /\ \/ at < Len(Book) /\ at' = at + 1
     \/ StickyAds /\ Shown.kind = "ad" /\ UNCHANGED at
  /\ UNCHANGED <<guardVars, callVars, runVars, pc, then, seenVars, saveVars, result,
                 diskVars, late>>

\* wait_for_change: what was there is gone, or a wait for the next page was
\* too impatient.  The adapters that know advertisements remember their turn.
Changed ==
  \/ turns = 0 /\ (pc = "repeat" => at # ident)
  \/ Lag /\ Shown.kind = "content"

Answers ==
  CASE pc = "detect" ->
         /\ state' \in {Shown.kind, "loading", "unknown"}
         /\ UNCHANGED <<ident, grabbed, turns>>
    [] pc = "identity" ->
         ident' = at /\ UNCHANGED <<state, grabbed, turns>>
    [] pc \in {"capture", "targets"} ->
         grabbed' = Shown.parts /\ UNCHANGED <<state, ident, turns>>
    [] pc = "advance" ->
         turns' = turns + 1 /\ UNCHANGED <<state, ident, grabbed>>
    [] OTHER ->
         /\ pc \in {"change", "repeat"} => Changed
         /\ UNCHANGED <<state, ident, grabbed, turns>>

Answer ==
  /\ InCall /\ answer = "none"
  /\ \/ answer' = "ok" /\ Answers
     \/ answer' = "raised" /\ UNCHANGED <<state, ident, grabbed, turns>>
  /\ UNCHANGED <<guardVars, heard, at, runVars, pc, then, tries, same, saveVars,
                 result, diskVars, late>>

-------------------------------------------------------------------------------
(* The run.                                                                *)
Over == result # "none"

\* The end of run(): a guard that was lent stays on.
End(outcome) ==
  /\ result' = outcome
  /\ pc' = "done"
  /\ watching' = (mode = "prepared")
  /\ UNCHANGED <<then, callVars>>

Await(call) == pc' = call /\ BeginCall /\ UNCHANGED <<then, watching, result>>
Goto(step) == pc' = step /\ UNCHANGED <<then, callVars, watching, result>>
CheckThen(step) ==
  pc' = "check" /\ then' = step /\ UNCHANGED <<callVars, watching, result>>

Accept(call) ==
  /\ pc = call /\ FoundAnswer
  /\ late' = IF Stopped THEN late + 1 ELSE late
  /\ UNCHANGED <<challenged, stop, viewVars, runVars, ident, state, grabbed>>

Quiet == UNCHANGED <<seenVars, saveVars, diskVars>>

Prepared == mode = "prepared"
EntryOnly == mode # "full"
StepAfter(call) ==
  CASE call = "prepare" -> "configure"
    [] call = "configure" -> "resource"
    [] call = "resource" -> IF Prepared THEN "adopt" ELSE "navigate"

\* prepare_page, configure_run and configure_quota_resource.
Enter ==
  \E call \in {"prepare", "configure", "resource"} :
    /\ Accept(call)
    /\ IF StepAfter(call) = "navigate" THEN Goto("navigate") ELSE Await(StepAfter(call))
    /\ UNCHANGED <<tries, same, saveVars, diskVars>>

\* page.goto is not interrupted by the guard.
Navigate ==
  /\ pc = "navigate"
  /\ at' = 1
  /\ CheckThen("initialize")
  /\ UNCHANGED <<challenged, stop, turns, runVars, late>> /\ Quiet

Entered ==
  \/ Accept("adopt") /\ CheckThen("initialize") /\ UNCHANGED <<tries, same, saveVars, diskVars>>
  \/ Accept("initialize") /\ CheckThen("context0") /\ UNCHANGED <<tries, same, saveVars, diskVars>>
  \/ Accept("context0") /\ CheckThen("top") /\ UNCHANGED <<tries, same, saveVars, diskVars>>

\* The known identifiers differ from those of the first screen.
OtherWork == Shown.work # Book[1].work

\* check_page, and what the run does next if it may go on.
Check ==
  /\ pc = "check"
  /\ LooksAtPage
  /\ IF Stopped' THEN End("stopped") ELSE
       CASE then = "top" -> IF EntryOnly THEN End("entered") \/ End("unconfirmed")
                            ELSE Await("detect")
         [] then = "identity" -> IF OtherWork THEN End("complete") ELSE Await("identity")
         [] then = "save" -> Await("debug")
         [] OTHER -> Await(then)
  /\ tries' = IF then = "top" THEN 0 ELSE tries
  /\ UNCHANGED <<challenged, viewVars, runVars, state, ident, grabbed, same, saveVars,
                 diskVars, late>>

\* _detect_non_loading_state and the branches on its answer.
TooMany == Len(saved) >= max_pages
Branch ==
  CASE state \in {"end", "next_content"} -> End("complete")
    [] state = "unknown" -> End("error")
    [] state = "ad" -> CheckThen("advance")
    [] state = "content" /\ TooMany -> End("too_many")
    [] OTHER -> Await("context")

Detect ==
  /\ Accept("detect")
  /\ IF state = "loading"
     THEN IF tries < Retries
          THEN Await("detect") /\ tries' = tries + 1
          ELSE End("timeout") /\ UNCHANGED tries
     ELSE Branch /\ UNCHANGED tries
  /\ UNCHANGED <<same, saveVars, diskVars>>

Identify ==
  /\ \/ Accept("context") /\ CheckThen("identity")
     \/ Accept("identity") /\ CheckThen("capture")
  /\ UNCHANGED <<tries, same, saveVars, diskVars>>

\* capture_page, or the screenshots of its targets when it has none to give.
Capture ==
  \/ /\ Accept("capture")
     /\ CheckThen("save") \/ Await("targets")
     /\ UNCHANGED <<tries, same, saveVars, diskVars>>
  \/ /\ pc = "capture" /\ (FoundError \/ FoundNothing)
     /\ Await("targets")
     /\ UNCHANGED <<challenged, stop, viewVars, runVars, late>> /\ Quiet
  \/ /\ Accept("targets") /\ Goto("shoot")
     /\ UNCHANGED <<tries, same, saveVars, diskVars>>
  \/ /\ Accept("cleanup")
     /\ IF grabbed = <<>> THEN End("error") ELSE CheckThen("save")
     /\ UNCHANGED <<tries, same, saveVars, diskVars>>

\* The temporary targets are removed even if a screenshot raises.
Shoot ==
  /\ pc = "shoot"
  /\ Await("cleanup")
  /\ grabbed' \in {grabbed, <<>>}
  /\ UNCHANGED <<challenged, stop, viewVars, runVars, state, ident, tries, same,
                 saveVars, diskVars, late>>

-------------------------------------------------------------------------------
(* Saving: the parts of this screen that were not saved before.            *)
WrongKey(i) == [id |-> 0, count |-> Len(grabbed), index |-> i, bytes |-> grabbed[i]]
Key(i) == [id |-> ident, count |-> Len(grabbed), index |-> i, bytes |-> grabbed[i]]
Fresh ==
  LET new == {i \in DOMAIN grabbed : \A n \in DOMAIN saved : saved[n] # Key(i)}
      nth(n) == CHOOSE i \in new : Cardinality({j \in new : j <= i}) = n
  IN [n \in 1 .. Cardinality(new) |-> Key(nth(n))]

Repeats == same + 1
Exhausted == Repeats >= MaxSame

Select ==
  /\ Accept("debug")
  /\ IF Fresh = <<>>
     THEN /\ same' = Repeats
          /\ IF Exhausted THEN End("timeout") ELSE Await("repeat")
          /\ UNCHANGED <<batch, written>>
     ELSE /\ same' = 0
          /\ batch' = Fresh /\ written' = 0
          /\ Goto("saving")
  /\ UNCHANGED <<tries, saved, diskVars>>

SaveVars == UNCHANGED <<guardVars, viewVars, runVars, seenVars, late>>

\* A file per part; the limit may be met in the middle of a spread.
SavePage ==
  /\ pc = "saving" /\ written < Len(batch)
  /\ IF Len(saved) + written >= max_pages
     THEN /\ result' = "too_many" /\ pc' = "done" /\ UNCHANGED <<files, written>>
     ELSE /\ files' = [n \in 1 .. Len(saved) + written + 1 |->
                        IF n = Len(saved) + written + 1 THEN batch[written + 1] ELSE files[n]]
          /\ written' = written + 1
          /\ UNCHANGED <<pc, result>>
  /\ SaveVars
  /\ UNCHANGED <<then, callVars, saved, batch, manifest, progress>>

\* ProgressStore.flush: two files, one after the other.
AllWritten == written = Len(batch)
FlushManifest ==
  /\ pc = "saving" /\ AllWritten
  /\ manifest' = saved \o batch
  /\ pc' = "flush"
  /\ SaveVars
  /\ UNCHANGED <<then, callVars, result, saveVars, files, progress>>

FlushProgress ==
  /\ pc = "flush"
  /\ progress' = Len(manifest)
  /\ saved' = manifest
  /\ batch' = <<>> /\ written' = 0
  /\ pc' = "pace"
  /\ SaveVars
  /\ UNCHANGED <<then, callVars, result, files, manifest>>

\* The delay before a page is turned.
Pace ==
  /\ pc = "pace"
  /\ CheckThen("advance")
  /\ UNCHANGED <<challenged, stop, viewVars, runVars, late>> /\ Quiet

Advance ==
  \/ Accept("advance") /\ Await("change") /\ UNCHANGED <<tries, same, saveVars, diskVars>>
  \/ Accept("change") /\ CheckThen("top") /\ UNCHANGED <<tries, same, saveVars, diskVars>>
  \/ Accept("repeat") /\ CheckThen("top") /\ UNCHANGED <<tries, same, saveVars, diskVars>>

-------------------------------------------------------------------------------
(* Ways out.                                                               *)
StopRaises ==
  /\ InCall /\ FoundStop
  /\ End("stopped")
  /\ UNCHANGED <<challenged, stop, viewVars, runVars, late>> /\ Quiet

CallFails ==
  /\ InCall /\ pc # "capture"
  /\ \/ FoundNothing /\ End("timeout")
     \/ FoundError /\ End("error")
  /\ UNCHANGED <<challenged, stop, viewVars, runVars, late>> /\ Quiet

\* Everything else that raises: the navigation, a look at the page, a
\* capture of a kind that has no fallback, a write.
Raises ==
  /\ pc \in Local \/ (pc = "capture" /\ FoundError)
  /\ End("error")
  /\ UNCHANGED <<challenged, stop, viewVars, runVars, late>> /\ Quiet

Kill ==
  /\ ~Over
  /\ result' = "killed" /\ pc' = "done" /\ watching' = FALSE
  /\ UNCHANGED <<challenged, stop, callVars, viewVars, runVars, then, late>> /\ Quiet

Runner ==
  \/ Enter \/ Navigate \/ Entered \/ Check \/ Detect \/ Identify
  \/ Capture \/ Shoot \/ Select \/ SavePage \/ FlushManifest \/ FlushProgress
  \/ Pace \/ Advance \/ StopRaises \/ CallFails \/ Raises

Loop ==
  /\ ~Over
  /\ Observe \/ Hear
  /\ UNCHANGED <<viewVars, runVars, pc, then, seenVars, saveVars, result, diskVars, late>>

Next == Runner \/ Loop \/ Turn \/ Answer \/ Kill
Spec == Init /\ [][Next]_vars
FairSpec == Spec /\ WF_vars(Runner)

-------------------------------------------------------------------------------
TypeOK ==
  /\ GuardTypeOK
  /\ at \in Screens /\ turns \in Nat
  /\ mode \in Modes /\ max_pages \in Limits
  /\ pc \in Calls \cup Local \cup {"done"}
  /\ then \in {"top", "initialize", "context0", "identity", "capture", "save", "advance"}
  /\ state \in Kinds /\ ident \in Screens /\ grabbed \in Seq(STRING)
  /\ tries \in 0..Retries /\ same \in 0..MaxSame
  /\ saved \in Seq(Keys) /\ batch \in Seq(Keys) /\ written \in 0..Len(batch)
  /\ result \in Results
  /\ files \in Seq(Keys) /\ manifest \in Seq(Keys) /\ progress \in Nat
  /\ late \in Nat

\* What the manifest lists is on disk under its number, and the progress file
\* is never ahead of it, also after a kill between two writes.
ManifestHolds ==
  /\ Len(manifest) <= Len(files)
  /\ \A n \in DOMAIN manifest : files[n] = manifest[n]
  /\ progress <= Len(manifest)

\* No page is saved twice, however often its screen is shown.
NoPageTwice == \A m, n \in DOMAIN manifest : manifest[m] = manifest[n] => m = n

\* After a stop at most the call that was about to return is believed.
OneAnswerAfterStop == late <= 1

\* A run ends, unless it is shown advertisements for ever.
RunEnds == <>Over \/ []<>(state = "ad")

\* A stop ends the run, also one that is in advertisements for ever.
StopEndsRun == stop # "none" ~> Over
===============================================================================
