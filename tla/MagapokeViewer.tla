---------------------------- MODULE MagapokeViewer ----------------------------
(* Turning the pages of an episode of Magapoke: back to its first spread,    *)
(* then forward with clicks that the viewer handles late or loses, and that  *)
(* the adapter repeats.  Spread 0 is what the viewer shows before the first  *)
(* page of the comic, Last + 1 the card after the last.                      *)
(*                                                                           *)
(* The adapter knows the viewer by what it shows only.  How long the viewer  *)
(* takes is not bounded: every wait of the adapter may be over before a      *)
(* click is handled or a spread is drawn.                                    *)
EXTENDS Integers, Sequences

CONSTANTS
  Last,         \* the episode's last spread
  Saved,        \* the spreads at which the viewer may open
  RewindSteps,  \* rewind_max_steps
  Retries,      \* advance_retry_count
  MaxSame,      \* max_same_content
  MaxLost       \* bound on the clicks the viewer loses between two spreads

ASSUME ViewerAssumption ==
  /\ Last \in Nat \ {0} /\ Saved \subseteq 0..Last
  /\ RewindSteps \in Nat /\ Retries \in Nat /\ MaxSame \in Nat \ {0} /\ MaxLost \in Nat

VARIABLES
  shown,    \* the spread in view
  drawn,    \* its canvases, or the card, are there
  clicks,   \* not handled yet
  lost,     \* clicks since the last spread that the viewer lost
  at,
  steps,    \* of the rewind
  nudged,   \* next_click_count of the recovery from spread 0
  retries,
  previous,   \* the identity read last, or the signature before a rewind step
  same,       \* same_content_count
  taken,    \* the captures: the identity they are saved under, and what they show
  outcome,
  early,    \* of the past, and read by no guard: the way back was left before its
            \* last step was handled, or a spread after the first was drawn;
  hasty     \* a click was repeated before the one before was handled and drawn

viewerVars == <<shown, drawn, clicks, lost>>
pastVars == <<early, hasty>>
viewVars == <<viewerVars, at, steps, nudged, retries, previous, same, taken, outcome, pastVars>>

ViewTypeOK ==
  /\ shown \in 0..(Last + 1) /\ drawn \in BOOLEAN
  /\ clicks \in Seq({-1, 1}) /\ lost \in 0..MaxLost
  /\ at \in {"look", "rewind", "rewound", "ready", "detect", "capture", "next", "wait", "done"}
  /\ steps \in 0..RewindSteps /\ nudged \in BOOLEAN /\ retries \in 0..Retries
  /\ previous \in 0..Last /\ same \in 0..MaxSame
  /\ taken \in Seq([as: 1..Last, shows: 1..Last])
  /\ outcome \in {"none", "end", "failed"}
  /\ (outcome # "none") <=> (at = "done")
  /\ early \in BOOLEAN /\ hasty \in BOOLEAN

ViewInit ==
  /\ shown \in Saved /\ drawn \in BOOLEAN /\ clicks = <<>> /\ lost = 0
  /\ at = "look" /\ steps = 0 /\ nudged = FALSE /\ retries = 0
  /\ previous = 0 /\ same = 0 /\ taken = <<>> /\ outcome = "none"
  /\ early = FALSE /\ hasty = FALSE

-------------------------------------------------------------------------------
(* The viewer, outside the program.                                        *)

Rest == UNCHANGED <<at, steps, nudged, retries, previous, same, taken, outcome, pastVars>>

Handle ==
  /\ clicks # <<>> /\ clicks' = Tail(clicks)
  /\ LET there == shown + Head(clicks)
     IN IF there \in 0..(Last + 1)
        THEN shown' = there /\ drawn' = FALSE ELSE UNCHANGED <<shown, drawn>>
  /\ UNCHANGED lost /\ Rest

Lose ==
  /\ clicks # <<>> /\ Head(clicks) = 1 /\ lost < MaxLost
  /\ clicks' = Tail(clicks) /\ lost' = lost + 1
  /\ UNCHANGED <<shown, drawn>> /\ Rest

Draw ==
  /\ ~drawn /\ drawn' = TRUE
  /\ UNCHANGED <<shown, clicks, lost>> /\ Rest

-------------------------------------------------------------------------------
Rows == drawn /\ shown \in 1..Last        \* _canvas_rows finds any
CardShown == drawn /\ shown = Last + 1    \* _terminal_screen_signature

GoOn(next) ==
  /\ at' = next
  /\ UNCHANGED <<viewerVars, steps, nudged, retries, previous, same, taken, outcome, pastVars>>

Finished(how) ==
  /\ at' = "done" /\ outcome' = how
  /\ UNCHANGED <<viewerVars, steps, nudged, retries, previous, same, taken, pastVars>>

ClickBy(by) == clicks' = Append(clicks, by) /\ UNCHANGED <<shown, drawn, lost>>

\* One more click of the same wait.
ClickAgain ==
  /\ retries' = retries + 1 /\ ClickBy(1)
  /\ hasty' = (hasty \/ clicks # <<>> \/ ~drawn)
  /\ UNCHANGED <<at, steps, nudged, previous, same, taken, outcome, early>>

\* To go to the first spread that shows is to be content with this one.
SettleHere ==
  /\ at' = "ready" /\ early' = (clicks # <<>> \/ (~drawn /\ shown > 1))
  /\ UNCHANGED <<viewerVars, steps, nudged, retries, previous, same, taken, outcome, hasty>>

\* initialize looks once: without canvases there is nothing to rewind.
Look ==
  /\ at = "look"
  /\ IF Rows /\ shown > 1 THEN GoOn("rewind") ELSE SettleHere

\* _rewind_to_first_content: one step back, then a wait of 150 ms.
Rewind ==
  /\ at = "rewind"
  /\ IF steps = RewindSteps \/ ~Rows \/ shown <= 1
     THEN SettleHere
     ELSE /\ at' = "rewound" /\ steps' = steps + 1 /\ previous' = shown
          /\ ClickBy(-1)
          /\ UNCHANGED <<nudged, retries, same, taken, outcome, pastVars>>

\* No canvases yet, or still the same ones: the way back is over.
Rewound ==
  /\ at = "rewound"
  /\ IF Rows /\ shown # previous THEN GoOn("rewind") ELSE SettleHere

\* _recover_first_content_from_prefix: one click forward and no other.
Nudge ==
  /\ at = "ready" /\ taken = <<>> /\ drawn /\ shown = 0 /\ ~nudged
  /\ nudged' = TRUE /\ ClickBy(1)
  /\ UNCHANGED <<at, steps, retries, previous, same, taken, outcome, pastVars>>

\* _wait_for_render_ready: the same canvases several times over.
Ready ==
  /\ at = "ready" /\ (Rows \/ (taken # <<>> /\ CardShown))
  /\ GoOn("detect")

NeverReady ==
  /\ at = "ready" /\ ~Rows /\ (taken = <<>> \/ ~CardShown)
  /\ Finished("failed")

\* detect_state, and the identity of what it found.
Detect ==
  /\ at = "detect"
  /\ \/ /\ Rows
        /\ at' = "capture" /\ previous' = shown
        /\ UNCHANGED <<viewerVars, steps, nudged, retries, same, taken, outcome, pastVars>>
     \/ CardShown /\ Finished("end")
     \/ ~Rows /\ ~CardShown /\ Finished("failed")

\* capture_page looks for the canvases again.  What was saved before under this
\* identity is not saved twice: the runner waits for another page.
Capture ==
  /\ at = "capture"
  /\ \/ /\ Rows
        /\ LET it == [as |-> previous, shows |-> shown]
               known == \E i \in 1..Len(taken) : taken[i] = it
           IN \/ /\ ~known
                 /\ at' = "next" /\ taken' = Append(taken, it) /\ same' = 0
                 /\ UNCHANGED <<viewerVars, steps, nudged, retries, previous, outcome, pastVars>>
              \/ /\ known /\ same + 1 < MaxSame
                 /\ at' = "wait" /\ same' = same + 1 /\ retries' = 0
                 /\ UNCHANGED <<viewerVars, steps, nudged, previous, taken, outcome, pastVars>>
              \/ known /\ same + 1 >= MaxSame /\ Finished("failed")
     \/ ~Rows /\ Finished("failed")

GoNext ==
  /\ at = "next"
  /\ at' = "wait" /\ retries' = 0
  /\ clicks' = Append(clicks, 1) /\ lost' = 0
  /\ UNCHANGED <<shown, drawn, steps, nudged, previous, same, taken, outcome, pastVars>>

\* wait_for_change: other canvases, which are then waited for, or the card.
Changed ==
  /\ at = "wait"
  /\ \/ Rows /\ shown # previous /\ GoOn("ready")
     \/ CardShown /\ GoOn("detect")

WrongRetry ==
  /\ at = "wait" /\ retries < Retries
  /\ ~CardShown
  /\ ClickAgain

\* A part of its time is over and nothing has changed: the click is repeated,
\* whether the one before was lost or is still to be handled.
Retry ==
  /\ at = "wait" /\ retries < Retries
  /\ ~CardShown /\ ~(Rows /\ shown # previous)
  /\ ClickAgain

TimeOut ==
  /\ at = "wait" /\ retries = Retries
  /\ ~CardShown /\ ~(Rows /\ shown # previous)
  /\ Finished("failed")

Adapter ==
  \/ Look \/ Rewind \/ Rewound \/ Nudge \/ Ready \/ NeverReady
  \/ Detect \/ Capture \/ GoNext \/ Changed \/ Retry \/ TimeOut

Viewer == Handle \/ Draw \/ Lose

ViewNext == Adapter \/ Viewer

ViewSpec == ViewInit /\ [][ViewNext]_viewVars

-------------------------------------------------------------------------------
\* An episode that was captured to its end was captured whole: each spread once
\* and in order (docs/SPEC.md:618-620).  A viewer that is slow refutes this.
WholeEpisode ==
  outcome = "end" => [i \in 1..Len(taken) |-> taken[i].shows] = [spread \in 1..Last |-> spread]

\* No saved position is farther from the first spread than the rewind goes.
InReach == \A spread \in Saved : spread <= RewindSteps + 1

\* A slow viewer does harm only where the adapter did not wait for it.  Unless
\* initialize left the way back too early, the pages are saved in order and none
\* under a name that is given already, however many clicks the viewer has still
\* to handle; and unless besides wait_for_change repeated a click that was still
\* to be handled or drawn, an episode with an end is whole, whichever clicks were
\* lost and repeated and wherever the viewer opened.
OnlyRushedIsLost ==
  ~early =>
    /\ \A i, j \in 1..Len(taken) : i < j =>
         taken[i].as < taken[j].as /\ taken[i].shows <= taken[j].shows
    /\ InReach /\ ~hasty => WholeEpisode
===============================================================================
