----------------------------- MODULE ReadingProofs -----------------------------
(***************************************************************************)
(* How an episode is entered and read.                                     *)
(*                                                                         *)
(* An entry of comic-days.com keeps what the batch relies on, for every    *)
(* clock, recharge time and behaviour of the account's owner; so does one  *)
(* of younganimal.com or hanayume.com, for every order of its requests and *)
(* answers, and the times that these two report bracket the use. An        *)
(* episode of pocket.shonenmagazine.com that opens within the rewind's     *)
(* reach and is captured to its end is captured whole, unless a click was  *)
(* repeated, or the way back left, before the viewer had handled and drawn *)
(* what was asked of it: for every length of it, every place where it      *)
(* opens, every number of lost clicks and of repeats.                      *)
(***************************************************************************)
EXTENDS ComicDaysEntry, MagapokeViewer, DatedEntries, Sequences, SequenceTheorems, TLAPS

-------------------------------------------------------------------------------
\* The entry (ComicDaysEntry).

\* An open page means that the ticket went on this episode, at a time that is
\* past.
SiteFacts ==
  /\ page = "normal" => spent
  /\ spentAt <= now

\* Where the entry is tells whether it has acted, and whether it has reported.
EntryFacts ==
  /\ pc \in {"ticket", "dom", "control"} => ~acted
  /\ pc \in {"click", "poll", "pollDom"} => acted /\ ~report.consumed
  /\ pc = "entered" => acted /\ report.consumed
  /\ report.consumed => spent /\ report.at >= spentAt

\* The inductive invariant.
EntryInv == ComicTypeOK /\ SiteFacts /\ EntryFacts

-------------------------------------------------------------------------------
LEMMA InitEntryInv == ComicInit => EntryInv
<1> SUFFICES ASSUME ComicInit PROVE EntryInv
  OBVIOUS
<1>1. 0 \in 0..MaxTime /\ 0 \in Times /\ Recharge \in Times
  BY ComicDaysAssumption DEF Times
<1>2. chargedAt \in Times
  BY <1>1 DEF ComicInit
<1>3. ComicTypeOK
  BY <1>1, <1>2 DEF ComicInit, ComicTypeOK, Tickets
<1>4. SiteFacts
  BY <1>1 DEF ComicInit, SiteFacts
<1> QED
  BY <1>3, <1>4 DEF ComicInit, EntryInv, EntryFacts

\* A use of the ticket, on this episode or on another.
LEMMA UseKeepsFacts ==
  ASSUME ComicTypeOK, SiteFacts, NEW onThis \in BOOLEAN, Use(onThis), UNCHANGED <<now, page>>
  PROVE  /\ charged' \in BOOLEAN /\ chargedAt' \in Times
         /\ spent' \in BOOLEAN /\ spentAt' \in 0..MaxTime
         /\ spent => spent'
         /\ onThis => spent'
         /\ ~onThis => spent' = spent /\ spentAt' = spentAt
         /\ SiteFacts'
<1>1. now \in 0..MaxTime /\ spentAt \in 0..MaxTime /\ spent \in BOOLEAN
  BY DEF ComicTypeOK
<1>2. now + Recharge \in Times
  BY <1>1, ComicDaysAssumption DEF Times
<1>3. spentAt' \in 0..MaxTime /\ spentAt' <= now'
  BY <1>1, ComicDaysAssumption DEF Use, SiteFacts
<1>4. spent' \in BOOLEAN /\ (spent => spent') /\ (onThis => spent') /\ (~onThis => spent' = spent)
  BY <1>1 DEF Use
<1> QED
  BY <1>2, <1>3, <1>4 DEF Use, SiteFacts

\* The site alone: it never takes a use back and never dates it in the future.
LEMMA SiteEntryInv ==
  ASSUME EntryInv, Site PROVE EntryInv'
<1> USE ComicDaysAssumption DEF EntryInv, ComicTypeOK, SiteFacts, EntryFacts, Times, Tickets, entryVars
<1> UNCHANGED entryVars
  BY DEF Site
<1>1. CASE Land
  <2>1. CASE charged /\ ~spent /\ Use(TRUE)
    BY <1>1, <2>1, UseKeepsFacts DEF Land
  <2>2. CASE UNCHANGED <<charged, chargedAt, spent, spentAt>>
    <3>1. charged' = charged /\ chargedAt' = chargedAt /\ spent' = spent /\ spentAt' = spentAt
      BY <2>2
    <3>2. now' = now /\ page' = page /\ landed' = FALSE
      BY <1>1 DEF Land
    <3>3. ComicTypeOK'
      BY <3>1, <3>2
    <3>4. SiteFacts'
      BY <3>1, <3>2
    <3>5. EntryFacts'
      BY <3>1, <3>2
    <3> QED
      BY <3>3, <3>4, <3>5
  <2> QED
    BY <1>1, <2>1, <2>2 DEF Land
<1>2. CASE Elsewhere
  <2>1. PICK onThis \in BOOLEAN : Use(onThis)
    BY <1>2 DEF Elsewhere
  <2> QED
    BY <1>2, <2>1, UseKeepsFacts DEF Elsewhere
<1>3. CASE Tick
  BY <1>3 DEF Tick
<1>4. CASE Render
  BY <1>4 DEF Render
<1> QED
  BY <1>1, <1>2, <1>3, <1>4 DEF Site

LEMMA StepEntryInv ==
  ASSUME EntryInv, Entry PROVE EntryInv'
<1> USE ComicDaysAssumption DEF EntryInv, ComicTypeOK, SiteFacts, EntryFacts, Times, Tickets,
    Still, siteVars, End, Goto, Recover, ReadTicket
<1>1. CASE FirstTicket \/ NextTicket
  BY <1>1 DEF FirstTicket, NextTicket
<1>2. CASE Decide
  BY <1>2 DEF Decide, AccessMode
<1>3. CASE GiveUp
  BY <1>3 DEF GiveUp
<1>4. CASE Control
  BY <1>4 DEF Control
<1>5. CASE Click
  BY <1>5 DEF Click
<1>6. CASE Confirm
  BY <1>6 DEF Confirm, Positive, Report
<1>7. CASE PollAgain
  BY <1>7 DEF PollAgain
<1>8. ASSUME NEW how \in {"unconfirmed", "cancelled"}, PollEnds(how) PROVE EntryInv'
  BY <1>8 DEF PollEnds
<1>9. CASE EntryEnds
  BY <1>9 DEF EntryEnds
<1> QED
  BY <1>1, <1>2, <1>3, <1>4, <1>5, <1>6, <1>7, <1>8, <1>9 DEF Entry

LEMMA EntryInvariant == ComicSpec => []EntryInv
<1>1. EntryInv /\ UNCHANGED comicVars => EntryInv'
  BY DEF EntryInv, ComicTypeOK, SiteFacts, EntryFacts, comicVars, siteVars, entryVars
<1>2. EntryInv /\ [ComicNext]_comicVars => EntryInv'
  BY <1>1, SiteEntryInv, StepEntryInv DEF ComicNext
<1> QED
  BY <1>2, InitEntryInv, PTL DEF ComicSpec

\* The variables of the entry keep their types; a result is there exactly at its
\* end, and nothing is raised or reported before the click.
THEOREM ComicDaysTypeCorrect == ComicSpec => []ComicTypeOK
<1>1. EntryInv => ComicTypeOK
  BY DEF EntryInv
<1> QED
  BY <1>1, EntryInvariant, PTL

\* A report dates the use of the ticket no earlier than the site does, so the
\* work's cooldown never ends too early.
THEOREM ComicDaysCooldown == ComicSpec => []CooldownFromUse
<1>1. EntryInv => CooldownFromUse
  BY DEF EntryInv, EntryFacts, CooldownFromUse
<1> QED
  BY <1>1, EntryInvariant, PTL

-------------------------------------------------------------------------------
\* A step of the site is a use of the ticket, or nothing, to the batch.
LEMMA SiteSimulates ==
  ASSUME EntryInv, Site PROVE [Promise!Next]_(Promise!vars)
<1> USE DEF Promise!Next, Promise!vars, Promise!Spend, entryVars
<1> UNCHANGED entryVars
  BY DEF Site
<1>1. CASE Land
  BY <1>1 DEF Land, Use
<1>2. CASE Elsewhere
  <2>1. PICK onThis \in BOOLEAN : Use(onThis)
    BY <1>2 DEF Elsewhere
  <2>2. spent \in BOOLEAN
    BY DEF EntryInv, ComicTypeOK
  <2>3. CASE onThis = TRUE
    <3>1. spent' = (spent \/ TRUE)
      BY <2>1, <2>3 DEF Use
    <3>2. spent' = TRUE
      BY <3>1, <2>2
    <3> QED
      BY <3>2
  <2>4. CASE onThis = FALSE
    <3>1. spent' = (spent \/ FALSE)
      BY <2>1, <2>4 DEF Use
    <3>2. spent' = spent
      BY <3>1, <2>2
    <3> QED
      BY <3>2
  <2> QED
    BY <2>1, <2>3, <2>4
<1>3. CASE Tick \/ Render
  BY <1>3 DEF Tick, Render
<1> QED
  BY <1>1, <1>2, <1>3 DEF Site

\* A step of the entry acts once, reports a use that took place, ends with a
\* result that fits both, or is nothing to the batch.
LEMMA EntrySimulates ==
  ASSUME EntryInv, Entry PROVE [Promise!Next]_(Promise!vars)
<1> USE DEF EntryInv, ComicTypeOK, SiteFacts, EntryFacts, Still, siteVars, End, Goto, Recover, ReadTicket,
    Promise!Next, Promise!vars, Promise!Ends, Promise!End
<1>1. CASE FirstTicket \/ NextTicket
  BY <1>1 DEF FirstTicket, NextTicket
<1>2. CASE Decide
  BY <1>2 DEF Decide, AccessMode
<1>3. CASE GiveUp
  BY <1>3 DEF GiveUp
<1>4. CASE Control
  BY <1>4 DEF Control, Promise!Act
<1>5. CASE Click
  BY <1>5 DEF Click
<1>6. CASE Confirm
  BY <1>6 DEF Confirm, Positive, Report, Promise!Report
<1>7. CASE PollAgain
  BY <1>7 DEF PollAgain
<1>8. ASSUME NEW how \in {"unconfirmed", "cancelled"}, PollEnds(how)
      PROVE  [Promise!Next]_(Promise!vars)
  BY <1>8 DEF PollEnds
<1>9. CASE EntryEnds
  BY <1>9 DEF EntryEnds
<1> QED
  BY <1>1, <1>2, <1>3, <1>4, <1>5, <1>6, <1>7, <1>8, <1>9 DEF Entry

\* The entry implements TicketEntry: one click at most, a report only if the
\* ticket went on this episode, and an end that hides neither.
THEOREM ComicDaysKeepsPromise == ComicSpec => KeepsPromise
<1>1. ComicInit => Promise!Init
  BY DEF ComicInit, Promise!Init
<1>2. EntryInv /\ [ComicNext]_comicVars => [Promise!Next]_(Promise!vars)
  <2>1. EntryInv /\ UNCHANGED comicVars => UNCHANGED Promise!vars
    BY DEF comicVars, siteVars, entryVars, Promise!vars
  <2> QED
    BY <2>1, SiteSimulates, EntrySimulates DEF ComicNext
<1> QED
  BY <1>1, <1>2, EntryInvariant, PTL DEF ComicSpec, KeepsPromise, Promise!Spec

-------------------------------------------------------------------------------
\* The viewer (MagapokeViewer).

None == <<>>
Forth == <<1>>
Back == <<-1>>
ToTheFirst == {"look", "rewind", "rewound"}
Latest == taken[Len(taken)]

\* What holds besides of the types: an identity is read where one is used, and the
\* way back is left once.
Identified ==
  /\ at \in {"capture", "next", "wait"} => previous \in 1..Last
  /\ at \in ToTheFirst => ~early

\* Every click after the way back leads forward.
AllForth == \A i \in 1..Len(clicks) : clicks[i] = 1

\* Each capture is saved under a later identity than those before, and shows no
\* earlier spread.
Rising ==
  \A i, j \in 1..Len(taken) : i < j =>
    taken[i].as < taken[j].as /\ taken[i].shows <= taken[j].shows

\* As long as the way back is not left early, the viewer only goes on after it,
\* and an identity is never earlier than the one before.
Onward ==
  /\ at \in {"look", "rewind"} => clicks = None
  /\ at = "rewound" => clicks = None \/ (clicks = Back /\ shown = previous)
  /\ at \in ToTheFirst => taken = <<>>
  /\ at \notin ToTheFirst => AllForth
  /\ at \in {"capture", "next", "wait"} => previous <= shown
  /\ Rising
  /\ taken # <<>> => /\ Latest.shows <= shown /\ Latest.as <= previous
                     /\ at \in {"ready", "detect"} => Latest.as < shown
                     /\ at = "capture" => Latest.as < previous

\* Where besides no click is repeated in haste, at most one is ever under way, and
\* the spreads taken are the first ones.
Orderly ==
  /\ clicks \in {None, Forth, Back}
  /\ \A i \in 1..Len(taken) : taken[i] = [as |-> i, shows |-> i]

\* The way back ends before the steps do.
OnTheWayBack ==
  /\ at = "look" => clicks = None /\ shown \in Saved /\ steps = 0
  /\ at = "rewind" => clicks = None /\ drawn /\ shown \in 1..Last /\ shown - 1 + steps <= RewindSteps
  /\ at = "rewound" => /\ previous \in 2..Last /\ previous - 2 + steps <= RewindSteps
                       /\ \/ clicks = Back /\ drawn /\ shown = previous
                          \/ clicks = None /\ shown = previous - 1
  /\ at \in ToTheFirst => taken = <<>> /\ ~nudged

\* Before the first spread is taken the viewer shows it or the one before; from
\* then on it shows the last one taken or its successor.
OnTheWayForth ==
  /\ at = "ready" /\ taken = <<>> =>
       \/ clicks = None /\ shown \in {0, 1}
       \/ clicks = Forth /\ shown = 0 /\ nudged
  /\ at = "ready" /\ taken # <<>> => clicks = None /\ shown = Len(taken) + 1
  /\ at = "detect" => clicks = None /\ shown = Len(taken) + 1
  /\ at = "capture" => clicks = None /\ shown = Len(taken) + 1 /\ previous = shown
  /\ at = "next" => clicks = None /\ shown = Len(taken) /\ previous = Len(taken)
  /\ at = "wait" => /\ previous = Len(taken)
                    /\ \/ clicks = Forth /\ shown = previous
                       \/ clicks = None /\ shown \in {previous, previous + 1}
  /\ outcome = "end" => Len(taken) = Last

OneAtATime == Orderly /\ OnTheWayBack /\ OnTheWayForth

\* The inductive invariant.
ViewerTyped == ViewTypeOK /\ Identified
ViewerInv ==
  /\ ViewerTyped
  /\ ~early => Onward
  /\ InReach /\ ~early /\ ~hasty => OneAtATime

-------------------------------------------------------------------------------
\* What is needed of sequences of at most one click.
LEMMA OneClick ==
  /\ None \in Seq({-1, 1}) /\ Forth \in Seq({-1, 1}) /\ Back \in Seq({-1, 1})
  /\ Len(None) = 0 /\ Len(Forth) = 1 /\ Len(Back) = 1
  /\ Forth # None /\ Back # None /\ Forth # Back
  /\ Head(Forth) = 1 /\ Head(Back) = -1
  /\ Tail(Forth) = None /\ Tail(Back) = None
  /\ Append(None, 1) = Forth /\ Append(None, -1) = Back
BY DEF None, Forth, Back

\* And of those that lead forward.
LEMMA MoreClicks ==
  ASSUME ViewTypeOK
  PROVE  /\ \A by \in {-1, 1} : Append(clicks, by) \in Seq({-1, 1})
         /\ AllForth => \A i \in 1..Len(Append(clicks, 1)) : Append(clicks, 1)[i] = 1
         /\ clicks # <<>> => /\ Head(clicks) \in {-1, 1} /\ Tail(clicks) \in Seq({-1, 1})
                             /\ AllForth => /\ Head(clicks) = 1
                                            /\ \A i \in 1..Len(Tail(clicks)) : Tail(clicks)[i] = 1
<1>1. clicks \in Seq({-1, 1}) /\ Len(clicks) \in Nat
  BY LenProperties DEF ViewTypeOK
<1>2. /\ \A by \in {-1, 1} : Append(clicks, by) \in Seq({-1, 1})
      /\ Len(Append(clicks, 1)) = Len(clicks) + 1
      /\ \A i \in 1..Len(clicks) : Append(clicks, 1)[i] = clicks[i]
      /\ Append(clicks, 1)[Len(clicks) + 1] = 1
  BY <1>1, AppendProperties
<1>3. AllForth => \A i \in 1..Len(Append(clicks, 1)) : Append(clicks, 1)[i] = 1
  BY <1>1, <1>2 DEF AllForth
<1>4. ASSUME clicks # <<>>
      PROVE  /\ Head(clicks) \in {-1, 1} /\ Tail(clicks) \in Seq({-1, 1})
             /\ AllForth => /\ Head(clicks) = 1
                            /\ \A i \in 1..Len(Tail(clicks)) : Tail(clicks)[i] = 1
  <2>1. /\ Head(clicks) \in {-1, 1} /\ Tail(clicks) \in Seq({-1, 1})
        /\ Len(Tail(clicks)) = Len(clicks) - 1 /\ Len(clicks) > 0
        /\ Head(clicks) = clicks[1]
        /\ \A i \in 1..Len(Tail(clicks)) : Tail(clicks)[i] = clicks[i + 1]
    BY <1>1, <1>4, HeadTailProperties, EmptySeq
  <2> QED
    BY <1>1, <2>1 DEF AllForth
<1> QED
  BY <1>2, <1>3, <1>4

\* One more spread is taken, under the identity read last.
LEMMA OneMore ==
  ASSUME ViewTypeOK, NEW it \in [as : 1..Last, shows : 1..Last]
  PROVE  /\ Append(taken, it) \in Seq([as : 1..Last, shows : 1..Last])
         /\ Append(taken, it) # <<>>
         /\ Len(taken) \in Nat /\ Len(Append(taken, it)) = Len(taken) + 1
         /\ \A i \in 1..Len(taken) : Append(taken, it)[i] = taken[i]
         /\ Append(taken, it)[Len(taken) + 1] = it
         /\ \A i \in 1..Len(taken) : taken[i].as \in 1..Last /\ taken[i].shows \in 1..Last
         /\ taken # <<>> => Len(taken) \in 1..Len(taken)
<1>1. taken \in Seq([as : 1..Last, shows : 1..Last]) /\ Len(taken) \in Nat
  BY LenProperties DEF ViewTypeOK
<1>2. taken # <<>> => Len(taken) > 0
  BY <1>1, EmptySeq
<1>3. \A i \in 1..Len(taken) : taken[i].as \in 1..Last /\ taken[i].shows \in 1..Last
  <2> SUFFICES ASSUME NEW i \in 1..Len(taken)
               PROVE  taken[i].as \in 1..Last /\ taken[i].shows \in 1..Last
    OBVIOUS
  <2>1. taken[i] \in [as : 1..Last, shows : 1..Last]
    BY <1>1, ElementOfSeq
  <2> QED
    BY <2>1
<1>4. /\ Append(taken, it) \in Seq([as : 1..Last, shows : 1..Last])
      /\ Append(taken, it) # <<>>
      /\ Len(Append(taken, it)) = Len(taken) + 1
      /\ \A i \in 1..Len(taken) : Append(taken, it)[i] = taken[i]
      /\ Append(taken, it)[Len(taken) + 1] = it
  BY <1>1, AppendProperties
<1>5. taken # <<>> => Len(taken) \in 1..Len(taken)
  BY <1>1, <1>2
<1> QED
  BY <1>1, <1>3, <1>4, <1>5

LEMMA InitViewerInv == ASSUME ViewInit PROVE ViewerInv
<1> USE ViewerAssumption
<1>1. taken \in Seq([as : 1..Last, shows : 1..Last]) /\ Len(taken) = 0 /\ taken = <<>>
  BY DEF ViewInit
<1>2. clicks \in Seq({-1, 1}) /\ clicks = None /\ shown \in 0..Last /\ at = "look"
  BY OneClick DEF ViewInit, None
<1>3. ViewerTyped
  <2>1. lost = 0 /\ steps = 0 /\ retries = 0 /\ previous = 0 /\ same = 0
    BY DEF ViewInit
  <2>2. /\ lost \in 0..MaxLost /\ steps \in 0..RewindSteps /\ retries \in 0..Retries
        /\ previous \in 0..Last /\ same \in 0..MaxSame /\ shown \in 0..(Last + 1)
    BY <1>2, <2>1
  <2>3. /\ drawn \in BOOLEAN /\ nudged \in BOOLEAN /\ early \in BOOLEAN /\ hasty \in BOOLEAN
        /\ outcome = "none"
    BY DEF ViewInit
  <2> QED
    BY <1>1, <1>2, <2>2, <2>3 DEF ViewInit, ViewerTyped, ViewTypeOK, Identified
<1>4. Onward
  BY <1>1, <1>2 DEF Onward, Rising, ToTheFirst
<1>5. OneAtATime
  <2>1. Orderly
    BY <1>1, <1>2 DEF Orderly
  <2>2. OnTheWayBack /\ OnTheWayForth
    BY <1>1, <1>2 DEF ViewInit, OnTheWayBack, OnTheWayForth, ToTheFirst
  <2> QED
    BY <2>1, <2>2 DEF OneAtATime
<1> QED
  BY <1>3, <1>4, <1>5 DEF ViewerInv

\* What every step keeps of the types.
LEMMA TypedStep == ASSUME ViewerTyped, ViewNext PROVE ViewerTyped'
<1> USE ViewerAssumption DEF ViewerTyped
<1>0. /\ \A by \in {-1, 1} : Append(clicks, by) \in Seq({-1, 1})
      /\ clicks # <<>> => Head(clicks) \in {-1, 1} /\ Tail(clicks) \in Seq({-1, 1})
  BY MoreClicks
<1> USE DEF GoOn, Finished, viewerVars, pastVars, Rows, CardShown
<1>1. CASE Viewer
  <2> USE DEF Rest
  <2>1. CASE Handle
    <3>1. shown' \in 0..(Last + 1) /\ drawn' \in BOOLEAN /\ clicks' \in Seq({-1, 1})
      BY <1>0, <2>1 DEF Handle, ViewTypeOK
    <3>2. UNCHANGED <<lost, at, steps, nudged, retries, previous, same, taken, outcome, early, hasty>>
      BY <2>1 DEF Handle
    <3> QED
      BY <3>1, <3>2 DEF ViewTypeOK, Identified
  <2>2. CASE Draw
    BY <2>2 DEF Draw, ViewTypeOK, Identified
  <2>3. CASE Lose
    <3>1. lost' \in 0..MaxLost /\ clicks' \in Seq({-1, 1})
      BY <1>0, <2>3 DEF Lose, ViewTypeOK
    <3> QED
      BY <2>3, <3>1 DEF Lose, ViewTypeOK, Identified
  <2> QED
    BY <1>1, <2>1, <2>2, <2>3 DEF Viewer
<1>2. ASSUME SettleHere, at # "done" PROVE ViewerTyped'
  <2>1. early' \in BOOLEAN
    BY <1>2 DEF SettleHere
  <2> QED
    BY <1>2, <2>1 DEF SettleHere, ViewTypeOK, Identified, ToTheFirst
<1>3. CASE Look
  BY <1>2, <1>3 DEF Look, ViewTypeOK, Identified, ToTheFirst
<1>4. CASE Rewind
  <2>1. CASE steps = RewindSteps \/ ~Rows \/ shown <= 1
    BY <1>2, <1>4, <2>1 DEF Rewind
  <2>2. CASE ~(steps = RewindSteps \/ ~Rows \/ shown <= 1)
    <3>1. /\ at = "rewind" /\ at' = "rewound" /\ steps' \in 0..RewindSteps /\ previous' \in 0..Last
          /\ clicks' \in Seq({-1, 1})
          /\ UNCHANGED <<shown, drawn, lost, nudged, retries, same, taken, outcome, early, hasty>>
      <4>1. /\ at = "rewind" /\ at' = "rewound" /\ steps' = steps + 1 /\ previous' = shown
            /\ clicks' = Append(clicks, -1) /\ steps # RewindSteps /\ drawn /\ shown \in 1..Last
            /\ UNCHANGED <<shown, drawn, lost, nudged, retries, same, taken, outcome, early, hasty>>
        BY <1>4, <2>2 DEF Rewind, ClickBy, Rows, pastVars
      <4>2. steps + 1 \in 0..RewindSteps /\ shown \in 0..Last
        BY <1>0, <4>1, ViewerAssumption DEF ViewerTyped, ViewTypeOK
      <4>3. Append(clicks, -1) \in Seq({-1, 1})
        BY <1>0 DEF ViewerTyped, ViewTypeOK
      <4> QED
        BY <4>1, <4>2, <4>3
    <3> QED
      BY <3>1 DEF ViewTypeOK, Identified, ToTheFirst
  <2> QED
    BY <2>1, <2>2
<1>5. CASE Rewound
  BY <1>2, <1>5 DEF Rewound, ViewTypeOK, Identified, ToTheFirst
<1>6. CASE Nudge
  BY <1>0, <1>6 DEF Nudge, ClickBy, ViewTypeOK, Identified, ToTheFirst
<1>7. CASE Ready \/ NeverReady \/ Changed \/ TimeOut
  BY <1>7 DEF Ready, NeverReady, Changed, TimeOut, ViewTypeOK, Identified, ToTheFirst
<1>8. CASE Detect
  BY <1>8 DEF Detect, ViewTypeOK, Identified, ToTheFirst
<1>9. CASE Capture
  <2> DEFINE it == [as |-> previous, shows |-> shown]
  <2>1. CASE at' = "next" /\ taken' = Append(taken, it) /\ same' = 0 /\ Rows
             /\ UNCHANGED <<viewerVars, steps, nudged, retries, previous, outcome, pastVars>>
    <3>1. at = "capture" /\ it \in [as : 1..Last, shows : 1..Last]
      BY <1>9, <2>1 DEF Capture, Identified
    <3>2. taken' \in Seq([as : 1..Last, shows : 1..Last])
      BY <2>1, <3>1, OneMore
    <3> QED
      BY <2>1, <3>1, <3>2 DEF ViewTypeOK, Identified, ToTheFirst
  <2>2. CASE same + 1 < MaxSame /\ at' = "wait" /\ same' = same + 1 /\ retries' = 0
             /\ UNCHANGED <<viewerVars, steps, nudged, previous, taken, outcome, pastVars>>
    BY <1>9, <2>2 DEF Capture, ViewTypeOK, Identified, ToTheFirst
  <2>3. CASE Finished("failed")
    BY <1>9, <2>3 DEF Capture, ViewTypeOK, Identified, ToTheFirst
  <2> QED
    BY <1>9, <2>1, <2>2, <2>3 DEF Capture
<1>10. CASE GoNext
  BY <1>0, <1>10 DEF GoNext, ViewTypeOK, Identified, ToTheFirst
<1>11. CASE Retry
  <2>1. hasty' \in BOOLEAN /\ retries' \in 0..Retries /\ clicks' \in Seq({-1, 1})
    BY <1>0, <1>11 DEF Retry, ClickAgain, ClickBy, ViewTypeOK
  <2> QED
    BY <1>11, <2>1 DEF Retry, ClickAgain, ClickBy, ViewTypeOK, Identified, ToTheFirst
<1> QED
  BY <1>1, <1>3, <1>4, <1>5, <1>6, <1>7, <1>8, <1>9, <1>10, <1>11 DEF ViewNext, Adapter

\* The step after the way back: nothing is under way, and what is in view is drawn
\* unless it is the first spread or the one before.
LEMMA Settled ==
  ASSUME ViewerTyped, SettleHere, at \in ToTheFirst, ~early'
  PROVE  /\ clicks = None /\ (drawn \/ shown <= 1) /\ at' = "ready"
         /\ UNCHANGED <<viewerVars, steps, nudged, retries, previous, same, taken, outcome, hasty>>
<1>1. /\ ~(clicks # <<>> \/ (~drawn /\ shown > 1)) /\ at' = "ready"
      /\ UNCHANGED <<viewerVars, steps, nudged, retries, previous, same, taken, outcome, hasty>>
  BY DEF SettleHere
<1>2. clicks = None
  BY <1>1 DEF None
<1>3. drawn \/ shown <= 1
  BY <1>1, ViewerAssumption DEF ViewerTyped, ViewTypeOK
<1> QED
  BY <1>1, <1>2, <1>3

\* As long as the way back is not left early: nothing but the way back leads back.
LEMMA OnwardStep ==
  ASSUME ViewerTyped, Onward, ViewNext, ~early' PROVE Onward'
<1> USE ViewerAssumption, OneClick
<1>0. /\ AllForth => \A i \in 1..Len(Append(clicks, 1)) : Append(clicks, 1)[i] = 1
      /\ clicks # <<>> /\ AllForth => /\ Head(clicks) = 1
                                      /\ \A i \in 1..Len(Tail(clicks)) : Tail(clicks)[i] = 1
  BY MoreClicks DEF ViewerTyped
<1>a. /\ previous \in 0..Last /\ shown \in 0..(Last + 1)
      /\ taken # <<>> => Latest.as \in 1..Last /\ Latest.shows \in 1..Last
  <2>1. 1 \in 1..Last
    OBVIOUS
  <2>2. [as |-> 1, shows |-> 1] \in [as : 1..Last, shows : 1..Last]
    BY <2>1
  <2> QED
    BY <2>2, OneMore DEF ViewerTyped, ViewTypeOK, Latest
<1>b. None = <<>> /\ AllForth' = \A i \in 1..Len(clicks') : clicks'[i] = 1
  BY DEF None, AllForth
<1>c. clicks = None => AllForth
  BY <1>b DEF AllForth
<1> USE DEF ToTheFirst
<1>1. CASE Handle
  <2>1. UNCHANGED <<at, previous, taken>> /\ clicks # None /\ clicks' = Tail(clicks)
    BY <1>1, <1>b DEF Handle, Rest
  <2>2. CASE at \in ToTheFirst
    <3>1. at = "rewound" /\ clicks = Back /\ taken = <<>>
      BY <2>1, <2>2 DEF Onward
    <3> QED
      BY <2>1, <3>1 DEF Onward, Rising
  <2>3. CASE at \notin ToTheFirst
    <3>1. Head(clicks) = 1 /\ AllForth'
      BY <1>0, <1>b, <2>1, <2>3 DEF Onward
    <3>2. shown' >= shown
      BY <1>1, <1>a, <3>1 DEF Handle
    <3>3. shown' \in Int /\ Latest' = Latest /\ Rising' = Rising
      BY <1>1, <1>a, <2>1, <3>1 DEF Handle, Latest, Rising
    <3> QED
      BY <1>a, <2>1, <2>3, <3>1, <3>2, <3>3 DEF Onward
  <2> QED
    BY <2>2, <2>3
<1>2. CASE Draw
  <2>1. UNCHANGED <<at, previous, taken, clicks, shown>>
    BY <1>2 DEF Draw, Rest
  <2> QED
    BY <2>1 DEF Onward, Rising, Latest, AllForth
<1>3. CASE Lose
  <2>1. UNCHANGED <<at, previous, taken, shown>> /\ clicks # None /\ clicks' = Tail(clicks)
        /\ Head(clicks) = 1
    BY <1>3, <1>b DEF Lose, Rest
  <2>2. at \notin ToTheFirst
    BY <2>1 DEF Onward
  <2>3. AllForth'
    BY <1>0, <1>b, <2>1, <2>2 DEF Onward
  <2>4. Latest' = Latest /\ Rising' = Rising
    BY <2>1 DEF Latest, Rising
  <2> QED
    BY <2>1, <2>2, <2>3, <2>4 DEF Onward
<1>4. ASSUME SettleHere, at \in ToTheFirst PROVE Onward'
  <2>1. clicks' = None /\ taken' = <<>> /\ at' = "ready"
    BY <1>4, Settled DEF viewerVars, Onward
  <2>2. AllForth' /\ Rising'
    BY <1>b, <2>1 DEF Rising
  <2> QED
    BY <2>1, <2>2 DEF Onward
<1>5. CASE Look
  <2>1. CASE SettleHere
    BY <1>4, <1>5, <2>1 DEF Look
  <2>2. CASE GoOn("rewind")
    BY <1>5, <2>2 DEF Look, GoOn, viewerVars, Onward, Rising
  <2> QED
    BY <1>5, <2>1, <2>2 DEF Look
<1>6. CASE Rewind
  <2>1. CASE SettleHere
    BY <1>4, <1>6, <2>1 DEF Rewind
  <2>2. CASE ~SettleHere
    <3>1. /\ at = "rewind" /\ at' = "rewound" /\ previous' = shown /\ clicks' = Append(clicks, -1)
          /\ shown' = shown /\ taken' = taken
      BY <1>6, <2>2 DEF Rewind, ClickBy
    <3>2. clicks' = Back /\ taken' = <<>>
      BY <3>1 DEF Onward
    <3> QED
      BY <3>1, <3>2 DEF Onward, Rising
  <2> QED
    BY <2>1, <2>2
<1>7. CASE Rewound
  <2>1. CASE SettleHere
    BY <1>4, <1>7, <2>1 DEF Rewound
  <2>2. CASE ~SettleHere
    <3>1. at = "rewound" /\ at' = "rewind" /\ shown # previous /\ UNCHANGED <<clicks, taken>>
      BY <1>7, <2>2 DEF Rewound, GoOn, viewerVars
    <3>2. clicks' = None /\ taken' = <<>>
      BY <3>1 DEF Onward
    <3> QED
      BY <3>1, <3>2 DEF Onward, Rising
  <2> QED
    BY <2>1, <2>2
<1>8. CASE Nudge
  <2>1. at = "ready" /\ taken = <<>> /\ UNCHANGED <<at, taken>> /\ clicks' = Append(clicks, 1)
    BY <1>8 DEF Nudge, ClickBy
  <2>2. AllForth' /\ Rising'
    BY <1>0, <1>b, <2>1 DEF Onward, Rising
  <2> QED
    BY <2>1, <2>2 DEF Onward
<1>9. CASE Ready
  <2>1. at = "ready" /\ at' = "detect" /\ UNCHANGED <<clicks, shown, previous, taken>>
    BY <1>9 DEF Ready, GoOn, viewerVars
  <2> QED
    BY <2>1 DEF Onward, Rising, Latest, AllForth
<1>10. ASSUME NEW how, Finished(how), at \notin ToTheFirst PROVE Onward'
  <2>1. at' = "done" /\ UNCHANGED <<clicks, shown, previous, taken>>
    BY <1>10 DEF Finished, viewerVars
  <2> QED
    BY <1>10, <2>1 DEF Onward, Rising, Latest, AllForth
<1>11. CASE NeverReady
  BY <1>10, <1>11 DEF NeverReady
<1>12. CASE Detect
  <2>1. CASE \E how \in {"end", "failed"} : Finished(how)
    BY <1>10, <1>12, <2>1 DEF Detect
  <2>2. CASE ~\E how \in {"end", "failed"} : Finished(how)
    <3>1. /\ at = "detect" /\ at' = "capture" /\ previous' = shown
          /\ UNCHANGED <<clicks, shown, taken>>
      BY <1>12, <2>2 DEF Detect, viewerVars
    <3>2. AllForth' /\ Rising' /\ Latest' = Latest
      BY <3>1 DEF Onward, Rising, Latest, AllForth
    <3> QED
      BY <1>a, <3>1, <3>2 DEF Onward
  <2> QED
    BY <2>1, <2>2
<1>13. CASE Capture
  <2> DEFINE it == [as |-> previous, shows |-> shown]
  <2>0. at = "capture" /\ previous \in 1..Last /\ previous <= shown /\ AllForth /\ Rising
        /\ (taken # <<>> => Latest.shows <= shown /\ Latest.as < previous)
    BY <1>13 DEF Capture, Onward, ViewerTyped, Identified
  <2>1. CASE Finished("failed")
    BY <1>10, <2>0, <2>1
  <2>2. CASE ~Finished("failed")
    <3>1. Rows /\ it \in [as : 1..Last, shows : 1..Last]
      BY <1>13, <2>0, <2>2 DEF Capture, Rows
    <3>2. /\ Len(taken) \in Nat
          /\ taken # <<>> => Len(taken) \in 1..Len(taken)
          /\ \A i \in 1..Len(taken) : taken[i].as \in 1..Last /\ taken[i].shows \in 1..Last
      BY <3>1, OneMore DEF ViewerTyped
    <3>3. \A i \in 1..Len(taken) : taken[i].as < previous /\ taken[i].shows <= shown
      <4> SUFFICES ASSUME NEW i \in 1..Len(taken)
                   PROVE  taken[i].as < previous /\ taken[i].shows <= shown
        OBVIOUS
      <4>1. taken # <<>>
        BY OneClick DEF None
      <4>2. CASE i = Len(taken)
        BY <2>0, <4>1, <4>2 DEF Latest
      <4>3. CASE i # Len(taken)
        <5>1. i < Len(taken) /\ Len(taken) \in 1..Len(taken)
          BY <3>2, <4>1, <4>3
        <5>2. taken[i].as < Latest.as /\ taken[i].shows <= Latest.shows
          BY <2>0, <5>1 DEF Rising, Latest
        <5> QED
          BY <1>a, <2>0, <3>2, <4>1, <5>2
      <4> QED
        BY <4>2, <4>3
    <3>4. ~\E i \in 1..Len(taken) : taken[i] = it
      BY <1>a, <3>2, <3>3
    <3>5. at' = "next" /\ taken' = Append(taken, it) /\ UNCHANGED <<clicks, shown, previous>>
      BY <1>13, <2>2, <3>1, <3>4 DEF Capture, viewerVars
    <3>6. /\ taken' # <<>> /\ Len(taken') = Len(taken) + 1
          /\ \A i \in 1..Len(taken) : taken'[i] = taken[i]
          /\ taken'[Len(taken) + 1] = it
      BY <3>1, <3>5, OneMore DEF ViewerTyped
    <3>7. Rising'
      <4> SUFFICES ASSUME NEW i \in 1..Len(taken'), NEW j \in 1..Len(taken'), i < j
                   PROVE  taken'[i].as < taken'[j].as /\ taken'[i].shows <= taken'[j].shows
        BY DEF Rising
      <4>1. i \in 1..Len(taken) /\ taken'[i] = taken[i]
        BY <3>2, <3>6
      <4>2. CASE j \in 1..Len(taken)
        BY <2>0, <3>6, <4>1, <4>2 DEF Rising
      <4>3. CASE j = Len(taken) + 1
        BY <3>3, <3>6, <4>1, <4>3
      <4> QED
        BY <3>2, <3>6, <4>2, <4>3
    <3>8. Latest' = it
      BY <3>6 DEF Latest
    <3> QED
      BY <1>a, <2>0, <3>5, <3>7, <3>8 DEF Onward, AllForth
  <2> QED
    BY <2>1, <2>2
<1>14. CASE GoNext
  <2>1. at = "next" /\ at' = "wait" /\ clicks' = Append(clicks, 1) /\ UNCHANGED <<shown, previous, taken>>
    BY <1>14 DEF GoNext
  <2>2. AllForth' /\ Rising' /\ Latest' = Latest
    BY <1>0, <1>b, <2>1 DEF Onward, Rising, Latest
  <2> QED
    BY <2>1, <2>2 DEF Onward
<1>15. CASE Changed
  <2>1. /\ at = "wait" /\ at' \in {"ready", "detect"} /\ UNCHANGED <<clicks, shown, previous, taken>>
        /\ shown # previous
    BY <1>15 DEF Changed, GoOn, viewerVars, CardShown, ViewerTyped, ViewTypeOK
  <2>2. AllForth' /\ Rising' /\ Latest' = Latest
    BY <2>1 DEF Onward, Rising, Latest, AllForth
  <2> QED
    BY <1>a, <2>1, <2>2 DEF Onward
<1>16. CASE Retry
  <2>1. at = "wait" /\ clicks' = Append(clicks, 1) /\ UNCHANGED <<at, shown, previous, taken>>
    BY <1>16 DEF Retry, ClickAgain, ClickBy
  <2>2. AllForth' /\ Rising' /\ Latest' = Latest
    BY <1>0, <1>b, <2>1 DEF Onward, Rising, Latest
  <2> QED
    BY <2>1, <2>2 DEF Onward
<1>17. CASE TimeOut
  BY <1>10, <1>17 DEF TimeOut
<1> QED
  BY <1>1, <1>2, <1>3, <1>5, <1>6, <1>7, <1>8, <1>9, <1>11, <1>12, <1>13, <1>14, <1>15, <1>16,
     <1>17 DEF ViewNext, Adapter, Viewer

\* The viewer: the click under way takes it one spread on, or is lost.
LEMMA OrderlyOutside ==
  ASSUME ViewerTyped, OneAtATime, Viewer PROVE OneAtATime'
<1> USE ViewerAssumption, OneClick DEF OneAtATime, Rest, ToTheFirst
<1>0. shown \in 0..(Last + 1) /\ (at = "wait" => previous \in 1..Last) /\ Len(taken) \in Nat
  BY LenProperties DEF ViewerTyped, ViewTypeOK, Identified
<1>1. CASE Handle
  <2>1. /\ clicks \in {Forth, Back} /\ clicks' = Tail(clicks)
        /\ UNCHANGED <<at, steps, nudged, previous, taken, outcome>>
    BY <1>1 DEF Handle, Orderly, None
  <2>2. IF shown + Head(clicks) \in 0..(Last + 1) THEN shown' = shown + Head(clicks) ELSE shown' = shown
    BY <1>1 DEF Handle
  <2>3. /\ clicks' = None
        /\ \/ clicks = Forth /\ shown' \in {shown, shown + 1} /\ (shown <= Last => shown' = shown + 1)
           \/ clicks = Back /\ shown' \in {shown, shown - 1} /\ (shown >= 1 => shown' = shown - 1)
        /\ shown' \in 0..(Last + 1)
    <3>1. CASE clicks = Forth
      BY <1>0, <2>1, <2>2, <3>1
    <3>2. CASE clicks = Back
      BY <1>0, <2>1, <2>2, <3>2
    <3> QED
      BY <2>1, <3>1, <3>2
  <2>4. Orderly'
    BY <2>1, <2>3 DEF Orderly
  <2>5. OnTheWayBack'
    <3>1. at \notin {"look", "rewind"}
      BY <2>3 DEF OnTheWayBack
    <3>2. at = "rewound" => clicks = Back /\ shown = previous /\ previous \in 2..Last
      BY <2>3 DEF OnTheWayBack
    <3>3. at = "rewound" => shown' = previous - 1
      BY <2>3, <3>2
    <3> QED
      BY <2>1, <2>3, <3>1, <3>3 DEF OnTheWayBack
  <2>6. OnTheWayForth'
    BY <1>0, <2>1, <2>3 DEF OnTheWayForth
  <2> QED
    BY <2>4, <2>5, <2>6
<1>2. CASE Draw
  BY <1>2 DEF Draw, Orderly, OnTheWayBack, OnTheWayForth
<1>3. CASE Lose
  <2>1. clicks = Forth /\ clicks' = None
        /\ UNCHANGED <<at, shown, drawn, steps, nudged, previous, taken, outcome>>
    BY <1>3 DEF Lose, Orderly, None
  <2> QED
    BY <2>1 DEF Orderly, OnTheWayBack, OnTheWayForth
<1> QED
  BY <1>1, <1>2, <1>3 DEF Viewer

\* The steps back to the first spread.
LEMMA OrderlyBack ==
  ASSUME ViewerTyped, InReach, OneAtATime, Look \/ Rewind \/ Rewound \/ Nudge, ~early'
  PROVE  OneAtATime'
<1> USE ViewerAssumption, OneClick DEF OneAtATime, ToTheFirst, viewerVars
<1>0. shown \in 0..(Last + 1) /\ steps \in 0..RewindSteps
  BY DEF ViewerTyped, ViewTypeOK
<1>1. ASSUME SettleHere, at \in ToTheFirst, shown \in {0, 1}, outcome # "end" PROVE OneAtATime'
  <2>1. /\ clicks = None /\ at' = "ready" /\ taken = <<>>
        /\ UNCHANGED <<clicks, shown, taken, outcome>>
    BY <1>1, Settled DEF OnTheWayBack
  <2> QED
    BY <1>1, <2>1 DEF Orderly, OnTheWayBack, OnTheWayForth
<1>2. CASE Look
  <2>0. /\ at = "look" /\ clicks = None /\ shown \in Saved /\ steps = 0 /\ taken = <<>> /\ ~nudged
        /\ outcome # "end"
    BY <1>2 DEF Look, OnTheWayBack, ViewerTyped, ViewTypeOK
  <2>1. shown \in 0..Last /\ shown - 1 <= RewindSteps
    BY <2>0 DEF InReach
  <2>2. CASE Rows /\ shown > 1
    <3>1. at' = "rewind" /\ UNCHANGED <<viewerVars, steps, nudged, previous, taken, outcome>> /\ drawn
      BY <1>2, <2>2 DEF Look, GoOn, Rows
    <3> QED
      BY <2>0, <2>1, <2>2, <3>1 DEF Orderly, OnTheWayBack, OnTheWayForth
  <2>3. CASE ~(Rows /\ shown > 1)
    <3>1. SettleHere
      BY <1>2, <2>3 DEF Look
    <3>2. drawn \/ shown <= 1
      BY <2>0, <3>1, Settled
    <3>3. shown <= 1
      BY <2>1, <2>3, <3>2 DEF Rows
    <3> QED
      BY <1>1, <2>0, <2>1, <3>1, <3>3
  <2> QED
    BY <2>2, <2>3
<1>3. CASE Rewind
  <2>0. /\ at = "rewind" /\ clicks = None /\ drawn /\ shown \in 1..Last /\ shown - 1 + steps <= RewindSteps
        /\ taken = <<>> /\ ~nudged /\ outcome # "end" /\ Rows
    BY <1>3 DEF Rewind, OnTheWayBack, ViewerTyped, ViewTypeOK, Rows
  <2>1. CASE steps = RewindSteps \/ shown <= 1
    <3>1. shown = 1 /\ SettleHere
      BY <1>0, <1>3, <2>0, <2>1 DEF Rewind
    <3> QED
      BY <1>1, <2>0, <3>1
  <2>2. CASE ~(steps = RewindSteps \/ shown <= 1)
    <3>1. /\ at' = "rewound" /\ steps' = steps + 1 /\ previous' = shown /\ clicks' = Back
          /\ UNCHANGED <<shown, drawn, nudged, taken, outcome>>
      BY <2>0, <2>2, <1>3 DEF Rewind, ClickBy
    <3> QED
      BY <1>0, <2>0, <2>2, <3>1 DEF Orderly, OnTheWayBack, OnTheWayForth
  <2> QED
    BY <2>1, <2>2
<1>4. CASE Rewound
  <2>0. /\ at = "rewound" /\ previous \in 2..Last /\ previous - 2 + steps <= RewindSteps
        /\ taken = <<>> /\ ~nudged /\ outcome # "end"
        /\ \/ clicks = Back /\ drawn /\ shown = previous
           \/ clicks = None /\ shown = previous - 1
    BY <1>4 DEF Rewound, OnTheWayBack, ViewerTyped, ViewTypeOK
  <2>1. CASE Rows /\ shown # previous
    <3>1. at' = "rewind" /\ UNCHANGED <<viewerVars, steps, nudged, previous, taken, outcome>> /\ drawn
      BY <1>4, <2>1 DEF Rewound, GoOn, Rows
    <3> QED
      BY <2>0, <2>1, <3>1 DEF Orderly, OnTheWayBack, OnTheWayForth
  <2>2. CASE ~(Rows /\ shown # previous)
    <3>1. SettleHere
      BY <1>4, <2>2 DEF Rewound
    <3>2. clicks = None /\ (drawn \/ shown <= 1)
      BY <2>0, <3>1, Settled
    <3>3. shown = previous - 1 /\ shown \in 1..Last
      BY <2>0, <3>2
    <3>4. shown = 1
      BY <2>0, <2>2, <3>2, <3>3 DEF Rows
    <3> QED
      BY <1>1, <2>0, <3>1, <3>4
  <2> QED
    BY <2>1, <2>2
<1>5. CASE Nudge
  <2>1. /\ at = "ready" /\ taken = <<>> /\ shown = 0 /\ clicks = None /\ outcome # "end"
    BY <1>5 DEF Nudge, OnTheWayForth, ViewerTyped, ViewTypeOK
  <2>2. clicks' = Forth /\ nudged' = TRUE
        /\ UNCHANGED <<shown, drawn, at, steps, previous, taken, outcome>>
    BY <1>5, <2>1 DEF Nudge, ClickBy
  <2> QED
    BY <2>1, <2>2 DEF Orderly, OnTheWayBack, OnTheWayForth
<1> QED
  BY <1>2, <1>3, <1>4, <1>5

\* The steps forth: a click is repeated only when none is under way and the
\* spread is still the last one taken.
LEMMA OrderlyForth ==
  ASSUME ViewerTyped, OneAtATime, ~hasty',
         Ready \/ NeverReady \/ Detect \/ Capture \/ GoNext \/ Changed \/ Retry \/ TimeOut
  PROVE  OneAtATime'
<1> USE ViewerAssumption, OneClick DEF OneAtATime, ToTheFirst, viewerVars, GoOn
<1>0. /\ shown \in 0..(Last + 1) /\ Len(taken) \in Nat /\ (taken = <<>> <=> Len(taken) = 0)
      /\ at \in {"capture", "next", "wait"} => previous \in 1..Last
  BY LenProperties, EmptySeq DEF ViewerTyped, ViewTypeOK, Identified
<1>1. ASSUME Finished("failed"), at \notin ToTheFirst PROVE OneAtATime'
  <2>1. at' = "done" /\ outcome' = "failed" /\ UNCHANGED <<clicks, taken>>
    BY <1>1 DEF Finished
  <2> QED
    BY <2>1 DEF Orderly, OnTheWayBack, OnTheWayForth
<1>2. CASE Ready
  <2>1. shown = Len(taken) + 1 /\ clicks = None /\ at = "ready"
    BY <1>0, <1>2 DEF Ready, OnTheWayForth, Rows
  <2> QED
    BY <1>2, <2>1 DEF Ready, Orderly, OnTheWayBack, OnTheWayForth
<1>3. CASE NeverReady
  BY <1>1, <1>3 DEF NeverReady
<1>4. CASE Detect
  <2>0. at = "detect" /\ clicks = None /\ shown = Len(taken) + 1 /\ outcome # "end"
    BY <1>4 DEF Detect, OnTheWayForth, ViewerTyped, ViewTypeOK
  <2>1. CASE at' = "capture" /\ previous' = shown
             /\ UNCHANGED <<viewerVars, steps, nudged, retries, same, taken, outcome, pastVars>>
    BY <2>0, <2>1 DEF Orderly, OnTheWayBack, OnTheWayForth
  <2>2. CASE CardShown /\ Finished("end")
    <3>1. shown = Last + 1 /\ at' = "done" /\ UNCHANGED <<clicks, taken>>
      BY <2>2 DEF CardShown, Finished
    <3> QED
      BY <1>0, <2>0, <3>1 DEF Orderly, OnTheWayBack, OnTheWayForth
  <2> QED
    BY <1>1, <1>4, <2>0, <2>1, <2>2 DEF Detect
<1>5. CASE Capture
  <2> DEFINE it == [as |-> previous, shows |-> shown]
  <2>0. /\ at = "capture" /\ clicks = None /\ shown = Len(taken) + 1 /\ previous = shown
        /\ outcome # "end" /\ previous \in 1..Last
    BY <1>0, <1>5 DEF Capture, OnTheWayForth, ViewerTyped, ViewTypeOK
  <2>1. CASE Finished("failed")
    BY <1>1, <2>0, <2>1
  <2>2. CASE ~Finished("failed")
    <3>1. it \in [as : 1..Last, shows : 1..Last]
      BY <2>0
    <3>2. \A i \in 1..Len(taken) : taken[i].as = i /\ i # previous
      <4>1. taken \in Seq([as : 1..Last, shows : 1..Last])
        BY <1>0 DEF ViewerTyped, ViewTypeOK
      <4>2. Len(taken) \in Nat /\ previous = Len(taken) + 1
        BY <2>0, <4>1
      <4>3. \A i \in 1..Len(taken) : taken[i] = [as |-> i, shows |-> i]
        BY <1>0 DEF Orderly
      <4> SUFFICES ASSUME NEW i \in 1..Len(taken) PROVE taken[i].as = i /\ i # previous
        OBVIOUS
      <4>4. taken[i] = [as |-> i, shows |-> i]
        BY <4>3
      <4>5. i \in Nat /\ i <= Len(taken)
        BY <4>2
      <4> QED
        BY <4>2, <4>4, <4>5
    <3>3. ~\E i \in 1..Len(taken) : taken[i] = it
      BY <3>2
    <3>4. at' = "next" /\ taken' = Append(taken, it) /\ UNCHANGED <<clicks, shown, previous, outcome>>
      BY <1>5, <2>2, <3>3 DEF Capture
    <3>5. /\ taken' # <<>> /\ Len(taken') = Len(taken) + 1
          /\ \A i \in 1..Len(taken) : taken'[i] = taken[i]
          /\ taken'[Len(taken) + 1] = it
      BY <3>1, <3>4, OneMore DEF ViewerTyped
    <3>6. \A i \in 1..Len(taken') : taken'[i] = [as |-> i, shows |-> i]
      <4> SUFFICES ASSUME NEW i \in 1..Len(taken') PROVE taken'[i] = [as |-> i, shows |-> i]
        OBVIOUS
      <4>1. CASE i \in 1..Len(taken)
        BY <3>5, <4>1 DEF Orderly
      <4>2. CASE i = Len(taken) + 1
        BY <2>0, <3>5, <4>2
      <4> QED
        BY <1>0, <3>5, <4>1, <4>2
    <3> QED
      BY <1>0, <2>0, <3>4, <3>5, <3>6 DEF Orderly, OnTheWayBack, OnTheWayForth
  <2> QED
    BY <2>1, <2>2
<1>6. CASE GoNext
  <2>1. /\ at = "next" /\ clicks = None /\ shown = Len(taken) /\ previous = Len(taken)
        /\ outcome # "end"
    BY <1>6 DEF GoNext, OnTheWayForth, ViewerTyped, ViewTypeOK
  <2>2. at' = "wait" /\ clicks' = Forth /\ UNCHANGED <<shown, previous, taken, outcome>>
    BY <1>6, <2>1 DEF GoNext
  <2> QED
    BY <2>1, <2>2 DEF Orderly, OnTheWayBack, OnTheWayForth
<1>7. CASE Changed
  <2>1. /\ at = "wait" /\ shown # previous /\ at' \in {"ready", "detect"} /\ outcome # "end"
        /\ UNCHANGED <<clicks, shown, previous, taken, outcome>>
    BY <1>0, <1>7 DEF Changed, CardShown, ViewerTyped, ViewTypeOK
  <2>2. shown = Len(taken) + 1 /\ clicks = None /\ taken # <<>>
    BY <1>0, <2>1 DEF OnTheWayForth
  <2> QED
    BY <2>1, <2>2 DEF Orderly, OnTheWayBack, OnTheWayForth
<1>8. CASE Retry
  <2>1. /\ at = "wait" /\ clicks = None /\ drawn /\ ~CardShown /\ ~(Rows /\ shown # previous)
        /\ clicks' = Append(clicks, 1) /\ outcome # "end"
        /\ UNCHANGED <<at, shown, drawn, previous, taken, outcome>>
    BY <1>8 DEF Retry, ClickAgain, ClickBy, ViewerTyped, ViewTypeOK, None
  <2>2. shown = previous /\ previous = Len(taken)
    BY <1>0, <2>1 DEF OnTheWayForth, CardShown, Rows
  <2> QED
    BY <2>1, <2>2 DEF Orderly, OnTheWayBack, OnTheWayForth
<1>9. CASE TimeOut
  BY <1>1, <1>9 DEF TimeOut
<1> QED
  BY <1>2, <1>3, <1>4, <1>5, <1>6, <1>7, <1>8, <1>9

LEMMA ViewerInvariant == ViewSpec => []ViewerInv
<1>1. ViewInit => ViewerInv
  BY InitViewerInv
<1>2. ViewerInv /\ [ViewNext]_viewVars => ViewerInv'
  <2> SUFFICES ASSUME ViewerInv, [ViewNext]_viewVars PROVE ViewerInv'
    OBVIOUS
  <2>1. CASE ViewNext
    <3>1. ViewerTyped /\ ViewerTyped'
      BY <2>1, TypedStep DEF ViewerInv
    <3>2. (~early' => ~early) /\ (~hasty' => ~hasty)
      <4>1. ASSUME SettleHere, at \in ToTheFirst PROVE ~early /\ hasty' = hasty
        BY <3>1, <4>1 DEF SettleHere, ViewerTyped, Identified
      <4>2. early' = early \/ (SettleHere /\ at \in ToTheFirst)
        BY <2>1 DEF ViewNext, Adapter, Viewer, Look, Rewind, Rewound, Nudge, Ready, NeverReady,
             Detect, Capture, GoNext, Changed, Retry, TimeOut, Handle, Draw, Lose, Rest, GoOn,
             Finished, ClickAgain, pastVars, ToTheFirst
      <4>3. hasty' = hasty \/ (SettleHere /\ at \in ToTheFirst) \/ hasty' = (hasty \/ clicks # <<>> \/ ~drawn)
        BY <2>1 DEF ViewNext, Adapter, Viewer, Look, Rewind, Rewound, Nudge, Ready, NeverReady,
             Detect, Capture, GoNext, Changed, Retry, TimeOut, Handle, Draw, Lose, Rest, GoOn,
             Finished, ClickAgain, pastVars, ToTheFirst
      <4>4. early \in BOOLEAN /\ hasty \in BOOLEAN
        BY <3>1 DEF ViewerTyped, ViewTypeOK
      <4>5. CASE SettleHere /\ at \in ToTheFirst
        BY <4>1, <4>5
      <4>6. CASE ~(SettleHere /\ at \in ToTheFirst)
        <5>1. early' = early
          BY <4>2, <4>6
        <5>2. ASSUME hasty PROVE hasty'
          <6>1. CASE hasty' = hasty
            BY <5>2, <6>1
          <6>2. CASE hasty' = (hasty \/ clicks # <<>> \/ ~drawn)
            BY <5>2, <6>2
          <6> QED
            BY <4>3, <4>6, <6>1, <6>2
        <5> QED
          BY <5>1, <5>2
      <4> QED
        BY <4>5, <4>6
    <3>3. ~early' => Onward'
      BY <2>1, <3>1, <3>2, OnwardStep DEF ViewerInv
    <3>4. InReach /\ ~early' /\ ~hasty' => OneAtATime'
      BY <2>1, <3>1, <3>2, OrderlyOutside, OrderlyBack, OrderlyForth DEF ViewerInv, ViewNext, Adapter
    <3> QED
      BY <3>1, <3>3, <3>4 DEF ViewerInv, InReach
  <2>2. CASE UNCHANGED viewVars
    BY <2>2 DEF viewVars, viewerVars, pastVars, ViewerInv, ViewerTyped, ViewTypeOK, Identified, Onward,
         Rising, Latest, AllForth, OneAtATime, Orderly, OnTheWayBack, OnTheWayForth, InReach
  <2> QED
    BY <2>1, <2>2
<1> QED
  BY <1>1, <1>2, PTL DEF ViewSpec

-------------------------------------------------------------------------------
\* Every variable keeps its type, however slow the viewer is, and a crawl has a
\* result exactly at its end.
THEOREM ViewerTypeCorrect == ViewSpec => []ViewTypeOK
<1>1. ViewerInv => ViewTypeOK
  BY DEF ViewerInv, ViewerTyped
<1> QED
  BY <1>1, ViewerInvariant, PTL

\* Of an episode whose way back was not left early the pages are saved in order,
\* none under a name that is given already; if besides no click was repeated in
\* haste and the saved position was in reach, an end means that each spread was
\* saved, once and in order.  Nothing is assumed of the viewer.
THEOREM ViewerOnlyRushedIsLost == ViewSpec => []OnlyRushedIsLost
<1>1. ViewerInv => OnlyRushedIsLost
  <2> SUFFICES ASSUME ViewerInv, ~early PROVE Rising /\ (InReach /\ ~hasty => WholeEpisode)
    BY DEF OnlyRushedIsLost, Rising
  <2>1. Rising
    BY DEF ViewerInv, Onward
  <2>2. ASSUME InReach, ~hasty, outcome = "end"
        PROVE  [i \in 1..Len(taken) |-> taken[i].shows] = [spread \in 1..Last |-> spread]
    <3>1. Len(taken) = Last /\ \A i \in 1..Len(taken) : taken[i] = [as |-> i, shows |-> i]
      BY <2>2 DEF ViewerInv, OneAtATime, Orderly, OnTheWayForth
    <3> QED
      BY <3>1
  <2> QED
    BY <2>1, <2>2 DEF WholeEpisode
<1> QED
  BY <1>1, ViewerInvariant, PTL

-------------------------------------------------------------------------------
\* The site behind the two entries whose answers are dated (TicketSite).

\* The site by itself.
Page == INSTANCE TicketSite WITH MaxTime <- Clock, Others <- OwnerReads, now <- time

\* The episode is closed as long as the ticket is there.
Closed == ticket => ~Page!Open

\* What a request tells, whenever it was made.
AnswersHold ==
  \A i \in Page!Index :
    /\ asked[i].at <= time
    /\ asked[i].state = "sent" => ~asked[i].yes /\ asked[i].left = 0
    /\ asked[i].left > 0 => asked[i].at + asked[i].left <= until + 1
    /\ asked[i].kind # "checkout" /\ asked[i].state # "sent" /\ ~asked[i].yes => Closed

\* A kind of request that was made has a newest one.
NewestThere ==
  \A kind \in Page!Kinds :
    \/ Page!Of(kind) = {}
    \/ \E i \in Page!Of(kind) : \A j \in Page!Of(kind) : i >= j

\* Where nobody else uses the account, a ticket that is gone went on a checkout.
SpentTold ==
  ~OwnerReads /\ ~ticket =>
    \E i \in Page!Index :
      /\ asked[i].kind = "checkout" /\ asked[i].yes
      /\ asked[i].state = "seen" => until <= asked[i].when + Term

\* What every step of the site keeps.
PageInv ==
  /\ Page!SiteTypeOK
  /\ until <= time + Term
  /\ AnswersHold
  /\ NewestThere
  /\ SpentTold

\* What a request tells that was made when the episode was closed.
UseTold ==
  \A i \in Page!Index :
    /\ asked[i].yes /\ (asked[i].kind # "checkout" \/ ~Hollow) => ~ticket
    /\ asked[i].yes /\ asked[i].kind = "checkout" /\ asked[i].state = "seen" /\ ~Hollow
         => until <= asked[i].when + Term

\* The page has asked for no checkout.
NoCheckout == \A i \in Page!Index : asked[i].kind # "checkout"

LEMMA InitPage == ASSUME Page!SiteAssumption, Page!SiteInit PROVE PageInv /\ NoCheckout
<1> USE DEF Page!SiteAssumption, Page!SiteInit
<1>1. Page!SiteTypeOK
  BY DEF Page!SiteTypeOK
<1>2. asked = <<>> /\ Page!Index = {} /\ \A kind : Page!Of(kind) = {}
  BY DEF Page!Index, Page!Of
<1> QED
  BY <1>1, <1>2 DEF PageInv, AnswersHold, NewestThere, SpentTold, NoCheckout

\* A new request.
LEMMA PageAsking ==
  ASSUME Page!SiteAssumption, PageInv, NEW dated, NEW kind \in Page!Kinds,
         Len(asked) < MaxAsked, asked' = Page!Asking(dated, kind),
         UNCHANGED <<time, ticket, until, garbled>>
  PROVE  /\ PageInv' /\ (UseTold => UseTold')
         /\ NoCheckout /\ kind # "checkout" => NoCheckout'
<1> DEFINE new == [kind |-> kind, at |-> IF kind \in dated THEN time ELSE 0,
                   state |-> "sent", yes |-> FALSE, left |-> 0, when |-> 0]
<1>1. asked \in Seq(Page!Requests) /\ Len(asked) \in Nat /\ time \in 0..Clock
  BY DEF PageInv, Page!SiteTypeOK
<1>2. new \in Page!Requests
  BY <1>1 DEF Page!Requests, Page!SiteAssumption, Page!Kinds
<1>3. asked' = Append(asked, new)
  BY DEF Page!Asking
<1>4. /\ asked' \in Seq(Page!Requests) /\ Len(asked') = Len(asked) + 1
      /\ asked'[Len(asked) + 1] = new
      /\ \A i \in 1..Len(asked) : asked'[i] = asked[i]
  BY <1>1, <1>2, <1>3, AppendProperties
<1>5. Page!SiteTypeOK'
  BY <1>1, <1>4 DEF PageInv, Page!SiteTypeOK, Page!SiteAssumption
<1>6. Page!Index' = Page!Index \cup {Len(asked) + 1}
  BY <1>1, <1>4 DEF Page!Index
<1>7. AnswersHold'
  BY <1>1, <1>4, <1>6 DEF PageInv, AnswersHold, Page!Index, Closed, Page!Open
<1>8. NewestThere'
  <2> SUFFICES ASSUME NEW k \in Page!Kinds, Page!Of(k)' # {}
               PROVE  \E i \in Page!Of(k)' : \A j \in Page!Of(k)' : i >= j
    BY DEF NewestThere, Page!Kinds
  <2>1. Page!Of(k)' = Page!Of(k) \cup IF k = kind THEN {Len(asked) + 1} ELSE {}
    BY <1>4, <1>6 DEF Page!Of, Page!Index
  <2>2. \A j \in Page!Of(k) : j \in 1..Len(asked)
    BY DEF Page!Of, Page!Index
  <2>3. CASE k = kind
    <3>1. Len(asked) + 1 \in Page!Of(k)' /\ \A j \in Page!Of(k)' : Len(asked) + 1 >= j
      BY <1>1, <2>1, <2>2, <2>3
    <3> QED
      BY <3>1
  <2>4. CASE k # kind
    BY <2>1, <2>4 DEF PageInv, NewestThere
  <2> QED
    BY <2>3, <2>4
<1>9. UseTold => UseTold'
  BY <1>1, <1>4, <1>6 DEF UseTold, Page!Index
<1>10. SpentTold'
  BY <1>1, <1>4, <1>6 DEF PageInv, SpentTold, Page!Index
<1>11. NoCheckout /\ kind # "checkout" => NoCheckout'
  BY <1>1, <1>4, <1>6 DEF NoCheckout, Page!Index
<1> QED
  BY <1>5, <1>7, <1>8, <1>9, <1>10, <1>11 DEF PageInv

\* What an answer changes of one request.
AnsweredWith(i, state, yes, left, when) ==
  asked' = [asked EXCEPT ![i].state = state, ![i].yes = yes, ![i].left = left,
                         ![i].when = when]

\* The other requests stay as they are.
LEMMA PageAnswer ==
  ASSUME Page!SiteAssumption, PageInv, NEW i \in Page!Index,
         NEW state \in {"served", "seen", "bad"}, NEW yes \in BOOLEAN,
         NEW left \in 0..(Term + 1), NEW when \in 0..Clock,
         AnsweredWith(i, state, yes, left, when), time' = time
  PROVE  /\ asked' \in Seq(Page!Requests) /\ Len(asked') = Len(asked)
         /\ Page!Index' = Page!Index
         /\ \A j \in Page!Index : j # i => asked'[j] = asked[j]
         /\ asked'[i].kind = asked[i].kind /\ asked'[i].at = asked[i].at
         /\ asked'[i].state = state /\ asked'[i].yes = yes
         /\ asked'[i].left = left /\ asked'[i].when = when
         /\ NewestThere'
<1>1. asked \in Seq(Page!Requests) /\ i \in 1..Len(asked) /\ asked[i] \in Page!Requests
  BY DEF PageInv, Page!SiteTypeOK, Page!Index
<1> DEFINE new == [asked[i] EXCEPT !.state = state, !.yes = yes, !.left = left, !.when = when]
<1>2. asked' = [asked EXCEPT ![i] = new]
  BY <1>1 DEF AnsweredWith, Page!Requests
<1>3. new \in Page!Requests
  BY <1>1 DEF Page!Requests
<1> HIDE DEF new
<1>4. /\ asked' \in Seq(Page!Requests) /\ Len(asked') = Len(asked)
      /\ asked'[i] = new /\ \A j \in 1..Len(asked) : j # i => asked'[j] = asked[j]
  BY <1>1, <1>2, <1>3, ExceptSeq
<1>5. /\ new.kind = asked[i].kind /\ new.at = asked[i].at /\ new.state = state
      /\ new.yes = yes /\ new.left = left /\ new.when = when
  BY <1>1 DEF new, Page!Requests
<1>6. Page!Index' = Page!Index
  BY <1>4 DEF Page!Index
<1>7. \A kind : Page!Of(kind)' = Page!Of(kind)
  BY <1>4, <1>5, <1>6 DEF Page!Of, Page!Index
<1>8. NewestThere'
  BY <1>7 DEF PageInv, NewestThere
<1> QED
  <2>1. \A j \in Page!Index : j # i => asked'[j] = asked[j]
    BY <1>4 DEF Page!Index
  <2> QED
    BY <1>4, <1>5, <1>6, <1>8, <2>1

\* What serving a request that was "sent" does, however it is answered.
Served(i, yes, left) ==
  /\ AnsweredWith(i, "served", yes, left, asked[i].when)
  /\ \/ /\ asked[i].kind = "checkout" /\ ticket /\ ~Page!Open
        /\ ticket' = FALSE /\ until' = time + Term /\ left = 0 /\ yes
     \/ /\ asked[i].kind = "checkout" /\ left = 0
        /\ yes => Page!Open \/ ~ticket \/ Hollow
        /\ ticket' = ticket /\ until' = until
     \/ /\ asked[i].kind # "checkout" /\ ticket' = ticket /\ until' = until
        /\ yes = Page!Open /\ (left > 0 => time + left <= until + 1)

\* An answer is decided: the ticket may go.
LEMMA PageServe ==
  ASSUME Page!SiteAssumption, PageInv, NEW dated, NEW i \in Page!Index, Page!Serve(dated, i)
  PROVE  /\ PageInv' /\ (ticket' => ticket) /\ (Closed => Closed')
         /\ (UseTold /\ Closed => UseTold') /\ (NoCheckout => NoCheckout')
<1>1. /\ asked \in Seq(Page!Requests) /\ i \in 1..Len(asked) /\ asked[i] \in Page!Requests
      /\ time \in 0..Clock /\ until \in 0..(Clock + Term) /\ ticket \in BOOLEAN
      /\ \A j \in 1..Len(asked) : asked[j] \in Page!Requests
      /\ time' = time /\ garbled' = garbled /\ asked[i].state = "sent"
      /\ until <= time + Term
  BY DEF PageInv, Page!SiteTypeOK, Page!Index, Page!Serve
<1>2. asked[i].at <= time /\ ~asked[i].yes /\ asked[i].left = 0
  BY <1>1 DEF PageInv, AnswersHold
<1>3. /\ asked[i].when \in 0..Clock /\ asked[i].kind \in Page!Kinds
      /\ asked[i].at \in 0..Clock
  BY <1>1 DEF Page!Requests
<1>4. PICK yes \in BOOLEAN, left \in 0..(Term + 1) : Served(i, yes, left)
  <2>1. CASE /\ asked[i].kind = "checkout" /\ ticket /\ ~Page!Open
             /\ ticket' = FALSE /\ until' = time + Term
             /\ asked' = [asked EXCEPT ![i].state = "served", ![i].yes = TRUE]
    <3>1. AnsweredWith(i, "served", TRUE, 0, asked[i].when)
      BY <1>1, <1>2, <2>1 DEF AnsweredWith, Page!Requests
    <3> QED
      <4>1. 0 \in 0..(Term + 1)
        BY DEF Page!SiteAssumption
      <4>2. Served(i, TRUE, 0)
        BY <3>1, <2>1 DEF Served
      <4> QED
        BY <4>1, <4>2
  <2>2. ASSUME asked[i].kind = "checkout", UNCHANGED <<ticket, until>>,
               NEW yes \in IF Page!Open \/ ~ticket \/ Hollow THEN BOOLEAN ELSE {FALSE},
               asked' = [asked EXCEPT ![i].state = "served", ![i].yes = yes]
        PROVE  \E yy \in BOOLEAN, ll \in 0..(Term + 1) : Served(i, yy, ll)
    <3>1. AnsweredWith(i, "served", yes, 0, asked[i].when)
      BY <1>1, <1>2, <2>2 DEF AnsweredWith, Page!Requests
    <3> QED
      <4>1. 0 \in 0..(Term + 1) /\ yes \in BOOLEAN
        <5>1. 0 \in 0..(Term + 1)
          BY DEF Page!SiteAssumption
        <5> QED
          BY <2>2, <5>1, Zenon
      <4>2. Served(i, yes, 0)
        BY <3>1, <2>2 DEF Served
      <4> QED
        BY <4>1, <4>2
  <2>3. ASSUME asked[i].kind # "checkout", UNCHANGED <<ticket, until>>,
               NEW left \in IF Page!Open /\ asked[i].kind \in dated
                            THEN {until - time, until - time + 1} ELSE {0},
               asked' = [asked EXCEPT ![i].state = "served", ![i].yes = Page!Open,
                                      ![i].left = left]
        PROVE  \E yy \in BOOLEAN, ll \in 0..(Term + 1) : Served(i, yy, ll)
    <3>1. left \in 0..(Term + 1) /\ (left > 0 => time + left <= until + 1)
      BY <1>1, <2>3 DEF Page!Open, Page!SiteAssumption
    <3>2. AnsweredWith(i, "served", Page!Open, left, asked[i].when)
      BY <1>1, <1>2, <2>3 DEF AnsweredWith, Page!Requests
    <3>3. Page!Open \in BOOLEAN
      BY DEF Page!Open
    <3> QED
      BY <3>1, <3>2, <3>3, <2>3 DEF Served
  <2> QED
    BY <2>1, <2>2, <2>3 DEF Page!Serve
<1>5. /\ asked' \in Seq(Page!Requests) /\ Len(asked') = Len(asked)
      /\ Page!Index' = Page!Index
      /\ \A j \in Page!Index : j # i => asked'[j] = asked[j]
      /\ asked'[i].kind = asked[i].kind /\ asked'[i].at = asked[i].at
      /\ asked'[i].state = "served" /\ asked'[i].yes = yes
      /\ asked'[i].left = left /\ asked'[i].when = asked[i].when
      /\ NewestThere'
  BY <1>1, <1>3, <1>4, PageAnswer DEF Served
<1>6. /\ until' \in 0..(Clock + Term) /\ ticket' \in BOOLEAN /\ until' <= time' + Term
      /\ until' >= until /\ (ticket' => ticket)
  <2>1. Term \in Nat /\ Clock \in Nat
    BY DEF Page!SiteAssumption
  <2>2. CASE until' = until /\ ticket' = ticket
    BY <1>1, <2>1, <2>2
  <2>3. ASSUME until <= time, until' = time + Term
        PROVE  until' \in 0..(Clock + Term) /\ until' <= time' + Term /\ until' >= until
    BY <1>1, <2>1, <2>3
  <2>4. ~Page!Open => until <= time
    BY <1>1, <2>1 DEF Page!Open
  <2> QED
    BY <1>4, <2>2, <2>3, <2>4 DEF Served
<1>7. Page!SiteTypeOK'
  BY <1>1, <1>5, <1>6 DEF PageInv, Page!SiteTypeOK
<1>8. Closed => Closed'
  BY <1>1, <1>4 DEF Closed, Page!Open, Served
<1>9. asked[i].kind # "checkout" /\ ~yes => Closed'
  BY <1>1, <1>4 DEF Closed, Page!Open, Served
<1>10. time + left <= until' + 1 \/ left = 0
  <2>1. left \in Nat
    BY <1>4 DEF Page!SiteAssumption
  <2>2. CASE left > 0 => time + left <= until + 1 /\ until' = until
    BY <2>1, <2>2
  <2> QED
    BY <1>4, <2>2 DEF Served
<1>11. AnswersHold'
  <2> SUFFICES ASSUME NEW j \in Page!Index
               PROVE  /\ asked'[j].at <= time
                      /\ asked'[j].state = "sent" => ~asked'[j].yes /\ asked'[j].left = 0
                      /\ asked'[j].left > 0 => asked'[j].at + asked'[j].left <= until' + 1
                      /\ asked'[j].kind # "checkout" /\ asked'[j].state # "sent" /\ ~asked'[j].yes
                           => Closed'
    BY <1>1, <1>5 DEF AnswersHold
  <2>1. CASE j = i
    <3>1. /\ asked[i].at \in Nat /\ asked[i].at <= time /\ time \in Nat
          /\ left \in Nat /\ until' \in Nat
      BY <1>1, <1>2, <1>3, <1>4, <1>6 DEF Page!SiteAssumption
    <3>2. left > 0 => asked[i].at + left <= until' + 1
      <4>1. CASE left = 0
        BY <4>1
      <4>2. CASE time + left <= until' + 1
        <5>1. \A a, t, l, u \in Nat : a <= t /\ t + l <= u + 1 => a + l <= u + 1
          OBVIOUS
        <5> QED
          BY <3>1, <4>2, <5>1
      <4> QED
        BY <1>10, <4>1, <4>2
    <3> QED
      BY <1>5, <1>9, <2>1, <3>1, <3>2
  <2>2. CASE j # i
    <3>1. asked[j].at \in Nat /\ asked[j].left \in Nat
      <4>1. asked[j] \in Page!Requests /\ Clock \in Nat /\ Term \in Nat
        BY <1>1 DEF Page!Index, Page!SiteAssumption
      <4> QED
        BY <4>1 DEF Page!Requests
    <3> QED
      <4>1. /\ asked[j].at <= time
            /\ asked[j].state = "sent" => ~asked[j].yes /\ asked[j].left = 0
            /\ asked[j].left > 0 => asked[j].at + asked[j].left <= until + 1
            /\ asked[j].kind # "checkout" /\ asked[j].state # "sent" /\ ~asked[j].yes => Closed
        BY DEF PageInv, AnswersHold
      <4>2. until' \in Nat /\ until \in Nat
        BY <1>1, <1>6 DEF Page!SiteAssumption
      <4>3. asked[j].left > 0 => asked[j].at + asked[j].left <= until' + 1
        BY <1>6, <3>1, <4>1, <4>2
      <4> QED
        BY <1>5, <1>8, <2>2, <4>1, <4>3
  <2> QED
    BY <2>1, <2>2
<1>12. UseTold /\ Closed => UseTold'
  <2> SUFFICES ASSUME UseTold, Closed, NEW j \in Page!Index, asked'[j].yes,
                      asked'[j].kind # "checkout" \/ ~Hollow
               PROVE  /\ ~ticket'
                      /\ asked'[j].kind = "checkout" /\ asked'[j].state = "seen"
                           => until' <= asked'[j].when + Term
    BY <1>5 DEF UseTold
  <2>1. CASE j = i
    BY <1>4, <1>5, <2>1 DEF Closed, Served
  <2>2. CASE j # i
    <3>1. ~ticket /\ (asked[j].kind = "checkout" /\ asked[j].state = "seen"
                        => until <= asked[j].when + Term)
      BY <1>5, <2>2 DEF UseTold
    <3> QED
      BY <1>4, <1>5, <1>6, <2>2, <3>1 DEF Served
  <2> QED
    BY <2>1, <2>2
<1>13. SpentTold'
  <2> SUFFICES ASSUME ~OwnerReads, ~ticket'
               PROVE  \E j \in Page!Index :
                        /\ asked'[j].kind = "checkout" /\ asked'[j].yes
                        /\ asked'[j].state = "seen" => until' <= asked'[j].when + Term
    BY <1>5 DEF SpentTold
  <2>1. CASE ticket
    BY <1>1, <1>4, <1>5, <2>1 DEF Served
  <2>2. CASE ~ticket
    <3>1. PICK j \in Page!Index :
            /\ asked[j].kind = "checkout" /\ asked[j].yes
            /\ asked[j].state = "seen" => until <= asked[j].when + Term
      BY <2>2 DEF PageInv, SpentTold
    <3>2. until' = until
      BY <1>4, <2>2 DEF Served
    <3> QED
      BY <1>2, <1>5, <3>1, <3>2
  <2> QED
    BY <2>1, <2>2
<1>14. NoCheckout => NoCheckout'
  BY <1>5 DEF NoCheckout
<1> QED
  BY <1>5, <1>6, <1>7, <1>8, <1>11, <1>12, <1>13, <1>14 DEF PageInv

\* An answer arrives, or one that cannot be read.
LEMMA PageArrive ==
  ASSUME Page!SiteAssumption, PageInv, NEW i \in Page!Index,
         Page!Arrive(i) \/ Page!Garble(i)
  PROVE  /\ PageInv' /\ UNCHANGED <<time, ticket, until>>
         /\ (UseTold => UseTold') /\ (NoCheckout => NoCheckout')
<1>1. /\ asked \in Seq(Page!Requests) /\ i \in 1..Len(asked) /\ asked[i] \in Page!Requests
      /\ time \in 0..Clock /\ until \in 0..(Clock + Term) /\ garbled \in 0..MaxGarbled
      /\ asked[i].state = "served" /\ UNCHANGED <<time, ticket, until>>
      /\ until <= time + Term
  BY DEF PageInv, Page!SiteTypeOK, Page!Index, Page!Arrive, Page!Garble
<1>2. /\ asked[i].when \in 0..Clock /\ asked[i].kind \in Page!Kinds
      /\ asked[i].yes \in BOOLEAN /\ asked[i].left \in 0..(Term + 1)
  BY <1>1 DEF Page!Requests
<1>3. garbled' \in 0..MaxGarbled
  BY <1>1 DEF Page!Arrive, Page!Garble, Page!SiteAssumption
<1>4. PICK state \in {"seen", "bad"}, when \in 0..Clock :
        /\ AnsweredWith(i, state, asked[i].yes, asked[i].left, when)
        /\ state = "seen" /\ asked[i].kind = "checkout" => when = time
  <2>1. CASE Page!Arrive(i)
    <3>1. AnsweredWith(i, "seen", asked[i].yes, asked[i].left,
                IF asked[i].kind = "checkout" THEN time ELSE 0)
      BY <1>1, <2>1 DEF AnsweredWith, Page!Requests, Page!Arrive
    <3>2. (IF asked[i].kind = "checkout" THEN time ELSE 0) \in 0..Clock
      BY <1>1 DEF Page!SiteAssumption
    <3> QED
      BY <3>1, <3>2
  <2>2. CASE Page!Garble(i)
    <3>1. AnsweredWith(i, "bad", asked[i].yes, asked[i].left, asked[i].when)
      BY <1>1, <2>2 DEF AnsweredWith, Page!Requests, Page!Garble
    <3> QED
      BY <1>2, <3>1
  <2> QED
    BY <2>1, <2>2
<1>5. /\ asked' \in Seq(Page!Requests) /\ Len(asked') = Len(asked)
      /\ Page!Index' = Page!Index
      /\ \A j \in Page!Index : j # i => asked'[j] = asked[j]
      /\ asked'[i].kind = asked[i].kind /\ asked'[i].at = asked[i].at
      /\ asked'[i].state = state /\ asked'[i].yes = asked[i].yes
      /\ asked'[i].left = asked[i].left /\ asked'[i].when = when
      /\ NewestThere'
  BY <1>1, <1>2, <1>4, PageAnswer
<1>6. Page!SiteTypeOK'
  BY <1>1, <1>3, <1>5 DEF PageInv, Page!SiteTypeOK
<1>7. Closed' = Closed
  BY <1>1 DEF Closed, Page!Open
<1>8. AnswersHold'
  BY <1>1, <1>4, <1>5, <1>7 DEF PageInv, AnswersHold
<1>9. UseTold => UseTold'
  BY <1>1, <1>4, <1>5 DEF UseTold
<1>10. SpentTold'
  BY <1>1, <1>4, <1>5 DEF PageInv, SpentTold
<1>11. NoCheckout => NoCheckout'
  BY <1>5 DEF NoCheckout
<1> QED
  BY <1>1, <1>5, <1>6, <1>8, <1>9, <1>10, <1>11 DEF PageInv

\* Time passes, or the owner spends the ticket elsewhere: the requests stay.
LEMMA PageAlone ==
  ASSUME Page!SiteAssumption, PageInv, Page!Tick \/ Page!SpendElsewhere
  PROVE  /\ PageInv' /\ (ticket' => ticket) /\ (Closed => Closed')
         /\ (UseTold => UseTold') /\ (NoCheckout => NoCheckout')
<1>1. /\ asked \in Seq(Page!Requests) /\ time \in 0..Clock /\ ticket \in BOOLEAN
      /\ until \in 0..(Clock + Term) /\ UNCHANGED <<asked, garbled>>
      /\ until <= time + Term /\ Term \in Nat /\ Clock \in Nat
  BY DEF PageInv, Page!SiteTypeOK, Page!Tick, Page!SpendElsewhere, Page!SiteAssumption
<1>2. /\ time' \in 0..Clock /\ time <= time'
      /\ until' \in 0..(Clock + Term) /\ until <= until' /\ until' <= time' + Term
  BY <1>1 DEF Page!Tick, Page!SpendElsewhere, Page!Open
<1>3. ticket' \in BOOLEAN /\ (ticket' => ticket) /\ (Closed => Closed')
  <2>1. CASE Page!Tick
    BY <1>1, <2>1 DEF Page!Tick, Closed, Page!Open
  <2>2. CASE Page!SpendElsewhere
    BY <2>2 DEF Page!SpendElsewhere, Closed
  <2> QED
    BY <2>1, <2>2
<1>4. Page!SiteTypeOK'
  BY <1>1, <1>2, <1>3 DEF PageInv, Page!SiteTypeOK
<1>5. Page!Index' = Page!Index /\ NewestThere'
  BY <1>1 DEF Page!Index, PageInv, NewestThere, Page!Of
<1>6. \A j \in Page!Index : asked[j].at \in Nat /\ asked[j].left \in Nat
  <2>1. \A j \in Page!Index : asked[j] \in Page!Requests
    BY <1>1 DEF Page!Index
  <2> QED
    BY <1>1, <2>1 DEF Page!Requests
<1>7. AnswersHold'
  BY <1>1, <1>2, <1>3, <1>5, <1>6 DEF PageInv, AnswersHold
<1>8. UseTold => UseTold'
  <2>1. CASE Page!Tick
    BY <1>1, <1>5, <2>1 DEF Page!Tick, UseTold
  <2>2. CASE Page!SpendElsewhere
    \* Nobody has been told of a use as long as the ticket is there.
    BY <1>1, <1>5, <2>2 DEF Page!SpendElsewhere, UseTold
  <2> QED
    BY <2>1, <2>2
<1>9. SpentTold'
  BY <1>1, <1>3, <1>5 DEF PageInv, SpentTold, Page!Tick, Page!SpendElsewhere
<1>10. NoCheckout => NoCheckout'
  BY <1>1, <1>5 DEF NoCheckout
<1> QED
  BY <1>2, <1>3, <1>4, <1>5, <1>7, <1>8, <1>9, <1>10 DEF PageInv

\* Any step of the site.
LEMMA PageStep ==
  ASSUME Page!SiteAssumption, PageInv, NEW dated, Page!Site(dated)
  PROVE  /\ PageInv' /\ (ticket' => ticket) /\ (Closed => Closed')
         /\ (UseTold /\ Closed => UseTold') /\ (NoCheckout => NoCheckout')
<1>1. ASSUME NEW kind \in Page!Kinds, kind # "checkout", Page!Ask(dated, kind)
      PROVE  /\ PageInv' /\ UNCHANGED <<ticket, until, time>> /\ (UseTold => UseTold')
             /\ (NoCheckout => NoCheckout')
  BY <1>1, PageAsking DEF Page!Ask
<1>2. UNCHANGED <<ticket, until, time>> => (ticket' => ticket) /\ (Closed => Closed')
  BY DEF Closed, Page!Open
<1> QED
  BY <1>1, <1>2, PageServe, PageArrive, PageAlone DEF Page!Site, Closed

\* A step that leaves the page alone.
LEMMA PageSame ==
  ASSUME PageInv, UNCHANGED Page!siteVars
  PROVE  /\ PageInv' /\ Closed' = Closed /\ UNCHANGED <<ticket, until>>
         /\ (UseTold => UseTold') /\ (NoCheckout => NoCheckout')
<1> USE DEF Page!siteVars
<1>1. Closed' = Closed /\ Page!Index' = Page!Index /\ UNCHANGED <<ticket, until>>
  BY DEF Closed, Page!Open, Page!Index
<1>2. Page!SiteTypeOK' /\ (until <= time + Term)'
  BY DEF PageInv, Page!SiteTypeOK
<1>3. AnswersHold' /\ SpentTold'
  BY <1>1 DEF PageInv, AnswersHold, SpentTold
<1>4. NewestThere'
  BY <1>1 DEF PageInv, NewestThere, Page!Of
<1>5. (UseTold => UseTold') /\ (NoCheckout => NoCheckout')
  BY <1>1 DEF UseTold, NoCheckout
<1> QED
  BY <1>1, <1>2, <1>3, <1>4, <1>5 DEF PageInv

-------------------------------------------------------------------------------
\* younganimal.com (YounganimalEntry).

\* Where the entry is tells whether it has clicked; a click is decided on an episode
\* that was closed while the ticket was there; a report is of a ticket that is gone.
YoungFacts ==
  /\ yPc \in Young!Waits => ~yActed
  /\ yPc \in {"reconcile", "settle", "conclude", "gate"} => yActed
  /\ yPc \in Young!Waits \cup {"reconcile", "settle"} \/ ~yActed => ~yReport.consumed
  /\ yPc \in Young!Waits \ {"current", "series"} \/ yActed => Closed
  /\ yActed => UseTold
  /\ ~yActed => yLanded = 0 /\ NoCheckout
  /\ yPc = "gate" => yReport.consumed
  /\ yReport.consumed =>
       /\ ~ticket
       /\ yReport.until <= until
       /\ ~(Hollow /\ OwnerReads) => until <= yReport.at + Term

\* The inductive invariant.
YoungInv == Young!TypeOK /\ PageInv /\ YoungFacts

\* The two names of the site are one.
LEMMA YoungPage ==
  /\ Young!SiteAssumption = Page!SiteAssumption
  /\ Young!SiteInit = Page!SiteInit
  /\ (Young!SiteTypeOK <=> Page!SiteTypeOK) /\ (Young!SiteTypeOK' <=> Page!SiteTypeOK')
  /\ Young!Site(Young!Dated) = Page!Site(Young!Dated)
  /\ Young!siteVars = Page!siteVars
  /\ \A kind : /\ Young!Asking(Young!Dated, kind) = Page!Asking(Young!Dated, kind)
                /\ Young!Of(kind) = Page!Of(kind)
BY DEF Young!SiteAssumption, Page!SiteAssumption, Young!SiteInit, Page!SiteInit,
  Young!SiteTypeOK, Page!SiteTypeOK, Young!Site, Page!Site, Young!siteVars, Page!siteVars,
  Young!Asking, Page!Asking, Young!Of, Page!Of, Young!Index, Page!Index,
  Young!Requests, Page!Requests, Young!Kinds, Page!Kinds, Young!Open, Page!Open,
  Young!Ask, Page!Ask, Young!Serve, Page!Serve, Young!Arrive, Page!Arrive,
  Young!Garble, Page!Garble, Young!Tick, Page!Tick, Young!SpendElsewhere, Page!SpendElsewhere

LEMMA InitYoung == ASSUME Page!SiteAssumption, Young!Init PROVE YoungInv
<1>1. PageInv /\ NoCheckout
  BY InitPage, YoungPage DEF Young!Init
<1>2. Young!TypeOK
  <2>1. 0 \in 0..(Term + 1) /\ 0 \in 0..Clock /\ 0 \in 0..(Clock + Term + 1)
    BY DEF Page!SiteAssumption
  <2>2. yBefore \in [yes : BOOLEAN, left : 0..(Term + 1)]
    BY <2>1 DEF Young!Init, Young!Quiet
  <2>3. yReport \in [consumed : BOOLEAN, at : 0..Clock, until : 0..(Clock + Term + 1)]
    BY <2>1 DEF Young!Init, Young!NoReport
  <2> QED
    <3>1. /\ yPc = "current" /\ yResult = "none" /\ yActed = FALSE
          /\ yCancelled = FALSE /\ yLanded \in 0..2
      BY DEF Young!Init
    <3>2. Young!SiteTypeOK
      BY <1>1, YoungPage DEF PageInv
    <3> QED
      BY <2>2, <2>3, <3>1, <3>2 DEF Young!TypeOK, Young!Waits
<1>3. YoungFacts
  BY <1>1 DEF Young!Init, YoungFacts, Young!Waits, Young!NoReport
<1> QED
  BY <1>1, <1>2, <1>3 DEF YoungInv

\* What happens outside the program.
LEMMA YoungOutside ==
  ASSUME Page!SiteAssumption, YoungInv, Young!Outside
  PROVE  YoungInv' /\ (ticket' => ticket) /\ UNCHANGED <<yActed, yReport, yResult>>
<1>1. CASE Young!CheckOut
  <2>1. /\ PageInv' /\ (UseTold => UseTold') /\ UNCHANGED <<time, ticket, until, garbled>>
        /\ yLanded > 0
    BY <1>1, YoungPage, PageAsking DEF Young!CheckOut, YoungInv, Page!Kinds
  <2>2. Closed' = Closed
    BY <2>1 DEF Closed, Page!Open
  <2>3. Young!TypeOK'
    BY <1>1, <2>1, YoungPage DEF Young!TypeOK, Young!CheckOut, YoungInv, PageInv, Young!Waits
  <2>4. YoungFacts'
    BY <1>1, <2>1, <2>2 DEF YoungFacts, YoungInv, Young!CheckOut, Young!Waits
  <2> QED
    BY <1>1, <2>1, <2>3, <2>4 DEF YoungInv, Young!CheckOut
<1>2. CASE /\ Young!Site(Young!Dated) /\ yPc \notin {"conclude", "gate", "done"}
           /\ UNCHANGED Young!entryVars
  <2>1. /\ PageInv' /\ (ticket' => ticket) /\ (Closed => Closed')
        /\ (UseTold /\ Closed => UseTold') /\ (NoCheckout => NoCheckout')
    BY <1>2, YoungPage, PageStep DEF YoungInv
  <2>2. Young!TypeOK'
    BY <1>2, <2>1, YoungPage DEF Young!TypeOK, YoungInv, PageInv, Young!Waits, Young!entryVars
  <2>3. ~yReport.consumed
    BY <1>2 DEF YoungInv, YoungFacts, Young!TypeOK
  <2>4. YoungFacts'
    BY <1>2, <2>1, <2>3 DEF YoungFacts, YoungInv, Young!Waits, Young!entryVars
  <2> QED
    BY <1>2, <2>1, <2>2, <2>4 DEF YoungInv, Young!entryVars
<1> QED
  BY <1>1, <1>2 DEF Young!Outside

\* What is seen of the episode, and what it says of the ticket.
LEMMA YoungCurrent ==
  ASSUME YoungInv, Young!CurrentKnown
  PROVE  /\ Young!Current \in Page!Index /\ asked[Young!Current] \in Page!Requests
         /\ asked[Young!Current].kind = "episode" /\ asked[Young!Current].state = "seen"
<1>1. Young!Current # 0 /\ asked[Young!Current].state = "seen"
  BY DEF Young!CurrentKnown, Young!Seen
<1>2. Page!Of("episode") # {}
  BY <1>1, YoungPage DEF Young!Current, Young!Latest
<1>3. \E i \in Page!Of("episode") : \A j \in Page!Of("episode") : i >= j
  BY <1>2 DEF YoungInv, PageInv, NewestThere, Page!Kinds
<1>4. Young!Current \in Page!Of("episode")
  BY <1>2, <1>3, YoungPage DEF Young!Current, Young!Latest
<1>5. Young!Current \in 1..Len(asked) /\ asked \in Seq(Page!Requests)
  BY <1>4 DEF Page!Of, Page!Index, YoungInv, PageInv, Page!SiteTypeOK
<1> QED
  BY <1>1, <1>4, <1>5 DEF Page!Of, Page!Index

\* The steps before the click.
LEMMA YoungBefore ==
  ASSUME Page!SiteAssumption, YoungInv,
         \/ Young!GiveUp \/ Young!SeeCurrent \/ Young!Classify \/ Young!SeeRefreshed
         \/ Young!SettleAgain \/ Young!Compare
  PROVE  YoungInv' /\ UNCHANGED <<ticket, yActed, yReport>> /\ ~yActed /\ ~yReport.consumed
<1>1. UNCHANGED Page!siteVars /\ yPc \in Young!Waits
  BY DEF Young!GiveUp, Young!SeeCurrent, Young!Classify, Young!SeeRefreshed, Young!SettleAgain,
         Young!Compare, Young!Still, Young!siteVars, Page!siteVars, Young!Waits
<1>2. ~yActed /\ ~yReport.consumed
  BY <1>1 DEF YoungInv, YoungFacts
<1>3. /\ PageInv' /\ Closed' = Closed /\ UNCHANGED <<ticket, until>>
      /\ (UseTold => UseTold') /\ (NoCheckout => NoCheckout')
  BY <1>1, PageSame DEF YoungInv
<1>4. UNCHANGED <<yActed, yLanded, yCancelled, yReport>>
  BY DEF Young!GiveUp, Young!SeeCurrent, Young!Classify, Young!SeeRefreshed, Young!SettleAgain,
         Young!Compare, Young!Goto, Young!End
<1>5. Young!SiteTypeOK'
  BY <1>3, YoungPage DEF PageInv
<1>6. CASE Young!GiveUp \/ Young!SeeCurrent \/ Young!SeeRefreshed \/ Young!SettleAgain
           \/ Young!Compare
  <2>1. Young!TypeOK'
    BY <1>4, <1>5, <1>6 DEF YoungInv, Young!TypeOK, Young!Waits, Young!GiveUp, Young!SeeCurrent,
       Young!SeeRefreshed, Young!SettleAgain, Young!Compare, Young!Goto, Young!End
  <2>2. YoungFacts'
    BY <1>2, <1>3, <1>4, <1>6 DEF YoungInv, YoungFacts, Young!Waits, Young!GiveUp,
       Young!SeeCurrent, Young!SeeRefreshed, Young!SettleAgain, Young!Compare, Young!Goto,
       Young!End
  <2> QED
    BY <1>2, <1>3, <1>4, <2>1, <2>2, <1>1 DEF YoungInv, Page!siteVars
<1>7. CASE Young!Classify
  <2>1. CASE \E how \in {"failed", "entered", "unavailable"} : Young!End(how)
    <3>1. Young!TypeOK'
      BY <1>4, <1>5, <2>1 DEF YoungInv, Young!TypeOK, Young!Waits, Young!End
    <3>2. YoungFacts'
      BY <1>2, <1>3, <1>4, <2>1 DEF YoungInv, YoungFacts, Young!Waits, Young!End
    <3> QED
      BY <1>1, <1>2, <1>3, <1>4, <3>1, <3>2 DEF YoungInv, Page!siteVars
  <2>2. ASSUME NEW state \in Young!PreClick, ~state.yes, yPc' = "control", yBefore' = state,
               UNCHANGED yResult
        PROVE  YoungInv' /\ UNCHANGED <<ticket, yActed, yReport>> /\ ~yActed
                 /\ ~yReport.consumed
    <3>1. /\ Young!CurrentKnown
          /\ state = [yes |-> asked[Young!Current].yes, left |-> asked[Young!Current].left]
      BY <2>2 DEF Young!PreClick
    <3>2. /\ asked[Young!Current].kind = "episode" /\ asked[Young!Current].state = "seen"
          /\ asked[Young!Current] \in Page!Requests /\ Young!Current \in Page!Index
      BY <3>1, YoungCurrent
    <3>3. ~asked[Young!Current].yes /\ state \in [yes : BOOLEAN, left : 0..(Term + 1)]
      BY <2>2, <3>1, <3>2 DEF Page!Requests
    <3>4. Closed
      BY <3>2, <3>3 DEF YoungInv, PageInv, AnswersHold
    <3>5. Young!TypeOK'
      BY <1>4, <1>5, <1>7, <2>2, <3>3 DEF YoungInv, Young!TypeOK, Young!Waits, Young!Classify
    <3>6. YoungFacts'
      BY <1>2, <1>3, <1>4, <2>2, <3>4 DEF YoungInv, YoungFacts, Young!Waits
    <3> QED
      BY <1>1, <1>2, <1>3, <1>4, <3>5, <3>6 DEF YoungInv, Page!siteVars
  <2> QED
    BY <1>7, <2>1, <2>2 DEF Young!Classify
<1> QED
  BY <1>6, <1>7

\* The page asks anew.
LEMMA YoungRefresh ==
  ASSUME Page!SiteAssumption, YoungInv, Young!Refresh
  PROVE  YoungInv' /\ UNCHANGED <<ticket, yActed, yReport, yResult>>
<1>1. /\ PageInv' /\ UNCHANGED <<time, ticket, until, garbled>> /\ (UseTold => UseTold')
      /\ (NoCheckout => NoCheckout')
  BY YoungPage, PageAsking DEF Young!Refresh, YoungInv, Page!Kinds
<1>2. Closed' = Closed
  BY <1>1 DEF Closed, Page!Open
<1>3. Young!TypeOK'
  BY <1>1, YoungPage DEF Young!TypeOK, Young!Refresh, Young!Goto, YoungInv, PageInv, Young!Waits
<1>4. YoungFacts'
  BY <1>1, <1>2 DEF YoungFacts, YoungInv, Young!Refresh, Young!Goto, Young!Waits
<1> QED
  BY <1>1, <1>3, <1>4 DEF YoungInv, Young!Refresh, Young!Goto

\* The click: what was asked before is not looked at any more.
LEMMA YoungClick ==
  ASSUME Page!SiteAssumption, YoungInv, Young!Click
  PROVE  /\ YoungInv' /\ UNCHANGED <<ticket, yReport, yResult>>
         /\ ~yActed /\ yActed' /\ yResult = "none"
<1>1. /\ asked' = <<>> /\ UNCHANGED <<time, ticket, until, garbled>>
      /\ yPc = "match" /\ yPc' = "reconcile" /\ yActed' = TRUE
      /\ UNCHANGED <<yBefore, yReport, yResult>>
      /\ yLanded' \in 0..2 /\ yCancelled' \in BOOLEAN
  BY DEF Young!Click
<1>2. ~yActed /\ Closed /\ yResult = "none" /\ ~yReport.consumed
  BY <1>1 DEF YoungInv, YoungFacts, Young!Waits, Young!TypeOK
<1>3. Closed' = Closed
  BY <1>1 DEF Closed, Page!Open
<1>4. Page!Index' = {} /\ \A kind : Page!Of(kind)' = {}
  BY <1>1 DEF Page!Index, Page!Of
<1>5. Page!SiteTypeOK'
  BY <1>1 DEF YoungInv, PageInv, Page!SiteTypeOK, Page!SiteAssumption
<1>6. PageInv' /\ UseTold'
  <2>1. SpentTold'
    BY <1>1, <1>2 DEF YoungInv, YoungFacts, PageInv, SpentTold, NoCheckout
  <2> QED
    BY <1>1, <1>4, <1>5, <2>1 DEF YoungInv, PageInv, AnswersHold, NewestThere, UseTold
<1>7. Young!TypeOK'
  BY <1>1, <1>5, YoungPage DEF YoungInv, Young!TypeOK, Young!Waits
<1>8. YoungFacts'
  BY <1>1, <1>2, <1>3, <1>6 DEF YoungFacts, Young!Waits
<1> QED
  BY <1>1, <1>2, <1>6, <1>7, <1>8 DEF YoungInv

\* The one accepted checkout and the open episode behind a proof of the use.
LEMMA YoungProof ==
  ASSUME Page!SiteAssumption, YoungInv, yPc = "settle", Young!Proven,
         NEW i \in Young!Of("checkout")
  PROVE  LET proof == Young!ProofOf(i, Young!Current) IN
         /\ proof \in [consumed : BOOLEAN, at : 0..Clock, until : 0..(Clock + Term + 1)]
         /\ proof.consumed /\ ~ticket /\ proof.until <= until
         /\ ~(Hollow /\ OwnerReads) => until <= proof.at + Term
<1> DEFINE c == Young!Current
           proof == Young!ProofOf(i, c)
<1>1. /\ c \in Page!Index /\ asked[c] \in Page!Requests
      /\ asked[c].kind = "episode" /\ asked[c].state = "seen" /\ asked[c].yes
  BY YoungCurrent DEF Young!Proven
<1>2. /\ i \in Page!Index /\ asked[i].kind = "checkout"
      /\ asked[i].state = "seen" /\ asked[i].yes
  BY YoungPage DEF Young!Proven, Page!Of, Young!Seen
<1>3. UseTold
  BY DEF YoungInv, YoungFacts
<1>4. ~ticket
  BY <1>1, <1>3 DEF UseTold
<1>5. ~(Hollow /\ OwnerReads) => until <= asked[i].when + Term
  <2>1. CASE ~Hollow
    BY <1>2, <1>3, <2>1 DEF UseTold
  <2>2. CASE ~OwnerReads
    <3>1. PICK j \in Page!Index :
            /\ asked[j].kind = "checkout"
            /\ asked[j].state = "seen" => until <= asked[j].when + Term
      BY <1>4, <2>2 DEF YoungInv, PageInv, SpentTold
    <3>2. j = i
      BY <3>1, YoungPage DEF Young!Proven, Page!Of
    <3> QED
      BY <1>2, <3>1, <3>2
  <2> QED
    BY <2>1, <2>2
<1>6. /\ asked[i].when \in 0..Clock
      /\ asked[c].at \in Nat /\ asked[c].left \in Nat /\ until \in 0..(Clock + Term)
      /\ time \in Nat
  <2>1. asked[i] \in Page!Requests
    BY <1>2 DEF YoungInv, PageInv, Page!SiteTypeOK, Page!Index
  <2> QED
    <3>1. Clock \in Nat /\ Term \in Nat
      BY DEF Page!SiteAssumption
    <3>2. time \in 0..Clock /\ until \in 0..(Clock + Term)
      BY DEF YoungInv, PageInv, Page!SiteTypeOK
    <3>3. asked[i].when \in 0..Clock
      BY <2>1 DEF Page!Requests
    <3>4. asked[c].at \in 0..Clock /\ asked[c].left \in 0..(Term + 1)
      BY <1>1 DEF Page!Requests
    <3> QED
      BY <3>1, <3>2, <3>3, <3>4
<1>7. asked[c].left > 0 => asked[c].at + asked[c].left <= until + 1
  BY <1>1 DEF YoungInv, PageInv, AnswersHold
<1>8. /\ proof.consumed /\ proof.at = asked[i].when
      /\ proof = [consumed |-> TRUE, at |-> proof.at, until |-> proof.until]
      /\ proof.until = IF asked[c].left > 0 /\ asked[c].at + asked[c].left - 1 > time
                       THEN asked[c].at + asked[c].left - 1 ELSE 0
  BY DEF Young!ProofOf
<1> HIDE DEF c, proof
<1>9. proof.until \in 0..(Clock + Term + 1) /\ proof.until <= until
  BY <1>6, <1>7, <1>8 DEF Page!SiteAssumption
<1>10. proof \in [consumed : BOOLEAN, at : 0..Clock, until : 0..(Clock + Term + 1)]
  BY <1>6, <1>8, <1>9
<1> QED
  BY <1>4, <1>5, <1>8, <1>9, <1>10 DEF c, proof

\* The steps after the click.
LEMMA YoungAfter ==
  ASSUME Page!SiteAssumption, YoungInv,
         Young!Cancel \/ Young!Reconcile \/ Young!Settle \/ Young!Conclude \/ Young!Gate
  PROVE  YoungInv' /\ UNCHANGED <<ticket, yActed>> /\ yActed
<1>1. UNCHANGED Page!siteVars /\ yPc \in {"reconcile", "settle", "conclude", "gate"}
  BY DEF Young!Cancel, Young!Reconcile, Young!Settle, Young!Conclude, Young!Gate, Young!Still,
         Young!siteVars, Page!siteVars
<1>2. yActed
  BY <1>1 DEF YoungInv, YoungFacts
<1>3. /\ PageInv' /\ Closed' = Closed /\ UNCHANGED <<ticket, until>>
      /\ (UseTold => UseTold') /\ (NoCheckout => NoCheckout')
  BY <1>1, PageSame DEF YoungInv
<1>4. UNCHANGED <<yActed, yLanded, yBefore>>
  BY DEF Young!Cancel, Young!Reconcile, Young!Settle, Young!Conclude, Young!Gate, Young!Goto,
         Young!End
<1>5. Young!SiteTypeOK'
  BY <1>3, YoungPage DEF PageInv
<1>6. CASE Young!Cancel \/ Young!Reconcile \/ Young!Conclude \/ Young!Gate
  <2>1. Young!TypeOK'
    BY <1>4, <1>5, <1>6 DEF YoungInv, Young!TypeOK, Young!Waits, Young!Cancel, Young!Reconcile,
       Young!Conclude, Young!Gate, Young!Goto, Young!End
  <2>2. YoungFacts'
    BY <1>2, <1>3, <1>4, <1>6 DEF YoungInv, YoungFacts, Young!Waits, Young!Cancel,
       Young!Reconcile, Young!Conclude, Young!Gate, Young!Goto, Young!End
  <2> QED
    BY <1>2, <1>3, <1>4, <2>1, <2>2 DEF YoungInv
<1>7. CASE Young!Settle
  <2>1. /\ yPc = "settle" /\ yPc' = "conclude"
        /\ UNCHANGED <<yBefore, yActed, yLanded, yCancelled, yResult>>
    BY <1>7 DEF Young!Settle
  <2>2. CASE yReport' = yReport
    <3>1. Young!TypeOK'
      BY <1>5, <2>1, <2>2 DEF YoungInv, Young!TypeOK, Young!Waits
    <3>2. YoungFacts'
      BY <1>2, <1>3, <2>1, <2>2 DEF YoungInv, YoungFacts, Young!Waits
    <3> QED
      BY <1>2, <1>3, <2>1, <3>1, <3>2 DEF YoungInv
  <2>3. ASSUME Young!Proven, NEW i \in Young!Of("checkout"),
               yReport' = Young!ProofOf(i, Young!Current)
        PROVE  YoungInv' /\ UNCHANGED <<ticket, yActed>> /\ yActed
    <3>1. /\ yReport' \in [consumed : BOOLEAN, at : 0..Clock, until : 0..(Clock + Term + 1)]
          /\ yReport'.consumed /\ ~ticket /\ yReport'.until <= until
          /\ ~(Hollow /\ OwnerReads) => until <= yReport'.at + Term
      BY <2>1, <2>3, YoungProof
    <3>2. Young!TypeOK'
      BY <1>5, <2>1, <3>1 DEF YoungInv, Young!TypeOK, Young!Waits
    <3>3. YoungFacts'
      BY <1>2, <1>3, <2>1, <3>1 DEF YoungInv, YoungFacts, Young!Waits
    <3> QED
      BY <1>2, <1>3, <2>1, <3>2, <3>3 DEF YoungInv
  <2> QED
    BY <1>7, <2>2, <2>3 DEF Young!Settle
<1> QED
  BY <1>6, <1>7

LEMMA YoungStutter ==
  ASSUME YoungInv, UNCHANGED Young!vars
  PROVE  YoungInv' /\ UNCHANGED <<ticket, yActed, yReport, yResult>>
<1>1. UNCHANGED Page!siteVars /\ UNCHANGED Young!entryVars
  BY YoungPage DEF Young!vars, Young!siteVars, Page!siteVars
<1>2. /\ PageInv' /\ Closed' = Closed /\ UNCHANGED <<ticket, until>>
      /\ (UseTold => UseTold') /\ (NoCheckout => NoCheckout')
  BY <1>1, PageSame DEF YoungInv
<1>3. Young!TypeOK'
  BY <1>1, <1>2, YoungPage DEF YoungInv, PageInv, Young!TypeOK, Young!entryVars, Young!Waits
<1>4. YoungFacts'
  BY <1>1, <1>2 DEF YoungInv, YoungFacts, Young!entryVars, Young!Waits
<1> QED
  BY <1>1, <1>2, <1>3, <1>4 DEF YoungInv, Young!entryVars

LEMMA YoungStep ==
  ASSUME Page!SiteAssumption, YoungInv, [Young!Next]_(Young!vars) PROVE YoungInv'
BY YoungOutside, YoungBefore, YoungRefresh, YoungClick, YoungAfter, YoungStutter
   DEF Young!Next, Young!Entry

LEMMA YoungTimes ==
  ASSUME Page!SiteAssumption, YoungInv, ~(Hollow /\ OwnerReads) PROVE Young!ReportedTimes
<1> SUFFICES ASSUME yReport.consumed
             PROVE  yReport.at >= until - Term /\ yReport.until <= until
  BY DEF Young!ReportedTimes
<1>1. yReport.at \in Nat /\ until \in Nat /\ Term \in Nat
  BY DEF YoungInv, Young!TypeOK, PageInv, Page!SiteTypeOK, Page!SiteAssumption
<1>2. until <= yReport.at + Term /\ yReport.until <= until
  BY DEF YoungInv, YoungFacts
<1> QED
  BY <1>1, <1>2

LEMMA YoungInvariant == Young!Spec => []YoungInv
<1>1. Page!SiteAssumption
  BY DatedAssumption, YoungPage
<1>2. Young!Init => YoungInv
  BY <1>1, InitYoung
<1>3. YoungInv /\ [Young!Next]_(Young!vars) => YoungInv'
  BY <1>1, YoungStep
<1> QED
  BY <1>2, <1>3, PTL DEF Young!Spec

\* Each step is one of TicketEntry's or none of its business.
LEMMA YoungSimulates ==
  ASSUME Page!SiteAssumption, YoungInv, [Young!Next]_(Young!vars)
  PROVE  [Young!Promise!Next]_(Young!Promise!vars)
<1> USE DEF Young!Promise!Next, Young!Promise!vars
<1>1. YoungInv' /\ ticket \in BOOLEAN /\ ticket' \in BOOLEAN
  BY YoungStep DEF YoungInv, PageInv, Page!SiteTypeOK
<1>2. yPc # "done" => yResult = "none"
  BY DEF YoungInv, Young!TypeOK
<1>3. CASE UNCHANGED <<ticket, yActed, yReport, yResult>>
  BY <1>3
<1>4. ASSUME NEW how \in Young!Promise!Ends, Young!End(how), yResult = "none", ticket' = ticket,
             how = "entered" => yReport.consumed = yActed,
             how = "unavailable" => ~yActed, how = "unconfirmed" => yActed
      PROVE  Young!Promise!Next
  BY <1>4 DEF Young!Promise!End, Young!End
<1>5. CASE Young!Outside
  <2>1. (ticket' => ticket) /\ UNCHANGED <<yActed, yReport, yResult>>
    BY <1>5, YoungOutside
  <2>2. CASE ticket' = ticket
    BY <2>1, <2>2
  <2>3. CASE ~ticket'
    BY <2>1, <2>3 DEF Young!Promise!Spend
  <2> QED
    BY <1>1, <2>1, <2>2, <2>3
<1>6. CASE \/ Young!GiveUp \/ Young!SeeCurrent \/ Young!Classify \/ Young!SeeRefreshed
           \/ Young!SettleAgain \/ Young!Compare
  <2>1. UNCHANGED <<ticket, yActed, yReport>> /\ ~yActed /\ ~yReport.consumed
    BY <1>6, YoungBefore
  <2>2. \/ yResult' = yResult
        \/ \E how \in Young!Promise!Ends : Young!End(how) /\ how # "unconfirmed"
    BY <1>6 DEF Young!GiveUp, Young!SeeCurrent, Young!Classify, Young!SeeRefreshed,
       Young!SettleAgain, Young!Compare, Young!Goto, Young!Promise!Ends, Young!End
  <2>3. yResult = "none"
    BY <1>2, <1>6 DEF Young!GiveUp, Young!SeeCurrent, Young!Classify, Young!SeeRefreshed,
       Young!SettleAgain, Young!Compare, Young!Waits
  <2>4. yReport.consumed = yActed
    BY <2>1 DEF YoungInv, Young!TypeOK
  <2> QED
    BY <1>3, <1>4, <2>1, <2>2, <2>3, <2>4
<1>7. CASE Young!Refresh
  BY <1>3, <1>7, YoungRefresh
<1>8. CASE Young!Click
  <2>1. UNCHANGED <<ticket, yReport, yResult>> /\ ~yActed /\ yActed' = TRUE /\ yResult = "none"
    BY <1>8, YoungClick DEF Young!Click
  <2> QED
    BY <2>1 DEF Young!Promise!Act
<1>9. CASE Young!Cancel \/ Young!Reconcile
  BY <1>3, <1>9, YoungAfter DEF Young!Cancel, Young!Reconcile, Young!Goto
<1>10. CASE Young!Settle
  <2>1. /\ UNCHANGED <<ticket, yActed, yResult>> /\ yActed /\ yResult = "none"
        /\ yReport' = yReport \/ yReport'.consumed = TRUE
    BY <1>2, <1>10, YoungAfter DEF Young!Settle, Young!ProofOf
  <2>2. yReport' = yReport \/ (yReport'.consumed = TRUE /\ ~ticket)
    BY <1>1, <2>1 DEF YoungInv, YoungFacts
  <2> QED
    BY <1>3, <2>1, <2>2 DEF Young!Promise!Report
<1>11. CASE Young!Conclude \/ Young!Gate
  <2>1. UNCHANGED <<ticket, yActed>> /\ yActed /\ yResult = "none"
    BY <1>2, <1>11, YoungAfter DEF Young!Conclude, Young!Gate
  <2>2. \/ UNCHANGED <<yReport, yResult>>
        \/ \E how \in Young!Promise!Ends :
             Young!End(how) /\ how # "unavailable" /\ (how = "entered" => yReport.consumed)
    BY <1>11 DEF Young!Conclude, Young!Gate, Young!Goto, Young!Promise!Ends, YoungInv, YoungFacts
  <2>3. yReport.consumed \in BOOLEAN /\ yActed \in BOOLEAN
    BY DEF YoungInv, Young!TypeOK
  <2> QED
    BY <1>3, <1>4, <2>1, <2>2, <2>3
<1>12. CASE UNCHANGED Young!vars
  BY <1>3, <1>12, YoungStutter
<1> QED
  BY <1>5, <1>6, <1>7, <1>8, <1>9, <1>10, <1>11, <1>12 DEF Young!Next, Young!Entry

\* An entry of younganimal.com keeps its types (YounganimalEntry, _initialize_work_ticket_entry).
THEOREM YoungTypeCorrect == Young!Spec => []Young!TypeOK
<1>1. YoungInv => Young!TypeOK
  BY DEF YoungInv
<1> QED
  BY <1>1, YoungInvariant, PTL

\* What a proven entry of younganimal.com reports: the time of use is not before the
\* ticket went, the grant does not outlast the site's (reconcile_consumption).  A
\* checkout that is accepted without effect and the owner's own use of the account are
\* each allowed, but not both at once: an accepted checkout could then stand for a
\* later use by the owner.
THEOREM YoungReportedTimes ==
  ASSUME ~(Hollow /\ OwnerReads)
  PROVE  Young!Spec => []Young!ReportedTimes
<1>1. YoungInv => Young!ReportedTimes
  BY DatedAssumption, YoungPage, YoungTimes
<1> QED
  BY <1>1, YoungInvariant, PTL

\* Every entry of younganimal.com is a behaviour of TicketEntry, with hollow checkouts,
\* unreadable answers and the owner elsewhere (get_access_consumption and the ends of
\* initialize).
THEOREM YoungKeepsPromise == Young!Spec => Young!KeepsPromise
<1>1. Young!Init => Young!Promise!Init
  BY DEF Young!Init, Young!SiteInit, Young!Promise!Init, Young!NoReport
<1>2. YoungInv /\ [Young!Next]_(Young!vars) => [Young!Promise!Next]_(Young!Promise!vars)
  BY DatedAssumption, YoungPage, YoungSimulates
<1> QED
  BY <1>1, <1>2, YoungInvariant, PTL DEF Young!Spec, Young!KeepsPromise, Young!Promise!Spec

-------------------------------------------------------------------------------
\* hanayume.com (HanayumeEntry).

\* As for younganimal.com.
HanaFacts ==
  /\ hPc \in {"first", "control", "second", "match"} => ~hActed
  /\ hPc \in {"reconcile", "raise"} => hActed
  /\ hPc \notin {"raise", "done"} \/ ~hActed => ~hReport.consumed
  /\ hPc \in {"control", "second", "match"} \/ hActed => Closed
  /\ hActed => UseTold
  /\ ~hActed => hLanded = 0 /\ NoCheckout
  /\ hReport.consumed =>
       /\ ~ticket
       /\ hReport.until <= until
       /\ until <= hReport.at + Term

\* The inductive invariant.
HanaInv == Hana!TypeOK /\ PageInv /\ HanaFacts

\* The two names of the site are one.
LEMMA HanaPage ==
  /\ Hana!SiteAssumption = Page!SiteAssumption
  /\ Hana!SiteInit = Page!SiteInit
  /\ (Hana!SiteTypeOK <=> Page!SiteTypeOK) /\ (Hana!SiteTypeOK' <=> Page!SiteTypeOK')
  /\ Hana!Site(Hana!Dated) = Page!Site(Hana!Dated)
  /\ Hana!siteVars = Page!siteVars
  /\ \A kind : /\ Hana!Asking(Hana!Dated, kind) = Page!Asking(Hana!Dated, kind)
                /\ Hana!Of(kind) = Page!Of(kind)
BY DEF Hana!SiteAssumption, Page!SiteAssumption, Hana!SiteInit, Page!SiteInit,
  Hana!SiteTypeOK, Page!SiteTypeOK, Hana!Site, Page!Site, Hana!siteVars, Page!siteVars,
  Hana!Asking, Page!Asking, Hana!Of, Page!Of, Hana!Index, Page!Index,
  Hana!Requests, Page!Requests, Hana!Kinds, Page!Kinds, Hana!Open, Page!Open,
  Hana!Ask, Page!Ask, Hana!Serve, Page!Serve, Hana!Arrive, Page!Arrive,
  Hana!Garble, Page!Garble, Hana!Tick, Page!Tick, Hana!SpendElsewhere, Page!SpendElsewhere

LEMMA InitHana == ASSUME Page!SiteAssumption, Hana!Init PROVE HanaInv
<1>1. PageInv /\ NoCheckout
  BY InitPage, HanaPage DEF Hana!Init
<1>2. Hana!TypeOK
  <2>1. 0 \in 0..MaxAsked /\ 0 \in 0..Clock /\ 0 \in 0..(Clock + Term)
    BY DEF Page!SiteAssumption
  <2>2. hReport \in [consumed : BOOLEAN, at : 0..Clock, until : 0..(Clock + Term)]
    BY <2>1 DEF Hana!Init
  <2>3. /\ hPc = "first" /\ hResult = "none" /\ hActed = FALSE /\ hFirst = 0
        /\ hLanded \in 0..2 /\ hFallbacks \in 0..2
    BY DEF Hana!Init
  <2>4. Hana!SiteTypeOK
    BY <1>1, HanaPage DEF PageInv
  <2> QED
    BY <2>1, <2>2, <2>3, <2>4 DEF Hana!TypeOK
<1>3. HanaFacts
  BY <1>1 DEF Hana!Init, HanaFacts
<1> QED
  BY <1>1, <1>2, <1>3 DEF HanaInv

\* What happens outside the program.
LEMMA HanaOutside ==
  ASSUME Page!SiteAssumption, HanaInv, hPc \notin {"raise", "done"}, Hana!Outside
  PROVE  HanaInv' /\ (ticket' => ticket) /\ UNCHANGED <<hActed, hReport, hResult>>
<1>1. CASE Hana!CheckOut
  <2>1. /\ PageInv' /\ (UseTold => UseTold') /\ UNCHANGED <<time, ticket, until, garbled>>
        /\ hLanded > 0
    BY <1>1, HanaPage, PageAsking DEF Hana!CheckOut, HanaInv, Page!Kinds
  <2>2. Closed' = Closed
    BY <2>1 DEF Closed, Page!Open
  <2>3. Hana!TypeOK'
    BY <1>1, <2>1, HanaPage DEF Hana!TypeOK, Hana!CheckOut, HanaInv, PageInv
  <2>4. HanaFacts'
    BY <1>1, <2>1, <2>2 DEF HanaFacts, HanaInv, Hana!CheckOut
  <2> QED
    BY <1>1, <2>1, <2>3, <2>4 DEF HanaInv, Hana!CheckOut
<1>2. CASE Hana!Site(Hana!Dated) /\ UNCHANGED Hana!entryVars
  <2>1. /\ PageInv' /\ (ticket' => ticket) /\ (Closed => Closed')
        /\ (UseTold /\ Closed => UseTold') /\ (NoCheckout => NoCheckout')
    BY <1>2, HanaPage, PageStep DEF HanaInv
  <2>2. Hana!TypeOK'
    BY <1>2, <2>1, HanaPage DEF Hana!TypeOK, HanaInv, PageInv, Hana!entryVars
  <2>3. ~hReport.consumed
    BY DEF HanaInv, HanaFacts
  <2>4. HanaFacts'
    BY <1>2, <2>1, <2>3 DEF HanaFacts, HanaInv, Hana!entryVars
  <2> QED
    BY <1>2, <2>1, <2>2, <2>4 DEF HanaInv, Hana!entryVars
<1> QED
  BY <1>1, <1>2 DEF Hana!Outside

\* An answer of the episode's own or of the work's that was read.
LEMMA HanaTold ==
  ASSUME Page!SiteAssumption, HanaInv,
         NEW i \in Hana!Newest("episode") \cup Hana!Newest("series")
  PROVE  /\ i \in Page!Index /\ asked[i] \in Page!Requests
         /\ asked[i].kind # "checkout" /\ asked[i].state = "seen"
         /\ i \in 0..MaxAsked /\ asked[i].at \in Nat /\ asked[i].left \in Nat
         /\ asked[i].left > 0 => asked[i].at + asked[i].left <= until + 1
         /\ ~asked[i].yes => Closed
<1>1. /\ i \in Page!Index /\ asked[i].kind \in {"episode", "series"}
      /\ asked[i].state = "seen"
  BY HanaPage DEF Hana!Newest, Page!Of, Hana!Seen
<1>2. asked[i] \in Page!Requests
  BY <1>1 DEF HanaInv, PageInv, Page!SiteTypeOK, Page!Index
<1>3. i \in 0..MaxAsked
  BY <1>1 DEF HanaInv, PageInv, Page!SiteTypeOK, Page!Index, Page!SiteAssumption
<1>4. Clock \in Nat /\ Term \in Nat
  BY DEF Page!SiteAssumption
<1>5. asked[i].at \in Nat /\ asked[i].left \in Nat
  BY <1>2, <1>4 DEF Page!Requests
<1> QED
  BY <1>1, <1>2, <1>3, <1>5 DEF HanaInv, PageInv, AnswersHold

\* The steps that only read.
LEMMA HanaReads ==
  ASSUME Page!SiteAssumption, HanaInv,
         \/ Hana!GiveUp \/ Hana!First \/ Hana!Control \/ Hana!Second
         \/ Hana!WindowOver \/ Hana!Cancelled \/ Hana!Raise
  PROVE  HanaInv' /\ UNCHANGED <<ticket, hActed, hReport>>
<1>1. UNCHANGED Page!siteVars
  BY DEF Hana!GiveUp, Hana!First, Hana!Control, Hana!Second, Hana!WindowOver, Hana!Cancelled,
         Hana!Raise, Hana!Still, Hana!siteVars, Page!siteVars
<1>2. /\ PageInv' /\ Closed' = Closed /\ UNCHANGED <<ticket, until>>
      /\ (UseTold => UseTold') /\ (NoCheckout => NoCheckout')
  BY <1>1, PageSame DEF HanaInv
<1>3. UNCHANGED <<hActed, hLanded, hFallbacks, hReport>>
  BY DEF Hana!GiveUp, Hana!First, Hana!Control, Hana!Second, Hana!WindowOver, Hana!Cancelled,
         Hana!Raise, Hana!Goto, Hana!End
<1>4. Hana!SiteTypeOK'
  BY <1>2, HanaPage DEF PageInv
<1>5. CASE \E how \in {"entered", "unavailable", "unconfirmed", "failed", "cancelled"} :
             Hana!End(how)
  <2>1. Hana!TypeOK'
    BY <1>4, <1>5 DEF HanaInv, Hana!TypeOK, Hana!End
  <2>2. HanaFacts'
    BY <1>2, <1>5 DEF HanaInv, HanaFacts, Hana!End
  <2> QED
    BY <1>2, <1>3, <2>1, <2>2 DEF HanaInv
<1>6. CASE Hana!GiveUp \/ Hana!Cancelled \/ Hana!Raise
  BY <1>5, <1>6 DEF Hana!GiveUp, Hana!Cancelled, Hana!Raise
<1>7. CASE Hana!Control \/ Hana!Second \/ Hana!WindowOver
  <2>1. Hana!TypeOK'
    BY <1>4, <1>7 DEF HanaInv, Hana!TypeOK, Hana!Control, Hana!Second, Hana!WindowOver, Hana!Goto
  <2>2. HanaFacts'
    BY <1>2, <1>7 DEF HanaInv, HanaFacts, Hana!Control, Hana!Second, Hana!WindowOver, Hana!Goto
  <2> QED
    BY <1>2, <1>3, <2>1, <2>2 DEF HanaInv
<1>8. CASE Hana!First
  <2>1. PICK i \in Hana!Telling :
          \/ Hana!End("entered") \/ Hana!End("unavailable")
          \/ Hana!No(i) /\ hPc' = "control" /\ hFirst' = i /\ UNCHANGED hResult
    BY <1>8 DEF Hana!First
  <2>2. CASE Hana!No(i) /\ hPc' = "control" /\ hFirst' = i /\ UNCHANGED hResult
    <3>1. i \in 0..MaxAsked /\ (~asked[i].yes => Closed)
      BY HanaTold DEF Hana!Telling
    <3>2. Closed
      BY <2>2, <3>1 DEF Hana!No
    <3>3. Hana!TypeOK'
      BY <1>3, <1>4, <1>8, <2>2, <3>1 DEF HanaInv, Hana!TypeOK, Hana!First
    <3>4. HanaFacts'
      BY <1>2, <1>3, <1>8, <2>2, <3>2 DEF HanaInv, HanaFacts, Hana!First
    <3> QED
      BY <1>2, <1>3, <3>3, <3>4 DEF HanaInv
  <2> QED
    BY <1>5, <2>1, <2>2
<1> QED
  BY <1>6, <1>7, <1>8

\* The adapter asks anew.
LEMMA HanaFallBack ==
  ASSUME Page!SiteAssumption, HanaInv, Hana!FallBack
  PROVE  HanaInv' /\ UNCHANGED <<ticket, hActed, hReport, hResult>>
<1>1. /\ PageInv' /\ UNCHANGED <<time, ticket, until, garbled>> /\ (UseTold => UseTold')
      /\ (NoCheckout => NoCheckout')
  BY HanaPage, PageAsking DEF Hana!FallBack, HanaInv, Page!Kinds
<1>2. Closed' = Closed
  BY <1>1 DEF Closed, Page!Open
<1>3. hFallbacks' \in 0..2
  BY DEF Hana!FallBack, HanaInv, Hana!TypeOK
<1>4. Hana!TypeOK'
  BY <1>1, <1>3, HanaPage DEF Hana!TypeOK, Hana!FallBack, HanaInv, PageInv
<1>5. HanaFacts'
  BY <1>1, <1>2 DEF HanaFacts, HanaInv, Hana!FallBack
<1> QED
  BY <1>1, <1>4, <1>5 DEF HanaInv, Hana!FallBack

\* The click: what was asked before is not looked at any more.
LEMMA HanaClick ==
  ASSUME Page!SiteAssumption, HanaInv, Hana!Click
  PROVE  /\ HanaInv' /\ UNCHANGED <<ticket, hReport, hResult>>
         /\ ~hActed /\ hResult = "none"
<1>1. /\ asked' = <<>> /\ UNCHANGED <<time, ticket, until, garbled>>
      /\ hPc = "match" /\ hPc' = "reconcile" /\ hActed' = TRUE /\ hFirst' = 0
      /\ UNCHANGED <<hFallbacks, hReport, hResult>> /\ hLanded' \in 0..2
  BY DEF Hana!Click
<1>2. ~hActed /\ Closed /\ hResult = "none" /\ ~hReport.consumed
  BY <1>1 DEF HanaInv, HanaFacts, Hana!TypeOK
<1>3. Closed' = Closed
  BY <1>1 DEF Closed, Page!Open
<1>4. Page!Index' = {} /\ \A kind : Page!Of(kind)' = {}
  BY <1>1 DEF Page!Index, Page!Of
<1>5. Page!SiteTypeOK'
  BY <1>1 DEF HanaInv, PageInv, Page!SiteTypeOK, Page!SiteAssumption
<1>6. PageInv' /\ UseTold'
  <2>1. SpentTold'
    BY <1>1, <1>2 DEF HanaInv, HanaFacts, PageInv, SpentTold, NoCheckout
  <2> QED
    BY <1>1, <1>4, <1>5, <2>1 DEF HanaInv, PageInv, AnswersHold, NewestThere, UseTold
<1>7. Hana!TypeOK'
  BY <1>1, <1>5, HanaPage DEF HanaInv, Hana!TypeOK, Page!SiteAssumption
<1>8. HanaFacts'
  BY <1>1, <1>2, <1>3, <1>6 DEF HanaFacts
<1> QED
  BY <1>1, <1>2, <1>6, <1>7, <1>8 DEF HanaInv

\* The smallest of the expiries there are.
LEMMA HanaExpiry ==
  ASSUME Page!SiteAssumption, HanaInv, Hana!Proof # {}
  PROVE  /\ Hana!Report.until \in 0..(Clock + Term) /\ Hana!Report.until <= until
         /\ \E i \in Hana!Proof : asked[i].yes /\ i \in Page!Index /\ asked[i].kind # "checkout"
<1>1. Clock \in Nat /\ Term \in Nat /\ until \in 0..(Clock + Term)
  BY DEF Page!SiteAssumption, HanaInv, PageInv, Page!SiteTypeOK
<1>2. ASSUME NEW i \in Hana!Proof
      PROVE  /\ i \in Page!Index /\ asked[i].kind # "checkout" /\ asked[i].yes
             /\ asked[i].at + asked[i].left - 1 \in 0..until
  <2>1. /\ i \in Page!Index /\ asked[i].kind # "checkout"
        /\ asked[i].at \in Nat /\ asked[i].left \in Nat
        /\ asked[i].left > 0 => asked[i].at + asked[i].left <= until + 1
    BY HanaTold DEF Hana!Proof, Hana!Telling
  <2>2. asked[i].yes /\ asked[i].left > 0
    BY DEF Hana!Proof, Hana!Yes
  <2> QED
    BY <1>1, <2>1, <2>2
<1>3. \A kind : \A i, j \in Hana!Newest(kind) : i = j
  <2> SUFFICES ASSUME NEW kind, NEW i \in Hana!Newest(kind), NEW j \in Hana!Newest(kind)
               PROVE  i = j
    OBVIOUS
  <2>1. i <= j /\ j <= i
    BY DEF Hana!Newest
  <2>2. i \in Nat /\ j \in Nat
    BY HanaPage DEF Hana!Newest, Page!Of, Page!Index
  <2> QED
    BY <2>1, <2>2
<1>4. PICK i \in Hana!Proof : TRUE
  OBVIOUS
<1>5. Hana!Expiries \subseteq 0..until
  BY <1>2 DEF Hana!Expiries
<1>6. \E e \in Hana!Expiries : \A other \in Hana!Expiries : e <= other
  <2> DEFINE Expiry(k) == asked[k].at + asked[k].left - 1
  <2>1. \A k \in Hana!Proof : Expiry(k) \in Nat
    BY <1>1, <1>2
  <2>2. CASE \A j \in Hana!Proof : Expiry(i) <= Expiry(j)
    BY <2>2 DEF Hana!Expiries
  <2>3. ASSUME NEW j \in Hana!Proof, ~(Expiry(i) <= Expiry(j))
        PROVE  \E e \in Hana!Expiries : \A other \in Hana!Expiries : e <= other
    <3>1. j # i /\ Expiry(j) <= Expiry(i) /\ Expiry(j) <= Expiry(j)
      BY <2>1, <2>3
    <3>2. \A k \in Hana!Proof : k = i \/ k = j
      BY <1>3, <3>1 DEF Hana!Proof, Hana!Telling
    <3> QED
      BY <3>1, <3>2 DEF Hana!Expiries
  <2> QED
    BY <2>2, <2>3
<1>7. Hana!Report.until \in Hana!Expiries
  BY <1>6 DEF Hana!Report
<1> QED
  <2>1. Hana!Report.until \in 0..until
    BY <1>5, <1>7
  <2>2. Hana!Report.until \in 0..(Clock + Term) /\ Hana!Report.until <= until
    BY <1>1, <2>1
  <2> QED
    BY <1>2, <1>4, <2>2

\* The use is proven and reported.
LEMMA HanaConfirm ==
  ASSUME Page!SiteAssumption, HanaInv, Hana!Confirm
  PROVE  /\ HanaInv' /\ UNCHANGED <<ticket, hActed, hResult>> /\ hActed /\ hResult = "none"
         /\ hReport'.consumed = TRUE
<1>1. /\ UNCHANGED Page!siteVars /\ hPc = "reconcile" /\ hPc' = "raise" /\ hReport' = Hana!Report
      /\ UNCHANGED <<hFirst, hActed, hLanded, hFallbacks, hResult>>
  BY DEF Hana!Confirm, Hana!Still, Hana!siteVars, Page!siteVars
<1>2. /\ PageInv' /\ Closed' = Closed /\ UNCHANGED <<ticket, until>>
      /\ (UseTold => UseTold') /\ (NoCheckout => NoCheckout')
  BY <1>1, PageSame DEF HanaInv
<1>3. hActed /\ hResult = "none"
  BY <1>1 DEF HanaInv, HanaFacts, Hana!TypeOK
<1>4. /\ Hana!Report.until \in 0..(Clock + Term) /\ Hana!Report.until <= until
      /\ ~ticket
  BY <1>3, HanaExpiry DEF Hana!Confirm, HanaInv, HanaFacts, UseTold
<1>5. Hana!Report = [consumed |-> TRUE, at |-> time, until |-> Hana!Report.until]
  BY DEF Hana!Report
<1>6. time \in 0..Clock /\ until <= time + Term
  BY DEF HanaInv, PageInv, Page!SiteTypeOK
<1> DEFINE expiry == Hana!Report.until
<1> HIDE DEF expiry
<1>7. /\ hReport' \in [consumed : BOOLEAN, at : 0..Clock, until : 0..(Clock + Term)]
      /\ hReport'.consumed = TRUE /\ hReport'.at = time /\ hReport'.until <= until
  <2>1. hReport' = [consumed |-> TRUE, at |-> time, until |-> expiry]
    BY <1>1, <1>5 DEF expiry
  <2>2. expiry \in 0..(Clock + Term) /\ expiry <= until
    BY <1>4 DEF expiry
  <2> QED
    BY <1>6, <2>1, <2>2
<1>8. Hana!SiteTypeOK'
  BY <1>2, HanaPage DEF PageInv
<1>9. Hana!TypeOK'
  BY <1>1, <1>7, <1>8 DEF HanaInv, Hana!TypeOK
<1>10. HanaFacts'
  BY <1>1, <1>2, <1>3, <1>4, <1>6, <1>7 DEF HanaInv, HanaFacts
<1> QED
  BY <1>1, <1>2, <1>3, <1>7, <1>9, <1>10 DEF HanaInv

LEMMA HanaStutter ==
  ASSUME HanaInv, UNCHANGED Hana!vars
  PROVE  HanaInv' /\ UNCHANGED <<ticket, hActed, hReport, hResult>>
<1>1. UNCHANGED Page!siteVars /\ UNCHANGED Hana!entryVars
  BY HanaPage DEF Hana!vars, Hana!siteVars, Page!siteVars
<1>2. /\ PageInv' /\ Closed' = Closed /\ UNCHANGED <<ticket, until>>
      /\ (UseTold => UseTold') /\ (NoCheckout => NoCheckout')
  BY <1>1, PageSame DEF HanaInv
<1>3. Hana!TypeOK'
  BY <1>1, <1>2, HanaPage DEF HanaInv, PageInv, Hana!TypeOK, Hana!entryVars
<1>4. HanaFacts'
  BY <1>1, <1>2 DEF HanaInv, HanaFacts, Hana!entryVars
<1> QED
  BY <1>1, <1>2, <1>3, <1>4 DEF HanaInv, Hana!entryVars

LEMMA HanaStep ==
  ASSUME Page!SiteAssumption, HanaInv, [Hana!Next]_(Hana!vars) PROVE HanaInv'
BY HanaOutside, HanaReads, HanaFallBack, HanaClick, HanaConfirm, HanaStutter
   DEF Hana!Next, Hana!Entry

\* Each step is one of TicketEntry's or none of its business.
LEMMA HanaSimulates ==
  ASSUME Page!SiteAssumption, HanaInv, [Hana!Next]_(Hana!vars)
  PROVE  [Hana!Promise!Next]_(Hana!Promise!vars)
<1> USE DEF Hana!Promise!Next, Hana!Promise!vars
<1>1. HanaInv' /\ ticket \in BOOLEAN /\ ticket' \in BOOLEAN
  BY HanaStep DEF HanaInv, PageInv, Page!SiteTypeOK
<1>2. hPc # "done" => hResult = "none"
  BY DEF HanaInv, Hana!TypeOK
<1>3. CASE UNCHANGED <<ticket, hActed, hReport, hResult>>
  BY <1>3
<1>4. ASSUME NEW how \in Hana!Promise!Ends, Hana!End(how), hResult = "none", ticket' = ticket,
             how = "entered" => hReport.consumed = hActed,
             how = "unavailable" => ~hActed, how = "unconfirmed" => hActed
      PROVE  Hana!Promise!Next
  BY <1>4 DEF Hana!Promise!End, Hana!End
<1>5. CASE hPc \notin {"raise", "done"} /\ Hana!Outside
  <2>1. (ticket' => ticket) /\ UNCHANGED <<hActed, hReport, hResult>>
    BY <1>5, HanaOutside
  <2>2. CASE ticket' = ticket
    BY <2>1, <2>2
  <2>3. CASE ~ticket'
    BY <2>1, <2>3 DEF Hana!Promise!Spend
  <2> QED
    BY <1>1, <2>1, <2>2, <2>3
<1>6. CASE Hana!GiveUp \/ Hana!First \/ Hana!Control \/ Hana!Second
  <2>1. UNCHANGED <<ticket, hActed, hReport>>
    BY <1>6, HanaReads
  <2>2. hPc \in {"first", "control", "second", "match"}
    BY <1>6 DEF Hana!GiveUp, Hana!First, Hana!Control, Hana!Second
  <2>3. ~hActed /\ hResult = "none" /\ hReport.consumed = hActed
    BY <1>2, <2>2 DEF HanaInv, HanaFacts, Hana!TypeOK
  <2>4. hResult' = hResult \/ \E how \in Hana!Promise!Ends : Hana!End(how) /\ how # "unconfirmed"
    BY <1>6 DEF Hana!GiveUp, Hana!First, Hana!Control, Hana!Second, Hana!Goto,
       Hana!Promise!Ends
  <2> QED
    BY <1>3, <1>4, <2>1, <2>3, <2>4
<1>7. CASE Hana!FallBack
  BY <1>3, <1>7, HanaFallBack
<1>8. CASE Hana!Click
  <2>1. UNCHANGED <<ticket, hReport, hResult>> /\ ~hActed /\ hActed' = TRUE /\ hResult = "none"
    BY <1>8, HanaClick DEF Hana!Click
  <2> QED
    BY <2>1 DEF Hana!Promise!Act
<1>9. CASE Hana!Confirm
  <2>1. /\ UNCHANGED <<ticket, hActed, hResult>> /\ hActed /\ hResult = "none"
        /\ hReport'.consumed = TRUE
    BY <1>9, HanaConfirm
  <2>2. ~ticket
    BY <1>1, <2>1 DEF HanaInv, HanaFacts
  <2> QED
    BY <2>1, <2>2 DEF Hana!Promise!Report
<1>10. CASE Hana!WindowOver \/ Hana!Cancelled \/ Hana!Raise
  <2>1. UNCHANGED <<ticket, hActed, hReport>>
    BY <1>10, HanaReads
  <2>2. hActed /\ hResult = "none" /\ hReport.consumed \in BOOLEAN /\ hActed \in BOOLEAN
    BY <1>2, <1>10 DEF HanaInv, HanaFacts, Hana!TypeOK, Hana!WindowOver, Hana!Cancelled,
       Hana!Raise
  <2>3. \/ hResult' = hResult
        \/ \E how \in Hana!Promise!Ends :
             Hana!End(how) /\ how # "unavailable" /\ (how = "entered" => hReport.consumed)
    BY <1>10 DEF Hana!WindowOver, Hana!Cancelled, Hana!Raise, Hana!Goto, Hana!Promise!Ends
  <2> QED
    BY <1>3, <1>4, <2>1, <2>2, <2>3
<1>11. CASE UNCHANGED Hana!vars
  BY <1>3, <1>11, HanaStutter
<1> QED
  BY <1>5, <1>6, <1>7, <1>8, <1>9, <1>10, <1>11 DEF Hana!Next, Hana!Entry

LEMMA HanaTimes ==
  ASSUME Page!SiteAssumption, HanaInv PROVE Hana!ReportedTimes
<1> SUFFICES ASSUME hReport.consumed
             PROVE  hReport.at >= until - Term /\ hReport.until <= until
  BY DEF Hana!ReportedTimes
<1>1. hReport.at \in Nat /\ until \in Nat /\ Term \in Nat
  BY DEF HanaInv, Hana!TypeOK, PageInv, Page!SiteTypeOK, Page!SiteAssumption
<1>2. until <= hReport.at + Term /\ hReport.until <= until
  BY DEF HanaInv, HanaFacts
<1> QED
  BY <1>1, <1>2

LEMMA HanaInvariant == Hana!Spec => []HanaInv
<1>1. Page!SiteAssumption
  BY DatedAssumption, YoungPage
<1>2. Hana!Init => HanaInv
  BY <1>1, InitHana
<1>3. HanaInv /\ [Hana!Next]_(Hana!vars) => HanaInv'
  BY <1>1, HanaStep
<1> QED
  BY <1>2, <1>3, PTL DEF Hana!Spec

\* An entry of hanayume.com keeps its types (HanayumeEntry, _initialize_work_ticket_entry).
THEOREM HanaTypeCorrect == Hana!Spec => []Hana!TypeOK
<1>1. HanaInv => Hana!TypeOK
  BY DEF HanaInv
<1> QED
  BY <1>1, HanaInvariant, PTL

\* What a proven entry of hanayume.com reports brackets the use, whatever the site
\* accepts and the owner does (_reconcile_work_ticket_consumption).
THEOREM HanaReportedTimes ==
  Hana!Spec => []Hana!ReportedTimes
<1>1. HanaInv => Hana!ReportedTimes
  BY DatedAssumption, YoungPage, HanaTimes
<1> QED
  BY <1>1, HanaInvariant, PTL

\* Every entry of hanayume.com is a behaviour of TicketEntry.
THEOREM HanaKeepsPromise == Hana!Spec => Hana!KeepsPromise
<1>1. Hana!Init => Hana!Promise!Init
  BY DEF Hana!Init, Hana!SiteInit, Hana!Promise!Init
<1>2. HanaInv /\ [Hana!Next]_(Hana!vars) => [Hana!Promise!Next]_(Hana!Promise!vars)
  BY DatedAssumption, YoungPage, HanaSimulates
<1> QED
  BY <1>1, <1>2, HanaInvariant, PTL DEF Hana!Spec, Hana!KeepsPromise, Hana!Promise!Spec

-------------------------------------------------------------------------------
\* Either of the two.

\* The entry at work keeps its invariant, the other has reported nothing.
DatedInv ==
  \/ site = "younganimal" /\ YoungInv /\ ~hReport.consumed
  \/ site = "hanayume" /\ HanaInv /\ ~yReport.consumed

LEMMA DatedInvariant == DatedSpec => []DatedInv
<1>1. Page!SiteAssumption
  BY DatedAssumption, YoungPage
<1>2. DatedInit => DatedInv
  <2> SUFFICES ASSUME DatedInit PROVE DatedInv
    OBVIOUS
  <2>1. YoungInv /\ HanaInv
    BY <1>1, InitYoung, InitHana DEF DatedInit
  <2>2. ~yReport.consumed /\ ~hReport.consumed
    BY DEF DatedInit, Young!Init, Young!NoReport, Hana!Init
  <2> QED
    BY <2>1, <2>2 DEF DatedInit, DatedInv
<1>3. ASSUME DatedInv, [DatedNext]_datedVars PROVE DatedInv'
  <2>1. \/ site = "younganimal" /\ [Young!Next]_(Young!vars) /\ UNCHANGED <<site, hReport>>
        \/ site = "hanayume" /\ [Hana!Next]_(Hana!vars) /\ UNCHANGED <<site, yReport>>
    BY <1>3 DEF DatedInv, DatedNext, datedVars, pageVars, youngVars, hanaVars, Young!vars,
       Young!siteVars, Young!entryVars, Hana!vars, Hana!siteVars, Hana!entryVars
  <2> QED
    BY <1>1, <1>3, <2>1, YoungStep, HanaStep DEF DatedInv
<1> QED
  BY <1>2, <1>3, PTL DEF DatedSpec

LEMMA DatedSimulates ==
  ASSUME DatedInv, [DatedNext]_datedVars
  PROVE  /\ [Young!Promise!Next]_(Young!Promise!vars)
         /\ [Hana!Promise!Next]_(Hana!Promise!vars)
<1>1. Page!SiteAssumption
  BY DatedAssumption, YoungPage
<1>2. CASE site = "younganimal"
  <2>1. [Young!Next]_(Young!vars) /\ UNCHANGED <<hActed, hReport, hResult>>
    BY <1>2 DEF DatedNext, datedVars, pageVars, youngVars, hanaVars, Young!vars,
       Young!siteVars, Young!entryVars
  <2>2. [Young!Promise!Next]_(Young!Promise!vars)
    BY <1>1, <1>2, <2>1, YoungSimulates DEF DatedInv
  <2>3. (~ticket)' = (~ticket) \/ (~ticket)' = TRUE
    BY <2>2 DEF Young!Promise!Next, Young!Promise!vars, Young!Promise!Act, Young!Promise!Spend,
       Young!Promise!Report, Young!Promise!End
  <2> QED
    BY <2>1, <2>2, <2>3 DEF Hana!Promise!Next, Hana!Promise!vars, Hana!Promise!Spend
<1>3. CASE site = "hanayume"
  <2>1. [Hana!Next]_(Hana!vars) /\ UNCHANGED <<yActed, yReport, yResult>>
    BY <1>3 DEF DatedNext, datedVars, pageVars, youngVars, hanaVars, Hana!vars,
       Hana!siteVars, Hana!entryVars
  <2>2. [Hana!Promise!Next]_(Hana!Promise!vars)
    BY <1>1, <1>3, <2>1, HanaSimulates DEF DatedInv
  <2>3. (~ticket)' = (~ticket) \/ (~ticket)' = TRUE
    BY <2>2 DEF Hana!Promise!Next, Hana!Promise!vars, Hana!Promise!Act, Hana!Promise!Spend,
       Hana!Promise!Report, Hana!Promise!End
  <2> QED
    BY <2>1, <2>2, <2>3 DEF Young!Promise!Next, Young!Promise!vars, Young!Promise!Spend
<1> QED
  BY <1>2, <1>3 DEF DatedInv

\* The property of the run, for either site (get_access_consumption).
THEOREM DatedReportedTimes ==
  ASSUME ~(Hollow /\ OwnerReads)
  PROVE  DatedSpec => []ReportedTimes
<1>1. Page!SiteAssumption
  BY DatedAssumption, YoungPage
<1>2. DatedInv => ReportedTimes
  BY <1>1, YoungTimes, HanaTimes
     DEF DatedInv, ReportedTimes, Young!ReportedTimes, Hana!ReportedTimes
<1> QED
  BY <1>2, DatedInvariant, PTL

\* Either entry implements TicketEntry, as the run checks it: one action, a report only
\* of a ticket that is gone, no silence about an action (initialize).
THEOREM DatedKeepsPromise == DatedSpec => EntriesKeepPromise
<1>1. DatedInit => Young!Promise!Init /\ Hana!Promise!Init
  BY DEF DatedInit, Young!Init, Young!SiteInit, Young!NoReport, Young!Promise!Init,
     Hana!Init, Hana!SiteInit, Hana!Promise!Init
<1>2. DatedInv /\ [DatedNext]_datedVars =>
        [Young!Promise!Next]_(Young!Promise!vars) /\ [Hana!Promise!Next]_(Hana!Promise!vars)
  BY DatedSimulates
<1> QED
  BY <1>1, <1>2, DatedInvariant, PTL
     DEF DatedSpec, EntriesKeepPromise, Young!KeepsPromise, Young!Promise!Spec,
         Hana!KeepsPromise, Hana!Promise!Spec
===============================================================================
