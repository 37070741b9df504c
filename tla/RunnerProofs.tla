------------------------------ MODULE RunnerProofs ------------------------------
(***************************************************************************)
(* What runs under the access guard keep, whenever a stop, a failure or a  *)
(* kill comes.  A run of the crawler: for every book, every page limit and *)
(* way to start, every viewer that turns late or repeats itself.  A pass   *)
(* of deferred grants: for every order of works and every attempt limit.   *)
(***************************************************************************)
EXTENDS CrawlerRunner, DeferredGrants, FiniteSetTheorems, SequenceTheorems, TLAPS

-------------------------------------------------------------------------------
(* The parts of a screen, in order.                                        *)

\* A set of numbers below a bound has a least one: no chain of numbers below one
\* another goes on for ever in a finite set.
LEMMA Least ==
  ASSUME NEW u \in Nat, NEW S \in SUBSET (1 .. u), S # {}
  PROVE  \E m \in S : \A k \in S : m <= k
<1> DEFINE Below(x) == {y \in S : y < x}
           Belows == {Below(x) : x \in S}
<1>0. IsFiniteSet(S)
  <2>1. IsFiniteSet(1 .. u)
    BY FS_Interval
  <2> QED
    BY <2>1, FS_Subset
<1>1. IsWellFoundedOn(StrictSubsetOrdering(S), FiniteSubsetsOf(S))
  BY FS_StrictSubsetOrderingWellFounded
<1>2. Belows \subseteq FiniteSubsetsOf(S)
  <2> SUFFICES ASSUME NEW x \in S PROVE Below(x) \in SUBSET S /\ IsFiniteSet(Below(x))
    BY DEF FiniteSubsetsOf
  <2>1. Below(x) \in SUBSET S
    OBVIOUS
  <2> QED
    BY <1>0, <2>1, FS_Subset
<1>3. Belows # {}
  OBVIOUS
<1>4. \E A \in Belows : \A B \in Belows : <<B, A>> \notin StrictSubsetOrdering(S)
  <2> HIDE DEF Belows
  <2> QED
    BY <1>1, <1>2, <1>3, WFMin
<1>5. PICK x \in S : \A y \in S : <<Below(y), Below(x)>> \notin StrictSubsetOrdering(S)
  BY <1>4
<1>6. ASSUME NEW y \in S PROVE x <= y
  <2>1. SUFFICES ASSUME y < x PROVE FALSE
    OBVIOUS
  <2>0. x \in Nat /\ y \in Nat /\ \A z \in S : z \in Nat
    OBVIOUS
  <2>2. Below(y) \subseteq Below(x) /\ y \in Below(x) /\ y \notin Below(y)
    <3>1. ASSUME NEW z \in S, z < y PROVE z < x
      BY <2>0, <2>1, <3>1
    <3>2. ~(y < y)
      BY <2>0
    <3> QED
      BY <2>1, <3>1, <3>2
  <2>3. Below(y) \in SUBSET S /\ Below(x) \in SUBSET S /\ Below(y) # Below(x)
    BY <2>2
  <2>4. <<Below(y), Below(x)>> \in StrictSubsetOrdering(S)
    BY <2>2, <2>3 DEF StrictSubsetOrdering
  <2> QED
    BY <2>4, <1>5
<1> QED
  BY <1>5, <1>6

UpTo(S, i) == {j \in S : j <= i}
Nth(S, n) == CHOOSE i \in S : Cardinality(UpTo(S, i)) = n

\* The numbers of a set can be counted up from its least one.
LEMMA NthIsThere ==
  ASSUME NEW u \in Nat, NEW S \in SUBSET (1 .. u), NEW n \in 1 .. Cardinality(S)
  PROVE  Nth(S, n) \in S /\ Cardinality(UpTo(S, Nth(S, n))) = n
<1>1. IsFiniteSet(S)
  <2>1. IsFiniteSet(1 .. u)
    BY FS_Interval
  <2> QED
    BY <2>1, FS_Subset
<1>2. \A i : IsFiniteSet(UpTo(S, i)) /\ Cardinality(UpTo(S, i)) \in Nat
  <2>1. \A i : UpTo(S, i) \in SUBSET S
    BY DEF UpTo
  <2> QED
    BY <1>1, <2>1, FS_Subset, FS_CardinalityType
<1> DEFINE Enough == {i \in 1 .. u : Cardinality(UpTo(S, i)) >= n}
<1>3. u \in Enough
  <2>1. UpTo(S, u) = S
    <3>1. \A j \in S : j <= u
      OBVIOUS
    <3> QED
      BY <3>1 DEF UpTo
  <2>2. Cardinality(S) \in Nat
    BY <1>1, FS_CardinalityType
  <2>3. S # {}
    BY <2>2, FS_EmptySet
  <2>4. u \in 1 .. u
    <3>1. PICK j \in S : TRUE
      BY <2>3
    <3> QED
      BY <3>1
  <2> QED
    BY <2>1, <2>2, <2>4
<1>4. PICK m \in Enough : \A k \in Enough : m <= k
  <2>1. Enough \in SUBSET (1 .. u) /\ Enough # {}
    BY <1>3
  <2> HIDE DEF Enough
  <2> QED
    BY <2>1, Least
<1>5. Cardinality(UpTo(S, m - 1)) < n
  <2>1. CASE m = 1
    <3>1. UpTo(S, m - 1) = {}
      <4>1. \A j \in S : ~(j <= m - 1)
        BY <2>1
      <4> QED
        BY <4>1 DEF UpTo
    <3> QED
      BY <3>1, FS_EmptySet
  <2>2. CASE m # 1
    <3>1. m - 1 \in 1 .. u /\ ~(m <= m - 1)
      BY <2>2
    <3>2. m - 1 \notin Enough
      BY <3>1, <1>4
    <3>3. Cardinality(UpTo(S, m - 1)) \in Nat /\ n \in Nat
      BY <1>2
    <3> QED
      BY <3>1, <3>2, <3>3
  <2> QED
    BY <2>1, <2>2
<1>6. m \in S
  <2>1. SUFFICES ASSUME m \notin S PROVE FALSE
    OBVIOUS
  <2>2. UpTo(S, m) = UpTo(S, m - 1)
    <3>1. \A j \in S : j <= m <=> j <= m - 1
      BY <2>1
    <3> QED
      BY <3>1 DEF UpTo
  <2>3. Cardinality(UpTo(S, m)) >= n
    BY <1>4
  <2>4. Cardinality(UpTo(S, m)) \in Nat /\ n \in Nat
    BY <1>2
  <2> QED
    BY <1>5, <2>2, <2>3, <2>4
<1>7. Cardinality(UpTo(S, m)) = Cardinality(UpTo(S, m - 1)) + 1
  <2>1. UpTo(S, m) = UpTo(S, m - 1) \cup {m} /\ m \notin UpTo(S, m - 1)
    <3>1. \A j \in S : j <= m <=> (j <= m - 1 \/ j = m)
      OBVIOUS
    <3>2. ~(m <= m - 1) /\ m <= m
      OBVIOUS
    <3> QED
      BY <1>6, <3>1, <3>2 DEF UpTo
  <2> QED
    BY <1>2, <2>1, FS_AddElement
<1>8. Cardinality(UpTo(S, m)) = n
  <2>1. Cardinality(UpTo(S, m)) >= n
    BY <1>4
  <2>2. Cardinality(UpTo(S, m - 1)) \in Nat /\ n \in Nat
    BY <1>2
  <2> QED
    BY <1>5, <1>7, <2>1, <2>2
<1> QED
  BY <1>6, <1>8 DEF Nth

\* What the parts that were grabbed and not saved before come to.
LEMMA FreshIsNew ==
  ASSUME ident \in Screens, grabbed \in Seq(STRING), saved \in Seq(Keys)
  PROVE  /\ Fresh \in Seq(Keys)
         /\ \A m, n \in DOMAIN Fresh : Fresh[m] = Fresh[n] => m = n
         /\ \A n \in DOMAIN Fresh : \A m \in DOMAIN saved : Fresh[n] # saved[m]
<1> DEFINE new == {i \in DOMAIN grabbed : \A n \in DOMAIN saved : saved[n] # Key(i)}
           u == Len(grabbed)
<1>1. u \in Nat /\ new \in SUBSET (1 .. u) /\ DOMAIN grabbed = 1 .. u
  OBVIOUS
<1>2. IsFiniteSet(new) /\ Cardinality(new) \in Nat
  <2>1. IsFiniteSet(1 .. u)
    BY <1>1, FS_Interval
  <2>2. IsFiniteSet(new)
    BY <1>1, <2>1, FS_Subset
  <2> QED
    BY <2>2, FS_CardinalityType
<1>3. Fresh = [n \in 1 .. Cardinality(new) |-> Key(Nth(new, n))]
  BY DEF Fresh, Nth, UpTo
<1>4. \A n \in 1 .. Cardinality(new) :
        Nth(new, n) \in new /\ Cardinality(UpTo(new, Nth(new, n))) = n
  <2> HIDE DEF new, u
  <2> QED
    BY <1>1, NthIsThere
<1>5. \A i \in new : Key(i) \in Keys /\ Key(i).index = i
                     /\ \A m \in DOMAIN saved : saved[m] # Key(i)
  <2> SUFFICES ASSUME NEW i \in new PROVE Key(i) \in Keys /\ Key(i).index = i
    OBVIOUS
  <2>1. i \in 1 .. u /\ grabbed[i] \in STRING /\ i \in Nat
    OBVIOUS
  <2> QED
    BY <2>1, <1>1 DEF Key, Keys
<1> HIDE DEF new, u
<1>6. DOMAIN Fresh = 1 .. Cardinality(new)
  BY <1>3
<1>7. \A n \in DOMAIN Fresh : Fresh[n] = Key(Nth(new, n))
  BY <1>3
<1>8. Fresh \in Seq(Keys)
  <2>1. Fresh \in [1 .. Cardinality(new) -> Keys]
    BY <1>3, <1>4, <1>5
  <2> QED
    BY <1>2, <2>1
<1>9. ASSUME NEW m \in DOMAIN Fresh, NEW n \in DOMAIN Fresh, Fresh[m] = Fresh[n]
      PROVE  m = n
  <2>1. Key(Nth(new, m)) = Key(Nth(new, n))
    BY <1>7, <1>9
  <2>2. Nth(new, m) = Nth(new, n)
    BY <2>1, <1>4, <1>5, <1>6
  <2> QED
    BY <2>2, <1>4, <1>6
<1>10. \A n \in DOMAIN Fresh : \A m \in DOMAIN saved : Fresh[n] # saved[m]
  BY <1>4, <1>5, <1>6, <1>7
<1> QED
  BY <1>8, <1>9, <1>10

-------------------------------------------------------------------------------
(* The control of a run: where it awaits, what it has been told.           *)

Begins == {"prepare", "configure", "resource", "navigate", "done"}

ControlOK ==
  /\ GuardTypeOK
  /\ at \in Screens /\ turns \in Nat
  /\ mode \in Modes /\ max_pages \in Limits
  /\ pc \in Calls \cup Local \cup {"done"}
  /\ then \in {"top", "initialize", "context0", "identity", "capture", "save", "advance"}
  /\ state \in Kinds /\ ident \in Screens /\ grabbed \in Seq(STRING)
  /\ tries \in 0..Retries /\ same \in 0..MaxSame
  /\ result \in Results
  \* A viewer that was not prepared shows nothing until the run navigates.
  /\ at = 0 => mode # "prepared" /\ pc \in Begins
  \* The last repeat that is allowed ends the run.
  /\ pc # "done" => same < MaxSame

LEMMA BookTyped ==
  ASSUME RunnerAssumption
  PROVE  /\ Len(Book) \in Nat \ {0}
         /\ \A n \in 1 .. Len(Book) : Book[n].kind \in Kinds /\ Book[n].parts \in Seq(STRING)
<1> DEFINE S == [kind : {"content", "ad", "end", "next_content"}, work : Nat, parts : Seq(STRING)]
<1>1. Book \in Seq(S) /\ Book # <<>>
  BY DEF RunnerAssumption
<1>2. \A s \in S : s.kind \in Kinds /\ s.parts \in Seq(STRING)
  BY DEF Kinds
<1> HIDE DEF S
<1>3. Len(Book) \in Nat \ {0}
  BY <1>1
<1>4. \A n \in 1 .. Len(Book) : Book[n] \in S
  BY <1>1
<1> QED
  BY <1>2, <1>3, <1>4

LEMMA ControlInit ==
  ASSUME RunnerAssumption, Init
  PROVE  ControlOK
<1>1. 0 \in Screens /\ 1 \in Screens
  BY BookTyped DEF Screens
<1>2. <<>> \in Seq(STRING)
  OBVIOUS
<1>3. 0 \in 0 .. Retries /\ 0 \in 0 .. MaxSame /\ 0 < MaxSame
  BY DEF RunnerAssumption
<1>4. GuardTypeOK
  BY DEF Init, GuardTypeOK
<1>5. pc \in Calls \cup Local \cup {"done"} /\ pc \in Begins
  BY DEF Init, Calls, Local, Begins
<1>6. /\ then \in {"top", "initialize", "context0", "identity", "capture", "save", "advance"}
      /\ state \in Kinds /\ result \in Results
  BY DEF Init, Kinds, Results
<1>7. at \in Screens /\ (at = 0 => mode # "prepared")
  BY <1>1 DEF Init
<1>8. turns \in Nat /\ mode \in Modes /\ max_pages \in Limits
  BY DEF Init
<1>9. ident \in Screens /\ grabbed \in Seq(STRING) /\ tries \in 0..Retries /\ same \in 0..MaxSame
      /\ same < MaxSame
  BY <1>1, <1>2, <1>3 DEF Init
<1> QED
  BY <1>4, <1>5, <1>6, <1>7, <1>8, <1>9 DEF ControlOK

\* Where a step of the run leaves it.
Moved ==
  /\ pc' \in Calls \cup Local \cup {"done"}
  /\ then' \in {"top", "initialize", "context0", "identity", "capture", "save", "advance"}
  /\ answer' \in {"none", "ok", "raised"} /\ heard' \in BOOLEAN /\ watching' \in BOOLEAN
  /\ result' \in Results

LEMMA AwaitMoves ==
  ASSUME ControlOK, NEW call \in Calls, Await(call)
  PROVE  Moved /\ pc' = call
BY DEF ControlOK, GuardTypeOK, Await, BeginCall, Stopped, Moved

LEMMA GotoMoves ==
  ASSUME ControlOK, NEW step \in Local, Goto(step)
  PROVE  Moved /\ pc' = step
BY DEF ControlOK, GuardTypeOK, Goto, callVars, Moved

LEMMA CheckMoves ==
  ASSUME ControlOK,
         NEW step \in {"top", "initialize", "context0", "identity", "capture", "save", "advance"},
         CheckThen(step)
  PROVE  Moved /\ pc' = "check"
BY DEF ControlOK, GuardTypeOK, CheckThen, callVars, Moved, Local

LEMMA EndMoves ==
  ASSUME ControlOK, NEW how \in Results, End(how)
  PROVE  Moved /\ pc' = "done"
BY DEF ControlOK, GuardTypeOK, End, callVars, Moved

\* What was looked at stays as it is.
Kept == UNCHANGED <<challenged, stop, viewVars, runVars, state, ident, grabbed>>

LEMMA ControlKept ==
  ASSUME ControlOK, Moved, Kept, UNCHANGED <<tries, same>>, at # 0 \/ pc' \in Begins
  PROVE  pc # "done" => ControlOK'
BY DEF ControlOK, GuardTypeOK, Moved, Kept, viewVars, runVars

LEMMA ControlEnter ==
  ASSUME ControlOK, Enter
  PROVE  ControlOK'
<1>1. PICK call \in {"prepare", "configure", "resource"} :
        /\ Accept(call)
        /\ IF StepAfter(call) = "navigate" THEN Goto("navigate") ELSE Await(StepAfter(call))
        /\ UNCHANGED <<tries, same>>
  BY DEF Enter
<1>2. Kept /\ pc = call /\ pc # "done"
  BY <1>1 DEF Accept, Kept
<1>3. StepAfter(call) \in {"configure", "resource", "navigate"} \/ (mode = "prepared" /\ StepAfter(call) = "adopt")
  BY DEF StepAfter, Prepared
<1>4. Moved /\ pc' = StepAfter(call)
  BY <1>1, <1>3, AwaitMoves, GotoMoves DEF Calls, Local
<1>5. at # 0 \/ pc' \in Begins
  BY <1>3, <1>4 DEF ControlOK, Begins
<1> QED
  BY <1>1, <1>2, <1>4, <1>5, ControlKept

LEMMA ControlNavigate ==
  ASSUME RunnerAssumption, ControlOK, Navigate
  PROVE  ControlOK'
<1>1. Moved /\ pc' = "check"
  BY CheckMoves DEF Navigate
<1>2. 1 \in Screens
  BY BookTyped DEF Screens
<1> QED
  BY <1>1, <1>2 DEF ControlOK, GuardTypeOK, Navigate, Moved, Quiet, seenVars, runVars

LEMMA ControlEntered ==
  ASSUME ControlOK, Entered
  PROVE  ControlOK'
<1>1. Kept /\ pc \in {"adopt", "initialize", "context0"} /\ UNCHANGED <<tries, same>>
  BY DEF Entered, Accept, Kept
<1>2. Moved
  BY CheckMoves DEF Entered
<1>3. at # 0 /\ pc # "done"
  BY <1>1 DEF ControlOK, Begins
<1> QED
  BY <1>1, <1>2, <1>3, ControlKept

LEMMA ControlCheck ==
  ASSUME RunnerAssumption, ControlOK, Check
  PROVE  ControlOK'
<1>1. Moved
  <2>1. CASE Stopped'
    BY <2>1, EndMoves DEF Check, Results
  <2>2. CASE ~Stopped'
    <3>1. CASE then \in {"top", "identity"}
      BY <2>2, <3>1, EndMoves, AwaitMoves DEF Check, Results, Calls
    <3>2. CASE then \in {"initialize", "context0", "capture", "save", "advance"}
      BY <2>2, <3>2, AwaitMoves DEF Check, Calls
    <3> QED
      BY <3>1, <3>2 DEF ControlOK
  <2> QED
    BY <2>1, <2>2
<1>2. stop' \in Reasons \cup {"none"}
  BY DEF Check, LooksAtPage, StopFor, ControlOK, GuardTypeOK, Reasons
<1>3. tries' \in 0 .. Retries
  BY DEF Check, ControlOK, RunnerAssumption
<1>4. at # 0 /\ same < MaxSame
  BY DEF Check, ControlOK, Begins
<1>5. UNCHANGED <<challenged, at, turns, mode, max_pages, state, ident, grabbed, same>>
  BY DEF Check, viewVars, runVars
<1> QED
  BY <1>1, <1>2, <1>3, <1>4, <1>5 DEF ControlOK, GuardTypeOK, Moved

LEMMA ControlDetect ==
  ASSUME RunnerAssumption, ControlOK, Detect
  PROVE  ControlOK'
<1>1. Kept /\ pc = "detect" /\ UNCHANGED same
  BY DEF Detect, Accept, Kept
<1>2. Branch => Moved
  BY EndMoves, CheckMoves, AwaitMoves DEF Branch, Results, Calls
<1>3. Moved
  BY <1>2, EndMoves, AwaitMoves DEF Detect, Results, Calls
<1>4. tries' \in 0 .. Retries
  BY DEF Detect, ControlOK, RunnerAssumption
<1>5. at # 0 /\ same < MaxSame
  BY <1>1 DEF ControlOK, Begins
<1> QED
  BY <1>1, <1>3, <1>4, <1>5 DEF ControlOK, GuardTypeOK, Moved, Kept, viewVars, runVars

LEMMA ControlIdentify ==
  ASSUME ControlOK, Identify
  PROVE  ControlOK'
<1>1. Kept /\ pc \in {"context", "identity"} /\ UNCHANGED <<tries, same>>
  BY DEF Identify, Accept, Kept
<1>2. Moved
  BY CheckMoves DEF Identify
<1>3. at # 0 /\ pc # "done"
  BY <1>1 DEF ControlOK, Begins
<1> QED
  BY <1>1, <1>2, <1>3, ControlKept

LEMMA ControlCapture ==
  ASSUME ControlOK, Capture
  PROVE  ControlOK'
<1>1. Kept /\ pc \in {"capture", "targets", "cleanup"} /\ UNCHANGED <<tries, same>>
  BY DEF Capture, Accept, Kept, Quiet, seenVars
<1>2. Moved
  BY CheckMoves, AwaitMoves, GotoMoves, EndMoves DEF Capture, Calls, Local, Results
<1>3. at # 0 /\ pc # "done"
  BY <1>1 DEF ControlOK, Begins
<1> QED
  BY <1>1, <1>2, <1>3, ControlKept

LEMMA ControlShoot ==
  ASSUME ControlOK, Shoot
  PROVE  ControlOK'
<1>1. Moved
  BY AwaitMoves DEF Shoot, Calls
<1>2. grabbed' \in Seq(STRING)
  <2>1. <<>> \in Seq(STRING)
    OBVIOUS
  <2> QED
    BY <2>1 DEF Shoot, ControlOK
<1>3. UNCHANGED <<challenged, stop, at, turns, mode, max_pages, state, ident, tries, same>>
  BY DEF Shoot, viewVars, runVars
<1>4. at # 0 /\ same < MaxSame
  BY DEF Shoot, ControlOK, Begins
<1> QED
  BY <1>1, <1>2, <1>3, <1>4 DEF ControlOK, GuardTypeOK, Moved

LEMMA ControlSelect ==
  ASSUME RunnerAssumption, ControlOK, Select
  PROVE  ControlOK'
<1>1. Kept /\ pc = "debug" /\ UNCHANGED tries
  BY DEF Select, Accept, Kept
<1>2. Moved
  BY EndMoves, AwaitMoves, GotoMoves DEF Select, Results, Calls, Local
<1>3. at # 0 /\ same < MaxSame
  BY <1>1 DEF ControlOK, Begins
<1>4. same' \in 0 .. MaxSame /\ (pc' # "done" => same' < MaxSame)
  <2>1. CASE Fresh = <<>>
    <3>1. same' = same + 1 /\ (IF same + 1 >= MaxSame THEN End("timeout") ELSE Await("repeat"))
      BY <2>1 DEF Select, Repeats, Exhausted
    <3>2. MaxSame \in Nat /\ same \in Nat
      BY DEF RunnerAssumption, ControlOK
    <3>3. pc' # "done" => ~(same + 1 >= MaxSame)
      BY <3>1 DEF End
    <3> QED
      BY <1>3, <3>1, <3>2, <3>3
  <2>2. CASE Fresh # <<>>
    BY <2>2 DEF Select, RunnerAssumption
  <2> QED
    BY <2>1, <2>2
<1> QED
  BY <1>1, <1>2, <1>3, <1>4 DEF ControlOK, GuardTypeOK, Moved, Kept, viewVars, runVars

LEMMA ControlSave ==
  ASSUME ControlOK, SavePage \/ FlushManifest \/ FlushProgress
  PROVE  ControlOK'
<1>1. Kept /\ UNCHANGED <<tries, same>> /\ pc # "done" /\ at # 0
  BY DEF SavePage, FlushManifest, FlushProgress, SaveVars, Kept, guardVars, seenVars,
         ControlOK, Begins
<1>2. Moved
  BY DEF SavePage, FlushManifest, FlushProgress, SaveVars, guardVars, callVars, Moved,
         ControlOK, GuardTypeOK, Local, Results
<1> QED
  BY <1>1, <1>2, ControlKept

LEMMA ControlAdvance ==
  ASSUME ControlOK, Pace \/ Advance
  PROVE  ControlOK'
<1>1. Kept /\ pc \in {"pace", "advance", "change", "repeat"} /\ UNCHANGED <<tries, same>>
  BY DEF Pace, Advance, Accept, Kept, Quiet, seenVars
<1>2. Moved
  BY CheckMoves, AwaitMoves DEF Pace, Advance, Calls
<1>3. at # 0 /\ pc # "done"
  BY <1>1 DEF ControlOK, Begins
<1> QED
  BY <1>1, <1>2, <1>3, ControlKept

LEMMA ControlEnds ==
  ASSUME ControlOK, StopRaises \/ CallFails \/ Raises \/ Kill
  PROVE  ControlOK'
<1>1. UNCHANGED <<challenged, stop, at, turns, mode, max_pages, state, ident, grabbed, tries, same>>
  BY DEF StopRaises, CallFails, Raises, Kill, Quiet, viewVars, runVars, seenVars
<1>2. Moved /\ pc' = "done"
  <2>1. CASE StopRaises \/ CallFails \/ Raises
    BY <2>1, EndMoves DEF StopRaises, CallFails, Raises, Results
  <2>2. CASE Kill
    BY <2>2 DEF Kill, Moved, callVars, ControlOK, GuardTypeOK, Results
  <2> QED
    BY <2>1, <2>2
<1> QED
  BY <1>1, <1>2 DEF ControlOK, GuardTypeOK, Moved, Begins

LEMMA ControlLoop ==
  ASSUME ControlOK, Loop
  PROVE  ControlOK'
<1>1. GuardTypeOK'
  <2>1. CASE Hear
    BY <2>1 DEF Hear, guardVars, ControlOK, GuardTypeOK
  <2>2. CASE Observe
    <3>1. challenged' \in BOOLEAN /\ stop' \in Reasons \cup {"none"}
      BY <2>2 DEF Observe, Monitor, Challenge, Refuse, LooksAtPage, StopFor, Reasons, Refusals,
                  ControlOK, GuardTypeOK
    <3>2. UNCHANGED <<watching, answer, heard>>
      BY <2>2 DEF Observe, Monitor, Challenge, Refuse, callVars
    <3> QED
      BY <3>1, <3>2 DEF ControlOK, GuardTypeOK
  <2> QED
    BY <2>1, <2>2 DEF Loop
<1> QED
  BY <1>1 DEF Loop, ControlOK, viewVars, runVars, seenVars

LEMMA ControlTurn ==
  ASSUME RunnerAssumption, ControlOK, Turn
  PROVE  ControlOK'
<1>1. at' \in Screens /\ at' # 0 /\ turns' \in Nat
  <2>1. at \in 1 .. Len(Book) /\ turns \in Nat /\ turns > 0 /\ turns' = turns - 1
    BY DEF Turn, ControlOK, Begins, Screens
  <2>2. at' = at \/ (at < Len(Book) /\ at' = at + 1)
    BY DEF Turn
  <2>3. Len(Book) \in Nat
    BY BookTyped
  <2> QED
    BY <2>1, <2>2, <2>3 DEF Screens
<1>2. UNCHANGED <<challenged, stop, watching, answer, heard, mode, max_pages, pc, then, state,
                  ident, grabbed, tries, same, result>>
  BY DEF Turn, guardVars, callVars, runVars, seenVars
<1> QED
  BY <1>1, <1>2 DEF ControlOK, GuardTypeOK

LEMMA ControlAnswer ==
  ASSUME RunnerAssumption, ControlOK, Answer
  PROVE  ControlOK'
<1>1. UNCHANGED <<challenged, stop, watching, heard, at, mode, max_pages, pc, then, tries, same,
                  result>>
  BY DEF Answer, guardVars, runVars
<1>2. answer' \in {"none", "ok", "raised"}
  BY DEF Answer
<1>3. CASE UNCHANGED <<state, ident, grabbed, turns>>
  BY <1>1, <1>2, <1>3 DEF ControlOK, GuardTypeOK
<1>4. CASE Answers
  <2>1. pc \in {"detect", "identity", "capture", "targets", "advance"} =>
          Shown.kind \in Kinds /\ Shown.parts \in Seq(STRING)
    BY BookTyped DEF ControlOK, Begins, Screens, Shown
  <2>2. state' \in Kinds
    BY <1>4, <2>1 DEF Answers, ControlOK, Kinds
  <2>3. ident' \in Screens
    BY <1>4 DEF Answers, ControlOK
  <2>4. grabbed' \in Seq(STRING)
    BY <1>4, <2>1 DEF Answers, ControlOK
  <2>5. turns' \in Nat
    BY <1>4 DEF Answers, ControlOK
  <2> QED
    BY <1>1, <1>2, <2>2, <2>3, <2>4, <2>5 DEF ControlOK, GuardTypeOK
<1> QED
  BY <1>3, <1>4 DEF Answer

LEMMA ControlNext ==
  ASSUME RunnerAssumption, ControlOK, [Next]_vars
  PROVE  ControlOK'
<1>1. CASE UNCHANGED vars
  BY <1>1 DEF vars, guardVars, callVars, viewVars, runVars, seenVars, ControlOK, GuardTypeOK
<1>2. CASE Runner
  BY <1>2, ControlEnter, ControlNavigate, ControlEntered, ControlCheck, ControlDetect,
     ControlIdentify, ControlCapture, ControlShoot, ControlSelect, ControlSave, ControlAdvance,
     ControlEnds DEF Runner
<1>3. CASE Loop \/ Turn \/ Answer \/ Kill
  BY <1>3, ControlLoop, ControlTurn, ControlAnswer, ControlEnds
<1> QED
  BY <1>1, <1>2, <1>3 DEF Next

-------------------------------------------------------------------------------
(* The pages of a run: what it keeps in memory and what it has written.    *)

Distinct(s) == \A m, n \in DOMAIN s : s[m] = s[n] => m = n

PagesOK ==
  /\ saved \in Seq(Keys) /\ batch \in Seq(Keys) /\ written \in 0..Len(batch)
  /\ files \in Seq(Keys) /\ manifest \in Seq(Keys) /\ progress \in Nat
  /\ ManifestHolds /\ NoPageTwice
  \* Memory is behind the disk only between the two files of a flush.
  /\ pc \notin {"flush", "done"} => manifest = saved
  \* The files of the keys being saved follow those of the saved ones.
  /\ pc = "saving" =>
       /\ Len(saved) + written <= Len(files)
       /\ \A n \in 1 .. written : files[Len(saved) + n] = batch[n]
       /\ Distinct(batch)
       /\ \A n \in DOMAIN batch : \A m \in DOMAIN saved : batch[n] # saved[m]

LEMMA PagesInit ==
  ASSUME Init
  PROVE  PagesOK
<1>1. <<>> \in Seq(Keys) /\ Len(<<>>) = 0 /\ DOMAIN <<>> = {}
  OBVIOUS
<1> QED
  BY <1>1 DEF Init, PagesOK, ManifestHolds, NoPageTwice

LEMMA PagesKept ==
  ASSUME PagesOK, UNCHANGED <<saveVars, diskVars>>,
         \/ pc' = pc
         \/ pc' # "saving" /\ pc \notin {"flush", "done"}
         \/ pc' = "done"
  PROVE  PagesOK'
<1>1. UNCHANGED <<saved, batch, written, files, manifest, progress>>
  BY DEF saveVars, diskVars
<1>2. pc' \notin {"flush", "done"} => pc \notin {"flush", "done"}
  OBVIOUS
<1>3. pc' = "saving" => pc = "saving"
  OBVIOUS
<1>4. ManifestHolds' /\ NoPageTwice'
  BY <1>1 DEF PagesOK, ManifestHolds, NoPageTwice
<1> QED
  BY <1>1, <1>2, <1>3, <1>4 DEF PagesOK, Distinct

LEMMA PagesSelect ==
  ASSUME ControlOK, PagesOK, Select
  PROVE  PagesOK'
<1>1. pc = "debug" /\ manifest = saved
  BY DEF Select, Accept, PagesOK
<1>2. UNCHANGED <<saved, files, manifest, progress>>
  BY DEF Select, diskVars
<1>3. CASE Fresh = <<>>
  <2>1. UNCHANGED <<saveVars, diskVars>> /\ pc' # "saving"
    BY <1>2, <1>3 DEF Select, saveVars, diskVars, End, Await
  <2> QED
    BY <1>1, <2>1, PagesKept
<1>4. CASE Fresh # <<>>
  <2>1. batch' = Fresh /\ written' = 0 /\ pc' = "saving"
    BY <1>4 DEF Select, Goto
  <2>2. /\ Fresh \in Seq(Keys)
        /\ \A m, n \in DOMAIN Fresh : Fresh[m] = Fresh[n] => m = n
        /\ \A n \in DOMAIN Fresh : \A m \in DOMAIN saved : Fresh[n] # saved[m]
    BY FreshIsNew DEF ControlOK, PagesOK
  <2>3. ManifestHolds' /\ NoPageTwice'
    BY <1>2 DEF PagesOK, ManifestHolds, NoPageTwice
  <2>4. 0 \in 0 .. Len(Fresh) /\ Len(saved) + 0 <= Len(files) /\ 1 .. 0 = {}
    <3>1. Len(Fresh) \in Nat /\ Len(saved) \in Nat /\ Len(files) \in Nat
      BY <2>2 DEF PagesOK
    <3>2. Len(saved) <= Len(files)
      BY <1>1 DEF PagesOK, ManifestHolds
    <3> QED
      BY <3>1, <3>2
  <2>5. Distinct(Fresh)
    BY <2>2 DEF Distinct
  <2> HIDE DEF Fresh
  <2> QED
    BY <1>1, <1>2, <2>1, <2>2, <2>3, <2>4, <2>5 DEF PagesOK
<1> QED
  BY <1>3, <1>4

LEMMA PagesSave ==
  ASSUME PagesOK, SavePage
  PROVE  PagesOK'
<1>1. pc = "saving" /\ written < Len(batch) /\ manifest = saved
  BY DEF SavePage, PagesOK
<1>2. UNCHANGED <<saved, batch, manifest, progress>>
  BY DEF SavePage
<1>3. CASE Len(saved) + written >= max_pages
  <2>1. UNCHANGED <<saveVars, diskVars>> /\ pc' = "done"
    BY <1>2, <1>3 DEF SavePage, saveVars, diskVars
  <2> QED
    BY <2>1, PagesKept
<1>4. CASE ~(Len(saved) + written >= max_pages)
  <2> DEFINE top == Len(saved) + written + 1
             f == [n \in 1 .. top |-> IF n = top THEN batch[written + 1] ELSE files[n]]
  <2>1. files' = f /\ written' = written + 1 /\ pc' = "saving"
    BY <1>1, <1>4 DEF SavePage
  <2>2. /\ Len(saved) \in Nat /\ Len(files) \in Nat /\ Len(batch) \in Nat /\ written \in Nat
        /\ Len(saved) + written <= Len(files)
        /\ \A n \in 1 .. Len(files) : files[n] \in Keys
        /\ \A n \in 1 .. Len(batch) : batch[n] \in Keys
    BY <1>1 DEF PagesOK
  <2>3. top \in Nat /\ written + 1 \in 1 .. Len(batch)
    BY <1>1, <2>2
  <2>4. f \in Seq(Keys) /\ Len(f) = top /\ \A n \in 1 .. top - 1 : f[n] = files[n]
    <3>1. \A n \in 1 .. top : (n = top \/ n \in 1 .. Len(files))
      BY <2>2
    <3>2. f \in [1 .. top -> Keys]
      BY <2>2, <2>3, <3>1
    <3> QED
      BY <2>3, <3>2
  <2>5. f[top] = batch[written + 1]
    <3>1. top \in 1 .. top
      BY <2>2
    <3> QED
      BY <3>1
  <2>6. \A n \in 1 .. written + 1 : f[Len(saved) + n] = batch[n]
    <3> SUFFICES ASSUME NEW n \in 1 .. written + 1 PROVE f[Len(saved) + n] = batch[n]
      OBVIOUS
    <3>1. CASE n = written + 1
      BY <2>2, <2>5, <3>1
    <3>2. CASE n # written + 1
      <4>1. n \in 1 .. written /\ Len(saved) + n \in 1 .. top - 1
        BY <2>2, <3>2
      <4>2. files[Len(saved) + n] = batch[n]
        BY <1>1, <4>1 DEF PagesOK
      <4> HIDE DEF f
      <4> QED
        BY <2>4, <4>1, <4>2
    <3> QED
      BY <3>1, <3>2
  <2>7. ManifestHolds'
    <3>1. Len(manifest) <= top - 1 /\ Len(manifest) <= top
      BY <1>1, <2>2
    <3>2. \A n \in DOMAIN manifest : f[n] = manifest[n]
      <4>1. \A n \in DOMAIN manifest : n \in 1 .. top - 1
        BY <1>1, <2>2, <3>1 DEF PagesOK
      <4> HIDE DEF f, top
      <4> QED
        BY <2>4, <4>1 DEF PagesOK, ManifestHolds
    <3> HIDE DEF f, top
    <3> QED
      BY <1>2, <2>1, <2>4, <3>1, <3>2 DEF PagesOK, ManifestHolds
  <2>8. NoPageTwice'
    BY <1>2 DEF PagesOK, NoPageTwice
  <2>9. /\ saved' \in Seq(Keys) /\ batch' \in Seq(Keys) /\ manifest' \in Seq(Keys)
        /\ progress' \in Nat /\ manifest' = saved' /\ Distinct(batch')
        /\ \A n \in DOMAIN batch' : \A m \in DOMAIN saved' : batch'[n] # saved'[m]
    BY <1>1, <1>2 DEF PagesOK
  <2>10. written' \in 0 .. Len(batch') /\ Len(saved') + written' <= Len(f)
    <3> HIDE DEF f
    <3> QED
      BY <1>2, <2>1, <2>2, <2>3, <2>4
  <2>11. \A n \in 1 .. written' : f[Len(saved') + n] = batch'[n]
    <3> HIDE DEF f
    <3> QED
      BY <1>2, <2>1, <2>6
  <2> HIDE DEF f
  <2> QED
    BY <2>1, <2>4, <2>7, <2>8, <2>9, <2>10, <2>11 DEF PagesOK
<1> QED
  BY <1>3, <1>4

LEMMA PagesFlush ==
  ASSUME PagesOK, FlushManifest \/ FlushProgress
  PROVE  PagesOK'
<1>1. CASE FlushManifest
  <2> DEFINE all == saved \o batch
  <2>1. /\ pc = "saving" /\ written = Len(batch) /\ manifest = saved
        /\ manifest' = all /\ pc' = "flush"
        /\ UNCHANGED <<saved, batch, written, files, progress>>
    BY <1>1 DEF FlushManifest, AllWritten, saveVars, PagesOK
  <2>0. /\ saved \in Seq(Keys) /\ batch \in Seq(Keys) /\ files \in Seq(Keys) /\ progress \in Nat
        /\ written \in 0 .. Len(batch)
        /\ DOMAIN saved = 1 .. Len(saved) /\ DOMAIN batch = 1 .. Len(batch)
    BY DEF PagesOK
  <2>2. /\ Len(saved) + Len(batch) <= Len(files) /\ progress <= Len(saved)
        /\ \A n \in 1 .. Len(saved) : files[n] = saved[n]
        /\ \A n \in 1 .. Len(batch) : files[Len(saved) + n] = batch[n]
        /\ \A m, n \in 1 .. Len(saved) : saved[m] = saved[n] => m = n
        /\ \A m, n \in 1 .. Len(batch) : batch[m] = batch[n] => m = n
        /\ \A n \in 1 .. Len(batch) : \A m \in 1 .. Len(saved) : batch[n] # saved[m]
    <3>1. /\ progress <= Len(saved)
          /\ \A n \in 1 .. Len(saved) : files[n] = saved[n]
          /\ \A m, n \in 1 .. Len(saved) : saved[m] = saved[n] => m = n
      BY <2>0, <2>1 DEF PagesOK, ManifestHolds, NoPageTwice
    <3>2. /\ Len(saved) + Len(batch) <= Len(files)
          /\ \A n \in 1 .. Len(batch) : files[Len(saved) + n] = batch[n]
          /\ \A n \in 1 .. Len(batch) : \A m \in 1 .. Len(saved) : batch[n] # saved[m]
      BY <2>0, <2>1 DEF PagesOK
    <3>3. \A m, n \in 1 .. Len(batch) : batch[m] = batch[n] => m = n
      BY <2>0, <2>1 DEF PagesOK, Distinct
    <3> QED
      BY <3>1, <3>2, <3>3
  <2>3. all \in Seq(Keys) /\ Len(all) = Len(saved) + Len(batch) /\ DOMAIN all = 1 .. Len(all)
    BY <2>0
  <2>4. \A n \in 1 .. Len(all) :
          \/ n \in 1 .. Len(saved) /\ all[n] = saved[n]
          \/ n - Len(saved) \in 1 .. Len(batch) /\ all[n] = batch[n - Len(saved)]
    BY <2>0, <2>2
  <2> HIDE DEF all
  <2>5. \A n \in 1 .. Len(all) : files[n] = all[n]
    <3> SUFFICES ASSUME NEW n \in 1 .. Len(all) PROVE files[n] = all[n]
      OBVIOUS
    <3>1. CASE n \in 1 .. Len(saved) /\ all[n] = saved[n]
      BY <2>0, <2>2, <3>1
    <3>2. CASE n - Len(saved) \in 1 .. Len(batch) /\ all[n] = batch[n - Len(saved)]
      <4>1. Len(saved) + (n - Len(saved)) = n
        BY <2>0, <2>2
      <4> QED
        BY <2>0, <2>2, <3>2, <4>1
    <3> QED
      BY <2>4, <3>1, <3>2
  <2>6. \A m, n \in 1 .. Len(all) : all[m] = all[n] => m = n
    <3> SUFFICES ASSUME NEW m \in 1 .. Len(all), NEW n \in 1 .. Len(all), all[m] = all[n]
                 PROVE m = n
      OBVIOUS
    <3> DEFINE InSaved(k) == k \in 1 .. Len(saved) /\ all[k] = saved[k]
               InBatch(k) == k - Len(saved) \in 1 .. Len(batch) /\ all[k] = batch[k - Len(saved)]
    <3>1. CASE InSaved(m) /\ InSaved(n)
      BY <2>0, <2>2, <3>1
    <3>2. CASE InBatch(m) /\ InBatch(n)
      <4>1. m - Len(saved) = n - Len(saved)
        BY <2>0, <2>2, <3>2
      <4> QED
        BY <2>0, <2>2, <4>1
    <3>3. CASE InSaved(m) /\ InBatch(n)
      <4>1. batch[n - Len(saved)] # saved[m]
        BY <2>2, <3>3
      <4> QED
        BY <3>3, <4>1
    <3>4. CASE InBatch(m) /\ InSaved(n)
      <4>1. batch[m - Len(saved)] # saved[n]
        BY <2>2, <3>4
      <4> QED
        BY <3>4, <4>1
    <3> QED
      BY <2>4, <3>1, <3>2, <3>3, <3>4
  <2>7. ManifestHolds' /\ NoPageTwice'
    <3>1. progress <= Len(all) /\ Len(all) <= Len(files)
      BY <2>0, <2>2, <2>3
    <3> QED
      BY <2>1, <2>3, <2>5, <2>6, <3>1 DEF ManifestHolds, NoPageTwice
  <2> QED
    BY <2>0, <2>1, <2>2, <2>3, <2>7 DEF PagesOK
<1>2. CASE FlushProgress
  <2>1. /\ pc = "flush" /\ pc' = "pace" /\ progress' = Len(manifest) /\ saved' = manifest
        /\ batch' = <<>> /\ written' = 0 /\ UNCHANGED <<files, manifest>>
    BY <1>2 DEF FlushProgress
  <2>2. <<>> \in Seq(Keys) /\ 0 \in 0 .. Len(<<>>)
    OBVIOUS
  <2>3. Len(manifest) \in Nat /\ Len(manifest) <= Len(manifest)
    BY DEF PagesOK
  <2>4. ManifestHolds' /\ NoPageTwice'
    BY <2>1, <2>3 DEF PagesOK, ManifestHolds, NoPageTwice
  <2> QED
    BY <2>1, <2>2, <2>3, <2>4 DEF PagesOK
<1> QED
  BY <1>1, <1>2

LEMMA PagesNext ==
  ASSUME ControlOK, PagesOK, [Next]_vars
  PROVE  PagesOK'
<1>1. CASE UNCHANGED vars
  BY <1>1, PagesKept DEF vars, saveVars, diskVars
<1>2. CASE Enter \/ Entered
  <2>1. UNCHANGED <<saveVars, diskVars>> /\ pc \notin {"flush", "done"} /\ pc' # "saving"
    BY <1>2 DEF Enter, Entered, Accept, StepAfter, Await, Goto, CheckThen
  <2> QED
    BY <2>1, PagesKept
<1>3. CASE Navigate \/ Pace
  <2>1. UNCHANGED <<saveVars, diskVars>> /\ pc \notin {"flush", "done"} /\ pc' # "saving"
    BY <1>3 DEF Navigate, Pace, Quiet, CheckThen
  <2> QED
    BY <2>1, PagesKept
<1>4. CASE Check
  <2>1. UNCHANGED <<saveVars, diskVars>> /\ pc \notin {"flush", "done"}
    BY <1>4 DEF Check
  <2>2. pc' # "saving"
    <3>1. CASE Stopped'
      BY <1>4, <3>1 DEF Check, End
    <3>2. CASE ~Stopped'
      BY <1>4, <3>2 DEF Check, End, Await, ControlOK
    <3> QED
      BY <3>1, <3>2
  <2> QED
    BY <2>1, <2>2, PagesKept
<1>5. CASE Detect \/ Identify
  <2>1. UNCHANGED <<saveVars, diskVars>> /\ pc \notin {"flush", "done"} /\ pc' # "saving"
    BY <1>5 DEF Detect, Identify, Branch, Accept, Await, CheckThen, End
  <2> QED
    BY <2>1, PagesKept
<1>6. CASE Capture \/ Shoot
  <2>1. UNCHANGED <<saveVars, diskVars>> /\ pc \notin {"flush", "done"} /\ pc' # "saving"
    BY <1>6 DEF Capture, Shoot, Quiet, Accept, Await, Goto, CheckThen, End
  <2> QED
    BY <2>1, PagesKept
<1>7. CASE Advance
  <2>1. UNCHANGED <<saveVars, diskVars>> /\ pc \notin {"flush", "done"} /\ pc' # "saving"
    BY <1>7 DEF Advance, Accept, Await, CheckThen
  <2> QED
    BY <2>1, PagesKept
<1>8. CASE StopRaises \/ CallFails \/ Raises \/ Kill
  <2>1. UNCHANGED <<saveVars, diskVars>> /\ pc' = "done"
    BY <1>8 DEF StopRaises, CallFails, Raises, Kill, Quiet, End
  <2> QED
    BY <2>1, PagesKept
<1>9. CASE Loop \/ Turn \/ Answer
  <2>1. UNCHANGED <<saveVars, diskVars, pc>>
    BY <1>9 DEF Loop, Turn, Answer
  <2> QED
    BY <2>1, PagesKept
<1> QED
  BY <1>1, <1>2, <1>3, <1>4, <1>5, <1>6, <1>7, <1>8, <1>9, PagesSelect, PagesSave, PagesFlush
     DEF Next, Runner

-------------------------------------------------------------------------------
(* Stops.                                                                  *)

\* The call that was about to return is the last one that is believed: the
\* waiter of every later one is done from its beginning.
LastAnswer ==
  \/ late = 0
  \/ late = 1 /\ Stopped /\ (pc \in Calls => heard)

LEMMA LastKept ==
  ASSUME LastAnswer, UNCHANGED late, Stopped => Stopped',
         Stopped /\ pc' \in Calls => heard' \/ (pc \in Calls /\ (heard => heard'))
  PROVE  LastAnswer'
BY DEF LastAnswer

LEMMA LastAccepted ==
  ASSUME LastAnswer, NEW call \in Calls, Accept(call),
         Stopped /\ pc' \in Calls => heard'
  PROVE  LastAnswer'
<1>1. pc \in Calls /\ ~heard /\ Stopped' = Stopped
  BY DEF Accept, FoundAnswer, FoundStop, Stopped
<1>2. late = 0
  BY <1>1 DEF LastAnswer
<1>3. late' = IF Stopped THEN 1 ELSE 0
  BY <1>2 DEF Accept
<1> QED
  BY <1>1, <1>3 DEF LastAnswer

LEMMA AwaitHears ==
  ASSUME NEW call, Await(call)
  PROVE  Stopped => heard'
BY DEF Await, BeginCall, Stopped

LEMMA LastAnswerNext ==
  ASSUME LastAnswer, [Next]_vars
  PROVE  LastAnswer'
<1> DEFINE Fine == Stopped /\ pc' \in Calls => heard'
<1>1. CASE UNCHANGED vars
  BY <1>1, LastKept DEF vars, guardVars, callVars, Stopped
<1>2. CASE Enter
  <2>1. PICK call \in {"prepare", "configure", "resource"} :
          /\ Accept(call)
          /\ IF StepAfter(call) = "navigate" THEN Goto("navigate") ELSE Await(StepAfter(call))
    BY <1>2 DEF Enter
  <2>2. Fine
    BY <2>1, AwaitHears DEF Goto, Calls
  <2> QED
    BY <2>1, <2>2, LastAccepted DEF Calls
<1>3. CASE Entered \/ Identify
  <2>1. Fine
    BY <1>3 DEF Entered, Identify, CheckThen, Calls
  <2>2. \E call \in Calls : Accept(call)
    BY <1>3 DEF Entered, Identify, Calls
  <2> QED
    BY <2>1, <2>2, LastAccepted
<1>4. CASE Detect
  <2>1. Branch => Fine
    BY AwaitHears DEF Branch, CheckThen, End, Calls
  <2>2. Fine
    BY <1>4, <2>1, AwaitHears DEF Detect, End, Calls
  <2> QED
    BY <1>4, <2>2, LastAccepted DEF Detect, Calls
<1>5. CASE Capture
  <2>1. Fine
    BY <1>5, AwaitHears DEF Capture, CheckThen, Goto, End, Calls
  <2>2. CASE \E call \in Calls : Accept(call)
    BY <2>1, <2>2, LastAccepted
  <2>3. CASE UNCHANGED <<late, stop>>
    BY <2>1, <2>3, LastKept DEF Stopped
  <2> QED
    BY <1>5, <2>2, <2>3 DEF Capture, Calls
<1>6. CASE Select
  <2>1. Fine
    BY <1>6, AwaitHears DEF Select, Goto, End, Calls
  <2> QED
    BY <1>6, <2>1, LastAccepted DEF Select, Calls
<1>7. CASE Advance
  <2>1. Fine
    BY <1>7, AwaitHears DEF Advance, CheckThen, Calls
  <2> QED
    BY <1>7, <2>1, LastAccepted DEF Advance, Calls
<1>8. CASE Check
  <2>1. Stopped => Stopped'
    BY <1>8 DEF Check, LooksAtPage, StopFor, Stopped
  <2>2. CASE Stopped
    <3>1. End("stopped")
      BY <1>8, <2>1, <2>2 DEF Check
    <3> QED
      BY <1>8, <2>1, <3>1, LastKept DEF Check, End, Calls
  <2>3. CASE ~Stopped
    BY <1>8, <2>3, LastKept DEF Check
  <2> QED
    BY <2>2, <2>3
<1>9. CASE Navigate \/ Pace \/ Shoot
  <2>1. Fine
    BY <1>9, AwaitHears DEF Navigate, Pace, Shoot, CheckThen, Calls
  <2> QED
    BY <1>9, <2>1, LastKept DEF Navigate, Pace, Shoot, Stopped
<1>10. CASE SavePage \/ FlushManifest \/ FlushProgress
  <2>1. pc' \notin Calls
    BY <1>10 DEF SavePage, FlushManifest, FlushProgress, Calls
  <2> QED
    BY <1>10, <2>1, LastKept
       DEF SavePage, FlushManifest, FlushProgress, SaveVars, guardVars, Stopped
<1>11. CASE StopRaises \/ CallFails \/ Raises \/ Kill
  <2>1. pc' \notin Calls
    BY <1>11 DEF StopRaises, CallFails, Raises, Kill, End, Calls
  <2> QED
    BY <1>11, <2>1, LastKept DEF StopRaises, CallFails, Raises, Kill, Stopped
<1>12. CASE Loop
  <2>1. CASE Hear
    BY <1>12, <2>1, LastKept DEF Loop, Hear, guardVars, Stopped
  <2>2. CASE Observe
    <3>1. (Stopped => Stopped') /\ UNCHANGED heard
      BY <2>2 DEF Observe, Monitor, Challenge, Refuse, LooksAtPage, StopFor, Stopped, callVars,
                  Refusals
    <3> QED
      BY <1>12, <3>1, LastKept DEF Loop
  <2> QED
    BY <1>12, <2>1, <2>2 DEF Loop
<1>13. CASE Turn \/ Answer
  BY <1>13, LastKept DEF Turn, Answer, guardVars, callVars, Stopped
<1> QED
  BY <1>1, <1>2, <1>3, <1>4, <1>5, <1>6, <1>7, <1>8, <1>9, <1>10, <1>11, <1>12, <1>13
     DEF Next, Runner

-------------------------------------------------------------------------------
RunnerInv == ControlOK /\ PagesOK /\ LastAnswer

LEMMA RunnerInvariant ==
  ASSUME RunnerAssumption
  PROVE  Spec => []RunnerInv
<1>1. Init => RunnerInv
  BY ControlInit, PagesInit DEF RunnerInv, LastAnswer, Init
<1>2. RunnerInv /\ [Next]_vars => RunnerInv'
  BY ControlNext, PagesNext, LastAnswerNext DEF RunnerInv
<1> QED
  BY <1>1, <1>2, PTL DEF Spec

\* A run keeps its types: the repeats stay below their limit, the batch is never
\* written beyond its end, and nothing of an unopened viewer is looked at
\* (CrawlerRunner.run).
THEOREM RunnerTypeCorrect ==
  ASSUME RunnerAssumption
  PROVE  Spec => []TypeOK
<1>1. ASSUME ControlOK, PagesOK, LastAnswer PROVE TypeOK
  <2>1. /\ saved \in Seq(Keys) /\ batch \in Seq(Keys) /\ written \in 0..Len(batch)
        /\ files \in Seq(Keys) /\ manifest \in Seq(Keys) /\ progress \in Nat
    BY <1>1 DEF PagesOK
  <2> QED
    BY <1>1, <2>1 DEF ControlOK, LastAnswer, TypeOK
<1>2. RunnerInv => TypeOK
  BY <1>1 DEF RunnerInv
<1> QED
  BY <1>2, RunnerInvariant, PTL

\* What the manifest lists is on disk under its number, and the progress file is
\* never ahead of it, whichever write a stop, an error or a kill comes after
\* (ProgressStore.flush and the page files of CrawlerRunner.run).
THEOREM RunnerManifestHolds ==
  ASSUME RunnerAssumption
  PROVE  Spec => []ManifestHolds
<1>1. RunnerInv => ManifestHolds
  BY DEF RunnerInv, PagesOK
<1> QED
  BY <1>1, RunnerInvariant, PTL

\* No page is saved twice, also when a screen is shown again or an impatient wait
\* finds the old one (the keys that CrawlerRunner.run remembers).
THEOREM RunnerNoPageTwice ==
  ASSUME RunnerAssumption
  PROVE  Spec => []NoPageTwice
<1>1. RunnerInv => NoPageTwice
  BY DEF RunnerInv, PagesOK
<1> QED
  BY <1>1, RunnerInvariant, PTL

\* After a stop at most the call that was about to return is believed
\* (access_guard.run, which prefers the stop to an answer).
THEOREM RunnerOneAnswerAfterStop ==
  Spec => []OneAnswerAfterStop
<1>1. Init => LastAnswer
  BY DEF Init, LastAnswer
<1>2. LastAnswer /\ [Next]_vars => LastAnswer'
  BY LastAnswerNext
<1>3. LastAnswer => OneAnswerAfterStop
  BY DEF LastAnswer, OneAnswerAfterStop
<1> QED
  BY <1>1, <1>2, <1>3, PTL DEF Spec

-------------------------------------------------------------------------------
(* A pass of deferred grants: its works, its report and its tickets.       *)

\* A work in hand is one of which the report says nothing yet; before its entry
\* the site has not been asked for its ticket.
Before == {"gate", "open", "resolve", "select", "attempt"}
InHand == Before \cup {"enter", "record", "trace", "failing"}
Parting == {"leave", "cleanup", "close"}

\* What a row may say, and the report.
Lines == [status : {"not_run", "SKIP", "NG", "OK"}, consumed : {"unknown", "yes", "no"}]
Rows == [Works -> Lines]

Truth(w) == rows[w].consumed = "yes" <=> w \in proven
Untouched(w) == rows[w] = NotRun /\ w \notin debited /\ w \notin confirmed

\* Every work is met once.
WorkFacts ==
  /\ \A i, j \in DOMAIN groups : groups[i] = groups[j] => i = j
  /\ \A i \in DOMAIN groups : groups[i] # work /\ Untouched(groups[i])
  /\ stage \in InHand \cup Parting => work \in Works
  /\ PassOver => stage = "over"

\* Until it is parted from, what is known of the ticket of the work in hand is
\* what the adapter saw.
ReportFacts ==
  /\ proven \subseteq debited
  /\ \A w \in Works : Truth(w) \/ (w = work /\ stage \in InHand)
  /\ stage \in InHand => rows[work] = NotRun
  /\ stage \in Before => work \notin debited
  /\ stage \in {"resolve", "select", "attempt"} => ~seen
  /\ stage \in {"enter", "record", "trace", "failing"} => (seen <=> work \in proven)
  /\ stage = "failing" /\ error = "unavailable" => ~seen

StoreFacts ==
  /\ ConfirmedIsStored
  /\ stage \in InHand => work \notin confirmed
  /\ stage = "trace" => seen /\ work \in stored

\* An attempt that is not counted is that of the work in hand, or ends the pass.
CountFacts ==
  /\ IsFiniteSet(debited)
  /\ stage \in InHand => Cardinality(debited \ {work}) <= attempts /\ attempts < Limit
  /\ stage \notin InHand => Cardinality(debited) <= Limit
  /\ stage = "group" \/ (stage \in Parting /\ error = "none") => Cardinality(debited) <= attempts
  /\ stage = "failing" => error # "none"
  /\ attempts + Len(groups) + (IF stage \in InHand THEN 1 ELSE 0) <= Len(Order)

\* The guard is on wherever the site is asked; a resolver that lingers was given
\* up with an error.
GuardFacts ==
  /\ lingers => stage = "over" \/ (stage \in Parting /\ error # "none")
  /\ stage \in {"resolve", "select", "attempt", "enter"} => watching
  /\ stage = "enter" => held /\ used

GrantsInv == PassTypeOK /\ WorkFacts /\ ReportFacts /\ StoreFacts /\ CountFacts /\ GuardFacts

\* It holds at the beginning.
LEMMA GrantsInit ==
  ASSUME GrantsAssumption, PassInit
  PROVE  GrantsInv
<1>1. Order \in Seq(Works) /\ Len(Order) \in Nat /\ Limit \in Nat /\ MaxMishaps \in Nat
  BY DEF GrantsAssumption
<1>2. IsFiniteSet({}) /\ Cardinality({}) = 0
  BY FS_EmptySet
<1>3. PassTypeOK
  <2>1. GuardTypeOK
    BY DEF PassInit, GuardTypeOK
  <2>2. rows \in Rows
    BY DEF PassInit, NotRun, Row, Rows, Lines
  <2>3. /\ groups \in Seq(Works) /\ attempts \in 0..Len(Order) /\ mishaps \in 0..MaxMishaps
        /\ run \in [Works -> {"none", "running", "succeeded", "failed"}]
        /\ stored \subseteq Works /\ debited \subseteq Works /\ confirmed \subseteq Works
        /\ proven \subseteq Works
    BY <1>1 DEF PassInit
  <2> QED
    BY <2>1, <2>2, <2>3 DEF PassInit, PassTypeOK, Selections, Rows, Lines
<1>4. WorkFacts
  BY <1>1 DEF PassInit, WorkFacts, Untouched, PassOver, GrantsAssumption, InHand, Parting, Before
<1>5. ReportFacts
  BY DEF PassInit, ReportFacts, Truth, NotRun, Row, InHand, Before
<1>6. StoreFacts /\ GuardFacts
  BY DEF PassInit, StoreFacts, ConfirmedIsStored, GuardFacts, InHand, Before
<1>7. CountFacts
  BY <1>1, <1>2 DEF PassInit, CountFacts, InHand, Before, Parting
<1> QED
  BY <1>3, <1>4, <1>5, <1>6, <1>7 DEF GrantsInv

\* What the guard does by itself keeps its types and neither turns it on nor off.
LEMMA GuardMoves ==
  ASSUME GuardTypeOK, Observe \/ Hear
  PROVE  GuardTypeOK' /\ UNCHANGED watching
<1>1. CASE Hear
  BY <1>1 DEF Hear, guardVars, GuardTypeOK
<1>2. CASE Observe
  <2>1. challenged' \in BOOLEAN /\ stop' \in Reasons \cup {"none"}
    BY <1>2 DEF Observe, Monitor, Challenge, Refuse, LooksAtPage, StopFor, Reasons, Refusals,
                GuardTypeOK
  <2>2. UNCHANGED <<watching, answer, heard>>
    BY <1>2 DEF Observe, Monitor, Challenge, Refuse, callVars
  <2> QED
    BY <2>1, <2>2 DEF GuardTypeOK
<1> QED
  BY <1>1, <1>2

\* One row is written, the others stay.
LEMMA RecordsRow ==
  ASSUME rows \in Rows, work \in Works,
         NEW row \in Lines,
         Records(row)
  PROVE  /\ rows' \in Rows /\ rows'[work] = row
         /\ \A w \in Works : w # work => rows'[w] = rows[w]
BY DEF Records, Rows

\* The rows the pass writes, and what they say of the ticket.
LEMMA RowsAre ==
  /\ Row("SKIP", "no") \in Lines
  /\ Row("NG", "no") \in Lines
  /\ Row("OK", "yes") \in Lines
  /\ \A p : FailureRow(p) \in Lines
  /\ Row("SKIP", "no").consumed = "no" /\ Row("NG", "no").consumed = "no"
  /\ Row("OK", "yes").consumed = "yes"
  /\ NotRun.consumed = "unknown"
BY DEF Row, FailureRow, NotRun, Lines

\* The row of a failure says that the ticket is gone exactly when that is known.
LEMMA FailureRowTells ==
  ASSUME rows[work] = NotRun, NEW proof \in BOOLEAN
  PROVE  FailureRow(proof).consumed = "yes" <=> proof
BY DEF FailureRow, Spent, Row, NotRun

\* The report is one, and the work in hand is a work.
LEMMA InvRows ==
  ASSUME GrantsInv
  PROVE  rows \in Rows /\ (stage \in InHand \cup Parting => work \in Works)
BY DEF GrantsInv, PassTypeOK, Rows, Lines, WorkFacts

\* How many tickets are gone, by where the pass is.
LEMMA InHandCount ==
  ASSUME GrantsAssumption, GrantsInv
  PROVE  /\ Cardinality(debited) \in Nat /\ attempts \in Nat /\ Limit \in Nat
         /\ mishaps \in Nat /\ MaxMishaps \in Nat /\ mishaps <= MaxMishaps
         /\ Len(groups) \in Nat /\ Len(Order) \in Nat
         /\ stage \in InHand => Cardinality(debited) <= attempts + 1
         /\ stage \in InHand /\ work \notin debited => Cardinality(debited) <= attempts
<1>0. mishaps \in Nat /\ MaxMishaps \in Nat /\ mishaps <= MaxMishaps
  BY DEF GrantsAssumption, GrantsInv, PassTypeOK
<1>1. attempts \in Nat /\ Limit \in Nat /\ Len(groups) \in Nat /\ Len(Order) \in Nat
  BY DEF GrantsAssumption, GrantsInv, PassTypeOK
<1>2. IsFiniteSet(debited)
  BY DEF GrantsInv, CountFacts
<1>3. Cardinality(debited) \in Nat
  BY <1>2, FS_CardinalityType
<1>4. CASE work \in debited
  <2>1. Cardinality(debited \ {work}) = Cardinality(debited) - 1
    BY <1>2, <1>4, FS_RemoveElement
  <2>2. stage \in InHand => Cardinality(debited \ {work}) <= attempts
    BY DEF GrantsInv, CountFacts
  <2> QED
    BY <1>0, <1>1, <1>3, <1>4, <2>1, <2>2
<1>5. CASE work \notin debited
  <2>1. debited \ {work} = debited
    BY <1>5
  <2>2. stage \in InHand => Cardinality(debited) <= attempts
    BY <2>1 DEF GrantsInv, CountFacts
  <2> QED
    BY <1>0, <1>1, <1>3, <2>2
<1> QED
  BY <1>4, <1>5

\* The first work that is left is taken in hand, unless the pass is over.
LEMMA TakesNext ==
  ASSUME GrantsInv, NextWork
  PROVE  \/ stage' = "over" /\ UNCHANGED <<groups, work>>
         \/ /\ stage' = "gate" /\ ~(attempts >= Limit) /\ UNCHANGED outcome
            /\ 1 \in DOMAIN groups /\ work' = groups[1]
            /\ groups' \in Seq(Works) /\ Len(groups') = Len(groups) - 1
            /\ \A i \in DOMAIN groups' : i + 1 \in DOMAIN groups /\ groups'[i] = groups[i + 1] /\ i # 0
<1>1. groups \in Seq(Works)
  BY DEF GrantsInv, PassTypeOK
<1>2. CASE groups = <<>> \/ attempts >= Limit
  BY <1>2 DEF NextWork, EndsPass
<1>3. CASE ~(groups = <<>> \/ attempts >= Limit)
  <2>1. /\ 1 \in DOMAIN groups /\ Head(groups) = groups[1]
        /\ Tail(groups) \in Seq(Works) /\ Len(Tail(groups)) = Len(groups) - 1
        /\ \A i \in DOMAIN Tail(groups) :
             i + 1 \in DOMAIN groups /\ Tail(groups)[i] = groups[i + 1] /\ i # 0
    BY <1>1, <1>3
  <2>2. stage' = "gate" /\ work' = Head(groups) /\ groups' = Tail(groups) /\ UNCHANGED outcome
    BY <1>3 DEF NextWork
  <2> QED
    BY <1>3, <2>1, <2>2
<1> QED
  BY <1>2, <1>3

\* A step of the pass, of the resolver or of the site: all but those of the guard.
Act == Pass \/ ResolverAnswers \/ Debit \/ LingererEnds

\* A step writes the row of the work in hand at most.
LEMMA RowsMove ==
  ASSUME GrantsInv, Act
  PROVE  rows' \in Rows /\ \A w \in Works : w # work => rows'[w] = rows[w]
<1>1. CASE Gate \/ StopsEarly
  BY <1>1, InvRows, RecordsRow, RowsAre DEF Gate, StopsEarly, BeforeContact, EndsPass, Mishap,
     InHand, Before, Parting
<1>2. CASE ApplyResolution \/ Confirm
  BY <1>2, InvRows, RecordsRow, RowsAre DEF ApplyResolution, Confirm, LeavesWith, Mishap,
     Granting, InHand, Before, Parting
<1>3. CASE Handle
  BY <1>3, InvRows, RecordsRow, RowsAre DEF Handle, Granting, LeavesWith, Mishap, StoresUse,
     Counted, PassedOn, InHand, Before, Parting
<1>4. CASE Close
  BY <1>4, InvRows, RecordsRow, RowsAre DEF Close, Leaving, Mishap, EndsPass, EndsFor, InHand,
     Before, Parting
<1>5. CASE \/ NextWork \/ OpenPage \/ ResolverAnswers \/ GivesUp \/ Resolved \/ PassInterrupted
           \/ Attempt \/ Debit \/ EnterEpisode \/ RecordUse \/ ConfirmFails
           \/ LeaveWork \/ Cleanup \/ LingererEnds
  BY <1>5, InvRows, RecordsRow, RowsAre DEF NextWork, OpenPage, ResolverAnswers, GivesUp, Resolved,
     PassInterrupted, Attempt, Debit, EnterEpisode, RecordUse, ConfirmFails, LeaveWork, Cleanup,
     LingererEnds, BeforeContact, EndsPass, Mishap, Resolving, LeavesWith, Lends, Granting,
     FailsWith, MayTake, StoresUse, Observed, Leaving, RaisesAtExit, InHand, Before, Parting
<1> QED
  BY <1>1, <1>2, <1>3, <1>4, <1>5 DEF Act, Pass

\* Every part of the invariant, at every step of the pass.
LEMMA GuardTyped ==
  ASSUME GrantsAssumption, GrantsInv, Act
  PROVE  GuardTypeOK'
<1>1. CASE NextWork \/ Gate \/ StopsEarly \/ OpenPage
  BY <1>1 DEF NextWork, Gate, StopsEarly, OpenPage, BeforeContact, EndsPass, Mishap, guardVars, callVars,
     catalogVars, entryVars, attemptVars, GrantsInv, PassTypeOK, GuardTypeOK
<1>2. CASE ResolverAnswers \/ GivesUp \/ Resolved \/ PassInterrupted \/ ApplyResolution
  BY <1>2 DEF ResolverAnswers, GivesUp, Resolved, PassInterrupted, ApplyResolution, Resolving,
     LeavesWith, Lends, Mishap, guardVars, callVars, catalogVars, entryVars, attemptVars,
     GrantsInv, PassTypeOK, GuardTypeOK
<1>3. CASE Attempt \/ Debit \/ EnterEpisode \/ RecordUse
  BY <1>3 DEF Attempt, Debit, EnterEpisode, RecordUse, Granting, FailsWith, Mishap, MayTake,
     StoresUse, Observed, guardVars, callVars, catalogVars, entryVars, attemptVars, GrantsInv,
     PassTypeOK, GuardTypeOK
<1>4. CASE Confirm \/ ConfirmFails \/ Handle
  BY <1>4 DEF Confirm, ConfirmFails, Handle, Granting, LeavesWith, Mishap, FailsWith, StoresUse,
     Counted, PassedOn, guardVars, callVars, catalogVars, entryVars, attemptVars, GrantsInv,
     PassTypeOK, GuardTypeOK
<1>5. CASE LeaveWork \/ Cleanup \/ Close \/ LingererEnds
  BY <1>5 DEF LeaveWork, Cleanup, Close, LingererEnds, Leaving, RaisesAtExit, Mishap, EndsPass, EndsFor,
     guardVars, callVars, catalogVars, entryVars, attemptVars, GrantsInv, PassTypeOK, GuardTypeOK
<1> QED
  BY <1>1, <1>2, <1>3, <1>4, <1>5 DEF Act, Pass

LEMMA WorkTyped ==
  ASSUME GrantsAssumption, GrantsInv, Act
  PROVE  groups' \in Seq(Works) /\ work' \in Works \cup {NoWork}
<1>1. CASE NextWork
  BY <1>1, TakesNext DEF GrantsInv, PassTypeOK
<1>2. CASE Gate \/ StopsEarly \/ OpenPage
  BY <1>2 DEF Gate, StopsEarly, OpenPage, BeforeContact, EndsPass, Mishap, guardVars, callVars,
     catalogVars, entryVars, attemptVars, GrantsInv, PassTypeOK
<1>3. CASE ResolverAnswers \/ GivesUp \/ Resolved \/ PassInterrupted \/ ApplyResolution
  BY <1>3 DEF ResolverAnswers, GivesUp, Resolved, PassInterrupted, ApplyResolution, Resolving,
     LeavesWith, Lends, Mishap, guardVars, callVars, catalogVars, entryVars, attemptVars,
     GrantsInv, PassTypeOK
<1>4. CASE Attempt \/ Debit \/ EnterEpisode \/ RecordUse
  BY <1>4 DEF Attempt, Debit, EnterEpisode, RecordUse, Granting, FailsWith, Mishap, MayTake,
     StoresUse, Observed, guardVars, callVars, catalogVars, entryVars, attemptVars, GrantsInv,
     PassTypeOK
<1>5. CASE Confirm \/ ConfirmFails \/ Handle
  BY <1>5 DEF Confirm, ConfirmFails, Handle, Granting, LeavesWith, Mishap, FailsWith, StoresUse,
     Counted, PassedOn, guardVars, callVars, catalogVars, entryVars, attemptVars, GrantsInv,
     PassTypeOK
<1>6. CASE LeaveWork \/ Cleanup \/ Close \/ LingererEnds
  BY <1>6 DEF LeaveWork, Cleanup, Close, LingererEnds, Leaving, RaisesAtExit, Mishap, EndsPass, EndsFor,
     guardVars, callVars, catalogVars, entryVars, attemptVars, GrantsInv, PassTypeOK
<1> QED
  BY <1>1, <1>2, <1>3, <1>4, <1>5, <1>6 DEF Act, Pass

LEMMA CountsTyped ==
  ASSUME GrantsAssumption, GrantsInv, Act
  PROVE  attempts' \in 0..Len(Order) /\ mishaps' \in 0..MaxMishaps
<1>1. CASE NextWork
  BY <1>1, InHandCount DEF NextWork, BeforeContact, EndsPass, GrantsInv, PassTypeOK, CountFacts,
     InHand, Before
<1>2. CASE StopsEarly
  BY <1>2, InHandCount DEF StopsEarly, BeforeContact, EndsPass, Mishap, GrantsInv, PassTypeOK,
     CountFacts, InHand, Before
<1>3. CASE Gate \/ OpenPage
  BY <1>3, InHandCount DEF Gate, OpenPage, BeforeContact, Mishap, GrantsInv, PassTypeOK, CountFacts,
     InHand, Before
<1>4. CASE ResolverAnswers \/ GivesUp \/ Resolved \/ PassInterrupted \/ ApplyResolution
  BY <1>4, InHandCount DEF ResolverAnswers, GivesUp, Resolved, PassInterrupted, ApplyResolution,
     Resolving, LeavesWith, Lends, Mishap, GrantsInv, PassTypeOK, CountFacts, InHand, Before
<1>5. CASE Attempt \/ Debit \/ EnterEpisode \/ RecordUse
  BY <1>5, InHandCount DEF Attempt, Debit, EnterEpisode, RecordUse, Granting, FailsWith, Mishap,
     MayTake, StoresUse, Observed, GrantsInv, PassTypeOK, CountFacts, InHand, Before
<1>6. CASE Confirm \/ ConfirmFails \/ Handle
  BY <1>6, InHandCount DEF Confirm, ConfirmFails, Handle, Granting, LeavesWith, Mishap,
     FailsWith, StoresUse, Counted, PassedOn, GrantsInv, PassTypeOK, CountFacts, InHand, Before
<1>7. CASE LeaveWork
  <2>1. UNCHANGED <<attempts, mishaps>>
    BY <1>7 DEF LeaveWork, Leaving
  <2> QED
    BY <2>1 DEF GrantsInv, PassTypeOK
<1>8. CASE Cleanup
  <2>1. UNCHANGED attempts /\ (UNCHANGED mishaps \/ Mishap)
    BY <1>8 DEF Cleanup, Leaving
  <2> QED
    BY <2>1, InHandCount DEF Mishap, GrantsInv, PassTypeOK
<1>9. CASE LingererEnds
  <2>1. UNCHANGED <<attempts, mishaps>>
    BY <1>9 DEF LingererEnds
  <2> QED
    BY <2>1 DEF GrantsInv, PassTypeOK
<1>10. CASE Close
  BY <1>10, InHandCount DEF Close, Leaving, Mishap, EndsPass, EndsFor, GrantsInv, PassTypeOK,
     CountFacts, InHand, Before
<1> QED
  BY <1>1, <1>2, <1>3, <1>4, <1>5, <1>6, <1>7, <1>8, <1>9, <1>10 DEF Act, Pass

LEMMA SetsTyped ==
  ASSUME GrantsAssumption, GrantsInv, Act
  PROVE  /\ run' \in [Works -> {"none", "running", "succeeded", "failed"}]
         /\ stored' \subseteq Works /\ debited' \subseteq Works /\ confirmed' \subseteq Works
         /\ proven' \subseteq Works
<1>1. CASE NextWork \/ Gate \/ StopsEarly \/ OpenPage
  BY <1>1, InvRows DEF NextWork, Gate, StopsEarly, OpenPage, BeforeContact, EndsPass, Mishap,
     catalogVars, GrantsInv, PassTypeOK, InHand, Before, Parting
<1>2. CASE ResolverAnswers \/ GivesUp \/ Resolved \/ PassInterrupted \/ ApplyResolution
  BY <1>2, InvRows DEF ResolverAnswers, GivesUp, Resolved, PassInterrupted, ApplyResolution,
     Resolving, LeavesWith, Lends, Mishap, catalogVars, GrantsInv, PassTypeOK, InHand, Before,
     Parting
<1>3. CASE Attempt \/ Debit \/ EnterEpisode \/ RecordUse
  BY <1>3, InvRows DEF Attempt, Debit, EnterEpisode, RecordUse, Granting, FailsWith, Mishap, MayTake,
     StoresUse, Observed, catalogVars, GrantsInv, PassTypeOK, InHand, Before, Parting
<1>4. CASE Confirm \/ ConfirmFails \/ Handle
  BY <1>4, InvRows DEF Confirm, ConfirmFails, Handle, Granting, LeavesWith, Mishap, FailsWith,
     StoresUse, Counted, PassedOn, catalogVars, GrantsInv, PassTypeOK, InHand, Before, Parting
<1>5. CASE LeaveWork \/ Cleanup \/ Close \/ LingererEnds
  BY <1>5, InvRows DEF LeaveWork, Cleanup, Close, LingererEnds, Leaving, RaisesAtExit, Mishap, EndsPass,
     EndsFor, catalogVars, GrantsInv, PassTypeOK, InHand, Before, Parting
<1> QED
  BY <1>1, <1>2, <1>3, <1>4, <1>5 DEF Act, Pass

LEMMA PlaceTyped ==
  ASSUME GrantsAssumption, GrantsInv, Act
  PROVE  /\ stage' \in {"group", "gate", "open", "resolve", "select", "attempt", "enter", "record",
                    "trace", "failing", "leave", "cleanup", "close", "over"}
         /\ error' \in {"none", "error", "interrupt"}
                      \cup (IF stage' = "failing" THEN {"unavailable"} ELSE {})
         /\ outcome' \in {"none", "done", "failed", "interrupted"}
<1>1. CASE NextWork \/ Gate \/ StopsEarly \/ OpenPage
  BY <1>1 DEF NextWork, Gate, StopsEarly, OpenPage, BeforeContact, EndsPass, Mishap, GrantsInv, PassTypeOK
<1>2. CASE ResolverAnswers \/ GivesUp \/ Resolved \/ PassInterrupted \/ ApplyResolution
  BY <1>2 DEF ResolverAnswers, GivesUp, Resolved, PassInterrupted, ApplyResolution, Resolving,
     LeavesWith, Lends, Mishap, GrantsInv, PassTypeOK
<1>3. CASE Attempt \/ Debit \/ EnterEpisode \/ RecordUse
  BY <1>3 DEF Attempt, Debit, EnterEpisode, RecordUse, Granting, FailsWith, Mishap, MayTake,
     StoresUse, Observed, GrantsInv, PassTypeOK
<1>4. CASE Confirm \/ ConfirmFails \/ Handle
  BY <1>4 DEF Confirm, ConfirmFails, Handle, Granting, LeavesWith, Mishap, FailsWith, StoresUse,
     Counted, PassedOn, GrantsInv, PassTypeOK
<1>5. CASE LeaveWork \/ Cleanup \/ Close \/ LingererEnds
  BY <1>5 DEF LeaveWork, Cleanup, Close, LingererEnds, Leaving, RaisesAtExit, Mishap, EndsPass, EndsFor,
     GrantsInv, PassTypeOK
<1> QED
  BY <1>1, <1>2, <1>3, <1>4, <1>5 DEF Act, Pass

LEMMA FlagsTyped ==
  ASSUME GrantsAssumption, GrantsInv, Act
  PROVE  /\ page' \in BOOLEAN /\ lingers' \in BOOLEAN /\ chosen' \in Selections
         /\ held' \in BOOLEAN /\ used' \in BOOLEAN /\ seen' \in BOOLEAN /\ checked' \in BOOLEAN
<1>1. CASE NextWork \/ Gate \/ StopsEarly \/ OpenPage
  BY <1>1 DEF NextWork, Gate, StopsEarly, OpenPage, BeforeContact, EndsPass, Mishap, entryVars,
     attemptVars, GrantsInv, PassTypeOK
<1>2. CASE ResolverAnswers \/ GivesUp \/ Resolved \/ PassInterrupted \/ ApplyResolution
  BY <1>2 DEF ResolverAnswers, GivesUp, Resolved, PassInterrupted, ApplyResolution, Resolving,
     LeavesWith, Lends, Mishap, entryVars, attemptVars, GrantsInv, PassTypeOK
<1>3. CASE Attempt \/ Debit \/ EnterEpisode \/ RecordUse
  BY <1>3 DEF Attempt, Debit, EnterEpisode, RecordUse, Granting, FailsWith, Mishap, MayTake,
     StoresUse, Observed, entryVars, attemptVars, GrantsInv, PassTypeOK
<1>4. CASE Confirm \/ ConfirmFails \/ Handle
  BY <1>4 DEF Confirm, ConfirmFails, Handle, Granting, LeavesWith, Mishap, FailsWith, StoresUse,
     Counted, PassedOn, entryVars, attemptVars, GrantsInv, PassTypeOK
<1>5. CASE LeaveWork \/ Cleanup \/ Close \/ LingererEnds
  BY <1>5 DEF LeaveWork, Cleanup, Close, LingererEnds, Leaving, RaisesAtExit, Mishap, EndsPass, EndsFor,
     entryVars, attemptVars, GrantsInv, PassTypeOK
<1> QED
  BY <1>1, <1>2, <1>3, <1>4, <1>5 DEF Act, Pass

LEMMA WorkKept ==
  ASSUME GrantsAssumption, GrantsInv, Act
  PROVE  WorkFacts'
<1>1. CASE NextWork
  <2>1. UNCHANGED <<rows, debited, confirmed>>
    BY <1>1 DEF NextWork, BeforeContact
  <2>2. \A i \in DOMAIN groups : groups[i] \in Works
    BY DEF GrantsInv, PassTypeOK
  <2>3. CASE stage' = "over" /\ UNCHANGED <<groups, work>>
    BY <2>1, <2>3 DEF GrantsInv, WorkFacts, Untouched, PassOver, InHand, Before, Parting
  <2>4. CASE stage' # "over"
    BY <1>1, <2>1, <2>2, <2>4, TakesNext
       DEF GrantsInv, NextWork, WorkFacts, Untouched, PassOver, InHand, Before, Parting
  <2> QED
    BY <1>1, <2>3, <2>4, TakesNext
<1>2. CASE StopsEarly
  <2>1. stage' = "over" /\ UNCHANGED <<groups, work, debited, confirmed>>
    BY <1>2 DEF StopsEarly, BeforeContact, EndsPass
  <2>2. \A i \in DOMAIN groups : groups[i] \in Works
    BY DEF GrantsInv, PassTypeOK
  <2> QED
    BY <2>1, <2>2, RowsMove DEF GrantsInv, WorkFacts, Untouched, InHand, Before, Parting
<1>3. CASE Gate \/ OpenPage
  BY <1>3, RowsMove DEF Gate, OpenPage, BeforeContact, Mishap, GrantsInv, PassTypeOK, WorkFacts,
     Untouched, PassOver, InHand, Before, Parting
<1>4. CASE ResolverAnswers \/ GivesUp \/ Resolved \/ PassInterrupted \/ ApplyResolution
  BY <1>4, RowsMove DEF ResolverAnswers, GivesUp, Resolved, PassInterrupted, ApplyResolution,
     Resolving, LeavesWith, Lends, Mishap, GrantsInv, PassTypeOK, WorkFacts, Untouched,
     PassOver, InHand, Before, Parting
<1>5. CASE Attempt \/ Debit \/ EnterEpisode \/ RecordUse
  BY <1>5 DEF Attempt, Debit, EnterEpisode, RecordUse, Granting, FailsWith, Mishap, MayTake,
     StoresUse, Observed, GrantsInv, PassTypeOK, WorkFacts, Untouched, PassOver, InHand,
     Before, Parting
<1>6. CASE Confirm \/ ConfirmFails \/ Handle
  BY <1>6, RowsMove DEF Confirm, ConfirmFails, Handle, Granting, LeavesWith, Mishap, FailsWith,
     StoresUse, Counted, PassedOn, GrantsInv, PassTypeOK, WorkFacts, Untouched, PassOver, InHand,
     Before, Parting
<1>7. CASE Close
  BY <1>7, RowsMove DEF Close, Leaving, Mishap, EndsPass, EndsFor, GrantsInv, PassTypeOK, WorkFacts,
     Untouched, PassOver, InHand, Before, Parting
<1>8. CASE LeaveWork \/ Cleanup \/ LingererEnds
  BY <1>8 DEF LeaveWork, Cleanup, LingererEnds, Leaving, RaisesAtExit, Mishap, GrantsInv, PassTypeOK,
     WorkFacts, Untouched, PassOver, InHand, Before, Parting
<1> QED
  BY <1>1, <1>2, <1>3, <1>4, <1>5, <1>6, <1>7, <1>8 DEF Act, Pass

LEMMA ReportKept ==
  ASSUME GrantsAssumption, GrantsInv, Act
  PROVE  ReportFacts'
<1>1. CASE NextWork
  <2>1. UNCHANGED <<rows, debited, proven>> /\ stage = "group"
    BY <1>1 DEF NextWork, BeforeContact
  <2>2. CASE stage' = "over" /\ UNCHANGED <<groups, work>>
    BY <2>1, <2>2 DEF GrantsInv, ReportFacts, Truth, InHand, Before
  <2>3. CASE stage' = "gate" /\ rows[work'] = NotRun /\ work' \notin debited
    BY <2>1, <2>3 DEF GrantsInv, ReportFacts, Truth, InHand, Before
  <2> QED
    BY <1>1, <2>2, <2>3, TakesNext DEF GrantsInv, WorkFacts, Untouched
<1>2. CASE Gate
  BY <1>2, RowsMove, RowsAre, InvRows, RecordsRow, FailureRowTells DEF Gate, BeforeContact,
     attemptVars, GrantsInv, PassTypeOK, ReportFacts, Truth, InHand, Before
<1>3. CASE StopsEarly
  <2>1. stage' = "over" /\ UNCHANGED <<work, debited, proven>>
    BY <1>3 DEF StopsEarly, BeforeContact, EndsPass
  <2>2. CASE UNCHANGED rows /\ stage = "group"
    BY <2>1, <2>2 DEF GrantsInv, ReportFacts, Truth, InHand, Before
  <2>3. CASE Records(FailureRow(FALSE)) /\ stage \in {"gate", "open"}
    <3>1. rows[work] = NotRun /\ work \notin proven /\ work \in Works
      BY <2>3, InvRows DEF GrantsInv, ReportFacts, InHand, Before
    <3>2. rows'[work].consumed # "yes"
      BY <2>3, <3>1, InvRows, RecordsRow, RowsAre, FailureRowTells
    <3> QED
      BY <2>1, <3>1, <3>2, RowsMove DEF GrantsInv, ReportFacts, Truth, InHand, Before
  <2>4. UNCHANGED rows /\ stage # "group" => rows[work] = NotRun /\ work \notin proven
    BY <1>3 DEF StopsEarly, GrantsInv, ReportFacts, InHand, Before
  <2>5. CASE UNCHANGED rows /\ stage # "group"
    BY <2>1, <2>4, <2>5, RowsAre DEF GrantsInv, ReportFacts, Truth, InHand, Before
  <2> QED
    BY <1>3, <2>2, <2>3, <2>5 DEF StopsEarly
<1>4. CASE OpenPage
  BY <1>4, RowsAre DEF OpenPage, Mishap, attemptVars, GrantsInv, PassTypeOK, ReportFacts, Truth,
     InHand, Before
<1>5. CASE ApplyResolution
  BY <1>5, RowsMove, RowsAre, InvRows, RecordsRow, FailureRowTells DEF ApplyResolution,
     LeavesWith, Mishap, attemptVars, GrantsInv, PassTypeOK, ReportFacts, Truth, InHand, Before
<1>6. CASE ResolverAnswers \/ GivesUp \/ Resolved \/ PassInterrupted
  BY <1>6, RowsAre DEF ResolverAnswers, GivesUp, Resolved, PassInterrupted, Resolving, LeavesWith,
     Lends, Mishap, attemptVars, GrantsInv, PassTypeOK, ReportFacts, Truth, InHand, Before
<1>7. CASE Attempt \/ Debit \/ EnterEpisode \/ RecordUse
  BY <1>7, RowsAre DEF Attempt, Debit, EnterEpisode, RecordUse, Granting, FailsWith, Mishap, MayTake,
     StoresUse, Observed, attemptVars, GrantsInv, PassTypeOK, ReportFacts, Truth, InHand, Before
<1>8. CASE Confirm
  <2>1. /\ stage' = "leave" /\ UNCHANGED <<work, debited, proven>> /\ Records(Row("OK", "yes"))
        /\ work \in Works /\ work \in proven
    BY <1>8, InvRows DEF Confirm, Granting, LeavesWith, GrantsInv, ReportFacts, StoreFacts,
       InHand, Before
  <2>2. rows'[work].consumed = "yes"
    BY <2>1, InvRows, RecordsRow, RowsAre
  <2> QED
    BY <2>1, <2>2, RowsMove DEF GrantsInv, ReportFacts, Truth, InHand, Before
<1>9. CASE Handle
  BY <1>9, RowsMove, RowsAre, InvRows, RecordsRow, FailureRowTells DEF Handle, Granting,
     LeavesWith, Mishap, StoresUse, Counted, PassedOn, attemptVars, GrantsInv, PassTypeOK,
     ReportFacts, Truth, InHand, Before
<1>10. CASE ConfirmFails
  BY <1>10, RowsAre DEF ConfirmFails, Granting, FailsWith, Mishap, attemptVars, GrantsInv,
     PassTypeOK, ReportFacts, Truth, InHand, Before
<1>11. CASE LeaveWork
  BY <1>11, RowsAre DEF LeaveWork, Leaving, RaisesAtExit, attemptVars, GrantsInv, PassTypeOK,
     ReportFacts, Truth, InHand, Before
<1>12. CASE Cleanup
  BY <1>12, RowsAre DEF Cleanup, Leaving, Mishap, attemptVars, GrantsInv, PassTypeOK, ReportFacts,
     Truth, InHand, Before
<1>13. CASE Close
  <2>1. stage' \in {"group", "over"} /\ UNCHANGED <<work, debited, proven>> /\ work \in Works
    BY <1>13, InvRows DEF Close, Leaving, EndsPass, EndsFor, Parting
  <2>2. Truth(work)
    BY <1>13, <2>1 DEF Close, GrantsInv, ReportFacts, InHand, Before
  <2>3. rows'[work].consumed = "yes" <=> rows[work].consumed = "yes"
    BY <1>13, <2>1, InvRows, RecordsRow, RowsAre, FailureRowTells DEF Close
  <2> QED
    BY <2>1, <2>2, <2>3, RowsMove DEF GrantsInv, ReportFacts, Truth, InHand, Before
<1>14. CASE LingererEnds
  BY <1>14, RowsAre DEF LingererEnds, attemptVars, GrantsInv, PassTypeOK, ReportFacts, Truth,
     InHand, Before
<1> QED
  BY <1>1, <1>2, <1>3, <1>4, <1>5, <1>6, <1>7, <1>8, <1>9, <1>10, <1>11, <1>12, <1>13, <1>14
   DEF Act, Pass

LEMMA StoreKept ==
  ASSUME GrantsAssumption, GrantsInv, Act
  PROVE  StoreFacts'
<1>1. CASE NextWork
  <2>1. UNCHANGED <<run, stored, debited, confirmed>> /\ stage' # "trace"
    BY <1>1, TakesNext DEF NextWork, BeforeContact, catalogVars
  <2>2. stage' \in InHand => work' \notin confirmed
    BY <1>1, TakesNext DEF GrantsInv, WorkFacts, Untouched, InHand, Before
  <2> QED
    BY <2>1, <2>2 DEF GrantsInv, StoreFacts, ConfirmedIsStored
<1>2. CASE Gate \/ StopsEarly \/ OpenPage
  BY <1>2 DEF Gate, StopsEarly, OpenPage, BeforeContact, EndsPass, Mishap, catalogVars, attemptVars,
     GrantsInv, PassTypeOK, StoreFacts, ConfirmedIsStored, InHand, Before
<1>3. CASE ResolverAnswers \/ GivesUp \/ Resolved \/ PassInterrupted \/ ApplyResolution
  BY <1>3 DEF ResolverAnswers, GivesUp, Resolved, PassInterrupted, ApplyResolution, Resolving,
     LeavesWith, Lends, Mishap, catalogVars, attemptVars, GrantsInv, PassTypeOK, StoreFacts,
     ConfirmedIsStored, InHand, Before
<1>4. CASE Attempt \/ Debit \/ EnterEpisode \/ RecordUse
  BY <1>4 DEF Attempt, Debit, EnterEpisode, RecordUse, Granting, FailsWith, Mishap, MayTake,
     StoresUse, Observed, catalogVars, attemptVars, GrantsInv, PassTypeOK, StoreFacts,
     ConfirmedIsStored, InHand, Before
<1>5. CASE Confirm
  <2>1. /\ work \in Works /\ work \in debited /\ work \in stored
        /\ stage' \notin InHand /\ stage' # "trace"
    BY <1>5, InvRows DEF Confirm, LeavesWith, GrantsInv, ReportFacts, StoreFacts, InHand, Before
  <2>2. /\ confirmed' = confirmed \cup {work} /\ run' = [run EXCEPT ![work] = "succeeded"]
        /\ UNCHANGED <<stored, debited>>
    BY <1>5 DEF Confirm, Granting
  <2> QED
    BY <2>1, <2>2 DEF GrantsInv, PassTypeOK, StoreFacts, ConfirmedIsStored
<1>6. CASE ConfirmFails \/ Handle
  BY <1>6 DEF ConfirmFails, Handle, Granting, FailsWith, Mishap, LeavesWith, StoresUse, Counted,
     PassedOn, catalogVars, attemptVars, GrantsInv, PassTypeOK, StoreFacts, ConfirmedIsStored,
     InHand, Before
<1>7. CASE LeaveWork \/ Cleanup \/ Close \/ LingererEnds
  BY <1>7 DEF LeaveWork, Cleanup, Close, LingererEnds, Leaving, RaisesAtExit, Mishap, EndsPass, EndsFor,
     catalogVars, attemptVars, GrantsInv, PassTypeOK, StoreFacts, ConfirmedIsStored, InHand,
     Before
<1> QED
  BY <1>1, <1>2, <1>3, <1>4, <1>5, <1>6, <1>7 DEF Act, Pass

LEMMA CountKept ==
  ASSUME GrantsAssumption, GrantsInv, Act
  PROVE  CountFacts'
<1>1. CASE NextWork
  <2>1. UNCHANGED <<debited, attempts, error>> /\ stage = "group"
    BY <1>1 DEF NextWork, BeforeContact
  <2>2. CASE stage' = "over" /\ UNCHANGED <<groups, work>>
    BY <2>1, <2>2, InHandCount DEF GrantsInv, CountFacts, InHand, Before, Parting
  <2>3. CASE /\ stage' = "gate" /\ ~(attempts >= Limit) /\ work' \notin debited
             /\ Len(groups') = Len(groups) - 1
    <3>1. debited \ {work'} = debited
      BY <2>3
    <3>2. attempts < Limit /\ Cardinality(debited) <= attempts
      BY <2>1, <2>3, InHandCount DEF GrantsInv, CountFacts
    <3>3. attempts' + Len(groups') + 1 <= Len(Order)
      BY <2>1, <2>3, InHandCount DEF GrantsInv, CountFacts, InHand, Before
    <3> QED
      BY <2>1, <2>3, <3>1, <3>2, <3>3 DEF GrantsInv, CountFacts, InHand, Before, Parting
  <2> QED
    BY <1>1, <2>2, <2>3, TakesNext DEF GrantsInv, WorkFacts, Untouched
<1>2. CASE Gate
  BY <1>2, InHandCount DEF Gate, BeforeContact, GrantsInv, ReportFacts, CountFacts, InHand,
     Before, Parting
<1>3. CASE StopsEarly
  <2>1. stage' = "over" /\ UNCHANGED <<work, groups, debited, attempts>>
    BY <1>3 DEF StopsEarly, BeforeContact, EndsPass
  <2>2. Cardinality(debited) <= Limit
    BY <1>3, InHandCount DEF StopsEarly, GrantsInv, ReportFacts, CountFacts, InHand, Before
  <2> QED
    BY <2>1, <2>2, InHandCount DEF GrantsInv, CountFacts, InHand, Before, Parting
<1>4. CASE OpenPage
  BY <1>4, InHandCount DEF OpenPage, Mishap, GrantsInv, ReportFacts, CountFacts, InHand, Before,
     Parting
<1>5. CASE GivesUp
  BY <1>5, InHandCount DEF GivesUp, Resolving, LeavesWith, GrantsInv, ReportFacts, CountFacts,
     InHand, Before, Parting
<1>6. CASE Resolved
  BY <1>6, InHandCount DEF Resolved, Resolving, LeavesWith, Lends, GrantsInv, ReportFacts,
     CountFacts, InHand, Before, Parting
<1>7. CASE PassInterrupted
  BY <1>7, InHandCount DEF PassInterrupted, Resolving, LeavesWith, Mishap, GrantsInv, ReportFacts,
     CountFacts, InHand, Before, Parting
<1>8. CASE ApplyResolution
  BY <1>8, InHandCount DEF ApplyResolution, LeavesWith, Mishap, GrantsInv, ReportFacts,
     CountFacts, InHand, Before, Parting
<1>9. CASE ResolverAnswers
  BY <1>9, InHandCount DEF ResolverAnswers, GrantsInv, ReportFacts, CountFacts, InHand, Before,
     Parting
<1>10. CASE Debit
  <2>1. /\ debited' = debited \cup {work} /\ work \notin debited /\ stage = "enter"
        /\ UNCHANGED <<stage, work, groups, attempts, error>>
    BY <1>10 DEF Debit
  <2>2. debited' \ {work} = debited \ {work}
    BY <2>1
  <2>3. IsFiniteSet(debited')
    BY <2>1, FS_AddElement DEF GrantsInv, CountFacts
  <2> QED
    BY <2>1, <2>2, <2>3 DEF GrantsInv, CountFacts, InHand, Before, Parting
<1>11. CASE Attempt \/ EnterEpisode \/ RecordUse
  BY <1>11, InHandCount DEF Attempt, EnterEpisode, RecordUse, Granting, FailsWith, Mishap, MayTake,
     StoresUse, Observed, GrantsInv, ReportFacts, CountFacts, InHand, Before, Parting
<1>12. CASE Confirm
  BY <1>12, InHandCount DEF Confirm, Granting, LeavesWith, Mishap, GrantsInv, ReportFacts,
     CountFacts, InHand, Before, Parting
<1>13. CASE ConfirmFails
  BY <1>13, InHandCount DEF ConfirmFails, Granting, FailsWith, Mishap, GrantsInv, ReportFacts,
     CountFacts, InHand, Before, Parting
<1>14. CASE Handle
  <2>1. /\ stage = "failing" /\ stage' = "leave" /\ UNCHANGED <<work, groups, debited>>
        /\ \/ attempts' = attempts /\ error' # "none"
           \/ attempts' = attempts + 1
    BY <1>14 DEF Handle, Granting, LeavesWith, Counted, PassedOn, GrantsInv, CountFacts
  <2>2. attempts < Limit /\ Cardinality(debited) <= attempts + 1
    BY <2>1, InHandCount DEF GrantsInv, CountFacts, InHand, Before
  <2> QED
    BY <2>1, <2>2, InHandCount DEF GrantsInv, CountFacts, InHand, Before, Parting
<1>15. CASE LeaveWork \/ Cleanup \/ Close \/ LingererEnds
  BY <1>15, InHandCount DEF LeaveWork, Cleanup, Close, LingererEnds, Leaving, RaisesAtExit, Mishap,
     EndsPass, EndsFor, GrantsInv, ReportFacts, CountFacts, InHand, Before, Parting
<1> QED
  BY <1>1, <1>2, <1>3, <1>4, <1>5, <1>6, <1>7, <1>8, <1>9, <1>10, <1>11, <1>12, <1>13,
   <1>14, <1>15 DEF Act, Pass

LEMMA GuardKept ==
  ASSUME GrantsAssumption, GrantsInv, Act
  PROVE  GuardFacts'
<1>1. CASE NextWork
  BY <1>1, TakesNext DEF NextWork, BeforeContact, guardVars, GrantsInv, GuardFacts, Parting
<1>2. CASE Gate
  BY <1>2 DEF Gate, BeforeContact, guardVars, entryVars, GrantsInv, PassTypeOK, GuardFacts,
     Parting
<1>3. CASE OpenPage
  BY <1>3 DEF OpenPage, Mishap, guardVars, entryVars, GrantsInv, PassTypeOK, GuardFacts, Parting
<1>4. CASE StopsEarly
  BY <1>4 DEF StopsEarly, BeforeContact, EndsPass, Mishap, guardVars, entryVars, GrantsInv,
     PassTypeOK, GuardFacts, Parting
<1>5. CASE ResolverAnswers \/ GivesUp \/ Resolved \/ PassInterrupted \/ ApplyResolution
  BY <1>5 DEF ResolverAnswers, GivesUp, Resolved, PassInterrupted, ApplyResolution, Resolving,
     LeavesWith, Lends, Mishap, guardVars, entryVars, GrantsInv, PassTypeOK, GuardFacts, Parting
<1>6. CASE Attempt \/ Debit \/ EnterEpisode \/ RecordUse
  BY <1>6 DEF Attempt, Debit, EnterEpisode, RecordUse, Granting, FailsWith, Mishap, MayTake,
     StoresUse, Observed, guardVars, entryVars, GrantsInv, PassTypeOK, GuardFacts, Parting
<1>7. CASE Confirm \/ ConfirmFails \/ Handle
  BY <1>7 DEF Confirm, ConfirmFails, Handle, Granting, LeavesWith, Mishap, FailsWith, StoresUse,
     Counted, PassedOn, guardVars, entryVars, GrantsInv, PassTypeOK, GuardFacts, Parting
<1>8. CASE Cleanup
  BY <1>8 DEF Cleanup, Leaving, Mishap, guardVars, entryVars, GrantsInv, PassTypeOK, GuardFacts,
     Parting
<1>9. CASE Close
  BY <1>9 DEF Close, Leaving, Mishap, EndsPass, EndsFor, guardVars, entryVars, GrantsInv, PassTypeOK,
     GuardFacts, Parting
<1>10. CASE LeaveWork \/ LingererEnds
  BY <1>10 DEF LeaveWork, LingererEnds, Leaving, RaisesAtExit, guardVars, entryVars, GrantsInv,
     PassTypeOK, GuardFacts, Parting
<1> QED
  BY <1>1, <1>2, <1>3, <1>4, <1>5, <1>6, <1>7, <1>8, <1>9, <1>10 DEF Act, Pass

\* The guard's own steps move nothing of the pass.
LEMMA LoopKept ==
  ASSUME GrantsInv, GuardLoop
  PROVE  GrantsInv'
<1>1. GuardTypeOK' /\ UNCHANGED watching
  BY GuardMoves DEF GuardLoop, GrantsInv, PassTypeOK
<1>2. /\ UNCHANGED <<groups, work, stage, page, lingers, chosen, held, used, attempts>>
      /\ UNCHANGED <<seen, checked, error, run, stored, debited, rows, confirmed, outcome, mishaps, proven>>
  BY DEF GuardLoop, entryVars, attemptVars, catalogVars
<1>3. PassTypeOK'
  BY <1>1, <1>2 DEF GrantsInv, PassTypeOK
<1>4. WorkFacts' /\ ReportFacts'
  BY <1>2 DEF GrantsInv, WorkFacts, Untouched, PassOver, ReportFacts, Truth
<1>5. StoreFacts' /\ CountFacts'
  BY <1>2 DEF GrantsInv, StoreFacts, ConfirmedIsStored, CountFacts
<1>6. GuardFacts'
  BY <1>1, <1>2 DEF GrantsInv, GuardFacts
<1> QED
  BY <1>3, <1>4, <1>5, <1>6 DEF GrantsInv

LEMMA StutterKept ==
  ASSUME GrantsInv, UNCHANGED passVars
  PROVE  GrantsInv'
<1> USE DEF passVars, guardVars, callVars, entryVars, attemptVars, catalogVars
<1>1. PassTypeOK'
  BY DEF GrantsInv, PassTypeOK, GuardTypeOK
<1>2. WorkFacts' /\ ReportFacts'
  BY DEF GrantsInv, WorkFacts, Untouched, PassOver, ReportFacts, Truth
<1>3. StoreFacts' /\ CountFacts' /\ GuardFacts'
  BY DEF GrantsInv, StoreFacts, ConfirmedIsStored, CountFacts, GuardFacts
<1> QED
  BY <1>1, <1>2, <1>3 DEF GrantsInv

\* Every step keeps the invariant.
LEMMA GrantsStep ==
  ASSUME GrantsAssumption, GrantsInv, [PassNext]_passVars
  PROVE  GrantsInv'
<1>1. CASE Act
  <2>1. rows' \in Rows
    BY <1>1, RowsMove
  <2>2. PassTypeOK'
    BY <1>1, <2>1, GuardTyped, WorkTyped, CountsTyped, SetsTyped, PlaceTyped, FlagsTyped
       DEF PassTypeOK, Rows, Lines
  <2> QED
    BY <1>1, <2>2, WorkKept, ReportKept, StoreKept, CountKept, GuardKept DEF GrantsInv
<1>2. CASE GuardLoop
  BY <1>2, LoopKept
<1>3. CASE UNCHANGED passVars
  BY <1>3, StutterKept
<1> QED
  BY <1>1, <1>2, <1>3 DEF PassNext, Act

\* The inductive invariant.
LEMMA GrantsInvariant == ASSUME GrantsAssumption PROVE PassSpec => []GrantsInv
<1>1. PassInit => GrantsInv
  BY GrantsInit
<1>2. GrantsInv /\ [PassNext]_passVars => GrantsInv'
  BY GrantsStep
<1> QED
  BY <1>1, <1>2, PTL DEF PassSpec

-------------------------------------------------------------------------------
\* The pass keeps its types.
THEOREM GrantsTypeCorrect == ASSUME GrantsAssumption PROVE PassSpec => []PassTypeOK
<1>1. GrantsInv => PassTypeOK
  BY DEF GrantsInv
<1> QED
  BY <1>1, GrantsInvariant, PTL

\* The report of a pass that is over says of exactly the works whose ticket an
\* adapter saw go that the ticket is gone (_execute_deferred_grants,
\* GrantOnlyReport.failure).
THEOREM GrantsReportTruthful == ASSUME GrantsAssumption PROVE PassSpec => []ReportTruthful
<1>1. GrantsInv => ReportTruthful
  BY DEF GrantsInv, PassTypeOK, WorkFacts, ReportFacts, Truth, ReportTruthful, PassOver,
     InHand, Before
<1> QED
  BY <1>1, GrantsInvariant, PTL

\* A grant the caller captures next took its ticket, its consumption is in the
\* Catalog and its run succeeded (execute_grant_only_candidate).
THEOREM GrantsConfirmedIsStored == ASSUME GrantsAssumption PROVE PassSpec => []ConfirmedIsStored
<1>1. GrantsInv => ConfirmedIsStored
  BY DEF GrantsInv, StoreFacts
<1> QED
  BY <1>1, GrantsInvariant, PTL

\* The site takes no more tickets than the pass may attempt (attempt_limit).
THEOREM GrantsTicketsWithinLimit == ASSUME GrantsAssumption PROVE PassSpec => []TicketsWithinLimit
<1>1. GrantsInv => TicketsWithinLimit
  <2> SUFFICES ASSUME GrantsInv PROVE Cardinality(debited) <= Limit
    BY DEF TicketsWithinLimit
  <2>1. CASE stage \in InHand
    <3>1. attempts < Limit
      BY <2>1 DEF GrantsInv, CountFacts
    <3> QED
      BY <2>1, <3>1, InHandCount
  <2>2. CASE stage \notin InHand
    BY <2>2 DEF GrantsInv, CountFacts
  <2> QED
    BY <2>1, <2>2
<1> QED
  BY <1>1, GrantsInvariant, PTL

\* What the report, the Catalog and the site say of a pass agrees, for every list
\* of works, attempt limit and bound on faults (_execute_deferred_grants).
THEOREM GrantsAreTruthful == ASSUME GrantsAssumption PROVE PassSpec => []GrantsTruthful
<1> QED
  BY GrantsTypeCorrect, GrantsReportTruthful, GrantsConfirmedIsStored, GrantsTicketsWithinLimit,
     PTL DEF GrantsTruthful

\* A page is opened, and a ticket taken, at one step each.
LEMMA Contacts ==
  ASSUME [PassNext]_passVars
  PROVE  /\ page' = page \/ page' = FALSE \/ stage = "open"
         /\ debited' = debited \/ stage = "enter"
<1>1. CASE NextWork \/ Gate \/ StopsEarly \/ OpenPage
  BY <1>1 DEF NextWork, Gate, StopsEarly, OpenPage, BeforeContact
<1>2. CASE GivesUp \/ Resolved \/ PassInterrupted \/ ApplyResolution
  BY <1>2 DEF GivesUp, Resolved, PassInterrupted, ApplyResolution, Resolving
<1>3. CASE Attempt \/ EnterEpisode \/ RecordUse \/ Confirm \/ ConfirmFails \/ Handle
  BY <1>3 DEF Attempt, EnterEpisode, RecordUse, Confirm, ConfirmFails, Handle, Granting
<1>4. CASE LeaveWork \/ Cleanup \/ Close
  BY <1>4 DEF LeaveWork, Cleanup, Close, Leaving
<1>5. CASE ResolverAnswers \/ Debit \/ GuardLoop \/ LingererEnds
  BY <1>5 DEF ResolverAnswers, Debit, GuardLoop, LingererEnds
<1>6. CASE UNCHANGED passVars
  BY <1>6 DEF passVars
<1> QED
  BY <1>1, <1>2, <1>3, <1>4, <1>5, <1>6 DEF PassNext, Pass

\* Beside a resolver that outlives its cancel no page is opened and no ticket is
\* taken (prepare_access_resource_candidates: its grace, and the error it ends in).
THEOREM GrantsNoContactBesideLingerer ==
  ASSUME GrantsAssumption PROVE PassSpec => NoContactBesideLingerer
<1>1. GrantsInv /\ [PassNext]_passVars
        => [lingers => (page' => page) /\ debited' = debited]_passVars
  BY Contacts DEF GrantsInv, GuardFacts, Parting
<1> QED
  BY <1>1, GrantsInvariant, PTL DEF PassSpec, NoContactBesideLingerer

\* A ticket goes only while the page's guard is on and the resolver's context is
\* open for the one grant it was handed to (PreparedAccessResource.take).
THEOREM GrantsGrantUnderGuard == ASSUME GrantsAssumption PROVE PassSpec => GrantUnderGuard
<1>1. GrantsInv /\ [PassNext]_passVars
        => [debited' # debited => watching /\ held /\ used]_passVars
  BY Contacts DEF GrantsInv, GuardFacts
<1> QED
  BY <1>1, GrantsInvariant, PTL DEF PassSpec, GrantUnderGuard

\* The pass asks nothing of the site beside a resolver that outlives its cancel,
\* and no ticket but under its guard, for every list of works, attempt limit and
\* bound on faults (cli.py and batch/executor.py).
THEOREM GrantsContactsGuarded == ASSUME GrantsAssumption PROVE PassSpec => ContactsGuarded
<1> QED
  BY GrantsNoContactBesideLingerer, GrantsGrantUnderGuard DEF ContactsGuarded

===============================================================================
