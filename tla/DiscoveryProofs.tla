---------------------------- MODULE DiscoveryProofs ----------------------------
(***************************************************************************)
(* What Discovery and the reconciliation of the flags keep, for every set  *)
(* of keys and scopes, every number of chapters, runs, failures and edits, *)
(* every kind of adapter and every moment at which the site, the user or   *)
(* a failure comes between two transactions.                               *)
(***************************************************************************)
EXTENDS ScopeSync, FiniteSetTheorems, TLAPS

-------------------------------------------------------------------------------
\* The inductive invariant.

SourceType == [key : Keys \cup {"none"}, position : Nat, enabled : BOOLEAN, available : BOOLEAN]
MarkerType == [status : {"none", "synced", "stale"},
               config : [Keys -> Scopes \cup {Absent}], history : [Keys -> Scopes \cup {Absent}]]
Places == {"idle", "reading", "read", "availability", "positions", "proof", "flags", "undo"}
RunType == [pc : Places, key : Keys \cup {"none"}, mode : Modes, scope : Scopes \cup {Unbounded},
            rows : SUBSET Chapters, todo : SUBSET Chapters, seen : SUBSET Chapters,
            streak : Nat, stopped : {"none", "exhausted", "stable_boundary", "known_streak"}]
EndedType == [key : Keys \cup {"none"}, mode : Modes,
              outcome : {"none", "incomplete", "cut off", "raised", "complete"}]

CatalogShape ==
  /\ source \in [Chapters -> SourceType]
  /\ \A c \in Chapters : source[c].key = "none" => source[c] = NoSource
  /\ proof \in [Keys -> ProofOf] /\ marker \in MarkerType
Shape ==
  /\ published \in Chapters /\ listing \subseteq 1 .. published /\ scope \in [Keys -> Scopes]
  /\ lastFull \in [Keys -> ProofOf]
  /\ run \in RunType /\ ended \in EndedType

Running == run.pc # "idle"
RunningFull == Running /\ run.mode = "full"

\* A run goes through what its scope selects of its listing, and stores all of
\* it under its own key; only an incremental run stops before the end.
ReadingFacts ==
  /\ Running => /\ run.key \in Keys
                /\ run.todo \cup run.seen = Selected(run.rows, run.scope)
                /\ run.seen \subseteq Owned(run.key)
  /\ RunningFull /\ run.pc # "reading" => run.todo = {}
  /\ run.pc = "availability" => run.mode = "full" /\ run.scope = Unbounded
  /\ run.pc \in {"proof", "undo"} => HasInventory

\* A full run has no proof before it records its own.
FullFacts ==
  RunningFull =>
    /\ lastFull[run.key] = [scope |-> run.scope, rows |-> run.rows, inScope |-> Selected(run.rows, run.scope)]
    /\ run.pc \notin {"flags", "undo"} \/ ~HasInventory => proof[run.key] = NoProof
    /\ run.pc = "flags" /\ HasInventory =>
         \A c \in Owned(run.key) \cap run.rows : source[c].position = Rank(run.rows, c)
    /\ run.scope = Unbounded /\ run.pc \in {"positions", "proof", "flags"} =>
         \A c \in Owned(run.key) : source[c].available => c \in run.seen

\* What a run has not in its listing the site had taken down when it began.
SiteFacts ==
  /\ Known \subseteq 1 .. published
  /\ Running => run.rows \subseteq 1 .. published /\ \A c \in Known : c \notin run.rows => c \notin listing
  /\ LostOnlyIfWithdrawn

ProofFacts ==
  /\ \A k \in Keys : lastFull[k].inScope = Selected(lastFull[k].rows, lastFull[k].scope)
  /\ ProofIsOfLatestFull /\ ProofMatchesCatalog /\ FlagFailureLeavesNoProof

DiscoveryInv == CatalogShape /\ Shape /\ ReadingFacts /\ FullFacts /\ SiteFacts /\ ProofFacts

\* What was synchronised is bound.
BoundFacts == marker.status = "synced" =>
  \A k \in Keys : marker.config[k] # Absent => marker.history[k] = marker.config[k]

\* The preview that is about to be committed, for the Watchlist that it was
\* computed from: only the scopes can have changed since.
ReadyFor(config) ==
  LET targets == {k \in Keys : config[k] # Absent}
      needs(k) == config[k] # Unbounded \/ marker.history[k] \notin {Absent, config[k]} \/ Unbound(k) IN
  /\ \A c \in Known : source[c].key \in targets \/ marker.history[source[c].key] # Absent
  /\ \A k \in targets : needs(k) =>
       /\ proof[k] # NoProof /\ proof[k].scope = config[k]
       /\ Owned(k) \subseteq proof[k].rows /\ proof[k].inScope \subseteq Owned(k)
       /\ \A c \in Owned(k) : source[c].position = Rank(proof[k].rows, c)
WantedFor(config) ==
  {c \in Known : LET k == source[c].key IN
     /\ config[k] # Absent
     /\ (config[k] # Unbounded \/ marker.history[k] \notin {Absent, config[k]} \/ Unbound(k)
           => c \in proof[k].inScope)}
ShownFacts ==
  applying => /\ shown.ready /\ shown.token = Token
              /\ shown.config \in [Keys -> Scopes]
              /\ ReadyFor(shown.config) /\ shown.wanted = WantedFor(shown.config)
              /\ run.pc = "idle"

ScopeSyncInv == DiscoveryInv /\ BoundFacts /\ ShownFacts

-------------------------------------------------------------------------------
\* Operators of the model.

\* The greatest element of a finite set of numbers is one of its elements: no
\* chain of numbers above one another goes on for ever in a finite set.
LEMMA MaxIsIn ==
  ASSUME NEW S, IsFiniteSet(S), S \subseteq Nat, S # {}
  PROVE  Max(S) \in S /\ \A y \in S : Max(S) >= y
<1> DEFINE Above(x) == {y \in S : y > x}
           Aboves == {Above(x) : x \in S}
<1>1. IsWellFoundedOn(StrictSubsetOrdering(S), FiniteSubsetsOf(S))
  BY FS_StrictSubsetOrderingWellFounded
<1>2. Aboves \subseteq FiniteSubsetsOf(S)
  <2> SUFFICES ASSUME NEW x \in S PROVE Above(x) \in SUBSET S /\ IsFiniteSet(Above(x))
    BY DEF FiniteSubsetsOf
  <2>1. Above(x) \in SUBSET S
    OBVIOUS
  <2> QED
    BY <2>1, FS_Subset
<1>3. Aboves # {}
  OBVIOUS
<1>4. \E A \in Aboves : \A B \in Aboves : <<B, A>> \notin StrictSubsetOrdering(S)
  <2> HIDE DEF Aboves
  <2> QED
    BY <1>1, <1>2, <1>3, WFMin
<1>5. PICK x \in S : \A y \in S : <<Above(y), Above(x)>> \notin StrictSubsetOrdering(S)
  BY <1>4
<1>6. ASSUME NEW y \in S PROVE x >= y
  <2>1. SUFFICES ASSUME y > x PROVE FALSE
    OBVIOUS
  <2>0. x \in Nat /\ y \in Nat /\ \A z \in S : z \in Nat
    OBVIOUS
  <2>2. Above(y) \subseteq Above(x) /\ y \in Above(x) /\ y \notin Above(y)
    <3>1. ASSUME NEW z \in S, z > y PROVE z > x
      BY <2>0, <2>1, <3>1
    <3>2. ~(y > y)
      BY <2>0
    <3> QED
      BY <2>1, <3>1, <3>2
  <2>3. Above(y) \in SUBSET S /\ Above(x) \in SUBSET S /\ Above(y) # Above(x)
    BY <2>2
  <2>4. <<Above(y), Above(x)>> \in StrictSubsetOrdering(S)
    BY <2>2, <2>3 DEF StrictSubsetOrdering
  <2> QED
    BY <2>4, <1>5
<1> QED
  BY <1>6 DEF Max

LEMMA ChaptersFinite ==
  ASSUME DiscoveryAssumption, NEW rows \in SUBSET Chapters
  PROVE  IsFiniteSet(rows) /\ rows \subseteq Nat
<1>1. IsFiniteSet(1 .. Count)
  BY FS_Interval DEF DiscoveryAssumption
<1>2. rows \in SUBSET (1 .. Count)
  BY DEF Chapters
<1>3. IsFiniteSet(rows)
  BY <1>1, <1>2, FS_Subset
<1> QED
  BY <1>2, <1>3 DEF DiscoveryAssumption

LEMMA RankType ==
  ASSUME DiscoveryAssumption, NEW rows \in SUBSET Chapters, NEW c
  PROVE  Rank(rows, c) \in Nat
<1>1. {d \in rows : d <= c} \in SUBSET Chapters
  OBVIOUS
<1> QED
  BY <1>1, ChaptersFinite, FS_CardinalityType DEF Rank

\* The newest position a run has met.
LEMMA MaxPosition ==
  ASSUME DiscoveryAssumption, CatalogShape, Shape, Positioned # {},
         NEW m, m = Max({source[d].position : d \in Positioned})
  PROVE  m \in Nat /\ \A d \in Positioned : source[d].position <= m
<1> DEFINE given == {source[d].position : d \in Positioned}
           place == [d \in Positioned |-> source[d].position]
<1>1. Positioned \in SUBSET Chapters
  BY DEF Positioned, Shape, RunType
<1>2. given \subseteq Nat /\ given # {}
  BY <1>1 DEF CatalogShape, SourceType
<1>3. IsFiniteSet(given)
  <2>1. IsFiniteSet(Positioned)
    BY <1>1, ChaptersFinite
  <2>2. place \in Surjection(Positioned, given)
    BY DEF Surjection
  <2> HIDE DEF place, given
  <2> QED
    BY <2>1, <2>2, FS_Surjection
<1>4. \A d \in Positioned : source[d].position \in given
  OBVIOUS
<1>5. m = Max(given)
  OBVIOUS
<1> HIDE DEF given
<1>6. m \in given /\ \A y \in given : m >= y
  BY <1>2, <1>3, <1>5, MaxIsIn
<1>7. \A y \in given : y <= m
  BY <1>2, <1>6
<1> QED
  BY <1>2, <1>4, <1>6, <1>7

\* A run gives positions to chapters it has met.
LEMMA PositionsType ==
  ASSUME DiscoveryAssumption, CatalogShape, Shape
  PROVE  DOMAIN Positions \subseteq run.seen /\ \A c \in DOMAIN Positions : Positions[c] \in Nat
<1>1. run.seen \in SUBSET Chapters /\ run.rows \in SUBSET Chapters
  BY DEF Shape, RunType
<1>2. \A c : Rank(run.rows, c) \in Nat /\ Rank(run.seen, c) \in Nat
  BY <1>1, RankType
<1>3. DOMAIN FullPositions \subseteq run.seen /\ \A c \in DOMAIN FullPositions : FullPositions[c] \in Nat
  BY <1>2 DEF FullPositions
<1>4. DOMAIN AppendedPositions \subseteq run.seen /\ \A c \in DOMAIN AppendedPositions : AppendedPositions[c] \in Nat
  <2>1. CASE hints
    BY <2>1, <1>2 DEF AppendedPositions
  <2>2. CASE ~hints /\ (~Infers \/ Positioned = {})
    BY <2>2 DEF AppendedPositions
  <2>3. CASE ~hints /\ Infers /\ Positioned # {}
    <3> PICK m : m = Max({source[d].position : d \in Positioned})
      OBVIOUS
    <3> PICK fresh : fresh = run.seen \ Positioned
      OBVIOUS
    <3>1. AppendedPositions = [c \in fresh |-> m + Rank(fresh, c)]
      BY <2>3 DEF AppendedPositions
    <3>2. m \in Nat
      BY <2>3, MaxPosition
    <3>3. fresh \subseteq run.seen /\ \A c \in fresh : m + Rank(fresh, c) \in Nat
      <4>1. fresh \in SUBSET Chapters
        BY <1>1
      <4>2. \A c : Rank(fresh, c) \in Nat
        BY <4>1, RankType
      <4>3. \A c \in fresh : m + Rank(fresh, c) \in Nat
        <5>1. ASSUME NEW n \in Nat PROVE m + n \in Nat
          BY <3>2
        <5> QED
          BY <4>2, <5>1
      <4> QED
        BY <4>3
    <3> QED
      BY <3>1, <3>3
  <2> QED
    BY <2>1, <2>2, <2>3
<1> QED
  BY <1>3, <1>4 DEF Positions

\* Whose a chapter is, is told by its key.
LEMMA KnownByKey ==
  ASSUME DiscoveryAssumption, CatalogShape
  PROVE  /\ \A c \in Chapters : c \in Known <=> source[c].key \in Keys
         /\ \A k \in Keys : Owned(k) = {c \in Chapters : source[c].key = k}
BY DEF DiscoveryAssumption, CatalogShape, Known, Owned, NoSource, SourceType

-------------------------------------------------------------------------------
\* Initial states.
LEMMA InitDiscovery ==
  ASSUME DiscoveryAssumption, Init PROVE DiscoveryInv
<1>1. 1 \in Chapters /\ {1} \subseteq 1 .. 1
  BY DEF DiscoveryAssumption, Chapters
<1>2. NoSource \in SourceType /\ NoProof \in ProofOf /\ NoMarker \in MarkerType /\ NoRun \in RunType /\ NotEnded \in EndedType
  BY DEF NoSource, SourceType, NoProof, ProofOf, NoMarker, MarkerType, NoRun, RunType, NotEnded, EndedType, Modes, Places
<1>3. CatalogShape
  BY <1>2 DEF Init, CatalogShape
<1>4. Shape
  BY <1>1, <1>2 DEF Init, Shape
<1>5. Known = {} /\ run.pc = "idle"
  BY DEF Init, Known, NoRun
<1>6. ReadingFacts /\ FullFacts
  BY <1>5 DEF ReadingFacts, FullFacts, Running, RunningFull
<1>7. SiteFacts
  BY <1>5 DEF SiteFacts, Running, LostOnlyIfWithdrawn
<1>8. ProofFacts
  BY DEF Init, ProofFacts, ProofIsOfLatestFull, ProofMatchesCatalog, FlagFailureLeavesNoProof, NotEnded, NoProof,
     Selected, InRange
<1> QED
  BY <1>3, <1>4, <1>6, <1>7, <1>8 DEF DiscoveryInv

-------------------------------------------------------------------------------
\* Steps that touch neither the Catalog nor the run.
Aside == UNCHANGED <<hints, source, proof, marker, run, lastFull>>

LEMMA AsideKeepsRun ==
  ASSUME ReadingFacts, FullFacts, Aside PROVE ReadingFacts' /\ FullFacts'
BY DEF Aside, ReadingFacts, FullFacts, Running, RunningFull, HasInventory, Owned, Known, Rank, Selected, InRange

LEMMA PublishKeeps ==
  ASSUME DiscoveryAssumption, DiscoveryInv, Publish PROVE DiscoveryInv'
<1> USE DEF DiscoveryInv
<1>1. Aside /\ UNCHANGED <<scope, ended>>
  BY DEF Publish, Aside, catalogVars
<1>2. CatalogShape'
  BY <1>1 DEF CatalogShape, Aside
<1>3. published \in Nat /\ published' \in Chapters /\ listing' = listing \cup {published'} /\ published' = published + 1
  BY DEF Publish, Shape, Chapters, DiscoveryAssumption
<1>4. listing' \subseteq 1 .. published' /\ 1 .. published \subseteq 1 .. published' /\ published' \notin 1 .. published
  BY <1>3 DEF Shape
<1>5. Shape'
  BY <1>1, <1>3, <1>4 DEF Shape, Aside
<1>6. Known' = Known
  BY <1>1 DEF Known, Aside
<1>7. SiteFacts'
  BY <1>1, <1>3, <1>4, <1>6 DEF SiteFacts, Running, LostOnlyIfWithdrawn, Aside
<1>8. ProofFacts'
  BY <1>1 DEF ProofFacts, ProofIsOfLatestFull, ProofMatchesCatalog, FlagFailureLeavesNoProof, Aside, Owned, Known, Rank,
     Selected, InRange
<1> QED
  BY <1>1, <1>2, <1>5, <1>7, <1>8, AsideKeepsRun

LEMMA WithdrawKeeps ==
  ASSUME DiscoveryInv, NEW c \in Chapters, Withdraw(c) PROVE DiscoveryInv'
<1> USE DEF DiscoveryInv
<1>1. Aside /\ UNCHANGED <<published, scope, ended>> /\ listing' \subseteq listing
  BY DEF Withdraw, Aside, catalogVars
<1>2. CatalogShape' /\ Shape'
  BY <1>1 DEF CatalogShape, Shape, Aside
<1>3. SiteFacts'
  BY <1>1 DEF SiteFacts, Running, LostOnlyIfWithdrawn, Aside, Known
<1>4. ProofFacts'
  BY <1>1 DEF ProofFacts, ProofIsOfLatestFull, ProofMatchesCatalog, FlagFailureLeavesNoProof, Aside, Owned, Known, Rank,
     Selected, InRange
<1> QED
  BY <1>1, <1>2, <1>3, <1>4, AsideKeepsRun

LEMMA EditScopeKeeps ==
  ASSUME DiscoveryInv, NEW k \in Keys, NEW s \in Scopes, EditScope(k, s) PROVE DiscoveryInv'
<1> USE DEF DiscoveryInv
<1>1. Aside /\ UNCHANGED <<published, listing, ended>> /\ scope' = [scope EXCEPT ![k] = s]
  BY DEF EditScope, Aside, catalogVars, siteVars
<1>2. CatalogShape' /\ Shape'
  BY <1>1 DEF CatalogShape, Shape, Aside
<1>3. SiteFacts'
  BY <1>1 DEF SiteFacts, Running, LostOnlyIfWithdrawn, Aside, Known
<1>4. ProofFacts'
  BY <1>1 DEF ProofFacts, ProofIsOfLatestFull, ProofMatchesCatalog, FlagFailureLeavesNoProof, Aside, Owned, Known, Rank,
     Selected, InRange
<1> QED
  BY <1>1, <1>2, <1>3, <1>4, AsideKeepsRun

LEMMA RefuseKeeps ==
  ASSUME DiscoveryInv, NEW k \in Keys, NEW mode \in Modes, Refuse(k, mode) PROVE DiscoveryInv'
<1> USE DEF DiscoveryInv
<1>1. Aside /\ UNCHANGED <<published, listing, hints, scope>> /\ ended' = [key |-> k, mode |-> mode, outcome |-> "incomplete"]
  BY DEF Refuse, Aside, catalogVars, siteVars
<1>2. CatalogShape' /\ Shape'
  BY <1>1 DEF CatalogShape, Shape, Aside, EndedType
<1>3. SiteFacts'
  BY <1>1 DEF SiteFacts, Running, LostOnlyIfWithdrawn, Aside, Known
<1>4. ProofFacts'
  BY <1>1 DEF ProofFacts, ProofIsOfLatestFull, ProofMatchesCatalog, FlagFailureLeavesNoProof, Aside, Owned, Known, Rank,
     Selected, InRange
<1> QED
  BY <1>1, <1>2, <1>3, <1>4, AsideKeepsRun

-------------------------------------------------------------------------------
\* The beginning and the end of a run.

LEMMA StartKeeps ==
  ASSUME DiscoveryAssumption, DiscoveryInv, NEW k \in Keys, NEW mode \in Modes, Start(k, mode) PROVE DiscoveryInv'
<1> USE DEF DiscoveryInv
<1> DEFINE whole == [scope |-> scope[k], rows |-> listing, inScope |-> Selected(listing, scope[k])]
<1>1. /\ run.pc = "idle" /\ UNCHANGED <<published, listing, hints, scope, source, marker, ended>>
      /\ proof' = IF mode = "full" THEN [proof EXCEPT ![k] = NoProof] ELSE proof
      /\ lastFull' = IF mode = "full" THEN [lastFull EXCEPT ![k] = whole] ELSE lastFull
      /\ run' = [pc |-> "reading", key |-> k, mode |-> mode, scope |-> scope[k], rows |-> listing,
                 todo |-> Selected(listing, scope[k]), seen |-> {}, streak |-> 0, stopped |-> "none"]
  BY DEF Start, siteVars, Invalidated, NoRun
<1>2. scope[k] \in Scopes /\ listing \in SUBSET Chapters /\ Selected(listing, scope[k]) \in SUBSET Chapters
  <2>1. published \in 1 .. Count /\ Count \in Nat /\ listing \subseteq 1 .. published
    BY DEF Shape, Chapters, DiscoveryAssumption
  <2>2. listing \in SUBSET Chapters
    BY <2>1 DEF Chapters
  <2> QED
    BY <2>2 DEF Shape, Selected, InRange
<1>3. NoProof \in ProofOf /\ whole \in ProofOf
  BY <1>2 DEF NoProof, ProofOf
<1>4. CatalogShape'
  BY <1>1, <1>3 DEF CatalogShape
<1>5. run' \in RunType
  BY <1>1, <1>2 DEF RunType, Places
<1>6. Shape'
  <2>1. lastFull' \in [Keys -> ProofOf]
    BY <1>1, <1>3 DEF Shape
  <2> QED
    BY <1>1, <1>5, <2>1 DEF Shape
<1>7. ReadingFacts'
  BY <1>1 DEF ReadingFacts, Running, RunningFull
<1>8. FullFacts'
  <2>1. mode = "full" => lastFull'[k] = whole /\ proof'[k] = NoProof
    BY <1>1 DEF Shape, CatalogShape
  <2> QED
    BY <1>1, <2>1 DEF FullFacts, RunningFull, Running, Selected, InRange
<1>9. SiteFacts'
  BY <1>1 DEF SiteFacts, Running, LostOnlyIfWithdrawn, Known, Shape
<1>10. ProofFacts'
  <2>1. \A l \in Keys : /\ proof'[l] = proof[l] \/ proof'[l] = NoProof
                        /\ lastFull'[l] = lastFull[l] \/ (lastFull'[l] = whole /\ proof'[l] = NoProof)
    BY <1>1 DEF Shape, CatalogShape
  <2>2. \A l \in Keys : lastFull'[l].inScope = Selected(lastFull'[l].rows, lastFull'[l].scope)
    BY <2>1 DEF ProofFacts
  <2>3. ProofIsOfLatestFull'
    BY <2>1 DEF ProofFacts, ProofIsOfLatestFull
  <2>4. ProofMatchesCatalog'
    <3>1. Known' = Known /\ \A l \in Keys : Owned(l)' = Owned(l)
      BY <1>1 DEF Known, Owned
    <3>2. \A l \in Keys : proof'[l] # NoProof => proof'[l] = proof[l]
      BY <2>1
    <3> QED
      BY <1>1, <3>1, <3>2 DEF ProofFacts, ProofMatchesCatalog, Rank
  <2>5. FlagFailureLeavesNoProof'
    BY <1>1 DEF FlagFailureLeavesNoProof
  <2> QED
    BY <2>2, <2>3, <2>4, <2>5 DEF ProofFacts, Selected, InRange
<1> QED
  BY <1>4, <1>6, <1>7, <1>8, <1>9, <1>10

\* A run that ends without writing.
LEMMA EndingKeeps ==
  ASSUME DiscoveryInv, Running, UNCHANGED <<siteVars, scope, catalogVars, lastFull>>,
         NEW outcome \in {"incomplete", "cut off", "raised"}, Ends(outcome),
         outcome = "raised" /\ run.mode = "full" => proof[run.key] = NoProof
  PROVE  DiscoveryInv'
<1> USE DEF DiscoveryInv, siteVars, catalogVars
<1>1. run' = NoRun /\ run'.pc = "idle" /\ ended' = [key |-> run.key, mode |-> run.mode, outcome |-> outcome]
  BY DEF Ends, NoRun
<1>2. CatalogShape'
  BY DEF CatalogShape
<1>3. Shape'
  <2>1. NoRun \in RunType
    BY DEF NoRun, RunType, Modes, Places
  <2>2. ended' \in EndedType
    BY <1>1 DEF Shape, RunType, EndedType
  <2> QED
    BY <1>1, <2>1, <2>2 DEF Shape
<1>4. ReadingFacts' /\ FullFacts'
  BY <1>1 DEF ReadingFacts, FullFacts, Running, RunningFull
<1>5. SiteFacts'
  BY <1>1 DEF SiteFacts, Running, LostOnlyIfWithdrawn, Known
<1>6. ProofFacts'
  BY <1>1 DEF ProofFacts, ProofIsOfLatestFull, ProofMatchesCatalog, FlagFailureLeavesNoProof, Owned, Known, Rank,
     Selected, InRange
<1> QED
  BY <1>2, <1>3, <1>4, <1>5, <1>6

LEMMA IncompleteKeeps ==
  ASSUME DiscoveryInv, Incomplete PROVE DiscoveryInv'
<1>1. Running
  BY DEF Incomplete, Running, Readable
<1> QED
  BY <1>1, EndingKeeps DEF Incomplete

LEMMA ListingBreaksKeeps ==
  ASSUME DiscoveryInv, ListingBreaks PROVE DiscoveryInv'
BY EndingKeeps DEF ListingBreaks, Running

LEMMA CutOffKeeps ==
  ASSUME DiscoveryInv, CutOff PROVE DiscoveryInv'
BY EndingKeeps DEF CutOff, Running

-------------------------------------------------------------------------------
\* Steps of a run that write nothing.

LEMMA MovesOn ==
  ASSUME DiscoveryInv, UNCHANGED <<siteVars, scope, catalogVars, lastFull, ended>>, Running,
         NEW pc \in Places \ {"idle", "reading"}, NEW stopped \in {"none", "exhausted", "stable_boundary", "known_streak"},
         run' = [run EXCEPT !.pc = pc, !.stopped = stopped],
         run.mode = "full" => run.todo = {},
         pc = "availability" => run.mode = "full" /\ run.scope = Unbounded,
         pc \in {"proof", "undo"} => HasInventory,
         run.mode = "full" /\ (pc \notin {"flags", "undo"} \/ ~HasInventory) => proof[run.key] = NoProof,
         pc # "flags",
         pc \in {"positions", "proof"} => ~(run.mode = "full" /\ run.scope = Unbounded)
  PROVE  DiscoveryInv'
<1> USE DEF DiscoveryInv, siteVars, catalogVars
<1>1. run \in RunType
  BY DEF Shape
<1>2. /\ run'.pc = pc /\ run'.key = run.key /\ run'.mode = run.mode /\ run'.scope = run.scope /\ run'.rows = run.rows
      /\ run'.todo = run.todo /\ run'.seen = run.seen /\ run' \in RunType
  BY <1>1 DEF RunType
<1>3. CatalogShape' /\ Shape'
  BY <1>2 DEF CatalogShape, Shape
<1>4. Known' = Known /\ \A k : Owned(k)' = Owned(k)
  BY DEF Known, Owned
<1>5. HasInventory' = HasInventory
  BY <1>2 DEF HasInventory
<1>6. ReadingFacts'
  BY <1>2, <1>4, <1>5 DEF ReadingFacts, Running, RunningFull, Selected, InRange
<1>7. FullFacts'
  BY <1>2, <1>4, <1>5 DEF FullFacts, Running, RunningFull, Selected, InRange
<1>8. SiteFacts'
  BY <1>2, <1>4 DEF SiteFacts, Running, LostOnlyIfWithdrawn
<1>9. ProofFacts'
  BY <1>2, <1>4 DEF ProofFacts, ProofIsOfLatestFull, ProofMatchesCatalog, FlagFailureLeavesNoProof, Rank, Running,
     Selected, InRange
<1> QED
  BY <1>3, <1>6, <1>7, <1>8, <1>9

LEMMA ExhaustKeeps ==
  ASSUME DiscoveryInv, Exhaust PROVE DiscoveryInv'
<1>1. Running /\ run.todo = {} /\ UNCHANGED <<siteVars, scope, catalogVars, lastFull, ended>>
  BY DEF Exhaust, Running
<1>2. run' = [run EXCEPT !.pc = "read", !.stopped = "exhausted"]
  BY DEF Exhaust
<1>3. run.mode = "full" => proof[run.key] = NoProof
  BY <1>1 DEF DiscoveryInv, FullFacts, RunningFull, Exhaust
<1>4. /\ "read" \in Places \ {"idle", "reading"} /\ "read" # "availability" /\ "read" # "flags"
      /\ "read" \notin {"proof", "undo"} /\ "read" \notin {"positions", "proof"}
  BY DEF Places
<1> QED
  BY <1>1, <1>2, <1>3, <1>4, MovesOn

LEMMA SettleKeeps ==
  ASSUME DiscoveryInv, Settle PROVE DiscoveryInv'
<1> DEFINE pc == IF run.mode = "full" /\ run.scope = Unbounded THEN "availability" ELSE "positions"
<1>1. Running /\ UNCHANGED <<siteVars, scope, catalogVars, lastFull, ended>> /\ run.pc = "read"
  BY DEF Settle, Running
<1>2. run' = [run EXCEPT !.pc = pc, !.stopped = run.stopped]
  <2>1. run \in RunType
    BY DEF DiscoveryInv, Shape
  <2> QED
    BY <2>1 DEF Settle, RunType
<1>3. run.mode = "full" => proof[run.key] = NoProof /\ run.todo = {}
  BY <1>1 DEF DiscoveryInv, FullFacts, ReadingFacts, RunningFull
<1>4. run.stopped \in {"none", "exhausted", "stable_boundary", "known_streak"}
  BY DEF DiscoveryInv, Shape, RunType
<1>5. /\ pc \in Places \ {"idle", "reading"} /\ pc # "flags" /\ pc \notin {"proof", "undo"}
      /\ pc = "availability" => run.mode = "full" /\ run.scope = Unbounded
      /\ pc \in {"positions", "proof"} => ~(run.mode = "full" /\ run.scope = Unbounded)
  BY DEF Places
<1> HIDE DEF pc
<1> QED
  BY <1>1, <1>2, <1>3, <1>4, <1>5, MovesOn

LEMMA FlagsFailKeeps ==
  ASSUME DiscoveryInv, FlagsFail PROVE DiscoveryInv'
<1>1. Running /\ run.pc = "flags" /\ UNCHANGED <<siteVars, scope, catalogVars, lastFull>>
  BY DEF FlagsFail, Running
<1>2. CASE HasInventory
  <2>1. run' = [run EXCEPT !.pc = "undo", !.stopped = run.stopped] /\ ended' = ended
    <3>1. run \in RunType
      BY DEF DiscoveryInv, Shape
    <3> QED
      BY <1>2, <3>1 DEF FlagsFail, RunType
  <2>2. run.stopped \in {"none", "exhausted", "stable_boundary", "known_streak"}
    BY DEF DiscoveryInv, Shape, RunType
  <2>3. run.mode = "full" => run.todo = {}
    BY <1>1 DEF DiscoveryInv, ReadingFacts, RunningFull
  <2> QED
    BY <1>1, <1>2, <2>1, <2>2, <2>3, MovesOn DEF Places
<1>3. CASE ~HasInventory
  <2>1. Ends("raised") /\ (run.mode = "full" => proof[run.key] = NoProof)
    BY <1>1, <1>3 DEF FlagsFail, DiscoveryInv, FullFacts, RunningFull
  <2> QED
    BY <1>1, <2>1, EndingKeeps
<1> QED
  BY <1>2, <1>3

-------------------------------------------------------------------------------
\* Steps of a run that write.

\* A proof stands as long as the Sources of its key stay where they are.
LEMMA ProofsStand ==
  ASSUME ProofFacts, lastFull' = lastFull,
         \A k \in Keys : proof'[k] \in {NoProof, proof[k]},
         \A k \in Keys : proof'[k] # NoProof =>
           Owned(k)' = Owned(k) /\ \A d \in Owned(k) : source'[d].position = source[d].position,
         run'.pc # "idle" \/ ended'.outcome # "raised"
  PROVE  ProofFacts'
<1>1. ProofIsOfLatestFull' /\ FlagFailureLeavesNoProof'
  BY DEF ProofFacts, ProofIsOfLatestFull, FlagFailureLeavesNoProof
<1>2. ProofMatchesCatalog'
  <2> SUFFICES ASSUME NEW k \in Keys, proof'[k] # NoProof
               PROVE  /\ proof'[k].inScope \subseteq Owned(k)'
                      /\ \A c \in Owned(k)' \cap proof'[k].rows : source'[c].position = Rank(proof'[k].rows, c)
    BY DEF ProofMatchesCatalog, Rank
  <2>1. proof'[k] = proof[k]
    OBVIOUS
  <2> QED
    BY <2>1 DEF ProofFacts, ProofMatchesCatalog
<1>3. \A k \in Keys : lastFull'[k].inScope = Selected(lastFull'[k].rows, lastFull'[k].scope)
  BY DEF ProofFacts
<1> QED
  BY <1>1, <1>2, <1>3 DEF ProofFacts, Selected, InRange

\* A Source keeps its key.
KeysKept == \A c \in Chapters : source'[c].key = source[c].key
LEMMA OwnersKept ==
  ASSUME DiscoveryAssumption, CatalogShape, CatalogShape', KeysKept
  PROVE  Known' = Known /\ \A k \in Keys : Owned(k)' = Owned(k)
<1>1. \A c \in Chapters : (source[c] # NoSource) <=> source[c].key \in Keys
  BY DEF DiscoveryAssumption, CatalogShape, NoSource, SourceType
<1>2. \A c \in Chapters : (source'[c] # NoSource) <=> source'[c].key \in Keys
  BY DEF DiscoveryAssumption, CatalogShape, NoSource, SourceType
<1>3. Known' = Known
  BY <1>1, <1>2 DEF Known, KeysKept
<1>4. Known \subseteq Chapters
  BY DEF Known
<1> QED
  BY <1>3, <1>4 DEF Owned, KeysKept

LEMMA RecordKeeps ==
  ASSUME DiscoveryAssumption, DiscoveryInv, NEW decision, Record(decision) PROVE DiscoveryInv'
<1> USE DEF DiscoveryInv
<1> DEFINE c == Current
<1>1. /\ run \in RunType /\ run.pc = "reading" /\ run.key \in Keys /\ Running
      /\ run.todo \cup run.seen = Selected(run.rows, run.scope) /\ run.seen \subseteq Owned(run.key)
  BY DEF Record, Readable, Shape, ReadingFacts, Running
<1>2. c \in run.todo
  <2>1. run.todo \in SUBSET Chapters /\ run.todo # {}
    BY <1>1 DEF RunType, Record, Readable
  <2> QED
    BY <2>1, ChaptersFinite, MaxIsIn DEF Current
<1>3. c \in Chapters /\ c \in run.rows /\ (c \in Known => source[c].key = run.key)
  BY <1>1, <1>2 DEF RunType, Selected, InRange, Record, Foreign
<1>4. UNCHANGED <<published, listing, hints, scope, ended, lastFull>> /\ Store(c)
  BY DEF Record, siteVars
<1> DEFINE streak == Streak(c)
           stop == StopsAt(c, decision)
           pc == IF stop = "none" THEN "reading" ELSE "read"
<1>5. run' = [run EXCEPT !.todo = run.todo \ {c}, !.seen = run.seen \cup {c}, !.streak = streak,
                         !.stopped = stop, !.pc = pc]
  BY <1>1 DEF Record, RunType
<1>6. streak \in Nat /\ stop \in {"none", "stable_boundary", "known_streak"} /\ (run.mode = "full" => stop = "none")
  BY <1>1 DEF Streak, StopsAt, RunType
<1> HIDE DEF c, streak, stop
<1>7. /\ run'.key = run.key /\ run'.mode = run.mode /\ run'.scope = run.scope /\ run'.rows = run.rows
      /\ run'.todo = run.todo \ {c} /\ run'.seen = run.seen \cup {c} /\ run'.pc = pc /\ run' \in RunType
  <2>1. run.todo \ {c} \in SUBSET Chapters /\ run.seen \cup {c} \in SUBSET Chapters /\ pc \in Places
    BY <1>1, <1>3 DEF RunType, Places
  <2> QED
    BY <1>1, <1>5, <1>6, <2>1 DEF RunType
<1>8. Shape'
  BY <1>4, <1>7 DEF Shape
<1>9. /\ \A d \in Chapters \ {c} : source'[d] = source[d]
      /\ source' \in [Chapters -> SourceType] /\ source'[c].key = run.key /\ source'[c].available = TRUE
      /\ proof' \in [Keys -> ProofOf] /\ marker' \in MarkerType
      /\ \A k \in Keys : proof'[k] = proof[k] \/ proof'[k] = NoProof
      /\ c \in Known => source'[c].position = source[c].position
      /\ c \notin Known => proof'[run.key] = NoProof
  <2>1. CASE c \in Known
    <3>1. source' = [source EXCEPT ![c] = [source[c] EXCEPT !.available = TRUE]] /\ UNCHANGED <<proof, marker>>
      BY <1>4, <2>1 DEF Store
    <3>2. source[c] \in SourceType /\ source[c].key = run.key
      BY <1>3, <2>1 DEF CatalogShape
    <3>3. LET after == [source[c] EXCEPT !.available = TRUE] IN
          after.key = run.key /\ after.position = source[c].position /\ after.available = TRUE
      BY <3>2 DEF SourceType
    <3>4. [source[c] EXCEPT !.available = TRUE] \in SourceType
      BY <3>2 DEF SourceType
    <3>5. source' \in [Chapters -> SourceType] /\ source'[c] = [source[c] EXCEPT !.available = TRUE]
          /\ \A d \in Chapters \ {c} : source'[d] = source[d]
      BY <1>3, <3>1, <3>4 DEF CatalogShape
    <3> QED
      BY <2>1, <3>1, <3>3, <3>5 DEF CatalogShape
  <2>2. CASE c \notin Known
    <3>1. source' = [source EXCEPT ![c] = NewSource(run.key)] /\ proof' = [proof EXCEPT ![run.key] = NoProof] /\ marker' = Stale(marker)
      BY <1>4, <2>2 DEF Store, Invalidated
    <3>2. NewSource(run.key) \in SourceType /\ NoProof \in ProofOf
      BY <1>1 DEF NewSource, SourceType, NoProof, ProofOf
    <3>3. marker' \in MarkerType
      BY <3>1 DEF CatalogShape, MarkerType, Stale
    <3>4. source' \in [Chapters -> SourceType] /\ source'[c] = NewSource(run.key) /\ \A d \in Chapters \ {c} : source'[d] = source[d]
      BY <1>3, <3>1, <3>2 DEF CatalogShape
    <3>5. proof' \in [Keys -> ProofOf] /\ proof'[run.key] = NoProof /\ \A k \in Keys : proof'[k] = proof[k] \/ proof'[k] = NoProof
      BY <1>1, <3>1, <3>2 DEF CatalogShape
    <3> QED
      BY <2>2, <3>3, <3>4, <3>5 DEF NewSource
  <2> QED
    BY <2>1, <2>2
<1>10. CatalogShape'
  <2>1. run.key # "none"
    BY <1>1 DEF DiscoveryAssumption
  <2> QED
    BY <1>9, <2>1 DEF CatalogShape
<1>11. /\ Known' = Known \cup {c}
       /\ \A k \in Keys \ {run.key} : Owned(k)' = Owned(k)
       /\ Owned(run.key)' = Owned(run.key) \cup {c}
  <2>1. \A d \in Chapters : (source[d] # NoSource) <=> source[d].key \in Keys
    BY DEF DiscoveryAssumption, CatalogShape, NoSource, SourceType
  <2>2. \A d \in Chapters : (source'[d] # NoSource) <=> source'[d].key \in Keys
    BY <1>10 DEF DiscoveryAssumption, CatalogShape, NoSource, SourceType
  <2>3. Known' = Known \cup {c}
    BY <1>1, <1>3, <1>9, <2>1, <2>2 DEF Known
  <2>4. Known \subseteq Chapters
    BY DEF Known
  <2>5. ASSUME NEW k \in Keys, NEW d
        PROVE  d \in Owned(k)' <=> IF d = c THEN k = run.key ELSE d \in Owned(k)
    <3>1. CASE d = c
      BY <1>9, <2>3, <3>1 DEF Owned
    <3>2. CASE d # c
      <4>1. d \in Known' <=> d \in Known
        BY <2>3, <3>2
      <4>2. d \in Known => source'[d] = source[d]
        BY <1>9, <2>4, <3>2
      <4> QED
        BY <3>2, <4>1, <4>2 DEF Owned
    <3> QED
      BY <3>1, <3>2
  <2>6. \A k \in Keys : c \in Owned(k) => k = run.key
    BY <1>3 DEF Owned
  <2>7. \A k \in Keys \ {run.key} : Owned(k)' = Owned(k)
    BY <2>5, <2>6
  <2>8. Owned(run.key)' = Owned(run.key) \cup {c}
    <3>1. run.key \in Keys
      BY <1>1
    <3>2. \A d : d \in Owned(run.key)' <=> (d = c \/ d \in Owned(run.key))
      <4>1. run'.key = run.key
        BY <1>7
      <4> QED
        BY <2>5, <3>1, <4>1 DEF Owned
    <3> QED
      BY <3>2
  <2> QED
    BY <2>3, <2>7, <2>8
<1>12. ReadingFacts'
  BY <1>1, <1>2, <1>6, <1>7, <1>11 DEF ReadingFacts, Running, RunningFull, Selected, InRange
<1>13. FullFacts'
  <2>1. run.mode = "full" => /\ proof'[run.key] = NoProof /\ run'.pc = "reading"
                             /\ lastFull[run.key] = [scope |-> run.scope, rows |-> run.rows, inScope |-> Selected(run.rows, run.scope)]
    BY <1>1, <1>6, <1>7, <1>9 DEF FullFacts, RunningFull
  <2> QED
    BY <1>4, <1>7, <2>1 DEF FullFacts, RunningFull, Running, Selected, InRange
<1>14. SiteFacts'
  <2>1. run.rows \subseteq 1 .. published
    BY <1>1 DEF SiteFacts
  <2> QED
    BY <1>1, <1>3, <1>4, <1>7, <1>9, <1>11, <2>1 DEF SiteFacts, Running, LostOnlyIfWithdrawn, Known
<1>15. ProofFacts'
  <2>1. run'.pc # "idle"
    BY <1>7
  <2>2. ASSUME NEW k \in Keys, proof'[k] # NoProof
        PROVE  Owned(k)' = Owned(k) /\ \A d \in Owned(k) : source'[d].position = source[d].position
    <3>1. Owned(k) \subseteq Chapters /\ Owned(k) \subseteq Known
      BY DEF Owned, Known
    <3>2. Owned(k)' = Owned(k)
      <4>1. CASE k # run.key
        BY <4>1, <1>11
      <4>2. CASE k = run.key
        BY <1>1, <1>3, <1>9, <1>11, <2>2, <4>2 DEF Owned
      <4> QED
        BY <4>1, <4>2
    <3> QED
      BY <1>9, <3>1, <3>2
  <2> QED
    BY <1>4, <1>9, <2>1, <2>2, ProofsStand
<1> QED
  BY <1>8, <1>10, <1>12, <1>13, <1>14, <1>15

\* A step that moves the run on and writes to Sources, without changing whose
\* they are.
MovesTo(pc) == run' = [run EXCEPT !.pc = pc]
LEMMA MovedRun ==
  ASSUME run \in RunType, NEW pc \in Places, MovesTo(pc), hints' = hints
  PROVE  /\ run'.key = run.key /\ run'.mode = run.mode /\ run'.scope = run.scope /\ run'.rows = run.rows
         /\ run'.todo = run.todo /\ run'.seen = run.seen /\ run'.pc = pc /\ run' \in RunType
         /\ HasInventory' = HasInventory
<1>1. /\ run'.key = run.key /\ run'.mode = run.mode /\ run'.scope = run.scope /\ run'.rows = run.rows
      /\ run'.todo = run.todo /\ run'.seen = run.seen /\ run'.pc = pc /\ run' \in RunType
  BY DEF RunType, MovesTo
<1> QED
  BY <1>1 DEF HasInventory

LEMMA MarkUnavailableKeeps ==
  ASSUME DiscoveryAssumption, DiscoveryInv, MarkUnavailable PROVE DiscoveryInv'
<1> USE DEF DiscoveryInv
<1>1. /\ run \in RunType /\ run.pc = "availability" /\ Running /\ run.key \in Keys /\ MovesTo("positions")
      /\ run.mode = "full" /\ run.scope = Unbounded /\ run.todo = {} /\ RunningFull
      /\ UNCHANGED <<published, listing, hints, scope, ended, lastFull>>
  BY DEF MarkUnavailable, Shape, ReadingFacts, Running, RunningFull, MovesTo, siteVars
<1>2. /\ run'.key = run.key /\ run'.mode = run.mode /\ run'.scope = run.scope /\ run'.rows = run.rows
      /\ run'.todo = run.todo /\ run'.seen = run.seen /\ run'.pc = "positions" /\ run' \in RunType
      /\ HasInventory' = HasInventory
  BY <1>1, MovedRun DEF Places
<1>3. \A d \in Chapters : /\ source'[d] \in SourceType /\ source'[d].key = source[d].key
                          /\ source'[d].position = source[d].position
                          /\ source'[d].available = (source[d].available /\ d \notin Missing)
                          /\ source'[d] = source[d] \/ source[d].key = run.key
  <2> SUFFICES ASSUME NEW d \in Chapters
               PROVE  /\ source'[d] \in SourceType /\ source'[d].key = source[d].key
                      /\ source'[d].position = source[d].position
                      /\ source'[d].available = (source[d].available /\ d \notin Missing)
                      /\ source'[d] = source[d] \/ source[d].key = run.key
    OBVIOUS
  <2>1. source[d] \in SourceType
    BY DEF CatalogShape
  <2>2. CASE d \in Missing
    <3>1. source'[d] = [source[d] EXCEPT !.available = FALSE] /\ source[d].key = run.key
      BY <2>2 DEF MarkUnavailable, Missing, Owned
    <3> QED
      BY <2>1, <2>2, <3>1 DEF SourceType
  <2>3. CASE d \notin Missing
    BY <2>1, <2>3 DEF MarkUnavailable, SourceType
  <2> QED
    BY <2>2, <2>3
<1>4. /\ proof' \in [Keys -> ProofOf] /\ marker' \in MarkerType
      /\ \A k \in Keys : proof'[k] \in {NoProof, proof[k]}
  <2>1. NoProof \in ProofOf
    BY DEF NoProof, ProofOf
  <2>2. proof' = proof \/ proof' = [proof EXCEPT ![run.key] = NoProof]
    BY DEF MarkUnavailable, Invalidated
  <2>3. marker' = marker \/ marker' = Stale(marker)
    BY DEF MarkUnavailable
  <2> QED
    BY <1>1, <2>1, <2>2, <2>3 DEF CatalogShape, MarkerType, Stale
<1>5. CatalogShape'
  <2>1. source' \in [Chapters -> SourceType]
    BY <1>3 DEF MarkUnavailable
  <2>2. run.key # "none"
    BY <1>1 DEF DiscoveryAssumption
  <2> QED
    BY <1>3, <1>4, <2>1, <2>2 DEF CatalogShape
<1>6. Shape'
  BY <1>1, <1>2 DEF Shape
<1>7. Known' = Known /\ \A k \in Keys : Owned(k)' = Owned(k)
  BY <1>3, <1>5, OwnersKept DEF KeysKept
<1>8. Owned(run.key)' = Owned(run.key)
  BY <1>1, <1>2, <1>7 DEF Owned
<1>9. ReadingFacts'
  BY <1>1, <1>2, <1>8 DEF ReadingFacts, Running, RunningFull, Selected, InRange
<1>10. FullFacts'
  <2>1. \A c \in Owned(run.key) : source'[c].available => c \in run.seen
    <3>1. Owned(run.key) \subseteq Chapters
      BY DEF Owned, Known
    <3> QED
      BY <1>3, <3>1 DEF Missing
  <2>2. proof'[run.key] = NoProof
    <3>1. proof[run.key] = NoProof
      BY <1>1 DEF FullFacts
    <3> QED
      BY <1>1, <1>4, <3>1
  <2> QED
    BY <1>1, <1>2, <1>8, <2>1, <2>2 DEF FullFacts, RunningFull, Running, Selected, InRange
<1>11. SiteFacts'
  <2>1. Known \subseteq Chapters
    BY DEF Known
  <2>2. \A c \in Missing : c \in Known /\ c \notin run.rows
    BY <1>1 DEF Missing, Owned, ReadingFacts, Selected, InRange, Unbounded
  <2> QED
    BY <1>1, <1>2, <1>3, <1>7, <2>1, <2>2 DEF SiteFacts, LostOnlyIfWithdrawn, Running
<1>12. ProofFacts'
  <2>1. run'.pc # "idle"
    BY <1>2
  <2>2. \A k \in Keys : Owned(k) \subseteq Chapters
    BY DEF Owned, Known
  <2> QED
    BY <1>1, <1>3, <1>4, <1>7, <2>1, <2>2, ProofsStand
<1> QED
  BY <1>5, <1>6, <1>9, <1>10, <1>11, <1>12

LEMMA AssignPositionsKeeps ==
  ASSUME DiscoveryAssumption, DiscoveryInv, AssignPositions PROVE DiscoveryInv'
<1> USE DEF DiscoveryInv
<1> DEFINE pc == IF HasInventory THEN "proof" ELSE "flags"
<1>1. /\ run \in RunType /\ run.pc = "positions" /\ Running /\ run.key \in Keys /\ MovesTo(pc)
      /\ run.seen \subseteq Owned(run.key) /\ marker' = marker
      /\ UNCHANGED <<published, listing, hints, scope, ended, lastFull>>
  BY DEF AssignPositions, Shape, ReadingFacts, Running, MovesTo, siteVars
<1>2. pc \in Places /\ (HasInventory <=> pc = "proof") /\ pc \in {"proof", "flags"}
  BY DEF Places
<1> HIDE DEF pc
<1>3. /\ run'.key = run.key /\ run'.mode = run.mode /\ run'.scope = run.scope /\ run'.rows = run.rows
      /\ run'.todo = run.todo /\ run'.seen = run.seen /\ run'.pc = pc /\ run' \in RunType
      /\ HasInventory' = HasInventory
  BY <1>1, <1>2, MovedRun
<1>4. DOMAIN Positions \subseteq run.seen /\ \A c \in DOMAIN Positions : Positions[c] \in Nat
  BY PositionsType
<1>5. /\ source' = [c \in Chapters |-> IF c \in DOMAIN Positions THEN [source[c] EXCEPT !.position = Positions[c]] ELSE source[c]]
      /\ proof' = IF \E c \in DOMAIN Positions : source[c].position # Positions[c] THEN [proof EXCEPT ![run.key] = NoProof] ELSE proof
  BY DEF AssignPositions, Invalidated
<1>6. ASSUME NEW d \in Chapters
      PROVE  /\ source'[d] \in SourceType /\ source'[d].key = source[d].key /\ source'[d].available = source[d].available
             /\ source'[d] = source[d] \/ (source[d].key = run.key /\ d \in DOMAIN Positions /\ source'[d].position = Positions[d])
  <2>1. source[d] \in SourceType
    BY DEF CatalogShape
  <2>2. CASE d \in DOMAIN Positions
    <3>1. source'[d] = [source[d] EXCEPT !.position = Positions[d]] /\ source[d].key = run.key /\ Positions[d] \in Nat
      BY <1>1, <1>4, <1>5, <2>2 DEF Owned
    <3> QED
      BY <2>1, <2>2, <3>1 DEF SourceType
  <2>3. CASE d \notin DOMAIN Positions
    BY <1>5, <2>1, <2>3
  <2> QED
    BY <2>2, <2>3
<1>7. proof' \in [Keys -> ProofOf] /\ \A k \in Keys : proof'[k] \in {NoProof, proof[k]}
  <2>1. NoProof \in ProofOf
    BY DEF NoProof, ProofOf
  <2> QED
    BY <1>1, <1>5, <2>1 DEF CatalogShape
<1>8. CatalogShape'
  <2>1. source' \in [Chapters -> SourceType]
    BY <1>5, <1>6
  <2>2. run.key # "none"
    BY <1>1 DEF DiscoveryAssumption
  <2> QED
    BY <1>1, <1>6, <1>7, <2>1, <2>2 DEF CatalogShape
<1>9. Shape'
  BY <1>1, <1>3 DEF Shape
<1>10. Known' = Known /\ \A k \in Keys : Owned(k)' = Owned(k)
  BY <1>6, <1>8, OwnersKept DEF KeysKept
<1>11. Owned(run.key)' = Owned(run.key) /\ Owned(run.key) \subseteq Chapters
  BY <1>1, <1>3, <1>10 DEF Owned, Known
<1>12. ReadingFacts'
  BY <1>1, <1>2, <1>3, <1>11 DEF ReadingFacts, Running, RunningFull, Selected, InRange
<1>13. FullFacts'
  <2>1. RunningFull => proof'[run.key] = NoProof
    BY <1>1, <1>7 DEF FullFacts, RunningFull
  <2>2. RunningFull /\ run.scope = Unbounded => \A c \in Owned(run.key) : source'[c].available => c \in run.seen
    BY <1>1, <1>6, <1>11 DEF FullFacts
  <2> QED
    BY <1>1, <1>2, <1>3, <1>11, <2>1, <2>2 DEF FullFacts, RunningFull, Running, Selected, InRange
<1>14. SiteFacts'
  <2>1. Known \subseteq Chapters
    BY DEF Known
  <2> QED
    BY <1>1, <1>2, <1>3, <1>6, <1>10, <2>1 DEF SiteFacts, LostOnlyIfWithdrawn, Running
<1>15. ProofFacts'
  <2>1. run'.pc # "idle"
    BY <1>2, <1>3
  <2>2. \A k \in Keys : Owned(k) \subseteq Chapters /\ \A d \in Owned(k) : source[d].key = k
    BY DEF Owned, Known
  <2>3. ASSUME NEW k \in Keys, proof'[k] # NoProof, NEW d \in Owned(k) PROVE source'[d].position = source[d].position
    <3>1. CASE k # run.key
      BY <1>6, <2>2, <2>3, <3>1
    <3>2. CASE k = run.key
      <4>1. \A c \in DOMAIN Positions : source[c].position = Positions[c]
        BY <1>1, <1>5, <2>3, <3>2 DEF CatalogShape
      <4> QED
        BY <1>6, <2>2, <2>3, <4>1
    <3> QED
      BY <3>1, <3>2
  <2> QED
    BY <1>1, <1>7, <1>10, <2>1, <2>3, ProofsStand
<1> QED
  BY <1>8, <1>9, <1>12, <1>13, <1>14, <1>15

LEMMA RecordProofKeeps ==
  ASSUME DiscoveryAssumption, DiscoveryInv, RecordProof PROVE DiscoveryInv'
<1> USE DEF DiscoveryInv
<1> DEFINE whole == [scope |-> run.scope, rows |-> run.rows, inScope |-> Selected(run.rows, run.scope)]
           proven == Owned(run.key) \cap run.rows
<1>1. /\ run \in RunType /\ run.pc = "proof" /\ Running /\ run.key \in Keys /\ MovesTo("flags")
      /\ HasInventory /\ run.mode = "full" /\ RunningFull /\ run.todo = {}
      /\ run.seen \subseteq Owned(run.key) /\ run.todo \cup run.seen = Selected(run.rows, run.scope)
      /\ UNCHANGED <<published, listing, hints, scope, ended, lastFull, marker>>
  BY DEF RecordProof, Shape, ReadingFacts, Running, RunningFull, MovesTo, siteVars, HasInventory
<1>2. /\ run'.key = run.key /\ run'.mode = run.mode /\ run'.scope = run.scope /\ run'.rows = run.rows
      /\ run'.todo = run.todo /\ run'.seen = run.seen /\ run'.pc = "flags" /\ run' \in RunType
      /\ HasInventory' = HasInventory
  BY <1>1, MovedRun DEF Places
<1>3. /\ source' = [c \in Chapters |-> IF c \in proven THEN [source[c] EXCEPT !.position = Rank(run.rows, c)] ELSE source[c]]
      /\ proof' = [proof EXCEPT ![run.key] = whole]
  BY DEF RecordProof
<1>4. run.rows \in SUBSET Chapters /\ \A c : Rank(run.rows, c) \in Nat
  BY <1>1, RankType DEF RunType
<1>5. whole \in ProofOf
  BY <1>1, <1>4 DEF ProofOf, RunType, Selected, InRange
<1>6. ASSUME NEW d \in Chapters
      PROVE  /\ source'[d] \in SourceType /\ source'[d].key = source[d].key /\ source'[d].available = source[d].available
             /\ d \in proven => source'[d].position = Rank(run.rows, d) /\ source[d].key = run.key
             /\ d \notin proven => source'[d] = source[d]
  <2>1. source[d] \in SourceType
    BY DEF CatalogShape
  <2>2. CASE d \in proven
    <3>1. source'[d] = [source[d] EXCEPT !.position = Rank(run.rows, d)] /\ source[d].key = run.key
      BY <1>3, <2>2 DEF Owned
    <3> HIDE DEF proven
    <3> QED
      BY <1>4, <2>1, <2>2, <3>1 DEF SourceType
  <2>3. CASE d \notin proven
    BY <1>3, <2>1, <2>3
  <2> QED
    BY <2>2, <2>3
<1>7. proof' \in [Keys -> ProofOf] /\ proof'[run.key] = whole /\ \A k \in Keys \ {run.key} : proof'[k] = proof[k]
  BY <1>1, <1>3, <1>5 DEF CatalogShape
<1> HIDE DEF whole, proven
<1>8. CatalogShape'
  <2>1. source' \in [Chapters -> SourceType]
    BY <1>3, <1>6
  <2>2. run.key # "none"
    BY <1>1 DEF DiscoveryAssumption
  <2> QED
    BY <1>1, <1>6, <1>7, <2>1, <2>2 DEF CatalogShape
<1>9. Shape'
  BY <1>1, <1>2 DEF Shape
<1>10. Known' = Known /\ \A k \in Keys : Owned(k)' = Owned(k)
  BY <1>6, <1>8, OwnersKept DEF KeysKept
<1>11. Owned(run.key)' = Owned(run.key) /\ Owned(run.key) \subseteq Chapters
  BY <1>1, <1>2, <1>10 DEF Owned, Known
<1>12. ReadingFacts'
  BY <1>1, <1>2, <1>11 DEF ReadingFacts, Running, RunningFull, Selected, InRange
<1>13. FullFacts'
  <2>1. \A c \in Owned(run.key) \cap run.rows : source'[c].position = Rank(run.rows, c)
    BY <1>6, <1>11 DEF proven
  <2>2. run.scope = Unbounded => \A c \in Owned(run.key) : source'[c].available => c \in run.seen
    BY <1>1, <1>6, <1>11 DEF FullFacts
  <2>3. lastFull[run.key] = whole
    BY <1>1 DEF FullFacts, whole
  <2> QED
    BY <1>1, <1>2, <1>11, <2>1, <2>2, <2>3 DEF FullFacts, RunningFull, Running, Selected, InRange, Rank, whole
<1>14. SiteFacts'
  <2>1. Known \subseteq Chapters
    BY DEF Known
  <2> QED
    BY <1>1, <1>2, <1>6, <1>10, <2>1 DEF SiteFacts, LostOnlyIfWithdrawn, Running
<1>15. ProofFacts'
  <2>1. \A k \in Keys : lastFull'[k].inScope = Selected(lastFull'[k].rows, lastFull'[k].scope)
    BY <1>1 DEF ProofFacts
  <2>2. ProofIsOfLatestFull'
    <3>1. lastFull[run.key] = whole
      BY <1>1 DEF FullFacts, whole
    <3> QED
      BY <1>1, <1>7, <3>1 DEF ProofFacts, ProofIsOfLatestFull
  <2>3. ASSUME NEW k \in Keys, proof'[k] # NoProof
        PROVE  /\ proof'[k].inScope \subseteq Owned(k)'
               /\ \A c \in Owned(k)' \cap proof'[k].rows : source'[c].position = Rank(proof'[k].rows, c)
    <3>1. Owned(k) \subseteq Chapters /\ \A d \in Owned(k) : source[d].key = k
      BY DEF Owned, Known
    <3>2. CASE k = run.key
      <4>1. proof'[k].rows = run.rows /\ proof'[k].inScope = run.seen
        BY <1>1, <1>7, <3>2 DEF whole
      <4>2. Owned(k)' = Owned(k)
        BY <1>10
      <4> QED
        BY <1>1, <1>6, <3>1, <3>2, <4>1, <4>2 DEF proven
    <3>3. CASE k # run.key
      <4>1. proof'[k] = proof[k] /\ Owned(k)' = Owned(k)
        BY <1>7, <1>10, <3>3
      <4>2. \A d \in Owned(k) : source'[d] = source[d]
        BY <1>6, <3>1, <3>3
      <4> QED
        BY <2>3, <4>1, <4>2 DEF ProofFacts, ProofMatchesCatalog
    <3> QED
      BY <3>2, <3>3
  <2>4. ProofMatchesCatalog'
    BY <2>3 DEF ProofMatchesCatalog, Rank
  <2>5. FlagFailureLeavesNoProof'
    BY <1>2 DEF FlagFailureLeavesNoProof
  <2> QED
    BY <2>1, <2>2, <2>4, <2>5 DEF ProofFacts, Selected, InRange
<1> QED
  BY <1>8, <1>9, <1>12, <1>13, <1>14, <1>15

\* A step that sets flags, and nothing else of a Source.
OnlyFlags == \A d \in Chapters : /\ source'[d] \in SourceType /\ source'[d].key = source[d].key
                                 /\ source'[d].position = source[d].position
                                 /\ source'[d].available = source[d].available

LEMMA FlagsOnlyCatalog ==
  ASSUME CatalogShape, OnlyFlags, source' \in [Chapters -> SourceType],
         \A d \in Chapters : source[d].key = "none" => source'[d] = source[d],
         proof' \in [Keys -> ProofOf], marker' \in MarkerType
  PROVE  CatalogShape'
BY DEF OnlyFlags, CatalogShape

LEMMA ApplyFlagsKeeps ==
  ASSUME DiscoveryAssumption, DiscoveryInv, ApplyFlags PROVE DiscoveryInv'
<1> USE DEF DiscoveryInv
<1> DEFINE changed == {c \in Owned(run.key) : source[c].enabled # Enabled(c)}
<1>1. /\ run \in RunType /\ run.pc = "flags" /\ Running /\ run.key \in Keys /\ run' = NoRun
      /\ ended' = [key |-> run.key, mode |-> run.mode, outcome |-> "complete"]
      /\ UNCHANGED <<published, listing, hints, scope, proof, lastFull>>
      /\ marker' = marker \/ marker' = Stale(marker)
      /\ source' = [c \in Chapters |-> IF c \in changed THEN [source[c] EXCEPT !.enabled = Enabled(c)] ELSE source[c]]
  BY DEF ApplyFlags, Shape, ReadingFacts, Running, siteVars, Ends
<1>2. ASSUME NEW d \in Chapters
      PROVE  /\ source'[d] \in SourceType /\ source'[d].key = source[d].key /\ source'[d].position = source[d].position
             /\ source'[d].available = source[d].available
             /\ source[d].key # run.key => source'[d] = source[d]
  <2>1. source[d] \in SourceType
    BY DEF CatalogShape
  <2>2. Enabled(d) \in BOOLEAN
    <3>1. source[d].enabled \in BOOLEAN
      BY <2>1 DEF SourceType
    <3>2. (d \in Selected(run.rows, run.scope)) \in BOOLEAN
      OBVIOUS
    <3> QED
      BY <3>1, <3>2, Zenon DEF Enabled
  <2>3. CASE d \in changed
    <3>1. source'[d] = [source[d] EXCEPT !.enabled = Enabled(d)] /\ source[d].key = run.key
      BY <1>1, <2>3 DEF Owned
    <3> QED
      BY <2>1, <2>2, <3>1 DEF SourceType
  <2>4. CASE d \notin changed
    BY <1>1, <2>1, <2>4
  <2> QED
    BY <2>3, <2>4
<1>3. OnlyFlags
  BY <1>2 DEF OnlyFlags
<1>4. CatalogShape'
  <2>1. source' \in [Chapters -> SourceType]
    BY <1>1, <1>2
  <2>2. marker' \in MarkerType
    BY <1>1 DEF CatalogShape, MarkerType, Stale
  <2>3. run.key # "none"
    BY <1>1 DEF DiscoveryAssumption
  <2>4. proof' \in [Keys -> ProofOf]
    BY <1>1 DEF CatalogShape
  <2> QED
    BY <1>2, <1>3, <2>1, <2>2, <2>3, <2>4, FlagsOnlyCatalog
<1>5. Shape'
  <2>1. NoRun \in RunType /\ ended' \in EndedType
    BY <1>1 DEF NoRun, RunType, Modes, Places, EndedType
  <2> QED
    BY <1>1, <2>1 DEF Shape
<1>6. Known' = Known /\ \A k \in Keys : Owned(k)' = Owned(k)
  BY <1>3, <1>4, OwnersKept DEF KeysKept, OnlyFlags
<1>7. run'.pc = "idle" /\ ended'.outcome = "complete"
  BY <1>1 DEF NoRun
<1>8. ReadingFacts' /\ FullFacts'
  BY <1>7 DEF ReadingFacts, FullFacts, Running, RunningFull
<1>9. SiteFacts'
  <2>1. Known \subseteq Chapters
    BY DEF Known
  <2> QED
    BY <1>1, <1>2, <1>6, <1>7, <2>1 DEF SiteFacts, LostOnlyIfWithdrawn, Running
<1>10. ProofFacts'
  <2>1. \A k \in Keys : Owned(k) \subseteq Chapters
    BY DEF Owned, Known
  <2> QED
    BY <1>1, <1>2, <1>6, <1>7, <2>1, ProofsStand
<1> QED
  BY <1>4, <1>5, <1>8, <1>9, <1>10

LEMMA WithdrawProofKeeps ==
  ASSUME DiscoveryInv, WithdrawProof PROVE DiscoveryInv'
<1> USE DEF DiscoveryInv
<1>1. /\ run \in RunType /\ Running /\ run.key \in Keys /\ run' = NoRun /\ run'.pc = "idle"
      /\ ended' = [key |-> run.key, mode |-> run.mode, outcome |-> "raised"]
      /\ UNCHANGED <<published, listing, hints, scope, source, marker, lastFull>>
      /\ proof' = [proof EXCEPT ![run.key] = NoProof]
  BY DEF WithdrawProof, Shape, ReadingFacts, Running, siteVars, Ends, Invalidated, NoRun
<1>2. proof' \in [Keys -> ProofOf] /\ proof'[run.key] = NoProof /\ \A k \in Keys : proof'[k] \in {NoProof, proof[k]}
  <2>1. NoProof \in ProofOf
    BY DEF NoProof, ProofOf
  <2> QED
    BY <1>1, <2>1 DEF CatalogShape
<1>3. CatalogShape'
  BY <1>1, <1>2 DEF CatalogShape
<1>4. Shape'
  <2>1. NoRun \in RunType /\ ended' \in EndedType
    BY <1>1 DEF NoRun, RunType, Modes, Places, EndedType
  <2> QED
    BY <1>1, <2>1 DEF Shape
<1>5. Known' = Known /\ \A k \in Keys : Owned(k)' = Owned(k)
  BY <1>1 DEF Known, Owned
<1>6. ReadingFacts' /\ FullFacts'
  BY <1>1 DEF ReadingFacts, FullFacts, Running, RunningFull
<1>7. SiteFacts'
  BY <1>1, <1>5 DEF SiteFacts, LostOnlyIfWithdrawn, Running
<1>8. ProofFacts'
  <2>1. ProofIsOfLatestFull'
    BY <1>1, <1>2 DEF ProofFacts, ProofIsOfLatestFull
  <2>2. ProofMatchesCatalog'
    <3> SUFFICES ASSUME NEW k \in Keys, proof'[k] # NoProof
                 PROVE  /\ proof'[k].inScope \subseteq Owned(k)'
                        /\ \A c \in Owned(k)' \cap proof'[k].rows : source'[c].position = Rank(proof'[k].rows, c)
      BY DEF ProofMatchesCatalog, Rank
    <3>1. proof'[k] = proof[k] /\ Owned(k)' = Owned(k)
      BY <1>2, <1>5
    <3> QED
      BY <1>1, <3>1 DEF ProofFacts, ProofMatchesCatalog
  <2>3. FlagFailureLeavesNoProof'
    BY <1>1, <1>2 DEF FlagFailureLeavesNoProof
  <2>4. \A k \in Keys : lastFull'[k].inScope = Selected(lastFull'[k].rows, lastFull'[k].scope)
    BY <1>1 DEF ProofFacts
  <2> QED
    BY <2>1, <2>2, <2>3, <2>4 DEF ProofFacts, Selected, InRange
<1> QED
  BY <1>3, <1>4, <1>6, <1>7, <1>8

-------------------------------------------------------------------------------
\* The invariant of Discovery.
LEMMA NextDiscovery ==
  ASSUME DiscoveryAssumption, DiscoveryInv, [Next]_vars PROVE DiscoveryInv'
<1>1. ASSUME Pass PROVE DiscoveryInv'
  <2>1. ASSUME NEW k \in Keys, NEW mode \in Modes, Refuse(k, mode) \/ Start(k, mode) PROVE DiscoveryInv'
    BY <2>1, RefuseKeeps, StartKeeps
  <2>2. ASSUME NEW d \in Decisions, Record(d) PROVE DiscoveryInv'
    BY <2>2, RecordKeeps
  <2>3. CASE Exhaust \/ Incomplete \/ Settle
    BY <2>3, ExhaustKeeps, IncompleteKeeps, SettleKeeps
  <2>4. CASE MarkUnavailable \/ AssignPositions
    BY <2>4, MarkUnavailableKeeps, AssignPositionsKeeps
  <2>5. CASE RecordProof \/ ApplyFlags \/ WithdrawProof
    BY <2>5, RecordProofKeeps, ApplyFlagsKeeps, WithdrawProofKeeps
  <2> QED
    BY <1>1, <2>1, <2>2, <2>3, <2>4, <2>5 DEF Pass
<1>2. ASSUME Faults PROVE DiscoveryInv'
  BY <1>2, ListingBreaksKeeps, CutOffKeeps, FlagsFailKeeps DEF Faults
<1>3. ASSUME World PROVE DiscoveryInv'
  <2>1. CASE Publish
    BY <2>1, PublishKeeps
  <2>2. ASSUME NEW c \in Chapters, Withdraw(c) PROVE DiscoveryInv'
    BY <2>2, WithdrawKeeps
  <2>3. ASSUME NEW k \in Keys, NEW s \in Scopes, EditScope(k, s) PROVE DiscoveryInv'
    BY <2>3, EditScopeKeeps
  <2> QED
    BY <1>3, <2>1, <2>2, <2>3 DEF World
<1>4. CASE UNCHANGED vars
  BY <1>4 DEF vars, siteVars, catalogVars, bounds, DiscoveryInv, CatalogShape, Shape, ReadingFacts, FullFacts, SiteFacts,
     ProofFacts, Running, RunningFull, HasInventory, Owned, Known, Rank, Selected, InRange, LostOnlyIfWithdrawn,
     ProofIsOfLatestFull, ProofMatchesCatalog, FlagFailureLeavesNoProof
<1> QED
  BY <1>1, <1>2, <1>3, <1>4 DEF Next

LEMMA DiscoveryInvariant == ASSUME DiscoveryAssumption PROVE Spec => []DiscoveryInv
<1>1. Init => DiscoveryInv
  BY InitDiscovery
<1>2. DiscoveryInv /\ [Next]_vars => DiscoveryInv'
  BY NextDiscovery
<1> QED
  BY <1>1, <1>2, PTL DEF Spec

\* A stored proof of a complete listing is that of the latest full run, for every
\* order of runs, failures and edits (discovery/service.py:165).
THEOREM DiscoveryProofIsOfLatestFull ==
  ASSUME DiscoveryAssumption PROVE Spec => []ProofIsOfLatestFull
<1>1. DiscoveryInv => ProofIsOfLatestFull
  BY DEF DiscoveryInv, ProofFacts
<1> QED
  BY <1>1, DiscoveryInvariant, PTL

\* While a proof stands the Catalog is as it says (catalog/service.py:935).
THEOREM DiscoveryProofMatchesCatalog ==
  ASSUME DiscoveryAssumption PROVE Spec => []ProofMatchesCatalog
<1>1. DiscoveryInv => ProofMatchesCatalog
  BY DEF DiscoveryInv, ProofFacts
<1> QED
  BY <1>1, DiscoveryInvariant, PTL

\* Flags that could not be written take the proof with them
\* (discovery/service.py:469).
THEOREM DiscoveryFlagFailureLeavesNoProof ==
  ASSUME DiscoveryAssumption PROVE Spec => []FlagFailureLeavesNoProof
<1>1. DiscoveryInv => FlagFailureLeavesNoProof
  BY DEF DiscoveryInv, ProofFacts
<1> QED
  BY <1>1, DiscoveryInvariant, PTL

\* What the Catalog holds for proven is so: the three together.
THEOREM DiscoveryProofsHold == ASSUME DiscoveryAssumption PROVE Spec => []ProofsHold
<1>1. DiscoveryInv => ProofsHold
  BY DEF DiscoveryInv, ProofFacts, ProofsHold
<1> QED
  BY <1>1, DiscoveryInvariant, PTL

\* Only what the site has taken down is called unavailable.
THEOREM DiscoveryLostOnlyIfWithdrawn ==
  ASSUME DiscoveryAssumption PROVE Spec => []LostOnlyIfWithdrawn
<1>1. DiscoveryInv => LostOnlyIfWithdrawn
  BY DEF DiscoveryInv, SiteFacts
<1> QED
  BY <1>1, DiscoveryInvariant, PTL

-------------------------------------------------------------------------------
\* What one step of a run may do.

OthersKept == Running => \A c \in Known : source[c].key # run.key => source'[c] = source[c]
LEMMA StepKeepsOthers ==
  ASSUME DiscoveryAssumption, DiscoveryInv, Next PROVE OthersKept
<1> SUFFICES ASSUME Running, NEW c \in Known, source[c].key # run.key PROVE source'[c] = source[c]
  BY DEF OthersKept
<1>1. source \in [Chapters -> SourceType] /\ c \in Chapters
  BY DEF DiscoveryInv, CatalogShape, Known
<1>2. run.seen \subseteq Owned(run.key) /\ c \notin Owned(run.key)
  BY DEF DiscoveryInv, ReadingFacts, Owned
<1>3. ASSUME NEW d \in Decisions, Record(d) PROVE source'[c] = source[c]
  <2>1. c # Current
    BY <1>3 DEF Record, Foreign
  <2>2. Store(Current)
    BY <1>3 DEF Record
  <2>3. CASE Current \in Known
    <3>1. source' = [source EXCEPT ![Current] = [source[Current] EXCEPT !.available = TRUE]]
      BY <2>2, <2>3 DEF Store
    <3> QED
      BY <1>1, <2>1, <3>1
  <2>4. CASE Current \notin Known
    <3>1. source' = [source EXCEPT ![Current] = NewSource(run.key)]
      BY <2>2, <2>4 DEF Store
    <3> QED
      BY <1>1, <2>1, <3>1
  <2> QED
    BY <2>3, <2>4
<1>4. CASE MarkUnavailable
  BY <1>1, <1>2, <1>4 DEF MarkUnavailable, Missing
<1>5. CASE AssignPositions
  <2>1. c \notin DOMAIN Positions
    BY <1>2, PositionsType DEF DiscoveryInv
  <2> QED
    BY <1>1, <1>5, <2>1 DEF AssignPositions
<1>6. CASE RecordProof
  BY <1>1, <1>2, <1>6 DEF RecordProof
<1>7. CASE ApplyFlags
  BY <1>1, <1>2, <1>7 DEF ApplyFlags
<1>8. CASE source' = source
  BY <1>8
<1>9. (\E d \in Decisions : Record(d)) \/ MarkUnavailable \/ AssignPositions \/ RecordProof \/ ApplyFlags \/ source' = source
  BY DEF Next, Pass, Faults, World, Refuse, Start, Exhaust, Incomplete, Settle, WithdrawProof, ListingBreaks, CutOff,
     FlagsFail, Publish, Withdraw, EditScope, catalogVars
<1> QED
  BY <1>3, <1>4, <1>5, <1>6, <1>7, <1>8, <1>9

\* A run leaves the Sources of other keys as they are, whatever its listing shows.
THEOREM DiscoveryOthersUntouched == ASSUME DiscoveryAssumption PROVE Spec => OthersUntouched
<1>1. DiscoveryInv /\ [Next]_vars
        => [run.pc # "idle" => \A c \in Known : source[c].key # run.key => source'[c] = source[c]]_vars
  BY StepKeepsOthers DEF OthersKept, Running
<1> QED
  BY <1>1, DiscoveryInvariant, PTL DEF Spec, OthersUntouched

ReflectsSite(k) ==
  \A c \in Owned(k) :
    /\ c \in run.rows => source'[c].position = Rank(run.rows, c)
    /\ c \in run.rows => (source'[c].enabled <=> c \in Selected(run.rows, run.scope))
    /\ run.scope = Unbounded /\ source'[c].available => c \in run.rows
Completes == ended'.outcome = "complete" /\ run.pc # "idle" /\ run'.pc = "idle" /\ run.mode = "full" /\ (hints \/ Infers)

LEMMA FullRunEndsAsRead ==
  ASSUME DiscoveryAssumption, DiscoveryInv, Next, Completes PROVE ReflectsSite(run.key)
<1>1. ApplyFlags
  <2>1. /\ ~Incomplete /\ ~ListingBreaks /\ ~CutOff /\ ~WithdrawProof
        /\ \A k \in Keys, mode \in Modes : ~Refuse(k, mode) /\ ~Start(k, mode)
    <3>1. ~Ends("incomplete") /\ ~Ends("cut off") /\ ~Ends("raised")
      <4>1. ASSUME NEW outcome, Ends(outcome) PROVE outcome = "complete"
        <5>1. ended'.outcome = outcome
          BY <4>1 DEF Ends
        <5> QED
          BY <5>1 DEF Completes
      <4> QED
        BY <4>1
    <3>2. ~Incomplete /\ ~ListingBreaks /\ ~CutOff /\ ~WithdrawProof
      BY <3>1 DEF Incomplete, ListingBreaks, CutOff, WithdrawProof
    <3>3. run.pc # "idle"
      BY DEF Completes
    <3> QED
      BY <3>2, <3>3 DEF Refuse, Start
  <2>2. ~FlagsFail
    <3>1. run \in RunType
      BY DEF DiscoveryInv, Shape
    <3> QED
      BY <3>1 DEF Completes, FlagsFail, Ends, RunType
  <2>3. ~Exhaust /\ ~Settle /\ ~MarkUnavailable /\ ~AssignPositions /\ ~RecordProof /\ \A d \in Decisions : ~Record(d)
    <3>1. run \in RunType
      BY DEF DiscoveryInv, Shape
    <3> QED
      BY <3>1 DEF Completes, Exhaust, Settle, MarkUnavailable, AssignPositions, RecordProof, Record, RunType
  <2>4. ~World
    BY DEF Completes, World, Publish, Withdraw, EditScope
  <2> QED
    BY <2>1, <2>2, <2>3, <2>4 DEF Next, Pass, Faults
<1>2. RunningFull /\ run.pc = "flags" /\ (hints \/ Infers) /\ run.todo = {} /\ run.seen = Selected(run.rows, run.scope)
  BY <1>1 DEF Completes, RunningFull, Running, ApplyFlags, DiscoveryInv, ReadingFacts
<1> SUFFICES ASSUME NEW c \in Owned(run.key)
             PROVE  /\ c \in run.rows => source'[c].position = Rank(run.rows, c)
                    /\ c \in run.rows => (source'[c].enabled <=> c \in Selected(run.rows, run.scope))
                    /\ run.scope = Unbounded /\ source'[c].available => c \in run.rows
  BY DEF ReflectsSite
<1>3. c \in Chapters /\ source[c] \in SourceType
  BY DEF Owned, Known, DiscoveryInv, CatalogShape
<1>4. source'[c] = IF source[c].enabled # Enabled(c) THEN [source[c] EXCEPT !.enabled = Enabled(c)] ELSE source[c]
  BY <1>1, <1>3 DEF ApplyFlags
<1>5. source'[c].position = source[c].position /\ source'[c].available = source[c].available /\ source'[c].enabled = Enabled(c)
  BY <1>3, <1>4 DEF SourceType
<1>6. c \in run.rows => HasInventory /\ source[c].position = Rank(run.rows, c)
  BY <1>2 DEF RunningFull, HasInventory, DiscoveryInv, FullFacts
<1>7. c \in run.rows => (Enabled(c) <=> c \in Selected(run.rows, run.scope))
  <2> SUFFICES ASSUME c \in run.rows PROVE Enabled(c) <=> c \in Selected(run.rows, run.scope)
    OBVIOUS
  <2>1. CASE run.scope = Unbounded
    BY <1>2, <2>1 DEF Enabled, RunningFull, Selected, InRange, Unbounded
  <2>2. CASE run.scope # Unbounded /\ c \in run.scope.out
    BY <2>2 DEF Enabled, Selected
  <2>3. CASE run.scope # Unbounded /\ c \notin run.scope.out
    BY <1>6, <2>3 DEF Enabled
  <2> QED
    BY <2>1, <2>2, <2>3
<1>8. run.scope = Unbounded /\ source[c].available => c \in run.rows
  BY <1>2 DEF DiscoveryInv, FullFacts, Selected, InRange
<1> QED
  BY <1>5, <1>6, <1>7, <1>8

\* A full run that completes leaves its Sources as it read the site.
THEOREM DiscoveryFullRunReflectsSite == ASSUME DiscoveryAssumption PROVE Spec => FullRunReflectsSite
<1>1. DiscoveryInv /\ [Next]_vars => [Completes => ReflectsSite(run.key)]_vars
  BY FullRunEndsAsRead
<1>2. FullRunReflectsSite <=> [][Completes => ReflectsSite(run.key)]_vars
  BY DEF FullRunReflectsSite, Completes, ReflectsSite
<1> QED
  BY <1>1, <1>2, DiscoveryInvariant, PTL DEF Spec

\* A run settles its own key by what it read of the site, and nothing else: the
\* two together (discovery/service.py:403, 454).
THEOREM DiscoveryRunsReflectSite == ASSUME DiscoveryAssumption PROVE Spec => RunsReflectSite
BY DiscoveryFullRunReflectsSite, DiscoveryOthersUntouched DEF RunsReflectSite

-------------------------------------------------------------------------------
\* Numbers inferred from the order of the listing.

\* Watchlists that name boundaries only, and leave no chapter out between them.
NoneLeftOut == Scopes \subseteq [from : Nat, through : Nat, out : {{}}]

\* Below a chapter that has a number all have one, of the same key, and a smaller one.
Ordered(shelf, sources) ==
  \A c, d \in shelf : c < d /\ sources[d].position # 0 =>
    /\ sources[c].key = sources[d].key /\ sources[c].position # 0
    /\ sources[c].position < sources[d].position

\* A run goes from the newest chapter downwards; what is published meanwhile is
\* newer than all it reads; without hints only a target without scope is numbered.
PassFacts == Running =>
  /\ \A c \in listing \ run.rows, d \in run.rows : c > d
  /\ \A c \in run.seen, d \in run.todo : c > d
  /\ run.stopped = "exhausted" => run.todo = {}
  /\ run.pc # "reading" => BoundariesListed(run.rows, run.scope) /\ (run.seen # {} \/ run.todo = {})
  /\ ~hints /\ run.pc \notin {"reading", "read"} => run.scope = Unbounded

OrderInv ==
  /\ PassFacts
  /\ ~hints => Ordered(IF Running THEN run.rows ELSE listing, source)

LEMMA RankGrows ==
  ASSUME DiscoveryAssumption, NEW rows \in SUBSET Chapters, NEW c \in rows
  PROVE  /\ Rank(rows, c) \in Nat /\ Rank(rows, c) # 0
         /\ \A d \in rows : c < d => Rank(rows, c) < Rank(rows, d)
<1> DEFINE Upto(x) == {e \in rows : e <= x}
<1>1. rows \subseteq Nat /\ IsFiniteSet(rows)
  BY ChaptersFinite
<1>2. ASSUME NEW x \in rows
      PROVE  IsFiniteSet(Upto(x)) /\ Cardinality(Upto(x)) \in Nat /\ Rank(rows, x) = Cardinality(Upto(x))
  <2>1. Upto(x) \in SUBSET rows
    OBVIOUS
  <2> QED
    BY <1>1, <2>1, FS_Subset, FS_CardinalityType DEF Rank
<1>3. c \in Upto(c)
  BY <1>1
<1>4. Cardinality(Upto(c)) # 0
  <2> HIDE DEF Upto
  <2> QED
    BY <1>2, <1>3, FS_EmptySet
<1>5. ASSUME NEW d \in rows, c < d PROVE Cardinality(Upto(c)) < Cardinality(Upto(d))
  <2>0. c \in Nat /\ d \in Nat
    BY <1>1
  <2>1. (\A e \in rows : e <= c => e <= d) /\ d <= d /\ ~(d <= c)
    <3>1. ASSUME NEW e \in rows, e <= c PROVE e <= d
      <4>1. e \in Nat
        BY <1>1
      <4> QED
        BY <1>5, <2>0, <3>1, <4>1
    <3> QED
      BY <1>5, <2>0, <3>1
  <2>2. Upto(c) \subseteq Upto(d) /\ d \in Upto(d) /\ d \notin Upto(c)
    BY <2>1
  <2>3. Upto(c) # Upto(d)
    BY <2>2
  <2> HIDE DEF Upto
  <2> QED
    BY <1>2, <2>2, <2>3, FS_Subset
<1> HIDE DEF Upto
<1> QED
  BY <1>2, <1>4, <1>5

LEMMA OrderedKept ==
  ASSUME NEW shelf \in SUBSET Chapters, NEW old, NEW new, Ordered(shelf, old),
         \A c \in Chapters : /\ new[c].position = old[c].position
                             /\ old[c].position # 0 => new[c].key = old[c].key
  PROVE  Ordered(shelf, new)
BY DEF Ordered

\* A chapter that has a number is known.
LEMMA NumberedIsKnown ==
  ASSUME DiscoveryInv, NEW c \in Chapters, source[c].position # 0 PROVE c \in Known
BY DEF DiscoveryInv, Known, NoSource

\* When a run is over, what is listed is as ordered as what it has read.
LEMMA ListedAsRead ==
  ASSUME DiscoveryAssumption, DiscoveryInv, PassFacts, Running, Ordered(run.rows, source)
  PROVE  Ordered(listing, source)
<1> SUFFICES ASSUME NEW c \in listing, NEW d \in listing, c < d, source[d].position # 0
             PROVE  c \in run.rows /\ d \in run.rows
  BY DEF Ordered
<1>1. listing \subseteq Chapters /\ Chapters \subseteq Nat
  <2>1. published \in 1 .. Count /\ listing \subseteq 1 .. published /\ Count \in Nat
    BY DEF DiscoveryInv, Shape, Chapters, DiscoveryAssumption
  <2> QED
    BY <2>1 DEF Chapters
<1>2. d \in run.rows
  BY <1>1, NumberedIsKnown DEF DiscoveryInv, SiteFacts
<1>3. c \in run.rows
  <2>1. SUFFICES ASSUME c \notin run.rows PROVE FALSE
    OBVIOUS
  <2>2. c > d
    BY <1>2, <2>1 DEF PassFacts
  <2> QED
    BY <1>1, <2>2
<1> QED
  BY <1>2, <1>3

\* Without exclusions a scope whose boundaries are listed selects something.
LEMMA ScopeSelects ==
  ASSUME DiscoveryAssumption, NoneLeftOut, NEW rows \in SUBSET Chapters,
         NEW s \in Scopes \cup {Unbounded}, s # Unbounded, BoundariesListed(rows, s)
  PROVE  Selected(rows, s) # {}
<1>1. s \in [from : Nat, through : Nat, out : {{}}]
  BY DEF NoneLeftOut
<1>2. s = [from |-> s.from, through |-> s.through, out |-> s.out] /\ s.out = {}
      /\ s.from \in Nat /\ s.through \in Nat
  BY <1>1
<1>3. s.from # 0 \/ s.through # 0
  BY <1>2 DEF Unbounded
<1>4. CASE s.from # 0
  <2>1. s.from \in rows /\ (s.through = 0 \/ s.from >= s.through)
    BY <1>4 DEF BoundariesListed
  <2>2. s.from \in InRange(rows, s)
    BY <1>2, <2>1 DEF InRange
  <2> QED
    BY <1>2, <2>2 DEF Selected
<1>5. CASE s.from = 0 /\ s.through # 0
  <2>1. s.through \in rows
    BY <1>5 DEF BoundariesListed
  <2>2. s.through \in InRange(rows, s)
    BY <1>2, <1>5, <2>1 DEF InRange
  <2> QED
    BY <1>2, <2>2 DEF Selected
<1> QED
  BY <1>3, <1>4, <1>5

LEMMA InitOrder ==
  ASSUME Init PROVE OrderInv
<1>1. ~Running /\ listing = {1}
  BY DEF Init, Running, NoRun
<1>2. Ordered(listing, source)
  BY <1>1 DEF Ordered
<1> QED
  BY <1>1, <1>2 DEF OrderInv, PassFacts

LEMMA PublishOrder ==
  ASSUME DiscoveryAssumption, DiscoveryInv, OrderInv, Publish PROVE OrderInv'
<1>1. /\ published \in 1 .. Count /\ Count \in Nat /\ published' = published + 1 /\ published < Count
      /\ listing' = listing \cup {published'} /\ listing \subseteq 1 .. published
      /\ UNCHANGED <<hints, source, run>>
  BY DEF Publish, DiscoveryInv, Shape, Chapters, DiscoveryAssumption, catalogVars
<1>2. published' \in Chapters /\ published' \notin Known /\ \A c \in 1 .. published : published' > c
  BY <1>1 DEF DiscoveryInv, SiteFacts, Chapters
<1>3. PassFacts'
  <2>1. Running => run.rows \subseteq 1 .. published
    BY DEF DiscoveryInv, SiteFacts
  <2>2. Running => \A c \in listing' \ run.rows, d \in run.rows : c > d
    BY <1>1, <1>2, <2>1 DEF OrderInv, PassFacts
  <2> QED
    BY <1>1, <2>2 DEF OrderInv, PassFacts, Running, BoundariesListed
<1>4. ASSUME ~hints, ~Running PROVE Ordered(listing', source)
  <2>1. Ordered(listing, source)
    BY <1>4 DEF OrderInv
  <2>2. source[published'].position = 0
    BY <1>2, NumberedIsKnown
  <2>3. \A c \in listing : ~(published' < c)
    BY <1>1
  <2>4. ASSUME NEW c \in listing', NEW d \in listing', c < d, source[d].position # 0
        PROVE  c \in listing /\ d \in listing
    BY <1>1, <2>2, <2>3, <2>4
  <2> QED
    BY <2>1, <2>4 DEF Ordered
<1> QED
  BY <1>1, <1>3, <1>4 DEF OrderInv, Running

\* Steps that touch neither the Sources nor the run, and publish nothing.
LEMMA AsideOrder ==
  ASSUME OrderInv, listing' \subseteq listing, UNCHANGED <<hints, source, run>>
  PROVE  OrderInv'
<1>1. PassFacts'
  BY DEF OrderInv, PassFacts, Running, BoundariesListed
<1>2. ~hints => Ordered(IF Running THEN run.rows ELSE listing', source)
  BY DEF OrderInv, Ordered
<1> QED
  BY <1>1, <1>2 DEF OrderInv, Running

LEMMA StartOrder ==
  ASSUME OrderInv, NEW k \in Keys, NEW mode \in Modes, Start(k, mode) PROVE OrderInv'
<1>1. ~Running /\ UNCHANGED <<hints, source, listing>>
  BY DEF Start, siteVars, Running
<1>2. /\ run'.pc = "reading" /\ run'.rows = listing /\ run'.seen = {} /\ run'.stopped = "none"
  BY DEF Start, NoRun
<1>3. PassFacts'
  BY <1>1, <1>2 DEF PassFacts, Running
<1> QED
  BY <1>1, <1>2, <1>3 DEF OrderInv, Running

\* A run that ends.
LEMMA EndOrder ==
  ASSUME DiscoveryAssumption, DiscoveryInv, OrderInv, Running, run' = NoRun,
         UNCHANGED <<hints, listing>>,
         \A c \in Chapters : source'[c].key = source[c].key /\ source'[c].position = source[c].position
  PROVE  OrderInv'
<1>1. ~Running' /\ PassFacts'
  BY DEF Running, NoRun, PassFacts
<1>2. listing \in SUBSET Chapters
  <2>1. published \in 1 .. Count /\ listing \subseteq 1 .. published /\ Count \in Nat
    BY DEF DiscoveryInv, Shape, Chapters, DiscoveryAssumption
  <2> QED
    BY <2>1 DEF Chapters
<1>3. ~hints => Ordered(listing, source)
  BY ListedAsRead DEF OrderInv
<1>4. ~hints => Ordered(listing, source')
  BY <1>2, <1>3, OrderedKept
<1> QED
  BY <1>1, <1>4 DEF OrderInv

\* A run that goes on, with what it has read; the numbers stay.
LEMMA GoOnOrder ==
  ASSUME DiscoveryAssumption, DiscoveryInv, OrderInv, Running, Running', UNCHANGED <<hints, listing>>,
         run'.rows = run.rows, PassFacts',
         \A c \in Chapters : /\ source'[c].position = source[c].position
                             /\ source[c].position # 0 => source'[c].key = source[c].key
  PROVE  OrderInv'
<1>1. run.rows \in SUBSET Chapters
  BY DEF DiscoveryInv, Shape, RunType
<1>2. ~hints => Ordered(run.rows, source')
  BY <1>1, OrderedKept DEF OrderInv
<1> QED
  BY <1>2 DEF OrderInv

LEMMA RecordOrder ==
  ASSUME DiscoveryAssumption, DiscoveryInv, OrderInv, NEW decision, Record(decision) PROVE OrderInv'
<1> PICK c : c = Current
  OBVIOUS
<1> PICK stop : stop = StopsAt(c, decision)
  OBVIOUS
<1>1. /\ run \in RunType /\ run.pc = "reading" /\ Running /\ BoundariesListed(run.rows, run.scope)
      /\ UNCHANGED <<hints, listing>> /\ Store(c)
  BY DEF Record, Readable, DiscoveryInv, Shape, Running, siteVars
<1>2. c \in run.todo /\ run.todo \subseteq Nat /\ \A d \in run.todo : c >= d
  <2>1. run.todo \in SUBSET Chapters /\ run.todo # {}
    BY <1>1 DEF RunType, Record, Readable
  <2> QED
    BY <2>1, ChaptersFinite, MaxIsIn DEF Current
<1>3. stop \in {"none", "stable_boundary", "known_streak"}
  BY DEF StopsAt
<1>4. /\ run'.rows = run.rows /\ run'.scope = run.scope /\ run'.todo = run.todo \ {c}
      /\ run'.seen = run.seen \cup {c} /\ run'.stopped # "exhausted" /\ run'.pc \in {"reading", "read"}
  BY <1>1, <1>3 DEF Record, RunType
<1>5. PassFacts'
  <2>1. \A d \in run.todo \ {c} : c > d
    BY <1>2
  <2>2. \A x \in run.seen \cup {c}, d \in run.todo \ {c} : x > d
    BY <1>1, <2>1 DEF OrderInv, PassFacts
  <2>3. \A x \in listing \ run.rows, d \in run.rows : x > d
    BY <1>1 DEF OrderInv, PassFacts
  <2>4. BoundariesListed(run.rows, run.scope)' /\ run.seen \cup {c} # {}
    BY <1>1, <1>4 DEF BoundariesListed
  <2> QED
    BY <1>1, <1>4, <2>2, <2>3, <2>4 DEF PassFacts, BoundariesListed
<1>6. ASSUME NEW d \in Chapters
      PROVE  /\ source'[d].position = source[d].position
             /\ source[d].position # 0 => source'[d].key = source[d].key
  <2>1. source[d] \in SourceType /\ source \in [Chapters -> SourceType]
    BY DEF DiscoveryInv, CatalogShape
  <2>2. CASE c \in Known
    <3>1. source' = [source EXCEPT ![c] = [source[c] EXCEPT !.available = TRUE]]
      BY <1>1, <2>2 DEF Store
    <3>2. source'[d] = source[d] \/ source'[d] = [source[d] EXCEPT !.available = TRUE]
      BY <2>1, <3>1
    <3> QED
      BY <2>1, <3>2 DEF SourceType
  <2>3. CASE c \notin Known
    <3>1. source' = [source EXCEPT ![c] = NewSource(run.key)]
      BY <1>1, <2>3 DEF Store
    <3>2. CASE d # c
      BY <2>1, <3>1, <3>2
    <3>3. CASE d = c
      BY <2>1, <2>3, <3>1, <3>3 DEF NewSource, Known, NoSource
    <3> QED
      BY <3>2, <3>3
  <2> QED
    BY <2>2, <2>3
<1>7. Running'
  BY <1>4 DEF Running
<1> QED
  BY <1>1, <1>4, <1>5, <1>6, <1>7, GoOnOrder

LEMMA ExhaustOrder ==
  ASSUME DiscoveryAssumption, DiscoveryInv, OrderInv, Exhaust PROVE OrderInv'
<1>1. /\ run \in RunType /\ Running /\ run.todo = {} /\ BoundariesListed(run.rows, run.scope)
      /\ UNCHANGED <<hints, listing, source>>
  BY DEF Exhaust, DiscoveryInv, Shape, Running, siteVars, catalogVars
<1>2. /\ run'.rows = run.rows /\ run'.scope = run.scope /\ run'.todo = {} /\ run'.seen = run.seen
      /\ run'.pc = "read" /\ Running'
  BY <1>1 DEF Exhaust, RunType, Running
<1>3. PassFacts'
  BY <1>1, <1>2 DEF OrderInv, PassFacts, BoundariesListed
<1> QED
  BY <1>1, <1>2, <1>3, GoOnOrder

\* Where numbers come from the order of the listing, a run is settled only for
\* a target without scope.
LEMMA SettleOrder ==
  ASSUME DiscoveryAssumption, NoneLeftOut, DiscoveryInv, OrderInv, Settle PROVE OrderInv'
<1>1. /\ run \in RunType /\ Running /\ run.pc = "read" /\ ~Unpositioned
      /\ UNCHANGED <<hints, listing, source>>
  BY DEF Settle, DiscoveryInv, Shape, Running, siteVars, catalogVars
<1>2. /\ run'.rows = run.rows /\ run'.scope = run.scope /\ run'.todo = run.todo /\ run'.seen = run.seen
      /\ run'.stopped = run.stopped /\ run'.pc \in {"availability", "positions"} /\ Running'
  BY <1>1 DEF Settle, RunType, Running
<1>3. ~hints => run.scope = Unbounded
  <2> SUFFICES ASSUME ~hints, run.scope # Unbounded PROVE FALSE
    OBVIOUS
  <2>1. run.seen = {} /\ run.todo = {} /\ BoundariesListed(run.rows, run.scope)
    BY <1>1 DEF Unpositioned, OrderInv, PassFacts
  <2>2. Selected(run.rows, run.scope) = {}
    BY <1>1, <2>1 DEF DiscoveryInv, ReadingFacts
  <2> QED
    BY <1>1, <2>1, <2>2, ScopeSelects DEF RunType
<1>4. PassFacts'
  BY <1>1, <1>2, <1>3 DEF OrderInv, PassFacts, BoundariesListed
<1> QED
  BY <1>1, <1>2, <1>4, GoOnOrder

\* What is known of a run that settles stays so.
LEMMA SettlingGoesOn ==
  ASSUME run \in RunType, Running, PassFacts, run.pc \notin {"reading", "read"},
         NEW pc \in Places \ {"idle", "reading", "read"}, MovesTo(pc), UNCHANGED <<hints, listing>>
  PROVE  PassFacts' /\ Running' /\ run'.rows = run.rows
<1>1. /\ run'.rows = run.rows /\ run'.scope = run.scope /\ run'.todo = run.todo /\ run'.seen = run.seen
      /\ run'.stopped = run.stopped /\ run'.pc = pc
  BY DEF RunType, MovesTo
<1> QED
  BY <1>1 DEF PassFacts, Running, BoundariesListed

LEMMA MarkUnavailableOrder ==
  ASSUME DiscoveryAssumption, DiscoveryInv, OrderInv, MarkUnavailable PROVE OrderInv'
<1>1. /\ run \in RunType /\ run.pc = "availability" /\ Running /\ MovesTo("positions")
      /\ UNCHANGED <<hints, listing>>
  BY DEF MarkUnavailable, DiscoveryInv, Shape, Running, MovesTo, siteVars
<1>2. PassFacts' /\ Running' /\ run'.rows = run.rows
  BY <1>1, SettlingGoesOn DEF OrderInv, Places
<1>3. ASSUME NEW d \in Chapters
      PROVE  source'[d].position = source[d].position /\ source'[d].key = source[d].key
  <2>1. source[d] \in SourceType
    BY DEF DiscoveryInv, CatalogShape
  <2>2. source'[d] = source[d] \/ source'[d] = [source[d] EXCEPT !.available = FALSE]
    BY DEF MarkUnavailable
  <2> QED
    BY <2>1, <2>2 DEF SourceType
<1> QED
  BY <1>1, <1>2, <1>3, GoOnOrder

\* Sources of one key numbered by their rank are in order.
LEMMA RankedInOrder ==
  ASSUME DiscoveryAssumption, NEW rows \in SUBSET Chapters, NEW sources, NEW k,
         \A c \in rows : sources[c].key = k /\ sources[c].position = Rank(rows, c)
  PROVE  Ordered(rows, sources)
BY RankGrows DEF Ordered

\* A run that stopped early numbers on above all it met: what it did not read
\* is older, and so below what it met and has a number.
LEMMA AppendedInOrder ==
  ASSUME DiscoveryAssumption, DiscoveryInv, Running, Ordered(run.rows, source), NEW sources,
         run.rows = run.todo \cup run.seen, \A c \in run.seen, d \in run.todo : c > d,
         Positioned # {}, NEW m \in Nat, \A d \in Positioned : source[d].position <= m,
         \A c \in run.seen \ Positioned : sources[c].position = m + Rank(run.seen \ Positioned, c)
                                          /\ sources[c].key = source[c].key,
         \A c \in run.rows \ (run.seen \ Positioned) : sources[c] = source[c]
  PROVE  Ordered(run.rows, sources)
<1> PICK fresh : fresh = run.seen \ Positioned
  OBVIOUS
<1>1. run.rows \in SUBSET Chapters /\ run.rows \subseteq Nat /\ fresh \in SUBSET Chapters
  <2>1. run.rows \in SUBSET Chapters /\ run.seen \in SUBSET Chapters
    BY DEF DiscoveryInv, Shape, RunType
  <2> QED
    BY <2>1, ChaptersFinite
<1>2. \A d \in Chapters : source[d].position \in Nat
  BY DEF DiscoveryInv, CatalogShape, SourceType
<1>3. \A c \in run.seen : source[c].key = run.key
  BY DEF DiscoveryInv, ReadingFacts, Owned
<1>4. \A c \in fresh : source[c].position = 0 /\ Rank(fresh, c) \in Nat /\ Rank(fresh, c) # 0
  BY <1>1, RankGrows DEF Positioned
<1> SUFFICES ASSUME NEW c \in run.rows, NEW d \in run.rows, c < d, sources[d].position # 0
             PROVE  /\ sources[c].key = sources[d].key /\ sources[c].position # 0
                    /\ sources[c].position < sources[d].position
  BY DEF Ordered
<1>5. CASE d \in fresh
  <2>1. sources[d].position = m + Rank(fresh, d) /\ sources[d].key = run.key
    BY <1>3, <1>5
  <2>2. CASE c \in fresh
    <3>1. sources[c].position = m + Rank(fresh, c) /\ sources[c].key = run.key
      BY <1>3, <2>2
    <3>2. Rank(fresh, c) < Rank(fresh, d)
      BY <1>1, <1>5, <2>2, RankGrows
    <3>3. Rank(fresh, c) \in Nat /\ Rank(fresh, c) # 0 /\ Rank(fresh, d) \in Nat
      BY <1>4, <1>5, <2>2
    <3>4. m + Rank(fresh, c) # 0 /\ m + Rank(fresh, c) < m + Rank(fresh, d)
      BY <3>2, <3>3
    <3> QED
      BY <2>1, <3>1, <3>4
  <2>3. ASSUME c \notin fresh, source[c].position # 0, source[c].position <= m, source[c].key = run.key
        PROVE  /\ sources[c].key = sources[d].key /\ sources[c].position # 0
               /\ sources[c].position < sources[d].position
    <3>1. sources[c] = source[c]
      BY <2>3
    <3>2. source[c].position \in Nat
      BY <1>1, <1>2
    <3>3. Rank(fresh, d) \in Nat /\ Rank(fresh, d) # 0
      BY <1>4, <1>5
    <3>4. source[c].position < m + Rank(fresh, d)
      BY <2>3, <3>2, <3>3
    <3> QED
      BY <2>1, <2>3, <3>1, <3>4
  <2>4. CASE c \in Positioned
    BY <1>2, <1>3, <2>3, <2>4 DEF Positioned
  <2>5. CASE c \in run.todo /\ c \notin run.seen
    <3>1. PICK p \in Positioned : TRUE
      OBVIOUS
    <3>2. p \in run.seen /\ p \in run.rows /\ source[p].position # 0
      BY <3>1 DEF Positioned
    <3>3. c < p
      <4>1. p > c /\ p \in Nat /\ c \in Nat
        BY <1>1, <2>5, <3>2
      <4> QED
        BY <4>1
    <3>4. source[c].key = run.key /\ source[c].position # 0 /\ source[c].position < source[p].position
      BY <1>3, <3>2, <3>3 DEF Ordered
    <3>5. source[c].position <= m
      BY <1>1, <1>2, <3>1, <3>2, <3>4
    <3> QED
      BY <2>3, <2>5, <3>4, <3>5
  <2> QED
    BY <2>2, <2>4, <2>5
<1>6. CASE d \notin fresh
  <2>1. sources[d] = source[d]
    BY <1>6
  <2>2. source[c].key = source[d].key /\ source[c].position # 0 /\ source[c].position < source[d].position
    BY <2>1 DEF Ordered
  <2>3. sources[c] = source[c]
    BY <1>4, <2>2
  <2> QED
    BY <2>1, <2>2, <2>3
<1> QED
  BY <1>5, <1>6

LEMMA AssignPositionsOrder ==
  ASSUME DiscoveryAssumption, DiscoveryInv, OrderInv, AssignPositions PROVE OrderInv'
<1> PICK pc : pc = IF HasInventory THEN "proof" ELSE "flags"
  OBVIOUS
<1> PICK given : given = Positions
  OBVIOUS
<1>1. /\ run \in RunType /\ run.pc = "positions" /\ Running /\ MovesTo(pc) /\ UNCHANGED <<hints, listing>>
      /\ source' = [c \in Chapters |-> IF c \in DOMAIN given THEN [source[c] EXCEPT !.position = given[c]] ELSE source[c]]
  BY DEF AssignPositions, DiscoveryInv, Shape, Running, MovesTo, siteVars
<1>2. PassFacts' /\ Running' /\ run'.rows = run.rows
  <2>1. pc \in Places \ {"idle", "reading", "read"}
    BY DEF Places
  <2> QED
    BY <1>1, <2>1, SettlingGoesOn DEF OrderInv
<1>3. ASSUME NEW d \in Chapters
      PROVE  /\ source'[d].key = source[d].key
             /\ d \in DOMAIN given => source'[d].position = given[d]
             /\ d \notin DOMAIN given => source'[d] = source[d]
  <2>1. source[d] \in SourceType
    BY DEF DiscoveryInv, CatalogShape
  <2> QED
    BY <1>1, <2>1 DEF SourceType
<1> SUFFICES ASSUME ~hints PROVE Ordered(run.rows, source')
  BY <1>1, <1>2 DEF OrderInv
<1>4. /\ Ordered(run.rows, source) /\ run.rows \in SUBSET Chapters /\ run.seen \in SUBSET Chapters
      /\ run.rows = run.todo \cup run.seen
      /\ \A c \in run.seen : source[c].key = run.key
      /\ \A c \in run.seen, d \in run.todo : c > d
  <2>1. run.scope = Unbounded /\ run.todo \cup run.seen = Selected(run.rows, run.scope)
    BY <1>1 DEF OrderInv, PassFacts, DiscoveryInv, ReadingFacts
  <2>2. Selected(run.rows, run.scope) = run.rows
    BY <2>1 DEF Selected, InRange, Unbounded
  <2> QED
    BY <1>1, <2>1, <2>2 DEF OrderInv, PassFacts, RunType, DiscoveryInv, ReadingFacts, Owned
<1>5. CASE DOMAIN given = {}
  BY <1>3, <1>4, <1>5, OrderedKept
<1>6. CASE Infers /\ (run.mode = "full" \/ run.stopped = "exhausted")
  <2>1. run.todo = {} /\ run.seen = run.rows
    BY <1>1, <1>4, <1>6 DEF DiscoveryInv, ReadingFacts, RunningFull, OrderInv, PassFacts
  <2>2. given = [c \in run.seen |-> Rank(run.seen, c)]
    BY <1>6 DEF Positions, FullPositions
  <2>3. \A c \in run.rows : source'[c].key = run.key /\ source'[c].position = Rank(run.rows, c)
    BY <1>3, <1>4, <2>1, <2>2
  <2> QED
    BY <1>4, <2>3, RankedInOrder
<1>7. CASE Infers /\ ~(run.mode = "full" \/ run.stopped = "exhausted") /\ Positioned # {}
  <2> PICK m : m = Max({source[d].position : d \in Positioned})
    OBVIOUS
  <2>0. m \in Nat /\ \A d \in Positioned : source[d].position <= m
    BY <1>7, MaxPosition DEF DiscoveryInv
  <2>1. given = [c \in run.seen \ Positioned |-> m + Rank(run.seen \ Positioned, c)]
    BY <1>7 DEF Positions, AppendedPositions
  <2>2. \A c \in run.seen \ Positioned : source'[c].position = m + Rank(run.seen \ Positioned, c)
                                         /\ source'[c].key = source[c].key
    BY <1>3, <1>4, <2>1
  <2>3. \A c \in run.rows \ (run.seen \ Positioned) : source'[c] = source[c]
    BY <1>3, <1>4, <2>1
  <2> QED
    <3> PICK after : after = source'
      OBVIOUS
    <3>1. Running /\ Ordered(run.rows, source) /\ run.rows = run.todo \cup run.seen /\ Positioned # {}
          /\ \A c \in run.seen, d \in run.todo : c > d
      BY <1>1, <1>4, <1>7
    <3>2. \A c \in run.seen \ Positioned : after[c].position = m + Rank(run.seen \ Positioned, c)
                                           /\ after[c].key = source[c].key
      BY <2>2
    <3>3. \A c \in run.rows \ (run.seen \ Positioned) : after[c] = source[c]
      BY <2>3
    <3>4. Ordered(run.rows, after)
      BY <2>0, <3>1, <3>2, <3>3, AppendedInOrder
    <3> QED
      BY <3>4
<1>8. ~(Infers /\ (run.mode = "full" \/ run.stopped = "exhausted"))
      /\ ~(Infers /\ ~(run.mode = "full" \/ run.stopped = "exhausted") /\ Positioned # {}) => DOMAIN given = {}
  BY DEF Positions, FullPositions, AppendedPositions
<1> QED
  BY <1>5, <1>6, <1>7, <1>8

LEMMA RecordProofOrder ==
  ASSUME DiscoveryAssumption, DiscoveryInv, OrderInv, RecordProof PROVE OrderInv'
<1>1. /\ run \in RunType /\ run.pc = "proof" /\ Running /\ run.mode = "full" /\ MovesTo("flags")
      /\ UNCHANGED <<hints, listing>>
      /\ source' = [c \in Chapters |-> IF c \in Owned(run.key) \cap run.rows
                                       THEN [source[c] EXCEPT !.position = Rank(run.rows, c)] ELSE source[c]]
  BY DEF RecordProof, DiscoveryInv, Shape, ReadingFacts, HasInventory, Running, MovesTo, siteVars
<1>2. PassFacts' /\ Running' /\ run'.rows = run.rows
  BY <1>1, SettlingGoesOn DEF OrderInv, Places
<1> SUFFICES ASSUME ~hints PROVE Ordered(run.rows, source')
  BY <1>1, <1>2 DEF OrderInv
<1>3. run.rows \in SUBSET Chapters /\ run.rows \subseteq Owned(run.key)
  <2>1. run.scope = Unbounded /\ run.todo = {} /\ run.todo \cup run.seen = Selected(run.rows, run.scope)
        /\ run.seen \subseteq Owned(run.key)
    BY <1>1 DEF OrderInv, PassFacts, DiscoveryInv, ReadingFacts, RunningFull
  <2>2. Selected(run.rows, run.scope) = run.rows
    BY <2>1 DEF Selected, InRange, Unbounded
  <2> QED
    BY <1>1, <2>1, <2>2 DEF RunType
<1>4. ASSUME NEW c \in run.rows PROVE source'[c].key = run.key /\ source'[c].position = Rank(run.rows, c)
  <2>1. source[c] \in SourceType /\ c \in Chapters /\ c \in Owned(run.key) /\ source[c].key = run.key
    BY <1>3 DEF DiscoveryInv, CatalogShape, Owned
  <2>2. source'[c] = [source[c] EXCEPT !.position = Rank(run.rows, c)]
    BY <1>1, <2>1
  <2> QED
    BY <2>1, <2>2 DEF SourceType
<1> QED
  BY <1>3, <1>4, RankedInOrder

LEMMA ApplyFlagsOrder ==
  ASSUME DiscoveryAssumption, DiscoveryInv, OrderInv, ApplyFlags PROVE OrderInv'
<1>1. Running /\ run' = NoRun /\ UNCHANGED <<hints, listing>>
  BY DEF ApplyFlags, Running, Ends, siteVars
<1>2. ASSUME NEW d \in Chapters
      PROVE  source'[d].key = source[d].key /\ source'[d].position = source[d].position
  <2>1. source[d] \in SourceType
    BY DEF DiscoveryInv, CatalogShape
  <2>2. source'[d] = source[d] \/ source'[d] = [source[d] EXCEPT !.enabled = Enabled(d)]
    BY DEF ApplyFlags
  <2> QED
    BY <2>1, <2>2 DEF SourceType
<1> QED
  BY <1>1, <1>2, EndOrder

LEMMA EndingOrder ==
  ASSUME DiscoveryAssumption, DiscoveryInv, OrderInv, Incomplete \/ ListingBreaks \/ CutOff \/ WithdrawProof
  PROVE  OrderInv'
<1>1. Running /\ run' = NoRun /\ UNCHANGED <<hints, listing, source>>
  BY DEF Incomplete, ListingBreaks, CutOff, WithdrawProof, Running, Readable, Ends, siteVars, catalogVars
<1> QED
  BY <1>1, EndOrder

LEMMA FlagsFailOrder ==
  ASSUME DiscoveryAssumption, DiscoveryInv, OrderInv, FlagsFail PROVE OrderInv'
<1>1. /\ run \in RunType /\ run.pc = "flags" /\ Running /\ UNCHANGED <<hints, listing, source>>
      /\ MovesTo("undo") \/ run' = NoRun
  BY DEF FlagsFail, DiscoveryInv, Shape, Running, MovesTo, Ends, siteVars, catalogVars
<1>2. CASE MovesTo("undo")
  <2>1. PassFacts' /\ Running' /\ run'.rows = run.rows
    BY <1>1, <1>2, SettlingGoesOn DEF OrderInv, Places
  <2> QED
    BY <1>1, <2>1, GoOnOrder
<1>3. CASE run' = NoRun
  BY <1>1, <1>3, EndOrder
<1> QED
  BY <1>1, <1>2, <1>3

LEMMA NextOrder ==
  ASSUME DiscoveryAssumption, NoneLeftOut, DiscoveryInv, OrderInv, [Next]_vars PROVE OrderInv'
<1>1. ASSUME Pass PROVE OrderInv'
  <2>1. ASSUME NEW k \in Keys, NEW mode \in Modes, Refuse(k, mode) PROVE OrderInv'
    BY <2>1, AsideOrder DEF Refuse, siteVars, catalogVars
  <2>2. ASSUME NEW k \in Keys, NEW mode \in Modes, Start(k, mode) PROVE OrderInv'
    BY <2>2, StartOrder
  <2>3. ASSUME NEW d \in Decisions, Record(d) PROVE OrderInv'
    BY <2>3, RecordOrder
  <2>4. CASE Exhaust \/ Settle
    BY <2>4, ExhaustOrder, SettleOrder
  <2>5. CASE MarkUnavailable \/ AssignPositions \/ RecordProof
    BY <2>5, MarkUnavailableOrder, AssignPositionsOrder, RecordProofOrder
  <2>6. CASE Incomplete \/ ApplyFlags \/ WithdrawProof
    BY <2>6, EndingOrder, ApplyFlagsOrder
  <2> QED
    BY <1>1, <2>1, <2>2, <2>3, <2>4, <2>5, <2>6 DEF Pass
<1>2. ASSUME Faults PROVE OrderInv'
  BY <1>2, EndingOrder, FlagsFailOrder DEF Faults
<1>3. ASSUME World PROVE OrderInv'
  <2>1. CASE Publish
    BY <2>1, PublishOrder
  <2>2. ASSUME NEW c \in Chapters, Withdraw(c) PROVE OrderInv'
    BY <2>2, AsideOrder DEF Withdraw, catalogVars
  <2>3. ASSUME NEW k \in Keys, NEW s \in Scopes, EditScope(k, s) PROVE OrderInv'
    BY <2>3, AsideOrder DEF EditScope, siteVars, catalogVars
  <2> QED
    BY <1>3, <2>1, <2>2, <2>3 DEF World
<1>4. CASE UNCHANGED vars
  BY <1>4, AsideOrder DEF vars, siteVars, catalogVars
<1> QED
  BY <1>1, <1>2, <1>3, <1>4 DEF Next

LEMMA OrderIsFollowed ==
  ASSUME DiscoveryAssumption, DiscoveryInv, OrderInv PROVE ListingIsFollowed
<1>1. ~hints => Ordered(listing, source)
  BY ListedAsRead DEF OrderInv
<1>2. ~hints => PositionsFollowListing
  BY <1>1 DEF Ordered, PositionsFollowListing
<1>3. LostOnlyIfWithdrawn
  BY DEF DiscoveryInv, SiteFacts
<1> QED
  BY <1>2, <1>3 DEF ListingIsFollowed

\* A Source is called unavailable only when the site has taken its chapter down,
\* and the numbers inferred from the order of the listing agree with it, across
\* full and early stopped runs, failures and withdrawals, for every Watchlist
\* that leaves no chapter out between its boundaries (discovery/service.py:403, 524).
THEOREM DiscoveryListingIsFollowed ==
  ASSUME DiscoveryAssumption, NoneLeftOut PROVE Spec => []ListingIsFollowed
<1>1. Init => OrderInv
  BY InitOrder
<1>2. DiscoveryInv /\ OrderInv /\ [Next]_vars => OrderInv'
  BY NextOrder
<1>3. DiscoveryInv /\ OrderInv => ListingIsFollowed
  BY OrderIsFollowed
<1> QED
  BY <1>1, <1>2, <1>3, DiscoveryInvariant, PTL DEF Spec

-------------------------------------------------------------------------------
\* The reconciliation of the flags (ScopeSync).

LEMMA InitSync ==
  ASSUME DiscoveryAssumption, SyncInit PROVE ScopeSyncInv
<1>1. DiscoveryInv
  BY InitDiscovery DEF SyncInit
<1>2. BoundFacts /\ ShownFacts
  BY DEF SyncInit, Init, BoundFacts, ShownFacts, NoMarker
<1> QED
  BY <1>1, <1>2 DEF ScopeSyncInv

\* No run makes a marker synchronised.
LEMMA NextKeepsBound ==
  ASSUME DiscoveryInv, BoundFacts, Next PROVE BoundFacts'
<1>1. marker \in MarkerType
  BY DEF DiscoveryInv, CatalogShape
<1>2. marker' = marker \/ marker' = Stale(marker)
  BY DEF Next, Pass, Faults, World, Refuse, Start, Record, Store, Exhaust, Incomplete, Settle, MarkUnavailable,
     AssignPositions, RecordProof, ApplyFlags, WithdrawProof, ListingBreaks, CutOff, FlagsFail, Publish, Withdraw,
     EditScope, catalogVars
<1> QED
  BY <1>1, <1>2 DEF BoundFacts, Stale, MarkerType

\* What is about to be committed is computed from the Watchlist as it is now.
LEMMA ReadyNow ==
  ASSUME DiscoveryAssumption, DiscoveryInv
  PROVE  (Ready => ReadyFor(scope)) /\ Wanted = WantedFor(scope)
<1>1. scope \in [Keys -> Scopes]
  BY DEF DiscoveryInv, Shape
<1>2. Ready => ReadyFor(scope)
  BY DEF Ready, ReadyFor, Assigned, Proven, NeedsProof, BindingChanged, Targets
<1>3. \A c \in Known : source[c].key \in Keys
  BY KnownByKey DEF DiscoveryInv, Known
<1>4. \A c \in Known : LET k == source[c].key IN
        k \in Targets /\ (NeedsProof(k) => c \in proof[k].inScope)
        <=> /\ scope[k] # Absent
            /\ (scope[k] # Unbounded \/ marker.history[k] \notin {Absent, scope[k]} \/ Unbound(k) => c \in proof[k].inScope)
  BY <1>3 DEF Targets, NeedsProof, BindingChanged
<1> QED
  BY <1>2, <1>4 DEF Wanted, WantedFor

LEMMA PreviewKeeps ==
  ASSUME DiscoveryAssumption, ScopeSyncInv, Preview PROVE ScopeSyncInv'
<1>1. DiscoveryInv'
  BY NextDiscovery DEF ScopeSyncInv, Preview
<1>2. BoundFacts'
  BY DEF ScopeSyncInv, Preview, BoundFacts, vars, catalogVars
<1>3. ShownFacts'
  BY DEF Preview, ShownFacts
<1> QED
  BY <1>1, <1>2, <1>3 DEF ScopeSyncInv

LEMMA CheckKeeps ==
  ASSUME DiscoveryAssumption, ScopeSyncInv, Check PROVE ScopeSyncInv'
<1>1. UNCHANGED vars
  BY DEF Check
<1>2. DiscoveryInv'
  BY <1>1, NextDiscovery DEF ScopeSyncInv
<1>3. BoundFacts'
  BY <1>1 DEF ScopeSyncInv, BoundFacts, vars, catalogVars
<1>4. ShownFacts'
  <2> SUFFICES ASSUME applying' PROVE /\ shown'.ready /\ shown'.token = Token' /\ shown'.config \in [Keys -> Scopes]
                                      /\ ReadyFor(shown.config)' /\ shown'.wanted = WantedFor(shown.config)'
                                      /\ run'.pc = "idle"
    BY DEF ShownFacts
  <2>1. Ready /\ shown = PreviewNow /\ shown' = shown /\ run.pc = "idle"
    BY DEF Check
  <2>2. shown.ready /\ shown.config = scope /\ shown.wanted = Wanted /\ shown.token = Token
    BY <2>1 DEF PreviewNow
  <2>3. ReadyFor(shown.config) /\ shown.wanted = WantedFor(shown.config) /\ shown.config \in [Keys -> Scopes]
    BY <2>1, <2>2, ReadyNow DEF ScopeSyncInv, DiscoveryInv, Shape
  <2>4. UNCHANGED <<source, proof, marker, run>>
    BY <1>1 DEF vars, catalogVars
  <2> QED
    BY <2>1, <2>2, <2>3, <2>4 DEF Token, ReadyFor, WantedFor, Unbound, Known, Owned, Rank
<1> QED
  BY <1>2, <1>3, <1>4 DEF ScopeSyncInv

\* What a commit does, when nothing has changed since the preview.
Commits ==
  /\ source' = [c \in Chapters |-> IF c \in Known THEN [source[c] EXCEPT !.enabled = c \in shown.wanted] ELSE source[c]]
  /\ marker' = [status |-> "synced", config |-> shown.config, history |-> Bound(marker.history, shown.config)]

LEMMA CommittedSources ==
  ASSUME DiscoveryAssumption, DiscoveryInv, Commits
  PROVE  /\ OnlyFlags /\ source' \in [Chapters -> SourceType]
         /\ \A d \in Chapters : source[d].key = "none" => source'[d] = source[d]
         /\ \A d \in Known : source'[d].enabled = (d \in shown.wanted)
<1>1. ASSUME NEW d \in Chapters
      PROVE  /\ source'[d] \in SourceType /\ source'[d].key = source[d].key /\ source'[d].position = source[d].position
             /\ source'[d].available = source[d].available
             /\ source[d].key = "none" => source'[d] = source[d]
             /\ d \in Known => source'[d].enabled = (d \in shown.wanted)
  <2>1. source[d] \in SourceType
    BY DEF DiscoveryInv, CatalogShape
  <2>2. CASE d \in Known
    <3>1. source'[d] = [source[d] EXCEPT !.enabled = d \in shown.wanted]
      BY <2>2 DEF Commits
    <3>2. source[d].key # "none"
      BY <2>2, KnownByKey DEF DiscoveryInv, DiscoveryAssumption
    <3>3. (d \in shown.wanted) \in BOOLEAN
      OBVIOUS
    <3> QED
      BY <2>1, <3>1, <3>2, <3>3 DEF SourceType
  <2>3. CASE d \notin Known
    BY <2>1, <2>3 DEF Commits
  <2> QED
    BY <2>2, <2>3
<1>2. Known \subseteq Chapters
  BY DEF Known
<1>3. source' \in [Chapters -> SourceType]
  BY <1>1 DEF Commits
<1> QED
  BY <1>1, <1>2, <1>3 DEF OnlyFlags

LEMMA CommittedMarker ==
  ASSUME DiscoveryInv, Commits, shown.config \in [Keys -> Scopes]
  PROVE  /\ marker' \in MarkerType /\ marker'.status = "synced" /\ marker'.config = shown.config
         /\ \A k \in Keys : marker'.history[k] = IF shown.config[k] = Absent THEN marker.history[k] ELSE shown.config[k]
<1>1. marker \in MarkerType
  BY DEF DiscoveryInv, CatalogShape
<1>2. Bound(marker.history, shown.config) \in [Keys -> Scopes \cup {Absent}]
  BY <1>1 DEF Bound, MarkerType
<1>3. marker' = [status |-> "synced", config |-> shown.config, history |-> Bound(marker.history, shown.config)]
  BY DEF Commits
<1>4. shown.config \in [Keys -> Scopes \cup {Absent}]
  OBVIOUS
<1>5. marker' \in MarkerType
  BY <1>2, <1>3, <1>4 DEF MarkerType
<1> QED
  BY <1>3, <1>5 DEF Bound

LEMMA CommitKeeps ==
  ASSUME DiscoveryAssumption, ScopeSyncInv, Commit PROVE ScopeSyncInv'
<1> USE DEF ScopeSyncInv
<1>1. /\ applying' = FALSE /\ shown.config \in [Keys -> Scopes] /\ run.pc = "idle"
      /\ UNCHANGED <<published, listing, hints, scope, proof, run, ended, lastFull>>
  BY DEF Commit, ShownFacts, siteVars
<1>2. ShownFacts'
  BY <1>1 DEF ShownFacts
<1>3. CASE UNCHANGED <<source, marker>>
  <2>1. DiscoveryInv'
    <3>1. UNCHANGED <<published, listing, hints, scope, proof, run, ended, lastFull, source, marker>>
      BY <1>1, <1>3
    <3> QED
      BY <3>1 DEF DiscoveryInv, CatalogShape, Shape, ReadingFacts, FullFacts, SiteFacts, ProofFacts, Running, RunningFull,
         HasInventory, Owned, Known, Rank, Selected, InRange, LostOnlyIfWithdrawn, ProofIsOfLatestFull,
         ProofMatchesCatalog, FlagFailureLeavesNoProof
  <2> QED
    BY <1>2, <1>3, <2>1 DEF BoundFacts
<1>4. CASE Commits
  <2>1. BoundFacts'
    BY <1>1, <1>4, CommittedMarker DEF BoundFacts
  <2>2. /\ OnlyFlags /\ source' \in [Chapters -> SourceType]
        /\ \A d \in Chapters : source[d].key = "none" => source'[d] = source[d]
    BY <1>4, CommittedSources
  <2>3. CatalogShape'
    <3>1. marker' \in MarkerType
      BY <1>1, <1>4, CommittedMarker
    <3>2. proof' \in [Keys -> ProofOf]
      BY <1>1 DEF DiscoveryInv, CatalogShape
    <3> QED
      BY <2>2, <3>1, <3>2, FlagsOnlyCatalog DEF DiscoveryInv
  <2>4. Shape'
    BY <1>1 DEF DiscoveryInv, Shape
  <2>5. ReadingFacts' /\ FullFacts'
    BY <1>1 DEF ReadingFacts, FullFacts, Running, RunningFull
  <2>6. Known' = Known /\ \A k \in Keys : Owned(k)' = Owned(k)
    BY <2>2, <2>3, OwnersKept DEF DiscoveryInv, KeysKept, OnlyFlags
  <2>7. SiteFacts'
    <3>1. Known \subseteq Chapters
      BY DEF Known
    <3> QED
      BY <1>1, <2>2, <2>6, <3>1 DEF DiscoveryInv, SiteFacts, LostOnlyIfWithdrawn, Running, OnlyFlags
  <2>8. ProofFacts'
    <3>1. ProofIsOfLatestFull' /\ FlagFailureLeavesNoProof'
      BY <1>1 DEF DiscoveryInv, ProofFacts, ProofIsOfLatestFull, FlagFailureLeavesNoProof
    <3>2. ProofMatchesCatalog'
      <4>1. \A k \in Keys : Owned(k) \subseteq Chapters
        BY DEF Owned, Known
      <4>2. \A k \in Keys : proof[k] # NoProof =>
              /\ proof[k].inScope \subseteq Owned(k)
              /\ \A c \in Owned(k) \cap proof[k].rows : source[c].position = Rank(proof[k].rows, c)
        BY DEF DiscoveryInv, ProofFacts, ProofMatchesCatalog
      <4>3. \A k \in Keys : proof[k] # NoProof =>
              /\ proof[k].inScope \subseteq Owned(k)'
              /\ \A c \in Owned(k)' \cap proof[k].rows : source'[c].position = Rank(proof[k].rows, c)
        BY <2>2, <2>6, <4>1, <4>2 DEF OnlyFlags
      <4> QED
        BY <1>1, <4>3 DEF ProofMatchesCatalog, Rank
    <3>3. \A k \in Keys : lastFull'[k].inScope = Selected(lastFull'[k].rows, lastFull'[k].scope)
      BY <1>1 DEF DiscoveryInv, ProofFacts
    <3> QED
      BY <3>1, <3>2, <3>3 DEF ProofFacts, Selected, InRange
  <2> QED
    BY <1>2, <2>1, <2>3, <2>4, <2>5, <2>7, <2>8 DEF DiscoveryInv
<1>5. Commits \/ UNCHANGED <<source, marker>>
  BY DEF Commit, Commits
<1> QED
  BY <1>3, <1>4, <1>5

LEMMA CommitFailsKeeps ==
  ASSUME ScopeSyncInv, CommitFails PROVE ScopeSyncInv'
<1>1. UNCHANGED <<published, listing, hints, scope, proof, run, ended, lastFull, source, marker>> /\ applying' = FALSE
  BY DEF CommitFails, siteVars, catalogVars
<1> QED
  BY <1>1 DEF ScopeSyncInv, BoundFacts, ShownFacts, DiscoveryInv, CatalogShape, Shape, ReadingFacts, FullFacts, SiteFacts,
     ProofFacts, Running, RunningFull, HasInventory, Owned, Known, Rank, Selected, InRange, LostOnlyIfWithdrawn,
     ProofIsOfLatestFull, ProofMatchesCatalog, FlagFailureLeavesNoProof

LEMMA WorldKeepsShown ==
  ASSUME ShownFacts, World, UNCHANGED syncVars PROVE ShownFacts'
<1>1. UNCHANGED <<source, proof, marker, run, shown, applying>>
  BY DEF World, Publish, Withdraw, EditScope, catalogVars, syncVars
<1> QED
  BY <1>1 DEF ShownFacts, Token, ReadyFor, WantedFor, Unbound, Known, Owned, Rank

LEMMA NextSync ==
  ASSUME DiscoveryAssumption, ScopeSyncInv, [SyncNext]_allVars PROVE ScopeSyncInv'
<1>1. CASE ~applying /\ (Pass \/ Faults) /\ UNCHANGED syncVars
  <2>1. Next /\ applying' = FALSE
    BY <1>1 DEF Next, syncVars, ScopeSyncInv, ShownFacts
  <2> QED
    BY <2>1, NextDiscovery, NextKeepsBound DEF ScopeSyncInv, ShownFacts
<1>2. CASE World /\ UNCHANGED syncVars
  BY <1>2, NextDiscovery, NextKeepsBound, WorldKeepsShown DEF ScopeSyncInv, Next
<1>3. CASE Sync
  BY <1>3, PreviewKeeps, CheckKeeps, CommitKeeps, CommitFailsKeeps DEF Sync
<1>4. CASE UNCHANGED allVars
  <2>1. UNCHANGED vars /\ UNCHANGED <<shown, applying>>
    BY <1>4 DEF allVars, syncVars
  <2>2. DiscoveryInv'
    BY <2>1, NextDiscovery DEF ScopeSyncInv
  <2>3. UNCHANGED <<source, proof, marker, run>>
    BY <2>1 DEF vars, catalogVars
  <2> QED
    BY <2>1, <2>2, <2>3 DEF ScopeSyncInv, BoundFacts, ShownFacts, Token, ReadyFor, WantedFor, Unbound, Known, Owned, Rank
<1> QED
  BY <1>1, <1>2, <1>3, <1>4 DEF SyncNext

LEMMA SyncInvariant == ASSUME DiscoveryAssumption PROVE SyncSpec => []ScopeSyncInv
<1>1. SyncInit => ScopeSyncInv
  BY InitSync
<1>2. ScopeSyncInv /\ [SyncNext]_allVars => ScopeSyncInv'
  BY NextSync
<1> QED
  BY <1>1, <1>2, PTL DEF SyncSpec

-------------------------------------------------------------------------------
\* The strict gate.

\* A work that is synchronised needs a proof for its scoped keys alone: every
\* binding is the one of the Watchlist.
LEMMA SynchronizedNeeds ==
  ASSUME ScopeSyncInv, Synchronized, NEW k \in Targets
  PROVE  NeedsProof(k) <=> scope[k] # Unbounded
<1>1. k \in Keys /\ marker.config[k] = scope[k] /\ scope[k] # Absent
  BY DEF Targets, Synchronized
<1>2. marker.history[k] = scope[k]
  BY <1>1 DEF ScopeSyncInv, BoundFacts, Synchronized
<1> QED
  BY <1>1, <1>2 DEF NeedsProof, BindingChanged, Unbound

LEMMA SynchronizedIsCurrent ==
  ASSUME DiscoveryAssumption, ScopeSyncInv PROVE GateIsCurrent
<1> SUFFICES ASSUME Synchronized, NEW k \in Keys
             PROVE  LET acquired == {c \in Owned(k) : source[c].enabled} IN
                    /\ scope[k] = Absent => acquired = {}
                    /\ scope[k] = Unbounded /\ lastFull[k].scope = Unbounded => acquired = Owned(k)
                    /\ scope[k] \notin {Absent, Unbounded} =>
                         /\ lastFull[k].scope = scope[k]
                         /\ acquired = lastFull[k].inScope
                         /\ \A c \in acquired : source[c].position = Rank(lastFull[k].rows, c)
  BY DEF GateIsCurrent
<1>1. \A c \in Owned(k) : c \in Known /\ source[c].key = k /\ (source[c].enabled <=> c \in Wanted)
  BY DEF Owned, Synchronized
<1>2. \A c \in Owned(k) : source[c].enabled <=> k \in Targets /\ (NeedsProof(k) => c \in proof[k].inScope)
  BY <1>1 DEF Wanted
<1>3. CASE scope[k] = Absent
  <2>1. Absent.through # Unbounded.through
    BY DEF Absent, Unbounded, DiscoveryAssumption
  <2>2. Absent # Unbounded
    BY <2>1
  <2>3. k \notin Targets
    BY <1>3 DEF Targets
  <2> QED
    BY <1>2, <1>3, <2>2, <2>3
<1>4. CASE scope[k] = Unbounded
  <2>1. k \in Targets /\ scope[k] # Absent
    BY <1>4 DEF Targets, Absent, Unbounded, DiscoveryAssumption
  <2>2. ~NeedsProof(k)
    BY <1>4, <2>1, SynchronizedNeeds
  <2> QED
    BY <1>2, <1>4, <2>1, <2>2
<1>5. CASE scope[k] \notin {Absent, Unbounded}
  <2>1. k \in Targets /\ NeedsProof(k)
    BY <1>5, SynchronizedNeeds DEF Targets
  <2>2. Proven(k)
    BY <2>1 DEF Synchronized, Ready
  <2>3. proof[k] = lastFull[k]
    BY <2>2 DEF Proven, ScopeSyncInv, DiscoveryInv, ProofFacts, ProofIsOfLatestFull
  <2>4. {c \in Owned(k) : source[c].enabled} = proof[k].inScope
    BY <1>2, <2>1, <2>2 DEF Proven
  <2> QED
    BY <1>5, <2>2, <2>3, <2>4 DEF Proven
<1> QED
  BY <1>3, <1>4, <1>5

\* A work that the strict gate lets pass acquires what the user wants of the
\* site as it was last read (watchlist/reconcile.py).
THEOREM ScopeSyncGateIsCurrent == ASSUME DiscoveryAssumption PROVE SyncSpec => []GateIsCurrent
<1>1. ScopeSyncInv => GateIsCurrent
  BY SynchronizedIsCurrent
<1> QED
  BY <1>1, SyncInvariant, PTL

\* With the bindings recorded, fewer keys need a proof: a key without scope that
\* needed one before the commit had all its Sources in scope of it.
LEMMA CommitSynchronizes ==
  ASSUME DiscoveryAssumption, ScopeSyncInv, Commit, Commits, scope = shown.config, Targets # {}
  PROVE  Synchronized'
<1> USE DEF ScopeSyncInv
<1>1. /\ applying /\ shown.config \in [Keys -> Scopes] /\ ReadyFor(scope) /\ shown.wanted = WantedFor(scope)
      /\ scope' = scope /\ proof' = proof /\ lastFull' = lastFull
  BY DEF Commit, ShownFacts
<1>2. /\ marker'.status = "synced" /\ marker'.config = scope
      /\ \A k \in Keys : marker'.history[k] = IF scope[k] = Absent THEN marker.history[k] ELSE scope[k]
  BY <1>1, CommittedMarker
<1>3. /\ OnlyFlags /\ \A d \in Known : source'[d].enabled = (d \in WantedFor(scope))
  BY <1>1, CommittedSources
<1>4. CatalogShape' /\ Known \subseteq Chapters
  <2>1. ScopeSyncInv'
    BY CommitKeeps
  <2> QED
    BY <2>1 DEF DiscoveryInv, Known
<1>5. Known' = Known /\ \A k \in Keys : Owned(k)' = Owned(k)
  BY <1>3, <1>4, OwnersKept DEF DiscoveryInv, KeysKept, OnlyFlags
<1>6. \A c \in Known : source'[c].key = source[c].key /\ source'[c].position = source[c].position /\ source[c].key \in Keys
  BY <1>3, <1>4, KnownByKey DEF OnlyFlags, DiscoveryInv
<1>7. Targets' = Targets
  BY <1>1 DEF Targets
<1>8. ASSUME NEW k \in Targets PROVE (NeedsProof(k))' <=> scope[k] # Unbounded
  <2>1. k \in Keys /\ scope[k] # Absent /\ marker'.history[k] = scope[k]
    BY <1>2 DEF Targets
  <2> QED
    BY <1>1, <2>1 DEF NeedsProof, BindingChanged, Unbound
<1>9. ASSUME NEW k \in Targets,
             scope[k] # Unbounded \/ marker.history[k] \notin {Absent, scope[k]} \/ Unbound(k)
      PROVE  /\ proof[k] # NoProof /\ proof[k].scope = scope[k]
             /\ Owned(k) \subseteq proof[k].rows /\ proof[k].inScope \subseteq Owned(k)
             /\ \A c \in Owned(k) : source[c].position = Rank(proof[k].rows, c)
  BY <1>1, <1>9 DEF ReadyFor, Targets
<1>10. Assigned'
  BY <1>1, <1>2, <1>5, <1>6, <1>7 DEF Assigned, ReadyFor, Targets
<1>11. ASSUME NEW k \in Targets, (NeedsProof(k))' PROVE Proven(k)'
  <2>1. k \in Keys /\ scope[k] # Unbounded
    BY <1>8, <1>11 DEF Targets
  <2>2. Owned(k)' = Owned(k) /\ Owned(k) \subseteq Known
    BY <1>5, <2>1 DEF Owned
  <2> QED
    BY <1>1, <1>6, <1>9, <2>1, <2>2 DEF Proven, Rank
<1>12. Ready'
  BY <1>7, <1>10, <1>11 DEF Ready
<1>13. ASSUME NEW c \in Known PROVE c \in WantedFor(scope) <=> c \in Wanted'
  <2> DEFINE k == source[c].key
  <2>1. k \in Keys /\ source'[c].key = k /\ c \in Owned(k)
    BY <1>6 DEF Owned
  <2>2. CASE scope[k] = Absent
    BY <1>1, <1>5, <1>7, <2>1, <2>2 DEF WantedFor, Wanted, Targets
  <2>3. CASE scope[k] # Absent
    <3>1. k \in Targets
      BY <2>1, <2>3 DEF Targets
    <3>2. c \in Wanted' <=> (scope[k] # Unbounded => c \in proof[k].inScope)
      BY <1>1, <1>5, <1>7, <1>8, <2>1, <3>1 DEF Wanted
    <3>3. c \in WantedFor(scope)
            <=> (scope[k] # Unbounded \/ marker.history[k] \notin {Absent, scope[k]} \/ Unbound(k) => c \in proof[k].inScope)
      BY <2>3 DEF WantedFor
    <3>4. CASE scope[k] # Unbounded
      BY <3>2, <3>3, <3>4
    <3>5. CASE scope[k] = Unbounded
      <4>1. ASSUME marker.history[k] \notin {Absent, scope[k]} \/ Unbound(k) PROVE c \in proof[k].inScope
        <5>1. /\ proof[k] # NoProof /\ proof[k].scope = Unbounded /\ c \in proof[k].rows
          BY <1>9, <2>1, <3>1, <3>5, <4>1
        <5>2. proof[k] = lastFull[k]
          BY <2>1, <5>1 DEF DiscoveryInv, ProofFacts, ProofIsOfLatestFull
        <5>3. proof[k].inScope = Selected(proof[k].rows, Unbounded)
          BY <2>1, <5>1, <5>2 DEF DiscoveryInv, ProofFacts
        <5> QED
          BY <5>1, <5>3 DEF Selected, InRange, Unbounded
      <4> QED
        BY <3>2, <3>3, <3>5, <4>1
    <3> QED
      BY <3>4, <3>5
  <2> QED
    BY <2>2, <2>3
<1>14. \A c \in Known' : source'[c].enabled <=> c \in Wanted'
  BY <1>3, <1>5, <1>13
<1> QED
  BY <1>1, <1>2, <1>7, <1>12, <1>14 DEF Synchronized

\* What an apply commits passes the gate at once, unless the Watchlist was
\* edited after the preview (watchlist/reconcile.py:332).
THEOREM ScopeSyncAppliedPassesGate == ASSUME DiscoveryAssumption PROVE SyncSpec => AppliedPassesGate
<1>1. ASSUME ScopeSyncInv, SyncNext, applying, marker' # marker, scope = shown.config, Targets # {}
      PROVE  Synchronized'
  <2>1. Commit
    <3>1. ~Preview /\ ~Check /\ ~CommitFails
      BY <1>1 DEF Preview, Check, CommitFails, vars, catalogVars
    <3>2. ~World
      BY <1>1 DEF World, Publish, Withdraw, EditScope, catalogVars
    <3> QED
      BY <1>1, <3>1, <3>2 DEF SyncNext, Sync
  <2>2. Commits
    BY <1>1, <2>1 DEF Commit, Commits
  <2> QED
    BY <1>1, <2>1, <2>2, CommitSynchronizes
<1>2. ScopeSyncInv /\ [SyncNext]_allVars
        => [applying /\ marker' # marker /\ scope = shown.config /\ Targets # {} => Synchronized']_allVars
  BY <1>1
<1> QED
  BY <1>2, SyncInvariant, PTL DEF SyncSpec, AppliedPassesGate
====
