------------------------------ MODULE Discovery ------------------------------
(* Discovery of one work on one site (discovery/service.py): a run reads the *)
(* site's listing newest first, stores every chapter as a Source, and, when  *)
(* it came to a good end, settles availability, display positions, the proof *)
(* of a complete listing and the acquisition flags, one transaction each.    *)
(* The site and the Watchlist change while a run goes on; a run may be cut   *)
(* off at any point.                                                         *)
EXTENDS Naturals, FiniteSets, FiniteSetsExt

CONSTANTS
  Keys,              \* Watchlist targets of the work on this site
  Count,             \* chapters the site may publish; a later one is greater
  KnownStreakLimit,
  Infers,            \* allow_inferred_display_positions
  Decisions,         \* incremental_stop_decision of the adapter
  Scopes,            \* the discovery scopes a user writes
  MaxRuns, MaxFaults, MaxEdits

DiscoveryAssumption ==
  /\ "none" \notin Keys
  /\ Count \in Nat \ {0} /\ KnownStreakLimit \in Nat \ {0}
  /\ Infers \in BOOLEAN
  /\ Decisions \subseteq {"default", "continue", "stop"}
  /\ \A s \in Scopes : s.from \in Nat /\ s.through \in Nat /\ s.out \subseteq 1 .. Count
  /\ MaxRuns \in Nat /\ MaxFaults \in Nat /\ MaxEdits \in Nat

Chapters == 1 .. Count
Modes == {"full", "incremental"}

VARIABLES
  published, listing,  \* the site: chapters so far, those it shows
  hints,               \* its adapter gives global_display_position
  scope,               \* Watchlist: the scope of each target
  source,              \* sources of the work
  proof,               \* discovery_inventory_evidence of each key
  marker,              \* acquisition_scope_sync: what was last synced
  run,                 \* the run in progress
  ended,               \* how the last run ended
  lastFull,            \* auxiliary: what the latest full run of a key read
  runs, faults, edits  \* bounds

siteVars == <<published, listing, hints>>
catalogVars == <<source, proof, marker>>
bounds == <<runs, faults, edits>>
vars == <<siteVars, scope, catalogVars, run, ended, lastFull, bounds>>

(* A scope names its newest and oldest chapter (0: no boundary) and the      *)
(* chapters left out.                                                        *)
Unbounded == [from |-> 0, through |-> 0, out |-> {}]
Absent == [from |-> 0, through |-> Count + 1, out |-> {}]  \* the Watchlist has no such target
InRange(rows, s) == {c \in rows : (s.from = 0 \/ c <= s.from) /\ (s.through = 0 \/ c >= s.through)}
BoundariesListed(rows, s) ==
  /\ {s.from, s.through} \ {0} \subseteq rows
  /\ s.from = 0 \/ s.through = 0 \/ s.from >= s.through
Selected(rows, s) == InRange(rows, s) \ s.out

Rank(rows, c) == Cardinality({d \in rows : d <= c})

NoSource == [key |-> "none", position |-> 0, enabled |-> FALSE, available |-> FALSE]
NewSource(k) == [key |-> k, position |-> 0, enabled |-> TRUE, available |-> TRUE]
Known == {c \in Chapters : source[c] # NoSource}
Owned(k) == {c \in Known : source[c].key = k}

NoProof == [scope |-> Unbounded, rows |-> {}, inScope |-> {}]
NoMarker == [status |-> "none", config |-> [k \in Keys |-> Absent], history |-> [k \in Keys |-> Absent]]
Stale(m) == IF m.status = "none" THEN m ELSE [m EXCEPT !.status = "stale"]

NoRun == [pc |-> "idle", key |-> "none", mode |-> "full", scope |-> Unbounded, rows |-> {},
          todo |-> {}, seen |-> {}, streak |-> 0, stopped |-> "none"]
NotEnded == [key |-> "none", mode |-> "full", outcome |-> "none"]

Init ==
  /\ published = 1 /\ listing = {1} /\ hints \in BOOLEAN
  /\ scope \in [Keys -> Scopes]
  /\ source = [c \in Chapters |-> NoSource]
  /\ proof = [k \in Keys |-> NoProof] /\ marker = NoMarker
  /\ run = NoRun /\ ended = NotEnded
  /\ lastFull = [k \in Keys |-> NoProof]
  /\ runs = 0 /\ faults = 0 /\ edits = 0

-----------------------------------------------------------------------------
(* The site and the Watchlist file, which no lock holds still.               *)

Publish ==
  /\ published < Count
  /\ published' = published + 1 /\ listing' = listing \cup {published + 1}
  /\ UNCHANGED <<hints, scope, catalogVars, run, ended, lastFull, bounds>>

Withdraw(c) ==
  /\ c \in listing /\ edits < MaxEdits
  /\ listing' = listing \ {c} /\ edits' = edits + 1
  /\ UNCHANGED <<published, hints, scope, catalogVars, run, ended, lastFull, runs, faults>>

EditScope(k, s) ==
  /\ s # scope[k] /\ edits < MaxEdits
  /\ scope' = [scope EXCEPT ![k] = s] /\ edits' = edits + 1
  /\ UNCHANGED <<siteVars, catalogVars, run, ended, lastFull, runs, faults>>

-----------------------------------------------------------------------------
(* A run. It holds the Catalog job lock from Start to its end.               *)

Ends(outcome) ==
  /\ ended' = [key |-> run.key, mode |-> run.mode, outcome |-> outcome]
  /\ run' = NoRun

(* Exclusions are proved against the complete listing before any write.      *)
PreflightRefuses(s) ==
  s.out # {} /\ ~(BoundariesListed(listing, s) /\ s.out \subseteq InRange(listing, s))

Refuse(k, mode) ==
  /\ run.pc = "idle" /\ runs < MaxRuns /\ scope[k] # Absent /\ PreflightRefuses(scope[k])
  /\ runs' = runs + 1
  /\ ended' = [key |-> k, mode |-> mode, outcome |-> "incomplete"]
  /\ UNCHANGED <<siteVars, scope, catalogVars, run, lastFull, faults, edits>>

Invalidated(k) == [proof EXCEPT ![k] = NoProof]

(* Mutant: a full run keeps the proof of the one before it.                  *)
WrongStart(k, mode) ==
  /\ run.pc = "idle" /\ runs < MaxRuns /\ scope[k] # Absent /\ ~PreflightRefuses(scope[k])
  /\ runs' = runs + 1
  /\ run' = [NoRun EXCEPT !.pc = "reading", !.key = k, !.mode = mode, !.scope = scope[k],
                          !.rows = listing, !.todo = Selected(listing, scope[k])]
  /\ lastFull' = IF mode = "full"
                 THEN [lastFull EXCEPT ![k] = [scope |-> scope[k], rows |-> listing,
                                               inScope |-> Selected(listing, scope[k])]]
                 ELSE lastFull
  /\ UNCHANGED <<siteVars, scope, catalogVars, ended, faults, edits>>

Start(k, mode) ==
  /\ run.pc = "idle" /\ runs < MaxRuns /\ scope[k] # Absent /\ ~PreflightRefuses(scope[k])
  /\ runs' = runs + 1
  /\ proof' = IF mode = "full" THEN Invalidated(k) ELSE proof
  /\ run' = [NoRun EXCEPT !.pc = "reading", !.key = k, !.mode = mode, !.scope = scope[k],
                          !.rows = listing, !.todo = Selected(listing, scope[k])]
  /\ lastFull' = IF mode = "full"
                 THEN [lastFull EXCEPT ![k] = [scope |-> scope[k], rows |-> listing,
                                               inScope |-> Selected(listing, scope[k])]]
                 ELSE lastFull
  /\ UNCHANGED <<siteVars, scope, source, marker, ended, faults, edits>>

Current == Max(run.todo)
Readable == run.pc = "reading" /\ run.todo # {} /\ BoundariesListed(run.rows, run.scope)
Foreign(c) == c \in Known /\ source[c].key # run.key

(* create_discovered_item_source_target, or refresh_discovered_source        *)
Store(c) ==
  IF c \in Known
  THEN /\ source' = [source EXCEPT ![c].available = TRUE]
       /\ UNCHANGED <<proof, marker>>
  ELSE /\ source' = [source EXCEPT ![c] = NewSource(run.key)]
       /\ proof' = Invalidated(run.key) /\ marker' = Stale(marker)

Streak(c) == IF c \in Known THEN run.streak + 1 ELSE 0
StopsAt(c, decision) ==
  IF run.mode = "full" \/ decision = "continue" THEN "none"
  ELSE IF decision = "stop" THEN "stable_boundary"
  ELSE IF Streak(c) >= KnownStreakLimit THEN "known_streak" ELSE "none"

Record(decision) ==
  /\ Readable /\ ~Foreign(Current)
  /\ Store(Current)
  /\ run' = [run EXCEPT !.todo = @ \ {Current}, !.seen = @ \cup {Current},
                        !.streak = Streak(Current),
                        !.stopped = StopsAt(Current, decision),
                        !.pc = IF StopsAt(Current, decision) = "none" THEN "reading" ELSE "read"]
  /\ UNCHANGED <<siteVars, scope, ended, lastFull, bounds>>

(* The adapter has no further record.                                        *)
Exhaust ==
  /\ run.pc = "reading" /\ run.todo = {} /\ BoundariesListed(run.rows, run.scope)
  /\ run' = [run EXCEPT !.pc = "read", !.stopped = "exhausted"]
  /\ UNCHANGED <<siteVars, scope, catalogVars, ended, lastFull, bounds>>

(* DiscoveryIncompleteError: a result, not an exception; nothing is settled. *)
Unpositioned == run.scope # Unbounded /\ ~hints /\ run.seen # {}
Incomplete ==
  /\ \/ run.pc = "reading" /\ ~BoundariesListed(run.rows, run.scope)
     \/ Readable /\ Foreign(Current)
     \/ run.pc = "read" /\ Unpositioned
  /\ Ends("incomplete")
  /\ UNCHANGED <<siteVars, scope, catalogVars, lastFull, bounds>>

Settle ==
  /\ run.pc = "read" /\ ~Unpositioned
  /\ run' = [run EXCEPT !.pc = IF run.mode = "full" /\ run.scope = Unbounded
                               THEN "availability" ELSE "positions"]
  /\ UNCHANGED <<siteVars, scope, catalogVars, ended, lastFull, bounds>>

-----------------------------------------------------------------------------
(* A good end.                                                               *)

Missing == {c \in Owned(run.key) : source[c].available /\ c \notin run.seen}
MarkUnavailable ==
  /\ run.pc = "availability"
  /\ source' = [c \in Chapters |-> IF c \in Missing THEN [source[c] EXCEPT !.available = FALSE] ELSE source[c]]
  /\ proof' = IF Missing = {} THEN proof ELSE Invalidated(run.key)
  /\ marker' = IF Missing = {} THEN marker ELSE Stale(marker)
  /\ run' = [run EXCEPT !.pc = "positions"]
  /\ UNCHANGED <<siteVars, scope, ended, lastFull, bounds>>

(* Mutant: the listing, newest first, is not turned round.                   *)
WrongFullPositions == [c \in run.seen |-> Cardinality({d \in run.seen : d >= c})]

FullPositions ==
  IF hints THEN [c \in run.seen |-> Rank(run.rows, c)]
  ELSE IF Infers THEN [c \in run.seen |-> Rank(run.seen, c)] ELSE [c \in {} |-> 0]

(* A run that stopped early numbers on from the newest position it met.      *)
Positioned == {c \in run.seen : source[c].position # 0}
AppendedPositions ==
  LET fresh == run.seen \ Positioned IN
  IF hints THEN [c \in run.seen |-> Rank(run.rows, c)]
  ELSE IF ~Infers \/ Positioned = {} THEN [c \in {} |-> 0]
  ELSE [c \in fresh |-> Max({source[d].position : d \in Positioned}) + Rank(fresh, c)]

Positions == IF run.mode = "full" \/ run.stopped = "exhausted" THEN FullPositions ELSE AppendedPositions

(* CompleteListingInventory: only an adapter that knows positions gives one. *)
HasInventory == run.mode = "full" /\ (hints \/ Infers) /\ run.rows # {}

AssignPositions ==
  LET given == Positions IN
  /\ run.pc = "positions"
  /\ source' = [c \in Chapters |-> IF c \in DOMAIN given THEN [source[c] EXCEPT !.position = given[c]] ELSE source[c]]
  /\ proof' = IF \E c \in DOMAIN given : source[c].position # given[c] THEN Invalidated(run.key) ELSE proof
  /\ run' = [run EXCEPT !.pc = IF HasInventory THEN "proof" ELSE "flags"]
  /\ UNCHANGED <<siteVars, scope, marker, ended, lastFull, bounds>>

(* record_discovery_inventory_evidence also renews the positions it proves.  *)
RecordProof ==
  /\ run.pc = "proof"
  /\ proof' = [proof EXCEPT ![run.key] =
       [scope |-> run.scope, rows |-> run.rows, inScope |-> Selected(run.rows, run.scope)]]
  /\ source' = [c \in Chapters |-> IF c \in Owned(run.key) \cap run.rows
                                   THEN [source[c] EXCEPT !.position = Rank(run.rows, c)] ELSE source[c]]
  /\ run' = [run EXCEPT !.pc = "flags"]
  /\ UNCHANGED <<siteVars, scope, marker, ended, lastFull, bounds>>

(* Mutant: a Source the run did not meet keeps its flag.                     *)
WrongEnabled(c) ==
  IF run.mode = "full" /\ run.scope = Unbounded THEN TRUE
  ELSE IF c \in run.scope.out THEN FALSE
  ELSE IF c \in run.seen THEN TRUE ELSE source[c].enabled

Enabled(c) ==
  IF run.mode = "full" /\ run.scope = Unbounded THEN TRUE
  ELSE IF c \in run.scope.out THEN FALSE
  ELSE IF HasInventory /\ c \in run.rows THEN c \in Selected(run.rows, run.scope)
  ELSE IF c \in run.seen THEN TRUE ELSE source[c].enabled

ApplyFlags ==
  LET changed == {c \in Owned(run.key) : source[c].enabled # Enabled(c)} IN
  /\ run.pc = "flags"
  /\ source' = [c \in Chapters |-> IF c \in changed THEN [source[c] EXCEPT !.enabled = Enabled(c)] ELSE source[c]]
  /\ marker' = IF changed = {} THEN marker ELSE Stale(marker)
  /\ Ends("complete")
  /\ UNCHANGED <<siteVars, scope, proof, lastFull, bounds>>

-----------------------------------------------------------------------------
(* What can go wrong: the listing breaks off, a call raises, a flag          *)
(* transaction fails and its proof is withdrawn, the process is killed.      *)

Fault == faults < MaxFaults /\ faults' = faults + 1

ListingBreaks ==
  /\ run.pc = "reading" /\ Fault /\ Ends("incomplete")
  /\ UNCHANGED <<siteVars, scope, catalogVars, lastFull, runs, edits>>

CutOff ==
  /\ run.pc # "idle" /\ Fault /\ Ends("cut off")
  /\ UNCHANGED <<siteVars, scope, catalogVars, lastFull, runs, edits>>

FlagsFail ==
  /\ run.pc = "flags" /\ Fault
  /\ IF HasInventory THEN run' = [run EXCEPT !.pc = "undo"] /\ ended' = ended ELSE Ends("raised")
  /\ UNCHANGED <<siteVars, scope, catalogVars, lastFull, runs, edits>>

WithdrawProof ==
  /\ run.pc = "undo"
  /\ proof' = Invalidated(run.key)
  /\ Ends("raised")
  /\ UNCHANGED <<siteVars, scope, source, marker, lastFull, bounds>>

-----------------------------------------------------------------------------

Pass ==
  \/ \E k \in Keys, mode \in Modes : Refuse(k, mode) \/ Start(k, mode)
  \/ \E d \in Decisions : Record(d)
  \/ Exhaust \/ Incomplete \/ Settle
  \/ MarkUnavailable \/ AssignPositions \/ RecordProof \/ ApplyFlags \/ WithdrawProof

Faults == ListingBreaks \/ CutOff \/ FlagsFail

World ==
  \/ Publish
  \/ \E c \in Chapters : Withdraw(c)
  \/ \E k \in Keys, s \in Scopes : EditScope(k, s)

Next == Pass \/ Faults \/ World

Spec == Init /\ [][Next]_vars

-----------------------------------------------------------------------------

ProofOf == [scope : Scopes \cup {Unbounded}, rows : SUBSET Chapters, inScope : SUBSET Chapters]

(* The state of the site, the Watchlist, the Catalog and the run.            *)
TypeOK ==
  /\ published \in Chapters /\ listing \subseteq 1 .. published /\ hints \in BOOLEAN
  /\ scope \in [Keys -> Scopes]
  /\ \A c \in Chapters : source[c] = NoSource \/
       /\ source[c].key \in Keys /\ source[c].position \in 0 .. 2 * Count
       /\ source[c].enabled \in BOOLEAN /\ source[c].available \in BOOLEAN
  /\ proof \in [Keys -> ProofOf] /\ lastFull \in [Keys -> ProofOf]
  /\ marker.status \in {"none", "synced", "stale"}
  /\ run.pc \in {"idle", "reading", "read", "availability", "positions", "proof", "flags", "undo"}
  /\ run.streak \in 0 .. Count
  /\ ended.outcome \in {"none", "incomplete", "cut off", "raised", "complete"}
  /\ runs \in 0 .. MaxRuns /\ faults \in 0 .. MaxFaults /\ edits \in 0 .. MaxEdits

(* A stored listing proof is the one of the latest full run that began to    *)
(* read: a run that fails never leaves an older proof behind it              *)
(* (discovery/service.py:165, 434).                                         *)
ProofIsOfLatestFull == \A k \in Keys : proof[k] \in {NoProof, lastFull[k]}

(* While a proof stands, every chapter it puts in scope is a Source of its   *)
(* key, and every listed Source of the key has the position it proves,       *)
(* whatever runs, complete or not, came after (catalog/service.py:935).      *)
ProofMatchesCatalog ==
  \A k \in Keys : proof[k] # NoProof =>
    /\ proof[k].inScope \subseteq Owned(k)
    /\ \A c \in Owned(k) \cap proof[k].rows : source[c].position = Rank(proof[k].rows, c)

(* A flag transaction that fails takes its full run's proof with it          *)
(* (discovery/service.py:469).                                               *)
FlagFailureLeavesNoProof ==
  run.pc = "idle" /\ ended.outcome = "raised" /\ ended.mode = "full" => proof[ended.key] = NoProof

(* What the Catalog holds for proven is so.                                  *)
ProofsHold == ProofIsOfLatestFull /\ ProofMatchesCatalog /\ FlagFailureLeavesNoProof

(* A Source is unavailable only when the site has taken its chapter down; no *)
(* partial, early stopped or broken listing makes one so.                    *)
LostOnlyIfWithdrawn == \A c \in Known : ~source[c].available => c \notin listing

(* Numbers inferred from the order of the listing agree with it: of two      *)
(* chapters the site still shows the older has the smaller number, across    *)
(* full and early stopped runs, failures and withdrawals.                    *)
PositionsFollowListing ==
  \A c, d \in Known \cap listing :
    c < d /\ source[c].key = source[d].key /\ source[c].position # 0 /\ source[d].position # 0
      => source[c].position < source[d].position

(* What the Catalog says of the chapters on the site follows its listing; an *)
(* adapter with hints numbers by the listing of each run alone.              *)
ListingIsFollowed == LostOnlyIfWithdrawn /\ (~hints => PositionsFollowListing)

(* A complete full run leaves the Sources of its key as it read the site:    *)
(* numbered by the whole listing, not by the scope, acquired exactly within  *)
(* the scope, and, for a target without scope, available only if listed.     *)
FullRunReflectsSite ==
  [][ended'.outcome = "complete" /\ run.pc # "idle" /\ run'.pc = "idle" /\ run.mode = "full" /\ (hints \/ Infers) =>
      LET k == run.key IN
      \A c \in Owned(k) :
        /\ c \in run.rows => source'[c].position = Rank(run.rows, c)
        /\ c \in run.rows => (source'[c].enabled <=> c \in Selected(run.rows, run.scope))
        /\ run.scope = Unbounded /\ source'[c].available => c \in run.rows]_vars

(* A run changes no Source of another key, whatever its listing shows.       *)
OthersUntouched ==
  [][run.pc # "idle" => \A c \in Known : source[c].key # run.key => source'[c] = source[c]]_vars

(* A run settles its own key by what it read, and nothing else.              *)
RunsReflectSite == FullRunReflectsSite /\ OthersUntouched

(* "Incremental adds new sources without missing any": after an incremental  *)
(* run that ended well every listed chapter newer than one an earlier run    *)
(* had numbered is in the Catalog (docs/DISCOVERY_AND_BATCH.md:2073).        *)
IncrementalFindsNew ==
  [][run.mode = "incremental" /\ run.pc = "flags" /\ ended'.outcome = "complete" /\ run'.pc = "idle" =>
      \A c \in run.rows : (\E d \in Known : d < c /\ source[d].position # 0) => c \in Known]_vars

=============================================================================
