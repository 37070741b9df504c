------------------------------ MODULE ScopeSync ------------------------------
(* The reconciliation of a work's acquisition flags with the Watchlist       *)
(* (watchlist/reconcile.py): a preview shows what the flags would become and *)
(* what stands in the way, an apply repeats the preview under the job lock   *)
(* and commits only what was shown. It relies on the listing proofs that     *)
(* Discovery leaves in the Catalog, and on the scopes the user edits.        *)
EXTENDS Discovery

VARIABLES
  shown,    \* the preview the operator has seen
  applying  \* an apply has repeated it and is about to commit

syncVars == <<shown, applying>>
allVars == <<vars, syncVars>>

Targets == {k \in Keys : scope[k] # Absent}

BindingChanged(k) == marker.history[k] \notin {Absent, scope[k]}
Unbound(k) == marker.status # "none" /\ marker.history[k] = Absent /\ Owned(k) # {}
NeedsProof(k) == scope[k] # Unbounded \/ BindingChanged(k) \/ Unbound(k)

(* Mutant: any Full proof will do, whatever scope it was made for.           *)
WrongProven(k) ==
  /\ proof[k] # NoProof
  /\ Owned(k) \subseteq proof[k].rows
  /\ proof[k].inScope \subseteq Owned(k)
  /\ \A c \in Owned(k) : source[c].position = Rank(proof[k].rows, c)

(* The Full listing proof that lets a key's Sources be classified.           *)
Proven(k) ==
  /\ proof[k] # NoProof
  /\ proof[k].scope = scope[k]
  /\ Owned(k) \subseteq proof[k].rows
  /\ proof[k].inScope \subseteq Owned(k)
  /\ \A c \in Owned(k) : source[c].position = Rank(proof[k].rows, c)

Assigned == \A c \in Known : source[c].key \in Targets \/ marker.history[source[c].key] # Absent
Ready == Assigned /\ \A k \in Targets : NeedsProof(k) => Proven(k)

Wanted ==
  {c \in Known : LET k == source[c].key IN
     k \in Targets /\ (NeedsProof(k) => c \in proof[k].inScope)}

(* What the revision token covers: identity, position and flag of a Source,  *)
(* the proofs and the marker; not its availability.                          *)
Token == <<[c \in Chapters |-> <<source[c].key, source[c].position, source[c].enabled>>], proof, marker>>

NoPreview == [ready |-> FALSE]
PreviewNow == [ready |-> TRUE, config |-> scope, wanted |-> Wanted, token |-> Token]

(* Nothing is locked while a preview is computed.                            *)
Preview ==
  /\ applying = FALSE
  /\ shown' = IF Ready THEN PreviewNow ELSE NoPreview
  /\ UNCHANGED <<vars, applying>>

(* apply, under the job lock: a preview no longer current is refused.        *)
Check ==
  /\ shown.ready /\ ~applying /\ run.pc = "idle"
  /\ IF Ready /\ shown = PreviewNow
     THEN applying' = TRUE /\ shown' = shown
     ELSE applying' = FALSE /\ shown' = NoPreview
  /\ UNCHANGED vars

(* Mutant: the bindings are recorded once and not renewed.                   *)
WrongBound(old, config) == old
Bound(old, config) == [k \in Keys |-> IF config[k] = Absent THEN old[k] ELSE config[k]]

(* apply_acquisition_scope_sync: the flags and the marker in one transaction *)
Commit ==
  /\ applying
  /\ IF Token = shown.token
     THEN /\ source' = [c \in Chapters |-> IF c \in Known
                         THEN [source[c] EXCEPT !.enabled = c \in shown.wanted] ELSE source[c]]
          /\ marker' = [status |-> "synced", config |-> shown.config,
                        history |-> Bound(marker.history, shown.config)]
     ELSE UNCHANGED <<source, marker>>
  /\ applying' = FALSE /\ shown' = NoPreview
  /\ UNCHANGED <<siteVars, scope, proof, run, ended, lastFull, bounds>>

CommitFails ==
  /\ applying /\ Fault
  /\ applying' = FALSE /\ shown' = NoPreview
  /\ UNCHANGED <<siteVars, scope, catalogVars, run, ended, lastFull, runs, edits>>

(* require_synchronized, the strict gate.                                    *)
Synchronized ==
  /\ Targets # {} /\ Ready
  /\ marker.status = "synced" /\ marker.config = scope
  /\ \A c \in Known : source[c].enabled <=> c \in Wanted

SyncInit == Init /\ shown = NoPreview /\ applying = FALSE

Sync == Preview \/ Check \/ Commit \/ CommitFails

(* The job lock keeps a Discovery run and an apply apart.                    *)
SyncNext ==
  \/ ~applying /\ (Pass \/ Faults) /\ UNCHANGED syncVars
  \/ World /\ UNCHANGED syncVars
  \/ Sync

SyncSpec == SyncInit /\ [][SyncNext]_allVars

-----------------------------------------------------------------------------

(* The previews and the apply in progress.                                   *)
SyncTypeOK ==
  /\ applying \in BOOLEAN /\ shown.ready \in BOOLEAN
  /\ applying => shown.ready
  /\ marker.config \in [Keys -> Scopes \cup {Absent}] /\ marker.history \in [Keys -> Scopes \cup {Absent}]

(* When the strict gate lets a work pass, the flags are what the user wants  *)
(* of the site as it was last read: a scoped key acquires exactly the        *)
(* chapters in scope of its latest full run, numbered by it, a key without   *)
(* scope all it owns, a removed key nothing.                                 *)
GateIsCurrent ==
  Synchronized => \A k \in Keys :
    LET acquired == {c \in Owned(k) : source[c].enabled} IN
    /\ scope[k] = Absent => acquired = {}
    /\ scope[k] = Unbounded /\ lastFull[k].scope = Unbounded => acquired = Owned(k)
    /\ scope[k] \notin {Absent, Unbounded} =>
         /\ lastFull[k].scope = scope[k]
         /\ acquired = lastFull[k].inScope
         /\ \A c \in acquired : source[c].position = Rank(lastFull[k].rows, c)

(* What an apply commits passes the strict gate at once, unless the user has *)
(* edited the Watchlist since: the flags, classified with the proofs that    *)
(* were needed before the commit, are those wanted after it, when the        *)
(* recorded bindings need fewer (watchlist/reconcile.py:332).                *)
AppliedPassesGate ==
  [][applying /\ marker' # marker /\ scope = shown.config /\ Targets # {} => Synchronized']_allVars

(* "A failed or partial Full run must never leave an older listing proof     *)
(* available to approve a changed scope" (discovery/service.py:165).         *)
FailedFullApprovesNothing ==
  run.pc = "idle" /\ ended.mode = "full" /\ ended.outcome = "incomplete" =>
    LET k == ended.key IN
    ~(k \in Targets /\ NeedsProof(k) /\ scope[k] # marker.config[k] /\ Ready)
=============================================================================
