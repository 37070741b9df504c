---------------------------- MODULE SourceIdentity ----------------------------
(***************************************************************************)
(* maintenance/source_identity.py: the site publishes an episode under a   *)
(* new id; an operator looks at a dry-run and then applies its plan, naming *)
(* it by its token.  Meanwhile Discoveries, which know nothing of the       *)
(* change, add the new id as a Source of its own, batches archive it, and   *)
(* an operator edits Items.  Discoveries, batches and applications hold the *)
(* job lock; the dry-run and the edits do not.                              *)
(***************************************************************************)
EXTENDS Naturals, FiniteSets

CONSTANTS
  Exts,        \* external ids of one site and one Work
  Keys,        \* discovery keys of that Work
  Operators,   \* operators with a plan
  Listings,    \* what the site lists under each key, from time to time
  MaxRows,     \* bound on Sources ever made
  MaxEdits     \* bound on edits by hand

ASSUME IdentityAssumption ==
  /\ Listings \subseteq [Keys -> SUBSET Exts]
  /\ MaxRows \in Nat /\ MaxEdits \in Nat

VARIABLES
  rows,      \* Sources by id, each with its Item: id, key and history
  next,      \* the next id
  listing,   \* what the site lists now
  evidence,  \* the ids a complete Discovery of the key has seen, or Nothing
  scope,     \* acquisition_scope_sync.status of the Work
  job,       \* who holds the job lock, and of what
  plans,     \* what each operator's dry-run showed
  edits

vars == <<rows, next, listing, evidence, scope, job, plans, edits>>

\* What makes an Item and its Source more than newly found.
Shown == {"title", "status", "note", "quota", "target"}  \* in their rows
Kept == {"run", "artifact", "sibling"}                   \* in other tables
Running == "running"
History == Shown \cup Kept \cup {Running}

Nothing == [known |-> FALSE, exts |-> {}]
Free == [by |-> "nobody", of |-> {}]
NoPlan == [made |-> FALSE, old |-> 0, donor |-> 0, ext |-> CHOOSE e \in Exts : TRUE,
           token |-> {}]

Init ==
  /\ rows = <<>> /\ next = 1
  /\ listing \in Listings
  /\ evidence = [k \in Keys |-> Nothing]
  /\ scope = "stale"
  /\ job = Free
  /\ plans = [o \in Operators |-> NoPlan]
  /\ edits = 0

Sources == DOMAIN rows
Known == {rows[s].ext : s \in Sources}
SourceOf(e) == IF e \in Known THEN CHOOSE s \in Sources : rows[s].ext = e ELSE 0

-------------------------------------------------------------------------------
(* The plan.                                                               *)

\* _donor_pristine: an Item of a Discovery that nothing has happened to.
WrongPristine(s) == rows[s].history \subseteq Kept
Pristine(s) == rows[s].history = {}

\* The token is of the rows, and of what can be seen in them only.
RowOf(s) == <<rows[s].ext, rows[s].key, rows[s].history \cap Shown>>
Token(old, donor) == {<<s, RowOf(s)>> : s \in {old, donor} \ {0}}

Planned(old, donor) ==
  /\ old # 0
  /\ Running \notin rows[old].history
  /\ donor # 0 => rows[donor].key = rows[old].key /\ Pristine(donor)

DryRun(o, old, ext) ==
  /\ ~plans[o].made
  /\ old \in Sources /\ ext # rows[old].ext
  /\ Planned(old, SourceOf(ext))
  /\ plans' = [plans EXCEPT ![o] = [made |-> TRUE, old |-> old, donor |-> SourceOf(ext),
                                    ext |-> ext, token |-> Token(old, SourceOf(ext))]]
  /\ UNCHANGED <<rows, next, listing, evidence, scope, job, edits>>

-------------------------------------------------------------------------------
(* The application: in one transaction the plan is made again, compared,   *)
(* and carried out.  Another plan than the operator's is refused.          *)
WrongSame(o) == TRUE
Same(o) ==
  LET p == plans[o] IN
  /\ p.old \in Sources /\ SourceOf(p.ext) = p.donor
  /\ Token(p.old, p.donor) = p.token
  /\ Planned(p.old, p.donor)

Forgets(k, old) == TRUE
Removed(donor) == {donor}

Apply(o) ==
  LET p == plans[o] IN
  /\ p.made /\ job = Free
  /\ p.old \in Sources /\ Same(o)
  /\ rows' = [s \in Sources \ Removed(p.donor) |->
                IF s = p.old THEN [rows[s] EXCEPT !.ext = p.ext] ELSE rows[s]]
  /\ evidence' = [k \in Keys |-> IF Forgets(k, p.old) THEN Nothing ELSE evidence[k]]
  /\ scope' = "stale"
  /\ plans' = [plans EXCEPT ![o] = NoPlan]
  /\ UNCHANGED <<next, listing, job, edits>>

Refuse(o) ==
  /\ plans[o].made /\ (job # Free \/ ~(plans[o].old \in Sources /\ Same(o)))
  /\ plans' = [plans EXCEPT ![o] = NoPlan]
  /\ UNCHANGED <<rows, next, listing, evidence, scope, job, edits>>

-------------------------------------------------------------------------------
(* The others.                                                             *)

\* The site lists other ids.
Publish(l) ==
  /\ l # listing
  /\ listing' = l
  /\ UNCHANGED <<rows, next, evidence, scope, job, plans, edits>>

\* A complete Discovery of a key forgets the evidence, adds the ids that are
\* new, one by one, and keeps what it saw.
DiscoverBegin(k) ==
  /\ job = Free
  /\ job' = [by |-> k, of |-> listing[k]]
  /\ evidence' = [evidence EXCEPT ![k] = Nothing]
  /\ UNCHANGED <<rows, next, listing, scope, plans, edits>>

DiscoverAdd(k, e) ==
  /\ job.by = k /\ e \in job.of \ Known
  /\ next <= MaxRows
  /\ rows' = [s \in Sources \cup {next} |->
                IF s = next THEN [ext |-> e, key |-> k, history |-> {}] ELSE rows[s]]
  /\ next' = next + 1
  /\ UNCHANGED <<listing, evidence, scope, job, plans, edits>>

DiscoverEnd(k) ==
  /\ job.by = k /\ job.of \subseteq Known
  /\ evidence' = [evidence EXCEPT ![k] = [known |-> TRUE, exts |-> job.of]]
  /\ job' = Free
  /\ UNCHANGED <<rows, next, listing, scope, plans, edits>>

\* It fails, or its process is killed.
DiscoverFails(k) ==
  /\ job.by = k
  /\ job' = Free
  /\ UNCHANGED <<rows, next, listing, evidence, scope, plans, edits>>

\* acquisition scope sync, once every key has its evidence.
ScopeSync ==
  /\ job = Free /\ \A k \in Keys : evidence[k].known
  /\ scope' = "synced"
  /\ UNCHANGED <<rows, next, listing, evidence, job, plans, edits>>

\* A batch archives a Source, fails, or is killed and leaves its run open.
BatchBegin(s) ==
  /\ job = Free /\ "status" \notin rows[s].history
  /\ job' = [by |-> "batch", of |-> {s}]
  /\ rows' = [rows EXCEPT ![s].history = @ \cup {"run", Running}]
  /\ UNCHANGED <<next, listing, evidence, scope, plans, edits>>

BatchEnd(h) ==
  /\ job.by = "batch"
  /\ rows' = [s \in Sources |-> IF s \in job.of
                               THEN [rows[s] EXCEPT !.history = (@ \ {Running}) \cup h]
                               ELSE rows[s]]
  /\ job' = Free
  /\ UNCHANGED <<next, listing, evidence, scope, plans, edits>>

BatchKilled ==
  /\ job.by = "batch"
  /\ job' = Free
  /\ UNCHANGED <<rows, next, listing, evidence, scope, plans, edits>>

\* An operator sets or clears a note, a status, a title or a target, restores a
\* slot, or gives the Item another Source.  None of it asks for the lock.
Edit(s, h) ==
  /\ edits < MaxEdits /\ edits' = edits + 1
  /\ rows' = [rows EXCEPT ![s].history = h]
  /\ UNCHANGED <<next, listing, evidence, scope, job, plans>>

Edits(s) == {rows[s].history \cup {h} : h \in {"note", "sibling", "status"}}
              \cup {rows[s].history \ {h} : h \in {"note", "status"}}

Next ==
  \/ \E o \in Operators : Apply(o) \/ Refuse(o)
  \/ \E o \in Operators, s \in Sources, e \in Exts : DryRun(o, s, e)
  \/ \E l \in Listings : Publish(l)
  \/ \E k \in Keys : DiscoverBegin(k) \/ DiscoverEnd(k) \/ DiscoverFails(k)
  \/ \E k \in Keys, e \in Exts : DiscoverAdd(k, e)
  \/ ScopeSync
  \/ \E s \in Sources : BatchBegin(s)
  \/ \E h \in {{"artifact", "status"}, {}} : BatchEnd(h)
  \/ BatchKilled
  \/ \E s \in Sources : \E h \in Edits(s) : Edit(s, h)

Spec == Init /\ [][Next]_vars

-------------------------------------------------------------------------------
(* Properties.                                                             *)

Row == [ext : Exts, key : Keys, history : SUBSET History]
\* Every external id has one Source at most (sources has UNIQUE(site,
\* external_id)), and its ids are those handed out.
TypeOK ==
  /\ next \in 1..MaxRows + 1 /\ Sources \subseteq 1..next - 1
  /\ \A s \in Sources : rows[s] \in Row
  /\ \A s, t \in Sources : rows[s].ext = rows[t].ext => s = t
  /\ listing \in Listings
  /\ \A k \in Keys : evidence[k] \in [known : BOOLEAN, exts : SUBSET Exts]
  /\ scope \in {"stale", "synced"}
  /\ edits \in 0..MaxEdits

\* A listing's evidence names no id that the Catalog no longer has, whichever
\* key listed it: acquisition scopes are decided from it.
EvidenceIsKnown == \A k \in Keys : evidence[k].exts \subseteq Known

\* docs/HANAYUME_SOURCE_IDENTITY.md: the only rows that ever go are of Items
\* nothing has happened to, whatever happened since the dry-run.
HistoryKept == [][\A s \in Sources \ DOMAIN rows' : rows[s].history = {}]_vars

\* An application changes the id only of a row that is as its operator saw it
\* in the dry-run, and only while no run of it is open.
AppliedAsSeen ==
  [][\A o \in Operators, s \in Sources :
       plans[o].made /\ ~plans'[o].made /\ s \in DOMAIN rows' /\ rows'[s].ext # rows[s].ext =>
         Running \notin rows[s].history /\ <<s, RowOf(s)>> \in plans[o].token]_vars
=============================================================================
