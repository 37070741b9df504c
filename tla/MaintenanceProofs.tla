--------------------------- MODULE MaintenanceProofs ---------------------------
(***************************************************************************)
(* How the Catalog is changed by hand.                                     *)
(*                                                                         *)
(* A change of a Source's id keeps its history and is applied as its       *)
(* operator saw it, for every number of ids, keys, operators and Sources.  *)
(* A migration leaves the old Catalog or the new one, and a backup of the  *)
(* old one beside the new, for every number of migrators, of savers and of *)
(* schema versions between the two programs, and whatever fails or is      *)
(* killed.                                                                 *)
(* prepare_recrawl.py loses no archive, and moves and returns only what it *)
(* reported, for every number of Items, Sources, scripts and archives.     *)
(***************************************************************************)
EXTENDS SourceIdentity, ArchiveRecrawl, CatalogMigration, FiniteSetTheorems, WellFoundedInduction,
        TLAPS

-------------------------------------------------------------------------------
\* The change of an id (SourceIdentity).

\* A plan takes a Source's new id from another Source, if from any.
PlansFit == \A o \in Operators : plans[o].made => plans[o].donor # plans[o].old /\ plans[o].ext \in Exts

\* The inductive invariant.
IdentityInv ==
  /\ TypeOK /\ EvidenceIsKnown /\ PlansFit
  /\ DOMAIN rows \subseteq Nat \ {0}
  /\ DOMAIN plans = Operators /\ DOMAIN evidence = Keys

-------------------------------------------------------------------------------
\* An id belongs to the Source that SourceOf names, or to none.
LEMMA SourceOfFits ==
  ASSUME NEW e, 0 \notin Sources
  PROVE  /\ e \in Known => SourceOf(e) \in Sources /\ rows[SourceOf(e)].ext = e
         /\ e \notin Known => SourceOf(e) = 0
BY DEF SourceOf, Known

LEMMA NothingIsEvidence == Nothing \in [known : BOOLEAN, exts : SUBSET Exts] /\ Nothing.exts = {}
BY DEF Nothing

LEMMA InitIdentityInv == ASSUME Init PROVE IdentityInv
<1>1. DOMAIN rows = {} /\ next = 1 /\ edits = 0
  BY DEF Init
<1>2. 1 \in 1..MaxRows + 1 /\ 0 \in 0..MaxEdits
  BY IdentityAssumption
<1>3. \A k \in Keys : evidence[k] = Nothing
  BY DEF Init
<1>4. TypeOK
  BY <1>1, <1>2, <1>3, NothingIsEvidence DEF Init, TypeOK, Sources
<1>5. EvidenceIsKnown
  BY <1>3, NothingIsEvidence DEF EvidenceIsKnown
<1>6. PlansFit
  BY DEF Init, PlansFit, NoPlan
<1> QED
  BY <1>1, <1>4, <1>5, <1>6 DEF Init, IdentityInv

\* A history that changes, of the same Sources.
LEMMA HistoryKeeps ==
  ASSUME IdentityInv,
         DOMAIN rows' = Sources,
         \A s \in Sources : rows'[s] \in Row /\ rows'[s].ext = rows[s].ext,
         UNCHANGED <<next, listing, evidence, scope, plans>>, edits' \in 0..MaxEdits
  PROVE  IdentityInv'
<1>1. Known' = Known
  BY DEF Known, Sources
<1>2. TypeOK'
  BY DEF IdentityInv, TypeOK, Sources
<1> QED
  BY <1>1, <1>2 DEF IdentityInv, EvidenceIsKnown, PlansFit, Sources

\* The new id has no other Source once its donor is gone.
LEMMA ApplyKeeps == ASSUME IdentityInv, NEW o \in Operators, Apply(o) PROVE IdentityInv'
<1> DEFINE p == plans[o]
<1>0. \A e : e \in Known => SourceOf(e) \in Sources /\ rows[SourceOf(e)].ext = e
  BY SourceOfFits DEF IdentityInv, Sources
<1>1. /\ p.made /\ p.old \in Sources /\ SourceOf(p.ext) = p.donor /\ p.donor # p.old
      /\ rows' = [s \in Sources \ {p.donor} |-> IF s = p.old THEN [rows[s] EXCEPT !.ext = p.ext] ELSE rows[s]]
      /\ evidence' = [k \in Keys |-> Nothing] /\ scope' = "stale"
      /\ plans' = [plans EXCEPT ![o] = NoPlan]
      /\ UNCHANGED <<next, listing, job, edits>>
  BY DEF Apply, Same, Removed, Forgets, IdentityInv, PlansFit
<1>2. \A s \in Sources \ {p.donor} : rows[s].ext # p.ext
  <2> SUFFICES ASSUME NEW s \in Sources \ {p.donor}, rows[s].ext = p.ext PROVE FALSE
    OBVIOUS
  <2>1. p.ext \in Known
    BY DEF Known
  <2>2. p.donor \in Sources /\ rows[p.donor].ext = p.ext
    BY <1>0, <1>1, <2>1
  <2> QED
    BY <2>2 DEF IdentityInv, TypeOK
<1>3. DOMAIN rows' = Sources \ {p.donor}
  BY <1>1
<1>4. \A s \in DOMAIN rows' : rows'[s] = IF s = p.old THEN [rows[s] EXCEPT !.ext = p.ext] ELSE rows[s]
  BY <1>1, <1>3
<1>5. p.ext \in Exts
  BY <1>1 DEF IdentityInv, PlansFit
<1>6. TypeOK'
  <2>a. \A s \in Sources : rows[s] \in Row
    BY DEF IdentityInv, TypeOK
  <2>b. \A s, t \in Sources : rows[s].ext = rows[t].ext => s = t
    BY DEF IdentityInv, TypeOK
  <2>1. \A s \in DOMAIN rows' : rows'[s] \in Row
    <3> SUFFICES ASSUME NEW s \in Sources \ {p.donor} PROVE rows'[s] \in Row
      BY <1>3
    <3>1. rows[s] \in Row /\ rows'[s] = IF s = p.old THEN [rows[s] EXCEPT !.ext = p.ext] ELSE rows[s]
      BY <1>3, <1>4, <2>a
    <3> QED
      BY <3>1, <1>5 DEF Row
  <2>2. \A s \in DOMAIN rows' : rows'[s].ext = IF s = p.old THEN p.ext ELSE rows[s].ext
    BY <1>3, <1>4, <2>a DEF Row
  <2>3. \A s, t \in DOMAIN rows' : rows'[s].ext = rows'[t].ext => s = t
    BY <1>2, <1>3, <2>2, <2>b
  <2>4. \A k \in Keys : evidence'[k] \in [known : BOOLEAN, exts : SUBSET Exts]
    BY <1>1, NothingIsEvidence
  <2> QED
    BY <1>1, <1>3, <2>1, <2>3, <2>4 DEF IdentityInv, TypeOK, Sources
<1>7. EvidenceIsKnown'
  BY <1>1, NothingIsEvidence DEF EvidenceIsKnown
<1>8. PlansFit'
  BY <1>1 DEF IdentityInv, PlansFit, NoPlan
<1> QED
  BY <1>1, <1>3, <1>6, <1>7, <1>8 DEF IdentityInv, Sources

\* The dry-run, and a refused application.
LEMMA PlanKeeps ==
  ASSUME IdentityInv, NEW o \in Operators,
         Refuse(o) \/ \E s \in Sources, e \in Exts : DryRun(o, s, e)
  PROVE  IdentityInv'
<1>1. UNCHANGED <<rows, next, listing, evidence, scope, edits>>
  BY DEF Refuse, DryRun
<1>2. TypeOK' /\ EvidenceIsKnown'
  BY <1>1 DEF IdentityInv, TypeOK, EvidenceIsKnown, Known, Sources
<1>3. CASE Refuse(o)
  BY <1>1, <1>2, <1>3 DEF Refuse, NoPlan, IdentityInv, PlansFit
<1>4. ASSUME NEW s \in Sources, NEW e \in Exts, DryRun(o, s, e) PROVE IdentityInv'
  <2>1. plans' = [plans EXCEPT ![o] = [made |-> TRUE, old |-> s, donor |-> SourceOf(e),
                                       ext |-> e, token |-> Token(s, SourceOf(e))]]
    BY <1>4 DEF DryRun
  <2>2. SourceOf(e) # s
    <3>1. e \in Known => rows[SourceOf(e)].ext = e
      BY SourceOfFits DEF IdentityInv, Sources
    <3>2. e \notin Known => SourceOf(e) = 0
      BY DEF SourceOf
    <3>3. rows[s].ext # e /\ s # 0
      BY <1>4 DEF DryRun, IdentityInv, Sources
    <3> QED
      BY <3>1, <3>2, <3>3
  <2>3. PlansFit'
    BY <2>1, <2>2 DEF IdentityInv, PlansFit
  <2> QED
    BY <1>1, <1>2, <2>1, <2>3 DEF IdentityInv
<1> QED
  BY <1>3, <1>4

\* A Discovery adds an id that no Source has, and keeps as evidence only ids that
\* all have one.
LEMMA DiscoveryKeeps ==
  ASSUME IdentityInv, NEW k \in Keys,
         \/ DiscoverBegin(k) \/ DiscoverEnd(k) \/ DiscoverFails(k)
         \/ \E e \in Exts : DiscoverAdd(k, e)
  PROVE  IdentityInv'
<1>1. CASE DiscoverBegin(k) \/ DiscoverEnd(k) \/ DiscoverFails(k)
  <2>1. UNCHANGED <<rows, next, listing, scope, plans, edits>>
    BY <1>1 DEF DiscoverBegin, DiscoverEnd, DiscoverFails
  <2>2. Known' = Known /\ Known \subseteq Exts
    BY <2>1 DEF Known, Sources, IdentityInv, TypeOK, Row
  <2>3. /\ DOMAIN evidence' = Keys
        /\ \A i \in Keys : \/ evidence'[i] = evidence[i] \/ evidence'[i] = Nothing
                           \/ evidence'[i] = [known |-> TRUE, exts |-> job.of] /\ job.of \subseteq Known
    BY <1>1 DEF DiscoverBegin, DiscoverEnd, DiscoverFails, IdentityInv
  <2>4. \A i \in Keys : evidence'[i] \in [known : BOOLEAN, exts : SUBSET Exts] /\ evidence'[i].exts \subseteq Known
    <3>1. \A i \in Keys : evidence[i] \in [known : BOOLEAN, exts : SUBSET Exts] /\ evidence[i].exts \subseteq Known
      BY DEF IdentityInv, TypeOK, EvidenceIsKnown
    <3>2. job.of \subseteq Known =>
            [known |-> TRUE, exts |-> job.of] \in [known : BOOLEAN, exts : SUBSET Exts]
      BY <2>2
    <3> SUFFICES ASSUME NEW i \in Keys
                 PROVE  evidence'[i] \in [known : BOOLEAN, exts : SUBSET Exts] /\ evidence'[i].exts \subseteq Known
      OBVIOUS
    <3>3. CASE evidence'[i] = evidence[i]
      BY <3>1, <3>3
    <3>4. CASE evidence'[i] = Nothing
      BY <3>4, NothingIsEvidence
    <3>5. CASE evidence'[i] = [known |-> TRUE, exts |-> job.of] /\ job.of \subseteq Known
      BY <3>2, <3>5
    <3> QED
      BY <2>3, <3>3, <3>4, <3>5
  <2> QED
    BY <2>1, <2>2, <2>3, <2>4 DEF IdentityInv, TypeOK, EvidenceIsKnown, PlansFit, Sources
<1>2. ASSUME NEW e \in Exts, DiscoverAdd(k, e) PROVE IdentityInv'
  <2>1. /\ e \notin Known /\ next <= MaxRows /\ next' = next + 1
        /\ rows' = [s \in Sources \cup {next} |->
                      IF s = next THEN [ext |-> e, key |-> k, history |-> {}] ELSE rows[s]]
        /\ UNCHANGED <<listing, evidence, scope, plans, edits>>
    BY <1>2 DEF DiscoverAdd
  <2>2. next \in Nat \ {0} /\ next \notin Sources /\ next' \in 1..MaxRows + 1 /\ Sources \cup {next} \subseteq 1..next' - 1
    BY <2>1, IdentityAssumption DEF IdentityInv, TypeOK
  <2>3. DOMAIN rows' = Sources \cup {next} /\ rows'[next] = [ext |-> e, key |-> k, history |-> {}]
        /\ \A s \in Sources : rows'[s] = rows[s]
    BY <2>1, <2>2
  <2>4. \A s \in Sources : rows[s].ext # e
    BY <2>1 DEF Known
  <2>5. Known \subseteq Known'
    BY <2>3 DEF Known, Sources
  <2>a. \A s \in Sources : rows[s] \in Row
    BY DEF IdentityInv, TypeOK
  <2>b. \A s, t \in Sources : rows[s].ext = rows[t].ext => s = t
    BY DEF IdentityInv, TypeOK
  <2>c. rows'[next] \in Row /\ rows'[next].ext = e
    BY <2>3 DEF Row
  <2>6. \A s \in DOMAIN rows' : rows'[s] \in Row
    BY <2>3, <2>a, <2>c
  <2>7. \A s, t \in DOMAIN rows' : rows'[s].ext = rows'[t].ext => s = t
    BY <2>3, <2>4, <2>b, <2>c
  <2>8. TypeOK'
    BY <2>1, <2>2, <2>3, <2>6, <2>7 DEF IdentityInv, TypeOK, Sources
  <2> QED
    BY <2>1, <2>2, <2>3, <2>5, <2>8 DEF IdentityInv, EvidenceIsKnown, PlansFit
<1> QED
  BY <1>1, <1>2

\* The site, a sync of scopes, batches and edits leave ids and evidence alone.
LEMMA OthersKeep ==
  ASSUME IdentityInv,
         \/ \E l \in Listings : Publish(l)
         \/ ScopeSync \/ BatchKilled
         \/ \E s \in Sources : BatchBegin(s)
         \/ \E h \in {{"artifact", "status"}, {}} : BatchEnd(h)
         \/ \E s \in Sources : \E h \in Edits(s) : Edit(s, h)
  PROVE  IdentityInv'
<1>0. edits \in 0..MaxEdits /\ \A s \in Sources : rows[s] \in Row
  BY DEF IdentityInv, TypeOK
<1>1. CASE (\E l \in Listings : Publish(l)) \/ ScopeSync \/ BatchKilled
  <2>1. /\ UNCHANGED <<rows, next, evidence, plans, edits>>
        /\ listing' \in Listings /\ scope' \in {"stale", "synced"}
    BY <1>1 DEF Publish, ScopeSync, BatchKilled, IdentityInv, TypeOK
  <2>2. TypeOK' /\ EvidenceIsKnown' /\ PlansFit'
    BY <2>1 DEF IdentityInv, TypeOK, EvidenceIsKnown, PlansFit, Known, Sources
  <2> QED
    BY <2>1, <2>2 DEF IdentityInv
<1>2. ASSUME NEW s \in Sources, BatchBegin(s) PROVE IdentityInv'
  <2>1. rows' = [rows EXCEPT ![s].history = @ \cup {"run", Running}]
        /\ UNCHANGED <<next, listing, evidence, scope, plans, edits>>
    BY <1>2 DEF BatchBegin
  <2>2. rows[s].history \cup {"run", Running} \in SUBSET History
    BY <1>0 DEF Row, History, Kept
  <2>3. DOMAIN rows' = Sources /\ \A t \in Sources : rows'[t] \in Row /\ rows'[t].ext = rows[t].ext
    BY <1>0, <2>1, <2>2 DEF Row, Sources
  <2> QED
    BY <1>0, <2>1, <2>3, HistoryKeeps
<1>3. ASSUME NEW h \in {{"artifact", "status"}, {}}, BatchEnd(h) PROVE IdentityInv'
  <2>1. rows' = [s \in Sources |-> IF s \in job.of THEN [rows[s] EXCEPT !.history = (@ \ {Running}) \cup h] ELSE rows[s]]
        /\ UNCHANGED <<next, listing, evidence, scope, plans, edits>>
    BY <1>3 DEF BatchEnd
  <2>2. \A t \in Sources : (rows[t].history \ {Running}) \cup h \in SUBSET History
    BY <1>0 DEF Row, History, Kept, Shown
  <2>3. DOMAIN rows' = Sources /\ \A t \in Sources : rows'[t] \in Row /\ rows'[t].ext = rows[t].ext
    BY <1>0, <2>1, <2>2 DEF Row
  <2> QED
    BY <1>0, <2>1, <2>3, HistoryKeeps
<1>4. ASSUME NEW s \in Sources, NEW h \in Edits(s), Edit(s, h) PROVE IdentityInv'
  <2>1. rows' = [rows EXCEPT ![s].history = h]
        /\ UNCHANGED <<next, listing, evidence, scope, plans>>
    BY <1>4 DEF Edit
  <2>2. h \in SUBSET History
    BY <1>0 DEF Edits, Row, History, Shown, Kept
  <2>3. DOMAIN rows' = Sources /\ \A t \in Sources : rows'[t] \in Row /\ rows'[t].ext = rows[t].ext
    BY <1>0, <2>1, <2>2 DEF Row, Sources
  <2>4. edits' \in 0..MaxEdits
    BY <1>0, <1>4, IdentityAssumption DEF Edit
  <2> QED
    BY <2>1, <2>3, <2>4, HistoryKeeps
<1> QED
  BY <1>1, <1>2, <1>3, <1>4

LEMMA IdentityInvariant == Spec => []IdentityInv
<1>1. Init => IdentityInv
  BY InitIdentityInv
<1>2. IdentityInv /\ [Next]_vars => IdentityInv'
  <2> SUFFICES ASSUME IdentityInv, [Next]_vars PROVE IdentityInv'
    OBVIOUS
  <2>1. CASE UNCHANGED vars
    BY <2>1 DEF vars, IdentityInv, TypeOK, EvidenceIsKnown, PlansFit, Known, Sources
  <2> QED
    BY <2>1, ApplyKeeps, PlanKeeps, DiscoveryKeeps, OthersKeep DEF Next
<1> QED
  BY <1>1, <1>2, PTL DEF Spec

-------------------------------------------------------------------------------
\* Through every change of an id, each external id has one Source at most.
THEOREM IdentityTypeCorrect == Spec => []TypeOK
<1>1. IdentityInv => TypeOK
  BY DEF IdentityInv
<1> QED
  BY <1>1, IdentityInvariant, PTL

\* A listing's evidence names no id that the Catalog no longer has.
THEOREM IdentityEvidenceIsKnown == Spec => []EvidenceIsKnown
<1>1. IdentityInv => EvidenceIsKnown
  BY DEF IdentityInv
<1> QED
  BY <1>1, IdentityInvariant, PTL

\* The only rows that ever go are of Items nothing has happened to.
THEOREM IdentityHistoryKept == Spec => HistoryKept
<1>1. ASSUME IdentityInv, [Next]_vars, NEW s \in Sources, s \notin DOMAIN rows'
      PROVE  rows[s].history = {}
  <2>1. DOMAIN rows' # Sources
    BY <1>1
  <2>2. PICK o \in Operators : Apply(o)
    BY <1>1 DEF Next, vars, Refuse, DryRun, Publish, DiscoverBegin, DiscoverEnd, DiscoverFails, DiscoverAdd,
       ScopeSync, BatchBegin, BatchEnd, BatchKilled, Edit, Sources
  <2>3. s = plans[o].donor
    BY <1>1, <2>2 DEF Apply, Removed
  <2> QED
    BY <1>1, <2>2, <2>3 DEF Apply, Same, Planned, Pristine, IdentityInv, Sources
<1>2. IdentityInv /\ [Next]_vars => [\A s \in Sources \ DOMAIN rows' : rows[s].history = {}]_vars
  BY <1>1
<1> QED
  BY <1>2, IdentityInvariant, PTL DEF Spec, HistoryKept

\* Only an application changes an id: of its plan's Source, which is as its token says.
LEMMA IdChangedByApply ==
  ASSUME IdentityInv, Next, NEW s \in Sources, s \in DOMAIN rows', rows'[s].ext # rows[s].ext
  PROVE  \E a \in Operators : Apply(a) /\ s = plans[a].old
<1>0. \A t \in Sources : rows[t] \in Row
  BY DEF IdentityInv, TypeOK
<1>1. CASE \E a \in Operators : Apply(a)
  <2>1. PICK a \in Operators : Apply(a)
    BY <1>1
  <2>2. rows'[s] = IF s = plans[a].old THEN [rows[s] EXCEPT !.ext = plans[a].ext] ELSE rows[s]
    BY <2>1 DEF Apply
  <2> QED
    BY <2>1, <2>2
<1>2. CASE \E k \in Keys, e \in Exts : DiscoverAdd(k, e)
  <2>1. next \notin Sources
    BY IdentityAssumption DEF IdentityInv, TypeOK
  <2>2. rows'[s] = rows[s]
    BY <1>2, <2>1 DEF DiscoverAdd
  <2> QED
    BY <2>2
<1>3. CASE \/ \E t \in Sources : BatchBegin(t)
           \/ \E h \in {{"artifact", "status"}, {}} : BatchEnd(h)
           \/ \E t \in Sources : \E h \in Edits(t) : Edit(t, h)
  <2>1. rows'[s].ext = rows[s].ext
    BY <1>0, <1>3 DEF BatchBegin, BatchEnd, Edit, Row, Sources
  <2> QED
    BY <2>1
<1>4. CASE rows' = rows
  BY <1>4
<1> QED
  BY <1>1, <1>2, <1>3, <1>4 DEF Next, Refuse, DryRun, Publish, DiscoverBegin, DiscoverEnd, DiscoverFails,
     ScopeSync, BatchKilled

\* An application changes the id only of a row that is as its operator saw it, and
\* never while a run of it is open: what Discoveries, batches and edits did to the
\* row since the dry-run makes the plan another one.
THEOREM IdentityAppliedAsSeen == Spec => AppliedAsSeen
<1> DEFINE Seen(o, s) == Running \notin rows[s].history /\ <<s, RowOf(s)>> \in plans[o].token
<1>1. ASSUME IdentityInv, [Next]_vars, NEW o \in Operators, NEW s \in Sources,
             plans[o].made, ~plans'[o].made, s \in DOMAIN rows', rows'[s].ext # rows[s].ext
      PROVE  Seen(o, s)
  <2>1. Next
    BY <1>1 DEF vars
  <2>2. PICK a \in Operators : Apply(a) /\ s = plans[a].old
    BY <1>1, <2>1, IdChangedByApply
  <2>3. a = o
    BY <1>1, <2>2 DEF Apply, IdentityInv
  <2>4. Planned(s, plans[o].donor) /\ Token(s, plans[o].donor) = plans[o].token
    BY <2>2, <2>3 DEF Apply, Same
  <2> QED
    BY <2>4 DEF Planned, Token
<1>2. IdentityInv /\ [Next]_vars =>
        [\A o \in Operators, s \in Sources :
           plans[o].made /\ ~plans'[o].made /\ s \in DOMAIN rows' /\ rows'[s].ext # rows[s].ext =>
             Running \notin rows[s].history /\ <<s, RowOf(s)>> \in plans[o].token]_vars
  BY <1>1
<1> QED
  BY <1>2, IdentityInvariant, PTL DEF Spec, AppliedAsSeen

-------------------------------------------------------------------------------
\* The migration (CatalogMigration).

Saving == {"copying", "copied", "publishing"}
Inside == {"backup", "migrating", "checking"} \cup Saving

\* The tables of the variables.
Shape ==
  /\ DOMAIN pc = Processes /\ DOMAIN result = Processes /\ DOMAIN path = Processes /\ DOMAIN temp = Processes
  /\ DOMAIN from = Migrators /\ DOMAIN tx = Migrators /\ DOMAIN backups = Paths

\* The write lock is that of the migrator inside its transaction.
LockFacts ==
  /\ writer \in Migrators \cup {Nobody}
  /\ \A m \in Migrators : writer = m <=> pc[m] \in Inside

\* A saver writes where it was told, a migrator under a name of the old version.
PathFacts ==
  /\ \A s \in Savers : path[s] = <<0, Output[s]>>
  /\ \A m \in Migrators : pc[m] \notin {"start", "ended"} =>
       path[m] \in Automatic /\ path[m][1] = First /\ First < Target

\* A migrator that is not the first to come finds, inside its transaction, a new
\* Catalog, to which its first step does not apply.
TxFacts(m) ==
  /\ pc[m] = "planned" => from[m] = First
  /\ pc[m] \in {"backup"} \cup Saving => tx[m] = db /\ from[m] = First
  /\ pc[m] \in Saving => backups[path[m]] = Absent /\ temp[m] = Saved(db, m)
  /\ pc[m] = "migrating" =>
       /\ from[m] \in Steps
       /\ IF db = Whole(First) THEN tx[m] = Whole(from[m]) ELSE from[m] = First /\ tx[m] = Whole(Target)
  /\ pc[m] = "checking" => db = Whole(First) /\ tx[m] = Whole(Target)
  /\ pc[m] \in {"migrating", "checking"} /\ db = Whole(First) => Holds(backups[path[m]], First)

ResultFacts(m) ==
  /\ result[m] = "migrated" =>
       /\ pc[m] = "ended" /\ First < Target /\ db = Whole(Target)
       /\ path[m] \in Automatic /\ Holds(backups[path[m]], First)
  /\ result[m] = "current" => pc[m] = "ended" /\ db = Whole(Target)

OneMigrated == \A m, n \in Migrators : result[m] = "migrated" /\ result[n] = "migrated" => m = n

\* Every file is a copy of one committed state.
IsCopy(b) == \E v \in First..Target : Holds(b, v)
CopyFacts ==
  /\ \A n \in Paths : backups[n] = Absent \/ IsCopy(backups[n])
  /\ \A p \in Processes : pc[p] \in Saving => IsCopy(temp[p])

\* The inductive invariant.
MigrationInv ==
  /\ Shape /\ LockFacts /\ PathFacts /\ CopyFacts
  /\ OldOrNew /\ OldIsKept /\ OneMigrated
  /\ \A m \in Migrators : TxFacts(m) /\ ResultFacts(m)

-------------------------------------------------------------------------------
\* Savers and migrators write under different names.
LEMMA NamesApart ==
  ASSUME CatalogMigrationAssumption
  PROVE
  /\ Automatic \subseteq Paths /\ Manual \subseteq Paths
  /\ \A n \in Automatic : n[1] # 0
  /\ \A s \in Savers : <<0, Output[s]>> \in Manual /\ <<0, Output[s]>> \notin Automatic
BY DEF CatalogMigrationAssumption, Automatic, Manual, Paths

LEMMA WholeHolds ==
  ASSUME CatalogMigrationAssumption
  PROVE
  /\ \A v, p : Holds(Saved(Whole(v), p), v) /\ Saved(Whole(v), p).version = v
  /\ \A v \in First..Target : \A p : Saved(Whole(v), p) # Absent
  /\ First \in First..Target /\ Target \in First..Target
  /\ \A v, w : Whole(v) = Whole(w) => v = w
BY DEF CatalogMigrationAssumption, Holds, Saved, Whole, Absent

LEMMA Apart ==
  ASSUME CatalogMigrationAssumption
  PROVE  \A m \in Migrators : m \in Processes /\ m \notin Savers /\ m # Nobody
BY DEF CatalogMigrationAssumption, Processes

LEMMA InitMigrationInv == ASSUME CatalogMigrationAssumption, MigrationInit PROVE MigrationInv
<1>1. Shape
  BY DEF MigrationInit, Shape
<1>2. LockFacts
  BY Apart DEF MigrationInit, LockFacts, Inside, Saving
<1>3. PathFacts
  BY Apart DEF MigrationInit, PathFacts, Processes
<1>4. CopyFacts
  BY DEF MigrationInit, CopyFacts, Saving
<1>5. OldOrNew /\ OldIsKept /\ OneMigrated
  BY Apart DEF MigrationInit, OldOrNew, OldIsKept, OneMigrated
<1>6. ASSUME NEW m \in Migrators PROVE TxFacts(m) /\ ResultFacts(m)
  BY Apart DEF MigrationInit, TxFacts, ResultFacts, Saving
<1> QED
  BY <1>1, <1>2, <1>3, <1>4, <1>5, <1>6 DEF MigrationInv

\* An attempt that comes to nothing: the lock is given back, the copy unlinked, or
\* left by a kill.
LEMMA EndKeeps ==
  ASSUME CatalogMigrationAssumption, MigrationInv, NEW p \in Processes, NEW r \in {"error", "killed", "AttributeError"},
         Ends(p, r), Release(p), temp' = temp \/ temp' = [temp EXCEPT ![p] = Absent],
         UNCHANGED <<db, from, tx, path, backups>>
  PROVE  MigrationInv'
<1> USE DEF MigrationInv, Shape
<1>1. /\ pc' = [pc EXCEPT ![p] = "ended"] /\ result' = [result EXCEPT ![p] = r]
      /\ writer' = IF writer = p THEN Nobody ELSE writer
      /\ \A q \in Processes : q # p => temp'[q] = temp[q] /\ pc'[q] = pc[q] /\ result'[q] = result[q]
      /\ pc'[p] = "ended" /\ result'[p] = r
  BY DEF Ends, Release
<1>2. Shape'
  BY <1>1
<1>3. LockFacts'
  BY <1>1, Apart DEF LockFacts, Inside, Saving
<1>4. PathFacts'
  BY <1>1, Apart DEF PathFacts
<1>5. CopyFacts'
  BY <1>1 DEF CopyFacts, IsCopy, Saving
<1>6. OldOrNew' /\ OldIsKept' /\ OneMigrated'
  BY <1>1, Apart DEF OldOrNew, OldIsKept, OneMigrated
<1>7. ASSUME NEW m \in Migrators PROVE TxFacts(m)' /\ ResultFacts(m)'
  <2>1. CASE m = p
    BY <1>1, <2>1 DEF TxFacts, ResultFacts, Saving
  <2>2. CASE m # p
    BY <1>1, <2>2, Apart DEF TxFacts, ResultFacts, Saving
  <2> QED
    BY <2>1, <2>2
<1> QED
  BY <1>2, <1>3, <1>4, <1>5, <1>6, <1>7

\* A step of one process that leaves what is committed, the lock and the files.
LEMMA OwnStepKeeps ==
  ASSUME CatalogMigrationAssumption, MigrationInv, NEW p \in Processes, Shape',
         UNCHANGED <<db, writer, backups>>,
         \A q \in Processes : q # p =>
           pc'[q] = pc[q] /\ result'[q] = result[q] /\ path'[q] = path[q] /\ temp'[q] = temp[q],
         \A m \in Migrators : m # p => from'[m] = from[m] /\ tx'[m] = tx[m],
         p \in Savers => path'[p] = path[p],
         p \in Migrators =>
           /\ pc'[p] \in Inside <=> pc[p] \in Inside
           /\ pc'[p] \notin {"start", "ended"} => path'[p] \in Automatic /\ path'[p][1] = First /\ First < Target
           /\ TxFacts(p)' /\ ResultFacts(p)'
           /\ result'[p] # "migrated",
         pc'[p] \in Saving => IsCopy(temp'[p])
  PROVE  MigrationInv'
<1> USE DEF MigrationInv
<1>1. LockFacts'
  BY Apart DEF LockFacts
<1>2. PathFacts'
  BY Apart DEF PathFacts, Processes
<1>3. CopyFacts'
  BY DEF CopyFacts, IsCopy
<1>4. OldOrNew' /\ OldIsKept' /\ OneMigrated'
  BY Apart DEF OldOrNew, OldIsKept, OneMigrated
<1>5. ASSUME NEW m \in Migrators PROVE TxFacts(m)' /\ ResultFacts(m)'
  <2>1. CASE m # p
    BY <2>1, Apart DEF TxFacts, ResultFacts
  <2> QED
    BY <2>1
<1> QED
  BY <1>1, <1>2, <1>3, <1>4, <1>5

-------------------------------------------------------------------------------
(* A migrator's own steps.                                                   *)

LEMMA ReadVersionKeeps ==
  ASSUME CatalogMigrationAssumption, MigrationInv, NEW m \in Migrators, ReadVersion(m) PROVE MigrationInv'
<1> USE DEF MigrationInv, Shape
<1>0. /\ m \in Processes /\ m \notin Savers /\ pc[m] = "start"
      /\ UNCHANGED <<db, writer, tx, temp, backups>>
      /\ from' = [from EXCEPT ![m] = db.version]
  BY Apart DEF ReadVersion
<1>1. CASE db.version = Target
  <2>1. PICK r \in {"current", "error"} :
          /\ Ends(m, r) /\ UNCHANGED path /\ (r = "current" => db = Whole(Target))
    BY <1>1 DEF ReadVersion
  <2>2. TxFacts(m)' /\ ResultFacts(m)' /\ pc'[m] = "ended" /\ result'[m] # "migrated"
    BY <1>0, <2>1 DEF Ends, TxFacts, ResultFacts, Saving
  <2> QED
    BY <1>0, <2>1, <2>2, OwnStepKeeps DEF Ends, Inside, Saving
<1>2. CASE db.version # Target
  <2>1. PICK n \in Numbers : path' = [path EXCEPT ![m] = <<db.version, n>>]
    BY <1>2 DEF ReadVersion
  <2>2. db = Whole(First) /\ db.version = First /\ First < Target
    BY <1>2 DEF OldOrNew, Whole, CatalogMigrationAssumption
  <2>3. <<db.version, n>> \in Automatic /\ <<db.version, n>>[1] = First
    BY <2>2, WholeHolds DEF Automatic
  <2>4. pc' = [pc EXCEPT ![m] = "planned"] /\ UNCHANGED result
    BY <1>2 DEF ReadVersion
  <2>5. TxFacts(m)' /\ ResultFacts(m)' /\ result'[m] # "migrated"
    BY <1>0, <2>2, <2>4 DEF TxFacts, ResultFacts, Saving
  <2> QED
    BY <1>0, <2>1, <2>2, <2>3, <2>4, <2>5, OwnStepKeeps DEF Inside, Saving
<1> QED
  BY <1>1, <1>2

\* The lock is free, so no other migrator is inside.
LEMMA BeginKeeps ==
  ASSUME CatalogMigrationAssumption, MigrationInv, NEW m \in Migrators, BeginImmediate(m) PROVE MigrationInv'
<1> USE DEF MigrationInv, Shape
<1>1. /\ pc[m] = "planned" /\ pc' = [pc EXCEPT ![m] = "backup"] /\ writer = Nobody /\ writer' = m
      /\ tx' = [tx EXCEPT ![m] = db]
      /\ UNCHANGED <<db, from, path, temp, backups, result>>
  BY DEF BeginImmediate, Goes
<1>2. m \in Processes /\ m \notin Savers /\ \A k \in Migrators : pc[k] \notin Inside
  BY <1>1, Apart DEF LockFacts
<1>3. LockFacts'
  BY <1>1, <1>2, Apart DEF LockFacts, Inside
<1>4. PathFacts' /\ CopyFacts'
  BY <1>1, <1>2, Apart DEF PathFacts, CopyFacts, IsCopy, Saving
<1>5. OldOrNew' /\ OldIsKept' /\ OneMigrated'
  BY <1>1 DEF OldOrNew, OldIsKept, OneMigrated
<1>6. ASSUME NEW k \in Migrators PROVE TxFacts(k)' /\ ResultFacts(k)'
  <2>1. CASE k = m
    BY <1>1, <1>2, <2>1 DEF TxFacts, ResultFacts, Saving
  <2>2. CASE k # m
    BY <1>1, <1>2, <2>2, Apart DEF TxFacts, ResultFacts, Saving
  <2> QED
    BY <2>1, <2>2
<1> QED
  BY <1>1, <1>3, <1>4, <1>5, <1>6

LEMMA BusyKeeps ==
  ASSUME CatalogMigrationAssumption, MigrationInv, NEW m \in Migrators, Busy(m) PROVE MigrationInv'
<1>1. writer # m
  BY DEF Busy, MigrationInv, LockFacts, Inside, Saving
<1> QED
  BY <1>1, EndKeeps, Apart DEF Busy, Release

\* Every step takes the tables its version has; a new Catalog has others.
LEMMA MigrateKeeps ==
  ASSUME CatalogMigrationAssumption, MigrationInv, NEW m \in Migrators, Migrate(m) PROVE MigrationInv'
<1> USE DEF MigrationInv, Shape
<1>0. m \in Processes /\ m \notin Savers /\ pc[m] = "migrating" /\ from[m] \in Steps
      /\ UNCHANGED <<db, path, backups>>
  BY Apart DEF Migrate
<1>1. CASE ~Applies(from[m], tx[m])
  BY <1>0, <1>1, EndKeeps DEF Migrate, Fails
<1>2. CASE Applies(from[m], tx[m])
  <2> DEFINE v == from[m]
  <2>1. /\ tx' = [tx EXCEPT ![m] = [version |-> v + 1, tables |-> IF @.tables > v THEN @.tables ELSE v + 1]]
        /\ from' = [from EXCEPT ![m] = v + 1]
        /\ pc' = [pc EXCEPT ![m] = IF v + 1 = Target THEN "checking" ELSE "migrating"]
        /\ UNCHANGED <<writer, temp, result>>
    BY <1>0, <1>2 DEF Migrate
  <2>2. v \in First..Target - 1 /\ v \in Nat /\ v # Target
    BY <1>0 DEF Steps, CatalogMigrationAssumption
  <2>3. db = Whole(First) /\ tx[m] = Whole(v)
    <3>1. TxFacts(m)
      OBVIOUS
    <3>2. db # Whole(First) => Target = First
      BY <1>0, <1>2, <3>1 DEF TxFacts, Applies, Whole
    <3> QED
      BY <1>0, <2>2, <3>1, <3>2 DEF TxFacts, CatalogMigrationAssumption
  <2>4. tx'[m] = Whole(v + 1)
    <3>1. tx[m].tables = v /\ ~(v > v)
      BY <2>2, <2>3 DEF Whole
    <3> QED
      BY <2>1, <3>1 DEF Whole
  <2>5. v + 1 # Target => v + 1 \in Steps
    BY <2>2 DEF Steps, CatalogMigrationAssumption
  <2>6. Holds(backups[path[m]], First)
    BY <1>0, <2>3 DEF TxFacts
  <2>7. pc'[m] = IF v + 1 = Target THEN "checking" ELSE "migrating"
    BY <1>0, <2>1
  <2>8. TxFacts(m)'
    BY <1>0, <2>1, <2>3, <2>4, <2>5, <2>6, <2>7 DEF TxFacts, Saving
  <2>9. ResultFacts(m)' /\ result'[m] # "migrated"
    BY <1>0, <2>1, <2>7 DEF ResultFacts
  <2> QED
    BY <1>0, <2>1, <2>7, <2>8, <2>9, OwnStepKeeps DEF Inside, Saving, PathFacts
<1> QED
  BY <1>1, <1>2

\* The one step that changes the Catalog: from the old one, of which there is a
\* backup, to the new one.
LEMMA CommitKeeps ==
  ASSUME CatalogMigrationAssumption, MigrationInv, NEW m \in Migrators, Commit(m) PROVE MigrationInv'
<1> USE DEF MigrationInv, Shape
<1>0. /\ m \in Processes /\ m \notin Savers /\ pc[m] = "checking" /\ db = Whole(First) /\ tx[m] = Whole(Target)
      /\ Holds(backups[path[m]], First) /\ path[m] \in Automatic /\ path[m][1] = First /\ First < Target
      /\ writer = m
  BY Apart DEF Commit, TxFacts, PathFacts, LockFacts, Inside
<1>1. /\ db' = Whole(Target) /\ pc' = [pc EXCEPT ![m] = "ended"] /\ result' = [result EXCEPT ![m] = "migrated"]
      /\ writer' = Nobody /\ UNCHANGED <<from, tx, path, backups, temp>>
  BY <1>0 DEF Commit, Ends, Release
<1>2. \A k \in Migrators : k # m => pc[k] \notin Inside
  BY <1>0 DEF LockFacts
<1>3. db # Whole(Target)
  BY <1>0, WholeHolds DEF CatalogMigrationAssumption
<1>4. LockFacts' /\ PathFacts'
  BY <1>0, <1>1, <1>2, Apart DEF LockFacts, PathFacts, Inside, Saving
<1>5. CopyFacts'
  BY <1>1 DEF CopyFacts, IsCopy, Saving
<1>6. OldOrNew' /\ OldIsKept'
  BY <1>0, <1>1 DEF OldOrNew, OldIsKept
<1>7. \A k \in Migrators : result[k] \notin {"migrated", "current"}
  BY <1>3 DEF ResultFacts
<1>8. OneMigrated'
  BY <1>0, <1>1, <1>7, Apart DEF OneMigrated
<1>9. ASSUME NEW k \in Migrators PROVE TxFacts(k)' /\ ResultFacts(k)'
  <2>1. CASE k = m
    BY <1>0, <1>1, <2>1 DEF TxFacts, ResultFacts, Saving
  <2>2. CASE k # m
    BY <1>1, <1>2, <1>7, <2>2, Apart DEF TxFacts, ResultFacts, Inside, Saving
  <2> QED
    BY <2>1, <2>2
<1> QED
  BY <1>1, <1>4, <1>5, <1>6, <1>8, <1>9

-------------------------------------------------------------------------------
(* The backup.                                                               *)

\* What is committed can be copied, and stays while a migrator copies it.
LEMMA CommittedIsCopied ==
  ASSUME CatalogMigrationAssumption, MigrationInv, NEW p
  PROVE  IsCopy(Saved(db, p)) /\ Saved(db, p) # Absent /\ Saved(db, p).version = db.version
<1>1. PICK v \in First..Target : db = Whole(v)
  BY WholeHolds DEF MigrationInv, OldOrNew
<1> QED
  BY <1>1, WholeHolds DEF IsCopy, Saved, Whole

LEMMA BackupKeeps ==
  ASSUME CatalogMigrationAssumption, MigrationInv, NEW p \in Processes,
         BeginBackup(p) \/ Copy(p) \/ LookForOther(p)
  PROVE  MigrationInv'
<1> USE DEF MigrationInv, Shape
<1>0. UNCHANGED <<db, from, tx, path, backups>>
  BY DEF BeginBackup, Copy, LookForOther
<1>1. CASE Fails(p)
  BY <1>0, <1>1, EndKeeps DEF Fails
<1>2. CASE ~Fails(p)
  <2>1. /\ UNCHANGED <<writer, result>>
        /\ \/ /\ pc[p] = IF p \in Savers THEN "start" ELSE "backup"
              /\ backups[path[p]] = Absent /\ pc' = [pc EXCEPT ![p] = "copying"]
              /\ temp' = [temp EXCEPT ![p] = Saved(db, p)]
           \/ /\ pc[p] = "copying" /\ pc' = [pc EXCEPT ![p] = "copied"]
              /\ temp' = [temp EXCEPT ![p] = Saved(db, p)]
           \/ /\ pc[p] = "copied" /\ pc' = [pc EXCEPT ![p] = "publishing"] /\ UNCHANGED temp
    BY <1>2 DEF BeginBackup, Copy, LookForOther
  <2>2. Shape' /\ pc'[p] \in Saving /\ (temp'[p] = Saved(db, p) \/ (temp'[p] = temp[p] /\ pc[p] \in Saving))
    BY <1>0, <2>1 DEF Saving
  <2>3. IsCopy(temp'[p])
    BY <2>2, CommittedIsCopied DEF CopyFacts
  <2>4. ASSUME p \in Migrators
        PROVE  /\ pc'[p] \in Inside /\ pc[p] \in Inside
               /\ path'[p] \in Automatic /\ path'[p][1] = First /\ First < Target
               /\ TxFacts(p)' /\ ResultFacts(p)' /\ result'[p] # "migrated"
    <3>1. p \notin Savers /\ pc[p] \in {"backup", "copying", "copied"} /\ pc'[p] \in Saving
      BY <2>1, <2>4, Apart DEF Saving
    <3>2. tx[p] = db /\ from[p] = First /\ backups[path[p]] = Absent /\ temp'[p] = Saved(db, p)
      BY <2>1, <2>2, <2>4, <3>1 DEF TxFacts, Saving
    <3>3. TxFacts(p)'
      BY <1>0, <3>1, <3>2 DEF TxFacts, Saving
    <3>4. ResultFacts(p)' /\ result'[p] # "migrated"
      BY <2>1, <2>4, <3>1 DEF ResultFacts
    <3> QED
      BY <1>0, <2>4, <3>1, <3>3, <3>4 DEF PathFacts, Inside, Saving
  <2> QED
    BY <1>0, <2>1, <2>2, <2>3, <2>4, OwnStepKeeps
<1> QED
  BY <1>1, <1>2

\* A migrator publishes under a name that nobody has taken, a saver under one that
\* is no migrator's.
PublishedKeep ==
  \A n \in Automatic : backups[n] # Absent => backups'[n] = backups[n]

LEMMA PublishKeeps ==
  ASSUME CatalogMigrationAssumption, MigrationInv, NEW p \in Processes, PublishCopy(p)
  PROVE  MigrationInv' /\ PublishedKeep
<1> USE DEF MigrationInv, Shape
<1>1. /\ pc[p] = "publishing" /\ backups' = [backups EXCEPT ![path[p]] = temp[p]]
      /\ temp' = [temp EXCEPT ![p] = Absent]
      /\ IF p \in Savers THEN Ends(p, "saved") ELSE pc' = [pc EXCEPT ![p] = "migrating"] /\ UNCHANGED result
      /\ UNCHANGED <<db, writer, from, tx, path>>
  BY DEF PublishCopy
<1>2. IsCopy(temp[p])
  BY <1>1 DEF CopyFacts, Saving
<1>3. PublishedKeep
  <2>1. CASE p \in Savers
    BY <1>1, <2>1, NamesApart DEF PublishedKeep, PathFacts
  <2>2. CASE p \in Migrators
    BY <1>1, <2>2, NamesApart DEF PublishedKeep, TxFacts, Saving
  <2> QED
    BY <2>1, <2>2 DEF Processes
<1>4. ~Holds(Absent, First)
  BY DEF Holds, Absent, CatalogMigrationAssumption
<1>5. OldIsKept'
  BY <1>1, <1>3, <1>4 DEF OldIsKept, PublishedKeep
<1>6. \A m \in Migrators : m # p /\ pc[m] \in Saving => FALSE \/ p \in Savers
  BY <1>1 DEF LockFacts, Inside, Saving, Processes
<1>7. Shape' /\ pc'[p] \notin Saving /\ \A q \in Processes : q # p => pc'[q] = pc[q] /\ result'[q] = result[q] /\ temp'[q] = temp[q]
  BY <1>1 DEF Ends, Saving
<1>8. CopyFacts'
  BY <1>1, <1>2, <1>7 DEF CopyFacts, IsCopy
<1>9. OldOrNew' /\ OneMigrated'
  BY <1>1, Apart DEF OldOrNew, OneMigrated, Ends
<1>10. LockFacts' /\ PathFacts'
  <2>1. p \in Migrators => pc'[p] = "migrating" /\ pc[p] = "publishing"
    BY <1>1, Apart
  <2>2. p \in Savers => p \notin Migrators
    BY Apart
  <2> QED
    BY <1>1, <1>7, <2>1, <2>2, Apart DEF LockFacts, PathFacts, Inside, Saving
<1>11. ASSUME NEW m \in Migrators PROVE TxFacts(m)' /\ ResultFacts(m)'
  <2>1. CASE m = p
    <3>1. /\ tx[m] = db /\ from[m] = First /\ temp[m] = Saved(db, m) /\ path[m] \in Automatic
          /\ path[m][1] = First /\ First < Target
      BY <1>1, <2>1 DEF TxFacts, PathFacts, Saving
    <3>2. pc'[m] = "migrating" /\ result'[m] = result[m] /\ backups'[path[m]] = Saved(db, m)
      BY <1>1, <2>1, <3>1, Apart, NamesApart
    <3>3. First \in Steps
      BY <3>1 DEF Steps, CatalogMigrationAssumption
    <3>4. TxFacts(m)'
      BY <1>1, <3>1, <3>2, <3>3, WholeHolds DEF TxFacts, OldOrNew, Saving
    <3>5. ResultFacts(m)'
      BY <1>1, <2>1, <3>2 DEF ResultFacts
    <3> QED
      BY <3>4, <3>5
  <2>2. CASE m # p
    <3>1. UNCHANGED <<db, from[m], tx[m], path[m], pc[m], result[m], temp[m]>>
      BY <1>1, <1>7, <2>2, Apart
    <3>2. pc[m] \in Saving => backups'[path[m]] = Absent
      <4>1. pc[m] \in Saving => p \in Savers /\ path[m] \in Automatic /\ backups[path[m]] = Absent
        BY <1>6, <2>2 DEF PathFacts, TxFacts, Saving
      <4> QED
        BY <1>1, <4>1, NamesApart DEF PathFacts
    <3>3. path[m] \in Automatic /\ Holds(backups[path[m]], First) => Holds(backups'[path[m]], First)
      BY <1>3, <1>4 DEF PublishedKeep
    <3>4. pc[m] \in {"migrating", "checking"} => path[m] \in Automatic
      BY DEF PathFacts
    <3>5. TxFacts(m) /\ ResultFacts(m)
      OBVIOUS
    <3>6. TxFacts(m)'
      BY <3>1, <3>2, <3>3, <3>4, <3>5 DEF TxFacts, Saving
    <3>7. ResultFacts(m)'
      BY <3>1, <3>3, <3>5 DEF ResultFacts
    <3> QED
      BY <3>6, <3>7
  <2> QED
    BY <2>1, <2>2
<1> QED
  BY <1>3, <1>5, <1>7, <1>8, <1>9, <1>10, <1>11

-------------------------------------------------------------------------------
LEMMA AgainKeeps ==
  ASSUME CatalogMigrationAssumption, MigrationInv, NEW p \in Processes, Again(p) PROVE MigrationInv'
<1> USE DEF MigrationInv, Shape
<1>1. /\ p \in Migrators /\ pc[p] = "ended" /\ pc' = [pc EXCEPT ![p] = "start"]
      /\ result' = [result EXCEPT ![p] = "none"] /\ temp' = [temp EXCEPT ![p] = Absent]
      /\ UNCHANGED <<db, writer, from, tx, path, backups>>
  BY DEF Again
<1>2. TxFacts(p)' /\ ResultFacts(p)'
  BY <1>1 DEF TxFacts, ResultFacts, Saving
<1> QED
  BY <1>1, <1>2, OwnStepKeeps, Apart DEF Inside, Saving

LEMMA MigrationInvariant == ASSUME CatalogMigrationAssumption PROVE MigrationSpec => []MigrationInv
<1>1. MigrationInit => MigrationInv
  BY InitMigrationInv
<1>2. MigrationInv /\ [MigrationNext]_migrationVars => MigrationInv'
  <2> SUFFICES ASSUME MigrationInv, [MigrationNext]_migrationVars PROVE MigrationInv'
    OBVIOUS
  <2>1. CASE UNCHANGED migrationVars
    BY <2>1 DEF migrationVars, MigrationInv, Shape, LockFacts, PathFacts, CopyFacts, OldOrNew, OldIsKept, OneMigrated,
       TxFacts, ResultFacts, IsCopy
  <2>2. ASSUME NEW m \in Migrators, ReadVersion(m) \/ BeginImmediate(m) \/ Busy(m) \/ Migrate(m) \/ Commit(m)
        PROVE  MigrationInv'
    BY <2>2, ReadVersionKeeps, BeginKeeps, BusyKeeps, MigrateKeeps, CommitKeeps
  <2>3. ASSUME NEW p \in Processes, BeginBackup(p) \/ Copy(p) \/ LookForOther(p) \/ PublishCopy(p)
        PROVE  MigrationInv'
    BY <2>3, BackupKeeps, PublishKeeps
  <2>4. ASSUME NEW p \in Processes, Error(p) \/ Kill(p) \/ Again(p) PROVE MigrationInv'
    BY <2>4, EndKeeps, AgainKeeps DEF Error, Kill, Fails
  <2> QED
    BY <2>1, <2>2, <2>3, <2>4 DEF MigrationNext
<1> QED
  BY <1>1, <1>2, PTL DEF MigrationSpec

-------------------------------------------------------------------------------
\* The write lock is that of the migrator inside its transaction, and every backup
\* is of one committed state.
THEOREM MigrationTypeCorrect == ASSUME CatalogMigrationAssumption PROVE MigrationSpec => []MigrationTypeOK
<1>1. MigrationInv => MigrationTypeOK
  BY WholeHolds DEF MigrationInv, MigrationTypeOK, OldOrNew, Whole, CopyFacts, IsCopy, LockFacts, Inside, Saving
<1> QED
  BY <1>1, MigrationInvariant, PTL

\* The Catalog is the old one or the new one, however many migrate it and whatever
\* fails or is killed in between.
THEOREM MigrationOldOrNew == ASSUME CatalogMigrationAssumption PROVE MigrationSpec => []OldOrNew
<1>1. MigrationInv => OldOrNew
  BY DEF MigrationInv
<1> QED
  BY <1>1, MigrationInvariant, PTL

\* Once the Catalog is new, the old one is in a backup.
THEOREM MigrationOldIsKept == ASSUME CatalogMigrationAssumption PROVE MigrationSpec => []OldIsKept
<1>1. MigrationInv => OldIsKept
  BY DEF MigrationInv
<1> QED
  BY <1>1, MigrationInvariant, PTL

\* Who reports a migration has made it, alone, and its backup is the Catalog as it
\* was before.
THEOREM MigrationReportsTrue == ASSUME CatalogMigrationAssumption PROVE MigrationSpec => []ReportsTrue
<1>1. ASSUME MigrationInv PROVE ReportsTrue
  <2> DEFINE S == {m \in Migrators : result[m] = "migrated"}
  <2>1. Cardinality(S) <= 1
    <3>1. CASE S = {}
      BY <3>1, FS_EmptySet
    <3>2. CASE S # {}
      <4>1. PICK m \in S : S = {m}
        BY <1>1, <3>2 DEF MigrationInv, OneMigrated
      <4>2. Cardinality({m}) = 1
        BY FS_Singleton
      <4> QED
        BY <4>1, <4>2
    <3> QED
      BY <3>1, <3>2
  <2> QED
    BY <1>1, <2>1 DEF MigrationInv, ResultFacts, ReportsTrue
<1> QED
  BY <1>1, MigrationInvariant, PTL

\* A migrator's backup is never written over, by a migrator or by a saver.
THEOREM MigrationBackupsStay ==
  ASSUME CatalogMigrationAssumption PROVE MigrationSpec => [][PublishedKeep]_backups
<1>1. ASSUME MigrationInv, [MigrationNext]_migrationVars PROVE [PublishedKeep]_backups
  <2>1. ASSUME NEW p \in Processes, PublishCopy(p) PROVE PublishedKeep
    BY <1>1, <2>1, PublishKeeps
  <2>2. CASE \A p \in Processes : ~PublishCopy(p)
    BY <1>1, <2>2 DEF MigrationNext, migrationVars, ReadVersion, BeginImmediate, Busy, Migrate, Commit, BeginBackup, Copy,
       LookForOther, Error, Kill, Again
  <2> QED
    BY <2>1, <2>2
<1> QED
  BY <1>1, MigrationInvariant, PTL DEF MigrationSpec

\* All that migrations and saves promise together: the Catalog is the old one or
\* the new one, the old one is kept, and no report claims what was not done.
THEOREM MigrationKeepsCatalog ==
  ASSUME CatalogMigrationAssumption PROVE MigrationSpec => []MigrationsHold
<1>1. MigrationTypeOK /\ OldOrNew /\ OldIsKept /\ ReportsTrue => MigrationsHold
  BY DEF MigrationsHold
<1> QED
  BY <1>1, MigrationTypeCorrect, MigrationOldOrNew, MigrationOldIsKept, MigrationReportsTrue, PTL

-------------------------------------------------------------------------------
(* prepare_recrawl (ArchiveRecrawl).  Whatever the scripts do together every *)
(* archive stays at one path (Steady); as long as no two of them were alive  *)
(* together, what the one script has read of the rows is still so when it    *)
(* acts on it (Uncrowded).                                                   *)

ArtRow == [source : SourceIds, path : Places, state : {"present", "missing"}]
Item(a) == ItemOf[artifacts[a].source]
Alive(p) == script[p].pc # "off"
Scanned(p) == script[p].pc \in {"apply", "book", "pending"}
Current(p) == Lowest(script[p].todo)
\* A path that may hold archives of an Item.
Fits(place, i) == place[2] \in {i, NoItem} /\ (place[1] = Library => place[2] = i)

Fields == {"pc", "root", "todo", "arts", "report", "forced", "ignore"}
\* The types, of the parts of a script too.
ScriptType(p) ==
  /\ DOMAIN script[p] = Fields
  /\ script[p].forced \in BOOLEAN /\ script[p].ignore \in BOOLEAN
  /\ Alive(p) => script[p].root \in 1..starts
  /\ DOMAIN script[p].report \subseteq Items
  /\ script[p].pc = "scan" =>
       /\ script[p].todo \subseteq DOMAIN script[p].arts
       /\ script[p].todo \cap DOMAIN script[p].report = {}
       /\ \A i \in script[p].todo : \A a \in DOMAIN script[p].arts[i] :
            /\ a \in DOMAIN artifacts /\ Item(a) = i
            /\ script[p].arts[i][a] \in ArtRow
            /\ Fits(script[p].arts[i][a].path, i) /\ script[p].arts[i][a].path[1] < script[p].root
  /\ \A i \in DOMAIN script[p].report : script[p].report[i].art # None =>
       /\ Item(script[p].report[i].art) = i
       /\ Fits(script[p].report[i].path, i) /\ script[p].report[i].path[1] < script[p].root
  /\ \A i \in DOMAIN script[p].report : script[p].report[i].art = None =>
       script[p].report[i].class \in {"missing", "ambiguous"}
  /\ Scanned(p) => script[p].todo \subseteq DOMAIN script[p].report
  /\ script[p].pc \in {"book", "pending"} => script[p].todo # {} /\ Entry(p).art # None

\* Every archive is at one path.
Placed ==
  /\ \A x, y \in Places : disk[x] = disk[y] /\ disk[x] # None => x = y
  /\ \A a \in DOMAIN quality : \E x \in Places : disk[x] = a

\* Rows name paths of their Items; a new archive has no row.
RowsFit ==
  /\ \A a \in DOMAIN artifacts : Fits(artifacts[a].path, Item(a)) /\ artifacts[a].path[1] <= starts
  /\ batch.at = "crawl" => Len(quality) < MaxArchives
  /\ batch.at = "packed" => batch.zip = Len(quality) /\ batch.zip \notin DOMAIN artifacts

\* The library keeps the archives of an Item at its path; nobody archives a
\* completed Item whose status was not set by hand.
LibraryFits ==
  /\ \A i \in Items :
       /\ disk[LibraryPath(i)] \in DOMAIN artifacts => Item(disk[LibraryPath(i)]) = i
       /\ batch.at = "packed" /\ disk[LibraryPath(i)] = batch.zip => ItemOf[batch.source] = i
  /\ batch.at # "idle" /\ ItemOf[batch.source] \notin byHand
       => status[ItemOf[batch.source]] # "completed"

Steady == RecrawlTypeOK /\ (\A p \in Scripts : ScriptType(p)) /\ Placed /\ RowsFit /\ LibraryFits

-------------------------------------------------------------------------------
\* While no two scripts have been alive together.

OneAlive == \A p, q \in Scripts : Alive(p) /\ Alive(q) => p = q

\* What is where a row says is of the row's Item.
SameItem ==
  \A a \in DOMAIN artifacts :
    /\ disk[artifacts[a].path] \in DOMAIN artifacts => Item(disk[artifacts[a].path]) = Item(a)
    /\ batch.at = "packed" /\ disk[artifacts[a].path] = batch.zip => ItemOf[batch.source] = Item(a)

\* What a completed Item has in the library is its newest archive and booked.
NewestThere ==
  \A i \in Items \ byHand : status[i] = "completed" /\ disk[LibraryPath(i)] # None =>
    LET a == disk[LibraryPath(i)] IN
      /\ a \in DOMAIN artifacts /\ artifacts[a].path = LibraryPath(i) /\ artifacts[a].state = "present"
      /\ \A b \in DOMAIN artifacts : Item(b) = i => b <= a

PackedThere ==
  batch.at = "packed" /\ ItemOf[batch.source] \notin byHand
    => disk[LibraryPath(ItemOf[batch.source])] = batch.zip

\* A stray that is still called present is the only candidate of its Item.
StraysWait ==
  \A a \in DOMAIN artifacts \cap strayed : artifacts[a].state = "present" /\ Item(a) \notin byHand =>
    /\ disk[artifacts[a].path] = None /\ status[Item(a)] = "completed"
    /\ Candidates(Item(a)) = {a}
    /\ \A p \in Scripts : script[p].pc = "pending" => Current(p) # Item(a)

\* What a script has read of the rows.
ScanIsTrue(p) ==
  /\ script[p].pc = "scan" =>
       \A i \in script[p].todo :
         /\ \A a \in DOMAIN script[p].arts[i] : script[p].arts[i][a] = artifacts[a]
         /\ i \notin byHand => DOMAIN script[p].arts[i] = Candidates(i)
\* Entries still to be handled, the current one until its archive is moved.
Ahead(p) ==
  IF script[p].pc = "scan" THEN DOMAIN script[p].report
  ELSE IF script[p].pc = "apply" THEN script[p].todo
  ELSE IF Scanned(p) THEN script[p].todo \ {Current(p)} ELSE {}
Rep(p, i) == script[p].report[i]
Reported(p) == DOMAIN script[p].report
ReportIsTrue(p) ==
  \A i \in Ahead(p) : Rep(p, i).art # None =>
    /\ artifacts[Rep(p, i).art].path = Rep(p, i).path
    /\ Rep(p, i).class \in Qualities => artifacts[Rep(p, i).art].state = "present"
    /\ i \notin byHand =>
         /\ Rep(p, i).class \in Qualities => disk[Rep(p, i).path] = Rep(p, i).art
         /\ Rep(p, i).class = "missing" => disk[LibraryPath(i)] = None
\* An Item a script has in hand stays completed, and its candidate the only one.
InHandWaits(p) ==
  Alive(p) => \A i \in (script[p].todo \cup Ahead(p)) \ byHand :
    /\ status[i] = "completed"
    /\ i \in Reported(p) /\ Rep(p, i).art # None => Candidates(i) = {Rep(p, i).art}
\* The archive in transit.
MovedThere(p) ==
  script[p].pc = "book" =>
    LET i == Current(p) IN
      /\ artifacts[Entry(p).art].path = Entry(p).path
      /\ disk[Destination(p)] # None
      /\ disk[Destination(p)] \in DOMAIN artifacts => Item(disk[Destination(p)]) = i
      /\ batch.at = "packed" /\ disk[Destination(p)] = batch.zip => ItemOf[batch.source] = i
      /\ i \notin byHand => /\ disk[Destination(p)] = Entry(p).art /\ disk[Entry(p).path] = None
                            /\ Entry(p).art \notin strayed
FreeThere(p) ==
  script[p].pc \in {"book", "pending"} /\ Current(p) \notin byHand
    => disk[LibraryPath(Current(p))] = None
\* The rows that name the root of a script that is alive.
OwnRoot(p) ==
  Alive(p) => \A a \in DOMAIN artifacts : artifacts[a].path[1] = script[p].root =>
    /\ disk[artifacts[a].path] # None
    /\ script[p].pc = "book" => artifacts[a].path # Destination(p)

ScriptHolds(p) ==
  /\ ScanIsTrue(p) /\ ReportIsTrue(p) /\ InHandWaits(p) /\ MovedThere(p) /\ FreeThere(p)
  /\ OwnRoot(p)

Uncrowded ==
  /\ OneAlive /\ PresentIsThere /\ SameItem /\ NewestThere /\ PackedThere /\ StraysWait
  /\ \A p \in Scripts : ScriptHolds(p)

RecrawlInv == Steady /\ (~crowded => Uncrowded)

\* The first of some Items is one of them.
LEMMA LowestIn ==
  ASSUME NEW S \in SUBSET Items, S # {}
  PROVE  Lowest(S) \in S
<1>1. S \subseteq Nat
  BY RecrawlAssumption
<1>2. PICK x \in S : \A y \in S : ~(<<y, x>> \in OpToRel(<, Nat))
  BY <1>1, NatLessThanWellFounded, WFMin
<1>3. \A y \in S : ~(y < x)
  BY <1>1, <1>2 DEF OpToRel
<1>4. \A y \in S : x =< y
  BY <1>1, <1>3
<1> QED
  BY <1>4 DEF Lowest

\* The archives of a Source have a newest.
LEMMA NewestIn ==
  ASSUME RecrawlTypeOK, NEW s, ArchivesOf(s) # {}
  PROVE  /\ Newest(s) \in ArchivesOf(s)
         /\ \A b \in ArchivesOf(s) : b <= Newest(s)
<1> DEFINE S == ArchivesOf(s)
           top == Len(quality)
           T == {top - a : a \in S}
<1>1. top \in Nat /\ DOMAIN quality = 1..top
  BY DEF RecrawlTypeOK
<1>2. S \subseteq 1..top
  BY <1>1 DEF RecrawlTypeOK, ArchivesOf
<1>3. T \subseteq Nat /\ T # {}
  BY <1>1, <1>2
<1>4. PICK x \in T : \A y \in T : ~(<<y, x>> \in OpToRel(<, Nat))
  BY <1>3, NatLessThanWellFounded, WFMin
<1>5. \A y \in T : ~(y < x)
  BY <1>3, <1>4 DEF OpToRel
<1>6. PICK a \in S : x = top - a
  OBVIOUS
<1>7. \A b \in S : b <= a
  <2> SUFFICES ASSUME NEW b \in S PROVE b <= a
    OBVIOUS
  <2>1. top - b \in T /\ ~(top - b < top - a)
    BY <1>5, <1>6
  <2> QED
    BY <2>1, <1>1, <1>2
<1>8. \E c \in S : \A b \in S : b <= c
  BY <1>7
<1> QED
  BY <1>8 DEF Newest

\* The effect of With.
LEMMA WithIs ==
  ASSUME NEW f, NEW x, NEW v
  PROVE  /\ DOMAIN With(f, x, v) = DOMAIN f \cup {x} /\ With(f, x, v)[x] = v
         /\ \A y \in DOMAIN f : y # x => With(f, x, v)[y] = f[y]
BY DEF With

\* The places.
LEMMA PlacesFit ==
  /\ \A i \in Items : LibraryPath(i) \in Places /\ LibraryPath(i)[1] = Library /\ LibraryPath(i)[2] = i
  /\ \A x \in Places, r \in Roots : BackupDestination(x, r) \in Places
       /\ BackupDestination(x, r)[1] = r
       /\ (x[1] = Library => BackupDestination(x, r)[2] = x[2])
       /\ (x[1] # Library => BackupDestination(x, r)[2] = NoItem)
  /\ \A x \in Places : x[1] \in Roots /\ x[2] \in Items \cup {NoItem} /\ x = <<x[1], x[2]>>
  /\ NoItem \notin Items /\ Library \in Roots /\ None \notin Items
BY RecrawlAssumption DEF Places, Roots, LibraryPath, Library, NoItem, BackupDestination, None

-------------------------------------------------------------------------------
\* What each step of a script leaves of it.
Others(p) == DOMAIN script' = DOMAIN script /\ \A q \in Scripts : q # p => script'[q] = script[q]

LEMMA ScanIs ==
  ASSUME NEW p \in Scripts, RecrawlTypeOK, ScriptType(p), NEW ids, NEW forced \in BOOLEAN, NEW ignore \in BOOLEAN,
         Scan(p, ids, forced, ignore)
  PROVE  /\ Others(p)
         /\ script'[p] = [pc |-> "scan", root |-> starts + 1, todo |-> ids,
                          arts |-> [i \in ids |-> [a \in Candidates(i) |-> artifacts[a]]],
                          report |-> <<>>, forced |-> forced, ignore |-> ignore]
BY DEF Scan, RecrawlTypeOK, Others

LEMMA ScanItemIs ==
  ASSUME NEW p \in Scripts, RecrawlTypeOK, ScriptType(p), ScanItem(p)
  PROVE  /\ Others(p) /\ DOMAIN script'[p] = Fields
         /\ script'[p].pc = script[p].pc /\ script'[p].root = script[p].root
         /\ script'[p].todo = script[p].todo \ {Current(p)} /\ script'[p].arts = script[p].arts
         /\ script'[p].report
              = With(script[p].report, Current(p), Classified(script[p].arts[Current(p)]))
         /\ script'[p].forced = script[p].forced /\ script'[p].ignore = script[p].ignore
<1>1. DOMAIN script = Scripts /\ DOMAIN script[p] = Fields
  BY DEF RecrawlTypeOK, ScriptType
<1> DEFINE left == script[p].todo \ {Current(p)}
           read == With(script[p].report, Current(p), Classified(script[p].arts[Current(p)]))
<1>2. script' = [script EXCEPT ![p].todo = left, ![p].report = read]
  BY DEF ScanItem, Current
<1> HIDE DEF left, read
<1>3. DOMAIN script'[p] = Fields /\ DOMAIN script' = DOMAIN script /\ \A q \in Scripts : q # p => script'[q] = script[q]
  BY <1>1, <1>2
<1>4. script'[p].todo = left /\ script'[p].report = read
  BY <1>1, <1>2 DEF Fields
<1>5. /\ script'[p].pc = script[p].pc /\ script'[p].root = script[p].root
      /\ script'[p].arts = script[p].arts
      /\ script'[p].forced = script[p].forced /\ script'[p].ignore = script[p].ignore
  BY <1>1, <1>2 DEF Fields
<1> QED
  BY <1>3, <1>4, <1>5 DEF Others, left, read

LEMMA ApplyIs ==
  ASSUME NEW p \in Scripts, RecrawlTypeOK, ScriptType(p), ApplyReport(p)
  PROVE  /\ Others(p) /\ DOMAIN script'[p] = Fields
         /\ script'[p].pc = "apply" /\ script'[p].root = script[p].root
         /\ script'[p].todo = DOMAIN script[p].report /\ script'[p].arts = <<>>
         /\ script'[p].report = script[p].report
         /\ script'[p].forced = script[p].forced /\ script'[p].ignore = script[p].ignore
<1>1. DOMAIN script = Scripts /\ DOMAIN script[p] = Fields
  BY DEF RecrawlTypeOK, ScriptType
<1> DEFINE all == DOMAIN script[p].report
<1>2. script' = [script EXCEPT ![p].pc = "apply", ![p].todo = all, ![p].arts = <<>>]
  BY DEF ApplyReport
<1> HIDE DEF all
<1>3. DOMAIN script'[p] = Fields /\ DOMAIN script' = DOMAIN script /\ \A q \in Scripts : q # p => script'[q] = script[q]
  BY <1>1, <1>2
<1>4. script'[p].pc = "apply" /\ script'[p].todo = all /\ script'[p].arts = <<>>
  BY <1>1, <1>2 DEF Fields
<1>5. /\ script'[p].root = script[p].root /\ script'[p].report = script[p].report
      /\ script'[p].forced = script[p].forced /\ script'[p].ignore = script[p].ignore
  BY <1>1, <1>2 DEF Fields
<1> QED
  BY <1>3, <1>4, <1>5 DEF Others, all

LEMMA NextEntryIs ==
  ASSUME NEW p \in Scripts, RecrawlTypeOK, ScriptType(p), NextEntry(p)
  PROVE  /\ Others(p) /\ DOMAIN script'[p] = Fields
         /\ script'[p].pc = "apply" /\ script'[p].root = script[p].root
         /\ script'[p].todo = script[p].todo \ {Current(p)} /\ script'[p].arts = script[p].arts
         /\ script'[p].report = script[p].report
         /\ script'[p].forced = script[p].forced /\ script'[p].ignore = script[p].ignore
<1>1. DOMAIN script = Scripts /\ DOMAIN script[p] = Fields
  BY DEF RecrawlTypeOK, ScriptType
<1> DEFINE left == script[p].todo \ {Current(p)}
<1>2. script' = [script EXCEPT ![p].pc = "apply", ![p].todo = left]
  BY DEF NextEntry, Current
<1> HIDE DEF left
<1>3. DOMAIN script'[p] = Fields /\ DOMAIN script' = DOMAIN script /\ \A q \in Scripts : q # p => script'[q] = script[q]
  BY <1>1, <1>2
<1>4. script'[p].pc = "apply" /\ script'[p].todo = left
  BY <1>1, <1>2 DEF Fields
<1>5. /\ script'[p].root = script[p].root
      /\ script'[p].arts = script[p].arts /\ script'[p].report = script[p].report
      /\ script'[p].forced = script[p].forced /\ script'[p].ignore = script[p].ignore
  BY <1>1, <1>2 DEF Fields
<1> QED
  BY <1>3, <1>4, <1>5 DEF Others, left

LEMMA GoesToIs ==
  ASSUME NEW p \in Scripts, RecrawlTypeOK, ScriptType(p), NEW step, GoesTo(p, step)
  PROVE  /\ Others(p) /\ DOMAIN script'[p] = Fields
         /\ script'[p].pc = step /\ script'[p].root = script[p].root
         /\ script'[p].todo = script[p].todo /\ script'[p].arts = script[p].arts
         /\ script'[p].report = script[p].report
         /\ script'[p].forced = script[p].forced /\ script'[p].ignore = script[p].ignore
BY DEF GoesTo, RecrawlTypeOK, ScriptType, Others, Fields

LEMMA EndIs ==
  ASSUME NEW p \in Scripts, RecrawlTypeOK, ScriptType(p), script' = [script EXCEPT ![p] = Off]
  PROVE  Others(p) /\ script'[p] = Off
BY DEF RecrawlTypeOK, Others
-------------------------------------------------------------------------------
\* The types and what holds with any number of scripts.
StoreTyped ==
  /\ status \in [Items -> Statuses]
  /\ quality \in Seq(Qualities) /\ Len(quality) <= MaxArchives
  /\ DOMAIN artifacts \subseteq DOMAIN quality /\ \A a \in DOMAIN artifacts : artifacts[a] \in ArtRow
  /\ disk \in [Places -> DOMAIN quality \cup {None}]
  /\ batch \in [source : SourceIds, at : {"crawl", "packed"}, zip : 0..MaxArchives] \cup {NoBatch}
  /\ (batch.zip = None) <=> (batch.at # "packed")
BoundsTyped ==
  /\ starts \in 0..MaxStarts /\ failures \in 0..MaxFailures /\ outside \in 0..MaxOutside
  /\ strayed \subseteq DOMAIN artifacts /\ byHand \subseteq Items /\ crowded \in BOOLEAN

LEMMA TypeParts ==
  /\ RecrawlTypeOK <=>
       /\ StoreTyped /\ BoundsTyped /\ DOMAIN script = Scripts
       /\ \A p \in Scripts : ScriptTypeOK(p)
  /\ RecrawlTypeOK' <=>
       /\ StoreTyped' /\ BoundsTyped' /\ DOMAIN script' = Scripts
       /\ \A p \in Scripts : ScriptTypeOK(p)'
BY DEF RecrawlTypeOK, StoreTyped, BoundsTyped, ArtRow

RowsGrow ==
  /\ DOMAIN artifacts \subseteq DOMAIN artifacts'
  /\ \A a \in DOMAIN artifacts : artifacts'[a].source = artifacts[a].source
  /\ starts \in Nat /\ starts' \in Nat /\ starts <= starts'

LEMMA ScriptKeeps ==
  ASSUME NEW q \in Scripts, ScriptTypeOK(q), ScriptType(q), script'[q] = script[q], RowsGrow
  PROVE  ScriptTypeOK(q)' /\ ScriptType(q)'
<1>1. ScriptTypeOK(q)'
  BY DEF ScriptTypeOK, RowsGrow
<1>2. \A a \in DOMAIN artifacts : a \in DOMAIN artifacts' /\ Item(a)' = Item(a)
  BY DEF RowsGrow, Item
<1>3. /\ Alive(q)' = Alive(q) /\ Scanned(q)' = Scanned(q) /\ Entry(q)' = Entry(q)
  BY DEF Alive, Scanned, Entry
<1>4. Alive(q)' => script'[q].root \in 1..starts'
  BY <1>3 DEF RowsGrow, ScriptType
<1>5. \A i \in DOMAIN script[q].report : script[q].report[i].art # None =>
        script[q].report[i].art \in DOMAIN artifacts
  BY DEF ScriptTypeOK
<1>6. (\A i \in DOMAIN script[q].report : script[q].report[i].art # None =>
         /\ Item(script[q].report[i].art) = i
         /\ Fits(script[q].report[i].path, i) /\ script[q].report[i].path[1] < script[q].root)'
  BY <1>2, <1>5 DEF ScriptType
<1>7. (script[q].pc = "scan" =>
         /\ script[q].todo \subseteq DOMAIN script[q].arts
         /\ script[q].todo \cap DOMAIN script[q].report = {}
         /\ \A i \in script[q].todo : \A a \in DOMAIN script[q].arts[i] :
              /\ a \in DOMAIN artifacts /\ Item(a) = i
              /\ script[q].arts[i][a] \in ArtRow
              /\ Fits(script[q].arts[i][a].path, i) /\ script[q].arts[i][a].path[1] < script[q].root)'
  BY <1>2 DEF ScriptType
<1>8. \A i \in DOMAIN script[q].report : script[q].report[i].art = None =>
        script[q].report[i].class \in {"missing", "ambiguous"}
  BY DEF ScriptType
<1> QED
  BY <1>1, <1>3, <1>4, <1>6, <1>7, <1>8 DEF ScriptType, Fits
\* A script that reads the rows, and the report it makes.
LEMMA ScanTyped ==
  ASSUME Steady, NEW p \in Scripts, NEW ids, NEW forced \in BOOLEAN, NEW ignore \in BOOLEAN,
         Scan(p, ids, forced, ignore)
  PROVE  ScriptTypeOK(p)' /\ ScriptType(p)'
<1>1. /\ RecrawlTypeOK /\ ScriptType(p) /\ artifacts' = artifacts /\ starts' = starts + 1
      /\ starts + 1 \in 1..MaxStarts /\ ids \subseteq Items
  BY RecrawlAssumption DEF Steady, Scan, Completed, RecrawlTypeOK
<1>2. script'[p] = [pc |-> "scan", root |-> starts + 1, todo |-> ids,
                          arts |-> [i \in ids |-> [a \in Candidates(i) |-> artifacts[a]]],
                          report |-> <<>>, forced |-> forced, ignore |-> ignore]
  BY <1>1, ScanIs
<1>3. \A i \in ids : \A a \in Candidates(i) :
        /\ a \in DOMAIN artifacts /\ Item(a) = i /\ artifacts[a] \in ArtRow
        /\ Fits(artifacts[a].path, i) /\ artifacts[a].path[1] < starts + 1
  <2> SUFFICES ASSUME NEW i \in ids, NEW a \in Candidates(i)
               PROVE  /\ a \in DOMAIN artifacts /\ Item(a) = i /\ artifacts[a] \in ArtRow
                      /\ Fits(artifacts[a].path, i) /\ artifacts[a].path[1] < starts + 1
    OBVIOUS
  <2>1. PICK s \in SourceIds : ItemOf[s] = i /\ ArchivesOf(s) # {} /\ a = Newest(s)
    BY DEF Candidates
  <2>2. a \in ArchivesOf(s)
    BY <1>1, <2>1, NewestIn
  <2>3. a \in DOMAIN artifacts /\ artifacts[a].source = s
    BY <2>2 DEF ArchivesOf
  <2>4. Fits(artifacts[a].path, Item(a)) /\ artifacts[a].path[1] <= starts
    BY <2>3 DEF Steady, RowsFit
  <2>5. artifacts[a] \in ArtRow
    BY <1>1, <2>3 DEF RecrawlTypeOK, ArtRow
  <2>6. artifacts[a].path[1] \in Roots
    BY <2>5, PlacesFit DEF ArtRow
  <2>7. Item(a) = i
    BY <2>1, <2>3 DEF Item
  <2>8. starts \in Nat /\ Roots \subseteq Nat
    BY <1>1, RecrawlAssumption DEF RecrawlTypeOK, Roots
  <2>9. artifacts[a].path[1] < starts + 1
    <3> DEFINE r == artifacts[a].path[1]
    <3>1. r \in Nat /\ starts \in Nat /\ r <= starts
      BY <2>4, <2>6, <2>8
    <3> HIDE DEF r
    <3>2. r < starts + 1
      BY <3>1
    <3> QED
      BY <3>2 DEF r
  <2> QED
    BY <2>3, <2>4, <2>5, <2>7, <2>9
<1>4. ScriptTypeOK(p)'
  BY <1>1, <1>2, RecrawlAssumption DEF ScriptTypeOK, Roots
<1>5. (script[p].pc = "scan" =>
         /\ script[p].todo \subseteq DOMAIN script[p].arts
         /\ script[p].todo \cap DOMAIN script[p].report = {}
         /\ \A i \in script[p].todo : \A a \in DOMAIN script[p].arts[i] :
              /\ a \in DOMAIN artifacts /\ Item(a) = i
              /\ script[p].arts[i][a] \in ArtRow
              /\ Fits(script[p].arts[i][a].path, i) /\ script[p].arts[i][a].path[1] < script[p].root)'
  BY <1>1, <1>2, <1>3 DEF Item
<1>6. DOMAIN script'[p] = Fields /\ script'[p].root \in 1..starts'
  BY <1>1, <1>2 DEF Fields
<1>7. DOMAIN script'[p].report = {}
  BY <1>2
<1> QED
  BY <1>2, <1>4, <1>5, <1>6, <1>7 DEF ScriptType, Scanned

LEMMA ClassifiedOne ==
  ASSUME NEW arts, NEW a, DOMAIN arts = {a}
  PROVE  Classified(arts) = [art |-> a, path |-> arts[a].path,
           class |-> IF arts[a].state = "present" THEN Inspect(arts[a].path) ELSE "missing"]
<1>1. Cardinality(DOMAIN arts) = 1
  BY FS_Singleton
<1>2. (CHOOSE b \in DOMAIN arts : TRUE) = a
  OBVIOUS
<1> DEFINE c == CHOOSE b \in DOMAIN arts : TRUE
<1>3. Classified(arts) = [art |-> c, path |-> arts[c].path,
           class |-> IF arts[c].state = "present" THEN Inspect(arts[c].path) ELSE "missing"]
  BY <1>1, Zenon DEF Classified
<1> QED
  BY <1>2, <1>3

LEMMA ClassifiedIs ==
  ASSUME Steady, NEW p \in Scripts, script[p].pc = "scan", NEW i \in script[p].todo
  PROVE  LET e == Classified(script[p].arts[i])
             arts == script[p].arts[i]
         IN  /\ e \in EntryType /\ e.art \in DOMAIN artifacts \cup {None}
             /\ e.art # None => /\ DOMAIN arts = {e.art} /\ e.path = arts[e.art].path
                                /\ e.class = IF arts[e.art].state = "present"
                                             THEN Inspect(e.path) ELSE "missing"
             /\ e.art = None => e.class \in {"missing", "ambiguous"}
<1> DEFINE arts == script[p].arts[i]
<1>1. \A a \in DOMAIN arts : a \in DOMAIN artifacts /\ arts[a] \in ArtRow
  BY DEF Steady, ScriptType
<1>2. DOMAIN quality = 1..Len(quality) /\ Len(quality) \in Nat /\ Len(quality) <= MaxArchives
      /\ DOMAIN artifacts \subseteq DOMAIN quality
  BY DEF Steady, RecrawlTypeOK
<1>3. DOMAIN artifacts \subseteq 0..MaxArchives /\ None \in 0..MaxArchives /\ None \notin DOMAIN artifacts
  BY <1>2, RecrawlAssumption DEF None
<1>4. LibraryPath(NoItem) \in Places
  BY PlacesFit DEF LibraryPath, Places
<1>5. CASE Cardinality(DOMAIN arts) # 1
  <2>1. Classified(arts) = [art |-> None, path |-> LibraryPath(NoItem),
                            class |-> IF DOMAIN arts = {} THEN "missing" ELSE "ambiguous"]
    BY <1>5 DEF Classified
  <2> QED
    BY <2>1, <1>3, <1>4 DEF EntryType
<1>6. CASE Cardinality(DOMAIN arts) = 1
  <2>1. PICK a : DOMAIN arts = {a}
    <3>1. DOMAIN arts \subseteq 1..Len(quality) /\ IsFiniteSet(1..Len(quality))
      BY <1>1, <1>2, FS_Interval
    <3>2. IsFiniteSet(DOMAIN arts)
      BY <3>1, FS_Subset
    <3> QED
      BY <1>6, <3>2, FS_Singleton
  <2>2. (CHOOSE b \in DOMAIN arts : TRUE) = a
    BY <2>1
  <2>3. Classified(arts) = [art |-> a, path |-> arts[a].path,
           class |-> IF arts[a].state = "present" THEN Inspect(arts[a].path) ELSE "missing"]
    BY <2>1, ClassifiedOne
  <2>4. a \in DOMAIN artifacts /\ arts[a].path \in Places
    BY <1>1, <2>1 DEF ArtRow
  <2>5. Inspect(arts[a].path) \in Qualities \cup {"missing"}
    BY <2>4 DEF Steady, RecrawlTypeOK, Inspect
  <2> QED
    BY <2>1, <2>3, <2>4, <2>5, <1>3 DEF EntryType
<1> QED
  BY <1>5, <1>6

LEMMA ScanItemTyped ==
  ASSUME Steady, NEW p \in Scripts, ScanItem(p)
  PROVE  ScriptTypeOK(p)' /\ ScriptType(p)'
<1> DEFINE i == Current(p)
           e == Classified(script[p].arts[i])
           arts == script[p].arts[i]
<1>1. /\ RecrawlTypeOK /\ ScriptType(p) /\ ScriptTypeOK(p) /\ script[p].pc = "scan"
      /\ artifacts' = artifacts /\ starts' = starts
  BY DEF Steady, ScanItem, RecrawlTypeOK, counters
<1>2. i \in script[p].todo /\ i \in Items /\ script[p].todo \subseteq Items
  BY <1>1, LowestIn DEF ScanItem, Current, ScriptTypeOK
<1>3. /\ e \in EntryType /\ e.art \in DOMAIN artifacts \cup {None}
      /\ e.art # None => DOMAIN arts = {e.art} /\ e.path = arts[e.art].path
      /\ e.art = None => e.class \in {"missing", "ambiguous"}
  BY <1>1, <1>2, ClassifiedIs
<1>4. \A a \in DOMAIN arts : /\ a \in DOMAIN artifacts /\ Item(a) = i
                              /\ Fits(arts[a].path, i) /\ arts[a].path[1] < script[p].root
  BY <1>1, <1>2 DEF ScriptType
<1>5. /\ DOMAIN script'[p] = Fields /\ script'[p].pc = "scan" /\ script'[p].root = script[p].root
      /\ script'[p].todo = script[p].todo \ {i} /\ script'[p].arts = script[p].arts
      /\ script'[p].report = With(script[p].report, i, e)
      /\ script'[p].forced = script[p].forced /\ script'[p].ignore = script[p].ignore
  BY <1>1, ScanItemIs
<1> HIDE DEF e, i
<1>6. /\ DOMAIN script'[p].report = DOMAIN script[p].report \cup {i} /\ script'[p].report[i] = e
      /\ \A k \in DOMAIN script[p].report : k # i => script'[p].report[k] = script[p].report[k]
  <2> DEFINE r == script[p].report
  <2>1. /\ DOMAIN With(r, i, e) = DOMAIN r \cup {i} /\ With(r, i, e)[i] = e
        /\ \A k \in DOMAIN r : k # i => With(r, i, e)[k] = r[k]
    BY DEF With
  <2> QED
    BY <1>5, <2>1
<1>7. DOMAIN script'[p].report \subseteq Items
  BY <1>1, <1>2, <1>6 DEF ScriptType
<1>8. \A k \in DOMAIN script'[p].report :
        /\ script'[p].report[k] \in EntryType
        /\ script'[p].report[k].art \in DOMAIN artifacts \cup {None}
        /\ script'[p].report[k].art # None =>
             /\ Item(script'[p].report[k].art) = k
             /\ Fits(script'[p].report[k].path, k)
             /\ script'[p].report[k].path[1] < script[p].root
        /\ script'[p].report[k].art = None =>
             script'[p].report[k].class \in {"missing", "ambiguous"}
  <2> SUFFICES ASSUME NEW k \in DOMAIN script'[p].report
               PROVE  /\ script'[p].report[k] \in EntryType
                      /\ script'[p].report[k].art \in DOMAIN artifacts \cup {None}
                      /\ script'[p].report[k].art # None =>
                           /\ Item(script'[p].report[k].art) = k
                           /\ Fits(script'[p].report[k].path, k)
                           /\ script'[p].report[k].path[1] < script[p].root
                      /\ script'[p].report[k].art = None =>
                           script'[p].report[k].class \in {"missing", "ambiguous"}
    OBVIOUS
  <2>1. CASE k = i
    BY <2>1, <1>3, <1>4, <1>6
  <2>2. CASE k # i
    BY <2>2, <1>1, <1>6 DEF ScriptTypeOK, ScriptType
  <2> QED
    BY <2>1, <2>2
<1>9. \A a \in DOMAIN artifacts : Item(a)' = Item(a)
  BY <1>1 DEF Item
<1>10. ScriptTypeOK(p)'
  BY <1>1, <1>2, <1>5, <1>8 DEF ScriptTypeOK
<1>11. (\A k \in DOMAIN script[p].report : script[p].report[k].art # None =>
          /\ Item(script[p].report[k].art) = k
          /\ Fits(script[p].report[k].path, k) /\ script[p].report[k].path[1] < script[p].root)'
  BY <1>5, <1>8, <1>9
<1>12. /\ script'[p].todo \subseteq DOMAIN script'[p].arts
       /\ script'[p].todo \cap DOMAIN script'[p].report = {}
  BY <1>1, <1>5, <1>6 DEF ScriptType
<1>13. (\A k \in script[p].todo : \A a \in DOMAIN script[p].arts[k] :
            /\ a \in DOMAIN artifacts /\ Item(a) = k
            /\ script[p].arts[k][a] \in ArtRow
            /\ Fits(script[p].arts[k][a].path, k) /\ script[p].arts[k][a].path[1] < script[p].root)'
  BY <1>1, <1>5, <1>9 DEF ScriptType
<1>14. Alive(p) /\ script'[p].root \in 1..starts' /\ ~Scanned(p)'
  BY <1>1, <1>5 DEF ScriptType, Alive, Scanned
<1> QED
  BY <1>1, <1>5, <1>7, <1>8, <1>10, <1>11, <1>12, <1>13, <1>14 DEF ScriptType

\* A script that has its report keeps it to the end.
LEMMA ReportTyped ==
  ASSUME NEW p \in Scripts, RecrawlTypeOK, ScriptType(p), RowsGrow, Alive(p),
         DOMAIN script'[p] = Fields, script'[p].root = script[p].root,
         script'[p].report = script[p].report,
         script'[p].forced = script[p].forced, script'[p].ignore = script[p].ignore,
         script'[p].pc \in {"apply", "book", "pending"},
         script'[p].todo \subseteq DOMAIN script[p].report,
         script'[p].pc # "apply" => script'[p].todo # {} /\ Entry(p)'.art # None
  PROVE  ScriptTypeOK(p)' /\ ScriptType(p)'
<1>1. ScriptTypeOK(p)
  BY DEF RecrawlTypeOK
<1>2. \A a \in DOMAIN artifacts : a \in DOMAIN artifacts' /\ Item(a)' = Item(a)
  BY DEF RowsGrow, Item
<1>3. ScriptTypeOK(p)'
  BY <1>1 DEF ScriptTypeOK, ScriptType, RowsGrow
<1>4. \A i \in DOMAIN script[p].report : script[p].report[i].art # None =>
        script[p].report[i].art \in DOMAIN artifacts
  BY <1>1 DEF ScriptTypeOK
<1>5. (\A i \in DOMAIN script[p].report : script[p].report[i].art # None =>
         /\ Item(script[p].report[i].art) = i
         /\ Fits(script[p].report[i].path, i) /\ script[p].report[i].path[1] < script[p].root)'
  BY <1>2, <1>4 DEF ScriptType
<1>6. script'[p].root \in 1..starts'
  BY DEF RowsGrow, ScriptType
<1>7. script'[p].forced \in BOOLEAN /\ script'[p].ignore \in BOOLEAN
      /\ DOMAIN script'[p].report \subseteq Items
      /\ \A i \in DOMAIN script[p].report : script[p].report[i].art = None =>
           script[p].report[i].class \in {"missing", "ambiguous"}
  BY DEF ScriptType
<1> QED
  BY <1>3, <1>5, <1>6, <1>7 DEF ScriptType

LEMMA EndTyped ==
  ASSUME NEW p \in Scripts, RecrawlTypeOK, ScriptType(p), script' = [script EXCEPT ![p] = Off]
  PROVE  ScriptTypeOK(p)' /\ ScriptType(p)'
<1>1. script'[p] = Off
  BY EndIs
<1>2. ScriptTypeOK(p)'
  BY <1>1, RecrawlAssumption DEF ScriptTypeOK, Off, Roots
<1>3. ~Alive(p)' /\ ~Scanned(p)' /\ script'[p].pc = "off" /\ DOMAIN script'[p].report = {}
      /\ DOMAIN script'[p] = Fields /\ script'[p].forced \in BOOLEAN /\ script'[p].ignore \in BOOLEAN
  <2>1. DOMAIN Off = Fields /\ Off.pc = "off" /\ Off.forced = FALSE /\ Off.ignore = FALSE
        /\ Off.report = <<>>
    BY DEF Off, Fields
  <2>2. DOMAIN Off.report = {}
    BY <2>1
  <2> QED
    BY <1>1, <2>1, <2>2 DEF Alive, Scanned
<1> QED
  BY <1>2, <1>3 DEF ScriptType
-------------------------------------------------------------------------------
(* What holds whatever the scripts do together.                             *)

\* What the archives and rows keep when no step touches them.
LEMMA StoreSame ==
  ASSUME Steady, UNCHANGED <<artifacts, quality, disk, batch, status, byHand>>,
         starts' \in Nat, starts <= starts'
  PROVE  StoreTyped' /\ Placed' /\ RowsFit' /\ LibraryFits' /\ RowsGrow
<1>1. StoreTyped /\ Placed /\ RowsFit /\ LibraryFits /\ starts \in Nat
  BY TypeParts DEF Steady, BoundsTyped
<1>2. StoreTyped' /\ Placed' /\ LibraryFits'
  BY <1>1 DEF StoreTyped, Placed, LibraryFits, Item, LibraryPath
<1>3. RowsFit'
  <2> SUFFICES ASSUME NEW a \in DOMAIN artifacts
               PROVE  Fits(artifacts[a].path, Item(a)) /\ artifacts[a].path[1] <= starts'
    BY <1>1 DEF RowsFit, Item, Fits
  <2> DEFINE r == artifacts[a].path[1]
  <2>1. Fits(artifacts[a].path, Item(a)) /\ r <= starts
    BY <1>1 DEF RowsFit
  <2>2. r \in Nat
    BY <1>1, PlacesFit, RecrawlAssumption DEF StoreTyped, ArtRow, Roots
  <2> HIDE DEF r
  <2>3. r <= starts'
    BY <1>1, <2>1, <2>2
  <2> QED
    BY <2>1, <2>3 DEF r
<1> QED
  BY <1>1, <1>2, <1>3 DEF RowsGrow

LEMMA SteadyByScript ==
  ASSUME Steady, NEW p \in Scripts, Others(p), ScriptTypeOK(p)', ScriptType(p)', RowsGrow,
         StoreTyped', BoundsTyped', Placed', RowsFit', LibraryFits'
  PROVE  Steady'
<1>1. \A q \in Scripts : ScriptTypeOK(q)' /\ ScriptType(q)'
  <2> SUFFICES ASSUME NEW q \in Scripts, q # p PROVE ScriptTypeOK(q)' /\ ScriptType(q)'
    OBVIOUS
  <2>1. ScriptTypeOK(q) /\ ScriptType(q) /\ script'[q] = script[q]
    BY DEF Steady, RecrawlTypeOK, Others
  <2> QED
    BY <2>1, ScriptKeeps
<1>2. DOMAIN script' = Scripts
  BY DEF Steady, RecrawlTypeOK, Others
<1>3. RecrawlTypeOK'
  BY <1>1, <1>2, TypeParts
<1> QED
  BY <1>1, <1>3 DEF Steady

LEMMA SteadyByOthers ==
  ASSUME Steady, script' = script, RowsGrow,
         StoreTyped', BoundsTyped', Placed', RowsFit', LibraryFits'
  PROVE  Steady'
<1>1. \A q \in Scripts : ScriptTypeOK(q)' /\ ScriptType(q)'
  <2> SUFFICES ASSUME NEW q \in Scripts PROVE ScriptTypeOK(q)' /\ ScriptType(q)'
    OBVIOUS
  <2>1. ScriptTypeOK(q) /\ ScriptType(q) /\ script'[q] = script[q]
    BY DEF Steady, RecrawlTypeOK
  <2> QED
    BY <2>1, ScriptKeeps
<1>2. DOMAIN script' = Scripts
  BY DEF Steady, RecrawlTypeOK
<1>3. RecrawlTypeOK'
  BY <1>1, <1>2, TypeParts
<1> QED
  BY <1>1, <1>3 DEF Steady

\* What Steady says of the bounds.
LEMMA Bounds ==
  ASSUME Steady
  PROVE  /\ RecrawlTypeOK /\ StoreTyped /\ BoundsTyped /\ starts \in Nat
         /\ DOMAIN quality = 1..Len(quality) /\ Len(quality) \in Nat
         /\ None \notin DOMAIN quality /\ DOMAIN quality \subseteq 1..MaxArchives
         /\ \A p \in Scripts : ScriptTypeOK(p) /\ ScriptType(p)
<1>1. RecrawlTypeOK /\ StoreTyped /\ BoundsTyped
      /\ \A p \in Scripts : ScriptTypeOK(p) /\ ScriptType(p)
  BY TypeParts DEF Steady
<1>2. DOMAIN quality = 1..Len(quality) /\ Len(quality) \in Nat /\ Len(quality) <= MaxArchives
  BY <1>1 DEF StoreTyped
<1> QED
  BY <1>1, <1>2, RecrawlAssumption DEF None, BoundsTyped

\* The steps that only read.
LEMMA ReadingSteady ==
  ASSUME Steady, NEW p \in Scripts, ScanItem(p) \/ ApplyReport(p) \/ Pass(p) \/ End(p)
  PROVE  Steady'
<1>1. UNCHANGED <<status, artifacts, quality, disk, batch, counters, ghosts>>
  BY DEF ScanItem, ApplyReport, Pass, End
<1>2. RecrawlTypeOK /\ ScriptType(p) /\ ScriptTypeOK(p) /\ BoundsTyped /\ starts \in Nat
  BY Bounds
<1>3. StoreTyped' /\ Placed' /\ RowsFit' /\ LibraryFits' /\ RowsGrow /\ BoundsTyped'
  <2>1. starts' = starts /\ UNCHANGED <<artifacts, quality, disk, batch, status, byHand>>
    BY <1>1 DEF counters, ghosts
  <2>2. BoundsTyped'
    BY <1>1, <1>2 DEF BoundsTyped, counters, ghosts
  <2> QED
    BY <1>2, <2>1, <2>2, StoreSame
<1>4. CASE ScanItem(p)
  BY <1>2, <1>3, <1>4, ScanItemIs, ScanItemTyped, SteadyByScript
<1>5. CASE ApplyReport(p)
  <2>1. ScriptTypeOK(p)' /\ ScriptType(p)'
    BY <1>2, <1>3, <1>5, ApplyIs, ReportTyped DEF ApplyReport, Alive
  <2> QED
    BY <1>2, <1>3, <1>5, <2>1, ApplyIs, SteadyByScript
<1>6. CASE Pass(p)
  <2>1. NextEntry(p) /\ Scanned(p) /\ Alive(p)
    BY <1>6 DEF Pass, Applying, Scanned, Alive
  <2>2. script[p].todo \subseteq DOMAIN script[p].report
    BY <1>2, <2>1 DEF ScriptType
  <2>3. ScriptTypeOK(p)' /\ ScriptType(p)'
    BY <1>2, <1>3, <2>1, <2>2, NextEntryIs, ReportTyped
  <2> QED
    BY <1>2, <1>3, <2>1, <2>3, NextEntryIs, SteadyByScript
<1>7. CASE End(p)
  <2>1. ScriptTypeOK(p)' /\ ScriptType(p)'
    BY <1>2, <1>7, EndTyped DEF End
  <2> QED
    BY <1>2, <1>3, <1>7, <2>1, EndIs, SteadyByScript DEF End
<1> QED
  BY <1>4, <1>5, <1>6, <1>7

LEMMA ScanSteady ==
  ASSUME Steady, NEW p \in Scripts, NEW ids, NEW forced \in BOOLEAN, NEW ignore \in BOOLEAN,
         Scan(p, ids, forced, ignore)
  PROVE  Steady'
<1>1. /\ RecrawlTypeOK /\ ScriptType(p) /\ BoundsTyped /\ starts \in Nat
  BY Bounds
<1>2. /\ UNCHANGED <<status, artifacts, quality, disk, batch, failures, outside, strayed, byHand>>
      /\ starts' = starts + 1 /\ starts < MaxStarts /\ crowded' \in BOOLEAN
  BY DEF Scan
<1>3. starts' \in Nat /\ starts <= starts' /\ starts' <= MaxStarts
  BY <1>1, <1>2, RecrawlAssumption
<1>4. BoundsTyped'
  BY <1>1, <1>2, <1>3 DEF BoundsTyped
<1>5. StoreTyped' /\ Placed' /\ RowsFit' /\ LibraryFits' /\ RowsGrow
  BY <1>2, <1>3, StoreSame
<1>6. Others(p)
  BY <1>1, ScanIs
<1> QED
  BY <1>4, <1>5, <1>6, ScanTyped, SteadyByScript

\* What an archive is moved from, and to.
LEMMA MoveIs ==
  ASSUME Steady, NEW p \in Scripts, Move(p)
  PROVE  LET P == Entry(p).path
             D == Destination(p)
         IN  /\ P \in Places /\ D \in Places /\ P # D /\ D[1] = script[p].root /\ D[1] # Library
             /\ disk[D] = None /\ disk[P] # None
             /\ disk'[D] = disk[P] /\ disk'[P] = None
             /\ \A x \in Places : x # P /\ x # D => disk'[x] = disk[x]
             /\ disk' \in [Places -> DOMAIN quality \cup {None}]
             /\ Current(p) \in script[p].todo /\ Current(p) \in DOMAIN script[p].report
             /\ Entry(p) = script[p].report[Current(p)]
             /\ Entry(p).art \in DOMAIN artifacts /\ Entry(p).art # None
             /\ Entry(p).class \in Qualities /\ Inspect(P) = Entry(p).class
             /\ Item(Entry(p).art) = Current(p)
<1> DEFINE P == Entry(p).path
           D == Destination(p)
           i == Current(p)
<1>1. /\ RecrawlTypeOK /\ ScriptType(p) /\ ScriptTypeOK(p) /\ StoreTyped /\ BoundsTyped
      /\ starts \in Nat
  BY Bounds
<1>2. /\ script[p].pc = "apply" /\ script[p].todo # {} /\ ~Passed(p) /\ Entry(p).class # "missing"
      /\ disk' = [disk EXCEPT ![D] = disk[P], ![P] = None]
  BY DEF Move, Applying
<1>3. i \in script[p].todo /\ i \in DOMAIN script[p].report /\ Entry(p) = script[p].report[i]
  BY <1>1, <1>2, LowestIn DEF Current, Entry, ScriptType, ScriptTypeOK, Scanned
<1>4. Entry(p).class # "ambiguous" /\ Inspect(P) = Entry(p).class /\ disk[D] = None
  BY <1>2 DEF Passed, Still, Untaken, Vacant
<1>5. Entry(p) \in EntryType /\ Entry(p).art \in DOMAIN artifacts \cup {None}
  BY <1>1, <1>3 DEF ScriptTypeOK
<1>6. P \in Places /\ Entry(p).class \in Qualities
  BY <1>2, <1>4, <1>5 DEF EntryType
<1>7. Entry(p).art # None
  BY <1>1, <1>2, <1>3, <1>4 DEF ScriptType
<1>8. Item(Entry(p).art) = i /\ P[1] < script[p].root /\ script[p].root \in 1..starts
  BY <1>1, <1>2, <1>3, <1>7 DEF ScriptType, Alive
<1>9. script[p].root \in Roots /\ P[1] \in Roots /\ Roots \subseteq Nat
  BY <1>1, <1>6, PlacesFit, RecrawlAssumption DEF ScriptTypeOK, Roots
<1>10. D \in Places /\ D[1] = script[p].root
  BY <1>6, <1>9, PlacesFit DEF Destination
<1>11. P # D /\ D[1] # Library
  <2> DEFINE r == script[p].root
             l == P[1]
  <2>1. l \in Nat /\ r \in Nat /\ l < r
    BY <1>8, <1>9
  <2> HIDE DEF l, r
  <2>2. l # r /\ r # Library
    BY <2>1 DEF Library
  <2>3. l = P[1] /\ r = D[1]
    BY <1>10 DEF l, r
  <2> HIDE DEF P, D
  <2> QED
    BY <2>2, <2>3
<1>12. disk[P] # None
  BY <1>4, <1>6 DEF Inspect, Qualities
<1>13. disk \in [Places -> DOMAIN quality \cup {None}]
  BY <1>1 DEF StoreTyped
<1>14. /\ disk'[D] = disk[P] /\ disk'[P] = None
       /\ \A x \in Places : x # P /\ x # D => disk'[x] = disk[x]
       /\ disk' \in [Places -> DOMAIN quality \cup {None}]
  <2> HIDE DEF P, D
  <2> QED
    BY <1>2, <1>6, <1>10, <1>11, <1>13
<1> QED
  BY <1>3, <1>4, <1>5, <1>6, <1>7, <1>8, <1>10, <1>11, <1>12, <1>14

LEMMA MoveSteady ==
  ASSUME Steady, NEW p \in Scripts, Move(p)
  PROVE  Steady'
<1> DEFINE P == Entry(p).path
           D == Destination(p)
<1>1. /\ RecrawlTypeOK /\ ScriptType(p) /\ StoreTyped /\ BoundsTyped /\ starts \in Nat
      /\ Placed /\ RowsFit /\ LibraryFits
  BY Bounds DEF Steady
<1>2. /\ P \in Places /\ D \in Places /\ P # D /\ D[1] # Library
      /\ disk[D] = None /\ disk[P] # None /\ disk'[D] = disk[P] /\ disk'[P] = None
      /\ \A x \in Places : x # P /\ x # D => disk'[x] = disk[x]
      /\ disk' \in [Places -> DOMAIN quality \cup {None}]
      /\ Current(p) \in script[p].todo /\ Entry(p).art # None
  BY MoveIs
<1>3. /\ UNCHANGED <<status, artifacts, quality, batch, counters, ghosts>> /\ GoesTo(p, "book")
      /\ script[p].pc = "apply"
  BY DEF Move, Applying
<1>4. BoundsTyped' /\ RowsGrow /\ StoreTyped'
  BY <1>1, <1>2, <1>3 DEF BoundsTyped, RowsGrow, StoreTyped, counters, ghosts
<1>5. Placed'
  <2>1. \A x, y \in Places : disk'[x] = disk'[y] /\ disk'[x] # None => x = y
    <3> HIDE DEF P, D
    <3> QED
      BY <1>1, <1>2 DEF Placed
  <2>2. \A a \in DOMAIN quality : \E x \in Places : disk'[x] = a
    <3> SUFFICES ASSUME NEW a \in DOMAIN quality PROVE \E x \in Places : disk'[x] = a
      OBVIOUS
    <3>1. PICK x \in Places : disk[x] = a
      BY <1>1 DEF Placed
    <3>2. a # None
      BY Bounds
    <3> QED
      BY <1>2, <3>1, <3>2
  <2> QED
    BY <1>3, <2>1, <2>2 DEF Placed
<1>6. RowsFit'
  BY <1>1, <1>3 DEF RowsFit, Fits, Item, counters
<1>7. LibraryFits'
  <2>1. \A i \in Items : disk'[LibraryPath(i)] \in {disk[LibraryPath(i)], None}
    <3> SUFFICES ASSUME NEW i \in Items
                 PROVE  disk'[LibraryPath(i)] \in {disk[LibraryPath(i)], None}
      OBVIOUS
    <3> HIDE DEF P, D
    <3> DEFINE L == LibraryPath(i)
    <3>1. L \in Places /\ L[1] = Library
      BY PlacesFit
    <3> HIDE DEF L
    <3>2. L # D
      BY <1>2, <3>1
    <3>3. disk'[L] \in {disk[L], None}
      BY <1>2, <3>1, <3>2
    <3> QED
      BY <3>3 DEF L
  <2>2. None \notin DOMAIN artifacts /\ (batch.at = "packed" => batch.zip # None)
    BY <1>1, Bounds DEF StoreTyped
  <2>3. \A i \in Items :
          /\ disk'[LibraryPath(i)] \in DOMAIN artifacts => Item(disk'[LibraryPath(i)]) = i
          /\ batch.at = "packed" /\ disk'[LibraryPath(i)] = batch.zip => ItemOf[batch.source] = i
    BY <1>1, <2>1, <2>2 DEF LibraryFits
  <2>4. batch.at # "idle" /\ ItemOf[batch.source] \notin byHand
           => status[ItemOf[batch.source]] # "completed"
    BY <1>1 DEF LibraryFits
  <2> QED
    BY <1>3, <2>3, <2>4 DEF LibraryFits, Item, LibraryPath, ghosts
<1>8. Alive(p) /\ Scanned(p) /\ script[p].todo \subseteq DOMAIN script[p].report
  BY <1>1, <1>3 DEF Alive, Scanned, ScriptType
<1>9. /\ Others(p) /\ DOMAIN script'[p] = Fields
      /\ script'[p].pc = "book" /\ script'[p].root = script[p].root
      /\ script'[p].todo = script[p].todo /\ script'[p].report = script[p].report
      /\ script'[p].forced = script[p].forced /\ script'[p].ignore = script[p].ignore
  BY <1>1, <1>3, GoesToIs
<1>10. Entry(p)' = Entry(p)
  BY <1>9 DEF Entry
<1>11. ScriptTypeOK(p)' /\ ScriptType(p)'
  BY <1>1, <1>2, <1>4, <1>8, <1>9, <1>10, ReportTyped
<1> QED
  BY <1>4, <1>5, <1>6, <1>7, <1>9, <1>11, SteadyByScript

LEMMA BookSteady ==
  ASSUME Steady, NEW p \in Scripts, Book(p)
  PROVE  Steady'
<1> DEFINE a == Entry(p).art
           i == Current(p)
           P == Entry(p).path
           D == Destination(p)
<1>1. /\ RecrawlTypeOK /\ ScriptType(p) /\ ScriptTypeOK(p) /\ StoreTyped /\ BoundsTyped
      /\ starts \in Nat /\ Placed /\ RowsFit /\ LibraryFits
  BY Bounds DEF Steady
<1>2. /\ script[p].pc = "book" /\ script[p].todo # {} /\ Alive(p) /\ Scanned(p)
      /\ UNCHANGED <<status, quality, disk, batch, counters, ghosts>> /\ GoesTo(p, "pending")
      /\ artifacts' = [artifacts EXCEPT ![a].path = D, ![a].state = "present"]
  BY DEF Book, Applying, Alive, Scanned, Booking
<1>3. /\ i \in script[p].todo /\ i \in DOMAIN script[p].report /\ a # None
      /\ Entry(p) = script[p].report[i]
  BY <1>1, <1>2, LowestIn DEF Current, Entry, ScriptType, ScriptTypeOK
<1>4. a \in DOMAIN artifacts /\ Entry(p) \in EntryType /\ Item(a) = i /\ Fits(P, i)
      /\ script[p].root \in 1..starts
  BY <1>1, <1>2, <1>3 DEF ScriptTypeOK, ScriptType
<1>5. P \in Places /\ script[p].root \in Roots
  BY <1>1, <1>4 DEF EntryType, ScriptTypeOK
<1>6. /\ D \in Places /\ D[1] = script[p].root /\ (P[1] = Library => D[2] = P[2])
      /\ (P[1] # Library => D[2] = NoItem)
  BY <1>5, PlacesFit DEF Destination
<1>7. D[1] # Library /\ D[1] <= starts
  BY <1>1, <1>4, <1>6 DEF Library
<1>8. Fits(D, i)
  BY <1>4, <1>6, <1>7 DEF Fits
<1>9. /\ DOMAIN artifacts' = DOMAIN artifacts
      /\ \A b \in DOMAIN artifacts : b # a => artifacts'[b] = artifacts[b]
      /\ artifacts'[a].source = artifacts[a].source
      /\ artifacts'[a].path = D /\ artifacts'[a].state = "present"
      /\ artifacts'[a] \in ArtRow
  <2> HIDE DEF a, D
  <2>1. artifacts[a] \in ArtRow
    BY <1>1, <1>4 DEF StoreTyped
  <2> QED
    BY <1>2, <1>4, <1>6, <2>1 DEF ArtRow
<1>10. RowsGrow /\ \A b \in DOMAIN artifacts : Item(b)' = Item(b)
  BY <1>1, <1>2, <1>9 DEF RowsGrow, Item, counters
<1>11. BoundsTyped' /\ StoreTyped' /\ Placed'
  BY <1>1, <1>2, <1>9 DEF BoundsTyped, StoreTyped, Placed, counters, ghosts
<1>12. RowsFit'
  <2>1. \A b \in DOMAIN artifacts : Fits(artifacts'[b].path, Item(b)) /\ artifacts'[b].path[1] <= starts
    BY <1>1, <1>4, <1>7, <1>8, <1>9 DEF RowsFit
  <2> QED
    BY <1>1, <1>2, <1>9, <1>10, <2>1 DEF RowsFit, Fits, counters
<1>13. LibraryFits'
  BY <1>1, <1>2, <1>9, <1>10 DEF LibraryFits, LibraryPath, ghosts
<1>14. /\ Others(p) /\ DOMAIN script'[p] = Fields
      /\ script'[p].pc = "pending" /\ script'[p].root = script[p].root
      /\ script'[p].todo = script[p].todo /\ script'[p].report = script[p].report
      /\ script'[p].forced = script[p].forced /\ script'[p].ignore = script[p].ignore
  BY <1>1, <1>2, GoesToIs
<1>15. Entry(p)' = Entry(p) /\ script[p].todo \subseteq DOMAIN script[p].report
  BY <1>1, <1>2, <1>14 DEF Entry, ScriptType
<1>16. ScriptTypeOK(p)' /\ ScriptType(p)'
  BY <1>1, <1>2, <1>3, <1>10, <1>14, <1>15, ReportTyped
<1> QED
  BY <1>10, <1>11, <1>12, <1>13, <1>14, <1>16, SteadyByScript

LEMMA MarkMissingSteady ==
  ASSUME Steady, NEW p \in Scripts, MarkMissing(p)
  PROVE  Steady'
<1> DEFINE a == Entry(p).art
           i == Current(p)
<1>1. /\ RecrawlTypeOK /\ ScriptType(p) /\ ScriptTypeOK(p) /\ StoreTyped /\ BoundsTyped
      /\ starts \in Nat /\ Placed /\ RowsFit /\ LibraryFits
  BY Bounds DEF Steady
<1>2. /\ script[p].pc = "apply" /\ script[p].todo # {} /\ Alive(p) /\ Scanned(p)
      /\ UNCHANGED <<status, quality, disk, batch, counters, ghosts>> /\ GoesTo(p, "pending")
      /\ artifacts' = [artifacts EXCEPT ![a].state = "missing"] /\ a # None
  BY DEF MarkMissing, Applying, Alive, Scanned, Passed
<1>3. i \in script[p].todo /\ i \in DOMAIN script[p].report /\ Entry(p) = script[p].report[i]
  BY <1>1, <1>2, LowestIn DEF Current, Entry, ScriptType, ScriptTypeOK
<1>4. a \in DOMAIN artifacts
  BY <1>1, <1>2, <1>3 DEF ScriptTypeOK
<1>9. /\ DOMAIN artifacts' = DOMAIN artifacts
      /\ \A b \in DOMAIN artifacts : b # a => artifacts'[b] = artifacts[b]
      /\ artifacts'[a].source = artifacts[a].source
      /\ artifacts'[a].path = artifacts[a].path /\ artifacts'[a].state = "missing"
      /\ artifacts'[a] \in ArtRow
  <2> HIDE DEF a
  <2>1. artifacts[a] \in ArtRow
    BY <1>1, <1>4 DEF StoreTyped
  <2> QED
    BY <1>2, <1>4, <2>1 DEF ArtRow
<1>10. RowsGrow /\ \A b \in DOMAIN artifacts : Item(b)' = Item(b)
  BY <1>1, <1>2, <1>9 DEF RowsGrow, Item, counters
<1>11. BoundsTyped' /\ StoreTyped' /\ Placed'
  BY <1>1, <1>2, <1>9 DEF BoundsTyped, StoreTyped, Placed, counters, ghosts
<1>12. RowsFit'
  <2>1. \A b \in DOMAIN artifacts : Fits(artifacts'[b].path, Item(b)) /\ artifacts'[b].path[1] <= starts
    BY <1>1, <1>4, <1>9 DEF RowsFit
  <2> QED
    BY <1>1, <1>2, <1>9, <1>10, <2>1 DEF RowsFit, Fits, counters
<1>13. LibraryFits'
  BY <1>1, <1>2, <1>9, <1>10 DEF LibraryFits, LibraryPath, ghosts
<1>14. /\ Others(p) /\ DOMAIN script'[p] = Fields
      /\ script'[p].pc = "pending" /\ script'[p].root = script[p].root
      /\ script'[p].todo = script[p].todo /\ script'[p].report = script[p].report
      /\ script'[p].forced = script[p].forced /\ script'[p].ignore = script[p].ignore
  BY <1>1, <1>2, GoesToIs
<1>15. Entry(p)' = Entry(p) /\ script[p].todo \subseteq DOMAIN script[p].report
  BY <1>1, <1>2, <1>14 DEF Entry, ScriptType
<1>16. ScriptTypeOK(p)' /\ ScriptType(p)'
  BY <1>1, <1>2, <1>3, <1>10, <1>14, <1>15, ReportTyped
<1> QED
  BY <1>10, <1>11, <1>12, <1>13, <1>14, <1>16, SteadyByScript

LEMMA MarkPendingSteady ==
  ASSUME Steady, NEW p \in Scripts, MarkPending(p)
  PROVE  Steady'
<1> DEFINE i == Current(p)
<1>1. /\ RecrawlTypeOK /\ ScriptType(p) /\ ScriptTypeOK(p) /\ StoreTyped /\ BoundsTyped
      /\ starts \in Nat /\ Placed /\ RowsFit /\ LibraryFits
  BY Bounds DEF Steady
<1>2. /\ script[p].pc = "pending" /\ script[p].todo # {} /\ Alive(p) /\ Scanned(p)
      /\ UNCHANGED <<artifacts, quality, disk, batch, counters, ghosts>> /\ NextEntry(p)
      /\ status' = [status EXCEPT ![i] = "pending"]
  BY DEF MarkPending, Applying, Alive, Scanned, Current
<1>3. RowsGrow /\ BoundsTyped' /\ Placed' /\ RowsFit'
  BY <1>1, <1>2 DEF RowsGrow, BoundsTyped, Placed, RowsFit, Item, Fits, counters, ghosts
<1>4. StoreTyped'
  BY <1>1, <1>2 DEF StoreTyped, Statuses
<1>5. LibraryFits'
  BY <1>1, <1>2 DEF LibraryFits, LibraryPath, Item, ghosts, StoreTyped
<1>6. script[p].todo \subseteq DOMAIN script[p].report
  BY <1>1, <1>2 DEF ScriptType
<1>7. ScriptTypeOK(p)' /\ ScriptType(p)'
  BY <1>1, <1>2, <1>3, <1>6, NextEntryIs, ReportTyped
<1> QED
  BY <1>1, <1>2, <1>3, <1>4, <1>5, <1>7, NextEntryIs, SteadyByScript

\* A failing write, and a killed process.
LEMMA UnbookedTyped ==
  ASSUME Steady, NEW p \in Scripts, WriteFails(p) \/ Killed(p)
  PROVE  BoundsTyped' /\ RowsGrow /\ StoreTyped' /\ Placed' /\ RowsFit' /\ LibraryFits'
<1>1. /\ BoundsTyped /\ ScriptType(p) /\ ScriptTypeOK(p) /\ starts \in Nat
      /\ DOMAIN artifacts \subseteq DOMAIN quality /\ DOMAIN quality \subseteq 1..MaxArchives
  BY Bounds DEF StoreTyped
<1>2. /\ UNCHANGED <<status, artifacts, quality, disk, batch, starts, outside, byHand, crowded>>
      /\ failures < MaxFailures /\ failures' = failures + 1 /\ Unbooked(p)
  BY DEF WriteFails, Killed, Failure
<1>3. failures' \in 0..MaxFailures
  BY <1>1, <1>2, RecrawlAssumption DEF BoundsTyped
<1>4. strayed' \subseteq DOMAIN artifacts
  <2>1. CASE script[p].pc # "book"
    BY <1>1, <1>2, <2>1 DEF Unbooked, BoundsTyped
  <2>2. CASE script[p].pc = "book"
    <3>1. Entry(p) = script[p].report[Current(p)] /\ Current(p) \in DOMAIN script[p].report
      BY <1>1, <2>2, LowestIn DEF Entry, Current, ScriptType, ScriptTypeOK, Scanned
    <3>2. Entry(p).art \in DOMAIN artifacts
      BY <1>1, <2>2, <3>1 DEF ScriptTypeOK, ScriptType
    <3> QED
      BY <1>1, <1>2, <2>2, <3>2 DEF Unbooked, BoundsTyped
  <2> QED
    BY <2>1, <2>2
<1>5. BoundsTyped'
  BY <1>1, <1>2, <1>3, <1>4 DEF BoundsTyped
<1> QED
  BY <1>1, <1>2, <1>5, StoreSame

LEMMA FailingSteady ==
  ASSUME Steady, NEW p \in Scripts, WriteFails(p) \/ Killed(p)
  PROVE  Steady'
<1>1. RecrawlTypeOK /\ ScriptType(p)
  BY Bounds
<1>2. BoundsTyped' /\ RowsGrow /\ StoreTyped' /\ Placed' /\ RowsFit' /\ LibraryFits'
  BY UnbookedTyped
<1>3. CASE WriteFails(p)
  <2>1. NextEntry(p) /\ Scanned(p) /\ Alive(p)
    BY <1>3 DEF WriteFails, Applying, Scanned, Alive
  <2>2. script[p].todo \subseteq DOMAIN script[p].report
    BY <1>1, <2>1 DEF ScriptType
  <2>3. ScriptTypeOK(p)' /\ ScriptType(p)'
    BY <1>1, <1>2, <2>1, <2>2, NextEntryIs, ReportTyped
  <2> QED
    BY <1>1, <1>2, <2>1, <2>3, NextEntryIs, SteadyByScript
<1>4. CASE Killed(p)
  <2>1. ScriptTypeOK(p)' /\ ScriptType(p)'
    BY <1>1, <1>4, EndTyped DEF Killed
  <2> QED
    BY <1>1, <1>2, <1>4, <2>1, EndIs, SteadyByScript DEF Killed
<1> QED
  BY <1>3, <1>4

\* The batch, an operator and a disk.
LEMMA BatchTakesSteady ==
  ASSUME Steady, NEW s \in SourceIds, BatchTakes(s)
  PROVE  Steady'
<1>1. /\ StoreTyped /\ BoundsTyped /\ starts \in Nat /\ Placed /\ RowsFit /\ LibraryFits
  BY Bounds DEF Steady
<1>2. /\ status[ItemOf[s]] = "pending" /\ Len(quality) < MaxArchives
      /\ batch' = [source |-> s, at |-> "crawl", zip |-> None]
      /\ UNCHANGED <<status, artifacts, quality, disk, script, counters, ghosts>>
  BY DEF BatchTakes
<1>3. batch'.source = s /\ batch'.at = "crawl" /\ batch'.zip = None
  BY <1>2
<1>4. batch' \in [source : SourceIds, at : {"crawl", "packed"}, zip : 0..MaxArchives]
  BY <1>2, RecrawlAssumption DEF None
<1>5. StoreTyped' /\ BoundsTyped' /\ RowsGrow /\ Placed'
  BY <1>1, <1>2, <1>3, <1>4 DEF StoreTyped, BoundsTyped, RowsGrow, Placed, counters, ghosts
<1>6. RowsFit'
  BY <1>1, <1>2, <1>3 DEF RowsFit, Item, Fits, counters
<1>7. LibraryFits'
  BY <1>1, <1>2, <1>3 DEF LibraryFits, LibraryPath, Item, ghosts
<1> QED
  BY <1>2, <1>5, <1>6, <1>7, SteadyByOthers

\* What a batch archives, and where.
LEMMA PackIs ==
  ASSUME Steady, NEW q \in {"preferred", "fallback"}, BatchPack(q)
  PROVE  LET L == LibraryPath(ItemOf[batch.source])
             z == Len(quality) + 1
         IN  /\ batch.source \in SourceIds /\ ItemOf[batch.source] \in Items
             /\ L \in Places /\ L[1] = Library /\ disk[L] = None
             /\ quality' \in Seq(Qualities) /\ Len(quality') = z /\ z <= MaxArchives /\ z \in Nat
             /\ DOMAIN quality' = DOMAIN quality \cup {z} /\ z \notin DOMAIN quality /\ z # None
             /\ \A a \in DOMAIN quality : quality'[a] = quality[a]
             /\ disk'[L] = z /\ \A x \in Places : x # L => disk'[x] = disk[x]
             /\ disk' \in [Places -> DOMAIN quality' \cup {None}]
             /\ batch' \in [source : SourceIds, at : {"crawl", "packed"}, zip : 0..MaxArchives]
             /\ batch'.source = batch.source /\ batch'.at = "packed" /\ batch'.zip = z
<1> DEFINE L == LibraryPath(ItemOf[batch.source])
           z == Len(quality) + 1
<1>1. /\ StoreTyped /\ RowsFit /\ DOMAIN quality = 1..Len(quality) /\ Len(quality) \in Nat
  BY Bounds DEF Steady
<1>2. /\ batch.at = "crawl" /\ disk[L] = None /\ quality' = Append(quality, q)
      /\ disk' = [disk EXCEPT ![L] = Len(quality')]
      /\ batch' = [batch EXCEPT !.at = "packed", !.zip = Len(quality')]
  BY DEF BatchPack, Vacant
<1>3. batch \in [source : SourceIds, at : {"crawl", "packed"}, zip : 0..MaxArchives]
  BY <1>1, <1>2 DEF StoreTyped, NoBatch
<1>4. batch.source \in SourceIds /\ ItemOf[batch.source] \in Items
  BY <1>3, RecrawlAssumption
<1>5. L \in Places /\ L[1] = Library
  BY <1>4, PlacesFit
<1>6. /\ quality' \in Seq(Qualities) /\ Len(quality') = z /\ DOMAIN quality' = 1..z
      /\ \A a \in DOMAIN quality : quality'[a] = quality[a]
  BY <1>1, <1>2 DEF StoreTyped, Qualities
<1>7. z \in Nat /\ z <= MaxArchives /\ z # None /\ z \notin DOMAIN quality
      /\ DOMAIN quality' = DOMAIN quality \cup {z}
  BY <1>1, <1>2, <1>6, RecrawlAssumption DEF RowsFit, None
<1>8. disk \in [Places -> DOMAIN quality \cup {None}]
  BY <1>1 DEF StoreTyped
<1> HIDE DEF L, z
<1>9. /\ disk'[L] = z /\ \A x \in Places : x # L => disk'[x] = disk[x]
      /\ disk' \in [Places -> DOMAIN quality' \cup {None}]
  BY <1>2, <1>5, <1>6, <1>7, <1>8
<1>10. z \in 0..MaxArchives
  BY <1>7, RecrawlAssumption
<1>11. /\ batch' \in [source : SourceIds, at : {"crawl", "packed"}, zip : 0..MaxArchives]
       /\ batch'.source = batch.source /\ batch'.at = "packed" /\ batch'.zip = z
  BY <1>2, <1>3, <1>6, <1>10
<1> QED
  BY <1>2, <1>4, <1>5, <1>6, <1>7, <1>9, <1>11 DEF L, z

LEMMA BatchPackSteady ==
  ASSUME Steady, NEW q \in {"preferred", "fallback"}, BatchPack(q)
  PROVE  Steady'
<1> DEFINE I == ItemOf[batch.source]
           L == LibraryPath(I)
           z == Len(quality) + 1
<1>1. /\ StoreTyped /\ BoundsTyped /\ starts \in Nat /\ Placed /\ RowsFit /\ LibraryFits
      /\ DOMAIN artifacts \subseteq DOMAIN quality /\ None \notin DOMAIN quality
  BY Bounds DEF Steady, StoreTyped
<1>2. /\ I \in Items /\ L \in Places /\ L[1] = Library /\ disk[L] = None
      /\ quality' \in Seq(Qualities) /\ Len(quality') = z /\ z <= MaxArchives
      /\ DOMAIN quality' = DOMAIN quality \cup {z} /\ z \notin DOMAIN quality /\ z # None
      /\ disk'[L] = z /\ \A x \in Places : x # L => disk'[x] = disk[x]
      /\ disk' \in [Places -> DOMAIN quality' \cup {None}]
      /\ batch' \in [source : SourceIds, at : {"crawl", "packed"}, zip : 0..MaxArchives]
      /\ batch'.source = batch.source /\ batch'.at = "packed" /\ batch'.zip = z
  BY PackIs
<1>3. batch.at = "crawl" /\ UNCHANGED <<status, artifacts, script, counters, ghosts>>
  BY DEF BatchPack
<1>4. StoreTyped'
  BY <1>1, <1>2, <1>3 DEF StoreTyped
<1>5. BoundsTyped' /\ RowsGrow
  BY <1>1, <1>3 DEF BoundsTyped, RowsGrow, counters, ghosts
<1>6. \A x \in Places : disk[x] \in DOMAIN quality \cup {None}
  BY <1>1 DEF StoreTyped
<1>7. Placed'
  <2>1. \A x, y \in Places : disk'[x] = disk'[y] /\ disk'[x] # None => x = y
    <3> HIDE DEF L, z
    <3> QED
      BY <1>1, <1>2, <1>6 DEF Placed
  <2>2. \A a \in DOMAIN quality' : \E x \in Places : disk'[x] = a
    <3> SUFFICES ASSUME NEW a \in DOMAIN quality' PROVE \E x \in Places : disk'[x] = a
      OBVIOUS
    <3> HIDE DEF L, z
    <3>1. CASE a = z
      BY <1>2, <3>1
    <3>2. CASE a # z
      <4>1. a \in DOMAIN quality
        BY <1>2, <3>2
      <4>2. PICK x \in Places : disk[x] = a
        BY <1>1, <4>1 DEF Placed
      <4> QED
        BY <1>1, <1>2, <4>1, <4>2
    <3> QED
      BY <3>1, <3>2
  <2> QED
    BY <2>1, <2>2 DEF Placed
<1>8. RowsFit'
  <2>1. z \notin DOMAIN artifacts
    BY <1>1, <1>2
  <2> QED
    BY <1>1, <1>2, <1>3, <2>1 DEF RowsFit, Item, Fits, counters
<1>9. LibraryFits'
  <2>1. \A i \in Items : i # I => disk'[LibraryPath(i)] = disk[LibraryPath(i)]
    BY <1>2, PlacesFit
  <2>2. \A i \in Items : disk[LibraryPath(i)] # z
    BY <1>2, <1>6, PlacesFit
  <2>3. \A i \in Items :
          /\ disk'[LibraryPath(i)] \in DOMAIN artifacts => Item(disk'[LibraryPath(i)]) = i
          /\ disk'[LibraryPath(i)] = z => I = i
    <3> SUFFICES ASSUME NEW i \in Items
                 PROVE  /\ disk'[LibraryPath(i)] \in DOMAIN artifacts
                             => Item(disk'[LibraryPath(i)]) = i
                        /\ disk'[LibraryPath(i)] = z => I = i
      OBVIOUS
    <3>1. CASE i = I
      BY <1>1, <1>2, <3>1
    <3>2. CASE i # I
      BY <1>1, <2>1, <2>2, <3>2 DEF LibraryFits
    <3> QED
      BY <3>1, <3>2
  <2>4. I \notin byHand => status[I] # "completed"
    BY <1>1, <1>3 DEF LibraryFits
  <2> QED
    BY <1>2, <1>3, <2>3, <2>4 DEF LibraryFits, LibraryPath, Item, ghosts
<1> QED
  BY <1>3, <1>4, <1>5, <1>7, <1>8, <1>9, SteadyByOthers

\* The new row.
LEMMA FinalizeIs ==
  ASSUME Steady, BatchFinalize
  PROVE  LET I == ItemOf[batch.source]
             z == batch.zip
         IN  /\ batch.source \in SourceIds /\ I \in Items
             /\ z = Len(quality) /\ z \in DOMAIN quality /\ z \notin DOMAIN artifacts /\ z # None
             /\ DOMAIN artifacts' = DOMAIN artifacts \cup {z}
             /\ \A b \in DOMAIN artifacts : artifacts'[b] = artifacts[b]
             /\ artifacts'[z].source = batch.source /\ artifacts'[z].path = LibraryPath(I)
             /\ artifacts'[z].state = "present" /\ artifacts'[z] \in ArtRow
             /\ batch' = NoBatch /\ batch'.at = "idle" /\ batch'.zip = None
             /\ status' = [status EXCEPT ![I] = "completed"]
             /\ batch.at = "packed" /\ UNCHANGED <<quality, disk, script, counters, ghosts>>
<1> DEFINE I == ItemOf[batch.source]
           z == batch.zip
           new == [source |-> batch.source, path |-> LibraryPath(I), state |-> "present"]
<1>1. /\ StoreTyped /\ RowsFit /\ DOMAIN quality = 1..Len(quality) /\ Len(quality) \in Nat
  BY Bounds DEF Steady
<1>2. /\ batch.at = "packed" /\ UNCHANGED <<quality, disk, script, counters, ghosts>>
      /\ artifacts' = With(artifacts, z, new)
      /\ status' = [status EXCEPT ![I] = "completed"] /\ batch' = NoBatch
  BY DEF BatchFinalize, BatchEnds
<1>3. batch \in [source : SourceIds, at : {"crawl", "packed"}, zip : 0..MaxArchives]
  BY <1>1, <1>2 DEF StoreTyped, NoBatch
<1>4. batch.source \in SourceIds /\ I \in Items /\ z \in Nat /\ z # None
  BY <1>1, <1>2, <1>3, RecrawlAssumption DEF StoreTyped
<1>5. z = Len(quality) /\ z \notin DOMAIN artifacts /\ z \in DOMAIN quality
  BY <1>1, <1>2, <1>4 DEF RowsFit, None
<1>6. new \in ArtRow /\ new.source = batch.source /\ new.path = LibraryPath(I)
      /\ new.state = "present"
  BY <1>4, PlacesFit DEF ArtRow
<1> HIDE DEF new
<1>7. /\ DOMAIN artifacts' = DOMAIN artifacts \cup {z} /\ artifacts'[z] = new
      /\ \A b \in DOMAIN artifacts : artifacts'[b] = artifacts[b]
  BY <1>2, <1>5 DEF With
<1>8. batch'.at = "idle" /\ batch'.zip = None
  BY <1>2 DEF NoBatch
<1> QED
  BY <1>2, <1>4, <1>5, <1>6, <1>7, <1>8

LEMMA FinalizeSteady ==
  ASSUME Steady, BatchFinalize
  PROVE  Steady'
<1> DEFINE I == ItemOf[batch.source]
<1> PICK z : z = batch.zip
  OBVIOUS
<1>1. /\ StoreTyped /\ BoundsTyped /\ starts \in Nat /\ Placed /\ RowsFit /\ LibraryFits
  BY Bounds DEF Steady
<1>2. /\ I \in Items
      /\ z = Len(quality) /\ z \in DOMAIN quality /\ z \notin DOMAIN artifacts
      /\ DOMAIN artifacts' = DOMAIN artifacts \cup {z}
      /\ \A b \in DOMAIN artifacts : artifacts'[b] = artifacts[b]
      /\ artifacts'[z].source = batch.source /\ artifacts'[z].path = LibraryPath(I)
      /\ artifacts'[z].state = "present" /\ artifacts'[z] \in ArtRow
      /\ batch' = NoBatch /\ batch'.at = "idle" /\ batch'.zip = None
      /\ status' = [status EXCEPT ![I] = "completed"]
      /\ batch.at = "packed" /\ UNCHANGED <<quality, disk, script, counters, ghosts>>
  BY FinalizeIs
<1>3. status' \in [Items -> Statuses]
  BY <1>1, <1>2 DEF StoreTyped, Statuses
<1>4. StoreTyped'
  BY <1>1, <1>2, <1>3 DEF StoreTyped
<1>5. BoundsTyped' /\ RowsGrow /\ Placed'
  BY <1>1, <1>2 DEF BoundsTyped, RowsGrow, Placed, counters, ghosts
<1>6. \A b \in DOMAIN artifacts : Item(b)' = Item(b)
  BY <1>2 DEF Item
<1>7. Item(z)' = I
  BY <1>2 DEF Item
<1>8. RowsFit'
  <2>1. Fits(LibraryPath(I), I) /\ LibraryPath(I)[1] <= starts
    BY <1>1, <1>2, PlacesFit DEF Fits, Library
  <2>2. \A b \in DOMAIN artifacts' :
           Fits(artifacts'[b].path, Item(b)') /\ artifacts'[b].path[1] <= starts
    <3> SUFFICES ASSUME NEW b \in DOMAIN artifacts'
                 PROVE  Fits(artifacts'[b].path, Item(b)') /\ artifacts'[b].path[1] <= starts
      OBVIOUS
    <3>1. CASE b = z
      BY <1>2, <1>7, <2>1, <3>1
    <3>2. CASE b # z
      BY <1>1, <1>2, <1>6, <3>2 DEF RowsFit
    <3> QED
      BY <3>1, <3>2
  <2> QED
    BY <1>2, <2>2 DEF RowsFit, Fits, counters
<1>9. LibraryFits'
  <2>1. \A i \in Items : disk[LibraryPath(i)] \in DOMAIN artifacts'
           => Item(disk[LibraryPath(i)])' = i
    <3> SUFFICES ASSUME NEW i \in Items, disk[LibraryPath(i)] \in DOMAIN artifacts'
                 PROVE  (Item(disk[LibraryPath(i)]) = i)'
      BY <1>2
    <3>1. disk' = disk /\ LibraryPath(i)' = LibraryPath(i)
      BY <1>2 DEF LibraryPath
    <3>2. CASE disk[LibraryPath(i)] = z
      BY <1>1, <1>2, <1>7, <3>1, <3>2 DEF LibraryFits, Item
    <3>3. CASE disk[LibraryPath(i)] # z
      BY <1>1, <1>2, <3>1, <3>3 DEF LibraryFits, Item
    <3> QED
      BY <3>2, <3>3
  <2> QED
    BY <1>2, <2>1 DEF LibraryFits, LibraryPath, Item
<1> QED
  BY <1>2, <1>4, <1>5, <1>8, <1>9, SteadyByOthers

LEMMA BatchFailsSteady ==
  ASSUME Steady, BatchFails
  PROVE  Steady'
<1>1. /\ StoreTyped /\ BoundsTyped /\ starts \in Nat /\ Placed /\ RowsFit /\ LibraryFits
  BY Bounds DEF Steady
<1>2. /\ batch' = NoBatch /\ failures < MaxFailures /\ failures' = failures + 1
      /\ UNCHANGED <<status, artifacts, quality, disk, script, starts, outside, ghosts>>
  BY DEF BatchFails, BatchEnds, Failure
<1>3. batch'.at = "idle" /\ batch'.zip = None
  BY <1>2 DEF NoBatch
<1>4. failures' \in 0..MaxFailures
  BY <1>1, <1>2, RecrawlAssumption DEF BoundsTyped
<1>5. StoreTyped' /\ BoundsTyped' /\ RowsGrow /\ Placed'
  BY <1>1, <1>2, <1>3, <1>4 DEF StoreTyped, BoundsTyped, RowsGrow, Placed, ghosts
<1>6. RowsFit' /\ LibraryFits'
  BY <1>1, <1>2, <1>3 DEF RowsFit, LibraryFits, LibraryPath, Item, Fits
<1> QED
  BY <1>2, <1>5, <1>6, SteadyByOthers

LEMMA ItemStatusSteady ==
  ASSUME Steady, NEW i \in Items, NEW s \in Statuses, ItemStatus(i, s)
  PROVE  Steady'
<1>1. /\ StoreTyped /\ BoundsTyped /\ starts \in Nat /\ Placed /\ RowsFit /\ LibraryFits
  BY Bounds DEF Steady
<1>2. /\ status' = [status EXCEPT ![i] = s] /\ byHand' = byHand \cup {i}
      /\ outside < MaxOutside /\ outside' = outside + 1
      /\ UNCHANGED <<artifacts, quality, disk, batch, script, starts, failures, strayed, crowded>>
  BY DEF ItemStatus, Outside
<1>3. outside' \in 0..MaxOutside
  BY <1>1, <1>2, RecrawlAssumption DEF BoundsTyped
<1>4. StoreTyped' /\ BoundsTyped' /\ RowsGrow /\ Placed'
  BY <1>1, <1>2, <1>3 DEF StoreTyped, BoundsTyped, RowsGrow, Placed
<1>5. RowsFit'
  BY <1>1, <1>2 DEF RowsFit, Item, Fits
<1>6. LibraryFits'
  <2>1. \A k \in Items : k \notin byHand' => k \notin byHand /\ status'[k] = status[k]
    BY <1>1, <1>2 DEF StoreTyped
  <2>2. batch.at # "idle" => ItemOf[batch.source] \in Items
    BY <1>1, RecrawlAssumption DEF StoreTyped, NoBatch
  <2>3. batch.at # "idle" /\ ItemOf[batch.source] \notin byHand'
           => status'[ItemOf[batch.source]] # "completed"
    BY <1>1, <2>1, <2>2 DEF LibraryFits
  <2> QED
    BY <1>1, <1>2, <2>3 DEF LibraryFits, LibraryPath, Item
<1> QED
  BY <1>2, <1>4, <1>5, <1>6, SteadyByOthers

LEMMA SpoilSteady ==
  ASSUME Steady, NEW a \in DOMAIN quality, Spoil(a)
  PROVE  Steady'
<1>1. /\ StoreTyped /\ BoundsTyped /\ starts \in Nat /\ Placed /\ RowsFit /\ LibraryFits
  BY Bounds DEF Steady
<1>2. /\ quality' = [quality EXCEPT ![a] = "broken"]
      /\ outside < MaxOutside /\ outside' = outside + 1
      /\ UNCHANGED <<status, artifacts, disk, batch, script, starts, failures, ghosts>>
  BY DEF Spoil, Outside
<1>3. outside' \in 0..MaxOutside
  BY <1>1, <1>2, RecrawlAssumption DEF BoundsTyped
<1>4. quality' \in Seq(Qualities) /\ Len(quality') = Len(quality) /\ DOMAIN quality' = DOMAIN quality
  BY <1>1, <1>2 DEF StoreTyped, Qualities
<1>5. StoreTyped' /\ BoundsTyped' /\ RowsGrow /\ Placed'
  BY <1>1, <1>2, <1>3, <1>4 DEF StoreTyped, BoundsTyped, RowsGrow, Placed, ghosts
<1>6. RowsFit' /\ LibraryFits'
  BY <1>1, <1>2, <1>4 DEF RowsFit, LibraryFits, LibraryPath, Item, Fits, ghosts
<1> QED
  BY <1>2, <1>5, <1>6, SteadyByOthers

LEMMA SteadyStep ==
  ASSUME Steady, RecrawlNext
  PROVE  Steady'
<1>1. CASE \E p \in Scripts : Script(p) \/ WriteFails(p) \/ Killed(p)
  <2>1. PICK p \in Scripts : Script(p) \/ WriteFails(p) \/ Killed(p)
    BY <1>1
  <2>2. CASE \E ids \in SUBSET Items, forced, ignore \in BOOLEAN : Scan(p, ids, forced, ignore)
    BY <2>2, ScanSteady
  <2>3. CASE ScanItem(p) \/ ApplyReport(p) \/ Pass(p) \/ End(p)
    BY <2>3, ReadingSteady
  <2>4. CASE Move(p) \/ Book(p) \/ MarkMissing(p) \/ MarkPending(p)
    BY <2>4, MoveSteady, BookSteady, MarkMissingSteady, MarkPendingSteady
  <2>5. CASE WriteFails(p) \/ Killed(p)
    BY <2>5, FailingSteady
  <2> QED
    BY <2>1, <2>2, <2>3, <2>4, <2>5 DEF Script
<1>2. CASE Batch \/ BatchFails
  BY <1>2, BatchTakesSteady, BatchPackSteady, FinalizeSteady, BatchFailsSteady DEF Batch
<1>3. CASE \E i \in Items, s \in Statuses : ItemStatus(i, s)
  BY <1>3, ItemStatusSteady
<1>4. CASE \E a \in DOMAIN quality : Spoil(a)
  BY <1>4, SpoilSteady
<1> QED
  BY <1>1, <1>2, <1>3, <1>4 DEF RecrawlNext

LEMMA StepOthers ==
  ASSUME NEW p \in Scripts, RecrawlTypeOK, ScriptType(p), Script(p) \/ WriteFails(p) \/ Killed(p)
  PROVE  Others(p)
<1>1. CASE \E ids \in SUBSET Items, forced, ignore \in BOOLEAN : Scan(p, ids, forced, ignore)
  BY <1>1, ScanIs
<1>2. CASE ScanItem(p) \/ ApplyReport(p)
  BY <1>2, ScanItemIs, ApplyIs
<1>3. CASE Pass(p) \/ MarkPending(p) \/ WriteFails(p)
  BY <1>3, NextEntryIs DEF Pass, MarkPending, WriteFails
<1>4. CASE Move(p) \/ Book(p) \/ MarkMissing(p)
  BY <1>4, GoesToIs DEF Move, Book, MarkMissing
<1>5. CASE End(p) \/ Killed(p)
  BY <1>5, EndIs DEF End, Killed
<1> QED
  BY <1>1, <1>2, <1>3, <1>4, <1>5 DEF Script

LEMMA SteadyInit ==
  ASSUME RecrawlInit
  PROVE  Steady
<1>1. /\ StoreTyped /\ BoundsTyped /\ DOMAIN script = Scripts
      /\ \A p \in Scripts : script[p] = Off
  <2>1. quality \in Seq(Qualities) /\ Len(quality) = 0 /\ Len(quality) <= MaxArchives
        /\ DOMAIN artifacts = {}
    BY RecrawlAssumption DEF RecrawlInit
  <2>2. batch = NoBatch /\ batch.at = "idle" /\ batch.zip = None
    BY DEF RecrawlInit, NoBatch
  <2>3. status \in [Items -> Statuses] /\ disk \in [Places -> DOMAIN quality \cup {None}]
    BY DEF RecrawlInit, Statuses
  <2>4. StoreTyped
    BY <2>1, <2>2, <2>3 DEF StoreTyped
  <2>5. starts = 0 /\ failures = 0 /\ outside = 0 /\ strayed = {} /\ byHand = {} /\ crowded = FALSE
    BY DEF RecrawlInit
  <2>6. starts \in 0..MaxStarts /\ failures \in 0..MaxFailures /\ outside \in 0..MaxOutside
    BY <2>5, RecrawlAssumption
  <2>7. BoundsTyped
    BY <2>5, <2>6 DEF BoundsTyped
  <2> QED
    BY <2>4, <2>7 DEF RecrawlInit
<1>2. \A p \in Scripts : ScriptTypeOK(p) /\ ScriptType(p)
  <2>1. DOMAIN Off = Fields /\ Off.pc = "off" /\ Off.forced = FALSE /\ Off.ignore = FALSE
        /\ Off.report = <<>> /\ Off.root = 0 /\ Off.todo = {}
    BY DEF Off, Fields
  <2>2. DOMAIN Off.report = {} /\ 0 \in Roots
    BY <2>1, RecrawlAssumption DEF Roots
  <2> QED
    BY <1>1, <2>1, <2>2 DEF Alive, Scanned, ScriptTypeOK, ScriptType
<1>3. Placed /\ RowsFit /\ LibraryFits
  <2>1. DOMAIN quality = {} /\ DOMAIN artifacts = {}
    BY DEF RecrawlInit
  <2>2. batch.at = "idle" /\ \A x \in Places : disk[x] = None
    BY DEF RecrawlInit, NoBatch
  <2> QED
    BY <2>1, <2>2, PlacesFit DEF Placed, RowsFit, LibraryFits
<1> QED
  BY <1>1, <1>2, <1>3, TypeParts DEF Steady

LEMMA PlacedOnce ==
  ASSUME Steady
  PROVE  NothingLost
<1> SUFFICES ASSUME NEW a \in DOMAIN quality
             PROVE  Cardinality({place \in Places : disk[place] = a}) = 1
  BY DEF NothingLost
<1>1. a # None /\ Placed
  BY Bounds DEF Steady
<1>2. PICK x \in Places : disk[x] = a
  BY <1>1 DEF Placed
<1>3. {place \in Places : disk[place] = a} = {x}
  BY <1>1, <1>2 DEF Placed
<1> QED
  BY <1>3, FS_Singleton

\* A script moves what it inspects, and that is not good unless it may be.
LEMMA MovesBad ==
  ASSUME Steady, RecrawlNext
  PROVE  \A p \in Scripts : script[p].pc = "apply" /\ script'[p].pc = "book"
           => quality[disk[Entry(p).path]] # "preferred" \/ script[p].forced
<1> SUFFICES ASSUME NEW p \in Scripts, script[p].pc = "apply", script'[p].pc = "book"
             PROVE  quality[disk[Entry(p).path]] # "preferred" \/ script[p].forced
  OBVIOUS
<1>1. RecrawlTypeOK /\ \A q \in Scripts : ScriptType(q)
  BY Bounds
<1>2. Move(p)
  <2>1. CASE \E q \in Scripts : Script(q) \/ WriteFails(q) \/ Killed(q)
    <3>1. PICK q \in Scripts : Script(q) \/ WriteFails(q) \/ Killed(q)
      BY <2>1
    <3>2. Others(q)
      BY <1>1, <3>1, StepOthers
    <3>3. q = p
      BY <3>2 DEF Others
    <3>4. ~ScanItem(p) /\ ~ApplyReport(p) /\ ~Book(p) /\ ~MarkPending(p)
      BY DEF ScanItem, ApplyReport, Book, MarkPending, Applying
    <3>5. ~Pass(p)
      BY <1>1, NextEntryIs DEF Pass
    <3>6. ~MarkMissing(p)
      BY <1>1, GoesToIs DEF MarkMissing
    <3>7. ~End(p) /\ ~Killed(p)
      BY <1>1, EndIs DEF End, Killed, Off
    <3>8. ~WriteFails(p)
      BY DEF WriteFails, Applying
    <3>9. \A ids, forced, ignore : ~Scan(p, ids, forced, ignore)
      BY DEF Scan
    <3> QED
      BY <3>1, <3>3, <3>4, <3>5, <3>6, <3>7, <3>8, <3>9 DEF Script
  <2>2. CASE Batch \/ BatchFails \/ (\E i \in Items, s \in Statuses : ItemStatus(i, s))
             \/ \E a \in DOMAIN quality : Spoil(a)
    BY <2>2 DEF Batch, BatchTakes, BatchPack, BatchFinalize, BatchFails, ItemStatus, Spoil
  <2> QED
    BY <2>1, <2>2 DEF RecrawlNext
<1>3. disk[Entry(p).path] # None /\ Inspect(Entry(p).path) = Entry(p).class
  BY <1>2, MoveIs
<1>4. quality[disk[Entry(p).path]] = Entry(p).class
  BY <1>3 DEF Inspect
<1>5. ~Passed(p)
  BY <1>2 DEF Move
<1> QED
  BY <1>4, <1>5 DEF Passed

-------------------------------------------------------------------------------
(* What holds while no two scripts have been alive together.                *)

LEMMA OffHolds ==
  /\ \A p \in Scripts : script[p].pc = "off" => ScriptHolds(p)
  /\ \A p \in Scripts : script'[p].pc = "off" => ScriptHolds(p)'
BY DEF ScriptHolds, ScanIsTrue, ReportIsTrue, InHandWaits, MovedThere, FreeThere, OwnRoot,
       Ahead, Alive, Scanned

LEMMA OthersOff ==
  ASSUME OneAlive, NEW p \in Scripts, Alive(p)
  PROVE  \A q \in Scripts : q # p => script[q].pc = "off"
BY DEF OneAlive, Alive

\* The archive in transit is that of the one script that is alive.
LEMMA TransitIs ==
  ASSUME OneAlive, NEW p \in Scripts, Alive(p), Others(p)
  PROVE  /\ InTransit = IF script[p].pc = "book" THEN {Entry(p).art} ELSE {}
         /\ InTransit' = IF script'[p].pc = "book" THEN {Entry(p).art'} ELSE {}
<1>1. \A q \in Scripts : q # p => script[q].pc = "off" /\ script'[q].pc = "off"
  BY OthersOff DEF Others
<1>2. {q \in Scripts : script[q].pc = "book"} = IF script[p].pc = "book" THEN {p} ELSE {}
  BY <1>1
<1>3. {q \in Scripts : script'[q].pc = "book"} = IF script'[p].pc = "book" THEN {p} ELSE {}
  BY <1>1
<1>4. InTransit' = {Entry(q)'.art : q \in {q \in Scripts : script'[q].pc = "book"}}
  BY DEF InTransit
<1>5. InTransit = IF script[p].pc = "book" THEN {Entry(p).art} ELSE {}
  BY <1>2 DEF InTransit
<1>6. InTransit' = IF script'[p].pc = "book" THEN {Entry(p).art'} ELSE {}
  BY <1>3, <1>4
<1> QED
  BY <1>5, <1>6

\* An Item's candidates depend on whose its archives are.
LEMMA CandidatesSame ==
  ASSUME NEW i, \A s \in SourceIds : ItemOf[s] = i => ArchivesOf(s)' = ArchivesOf(s)
  PROVE  Candidates(i)' = Candidates(i)
<1>1. \A s \in SourceIds : ItemOf[s] = i => Newest(s)' = Newest(s)
  <2> SUFFICES ASSUME NEW s \in SourceIds, ItemOf[s] = i PROVE Newest(s)' = Newest(s)
    OBVIOUS
  <2>1. ArchivesOf(s)' = ArchivesOf(s)
    OBVIOUS
  <2> QED
    BY <2>1 DEF Newest
<1> QED
  BY <1>1 DEF Candidates

\* The newest archive of an Item is a candidate.
LEMMA LatestIsCandidate ==
  ASSUME Steady, NEW b \in DOMAIN artifacts,
         \A c \in DOMAIN artifacts : Item(c) = Item(b) => c <= b
  PROVE  b \in Candidates(Item(b))
<1> DEFINE s == artifacts[b].source
<1>1. s \in SourceIds /\ ItemOf[s] = Item(b) /\ RecrawlTypeOK
  BY Bounds DEF StoreTyped, ArtRow, Item
<1>2. b \in ArchivesOf(s) /\ \A c \in ArchivesOf(s) : c \in DOMAIN artifacts /\ Item(c) = Item(b)
  BY DEF ArchivesOf, Item
<1>3. Newest(s) \in ArchivesOf(s) /\ b <= Newest(s)
  BY <1>1, <1>2, NewestIn
<1>4. Newest(s) <= b
  BY <1>2, <1>3
<1>5. Newest(s) \in Nat /\ b \in Nat
  BY <1>2, <1>3, Bounds DEF StoreTyped
<1>6. Newest(s) = b
  BY <1>3, <1>4, <1>5
<1> QED
  BY <1>1, <1>2, <1>6 DEF Candidates

\* So a completed Item with one candidate has it in the library, if anything.
LEMMA LibraryIsCandidate ==
  ASSUME Steady, NewestThere, NEW i \in Items \ byHand, status[i] = "completed",
         disk[LibraryPath(i)] # None
  PROVE  /\ disk[LibraryPath(i)] \in Candidates(i) /\ disk[LibraryPath(i)] \in DOMAIN artifacts
         /\ artifacts[disk[LibraryPath(i)]].path = LibraryPath(i)
         /\ artifacts[disk[LibraryPath(i)]].state = "present"
<1> DEFINE b == disk[LibraryPath(i)]
<1>1. /\ b \in DOMAIN artifacts /\ artifacts[b].path = LibraryPath(i) /\ artifacts[b].state = "present"
      /\ \A c \in DOMAIN artifacts : Item(c) = i => c <= b
  BY DEF NewestThere
<1>2. Item(b) = i
  BY <1>1 DEF Steady, LibraryFits
<1> QED
  BY <1>1, <1>2, LatestIsCandidate

LEMMA WorldSame ==
  ASSUME Uncrowded, UNCHANGED <<status, artifacts, disk, batch, byHand>>
  PROVE  /\ SameItem' /\ NewestThere' /\ PackedThere'
         /\ \A i : Candidates(i)' = Candidates(i)
         /\ \A a \in DOMAIN artifacts : Item(a)' = Item(a)
<1>1. SameItem /\ NewestThere /\ PackedThere
  BY DEF Uncrowded
<1>2. \A i : Candidates(i)' = Candidates(i)
  BY CandidatesSame DEF ArchivesOf
<1>3. \A a \in DOMAIN artifacts : Item(a)' = Item(a)
  BY DEF Item
<1>4. SameItem'
  BY <1>1 DEF SameItem, Item
<1>5. NewestThere'
  BY <1>1 DEF NewestThere, Item, LibraryPath
<1>6. PackedThere'
  BY <1>1 DEF PackedThere, LibraryPath
<1> QED
  BY <1>2, <1>3, <1>4, <1>5, <1>6

LEMMA UncrowdedByScript ==
  ASSUME Uncrowded, NEW p \in Scripts, Others(p), Alive(p), PresentIsThere', SameItem',
         NewestThere', PackedThere', StraysWait', ScriptHolds(p)'
  PROVE  Uncrowded'
<1>1. \A q \in Scripts : q # p => script'[q].pc = "off"
  BY OthersOff DEF Uncrowded, Others
<1>2. OneAlive'
  BY <1>1 DEF OneAlive, Alive
<1>3. \A q \in Scripts : ScriptHolds(q)'
  BY <1>1, OffHolds
<1> QED
  BY <1>2, <1>3 DEF Uncrowded

\* The steps of a script that touch no archive and no row.
LEMMA PresentSame ==
  ASSUME Uncrowded, UNCHANGED <<artifacts, disk, byHand, crowded>>,
         strayed \cup InTransit \subseteq strayed' \cup InTransit'
  PROVE  PresentIsThere'
<1>1. PresentIsThere
  BY DEF Uncrowded
<1>2. \A a \in DOMAIN artifacts \ (strayed' \cup InTransit') :
        a \in DOMAIN artifacts \ (strayed \cup InTransit)
  OBVIOUS
<1> QED
  BY <1>1, <1>2 DEF PresentIsThere

LEMMA StraysSame ==
  ASSUME Uncrowded, UNCHANGED <<artifacts, disk, byHand, strayed>>, NEW p \in Scripts, Others(p),
         script'[p].pc # "pending",
         \A a \in DOMAIN artifacts \cap strayed :
           artifacts[a].state = "present" /\ Item(a) \notin byHand
             => (status[Item(a)] = "completed" => status'[Item(a)] = "completed")
  PROVE  StraysWait'
<1>1. \A i : Candidates(i)' = Candidates(i)
  BY CandidatesSame DEF ArchivesOf
<1>2. SUFFICES ASSUME NEW a \in DOMAIN artifacts \cap strayed, artifacts[a].state = "present",
                      (Item(a) \notin byHand)'
               PROVE  (/\ disk[artifacts[a].path] = None /\ status[Item(a)] = "completed"
                       /\ Candidates(Item(a)) = {a}
                       /\ \A q \in Scripts : script[q].pc = "pending" => Current(q) # Item(a))'
  BY DEF StraysWait
<1> PICK k : k = Item(a)
  OBVIOUS
<1>3. Item(a)' = k /\ k \notin byHand
  BY <1>2 DEF Item
<1>4. /\ disk[artifacts[a].path] = None /\ status[k] = "completed" /\ Candidates(k) = {a}
      /\ \A q \in Scripts : script[q].pc = "pending" => Current(q) # k
  BY <1>2, <1>3 DEF Uncrowded, StraysWait
<1>5. \A q \in Scripts : script'[q].pc = "pending" => Current(q)' # k
  <2> SUFFICES ASSUME NEW q \in Scripts, script'[q].pc = "pending" PROVE Current(q)' # k
    OBVIOUS
  <2>1. script'[q] = script[q]
    BY DEF Others
  <2> QED
    BY <1>4, <2>1 DEF Current
<1>6. status'[k] = "completed"
  BY <1>2, <1>3, <1>4
<1>7. Candidates(k)' = {a}
  BY <1>1, <1>4
<1> QED
  BY <1>3, <1>4, <1>5, <1>6, <1>7

\* A script goes on with some of what it has ahead of it.
LEMMA AheadKept ==
  ASSUME Steady, Uncrowded, NEW p \in Scripts, Alive(p),
         UNCHANGED <<artifacts, disk, batch, byHand>>,
         script'[p].pc = "apply", script'[p].root = script[p].root,
         script'[p].report = script[p].report, script'[p].todo \subseteq Ahead(p),
         \A i \in script'[p].todo : status'[i] = status[i]
  PROVE  ScriptHolds(p)'
<1>1. ReportIsTrue(p) /\ InHandWaits(p) /\ OwnRoot(p)
  BY DEF Uncrowded, ScriptHolds
<1>2. \A i : Candidates(i)' = Candidates(i)
  BY CandidatesSame DEF ArchivesOf
<1>3. ScanIsTrue(p)' /\ MovedThere(p)' /\ FreeThere(p)'
  BY DEF ScanIsTrue, MovedThere, FreeThere
<1>4. Ahead(p)' = script'[p].todo /\ Reported(p)' = Reported(p) /\ \A i : Rep(p, i)' = Rep(p, i)
  BY DEF Ahead, Reported, Rep
<1>5. ReportIsTrue(p)'
  BY <1>1, <1>4 DEF ReportIsTrue, LibraryPath
<1>6. InHandWaits(p)'
  BY <1>1, <1>2, <1>4 DEF InHandWaits
<1>7. OwnRoot(p)'
  BY <1>1 DEF OwnRoot
<1> QED
  BY <1>3, <1>5, <1>6, <1>7 DEF ScriptHolds

LEMMA ReadingUncrowded ==
  ASSUME Steady, Uncrowded, NEW p \in Scripts, ApplyReport(p) \/ Pass(p)
  PROVE  Uncrowded'
<1>1. /\ UNCHANGED <<status, artifacts, quality, disk, batch, counters, ghosts>>
      /\ script[p].pc \in {"scan", "apply"} /\ Alive(p)
  BY DEF ApplyReport, Pass, Applying, Alive
<1>2. /\ Others(p) /\ script'[p].pc = "apply" /\ script'[p].root = script[p].root
      /\ script'[p].report = script[p].report /\ script'[p].todo \subseteq Ahead(p)
  BY Bounds, ApplyIs, NextEntryIs DEF ApplyReport, Pass, Applying, Ahead
<1>3. /\ UNCHANGED <<status, artifacts, disk, batch, byHand, strayed, crowded>>
  BY <1>1 DEF ghosts
<1>4. SameItem' /\ NewestThere' /\ PackedThere'
  BY <1>3, WorldSame
<1>5. StraysWait'
  BY <1>2, <1>3, StraysSame
<1>6. PresentIsThere'
  <2>1. InTransit = {}
    BY <1>1, <1>2, TransitIs DEF Uncrowded
  <2> QED
    BY <1>3, <2>1, PresentSame
<1>7. ScriptHolds(p)'
  BY <1>1, <1>2, <1>3, AheadKept
<1> QED
  BY <1>1, <1>2, <1>4, <1>5, <1>6, <1>7, UncrowdedByScript

LEMMA EndUncrowded ==
  ASSUME Steady, Uncrowded, NEW p \in Scripts, End(p)
  PROVE  Uncrowded'
<1>1. /\ UNCHANGED <<status, artifacts, quality, disk, batch, counters, ghosts>>
      /\ script[p].pc = "apply" /\ Alive(p)
  BY DEF End, Alive
<1>2. Others(p) /\ script'[p].pc = "off"
  <2>1. Others(p) /\ script'[p] = Off
    BY Bounds, EndIs DEF End
  <2> QED
    BY <2>1 DEF Off
<1>3. UNCHANGED <<status, artifacts, disk, batch, byHand, strayed, crowded>>
  BY <1>1 DEF ghosts
<1>4. SameItem' /\ NewestThere' /\ PackedThere'
  BY <1>3, WorldSame
<1>5. StraysWait'
  BY <1>2, <1>3, StraysSame
<1>6. PresentIsThere'
  <2>1. InTransit = {}
    BY <1>1, <1>2, TransitIs DEF Uncrowded
  <2> QED
    BY <1>3, <2>1, PresentSame
<1> QED
  BY <1>1, <1>2, <1>4, <1>5, <1>6, OffHolds, UncrowdedByScript

LEMMA MarkPendingUncrowded ==
  ASSUME Steady, Uncrowded, NEW p \in Scripts, MarkPending(p)
  PROVE  Uncrowded'
<1> PICK i : i = Current(p)
  OBVIOUS
<1>1. /\ UNCHANGED <<artifacts, quality, disk, batch, counters, ghosts>> /\ NextEntry(p)
      /\ script[p].pc = "pending" /\ Alive(p) /\ status' = [status EXCEPT ![i] = "pending"]
  BY DEF MarkPending, Applying, Alive, Current
<1>2. /\ Others(p) /\ script'[p].pc = "apply" /\ script'[p].root = script[p].root
      /\ script'[p].report = script[p].report /\ script'[p].todo = script[p].todo \ {i}
  BY <1>1, Bounds, NextEntryIs
<1>3. UNCHANGED <<artifacts, disk, batch, byHand, strayed, crowded>>
  BY <1>1 DEF ghosts
<1>4. status \in [Items -> Statuses] /\ script[p].todo \subseteq Items
  BY Bounds DEF StoreTyped, ScriptTypeOK
<1>5. \A k \in Items : k # i => status'[k] = status[k]
  BY <1>1, <1>4
<1>6. \A k \in Items : status'[k] = "completed" => status[k] = "completed"
  BY <1>1, <1>4
<1>7. SameItem' /\ PackedThere'
  BY <1>3 DEF Uncrowded, SameItem, PackedThere, Item, LibraryPath
<1>8. NewestThere'
  BY <1>3, <1>6 DEF Uncrowded, NewestThere, Item, LibraryPath
<1>9. StraysWait'
  <2>1. \A a \in DOMAIN artifacts \cap strayed :
           artifacts[a].state = "present" /\ Item(a) \notin byHand
             => Item(a) # i
    BY <1>1 DEF Uncrowded, StraysWait
  <2>2. \A a \in DOMAIN artifacts : Item(a) \in Items
    BY Bounds, RecrawlAssumption DEF StoreTyped, ArtRow, Item
  <2> QED
    BY <1>2, <1>3, <1>5, <2>1, <2>2, StraysSame
<1>10. PresentIsThere'
  <2>1. InTransit = {}
    BY <1>1, <1>2, TransitIs DEF Uncrowded
  <2> QED
    BY <1>3, <2>1, PresentSame
<1>11. script'[p].todo \subseteq Ahead(p)
  BY <1>1, <1>2 DEF Ahead, Scanned
<1>12. ScriptHolds(p)'
  BY <1>1, <1>2, <1>3, <1>4, <1>5, <1>11, AheadKept
<1> QED
  BY <1>1, <1>2, <1>7, <1>8, <1>9, <1>10, <1>12, UncrowdedByScript

\* What a script has in hand while it moves an archive.
LEMMA InHandIs ==
  ASSUME Steady, NEW p \in Scripts, Applying(p, "apply") \/ Applying(p, "book") \/ Applying(p, "pending")
  PROVE  /\ Alive(p) /\ Scanned(p) /\ Current(p) \in script[p].todo /\ Current(p) \in Items
         /\ Current(p) \in Reported(p) /\ Entry(p) = Rep(p, Current(p))
         /\ script[p].todo \subseteq Items /\ script[p].todo \subseteq Reported(p)
         /\ Entry(p) \in EntryType /\ Entry(p).art \in DOMAIN artifacts \cup {None}
         /\ Entry(p).art # None => Item(Entry(p).art) = Current(p)
         /\ script[p].pc # "apply" => Entry(p).art # None
<1>1. Scanned(p) /\ Alive(p) /\ script[p].todo # {}
  BY DEF Applying, Scanned, Alive
<1>2. script[p].todo \subseteq Items /\ script[p].todo \subseteq Reported(p)
  BY <1>1, Bounds DEF ScriptTypeOK, ScriptType, Reported
<1>3. Current(p) \in script[p].todo
  BY <1>1, <1>2, LowestIn DEF Current
<1>4. Entry(p) = Rep(p, Current(p))
  BY DEF Entry, Rep, Current
<1>5. Entry(p) \in EntryType /\ Entry(p).art \in DOMAIN artifacts \cup {None}
  BY <1>2, <1>3, <1>4, Bounds DEF ScriptTypeOK, Reported, Rep
<1>6. /\ Entry(p).art # None => Item(Entry(p).art) = Current(p)
      /\ script[p].pc # "apply" => Entry(p).art # None
  BY <1>1, <1>2, <1>3, <1>4, Bounds DEF ScriptType, Reported, Rep, Scanned
<1> QED
  BY <1>1, <1>2, <1>3, <1>4, <1>5, <1>6

LEMMA FailingUncrowded ==
  ASSUME Steady, Uncrowded, NEW p \in Scripts, WriteFails(p) \/ Killed(p)
  PROVE  Uncrowded'
<1>1. /\ UNCHANGED <<status, artifacts, disk, batch, byHand, crowded>> /\ Alive(p)
      /\ strayed' = IF script[p].pc = "book" THEN strayed \cup {Entry(p).art} ELSE strayed
  BY DEF WriteFails, Killed, Unbooked, Alive, Applying
<1>2. Others(p) /\ script'[p].pc \in {"apply", "off"}
  <2>1. CASE WriteFails(p)
    BY <2>1, Bounds, NextEntryIs DEF WriteFails
  <2>2. CASE Killed(p)
    <3>1. Others(p) /\ script'[p] = Off
      BY <2>2, Bounds, EndIs DEF Killed
    <3> QED
      BY <3>1 DEF Off
  <2> QED
    BY <2>1, <2>2
<1>3. SameItem' /\ NewestThere' /\ PackedThere' /\ \A i : Candidates(i)' = Candidates(i)
  BY <1>1, WorldSame
<1>4. PresentIsThere'
  <2>1. InTransit = IF script[p].pc = "book" THEN {Entry(p).art} ELSE {}
    BY <1>1, <1>2, TransitIs DEF Uncrowded
  <2> QED
    BY <1>1, <2>1, PresentSame
<1>5. StraysWait'
  <2>1. CASE script[p].pc # "book"
    <3>1. strayed' = strayed
      BY <1>1, <2>1
    <3> QED
      BY <1>1, <1>2, <3>1, StraysSame
  <2>2. CASE script[p].pc = "book"
    <3> PICK e : e = Entry(p).art
      OBVIOUS
    <3> PICK i : i = Current(p)
      OBVIOUS
    <3>1. /\ i \in script[p].todo /\ i \in Reported(p) /\ Entry(p) = Rep(p, i)
          /\ e \in DOMAIN artifacts /\ Item(e) = i /\ Rep(p, i).art = e /\ e # None
      BY <2>2, InHandIs, Bounds DEF Applying, ScriptType
    <3>2. i \notin byHand =>
            /\ disk[artifacts[e].path] = None /\ status[i] = "completed" /\ Candidates(i) = {e}
      BY <1>1, <2>2, <3>1 DEF Uncrowded, ScriptHolds, MovedThere, InHandWaits
    <3>3. SUFFICES ASSUME NEW a \in DOMAIN artifacts, (a \in strayed)', artifacts[a].state = "present",
                      (Item(a) \notin byHand)'
               PROVE  (/\ disk[artifacts[a].path] = None /\ status[Item(a)] = "completed"
                       /\ Candidates(Item(a)) = {a}
                       /\ \A q \in Scripts : script[q].pc = "pending" => Current(q) # Item(a))'
      BY <1>1 DEF StraysWait
    <3> PICK k : k = Item(a)
      OBVIOUS
    <3>4. Item(a)' = k /\ k \notin byHand
      BY <1>1, <3>3 DEF Item
    <3>5. disk[artifacts[a].path] = None /\ status[k] = "completed" /\ Candidates(k) = {a}
      <4>1. CASE a = e
        BY <3>1, <3>2, <3>4, <4>1
      <4>2. CASE a # e
        BY <1>1, <2>2, <3>3, <3>4, <4>2 DEF Uncrowded, StraysWait
      <4> QED
        BY <4>1, <4>2
    <3>6. \A q \in Scripts : script'[q].pc # "pending"
      BY <1>1, <1>2, OthersOff DEF Others, Uncrowded
    <3> QED
      BY <1>1, <1>3, <3>4, <3>5, <3>6
  <2> QED
    BY <2>1, <2>2
<1>6. ScriptHolds(p)'
  <2>1. CASE script'[p].pc = "off"
    BY <2>1, OffHolds
  <2>2. CASE script'[p].pc = "apply"
    <3>1. WriteFails(p)
      <4>1. ~Killed(p)
        BY <2>2, Bounds, EndIs DEF Killed, Off
      <4> QED
        BY <4>1
    <3>2. /\ script'[p].root = script[p].root /\ script'[p].report = script[p].report
          /\ script'[p].todo = script[p].todo \ {Current(p)}
          /\ script[p].pc \in {"book", "pending"}
      BY <3>1, Bounds, NextEntryIs DEF WriteFails, Applying
    <3>3. script'[p].todo \subseteq Ahead(p)
      BY <3>2 DEF Ahead, Scanned
    <3> QED
      BY <1>1, <2>2, <3>2, <3>3, AheadKept
  <2> QED
    BY <1>2, <2>1, <2>2
<1> QED
  BY <1>1, <1>2, <1>3, <1>4, <1>5, <1>6, UncrowdedByScript

LEMMA ScanUncrowded ==
  ASSUME Steady, Uncrowded, NEW p \in Scripts, NEW ids, NEW forced \in BOOLEAN, NEW ignore \in BOOLEAN,
         Scan(p, ids, forced, ignore), ~crowded'
  PROVE  Uncrowded'
<1>1. /\ UNCHANGED <<status, artifacts, quality, disk, batch, failures, outside, strayed, byHand>>
      /\ starts' = starts + 1 /\ ids \subseteq Completed
      /\ ~crowded /\ \A q \in Scripts : script[q].pc = "off"
  BY DEF Scan
<1>2. /\ Others(p)
      /\ script'[p] = [pc |-> "scan", root |-> starts + 1, todo |-> ids,
                          arts |-> [i \in ids |-> [a \in Candidates(i) |-> artifacts[a]]],
                          report |-> <<>>, forced |-> forced, ignore |-> ignore]
  BY Bounds, ScanIs
<1>3. /\ script'[p].pc = "scan" /\ script'[p].root = starts + 1 /\ script'[p].todo = ids
      /\ script'[p].arts = [i \in ids |-> [a \in Candidates(i) |-> artifacts[a]]]
      /\ script'[p].report = <<>>
  BY <1>2
<1>4. \A q \in Scripts : q # p => script'[q].pc = "off"
  BY <1>1, <1>2 DEF Others
<1>5. /\ SameItem' /\ NewestThere' /\ PackedThere'
      /\ \A i : Candidates(i)' = Candidates(i)
  BY <1>1, WorldSame
<1>6. StraysWait'
  BY <1>1, <1>2, <1>3, StraysSame
<1>7. PresentIsThere'
  <2>1. InTransit = {}
    BY <1>1 DEF InTransit
  <2>2. PresentIsThere
    BY DEF Uncrowded
  <2> QED
    BY <1>1, <2>1, <2>2 DEF PresentIsThere
<1>8. OneAlive'
  BY <1>4 DEF OneAlive, Alive
<1>9. DOMAIN script'[p].report = {}
  BY <1>3
<1>10. Ahead(p)' = {}
  BY <1>3, <1>9 DEF Ahead
<1>11. ReportIsTrue(p)' /\ MovedThere(p)' /\ FreeThere(p)'
  BY <1>3, <1>10 DEF ReportIsTrue, MovedThere, FreeThere
<1>12. ScanIsTrue(p)'
  BY <1>1, <1>3, <1>5 DEF ScanIsTrue
<1>13. InHandWaits(p)'
  BY <1>1, <1>3, <1>9, <1>10 DEF InHandWaits, Reported, Completed
<1>14. OwnRoot(p)'
  <2>1. \A a \in DOMAIN artifacts : artifacts[a].path[1] # starts + 1
    <3> SUFFICES ASSUME NEW a \in DOMAIN artifacts PROVE artifacts[a].path[1] # starts + 1
      OBVIOUS
    <3> DEFINE r == artifacts[a].path[1]
    <3>1. r \in Nat /\ r <= starts /\ starts \in Nat
      BY Bounds, PlacesFit, RecrawlAssumption
         DEF Steady, RowsFit, StoreTyped, ArtRow, Roots
    <3> HIDE DEF r
    <3>2. r # starts + 1
      BY <3>1
    <3> QED
      BY <3>2 DEF r
  <2> QED
    BY <1>1, <1>3, <2>1 DEF OwnRoot
<1>15. \A q \in Scripts : ScriptHolds(q)'
  BY <1>4, <1>11, <1>12, <1>13, <1>14, OffHolds DEF ScriptHolds
<1> QED
  BY <1>5, <1>6, <1>7, <1>8, <1>15 DEF Uncrowded

\* What is reported of the one candidate of an Item.
LEMMA ReportedIs ==
  ASSUME Steady, Uncrowded, ~crowded, NEW p \in Scripts, script[p].pc = "scan", NEW i \in script[p].todo,
         Classified(script[p].arts[i]).art # None
  PROVE  LET e == Classified(script[p].arts[i])
         IN  /\ e.art \in DOMAIN artifacts /\ artifacts[e.art].path = e.path
             /\ e.class \in Qualities => artifacts[e.art].state = "present"
             /\ i \notin byHand =>
                  /\ Candidates(i) = {e.art}
                  /\ e.class \in Qualities => disk[e.path] = e.art
                  /\ e.class = "missing" => disk[LibraryPath(i)] = None
<1> PICK e : e = Classified(script[p].arts[i])
  OBVIOUS
<1> DEFINE arts == script[p].arts[i]
<1>1. /\ e \in EntryType /\ DOMAIN arts = {e.art} /\ e.path = arts[e.art].path
      /\ e.class = IF arts[e.art].state = "present" THEN Inspect(e.path) ELSE "missing"
  BY ClassifiedIs
<1>2. e.art \in DOMAIN artifacts /\ Item(e.art) = i
  BY <1>1, Bounds DEF ScriptType
<1>3. arts[e.art] = artifacts[e.art] /\ (i \notin byHand => DOMAIN arts = Candidates(i))
  BY <1>1 DEF Uncrowded, ScriptHolds, ScanIsTrue
<1>4. /\ artifacts[e.art].path = e.path
      /\ e.class = IF artifacts[e.art].state = "present" THEN Inspect(e.path) ELSE "missing"
  BY <1>1, <1>3
<1>5. e.class \in Qualities => artifacts[e.art].state = "present" /\ disk[e.path] # None
  BY <1>4 DEF Qualities, Inspect
<1>6. ASSUME i \notin byHand
      PROVE  /\ Candidates(i) = {e.art}
             /\ e.class \in Qualities => disk[e.path] = e.art
             /\ e.class = "missing" => disk[LibraryPath(i)] = None
  <2>1. Candidates(i) = {e.art}
    BY <1>1, <1>3, <1>6
  <2>2. ASSUME e.class \in Qualities PROVE disk[e.path] = e.art
    <3>1. artifacts[e.art].state = "present" /\ disk[e.path] # None
      BY <1>5, <2>2
    <3>2. e.art \notin strayed
      BY <1>2, <1>4, <1>6, <3>1 DEF Uncrowded, StraysWait
    <3>3. e.art \notin InTransit
      <4>1. \A q \in Scripts : script[q].pc # "book"
        BY DEF Uncrowded, OneAlive, Alive
      <4> QED
        BY <4>1 DEF InTransit
    <3>4. PresentIsThere
      BY DEF Uncrowded
    <3> QED
      BY <1>2, <1>4, <1>6, <3>1, <3>2, <3>3, <3>4 DEF PresentIsThere, Item
  <2>3. ASSUME e.class = "missing", disk[LibraryPath(i)] # None PROVE FALSE
    <3>1. i \in Items /\ status[i] = "completed"
      BY <1>6, Bounds DEF Uncrowded, ScriptHolds, InHandWaits, Alive, ScriptTypeOK
    <3>2. /\ disk[LibraryPath(i)] \in Candidates(i)
          /\ artifacts[disk[LibraryPath(i)]].path = LibraryPath(i)
          /\ artifacts[disk[LibraryPath(i)]].state = "present"
      BY <1>6, <2>3, <3>1, LibraryIsCandidate DEF Uncrowded
    <3>3. disk[LibraryPath(i)] = e.art
      BY <2>1, <3>2
    <3>4. e.path = LibraryPath(i) /\ artifacts[e.art].state = "present"
      BY <1>4, <3>2, <3>3
    <3>5. Inspect(e.path) = quality[e.art]
      BY <2>3, <3>3, <3>4 DEF Inspect
    <3>6. quality[e.art] \in Qualities
      BY <1>2, Bounds DEF StoreTyped
    <3> QED
      BY <1>4, <2>3, <3>4, <3>5, <3>6 DEF Qualities
  <2> QED
    BY <2>1, <2>2, <2>3
<1> QED
  BY <1>2, <1>4, <1>5, <1>6

LEMMA ScanItemUncrowded ==
  ASSUME Steady, Uncrowded, ~crowded, NEW p \in Scripts, ScanItem(p)
  PROVE  Uncrowded'
<1> PICK i : i = Current(p)
  OBVIOUS
<1> PICK e : e = Classified(script[p].arts[i])
  OBVIOUS
<1>1. /\ UNCHANGED <<status, artifacts, quality, disk, batch, counters, ghosts>>
      /\ script[p].pc = "scan" /\ Alive(p) /\ script[p].todo # {}
  BY DEF ScanItem, Alive
<1>2. i \in script[p].todo
  BY <1>1, Bounds, LowestIn DEF Current, ScriptTypeOK
<1>3. /\ Others(p) /\ script'[p].pc = "scan" /\ script'[p].root = script[p].root
      /\ script'[p].todo = script[p].todo \ {i} /\ script'[p].arts = script[p].arts
      /\ script'[p].report = With(script[p].report, i, e)
  BY <1>1, Bounds, ScanItemIs
<1>4. /\ DOMAIN script'[p].report = DOMAIN script[p].report \cup {i} /\ script'[p].report[i] = e
      /\ \A k \in DOMAIN script[p].report : k # i => script'[p].report[k] = script[p].report[k]
  BY <1>3 DEF With
<1>5. UNCHANGED <<status, artifacts, disk, batch, byHand, strayed, crowded>>
  BY <1>1 DEF ghosts
<1>6. SameItem' /\ NewestThere' /\ PackedThere' /\ \A k : Candidates(k)' = Candidates(k)
  BY <1>5, WorldSame
<1>7. StraysWait'
  BY <1>3, <1>5, StraysSame
<1>8. PresentIsThere'
  <2>1. InTransit = {}
    BY <1>1, <1>3, TransitIs DEF Uncrowded
  <2> QED
    BY <1>5, <2>1, PresentSame
<1>9. /\ ScanIsTrue(p) /\ ReportIsTrue(p) /\ InHandWaits(p) /\ OwnRoot(p)
  BY DEF Uncrowded, ScriptHolds
<1>10. e.art # None =>
         /\ artifacts[e.art].path = e.path
         /\ e.class \in Qualities => artifacts[e.art].state = "present"
         /\ i \notin byHand =>
              /\ Candidates(i) = {e.art}
              /\ e.class \in Qualities => disk[e.path] = e.art
              /\ e.class = "missing" => disk[LibraryPath(i)] = None
  BY <1>1, <1>2, ReportedIs
<1>11. /\ Ahead(p) = DOMAIN script[p].report /\ Ahead(p)' = Ahead(p) \cup {i}
       /\ Reported(p) = Ahead(p) /\ Reported(p)' = Ahead(p) \cup {i} /\ Rep(p, i)' = e
       /\ \A k \in Ahead(p) : k # i => Rep(p, k)' = Rep(p, k)
  BY <1>1, <1>3, <1>4 DEF Ahead, Reported, Rep
<1>12. ScanIsTrue(p)'
  BY <1>1, <1>3, <1>5, <1>6, <1>9 DEF ScanIsTrue
<1>13. ReportIsTrue(p)'
  <2> SUFFICES ASSUME NEW k \in Ahead(p) \cup {i}, (Rep(p, k).art # None)'
               PROVE  (/\ artifacts[Rep(p, k).art].path = Rep(p, k).path
                       /\ Rep(p, k).class \in Qualities => artifacts[Rep(p, k).art].state = "present"
                       /\ k \notin byHand =>
                            /\ Rep(p, k).class \in Qualities => disk[Rep(p, k).path] = Rep(p, k).art
                            /\ Rep(p, k).class = "missing" => disk[LibraryPath(k)] = None)'
    BY <1>11 DEF ReportIsTrue
  <2>1. CASE k = i
    BY <1>5, <1>10, <1>11, <2>1 DEF LibraryPath
  <2>2. CASE k # i
    BY <1>5, <1>9, <1>11, <2>2 DEF ReportIsTrue, LibraryPath
  <2> QED
    BY <2>1, <2>2
<1>14. InHandWaits(p)'
  <2> SUFFICES ASSUME NEW k \in (script[p].todo \cup Ahead(p)) \ byHand
               PROVE  (/\ status[k] = "completed"
                       /\ k \in Reported(p) /\ Rep(p, k).art # None
                            => Candidates(k) = {Rep(p, k).art})'
    BY <1>2, <1>3, <1>5, <1>11 DEF InHandWaits
  <2>1. status'[k] = "completed"
    BY <1>1, <1>5, <1>9 DEF InHandWaits
  <2>2. CASE k = i
    BY <1>6, <1>10, <1>11, <2>1, <2>2
  <2>3. CASE k # i
    BY <1>1, <1>6, <1>9, <1>11, <2>1, <2>3 DEF InHandWaits
  <2> QED
    BY <2>2, <2>3
<1>15. OwnRoot(p)' /\ MovedThere(p)' /\ FreeThere(p)'
  BY <1>1, <1>3, <1>5, <1>9 DEF OwnRoot, MovedThere, FreeThere
<1>16. ScriptHolds(p)'
  BY <1>12, <1>13, <1>14, <1>15 DEF ScriptHolds
<1> QED
  BY <1>1, <1>3, <1>6, <1>7, <1>8, <1>16, UncrowdedByScript

LEMMA MoveUncrowded ==
  ASSUME Steady, Uncrowded, ~crowded, NEW p \in Scripts, Move(p)
  PROVE  Uncrowded'
<1> PICK i : i = Current(p)
  OBVIOUS
<1> PICK e : e = Entry(p).art
  OBVIOUS
<1> PICK P : P = Entry(p).path
  OBVIOUS
<1> PICK D : D = Destination(p)
  OBVIOUS
<1>1. /\ UNCHANGED <<status, artifacts, quality, batch, counters, ghosts>> /\ GoesTo(p, "book")
      /\ script[p].pc = "apply" /\ Applying(p, "apply") /\ Alive(p)
  BY DEF Move, Applying, Alive
<1>2. /\ P \in Places /\ D \in Places /\ P # D /\ D[1] = script[p].root /\ D[1] # Library
      /\ disk[D] = None /\ disk[P] # None /\ disk'[D] = disk[P] /\ disk'[P] = None
      /\ \A x \in Places : x # P /\ x # D => disk'[x] = disk[x]
      /\ e \in DOMAIN artifacts /\ e # None /\ Entry(p).class \in Qualities /\ Item(e) = i
  BY MoveIs
<1>3. /\ i \in script[p].todo /\ i \in Items /\ i \in Reported(p) /\ Entry(p) = Rep(p, i)
      /\ script[p].todo \subseteq Items /\ script[p].todo \subseteq Reported(p)
  BY <1>1, InHandIs
<1>4. /\ Others(p) /\ script'[p].pc = "book" /\ script'[p].root = script[p].root
      /\ script'[p].todo = script[p].todo /\ script'[p].report = script[p].report
  BY <1>1, Bounds, GoesToIs
<1>5. UNCHANGED <<status, artifacts, batch, byHand, strayed, crowded>>
  BY <1>1 DEF ghosts
<1>6. /\ ReportIsTrue(p) /\ InHandWaits(p) /\ OwnRoot(p) /\ SameItem /\ NewestThere /\ PackedThere
      /\ StraysWait /\ PresentIsThere
  BY DEF Uncrowded, ScriptHolds
<1>7. /\ Ahead(p) = script[p].todo /\ Ahead(p)' = script[p].todo \ {i}
      /\ Reported(p)' = Reported(p) /\ \A k : Rep(p, k)' = Rep(p, k)
      /\ Current(p)' = i /\ Entry(p)' = Entry(p) /\ Destination(p)' = D
  BY <1>1, <1>4 DEF Ahead, Reported, Rep, Current, Entry, Destination, Scanned, BackupDestination
<1>8. /\ artifacts[e].path = P /\ artifacts[e].state = "present"
      /\ i \notin byHand => disk[P] = e /\ status[i] = "completed" /\ Candidates(i) = {e}
  BY <1>1, <1>2, <1>3, <1>6, <1>7 DEF ReportIsTrue, InHandWaits
<1>9. /\ disk[P] \in DOMAIN artifacts => Item(disk[P]) = i
      /\ batch.at = "packed" /\ disk[P] = batch.zip => ItemOf[batch.source] = i
  BY <1>2, <1>6, <1>8 DEF SameItem
\* No row names the destination; the library is left or stays as it is.
<1>10. \A a \in DOMAIN artifacts : artifacts[a].path \in Places /\ artifacts[a].path # D
  BY <1>1, <1>2, <1>6, Bounds DEF OwnRoot, StoreTyped, ArtRow
<1>11. \A a \in DOMAIN artifacts :
         disk'[artifacts[a].path] = IF artifacts[a].path = P THEN None ELSE disk[artifacts[a].path]
  BY <1>2, <1>10
<1>12. \A k \in Items : disk'[LibraryPath(k)]
                          = IF LibraryPath(k) = P THEN None ELSE disk[LibraryPath(k)]
  <2> SUFFICES ASSUME NEW k \in Items
               PROVE  disk'[LibraryPath(k)] = IF LibraryPath(k) = P THEN None ELSE disk[LibraryPath(k)]
    OBVIOUS
  <2>1. LibraryPath(k) \in Places /\ LibraryPath(k)[1] = Library
    BY PlacesFit
  <2>2. LibraryPath(k) # D
    BY <1>2, <2>1
  <2> QED
    BY <1>2, <2>1, <2>2
<1>13. (\A k : Candidates(k)' = Candidates(k)) /\ (\A a : Item(a)' = Item(a))
       /\ None \notin DOMAIN artifacts /\ (batch.at = "packed" => batch.zip # None)
  BY <1>5, Bounds, CandidatesSame DEF ArchivesOf, Item, StoreTyped
<1>14. \A k \in Items : LibraryPath(k) = P => k = i
  <2>1. Fits(P, i)
    BY <1>2, <1>8 DEF Steady, RowsFit
  <2> QED
    BY <2>1, PlacesFit DEF Fits
<1>15. PresentIsThere'
  <2>1. InTransit = {} /\ InTransit' = {e}
    BY <1>1, <1>4, <1>7, TransitIs DEF Uncrowded
  <2> SUFFICES ASSUME NEW a \in DOMAIN artifacts, a \notin strayed, a # e,
                      artifacts[a].state = "present", ItemOf[artifacts[a].source] \notin byHand
               PROVE  disk'[artifacts[a].path] = a
    BY <1>5, <2>1 DEF PresentIsThere
  <2>2. disk[artifacts[a].path] = a
    BY <1>6, <2>1 DEF PresentIsThere
  <2>3. artifacts[a].path # P
    <3> SUFFICES ASSUME artifacts[a].path = P PROVE FALSE
      OBVIOUS
    <3>1. Item(a) = i
      BY <1>9, <2>2
    <3> QED
      BY <1>8, <2>2, <3>1 DEF Item
  <2> QED
    BY <1>11, <2>2, <2>3
<1>16. SameItem'
  BY <1>5, <1>6, <1>11, <1>13 DEF SameItem, Item
<1>17. NewestThere'
  BY <1>5, <1>6, <1>12 DEF NewestThere, Item, LibraryPath
<1>18. PackedThere'
  <2> SUFFICES ASSUME batch.at = "packed", ItemOf[batch.source] \notin byHand
               PROVE  disk'[LibraryPath(ItemOf[batch.source])] = batch.zip
    BY <1>5 DEF PackedThere, LibraryPath
  <2>1. ItemOf[batch.source] \in Items
    BY Bounds, RecrawlAssumption DEF StoreTyped, NoBatch
  <2>2. status[ItemOf[batch.source]] # "completed"
    BY DEF Steady, LibraryFits
  <2>3. ItemOf[batch.source] # i
    BY <1>8, <2>2
  <2> QED
    BY <1>6, <1>12, <1>14, <2>1, <2>3 DEF PackedThere
<1>19. StraysWait'
  <2>1. SUFFICES ASSUME NEW a \in DOMAIN artifacts \cap strayed, artifacts[a].state = "present",
                      (Item(a) \notin byHand)'
               PROVE  (/\ disk[artifacts[a].path] = None /\ status[Item(a)] = "completed"
                       /\ Candidates(Item(a)) = {a}
                       /\ \A q \in Scripts : script[q].pc = "pending" => Current(q) # Item(a))'
    BY <1>5 DEF StraysWait
  <2> PICK k : k = Item(a)
    OBVIOUS
  <2>2. Item(a)' = k /\ k \notin byHand
    BY <1>5, <1>13, <2>1
  <2>3. disk[artifacts[a].path] = None /\ status[k] = "completed" /\ Candidates(k) = {a}
    BY <1>6, <2>1, <2>2 DEF StraysWait
  <2>4. disk'[artifacts[a].path] = None
    BY <1>11, <2>3
  <2>5. \A q \in Scripts : script'[q].pc # "pending"
    BY <1>1, <1>4, OthersOff DEF Others, Uncrowded
  <2> QED
    BY <1>5, <1>13, <2>2, <2>3, <2>4, <2>5
<1>20. ReportIsTrue(p)'
  <2> SUFFICES ASSUME NEW k \in script[p].todo \ {i}, Rep(p, k).art # None
               PROVE  /\ artifacts[Rep(p, k).art].path = Rep(p, k).path
                      /\ Rep(p, k).class \in Qualities => artifacts[Rep(p, k).art].state = "present"
                      /\ k \notin byHand =>
                           /\ Rep(p, k).class \in Qualities => disk'[Rep(p, k).path] = Rep(p, k).art
                           /\ Rep(p, k).class = "missing" => disk'[LibraryPath(k)] = None
    BY <1>5, <1>7 DEF ReportIsTrue, LibraryPath
  <2>1. /\ artifacts[Rep(p, k).art].path = Rep(p, k).path
        /\ Rep(p, k).class \in Qualities => artifacts[Rep(p, k).art].state = "present"
        /\ k \notin byHand =>
             /\ Rep(p, k).class \in Qualities => disk[Rep(p, k).path] = Rep(p, k).art
             /\ Rep(p, k).class = "missing" => disk[LibraryPath(k)] = None
    BY <1>6, <1>7 DEF ReportIsTrue
  <2>2. Rep(p, k).art \in DOMAIN artifacts /\ Item(Rep(p, k).art) = k
    BY <1>3, Bounds DEF ScriptTypeOK, ScriptType, Reported, Rep
  <2>3. disk[Rep(p, k).path] = Rep(p, k).art => Rep(p, k).path # P
    BY <1>9, <2>2
  <2>4. disk[Rep(p, k).path] = Rep(p, k).art => disk'[Rep(p, k).path] = Rep(p, k).art
    BY <1>11, <2>1, <2>2, <2>3
  <2>5. disk[LibraryPath(k)] = None => disk'[LibraryPath(k)] = None
    BY <1>3, <1>12
  <2> QED
    BY <2>1, <2>4, <2>5
<1>21. InHandWaits(p)'
  BY <1>1, <1>4, <1>5, <1>6, <1>7, <1>13 DEF InHandWaits
<1>22. MovedThere(p)'
  <2>1. i \notin byHand => e \notin strayed
    BY <1>2, <1>6, <1>8 DEF StraysWait
  <2>2. /\ artifacts[e].path = P /\ disk'[D] # None
        /\ disk'[D] \in DOMAIN artifacts => Item(disk'[D]) = i
        /\ batch.at = "packed" /\ disk'[D] = batch.zip => ItemOf[batch.source] = i
        /\ i \notin byHand => disk'[D] = e /\ disk'[P] = None /\ e \notin strayed
    BY <1>2, <1>8, <1>9, <2>1
  <2> QED
    BY <1>5, <1>7, <2>2 DEF MovedThere, Item
<1>23. FreeThere(p)'
  <2> SUFFICES ASSUME i \notin byHand PROVE disk'[LibraryPath(i)] = None
    BY <1>5, <1>7 DEF FreeThere, LibraryPath
  <2>1. CASE disk[LibraryPath(i)] = None
    BY <1>3, <1>12, <2>1
  <2>2. CASE disk[LibraryPath(i)] # None
    <3>1. disk[LibraryPath(i)] \in Candidates(i)
      BY <1>3, <1>6, <1>8, <2>2, LibraryIsCandidate
    <3>2. disk[LibraryPath(i)] = disk[P]
      BY <1>8, <3>1
    <3>3. LibraryPath(i) = P
      BY <1>2, <1>3, <2>2, <3>2, PlacesFit DEF Steady, Placed
    <3> QED
      BY <1>2, <3>3
  <2> QED
    BY <2>1, <2>2
<1>24. OwnRoot(p)'
  <2>1. P[1] # script[p].root
    <3>1. P[1] < script[p].root /\ P[1] \in Nat
      <4>1. P = script[p].report[i].path /\ script[p].report[i].art # None
            /\ i \in DOMAIN script[p].report
        BY <1>2, <1>3 DEF Reported, Rep
      <4>2. ScriptType(p)
        BY Bounds
      <4>3. P[1] < script[p].root
        BY <4>1, <4>2 DEF ScriptType
      <4>4. Roots \subseteq Nat
        BY RecrawlAssumption DEF Roots
      <4>5. P \in Places => P[1] \in Roots
        BY PlacesFit
      <4> QED
        BY <1>2, <4>3, <4>4, <4>5
    <3> DEFINE l == P[1]
               r == script[p].root
    <3>2. l < r /\ l \in Nat
      BY <3>1
    <3> HIDE DEF l, r
    <3>3. l # r
      BY <3>2
    <3> QED
      BY <3>3 DEF l, r
  <2>2. \A a \in DOMAIN artifacts : artifacts[a].path[1] = script[p].root =>
          disk'[artifacts[a].path] # None /\ artifacts[a].path # D
    BY <1>1, <1>6, <1>10, <1>11, <2>1 DEF OwnRoot
  <2> QED
    BY <1>4, <1>5, <1>7, <2>2 DEF OwnRoot
<1>25. ScriptHolds(p)'
  BY <1>4, <1>20, <1>21, <1>22, <1>23, <1>24 DEF ScriptHolds, ScanIsTrue
<1> QED
  BY <1>1, <1>4, <1>15, <1>16, <1>17, <1>18, <1>19, <1>25, UncrowdedByScript

LEMMA BookUncrowded ==
  ASSUME Steady, Uncrowded, ~crowded, NEW p \in Scripts, Book(p)
  PROVE  Uncrowded'
<1> PICK i : i = Current(p)
  OBVIOUS
<1> PICK e : e = Entry(p).art
  OBVIOUS
<1> PICK P : P = Entry(p).path
  OBVIOUS
<1> PICK D : D = Destination(p)
  OBVIOUS
<1>1. /\ UNCHANGED <<status, quality, disk, batch, counters, ghosts>> /\ GoesTo(p, "pending")
      /\ script[p].pc = "book" /\ Applying(p, "book") /\ Alive(p)
      /\ artifacts' = [artifacts EXCEPT ![e].path = D, ![e].state = "present"]
  BY DEF Book, Applying, Alive, Booking
<1>2. /\ i \in script[p].todo /\ i \in Items /\ i \in Reported(p) /\ Entry(p) = Rep(p, i)
      /\ script[p].todo \subseteq Items /\ script[p].todo \subseteq Reported(p)
      /\ e \in DOMAIN artifacts /\ e # None /\ Item(e) = i
  BY <1>1, InHandIs
<1>3. /\ Others(p) /\ script'[p].pc = "pending" /\ script'[p].root = script[p].root
      /\ script'[p].todo = script[p].todo /\ script'[p].report = script[p].report
  BY <1>1, Bounds, GoesToIs
<1>4. UNCHANGED <<status, disk, batch, byHand, strayed, crowded>>
  BY <1>1 DEF ghosts
<1>5. artifacts[e] \in ArtRow
  BY <1>2, Bounds DEF StoreTyped
<1>6. /\ DOMAIN artifacts' = DOMAIN artifacts
      /\ \A b \in DOMAIN artifacts : b # e => artifacts'[b] = artifacts[b]
      /\ \A b \in DOMAIN artifacts : artifacts'[b].source = artifacts[b].source
      /\ artifacts'[e].path = D /\ artifacts'[e].state = "present"
  BY <1>1, <1>2, <1>5 DEF ArtRow
<1>7. /\ ReportIsTrue(p) /\ InHandWaits(p) /\ OwnRoot(p) /\ SameItem /\ NewestThere /\ PackedThere
      /\ StraysWait /\ PresentIsThere /\ MovedThere(p) /\ FreeThere(p)
  BY DEF Uncrowded, ScriptHolds
<1>8. /\ Ahead(p) = script[p].todo \ {i} /\ Ahead(p)' = script[p].todo \ {i}
      /\ Reported(p)' = Reported(p) /\ \A k : Rep(p, k)' = Rep(p, k)
      /\ Current(p)' = i
  BY <1>1, <1>3 DEF Ahead, Reported, Rep, Current, Scanned
<1>9. /\ artifacts[e].path = P /\ disk[D] # None
      /\ disk[D] \in DOMAIN artifacts => Item(disk[D]) = i
      /\ batch.at = "packed" /\ disk[D] = batch.zip => ItemOf[batch.source] = i
      /\ i \notin byHand => disk[D] = e /\ disk[P] = None /\ e \notin strayed
      /\ i \notin byHand => disk[LibraryPath(i)] = None /\ status[i] = "completed" /\ Candidates(i) = {e}
  BY <1>1, <1>2, <1>7 DEF MovedThere, FreeThere, InHandWaits
<1>10. /\ \A k : Candidates(k)' = Candidates(k)
       /\ \A b \in DOMAIN artifacts : Item(b)' = Item(b)
  <2>1. \A s \in SourceIds : ArchivesOf(s)' = ArchivesOf(s)
    BY <1>6 DEF ArchivesOf
  <2> QED
    BY <1>6, <2>1, CandidatesSame DEF Item
<1>11. PresentIsThere'
  <2>1. InTransit = {e} /\ InTransit' = {}
    BY <1>1, <1>3, TransitIs DEF Uncrowded
  <2> SUFFICES ASSUME NEW a \in DOMAIN artifacts, a \notin strayed,
                      artifacts'[a].state = "present", ItemOf[artifacts'[a].source] \notin byHand
               PROVE  disk[artifacts'[a].path] = a
    BY <1>4, <1>6, <2>1 DEF PresentIsThere
  <2>2. CASE a = e
    BY <1>2, <1>6, <1>9, <2>2 DEF Item
  <2>3. CASE a # e
    BY <1>6, <1>7, <2>1, <2>3 DEF PresentIsThere
  <2> QED
    BY <2>2, <2>3
<1>12. SameItem'
  <2> SUFFICES ASSUME NEW a \in DOMAIN artifacts
               PROVE  /\ disk[artifacts'[a].path] \in DOMAIN artifacts
                           => Item(disk[artifacts'[a].path]) = Item(a)
                      /\ batch.at = "packed" /\ disk[artifacts'[a].path] = batch.zip
                           => ItemOf[batch.source] = Item(a)
    BY <1>4, <1>6 DEF SameItem, Item
  <2>1. CASE a = e
    BY <1>2, <1>6, <1>9, <2>1
  <2>2. CASE a # e
    BY <1>6, <1>7, <2>2 DEF SameItem
  <2> QED
    BY <2>1, <2>2
<1>13. NewestThere'
  <2> SUFFICES ASSUME NEW k \in Items \ byHand, status[k] = "completed", disk[LibraryPath(k)] # None,
                      NEW b, b = disk[LibraryPath(k)]
               PROVE  /\ b \in DOMAIN artifacts /\ artifacts'[b].path = LibraryPath(k)
                      /\ artifacts'[b].state = "present"
                      /\ \A c \in DOMAIN artifacts : Item(c)' = k => c <= b
    BY <1>4, <1>6 DEF NewestThere, LibraryPath
  <2>1. /\ b \in DOMAIN artifacts /\ artifacts[b].path = LibraryPath(k) /\ artifacts[b].state = "present"
        /\ \A c \in DOMAIN artifacts : Item(c) = k => c <= b
    BY <1>7 DEF NewestThere
  <2>2. Item(b) = k
    BY <2>1 DEF Steady, LibraryFits
  <2>3. b # e
    BY <1>2, <1>9, <2>2
  <2> QED
    BY <1>6, <1>10, <2>1, <2>3
<1>14. PackedThere'
  BY <1>4, <1>7 DEF PackedThere, LibraryPath
<1>15. StraysWait'
  <2>1. SUFFICES ASSUME NEW a \in DOMAIN artifacts \cap strayed, artifacts'[a].state = "present",
                      (Item(a) \notin byHand)'
               PROVE  (/\ disk[artifacts[a].path] = None /\ status[Item(a)] = "completed"
                       /\ Candidates(Item(a)) = {a}
                       /\ \A q \in Scripts : script[q].pc = "pending" => Current(q) # Item(a))'
    BY <1>4, <1>6 DEF StraysWait
  <2> PICK k : k = Item(a)
    OBVIOUS
  <2>2. Item(a)' = k /\ k \notin byHand
    BY <1>4, <1>10, <2>1
  <2>3. a # e
    BY <1>2, <1>9, <2>1, <2>2
  <2>4. disk[artifacts[a].path] = None /\ status[k] = "completed" /\ Candidates(k) = {a}
    BY <1>6, <1>7, <2>1, <2>2, <2>3 DEF StraysWait
  <2>5. disk'[artifacts'[a].path] = None
    BY <1>4, <1>6, <2>3, <2>4
  <2>6. i # k
    BY <1>9, <2>2, <2>3, <2>4
  <2>7. \A q \in Scripts : script'[q].pc = "pending" => Current(q)' # k
    BY <1>1, <1>3, <1>8, <2>6, OthersOff DEF Others, Uncrowded
  <2> QED
    BY <1>4, <1>10, <2>2, <2>4, <2>5, <2>7
<1>16. ReportIsTrue(p)'
  <2> SUFFICES ASSUME NEW k \in script[p].todo \ {i}, Rep(p, k).art # None
               PROVE  /\ artifacts'[Rep(p, k).art].path = Rep(p, k).path
                      /\ Rep(p, k).class \in Qualities => artifacts'[Rep(p, k).art].state = "present"
                      /\ k \notin byHand =>
                           /\ Rep(p, k).class \in Qualities => disk[Rep(p, k).path] = Rep(p, k).art
                           /\ Rep(p, k).class = "missing" => disk[LibraryPath(k)] = None
    BY <1>4, <1>8 DEF ReportIsTrue, LibraryPath
  <2>1. /\ artifacts[Rep(p, k).art].path = Rep(p, k).path
        /\ Rep(p, k).class \in Qualities => artifacts[Rep(p, k).art].state = "present"
        /\ k \notin byHand =>
             /\ Rep(p, k).class \in Qualities => disk[Rep(p, k).path] = Rep(p, k).art
             /\ Rep(p, k).class = "missing" => disk[LibraryPath(k)] = None
    BY <1>7, <1>8 DEF ReportIsTrue
  <2>2. Rep(p, k).art \in DOMAIN artifacts /\ Item(Rep(p, k).art) = k
    BY <1>2, Bounds DEF ScriptTypeOK, ScriptType, Reported, Rep
  <2>3. Rep(p, k).art # e
    BY <1>2, <2>2
  <2> QED
    BY <1>6, <2>1, <2>2, <2>3
<1>17. InHandWaits(p)'
  BY <1>1, <1>3, <1>4, <1>7, <1>8, <1>10 DEF InHandWaits
<1>18. ScanIsTrue(p)' /\ MovedThere(p)'
  BY <1>3 DEF ScanIsTrue, MovedThere
<1>19. FreeThere(p)'
  BY <1>4, <1>8, <1>9 DEF FreeThere, LibraryPath
<1>20. OwnRoot(p)'
  <2>1. \A a \in DOMAIN artifacts : artifacts'[a].path[1] = script[p].root => disk[artifacts'[a].path] # None
    BY <1>1, <1>6, <1>7, <1>9 DEF OwnRoot
  <2> QED
    BY <1>3, <1>4, <1>6, <2>1 DEF OwnRoot
<1>21. ScriptHolds(p)'
  BY <1>16, <1>17, <1>18, <1>19, <1>20 DEF ScriptHolds
<1> QED
  BY <1>1, <1>3, <1>11, <1>12, <1>13, <1>14, <1>15, <1>21, UncrowdedByScript

LEMMA MarkMissingUncrowded ==
  ASSUME Steady, Uncrowded, ~crowded, NEW p \in Scripts, MarkMissing(p)
  PROVE  Uncrowded'
<1> PICK i : i = Current(p)
  OBVIOUS
<1> PICK e : e = Entry(p).art
  OBVIOUS
<1>1. /\ UNCHANGED <<status, quality, disk, batch, counters, ghosts>> /\ GoesTo(p, "pending")
      /\ script[p].pc = "apply" /\ Applying(p, "apply") /\ Alive(p)
      /\ Entry(p).class = "missing" /\ e # None
      /\ artifacts' = [artifacts EXCEPT ![e].state = "missing"]
  BY DEF MarkMissing, Applying, Alive, Passed
<1>2. /\ i \in script[p].todo /\ i \in Items /\ i \in Reported(p) /\ Entry(p) = Rep(p, i)
      /\ script[p].todo \subseteq Items /\ script[p].todo \subseteq Reported(p)
      /\ e \in DOMAIN artifacts /\ Item(e) = i
  BY <1>1, InHandIs
<1>3. /\ Others(p) /\ script'[p].pc = "pending" /\ script'[p].root = script[p].root
      /\ script'[p].todo = script[p].todo /\ script'[p].report = script[p].report
  BY <1>1, Bounds, GoesToIs
<1>4. UNCHANGED <<status, disk, batch, byHand, strayed, crowded>>
  BY <1>1 DEF ghosts
<1>5. artifacts[e] \in ArtRow
  BY <1>2, Bounds DEF StoreTyped
<1>6. /\ DOMAIN artifacts' = DOMAIN artifacts
      /\ \A b \in DOMAIN artifacts : b # e => artifacts'[b] = artifacts[b]
      /\ \A b \in DOMAIN artifacts : artifacts'[b].source = artifacts[b].source
      /\ \A b \in DOMAIN artifacts : artifacts'[b].path = artifacts[b].path
      /\ artifacts'[e].state = "missing"
  BY <1>1, <1>2, <1>5 DEF ArtRow
<1>7. /\ ReportIsTrue(p) /\ InHandWaits(p) /\ OwnRoot(p) /\ SameItem /\ NewestThere /\ PackedThere
      /\ StraysWait /\ PresentIsThere
  BY DEF Uncrowded, ScriptHolds
<1>8. /\ Ahead(p) = script[p].todo /\ Ahead(p)' = script[p].todo \ {i}
      /\ Reported(p)' = Reported(p) /\ \A k : Rep(p, k)' = Rep(p, k)
      /\ Current(p)' = i
  BY <1>1, <1>3 DEF Ahead, Reported, Rep, Current, Scanned
<1>9. i \notin byHand => disk[LibraryPath(i)] = None /\ status[i] = "completed" /\ Candidates(i) = {e}
  BY <1>1, <1>2, <1>7, <1>8 DEF ReportIsTrue, InHandWaits
<1>10. /\ \A k : Candidates(k)' = Candidates(k)
       /\ \A b \in DOMAIN artifacts : Item(b)' = Item(b)
  <2>1. \A s \in SourceIds : ArchivesOf(s)' = ArchivesOf(s)
    BY <1>6 DEF ArchivesOf
  <2> QED
    BY <1>6, <2>1, CandidatesSame DEF Item
<1>11. PresentIsThere'
  <2>1. InTransit = {} /\ InTransit' = {}
    BY <1>1, <1>3, TransitIs DEF Uncrowded
  <2>2. \A a \in DOMAIN artifacts : artifacts'[a].state = "present" => a # e
    BY <1>6
  <2> QED
    BY <1>4, <1>6, <1>7, <2>1, <2>2 DEF PresentIsThere
<1>12. SameItem' /\ PackedThere'
  BY <1>4, <1>6, <1>7 DEF SameItem, Item, PackedThere, LibraryPath
<1>13. NewestThere'
  <2> SUFFICES ASSUME NEW k \in Items \ byHand, status[k] = "completed", disk[LibraryPath(k)] # None,
                      NEW b, b = disk[LibraryPath(k)]
               PROVE  /\ b \in DOMAIN artifacts /\ artifacts'[b].path = LibraryPath(k)
                      /\ artifacts'[b].state = "present"
                      /\ \A c \in DOMAIN artifacts : Item(c)' = k => c <= b
    BY <1>4, <1>6 DEF NewestThere, LibraryPath
  <2>1. /\ b \in DOMAIN artifacts /\ artifacts[b].path = LibraryPath(k) /\ artifacts[b].state = "present"
        /\ \A c \in DOMAIN artifacts : Item(c) = k => c <= b
    BY <1>7 DEF NewestThere
  <2>2. Item(b) = k
    BY <2>1 DEF Steady, LibraryFits
  <2>3. b # e
    BY <1>2, <1>9, <2>2
  <2> QED
    BY <1>6, <1>10, <2>1, <2>3
<1>15. StraysWait'
  <2>1. SUFFICES ASSUME NEW a \in DOMAIN artifacts \cap strayed, artifacts'[a].state = "present",
                      (Item(a) \notin byHand)'
               PROVE  (/\ disk[artifacts[a].path] = None /\ status[Item(a)] = "completed"
                       /\ Candidates(Item(a)) = {a}
                       /\ \A q \in Scripts : script[q].pc = "pending" => Current(q) # Item(a))'
    BY <1>4, <1>6 DEF StraysWait
  <2> PICK k : k = Item(a)
    OBVIOUS
  <2>2. Item(a)' = k /\ k \notin byHand
    BY <1>4, <1>10, <2>1
  <2>3. a # e
    BY <1>6, <2>1
  <2>4. disk[artifacts[a].path] = None /\ status[k] = "completed" /\ Candidates(k) = {a}
    BY <1>6, <1>7, <2>1, <2>2, <2>3 DEF StraysWait
  <2>5. disk'[artifacts'[a].path] = None
    BY <1>4, <1>6, <2>3, <2>4
  <2>6. i # k
    BY <1>9, <2>2, <2>3, <2>4
  <2>7. \A q \in Scripts : script'[q].pc = "pending" => Current(q)' # k
    BY <1>1, <1>3, <1>8, <2>6, OthersOff DEF Others, Uncrowded
  <2> QED
    BY <1>4, <1>10, <2>2, <2>4, <2>5, <2>7
<1>16. ReportIsTrue(p)'
  <2> SUFFICES ASSUME NEW k \in script[p].todo \ {i}, Rep(p, k).art # None
               PROVE  /\ artifacts'[Rep(p, k).art].path = Rep(p, k).path
                      /\ Rep(p, k).class \in Qualities => artifacts'[Rep(p, k).art].state = "present"
                      /\ k \notin byHand =>
                           /\ Rep(p, k).class \in Qualities => disk[Rep(p, k).path] = Rep(p, k).art
                           /\ Rep(p, k).class = "missing" => disk[LibraryPath(k)] = None
    BY <1>4, <1>8 DEF ReportIsTrue, LibraryPath
  <2>1. /\ artifacts[Rep(p, k).art].path = Rep(p, k).path
        /\ Rep(p, k).class \in Qualities => artifacts[Rep(p, k).art].state = "present"
        /\ k \notin byHand =>
             /\ Rep(p, k).class \in Qualities => disk[Rep(p, k).path] = Rep(p, k).art
             /\ Rep(p, k).class = "missing" => disk[LibraryPath(k)] = None
    BY <1>7, <1>8 DEF ReportIsTrue
  <2>2. Rep(p, k).art \in DOMAIN artifacts /\ Item(Rep(p, k).art) = k
    BY <1>2, Bounds DEF ScriptTypeOK, ScriptType, Reported, Rep
  <2>3. Rep(p, k).art # e
    BY <1>2, <2>2
  <2> QED
    BY <1>6, <2>1, <2>2, <2>3
<1>17. InHandWaits(p)'
  BY <1>1, <1>3, <1>4, <1>7, <1>8, <1>10 DEF InHandWaits
<1>18. ScanIsTrue(p)' /\ MovedThere(p)'
  BY <1>3 DEF ScanIsTrue, MovedThere
<1>19. FreeThere(p)'
  BY <1>4, <1>8, <1>9 DEF FreeThere, LibraryPath
<1>20. OwnRoot(p)'
  BY <1>1, <1>3, <1>4, <1>6, <1>7 DEF OwnRoot
<1>21. ScriptHolds(p)'
  BY <1>16, <1>17, <1>18, <1>19, <1>20 DEF ScriptHolds
<1> QED
  BY <1>1, <1>3, <1>11, <1>12, <1>13, <1>15, <1>21, UncrowdedByScript

\* The steps of a batch, an operator and a disk.
LEMMA ScriptSame ==
  ASSUME script' = script
  PROVE  /\ \A p : Alive(p)' = Alive(p) /\ Current(p)' = Current(p) /\ Entry(p)' = Entry(p)
              /\ Ahead(p)' = Ahead(p) /\ Reported(p)' = Reported(p)
              /\ Destination(p)' = Destination(p) /\ \A i : Rep(p, i)' = Rep(p, i)
         /\ InTransit' = InTransit
<1>1. \A p : /\ Alive(p)' = Alive(p) /\ Current(p)' = Current(p) /\ Entry(p)' = Entry(p)
             /\ Reported(p)' = Reported(p)
             /\ Destination(p)' = Destination(p) /\ \A i : Rep(p, i)' = Rep(p, i)
  BY DEF Alive, Current, Entry, Reported, Rep, Destination, BackupDestination
<1>2. \A p : Ahead(p)' = Ahead(p)
  BY DEF Ahead, Scanned, Current
<1>3. InTransit' = InTransit
  BY DEF InTransit, Entry
<1> QED
  BY <1>1, <1>2, <1>3

LEMMA OthersQuiet ==
  ASSUME Steady, Uncrowded, UNCHANGED <<status, artifacts, disk, byHand, strayed, crowded, script>>,
         batch'.at # "packed" \/ batch' = batch
  PROVE  Uncrowded'
<1>1. /\ OneAlive /\ PresentIsThere /\ SameItem /\ NewestThere /\ PackedThere /\ StraysWait
      /\ \A p \in Scripts : ScriptHolds(p)
  BY DEF Uncrowded
<1>2. (\A i : Candidates(i)' = Candidates(i)) /\ (\A a : Item(a)' = Item(a))
  BY CandidatesSame DEF ArchivesOf, Item
<1>3. OneAlive' /\ PresentIsThere' /\ NewestThere'
  BY <1>1, ScriptSame DEF OneAlive, PresentIsThere, NewestThere, Item, LibraryPath
<1>4. SameItem' /\ PackedThere'
  BY <1>1 DEF SameItem, PackedThere, Item, LibraryPath
<1>5. StraysWait'
  <2>1. SUFFICES ASSUME NEW a \in DOMAIN artifacts \cap strayed, artifacts[a].state = "present",
                      (Item(a) \notin byHand)'
               PROVE  (/\ disk[artifacts[a].path] = None /\ status[Item(a)] = "completed"
                       /\ Candidates(Item(a)) = {a}
                       /\ \A q \in Scripts : script[q].pc = "pending" => Current(q) # Item(a))'
    BY DEF StraysWait
  <2> PICK k : k = Item(a)
    OBVIOUS
  <2>2. Item(a)' = k /\ k \notin byHand
    BY <1>2, <2>1
  <2>3. /\ disk[artifacts[a].path] = None /\ status[k] = "completed" /\ Candidates(k) = {a}
        /\ \A q \in Scripts : script[q].pc = "pending" => Current(q) # k
    BY <1>1, <2>1, <2>2 DEF StraysWait
  <2> QED
    BY <1>2, <2>2, <2>3, ScriptSame
<1>6. \A p \in Scripts : ScriptHolds(p)'
  <2> SUFFICES ASSUME NEW p \in Scripts PROVE ScriptHolds(p)'
    OBVIOUS
  <2>1. /\ ScanIsTrue(p) /\ ReportIsTrue(p) /\ InHandWaits(p) /\ MovedThere(p) /\ FreeThere(p)
        /\ OwnRoot(p)
    BY <1>1 DEF ScriptHolds
  <2>2. ScanIsTrue(p)' /\ InHandWaits(p)'
    BY <1>2, <2>1, ScriptSame DEF ScanIsTrue, InHandWaits
  <2>3. ReportIsTrue(p)' /\ FreeThere(p)' /\ OwnRoot(p)'
    BY <2>1, ScriptSame DEF ReportIsTrue, FreeThere, OwnRoot, LibraryPath
  <2>4. MovedThere(p)'
    BY <1>2, <2>1, ScriptSame DEF MovedThere, Item
  <2> QED
    BY <2>2, <2>3, <2>4 DEF ScriptHolds
<1> QED
  BY <1>3, <1>4, <1>5, <1>6 DEF Uncrowded

LEMMA ItemStatusUncrowded ==
  ASSUME Steady, Uncrowded, NEW k \in Items, NEW s \in Statuses, ItemStatus(k, s)
  PROVE  Uncrowded'
<1>1. /\ UNCHANGED <<artifacts, disk, batch, script, strayed, crowded>>
      /\ status' = [status EXCEPT ![k] = s] /\ byHand' = byHand \cup {k}
  BY DEF ItemStatus
<1>2. \A i \in Items : i \notin byHand' => i \notin byHand /\ status'[i] = status[i]
  BY <1>1, Bounds DEF StoreTyped
<1>3. /\ OneAlive /\ PresentIsThere /\ SameItem /\ NewestThere /\ PackedThere /\ StraysWait
      /\ \A p \in Scripts : ScriptHolds(p)
  BY DEF Uncrowded
<1>4. /\ (\A i : Candidates(i)' = Candidates(i)) /\ (\A a : Item(a)' = Item(a))
      /\ \A a \in DOMAIN artifacts : Item(a) \in Items
  BY <1>1, CandidatesSame, Bounds, RecrawlAssumption
     DEF ArchivesOf, Item, StoreTyped, ArtRow
<1>5. OneAlive' /\ PresentIsThere'
  BY <1>1, <1>3, ScriptSame DEF OneAlive, PresentIsThere
<1>6. NewestThere'
  BY <1>1, <1>2, <1>3 DEF NewestThere, Item, LibraryPath
<1>7. SameItem' /\ PackedThere'
  BY <1>1, <1>3 DEF SameItem, PackedThere, Item, LibraryPath
<1>8. StraysWait'
  <2>1. SUFFICES ASSUME NEW a \in DOMAIN artifacts \cap strayed, artifacts[a].state = "present",
                      (Item(a) \notin byHand)'
               PROVE  (/\ disk[artifacts[a].path] = None /\ status[Item(a)] = "completed"
                       /\ Candidates(Item(a)) = {a}
                       /\ \A q \in Scripts : script[q].pc = "pending" => Current(q) # Item(a))'
    BY <1>1 DEF StraysWait
  <2> PICK i : i = Item(a)
    OBVIOUS
  <2>2. Item(a)' = i /\ i \notin byHand /\ i \in Items /\ status'[i] = status[i]
    BY <1>2, <1>4, <2>1
  <2>3. /\ disk[artifacts[a].path] = None /\ status[i] = "completed" /\ Candidates(i) = {a}
        /\ \A q \in Scripts : script[q].pc = "pending" => Current(q) # i
    BY <1>3, <2>1, <2>2 DEF StraysWait
  <2> QED
    BY <1>1, <1>4, <2>2, <2>3, ScriptSame
<1>9. \A p \in Scripts : ScriptHolds(p)'
  <2> SUFFICES ASSUME NEW p \in Scripts PROVE ScriptHolds(p)'
    OBVIOUS
  <2>1. /\ ScanIsTrue(p) /\ ReportIsTrue(p) /\ InHandWaits(p) /\ MovedThere(p) /\ FreeThere(p)
        /\ OwnRoot(p)
    BY <1>3 DEF ScriptHolds
  <2>2. script[p].todo \subseteq Items /\ Ahead(p) \subseteq Items
    BY Bounds DEF ScriptTypeOK, ScriptType, Ahead, Scanned
  <2>3. ScanIsTrue(p)'
    BY <1>1, <1>4, <2>1 DEF ScanIsTrue
  <2>4. InHandWaits(p)'
    BY <1>1, <1>2, <1>4, <2>1, <2>2, ScriptSame DEF InHandWaits
  <2>5. ReportIsTrue(p)' /\ FreeThere(p)' /\ OwnRoot(p)'
    BY <1>1, <2>1, ScriptSame DEF ReportIsTrue, FreeThere, OwnRoot, LibraryPath
  <2>6. MovedThere(p)'
    BY <1>1, <1>4, <2>1, ScriptSame DEF MovedThere, Item
  <2> QED
    BY <2>3, <2>4, <2>5, <2>6 DEF ScriptHolds
<1> QED
  BY <1>5, <1>6, <1>7, <1>8, <1>9 DEF Uncrowded

LEMMA PackUncrowded ==
  ASSUME Steady, Uncrowded, NEW quality0 \in {"preferred", "fallback"}, BatchPack(quality0)
  PROVE  Uncrowded'
<1> PICK I : I = ItemOf[batch.source]
  OBVIOUS
<1> PICK L : L = LibraryPath(I)
  OBVIOUS
<1> PICK z : z = Len(quality) + 1
  OBVIOUS
<1>1. /\ I \in Items /\ L \in Places /\ L[1] = Library /\ L[2] = I /\ disk[L] = None
      /\ z \notin DOMAIN quality /\ z # None
      /\ disk'[L] = z /\ \A x \in Places : x # L => disk'[x] = disk[x]
      /\ batch'.source = batch.source /\ batch'.at = "packed" /\ batch'.zip = z
  BY PackIs, PlacesFit
<1>2. /\ UNCHANGED <<status, artifacts, script, byHand, strayed, crowded>>
      /\ batch.at = "crawl"
  BY DEF BatchPack, ghosts
<1>3. /\ OneAlive /\ PresentIsThere /\ SameItem /\ NewestThere /\ PackedThere /\ StraysWait
      /\ \A p \in Scripts : ScriptHolds(p)
  BY DEF Uncrowded
<1>4. /\ (\A i : Candidates(i)' = Candidates(i)) /\ (\A a : Item(a)' = Item(a))
      /\ z \notin DOMAIN artifacts /\ None \notin DOMAIN artifacts
      /\ \A a \in DOMAIN artifacts : artifacts[a].path \in Places /\ Fits(artifacts[a].path, Item(a))
      /\ \A x \in Places : disk[x] # z
  BY <1>1, <1>2, CandidatesSame, Bounds DEF ArchivesOf, Item, StoreTyped, ArtRow, Steady, RowsFit
\* An Item that is being archived is not a completed one.
<1>5. I \notin byHand => status[I] # "completed"
  BY <1>2 DEF Steady, LibraryFits
<1>6. \A x \in Places : disk[x] # None => disk'[x] = disk[x]
  BY <1>1
<1>7. \A k \in Items : k # I => disk'[LibraryPath(k)] = disk[LibraryPath(k)]
  <2> SUFFICES ASSUME NEW k \in Items, k # I PROVE disk'[LibraryPath(k)] = disk[LibraryPath(k)]
    OBVIOUS
  <2>1. LibraryPath(k) \in Places /\ LibraryPath(k)[2] = k
    BY PlacesFit
  <2> QED
    BY <1>1, <2>1
<1>8. \A a \in DOMAIN artifacts : artifacts[a].path = L => Item(a) = I
  BY <1>1, <1>4 DEF Fits
<1>9. OneAlive' /\ PresentIsThere'
  <2>1. \A a \in DOMAIN artifacts : disk[artifacts[a].path] = a => disk'[artifacts[a].path] = a
    BY <1>4, <1>6
  <2>2. OneAlive'
    BY <1>2, <1>3, ScriptSame DEF OneAlive
  <2>3. PresentIsThere'
    BY <1>2, <1>3, <2>1, ScriptSame DEF PresentIsThere
  <2> QED
    BY <2>2, <2>3
<1>10. SameItem'
  <2> SUFFICES ASSUME NEW a \in DOMAIN artifacts
               PROVE  /\ disk'[artifacts[a].path] \in DOMAIN artifacts
                           => Item(disk'[artifacts[a].path]) = Item(a)
                      /\ disk'[artifacts[a].path] = z => I = Item(a)
    BY <1>1, <1>2, <1>4 DEF SameItem, Item
  <2>1. CASE artifacts[a].path = L
    BY <1>1, <1>4, <1>8, <2>1
  <2>2. CASE artifacts[a].path # L
    BY <1>1, <1>3, <1>4, <2>2 DEF SameItem
  <2> QED
    BY <2>1, <2>2
<1>11. NewestThere'
  <2>1. \A k \in Items \ byHand : status[k] = "completed" => disk'[LibraryPath(k)] = disk[LibraryPath(k)]
    BY <1>5, <1>7
  <2> QED
    BY <1>2, <1>3, <2>1 DEF NewestThere, Item, LibraryPath
<1>12. PackedThere'
  BY <1>1 DEF PackedThere, LibraryPath
<1>13. StraysWait'
  <2>1. SUFFICES ASSUME NEW a \in DOMAIN artifacts \cap strayed, artifacts[a].state = "present",
                      (Item(a) \notin byHand)'
               PROVE  (/\ disk[artifacts[a].path] = None /\ status[Item(a)] = "completed"
                       /\ Candidates(Item(a)) = {a}
                       /\ \A q \in Scripts : script[q].pc = "pending" => Current(q) # Item(a))'
    BY <1>2 DEF StraysWait
  <2> PICK i : i = Item(a)
    OBVIOUS
  <2>2. Item(a)' = i /\ i \notin byHand
    BY <1>2, <1>4, <2>1
  <2>3. /\ disk[artifacts[a].path] = None /\ status[i] = "completed" /\ Candidates(i) = {a}
        /\ \A q \in Scripts : script[q].pc = "pending" => Current(q) # i
    BY <1>3, <2>1, <2>2 DEF StraysWait
  <2>4. artifacts[a].path # L
    BY <1>5, <1>8, <2>2, <2>3
  <2>5. disk'[artifacts[a].path] = None
    BY <1>1, <1>4, <2>3, <2>4
  <2> QED
    BY <1>2, <1>4, <2>2, <2>3, <2>5, ScriptSame
<1>14. \A p \in Scripts : ScriptHolds(p)'
  <2> SUFFICES ASSUME NEW p \in Scripts PROVE ScriptHolds(p)'
    OBVIOUS
  <2>1. /\ ScanIsTrue(p) /\ ReportIsTrue(p) /\ InHandWaits(p) /\ MovedThere(p) /\ FreeThere(p)
        /\ OwnRoot(p)
    BY <1>3 DEF ScriptHolds
  <2>2. script[p].todo \subseteq Items /\ Ahead(p) \subseteq Items
    BY Bounds DEF ScriptTypeOK, ScriptType, Ahead, Scanned
  <2>3. ScanIsTrue(p)' /\ InHandWaits(p)'
    BY <1>2, <1>4, <2>1, ScriptSame DEF ScanIsTrue, InHandWaits
  <2>4. \A i \in (script[p].todo \cup Ahead(p)) \ byHand : Alive(p) => i # I
    BY <1>5, <2>1 DEF InHandWaits
  <2>5. \A i \in Ahead(p) : i \in Reported(p) /\ Alive(p) /\ (Rep(p, i).art # None =>
          Rep(p, i).art \in DOMAIN artifacts)
    BY Bounds DEF ScriptTypeOK, ScriptType, Reported, Rep, Ahead, Scanned, Alive
  <2>6. ReportIsTrue(p)'
    <3> SUFFICES ASSUME NEW i \in Ahead(p), Rep(p, i).art # None
                 PROVE  /\ artifacts[Rep(p, i).art].path = Rep(p, i).path
                        /\ Rep(p, i).class \in Qualities => artifacts[Rep(p, i).art].state = "present"
                        /\ i \notin byHand =>
                             /\ Rep(p, i).class \in Qualities => disk'[Rep(p, i).path] = Rep(p, i).art
                             /\ Rep(p, i).class = "missing" => disk'[LibraryPath(i)] = None
      BY <1>2, ScriptSame DEF ReportIsTrue, LibraryPath
    <3>1. /\ artifacts[Rep(p, i).art].path = Rep(p, i).path
          /\ Rep(p, i).class \in Qualities => artifacts[Rep(p, i).art].state = "present"
          /\ i \notin byHand =>
               /\ Rep(p, i).class \in Qualities => disk[Rep(p, i).path] = Rep(p, i).art
               /\ Rep(p, i).class = "missing" => disk[LibraryPath(i)] = None
      BY <2>1 DEF ReportIsTrue
    <3>2. Rep(p, i).path \in Places
      BY <1>4, <2>5, <3>1
    <3>3. i \notin byHand => disk'[LibraryPath(i)] = disk[LibraryPath(i)]
      BY <1>7, <2>2, <2>4, <2>5
    <3> QED
      BY <1>6, <3>1, <3>2, <3>3
  <2>7. FreeThere(p)'
    <3> SUFFICES ASSUME script[p].pc \in {"book", "pending"}, Current(p) \notin byHand
                 PROVE  disk'[LibraryPath(Current(p))] = None
      BY <1>2, ScriptSame DEF FreeThere, LibraryPath
    <3>1. Current(p) \in script[p].todo /\ Current(p) \in Items /\ Alive(p)
      BY InHandIs, Bounds DEF Applying, ScriptType
    <3> QED
      BY <1>7, <2>1, <2>4, <3>1 DEF FreeThere
  <2>8. OwnRoot(p)'
    BY <1>2, <1>4, <1>6, <2>1, ScriptSame DEF OwnRoot
  <2>9. MovedThere(p)'
    <3> SUFFICES ASSUME script[p].pc = "book" PROVE MovedThere(p)'
      BY <1>2 DEF MovedThere
    <3> PICK i : i = Current(p)
      OBVIOUS
    <3> PICK e : e = Entry(p).art
      OBVIOUS
    <3> PICK P : P = Entry(p).path
      OBVIOUS
    <3> PICK D : D = Destination(p)
      OBVIOUS
    <3>1. i \in script[p].todo /\ Alive(p) /\ Entry(p) \in EntryType /\ e \in DOMAIN artifacts
          /\ Item(e) = i
      BY InHandIs, Bounds DEF Applying, ScriptType
    <3>2. /\ artifacts[e].path = P /\ disk[D] # None
          /\ disk[D] \in DOMAIN artifacts => Item(disk[D]) = i
          /\ i \notin byHand => disk[D] = e /\ disk[P] = None /\ e \notin strayed
      BY <2>1 DEF MovedThere
    <3>3. P \in Places /\ D \in Places
      BY <3>1, PlacesFit, Bounds DEF EntryType, Destination, ScriptTypeOK
    <3>4. disk'[D] = disk[D] /\ disk'[D] # z
      BY <1>4, <1>6, <3>2, <3>3
    <3>5. i \notin byHand => disk'[P] = None
      BY <1>1, <1>8, <2>4, <3>1, <3>2, <3>3
    <3>6. /\ artifacts[e].path = P /\ disk'[D] # None
          /\ disk'[D] \in DOMAIN artifacts => Item(disk'[D]) = i
          /\ disk'[D] # z
          /\ i \notin byHand => disk'[D] = e /\ disk'[P] = None /\ e \notin strayed
      BY <3>2, <3>4, <3>5
    <3>7. Current(p)' = i /\ Entry(p)' = Entry(p) /\ Destination(p)' = D
      BY <1>2, ScriptSame
    <3> QED
      BY <1>1, <1>2, <3>6, <3>7 DEF MovedThere, Item
  <2> QED
    BY <2>3, <2>6, <2>7, <2>8, <2>9 DEF ScriptHolds
<1> QED
  BY <1>9, <1>10, <1>11, <1>12, <1>13, <1>14 DEF Uncrowded

LEMMA FinalizeUncrowded ==
  ASSUME Steady, Uncrowded, BatchFinalize
  PROVE  Uncrowded'
<1> PICK I : I = ItemOf[batch.source]
  OBVIOUS
<1> PICK L : L = LibraryPath(I)
  OBVIOUS
<1> PICK z : z = batch.zip
  OBVIOUS
<1>1. /\ I \in Items /\ z = Len(quality) /\ z \in DOMAIN quality /\ z \notin DOMAIN artifacts /\ z # None
      /\ DOMAIN artifacts' = DOMAIN artifacts \cup {z}
      /\ \A b \in DOMAIN artifacts : artifacts'[b] = artifacts[b]
      /\ artifacts'[z].source = batch.source /\ artifacts'[z].path = L
      /\ artifacts'[z].state = "present"
      /\ batch'.at = "idle" /\ batch.at = "packed"
      /\ status' = [status EXCEPT ![I] = "completed"]
      /\ UNCHANGED <<disk, script, byHand, strayed, crowded>>
  BY FinalizeIs DEF ghosts
<1>2. /\ OneAlive /\ PresentIsThere /\ SameItem /\ NewestThere /\ PackedThere /\ StraysWait
      /\ \A p \in Scripts : ScriptHolds(p)
  BY DEF Uncrowded
<1>3. /\ \A a \in DOMAIN artifacts : Item(a)' = Item(a) /\ Item(a) \in Items /\ a <= z
      /\ Item(z)' = I /\ L \in Places /\ L[1] = Library
  <2>1. \A a \in DOMAIN artifacts : a \in Nat /\ a <= z
    BY <1>1, Bounds DEF StoreTyped
  <2> QED
    BY <1>1, <2>1, PlacesFit, Bounds, RecrawlAssumption DEF Item, StoreTyped, ArtRow
<1>4. /\ \A k \in Items : status'[k] = "completed" => k = I \/ status[k] = "completed"
      /\ \A k \in Items : status[k] = "completed" => status'[k] = "completed"
  BY <1>1, Bounds DEF StoreTyped
\* The Item that is archived is not a completed one; the others keep theirs.
<1>5. I \notin byHand => status[I] # "completed"
  BY <1>1 DEF Steady, LibraryFits
<1>6. \A k : k # I => Candidates(k)' = Candidates(k)
  <2> SUFFICES ASSUME NEW k, k # I PROVE Candidates(k)' = Candidates(k)
    OBVIOUS
  <2>1. \A s \in SourceIds : ItemOf[s] = k => ArchivesOf(s)' = ArchivesOf(s)
    BY <1>1 DEF ArchivesOf
  <2> QED
    BY <2>1, CandidatesSame
<1>7. I \notin byHand => disk[L] = z
  BY <1>1, <1>2 DEF PackedThere
<1>8. OneAlive' /\ PackedThere'
  BY <1>1, <1>2, ScriptSame DEF OneAlive, PackedThere
<1>9. PresentIsThere'
  <2> SUFFICES ASSUME ~crowded, NEW a \in DOMAIN artifacts', a \notin strayed \cup InTransit,
                      artifacts'[a].state = "present", ItemOf[artifacts'[a].source] \notin byHand
               PROVE  disk[artifacts'[a].path] = a
    BY <1>1, ScriptSame DEF PresentIsThere
  <2>1. CASE a = z
    BY <1>1, <1>7, <2>1
  <2>2. CASE a # z
    BY <1>1, <1>2, <2>2 DEF PresentIsThere
  <2> QED
    BY <2>1, <2>2
<1>10. SameItem'
  <2> SUFFICES ASSUME NEW a \in DOMAIN artifacts', NEW b \in DOMAIN artifacts',
                      disk[artifacts'[a].path] = b
               PROVE  Item(b)' = Item(a)'
    <3>1. \A a \in DOMAIN artifacts' : disk'[artifacts'[a].path] \in DOMAIN artifacts'
            => Item(disk[artifacts[a].path])' = Item(a)'
      <4> SUFFICES ASSUME NEW a \in DOMAIN artifacts', disk'[artifacts'[a].path] \in DOMAIN artifacts'
                   PROVE  (Item(disk[artifacts[a].path]) = Item(a))'
        OBVIOUS
      <4> PICK b : b = disk'[artifacts'[a].path]
        OBVIOUS
      <4>1. Item(b)' = Item(a)'
        BY <1>1
      <4> QED
        BY <4>1 DEF Item
    <3> QED
      BY <1>1, <3>1 DEF SameItem
  <2>1. CASE a = z /\ b = z
    BY <2>1
  <2>2. CASE a = z /\ b # z
    <3>1. Item(b) = I
      BY <1>1, <2>2 DEF Steady, LibraryFits
    <3> QED
      BY <1>1, <1>3, <2>2, <3>1
  <2>3. CASE a # z /\ b = z
    <3>1. I = Item(a)
      BY <1>1, <1>2, <2>3 DEF SameItem
    <3> QED
      BY <1>1, <1>3, <2>3, <3>1
  <2>4. CASE a # z /\ b # z
    <3>1. Item(b) = Item(a)
      BY <1>1, <1>2, <2>4 DEF SameItem
    <3> QED
      BY <1>1, <1>3, <2>4, <3>1
  <2> QED
    BY <2>1, <2>2, <2>3, <2>4
<1>11. NewestThere'
  <2> SUFFICES ASSUME NEW k \in Items \ byHand, status'[k] = "completed", disk[LibraryPath(k)] # None,
                      NEW b, b = disk[LibraryPath(k)]
               PROVE  /\ b \in DOMAIN artifacts' /\ artifacts'[b].path = LibraryPath(k)
                      /\ artifacts'[b].state = "present"
                      /\ \A c \in DOMAIN artifacts' : Item(c)' = k => c <= b
    BY <1>1 DEF NewestThere, LibraryPath
  <2>1. CASE k = I
    <3>1. z \in Nat /\ b = z
      BY <1>1, <1>7, <2>1, Bounds
    <3> QED
      BY <1>1, <1>3, <2>1, <3>1
  <2>2. CASE k # I
    BY <1>1, <1>2, <1>3, <1>4, <2>2 DEF NewestThere
  <2> QED
    BY <2>1, <2>2
<1>12. StraysWait'
  <2>1. SUFFICES ASSUME NEW a \in DOMAIN artifacts' \cap strayed, artifacts'[a].state = "present",
                      (Item(a) \notin byHand)'
               PROVE  (/\ disk[artifacts[a].path] = None /\ status[Item(a)] = "completed"
                       /\ Candidates(Item(a)) = {a}
                       /\ \A q \in Scripts : script[q].pc = "pending" => Current(q) # Item(a))'
    BY <1>1 DEF StraysWait
  <2>2. a \in DOMAIN artifacts /\ artifacts'[a] = artifacts[a]
    BY <1>1, <2>1, Bounds DEF BoundsTyped
  <2> PICK i : i = Item(a)
    OBVIOUS
  <2>3. Item(a)' = i /\ i \notin byHand /\ i \in Items
    BY <1>1, <1>3, <2>1, <2>2
  <2>4. /\ disk[artifacts[a].path] = None /\ status[i] = "completed" /\ Candidates(i) = {a}
        /\ \A q \in Scripts : script[q].pc = "pending" => Current(q) # i
    BY <1>2, <2>1, <2>2, <2>3 DEF StraysWait
  <2>5. i # I
    BY <1>5, <2>3, <2>4
  <2>6. status'[i] = "completed" /\ Candidates(i)' = {a} /\ disk'[artifacts'[a].path] = None
    BY <1>1, <1>4, <1>6, <2>2, <2>3, <2>4, <2>5
  <2> QED
    BY <1>1, <2>3, <2>4, <2>6, ScriptSame
<1>13. \A p \in Scripts : ScriptHolds(p)'
  <2> SUFFICES ASSUME NEW p \in Scripts PROVE ScriptHolds(p)'
    OBVIOUS
  <2>1. /\ ScanIsTrue(p) /\ ReportIsTrue(p) /\ InHandWaits(p) /\ MovedThere(p) /\ FreeThere(p)
        /\ OwnRoot(p)
    BY <1>2 DEF ScriptHolds
  <2>2. script[p].todo \subseteq Items /\ Ahead(p) \subseteq Items
    BY Bounds DEF ScriptTypeOK, ScriptType, Ahead, Scanned
  <2>3. \A i \in (script[p].todo \cup Ahead(p)) \ byHand : Alive(p) =>
          /\ i # I /\ Candidates(i)' = Candidates(i) /\ status'[i] = "completed"
    BY <1>4, <1>5, <1>6, <2>1, <2>2 DEF InHandWaits
  <2>4. ScanIsTrue(p)'
    <3>1. script[p].pc = "scan" => Alive(p) /\ \A i \in script[p].todo :
            \A a \in DOMAIN script[p].arts[i] : a \in DOMAIN artifacts
      BY Bounds DEF ScriptType, Alive
    <3> QED
      BY <1>1, <2>1, <2>3, <3>1 DEF ScanIsTrue
  <2>5. \A i \in Ahead(p) : i \in Reported(p) /\ Alive(p) /\ (Rep(p, i).art # None =>
          Rep(p, i).art \in DOMAIN artifacts)
    BY Bounds DEF ScriptTypeOK, ScriptType, Reported, Rep, Ahead, Scanned, Alive
  <2>6. ReportIsTrue(p)'
    <3> SUFFICES ASSUME NEW i \in Ahead(p), Rep(p, i).art # None
                 PROVE  /\ artifacts'[Rep(p, i).art].path = Rep(p, i).path
                        /\ Rep(p, i).class \in Qualities => artifacts'[Rep(p, i).art].state = "present"
                        /\ i \notin byHand =>
                             /\ Rep(p, i).class \in Qualities => disk[Rep(p, i).path] = Rep(p, i).art
                             /\ Rep(p, i).class = "missing" => disk[LibraryPath(i)] = None
      BY <1>1, ScriptSame DEF ReportIsTrue, LibraryPath
    <3> QED
      BY <1>1, <2>1, <2>5 DEF ReportIsTrue
  <2>7. InHandWaits(p)'
    <3> SUFFICES ASSUME Alive(p), NEW i \in (script[p].todo \cup Ahead(p)) \ byHand
                 PROVE  /\ status'[i] = "completed"
                        /\ i \in Reported(p) /\ Rep(p, i).art # None
                             => Candidates(i)' = {Rep(p, i).art}
      BY <1>1, ScriptSame DEF InHandWaits
    <3> QED
      BY <2>1, <2>3 DEF InHandWaits
  <2>8. FreeThere(p)'
    BY <1>1, <2>1, ScriptSame DEF FreeThere, LibraryPath
  <2>9. OwnRoot(p)'
    <3>1. Alive(p) => script[p].root # Library
      BY Bounds DEF ScriptType, Library
    <3> QED
      BY <1>1, <1>3, <2>1, <3>1, ScriptSame DEF OwnRoot
  <2>10. MovedThere(p)'
    <3> SUFFICES ASSUME script[p].pc = "book" PROVE MovedThere(p)'
      BY <1>1 DEF MovedThere
    <3> PICK i : i = Current(p)
      OBVIOUS
    <3> PICK e : e = Entry(p).art
      OBVIOUS
    <3> PICK P : P = Entry(p).path
      OBVIOUS
    <3> PICK D : D = Destination(p)
      OBVIOUS
    <3>1. e \in DOMAIN artifacts
      BY InHandIs, Bounds DEF Applying, ScriptType
    <3>2. /\ artifacts[e].path = P /\ disk[D] # None
          /\ disk[D] \in DOMAIN artifacts => Item(disk[D]) = i
          /\ disk[D] = z => I = i
          /\ i \notin byHand => disk[D] = e /\ disk[P] = None /\ e \notin strayed
      BY <1>1, <2>1 DEF MovedThere
    <3> PICK b : b = disk[D]
      OBVIOUS
    <3>3. b \in DOMAIN artifacts' => Item(b)' = i
      BY <1>1, <1>3, <3>2
    <3>4. Current(p)' = i /\ Entry(p)' = Entry(p) /\ Destination(p)' = D /\ disk' = disk
      BY <1>1, ScriptSame
    <3>5. Item(disk[Destination(p)])' = Item(b)'
      <4>1. (disk[Destination(p)])' = b
        BY <3>4
      <4> QED
        BY <4>1 DEF Item
    <3> QED
      BY <1>1, <3>1, <3>2, <3>3, <3>4, <3>5 DEF MovedThere
  <2> QED
    BY <2>4, <2>6, <2>7, <2>8, <2>9, <2>10 DEF ScriptHolds
<1> QED
  BY <1>8, <1>9, <1>10, <1>11, <1>12, <1>13 DEF Uncrowded

LEMMA UncrowdedInit ==
  ASSUME RecrawlInit
  PROVE  Uncrowded
<1>1. /\ DOMAIN artifacts = {} /\ batch.at = "idle" /\ \A p \in Scripts : script[p].pc = "off"
      /\ \A i \in Items : status[i] = "pending"
  <2>1. \A p \in Scripts : script[p] = Off
    BY DEF RecrawlInit
  <2> QED
    BY <2>1 DEF RecrawlInit, NoBatch, Off
<1> QED
  BY <1>1, OffHolds DEF Uncrowded, OneAlive, Alive, PresentIsThere, SameItem, NewestThere,
     PackedThere, StraysWait

LEMMA RecrawlStep ==
  ASSUME RecrawlInv, RecrawlNext
  PROVE  RecrawlInv'
<1>1. Steady /\ Steady'
  BY SteadyStep DEF RecrawlInv
<1> SUFFICES ASSUME ~crowded' PROVE Uncrowded'
  BY <1>1 DEF RecrawlInv
<1>2. ~crowded
  BY DEF RecrawlNext, Script, Scan, ScanItem, ApplyReport, Pass, Move, Book, MarkMissing, MarkPending,
         End, WriteFails, Killed, Batch, BatchTakes, BatchPack, BatchFinalize, BatchFails,
         ItemStatus, Spoil, ghosts
<1>3. Uncrowded
  BY <1>2 DEF RecrawlInv
<1>4. CASE \E p \in Scripts : Script(p) \/ WriteFails(p) \/ Killed(p)
  <2>1. PICK p \in Scripts : Script(p) \/ WriteFails(p) \/ Killed(p)
    BY <1>4
  <2>2. CASE \E ids \in SUBSET Items, forced, ignore \in BOOLEAN : Scan(p, ids, forced, ignore)
    BY <1>1, <1>3, <2>2, ScanUncrowded
  <2>3. CASE ScanItem(p) \/ ApplyReport(p) \/ Pass(p) \/ End(p)
    BY <1>1, <1>2, <1>3, <2>3, ScanItemUncrowded, ReadingUncrowded, EndUncrowded
  <2>4. CASE Move(p) \/ Book(p) \/ MarkMissing(p) \/ MarkPending(p)
    BY <1>1, <1>2, <1>3, <2>4, MoveUncrowded, BookUncrowded, MarkMissingUncrowded,
       MarkPendingUncrowded
  <2>5. CASE WriteFails(p) \/ Killed(p)
    BY <1>1, <1>3, <2>5, FailingUncrowded
  <2> QED
    BY <2>1, <2>2, <2>3, <2>4, <2>5 DEF Script
<1>5. CASE Batch \/ BatchFails
  <2>1. CASE \E s \in SourceIds : BatchTakes(s)
    <3>1. /\ UNCHANGED <<status, artifacts, disk, byHand, strayed, crowded, script>>
          /\ batch'.at # "packed"
      BY <2>1 DEF BatchTakes, ghosts
    <3> QED
      BY <1>1, <1>3, <3>1, OthersQuiet
  <2>2. CASE BatchFails
    <3>1. /\ UNCHANGED <<status, artifacts, disk, byHand, strayed, crowded, script>>
          /\ batch'.at # "packed"
      BY <2>2 DEF BatchFails, BatchEnds, NoBatch, ghosts
    <3> QED
      BY <1>1, <1>3, <3>1, OthersQuiet
  <2>3. CASE (\E q \in {"preferred", "fallback"} : BatchPack(q)) \/ BatchFinalize
    BY <1>1, <1>3, <2>3, PackUncrowded, FinalizeUncrowded
  <2> QED
    BY <1>5, <2>1, <2>2, <2>3 DEF Batch
<1>6. CASE \E i \in Items, s \in Statuses : ItemStatus(i, s)
  BY <1>1, <1>3, <1>6, ItemStatusUncrowded
<1>7. CASE \E a \in DOMAIN quality : Spoil(a)
  <2>1. UNCHANGED <<status, artifacts, disk, byHand, strayed, crowded, script, batch>>
    BY <1>7 DEF Spoil, ghosts
  <2> QED
    BY <1>1, <1>3, <2>1, OthersQuiet
<1> QED
  BY <1>4, <1>5, <1>6, <1>7 DEF RecrawlNext

LEMMA RecrawlStutter ==
  ASSUME RecrawlInv, UNCHANGED recrawlVars
  PROVE  RecrawlInv'
<1>1. UNCHANGED <<status, artifacts, quality, disk, batch, script, starts, failures, outside,
                  strayed, byHand, crowded>>
  BY DEF recrawlVars, counters, ghosts
<1>2. Steady /\ BoundsTyped /\ starts \in Nat
  BY Bounds DEF RecrawlInv
<1>3. BoundsTyped'
  BY <1>1, <1>2 DEF BoundsTyped
<1>4. StoreTyped' /\ Placed' /\ RowsFit' /\ LibraryFits' /\ RowsGrow
  BY <1>1, <1>2, StoreSame
<1>5. Steady'
  BY <1>1, <1>2, <1>3, <1>4, SteadyByOthers
<1>6. ~crowded' => Uncrowded'
  BY <1>1, <1>2, OthersQuiet DEF RecrawlInv
<1> QED
  BY <1>5, <1>6 DEF RecrawlInv

\* The inductive invariant of the scripts, the batch and the operator.
LEMMA RecrawlInvariant ==
  RecrawlSpec => []RecrawlInv
<1>1. RecrawlInit => RecrawlInv
  BY SteadyInit, UncrowdedInit DEF RecrawlInv
<1>2. RecrawlInv /\ [RecrawlNext]_recrawlVars => RecrawlInv'
  BY RecrawlStep, RecrawlStutter
<1> QED
  BY <1>1, <1>2, PTL DEF RecrawlSpec

\* Whatever prepare_recrawl.py, the batches, the operator and the disk do, and
\* whatever fails or is killed, every archive that was packed is at exactly one
\* path; and unless two scripts were alive together, the row of an archive that
\* is called present and was not strayed by a failure says where it is.
THEOREM RecrawlRowsTellWhere ==
  RecrawlSpec => []RowsTellWhere
<1>1. RecrawlInv => RowsTellWhere
  BY PlacedOnce DEF RecrawlInv, RowsTellWhere, Steady, Uncrowded, PresentIsThere
<1> QED
  BY <1>1, RecrawlInvariant, PTL

\* prepare_recrawl.py moves no archive that is good when it is moved, unless it
\* was forced to; and unless two scripts were alive together it returns an Item
\* to the queue only while no archive is at the path a batch writes.
THEOREM RecrawlNoGoodIsTaken ==
  RecrawlSpec => NoGoodIsTaken
<1>1. RecrawlInv /\ [RecrawlNext]_recrawlVars =>
        [\A p \in Scripts : script[p].pc = "apply" /\ script'[p].pc = "book"
           => quality[disk[Entry(p).path]] # "preferred" \/ script[p].forced]_recrawlVars
  BY MovesBad DEF RecrawlInv
<1>2. RecrawlInv /\ [RecrawlNext]_recrawlVars =>
        [\A p \in Scripts, i \in Items :
           ~crowded /\ script[p].pc = "pending" /\ i = Lowest(script[p].todo) /\ i \notin byHand
           /\ script'[p].pc = "apply" /\ status'[i] = "pending"
             => Vacant(LibraryPath(i))]_recrawlVars
  BY DEF RecrawlInv, Uncrowded, ScriptHolds, FreeThere, Current, Vacant
<1>3. RecrawlSpec => OnlyBadIsMoved
  BY <1>1, RecrawlInvariant, PTL DEF RecrawlSpec, OnlyBadIsMoved
<1>4. RecrawlSpec => ReturnedToFreePath
  BY <1>2, RecrawlInvariant, PTL DEF RecrawlSpec, ReturnedToFreePath
<1> QED
  BY <1>3, <1>4 DEF NoGoodIsTaken
================================================================================
