----------------------------- MODULE BatchPlanner -----------------------------
(* BatchPlanner.plan (batch/planner.py) on the Sources of one site, with the *)
(* policies of site_policies/ told apart by their constants, and the batches *)
(* that run its plans one candidate after the other while windows pass.      *)
(* An Item may have several Sources; BatchExecution has one to each.         *)
EXTENDS Naturals, FiniteSets, Sequences, SequencesExt

CONSTANTS
  Items, Sources,       \* numbers: the order of the Catalog
  ItemOf, KeyOf,        \* of a Source: its Item, its Watchlist key
  WorkOf, Position,     \* of an Item: its Work, its place by order_key
  Published,            \* of a Source: its date
  Variants,              \* of a Source: what it may be, as [mode, use]
  DirectModes,          \* modes the site's policy reads without a quota
  Scope,                \* "site": slots in a window; "work": a ticket per Work
  Capacity,             \* slots, or tickets of a Work in a batch
  Lasts,                \* a consumption grants access for longer than a window
  Ordering,             \* "catalog" or "published_at"
  MaxFaults             \* failed captures

BatchPlannerAssumption ==
  /\ Items \subseteq Nat /\ Sources \subseteq Nat
  /\ ItemOf \in [Sources -> Items]
  /\ Scope \in {"site", "work"} /\ Ordering \in {"catalog", "published_at"}
  /\ Capacity \in Nat \ {0} /\ Lasts \in BOOLEAN /\ MaxFaults \in Nat

VARIABLES
  kind,     \* what each Source is
  status,   \* of the Items
  started,  \* Sources whose quota_started_at is in this window
  granted,  \* Sources with access_granted_until in the future
  spent,    \* auxiliary: consumptions in this window, by what they take from
  keys,     \* selected_keys of the batch
  plan,     \* candidates left: their Source and access strategy
  skipped,  \* BatchSkipped: Item and reason
  pc,
  fresh,    \* no time has passed since the plan was made
  faults

vars == <<kind, status, started, granted, spent, keys, plan, skipped, pc, fresh, faults>>

Keys == {KeyOf[s] : s \in Sources}
Works == {WorkOf[i] : i \in Items}
(* What a consumption takes from: the ticket of a Work, or 0, the site.      *)
Takes(s) == IF Scope = "work" THEN WorkOf[ItemOf[s]] ELSE 0

Init ==
  /\ kind \in {k \in [Sources -> UNION {Variants[s] : s \in Sources}] : \A s \in Sources : k[s] \in Variants[s]}
  /\ status = [i \in Items |-> "pending"]
  /\ started = {} /\ granted = {}
  /\ spent = [p \in Works \cup {0} |-> 0]
  /\ keys = Keys /\ plan = <<>> /\ skipped = {} /\ pc = "off" /\ fresh = FALSE
  /\ faults = 0

-----------------------------------------------------------------------------
(* The policy.                                                               *)

(* available_quota counts the Sources of the site, whichever are selected.   *)
Available == IF Cardinality(started) >= Capacity THEN 0 ELSE Capacity - Cardinality(started)

(* evaluate.                                                                 *)
Decision(s) ==
  CASE kind[s].mode \in DirectModes -> "direct"
    [] kind[s].mode = "quota" /\ s \in granted -> "direct"
    [] kind[s].mode = "quota" /\ s \notin granted /\ (Scope = "site" => Available > 0) -> "quota"
    [] OTHER -> "none"

-----------------------------------------------------------------------------
(* The plan.                                                                 *)

ModeRank(m) == CASE m = "soon" -> 0 [] m = "free" -> 1 [] m = "owned" -> 2 [] m = "quota" -> 3 [] OTHER -> 4

Pool(ks) == {s \in Sources : KeyOf[s] \in ks}
Pending(ks) == {i \in {ItemOf[s] : s \in Pool(ks)} : status[i] = "pending"}
SourcesOf(ks, i) == {s \in Pool(ks) : ItemOf[s] = i /\ kind[s].use # "barred"}
Takable(ks, i) == {s \in SourcesOf(ks, i) : Decision(s) # "none" /\ kind[s].use # "no target"}

Preferred(s, t) ==
  \/ ModeRank(kind[s].mode) < ModeRank(kind[t].mode)
  \/ ModeRank(kind[s].mode) = ModeRank(kind[t].mode) /\ s < t

(* _select_source, for every Item.                                           *)
Selections(ks) ==
  {s \in Pool(ks) : /\ ItemOf[s] \in Pending(ks)
                    /\ s \in Takable(ks, ItemOf[s])
                    /\ \A t \in Takable(ks, ItemOf[s]) \ {s} : Preferred(s, t)}
PassedOver(ks) ==
  {<<i, "barred">> : i \in {ItemOf[s] : s \in {t \in Pool(ks) : kind[t].use = "barred"}} \cap Pending(ks)}
  \cup {<<i, "not eligible">> : i \in {j \in Pending(ks) : \E s \in SourcesOf(ks, j) :
          /\ s \notin Takable(ks, j)
          /\ \A t \in Takable(ks, j) : Preferred(s, t)}}

(* _discovery_group_ranks, and _quota_selection_order_key.                   *)
Rank(ks, s) == CHOOSE n \in Pool(ks) : KeyOf[n] = KeyOf[s] /\ \A m \in Pool(ks) : KeyOf[m] = KeyOf[s] => n <= m
Earlier(s, t) ==
  \/ Published[s] < Published[t]
  \/ Published[s] = Published[t] /\ Position[ItemOf[s]] < Position[ItemOf[t]]
  \/ Published[s] = Published[t] /\ Position[ItemOf[s]] = Position[ItemOf[t]] /\ s > t
First(ks, s, t) ==
  IF Scope = "work"
  THEN \/ WorkOf[ItemOf[s]] < WorkOf[ItemOf[t]]
       \/ WorkOf[ItemOf[s]] = WorkOf[ItemOf[t]] /\ Earlier(s, t)
  ELSE \/ Rank(ks, s) < Rank(ks, t)
       \/ Rank(ks, s) = Rank(ks, t) /\ Position[ItemOf[s]] < Position[ItemOf[t]]

(* _enforce_work_quota_limits, or the slots there are.                       *)
Accepted(ks, quota) ==
  LET inOrder == SetToSortSeq(quota, LAMBDA s, t : First(ks, s, t))
      Ahead(s) == {t \in quota : WorkOf[ItemOf[t]] = WorkOf[ItemOf[s]] /\ Earlier(t, s)}
  IN  IF Scope = "work"
      THEN SelectSeq(inOrder, LAMBDA s : Cardinality(Ahead(s)) < Capacity)
      ELSE SubSeq(inOrder, 1, IF Len(inOrder) < Available THEN Len(inOrder) ELSE Available)

(* _order_by_published_at_within_work: Works as they come.                   *)
WithinWork(seq) ==
  LET Came(w) == CHOOSE n \in 1..Len(seq) :
                   WorkOf[ItemOf[seq[n]]] = w /\ \A m \in 1..(n - 1) : WorkOf[ItemOf[seq[m]]] # w
      Before(s, t) ==
        \/ Came(WorkOf[ItemOf[s]]) < Came(WorkOf[ItemOf[t]])
        \/ /\ WorkOf[ItemOf[s]] = WorkOf[ItemOf[t]]
           /\ Published[s] < Published[t] \/ (Published[s] = Published[t] /\ s > t)
  IN  SetToSortSeq({seq[n] : n \in 1..Len(seq)}, Before)

(* Slots keep their place in the order of the Items; who fills them is as    *)
(* accepted.                                                                 *)
InSlots(seq, accepted) ==
  [n \in 1..Len(seq) |->
     IF Decision(seq[n]) = "direct" THEN seq[n]
     ELSE accepted[Cardinality({m \in 1..n : Decision(seq[m]) = "quota"})]]

Ordered(chosen, accepted) ==
  LET byItem == SetToSortSeq(chosen, LAMBDA s, t : ItemOf[s] < ItemOf[t])
      direct == SelectSeq(byItem, LAMBDA s : Decision(s) = "direct")
      woven == InSlots(byItem, accepted)
  IN  IF Ordering = "published_at" THEN WithinWork(direct) \o WithinWork(accepted)
      ELSE IF Scope = "work" THEN direct \o accepted
      ELSE woven

MakePlan(ks) ==
  LET chosen == Selections(ks)
      quota == {s \in chosen : Decision(s) = "quota"}
      accepted == Accepted(ks, quota)
      got == {s \in chosen : Decision(s) = "direct"} \cup ToSet(accepted)
      order == Ordered(got, accepted)
  IN  /\ plan' = [n \in 1..Len(order) |-> [source |-> order[n], how |-> Decision(order[n])]]
      /\ skipped' = PassedOver(ks) \cup {<<ItemOf[s], "exhausted">> : s \in quota \ got}

Plan(ks) ==
  /\ pc = "off" /\ Pending(ks) # {}
  /\ keys' = ks /\ MakePlan(ks)
  /\ pc' = "planned" /\ fresh' = TRUE
  /\ UNCHANGED <<kind, status, started, granted, spent, faults>>

-----------------------------------------------------------------------------
(* The batch.                                                                *)

(* _validate_candidate: as planned, by the policy of now.                    *)
Valid(c) == status[ItemOf[c.source]] = "pending" /\ Decision(c.source) = c.how

Stop == pc' = "off" /\ plan' = <<>>

Stale ==
  /\ pc = "planned" /\ plan # <<>> /\ ~Valid(Head(plan))
  /\ Stop
  /\ UNCHANGED <<kind, status, started, granted, spent, keys, skipped, fresh, faults>>

(* resource_state_skip_reason: the Work's ticket is not back yet.            *)
Cooling(c) == Scope = "work" /\ c.how = "quota" /\ spent[Takes(c.source)] > 0
SkipCooling ==
  /\ pc = "planned" /\ plan # <<>> /\ Valid(Head(plan)) /\ Cooling(Head(plan))
  /\ plan' = Tail(plan)
  /\ UNCHANGED <<kind, status, started, granted, spent, keys, skipped, pc, fresh, faults>>

Consume(c) ==
  IF c.how = "quota"
  THEN /\ started' = started \cup {c.source}
       /\ granted' = IF Lasts THEN granted \cup {c.source} ELSE granted
       /\ spent' = [spent EXCEPT ![Takes(c.source)] = @ + 1]
  ELSE UNCHANGED <<started, granted, spent>>

Run ==
  /\ pc = "planned" /\ plan # <<>> /\ Valid(Head(plan)) /\ ~Cooling(Head(plan))
  /\ Consume(Head(plan))
  /\ \/ /\ status' = [status EXCEPT ![ItemOf[Head(plan).source]] = "completed"]
        /\ plan' = Tail(plan) /\ UNCHANGED <<pc, faults>>
     \/ /\ faults < MaxFaults /\ faults' = faults + 1
        /\ plan' = Tail(plan) /\ UNCHANGED <<status, pc>>
     \/ /\ faults < MaxFaults /\ faults' = faults + 1
        /\ Stop /\ UNCHANGED status
  /\ UNCHANGED <<kind, keys, skipped, fresh>>

EndBatch ==
  /\ pc = "planned" /\ plan = <<>> /\ Stop
  /\ UNCHANGED <<kind, status, started, granted, spent, keys, skipped, fresh, faults>>

(* A new window, or the ticket of the Work comes back.                       *)
NewWindow ==
  /\ \E p \in DOMAIN spent : spent[p] > 0
  /\ started' = {} /\ spent' = [p \in DOMAIN spent |-> 0] /\ fresh' = FALSE
  /\ UNCHANGED <<kind, status, granted, keys, plan, skipped, pc, faults>>

(* A grant is longer than a window (24 hours against 12, 71 against 23).     *)
(* Mutant: it is not.                                                        *)
WrongMayExpire(s) == TRUE
MayExpire(s) == s \notin started
Expire(s) ==
  /\ s \in granted /\ MayExpire(s)
  /\ granted' = granted \ {s} /\ fresh' = FALSE
  /\ UNCHANGED <<kind, status, started, spent, keys, plan, skipped, pc, faults>>

Next ==
  \/ Plan(Keys)
  \/ \E k \in Keys : Plan({k})
  \/ Stale \/ SkipCooling \/ Run \/ EndBatch \/ NewWindow
  \/ \E s \in Sources : Expire(s)

(* The batch goes on by itself, windows end by themselves, and the operator  *)
(* starts the whole site again and again.                                    *)
Fairness ==
  /\ WF_vars(Stale) /\ WF_vars(SkipCooling) /\ WF_vars(EndBatch) /\ WF_vars(NewWindow)
  /\ WF_vars(Run) /\ SF_vars(Plan(Keys))
Spec == Init /\ [][Next]_vars /\ Fairness

-----------------------------------------------------------------------------

(* A plan has an Item once (batch/planner.py:230).                           *)
TypeOK ==
  /\ status \in [Items -> {"pending", "completed"}]
  /\ started \subseteq Sources /\ granted \subseteq Sources
  /\ \A n \in 1..Len(plan) : plan[n].how \in {"direct", "quota"}
  /\ \A n, m \in 1..Len(plan) : n # m => ItemOf[plan[n].source] # ItemOf[plan[m].source]

(* No window sees more consumptions than it has, whichever keys the batches  *)
(* select, whatever fails, and when a window ends between the plan and a     *)
(* run (batch/planner.py:227).                                               *)
WithinCapacity == \A p \in DOMAIN spent : spent[p] <= Capacity

(* No slot and no ticket is planned for an Item that another Source of the   *)
(* batch reads without one (docs/DISCOVERY_AND_BATCH.md:1783).               *)
NoneForFree ==
  \A n \in 1..Len(plan) : plan[n].how = "quota" =>
    ~\E s \in Pool(keys) :
       /\ ItemOf[s] = ItemOf[plan[n].source] /\ kind[s].use = "ok" /\ kind[s].mode \in DirectModes

(* Every pending Item of a batch is a candidate or is given a reason why not *)
(* (batch/planner.py:242).                                                   *)
Accounted ==
  [][pc = "off" /\ pc' = "planned" =>
      \A i \in Pending(keys') :
        \/ \E n \in 1..Len(plan') : ItemOf[plan'[n].source] = i
        \/ \E r \in {"barred", "not eligible", "exhausted"} : <<i, r>> \in skipped']_vars

(* As long as no time passes, the executor never finds a candidate of the    *)
(* planner stale: what the ones before it consume was left for them          *)
(* (batch/executor.py:1074).                                                 *)
PlanHolds == pc = "planned" /\ fresh /\ plan # <<>> => Valid(Head(plan))

(* Every Item the site's policy can ever read is captured in the end, though *)
(* others fail before it and slots are few.                                  *)
Obtainable(i) ==
  \E s \in Sources : ItemOf[s] = i /\ kind[s].use = "ok" /\ kind[s].mode \in DirectModes \cup {"quota"}
AllCaptured == \A i \in Items : <>(Obtainable(i) => status[i] = "completed")

=============================================================================
