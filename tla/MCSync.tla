-------------------------------- MODULE MCSync --------------------------------
(***************************************************************************)
(* What brings the Catalog up to the Watchlist and the sites, for one run: *)
(* the initial state chooses which of them moves.                          *)
(*   "site":     SiteSync;                                                 *)
(*   "inferred": Discovery of one key without scope, positions inferred;   *)
(*   "scoped":   Discovery of two keys with scopes, adapter with hints;    *)
(*   "synced":   ScopeSync, one key, whose scope the user edits.           *)
(***************************************************************************)
EXTENDS SiteSync, ScopeSync

VARIABLE part

OneKey == [from |-> 0, through |-> 1, out |-> {}]
Scoped == {Unbounded, [from |-> 0, through |-> 2, out |-> {}],
           [from |-> 1, through |-> 0, out |-> {}], [from |-> 0, through |-> 0, out |-> {2}]}
Resynced == {Unbounded, Absent, OneKey}
MCScopes == Scoped \cup Resynced

ASSUME DiscoveryAssumption

-----------------------------------------------------------------------------
(* The second key is in the Watchlist where scopes are what differs.         *)
Begins ==
  \/ part \in {"site", "inferred"} /\ ~hints /\ scope = [k |-> Unbounded, l |-> Absent]
  \/ part = "scoped" /\ hints /\ scope \in [Keys -> Scoped]
  \/ part = "synced" /\ hints /\ scope["l"] = Absent /\ scope["k"] \in Resynced

(* One beginning of SiteSync where it does not move.                         *)
Fixed == site = {1} /\ \A w \in Works : proven[w] = {} /\ def[w] = "a"

MCInit ==
  /\ part \in {"site", "inferred", "scoped", "synced"}
  /\ SiteInit /\ (part # "site" => Fixed)
  /\ SyncInit /\ Begins

(* Smaller bounds where there is more to choose from.                        *)
Within(chapters, begun, broken, edited) ==
  published' <= chapters /\ runs' <= begun /\ faults' <= broken /\ edits' <= edited
DefaultStops == run'.stopped # "stable_boundary"   \* the adapter never says "stop"

MCNext ==
  /\ UNCHANGED part
  /\ \/ part = "site" /\ SiteNext /\ UNCHANGED allVars
     \/ /\ part = "inferred" /\ Next /\ UNCHANGED <<siteSyncVars, syncVars>>
        /\ scope' = scope /\ Within(4, 4, 2, 1) /\ DefaultStops
     \/ /\ part = "scoped" /\ Next /\ UNCHANGED <<siteSyncVars, syncVars>>
        /\ \A k \in Keys : scope'[k] \in Scoped
        /\ Within(3, 2, 1, 1)
     \/ /\ part = "synced" /\ SyncNext /\ UNCHANGED siteSyncVars
        /\ scope'["l"] = Absent /\ scope'["k"] \in Resynced
        /\ Within(2, 2, 1, 2) /\ DefaultStops

MCSpec == MCInit /\ [][MCNext]_<<siteSyncVars, allVars, part>>
=============================================================================
