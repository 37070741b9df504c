----------------------------- MODULE MCWatchlist -----------------------------
(***************************************************************************)
(* The Watchlist file, the page that edits it and the layout of a Work for *)
(* one run: the initial state chooses which of them moves.                 *)
(*   "file":         WatchlistEdits;                                       *)
(*   "page":         WatchlistEditor, with others writing the file;        *)
(*   "page catalog": WatchlistEditor, with the Catalog changing;           *)
(*   "withdrawn":    WorkLayout, one edit, a chapter may be withdrawn;     *)
(*   "new target":   WorkLayout, two edits, one of which adds a target.    *)
(***************************************************************************)
EXTENDS WatchlistEdits, WatchlistEditor

VARIABLES
  part,
  published, listed, scopes, layout, preview, source, approved, read, edits, withdrawn \* WorkLayout

layoutVars == <<published, listed, scopes, layout, preview, source, approved, read, edits,
  withdrawn>>

TwoEach == [k \in {"a", "b"} |-> 1 .. 2]
Withdrawn == INSTANCE WorkLayout WITH
  Keys <- {"a", "b"}, Started <- <<"a", "b">>, First <- TwoEach, Count <- 3,
  Holes <- {"a", "b"}, Changing <- {"a"}, Inserts <- FALSE, MaxEdits <- 1, MaxWithdrawn <- 1,
  saved <- scopes, draft <- layout
NewTarget == INSTANCE WorkLayout WITH
  Keys <- {"a", "b"}, Started <- <<"a">>, First <- TwoEach, Count <- 3,
  Holes <- {"b"}, Changing <- {"a"}, Inserts <- FALSE, MaxEdits <- 2, MaxWithdrawn <- 0,
  saved <- scopes, draft <- layout

ASSUME
  /\ Withdrawn!WorkLayoutAssumption /\ NewTarget!WorkLayoutAssumption

-----------------------------------------------------------------------------
MCInit ==
  /\ part \in {"file", "page", "page catalog", "withdrawn", "new target"}
  /\ Init /\ PageInit
  /\ IF part = "new target" THEN NewTarget!Init ELSE Withdrawn!Init

MCNext ==
  /\ UNCHANGED part
  /\ \/ part = "file" /\ Next /\ UNCHANGED <<pageVars, layoutVars>>
     \/ part = "page" /\ PageNext /\ pageCatalog' = 0 /\ UNCHANGED <<vars, layoutVars>>
     \/ part = "page catalog" /\ PageNext /\ others' = 0 /\ pageEdits' < 2 /\ UNCHANGED <<vars, layoutVars>>
     \/ part = "withdrawn" /\ Withdrawn!Next /\ UNCHANGED <<vars, pageVars>>
     \/ part = "new target" /\ NewTarget!Next /\ UNCHANGED <<vars, pageVars>>

MCSpec == MCInit /\ [][MCNext]_<<vars, pageVars, layoutVars, part>>

(* NumberedAsApproved and ReplacementIsExact of WorkLayout.  A draft does not *)
(* depend on the full runs, so the latter looks at those before any.         *)
NumberedAsApproved == Withdrawn!NumberedAsApproved
ReplacementIsExact ==
  /\ part = "withdrawn" => Withdrawn!TypeOK
  /\ part = "new target" =>
       /\ NewTarget!TypeOK
       /\ source = [k \in {"a", "b"} |-> [c \in 1 .. 3 |-> NewTarget!NoSource]] => NewTarget!ReplacementIsExact
=============================================================================
