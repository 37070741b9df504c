------------------------------ MODULE WorkLayout ------------------------------
(* The layout of one Work: which chapters of which site are taken, and in    *)
(* which order the archives stand. The work editor (gui/work_editor.py over  *)
(* watchlist/work_edit.py) edits it as a sequence of blocks over complete    *)
(* listings; a save writes scopes and archive segments to the Watchlist; a   *)
(* full Discovery turns scopes into acquisition flags; the numbering plan    *)
(* (archive_order.py) reads flags, positions and segments once more. Every   *)
(* target here is on a site of its own.                                      *)
EXTENDS Naturals, SequencesExt

CONSTANTS
  Keys,
  Started,       \* the targets of the Work at the start, in the file's order
  First, Count,  \* the chapters each site lists at the start; how many there may be
  Holes,         \* the targets whose adapter supports exclusions
  Changing,      \* the targets whose site adds or withdraws chapters
  Inserts,       \* sites put chapters between older ones
  MaxEdits, MaxWithdrawn

WorkLayoutAssumption ==
  /\ Started \in Seq(Keys) /\ Len(Started) > 0
  /\ Count \in Nat /\ First \in [Keys -> SUBSET (1 .. Count)] /\ \A k \in Keys : First[k] # {}
  /\ Holes \subseteq Keys /\ Changing \subseteq Keys /\ Inserts \in BOOLEAN
  /\ MaxEdits \in Nat /\ MaxWithdrawn \in Nat

Chapters == 1 .. Count

VARIABLES
  published, listed,  \* the sites: chapters so far, and those shown
  saved,              \* Watchlist: the Work's targets
  draft,              \* the editor: targets, listings, keys new and configured
  preview,            \* the preview that may be saved: the Catalog it was made on
  source,             \* Catalog: the Sources of each target
  approved, read,     \* auxiliary: the layout last saved, the listings of full runs since
  edits, withdrawn    \* bounds

siteVars == <<published, listed>>
history == <<approved, read>>
bounds == <<edits, withdrawn>>
vars == <<siteVars, saved, draft, preview, source, history, bounds>>

-----------------------------------------------------------------------------
(* Scopes, intervals and listings. A later chapter is a greater number; 0 is *)
(* an end left open. A scope is read newest first, an interval oldest first. *)

(* The elements of a set by a strict order; SetToSortSeq, found by counting. *)
Sorted(S, before(_, _)) ==
  [i \in 1 .. Cardinality(S) |-> CHOOSE x \in S : Cardinality({y \in S : before(y, x)}) = i - 1]

Open == [from |-> 0, through |-> 0, out |-> {}]
Interval(rows, start, end) == {c \in rows : (start = 0 \/ c >= start) /\ (end = 0 \/ c <= end)}
HasInterval(rows, start, end) ==
  /\ rows # {} /\ {start, end} \ {0} \subseteq rows
  /\ start <= (IF end = 0 THEN Count ELSE end)

ScopeHolds(rows, s) ==
  /\ HasInterval(rows, s.through, s.from)
  /\ s.out \subseteq Interval(rows, s.through, s.from)
Selected(rows, s) == Interval(rows, s.through, s.from) \ s.out
Gaps(rows, chosen) == Interval(rows, Min(chosen), Max(chosen)) \ chosen

(* The maximal runs of chosen rows, oldest first.                            *)
RunFrom(rows, chosen, c) == {d \in chosen : d >= c /\ Interval(rows, c, d) \subseteq chosen}
Runs(rows, chosen) ==
  LET starts == {c \in chosen : \A d \in chosen : d < c => ~(Interval(rows, d, c) \subseteq chosen)}
      inOrder == Sorted(starts, LAMBDA c, d : c < d)
  IN [i \in DOMAIN inOrder |-> RunFrom(rows, chosen, inOrder[i])]

Ascending(rows) == Sorted(rows, LAMBDA c, d : c < d)
Rank(rows, c) == Cardinality({d \in rows : d <= c})

-----------------------------------------------------------------------------
(* The draft of a Work.                                                      *)

NewTarget == [scope |-> Open, order |-> 0, split |-> FALSE, segments |-> <<>>]
Members(d) == Range(d.members)
Split(d) == \E k \in Members(d) : d.target[k].split
DraftOf(s) == [members |-> s.members, target |-> s.target, listing |-> [k \in Keys |-> {}],
               new |-> {}, configured |-> {}]

Block(k, start, end) == [key |-> k, start |-> start, end |-> end]
RowsOf(d, b) == Interval(d.listing[b.key], b.start, b.end)
SelectedRows(d, k) == Selected(d.listing[k], d.target[k].scope)

(* Targets by archive order, those without one last.                         *)
Unordered == 1000000000
InOrder(d) ==
  LET place(i) == LET order == d.target[d.members[i]].order IN IF order = 0 THEN Unordered ELSE order
      before(i, j) == (place(i) < place(j)) \/ (place(i) = place(j) /\ i < j)
      indices == Sorted(DOMAIN d.members, before)
  IN [n \in DOMAIN indices |-> d.members[indices[n]]]

RunBlocks(d, k) ==
  LET rows == d.listing[k]  scope == d.target[k].scope  runs == Runs(rows, SelectedRows(d, k)) IN
  [i \in DOMAIN runs |-> Block(k,
     IF Min(runs[i]) = Min(rows) /\ scope.through = 0 THEN 0 ELSE Min(runs[i]),
     IF Max(runs[i]) = Max(rows) /\ scope.from = 0 THEN 0 ELSE Max(runs[i]))]

SegmentBlocks(d) ==
  LET all == UNION {{[order |-> s.order, block |-> Block(k, s.start, s.end)] :
                     s \in Range(d.target[k].segments)} : k \in Members(d)}
      sorted == Sorted(all, LAMBDA p, q : p.order < q.order)
      rest == SelectSeq(d.members, LAMBDA k : ~d.target[k].split)
  IN [i \in DOMAIN sorted |-> sorted[i].block] \o [i \in DOMAIN rest |-> Block(rest[i], 0, 0)]

HasBlocks(d) == IF Split(d) THEN TRUE ELSE \A k \in Members(d) : ScopeHolds(d.listing[k], d.target[k].scope)
Blocks(d) == IF Split(d) THEN SegmentBlocks(d)
             ELSE FlattenSeq([i \in DOMAIN d.members |-> RunBlocks(d, InOrder(d)[i])])

(* The chapters of a sequence of blocks, as the archives would stand.        *)
BlockRows(d, b) == LET rows == Ascending(RowsOf(d, b)) IN [i \in DOMAIN rows |-> <<b.key, rows[i]>>]
Layout(d, blocks) == FlattenSeq([i \in DOMAIN blocks |-> BlockRows(d, blocks[i])])

(* The scope that takes the chosen rows, and nothing for ever if there are   *)
(* none.                                                                     *)
ScopeOf(rows, chosen, openOldest, openLatest) ==
  IF chosen = {} THEN [from |-> Max(rows), through |-> Min(rows), out |-> rows]
  ELSE [from |-> IF openLatest THEN 0 ELSE Max(chosen),
        through |-> IF openOldest THEN 0 ELSE Min(chosen), out |-> Gaps(rows, chosen)]
Expressible(k, rows, chosen) == IF k \in Holes THEN TRUE ELSE chosen # {} /\ Gaps(rows, chosen) = {}

-----------------------------------------------------------------------------
(* apply_blocks: every scope and every segment of the Work from the blocks.  *)

Own(blocks, k) == {i \in DOMAIN blocks : blocks[i].key = k}
Chosen(d, blocks, k) == UNION {RowsOf(d, blocks[i]) : i \in Own(blocks, k)}

Disjoint(d, blocks, k) ==
  \A c \in d.listing[k] : Cardinality({i \in Own(blocks, k) : c \in RowsOf(d, blocks[i])}) <= 1

Applicable(d, blocks) ==
  /\ \A i \in DOMAIN blocks : HasInterval(d.listing[blocks[i].key], blocks[i].start, blocks[i].end)
  /\ \A k \in Members(d) : Disjoint(d, blocks, k)
  /\ \A k \in Members(d) : d.listing[k] # {} /\ Expressible(k, d.listing[k], Chosen(d, blocks, k))

SegmentsOf(blocks, k) ==
  LET own == Sorted(Own(blocks, k), LAMBDA i, j : i < j) IN
  [n \in DOMAIN own |-> [order |-> own[n], start |-> blocks[own[n]].start, end |-> blocks[own[n]].end]]

Applied(d, blocks) ==
  [d EXCEPT !.target = [k \in Keys |->
     IF k \notin Members(d) THEN d.target[k]
     ELSE [scope |-> ScopeOf(d.listing[k], Chosen(d, blocks, k),
                             \E i \in Own(blocks, k) : blocks[i].start = 0,
                             \E i \in Own(blocks, k) : blocks[i].end = 0),
           order |-> 0, split |-> TRUE, segments |-> SegmentsOf(blocks, k)]]]

-----------------------------------------------------------------------------
(* replace_range: an interval of one target gives way to one of another.     *)

Slice(b, rows, run) ==
  Block(b.key, IF Min(run) = Min(rows) THEN b.start ELSE Min(run),
               IF Max(run) = Max(rows) THEN b.end ELSE Max(run))
Slices(b, rows, keep) == LET runs == Runs(rows, keep) IN [i \in DOMAIN runs |-> Slice(b, rows, runs[i])]

Gives(d, b, from, gone) == b.key = from /\ gone \subseteq RowsOf(d, b)

(* Mutant: what the destination takes elsewhere comes along with it.         *)
WrongPieces(d, b, from, gone, into) ==
  LET rows == RowsOf(d, b) IN
  IF Gives(d, b, from, gone)
  THEN Slices(b, rows, {c \in rows : c < Min(gone)}) \o <<into>> \o Slices(b, rows, {c \in rows : c > Max(gone)})
  ELSE IF b.key = into.key THEN Slices(b, rows, {c \in rows : c > Max(RowsOf(d, into))})
  ELSE <<b>>

Pieces(d, b, from, gone, into) ==
  LET rows == RowsOf(d, b) IN
  IF Gives(d, b, from, gone)
  THEN Slices(b, rows, {c \in rows : c < Min(gone)}) \o <<into>> \o Slices(b, rows, {c \in rows : c > Max(gone)})
  ELSE IF b.key = into.key
       THEN IF into.key \in d.new \ d.configured THEN <<>> ELSE Slices(b, rows, rows \ RowsOf(d, into))
       ELSE <<b>>

Replaced(d, from, gone, into) ==
  LET blocks == Blocks(d) IN FlattenSeq([i \in DOMAIN blocks |-> Pieces(d, blocks[i], from, gone, into)])

Replaceable(d, from, first, last, into) ==
  /\ from # into.key /\ HasBlocks(d)
  /\ HasInterval(d.listing[from], first, last)
  /\ HasInterval(d.listing[into.key], into.start, into.end)
  /\ \A b \in Range(Blocks(d)) : HasInterval(d.listing[b.key], b.start, b.end)
  /\ \E b \in Range(Blocks(d)) : Gives(d, b, from, Interval(d.listing[from], first, last))
  /\ Applicable(d, Replaced(d, from, Interval(d.listing[from], first, last), into))

-----------------------------------------------------------------------------
(* The numbering of the archives from the Watchlist and the Catalog.         *)

NoSource == [known |-> FALSE, enabled |-> FALSE, position |-> 0]
Taken(k) == {c \in Chapters : source[k][c].enabled}
At(k, c) == source[k][c].position
Positions(k) == {At(k, c) : c \in Taken(k)}

Placed(k, s) ==
  {c \in Taken(k) : /\ At(k, c) >= (IF s.start = 0 THEN Min(Positions(k)) ELSE At(k, s.start))
                    /\ At(k, c) <= (IF s.end = 0 THEN Max(Positions(k)) ELSE At(k, s.end))}
ByPosition(k, rows) ==
  LET sorted == Sorted(rows, LAMBDA c, d : (At(k, c) < At(k, d)) \/ (At(k, c) = At(k, d) /\ c < d)) IN
  [i \in DOMAIN sorted |-> <<k, sorted[i]>>]

SegmentsResolve(k) ==
  LET segments == saved.target[k].segments IN
  /\ \A c, d \in Taken(k) : c # d => At(k, c) # At(k, d)
  /\ \A i \in DOMAIN segments :
       /\ Taken(k) # {} /\ {segments[i].start, segments[i].end} \ {0} \subseteq Taken(k)
       /\ 0 \in {segments[i].start, segments[i].end} \/ At(k, segments[i].start) <= At(k, segments[i].end)
  /\ \A i, j \in DOMAIN segments : i # j => Placed(k, segments[i]) \cap Placed(k, segments[j]) = {}
  /\ Taken(k) \subseteq UNION {Placed(k, segments[i]) : i \in DOMAIN segments}

(* Mutant: a target's segments stand together.                               *)
WrongSegmentPlan ==
  FlattenSeq([i \in DOMAIN saved.members |-> LET k == saved.members[i] IN
     FlattenSeq([n \in DOMAIN saved.target[k].segments |-> ByPosition(k, Placed(k, saved.target[k].segments[n]))])])

SegmentPlan ==
  LET all == UNION {{[key |-> k, segment |-> s] : s \in Range(saved.target[k].segments)} : k \in Members(saved)}
      sorted == Sorted(all, LAMBDA p, q : p.segment.order < q.segment.order)
  IN FlattenSeq([i \in DOMAIN sorted |-> ByPosition(sorted[i].key, Placed(sorted[i].key, sorted[i].segment))])

OrderPlan == LET sorted == InOrder(saved) IN
             FlattenSeq([i \in DOMAIN sorted |-> ByPosition(sorted[i], Taken(sorted[i]))])

Numbered == Split(saved) \/ \E k \in Members(saved) : saved.target[k].order # 0
Stops == Split(saved) /\ \E k \in Members(saved) : ~SegmentsResolve(k)
Plan == IF Split(saved) THEN SegmentPlan ELSE OrderPlan

-----------------------------------------------------------------------------

NoPreview == [ready |-> FALSE]
NothingRead == [k \in Keys |-> {}]
NothingSaved == [members |-> <<>>, order |-> <<>>, listing |-> NothingRead]

Init ==
  /\ published = First /\ listed = published
  /\ saved = [members |-> Started, target |-> [k \in Keys |-> NewTarget]]
  /\ draft = DraftOf(saved) /\ preview = NoPreview
  /\ source = [k \in Keys |-> [c \in Chapters |-> NoSource]]
  /\ approved = NothingSaved /\ read = NothingRead
  /\ edits = 0 /\ withdrawn = 0

(* The sites.                                                                *)
Publish(k, c) ==
  /\ c \notin published[k] /\ (Inserts \/ \A d \in published[k] : d < c)
  /\ published' = [published EXCEPT ![k] = @ \cup {c}]
  /\ listed' = [listed EXCEPT ![k] = @ \cup {c}]
  /\ UNCHANGED <<saved, draft, preview, source, history, bounds>>

Withdraw(k, c) ==
  /\ c \in listed[k] /\ listed[k] # {c} /\ withdrawn < MaxWithdrawn
  /\ withdrawn' = withdrawn + 1
  /\ listed' = [listed EXCEPT ![k] = @ \ {c}]
  /\ UNCHANGED <<published, saved, draft, preview, source, history, edits>>

(* A full Discovery of a target, whose steps are in Discovery.               *)
Enabled(k, c, rows, scope) ==
  IF scope = Open THEN TRUE
  ELSE IF c \in scope.out THEN FALSE
  ELSE IF c \in rows THEN c \in Selected(rows, scope) ELSE source[k][c].enabled

Full(k) ==
  LET rows == listed[k]  scope == saved.target[k].scope IN
  /\ k \in Members(saved) /\ ScopeHolds(rows, scope)
  /\ source' = [source EXCEPT ![k] = [c \in Chapters |->
       IF ~@[c].known /\ c \notin Selected(rows, scope) THEN @[c]
       ELSE [known |-> TRUE, enabled |-> Enabled(k, c, rows, scope),
             position |-> IF c \in rows THEN Rank(rows, c) ELSE @[c].position]]]
  /\ read' = [read EXCEPT ![k] = rows]
  /\ UNCHANGED <<siteVars, saved, draft, preview, approved, bounds>>

-----------------------------------------------------------------------------
(* The work editor.                                                          *)

Change(d) == draft' = d /\ preview' = NoPreview
Edit == edits < MaxEdits /\ edits' = edits + 1 /\ UNCHANGED <<siteVars, saved, source, history, withdrawn>>

(* The sites are read one after the other and know nothing of each other.    *)
FetchListings ==
  /\ Change([draft EXCEPT !.listing = [k \in Keys |-> IF k \in Members(draft) THEN listed[k] ELSE {}]])
  /\ UNCHANGED <<siteVars, saved, source, history, bounds>>

AddTarget(k) ==
  LET orders == {draft.target[m].order : m \in Members(draft)} IN
  /\ Edit /\ k \notin Members(draft)
  /\ Change([draft EXCEPT
       !.members = Append(@, k), !.new = @ \cup {k},
       !.target[k] = [NewTarget EXCEPT !.order = IF orders = {0} THEN 0 ELSE Max(orders) + 1]])

(* set_range: the interval of a target, whose exclusions it drops.           *)
SetRange(k, start, end) ==
  LET rows == draft.listing[k]
      others == SelectSeq(Blocks(draft), LAMBDA b : b.key # k)
      own == Own(Blocks(draft), k)
      ranged == InsertAt(others, IF own = {} THEN Len(others) + 1 ELSE Min(own), Block(k, start, end))
      set == [draft EXCEPT !.target[k].scope = ScopeOf(rows, Interval(rows, start, end), start = 0, end = 0)]
  IN /\ Edit /\ k \in Members(draft) /\ HasInterval(rows, start, end)
     /\ IF Split(draft)
        THEN Cardinality(own) <= 1 /\ Applicable(draft, ranged)
             /\ Change([Applied(draft, ranged) EXCEPT !.configured = @ \cup {k}])
        ELSE Change([set EXCEPT !.configured = @ \cup {k}])

ReplaceRange(from, first, last, into) ==
  /\ Edit /\ {from, into.key} \subseteq Members(draft)
  /\ Replaceable(draft, from, first, last, into)
  /\ Change([Applied(draft, Replaced(draft, from, Interval(draft.listing[from], first, last), into))
               EXCEPT !.configured = @ \cup {into.key}])

Rearrange(blocks) ==
  /\ Edit /\ HasBlocks(draft) /\ Applicable(draft, blocks)
  /\ Change(Applied(draft, blocks))

MoveBlock(i) ==
  LET b == Blocks(draft) IN
  /\ HasBlocks(draft) /\ i \in 1 .. Len(b) - 1
  /\ Rearrange([b EXCEPT ![i] = b[i + 1], ![i + 1] = b[i]])
DeleteBlock(i) == HasBlocks(draft) /\ i \in DOMAIN Blocks(draft) /\ Rearrange(RemoveAt(Blocks(draft), i))
EditBlock(i, start, end) ==
  /\ HasBlocks(draft) /\ i \in DOMAIN Blocks(draft)
  /\ Rearrange([Blocks(draft) EXCEPT ![i] = Block(@.key, start, end)])

Reload ==
  /\ draft # DraftOf(saved)
  /\ Change(DraftOf(saved))
  /\ UNCHANGED <<siteVars, saved, source, history, bounds>>

(* WorkDraft.validate and validate_work_snapshot.                            *)
Covered(d) ==
  \A k \in Members(d) :
    SelectedRows(d, k) = Chosen(d, Blocks(d), k) /\ Disjoint(d, Blocks(d), k)

Valid(d) ==
  /\ \A k \in Members(d) :
       /\ ScopeHolds(d.listing[k], d.target[k].scope)
       /\ Expressible(k, d.listing[k], SelectedRows(d, k))
       /\ Taken(k) \subseteq d.listing[k]
  /\ \A b \in Range(Blocks(d)) : HasInterval(d.listing[b.key], b.start, b.end)
  /\ Covered(d)

(* What a preview makes of the draft before it looks at it: every target of  *)
(* a Work has segments or an archive order.                                  *)
Orders(d) == [d EXCEPT !.target = [k \in Keys |->
  IF k \in Members(d) THEN [@[k] EXCEPT !.order = CHOOSE i \in DOMAIN d.members : d.members[i] = k] ELSE @[k]]]
Normal(d) ==
  IF Split(d) THEN Applied(d, Blocks(d))
  ELSE IF Len(d.members) > 1 /\ \A k \in Members(d) : d.target[k].order = 0 THEN Orders(d) ELSE d

PreviewEdit ==
  LET normal == Normal(draft) IN
  /\ ~preview.ready
  /\ Split(draft) => Applicable(draft, Blocks(draft))
  /\ draft' = normal
  /\ preview' = IF Valid(normal) THEN [ready |-> TRUE, catalog |-> source] ELSE NoPreview
  /\ UNCHANGED <<siteVars, saved, source, history, bounds>>

(* Under the job lock the same checks once more, on the same Catalog.        *)
SaveEdit ==
  /\ preview.ready
  /\ IF preview.catalog = source
     THEN /\ saved' = [members |-> draft.members, target |-> draft.target]
          /\ draft' = DraftOf(saved')
          /\ approved' = [members |-> draft.members, order |-> Layout(draft, Blocks(draft)), listing |-> draft.listing]
          /\ read' = NothingRead
     ELSE UNCHANGED <<saved, draft, history>>
  /\ preview' = NoPreview
  /\ UNCHANGED <<siteVars, source, bounds>>

-----------------------------------------------------------------------------

Ends(k) == draft.listing[k] \cup {0}

World == \E k \in Changing, c \in Chapters : Publish(k, c) \/ Withdraw(k, c)

Editing ==
  \/ FetchListings \/ Reload \/ PreviewEdit \/ SaveEdit
  \/ edits < MaxEdits /\
       \/ \E k \in Keys : AddTarget(k) \/ \E s, e \in Ends(k) : SetRange(k, s, e)
       \/ \E from, to \in Members(draft) : \E f, l \in draft.listing[from] : \E s, e \in draft.listing[to] :
            ReplaceRange(from, f, l, Block(to, s, e))
       \/ HasBlocks(draft) /\ \E i \in DOMAIN Blocks(draft) :
            MoveBlock(i) \/ DeleteBlock(i) \/ \E s, e \in Ends(Blocks(draft)[i].key) : EditBlock(i, s, e)

Next == World \/ Editing \/ \E k \in Keys : Full(k)

Spec == Init /\ [][Next]_vars

-----------------------------------------------------------------------------

Layouts == [scope : [from : 0 .. Count, through : 0 .. Count, out : SUBSET Chapters],
            order : 0 .. Cardinality(Keys), split : BOOLEAN, segments : Seq([order : Nat, start : 0 .. Count, end : 0 .. Count])]

(* The sites, the Watchlist, the editor and the Catalog.                     *)
TypeOK ==
  /\ \A k \in Keys : listed[k] \subseteq published[k] /\ published[k] \subseteq Chapters
  /\ saved.target \in [Keys -> Layouts] /\ draft.target \in [Keys -> Layouts]
  /\ Members(saved) \subseteq Members(draft) /\ Members(draft) \subseteq Keys
  /\ \A k \in Keys, c \in Chapters : source[k][c].enabled => source[k][c].known /\ source[k][c].position # 0
  /\ edits \in 0 .. MaxEdits /\ withdrawn \in 0 .. MaxWithdrawn

OldRows(k) == approved.listing[k]
NewRows(k) == read[k] \ approved.listing[k]
FullSinceSave ==
  /\ approved # NothingSaved
  /\ \A k \in Members(saved) : OldRows(k) \subseteq read[k] /\ \A c \in OldRows(k), d \in NewRows(k) : c < d
Older(order) == SelectSeq(order, LAMBDA p : p[2] \in OldRows(p[1]))
Newer(order) == {p \in Range(order) : p[2] \in NewRows(p[1])}

(* Once every target has had a full run since a save, on a site that has     *)
(* only added chapters, the numbering does not stop and is what the operator *)
(* approved, with the new chapters of the targets left open at the newest    *)
(* end, and no other, as long as nothing is taken that no site lists: the    *)
(* two readings of a block, by listing in the editor                         *)
(* (watchlist/work_edit.py:26) and by flag and position in the numbering     *)
(* (archive_order.py:254), agree.                                            *)
NumberedAsApproved ==
  FullSinceSave /\ Numbered /\ (\A k \in Members(saved) : Taken(k) \subseteq read[k]) =>
    /\ ~Stops
    /\ Older(Plan) = approved.order
    /\ Newer(Plan) = UNION {{<<k, c>> : c \in NewRows(k)} : k \in {m \in Members(saved) : saved.target[m].scope.from = 0}}

(* "担当 ... / 維持 ... / 担当外 ...": the preview tells how many rows of each      *)
(* target will be taken (watchlist/work_edit.py:320). After the full runs a  *)
(* target takes those rows, and no other up to the newest the preview saw.   *)
TakenAsShown ==
  FullSinceSave => \A k \in Members(saved) :
    Taken(k) \cap 1 .. Max(OldRows(k)) = {p[2] : p \in {q \in Range(approved.order) : q[1] = k}}

(* The rows a layout has outside those that go and those that come.          *)
Outside(d, order, from, gone, into) ==
  SelectSeq(order, LAMBDA p :
    /\ ~(p[1] = from /\ p[2] \in gone)
    /\ ~(p[1] = into.key /\ (into.key \in d.new \ d.configured \/ p[2] \in RowsOf(d, into))))
Substituted(d, from, gone, into) ==
  LET order == Layout(d, Blocks(d))
      at == CHOOSE i \in DOMAIN order : order[i] = <<from, Min(gone)>>
  IN Outside(d, SubSeq(order, 1, at), from, gone, into) \o BlockRows(d, into)
       \o Outside(d, SubSeq(order, at, Len(order)), from, gone, into)

Replacements ==
  {r \in UNION {[from : {from}, first : draft.listing[from], last : draft.listing[from],
                 into : [key : {to}, start : draft.listing[to], end : draft.listing[to]]] :
                from \in Members(draft), to \in Members(draft)} :
     Replaceable(draft, r.from, r.first, r.last, r.into)}
Gone(r) == Interval(draft.listing[r.from], r.first, r.last)
After(r) == Applied(draft, Replaced(draft, r.from, Gone(r), r.into))

(* A replacement puts the rows chosen at the destination where those chosen  *)
(* at the source stood, takes them away wherever else the destination had    *)
(* them, and moves nothing else (watchlist/work_edit.py:199).                *)
ReplacementIsExact ==
  \A r \in Replacements :
    Layout(After(r), Blocks(After(r))) = Substituted(draft, r.from, Gone(r), r.into)

(* A target that is to take new chapters goes on doing so when part of it is *)
(* replaced, when another is, and when a preview puts the draft in normal    *)
(* form, as long as its newest row is left to it                             *)
(* (tests/unit/test_work_edit.py:37).                                        *)
StaysOpen(k, after) ==
  draft.target[k].scope.from = 0 /\ Max(draft.listing[k]) \in SelectedRows(after, k)
    => after.target[k].scope.from = 0
NewestEndStaysOpen ==
  /\ \A r \in Replacements : \A k \in Members(draft) \ {r.into.key} : StaysOpen(k, After(r))
  /\ Split(draft) /\ Applicable(draft, Blocks(draft)) => \A k \in Members(draft) : StaysOpen(k, Normal(draft))

(* "Mismatched selection/placement remain blockers"                          *)
(* (docs/DISCOVERY_AND_BATCH.md:2238): a draft whose scope selects rows that *)
(* no block places is not previewed as ready to save.                        *)
MismatchBlocks == [][PreviewEdit /\ preview'.ready => Covered(draft)]_vars

=============================================================================
