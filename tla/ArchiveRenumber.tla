---------------------------- MODULE ArchiveRenumber ----------------------------
(* Renaming the archives of a work after its numbering has changed          *)
(* (maintenance/archive_renumber.py): a preview, then under the job lock    *)
(* the same plan once more, two rounds of renames for the ZIPs, two for     *)
(* their status files, one Catalog update, and the way back from any point. *)
EXTENDS Naturals, Sequences, FiniteSets, SequencesExt

CONSTANTS
  Archives,    \* the current archive of each Source
  Names,       \* stems that a numbering gives; a ZIP and its status share one
  Strict,      \* the work is managed by the Watchlist
  MaxFaults,   \* bound on failing calls and interrupts
  MaxOutside   \* bound on what others do to the files, the rows, the Watchlist

RenumberAssumption ==
  /\ IsFiniteSet(Archives) /\ IsFiniteSet(Names)
  /\ Cardinality(Archives) <= Cardinality(Names)
  /\ Strict \in BOOLEAN /\ MaxFaults \in Nat /\ MaxOutside \in Nat

VARIABLES
  zips,        \* the archive under a path, or "none", or "foreign"
  notes,       \* the status file of a path: whose it is and the ZIP it names
  locator,     \* artifacts.locator
  wanted,      \* the name the current numbering gives an archive, if any
  shown,       \* the plan of the preview
  entries,     \* the entries that are being renamed
  before,      \* what the recheck remembers of them, to compare and restore
  todo, begun, \* operations left; renames begun
  pc, result,
  faults, outside

fileVars == <<zips, notes>>
worldVars == <<zips, notes, locator, wanted>>
vars == <<worldVars, shown, entries, before, todo, begun, pc, result, faults, outside>>

\* Names that others give: a ZIP moved away, a row that follows it.
Away == "away"
NoName == "none"
Temp(a) == <<"temp", a>>
Back(a) == <<"back", a>>
Paths == {<<"library", n>> : n \in Names} \cup {Temp(a) : a \in Archives}
         \cup {Back(a) : a \in Archives} \cup {<<Away, a>> : a \in Archives}
At(name) == <<"library", name>>
NoPath == <<"none", "none">>
NoNote == [of |-> "none", says |-> NoPath]
NoPlan == [moves |-> {}, skips |-> {}, blocked |-> FALSE]

Init ==
  /\ \E place \in {f \in [Archives -> Names] : IsInjective(f)} :
       /\ locator = [a \in Archives |-> At(place[a])]
       /\ zips = [p \in Paths |-> IF \E a \in Archives : p = At(place[a])
                                  THEN CHOOSE a \in Archives : p = At(place[a]) ELSE "none"]
       /\ \E noted \in SUBSET Archives :
            notes = [p \in Paths |-> IF \E a \in noted : p = At(place[a])
                                     THEN [of |-> zips[p], says |-> p] ELSE NoNote]
  /\ wanted \in [Archives -> Names \cup {NoName}]
  /\ shown = NoPlan /\ entries = <<>> /\ before = <<>>
  /\ todo = <<>> /\ begun = 0 /\ pc = "idle" /\ result = "none"
  /\ faults = 0 /\ outside = 0

Fault == faults < MaxFaults /\ faults' = faults + 1

-------------------------------------------------------------------------------
(* build_archive_renumber_plan.                                            *)
NewPath(a) == At(wanted[a])
Positioned == {a \in Archives : wanted[a] # NoName}
Missing == {a \in Positioned : zips[locator[a]] = "none"}
\* Only a managed work has its ZIPs compared with the Catalog.
Altered == {a \in Positioned \ Missing : Strict /\ zips[locator[a]] # a}
Sound == Positioned \ (Missing \cup Altered)
Renamed == {a \in Sound : NewPath(a) # locator[a]}

HasNote(a) == notes[locator[a]].of # "none"
NoteFits(a) == HasNote(a) /\ notes[locator[a]].says = locator[a]

Twice(path, a) == \E b \in Renamed \ {a} : path[b] = path[a]
Alone == {a \in Renamed :
  /\ ~Twice([b \in Renamed |-> NewPath(b)], a)
  /\ ~Twice(locator, a)
  /\ zips[Temp(a)] = "none" /\ (NoteFits(a) => notes[Temp(a)] = NoNote)}

\* A target must be free or be left by an entry that is renamed as well: the
\* entries for which that is so among themselves.
Closes(S) ==
  \A a \in S :
    /\ zips[NewPath(a)] = "none" \/ \E b \in S : NewPath(a) = locator[b]
    /\ NoteFits(a) => \/ notes[NewPath(a)] = NoNote
                      \/ \E b \in S : NoteFits(b) /\ NewPath(a) = locator[b]
Movable == UNION {S \in SUBSET Alone : Closes(S)}

Move(a) == [id |-> a, old |-> locator[a], new |-> NewPath(a), noted |-> NoteFits(a)]
Plan ==
  [moves |-> {Move(a) : a \in Movable},
   skips |-> {[id |-> a, at |-> locator[a], file |-> zips[locator[a]]] : a \in Archives \ Movable},
   blocked |-> /\ Strict
               /\ \/ Movable # Renamed \/ Sound # Archives
                  \/ \E a \in Sound : ~NoteFits(a)]

Preview ==
  /\ pc = "idle"
  /\ shown' = Plan
  /\ pc' = "shown"
  /\ UNCHANGED <<worldVars, entries, before, todo, begun, result, faults, outside>>

-------------------------------------------------------------------------------
(* apply_archive_renumber_plan.                                            *)
Ends(how) == pc' = "over" /\ result' = how

\* The plan is made once more and must be the one that was shown.
SamePlan == Plan = shown
Apply ==
  /\ pc = "shown"
  /\ IF shown.blocked \/ Plan.blocked \/ ~SamePlan
     THEN Ends("refused") /\ UNCHANGED entries
     ELSE IF Plan.moves = {} THEN Ends("done") /\ UNCHANGED entries
     ELSE /\ entries' = SetToSeq(Plan.moves)
          /\ pc' = "recheck" /\ UNCHANGED result
  /\ UNCHANGED <<worldVars, shown, before, todo, begun, faults, outside>>

Noted == SelectSeq(entries, LAMBDA e : e.noted)
OldOnes == {entries[i].old : i \in DOMAIN entries}
OldNotes == {Noted[i].old : i \in DOMAIN Noted}

Unchanged(e) ==
  /\ zips[e.old] # "none" /\ zips[Temp(e.id)] = "none"
  /\ Strict => zips[e.old] = e.id
  /\ zips[e.new] = "none" \/ e.new \in OldOnes
  /\ e.noted => /\ notes[e.old].says = e.old /\ notes[Temp(e.id)] = NoNote
                /\ notes[e.new] = NoNote \/ e.new \in OldNotes

MoveZip(from, to) == [what |-> "zip", from |-> from, to |-> to]
MoveNote(from, to) == [what |-> "note", from |-> from, to |-> to]
Write(to, note) == [what |-> "write", from |-> to, to |-> to, note |-> note]
Each(seq, Op(_)) == [i \in DOMAIN seq |-> Op(seq[i])]

\* Everything leaves its name before anything takes a new one.
Forward ==
  FlattenSeq(<<Each(entries, LAMBDA e : MoveZip(e.old, Temp(e.id))),
               Each(entries, LAMBDA e : MoveZip(Temp(e.id), e.new)),
               Each(Noted, LAMBDA e : MoveNote(e.old, Temp(e.id))),
               FlattenSeq(Each(Noted, LAMBDA e : <<MoveNote(Temp(e.id), e.new),
                                   Write(e.new, [of |-> notes[e.old].of, says |-> e.new])>>))>>)

Recheck ==
  /\ pc = "recheck"
  /\ IF \A i \in DOMAIN entries : Unchanged(entries[i])
     THEN /\ before' = [i \in DOMAIN entries |->
                         [zip |-> zips[entries[i].old], note |-> notes[entries[i].old]]]
          /\ todo' = Forward /\ begun' = 0
          /\ pc' = "renaming" /\ UNCHANGED result
     ELSE Ends("refused") /\ UNCHANGED <<before, todo, begun>>
  /\ UNCHANGED <<worldVars, shown, entries, faults, outside>>

\* A rename needs its source and, on Windows, a free target.
Possible(op) ==
  CASE op.what = "zip" -> zips[op.from] # "none" /\ zips[op.to] = "none"
    [] op.what = "note" -> notes[op.from] # NoNote /\ notes[op.to] = NoNote
    [] OTHER -> TRUE
Moved(files, op, empty) == [files EXCEPT ![op.from] = empty, ![op.to] = files[op.from]]
Does(op) ==
  /\ zips' = IF op.what = "zip" THEN Moved(zips, op, "none") ELSE zips
  /\ notes' = CASE op.what = "note" -> Moved(notes, op, NoNote)
                [] op.what = "write" -> [notes EXCEPT ![op.to] = op.note]
                [] OTHER -> notes

Rename ==
  /\ pc = "renaming" /\ todo # <<>>
  /\ Possible(Head(todo)) /\ Does(Head(todo))
  /\ todo' = Tail(todo) /\ begun' = begun + 1
  /\ UNCHANGED <<locator, wanted, shown, entries, before, pc, result, faults, outside>>

\* The call raises, or an interrupt comes just after it.
RenameFails ==
  /\ pc = "renaming" /\ todo # <<>>
  /\ begun' = begun + 1
  /\ \/ /\ IF Possible(Head(todo)) THEN Fault ELSE UNCHANGED faults
        /\ UNCHANGED fileVars
     \/ Possible(Head(todo)) /\ Does(Head(todo)) /\ Fault
  /\ todo' = <<>> /\ pc' = "undo_zips"
  /\ UNCHANGED <<locator, wanted, shown, entries, before, result, outside>>

-------------------------------------------------------------------------------
(* update_artifact_locators compares and sets all rows in one transaction. *)
Ids == {entries[i].id : i \in DOMAIN entries}
EntryOf(a) == CHOOSE e \in ToSet(entries) : e.id = a
AllAt(place) == \A a \in Ids : locator[a] = EntryOf(a)[place]
Sets(place) ==
  locator' = [a \in Archives |-> IF a \in Ids THEN EntryOf(a)[place] ELSE locator[a]]

CatalogUpdate ==
  /\ pc = "renaming" /\ todo = <<>>
  /\ \/ AllAt("old") /\ Sets("new") /\ Ends("done") /\ UNCHANGED faults
     \/ AllAt("old") /\ Sets("new") /\ Fault /\ pc' = "asking" /\ UNCHANGED result
     \/ ~AllAt("old") /\ pc' = "asking" /\ UNCHANGED <<locator, result, faults>>
     \/ AllAt("old") /\ Fault /\ pc' = "asking" /\ UNCHANGED <<locator, result>>
  /\ UNCHANGED <<zips, notes, wanted, shown, entries, before, todo, begun, outside>>

\* _restore_catalog_after_failure: which of the two states is it?
WrongAsItWas == TRUE
AsItWas == AllAt("old")
Ask ==
  /\ pc = "asking"
  /\ \/ /\ IF AsItWas THEN pc' = "undo_zips" /\ UNCHANGED result
           ELSE IF AllAt("new") THEN pc' = "compensating" /\ UNCHANGED result
           ELSE Ends("recovery")
        /\ UNCHANGED faults
     \/ Fault /\ Ends("recovery")
  /\ UNCHANGED <<worldVars, shown, entries, before, todo, begun, outside>>

Compensate ==
  /\ pc = "compensating"
  /\ \/ AllAt("new") /\ Sets("old") /\ UNCHANGED faults
     \/ UNCHANGED locator /\ IF AllAt("new") THEN Fault ELSE UNCHANGED faults
  /\ pc' = "asking_again"
  /\ UNCHANGED <<zips, notes, wanted, shown, entries, before, todo, begun, result, outside>>

NotRestored == Ends("recovery")
AskAgain ==
  /\ pc = "asking_again"
  /\ \/ /\ IF AllAt("old") THEN pc' = "undo_zips" /\ UNCHANGED result ELSE NotRestored
        /\ UNCHANGED faults
     \/ Fault /\ Ends("recovery")
  /\ UNCHANGED <<worldVars, shown, entries, before, todo, begun, outside>>

-------------------------------------------------------------------------------
(* _rollback: find each file, stage all of them, put them back, compare.   *)
N == Len(entries)
Finals(i) == begun >= N + i                  \* zip_final_attempted
Stages(i) == begun >= i                      \* zip_stage1_attempted
NoteStages(i) == begun >= 2 * N + i          \* of the i-th noted entry
NoteFinals(i) == begun >= 2 * N + Len(Noted) + 2 * i - 1

Locate(there, old, new, temp, staged, final) ==
  CASE final /\ temp \in there -> temp
    [] final /\ temp \notin there /\ new \in there -> new
    [] ~final /\ staged /\ temp \in there -> temp
    [] ~final /\ old \in there /\ (staged => temp \notin there) -> old
    [] OTHER -> NoPath

ZipThere(p) == zips[p] # "none"
NoteThere(p) == notes[p] # NoNote
ZipNow(i) == LET e == entries[i] IN
  Locate({p \in DOMAIN zips : ZipThere(p)}, e.old, e.new, Temp(e.id), Stages(i), Finals(i))
NoteNow(i) == LET e == Noted[i] IN
  Locate({p \in DOMAIN notes : NoteThere(p)}, e.old, e.new, Temp(e.id), NoteStages(i), NoteFinals(i))

Original(e) == before[CHOOSE i \in DOMAIN entries : entries[i] = e].note

UndoZips ==
  /\ pc = "undo_zips"
  /\ IF \E i \in 1..N : ZipNow(i) = NoPath \/ ZipThere(Back(entries[i].id))
     THEN Ends("recovery") /\ UNCHANGED todo
     ELSE /\ todo' = [i \in 1..N |-> MoveZip(ZipNow(i), Back(entries[i].id))]
                     \o [i \in 1..N |-> MoveZip(Back(entries[i].id), entries[i].old)]
          /\ pc' = "undoing_zips" /\ UNCHANGED result
  /\ UNCHANGED <<worldVars, shown, entries, before, begun, faults, outside>>

UndoNotes ==
  /\ pc = "undoing_zips" /\ todo = <<>>
  /\ IF \E i \in DOMAIN Noted : NoteNow(i) = NoPath \/ NoteThere(Back(Noted[i].id))
     THEN Ends("recovery") /\ UNCHANGED todo
     ELSE /\ todo' = [i \in DOMAIN Noted |-> MoveNote(NoteNow(i), Back(Noted[i].id))]
                     \o FlattenSeq([i \in DOMAIN Noted |->
                          <<MoveNote(Back(Noted[i].id), Noted[i].old),
                            Write(Noted[i].old, Original(Noted[i]))>>])
          /\ pc' = "undoing_notes" /\ UNCHANGED result
  /\ UNCHANGED <<worldVars, shown, entries, before, begun, faults, outside>>

Undo ==
  /\ pc \in {"undoing_zips", "undoing_notes"} /\ todo # <<>>
  /\ \/ /\ Possible(Head(todo)) /\ Does(Head(todo))
        /\ todo' = Tail(todo)
        /\ UNCHANGED <<pc, result, faults>>
     \/ /\ IF Possible(Head(todo)) THEN Fault ELSE UNCHANGED faults
        /\ Ends("recovery")
        /\ UNCHANGED <<fileVars, todo>>
  /\ UNCHANGED <<locator, wanted, shown, entries, before, begun, outside>>

Restored(i) == LET e == entries[i] IN
  /\ zips[e.old] = before[i].zip
  /\ e.noted => notes[e.old] = before[i].note
  /\ ~ZipThere(Temp(e.id)) /\ (e.noted => ~NoteThere(Temp(e.id)))
  /\ ~ZipThere(Back(e.id)) /\ (e.noted => ~NoteThere(Back(e.id)))
Verify ==
  /\ pc = "undoing_notes" /\ todo = <<>>
  /\ \/ Ends(IF \A i \in 1..N : Restored(i) THEN "rolled_back" ELSE "recovery") /\ UNCHANGED faults
     \/ Fault /\ Ends("recovery")
  /\ UNCHANGED <<worldVars, shown, entries, before, todo, begun, outside>>

-------------------------------------------------------------------------------
(* What is not kept away by the job lock.                                  *)
Others ==
  /\ pc # "over" /\ outside < MaxOutside /\ outside' = outside + 1
  /\ \/ \E a \in Archives, n \in Names \cup {NoName} :
          wanted' = [wanted EXCEPT ![a] = n] /\ UNCHANGED <<fileVars, locator>>
     \/ \E a \in Archives :           \* prepare_recrawl moves a ZIP and books it
          /\ zips[locator[a]] = a /\ locator[a] # <<Away, a>>
          /\ zips' = [zips EXCEPT ![locator[a]] = "none", ![<<Away, a>>] = a]
          /\ locator' \in {locator, [locator EXCEPT ![a] = <<Away, a>>]}
          /\ UNCHANGED <<notes, wanted>>
     \/ \E n \in Names :              \* a file under a name of the library
          /\ zips[At(n)] = "none"
          /\ zips' = [zips EXCEPT ![At(n)] = "foreign"]
          /\ UNCHANGED <<notes, locator, wanted>>
  /\ UNCHANGED <<shown, entries, before, todo, begun, pc, result, faults>>

Kill ==
  /\ pc # "over" /\ Fault
  /\ Ends("killed")
  /\ UNCHANGED <<worldVars, shown, entries, before, todo, begun, outside>>

Renumber ==
  \/ Preview \/ Apply \/ Recheck \/ Rename \/ RenameFails \/ CatalogUpdate
  \/ Ask \/ Compensate \/ AskAgain \/ UndoZips \/ UndoNotes \/ Undo \/ Verify
Next == Renumber \/ Others \/ Kill
Spec == Init /\ [][Next]_vars
FairSpec == Spec /\ WF_vars(Renumber /\ UNCHANGED faults)

-------------------------------------------------------------------------------
TypeOK ==
  /\ zips \in [Paths -> Archives \cup {"none", "foreign"}]
  /\ notes \in [Paths -> [of : Archives \cup {"none", "foreign"}, says : Paths \cup {NoPath}]]
  /\ locator \in [Archives -> Paths]
  /\ wanted \in [Archives -> Names \cup {NoName}]
  /\ \A i \in DOMAIN entries :
       /\ entries[i] \in [id : Archives, old : Paths, new : Paths, noted : BOOLEAN]
       /\ \A j \in DOMAIN entries : entries[i].new = entries[j].new => i = j
  /\ \A i \in DOMAIN todo : todo[i].what \in {"zip", "note", "write"}
  /\ begun \in 0 .. 2 * N + 3 * Len(Noted)
  /\ pc \in {"idle", "shown", "recheck", "renaming", "asking", "compensating", "asking_again",
             "undo_zips", "undoing_zips", "undoing_notes", "over"}
  /\ result \in {"none", "refused", "done", "rolled_back", "recovery", "killed"}
  /\ faults \in 0..MaxFaults /\ outside \in 0..MaxOutside

\* What apply reports is so.  Done: every ZIP is under its new name, with its
\* row and a status file that names it.  Rolled back: ZIPs, status files and
\* rows are all what they were, and no temporary file is left.
ResultIsTrue ==
  \A i \in DOMAIN entries : LET e == entries[i] IN
    /\ result = "done" =>
         /\ zips[e.new] = before[i].zip /\ locator[e.id] = e.new
         /\ e.noted => notes[e.new] = [before[i].note EXCEPT !.says = e.new]
    /\ result = "rolled_back" => Restored(i) /\ locator[e.id] = e.old

\* A plan that is carried out undisturbed succeeds, whatever names its entries
\* take from each other; one failing call or interrupt, at whatever step and
\* before or after its effect, is undone completely.
OneFaultIsUndone ==
  outside = 0 => /\ faults <= 1 => result # "recovery"
                 /\ faults = 0 => result # "rolled_back"

\* Nothing is renamed but what the preview showed, for rows that are still at
\* the paths it showed.
OnlyAsShown ==
  [][pc = "recheck" /\ pc' = "renaming" => ToSet(entries) = shown.moves]_vars

\* An apply ends in one of its results.
RenumberEnds == <>(pc = "over")
===============================================================================
