---------------------------- MODULE WatchlistEdits ----------------------------
(* The Watchlist file and those who change it (watchlist/service.py): the    *)
(* registration of new works (registration/service.py), which also needs the *)
(* Catalog to stand still, the switch and the archive mark of the GUI, which *)
(* act on the revision they show, the command line, which acts on what it    *)
(* finds, and a text editor, which knows no lock.                            *)
EXTENDS Naturals, FiniteSets

CONSTANTS
  Registrars, Switches, Marks, Tools,  \* sessions of each kind
  Groups,            \* works to register: each is a key new to the file
  Held,              \* the key the file begins with
  HandEditsRace,     \* a text editor may also write between the last look and the replace
  MaxHands, MaxListings, MaxFaults, MaxSaves

Sessions == Registrars \cup Switches \cup Marks \cup Tools
Keys == Groups \cup {Held}

Nobody == "nobody"

ASSUME WatchlistEditsAssumption ==
  /\ Held \notin Groups /\ HandEditsRace \in BOOLEAN
  /\ Nobody \notin Sessions /\ Registrars \cap (Switches \cup Marks \cup Tools) = {}
  /\ MaxHands \in Nat /\ MaxListings \in Nat /\ MaxFaults \in Nat /\ MaxSaves \in Nat

VARIABLES
  file,       \* the file: its targets, the archive mark, the rest of its text
  catalog,    \* what a snapshot of the Catalog is told by
  jobLock, editLock,
  pc, seen,   \* per session: its step, the file its operator or it itself goes by
  offered,    \* auxiliary: groups a dialog began with
  draft,      \* groups still to register
  selected,   \* those in the preview
  shownCatalog, \* the Catalog of the preview
  result,     \* of the last save of a session
  saved,      \* auxiliary: groups written by a session, in its lifetime
  hands, listings, faults, saves \* bounds

locks == <<jobLock, editLock>>
plans == <<offered, draft, selected, shownCatalog>>
bounds == <<hands, listings, faults, saves>>
vars == <<file, catalog, locks, pc, seen, plans, result, saved, bounds>>

Off == "off"
On == "on"
Missing == "missing"

Init ==
  /\ file = [targets |-> [k \in Keys |-> IF k = Held THEN On ELSE Missing], archived |-> FALSE, text |-> 0]
  /\ catalog = 0 /\ jobLock = Nobody /\ editLock = Nobody
  /\ pc = [s \in Sessions |-> "idle"]
  /\ seen = [s \in Sessions |-> file]
  /\ offered = [s \in Registrars |-> Groups] /\ draft = offered
  /\ selected = [s \in Registrars |-> {}]
  /\ shownCatalog = [s \in Registrars |-> 0]
  /\ result = [s \in Sessions |-> "none"]
  /\ saved = [s \in Registrars |-> {}]
  /\ hands = 0 /\ listings = 0 /\ faults = 0 /\ saves = 0

Goes(s, from, to) == pc[s] = from /\ pc' = [pc EXCEPT ![s] = to]
Results(s, r) == result' = [result EXCEPT ![s] = r]

-----------------------------------------------------------------------------
(* The world.                                                                *)

HandEdit ==
  /\ hands < MaxHands /\ hands' = hands + 1
  /\ HandEditsRace \/ \A s \in Sessions : pc[s] # "replacing"
  /\ \/ \E k \in Keys, v \in {On, Off, Missing} :
          v # file.targets[k] /\ file' = [file EXCEPT !.targets[k] = v]
     \/ file' = [file EXCEPT !.text = @ + 1]
  /\ UNCHANGED <<catalog, locks, pc, seen, plans, result, saved, listings, faults, saves>>

(* A Discovery, in another process, under the job lock.                      *)
Discover ==
  /\ jobLock = Nobody /\ listings < MaxListings
  /\ listings' = listings + 1 /\ catalog' = catalog + 1
  /\ UNCHANGED <<file, locks, pc, seen, plans, result, saved, hands, faults, saves>>

-----------------------------------------------------------------------------
(* A registration.                                                           *)

(* The targets the selected groups are added to are those the draft began    *)
(* with, and the Catalog is read after the file.                             *)
PreviewDraft(s) ==
  /\ pc[s] \in {"idle", "shown"} /\ file = seen[s]
  /\ \E g \in SUBSET draft[s] \ {{}} :
       g \cap {k \in Groups : file.targets[k] # Missing} = {} /\ selected' = [selected EXCEPT ![s] = g]
  /\ shownCatalog' = [shownCatalog EXCEPT ![s] = catalog]
  /\ pc' = [pc EXCEPT ![s] = "shown"]
  /\ UNCHANGED <<file, catalog, locks, seen, offered, draft, result, saved, bounds>>

(* The dialog is opened anew: what is registered by now is no longer in it.  *)
Reopen(s) ==
  /\ \/ pc[s] \in {"idle", "shown"} /\ file # seen[s]
     \/ pc[s] = "frozen"
  /\ Results(s, "none")
  /\ seen' = [seen EXCEPT ![s] = file]
  /\ offered' = [offered EXCEPT ![s] = {g \in Groups : file.targets[g] = Missing}]
  /\ draft' = [draft EXCEPT ![s] = offered'[s]]
  /\ pc' = [pc EXCEPT ![s] = "idle"]
  /\ saved' = [saved EXCEPT ![s] = {}]
  /\ UNCHANGED <<file, catalog, locks, selected, shownCatalog, bounds>>

BeginSave(s) ==
  /\ jobLock = Nobody /\ saves < MaxSaves /\ saves' = saves + 1
  /\ Goes(s, "shown", "checking") /\ jobLock' = s
  /\ UNCHANGED <<file, catalog, editLock, seen, plans, result, saved, hands, listings, faults>>

StillAsShown(s) == file = seen[s] /\ catalog = shownCatalog[s]

(* save repeats the preview; a difference, or the edit lock, ends it.        *)
Recheck(s) ==
  /\ pc[s] = "checking"
  /\ \/ /\ StillAsShown(s) /\ editLock = Nobody
        /\ pc' = [pc EXCEPT ![s] = "reading"] /\ editLock' = s
        /\ UNCHANGED <<jobLock, result>>
     \/ /\ ~StillAsShown(s) \/ editLock # Nobody
        /\ pc' = [pc EXCEPT ![s] = "idle"] /\ jobLock' = Nobody
        /\ Results(s, "failed") /\ UNCHANGED editLock
  /\ UNCHANGED <<file, catalog, seen, plans, saved, bounds>>

(* The file is read once more when the edit lock is free again.              *)
ReadBack(s) ==
  /\ pc[s] = "written" /\ jobLock' = Nobody
  /\ IF file.targets = seen[s].targets
     THEN pc' = [pc EXCEPT ![s] = "retaining"] /\ seen' = [seen EXCEPT ![s] = file] /\ Results(s, "verified")
     ELSE pc' = [pc EXCEPT ![s] = "frozen"] /\ Results(s, "unverified") /\ UNCHANGED seen
  /\ UNCHANGED <<file, catalog, editLock, plans, saved, bounds>>

(* retain_unsaved: the draft begins anew with what was not selected.         *)
(* Mutant: the groups that were not selected go with those that were.        *)
WrongRetain(s) ==
  /\ Goes(s, "retaining", "idle")
  /\ draft' = [draft EXCEPT ![s] = {}]
  /\ UNCHANGED <<file, catalog, locks, seen, offered, selected, shownCatalog, result, saved, bounds>>
Retain(s) ==
  /\ Goes(s, "retaining", "idle")
  /\ draft' = [draft EXCEPT ![s] = @ \ selected[s]]
  /\ UNCHANGED <<file, catalog, locks, seen, offered, selected, shownCatalog, result, saved, bounds>>

-----------------------------------------------------------------------------
(* The other sessions.                                                       *)

Show(s) ==
  /\ pc[s] = "idle" /\ seen[s] # file
  /\ seen' = [seen EXCEPT ![s] = file]
  /\ UNCHANGED <<file, catalog, locks, pc, plans, result, saved, bounds>>

Act(s) ==
  /\ saves < MaxSaves /\ saves' = saves + 1
  /\ pc[s] = "idle" /\ editLock = Nobody
  /\ pc' = [pc EXCEPT ![s] = "reading"] /\ editLock' = s
  /\ UNCHANGED <<file, catalog, jobLock, seen, plans, result, saved, hands, listings, faults>>

-----------------------------------------------------------------------------
(* A write, under the edit lock.                                             *)

LeaveLocks(s) == editLock' = Nobody /\ jobLock' = IF jobLock = s THEN Nobody ELSE jobLock

(* _content_for_revision: a tool asks for no revision. What is to be changed *)
(* must be there.                                                            *)
ReadFile(s) ==
  /\ pc[s] = "reading"
  /\ IF /\ s \in Tools \/ file = seen[s]
        /\ s \in Tools \cup Switches => file.targets[Held] # Missing
     THEN /\ pc' = [pc EXCEPT ![s] = "comparing"] /\ seen' = [seen EXCEPT ![s] = file]
          /\ UNCHANGED <<locks, result>>
     ELSE /\ pc' = [pc EXCEPT ![s] = "idle"] /\ Results(s, "failed")
          /\ LeaveLocks(s) /\ UNCHANGED seen
  /\ UNCHANGED <<file, catalog, plans, saved, bounds>>

(* Mutant: the file is not compared with the one the edit began from.        *)
WrongSame(s) == TRUE
Same(s) == file = seen[s]

Compare(s) ==
  /\ pc[s] = "comparing"
  /\ IF Same(s)
     THEN pc' = [pc EXCEPT ![s] = "replacing"] /\ UNCHANGED <<locks, result>>
     ELSE pc' = [pc EXCEPT ![s] = "idle"] /\ Results(s, "failed") /\ LeaveLocks(s)
  /\ UNCHANGED <<file, catalog, seen, plans, saved, bounds>>

Flip(v) == IF v = On THEN Off ELSE IF v = Off THEN On ELSE Missing
Without(f, k) == [f EXCEPT !.targets[k] = Missing]

(* The new text is the old one, as it was read, with one part changed.       *)
Written(s) ==
  IF s \in Registrars THEN [seen[s] EXCEPT !.targets = [k \in Keys |-> IF k \in selected[s] THEN On ELSE @[k]]]
  ELSE IF s \in Switches THEN [seen[s] EXCEPT !.targets[Held] = Flip(@)]
  ELSE IF s \in Marks THEN [seen[s] EXCEPT !.archived = ~@]
  ELSE Without(seen[s], Held)

Replace(s) ==
  /\ pc[s] = "replacing"
  /\ file' = Written(s) /\ seen' = [seen EXCEPT ![s] = Written(s)]
  /\ editLock' = Nobody
  /\ IF s \in Registrars
     THEN /\ pc' = [pc EXCEPT ![s] = "written"] /\ saved' = [saved EXCEPT ![s] = @ \cup selected[s]]
          /\ UNCHANGED result
     ELSE pc' = [pc EXCEPT ![s] = "idle"] /\ Results(s, "saved") /\ UNCHANGED saved
  /\ UNCHANGED <<catalog, jobLock, plans, bounds>>

Fault == faults < MaxFaults /\ faults' = faults + 1

(* The temporary file cannot be written, or it cannot take the other's place *)
WriteFails(s) ==
  /\ pc[s] = "replacing" /\ Fault
  /\ pc' = [pc EXCEPT ![s] = "idle"] /\ Results(s, "failed") /\ LeaveLocks(s)
  /\ UNCHANGED <<file, catalog, seen, plans, saved, hands, listings, saves>>

ReadBackFails(s) ==
  /\ pc[s] = "written" /\ Fault /\ jobLock' = Nobody
  /\ pc' = [pc EXCEPT ![s] = "frozen"] /\ Results(s, "unverified")
  /\ UNCHANGED <<file, catalog, editLock, seen, plans, saved, hands, listings, saves>>

-----------------------------------------------------------------------------

Register(s) ==
  PreviewDraft(s) \/ Reopen(s) \/ BeginSave(s) \/ Recheck(s) \/ ReadBack(s) \/ Retain(s) \/ ReadBackFails(s)

Next ==
  \/ \E s \in Registrars : Register(s)
  \/ \E s \in Switches \cup Marks : Show(s)
  \/ \E s \in Sessions \ Registrars : Act(s)
  \/ \E s \in Sessions : ReadFile(s) \/ Compare(s) \/ Replace(s) \/ WriteFails(s)
  \/ HandEdit \/ Discover

Spec == Init /\ [][Next]_vars

-----------------------------------------------------------------------------

(* The sessions and the locks: whoever is inside a save holds what the step  *)
(* needs, and nobody outside holds anything.                                 *)
TypeOK ==
  /\ file.targets \in [Keys -> {On, Off, Missing}]
  /\ \A s \in Sessions : (editLock = s) <=> pc[s] \in {"reading", "comparing", "replacing"}
  /\ \A s \in Registrars : (jobLock = s) <=> pc[s] \in {"checking", "reading", "comparing", "replacing", "written"}
  /\ \A s \in Sessions : result[s] \in {"none", "failed", "saved", "verified", "unverified"}

(* A write changes the part it means to change, from the state it was asked  *)
(* to change it from; what another session or a text editor wrote before is  *)
(* in the file after (watchlist/service.py:787).                             *)
NothingUndone ==
  [][\A s \in Sessions : pc[s] = "replacing" /\ file' # file =>
      /\ file'.text = file.text
      /\ \A k \in Keys : file'.targets[k] # file.targets[k] =>
           k \in (IF s \in Registrars THEN selected[s] ELSE {Held}) /\ file.targets[k] = seen[s].targets[k]
      /\ file'.archived # file.archived => s \in Marks]_file

(* A registration is written on the Catalog its preview was made of          *)
(* (registration/service.py:151).                                            *)
WrittenAsPreviewed ==
  [][\A s \in Registrars : saved'[s] # saved[s] /\ pc[s] = "replacing" => catalog = shownCatalog[s]]_saved

(* A draft holds the groups its dialog began with less those written since,  *)
(* no more and no less, through refused, failed and repeated saves: between  *)
(* the write and retain_unsaved also those just written. The draft is frozen *)
(* exactly while the outcome of its save is unknown; that save was made, and *)
(* a verified one is in the file as read (registration/service.py:156-182).  *)
DraftIsTheRest ==
  \A s \in Registrars :
    LET earlier == IF pc[s] \in {"written", "retaining", "frozen"} THEN saved[s] \ selected[s] ELSE saved[s]
    IN /\ draft[s] = offered[s] \ earlier
       /\ pc[s] \in {"written", "retaining", "frozen"} => selected[s] \subseteq saved[s]
       /\ (result[s] = "unverified") <=> (pc[s] = "frozen")
       /\ pc[s] = "retaining" => \A g \in selected[s] : seen[s].targets[g] = On

(* "In a conflict nothing is saved" (docs/GUI_README.md:408), with a text    *)
(* editor that may write at any time.                                        *)
ConflictIsNotSaved ==
  [][\A s \in Sessions : pc[s] = "replacing" /\ file' # file /\ pc'[s] # "replacing" => file = seen[s]]_file

=============================================================================
