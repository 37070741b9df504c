---------------------------- MODULE WatchlistProofs ----------------------------
(* What the Watchlist keeps of concurrent edits, for every number of         *)
(* sessions of each kind, of works and of edits, and what the page that      *)
(* edits it keeps, for every number of keys, edits and changes by others.    *)
EXTENDS WatchlistEdits, WatchlistEditor, TLAPS

Files == [targets : [Keys -> {On, Off, Missing}], archived : BOOLEAN, text : Nat]
Inside == {"reading", "comparing", "replacing"}
Places == {"idle", "shown", "checking", "written", "retaining", "frozen"} \cup Inside
Outcomes == {"none", "failed", "saved", "verified", "unverified"}

Typed ==
  /\ file \in Files /\ seen \in [Sessions -> Files]
  /\ pc \in [Sessions -> Places] /\ result \in [Sessions -> Outcomes]
  /\ offered \in [Registrars -> SUBSET Groups] /\ draft \in [Registrars -> SUBSET Groups]
  /\ selected \in [Registrars -> SUBSET Groups]
  /\ saved \in [Registrars -> SUBSET Groups]
  /\ catalog \in Nat /\ shownCatalog \in [Registrars -> Nat]
  /\ jobLock \in Registrars \cup {Nobody} /\ editLock \in Sessions \cup {Nobody}

\* Who is inside holds the locks, and one only can.
LocksFit ==
  /\ \A s \in Sessions : (editLock = s) <=> (pc[s] \in Inside)
  /\ \A s \in Registrars : (jobLock = s) <=> (pc[s] \in Inside \cup {"checking", "written"})

\* What a session is about to replace is what it has read.
NotStale ==
  HandEditsRace = FALSE => \A s \in Sessions : pc[s] = "replacing" => file = seen[s]

\* The Catalog stands still from the second preview to the write.
CatalogStands ==
  \A s \in Registrars : pc[s] \in Inside => catalog = shownCatalog[s]

\* A draft is the rest of what was offered; what is being saved is in it, until it is
\* written and taken out.
DraftFits ==
  \A s \in Registrars :
    /\ pc[s] \in {"idle", "shown", "checking"} \cup Inside => draft[s] = offered[s] \ saved[s]
    /\ pc[s] \in {"shown", "checking"} \cup Inside => selected[s] \subseteq draft[s]
    /\ pc[s] \in {"written", "retaining", "frozen"} =>
         draft[s] = offered[s] \ (saved[s] \ selected[s]) /\ selected[s] \subseteq saved[s]
    /\ pc[s] \in {"written", "retaining"} => \A g \in selected[s] : seen[s].targets[g] = On
    /\ (result[s] = "unverified") <=> (pc[s] = "frozen")

\* The inductive invariant.
EditsInv == Typed /\ LocksFit /\ NotStale /\ CatalogStands /\ DraftFits

-------------------------------------------------------------------------------
LEMMA InitEditsInv == ASSUME Init PROVE EditsInv
<1>1. file \in Files
  BY DEF Init, Files, On, Missing
<1>2. Typed
  BY <1>1 DEF Init, Typed, Places, Outcomes
<1>3. LocksFit
  BY WatchlistEditsAssumption DEF Init, LocksFit, Inside, Sessions
<1>4. \A s \in Sessions : pc[s] = "idle" /\ result[s] = "none"
  BY DEF Init
<1>5. \A s \in Registrars : saved[s] = {} /\ draft[s] = offered[s] /\ s \in Sessions
  BY DEF Init, Sessions
<1>6. NotStale /\ CatalogStands
  BY <1>4, <1>5 DEF NotStale, CatalogStands, Inside
<1>7. DraftFits
  BY <1>4, <1>5 DEF DraftFits, Inside
<1> QED
  BY <1>2, <1>3, <1>6, <1>7 DEF EditsInv

\* The new text is a Watchlist again.
LEMMA WrittenIsFile ==
  ASSUME Typed, NEW s \in Sessions
  PROVE  /\ Written(s) \in Files
         /\ s \in Registrars => \A g \in selected[s] : Written(s).targets[g] = On
<1>1. seen[s] \in Files /\ Held \in Keys
  BY DEF Typed, Keys
<1>2. CASE s \in Registrars
  BY <1>1, <1>2 DEF Written, Files, Typed, Keys, On
<1>3. CASE s \notin Registrars
  BY <1>1, <1>3 DEF Written, Files, Flip, Without, On, Off, Missing
<1> QED
  BY <1>2, <1>3

\* The world: a text editor keeps away from a replacement in progress if it
\* does not race, and a Discovery from a registration.
LEMMA WorldKeeps == ASSUME EditsInv, HandEdit \/ Discover PROVE EditsInv'
<1> USE DEF EditsInv, plans, locks
<1>1. CASE HandEdit
  <2>1. file' \in Files
    <3>1. file \in Files
      BY DEF Typed
    <3>2. CASE \E k \in Keys, v \in {On, Off, Missing} : file' = [file EXCEPT !.targets[k] = v]
      BY <3>1, <3>2 DEF Files
    <3>3. CASE file' = [file EXCEPT !.text = @ + 1]
      BY <3>1, <3>3 DEF Files
    <3> QED
      BY <1>1, <3>2, <3>3 DEF HandEdit
  <2>2. Typed'
    BY <1>1, <2>1 DEF HandEdit, Typed
  <2>3. LocksFit' /\ CatalogStands' /\ DraftFits'
    BY <1>1 DEF HandEdit, LocksFit, CatalogStands, DraftFits
  <2>4. NotStale'
    BY <1>1 DEF HandEdit, NotStale
  <2> QED
    BY <2>2, <2>3, <2>4
<1>2. CASE Discover
  <2>1. Typed'
    BY <1>2 DEF Discover, Typed
  <2>2. LocksFit' /\ NotStale' /\ DraftFits'
    BY <1>2 DEF Discover, LocksFit, NotStale, DraftFits
  <2>3. CatalogStands'
    <3>1. \A s \in Registrars : s # Nobody
      BY WatchlistEditsAssumption DEF Sessions
    <3>2. \A s \in Registrars : pc[s] \notin Inside
      BY <1>2, <3>1 DEF Discover, LocksFit
    <3> QED
      BY <1>2, <3>2 DEF Discover, CatalogStands
  <2> QED
    BY <2>1, <2>2, <2>3
<1> QED
  BY <1>1, <1>2

\* The steps of a registration outside the edit lock.
LEMMA RegisterKeeps ==
  ASSUME EditsInv, NEW s \in Registrars, Register(s) PROVE EditsInv'
<1> USE WatchlistEditsAssumption DEF EditsInv, plans, locks, Sessions, Results, Goes
<1>1. CASE PreviewDraft(s)
  <2>1. Typed'
    BY <1>1 DEF PreviewDraft, Typed, Places, Keys
  <2>2. LocksFit' /\ NotStale'
    BY <1>1 DEF PreviewDraft, LocksFit, NotStale, Typed, Inside
  <2>3. CatalogStands' /\ DraftFits'
    BY <1>1 DEF PreviewDraft, CatalogStands, DraftFits, Typed, Inside
  <2> QED
    BY <2>1, <2>2, <2>3
<1>2. CASE Reopen(s)
  <2>1. Typed'
    BY <1>2 DEF Reopen, Typed, Places, Outcomes
  <2>2. LocksFit' /\ NotStale'
    BY <1>2 DEF Reopen, LocksFit, NotStale, Typed, Inside
  <2>3. CatalogStands' /\ DraftFits'
    BY <1>2 DEF Reopen, CatalogStands, DraftFits, Typed, Inside
  <2> QED
    BY <2>1, <2>2, <2>3
<1>3. CASE BeginSave(s)
  <2>1. Typed'
    BY <1>3 DEF BeginSave, Typed, Places
  <2>2. LocksFit' /\ NotStale'
    BY <1>3 DEF BeginSave, LocksFit, NotStale, Typed, Inside
  <2>3. CatalogStands' /\ DraftFits'
    BY <1>3 DEF BeginSave, CatalogStands, DraftFits, Typed, Inside
  <2> QED
    BY <2>1, <2>2, <2>3
<1>4. CASE Recheck(s)
  <2>1. Typed'
    BY <1>4 DEF Recheck, Typed, Places, Inside, Outcomes
  <2>2. LocksFit' /\ NotStale'
    BY <1>4 DEF Recheck, LocksFit, NotStale, Typed, Inside
  <2>3. CatalogStands' /\ DraftFits'
    BY <1>4 DEF Recheck, StillAsShown, CatalogStands, DraftFits, Typed, Inside
  <2> QED
    BY <2>1, <2>2, <2>3
<1>5. CASE ReadBack(s)
  <2>1. Typed'
    BY <1>5 DEF ReadBack, Typed, Places, Outcomes
  <2>2. LocksFit' /\ NotStale'
    BY <1>5 DEF ReadBack, LocksFit, NotStale, Typed, Inside
  <2>3. CatalogStands' /\ DraftFits'
    BY <1>5 DEF ReadBack, CatalogStands, DraftFits, Typed, Inside
  <2> QED
    BY <2>1, <2>2, <2>3
<1>6. CASE Retain(s)
  <2>1. Typed'
    BY <1>6 DEF Retain, Typed, Places
  <2>2. LocksFit' /\ NotStale'
    BY <1>6 DEF Retain, LocksFit, NotStale, Typed, Inside
  <2>3. CatalogStands' /\ DraftFits'
    BY <1>6 DEF Retain, CatalogStands, DraftFits, Typed, Inside
  <2> QED
    BY <2>1, <2>2, <2>3
<1>7. CASE ReadBackFails(s)
  <2>1. Typed'
    BY <1>7 DEF ReadBackFails, Fault, Typed, Places, Outcomes
  <2>2. LocksFit' /\ NotStale'
    BY <1>7 DEF ReadBackFails, Fault, LocksFit, NotStale, Typed, Inside
  <2>3. CatalogStands' /\ DraftFits'
    BY <1>7 DEF ReadBackFails, Fault, CatalogStands, DraftFits, Typed, Inside
  <2> QED
    BY <2>1, <2>2, <2>3
<1> QED
  BY <1>1, <1>2, <1>3, <1>4, <1>5, <1>6, <1>7 DEF Register

\* A session that shows the file, and one that takes the edit lock.
LEMMA BeginKeeps ==
  ASSUME EditsInv, NEW s \in Sessions \ Registrars, Show(s) \/ Act(s) PROVE EditsInv'
<1> USE WatchlistEditsAssumption DEF EditsInv, plans, locks, Sessions
<1>1. CASE Show(s)
  <2>1. Typed'
    BY <1>1 DEF Show, Typed
  <2>2. LocksFit' /\ NotStale' /\ CatalogStands' /\ DraftFits'
    BY <1>1 DEF Show, LocksFit, NotStale, CatalogStands, DraftFits, Typed
  <2> QED
    BY <2>1, <2>2
<1>2. CASE Act(s)
  <2>1. Typed'
    BY <1>2 DEF Act, Typed, Places, Inside
  <2>2. LocksFit' /\ NotStale'
    BY <1>2 DEF Act, LocksFit, NotStale, Typed, Inside
  <2>3. CatalogStands' /\ DraftFits'
    BY <1>2 DEF Act, CatalogStands, DraftFits, Typed, Inside
  <2> QED
    BY <2>1, <2>2, <2>3
<1> QED
  BY <1>1, <1>2

\* An end of a write that has changed nothing.
LEMMA GiveUpKeeps ==
  ASSUME EditsInv, NEW s \in Sessions, pc[s] \in Inside,
         pc' = [pc EXCEPT ![s] = "idle"], Results(s, "failed"), LeaveLocks(s),
         UNCHANGED <<file, catalog, seen, plans, saved>>
  PROVE  EditsInv'
<1> USE WatchlistEditsAssumption DEF EditsInv, plans, Results, LeaveLocks, Sessions
<1>1. Typed'
  BY DEF Typed, Places, Outcomes
<1>2. LocksFit'
  BY DEF LocksFit, Typed, Inside
<1>3. NotStale' /\ CatalogStands' /\ DraftFits'
  BY DEF NotStale, CatalogStands, DraftFits, Typed, Inside
<1> QED
  BY <1>1, <1>2, <1>3

\* The steps inside the edit lock.
LEMMA WriteKeeps ==
  ASSUME EditsInv, NEW s \in Sessions, ReadFile(s) \/ Compare(s) \/ Replace(s) \/ WriteFails(s)
  PROVE  EditsInv'
<1> USE WatchlistEditsAssumption DEF EditsInv, plans, locks, Sessions
<1>1. CASE ReadFile(s)
  <2>1. CASE pc' = [pc EXCEPT ![s] = "comparing"] /\ seen' = [seen EXCEPT ![s] = file] /\ UNCHANGED <<locks, result>>
    <3>1. Typed'
      BY <1>1, <2>1 DEF ReadFile, Typed, Places, Inside
    <3>2. LocksFit' /\ NotStale'
      BY <1>1, <2>1 DEF ReadFile, LocksFit, NotStale, Typed, Inside
    <3>3. CatalogStands' /\ DraftFits'
      BY <1>1, <2>1 DEF ReadFile, CatalogStands, DraftFits, Typed, Inside
    <3> QED
      BY <3>1, <3>2, <3>3
  <2>2. CASE pc' = [pc EXCEPT ![s] = "idle"] /\ Results(s, "failed") /\ LeaveLocks(s) /\ UNCHANGED seen
    BY <1>1, <2>2, GiveUpKeeps DEF ReadFile, Inside
  <2> QED
    BY <1>1, <2>1, <2>2 DEF ReadFile
<1>2. CASE Compare(s)
  <2>1. CASE Same(s) /\ pc' = [pc EXCEPT ![s] = "replacing"] /\ UNCHANGED <<locks, result>>
    <3>1. Typed'
      BY <1>2, <2>1 DEF Compare, Typed, Places, Inside
    <3>2. LocksFit' /\ NotStale'
      BY <1>2, <2>1 DEF Compare, Same, LocksFit, NotStale, Typed, Inside
    <3>3. CatalogStands' /\ DraftFits'
      BY <1>2, <2>1 DEF Compare, CatalogStands, DraftFits, Typed, Inside
    <3> QED
      BY <3>1, <3>2, <3>3
  <2>2. CASE pc' = [pc EXCEPT ![s] = "idle"] /\ Results(s, "failed") /\ LeaveLocks(s)
    BY <1>2, <2>2, GiveUpKeeps DEF Compare, Inside
  <2> QED
    BY <1>2, <2>1, <2>2 DEF Compare
<1>3. CASE Replace(s)
  <2>0. file' \in Files /\ (s \in Registrars => \A g \in selected[s] : file'.targets[g] = On)
    BY <1>3, WrittenIsFile DEF Replace
  <2>1. seen' = [seen EXCEPT ![s] = file'] /\ editLock' = Nobody /\ pc[s] = "replacing"
    BY <1>3 DEF Replace
  <2>2. \A r \in Sessions : pc[r] = "replacing" => r = s
    BY <2>1 DEF LocksFit, Inside
  <2>3. CASE s \in Registrars
    <3>0. pc' = [pc EXCEPT ![s] = "written"] /\ saved' = [saved EXCEPT ![s] = @ \cup selected[s]] /\ UNCHANGED <<catalog, jobLock, plans, result>>
      BY <1>3, <2>3 DEF Replace
    <3>1. Typed'
      BY <2>0, <2>1, <2>3, <3>0 DEF Typed, Places
    <3>2. LocksFit'
      BY <2>1, <2>3, <3>0 DEF LocksFit, Typed, Inside
    <3>3. NotStale' /\ CatalogStands'
      BY <2>1, <2>2, <2>3, <3>0 DEF NotStale, CatalogStands, Typed, Inside
    <3>4. DraftFits'
      BY <2>0, <2>1, <2>3, <3>0 DEF DraftFits, Typed, Inside
    <3> QED
      BY <3>1, <3>2, <3>3, <3>4
  <2>4. CASE s \notin Registrars
    <3>0. pc' = [pc EXCEPT ![s] = "idle"] /\ Results(s, "saved") /\ UNCHANGED <<catalog, jobLock, plans, saved>>
      BY <1>3, <2>4 DEF Replace
    <3>1. Typed'
      BY <2>0, <2>1, <2>4, <3>0 DEF Typed, Places, Outcomes, Results
    <3>2. LocksFit'
      BY <2>1, <2>4, <3>0 DEF LocksFit, Typed, Inside
    <3>3. NotStale' /\ CatalogStands'
      BY <2>1, <2>2, <2>4, <3>0 DEF NotStale, CatalogStands, Typed, Inside
    <3>4. DraftFits'
      BY <2>1, <2>4, <3>0 DEF DraftFits, Typed, Inside, Results
    <3> QED
      BY <3>1, <3>2, <3>3, <3>4
  <2> QED
    BY <2>3, <2>4
<1>4. CASE WriteFails(s)
  BY <1>4, GiveUpKeeps DEF WriteFails, Inside
<1> QED
  BY <1>1, <1>2, <1>3, <1>4

LEMMA EditsInvariant == Spec => []EditsInv
<1>1. Init => EditsInv
  BY InitEditsInv
<1>2. EditsInv /\ [Next]_vars => EditsInv'
  <2> SUFFICES ASSUME EditsInv, [Next]_vars PROVE EditsInv'
    OBVIOUS
  <2>1. ASSUME NEW s \in Registrars, Register(s) PROVE EditsInv'
    BY <2>1, RegisterKeeps
  <2>2. ASSUME NEW s \in Switches \cup Marks, Show(s) PROVE EditsInv'
    BY <2>2, BeginKeeps, WatchlistEditsAssumption DEF Sessions
  <2>3. ASSUME NEW s \in Sessions \ Registrars, Act(s) PROVE EditsInv'
    BY <2>3, BeginKeeps
  <2>4. ASSUME NEW s \in Sessions, ReadFile(s) \/ Compare(s) \/ Replace(s) \/ WriteFails(s) PROVE EditsInv'
    BY <2>4, WriteKeeps
  <2>5. CASE HandEdit \/ Discover
    BY <2>5, WorldKeeps
  <2>6. CASE UNCHANGED vars
    BY <2>6 DEF vars, locks, plans, EditsInv, Typed, LocksFit, NotStale, CatalogStands, DraftFits
  <2> QED
    BY <2>1, <2>2, <2>3, <2>4, <2>5, <2>6 DEF Next
<1> QED
  BY <1>1, <1>2, PTL DEF Spec

-------------------------------------------------------------------------------
\* Whoever is inside a save holds what the step needs, and nobody outside holds
\* anything.
THEOREM WatchlistTypeCorrect == Spec => []TypeOK
<1>1. EditsInv => TypeOK
  BY DEF EditsInv, Typed, LocksFit, TypeOK, Inside, Outcomes, Files
<1> QED
  BY <1>1, EditsInvariant, PTL

\* A draft holds what its dialog began with less what it has written, no more and no
\* less; it is frozen exactly while nobody knows how its save ended.
THEOREM WatchlistDraftIsTheRest == Spec => []DraftIsTheRest
<1>1. EditsInv => DraftIsTheRest
  <2> SUFFICES ASSUME EditsInv, NEW s \in Registrars
               PROVE  LET earlier == IF pc[s] \in {"written", "retaining", "frozen"}
                                     THEN saved[s] \ selected[s] ELSE saved[s]
                      IN /\ draft[s] = offered[s] \ earlier
                         /\ pc[s] \in {"written", "retaining", "frozen"} => selected[s] \subseteq saved[s]
                         /\ (result[s] = "unverified") <=> (pc[s] = "frozen")
                         /\ pc[s] = "retaining" => \A g \in selected[s] : seen[s].targets[g] = On
    BY DEF DraftIsTheRest
  <2>1. pc[s] \in Places
    BY DEF EditsInv, Typed, Sessions
  <2>2. CASE pc[s] \in {"written", "retaining", "frozen"}
    BY <2>2 DEF EditsInv, DraftFits
  <2>3. CASE pc[s] \in {"idle", "shown", "checking"} \cup Inside
    BY <2>3 DEF EditsInv, DraftFits, Inside
  <2> QED
    BY <2>1, <2>2, <2>3 DEF Places
<1> QED
  BY <1>1, EditsInvariant, PTL

\* A registration is written on the Catalog its preview was made of.
THEOREM WatchlistWrittenAsPreviewed == Spec => WrittenAsPreviewed
<1>1. EditsInv => \A s \in Registrars : saved'[s] # saved[s] /\ pc[s] = "replacing" => catalog = shownCatalog[s]
  BY DEF EditsInv, CatalogStands, Inside
<1> QED
  BY <1>1, EditsInvariant, PTL DEF WrittenAsPreviewed

\* The one write that can take place while a session is replacing the file is its
\* own, of the file it has read.
LEMMA OnlyOwnWrite ==
  ASSUME HandEditsRace = FALSE, EditsInv, [Next]_vars, NEW s \in Sessions, pc[s] = "replacing", file' # file
  PROVE  file = seen[s] /\ file' = Written(s)
<1>1. file = seen[s]
  BY DEF EditsInv, NotStale
<1>2. \A r \in Sessions : pc[r] = "replacing" => r = s
  BY DEF EditsInv, LocksFit, Inside
<1>3. PICK r \in Sessions : Replace(r)
  BY DEF Next, vars, Register, PreviewDraft, Reopen, BeginSave, Recheck, ReadBack, Retain, ReadBackFails,
     Show, Act, ReadFile, Compare, WriteFails, Discover, HandEdit
<1> QED
  BY <1>1, <1>2, <1>3 DEF Replace

\* Without a race of a text editor, a write changes the part it means to change,
\* from the state it was asked to change it from.
THEOREM WatchlistNothingUndone == ASSUME HandEditsRace = FALSE PROVE Spec => NothingUndone
<1>1. ASSUME EditsInv, [Next]_vars, NEW s \in Sessions, pc[s] = "replacing", file' # file
      PROVE  /\ file'.text = file.text
             /\ \A k \in Keys : file'.targets[k] # file.targets[k] =>
                  k \in (IF s \in Registrars THEN selected[s] ELSE {Held}) /\ file.targets[k] = seen[s].targets[k]
             /\ file'.archived # file.archived => s \in Marks
  <2>1. file = seen[s] /\ file' = Written(s) /\ file \in Files
    BY <1>1, OnlyOwnWrite DEF EditsInv, Typed
  <2> QED
    BY <1>1, <2>1 DEF Written, Files, Without, Sessions
<1>2. EditsInv /\ [Next]_vars =>
        [\A s \in Sessions : pc[s] = "replacing" /\ file' # file =>
           /\ file'.text = file.text
           /\ \A k \in Keys : file'.targets[k] # file.targets[k] =>
                k \in (IF s \in Registrars THEN selected[s] ELSE {Held}) /\ file.targets[k] = seen[s].targets[k]
           /\ file'.archived # file.archived => s \in Marks]_file
  BY <1>1
<1> QED
  BY <1>2, EditsInvariant, PTL DEF Spec, NothingUndone

\* And in a conflict nothing is saved.
THEOREM WatchlistConflictIsNotSaved == ASSUME HandEditsRace = FALSE PROVE Spec => ConflictIsNotSaved
<1>1. ASSUME EditsInv, [Next]_vars, NEW s \in Sessions, pc[s] = "replacing", file' # file
      PROVE  file = seen[s]
  BY <1>1, OnlyOwnWrite
<1>2. EditsInv /\ [Next]_vars =>
        [\A s \in Sessions : pc[s] = "replacing" /\ file' # file /\ pc'[s] # "replacing" => file = seen[s]]_file
  BY <1>1
<1> QED
  BY <1>2, EditsInvariant, PTL DEF Spec, ConflictIsNotSaved

-----------------------------------------------------------------------------
(* The page (WatchlistEditor).                                               *)

Kinds == {"preview", "save", "sync", "apply", "reload", "listing"}

\* The page waits where it is while it has a thread; a thread that was overtaken is
\* no longer the current one; a save writes what the fields held.
WorkerFits ==
  Busy =>
    /\ worker = [kind |-> worker.kind, step |-> worker.step, current |-> worker.current,
                 overtaken |-> worker.overtaken, of |-> worker.of, found |-> worker.found]
    /\ worker.kind \in Kinds /\ worker.current \in BOOLEAN /\ worker.overtaken \in BOOLEAN
    /\ worker.current => ~worker.overtaken
    /\ at = "idle"
    /\ worker.kind = "save" => worker.of.proposal \in Contents

\* What the main window has read and what its switch has written.
WindowFits ==
  /\ load # None /\ load.kind = "read" => load.watch \in Contents
  /\ toggle # None /\ toggle.kind = "saving" => toggle.key \in PageKeys
  /\ toggle # None /\ toggle.kind \in {"done", "unverified"} => toggle.watch \in Contents

\* A baseline that was read anew is also what the fields hold.
SettlesFit == at \in {"reloading", "opening", "discarding"} => ~dirty /\ fields = targets

PageTyped == PageTypeOK /\ WorkerFits /\ WindowFits /\ SettlesFit /\ NotRevived

\* Between its handlers the page saves against what it shows; while it is about to
\* read the revision, nothing has been written since it read what it shows.
BaselineFits ==
  /\ at \in {"idle", "asking", "closed"} => targets = revision
  /\ at \in {"saved", "reloading", "opening", "discarding"} => targets = pageFile

\* A save goes out against what is shown, knows whether it changes what is selected,
\* and has the Catalog of its preview once it holds the job lock.
SaveFits ==
  Busy /\ worker.kind = "save" =>
    /\ worker.step \in {"begun", "locked"} =>
         worker.of.against = targets /\ (worker.of.affects <=> Affects(worker.of.proposal, targets))
    /\ worker.step = "locked" /\ worker.of.affects => pageCatalog = worker.of.catalog
    /\ worker.step = "done" => pageFile = worker.of.proposal

\* Whether the main window saves is a truth value.
LEMMA SavingIsBoolean == PageTypeOK => Saving \in BOOLEAN /\ (toggle # None) \in BOOLEAN
BY Zenon DEF PageTypeOK, Saving

\* So is what the page is told.
LEMMA ToldIsBoolean == ASSUME NEW saving \in BOOLEAN, Told(saving) PROVE active' \in BOOLEAN
<1>1. active' = TRUE \/ active' = saving
  BY DEF Told
<1> QED
  BY <1>1, Zenon

\* A thread that is started fits (_start_worker).
LEMMA StartedFits ==
  ASSUME NEW kind \in Kinds, NEW of, Starts(kind, of), at' = "idle", kind = "save" => of.proposal \in Contents
  PROVE  /\ WorkerFits' /\ Busy'
         /\ worker'.kind = kind /\ worker'.of = of /\ worker'.step = "begun" /\ worker'.current
BY DEF Starts, WorkerFits, Busy, NoWorker, None, Kinds

\* A thread that goes on keeps what it was started with.
LEMMA GoneFits ==
  ASSUME NEW step, NEW found, WorkerFits, Busy, ThreadGoes(step, found), at' = at
  PROVE  /\ WorkerFits' /\ Busy'
         /\ worker'.kind = worker.kind /\ worker'.of = worker.of /\ worker'.step = step
         /\ worker'.current = worker.current
<1> DEFINE w == [kind |-> worker.kind, step |-> worker.step, current |-> worker.current,
                 overtaken |-> worker.overtaken, of |-> worker.of, found |-> worker.found]
<1>1. worker = w
  BY DEF WorkerFits
<1>2. worker' = [kind |-> worker.kind, step |-> step, current |-> worker.current,
                 overtaken |-> worker.overtaken, of |-> worker.of, found |-> found]
  <2>1. worker' = [w EXCEPT !.step = step, !.found = found]
    BY <1>1 DEF ThreadGoes
  <2> QED
    BY <2>1
<1> QED
  BY <1>2 DEF WorkerFits, Busy, NoWorker, None, Kinds

\* A thread that is overtaken goes on; a save is not (receive_snapshot).
LEMMA OvertakenFits ==
  ASSUME WorkerFits, worker' = Overtakes(worker), at' = at
  PROVE  /\ WorkerFits' /\ (Busy' <=> Busy)
         /\ Busy => worker'.kind = worker.kind /\ worker'.of = worker.of /\ worker'.step = worker.step
         /\ Busy /\ worker.kind = "save" => worker'.current = worker.current
<1>1. CASE ~Busy
  BY <1>1 DEF Overtakes, Busy, WorkerFits
<1>2. CASE Busy /\ worker.kind \notin {"preview", "sync", "apply"}
  <2>1. worker' = worker
    BY <1>2 DEF Overtakes, Busy
  <2> QED
    BY <1>2, <2>1 DEF WorkerFits, Busy
<1>3. CASE Busy /\ worker.kind \in {"preview", "sync", "apply"}
  <2> DEFINE w == [kind |-> worker.kind, step |-> worker.step, current |-> worker.current,
                   overtaken |-> worker.overtaken, of |-> worker.of, found |-> worker.found]
  <2>1. worker = w
    BY <1>3 DEF WorkerFits
  <2>2. worker' = [w EXCEPT !.current = FALSE, !.overtaken = TRUE]
    BY <1>3, <2>1 DEF Overtakes, Busy
  <2>3. worker' = [kind |-> worker.kind, step |-> worker.step, current |-> FALSE,
                   overtaken |-> TRUE, of |-> worker.of, found |-> worker.found]
    BY <2>2
  <2>4. /\ worker'.kind = worker.kind /\ worker'.of = worker.of /\ worker'.step = worker.step
        /\ worker'.current = FALSE /\ worker'.overtaken = TRUE /\ worker'.found = worker.found
    BY <2>3
  <2>5. Busy'
    BY <1>3, <2>4 DEF Busy, NoWorker, None
  <2>6. WorkerFits'
    BY <1>3, <2>3, <2>4 DEF WorkerFits, Kinds
  <2> QED
    BY <1>3, <2>4, <2>5, <2>6
<1> QED
  BY <1>1, <1>2, <1>3

\* What the main window has read stays readable when it is asked to reload.
LEMMA AskedFits ==
  ASSUME PageTypeOK, WindowFits, AsksReload
  PROVE  WindowFits' /\ mainWatch' \in Contents /\ stale' \in BOOLEAN /\ again' \in BOOLEAN /\ refresh' \in BOOLEAN
<1>1. CASE toggle # None \/ load # None
  BY <1>1 DEF PageTypeOK, WindowFits, AsksReload
<1>2. CASE ~(toggle # None \/ load # None)
  BY <1>2 DEF PageTypeOK, WindowFits, AsksReload
<1> QED
  BY <1>1, <1>2

\* A Watchlist with one field changed is one.
LEMMA ChangedText ==
  ASSUME NEW c \in Contents, NEW k \in PageKeys, NEW t \in Texts
  PROVE  [c EXCEPT ![k].text = t] \in Contents /\ [c EXCEPT ![k].scope = t] \in Contents
BY DEF Contents, Targets, Texts

\* The same of a field that is turned over.
LEMMA Flipped ==
  ASSUME NEW c \in Contents, NEW k \in PageKeys
  PROVE  /\ 1 - c[k].scope \in Texts
         /\ [c EXCEPT ![k].text = 1 - c[k].text] \in Contents
         /\ [c EXCEPT ![k].scope = 1 - c[k].scope] \in Contents
<1>1. c[k].text \in {0, 1} /\ c[k].scope \in {0, 1}
  BY DEF Contents, Targets, Texts
<1>2. 1 - c[k].text \in Texts /\ 1 - c[k].scope \in Texts
  BY <1>1 DEF Texts
<1> QED
  BY <1>2, ChangedText

\* The same of every key of the Work (_move_archive_order).
LEMMA FlippedAll ==
  ASSUME NEW c \in Contents
  PROVE  [k \in PageKeys |-> [c[k] EXCEPT !.scope = 1 - c[k].scope]] \in Contents
<1>1. \A k \in PageKeys : 1 - c[k].scope \in {0, 1} /\ c[k] \in Targets
  BY Flipped DEF Texts, Contents
<1>2. \A k \in PageKeys : [c[k] EXCEPT !.scope = 1 - c[k].scope] \in Targets
  BY <1>1 DEF Targets
<1> QED
  BY <1>2 DEF Contents

\* Every step keeps the thread; actions that touch neither it nor the page's place are
\* the first case.
LEMMA WorkerStep == PageTyped /\ [PageNext]_pageVars => WorkerFits'
<1> SUFFICES ASSUME PageTyped, [PageNext]_pageVars PROVE WorkerFits'
  OBVIOUS
<1> USE DEF PageTyped, WorkerFits, Busy, world, page, main, baseline, previews
<1>1. CASE UNCHANGED <<at, worker>>
  BY <1>1
<1>2. CASE Discard
  BY <1>2 DEF Discard, Ready, Busy, Rereads
<1>3. CASE Preview
  <2>1. CASE Starts("preview", fields)
    BY <1>3, <2>1, StartedFits DEF Preview, Editable, Ready, Kinds
  <2>2. CASE worker' = worker
    BY <1>3, <2>2 DEF Preview, PageTyped, WorkerFits, Busy
  <2> QED
    BY <1>3, <2>1, <2>2 DEF Preview
<1>4. CASE PreviewReads
  <2>1. Busy /\ ThreadGoes("done", pageCatalog) /\ at' = at
    BY <1>4 DEF PreviewReads, Is, page
  <2> QED
    BY <2>1, GoneFits DEF PageTyped
<1>5. CASE PreviewArrives
  BY <1>5 DEF PreviewArrives, Busy
<1>6. CASE Save
  <2> DEFINE of == [proposal |-> fields, against |-> revision, affects |-> Affects(fields, targets),
                    stamp |-> guard, catalog |-> IF Affects(fields, targets) THEN scopePreview.catalog ELSE 0]
  <2>1. Starts("save", of) /\ at' = "idle" /\ of.proposal \in Contents
    BY <1>6 DEF Save, Editable, Ready, PageTyped, PageTypeOK
  <2> HIDE DEF of
  <2> QED
    BY <2>1, StartedFits DEF Kinds
<1>7. CASE SaveEnters
  <2>1. Busy /\ ThreadGoes("locked", None) /\ at' = at
    BY <1>7 DEF SaveEnters, Is, page
  <2> QED
    BY <2>1, GoneFits DEF PageTyped
<1>8. CASE SaveWrites
  <2>1. PICK step \in {"done", "failed"} : ThreadGoes(step, None)
    BY <1>8 DEF SaveWrites
  <2> QED
    BY <1>8, <2>1, GoneFits DEF SaveWrites, PageTyped, Is
<1>9. CASE SaveArrives
  <2>1. Busy /\ (worker' = NoWorker \/ (ThreadGoes("dropped", None) /\ at' = at))
    BY <1>9 DEF SaveArrives, Is, Receives, Overtakes
  <2> QED
    BY <2>1, GoneFits DEF PageTyped, WorkerFits, Busy
<1>10. CASE SaveSettles
  BY <1>10 DEF SaveSettles, Busy
<1>11. CASE Reload
  BY <1>11 DEF Reload, Ready, Busy, Rereads
<1>12. CASE ReloadSettles
  <2>1. Starts("reload", None) /\ at' = "idle"
    BY <1>12 DEF ReloadSettles, Editable, Ready
  <2> QED
    BY <2>1, StartedFits DEF Kinds
<1>13. CASE ReloadReads
  <2>1. Busy /\ ThreadGoes("done", pageCatalog) /\ at' = at
    BY <1>13 DEF ReloadReads, Is, page
  <2> QED
    BY <2>1, GoneFits DEF PageTyped
<1>14. CASE ReloadArrives
  <2>1. Busy /\ (worker' = NoWorker \/ (ThreadGoes("dropped", None) /\ at' = at))
    BY <1>14 DEF ReloadArrives, Is, Receives, Overtakes
  <2> QED
    BY <2>1, GoneFits DEF PageTyped, WorkerFits, Busy
<1>15. CASE Sync
  <2>1. Starts("sync", None) /\ at' = "idle"
    BY <1>15 DEF Sync, Editable, Ready
  <2> QED
    BY <2>1, StartedFits DEF Kinds
<1>16. CASE SyncReads
  <2>1. Busy /\ ThreadGoes("done", [watch |-> pageFile, catalog |-> pageCatalog]) /\ at' = at
    BY <1>16 DEF SyncReads, Is, page
  <2> QED
    BY <2>1, GoneFits DEF PageTyped
<1>17. CASE SyncArrives
  BY <1>17 DEF SyncArrives, Busy
<1>18. CASE Asks
  BY <1>18 DEF Asks, Busy, MayApply
<1>19. CASE Answered
  <2>1. CASE Starts("apply", syncPreview)
    BY <1>19, <2>1, StartedFits DEF Answered, Kinds
  <2>2. CASE worker' = worker
    BY <1>19, <2>2 DEF Answered, PageTyped, WorkerFits, Busy
  <2> QED
    BY <1>19, <2>1, <2>2 DEF Answered
<1>20. CASE ApplyEnters
  <2>1. Busy /\ ThreadGoes("locked", None) /\ at' = at
    BY <1>20 DEF ApplyEnters, Is, page
  <2> QED
    BY <2>1, GoneFits DEF PageTyped
<1>21. CASE ApplyWrites
  <2>1. PICK step \in {"done", "failed"} : ThreadGoes(step, None)
    BY <1>21 DEF ApplyWrites
  <2> QED
    BY <1>21, <2>1, GoneFits DEF ApplyWrites, PageTyped, Is
<1>22. CASE ApplyArrives
  BY <1>22 DEF ApplyArrives, Busy, Rereads
<1>23. CASE Fetch
  <2>1. PICK full : Starts("listing", [full |-> full]) /\ at' = "idle"
    BY <1>23 DEF Fetch, Editable, Ready
  <2> QED
    BY <2>1, StartedFits DEF Kinds
<1>24. CASE Fetched
  <2>1. Busy /\ (worker' = NoWorker \/ (ThreadGoes("dropped", None) /\ at' = at))
    BY <1>24 DEF Fetched, Is, Receives, Overtakes
  <2> QED
    BY <2>1, GoneFits DEF PageTyped, WorkerFits, Busy
<1>25. CASE ThreadFails
  <2>1. Busy /\ ThreadGoes("failed", None) /\ at' = at
    BY <1>25 DEF ThreadFails, Is, page
  <2> QED
    BY <2>1, GoneFits DEF PageTyped
<1>26. CASE FailureArrives
  BY <1>26 DEF FailureArrives, Busy
<1>27. CASE DiscardSettles
  BY <1>27 DEF DiscardSettles, Busy
<1>28. CASE Close
  BY <1>28 DEF Close, Ready, Busy
<1>29. CASE MainReload
  BY <1>29 DEF MainReload, AsksReload
<1>30. CASE LoadArrives
  <2>1. (worker' = worker \/ worker' = Overtakes(worker)) /\ at' = at
    BY <1>30 DEF LoadArrives, Receives
  <2> QED
    BY <2>1, OvertakenFits DEF PageTyped, WorkerFits, Busy
<1>31. CASE ToggleArrives
  <2>1. (worker' = worker \/ worker' = Overtakes(worker)) /\ at' = at
    BY <1>31 DEF ToggleArrives, Receives
  <2> QED
    BY <2>1, OvertakenFits DEF PageTyped, WorkerFits, Busy
<1>32. CASE Open
  BY <1>32 DEF Open, Busy
<1> QED
  BY <1>1, <1>2, <1>3, <1>4, <1>5, <1>6, <1>7, <1>8, <1>9, <1>10, <1>11, <1>12, <1>13,
     <1>14, <1>15, <1>16, <1>17, <1>18, <1>19, <1>20, <1>21, <1>22, <1>23, <1>24, <1>25,
     <1>26, <1>27, <1>28, <1>29, <1>30, <1>31, <1>32
  DEF pageVars, PageNext, Operator, Threads, Arrivals, Handlers, Window, OtherWrites,
      CatalogChanges, JobWrites, Edit, Reorder, Rereads, Poll, AsksReload, LoadReads,
      LoadFails, Toggle, ToggleWrites, ToggleFails

\* Every step keeps the types.
LEMMA PageTypesStep == PageTyped /\ [PageNext]_pageVars /\ WorkerFits' => PageTypeOK'
<1> SUFFICES ASSUME PageTyped, [PageNext]_pageVars, WorkerFits' PROVE PageTypeOK'
  OBVIOUS
<1>0. Busy' => worker'.kind \in {"preview", "save", "sync", "apply", "reload", "listing"}
  BY DEF WorkerFits, Kinds
<1> USE DEF PageTyped, PageTypeOK, SettlesFit, GuiFree, world, page, main, baseline, previews
<1>1. CASE UNCHANGED <<pageFile, targets, revision, fields, mainWatch, at, dirty, active, stale, again, refresh>>
  BY <1>1, <1>0
<1>2. CASE OtherWrites
  <2>1. PICK k \in PageKeys, t \in Texts : pageFile' = [pageFile EXCEPT ![k].text = t]
    BY <1>2 DEF OtherWrites
  <2>2. pageFile' \in Contents
    BY <2>1, ChangedText
  <2> QED
    BY <1>0, <1>2, <2>2 DEF OtherWrites
<1>3. CASE Edit
  <2>1. fields' = [fields EXCEPT ![Mine].text = 1 - fields[Mine].text]
        \/ fields' = [fields EXCEPT ![Mine].scope = 1 - fields[Mine].scope]
    BY <1>3 DEF Edit
  <2>2. fields' \in Contents
    BY <2>1, Flipped, WatchlistEditorAssumption
  <2> QED
    BY <1>0, <1>3, <2>2 DEF Edit
<1>4. CASE Reorder
  <2>1. fields' \in Contents
    BY <1>4, FlippedAll DEF Reorder
  <2> QED
    BY <1>0, <1>4, <2>1 DEF Reorder
<1>5. CASE Discard
  BY <1>5, <1>0 DEF Discard
<1>6. CASE SaveWrites
  <2>1. pageFile' \in Contents
    BY <1>6 DEF SaveWrites, Is, WorkerFits
  <2> QED
    BY <1>0, <1>6, <2>1 DEF SaveWrites
<1>7. CASE SaveArrives
  <2>1. at' \in {"saved", "idle"} /\ targets' \in Contents /\ ((at' = at /\ targets' = targets) \/ at' = "saved")
    BY <1>7 DEF SaveArrives, Is, WorkerFits
  <2> QED
    BY <1>0, <1>7, <2>1 DEF SaveArrives
<1>8. CASE SaveSettles
  <2>1. mainWatch' \in Contents /\ stale' \in BOOLEAN /\ again' \in BOOLEAN /\ refresh' \in BOOLEAN
    BY <1>8, AskedFits DEF SaveSettles
  <2> QED
    BY <1>0, <1>8, <2>1 DEF SaveSettles
<1>9. CASE Reload
  BY <1>9, <1>0 DEF Reload, Rereads
<1>10. CASE ReloadSettles
  BY <1>10, <1>0 DEF ReloadSettles
<1>11. CASE ReloadArrives
  <2>1. mainWatch' \in Contents /\ stale' \in BOOLEAN /\ again' \in BOOLEAN /\ refresh' \in BOOLEAN
    BY <1>11, AskedFits DEF ReloadArrives
  <2> QED
    BY <1>0, <1>11, <2>1 DEF ReloadArrives, Receives
<1>12. CASE Asks
  BY <1>12, <1>0 DEF Asks
<1>13. CASE Answered
  BY <1>13, <1>0 DEF Answered
<1>14. CASE ApplyArrives
  <2>1. mainWatch' \in Contents /\ stale' \in BOOLEAN /\ again' \in BOOLEAN /\ refresh' \in BOOLEAN
    BY <1>14, AskedFits DEF ApplyArrives
  <2> QED
    BY <1>0, <1>14, <2>1 DEF ApplyArrives, Rereads
<1>15. CASE Fetched
  <2>1. mainWatch' \in Contents /\ stale' \in BOOLEAN /\ again' \in BOOLEAN /\ refresh' \in BOOLEAN
    BY <1>15, AskedFits DEF Fetched
  <2> QED
    BY <1>0, <1>15, <2>1 DEF Fetched, Receives
<1>16. CASE DiscardSettles
  BY <1>16, <1>0 DEF DiscardSettles
<1>17. CASE Close
  BY <1>17, <1>0 DEF Close, Ready
<1>18. CASE Poll
  <2>1. active' \in BOOLEAN
    BY <1>18, SavingIsBoolean, ToldIsBoolean DEF Poll
  <2> QED
    BY <1>0, <1>18, <2>1 DEF Poll
<1>19. CASE MainReload
  <2>1. mainWatch' \in Contents /\ stale' \in BOOLEAN /\ again' \in BOOLEAN /\ refresh' \in BOOLEAN
    BY <1>19, AskedFits DEF MainReload
  <2> QED
    BY <1>0, <1>19, <2>1 DEF MainReload
<1>20. CASE LoadArrives
  <2>1. active' \in BOOLEAN
    BY <1>20, SavingIsBoolean, ToldIsBoolean DEF LoadArrives
  <2>2. load.watch \in Contents
    BY <1>20 DEF LoadArrives, WindowFits
  <2>3. again' \in BOOLEAN /\ refresh' \in BOOLEAN /\ stale' \in BOOLEAN /\ mainWatch' \in Contents
    BY <1>20, <2>2 DEF LoadArrives
  <2>4. UNCHANGED <<targets, revision, fields>> \/ (targets' = load.watch /\ revision' = load.watch /\ fields' = load.watch)
    BY <1>20 DEF LoadArrives, Accepts
  <2> QED
    BY <1>0, <1>20, <2>1, <2>2, <2>3, <2>4 DEF LoadArrives
<1>21. CASE LoadFails
  <2>1. active' \in BOOLEAN
    BY <1>21, SavingIsBoolean, ToldIsBoolean DEF LoadFails
  <2>2. again' \in BOOLEAN /\ refresh' \in BOOLEAN /\ stale' \in BOOLEAN
    BY <1>21 DEF LoadFails
  <2> QED
    BY <1>0, <1>21, <2>1, <2>2 DEF LoadFails
<1>22. CASE Toggle
  BY <1>22, <1>0 DEF Toggle
<1>23. CASE ToggleWrites
  <2>1. UNCHANGED <<page, mainWatch, stale, again, refresh>>
    BY <1>23 DEF ToggleWrites
  <2>2. pageFile' \in Contents
    <3>1. toggle.key \in PageKeys
      BY <1>23 DEF ToggleWrites, WindowFits
    <3>2. pageFile' = pageFile \/ pageFile' = [pageFile EXCEPT ![toggle.key].text = 1 - pageFile[toggle.key].text]
      BY <1>23 DEF ToggleWrites
    <3> QED
      BY <3>1, <3>2, Flipped DEF PageTyped, PageTypeOK
  <2> QED
    BY <1>0, <1>23, <2>1, <2>2
<1>24. CASE ToggleArrives
  <2>1. toggle.watch \in Contents
    BY <1>24 DEF ToggleArrives, WindowFits
  <2>2. UNCHANGED <<targets, revision, fields>> \/ (targets' = toggle.watch /\ revision' = toggle.watch /\ fields' = toggle.watch)
    BY <1>24 DEF ToggleArrives, Accepts
  <2>3. (toggle.kind = "unverified") \in BOOLEAN
    BY Zenon
  <2> QED
    BY <1>0, <1>24, <2>1, <2>2, <2>3 DEF ToggleArrives
<1>25. CASE ToggleFails
  <2>1. active' \in BOOLEAN
    BY <1>25, ToldIsBoolean DEF ToggleFails
  <2> QED
    BY <1>0, <1>25, <2>1 DEF ToggleFails
<1>26. CASE Open
  BY <1>26, <1>0 DEF Open
<1> QED
  BY <1>1, <1>2, <1>3, <1>4, <1>5, <1>6, <1>7, <1>8, <1>9, <1>10, <1>11, <1>12, <1>13,
     <1>14, <1>15, <1>16, <1>17, <1>18, <1>19, <1>20, <1>21, <1>22, <1>23, <1>24, <1>25,
     <1>26
  DEF pageVars, PageNext, Operator, Threads, Arrivals, Handlers, Window, CatalogChanges,
      JobWrites, Preview, PreviewReads, PreviewArrives, Save, SaveEnters, Rereads,
      ReloadReads, Sync, SyncReads, SyncArrives, ApplyEnters, ApplyWrites, Fetch,
      ThreadFails, FailureArrives, AsksReload, LoadReads

\* Every step keeps what the main window has read and written.
LEMMA WindowStep == PageTyped /\ [PageNext]_pageVars => WindowFits'
<1> SUFFICES ASSUME PageTyped, [PageNext]_pageVars PROVE WindowFits'
  OBVIOUS
<1> USE DEF PageTyped, WindowFits, None, world, page, main, baseline, previews
<1>1. CASE UNCHANGED <<load, toggle>>
  BY <1>1
<1>2. CASE SaveSettles
  BY <1>2, AskedFits DEF SaveSettles
<1>3. CASE ReloadArrives
  BY <1>3, AskedFits DEF ReloadArrives
<1>4. CASE ApplyArrives
  BY <1>4, AskedFits DEF ApplyArrives
<1>5. CASE Fetched
  BY <1>5, AskedFits DEF Fetched
<1>6. CASE MainReload
  BY <1>6, AskedFits DEF MainReload
<1>7. CASE LoadReads
  BY <1>7 DEF LoadReads, PageTypeOK
<1>8. CASE LoadArrives
  BY <1>8 DEF LoadArrives
<1>9. CASE LoadFails
  BY <1>9 DEF LoadFails
<1>10. CASE Toggle
  BY <1>10 DEF Toggle
<1>11. CASE ToggleWrites
  <2>1. pageFile' \in Contents
    BY <1>11, PageTypesStep, WorkerStep DEF PageTypeOK
  <2> QED
    BY <1>11, <2>1 DEF ToggleWrites
<1>12. CASE ToggleArrives
  BY <1>12 DEF ToggleArrives
<1>13. CASE ToggleFails
  BY <1>13 DEF ToggleFails
<1> QED
  BY <1>1, <1>2, <1>3, <1>4, <1>5, <1>6, <1>7, <1>8, <1>9, <1>10, <1>11, <1>12, <1>13
  DEF pageVars, PageNext, Operator, Threads, Arrivals, Handlers, Window, OtherWrites,
      CatalogChanges, JobWrites, Edit, Reorder, Discard, Preview, PreviewReads,
      PreviewArrives, Save, SaveEnters, SaveWrites, SaveArrives, Reload, Rereads,
      ReloadSettles, ReloadReads, Sync, SyncReads, SyncArrives, Asks, Answered,
      ApplyEnters, ApplyWrites, Fetch, ThreadFails, FailureArrives, DiscardSettles,
      Close, Poll, AsksReload, Open

\* Every step keeps what was read anew.
LEMMA SettlesStep == PageTyped /\ [PageNext]_pageVars => SettlesFit'
<1> SUFFICES ASSUME PageTyped, [PageNext]_pageVars PROVE SettlesFit'
  OBVIOUS
<1> USE DEF PageTyped, SettlesFit, PageTypeOK, world, page, main, baseline, previews
<1>1. CASE UNCHANGED <<at, dirty, fields, targets>>
  BY <1>1
<1>2. CASE Edit
  BY <1>2 DEF Edit, Editable, Ready
<1>3. CASE Reorder
  BY <1>3 DEF Reorder, Editable, Ready
<1>4. CASE Discard
  BY <1>4 DEF Discard, Busy
<1>5. CASE Preview
  BY <1>5 DEF Preview, Editable, Ready
<1>6. CASE Save
  BY <1>6 DEF Save, Editable, Ready
<1>7. CASE SaveArrives
  BY <1>7 DEF SaveArrives, Is, WorkerFits, Busy
<1>8. CASE SaveSettles
  BY <1>8 DEF SaveSettles
<1>9. CASE Reload
  BY <1>9 DEF Reload, Rereads
<1>10. CASE ReloadSettles
  BY <1>10 DEF ReloadSettles
<1>11. CASE Sync
  BY <1>11 DEF Sync, Editable, Ready
<1>12. CASE Asks
  BY <1>12 DEF Asks
<1>13. CASE Answered
  BY <1>13 DEF Answered
<1>14. CASE ApplyArrives
  BY <1>14 DEF ApplyArrives, Rereads
<1>15. CASE Fetch
  BY <1>15 DEF Fetch, Editable, Ready
<1>16. CASE DiscardSettles
  BY <1>16 DEF DiscardSettles
<1>17. CASE Close
  BY <1>17 DEF Close, Ready
<1>18. CASE LoadArrives
  BY <1>18 DEF LoadArrives, GuiFree, Accepts
<1>19. CASE ToggleArrives
  BY <1>19 DEF ToggleArrives, GuiFree, Accepts
<1>20. CASE Open
  BY <1>20 DEF Open, Busy
<1> QED
  BY <1>1, <1>2, <1>3, <1>4, <1>5, <1>6, <1>7, <1>8, <1>9, <1>10, <1>11, <1>12, <1>13,
     <1>14, <1>15, <1>16, <1>17, <1>18, <1>19, <1>20
  DEF pageVars, PageNext, Operator, Threads, Arrivals, Handlers, Window, OtherWrites,
      CatalogChanges, JobWrites, PreviewReads, PreviewArrives, SaveEnters, SaveWrites,
      Rereads, ReloadReads, ReloadArrives, SyncReads, SyncArrives, ApplyEnters,
      ApplyWrites, Fetched, ThreadFails, FailureArrives, Poll, AsksReload, MainReload,
      LoadReads, LoadFails, Toggle, ToggleWrites, ToggleFails

\* No step brings a cleared preview back: the one that would set it asks whether the
\* thread is still current.
LEMMA RevivedStep == PageTyped /\ [PageNext]_pageVars => NotRevived'
<1> SUFFICES ASSUME PageTyped, [PageNext]_pageVars PROVE NotRevived'
  OBVIOUS
<1> USE DEF PageTyped, NotRevived, world, page, main, baseline, previews
<1>1. CASE UNCHANGED <<scopePreview, syncPreview>>
  BY <1>1
<1>2. CASE Edit
  BY <1>2 DEF Edit, ForgetPreviews
<1>3. CASE Reorder
  BY <1>3 DEF Reorder, ForgetPreviews
<1>4. CASE Discard
  BY <1>4 DEF Discard, ForgetPreviews
<1>5. CASE Preview
  BY <1>5 DEF Preview
<1>6. CASE PreviewArrives
  <2>1. worker.current => ~worker.overtaken
    BY <1>6 DEF PreviewArrives, Is, WorkerFits
  <2> QED
    BY <1>6, <2>1 DEF PreviewArrives
<1>7. CASE SaveSettles
  BY <1>7 DEF SaveSettles, ForgetPreviews
<1>8. CASE Reload
  BY <1>8 DEF Reload, ForgetPreviews, Rereads
<1>9. CASE ReloadArrives
  BY <1>9 DEF ReloadArrives, Receives, ForgetPreviews
<1>10. CASE SyncArrives
  <2>1. worker.current => ~worker.overtaken
    BY <1>10 DEF SyncArrives, Is, WorkerFits
  <2> QED
    BY <1>10, <2>1 DEF SyncArrives
<1>11. CASE ApplyArrives
  BY <1>11 DEF ApplyArrives, Rereads, ForgetPreviews
<1>12. CASE FailureArrives
  BY <1>12 DEF FailureArrives
<1>13. CASE LoadArrives
  BY <1>13 DEF LoadArrives, Receives, ForgetPreviews
<1>14. CASE ToggleArrives
  BY <1>14 DEF ToggleArrives, Receives, ForgetPreviews
<1>15. CASE Open
  BY <1>15 DEF Open, ForgetPreviews
<1> QED
  BY <1>1, <1>2, <1>3, <1>4, <1>5, <1>6, <1>7, <1>8, <1>9, <1>10, <1>11, <1>12, <1>13,
     <1>14, <1>15
  DEF pageVars, PageNext, Operator, Threads, Arrivals, Handlers, Window, OtherWrites,
      CatalogChanges, JobWrites, PreviewReads, Save, SaveEnters, SaveWrites, SaveArrives,
      Rereads, ReloadSettles, ReloadReads, Sync, SyncReads, Asks, Answered, ApplyEnters,
      ApplyWrites, Fetch, Fetched, ThreadFails, DiscardSettles, Close, Poll, AsksReload,
      MainReload, LoadReads, LoadFails, Toggle, ToggleWrites, ToggleFails

\* Every step keeps the baseline, where nobody writes between two readings.
LEMMA BaselineStep == WritesBetweenReads = FALSE /\ PageTyped /\ SaveFits /\ BaselineFits /\ [PageNext]_pageVars => BaselineFits'
<1> SUFFICES ASSUME PageTyped, [PageNext]_pageVars, WritesBetweenReads = FALSE, SaveFits, BaselineFits PROVE BaselineFits'
  OBVIOUS
<1> USE DEF PageTyped, BaselineFits, world, page, main, baseline, previews
<1>1. CASE UNCHANGED <<at, targets, revision, pageFile>>
  BY <1>1
<1>2. CASE OtherWrites
  BY <1>2 DEF OtherWrites, HalfRead
<1>3. CASE Discard
  BY <1>3 DEF Discard, Ready
<1>4. CASE SaveWrites
  BY <1>4 DEF SaveWrites, Is, WorkerFits
<1>5. CASE SaveArrives
  BY <1>5 DEF SaveArrives, Is, SaveFits, WorkerFits
<1>6. CASE SaveSettles
  BY <1>6 DEF SaveSettles
<1>7. CASE Reload
  BY <1>7 DEF Reload, Rereads
<1>8. CASE ReloadSettles
  BY <1>8 DEF ReloadSettles
<1>9. CASE Asks
  BY <1>9 DEF Asks
<1>10. CASE Answered
  BY <1>10 DEF Answered
<1>11. CASE ApplyArrives
  BY <1>11 DEF ApplyArrives, Is, Rereads, WorkerFits
<1>12. CASE DiscardSettles
  BY <1>12 DEF DiscardSettles
<1>13. CASE Close
  BY <1>13 DEF Close, Ready
<1>14. CASE LoadArrives
  <2>1. UNCHANGED <<targets, revision>> \/ (targets' = load.watch /\ revision' = load.watch)
    BY <1>14 DEF LoadArrives, Accepts
  <2>2. at' = at /\ GuiFree /\ pageFile' = pageFile
    BY <1>14 DEF LoadArrives
  <2> QED
    BY <2>1, <2>2 DEF GuiFree
<1>15. CASE ToggleWrites
  BY <1>15 DEF ToggleWrites, HalfRead
<1>16. CASE ToggleArrives
  <2>1. UNCHANGED <<targets, revision>> \/ (targets' = toggle.watch /\ revision' = toggle.watch)
    BY <1>16 DEF ToggleArrives, Accepts
  <2>2. at' = at /\ GuiFree /\ pageFile' = pageFile
    BY <1>16 DEF ToggleArrives
  <2> QED
    BY <2>1, <2>2 DEF GuiFree
<1>17. CASE Open
  BY <1>17 DEF Open
<1> QED
  BY <1>1, <1>2, <1>3, <1>4, <1>5, <1>6, <1>7, <1>8, <1>9, <1>10, <1>11, <1>12, <1>13,
     <1>14, <1>15, <1>16, <1>17
  DEF pageVars, PageNext, Operator, Threads, Arrivals, Handlers, Window, CatalogChanges,
      JobWrites, Edit, Reorder, Preview, PreviewReads, PreviewArrives, Save, SaveEnters,
      Rereads, ReloadReads, ReloadArrives, Sync, SyncReads, SyncArrives, ApplyEnters,
      ApplyWrites, Fetch, Fetched, ThreadFails, FailureArrives, Poll, AsksReload,
      MainReload, LoadReads, LoadFails, Toggle, ToggleFails

\* Every step keeps what a save on its way stands on.
LEMMA SaveStep == WritesBetweenReads = FALSE /\ PageTyped /\ SaveFits /\ BaselineFits /\ [PageNext]_pageVars => SaveFits'
<1> SUFFICES ASSUME PageTyped, [PageNext]_pageVars, WritesBetweenReads = FALSE, SaveFits, BaselineFits PROVE SaveFits'
  OBVIOUS
<1> USE DEF PageTyped, SaveFits, Affects, world, page, main, baseline, previews
<1>1. CASE UNCHANGED <<worker, targets, pageFile, pageCatalog>>
  BY <1>1 DEF Busy
<1>2. CASE OtherWrites
  BY <1>2 DEF OtherWrites, HalfRead, Is, Busy
<1>3. CASE JobWrites
  BY <1>3 DEF JobWrites, HoldsJobLock, Is, Busy
<1>4. CASE Discard
  BY <1>4 DEF Discard, Ready, Busy
<1>5. CASE Preview
  <2>1. ~Busy /\ (worker' = worker \/ Starts("preview", fields))
    BY <1>5 DEF Preview, Editable, Ready
  <2> QED
    BY <2>1 DEF Starts, Busy
<1>6. CASE PreviewReads
  <2>1. Is("preview", worker.step) /\ ThreadGoes("done", pageCatalog) /\ at' = at
    BY <1>6 DEF PreviewReads, Is, page
  <2> QED
    BY <2>1, GoneFits DEF Is
<1>7. CASE PreviewArrives
  <2>1. ~(Busy' /\ worker'.kind = "save")
    BY <1>7 DEF PreviewArrives, Busy
  <2> QED
    BY <2>1
<1>8. CASE Save
  <2> DEFINE of == [proposal |-> fields, against |-> revision, affects |-> Affects(fields, targets),
                    stamp |-> guard, catalog |-> IF Affects(fields, targets) THEN scopePreview.catalog ELSE 0]
  <2>1. worker' = [kind |-> "save", step |-> "begun", current |-> TRUE, overtaken |-> FALSE, of |-> of, found |-> None]
        /\ targets = revision /\ targets' = targets
    BY <1>8 DEF Save, Starts, Editable, Ready, BaselineFits
  <2>2. worker'.of.proposal = fields /\ worker'.of.against = revision /\ (worker'.of.affects <=> Affects(fields, targets))
        /\ worker'.step = "begun"
    BY <2>1
  <2> QED
    BY <2>1, <2>2 DEF Affects
<1>9. CASE SaveEnters
  <2>1. Busy /\ ThreadGoes("locked", None) /\ at' = at
    BY <1>9 DEF SaveEnters, Is, page
  <2>2. worker'.of = worker.of /\ worker'.step = "locked" /\ worker.kind = "save" /\ worker.step = "begun"
    BY <1>9, <2>1, GoneFits DEF SaveEnters, Is
  <2> QED
    BY <1>9, <2>2 DEF SaveEnters, SameCatalog, Is
<1>10. CASE SaveWrites
  <2>1. CASE pageFile = worker.of.against
    <3>1. Busy /\ ThreadGoes("done", None) /\ at' = at /\ pageFile' = worker.of.proposal
      BY <1>10, <2>1 DEF SaveWrites, Is
    <3>2. worker'.of = worker.of /\ worker'.step = "done"
      BY <3>1, GoneFits
    <3> QED
      BY <3>1, <3>2
  <2>2. CASE pageFile # worker.of.against
    <3>1. Busy /\ ThreadGoes("failed", None) /\ at' = at
      BY <1>10, <2>2 DEF SaveWrites, Is
    <3>2. worker'.step = "failed"
      BY <3>1, GoneFits
    <3> QED
      BY <3>2
  <2> QED
    BY <2>1, <2>2
<1>11. CASE SaveArrives
  <2>1. Busy /\ (worker' = NoWorker \/ (ThreadGoes("dropped", None) /\ at' = at))
    BY <1>11 DEF SaveArrives, Is, Receives, Overtakes
  <2>2. ~Busy' \/ worker'.step = "dropped"
    BY <2>1, GoneFits DEF Busy
  <2> QED
    BY <2>2
<1>12. CASE Reload
  BY <1>12 DEF Reload, Ready, Rereads, Busy
<1>13. CASE ReloadSettles
  <2>1. Starts("reload", None)
    BY <1>13 DEF ReloadSettles
  <2> QED
    BY <2>1 DEF Starts
<1>14. CASE ReloadReads
  <2>1. Is("reload", worker.step) /\ ThreadGoes("done", pageCatalog) /\ at' = at
    BY <1>14 DEF ReloadReads, Is, page
  <2> QED
    BY <2>1, GoneFits DEF Is
<1>15. CASE ReloadArrives
  <2>1. Busy /\ (worker' = NoWorker \/ (ThreadGoes("dropped", None) /\ at' = at))
    BY <1>15 DEF ReloadArrives, Is, Receives, Overtakes
  <2>2. ~Busy' \/ worker'.step = "dropped"
    BY <2>1, GoneFits DEF Busy
  <2> QED
    BY <2>2
<1>16. CASE Sync
  <2>1. Starts("sync", None)
    BY <1>16 DEF Sync
  <2> QED
    BY <2>1 DEF Starts
<1>17. CASE SyncReads
  <2>1. Is("sync", worker.step) /\ ThreadGoes("done", [watch |-> pageFile, catalog |-> pageCatalog]) /\ at' = at
    BY <1>17 DEF SyncReads, Is, page
  <2> QED
    BY <2>1, GoneFits DEF Is
<1>18. CASE SyncArrives
  <2>1. ~(Busy' /\ worker'.kind = "save")
    BY <1>18 DEF SyncArrives, Busy
  <2> QED
    BY <2>1
<1>19. CASE Answered
  <2>1. (worker' = worker /\ UNCHANGED <<pageFile, pageCatalog, targets>>) \/ Starts("apply", syncPreview)
    BY <1>19 DEF Answered
  <2> QED
    BY <2>1 DEF Starts, Busy
<1>20. CASE ApplyEnters
  <2>1. Is("apply", worker.step) /\ ThreadGoes("locked", None) /\ at' = at
    BY <1>20 DEF ApplyEnters, Is, page
  <2> QED
    BY <2>1, GoneFits DEF Is
<1>21. CASE ApplyWrites
  <2>1. PICK step \in {"done", "failed"} : ThreadGoes(step, None)
    BY <1>21 DEF ApplyWrites
  <2>2. worker'.kind = "apply"
    BY <1>21, <2>1, GoneFits DEF ApplyWrites, Is
  <2> QED
    BY <2>2
<1>22. CASE ApplyArrives
  <2>1. ~(Busy' /\ worker'.kind = "save")
    BY <1>22 DEF ApplyArrives, Busy
  <2> QED
    BY <2>1
<1>23. CASE Fetch
  <2>1. PICK full : Starts("listing", [full |-> full])
    BY <1>23 DEF Fetch
  <2> QED
    BY <2>1 DEF Starts
<1>24. CASE Fetched
  <2>1. Busy /\ (worker' = NoWorker \/ (ThreadGoes("dropped", None) /\ at' = at))
    BY <1>24 DEF Fetched, Is, Receives, Overtakes
  <2>2. ~Busy' \/ worker'.step = "dropped"
    BY <2>1, GoneFits DEF Busy
  <2> QED
    BY <2>2
<1>25. CASE ThreadFails
  <2>1. Busy /\ ThreadGoes("failed", None) /\ at' = at
    BY <1>25 DEF ThreadFails
  <2>2. worker'.step = "failed"
    BY <2>1, GoneFits
  <2> QED
    BY <2>2
<1>26. CASE FailureArrives
  <2>1. ~(Busy' /\ worker'.kind = "save")
    BY <1>26 DEF FailureArrives, Busy
  <2> QED
    BY <2>1
<1>27. CASE LoadArrives
  <2>1. (worker' = worker \/ worker' = Overtakes(worker)) /\ at' = at
        /\ (Busy => targets' = targets) /\ UNCHANGED <<pageFile, pageCatalog>>
    BY <1>27 DEF LoadArrives, Receives, Accepts
  <2>2. (Busy' <=> Busy) /\ (Busy => worker'.kind = worker.kind /\ worker'.of = worker.of /\ worker'.step = worker.step)
    BY <2>1, OvertakenFits DEF Busy
  <2> QED
    BY <2>1, <2>2
<1>28. CASE ToggleWrites
  BY <1>28 DEF ToggleWrites, HalfRead, Is, Busy
<1>29. CASE ToggleArrives
  <2>1. (worker' = worker \/ worker' = Overtakes(worker)) /\ at' = at
        /\ (Busy => targets' = targets) /\ UNCHANGED <<pageFile, pageCatalog>>
    BY <1>29 DEF ToggleArrives, Receives, Accepts
  <2>2. (Busy' <=> Busy) /\ (Busy => worker'.kind = worker.kind /\ worker'.of = worker.of /\ worker'.step = worker.step)
    BY <2>1, OvertakenFits DEF Busy
  <2> QED
    BY <2>1, <2>2
<1>30. CASE Open
  BY <1>30 DEF Open, Busy, WorkerFits
<1> QED
  BY <1>1, <1>2, <1>3, <1>4, <1>5, <1>6, <1>7, <1>8, <1>9, <1>10, <1>11, <1>12, <1>13,
     <1>14, <1>15, <1>16, <1>17, <1>18, <1>19, <1>20, <1>21, <1>22, <1>23, <1>24, <1>25,
     <1>26, <1>27, <1>28, <1>29, <1>30
  DEF pageVars, PageNext, Operator, Threads, Arrivals, Handlers, Window, CatalogChanges,
      Edit, Reorder, SaveSettles, Rereads, Asks, DiscardSettles, Close, Poll, AsksReload,
      MainReload, LoadReads, LoadFails, Toggle, ToggleFails

\* Only the thread's own write makes a save.
LEMMA OnlySaveWrites == PageTyped /\ [PageNext]_pageVars /\ SaveMade => SaveWrites
<1> SUFFICES ASSUME PageTyped, [PageNext]_pageVars, SaveMade PROVE SaveWrites
  OBVIOUS
<1> USE DEF PageTyped, SaveMade, Is, Busy, world, page, main, baseline, previews
<1>1. CASE UNCHANGED <<worker>>
  BY <1>1
<1>2. CASE Preview
  BY <1>2 DEF Preview, Editable, Ready
<1>3. CASE PreviewReads
  BY <1>3 DEF PreviewReads
<1>4. CASE PreviewArrives
  BY <1>4 DEF PreviewArrives
<1>5. CASE Save
  BY <1>5 DEF Save, Editable, Ready
<1>6. CASE SaveEnters
  BY <1>6 DEF SaveEnters
<1>7. CASE SaveWrites
  BY <1>7
<1>8. CASE SaveArrives
  BY <1>8 DEF SaveArrives
<1>9. CASE ReloadSettles
  BY <1>9 DEF ReloadSettles, WorkerFits
<1>10. CASE ReloadReads
  BY <1>10 DEF ReloadReads
<1>11. CASE ReloadArrives
  BY <1>11 DEF ReloadArrives
<1>12. CASE Sync
  BY <1>12 DEF Sync, Editable, Ready
<1>13. CASE SyncReads
  BY <1>13 DEF SyncReads
<1>14. CASE SyncArrives
  BY <1>14 DEF SyncArrives
<1>15. CASE Answered
  BY <1>15 DEF Answered, MayApply
<1>16. CASE ApplyEnters
  BY <1>16 DEF ApplyEnters
<1>17. CASE ApplyWrites
  BY <1>17 DEF ApplyWrites
<1>18. CASE ApplyArrives
  BY <1>18 DEF ApplyArrives
<1>19. CASE Fetch
  BY <1>19 DEF Fetch, Editable, Ready
<1>20. CASE Fetched
  BY <1>20 DEF Fetched
<1>21. CASE ThreadFails
  <2>1. Busy /\ ThreadGoes("failed", None) /\ at' = at
    BY <1>21 DEF ThreadFails
  <2> QED
    BY <2>1, GoneFits
<1>22. CASE FailureArrives
  BY <1>22 DEF FailureArrives
<1>23. CASE LoadArrives
  <2>1. (worker' = worker \/ worker' = Overtakes(worker)) /\ at' = at
    BY <1>23 DEF LoadArrives, Receives
  <2> QED
    BY <2>1, OvertakenFits
<1>24. CASE ToggleArrives
  <2>1. (worker' = worker \/ worker' = Overtakes(worker)) /\ at' = at
    BY <1>24 DEF ToggleArrives, Receives
  <2> QED
    BY <2>1, OvertakenFits
<1> QED
  BY <1>1, <1>2, <1>3, <1>4, <1>5, <1>6, <1>7, <1>8, <1>9, <1>10, <1>11, <1>12, <1>13,
     <1>14, <1>15, <1>16, <1>17, <1>18, <1>19, <1>20, <1>21, <1>22, <1>23, <1>24
  DEF pageVars, PageNext, Operator, Threads, Arrivals, Handlers, Window, OtherWrites,
      CatalogChanges, JobWrites, Edit, Reorder, Discard, SaveSettles, Reload, Rereads,
      Asks, DiscardSettles, Close, Poll, AsksReload, MainReload, LoadReads, LoadFails,
      Toggle, ToggleWrites, ToggleFails, Open

\* The page begins with one reading.
LEMMA PageInitFits == PageInit => PageTyped /\ BaselineFits /\ SaveFits
<1> SUFFICES ASSUME PageInit PROVE PageTyped /\ BaselineFits /\ SaveFits
  OBVIOUS
<1>1. pageFile \in Contents
  BY DEF PageInit, Contents, Targets, Texts
<1>2. ~Busy /\ load = None /\ toggle = None /\ scopePreview = None /\ syncPreview = None
  BY DEF PageInit, Busy
<1>3. PageTypeOK
  BY <1>1, <1>2 DEF PageInit, PageTypeOK
<1> QED
  BY <1>1, <1>2, <1>3 DEF PageInit, PageTyped, WorkerFits, WindowFits, SettlesFit, NotRevived, BaselineFits, SaveFits

\* The page keeps its types: between handlers its fields are what it shows unless they
\* are marked as a draft, and what it writes is a Watchlist.
THEOREM PageTypeCorrect == PageSpec => []PageTypeOK
<1>1. PageInit => PageTyped
  BY PageInitFits
<1>2. PageTyped /\ [PageNext]_pageVars => PageTyped'
  BY WorkerStep, PageTypesStep, WindowStep, SettlesStep, RevivedStep DEF PageTyped
<1>3. PageTyped => PageTypeOK
  BY DEF PageTyped
<1> QED
  BY <1>1, <1>2, <1>3, PTL DEF PageSpec

\* Where nobody writes between two readings of the page, a save changes what its draft
\* changed and nothing else, on the Catalog of its preview, and no preview that was
\* cleared comes back (save_edit, _SaveWorker.run, receive_snapshot).
THEOREM PageSavesHold == ASSUME WritesBetweenReads = FALSE PROVE PageSpec => SavesHold
<1> DEFINE PageInv == PageTyped /\ BaselineFits /\ SaveFits
<1>1. PageInit => PageInv
  BY PageInitFits
<1>2. PageInv /\ [PageNext]_pageVars => PageInv'
  BY WorkerStep, PageTypesStep, WindowStep, SettlesStep, RevivedStep, BaselineStep, SaveStep DEF PageTyped
<1>3. PageInv => NotRevived
  BY DEF PageTyped
<1>4. ASSUME PageInv, [PageNext]_pageVars, SaveMade
      PROVE  /\ pageFile = targets /\ pageFile' = worker.of.proposal
             /\ worker.of.affects <=> Affects(pageFile', pageFile)
             /\ worker.of.affects => pageCatalog = worker.of.catalog
  <2>1. SaveWrites /\ Busy /\ worker.kind = "save" /\ worker.step = "locked" /\ at' = at
    BY <1>4, OnlySaveWrites DEF SaveMade, Is, SaveWrites
  <2>2. worker.of.against = targets /\ (worker.of.affects <=> Affects(worker.of.proposal, targets))
    BY <1>4, <2>1 DEF SaveFits
  <2>3. pageFile = worker.of.against
    <3>1. SUFFICES ASSUME pageFile # worker.of.against PROVE FALSE
      OBVIOUS
    <3>2. Busy /\ ThreadGoes("failed", None)
      BY <2>1, <3>1 DEF SaveWrites
    <3> QED
      BY <1>4, <2>1, <3>2, GoneFits DEF PageTyped, SaveMade
  <2>4. pageFile' = worker.of.proposal
    BY <2>1, <2>3 DEF SaveWrites
  <2>5. Affects(pageFile', pageFile) <=> Affects(worker.of.proposal, targets)
    BY <2>2, <2>3, <2>4 DEF Affects
  <2> QED
    BY <1>4, <2>1, <2>2, <2>3, <2>4, <2>5 DEF SaveFits
<1>5. PageInv /\ [PageNext]_pageVars =>
        [SaveMade => \A k \in PageKeys : pageFile'[k] # pageFile[k] => pageFile'[k] # targets[k]]_pageVars
  BY <1>4
<1>6. PageInv /\ [PageNext]_pageVars =>
        [SaveMade /\ Affects(pageFile', pageFile) => worker.of.affects /\ pageCatalog = worker.of.catalog]_pageVars
  BY <1>4
<1> QED
  BY <1>1, <1>2, <1>3, <1>5, <1>6, PTL
     DEF PageSpec, SavesHold, PageUndoesNothing, SavedOnPreviewedCatalog
===============================================================================
