---------------------------- MODULE ArchiveRecrawl ----------------------------
(***************************************************************************)
(* scripts/prepare_recrawl.py: a scan of the completed Items, then the      *)
(* application of its report, which moves each bad archive to a backup      *)
(* root, books that and returns the Item to the queue.  The script takes no *)
(* job lock: batches go on archiving Items, an operator sets the status of  *)
(* Items (`catalog item-status`), a disk spoils archives, and another       *)
(* prepare_recrawl.py may be at work, between any two of its steps.         *)
(***************************************************************************)
EXTENDS Naturals, Sequences, FiniteSets

CONSTANTS
  Items,         \* Item ids
  SourceIds,     \* Sources of the site, each of one Item
  ItemOf,        \* their Items
  Scripts,       \* prepare_recrawl.py processes that may be alive together
  MaxArchives,   \* bound on the archives captured
  MaxStarts,     \* bound on the scripts started
  MaxFailures,   \* bound on failing writes and killed processes
  MaxOutside     \* bound on statuses set by hand and archives spoiled

ASSUME RecrawlAssumption ==
  /\ Items \subseteq Nat \ {0} /\ ItemOf \in [SourceIds -> Items]
  /\ MaxArchives \in Nat /\ MaxStarts \in Nat
  /\ MaxFailures \in Nat /\ MaxOutside \in Nat

VARIABLES
  status,    \* items.status
  artifacts, \* rows of artifacts, one for each archived run: source, path, state
  quality,   \* what inspect_archive says of each archive captured so far
  disk,      \* the archive at each path
  batch,     \* the batch: the Source it is archiving, and the archive moved in
  script,    \* each script: what it is about to do, and its report
  starts, failures, outside,
  \* Auxiliary: no action reads them.
  strayed,   \* rows whose archive was moved and not booked
  byHand,    \* Items whose status was set by hand
  crowded    \* two scripts were alive together

counters == <<starts, failures, outside>>
ghosts == <<strayed, byHand, crowded>>
recrawlVars == <<status, artifacts, quality, disk, batch, script, counters, ghosts>>

None == 0      \* no archive
NoItem == 0
Library == 0   \* the root of the library; every script has a backup root of its own
Roots == 0..MaxStarts
Statuses == {"pending", "completed", "skipped"}

\* Every Item has a Work of its own and all archives have the same name, so a
\* path is a root and a Work.  Outside the library only the name is kept.
Places == Roots \X (Items \cup {NoItem})
LibraryPath(i) == <<Library, i>>
BackupDestination(place, root) ==
  <<root, IF place[1] = Library THEN place[2] ELSE NoItem>>

Qualities == {"preferred", "fallback", "broken"}
Inspect(place) == IF disk[place] = None THEN "missing" ELSE quality[disk[place]]

Off == [pc |-> "off", root |-> 0, todo |-> {}, arts |-> <<>>, report |-> <<>>,
        forced |-> FALSE, ignore |-> FALSE]
NoBatch == [source |-> CHOOSE s \in SourceIds : TRUE, at |-> "idle", zip |-> None]

RecrawlInit ==
  /\ status = [i \in Items |-> "pending"]
  /\ artifacts = <<>> /\ quality = <<>>
  /\ disk = [place \in Places |-> None]
  /\ batch = NoBatch
  /\ script = [p \in Scripts |-> Off]
  /\ starts = 0 /\ failures = 0 /\ outside = 0
  /\ strayed = {} /\ byHand = {} /\ crowded = FALSE

\* A function with one more value, or another one.
With(f, x, value) == [y \in DOMAIN f \cup {x} |-> IF y = x THEN value ELSE f[y]]
Failure == failures < MaxFailures /\ failures' = failures + 1
Outside == outside < MaxOutside /\ outside' = outside + 1

-------------------------------------------------------------------------------
(* Scan.                                                                   *)

ArchivesOf(s) == {a \in DOMAIN artifacts : artifacts[a].source = s}
Newest(s) == CHOOSE a \in ArchivesOf(s) : \A b \in ArchivesOf(s) : b <= a

\* The newest archive of each Source of the Item that has one.
Candidates(i) == {Newest(s) : s \in {t \in SourceIds : ItemOf[t] = i /\ ArchivesOf(t) # {}}}

Completed == {i \in Items : status[i] = "completed"}

\* By site or Work all completed Items; by id those asked for, all completed.
Scan(p, ids, forced, ignore) ==
  /\ script[p].pc = "off"
  /\ starts < MaxStarts
  /\ ids # {} /\ ids \subseteq Completed
  /\ forced \/ ids = Completed
  /\ starts' = starts + 1
  /\ script' = [script EXCEPT ![p] =
       [pc |-> "scan", root |-> starts + 1, todo |-> ids,
        arts |-> [i \in ids |-> [a \in Candidates(i) |-> artifacts[a]]],
        report |-> <<>>, forced |-> forced, ignore |-> ignore]]
  /\ crowded' = (crowded \/ \E q \in Scripts \ {p} : script[q].pc # "off")
  /\ UNCHANGED <<status, artifacts, quality, disk, batch, failures, outside, strayed, byHand>>

Lowest(todo) == CHOOSE i \in todo : \A k \in todo : i <= k

\* One Item is classified: which archive, where, and what it is.
Classified(arts) ==
  IF Cardinality(DOMAIN arts) # 1
  THEN [art |-> None, path |-> LibraryPath(NoItem),
        class |-> IF DOMAIN arts = {} THEN "missing" ELSE "ambiguous"]
  ELSE LET a == CHOOSE b \in DOMAIN arts : TRUE
       IN [art |-> a, path |-> arts[a].path,
           class |-> IF arts[a].state = "present" THEN Inspect(arts[a].path)
                                                  ELSE "missing"]

ScanItem(p) ==
  /\ script[p].pc = "scan" /\ script[p].todo # {}
  /\ LET i == Lowest(script[p].todo) IN
     script' = [script EXCEPT
       ![p].todo = script[p].todo \ {i},
       ![p].report = With(script[p].report, i, Classified(script[p].arts[i]))]
  /\ UNCHANGED <<status, artifacts, quality, disk, batch, counters, ghosts>>

ApplyReport(p) ==
  /\ script[p].pc = "scan" /\ script[p].todo = {}
  /\ script' = [script EXCEPT ![p].pc = "apply", ![p].todo = DOMAIN script[p].report,
                              ![p].arts = <<>>]
  /\ UNCHANGED <<status, artifacts, quality, disk, batch, counters, ghosts>>

-------------------------------------------------------------------------------
(* Apply.  The entries come in the order of their Items.                   *)

Entry(p) == script[p].report[Lowest(script[p].todo)]
Applying(p, step) == script[p].pc = step /\ script[p].todo # {}
GoesTo(p, step) == script' = [script EXCEPT ![p].pc = step]
NextEntry(p) ==
  script' = [script EXCEPT ![p].pc = "apply",
                           ![p].todo = script[p].todo \ {Lowest(script[p].todo)}]

\* Nothing is done about these; the counts and details are left out.
WrongStill(p) == Inspect(Entry(p).path) # "missing"
Still(p) == Inspect(Entry(p).path) = Entry(p).class
Vacant(place) == disk[place] = None
Untaken(place) == Vacant(place)
Destination(p) == BackupDestination(Entry(p).path, script[p].root)
Passed(p) ==
  \/ Entry(p).class = "preferred" /\ ~script[p].forced
  \/ Entry(p).class = "ambiguous"
  \/ Entry(p).class = "missing" /\ (script[p].ignore \/ Entry(p).art = None)
  \/ Entry(p).class # "missing" /\ ~(Still(p) /\ Untaken(Destination(p)))

Pass(p) ==
  /\ Applying(p, "apply") /\ Passed(p)
  /\ NextEntry(p)
  /\ UNCHANGED <<status, artifacts, quality, disk, batch, counters, ghosts>>

\* The archive is inspected again and moved.
Move(p) ==
  /\ Applying(p, "apply") /\ ~Passed(p) /\ Entry(p).class # "missing"
  /\ disk' = [disk EXCEPT ![Destination(p)] = disk[Entry(p).path], ![Entry(p).path] = None]
  /\ GoesTo(p, "book")
  /\ UNCHANGED <<status, artifacts, quality, batch, counters, ghosts>>

\* update_artifact_storage: the archive is elsewhere, or missing.
WrongBooking(p) == Entry(p).path
Booking(p) == Destination(p)
Book(p) ==
  /\ Applying(p, "book")
  /\ artifacts' = [artifacts EXCEPT ![Entry(p).art].path = Booking(p),
                          ![Entry(p).art].state = "present"]
  /\ GoesTo(p, "pending")
  /\ UNCHANGED <<status, quality, disk, batch, counters, ghosts>>

MarkMissing(p) ==
  /\ Applying(p, "apply") /\ ~Passed(p) /\ Entry(p).class = "missing"
  /\ artifacts' = [artifacts EXCEPT ![Entry(p).art].state = "missing"]
  /\ GoesTo(p, "pending")
  /\ UNCHANGED <<status, quality, disk, batch, counters, ghosts>>

MarkPending(p) ==
  /\ Applying(p, "pending")
  /\ status' = [status EXCEPT ![Lowest(script[p].todo)] = "pending"]
  /\ NextEntry(p)
  /\ UNCHANGED <<artifacts, quality, disk, batch, counters, ghosts>>

End(p) ==
  /\ script[p].pc = "apply" /\ script[p].todo = {}
  /\ script' = [script EXCEPT ![p] = Off]
  /\ UNCHANGED <<status, artifacts, quality, disk, batch, counters, ghosts>>

\* A write fails: what was done is not undone, and the next entry follows.
\* Or the process is killed.
Unbooked(p) ==
  strayed' = IF script[p].pc = "book" THEN strayed \cup {Entry(p).art} ELSE strayed
WriteFails(p) ==
  /\ Applying(p, "book") \/ Applying(p, "pending")
  /\ Failure
  /\ Unbooked(p)
  /\ NextEntry(p)
  /\ UNCHANGED <<status, artifacts, quality, disk, batch, starts, outside, byHand, crowded>>

Killed(p) ==
  /\ script[p].pc # "off"
  /\ Failure
  /\ Unbooked(p)
  /\ script' = [script EXCEPT ![p] = Off]
  /\ UNCHANGED <<status, artifacts, quality, disk, batch, starts, outside, byHand, crowded>>

-------------------------------------------------------------------------------
(* A batch, under the job lock: one Source at a time.                      *)
BatchTakes(s) ==
  /\ batch.at = "idle"
  /\ status[ItemOf[s]] = "pending" /\ Vacant(LibraryPath(ItemOf[s]))
  /\ Len(quality) < MaxArchives
  /\ batch' = [source |-> s, at |-> "crawl", zip |-> None]
  /\ UNCHANGED <<status, artifacts, quality, disk, script, counters, ghosts>>

BatchPack(q) ==
  /\ batch.at = "crawl" /\ Vacant(LibraryPath(ItemOf[batch.source]))
  /\ quality' = Append(quality, q)
  /\ disk' = [disk EXCEPT ![LibraryPath(ItemOf[batch.source])] = Len(quality')]
  /\ batch' = [batch EXCEPT !.at = "packed", !.zip = Len(quality')]
  /\ UNCHANGED <<status, artifacts, script, counters, ghosts>>

BatchEnds == batch' = NoBatch
BatchFinalize ==
  /\ batch.at = "packed"
  /\ artifacts' = With(artifacts, batch.zip, [source |-> batch.source,
                                             path |-> LibraryPath(ItemOf[batch.source]),
                                             state |-> "present"])
  /\ status' = [status EXCEPT ![ItemOf[batch.source]] = "completed"]
  /\ BatchEnds
  /\ UNCHANGED <<quality, disk, script, counters, ghosts>>

BatchFails ==
  /\ batch.at # "idle"
  /\ Failure
  /\ BatchEnds
  /\ UNCHANGED <<status, artifacts, quality, disk, script, starts, outside, ghosts>>

(* Others: `catalog item-status`, which asks for no lock; a disk.          *)
ItemStatus(i, s) ==
  /\ Outside
  /\ status' = [status EXCEPT ![i] = s]
  /\ byHand' = byHand \cup {i}
  /\ UNCHANGED <<artifacts, quality, disk, batch, script, starts, failures, strayed, crowded>>

Spoil(a) ==
  /\ Outside
  /\ quality' = [quality EXCEPT ![a] = "broken"]
  /\ UNCHANGED <<status, artifacts, disk, batch, script, starts, failures, ghosts>>

-------------------------------------------------------------------------------
Script(p) ==
  \/ \E ids \in SUBSET Items, forced, ignore \in BOOLEAN : Scan(p, ids, forced, ignore)
  \/ ScanItem(p) \/ ApplyReport(p)
  \/ Pass(p) \/ Move(p) \/ Book(p) \/ MarkMissing(p) \/ MarkPending(p) \/ End(p)

Batch ==
  \/ \E s \in SourceIds : BatchTakes(s)
  \/ \E q \in {"preferred", "fallback"} : BatchPack(q)
  \/ BatchFinalize

RecrawlNext ==
  \/ \E p \in Scripts : Script(p) \/ WriteFails(p) \/ Killed(p)
  \/ Batch \/ BatchFails
  \/ \E i \in Items, s \in Statuses : ItemStatus(i, s)
  \/ \E a \in DOMAIN quality : Spoil(a)

RecrawlSpec == RecrawlInit /\ [][RecrawlNext]_recrawlVars

-------------------------------------------------------------------------------
(* Properties.                                                             *)

EntryType == [art : 0..MaxArchives, path : Places,
              class : Qualities \cup {"missing", "ambiguous"}]
ScriptTypeOK(p) ==
  /\ script[p].pc \in {"off", "scan", "apply", "book", "pending"}
  /\ script[p].root \in Roots /\ script[p].todo \subseteq Items
  /\ \A i \in DOMAIN script[p].report :
       /\ script[p].report[i] \in EntryType
       /\ script[p].report[i].art \in DOMAIN artifacts \cup {None}
\* The values every variable keeps: reports name archives that have a row.
RecrawlTypeOK ==
  /\ status \in [Items -> Statuses]
  /\ quality \in Seq(Qualities) /\ Len(quality) <= MaxArchives
  /\ DOMAIN artifacts \subseteq DOMAIN quality
  /\ \A a \in DOMAIN artifacts :
       artifacts[a] \in [source : SourceIds, path : Places, state : {"present", "missing"}]
  /\ disk \in [Places -> DOMAIN quality \cup {None}]
  /\ batch \in [source : SourceIds, at : {"crawl", "packed"}, zip : 0..MaxArchives] \cup {NoBatch}
  /\ (batch.zip = None) <=> (batch.at # "packed")
  /\ DOMAIN script = Scripts /\ \A p \in Scripts : ScriptTypeOK(p)
  /\ starts \in 0..MaxStarts /\ failures \in 0..MaxFailures /\ outside \in 0..MaxOutside
  /\ strayed \subseteq DOMAIN artifacts /\ byHand \subseteq Items /\ crowded \in BOOLEAN

\* "Original ZIPs are moved to backup, not deleted": whatever the scripts, the
\* batches and the operator do, every archive that was ever packed is still at
\* one path and only one, although backups of backups keep no more than a name.
NothingLost ==
  \A a \in DOMAIN quality : Cardinality({place \in Places : disk[place] = a}) = 1

\* The archives whose move a script has not booked yet.
InTransit == {Entry(p).art : p \in {q \in Scripts : script[q].pc = "book"}}

\* A row that says its archive is present says where it is, unless a failing
\* write or a crash came between the move and its booking, an operator set the
\* Item's status, or two scripts were alive together.
PresentIsThere ==
  ~crowded =>
    \A a \in DOMAIN artifacts \ (strayed \cup InTransit) :
      artifacts[a].state = "present" /\ ItemOf[artifacts[a].source] \notin byHand
        => disk[artifacts[a].path] = a

\* Where every archive is, and that its row says so.
RowsTellWhere == RecrawlTypeOK /\ NothingLost /\ PresentIsThere

\* A script takes no good archive away unless it was told to, however old its
\* report is and whatever was archived at that path since.
OnlyBadIsMoved ==
  [][\A p \in Scripts :
       script[p].pc = "apply" /\ script'[p].pc = "book"
         => quality[disk[Entry(p).path]] # "preferred" \/ script[p].forced]_recrawlVars

\* A script returns an Item to the queue only while nothing is where a batch
\* would archive it again, unless an operator has set its status or two scripts
\* were alive together.
ReturnedToFreePath ==
  [][\A p \in Scripts, i \in Items :
       ~crowded /\ script[p].pc = "pending" /\ i = Lowest(script[p].todo) /\ i \notin byHand
       /\ script'[p].pc = "apply" /\ status'[i] = "pending"
         => Vacant(LibraryPath(i))]_recrawlVars

\* What a script takes away, and what it returns.
NoGoodIsTaken == OnlyBadIsMoved /\ ReturnedToFreePath

\* docs/BOOKWALKER_RECRAWL.md:40: "non-completed ... IDs reject the whole
\* operation before any archive moves".
OnlyCompletedMove ==
  [][\A p \in Scripts :
       script[p].pc = "apply" /\ script'[p].pc = "book"
         => status[Lowest(script[p].todo)] = "completed"]_recrawlVars
=============================================================================
