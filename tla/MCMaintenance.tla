---------------------------- MODULE MCMaintenance ----------------------------
(***************************************************************************)
(* The tools that mend a Catalog and its archives, for one run: the        *)
(* initial state chooses which of them moves.                              *)
(*   "identity":  SourceIdentity, two keys of a Work, one operator;        *)
(*   "identities": the same, two operators, no edits;                      *)
(*   "recrawl":   ArchiveRecrawl, one script at a time, two Items;         *)
(*   "recrawls":  ArchiveRecrawl, two scripts together, one Item;          *)
(*   "renumber":  ArchiveRenumber, two archives, two faults;               *)
(*   "managed":   ArchiveRenumber, three archives of a managed Work;       *)
(*   "migration": CatalogMigration, two migrators and a saved copy.        *)
(***************************************************************************)
EXTENDS SourceIdentity, ArchiveRecrawl, CatalogMigration

CONSTANTS old, new, k1, k2, o1, o2

\* The second key lists the episode too; the site changes its id.
MCListings == {[k \in {k1, k2} |-> {old}], [k \in {k1, k2} |-> {new}],
               [k \in {k1, k2} |-> IF k = k1 THEN {old, new} ELSE {old}]}

\* Two Items, the first with two Sources; one backup, told where to write.
MCItemOf == [s \in {"a1", "a2", "b1"} |-> IF s = "b1" THEN 2 ELSE 1]
MCOutput == [s \in {"s1"} |-> 1]

VARIABLES
  part,
  zips, notes, locator, wanted, shown, entries, before, todo, begun, at, answer, slips, meddled

renumberVars == <<zips, notes, locator, wanted, shown, entries, before, todo, begun, at, answer,
                  slips, meddled>>

Renumbering == INSTANCE ArchiveRenumber WITH
  Archives <- {"a1", "a2"}, Names <- {"n1", "n2", "n3"}, Strict <- FALSE,
  MaxFaults <- 2, MaxOutside <- 1, pc <- at, result <- answer, faults <- slips, outside <- meddled
Managed == INSTANCE ArchiveRenumber WITH
  Archives <- {"a1", "a2", "a3"}, Names <- {"n1", "n2", "n3"}, Strict <- TRUE,
  MaxFaults <- 1, MaxOutside <- 1, pc <- at, result <- answer, faults <- slips, outside <- meddled

ASSUME
  /\ CatalogMigrationAssumption
  /\ Renumbering!RenumberAssumption /\ Managed!RenumberAssumption

-----------------------------------------------------------------------------
MCInit ==
  /\ part \in {"identity", "identities", "recrawl", "recrawls", "renumber", "managed", "migration"}
  /\ Init /\ RecrawlInit /\ MigrationInit
  /\ IF part = "managed" THEN Managed!Init ELSE Renumbering!Init
  (* The names are alike: one way to place the archives is enough.           *)
  /\ \A id \in DOMAIN locator : locator[id] = <<"library", CASE id = "a1" -> "n1"
                                                             [] id = "a2" -> "n2"
                                                             [] OTHER -> "n3">>
  (* What does not move begins in one way only.                              *)
  /\ part \notin {"identity", "identities"} => listing = [k \in Keys |-> {old}]
  /\ part \notin {"renumber", "managed"} =>
       (\A id \in DOMAIN wanted : wanted[id] = "none") /\ (\A p \in DOMAIN notes : notes[p].of = "none")

(* The second operator rests, or begins second; so does the second script.   *)
(* A site that has changed its id keeps the new one.                         *)
Renewed == listing[k2] = {new} => UNCHANGED listing
Alone == UNCHANGED plans[o2]
Second == listing'[k1] # {old, new} /\ edits' = 0 /\ (plans'[o2].made => plans[o1].made \/ plans[o2].made)
(* One script and two archives; or two scripts, of the first Item only.       *)
OneScript == script'["p2"].pc = "off" /\ Len(quality') < MaxArchives
OneItem == byHand' \subseteq {1} /\ batch'.source # "b1" /\ (starts' = 1 => script'["p2"].pc = "off")

MCNext ==
  /\ UNCHANGED part
  /\ \/ part = "identity" /\ Next /\ Renewed /\ Alone /\ UNCHANGED <<recrawlVars, renumberVars, migrationVars>>
     \/ part = "identities" /\ Next /\ Renewed /\ Second /\ UNCHANGED <<recrawlVars, renumberVars, migrationVars>>
     \/ part = "recrawl" /\ RecrawlNext /\ OneScript /\ UNCHANGED <<vars, renumberVars, migrationVars>>
     \/ part = "recrawls" /\ RecrawlNext /\ OneItem /\ UNCHANGED <<vars, renumberVars, migrationVars>>
     \/ part = "renumber" /\ Renumbering!Next /\ UNCHANGED <<vars, recrawlVars, migrationVars>>
     \/ part = "managed" /\ Managed!Next /\ UNCHANGED <<vars, recrawlVars, migrationVars>>
     \/ part = "migration" /\ MigrationNext /\ UNCHANGED <<vars, recrawlVars, renumberVars>>

MCSpec == MCInit /\ [][MCNext]_<<vars, recrawlVars, renumberVars, migrationVars, part>>

(* ArchiveRenumber: ResultIsTrue, OneFaultIsUndone and OnlyAsShown, of both. *)
RenamesHold ==
  /\ [](part # "managed" => Renumbering!TypeOK /\ Renumbering!ResultIsTrue /\ Renumbering!OneFaultIsUndone)
  /\ [](part = "managed" => Managed!ResultIsTrue /\ Managed!OneFaultIsUndone)
  /\ Renumbering!OnlyAsShown
=============================================================================
