----------------------------- MODULE DatedEntries -----------------------------
(* An entry with a ticket on one of the two sites whose answers say how long *)
(* the episode stays open, younganimal.com or hanayume.com.  Both work on a  *)
(* page of the same kind (TicketSite); "site" says which of them it is.      *)
CONSTANTS
  Clock,       \* bound on the clock
  Term,        \* how long a ticket opens an episode
  MaxAsked,    \* bound on requests
  MaxGarbled,  \* bound on answers that cannot be read
  OwnerReads,  \* whether the owner uses the account elsewhere
  Hollow       \* whether a checkout may be accepted without effect

VARIABLES
  site,
  time, ticket, until, asked, garbled,                                \* TicketSite
  yPc, yBefore, yActed, yLanded, yCancelled, yReport, yResult,        \* YounganimalEntry
  hPc, hFirst, hActed, hLanded, hFallbacks, hReport, hResult          \* HanayumeEntry

pageVars == <<time, ticket, until, asked, garbled>>
youngVars == <<yPc, yBefore, yActed, yLanded, yCancelled, yReport, yResult>>
hanaVars == <<hPc, hFirst, hActed, hLanded, hFallbacks, hReport, hResult>>
datedVars == <<site, pageVars, youngVars, hanaVars>>

Young == INSTANCE YounganimalEntry WITH
  MaxTime <- Clock, Others <- OwnerReads, now <- time, pc <- yPc, before <- yBefore,
  acted <- yActed, landed <- yLanded, cancelled <- yCancelled, report <- yReport,
  result <- yResult

Hana == INSTANCE HanayumeEntry WITH
  MaxTime <- Clock, Others <- OwnerReads, now <- time, pc <- hPc, first <- hFirst,
  acted <- hActed, landed <- hLanded, fallbacks <- hFallbacks, report <- hReport,
  result <- hResult

ASSUME DatedAssumption == Young!SiteAssumption

DatedInit ==
  /\ Young!Init /\ Hana!Init
  /\ site \in {"younganimal", "hanayume"}

DatedNext ==
  /\ UNCHANGED site
  /\ \/ site = "younganimal" /\ Young!Next /\ UNCHANGED hanaVars
     \/ site = "hanayume" /\ Hana!Next /\ UNCHANGED youngVars

DatedSpec == DatedInit /\ [][DatedNext]_datedVars

-------------------------------------------------------------------------------
\* What either site reports of a use: it is dated no earlier than the ticket went
\* (the cooldown counts from there) and never grants the episode longer than the
\* site does.
ReportedTimes == Young!ReportedTimes /\ Hana!ReportedTimes

\* Either entry implements what the batch relies on of an adapter (TicketEntry).
EntriesKeepPromise == Young!KeepsPromise /\ Hana!KeepsPromise
===============================================================================
