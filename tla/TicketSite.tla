------------------------------ MODULE TicketSite ------------------------------
(* The site of a work with one ticket, and the requests that the page of one *)
(* of its episodes makes: the site answers them in any order and the answers *)
(* arrive in any order.  Everything here is outside the program.             *)
EXTENDS Naturals, Sequences

CONSTANTS
  MaxTime,    \* bound on the clock
  Term,       \* how long a ticket opens an episode
  MaxAsked,   \* bound on requests
  MaxGarbled, \* bound on answers that cannot be read
  Others,     \* whether the owner uses the account elsewhere
  Hollow      \* whether a checkout may be accepted without effect

SiteAssumption ==
  /\ MaxTime \in Nat /\ Term \in Nat \ {0}
  /\ MaxAsked \in Nat /\ MaxGarbled \in Nat
  /\ Others \in BOOLEAN /\ Hollow \in BOOLEAN

VARIABLES
  now,
  ticket,   \* the work's ticket is there
  until,    \* the episode is open until then; 0 if it never was
  asked,    \* the page's requests in the order it made them
  garbled

siteVars == <<now, ticket, until, asked, garbled>>

Kinds == {"checkout", "episode", "series"}
Requests == [kind : Kinds, at : 0..MaxTime, state : {"sent", "served", "seen", "bad"},
             yes : BOOLEAN, left : 0..(Term + 1), when : 0..MaxTime]

SiteTypeOK ==
  /\ now \in 0..MaxTime
  /\ ticket \in BOOLEAN
  /\ until \in 0..(MaxTime + Term)
  /\ asked \in Seq(Requests) /\ Len(asked) <= MaxAsked
  /\ garbled \in 0..MaxGarbled

SiteInit ==
  /\ now = 0 /\ ticket = TRUE /\ asked = <<>> /\ garbled = 0
  /\ until \in {0, Term}

Open == until > now
Index == 1..Len(asked)
Of(kind) == {i \in Index : asked[i].kind = kind}
Seen(i) == asked[i].state = "seen"
Answered(i) == asked[i].state \in {"seen", "bad"}

\* "dated" are the kinds of requests whose times the adapter looks at.  What nobody
\* looks at is left at 0: when a checkout began, when any other request was answered,
\* how much is left by an answer that is not dated.
Asking(dated, kind) ==
  Append(asked, [kind |-> kind, at |-> IF kind \in dated THEN now ELSE 0,
                 state |-> "sent", yes |-> FALSE, left |-> 0, when |-> 0])

\* The page asks for the state of its episode, or of all of its work, when it likes.
Ask(dated, kind) ==
  /\ Len(asked) < MaxAsked
  /\ asked' = Asking(dated, kind)
  /\ UNCHANGED <<now, ticket, until, garbled>>

\* A checkout spends the ticket if the episode is closed, or nothing, and is then
\* accepted all the same or not; any other request is told how much is left, the
\* fraction of a second rounded either way.
Serve(dated, i) ==
  /\ asked[i].state = "sent"
  /\ \/ /\ asked[i].kind = "checkout" /\ ticket /\ ~Open
        /\ ticket' = FALSE /\ until' = now + Term
        /\ asked' = [asked EXCEPT ![i].state = "served", ![i].yes = TRUE]
     \/ /\ asked[i].kind = "checkout"
        /\ \E yes \in IF Open \/ ~ticket \/ Hollow THEN BOOLEAN ELSE {FALSE} :
             asked' = [asked EXCEPT ![i].state = "served", ![i].yes = yes]
        /\ UNCHANGED <<ticket, until>>
     \/ /\ asked[i].kind # "checkout"
        /\ \E left \in IF Open /\ asked[i].kind \in dated
                       THEN {until - now, until - now + 1} ELSE {0} :
             asked' = [asked EXCEPT ![i].state = "served", ![i].yes = Open,
                                    ![i].left = left]
        /\ UNCHANGED <<ticket, until>>
  /\ UNCHANGED <<now, garbled>>

Arrive(i) ==
  /\ asked[i].state = "served"
  /\ asked' = [asked EXCEPT ![i].state = "seen",
                            ![i].when = IF asked[i].kind = "checkout" THEN now ELSE 0]
  /\ UNCHANGED <<now, ticket, until, garbled>>

Garble(i) ==
  /\ asked[i].state = "served" /\ garbled < MaxGarbled
  /\ asked' = [asked EXCEPT ![i].state = "bad"]
  /\ garbled' = garbled + 1
  /\ UNCHANGED <<now, ticket, until>>

Tick ==
  /\ now < MaxTime /\ now' = now + 1
  /\ UNCHANGED <<ticket, until, asked, garbled>>

\* The owner spends the ticket on this episode from elsewhere.
SpendElsewhere ==
  /\ Others /\ ticket /\ ~Open
  /\ ticket' = FALSE /\ until' = now + Term
  /\ UNCHANGED <<now, asked, garbled>>

Site(dated) ==
  \/ \E kind \in Kinds \ {"checkout"} : Ask(dated, kind)
  \/ \E i \in Index : Serve(dated, i) \/ Arrive(i) \/ Garble(i)
  \/ Tick
  \/ SpendElsewhere
===============================================================================
