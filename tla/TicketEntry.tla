----------------------------- MODULE TicketEntry -----------------------------
(* What a site adapter promises of entering an episode with a ticket, all    *)
(* that the batch relies on when it books the ticket or passes the episode   *)
(* over: one action at most, a report only of a ticket that is gone, no      *)
(* silence about an action, and "unavailable" only where there was none.     *)

VARIABLES
  acted,     \* the one action that may spend a ticket was taken
  spent,     \* a ticket of the work went on this episode
  reported,  \* get_access_consumption says so
  result     \* how initialize ended, "none" before

vars == <<acted, spent, reported, result>>

Ends == {"entered", "unavailable", "unconfirmed", "failed", "cancelled"}

Init == ~acted /\ ~spent /\ ~reported /\ result = "none"

Act ==
  /\ result = "none" /\ ~acted
  /\ acted' = TRUE
  /\ UNCHANGED <<spent, reported, result>>

\* By the action, or by the account's owner elsewhere.  It may come late.
Spend ==
  /\ spent' = TRUE
  /\ UNCHANGED <<acted, reported, result>>

Report ==
  /\ result = "none" /\ acted /\ spent
  /\ reported' = TRUE
  /\ UNCHANGED <<acted, spent, result>>

End(how) ==
  /\ result = "none"
  /\ how = "entered" => reported = acted
  /\ how = "unavailable" => ~acted
  /\ how = "unconfirmed" => acted
  /\ result' = how
  /\ UNCHANGED <<acted, spent, reported>>

Next == Act \/ Spend \/ Report \/ \E how \in Ends : End(how)

Spec == Init /\ [][Next]_vars
===============================================================================
