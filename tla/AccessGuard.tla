------------------------------ MODULE AccessGuard ------------------------------
(* The guard that watches one page of a site and the calls it interrupts.  *)
(* All of it runs in one event loop: a browser event, the monitor and the  *)
(* waiter of a call are steps of their own between the awaits of the rest. *)
EXTENDS Naturals

VARIABLES
  challenged,  \* the page shows a challenge or a CAPTCHA
  stop,        \* _stop_error: why the site wants no more, or "none"
  watching,    \* the response listener and the DOM monitor are attached
  answer,      \* the adapter call under way: "none" yet, "ok" or "raised"
  heard        \* the waiter for a stop that belongs to this call is done

guardVars == <<challenged, stop, watching>>
callVars == <<answer, heard>>

Refusals == {"http_403", "http_429", "cf_challenge"}
Reasons == Refusals \cup {"challenge_detected"}

GuardTypeOK ==
  /\ challenged \in BOOLEAN
  /\ stop \in Reasons \cup {"none"}
  /\ watching \in BOOLEAN
  /\ answer \in {"none", "ok", "raised"}
  /\ heard \in BOOLEAN

WrongStopped == stop \in Refusals
Stopped == stop # "none"

\* Later reasons are dropped.
StopFor(reason) == stop' = IF Stopped THEN stop ELSE reason

-------------------------------------------------------------------------------
\* A response of a relevant host that the guard is told to stop at.
Refuse(reason) ==
  /\ watching
  /\ StopFor(reason)
  /\ UNCHANGED <<challenged, watching, callVars>>

\* The page puts up a challenge: nobody knows until somebody looks.
Challenge ==
  /\ ~challenged
  /\ challenged' = TRUE
  /\ UNCHANGED <<stop, watching, callVars>>

\* check_page, which the monitor and the crawl call.
LooksAtPage == IF challenged THEN StopFor("challenge_detected") ELSE UNCHANGED stop

Monitor ==
  /\ watching
  /\ ~Stopped
  /\ challenged
  /\ LooksAtPage
  /\ UNCHANGED <<challenged, watching, callVars>>

Observe == Monitor \/ Challenge \/ \E reason \in Refusals : Refuse(reason)

-------------------------------------------------------------------------------
(* A guarded call: the operation and the waiter run side by side; the      *)
(* caller wakes when one of them is done, or when its time is up.          *)

\* The waiter of a call that begins after a stop is done before the caller
\* can wake.
BeginCall == answer' = "none" /\ heard' = Stopped

\* The stop reaches the waiter.
Hear ==
  /\ Stopped /\ ~heard
  /\ heard' = TRUE
  /\ UNCHANGED <<guardVars, answer>>

\* What the caller finds when it wakes.
FoundStop == heard
FoundAnswer == ~FoundStop /\ answer = "ok"
FoundError == ~FoundStop /\ answer = "raised"
FoundNothing == ~FoundStop /\ answer = "none"
===============================================================================
