------------------------------- MODULE Quota -------------------------------
(***************************************************************************)
(* What per-client rate limiting promises (README "Security", middleware.py*)
(* 48-52): in each window a client is let through at most Limit times, and *)
(* is refused only when it has been let through that often.  Clients do    *)
(* not share a quota.  A window ends by the clock only; a process that     *)
(* starts anew within one renews every quota, for it has forgotten them.   *)
(***************************************************************************)
EXTENDS Integers

CONSTANTS Clients, Limit

VARIABLES
  window,   \* the window of the clock
  passed,   \* how often each client has been let through in it
  refused   \* the clients that have been refused in it

quotaVars == <<window, passed, refused>>

Init ==
  /\ window = 0
  /\ passed = [k \in Clients |-> 0]
  /\ refused = {}

Pass(k) ==
  /\ passed[k] < Limit
  /\ passed' = [passed EXCEPT ![k] = @ + 1]
  /\ UNCHANGED <<window, refused>>

Refuse(k) ==
  /\ passed[k] = Limit
  /\ refused' = refused \cup {k}
  /\ UNCHANGED <<window, passed>>

Renew ==
  /\ passed' = [k \in Clients |-> 0]
  /\ refused' = {}

NextWindow == window' = window + 1 /\ Renew
StartAnew == Renew /\ UNCHANGED window

Next == (\E k \in Clients : Pass(k) \/ Refuse(k)) \/ NextWindow \/ StartAnew

Spec == Init /\ [][Next]_quotaVars
=============================================================================
