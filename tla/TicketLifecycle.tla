--------------------------- MODULE TicketLifecycle ---------------------------
(***************************************************************************)
(* What the dispatch core promises, without saying how: a ticket is        *)
(* tracked before anything runs for it, at most one worker runs a cycle    *)
(* for it at a time, and it stays tracked for as long as the cycle runs.   *)
(***************************************************************************)

CONSTANTS Tickets, Workers

VARIABLES
  tracked,   (* the tickets the daemon currently tracks       *)
  workers    (* per ticket: the workers running a cycle for it *)

vars == <<tracked, workers>>

Init ==
  /\ tracked \in SUBSET Tickets
  /\ workers = [t \in Tickets |-> {}]

Track(t) ==
  /\ t \notin tracked
  /\ tracked' = tracked \cup {t}
  /\ UNCHANGED workers

Untrack(t) ==
  /\ t \in tracked
  /\ workers[t] = {}
  /\ tracked' = tracked \ {t}
  /\ UNCHANGED workers

Start(t, w) ==
  /\ t \in tracked
  /\ workers[t] = {}
  /\ workers' = [workers EXCEPT ![t] = {w}]
  /\ UNCHANGED tracked

Finish(t, w) ==
  /\ workers[t] = {w}
  /\ workers' = [workers EXCEPT ![t] = {}]
  /\ UNCHANGED tracked

Next ==
  \E t \in Tickets :
    \/ Track(t)
    \/ Untrack(t)
    \/ \E w \in Workers : Start(t, w) \/ Finish(t, w)

Spec == Init /\ [][Next]_vars
=============================================================================
