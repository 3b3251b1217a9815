----------------------------- MODULE CycleHistory -----------------------------
(***************************************************************************)
(* What the engine promises to whoever reads the cycles table of a ticket, *)
(* without saying how: the history grows one cycle at a time, a cycle is   *)
(* closed once and its outcome is final, a handler's cycle comes at once   *)
(* after the failure it handles, and a daemon that comes back closes the   *)
(* cycle it died in, as a failure, before the next one begins.             *)
(***************************************************************************)
EXTENDS Naturals, Sequences

CONSTANTS
  Kinds,      (* kinds of cycle, "failure" is a handler's *)
  Outcomes    (* what a cycle may come to                 *)

VARIABLES
  history,    (* the cycles of the ticket, oldest first        *)
  stage       (* "idle", "working", "failed" or "dead"          *)

vars == <<history, stage>>

Newest == history[Len(history)]

Init ==
  /\ history = <<>>
  /\ stage = "idle"

Open(kind) == history' = Append(history, [kind |-> kind, outcome |-> "open"])

Close(outcome) ==
  /\ Newest.outcome = "open"
  /\ history' = [history EXCEPT ![Len(history)].outcome = outcome]

Begin(kind) ==
  /\ stage = "idle"
  /\ kind # "failure"
  /\ Open(kind)
  /\ stage' = "working"

End(outcome) ==
  /\ stage = "working"
  /\ Close(outcome)
  /\ stage' = "idle"

Fail ==
  /\ stage = "working"
  /\ Close("failure")
  /\ stage' = "failed"

Handle ==
  /\ stage = "failed"
  /\ Newest.kind # "failure"
  /\ Open("failure")
  /\ stage' = "working"

GiveUp ==
  /\ stage = "failed"
  /\ stage' = "idle"
  /\ UNCHANGED history

Die ==
  /\ stage # "dead"
  /\ stage' = "dead"
  /\ UNCHANGED history

Recover ==
  /\ stage = "dead"
  /\ IF history # <<>> /\ Newest.outcome = "open"
       THEN Close("failure") ELSE UNCHANGED history
  /\ stage' = "idle"

Next ==
  \/ \E kind \in Kinds : Begin(kind)
  \/ \E outcome \in Outcomes : End(outcome)
  \/ Fail \/ Handle \/ GiveUp
  \/ Die \/ Recover

Spec == Init /\ [][Next]_vars
=============================================================================
