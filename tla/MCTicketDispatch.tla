--------------------------- MODULE MCTicketDispatch ---------------------------
(* Model values for TicketDispatch: one triple per kind of dispatch target. *)
EXTENDS TicketDispatch, TLC

CONSTANTS parked, todo, doing, done, gone

MCTargetOf ==
  [v \in Triples |-> CASE v = done -> "cleanup"
                       [] v = gone -> "shorthand"
                       [] v \in {parked, Blank} -> "none"
                       [] OTHER -> "rule"]

(* Tasks are interchangeable: no action or property tells two apart. *)
TaskSymmetry == Permutations(TaskIds)
===============================================================================
