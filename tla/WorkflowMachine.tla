---------------------------- MODULE WorkflowMachine ----------------------------
(***************************************************************************)
(* The canonical state machine of a workflow entry, as data: what sugar    *)
(* expansion produces, validation judges and the cycle engine interprets.  *)
(*                                                                         *)
(* The maps of the source are functions whose domain is the set of         *)
(* declared ids.  A command, a prompt path, a timeout and a Liquid         *)
(* expression have no bearing on the control flow; of a state's `if:` only *)
(* its presence is kept.                                                   *)
(***************************************************************************)
EXTENDS Naturals

CONSTANTS
  StateIds,     (* the ids an author may give to a state or a terminal     *)
  Directives    (* the directive names an author may bind or a process emit*)

Success == "__success__"
Failure == "__failure__"
NoAction == "__no_action__"
Cancelled == "__cancelled__"
BuiltinTerminals == {Success, Failure, NoAction, Cancelled}

Ids == StateIds \cup BuiltinTerminals

(* An edge remembers whether its target was taken for a state or a terminal. *)
Edge == [kind : {"state", "terminal"}, id : Ids]
ToState(id) == [kind |-> "state", id |-> id]
ToTerminal(id) == [kind |-> "terminal", id |-> id]

(* State and StateMachine, as predicates: their sets are not enumerable. *)
IsState(state) ==
  /\ DOMAIN state = {"on_done", "on_fail", "directives", "max_visits", "guarded"}
  /\ {state.on_done, state.on_fail} \subseteq Edge
  /\ DOMAIN state.directives \subseteq Directives
  /\ \A d \in DOMAIN state.directives : state.directives[d] \in Edge
  /\ state.max_visits \in Nat
  /\ state.guarded \in BOOLEAN

IsMachine(m) ==
  /\ DOMAIN m = {"start", "states", "terminals"}
  /\ {m.start} \cup DOMAIN m.states \cup DOMAIN m.terminals \subseteq Ids
  /\ \A s \in DOMAIN m.states : IsState(m.states[s])

(* default_outcome_for; an author's terminal may carry any other label. *)
BuiltinOutcome ==
  [t \in BuiltinTerminals |->
     CASE t = Success -> "success"
       [] t = Failure -> "failure"
       [] t = NoAction -> "no_action"
       [] t = Cancelled -> "cancelled"]

(* Every edge a state declares. *)
Edges(state) ==
  {state.on_done, state.on_fail}
    \cup {state.directives[d] : d \in DOMAIN state.directives}

(* A name that leads nowhere. *)
NoEdge == [kind |-> "none"]

(* The directives every state understands without declaring them. *)
BuiltinDirectives(id) ==
  [end |-> ToTerminal(Success), skip |-> ToTerminal(NoAction),
   fail |-> ToTerminal(Failure), cancel |-> ToTerminal(Cancelled),
   retry |-> ToState(id)]

(* resolve_directive: the state's own table first, then the built-in names. *)
ResolveDirective(name, id, state) ==
  IF name \in DOMAIN state.directives THEN state.directives[name]
  ELSE IF name \in DOMAIN BuiltinDirectives(id) THEN BuiltinDirectives(id)[name]
  ELSE NoEdge
=============================================================================
