--------------------------- MODULE WorkflowExpansion ---------------------------
(***************************************************************************)
(* Loading a workflow entry: the five passes that turn the body an author  *)
(* writes, canonical or sugar, into a canonical machine, and the           *)
(* validation of the result.  All of it is pure, so all of it is operators;*)
(* TarjanScc holds the algorithm behind the strongly connected components  *)
(* that are only defined here.                                             *)
(*                                                                         *)
(* A raw state is a canonical state whose fields may be Unset and whose    *)
(* edges are bare ids.  A raw body is canonical (start, states, terminals) *)
(* or sugar (tasks, states, terminals, on_fail); tasks is a sequence of    *)
(* raw states that carry an id.                                            *)
(***************************************************************************)
EXTENDS WorkflowMachine, Sequences, FiniteSets

CONSTANTS
  Unset,        (* an optional field that the author left out              *)
  Rank,         (* the lexicographic order of the ids                      *)
  DefaultCap    (* ExpandConfig::default_max_iterations                    *)

ASSUME RankAssumption == Rank \in [Ids -> Nat]

(* The daemon loads with the default configuration, whose cap is 50.       *)
ASSUME CapAssumption == DefaultCap \in Nat /\ DefaultCap > 1

OrElse(value, default) == IF value = Unset THEN default ELSE value

IdOrElse(id, default) == IF id = Unset THEN ToTerminal(default) ELSE ToState(id)

-----------------------------------------------------------------------------
(* What the parser lets through: RawStateEntry or RawTaskEntry with the     *)
(* named optional exits, and RawRuleBody.                                   *)
IsRawState(raw, exits) ==
  /\ \A exit \in exits : raw[exit] \in Ids \cup {Unset}
  /\ DOMAIN raw.directives \subseteq Directives
  /\ \A d \in DOMAIN raw.directives : raw.directives[d] \in Ids
  /\ raw.max_visits \in Nat \cup {Unset}
  /\ raw.guarded \in BOOLEAN

IsSugar(body) == "tasks" \in DOMAIN body

IsRawBody(body) ==
  /\ DOMAIN body.states \cup DOMAIN body.terminals \subseteq Ids
  /\ \A id \in DOMAIN body.states : IsRawState(body.states[id], {"on_done", "on_fail"})
  /\ IF IsSugar(body)
       THEN /\ body.tasks \in Seq({body.tasks[i] : i \in DOMAIN body.tasks})
            /\ body.on_fail \in Ids \cup {Unset}
            /\ \A i \in DOMAIN body.tasks :
                 IsRawState(body.tasks[i], {"on_fail"}) /\ body.tasks[i].id \in Ids
       ELSE body.start \in Ids

-----------------------------------------------------------------------------
(* Raw to canonical. *)

(* Fields common to a raw state and a task.  Both forms of a directive keep *)
(* their target only.                                                      *)
StateFrom(raw, on_done, on_fail) ==
  [on_done |-> on_done, on_fail |-> on_fail,
   directives |-> [d \in DOMAIN raw.directives |-> ToState(raw.directives[d])],
   max_visits |-> OrElse(raw.max_visits, 1), guarded |-> raw.guarded]

ConvertState(raw) ==
  StateFrom(raw, IdOrElse(raw.on_done, Success), IdOrElse(raw.on_fail, Failure))

ConvertStates(raw) == [id \in DOMAIN raw |-> ConvertState(raw[id])]

(* Task i is chained to the one after it, the last one to success. *)
TaskToState(tasks, i, rule_on_fail) ==
  StateFrom(tasks[i],
            IF i < Len(tasks) THEN ToState(tasks[i + 1].id) ELSE ToTerminal(Success),
            IdOrElse(OrElse(tasks[i].on_fail, rule_on_fail), Failure))

(* Tasks are inserted in order over the inline states: the last one with an *)
(* id is the one that stays.                                               *)
BuildSugar(body) ==
  LET named(id) == {i \in DOMAIN body.tasks : body.tasks[i].id = id}
      last(id) == CHOOSE i \in named(id) : \A j \in named(id) : j <= i
      inline == ConvertStates(body.states)
  IN  [start |-> body.tasks[1].id,
       states |-> [id \in DOMAIN inline
                        \cup {body.tasks[i].id : i \in DOMAIN body.tasks} |->
                     IF named(id) # {}
                       THEN TaskToState(body.tasks, last(id), body.on_fail)
                       ELSE inline[id]],
       terminals |-> body.terminals]

BuildCanonical(body) ==
  [start |-> body.start, states |-> ConvertStates(body.states),
   terminals |-> body.terminals]

HasBody(body) == IsSugar(body) => body.tasks # <<>>

Build(body) == IF IsSugar(body) THEN BuildSugar(body) ELSE BuildCanonical(body)

-----------------------------------------------------------------------------
(* Pass 1: a built-in terminal that is referred to need not be declared. *)

(* Mutant of Referenced: the directives are forgotten. *)
ReferencedByExits(m) ==
  {m.start} \cup {m.states[s].on_done.id : s \in DOMAIN m.states}
            \cup {m.states[s].on_fail.id : s \in DOMAIN m.states}

Referenced(m) ==
  {m.start} \cup {e.id : e \in UNION {Edges(m.states[s]) : s \in DOMAIN m.states}}

ImplicitTerminals(m) ==
  LET added == (BuiltinTerminals \cap Referenced(m)) \ DOMAIN m.terminals
  IN  [m EXCEPT !.terminals =
         [t \in DOMAIN m.terminals \cup added |->
            IF t \in added THEN BuiltinOutcome[t] ELSE m.terminals[t]]]

-----------------------------------------------------------------------------
(* Pass 5: a cap for every loop that declares none. *)

(* state_state_neighbors: what a state reaches through an edge to a state. *)
Neighbours(m, s) ==
  {e.id : e \in {f \in Edges(m.states[s]) : f.kind = "state"}} \cap DOMAIN m.states

(* A set of states that no edge leaves; one state reaches another if every *)
(* such set that holds the one holds the other.                            *)
Closed(m, S) == \A s \in S : Neighbours(m, s) \subseteq S

Reaches(m, s, t) == \A S \in SUBSET DOMAIN m.states : s \in S /\ Closed(m, S) => t \in S

(* What tarjan_scc computes: the classes of mutual reachability. *)
Component(m, s) == {t \in DOMAIN m.states : Reaches(m, s, t) /\ Reaches(m, t, s)}
Components(m) == {Component(m, s) : s \in DOMAIN m.states}

(* Two states in a loop, or one with an edge to itself. *)
IsLoop(m, scc) ==
  \/ Cardinality(scc) > 1
  \/ \E s \in scc : s \in Neighbours(m, s)

Declares(m, scc) == \E s \in scc : m.states[s].max_visits > 1

First(scc) == CHOOSE s \in scc : \A t \in scc : Rank[s] <= Rank[t]

(* Mutant of CapLoops: a state with an edge to itself is no loop. *)
CapLoopsOfTwo(m, sccs) ==
  LET entries == {First(scc) : scc \in {c \in sccs : Cardinality(c) > 1 /\ ~Declares(m, c)}}
  IN  [m EXCEPT !.states =
         [s \in DOMAIN m.states |->
            IF s \in entries
              THEN [m.states[s] EXCEPT !.max_visits = DefaultCap] ELSE m.states[s]]]

(* inject_if_unset on the first id of each loop in which nobody declares a *)
(* cap; "1" and "unset" are the same to both tests.                        *)
CapLoops(m, sccs) ==
  LET entries == {First(scc) : scc \in {c \in sccs : IsLoop(m, c) /\ ~Declares(m, c)}}
  IN  [m EXCEPT !.states =
         [s \in DOMAIN m.states |->
            IF s \in entries
              THEN [m.states[s] EXCEPT !.max_visits = DefaultCap] ELSE m.states[s]]]

(* Edges that lead to a terminal are marked so. *)
Classify(m) ==
  LET mark(e) == IF e.id \in DOMAIN m.terminals THEN ToTerminal(e.id) ELSE e
  IN  [m EXCEPT !.states =
         [s \in DOMAIN m.states |->
            [m.states[s] EXCEPT
               !.on_done = mark(@), !.on_fail = mark(@),
               !.directives = [d \in DOMAIN @ |-> mark(@[d])]]]]

(* expand_body up to the point where the loops of the machine are needed, *)
(* the rest of it, and all of it.                                          *)
Assemble(body) == ImplicitTerminals(Build(body))
Finish(m, sccs) == Classify(CapLoops(m, sccs))
Expand(body) == Finish(Assemble(body), Components(Assemble(body)))

-----------------------------------------------------------------------------
(* Pass 4: validation. *)

ValidStart(m) ==
  \/ DOMAIN m.states = {} /\ m.start \in DOMAIN m.terminals
  \/ m.start \in DOMAIN m.states /\ m.start \notin DOMAIN m.terminals

(* Of the ids here only the built-in ones carry the reserved prefix. *)
ValidIds(m) == DOMAIN m.states \cap BuiltinTerminals = {}

(* Mutant of ValidEdges: the targets of directives are not looked up. *)
ValidExits(m) ==
  \A s \in DOMAIN m.states :
    {m.states[s].on_done.id, m.states[s].on_fail.id}
      \subseteq DOMAIN m.states \cup DOMAIN m.terminals

ValidEdges(m) ==
  \A s \in DOMAIN m.states :
    \A e \in Edges(m.states[s]) : e.id \in DOMAIN m.states \cup DOMAIN m.terminals

LoopsBounded(m, sccs) == \A scc \in sccs : IsLoop(m, scc) => Declares(m, scc)

Valid(m, sccs) == ValidStart(m) /\ ValidIds(m) /\ ValidEdges(m) /\ LoopsBounded(m, sccs)

(* expand, for one entry: it loads, as Expand(body). *)
Loads(body) == HasBody(body) /\ Valid(Expand(body), Components(Expand(body)))

(* immediate_delete_state_machine: an empty cleanup entry. *)
ImmediateDelete ==
  [start |-> Success, states |-> [s \in {} |-> Success],
   terminals |-> [t \in {Success} |-> "cleaned"]]
=============================================================================
