------------------------------- MODULE TarjanScc -------------------------------
(***************************************************************************)
(* expand_body and validate for one workflow entry, with Tarjan's          *)
(* algorithm for the strongly connected components spelled out: it runs    *)
(* twice, before the default caps are injected and again in validation,    *)
(* after the edges to terminals have been told apart.                      *)
(*                                                                         *)
(* The recursion of tarjan_strongconnect is an explicit stack of frames.   *)
(* The source visits roots and neighbours in the order of their ids and of *)
(* the edge fields; here the order is arbitrary.                           *)
(***************************************************************************)
EXTENDS WorkflowExpansion, SequencesExt

CONSTANT Bodies      (* the bodies an author may write *)

ASSUME BodiesAssumption == \A raw \in Bodies : IsRawBody(raw)

VARIABLES
  body,       (* the raw body, fixed at the start                           *)
  m,          (* the machine built from it so far                           *)
  stage,      (* what happens next                                          *)
  indices,    (* discovery index of every state discovered so far           *)
  lowlinks,   (* least index each of them is known to reach                 *)
  stack,      (* discovered states without a component, oldest first        *)
  on_stack,   (* the same as flags                                          *)
  sccs,       (* components found so far                                    *)
  frames      (* active calls: the state, and the neighbours it has to scan *)

tarjan == <<indices, lowlinks, stack, on_stack, sccs, frames>>
vars == <<body, m, stage, tarjan>>

Empty == [s \in {} |-> 0]

(* The source keeps None for the others. *)
Discovered == DOMAIN indices

NoStates == [start |-> Success, states |-> Empty, terminals |-> Empty]

Init ==
  /\ body \in Bodies
  /\ m = NoStates
  /\ stage = "build"
  /\ indices = Empty
  /\ lowlinks = Empty
  /\ stack = <<>>
  /\ on_stack = {}
  /\ sccs = {}
  /\ frames = <<>>

(* EmptyTasks, or the machine with its implicit terminals. *)
BuildMachine ==
  /\ stage = "build"
  /\ IF HasBody(body)
       THEN m' = Assemble(body) /\ stage' = "cap"
       ELSE stage' = "rejected" /\ UNCHANGED m
  /\ UNCHANGED <<body, tarjan>>

-----------------------------------------------------------------------------
(* tarjan_strongconnect *)

Searching == stage \in {"cap", "validate"}
Top == Last(frames)
LowerTo(s, n) == [lowlinks EXCEPT ![s] = IF n < @ THEN n ELSE @]
Extend(f, s, n) == [t \in DOMAIN f \cup {s} |-> IF t = s THEN n ELSE f[t]]

(* The call for s, made from the given frames. *)
Enter(s, callers) ==
  /\ indices' = Extend(indices, s, Cardinality(Discovered))
  /\ lowlinks' = Extend(lowlinks, s, Cardinality(Discovered))
  /\ stack' = Append(stack, s)
  /\ on_stack' = on_stack \cup {s}
  /\ frames' = Append(callers, [state |-> s, rest |-> Neighbours(m, s)])
  /\ UNCHANGED <<body, m, stage, sccs>>

Root(s) ==
  /\ Searching
  /\ frames = <<>>
  /\ s \notin Discovered
  /\ Enter(s, <<>>)

(* The frames after the current call has taken w from its neighbours. *)
Took(w) == [frames EXCEPT ![Len(frames)].rest = @ \ {w}]

Descend(w) ==
  /\ w \in Top.rest
  /\ w \notin Discovered
  /\ Enter(w, Took(w))

(* An edge to a state that is discovered: it counts if it is on the stack. *)
Scan(w) ==
  /\ w \in Top.rest
  /\ w \in Discovered
  /\ lowlinks' = IF w \in on_stack THEN LowerTo(Top.state, indices[w]) ELSE lowlinks
  /\ frames' = Took(w)
  /\ UNCHANGED <<body, m, stage, indices, stack, on_stack, sccs>>

(* Mutant of Above: one pop too few for a component of several states. *)
AboveItself(s) == {s}

(* The top of the stack down to and including s. *)
Above(s) ==
  {stack[i] : i \in {j \in DOMAIN stack : \E k \in 1 .. j : stack[k] = s}}

(* What is left of it. *)
Below(s) == SubSeq(stack, 1, (CHOOSE k \in DOMAIN stack : stack[k] = s) - 1)

(* The call returns, with its component if it is the root of one. *)
Return ==
  LET s == Top.state
      callers == Front(frames)
  IN  /\ Top.rest = {}
      /\ IF lowlinks[s] = indices[s]
           THEN /\ sccs' = sccs \cup {Above(s)}
                /\ stack' = Below(s)
                /\ on_stack' = on_stack \ Above(s)
           ELSE UNCHANGED <<sccs, stack, on_stack>>
      /\ lowlinks' = IF callers = <<>> THEN lowlinks
                     ELSE LowerTo(Last(callers).state, lowlinks[s])
      /\ frames' = callers
      /\ UNCHANGED <<body, m, stage, indices>>

Search ==
  /\ Searching
  /\ \/ \E s \in DOMAIN m.states : Root(s)
     \/ frames # <<>> /\ (Return \/ \E w \in Top.rest : Descend(w) \/ Scan(w))

(* Every state has its component. *)
Searched == Searching /\ frames = <<>> /\ Discovered = DOMAIN m.states

-----------------------------------------------------------------------------
(* Passes 5 and 4. *)

Reset ==
  /\ indices' = Empty
  /\ lowlinks' = Empty
  /\ stack' = <<>>
  /\ on_stack' = {}
  /\ sccs' = {}
  /\ frames' = <<>>

Cap ==
  /\ Searched
  /\ stage = "cap"
  /\ m' = Finish(m, sccs)
  /\ stage' = "validate"
  /\ Reset
  /\ UNCHANGED body

Validate ==
  /\ Searched
  /\ stage = "validate"
  /\ stage' = IF Valid(m, sccs) THEN "loaded" ELSE "rejected"
  /\ UNCHANGED <<body, m, tarjan>>

Done == stage \in {"loaded", "rejected"} /\ UNCHANGED vars

Next == BuildMachine \/ Search \/ Cap \/ Validate \/ Done

Spec == Init /\ [][Next]_vars

-----------------------------------------------------------------------------
(* Properties. *)

TypeOK ==
  /\ stage \in {"build", "cap", "validate", "loaded", "rejected"}
  /\ IsMachine(m)
  /\ Discovered \subseteq DOMAIN m.states
  /\ DOMAIN lowlinks = Discovered
  /\ stack \in Seq(Discovered)
  /\ on_stack \subseteq Discovered
  /\ sccs \subseteq SUBSET Discovered
  /\ \A i \in DOMAIN frames :
       frames[i].state \in on_stack /\ frames[i].rest \subseteq DOMAIN m.states

(* The stack between two calls: it and the components share the discovered *)
(* states out among them, it is in order of discovery, and every state on  *)
(* it reaches a state whose call is still active and that is not younger;  *)
(* so popping it down to a root never takes too much or leaves some behind.*)
StackWaitsForItsRoot ==
  Searching =>
    /\ on_stack = ToSet(stack) /\ IsInjective(stack)
    /\ Discovered = on_stack \cup UNION sccs
    /\ on_stack \cap UNION sccs = {}
    /\ \A i \in 2 .. Len(stack) : indices[stack[i - 1]] < indices[stack[i]]
    /\ \A s \in on_stack :
         \E i \in DOMAIN frames :
           /\ indices[frames[i].state] <= indices[s]
           /\ Reaches(m, s, frames[i].state)

(* Both searches find exactly the classes of mutual reachability, and never*)
(* emit anything else on the way.                                          *)
SccsAreComponents ==
  Searching =>
    /\ sccs \subseteq Components(m)
    /\ Searched => sccs = Components(m)

Overlap == DOMAIN m.states \cap DOMAIN m.terminals

(* Injection leaves no loop for validation to complain about.  The ids of  *)
(* states and terminals have to be disjoint for that: pass 5 runs before   *)
(* the edges are classified, and caps a loop that classification then      *)
(* takes apart when one of its ids is a terminal too.                      *)
CapsReachDisjointLoops ==
  stage = "validate" /\ Overlap = {} => LoopsBounded(m, Components(m))

(* What an author may rely on: ids that exist or are built in, no id used  *)
(* for a state and a terminal, a start that is a state.                    *)
WellWritten ==
  /\ HasBody(body)
  /\ LET raw == Build(body)
     IN  /\ Referenced(raw) \subseteq
              DOMAIN raw.states \cup DOMAIN raw.terminals \cup BuiltinTerminals
         /\ raw.start \in DOMAIN raw.states
         /\ DOMAIN raw.states \cap (DOMAIN raw.terminals \cup BuiltinTerminals) = {}

(* The passes together: a well-written entry is never turned down, whether *)
(* it is sugar or canonical and whatever loops it has.                     *)
WellWrittenLoads == WellWritten => stage # "rejected"

(* A machine that loads is closed, its start is a state, or a terminal if   *)
(* it has no states, and it is the one that Expand defines without the     *)
(* algorithm.                                                              *)
LoadedAsDefined ==
  stage = "loaded" =>
    /\ m = Expand(body)
    /\ m.start \in IF DOMAIN m.states = {} THEN DOMAIN m.terminals ELSE DOMAIN m.states
    /\ \A s \in DOMAIN m.states : \A e \in Edges(m.states[s]) :
         e.kind = "terminal" <=> e.id \in DOMAIN m.terminals

(* The search is right at every step, its types included: what is on the   *)
(* stack waits for its root, and what is emitted is a component            *)
(* (tarjan_strongconnect).                                                 *)
SearchInv == TypeOK /\ StackWaitsForItsRoot /\ SccsAreComponents

(* The loader turns down nothing that is well written and changes nothing  *)
(* of what it loads (expand_body, validate_rule).                          *)
LoadingInv == WellWrittenLoads /\ LoadedAsDefined
=============================================================================
