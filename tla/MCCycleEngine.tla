----------------------------- MODULE MCCycleEngine -----------------------------
(* Workflows for CycleEngine, written as an author would and expanded. *)
EXTENDS CycleEngine, WorkflowExpansion

MCRank == [s \in Ids |-> CASE s = "a" -> 1 [] s = "b" -> 2 [] s = "h" -> 3 [] OTHER -> 0]

Task(id, directives, guarded) ==
  [id |-> id, on_fail |-> Unset, directives |-> directives, max_visits |-> Unset,
   guarded |-> guarded]

Sugar(tasks) ==
  [tasks |-> tasks, states |-> [s \in {} |-> Unset], terminals |-> [t \in {} |-> ""],
   on_fail |-> Unset]

None == [d \in {} |-> Unset]
Go(id) == [d \in {"go"} |-> id]

(* One task that may run again; two in a row; one that names nothing.      *)
Again == Sugar(<<Task("a", Go("a"), FALSE)>>)
Chain == Sugar(<<Task("a", None, FALSE), Task("b", Go("a"), TRUE)>>)
Nowhere == Sugar(<<Task("a", Go("nowhere"), FALSE)>>)
Plain == Sugar(<<Task("h", None, FALSE)>>)

Loaded(bodies) == {Expand(body) : body \in {b \in bodies : Loads(b)}}

Workflow(rule, cleanup, handler, handles) ==
  [machines |-> [k \in {"rule", "cleanup", "failure"} |->
                   CASE k = "rule" -> rule [] k = "cleanup" -> cleanup
                     [] k = "failure" -> handler],
   handles |-> handles]

MCWorkflows ==
  LET handled == {"process_crash", "recursion_bound"}
      plain == Expand(Plain)
  IN  {Workflow(rule, plain, plain, handled) : rule \in Loaded({Again, Nowhere})}
        \cup {Workflow(rule, ImmediateDelete, plain, handled) :
                 rule \in Loaded({Chain})}

(* The retry of the end-to-end tests: the second task sends back to the first.*)
RetryPair ==
  Sugar(<<Task("a", None, FALSE), Task("b", [d \in {"retry"} |-> "a"], FALSE)>>)

RuleOnly(bodies) ==
  {[machines |-> [k \in {"rule"} |-> rule], handles |-> {}] : rule \in Loaded(bodies)}
PairWorkflows == RuleOnly({RetryPair})
PlainWorkflows == RuleOnly({Plain})

Directed(name, label) == [directive |-> name, outcome |-> label]

MCPayloads ==
  {Directed("go", NoOutcome), Directed("bogus", NoOutcome),
   Directed("skip", NoOutcome), Directed("end", "cancelled")}
RetryPayloads == {Directed("retry", NoOutcome)}

(* A state whose author declared no cap, and that a directive re-enters, is *)
(* refused only after the default number of visits.                         *)
UndeclaredCapIsDefault ==
  pc = "failed" /\ failure = "recursion_bound" => visits[current] > DefaultCap
================================================================================
