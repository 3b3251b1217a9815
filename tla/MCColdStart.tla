----------------------------- MODULE MCColdStart ------------------------------
(***************************************************************************)
(* A small instance of ColdStart: workflow files with explicit statuses,   *)
(* with a cleanup that drops the filter, with an override per repository,  *)
(* and one that does not parse.                                            *)
(***************************************************************************)
EXTENDS ColdStart, TLC

CONSTANTS t1, t2, me, other, stray

Raw(assignee, repos, rules, cleanup) ==
  [admission |-> [assignee |-> assignee, repos |-> repos], rules |-> rules,
   cleanup |-> cleanup, on_failure |-> <<>>]

Repo(ghq) == [ghq |-> ghq, workflow |-> None]
Split(ghq, form) == [ghq |-> ghq, workflow |-> [form |-> form, name |-> "repo.yaml"]]

OnStatus(m) == [NoClause EXCEPT !.status = m]
OnLabel(l, m) ==
  [NoClause EXCEPT !.status = m, !.labels = [has_all |-> {l}, has_any |-> NoMatcher, has_none |-> {"hold"}]]

Rule(when) == [when |-> when, keys |-> {"tasks"}]
Delete(when) == [when |-> when, keys |-> {}]

Explicit ==
  [path \in {"WORKFLOW.yaml"} |->
     Raw("me", <<Repo("r1")>>, <<Rule(OnStatus(Eq("todo")))>>, <<Delete(OnStatus(Eq("done")))>>)]

Dropped ==
  [path \in {"WORKFLOW.yaml"} |->
     Raw("me", <<Repo("r2"), Repo("r1")>>, <<Rule(OnLabel("agent", Eq("todo")))>>,
         <<Rule(OnStatus(Not("todo")))>>)]

Overridden ==
  [path \in {"WORKFLOW.yaml", "repo.yaml"} |->
     IF path = "repo.yaml"
     THEN [Raw("me", <<>>, <<Rule(OnStatus(In({"todo", "done"})))>>, <<>>)
             EXCEPT !.admission = None]
     ELSE Raw("me", <<Split("r1", "relative")>>,
              <<Rule(OnStatus(Eq("done")))>>, <<>>)]

Broken ==
  [path \in {"WORKFLOW.yaml"} |-> Raw("me", <<>>, <<Delete(NoMatcher)>>, <<>>)]

AllFiles == {Explicit, Dropped, Overridden, Broken}

AllStates ==
  {[assignee |-> me, status |-> "todo", labels |-> {"agent"}],
   [assignee |-> me, status |-> "done", labels |-> {}],
   [assignee |-> other, status |-> "todo", labels |-> {}]}

TicketSymmetry == Permutations(Tickets)
===============================================================================
