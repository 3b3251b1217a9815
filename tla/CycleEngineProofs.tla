--------------------------- MODULE CycleEngineProofs ---------------------------
(***************************************************************************)
(* Proofs about CycleEngine, for every set of well-formed workflows, for   *)
(* every payload a child may write, and without a bound on the cycles or   *)
(* the crashes that the argument would need: MaxCycles and MaxCrashes are  *)
(* any natural numbers.                                                    *)
(***************************************************************************)
EXTENDS CycleEngine, WorkflowExpansion, TLAPS, SequenceTheorems

-----------------------------------------------------------------------------
(* What the operators on rows and machines return. *)

(* A row of the cycles table. *)
Row == [kind : DOMAIN workflow.machines, outcome : Outcomes \cup {"open"}]

(* The loaded workflow is well-formed. *)
LEMMA WorkflowTyped == ASSUME TypeOK PROVE IsWorkflow(workflow)
  BY EngineAssumption DEF TypeOK

(* The last row is a row, and its machine is a machine. *)
LEMMA LastRow ==
  ASSUME TypeOK, rows # <<>>
  PROVE  /\ Cycle \in Nat \ {0}
         /\ DOMAIN rows = 1 .. Cycle
         /\ rows[Cycle] \in Row
         /\ IsMachine(Machine)
<1>1. rows \in Seq(Row)
  BY DEF TypeOK, Row
<1>2. Cycle \in Nat \ {0} /\ DOMAIN rows = 1 .. Cycle
  BY <1>1, EmptySeq, LenProperties DEF Cycle
<1>3. rows[Cycle] \in Row
  BY <1>1, <1>2, ElementOfSeq DEF Cycle
<1>4. IsMachine(Machine)
  BY <1>3, WorkflowTyped DEF Row, IsWorkflow, Machine
<1> QED
  BY <1>2, <1>3, <1>4

(* The edges a state can take lead to ids. *)
LEMMA EdgesLeadToIds ==
  ASSUME NEW m, IsMachine(m), NEW s \in DOMAIN m.states
  PROVE  /\ m.start \in Ids
         /\ DOMAIN m.states \subseteq Ids
         /\ s \in Ids
         /\ m.states[s].on_done.id \in Ids
         /\ m.states[s].on_fail.id \in Ids
         /\ m.states[s].max_visits \in Nat
         /\ \A d \in DOMAIN m.states[s].directives : m.states[s].directives[d].id \in Ids
<1>1. IsState(m.states[s])
  BY DEF IsMachine
<1> QED
  BY <1>1 DEF IsMachine, IsState, Edge

(* So does every directive that resolves. *)
LEMMA DirectiveLeadsToId ==
  ASSUME NEW m, IsMachine(m), NEW s \in DOMAIN m.states, NEW name,
         ResolveDirective(name, s, m.states[s]) # NoEdge
  PROVE  ResolveDirective(name, s, m.states[s]).id \in Ids
<1>1. CASE name \in DOMAIN m.states[s].directives
  BY <1>1, EdgesLeadToIds DEF ResolveDirective
<1>2. CASE name \notin DOMAIN m.states[s].directives
  <2>1. name \in DOMAIN BuiltinDirectives(s)
    BY <1>2 DEF ResolveDirective
  <2>2. \A d \in DOMAIN BuiltinDirectives(s) : BuiltinDirectives(s)[d].id \in Ids
    BY EdgesLeadToIds
    DEF BuiltinDirectives, ToTerminal, ToState, Ids, BuiltinTerminals
  <2> QED
    BY <1>2, <2>1, <2>2 DEF ResolveDirective
<1> QED
  BY <1>1, <1>2

(* Opening a cycle appends an open row and starts its machine afresh. *)
LEMMA Opening ==
  ASSUME TypeOK, NEW kind \in DOMAIN workflow.machines, OpenCycle(kind),
         workflow' = workflow
  PROVE  /\ rows' \in Seq(Row)
         /\ rows' # <<>>
         /\ Cycle \in Nat /\ DOMAIN rows = 1 .. Cycle
         /\ Cycle' = Cycle + 1 /\ DOMAIN rows' = 1 .. Cycle'
         /\ \A i \in DOMAIN rows : rows'[i] = rows[i]
         /\ rows'[Cycle'] = [kind |-> kind, outcome |-> "open"]
         /\ current' \in Ids
         /\ visits' = [id \in Ids |-> 0]
         /\ override' = NoOutcome
<1> DEFINE new == [kind |-> kind, outcome |-> "open"]
<1>1. rows \in Seq(Row) /\ new \in Row
  BY DEF TypeOK, Row
<1>2. rows' = Append(rows, new)
  BY DEF OpenCycle
<1>3. /\ rows' \in Seq(Row)
      /\ Len(rows') = Len(rows) + 1
      /\ \A i \in 1 .. Len(rows) : rows'[i] = rows[i]
      /\ rows'[Len(rows) + 1] = new
  BY <1>1, <1>2
<1>4. Cycle \in Nat /\ DOMAIN rows = 1 .. Cycle
  BY <1>1, LenProperties DEF Cycle
<1>5. DOMAIN rows' = 1 .. Len(rows')
  BY <1>3, LenProperties
<1>6. current' \in Ids
  BY WorkflowTyped DEF IsWorkflow, IsMachine, OpenCycle
<1> QED
  BY <1>3, <1>4, <1>5, <1>6, EmptySeq DEF Cycle, OpenCycle

(* Closing the current row changes no other row, and it not unless open.   *)
LEMMA Closing ==
  ASSUME TypeOK, rows # <<>>, NEW outcome \in Outcomes, CloseRow(Cycle, outcome)
  PROVE  /\ rows' \in Seq(Row)
         /\ rows' # <<>>
         /\ Cycle' = Cycle
         /\ DOMAIN rows' = DOMAIN rows
         /\ \A i \in DOMAIN rows :
              /\ rows'[i].kind = rows[i].kind
              /\ rows[i].outcome # "open" => rows'[i] = rows[i]
         /\ rows[Cycle].outcome = "open" => rows'[Cycle].outcome = outcome
         /\ \A i \in DOMAIN rows : rows'[i].outcome = "open" =>
              rows[i].outcome = "open" /\ i # Cycle
<1> DEFINE closed ==
      [rows[Cycle] EXCEPT !.outcome = IF @ = "open" THEN outcome ELSE @]
<1>1. rows \in Seq(Row)
  BY DEF TypeOK, Row
<1>2. Cycle \in 1 .. Len(rows) /\ DOMAIN rows = 1 .. Len(rows) /\ rows[Cycle] \in Row
  BY LastRow DEF Cycle
<1>3. /\ closed \in Row
      /\ closed.kind = rows[Cycle].kind
      /\ rows[Cycle].outcome = "open" => closed.outcome = outcome
      /\ rows[Cycle].outcome # "open" => closed = rows[Cycle]
  BY <1>2 DEF Row
<1>4. rows' = [rows EXCEPT ![Cycle] = closed]
  BY DEF CloseRow
<1> HIDE DEF closed
<1>5. /\ rows' \in Seq(Row)
      /\ Len(rows') = Len(rows)
      /\ \A i \in 1 .. Len(rows) : rows'[i] = IF i = Cycle THEN closed ELSE rows[i]
  BY <1>1, <1>2, <1>3, <1>4, ExceptSeq
<1>6. Cycle' = Cycle /\ DOMAIN rows' = DOMAIN rows
  BY <1>2, <1>5, LenProperties DEF Cycle
<1>7. rows' # <<>>
  BY <1>2, <1>5, EmptySeq
<1>8. outcome # "open"
  BY DEF Outcomes
<1> QED
  BY <1>2, <1>3, <1>5, <1>6, <1>7, <1>8

-----------------------------------------------------------------------------
(* EngineInv is inductive: one lemma per kind of step. *)

LEMMA Initially == Init => EngineInv
<1> SUFFICES ASSUME Init PROVE EngineInv
  OBVIOUS
<1>1. DOMAIN rows = {} /\ rows \in Seq(Row)
  BY DEF Init
<1>2. DOMAIN files = {}
  BY DEF Init, NoFiles
<1>3. TypeOK
  BY <1>1, <1>2, EngineAssumption
  DEF Init, TypeOK, PCs, Row, Ids, BuiltinTerminals
<1>4. InMachine /\ OpenRowIsRunning /\ VisitsCapped /\ HandlerFollowsFailure
        /\ EscalatedIsStuck
  BY <1>1
  DEF Init, InMachine, OpenRowIsRunning, VisitsCapped, HandlerFollowsFailure,
      EscalatedIsStuck, Driving
<1> QED
  BY <1>3, <1>4 DEF EngineInv

(* What the store holds is safe from a step that leaves it alone. *)
LEMMA StoreKept ==
  ASSUME EngineInv, UNCHANGED <<workflow, rows, escalated>>
  PROVE  /\ HandlerFollowsFailure' /\ EscalatedIsStuck'
         /\ Machine' = Machine /\ Cycle' = Cycle
  BY DEF EngineInv, HandlerFollowsFailure, EscalatedIsStuck, Machine, Cycle

(* A failure inside the machine. *)
LEMMA FailStep ==
  ASSUME EngineInv, pc \in {"land", "visit", "running"},
         NEW kind \in FailureKinds, Fail(kind), UNCHANGED driver
  PROVE  EngineInv'
<1>1. TypeOK'
  BY DEF EngineInv, TypeOK, Fail, driver, PCs
<1>2. HandlerFollowsFailure' /\ EscalatedIsStuck' /\ Machine' = Machine /\ Cycle' = Cycle
  BY StoreKept DEF Fail
<1>3. InMachine'
  BY DEF InMachine, Fail
<1>4. OpenRowIsRunning'
  BY <1>2 DEF EngineInv, OpenRowIsRunning, Driving, Fail
<1>5. VisitsCapped'
  BY <1>2 DEF EngineInv, VisitsCapped, Driving, Fail, driver
<1> QED
  BY <1>1, <1>2, <1>3, <1>4, <1>5 DEF EngineInv

(* An edge that is taken. *)
LEMMA AdvanceStep ==
  ASSUME EngineInv, pc \in {"visit", "running"}, NEW id \in Ids, Advance(id),
         override' \in STRING \cup {NoOutcome}
  PROVE  EngineInv'
<1>1. TypeOK'
  BY DEF EngineInv, TypeOK, Advance, PCs
<1>2. HandlerFollowsFailure' /\ EscalatedIsStuck' /\ Machine' = Machine /\ Cycle' = Cycle
  BY StoreKept DEF Advance
<1>3. InMachine'
  BY DEF InMachine, Advance
<1>4. OpenRowIsRunning'
  BY <1>2 DEF EngineInv, OpenRowIsRunning, Driving, Advance
<1>5. VisitsCapped'
  BY <1>2 DEF EngineInv, VisitsCapped, Driving, Advance
<1> QED
  BY <1>1, <1>2, <1>3, <1>4, <1>5 DEF EngineInv

(* A cycle that is opened while none is running. *)
LEMMA OpenStep ==
  ASSUME EngineInv, NEW kind \in DOMAIN workflow.machines, OpenCycle(kind),
         pc \in {"idle", "route"},
         kind = "failure" => /\ rows # <<>> /\ rows[Cycle].kind # "failure"
                             /\ rows[Cycle].outcome = "failure",
         pc' \in {"land", "shorthand"}, pc' = "shorthand" => kind = "cleanup",
         UNCHANGED <<workflow, failure, files, escalated, orphans, crashes>>
  PROVE  EngineInv'
<1>o. /\ rows' \in Seq(Row)
      /\ rows' # <<>>
      /\ Cycle \in Nat /\ DOMAIN rows = 1 .. Cycle
      /\ Cycle' = Cycle + 1 /\ DOMAIN rows' = 1 .. Cycle'
      /\ \A i \in DOMAIN rows : rows'[i] = rows[i]
      /\ rows'[Cycle'] = [kind |-> kind, outcome |-> "open"]
      /\ current' \in Ids
      /\ visits' = [id \in Ids |-> 0]
      /\ override' = NoOutcome
  BY Opening DEF EngineInv
<1>c. \A i \in DOMAIN rows : rows[i].outcome # "open"
  BY DEF EngineInv, OpenRowIsRunning, Driving
<1>1. TypeOK'
  <2>1. escalated' \subseteq DOMAIN rows'
    BY <1>o DEF EngineInv, TypeOK
  <2>2. (rows \in Seq(Row))'
    BY <1>o DEF Row
  <2> QED
    BY <1>o, <2>1, <2>2 DEF EngineInv, TypeOK, PCs, Row
<1>2. InMachine'
  BY <1>o DEF InMachine
<1>3. OpenRowIsRunning'
  BY <1>o, <1>c DEF OpenRowIsRunning, Driving
<1>4. VisitsCapped'
  <2>1. IsMachine(Machine)'
    BY <1>o, WorkflowTyped DEF EngineInv, IsWorkflow, Machine
  <2> QED
    BY <1>o, <2>1, EdgesLeadToIds DEF VisitsCapped
<1>5. HandlerFollowsFailure'
  BY <1>o DEF EngineInv, HandlerFollowsFailure
<1>6. EscalatedIsStuck'
  BY <1>o DEF EngineInv, EscalatedIsStuck, TypeOK
<1> QED
  BY <1>1, <1>2, <1>3, <1>4, <1>5, <1>6 DEF EngineInv

(* Rows that are only closed: a closed one, and what it stands for, stays. *)
LEMMA ClosedRowsStay ==
  ASSUME EngineInv, DOMAIN rows' = DOMAIN rows,
         \A i \in DOMAIN rows :
           /\ rows'[i].kind = rows[i].kind
           /\ rows[i].outcome # "open" => rows'[i] = rows[i]
  PROVE  /\ HandlerFollowsFailure'
         /\ \A i \in escalated :
              \/ rows'[i] = [kind |-> "failure", outcome |-> "failure"]
              \/ rows'[i].kind = "cleanup" /\ rows'[i].outcome # "open"
<1>d. DOMAIN rows = 1 .. Len(rows) /\ Len(rows) \in Nat
  BY LenProperties DEF EngineInv, TypeOK
<1>1. HandlerFollowsFailure'
  <2> SUFFICES ASSUME NEW i \in DOMAIN rows, rows[i].kind = "failure"
               PROVE  i > 1 /\ rows'[i - 1].kind # "failure"
                            /\ rows'[i - 1].outcome = "failure"
    BY DEF HandlerFollowsFailure
  <2>1. i > 1 /\ rows[i - 1].kind # "failure" /\ rows[i - 1].outcome = "failure"
    BY DEF EngineInv, HandlerFollowsFailure
  <2>2. i - 1 \in DOMAIN rows
    BY <1>d, <2>1
  <2> QED
    BY <2>1, <2>2
<1>2. ASSUME NEW i \in escalated
      PROVE  \/ rows'[i] = [kind |-> "failure", outcome |-> "failure"]
             \/ rows'[i].kind = "cleanup" /\ rows'[i].outcome # "open"
  <2>1. i \in DOMAIN rows
    BY DEF EngineInv, TypeOK
  <2>2. \/ rows[i] = [kind |-> "failure", outcome |-> "failure"]
        \/ rows[i].kind = "cleanup" /\ rows[i].outcome # "open"
    BY DEF EngineInv, EscalatedIsStuck
  <2> QED
    BY <2>1, <2>2
<1> QED
  BY <1>1, <1>2

(* A cycle that is closed, by a terminal, a failure or a deletion. *)
LEMMA CloseStep ==
  ASSUME EngineInv, NEW outcome \in Outcomes, CloseRow(Cycle, outcome),
         \/ /\ pc = "land"
            /\ pc' = IF rows[Cycle].kind = "cleanup" THEN "delete" ELSE "idle"
         \/ pc = "failed" /\ pc' = "route" /\ outcome = "failure",
         UNCHANGED <<workflow, driver, failure, files, escalated, orphans, crashes>>
  PROVE  EngineInv'
<1>r. rows # <<>> /\ rows[Cycle].outcome = "open"
  BY DEF EngineInv, OpenRowIsRunning, Driving
<1>o. /\ rows' \in Seq(Row)
      /\ rows' # <<>>
      /\ Cycle' = Cycle
      /\ DOMAIN rows' = DOMAIN rows
      /\ \A i \in DOMAIN rows :
           /\ rows'[i].kind = rows[i].kind
           /\ rows[i].outcome # "open" => rows'[i] = rows[i]
      /\ rows'[Cycle].outcome = outcome
      /\ \A i \in DOMAIN rows : rows'[i].outcome = "open" =>
           rows[i].outcome = "open" /\ i # Cycle
  BY <1>r, Closing DEF EngineInv
<1>d. Cycle \in DOMAIN rows
  BY <1>r, LastRow DEF EngineInv
<1>1. TypeOK'
  <2>1. (rows \in Seq(Row))'
    BY <1>o DEF Row
  <2> QED
    BY <1>o, <2>1 DEF EngineInv, TypeOK, PCs, Row, driver
<1>2. InMachine'
  <2>1. outcome # "open"
    BY DEF Outcomes
  <2> QED
    BY <1>o, <1>d, <2>1 DEF InMachine
<1>3. OpenRowIsRunning'
  BY <1>o DEF EngineInv, OpenRowIsRunning, Driving
<1>4. VisitsCapped'
  BY DEF VisitsCapped, Driving
<1>5. HandlerFollowsFailure'
  BY <1>o, ClosedRowsStay
<1>6. EscalatedIsStuck'
  BY <1>o, ClosedRowsStay DEF EscalatedIsStuck
<1> QED
  BY <1>1, <1>2, <1>3, <1>4, <1>5, <1>6 DEF EngineInv

(* The label of a terminal, or the override, as the store keeps it. *)
LEMMA StoredOutcome == ASSUME NEW label PROVE StoreOutcome(label) \in Outcomes
  BY DEF StoreOutcome, Outcomes

(* Every row that a crash left open is closed as a failure. *)
LEMMA RecoverStep == ASSUME EngineInv, Recover PROVE EngineInv'
<1>1. /\ rows \in Seq(Row)
      /\ rows' = [i \in DOMAIN rows |->
                    [rows[i] EXCEPT !.outcome = IF @ = "open" THEN "failure" ELSE @]]
  BY DEF EngineInv, TypeOK, Row, Recover
<1>2. Len(rows) \in Nat /\ DOMAIN rows = 1 .. Len(rows) /\ rows \in [1 .. Len(rows) -> Row]
  BY <1>1, LenProperties
<1>3. \A i \in DOMAIN rows :
        /\ rows'[i] \in Row
        /\ rows'[i].kind = rows[i].kind
        /\ rows'[i].outcome # "open"
        /\ rows[i].outcome # "open" => rows'[i] = rows[i]
  <2> SUFFICES ASSUME NEW i \in DOMAIN rows
               PROVE  /\ rows'[i] \in Row
                      /\ rows'[i].kind = rows[i].kind
                      /\ rows'[i].outcome # "open"
                      /\ rows[i].outcome # "open" => rows'[i] = rows[i]
    OBVIOUS
  <2>1. rows[i] \in Row
    BY <1>2
  <2>2. rows'[i] = [rows[i] EXCEPT !.outcome =
                      IF rows[i].outcome = "open" THEN "failure" ELSE rows[i].outcome]
    BY <1>1
  <2> QED
    BY <2>1, <2>2 DEF Row, Outcomes
<1>4. rows' \in [1 .. Len(rows) -> Row]
  BY <1>1, <1>2, <1>3
<1>5. rows' \in Seq(Row) /\ DOMAIN rows' = DOMAIN rows
  BY <1>2, <1>4, SeqDef
<1>6. TypeOK'
  <2>1. (rows \in Seq(Row))'
    BY <1>5 DEF Row, Recover
  <2> QED
    BY <1>5, <2>1 DEF EngineInv, TypeOK, PCs, Row, Recover, driver
<1>7. InMachine' /\ VisitsCapped'
  BY DEF InMachine, VisitsCapped, Driving, Recover
<1>8. OpenRowIsRunning'
  BY <1>3, <1>5 DEF OpenRowIsRunning, Driving, Recover
<1>9. HandlerFollowsFailure'
  BY <1>3, <1>5, ClosedRowsStay
<1>10. EscalatedIsStuck'
  BY <1>3, <1>5, ClosedRowsStay DEF EscalatedIsStuck, Recover
<1> QED
  BY <1>6, <1>7, <1>8, <1>9, <1>10 DEF EngineInv

(* Sentinel files come and go without a trace in the store. *)
LEMMA FilesTyped ==
  ASSUME TypeOK, NEW path \in Ids \X Nat, NEW content \in Sentinels, NEW cycle \in Nat,
         WriteFile(path, content, cycle)
  PROVE  /\ DOMAIN files' \subseteq Ids \X Nat
         /\ \A p \in DOMAIN files' : files'[p] \in [content : Sentinels, by : Nat]
  BY DEF TypeOK, WriteFile

LEMMA FileStep ==
  ASSUME EngineInv,
         DOMAIN files' \subseteq Ids \X Nat,
         \A p \in DOMAIN files' : files'[p] \in [content : Sentinels, by : Nat],
         orphans' \subseteq [path : Ids \X Nat, cycle : Nat],
         UNCHANGED <<workflow, pc, driver, failure, rows, escalated, crashes>>
  PROVE  EngineInv'
<1>1. TypeOK'
  BY DEF EngineInv, TypeOK, driver
<1>2. HandlerFollowsFailure' /\ EscalatedIsStuck' /\ Machine' = Machine /\ Cycle' = Cycle
  BY StoreKept
<1>3. InMachine' /\ OpenRowIsRunning' /\ VisitsCapped'
  BY <1>2 DEF EngineInv, InMachine, OpenRowIsRunning, VisitsCapped, Driving, driver
<1> QED
  BY <1>1, <1>2, <1>3 DEF EngineInv

(* The path of a visit that runs. *)
LEMMA PathTyped ==
  ASSUME EngineInv, pc = "running"
  PROVE  Path \in Ids \X Nat /\ Cycle \in Nat
<1>1. rows # <<>>
  BY DEF EngineInv, OpenRowIsRunning, Driving
<1> QED
  BY <1>1, LastRow DEF EngineInv, TypeOK, Path

(* The end of a failed cycle whose failure is not handled. *)
LEMMA GiveUpStep == ASSUME EngineInv, Escalate \/ Unhandled PROVE EngineInv'
<1>1. rows # <<>> /\ rows[Cycle].outcome = "failure" /\ pc = "route"
  BY DEF EngineInv, InMachine, Escalate, Unhandled
<1>2. Cycle \in DOMAIN rows /\ rows[Cycle] \in Row
  BY <1>1, LastRow DEF EngineInv
<1>3. TypeOK'
  BY <1>2 DEF EngineInv, TypeOK, PCs, driver, Escalate, Unhandled
<1>4. InMachine' /\ VisitsCapped'
  BY DEF InMachine, VisitsCapped, Driving, Escalate, Unhandled
<1>5. OpenRowIsRunning' /\ HandlerFollowsFailure'
  BY <1>1 DEF EngineInv, OpenRowIsRunning, HandlerFollowsFailure, Driving, Escalate, Unhandled
<1>6. EscalatedIsStuck'
  <2>1. rows[Cycle].kind = "failure" =>
          rows[Cycle] = [kind |-> "failure", outcome |-> "failure"]
    BY <1>1, <1>2 DEF Row
  <2> QED
    BY <2>1 DEF EngineInv, EscalatedIsStuck, Escalate, Unhandled
<1> QED
  BY <1>3, <1>4, <1>5, <1>6 DEF EngineInv

(* Deleting the workspace removes files and escalates the cycle at most. *)
LEMMA RemovalTyped ==
  ASSUME TypeOK, RemoveWorkspace
  PROVE  /\ DOMAIN files' \subseteq Ids \X Nat
         /\ \A p \in DOMAIN files' : files'[p] \in [content : Sentinels, by : Nat]
         /\ escalated' \in {escalated, escalated \cup {Cycle}}
  BY DEF TypeOK, RemoveWorkspace, Removed

LEMMA PostCycleDeleteStep == ASSUME EngineInv, PostCycleDelete PROVE EngineInv'
<1>1. /\ rows # <<>> /\ rows[Cycle].kind = "cleanup" /\ rows[Cycle].outcome # "open"
      /\ UNCHANGED <<workflow, driver, failure, rows, orphans, crashes>>
      /\ pc' = "idle"
  BY DEF EngineInv, InMachine, PostCycleDelete
<1>2. Cycle \in DOMAIN rows
  BY <1>1, LastRow DEF EngineInv
<1>3. /\ DOMAIN files' \subseteq Ids \X Nat
      /\ \A p \in DOMAIN files' : files'[p] \in [content : Sentinels, by : Nat]
      /\ escalated' \in {escalated, escalated \cup {Cycle}}
  BY RemovalTyped DEF EngineInv, PostCycleDelete
<1>4. TypeOK'
  BY <1>1, <1>2, <1>3 DEF EngineInv, TypeOK, PCs, driver
<1>5. InMachine' /\ VisitsCapped'
  BY <1>1 DEF InMachine, VisitsCapped, Driving
<1>6. OpenRowIsRunning' /\ HandlerFollowsFailure'
  BY <1>1 DEF EngineInv, OpenRowIsRunning, HandlerFollowsFailure, Driving, PostCycleDelete
<1>7. EscalatedIsStuck'
  BY <1>1, <1>3 DEF EngineInv, EscalatedIsStuck
<1> QED
  BY <1>4, <1>5, <1>6, <1>7 DEF EngineInv

LEMMA ShorthandDeleteStep == ASSUME EngineInv, ShorthandDelete PROVE EngineInv'
<1>1. /\ rows # <<>> /\ rows[Cycle].kind = "cleanup" /\ rows[Cycle].outcome = "open"
      /\ UNCHANGED <<workflow, driver, failure, orphans, crashes>>
      /\ pc' = "idle"
  BY DEF EngineInv, InMachine, OpenRowIsRunning, ShorthandDelete
<1>2. PICK outcome \in Outcomes : CloseRow(Cycle, outcome)
  BY DEF ShorthandDelete, Outcomes
<1>3. /\ rows' \in Seq(Row)
      /\ Cycle' = Cycle
      /\ DOMAIN rows' = DOMAIN rows
      /\ \A i \in DOMAIN rows :
           /\ rows'[i].kind = rows[i].kind
           /\ rows[i].outcome # "open" => rows'[i] = rows[i]
      /\ rows'[Cycle].outcome = outcome
      /\ \A i \in DOMAIN rows : rows'[i].outcome = "open" =>
           rows[i].outcome = "open" /\ i # Cycle
  BY <1>1, <1>2, Closing DEF EngineInv
<1>4. /\ DOMAIN files' \subseteq Ids \X Nat
      /\ \A p \in DOMAIN files' : files'[p] \in [content : Sentinels, by : Nat]
      /\ escalated' \in {escalated, escalated \cup {Cycle}}
  BY RemovalTyped DEF EngineInv, ShorthandDelete
<1>5. Cycle \in DOMAIN rows
  BY <1>1, LastRow DEF EngineInv
<1>6. TypeOK'
  <2>1. (rows \in Seq(Row))'
    BY <1>1, <1>3 DEF Row
  <2> QED
    BY <1>1, <1>3, <1>4, <1>5, <2>1 DEF EngineInv, TypeOK, PCs, Row, driver
<1>7. InMachine' /\ VisitsCapped'
  BY <1>1 DEF InMachine, VisitsCapped, Driving
<1>8. OpenRowIsRunning'
  BY <1>1, <1>3 DEF EngineInv, OpenRowIsRunning, Driving
<1>9. HandlerFollowsFailure'
  BY <1>3, ClosedRowsStay
<1>10. EscalatedIsStuck'
  <2>1. rows'[Cycle].kind = "cleanup" /\ rows'[Cycle].outcome # "open"
    BY <1>1, <1>3, <1>5 DEF Outcomes
  <2> QED
    BY <1>3, <1>4, <2>1, ClosedRowsStay DEF EscalatedIsStuck
<1> QED
  BY <1>6, <1>7, <1>8, <1>9, <1>10 DEF EngineInv

(* Counting a visit, refused or not. *)
LEMMA VisitStep == ASSUME EngineInv, Visit PROVE EngineInv'
<1>m. /\ rows # <<>>
      /\ current \in DOMAIN Machine.states \ DOMAIN Machine.terminals
      /\ UNCHANGED <<workflow, current, override, rows, files, escalated, orphans, crashes>>
      /\ pc = "land"
  BY DEF EngineInv, OpenRowIsRunning, Driving, Visit, Fail
<1>t. IsMachine(Machine)
  BY <1>m, LastRow DEF EngineInv
<1>v. /\ visits' = [visits EXCEPT ![current] = @ + 1]
      /\ \/ /\ visits[current] + 1 > Machine.states[current].max_visits
            /\ pc' = "failed" /\ failure' = "recursion_bound"
         \/ /\ ~(visits[current] + 1 > Machine.states[current].max_visits)
            /\ pc' = "visit" /\ failure' = failure
  BY DEF Visit, Fail, Here
<1>1. TypeOK'
  BY <1>m, <1>v DEF EngineInv, TypeOK, PCs, FailureKinds
<1>2. HandlerFollowsFailure' /\ EscalatedIsStuck' /\ Machine' = Machine /\ Cycle' = Cycle
  BY <1>m, StoreKept
<1>3. InMachine'
  BY <1>m, <1>v, <1>2 DEF InMachine
<1>4. OpenRowIsRunning'
  BY <1>m, <1>v, <1>2 DEF EngineInv, OpenRowIsRunning, Driving
<1>5. VisitsCapped'
  <2> SUFFICES ASSUME NEW s \in DOMAIN Machine.states \ DOMAIN Machine.terminals
               PROVE  \/ visits'[s] <= Machine.states[s].max_visits
                      \/ /\ pc' = "failed" /\ s = current
                         /\ visits'[s] = Machine.states[s].max_visits + 1
    BY <1>m, <1>2 DEF VisitsCapped
  <2>1. visits[s] <= Machine.states[s].max_visits
    BY <1>m DEF EngineInv, VisitsCapped, Driving
  <2>2. s \in Ids /\ Machine.states[s].max_visits \in Nat
    BY <1>t, EdgesLeadToIds
  <2>3. visits \in [Ids -> Nat]
    BY DEF EngineInv, TypeOK
  <2> QED
    BY <1>v, <2>1, <2>2, <2>3
<1> QED
  BY <1>1, <1>2, <1>3, <1>4, <1>5 DEF EngineInv

LEMMA SpawnStep == ASSUME EngineInv, Spawn PROVE EngineInv'
<1>1. TypeOK'
  BY DEF EngineInv, TypeOK, Spawn, PCs, driver
<1>2. HandlerFollowsFailure' /\ EscalatedIsStuck' /\ Machine' = Machine /\ Cycle' = Cycle
  BY StoreKept DEF Spawn
<1>3. InMachine' /\ OpenRowIsRunning' /\ VisitsCapped'
  BY <1>2
  DEF EngineInv, InMachine, OpenRowIsRunning, VisitsCapped, Driving, driver, Spawn
<1> QED
  BY <1>1, <1>2, <1>3 DEF EngineInv

(* A crash forgets the queue and leaves a child behind. *)
LEMMA CrashStep == ASSUME EngineInv, Crash PROVE EngineInv'
<1>1. TypeOK'
  <2>1. orphans' \subseteq [path : Ids \X Nat, cycle : Nat]
    BY PathTyped DEF EngineInv, TypeOK, Crash
  <2>2. crashes' \in 0 .. MaxCrashes
    BY EngineAssumption DEF EngineInv, TypeOK, Crash
  <2> QED
    BY <2>1, <2>2 DEF EngineInv, TypeOK, Crash, PCs, driver
<1>2. InMachine' /\ VisitsCapped' /\ EscalatedIsStuck'
  BY DEF InMachine, VisitsCapped, EscalatedIsStuck, Driving, Crash
<1>3. OpenRowIsRunning' /\ HandlerFollowsFailure'
  BY DEF EngineInv, OpenRowIsRunning, HandlerFollowsFailure, Driving, Crash, Cycle
<1> QED
  BY <1>1, <1>2, <1>3 DEF EngineInv

(* Every action of the engine, of a child and of the world keeps EngineInv. *)
LEMMA Preserved == EngineInv /\ [Next]_vars => EngineInv'
<1> SUFFICES ASSUME EngineInv, [Next]_vars PROVE EngineInv'
  OBVIOUS
<1>m. ASSUME pc \in {"visit", "running"}
      PROVE  /\ IsMachine(Machine) /\ current \in DOMAIN Machine.states
             /\ Here.on_done.id \in Ids /\ Here.on_fail.id \in Ids
  <2>1. rows # <<>> /\ current \in DOMAIN Machine.states
    BY <1>m DEF EngineInv, InMachine, OpenRowIsRunning, Driving
  <2>2. IsMachine(Machine)
    BY <2>1, LastRow DEF EngineInv
  <2> QED
    BY <2>1, <2>2, EdgesLeadToIds DEF Here
<1>k. \A kind \in {"schema_drift", "unparseable", "template_error", "fs_poison",
                   "process_crash", "stall"} : kind \in FailureKinds
  BY DEF FailureKinds
<1>1. ASSUME NEW kind \in Kinds, StartCycle(kind) PROVE EngineInv'
  BY <1>1, OpenStep DEF StartCycle
<1>2. CASE Land
  <2> DEFINE label == IF override = NoOutcome THEN Machine.terminals[current] ELSE override
  <2>1. StoreOutcome(label) \in Outcomes
    BY StoredOutcome
  <2>2. CloseRow(Cycle, StoreOutcome(label))
    BY <1>2 DEF Land
  <2> HIDE DEF label
  <2> QED
    BY <1>2, <2>1, <2>2, CloseStep DEF Land
<1>3. CASE Drift
  BY <1>3, <1>k, FailStep DEF Drift
<1>4. CASE Visit
  BY <1>4, VisitStep
<1>5. CASE Skip
  BY <1>5, <1>m, AdvanceStep DEF Skip, EngineInv, TypeOK
<1>6. CASE PrepareFails
  BY <1>6, <1>k, FailStep DEF PrepareFails
<1>7. CASE Spawn
  BY <1>7, SpawnStep
<1>8. CASE CloseFailed
  <2>1. "failure" \in Outcomes
    BY DEF Outcomes
  <2> QED
    BY <1>8, <2>1, CloseStep DEF CloseFailed
<1>9. CASE Escalate \/ Unhandled
  BY <1>9, GiveUpStep
<1>10. CASE Handle
  <2>1. "failure" \in DOMAIN workflow.machines
    BY <1>10, WorkflowTyped DEF EngineInv, IsWorkflow, Handle
  <2>2. rows # <<>> /\ rows[Cycle].outcome = "failure"
    BY <1>10 DEF EngineInv, InMachine, Handle
  <2> QED
    BY <1>10, <2>1, <2>2, OpenStep DEF Handle
<1>11. CASE PostCycleDelete
  BY <1>11, PostCycleDeleteStep
<1>12. CASE ShorthandDelete
  BY <1>12, ShorthandDeleteStep
<1>13. ASSUME NEW content \in Sentinels, WriteSentinel(content) PROVE EngineInv'
  <2>1. Path \in Ids \X Nat /\ Cycle \in Nat
    BY <1>13, PathTyped DEF WriteSentinel
  <2>2. /\ DOMAIN files' \subseteq Ids \X Nat
        /\ \A p \in DOMAIN files' : files'[p] \in [content : Sentinels, by : Nat]
    BY <1>13, <2>1, FilesTyped DEF EngineInv, WriteSentinel
  <2> QED
    BY <1>13, <2>2, FileStep DEF WriteSentinel, EngineInv, TypeOK
<1>14. ASSUME NEW content \in Sentinels, NEW o \in orphans, OrphanWrites(o, content)
       PROVE  EngineInv'
  <2>1. o.path \in Ids \X Nat /\ o.cycle \in Nat
    BY DEF EngineInv, TypeOK
  <2>2. /\ DOMAIN files' \subseteq Ids \X Nat
        /\ \A p \in DOMAIN files' : files'[p] \in [content : Sentinels, by : Nat]
    BY <1>14, <2>1, FilesTyped DEF EngineInv, OrphanWrites
  <2>3. orphans' \subseteq [path : Ids \X Nat, cycle : Nat]
    BY <1>14 DEF EngineInv, TypeOK, OrphanWrites
  <2> QED
    BY <1>14, <2>2, <2>3, FileStep DEF OrphanWrites
<1>15. ASSUME NEW code \in {0, 1}, ExitPlain(code) PROVE EngineInv'
  <2>1. (IF code = 0 THEN Here.on_done.id ELSE Here.on_fail.id) \in Ids
    BY <1>15, <1>m DEF ExitPlain
  <2> QED
    BY <1>15, <2>1, AdvanceStep DEF ExitPlain, EngineInv, TypeOK
<1>16. CASE ExitDirected
  <2> DEFINE payload == files[Path].content
             edge == ResolveDirective(payload.directive, current, Here)
  <2>1. CASE edge = NoEdge
    BY <1>16, <2>1, <1>k, FailStep DEF ExitDirected
  <2>2. CASE edge # NoEdge
    <3>1. edge.id \in Ids
      BY <1>16, <2>2, <1>m, DirectiveLeadsToId DEF ExitDirected, Here
    <3>2. override' \in STRING \cup {NoOutcome}
      BY <1>16, <2>2, EngineAssumption DEF ExitDirected, EngineInv, TypeOK
    <3>3. Advance(edge.id) /\ pc = "running"
      BY <1>16, <2>2 DEF ExitDirected
    <3> HIDE DEF edge
    <3> QED
      BY <3>1, <3>2, <3>3, AdvanceStep
  <2> QED
    BY <2>1, <2>2
<1>17. CASE ExitGarbled
  BY <1>17, <1>k, FailStep DEF ExitGarbled
<1>18. CASE ChildFails
  BY <1>18, <1>k, FailStep DEF ChildFails
<1>19. CASE Crash
  BY <1>19, CrashStep
<1>20. CASE Recover
  BY <1>20, RecoverStep
<1>21. CASE Rest \/ UNCHANGED vars
  BY <1>21, FileStep DEF Rest, vars, EngineInv, TypeOK
<1> QED
  BY <1>1, <1>2, <1>3, <1>4, <1>5, <1>6, <1>7, <1>8, <1>9, <1>10, <1>11, <1>12,
     <1>13, <1>14, <1>15, <1>16, <1>17, <1>18, <1>19, <1>20, <1>21
  DEF Next, Engine, ChildEnds

-----------------------------------------------------------------------------
(* The conjunction the engine keeps: its types and its four promises.      *)
THEOREM EngineInvariant == Spec => []EngineInv
  BY Initially, Preserved, PTL DEF Spec

(* No child runs in a state more often than the state's cap allows.        *)
THEOREM VisitsCappedHolds == Spec => []VisitsCapped
<1>1. EngineInv => VisitsCapped
  BY DEF EngineInv
<1> QED
  BY <1>1, EngineInvariant, PTL

(* The open rows of the store are the cycle that runs, crash or no crash.  *)
THEOREM OpenRowIsRunningHolds == Spec => []OpenRowIsRunning
<1>1. EngineInv => OpenRowIsRunning
  BY DEF EngineInv
<1> QED
  BY <1>1, EngineInvariant, PTL

(* Failure handling never nests.                                           *)
THEOREM HandlerFollowsFailureHolds == Spec => []HandlerFollowsFailure
<1>1. EngineInv => HandlerFollowsFailure
  BY DEF EngineInv
<1> QED
  BY <1>1, EngineInvariant, PTL

(* Only a failed handler or a failed deletion waits for the operator.      *)
THEOREM EscalatedIsStuckHolds == Spec => []EscalatedIsStuck
<1>1. EngineInv => EscalatedIsStuck
  BY DEF EngineInv
<1> QED
  BY <1>1, EngineInvariant, PTL
-----------------------------------------------------------------------------
(* What loading is for: a validated machine is left by a built-in only.    *)

(* Every workflow has passed the loader's validation. *)
AllValid ==
  \A w \in Workflows : \A k \in DOMAIN w.machines : \E sccs : Valid(w.machines[k], sccs)

(* An id at which the driver stops, or goes on, as the author declared.    *)
Declared(m) == DOMAIN m.states \cup DOMAIN m.terminals

LEMMA ValidMachine ==
  ASSUME NEW m, \E sccs : Valid(m, sccs)
  PROVE  /\ m.start \in Declared(m)
         /\ \A s \in DOMAIN m.states :
              /\ {m.states[s].on_done.id, m.states[s].on_fail.id} \subseteq Declared(m)
              /\ \A d \in DOMAIN m.states[s].directives :
                   m.states[s].directives[d].id \in Declared(m)
<1>1. ValidStart(m) /\ ValidEdges(m)
  BY DEF Valid
<1>2. m.start \in Declared(m)
  BY <1>1 DEF ValidStart, Declared
<1>3. \A s \in DOMAIN m.states : \A e \in Edges(m.states[s]) : e.id \in Declared(m)
  BY <1>1 DEF ValidEdges, Declared
<1> QED
  BY <1>2, <1>3 DEF Edges

(* A directive leads to where the author sends it, back to the state or to *)
(* a built-in terminal.                                                    *)
LEMMA ValidDirective ==
  ASSUME NEW m, \E sccs : Valid(m, sccs), NEW s \in DOMAIN m.states, NEW name,
         ResolveDirective(name, s, m.states[s]) # NoEdge
  PROVE  ResolveDirective(name, s, m.states[s]).id
           \in Declared(m) \cup {Success, Failure, NoAction, Cancelled}
<1>1. CASE name \in DOMAIN m.states[s].directives
  BY <1>1, ValidMachine DEF ResolveDirective
<1>2. CASE name \notin DOMAIN m.states[s].directives
  <2>1. name \in DOMAIN BuiltinDirectives(s)
    BY <1>2 DEF ResolveDirective
  <2>2. \A d \in DOMAIN BuiltinDirectives(s) :
          BuiltinDirectives(s)[d].id \in {s, Success, Failure, NoAction, Cancelled}
    BY DEF BuiltinDirectives, ToTerminal, ToState
  <2> QED
    BY <1>2, <2>1, <2>2 DEF ResolveDirective, Declared
<1> QED
  BY <1>1, <1>2

LEMMA ValidHere ==
  ASSUME AllValid, EngineInv, rows # <<>>
  PROVE  \E sccs : Valid(Machine, sccs)
<1>1. rows[Cycle].kind \in DOMAIN workflow.machines
  BY LastRow DEF EngineInv, Row
<1> QED
  BY <1>1 DEF AllValid, EngineInv, TypeOK, Machine

LEMMA DriftStep ==
  ASSUME AllValid, EngineInv, DriftsByBuiltin, [Next]_vars
  PROVE  DriftsByBuiltin'
<1> DEFINE Builtins == {Success, Failure, NoAction, Cancelled}
<1>1. ASSUME pc' # "land" PROVE DriftsByBuiltin'
  BY <1>1 DEF DriftsByBuiltin
<1>2. ASSUME UNCHANGED <<workflow, pc, current, rows>> PROVE DriftsByBuiltin'
  BY <1>2 DEF DriftsByBuiltin, Machine, Cycle
<1>3. ASSUME NEW kind \in DOMAIN workflow.machines, OpenCycle(kind), workflow' = workflow
      PROVE  DriftsByBuiltin'
  <2>1. rows'[Cycle'] = [kind |-> kind, outcome |-> "open"]
    BY <1>3, Opening DEF EngineInv
  <2>2. Machine' = workflow.machines[kind]
    BY <1>3, <2>1 DEF Machine
  <2>3. current' = workflow.machines[kind].start
    BY <1>3 DEF OpenCycle
  <2>4. \E sccs : Valid(workflow.machines[kind], sccs)
    BY <1>3 DEF AllValid, EngineInv, TypeOK
  <2>5. current' \in Declared(Machine')
    BY <2>2, <2>3, <2>4, ValidMachine
  <2> QED
    BY <2>5 DEF DriftsByBuiltin, Declared
<1>4. ASSUME pc \in {"visit", "running"}, NEW id, Advance(id),
             id \in Declared(Machine) \cup Builtins
      PROVE  DriftsByBuiltin'
  <2>1. Machine' = Machine /\ current' = id
    BY <1>4 DEF Advance, Machine, Cycle
  <2> QED
    BY <1>4, <2>1 DEF DriftsByBuiltin, Declared
<1>5. ASSUME pc \in {"visit", "running"}
      PROVE  /\ current \in DOMAIN Machine.states
             /\ \E sccs : Valid(Machine, sccs)
             /\ {Here.on_done.id, Here.on_fail.id} \subseteq Declared(Machine)
  <2>1. current \in DOMAIN Machine.states /\ rows # <<>>
    BY <1>5 DEF EngineInv, InMachine, OpenRowIsRunning, Driving
  <2>2. \E sccs : Valid(Machine, sccs)
    BY <2>1, ValidHere
  <2> QED
    BY <2>1, <2>2, ValidMachine DEF Here
<1>6. ASSUME NEW kind \in Kinds, StartCycle(kind) PROVE DriftsByBuiltin'
  BY <1>6, <1>3 DEF StartCycle
<1>7. CASE Handle
  <2>1. "failure" \in DOMAIN workflow.machines
    BY <1>7, WorkflowTyped DEF Handle, EngineInv, IsWorkflow
  <2> QED
    BY <1>7, <2>1, <1>3 DEF Handle
<1>8. CASE Skip
  BY <1>8, <1>4, <1>5 DEF Skip
<1>9. ASSUME NEW code \in {0, 1}, ExitPlain(code) PROVE DriftsByBuiltin'
  BY <1>9, <1>4, <1>5 DEF ExitPlain
<1>10. CASE ExitDirected
  <2> DEFINE edge == ResolveDirective(files[Path].content.directive, current, Here)
  <2>1. CASE edge = NoEdge
    BY <1>1, <1>10, <2>1 DEF ExitDirected, Fail
  <2>2. CASE edge # NoEdge
    <3>1. Advance(edge.id) /\ pc = "running"
      BY <1>10, <2>2 DEF ExitDirected
    <3>2. edge.id \in Declared(Machine) \cup Builtins
      BY <2>2, <3>1, <1>5, ValidDirective DEF Here
    <3> QED
      BY <3>1, <3>2, <1>4
  <2> QED
    BY <2>1, <2>2
<1>11. CASE Land \/ Drift \/ PrepareFails \/ Spawn \/ CloseFailed \/ Escalate \/ Unhandled
  BY <1>1, <1>11 DEF Land, Drift, PrepareFails, Spawn, CloseFailed, Escalate, Unhandled, Fail
<1>12. CASE Visit
  BY <1>1, <1>12 DEF Visit, Fail
<1>13. CASE PostCycleDelete \/ ShorthandDelete \/ Crash \/ Recover \/ ExitGarbled \/ ChildFails
  BY <1>1, <1>13 DEF PostCycleDelete, ShorthandDelete, Crash, Recover, ExitGarbled, ChildFails, Fail
<1>14. ASSUME NEW content \in Sentinels,
              WriteSentinel(content) \/ \E o \in orphans : OrphanWrites(o, content)
       PROVE  DriftsByBuiltin'
  BY <1>2, <1>14 DEF WriteSentinel, OrphanWrites, driver
<1>15. CASE UNCHANGED vars
  BY <1>2, <1>15 DEF vars, driver
<1> QED
  BY <1>6, <1>7, <1>8, <1>9, <1>10, <1>11, <1>12, <1>13, <1>14, <1>15
  DEF Next, Engine, ChildEnds, Rest

(* On a validated workflow no directive of a child, no retry and no        *)
(* handler leads the driver out of the machine, built-in terminals apart:  *)
(* the schema drift that the engine reports has no other cause.            *)
THEOREM DriftsByBuiltinHolds ==
  ASSUME AllValid
  PROVE  Spec => []DriftsByBuiltin
<1>1. Init => DriftsByBuiltin
  BY DEF Init, DriftsByBuiltin
<1>2. EngineInv /\ DriftsByBuiltin /\ [Next]_vars => DriftsByBuiltin'
  BY DriftStep
<1> QED
  BY <1>1, <1>2, EngineInvariant, PTL DEF Spec

-----------------------------------------------------------------------------
(* The refinement of CycleHistory. *)

(* A step that moves the engine without changing its stage or the table. *)
LEMMA HistoryKept ==
  ASSUME rows' = rows, Stage' = Stage
  PROVE  UNCHANGED History!vars
  BY DEF History!vars

(* The cycle that is closed is the newest of the history, and is open. *)
LEMMA HistoryCloses ==
  ASSUME EngineInv, pc \in {"land", "failed", "shorthand"},
         NEW outcome, CloseRow(Cycle, outcome)
  PROVE  History!Close(outcome)
<1>1. rows # <<>> /\ rows[Cycle].outcome = "open"
  BY DEF EngineInv, OpenRowIsRunning, Driving
<1> DEFINE row == [rows[Cycle] EXCEPT !.outcome = IF @ = "open" THEN outcome ELSE @]
           closed == [rows[Cycle] EXCEPT !.outcome = outcome]
<1>2. row = closed
  BY <1>1
<1>3. rows' = [rows EXCEPT ![Cycle] = row]
  BY DEF CloseRow
<1>4. rows' = [rows EXCEPT ![Cycle] = closed]
  BY <1>2, <1>3
<1> QED
  BY <1>1, <1>4 DEF History!Close, History!Newest, Cycle

(* Closing every open row closes the newest if it is open, and no other. *)
LEMMA HistoryRecovers ==
  ASSUME EngineInv, Recover
  PROVE  IF rows # <<>> /\ rows[Cycle].outcome = "open"
           THEN History!Close("failure") ELSE rows' = rows
<1>1. /\ rows \in Seq(Row)
      /\ rows' = [i \in DOMAIN rows |->
                    [rows[i] EXCEPT !.outcome = IF @ = "open" THEN "failure" ELSE @]]
      /\ \A i \in DOMAIN rows : rows[i].outcome = "open" => i = Cycle
  BY DEF EngineInv, TypeOK, Row, Recover, OpenRowIsRunning
<1>2. rows \in [1 .. Len(rows) -> Row] /\ DOMAIN rows = 1 .. Len(rows)
  BY <1>1, LenProperties
<1>3. ASSUME NEW i \in DOMAIN rows, rows[i].outcome # "open" PROVE rows'[i] = rows[i]
  <2>1. rows[i] \in Row
    BY <1>2
  <2>2. rows'[i] = [rows[i] EXCEPT !.outcome = rows[i].outcome]
    BY <1>1, <1>3
  <2> QED
    BY <2>1, <2>2 DEF Row
<1>4. CASE rows # <<>> /\ rows[Cycle].outcome = "open"
  <2> DEFINE closed == [rows EXCEPT ![Cycle].outcome = "failure"]
  <2>1. Cycle \in DOMAIN rows
    BY <1>4, LastRow DEF EngineInv
  <2>2. rows'[Cycle] = [rows[Cycle] EXCEPT !.outcome = "failure"]
    BY <1>1, <1>4, <2>1
  <2>3. \A i \in DOMAIN rows : i # Cycle => rows'[i] = rows[i]
    BY <1>1, <1>3
  <2>4. \A i \in DOMAIN rows : rows'[i] = closed[i]
    BY <1>2, <2>1, <2>2, <2>3
  <2>5. rows' = closed
    <3>1. rows' = [i \in DOMAIN rows |-> rows'[i]]
      BY <1>1
    <3>2. closed = [i \in DOMAIN rows |-> closed[i]]
      BY <1>2
    <3> QED
      BY <2>4, <3>1, <3>2
  <2> QED
    BY <1>4, <2>5 DEF History!Close, History!Newest, Cycle
<1>5. CASE ~(rows # <<>> /\ rows[Cycle].outcome = "open")
  <2>1. \A i \in DOMAIN rows : rows[i].outcome # "open"
    <3>1. rows = <<>> => DOMAIN rows = {}
      OBVIOUS
    <3> QED
      BY <1>1, <1>5, <3>1
  <2>2. \A i \in DOMAIN rows : rows'[i] = rows[i]
    BY <1>3, <2>1
  <2>3. rows' = [i \in DOMAIN rows |-> rows'[i]]
    BY <1>1
  <2>4. rows = [i \in DOMAIN rows |-> rows[i]]
    BY <1>2
  <2>5. rows' = rows
    BY <2>2, <2>3, <2>4
  <2> QED
    BY <1>5, <2>5
<1> QED
  BY <1>4, <1>5

(* Every step of the engine is a step of the history or a stutter. *)
LEMMA HistoryStep ==
  ASSUME EngineInv, [Next]_vars
  PROVE  [History!Next]_(History!vars)
<1> USE DEF Stage, Driving
<1>s. ASSUME rows' = rows, Stage' = Stage PROVE [History!Next]_(History!vars)
  BY <1>s, HistoryKept
<1>1. ASSUME NEW kind \in Kinds, StartCycle(kind) PROVE [History!Next]_(History!vars)
  <2>1. kind # "failure" /\ pc = "idle" /\ pc' \in {"land", "shorthand"}
    BY <1>1 DEF StartCycle
  <2>2. History!Begin(kind)
    BY <1>1, <2>1 DEF StartCycle, OpenCycle, History!Begin, History!Open
  <2> QED
    BY <2>2 DEF History!Next
<1>2. CASE Land
  <2>1. PICK outcome \in Outcomes : CloseRow(Cycle, outcome)
    BY <1>2, StoredOutcome DEF Land
  <2>2. History!Close(outcome)
    BY <1>2, <2>1, HistoryCloses DEF Land
  <2>3. Stage = "working" /\ Stage' = "idle"
    BY <1>2 DEF Land
  <2> QED
    BY <2>2, <2>3 DEF History!Next, History!End
<1>3. CASE ShorthandDelete
  <2>1. PICK outcome \in Outcomes : CloseRow(Cycle, outcome)
    BY <1>3 DEF ShorthandDelete, Outcomes
  <2>2. History!Close(outcome)
    BY <1>3, <2>1, HistoryCloses DEF ShorthandDelete
  <2>3. Stage = "working" /\ Stage' = "idle"
    BY <1>3 DEF ShorthandDelete
  <2> QED
    BY <2>2, <2>3 DEF History!Next, History!End
<1>4. CASE CloseFailed
  <2>1. History!Close("failure")
    BY <1>4, HistoryCloses DEF CloseFailed
  <2>2. Stage = "working" /\ Stage' = "failed"
    BY <1>4 DEF CloseFailed
  <2> QED
    BY <2>1, <2>2 DEF History!Next, History!Fail
<1>5. CASE Handle
  <2>1. rows[Len(rows)].kind # "failure" /\ Stage = "failed" /\ Stage' = "working"
    BY <1>5 DEF Handle, Cycle
  <2>2. rows' = Append(rows, [kind |-> "failure", outcome |-> "open"])
    BY <1>5 DEF Handle, OpenCycle
  <2> QED
    BY <2>1, <2>2 DEF History!Next, History!Handle, History!Open, History!Newest
<1>6. CASE Escalate \/ Unhandled
  BY <1>6 DEF Escalate, Unhandled, History!Next, History!GiveUp
<1>7. CASE Crash
  <2>1. Stage # "dead" /\ Stage' = "dead" /\ rows' = rows
    BY <1>7 DEF Crash
  <2> QED
    BY <2>1 DEF History!Next, History!Die
<1>8. CASE Recover
  <2>1. Stage = "dead" /\ Stage' = "idle"
    BY <1>8 DEF Recover
  <2> QED
    BY <1>8, <2>1, HistoryRecovers
    DEF History!Next, History!Recover, History!Newest, Cycle
<1>9. CASE Drift \/ PrepareFails \/ ExitGarbled \/ ChildFails \/ Skip \/ Spawn
           \/ Visit \/ PostCycleDelete
  BY <1>9, <1>s DEF Drift, PrepareFails, ExitGarbled, ChildFails, Skip, Spawn,
     Visit, PostCycleDelete, Fail, Advance
<1>10. CASE ExitDirected
  <2> DEFINE edge == ResolveDirective(files[Path].content.directive, current, Here)
  <2>1. (\E kind \in FailureKinds : Fail(kind)) \/ (\E id : Advance(id))
    BY <1>10, Zenon DEF ExitDirected, FailureKinds
  <2>2. pc = "running"
    BY <1>10 DEF ExitDirected
  <2> QED
    BY <2>1, <2>2, <1>s DEF Fail, Advance
<1>11. ASSUME NEW code \in {0, 1}, ExitPlain(code) PROVE [History!Next]_(History!vars)
  BY <1>11, <1>s DEF ExitPlain, Advance
<1>12. ASSUME NEW content \in Sentinels,
              WriteSentinel(content) \/ \E o \in orphans : OrphanWrites(o, content)
       PROVE  [History!Next]_(History!vars)
  BY <1>12, <1>s DEF WriteSentinel, OrphanWrites
<1>13. CASE UNCHANGED vars
  BY <1>13, <1>s DEF vars
<1> QED
  BY <1>1, <1>2, <1>3, <1>4, <1>5, <1>6, <1>7, <1>8, <1>9, <1>10, <1>11, <1>12,
     <1>13
  DEF Next, Engine, ChildEnds, Rest

(* The cycles table only ever tells the history of CycleHistory: final     *)
(* outcomes, one open cycle, a handler right after its failure, through    *)
(* any answer of a child and any crash.                                    *)
THEOREM HistoryImplemented == Spec => ImplementsHistory
<1>1. Init => History!Init
  BY DEF Init, History!Init, Stage, Driving
<1>2. EngineInv /\ [Next]_vars => [History!Next]_(History!vars)
  BY HistoryStep
<1> QED
  BY <1>1, <1>2, EngineInvariant, PTL DEF Spec, ImplementsHistory, History!Spec
================================================================================
