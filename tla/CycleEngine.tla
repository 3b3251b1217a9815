------------------------------ MODULE CycleEngine ------------------------------
(***************************************************************************)
(* The cycles of one ticket: the runner that opens and closes a cycle, the *)
(* driver that walks its state machine, the handler cycle a failure may    *)
(* get, the sentinel file through which a child process names its edge,    *)
(* and a daemon that may crash anywhere and come back.                     *)
(*                                                                         *)
(* A ticket has one task and a task runs one cycle at a time (this is what *)
(* TicketDispatch shows), so the engine is sequential: its position is pc. *)
(* The child process and the crash are what interleaves with it.  Which    *)
(* kind of cycle comes next is the dispatcher's choice and arbitrary here. *)
(*                                                                         *)
(* A handler is chosen by failure kind; the matcher on the state id is     *)
(* left out, and so are captures, events and errors of the store, which    *)
(* are logged and otherwise ignored.                                       *)
(***************************************************************************)
EXTENDS WorkflowMachine, Sequences

CONSTANTS
  Workflows,     (* loaded workflows: machines by cycle kind, failures handled *)
  Payloads,      (* what a well-formed sentinel file holds                     *)
  Garbled,       (* a sentinel file that does not parse                        *)
  NoOutcome,     (* a payload without an outcome, an outcome not overridden    *)
  MaxCycles,     (* bound: cycles in one behaviour                             *)
  MaxCrashes     (* bound: daemon crashes in one behaviour                     *)

Kinds == {"rule", "cleanup", "failure"}

FailureKinds ==
  {"unparseable", "schema_drift", "process_crash", "template_error",
   "recursion_bound", "stall", "fs_poison"}

Outcomes == {"success", "failure", "no_action", "cancelled"}

IsWorkflow(w) ==
  /\ DOMAIN w = {"machines", "handles"}
  /\ DOMAIN w.machines \subseteq Kinds
  /\ \A k \in DOMAIN w.machines : IsMachine(w.machines[k])
  /\ w.handles \subseteq FailureKinds
  /\ w.handles # {} => "failure" \in DOMAIN w.machines

ASSUME EngineAssumption ==
  /\ \A w \in Workflows : IsWorkflow(w)
  /\ Payloads \subseteq [directive : Directives, outcome : STRING \cup {NoOutcome}]
  /\ Garbled \notin Payloads
  /\ NoOutcome \notin STRING
  /\ MaxCycles \in Nat
  /\ MaxCrashes \in Nat

VARIABLES
  workflow,   (* the loaded workflow, fixed at boot                          *)
  pc,         (* where the runner is                                         *)
  current,    (* the id the driver has arrived at                            *)
  visits,     (* visits of each id in this cycle                             *)
  override,   (* terminal_outcome_override                                   *)
  failure,    (* kind of the failure being handled                           *)
  rows,       (* the ticket's rows of the cycles table, oldest first         *)
  files,      (* sentinel files under the ticket's session directory         *)
  escalated,  (* cycles with an entry in the escalation queue                *)
  orphans,    (* children left over from a crash: their path and their cycle *)
  crashes     (* crashes so far, bounded by MaxCrashes                       *)

driver == <<current, visits, override>>
vars == <<workflow, pc, driver, failure, rows, files, escalated, orphans, crashes>>

PCs ==
  {"idle", "land", "visit", "running", "failed", "route", "delete", "shorthand",
   "down"}

Cycle == Len(rows)
Machine == workflow.machines[rows[Cycle].kind]
Here == Machine.states[current]
Path == <<current, visits[current]>>

NoFiles == [p \in {} |-> 0]

Init ==
  /\ workflow \in Workflows
  /\ pc = "idle"
  /\ current = Success
  /\ visits = [id \in Ids |-> 0]
  /\ override = NoOutcome
  /\ failure = "none"
  /\ rows = <<>>
  /\ files = NoFiles
  /\ escalated = {}
  /\ orphans = {}
  /\ crashes = 0

-----------------------------------------------------------------------------
(* Opening and closing a cycle. *)

(* open_cycle_best_effort and a fresh context. *)
OpenCycle(kind) ==
  /\ rows' = Append(rows, [kind |-> kind, outcome |-> "open"])
  /\ current' = workflow.machines[kind].start
  /\ visits' = [id \in Ids |-> 0]
  /\ override' = NoOutcome

(* close_cycle: only a row that is still open is updated. *)
CloseRow(i, outcome) ==
  rows' = [rows EXCEPT ![i].outcome = IF @ = "open" THEN outcome ELSE @]

(* outcome_for_terminal *)
StoreOutcome(label) == IF label \in {"no_action", "cancelled"} THEN label ELSE "success"

StartCycle(kind) ==
  /\ pc = "idle"
  /\ Len(rows) < MaxCycles
  /\ kind \in DOMAIN workflow.machines \ {"failure"}
  /\ OpenCycle(kind)
  /\ pc' = IF DOMAIN workflow.machines[kind].states = {} /\ kind = "cleanup"
             THEN "shorthand" ELSE "land"
  /\ UNCHANGED <<workflow, failure, files, escalated, orphans, crashes>>

-----------------------------------------------------------------------------
(* cycle_state::run_cycle *)

Fail(kind) ==
  /\ failure' = kind
  /\ pc' = "failed"
  /\ UNCHANGED <<workflow, rows, files, escalated, orphans, crashes>>

Advance(id) ==
  /\ current' = id
  /\ pc' = "land"
  /\ UNCHANGED <<workflow, visits, failure, rows, files, escalated, orphans, crashes>>

(* A terminal ends the cycle; a cleanup goes on to delete the workspace. *)
Land ==
  /\ pc = "land"
  /\ current \in DOMAIN Machine.terminals
  /\ CloseRow(Cycle, StoreOutcome(IF override = NoOutcome
                                    THEN Machine.terminals[current] ELSE override))
  /\ pc' = IF rows[Cycle].kind = "cleanup" THEN "delete" ELSE "idle"
  /\ UNCHANGED <<workflow, driver, failure, files, escalated, orphans, crashes>>

(* The id is neither a terminal nor a state. *)
Drift ==
  /\ pc = "land"
  /\ current \notin DOMAIN Machine.terminals \cup DOMAIN Machine.states
  /\ Fail("schema_drift")
  /\ UNCHANGED driver

(* Mutant of Visit: it is not counted. *)
VisitUncounted ==
  /\ pc = "land"
  /\ current \in DOMAIN Machine.states \ DOMAIN Machine.terminals
  /\ pc' = "visit"
  /\ UNCHANGED <<workflow, driver, failure, rows, files, escalated, orphans, crashes>>

(* The visit is counted before the cap is looked at. *)
Visit ==
  /\ pc = "land"
  /\ current \in DOMAIN Machine.states \ DOMAIN Machine.terminals
  /\ visits' = [visits EXCEPT ![current] = @ + 1]
  /\ IF visits[current] + 1 > Here.max_visits
       THEN Fail("recursion_bound")
       ELSE /\ pc' = "visit"
            /\ UNCHANGED <<workflow, failure, rows, files, escalated, orphans, crashes>>
  /\ UNCHANGED <<current, override>>

(* `if:` renders to false: on to on_done without a process. *)
Skip ==
  /\ pc = "visit"
  /\ Here.guarded
  /\ Advance(Here.on_done.id)
  /\ UNCHANGED override

(* `if:`, the command line or the prompt does not render, a directory or a *)
(* file cannot be made, the process cannot be spawned.                     *)
PrepareFails ==
  /\ pc = "visit"
  /\ \E kind \in {"template_error", "fs_poison", "process_crash"} : Fail(kind)
  /\ UNCHANGED driver

Spawn ==
  /\ pc = "visit"
  /\ pc' = "running"
  /\ UNCHANGED <<workflow, driver, failure, rows, files, escalated, orphans, crashes>>

-----------------------------------------------------------------------------
(* The child process. *)

(* Put a file at the path; by remembers the cycle whose child wrote it. *)
WriteFile(path, content, cycle) ==
  files' = [p \in DOMAIN files \cup {path} |->
              IF p = path THEN [content |-> content, by |-> cycle] ELSE files[p]]

WriteSentinel(content) ==
  /\ pc = "running"
  /\ WriteFile(Path, content, Cycle)
  /\ UNCHANGED <<workflow, pc, driver, failure, rows, escalated, orphans, crashes>>

(* The child exits without a file at its path: the exit code decides. *)
ExitPlain(code) ==
  /\ pc = "running"
  /\ Path \notin DOMAIN files
  /\ Advance(IF code = 0 THEN Here.on_done.id ELSE Here.on_fail.id)
  /\ UNCHANGED override

(* It exits and there is a file: the directive decides, whatever the code. *)
ExitDirected ==
  /\ pc = "running"
  /\ Path \in DOMAIN files
  /\ files[Path].content \in Payloads
  /\ LET payload == files[Path].content
         edge == ResolveDirective(payload.directive, current, Here)
     IN  IF edge = NoEdge
           THEN Fail("schema_drift") /\ UNCHANGED driver
           ELSE /\ Advance(edge.id)
                /\ override' = IF payload.outcome = NoOutcome
                                 THEN override ELSE payload.outcome

ExitGarbled ==
  /\ pc = "running"
  /\ Path \in DOMAIN files
  /\ files[Path].content = Garbled
  /\ Fail("unparseable")
  /\ UNCHANGED driver

(* It dies of a signal, is killed for its silence, or its file is unreadable.*)
ChildFails ==
  /\ pc = "running"
  /\ \E kind \in {"process_crash", "stall", "fs_poison"} : Fail(kind)
  /\ UNCHANGED driver

ChildEnds ==
  (\E code \in {0, 1} : ExitPlain(code)) \/ ExitDirected \/ ExitGarbled \/ ChildFails

-----------------------------------------------------------------------------
(* Failure handling and cleanup. *)

CloseFailed ==
  /\ pc = "failed"
  /\ CloseRow(Cycle, "failure")
  /\ pc' = "route"
  /\ UNCHANGED <<workflow, driver, failure, files, escalated, orphans, crashes>>

(* A handler that fails is not handled again: it is escalated. *)
Escalate ==
  /\ pc = "route"
  /\ rows[Cycle].kind = "failure"
  /\ escalated' = escalated \cup {Cycle}
  /\ pc' = "idle"
  /\ UNCHANGED <<workflow, driver, failure, rows, files, orphans, crashes>>

(* on_failure: the matching handler gets a cycle of its own. *)
Handle ==
  /\ pc = "route"
  /\ rows[Cycle].kind # "failure"
  /\ failure \in workflow.handles
  /\ OpenCycle("failure")
  /\ pc' = "land"
  /\ UNCHANGED <<workflow, failure, files, escalated, orphans, crashes>>

Unhandled ==
  /\ pc = "route"
  /\ rows[Cycle].kind # "failure"
  /\ failure \notin workflow.handles
  /\ pc' = "idle"
  /\ UNCHANGED <<workflow, driver, failure, rows, files, escalated, orphans, crashes>>

(* remove: the worktree and the session directory, sentinel files included. *)
Removed(keep) == files' = [p \in keep |-> files[p]]

(* An error may leave any part of the directory behind. *)
RemoveWorkspace ==
  \/ Removed({}) /\ UNCHANGED escalated
  \/ /\ \E keep \in SUBSET DOMAIN files : Removed(keep)
     /\ escalated' = escalated \cup {Cycle}

PostCycleDelete ==
  /\ pc = "delete"
  /\ RemoveWorkspace
  /\ pc' = "idle"
  /\ UNCHANGED <<workflow, driver, failure, rows, orphans, crashes>>

(* delete_immediate: the row is closed by the result of the deletion. *)
ShorthandDelete ==
  /\ pc = "shorthand"
  /\ RemoveWorkspace
  /\ CloseRow(Cycle, IF Cycle \in escalated' THEN "failure" ELSE "success")
  /\ pc' = "idle"
  /\ UNCHANGED <<workflow, driver, failure, orphans, crashes>>

-----------------------------------------------------------------------------
(* The daemon dies: memory is lost, rows and files stay, a child lives on. *)
Crash ==
  /\ pc # "down"
  /\ crashes < MaxCrashes
  /\ crashes' = crashes + 1
  /\ pc' = "down"
  /\ escalated' = {}
  /\ orphans' = orphans \cup
       IF pc = "running" THEN {[path |-> Path, cycle |-> Cycle]} ELSE {}
  /\ UNCHANGED <<workflow, driver, failure, rows, files>>

(* Mutant of Recover: the rows of the crash are left open. *)
RecoverNothing ==
  /\ pc = "down"
  /\ pc' = "idle"
  /\ UNCHANGED <<workflow, driver, failure, rows, files, escalated, orphans, crashes>>

(* Mutant of Recover: it closes rows that are closed already. *)
RecoverEveryRow ==
  /\ pc = "down"
  /\ rows' = [i \in DOMAIN rows |-> [rows[i] EXCEPT !.outcome = "failure"]]
  /\ pc' = "idle"
  /\ UNCHANGED <<workflow, driver, failure, files, escalated, orphans, crashes>>

(* recover_inflight_cycles closes every open row before anything runs. *)
Recover ==
  /\ pc = "down"
  /\ rows' = [i \in DOMAIN rows |->
                [rows[i] EXCEPT !.outcome = IF @ = "open" THEN "failure" ELSE @]]
  /\ pc' = "idle"
  /\ UNCHANGED <<workflow, driver, failure, files, escalated, orphans, crashes>>

(* The child of a crashed cycle writes its sentinel after all. *)
OrphanWrites(o, content) ==
  /\ WriteFile(o.path, content, o.cycle)
  /\ orphans' = orphans \ {o}
  /\ UNCHANGED <<workflow, pc, driver, failure, rows, escalated, crashes>>

-----------------------------------------------------------------------------
Engine ==
  \/ Land \/ Drift \/ Visit \/ Skip \/ PrepareFails \/ Spawn
  \/ CloseFailed \/ Escalate \/ Handle \/ Unhandled
  \/ PostCycleDelete \/ ShorthandDelete

Sentinels == Payloads \cup {Garbled}

(* The ticket waits for a cycle that MaxCycles rules out. *)
Rest == pc = "idle" /\ Len(rows) >= MaxCycles /\ UNCHANGED vars

Next ==
  \/ \E kind \in Kinds : StartCycle(kind)
  \/ Engine
  \/ \E content \in Sentinels :
       WriteSentinel(content) \/ \E o \in orphans : OrphanWrites(o, content)
  \/ ChildEnds
  \/ Crash \/ Recover
  \/ Rest

Spec == Init /\ [][Next]_vars

(* The task is scheduled, every child exits or is killed for its silence,  *)
(* and a daemon that died is started again.                                *)
FairSpec == Spec /\ WF_vars(Engine) /\ WF_vars(ChildEnds) /\ WF_vars(Recover)

-----------------------------------------------------------------------------
(* Properties. *)

TypeOK ==
  /\ workflow \in Workflows
  /\ pc \in PCs
  /\ current \in Ids
  /\ visits \in [Ids -> Nat]
  /\ override \in STRING \cup {NoOutcome}
  /\ failure \in FailureKinds \cup {"none"}
  /\ rows \in Seq([kind : DOMAIN workflow.machines, outcome : Outcomes \cup {"open"}])
  /\ DOMAIN files \subseteq Ids \X Nat
  /\ \A p \in DOMAIN files : files[p] \in [content : Sentinels, by : Nat]
  /\ escalated \subseteq DOMAIN rows
  /\ orphans \subseteq [path : Ids \X Nat, cycle : Nat]
  /\ crashes \in 0 .. MaxCrashes

(* The driver is inside a machine. *)
Driving == {"land", "visit", "running", "failed"}

(* No state is entered, and so no child is started, more often in a cycle  *)
(* than the state's cap allows, whatever directives the children emit; a   *)
(* cycle that goes on counts at most the one visit that is refused.        *)
VisitsCapped ==
  pc \in Driving =>
    \A s \in DOMAIN Machine.states \ DOMAIN Machine.terminals :
      \/ visits[s] <= Machine.states[s].max_visits
      \/ pc = "failed" /\ s = current /\ visits[s] = Machine.states[s].max_visits + 1

(* The open rows of the store are exactly the cycle that runs: a row is    *)
(* closed before the runner turns to anything else, and a crash leaves one *)
(* open row at most.                                                       *)
OpenRowIsRunning ==
  /\ \A i \in DOMAIN rows :
       rows[i].outcome = "open" =>
         i = Cycle /\ pc \in Driving \cup {"shorthand", "down"}
  /\ pc \in Driving \cup {"shorthand"} => rows # <<>> /\ rows[Cycle].outcome = "open"

(* A handler cycle comes directly after the failed cycle it handles, which *)
(* is no handler cycle itself: failure handling never nests.               *)
HandlerFollowsFailure ==
  \A i \in DOMAIN rows :
    rows[i].kind = "failure" =>
      i > 1 /\ rows[i - 1].kind # "failure" /\ rows[i - 1].outcome = "failure"

(* Only what no operator's handler can cover is escalated: a handler that  *)
(* failed, or a cleanup that is over and left its workspace behind.        *)
EscalatedIsStuck ==
  \A i \in escalated :
    \/ rows[i] = [kind |-> "failure", outcome |-> "failure"]
    \/ rows[i].kind = "cleanup" /\ rows[i].outcome # "open"

(* What the runner knows of the cycle at each of its positions. *)
InMachine ==
  /\ pc \in {"visit", "running"} => current \in DOMAIN Machine.states
  /\ pc = "route" => rows # <<>> /\ rows[Cycle].outcome = "failure"
  /\ pc = "delete" =>
       rows # <<>> /\ rows[Cycle].kind = "cleanup" /\ rows[Cycle].outcome # "open"
  /\ pc = "shorthand" => rows[Cycle].kind = "cleanup"

(* The safety properties of the engine, made inductive. *)
EngineInv ==
  /\ TypeOK
  /\ InMachine
  /\ OpenRowIsRunning
  /\ VisitsCapped
  /\ HandlerFollowsFailure
  /\ EscalatedIsStuck

(* Validation leaves a machine only one way out of itself: a built-in      *)
(* directive whose terminal is not declared.                               *)
DriftsByBuiltin ==
  pc = "land" =>
    current \in DOMAIN Machine.states \cup DOMAIN Machine.terminals
                \cup {Success, Failure, NoAction, Cancelled}

(* Every cycle ends, its handler's too, and after a crash the ticket can   *)
(* be worked on again.                                                     *)
CycleEnds == pc # "idle" ~> pc = "idle"

(* What a reader of the cycles table can tell of where the engine is. *)
Stage ==
  IF pc = "down" THEN "dead"
  ELSE IF pc = "route" THEN "failed"
  ELSE IF pc \in Driving \cup {"shorthand"} THEN "working" ELSE "idle"

History == INSTANCE CycleHistory WITH history <- rows, stage <- Stage

(* The engine implements CycleHistory: whatever the children answer and    *)
(* wherever the daemon dies, an outcome in the cycles table is final, no   *)
(* cycle begins while another is open, and a handler's cycle begins only   *)
(* as the next step after the failure it handles.                          *)
ImplementsHistory == History!Spec

(* The built-in directives lead to their terminals. *)
BuiltinsLand ==
  pc = "land" => current \in DOMAIN Machine.states \cup DOMAIN Machine.terminals

(* A directive that is followed was written by the child of this visit. *)
FollowsItsOwnChild ==
  [][pc = "running" /\ pc' = "land" /\ Path \in DOMAIN files
       => files[Path].by = Cycle]_vars
=============================================================================
