-------------------------------- MODULE Daemon --------------------------------
(***************************************************************************)
(* The life of the daemon process: the boot steps of run_inner, the        *)
(* webhook listener and its ready gate, the signal trap, and the shutdown  *)
(* that stops the listener, the dispatcher and the ticket tasks, waits for *)
(* them within the window and kills what is left.                          *)
(*                                                                         *)
(* main, the listener, the trap, the dispatcher and the ticket tasks are   *)
(* tasks of one executor.  Here a ticket task is what the shutdown can     *)
(* tell apart of it: whether it waits for a message, decides about a next  *)
(* state, has a child that is not yet registered, feeds a prompt, is       *)
(* supervised (and so pre-emptible), or waits for somebody else's pipe.    *)
(* TicketDispatch and StateProcess refine those parts.                     *)
(***************************************************************************)
EXTENDS Naturals, Sequences, FiniteSets

CONSTANTS
  Tickets,      (* Linear issue identifiers                                *)
  Nobody,       (* main is not at a ticket of its shutdown list            *)
  ChannelCap,   (* capacity of the webhook channel                         *)
  MaxRequests,  (* bound: webhook requests opened in one behaviour         *)
  MaxVisits     (* bound: children a ticket task spawns in one behaviour   *)

ASSUME DaemonAssumption ==
  /\ Nobody \notin Tickets
  /\ ChannelCap \in Nat \ {0}
  /\ MaxRequests \in Nat
  /\ MaxVisits \in Nat

(* The fallible steps before the listener is spawned, in their order. *)
BootSteps ==
  <<"roki.toml", "WORKFLOW.yaml", "viewer", "store", "event log",
    "dependencies", "bind address">>

(* Every program a state or a cleanup may call must be on the PATH. *)
Required == {"wt", "ghq"}

MainPC ==
  {"boot", "coldStart", "openGate", "ready", "spawnDrain", "armTrap", "wait",
   "awaitListener", "awaitDrain", "collect", "next",
   "send", "join", "snapshot", "over"}

TaskPC ==
  {"none", "recv", "cycle", "spawned", "feeding", "supervised", "reaped", "gone"}

VARIABLES
  main, step,  (* main's program counter and its boot step                 *)
  exit,        (* the exit of the process, or running                      *)
  listener,    (* off, spawned, serving, stopped or failed (its bind)      *)
  open,        (* requests accepted and not answered                       *)
  requests,    (* requests opened so far, bounded by MaxRequests           *)
  gate,        (* the ready gate                                           *)
  ready,       (* daemon_ready is in the event log                         *)
  channel,     (* the webhook channel                                      *)
  drain,       (* the dispatcher: off, recv, check or done                 *)
  trap,        (* the signal trap: off, spawned, armed, caught or done     *)
  fired,       (* the shutdown token                                       *)
  handle,      (* tickets with an entry in the dispatcher's map            *)
  entries,     (* the entries main has taken out of the map                *)
  at,          (* the entry main is at                                     *)
  expired,     (* the shutdown window is over                              *)
  drained,     (* tickets whose task main has joined                       *)
  task, inbox, (* per ticket: program counter and inbox of its task        *)
  recheck,     (* tickets flagged for another evaluation                   *)
  visits,      (* per ticket: children spawned so far                      *)
  alive,       (* tickets whose child process runs                         *)
  heir,        (* tickets whose pipes outlive their child                  *)
  registry     (* the registry of live subprocesses                        *)

netVars == <<listener, open, requests, channel>>
mainVars == <<main, step, exit, gate, ready, entries, at, expired, drained>>
taskVars == <<task, inbox, recheck, visits, alive, heir, registry>>
vars == <<mainVars, netVars, drain, trap, fired, handle, taskVars>>

-----------------------------------------------------------------------------
Init ==
  /\ main = "boot" /\ step = 1 /\ exit = "running"
  /\ listener = "off" /\ open = 0 /\ requests = 0 /\ channel = <<>>
  /\ gate = FALSE /\ ready = FALSE
  /\ drain = "off" /\ trap = "off" /\ fired = FALSE
  /\ handle = {} /\ entries = {} /\ at = Nobody
  /\ expired = FALSE /\ drained = {}
  /\ task = [t \in Tickets |-> "none"]
  /\ inbox = [t \in Tickets |-> "empty"]
  /\ visits = [t \in Tickets |-> 0]
  /\ recheck = {} /\ alive = {} /\ heir = {} /\ registry = {}

Running == exit = "running"
GoTo(pc) == main' = pc

-----------------------------------------------------------------------------
(* Boot. *)

(* deps::check: the programs that the PATH lacks. *)
Missing(found) == Required \ found

(* One boot step: it may fail, which ends the process with a failure.  The *)
(* dependency check depends on what is found, every other step on files,   *)
(* the network or the address.  The last step spawns the listener and goes *)
(* on; whether the listener can bind is not known to main.                 *)
BootStep ==
  /\ Running /\ main = "boot"
  /\ \E found \in SUBSET Required, ok \in BOOLEAN :
       /\ BootSteps[step] = "dependencies" => ok = (Missing(found) = {})
       /\ IF ok
          THEN /\ step' = IF step < Len(BootSteps) THEN step + 1 ELSE step
               /\ main' = IF step < Len(BootSteps) THEN "boot" ELSE "coldStart"
               /\ listener' = IF step < Len(BootSteps) THEN listener ELSE "spawned"
               /\ exit' = exit
          ELSE /\ exit' = "failure" /\ GoTo("over")
               /\ UNCHANGED <<step, listener>>
  /\ UNCHANGED <<open, requests, channel, gate, ready, entries, at, expired,
                 drained, drain, trap, fired, handle, taskVars>>

(* admit_for_cold_start: a task with a message in its inbox. *)
Spawn(t) ==
  /\ handle' = handle \cup {t}
  /\ task' = [task EXCEPT ![t] = "recv"]
  /\ inbox' = [inbox EXCEPT ![t] = "webhook"]

ColdAdmit(t) ==
  /\ Running /\ main = "coldStart" /\ t \notin handle
  /\ Spawn(t)
  /\ UNCHANGED <<mainVars, netVars, drain, trap, fired, recheck, visits, alive,
                 heir, registry>>

(* Cold start ends, the gate opens, daemon_ready is written, the drain and *)
(* then the trap are spawned, and main waits for the token.                *)
Startup ==
  /\ Running
  /\ \/ main = "coldStart" /\ GoTo("openGate") /\ UNCHANGED <<gate, ready, drain, trap>>
     \/ main = "openGate" /\ gate' = TRUE /\ GoTo("ready") /\ UNCHANGED <<ready, drain, trap>>
     \/ main = "ready" /\ ready' = TRUE /\ GoTo("spawnDrain") /\ UNCHANGED <<gate, drain, trap>>
     \/ main = "spawnDrain" /\ drain' = "recv" /\ GoTo("armTrap") /\ UNCHANGED <<gate, ready, trap>>
     \/ main = "armTrap" /\ trap' = "spawned" /\ GoTo("wait") /\ UNCHANGED <<gate, ready, drain>>
  /\ UNCHANGED <<step, exit, entries, at, expired, drained, netVars, fired,
                 handle, taskVars>>

-----------------------------------------------------------------------------
(* The listener: it binds in its own task, serves until the token fires    *)
(* and then waits for the requests it has accepted.  The sender of the     *)
(* channel is dropped with it.                                             *)

ListenerBinds ==
  /\ Running /\ listener = "spawned"
  /\ listener' \in {"serving", "failed"}
  /\ UNCHANGED <<open, requests, channel, mainVars, drain, trap, fired, handle, taskVars>>

Connect ==
  /\ Running /\ listener = "serving" /\ ~fired /\ requests < MaxRequests
  /\ open' = open + 1 /\ requests' = requests + 1
  /\ UNCHANGED <<listener, channel, mainVars, drain, trap, fired, handle, taskVars>>

(* Mutant of Answer: the router is built without the ready gate. *)
AnswerUngated(t) ==
  /\ Running /\ open > 0
  /\ open' = open - 1
  /\ \/ channel' = channel
     \/ drain # "done" /\ Len(channel) < ChannelCap /\ channel' = Append(channel, t)
  /\ UNCHANGED <<listener, requests, mainVars, drain, trap, fired, handle, taskVars>>

(* ready_gate_layer, then handle: 503 while the gate is closed, 400 for a  *)
(* body without the four fields, 202 when the ticket fits in the channel,  *)
(* 503 when the channel is full or its receiver is gone.                   *)
Answer(t) ==
  /\ Running /\ open > 0
  /\ open' = open - 1
  /\ \/ channel' = channel
     \/ gate /\ drain # "done" /\ Len(channel) < ChannelCap /\ channel' = Append(channel, t)
  /\ UNCHANGED <<listener, requests, mainVars, drain, trap, fired, handle, taskVars>>

ListenerStops ==
  /\ Running /\ listener = "serving" /\ fired /\ open = 0
  /\ listener' = "stopped"
  /\ UNCHANGED <<open, requests, channel, mainVars, drain, trap, fired, handle, taskVars>>

ListenerOver == listener \in {"stopped", "failed"}

-----------------------------------------------------------------------------
(* The dispatcher. *)

LiveTask(t) == task[t] \notin {"none", "gone"}

(* drain: take a ticket and hand it to on_webhook, which drops it (not     *)
(* admitted, or unchanged), routes it, flags a recheck because the inbox   *)
(* is full, or spawns a task because there is none.                        *)
Dispatch ==
  /\ Running /\ drain = "recv" /\ channel # <<>>
  /\ LET t == Head(channel) IN
       \/ UNCHANGED <<handle, task, inbox, recheck>>
       \/ /\ t \in handle /\ LiveTask(t)
          /\ IF inbox[t] = "empty"
             THEN inbox' = [inbox EXCEPT ![t] = "webhook"] /\ UNCHANGED recheck
             ELSE recheck' = recheck \cup {t} /\ UNCHANGED inbox
          /\ UNCHANGED <<handle, task>>
       \/ ~(t \in handle /\ LiveTask(t)) /\ Spawn(t) /\ UNCHANGED recheck
  /\ channel' = Tail(channel)
  /\ drain' = "check"
  /\ UNCHANGED <<listener, open, requests, mainVars, trap, fired, visits, alive, heir, registry>>

(* The token is read after a ticket only: an idle dispatcher ends when the *)
(* listener has dropped the sender and the channel is empty.               *)
DrainChecks ==
  /\ Running
  /\ \/ drain = "check" /\ drain' = IF fired THEN "done" ELSE "recv"
     \/ drain = "recv" /\ channel = <<>> /\ ListenerOver /\ drain' = "done"
  /\ UNCHANGED <<mainVars, netVars, trap, fired, handle, taskVars>>

-----------------------------------------------------------------------------
(* The ticket tasks. *)

(* A message is taken; a webhook may match no rule. *)
Receive(t) ==
  /\ Running /\ task[t] = "recv" /\ inbox[t] # "empty"
  /\ \E pc \in IF inbox[t] = "shutdown" THEN {"gone"} ELSE {"recv", "cycle"} :
       task' = [task EXCEPT ![t] = pc]
  /\ inbox' = [inbox EXCEPT ![t] = "empty"]
  /\ UNCHANGED <<mainVars, netVars, drain, trap, fired, handle, recheck, visits,
                 alive, heir, registry>>

(* The cycle goes to a next state whether or not the token has fired. *)
Visit(t) ==
  /\ Running /\ task[t] = "cycle" /\ visits[t] < MaxVisits
  /\ task' = [task EXCEPT ![t] = "spawned"]
  /\ visits' = [visits EXCEPT ![t] = @ + 1]
  /\ alive' = alive \cup {t}
  /\ UNCHANGED <<mainVars, netVars, drain, trap, fired, handle, inbox, recheck,
                 heir, registry>>

Register(t) ==
  /\ Running /\ task[t] = "spawned"
  /\ task' = [task EXCEPT ![t] = "feeding"]
  /\ registry' = registry \cup {t}
  /\ UNCHANGED <<mainVars, netVars, drain, trap, fired, handle, inbox, recheck,
                 visits, alive, heir>>

(* The prompt is written and stdin closed, or there is none; or the write  *)
(* fails, the child is killed and reaped and the state has failed.         *)
Feed(t) ==
  /\ Running /\ task[t] = "feeding"
  /\ \/ task' = [task EXCEPT ![t] = "supervised"] /\ UNCHANGED <<alive, registry>>
     \/ /\ task' = [task EXCEPT ![t] = "cycle"]
        /\ alive' = alive \ {t} /\ registry' = registry \ {t}
  /\ UNCHANGED <<mainVars, netVars, drain, trap, fired, handle, inbox, recheck,
                 visits, heir>>

(* The child ends; somebody it forked may keep its pipes open. *)
ChildEnds(t) ==
  /\ alive' = alive \ {t}
  /\ \E kept \in SUBSET {t} : heir' = heir \cup kept

ChildExits(t) ==
  /\ Running /\ task[t] = "supervised" /\ t \in alive
  /\ ChildEnds(t)
  /\ task' = [task EXCEPT ![t] = "reaped"]
  /\ UNCHANGED <<mainVars, netVars, drain, trap, fired, handle, inbox, recheck,
                 visits, registry>>

(* The supervised child is terminated, at last by SIGKILL, when the token  *)
(* fires.                                                                  *)
Preempt(t) == fired /\ ChildExits(t)

HeirEnds(t) ==
  /\ Running /\ t \in heir /\ heir' = heir \ {t}
  /\ UNCHANGED <<mainVars, netVars, drain, trap, fired, handle, task, inbox,
                 recheck, visits, alive, registry>>

(* Both drains are at end of file, and the registry is cleared. *)
Clear(t) ==
  /\ Running /\ task[t] = "reaped" /\ t \notin heir
  /\ task' = [task EXCEPT ![t] = "cycle"]
  /\ registry' = registry \ {t}
  /\ UNCHANGED <<mainVars, netVars, drain, trap, fired, handle, inbox, recheck,
                 visits, alive, heir>>

(* The cycle ends: the ticket is evicted, or a pending recheck is sent to  *)
(* the task itself, or it waits.                                           *)
CycleEnds(t) ==
  /\ Running /\ task[t] = "cycle"
  /\ \/ /\ task' = [task EXCEPT ![t] = "gone"]
        /\ inbox' = [inbox EXCEPT ![t] = "empty"]
        /\ recheck' = recheck \ {t}
     \/ /\ task' = [task EXCEPT ![t] = "recv"]
        /\ inbox' = IF t \in recheck /\ inbox[t] = "empty"
                    THEN [inbox EXCEPT ![t] = "webhook"] ELSE inbox
        /\ recheck' = recheck \ {t}
  /\ UNCHANGED <<mainVars, netVars, drain, trap, fired, handle, visits, alive,
                 heir, registry>>

TaskStep(t) ==
  Receive(t) \/ Visit(t) \/ CycleEnds(t) \/ Register(t) \/ Clear(t) \/ Preempt(t)

-----------------------------------------------------------------------------
(* Signals. *)

(* Before the trap has installed its handlers a signal has its default     *)
(* action: the process is gone and drops nothing.                          *)
Signal ==
  /\ Running
  /\ \/ trap \in {"off", "spawned"} /\ exit' = "killed" /\ GoTo("over") /\ UNCHANGED trap
     \/ trap = "armed" /\ trap' = "caught" /\ UNCHANGED <<main, exit>>
  /\ UNCHANGED <<step, gate, ready, entries, at, expired, drained, netVars,
                 drain, fired, handle, taskVars>>

Trap ==
  /\ Running
  /\ \/ trap = "spawned" /\ trap' = "armed" /\ UNCHANGED fired
     \/ trap = "caught" /\ trap' = "done" /\ fired' = TRUE
  /\ UNCHANGED <<mainVars, netVars, drain, handle, taskVars>>

-----------------------------------------------------------------------------
(* Shutdown. *)

(* Mutant of Await: the dispatcher is not awaited. *)
AwaitListenerOnly ==
  /\ Running
  /\ \/ main = "wait" /\ fired /\ GoTo("awaitListener")
     \/ main = "awaitListener" /\ ListenerOver /\ GoTo("collect")
  /\ UNCHANGED <<step, exit, gate, ready, entries, at, expired, drained,
                 netVars, drain, trap, fired, handle, taskVars>>

(* main wakes up when the token fires, then waits without a bound for the  *)
(* listener and for the dispatcher.                                        *)
Await ==
  /\ Running
  /\ \/ main = "wait" /\ fired /\ GoTo("awaitListener")
     \/ main = "awaitListener" /\ ListenerOver /\ GoTo("awaitDrain")
     \/ main = "awaitDrain" /\ drain = "done" /\ GoTo("collect")
  /\ UNCHANGED <<step, exit, gate, ready, entries, at, expired, drained,
                 netVars, drain, trap, fired, handle, taskVars>>

(* main is past map.drain(). *)
Draining == {"next", "send", "join", "snapshot"}

(* map.drain() under the lock; the window starts here. *)
Collect ==
  /\ Running /\ main = "collect"
  /\ entries' = handle /\ handle' = {} /\ GoTo("next")
  /\ UNCHANGED <<step, exit, gate, ready, at, expired, drained, netVars, drain,
                 trap, fired, taskVars>>

WindowExpires ==
  /\ Running /\ main \in Draining /\ ~expired /\ expired' = TRUE
  /\ UNCHANGED <<main, step, exit, gate, ready, entries, at, drained, netVars,
                 drain, trap, fired, handle, taskVars>>

(* The loop over the collected entries. *)
NextEntry ==
  /\ Running /\ main = "next"
  /\ IF entries = {} THEN GoTo("snapshot") /\ UNCHANGED <<entries, at>>
     ELSE /\ at' \in entries
          /\ entries' = entries \ {at'}
          /\ GoTo("send")
  /\ UNCHANGED <<step, exit, gate, ready, expired, drained, netVars, drain,
                 trap, fired, handle, taskVars>>

(* inbox.send(Shutdown).await: it waits while the inbox is full, whatever  *)
(* the window, and fails at once when the task is gone.                    *)
SendShutdown ==
  /\ Running /\ main = "send"
  /\ IF LiveTask(at)
     THEN inbox[at] = "empty" /\ inbox' = [inbox EXCEPT ![at] = "shutdown"]
     ELSE UNCHANGED inbox
  /\ GoTo("join")
  /\ UNCHANGED <<step, exit, gate, ready, entries, at, expired, drained, netVars,
                 drain, trap, fired, handle, task, recheck, visits, alive, heir,
                 registry>>

(* Mutant of Join: the join has no timeout. *)
JoinUnbounded ==
  /\ Running /\ main = "join" /\ ~LiveTask(at)
  /\ drained' = drained \cup {at}
  /\ at' = Nobody /\ GoTo("next")
  /\ UNCHANGED <<step, exit, gate, ready, entries, expired, netVars, drain, trap,
                 fired, handle, taskVars>>

(* tokio::time::timeout(remaining, join): the join is polled first. *)
Join ==
  /\ Running /\ main = "join"
  /\ ~LiveTask(at) \/ expired
  /\ drained' = IF LiveTask(at) THEN drained ELSE drained \cup {at}
  /\ at' = Nobody /\ GoTo("next")
  /\ UNCHANGED <<step, exit, gate, ready, entries, expired, netVars, drain, trap,
                 fired, handle, taskVars>>

(* Mutant of KilledOnExit: the children are not kill_on_drop. *)
KilledByRegistry == registry

(* The registered children are killed; the verdict is a failure exactly if *)
(* there was one.  Returning from main drops the executor and with it the  *)
(* remaining tasks, whose children are kill_on_drop.                       *)
KilledOnExit == registry \cup alive

Finish ==
  /\ Running /\ main = "snapshot"
  /\ exit' = IF registry = {} THEN "success" ELSE "failure"
  /\ alive' = alive \ KilledOnExit
  /\ GoTo("over")
  /\ UNCHANGED <<step, gate, ready, entries, at, expired, drained, netVars,
                 drain, trap, fired, handle, task, inbox, recheck, visits, heir,
                 registry>>

Shutdown == Await \/ Collect \/ NextEntry \/ SendShutdown \/ Join \/ Finish

Over == ~Running /\ UNCHANGED vars

-----------------------------------------------------------------------------
Next ==
  \/ BootStep \/ Startup \/ Shutdown \/ WindowExpires
  \/ ListenerBinds \/ Connect \/ ListenerStops
  \/ Dispatch \/ DrainChecks
  \/ Signal \/ Trap
  \/ \E t \in Tickets :
       \/ ColdAdmit(t) \/ Answer(t)
       \/ Receive(t) \/ Visit(t) \/ Register(t) \/ Feed(t) \/ ChildExits(t)
       \/ HeirEnds(t) \/ Clear(t) \/ CycleEnds(t)
  \/ Over

Spec == Init /\ [][Next]_vars

(* The executor runs every task that can go on, timers expire, and a child *)
(* that gets SIGTERM and then SIGKILL ends.  Nothing makes a client finish *)
(* its request, a child read its prompt or somebody close a pipe.          *)
FairSpec ==
  /\ Spec
  /\ WF_vars(BootStep) /\ WF_vars(Startup) /\ WF_vars(Shutdown)
  /\ WF_vars(WindowExpires) /\ WF_vars(ListenerBinds) /\ WF_vars(ListenerStops)
  /\ WF_vars(Dispatch) /\ WF_vars(DrainChecks) /\ WF_vars(Trap)
  /\ \A t \in Tickets : WF_vars(TaskStep(t))

-----------------------------------------------------------------------------
(* Properties. *)

TypeOK ==
  /\ main \in MainPC /\ step \in 1 .. Len(BootSteps)
  /\ exit \in {"running", "success", "failure", "killed"}
  /\ listener \in {"off", "spawned", "serving", "stopped", "failed"}
  /\ requests \in 0 .. MaxRequests /\ open \in 0 .. requests
  /\ gate \in BOOLEAN /\ ready \in BOOLEAN /\ fired \in BOOLEAN
  /\ expired \in BOOLEAN
  /\ channel \in Seq(Tickets) /\ Len(channel) <= ChannelCap
  /\ drain \in {"off", "recv", "check", "done"}
  /\ trap \in {"off", "spawned", "armed", "caught", "done"}
  /\ handle \subseteq Tickets /\ entries \subseteq Tickets
  /\ at \in Tickets \cup {Nobody}
  /\ drained \subseteq Tickets /\ recheck \subseteq Tickets
  /\ task \in [Tickets -> TaskPC]
  /\ inbox \in [Tickets -> {"empty", "webhook", "shutdown"}]
  /\ visits \in [Tickets -> 0 .. MaxVisits]
  /\ alive \subseteq Tickets /\ heir \subseteq Tickets /\ registry \subseteq Tickets

(* The inventory main drains is complete and stays so: once it has taken   *)
(* the handle map, no webhook in flight spawns another task, and every     *)
(* task still running is on main's list, joined by a deadline that passed, *)
(* or the one main is waiting for (runtime.rs, steps 15 and 16).           *)
InventoryComplete ==
  main \in Draining =>
    /\ handle = {}
    /\ \A t \in Tickets : LiveTask(t) => t \in entries \cup {at} \/ expired

(* A daemon that returns leaves no child of a ticket task running, whether *)
(* or not the child had been registered when the window closed, and it     *)
(* reports success only if no supervised child was left.                   *)
NothingOutlivesDaemon ==
  /\ exit \in {"success", "failure"} => alive = {}
  /\ exit = "success" =>
       \A t \in Tickets : task[t] \notin {"feeding", "supervised", "reaped"}

(* Cold start has the dispatcher's map to itself: no webhook is accepted   *)
(* and nothing drained before the gate opens, so a task cold start spawns  *)
(* never replaces one (the debug_assert of admit_for_cold_start).          *)
ColdStartAlone ==
  main \in {"boot", "coldStart", "openGate"} =>
    channel = <<>> /\ drain = "off"

(* The handle map has one user at a time and is passed on whole: from cold *)
(* start to the dispatcher, and from the dispatcher to main (run_inner).   *)
HandleMapInv == ColdStartAlone /\ InventoryComplete

(* Main waits for a task that cannot take the Shutdown message: its inbox  *)
(* holds a webhook and its child does not read, or left its pipes behind.  *)
HeldUp ==
  /\ main = "send" /\ inbox[at] = "webhook"
  /\ task[at] = "feeding" \/ (task[at] = "reaped" /\ at \in heir)

(* After the token has fired the process ends, unless a client keeps a     *)
(* request open or a task that is held up has a full inbox: neither wait   *)
(* is inside the shutdown window.                                          *)
ShutdownEnds == fired ~> (~Running \/ open > 0 \/ HeldUp)
===============================================================================
