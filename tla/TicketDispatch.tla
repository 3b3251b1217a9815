---------------------------- MODULE TicketDispatch ----------------------------
(***************************************************************************)
(* The dispatch core of the daemon: the webhook channel, the dispatcher    *)
(* that drains it, the diff cache, the map of ticket handles and one       *)
(* asynchronous task per admitted ticket.                                  *)
(*                                                                         *)
(* The dispatcher and the ticket tasks run on a multi-threaded executor,   *)
(* and each access to the cache, the handle map, the escalation queue and  *)
(* the store takes its own lock.  One action below is therefore one        *)
(* critical section; everything between two of them may interleave.        *)
(*                                                                         *)
(* Only the dispatcher reads the channel and only it spawns tasks, so its  *)
(* local state is one program counter and the webhook in hand.  A task is  *)
(* named by a TaskIds value, so that "two tasks for one ticket" can be     *)
(* expressed; a dead task that no handle refers to can be reborn.          *)
(*                                                                         *)
(* A webhook carries what the admission filter and the rule lists tell     *)
(* apart: either the tracked triple of a ticket the filter accepts, or     *)
(* Rejected.  The shutdown path of the runtime is not in this module.      *)
(***************************************************************************)
EXTENDS Naturals, Sequences

CONSTANTS
  Tickets,      (* Linear issue identifiers                                *)
  Triples,      (* (status, labels, assignee) triples that are admitted    *)
  Payloads,     (* what a webhook can carry: triples, Rejected             *)
  Rejected,     (* a webhook the admission filter turns down               *)
  Blank,        (* the empty triple of an entry seeded from the store      *)
  TargetOf,     (* what evaluate_from_cache returns for a triple           *)
  TaskIds,      (* names of ticket tasks                                   *)
  NoTask,       (* a ticket without a handle in the map                    *)
  NoEntry,      (* a ticket without a cache entry                          *)
  NoTicket,     (* the owner of a task that was never spawned              *)
  NoWebhook,    (* the dispatcher has no webhook in hand                   *)
  ChannelCap,   (* capacity of the webhook channel                         *)
  MaxWebhooks   (* bound: webhooks delivered in one behaviour              *)

Targets == {"none", "rule", "cleanup", "shorthand"}

(* One cache entry: the triple and the flags of the runtime state. *)
Entry == [triple : Triples, cycle : BOOLEAN, recheck : BOOLEAN, evict : BOOLEAN]

Webhook == [ticket : Tickets, payload : Payloads]

ASSUME ConstantsAssumption ==
  /\ Rejected \notin Triples
  /\ Blank \in Triples
  /\ Payloads \subseteq (Triples \ {Blank}) \cup {Rejected}
  /\ TargetOf \in [Triples -> Targets]
  /\ NoTask \notin TaskIds
  /\ NoEntry \notin Entry
  /\ NoTicket \notin Tickets
  /\ NoWebhook \notin Webhook
  /\ ChannelCap \in Nat \ {0}
  /\ MaxWebhooks \in Nat

(* mpsc::channel::<DispatchMsg>(1) *)
InboxCap == 1

DispatcherPC ==
  {"idle", "rejSnapshot", "rejFlag", "rejEscalation", "rejLookup", "rejEvict",
   "rejStore", "rejEscalation2", "accSnapshot", "accClear", "accRead",
   "accWrite", "accStore", "accRoute", "accRecheck"}

(* The dispatcher handles a webhook that passed the admission filter. *)
Accepting ==
  {"accSnapshot", "accClear", "accRead", "accWrite", "accStore", "accRoute",
   "accRecheck"}

TaskPC ==
  {"dead", "recv", "snapshot", "mark", "running", "clear", "takeEvict",
   "takeRecheck", "resend", "evict", "evictStore", "evictEscalation", "exit"}

Results == {"completed", "failed", "cleaned", "fsError"}
Evicting == {"cleaned", "fsError"}

(***************************************************************************)
(* How run_cycle may return for a target: the result, and whether the      *)
(* runner pushed an escalation entry for the ticket on the way.  A failed  *)
(* cycle whose on_failure handler succeeds is completed, whatever its kind;*)
(* a cleanup cycle that reaches a terminal is cleaned even when deleting   *)
(* the worktree failed.                                                    *)
(***************************************************************************)
CanEnd(target, result, pushed) ==
  \/ result = "completed" /\ target # "shorthand" /\ ~pushed
  \/ result = "failed" /\ (pushed => target # "shorthand")
  \/ result = "cleaned" /\ target = "cleanup"
  \/ result = "cleaned" /\ target = "shorthand" /\ ~pushed
  \/ result = "fsError" /\ target = "shorthand" /\ pushed

VARIABLES
  serving,    (* FALSE while cold start runs and the ready gate is closed  *)
  channel,    (* the webhook channel                                       *)
  sent,       (* webhooks delivered so far, bounded by MaxWebhooks         *)
  dpc, msg,   (* the dispatcher's program counter and webhook in hand      *)
  cache,      (* the diff cache                                            *)
  stored,     (* tickets whose store row is admitted and not evicted       *)
  escalated,  (* tickets with an entry in the escalation queue             *)
  handle,     (* the dispatcher's map of ticket handles                    *)
  tpc,        (* per task: program counter                                 *)
  owner,      (* per task: the ticket it was spawned for                   *)
  inbox,      (* per task: messages in its inbox                           *)
  job,        (* per task: the matched target, then the cycle's result     *)
  fresh,      (* history: triples written since a task last evaluated them *)
  verdict     (* history: the last admission decision, reset by a cleanup  *)

taskVars == <<tpc, owner, inbox, job>>
vars == <<serving, channel, sent, dpc, msg, cache, stored, escalated, handle,
          tpc, owner, inbox, job, fresh, verdict>>

-----------------------------------------------------------------------------
(* Operations of the cache. *)

Cached(t) == cache[t] # NoEntry

NewEntry(v) == [triple |-> v, cycle |-> FALSE, recheck |-> FALSE, evict |-> FALSE]

(* Writes to a field go through get_mut: no entry, no effect. *)
SetCycle(t, b) ==
  cache' = IF Cached(t) THEN [cache EXCEPT ![t].cycle = b] ELSE cache
SetRecheck(t, b) ==
  cache' = IF Cached(t) THEN [cache EXCEPT ![t].recheck = b] ELSE cache
SetEvict(t, b) ==
  cache' = IF Cached(t) THEN [cache EXCEPT ![t].evict = b] ELSE cache

Remove(t) == cache' = [cache EXCEPT ![t] = NoEntry]

Alive(k) == tpc[k] # "dead"

(* The map has a handle for t and its inbox is not closed. *)
Open(t) == handle[t] # NoTask /\ Alive(handle[t])

(* Spawn a task for t with one message in its inbox and file its handle. *)
Spawn(t) ==
  \E k \in TaskIds :
    /\ ~Alive(k)
    /\ \A u \in Tickets : u # t => handle[u] # k
    /\ handle' = [handle EXCEPT ![t] = k]
    /\ tpc' = [tpc EXCEPT ![k] = "recv"]
    /\ owner' = [owner EXCEPT ![k] = t]
    /\ inbox' = [inbox EXCEPT ![k] = 1]
    /\ UNCHANGED job

-----------------------------------------------------------------------------
(***************************************************************************)
(* The rows an earlier run left admitted in the store seed the cache with  *)
(* blank entries, which have no task until the ticket is enumerated or a   *)
(* webhook names it.                                                       *)
(***************************************************************************)
Seed(t) == IF t \in stored THEN NewEntry(Blank) ELSE NoEntry

Init ==
  /\ serving = FALSE
  /\ channel = <<>>
  /\ sent = 0
  /\ dpc = "idle"
  /\ msg = NoWebhook
  /\ stored \in SUBSET Tickets
  /\ cache = [t \in Tickets |-> Seed(t)]
  /\ escalated = {}
  /\ handle = [t \in Tickets |-> NoTask]
  /\ tpc = [k \in TaskIds |-> "dead"]
  /\ owner = [k \in TaskIds |-> NoTicket]
  /\ inbox = [k \in TaskIds |-> 0]
  /\ job = [k \in TaskIds |-> "none"]
  /\ fresh = {}
  /\ verdict = [t \in Tickets |-> "none"]

-----------------------------------------------------------------------------
(* Cold start and the webhook receiver. *)

(***************************************************************************)
(* Cold start admits an enumerated ticket: observe, then                   *)
(* admit_for_cold_start.  The ticket has neither a task nor a webhook yet, *)
(* so nothing can interleave with it.  A seeded entry takes the triple and *)
(* keeps its flags, which are all down, and its store row is there already.*)
(* The enumeration lists a ticket once.                                    *)
(***************************************************************************)
ColdAdmit(t, v) ==
  /\ ~serving
  /\ handle[t] = NoTask
  /\ cache' = [cache EXCEPT ![t] = NewEntry(v)]
  /\ stored' = stored \cup {t}
  /\ Spawn(t)
  /\ fresh' = fresh \cup {t}
  /\ verdict' = [verdict EXCEPT ![t] = "accepted"]
  /\ UNCHANGED <<serving, channel, sent, dpc, msg, escalated>>

(* ready_gate.open(): until then the receiver answers 503. *)
OpenGate ==
  /\ ~serving
  /\ serving' = TRUE
  /\ UNCHANGED <<channel, sent, dpc, msg, cache, stored, escalated, handle,
                 taskVars, fresh, verdict>>

(* The receiver queues a webhook; on a full channel it answers 503. *)
Deliver(w) ==
  /\ serving
  /\ sent < MaxWebhooks
  /\ Len(channel) < ChannelCap
  /\ channel' = Append(channel, w)
  /\ sent' = sent + 1
  /\ UNCHANGED <<serving, dpc, msg, cache, stored, escalated, handle, taskVars,
                 fresh, verdict>>

-----------------------------------------------------------------------------
(* The dispatcher. *)

(* The dispatcher moves to pc; back at "idle" it drops the webhook. *)
GoTo(pc) ==
  /\ dpc' = pc
  /\ msg' = IF pc = "idle" THEN NoWebhook ELSE msg

(* drain: take the next webhook and run the admission filter on it. *)
Receive ==
  /\ dpc = "idle"
  /\ channel # <<>>
  /\ msg' = Head(channel)
  /\ channel' = Tail(channel)
  /\ IF Head(channel).payload = Rejected
       THEN /\ dpc' = "rejSnapshot"
            /\ verdict' = [verdict EXCEPT ![Head(channel).ticket] = "rejected"]
       ELSE /\ dpc' = "accSnapshot"
            /\ verdict' = [verdict EXCEPT ![Head(channel).ticket] = "accepted"]
  /\ UNCHANGED <<serving, sent, cache, stored, escalated, handle, taskVars, fresh>>

(* Rejected: a ticket that is not cached needs nothing more. *)
RejSnapshot ==
  /\ dpc = "rejSnapshot"
  /\ GoTo(IF Cached(msg.ticket) THEN "rejFlag" ELSE "idle")
  /\ UNCHANGED <<serving, channel, sent, cache, stored, escalated, handle,
                 taskVars, fresh, verdict>>

RejFlag ==
  /\ dpc = "rejFlag"
  /\ SetEvict(msg.ticket, TRUE)
  /\ GoTo("rejEscalation")
  /\ UNCHANGED <<serving, channel, sent, stored, escalated, handle, taskVars,
                 fresh, verdict>>

RejEscalation ==
  /\ dpc = "rejEscalation"
  /\ escalated' = escalated \ {msg.ticket}
  /\ GoTo("rejLookup")
  /\ UNCHANGED <<serving, channel, sent, cache, stored, handle, taskVars, fresh,
                 verdict>>

(* Mutant of RejLookup: the entry is evicted under a running task. *)
RejLookupIgnoringHandle ==
  /\ dpc = "rejLookup"
  /\ GoTo("rejEvict")
  /\ UNCHANGED <<serving, channel, sent, cache, stored, escalated, handle,
                 taskVars, fresh, verdict>>

(* With a handle in the map the flag is left to the ticket task. *)
RejLookup ==
  /\ dpc = "rejLookup"
  /\ GoTo(IF handle[msg.ticket] = NoTask THEN "rejEvict" ELSE "idle")
  /\ UNCHANGED <<serving, channel, sent, cache, stored, escalated, handle,
                 taskVars, fresh, verdict>>

RejEvict ==
  /\ dpc = "rejEvict"
  /\ Remove(msg.ticket)
  /\ fresh' = fresh \ {msg.ticket}
  /\ GoTo("rejStore")
  /\ UNCHANGED <<serving, channel, sent, stored, escalated, handle, taskVars,
                 verdict>>

RejStore ==
  /\ dpc = "rejStore"
  /\ stored' = stored \ {msg.ticket}
  /\ GoTo("rejEscalation2")
  /\ UNCHANGED <<serving, channel, sent, cache, escalated, handle, taskVars,
                 fresh, verdict>>

RejEscalation2 ==
  /\ dpc = "rejEscalation2"
  /\ escalated' = escalated \ {msg.ticket}
  /\ GoTo("idle")
  /\ UNCHANGED <<serving, channel, sent, cache, stored, handle, taskVars, fresh,
                 verdict>>

(* Accepted: a re-admission cancels an eviction that is still pending. *)
AccSnapshot ==
  /\ dpc = "accSnapshot"
  /\ GoTo(IF Cached(msg.ticket) /\ cache[msg.ticket].evict
            THEN "accClear" ELSE "accRead")
  /\ UNCHANGED <<serving, channel, sent, cache, stored, escalated, handle,
                 taskVars, fresh, verdict>>

AccClear ==
  /\ dpc = "accClear"
  /\ SetEvict(msg.ticket, FALSE)
  /\ GoTo("accRead")
  /\ UNCHANGED <<serving, channel, sent, stored, escalated, handle, taskVars,
                 fresh, verdict>>

(* observe, under the read lock: an unchanged triple ends the webhook. *)
AccRead ==
  /\ dpc = "accRead"
  /\ GoTo(IF Cached(msg.ticket) /\ cache[msg.ticket].triple = msg.payload
            THEN "idle" ELSE "accWrite")
  /\ UNCHANGED <<serving, channel, sent, cache, stored, escalated, handle,
                 taskVars, fresh, verdict>>

(* observe, under the write lock: the flags of an entry survive a change. *)
AccWrite ==
  /\ dpc = "accWrite"
  /\ IF Cached(msg.ticket)
       THEN /\ cache' = [cache EXCEPT ![msg.ticket].triple = msg.payload]
            /\ GoTo("accRoute")
       ELSE /\ cache' = [cache EXCEPT ![msg.ticket] = NewEntry(msg.payload)]
            /\ GoTo("accStore")
  /\ fresh' = fresh \cup {msg.ticket}
  /\ UNCHANGED <<serving, channel, sent, stored, escalated, handle, taskVars,
                 verdict>>

(* observe, after the lock: only a new entry is mirrored to the store. *)
AccStore ==
  /\ dpc = "accStore"
  /\ stored' = stored \cup {msg.ticket}
  /\ GoTo("accRoute")
  /\ UNCHANGED <<serving, channel, sent, cache, escalated, handle, taskVars,
                 fresh, verdict>>

(* Mutant of AccRouteSpawn: a full inbox is taken for a closed one. *)
AccRouteSpawnWhenFull ==
  /\ dpc = "accRoute"
  /\ Open(msg.ticket) => inbox[handle[msg.ticket]] = InboxCap
  /\ Spawn(msg.ticket)
  /\ GoTo("idle")
  /\ UNCHANGED <<serving, channel, sent, cache, stored, escalated, fresh, verdict>>

(* Under the map lock: spawn a task, or try_send to the one on file. *)
AccRouteSpawn ==
  /\ dpc = "accRoute"
  /\ ~Open(msg.ticket)
  /\ Spawn(msg.ticket)
  /\ GoTo("idle")
  /\ UNCHANGED <<serving, channel, sent, cache, stored, escalated, fresh, verdict>>

(* Mutants of AccRouteSend: the capacity of the inbox is not respected, the *)
(* send waits for room, and a ticket with a cycle gets a flag, no message.  *)
AccRouteSendUnbounded ==
  /\ dpc = "accRoute"
  /\ Open(msg.ticket)
  /\ inbox' = [inbox EXCEPT ![handle[msg.ticket]] = @ + 1]
  /\ GoTo("idle")
  /\ UNCHANGED <<serving, channel, sent, cache, stored, escalated, handle, tpc,
                 owner, job, fresh, verdict>>

AccRouteSendBlocking ==
  /\ dpc = "accRoute"
  /\ Open(msg.ticket)
  /\ inbox[handle[msg.ticket]] < InboxCap
  /\ AccRouteSendUnbounded

AccRouteSendUnlessInFlight ==
  /\ dpc = "accRoute"
  /\ Open(msg.ticket)
  /\ IF inbox[handle[msg.ticket]] < InboxCap /\ ~cache[msg.ticket].cycle
       THEN /\ inbox' = [inbox EXCEPT ![handle[msg.ticket]] = @ + 1]
            /\ GoTo("idle")
       ELSE /\ GoTo("accRecheck")
            /\ UNCHANGED inbox
  /\ UNCHANGED <<serving, channel, sent, cache, stored, escalated, handle, tpc,
                 owner, job, fresh, verdict>>

AccRouteSend ==
  /\ dpc = "accRoute"
  /\ Open(msg.ticket)
  /\ IF inbox[handle[msg.ticket]] < InboxCap
       THEN /\ inbox' = [inbox EXCEPT ![handle[msg.ticket]] = @ + 1]
            /\ GoTo("idle")
       ELSE /\ GoTo("accRecheck")
            /\ UNCHANGED inbox
  /\ UNCHANGED <<serving, channel, sent, cache, stored, escalated, handle, tpc,
                 owner, job, fresh, verdict>>

(* After the map lock: back-pressure is left to the task as a flag. *)
AccRecheck ==
  /\ dpc = "accRecheck"
  /\ SetRecheck(msg.ticket, TRUE)
  /\ GoTo("idle")
  /\ UNCHANGED <<serving, channel, sent, stored, escalated, handle, taskVars,
                 fresh, verdict>>

Dispatcher ==
  \/ Receive
  \/ RejSnapshot \/ RejFlag \/ RejEscalation \/ RejLookup
  \/ RejEvict \/ RejStore \/ RejEscalation2
  \/ AccSnapshot \/ AccClear \/ AccRead \/ AccWrite \/ AccStore
  \/ AccRouteSpawn \/ AccRouteSend \/ AccRecheck

-----------------------------------------------------------------------------
(* The ticket tasks. *)

Step(k, from, to) ==
  /\ tpc[k] = from
  /\ tpc' = [tpc EXCEPT ![k] = to]

(* The task takes the message; its payload is not used. *)
TaskReceive(k) ==
  /\ Step(k, "recv", "snapshot")
  /\ inbox[k] > 0
  /\ inbox' = [inbox EXCEPT ![k] = @ - 1]
  /\ UNCHANGED <<serving, channel, sent, dpc, msg, cache, stored, escalated,
                 handle, owner, job, fresh, verdict>>

(* Evaluate the lists on the cached triple; no match ends the iteration. *)
TaskEvaluate(k) ==
  LET t == owner[k]
      target == IF Cached(t) THEN TargetOf[cache[t].triple] ELSE "none"
  IN  /\ Step(k, "snapshot", IF target = "none" THEN "recv" ELSE "mark")
      /\ job' = [job EXCEPT ![k] = target]
      /\ fresh' = fresh \ {t}
      /\ UNCHANGED <<serving, channel, sent, dpc, msg, cache, stored, escalated,
                     handle, owner, inbox, verdict>>

TaskMark(k) ==
  /\ Step(k, "mark", "running")
  /\ SetCycle(owner[k], TRUE)
  /\ UNCHANGED <<serving, channel, sent, dpc, msg, stored, escalated, handle,
                 owner, inbox, job, fresh, verdict>>

(* The runner returns, having pushed its escalation entry if it had one. *)
CycleEnd(k) ==
  /\ Step(k, "running", "clear")
  /\ \E result \in Results, pushed \in BOOLEAN :
       /\ CanEnd(job[k], result, pushed)
       /\ job' = [job EXCEPT ![k] = result]
       /\ escalated' = IF pushed THEN escalated \cup {owner[k]} ELSE escalated
  /\ UNCHANGED <<serving, channel, sent, dpc, msg, cache, stored, handle, owner,
                 inbox, fresh, verdict>>

TaskClear(k) ==
  /\ Step(k, "clear", IF job[k] \in Evicting THEN "evict" ELSE "takeEvict")
  /\ SetCycle(owner[k], FALSE)
  /\ UNCHANGED <<serving, channel, sent, dpc, msg, stored, escalated, handle,
                 owner, inbox, job, fresh, verdict>>

(* Mutant of TaskTakeEvict: only an eviction that a cleanup asks for is made. *)
TaskTakeEvictNever(k) ==
  /\ Step(k, "takeEvict", "takeRecheck")
  /\ UNCHANGED <<serving, channel, sent, dpc, msg, cache, stored, escalated,
                 handle, owner, inbox, job, fresh, verdict>>

(* take_pending_evict: the flag is read and lowered in one lock. *)
TaskTakeEvict(k) ==
  LET taken == Cached(owner[k]) /\ cache[owner[k]].evict
  IN  /\ Step(k, "takeEvict", IF taken THEN "evict" ELSE "takeRecheck")
      /\ SetEvict(owner[k], FALSE)
      /\ UNCHANGED <<serving, channel, sent, dpc, msg, stored, escalated, handle,
                     owner, inbox, job, fresh, verdict>>

TaskTakeRecheck(k) ==
  LET taken == Cached(owner[k]) /\ cache[owner[k]].recheck
  IN  /\ Step(k, "takeRecheck", IF taken THEN "resend" ELSE "recv")
      /\ SetRecheck(owner[k], FALSE)
      /\ job' = [job EXCEPT ![k] = "none"]
      /\ UNCHANGED <<serving, channel, sent, dpc, msg, stored, escalated, handle,
                     owner, inbox, fresh, verdict>>

(* try_send to the task's own inbox; a full inbox is ignored. *)
TaskResend(k) ==
  /\ Step(k, "resend", "recv")
  /\ inbox' = IF Cached(owner[k]) /\ inbox[k] < InboxCap
               THEN [inbox EXCEPT ![k] = @ + 1] ELSE inbox
  /\ UNCHANGED <<serving, channel, sent, dpc, msg, cache, stored, escalated,
                 handle, owner, job, fresh, verdict>>

TaskEvict(k) ==
  /\ Step(k, "evict", "evictStore")
  /\ Remove(owner[k])
  /\ fresh' = fresh \ {owner[k]}
  /\ verdict' = IF job[k] \in Evicting
                 THEN [verdict EXCEPT ![owner[k]] = "none"] ELSE verdict
  /\ UNCHANGED <<serving, channel, sent, dpc, msg, stored, escalated, handle,
                 owner, inbox, job>>

TaskEvictStore(k) ==
  /\ Step(k, "evictStore", "evictEscalation")
  /\ stored' = stored \ {owner[k]}
  /\ UNCHANGED <<serving, channel, sent, dpc, msg, cache, escalated, handle,
                 owner, inbox, job, fresh, verdict>>

TaskEvictEscalation(k) ==
  /\ Step(k, "evictEscalation", "exit")
  /\ escalated' = escalated \ {owner[k]}
  /\ UNCHANGED <<serving, channel, sent, dpc, msg, cache, stored, handle, owner,
                 inbox, job, fresh, verdict>>

(* The loop breaks and drops the receiver with whatever is still in it. *)
TaskExit(k) ==
  /\ Step(k, "exit", "dead")
  /\ inbox' = [inbox EXCEPT ![k] = 0]
  /\ job' = [job EXCEPT ![k] = "none"]
  /\ UNCHANGED <<serving, channel, sent, dpc, msg, cache, stored, escalated,
                 handle, owner, fresh, verdict>>

TaskStep(k) ==
  \/ TaskReceive(k) \/ TaskEvaluate(k) \/ TaskMark(k) \/ TaskClear(k)
  \/ TaskTakeEvict(k) \/ TaskTakeRecheck(k) \/ TaskResend(k)
  \/ TaskEvict(k) \/ TaskEvictStore(k) \/ TaskEvictEscalation(k) \/ TaskExit(k)

-----------------------------------------------------------------------------
(* Nothing is queued and nobody is between two critical sections. *)
Quiescent ==
  /\ serving
  /\ channel = <<>>
  /\ dpc = "idle"
  /\ \A k \in TaskIds : tpc[k] = "dead" \/ (tpc[k] = "recv" /\ inbox[k] = 0)

(* The daemon waits for a webhook that MaxWebhooks rules out. *)
Rest == Quiescent /\ sent = MaxWebhooks /\ UNCHANGED vars

Next ==
  \/ \E t \in Tickets, v \in Triples \ {Blank} : ColdAdmit(t, v)
  \/ OpenGate
  \/ \E w \in Webhook : Deliver(w)
  \/ Dispatcher
  \/ \E k \in TaskIds : TaskStep(k) \/ CycleEnd(k)
  \/ Rest

Spec == Init /\ [][Next]_vars

(* The executor schedules the dispatcher and every task that is ready; a   *)
(* cycle may run forever.                                                  *)
ExecutorFairSpec ==
  /\ Spec /\ WF_vars(OpenGate) /\ WF_vars(Dispatcher)
  /\ \A k \in TaskIds : WF_vars(TaskStep(k))

(* In addition, every cycle ends. *)
FairSpec == ExecutorFairSpec /\ \A k \in TaskIds : WF_vars(CycleEnd(k))

-----------------------------------------------------------------------------
(* Properties. *)

TypeOK ==
  /\ serving \in BOOLEAN
  /\ channel \in Seq(Webhook) /\ Len(channel) <= ChannelCap
  /\ sent \in 0 .. MaxWebhooks
  /\ dpc \in DispatcherPC
  /\ msg \in Webhook \cup {NoWebhook}
  /\ dpc # "idle" => msg \in Webhook
  /\ dpc \in Accepting => msg.payload \in Triples
  /\ cache \in [Tickets -> Entry \cup {NoEntry}]
  /\ stored \subseteq Tickets
  /\ escalated \subseteq Tickets
  /\ handle \in [Tickets -> TaskIds \cup {NoTask}]
  /\ tpc \in [TaskIds -> TaskPC]
  /\ owner \in [TaskIds -> Tickets \cup {NoTicket}]
  /\ \A k \in TaskIds : Alive(k) => owner[k] \in Tickets
  /\ inbox \in [TaskIds -> 0 .. InboxCap]
  /\ job \in [TaskIds -> Targets \cup Results]
  /\ fresh \subseteq Tickets
  /\ verdict \in [Tickets -> {"none", "accepted", "rejected"}]

(* Single flight: two live tasks never serve the same ticket, however many *)
(* webhooks, evictions and re-admissions the ticket goes through.          *)
SingleFlight ==
  \A k, l \in TaskIds :
    Alive(k) /\ Alive(l) /\ owner[k] = owner[l] => k = l

Executing(k) == tpc[k] \in {"running", "clear"}

(* The cache names a cycle for t. *)
InFlight(t) == Cached(t) /\ cache[t].cycle

(* The cycle_id of the cache, which the shutdown path counts, is set for a *)
(* ticket exactly while the task its handle points to executes a cycle:    *)
(* neither a revocation nor a change ever drops the entry under the cycle. *)
InFlightTracked ==
  \A t \in Tickets :
    InFlight(t) <=>
      (\E k \in TaskIds : owner[k] = t /\ Executing(k))

(* The parts of the inductive invariant: the handle of a live task is on   *)
(* file, the dispatcher evicts only a ticket without a handle, nothing is  *)
(* dispatched before the gate opens, and a task past its evaluation works  *)
(* on a cached ticket.                                                     *)
HandleOnFile == \A k \in TaskIds : Alive(k) => handle[owner[k]] = k
EvictsUnhandled == dpc = "rejEvict" => handle[msg.ticket] = NoTask
GateClosed == ~serving => channel = <<>> /\ dpc = "idle"
WorksOnCached ==
  \A k \in TaskIds :
    tpc[k] \in {"mark", "running", "clear"} => Cached(owner[k])

(* The hand-over between dispatcher and tasks, made inductive: the single  *)
(* slot in the handle map is what keeps a second task, and an eviction     *)
(* by the dispatcher, away from a ticket whose task is alive.              *)
DispatchInv ==
  /\ HandleOnFile
  /\ EvictsUnhandled
  /\ GateClosed
  /\ WorksOnCached
  /\ InFlightTracked

Inv == TypeOK /\ DispatchInv

(* The latest state wins: when all is quiet, the triple in the cache of    *)
(* every ticket has been evaluated by a task since it was last written.    *)
LatestEvaluated == Quiescent => fresh = {}

(* A triple that waits for its evaluation always has a wake-up on its way: *)
(* the dispatcher about to route it, a message in the inbox of a live      *)
(* task, or a task that is about to take its snapshot.                     *)
WakeupPending ==
  \A t \in fresh :
    \/ dpc \in {"accStore", "accRoute"} /\ msg.ticket = t
    \/ /\ Open(t)
       /\ inbox[handle[t]] > 0 \/ tpc[handle[t]] = "snapshot"

(* A ticket whose last webhook passed admission is tracked once all is     *)
(* quiet, unless a cleanup finished after it.                              *)
ReadmissionTracked ==
  Quiescent => \A t \in Tickets : verdict[t] = "accepted" => Cached(t)

(* A cleanup that failed on the file system is still escalated when its    *)
(* task ends.                                                              *)
FsErrorEscalated ==
  \A k \in TaskIds :
    tpc[k] = "exit" /\ job[k] = "fsError" => owner[k] \in escalated

(* The dispatcher never waits for a ticket task: the channel drains even   *)
(* if every cycle runs forever.                                            *)
DispatcherNeverBlocks == (channel # <<>>) ~> (channel = <<>> /\ dpc = "idle")

(* Every change that is observed is evaluated. *)
ChangeIsEvaluated == \A t \in Tickets : (t \in fresh) ~> (t \notin fresh)

(* A revocation that arrived during a cycle is settled once the cycle has  *)
(* ended: the entry is evicted, or a re-admission has withdrawn the flag.  *)
RevocationSettled ==
  \A t \in Tickets :
    (InFlight(t) /\ cache[t].evict /\ Open(t) /\ tpc[handle[t]] = "clear")
      ~> ~(Cached(t) /\ cache[t].evict)

(* The dispatch core implements the lifecycle of TicketLifecycle: whatever *)
(* the webhooks and the tasks interleave to, a cycle starts for a tracked  *)
(* ticket that runs none, and the ticket stays tracked until it finishes.  *)
Tracked == {t \in Tickets : Cached(t)}
Running ==
  [t \in Tickets |-> {k \in TaskIds : owner[k] = t /\ tpc[k] = "running"}]

Lifecycle ==
  INSTANCE TicketLifecycle
    WITH Workers <- TaskIds, tracked <- Tracked, workers <- Running

ImplementsLifecycle == Lifecycle!Spec
=============================================================================
