------------------------------- MODULE EventLog --------------------------------
(***************************************************************************)
(* What the daemon tells about itself: every event goes to the file of its *)
(* writer, to the ring the HTTP API pages through, and to the store; what  *)
(* nobody handled goes to the escalation queue.  The routes of the API     *)
(* read these and the diff cache, and log their own requests as events.    *)
(*                                                                         *)
(* A writer is a file behind a mutex.  An emit appends and flushes, records*)
(* in the ring and appends to the store; another writer, or the end of the *)
(* process, may come before the last of these.                             *)
(***************************************************************************)
EXTENDS Naturals, Sequences, SequencesExt, FiniteSets, TLC

CONSTANTS
  Tickets,
  DaemonWriter,    (* the writer "_daemon"                                 *)
  Anything,        (* a filter, or a cursor, that is not given             *)
  RingSize,        (* capacity of the event ring                           *)
  QueueCapacity,   (* capacity of the escalation queue                     *)
  PageLimit,       (* events on a page, 200 if the query says nothing      *)
  TicketWindow,    (* events in the detail of a ticket                     *)
  MaxEvents, MaxEscalations, MaxBoots, MaxFaults  (* bounds of the model   *)

ASSUME EventLogAssumption ==
  /\ RingSize \in Nat /\ QueueCapacity \in Nat \ {0}
  /\ PageLimit \in Nat \ {0} /\ TicketWindow \in Nat
  /\ MaxEvents \in Nat /\ MaxBoots \in Nat \ {0} /\ MaxFaults \in Nat
  /\ DaemonWriter \notin Tickets /\ Anything \notin Tickets \cup Nat

Writers == Tickets \cup {DaemonWriter}

VARIABLES
  boot,     (* which run of the daemon this is                             *)
  emitted,  (* events so far                                               *)
  faults,   (* disk and network failures so far                            *)
  file,     (* the events of each file, over all the runs                  *)
  buffer,   (* what a writer could not flush                               *)
  unstored, (* an event that waits for its append to the store, per writer *)
  store,    (* the rows of the events table                                *)
  ring, nextSeq,   (* the ring, oldest first                               *)
  queue,    (* the escalation queue, oldest first                          *)
  unlogged, (* escalations in the queue whose event is still to come       *)
  recency   (* the tickets of the diff cache, newest last_event_at first   *)

logVars == <<boot, emitted, faults, file, buffer, unstored, store, ring, nextSeq>>
escalationVars == <<queue, unlogged>>
eventLogVars == <<logVars, escalationVars, recency>>

Idle == <<>>  (* no event waits *)

EventLogInit ==
  /\ boot = 1 /\ emitted = 0 /\ faults = 0
  /\ file = [w \in Writers |-> <<>>] /\ buffer = file
  /\ unstored = [w \in Writers |-> Idle] /\ store = <<>>
  /\ ring = <<>> /\ nextSeq = 1
  /\ queue = <<>> /\ unlogged = {}
  /\ recency = <<>>

-----------------------------------------------------------------------------
(* What a filter leaves of a sequence: its members at some positions, in    *)
(* order, each at the place that its position has among them.              *)
Place(i, positions) == Cardinality({k \in positions : k <= i})
Picked(s, positions) ==
  [j \in 1 .. Cardinality(positions) |->
     s[CHOOSE i \in positions : Place(i, positions) = j]]

(* EventRing. *)

Recorded(entry) ==
  IF RingSize = 0 THEN ring
  ELSE (IF Len(ring) = RingSize THEN Tail(ring) ELSE ring) \o <<entry>>

Record(event) ==
  /\ ring' = Recorded([event EXCEPT !.seq = nextSeq])
  /\ nextSeq' = nextSeq + 1

Asked(filter, value) == filter = Anything \/ filter = value

(* Mutant of Gap: only an empty ring counts.                               *)
GapIfEmpty(since) == since # Anything /\ ring = <<>>

Gap(since) ==
  /\ since # Anything
  /\ ring = <<>> \/ since + 1 < ring[1].seq

(* EventRing::page: the oldest entries after the cursor, at most limit.    *)
RingPage(since, kind, ticket, limit) ==
  LET after(e) == /\ since = Anything \/ e.seq > since
                  /\ Asked(kind, e.kind) /\ Asked(ticket, e.ticket)
      found == Picked(ring, {i \in DOMAIN ring : after(ring[i])})
      events == SubSeq(found, 1, IF Len(found) <= limit THEN Len(found) ELSE limit)
  IN [events |-> events, gap |-> Gap(since),
      nextSince |-> IF events = <<>> THEN Anything ELSE Last(events).seq]

-----------------------------------------------------------------------------
(* EventWriter. *)
Event(w, kind, ticket) ==
  [id |-> emitted + 1, seq |-> 0, boot |-> boot, w |-> w, kind |-> kind, ticket |-> ticket]

Append1(e) == store' = Append(store, e)

(* Mutant of Emit: the store comes before the flush, and so has the event  *)
(* that fails to reach the file.                                           *)
EmitStoreFirst(w, kind, ticket) ==
  LET e == Event(w, kind, ticket) IN
  /\ emitted < MaxEvents /\ unstored[w] = Idle
  /\ emitted' = emitted + 1
  /\ Append1(e)
  /\ \/ /\ file' = [file EXCEPT ![w] = @ \o buffer[w] \o <<e>>]
        /\ buffer' = [buffer EXCEPT ![w] = <<>>]
        /\ Record(e) /\ UNCHANGED faults
     \/ /\ faults < MaxFaults /\ faults' = faults + 1
        /\ buffer' = [buffer EXCEPT ![w] = Append(@, e)]
        /\ UNCHANGED <<file, ring, nextSeq>>
  /\ UNCHANGED <<boot, unstored>>

(* Append, flush, record.  A write that fails leaves its bytes in the      *)
(* buffer, for the next one to flush; the event reaches neither the ring   *)
(* nor the store, and no caller retries it.                                *)
Emit(w, kind, ticket) ==
  LET e == Event(w, kind, ticket) IN
  /\ emitted < MaxEvents /\ unstored[w] = Idle
  /\ emitted' = emitted + 1
  /\ \/ /\ file' = [file EXCEPT ![w] = @ \o buffer[w] \o <<e>>]
        /\ buffer' = [buffer EXCEPT ![w] = <<>>]
        /\ unstored' = [unstored EXCEPT ![w] = <<e>>]
        /\ Record(e)
        /\ UNCHANGED faults
     \/ /\ faults < MaxFaults /\ faults' = faults + 1
        /\ buffer' = [buffer EXCEPT ![w] = Append(@, e)]
        /\ UNCHANGED <<file, unstored, ring, nextSeq>>
  /\ UNCHANGED <<boot, store>>

(* append_event_best_effort: a refusal is logged and forgotten.            *)
Persist(w) ==
  /\ unstored[w] # Idle
  /\ unstored' = [unstored EXCEPT ![w] = Idle]
  /\ \/ Append1(unstored[w][1]) /\ UNCHANGED faults
     \/ faults < MaxFaults /\ faults' = faults + 1 /\ UNCHANGED store
  /\ UNCHANGED <<boot, emitted, file, buffer, ring, nextSeq, escalationVars, recency>>

(* Any emit site of a ticket: the dispatcher, its task, the runners.       *)
TicketEvent(t) ==
  /\ Emit(t, "event", t)
  /\ UNCHANGED <<escalationVars, recency>>

-----------------------------------------------------------------------------
(* The escalation queue: pushed under its own lock, then logged by the     *)
(* daemon's writer.                                                        *)
Escalation(t) == [ticket |-> t, id |-> emitted + 1]

Pushed(e) == Append(IF Len(queue) = QueueCapacity THEN Tail(queue) ELSE queue, e)

(* Mutant of Push: an overflow returns before the event.                   *)
PushQuietly(e) ==
  /\ queue' = Pushed(e)
  /\ unlogged' = IF Len(queue) = QueueCapacity THEN unlogged ELSE unlogged \cup {e}

Push(e) ==
  /\ queue' = Pushed(e)
  /\ unlogged' = unlogged \cup {e}

Escalate(t) ==
  /\ emitted + Cardinality(unlogged) < MaxEscalations
  /\ Push(Escalation(t))
  /\ UNCHANGED <<logVars, recency>>

LogEscalation ==
  /\ \E e \in unlogged :
       /\ Emit(DaemonWriter, "escalation_added", e.ticket)
       /\ unlogged' = unlogged \ {e}
  /\ UNCHANGED <<queue, recency>>

-----------------------------------------------------------------------------
(* The diff cache, as far as the API shows it (external: the dispatcher).  *)
OthersThan(t) == Picked(recency, {i \in DOMAIN recency : recency[i] # t})

Touch(t) ==
  /\ recency' = <<t>> \o OthersThan(t) /\ recency' # recency
  /\ UNCHANGED <<logVars, escalationVars>>

(* Cleanup takes the ticket out of the cache and of the queue.             *)
Forget(t) ==
  /\ t \in ToSet(recency)
  /\ recency' = OthersThan(t)
  /\ queue' = Picked(queue, {i \in DOMAIN queue : queue[i].ticket # t})
  /\ UNCHANGED <<logVars, unlogged>>

(* The daemon ends and starts again: files and store stay.                 *)
Restart ==
  /\ boot < MaxBoots /\ boot' = boot + 1
  /\ buffer' = [w \in Writers |-> <<>>]
  /\ unstored' = [w \in Writers |-> Idle]
  /\ ring' = <<>> /\ nextSeq' = 1
  /\ queue' = <<>> /\ unlogged' = {} /\ recency' = <<>>
  /\ UNCHANGED <<emitted, faults, file, store>>

-----------------------------------------------------------------------------
(* The routes the terminal UI asks. *)
NotFound == [error |-> 404]

TicketDetail(t) ==
  LET recent == RingPage(Anything, Anything, t, TicketWindow + 1).events IN
  IF t \notin ToSet(recency) THEN NotFound
  ELSE [ticket |-> t, truncated |-> Len(recent) > TicketWindow,
        recent |-> SubSeq(recent, 1, IF Len(recent) <= TicketWindow THEN Len(recent)
                                      ELSE TicketWindow)]

(* log_layer, and what POST /api/refresh says before it.  Beyond MaxEvents *)
(* requests go unlogged.                                                   *)
LogRequest(kind) ==
  \/ Emit(DaemonWriter, kind, Anything)
  \/ emitted = MaxEvents /\ UNCHANGED logVars

-----------------------------------------------------------------------------
(* Properties of the log. *)
OldestFirst(events) ==
  \A i, j \in DOMAIN events :
    i < j /\ events[i].w = events[j].w => events[i].id < events[j].id

(* The ring holds the last events of this run, without a hole, and those   *)
(* of one writer in the order of its file: an event that a page shows can  *)
(* be found in the file (EventWriter::emit, EventRing::record).            *)
RingIsTheTail ==
  /\ \A i \in DOMAIN ring :
       /\ ring[i].seq + Len(ring) = nextSeq + i - 1 /\ ring[i].boot = boot
       /\ \E e \in ToSet(file[ring[i].w]) : e.id = ring[i].id
  /\ OldestFirst(ring)

(* Whatever ends the daemon, the store never holds an event that the file, *)
(* which is authoritative, lacks; and it holds those of a writer in order  *)
(* (EventWriter::emit, append_event_best_effort).                          *)
StoreTrailsFile ==
  /\ \A i \in DOMAIN store : store[i] \in ToSet(file[store[i].w])
  /\ OldestFirst(store)

(* Every escalation the queue shows has been announced by the daemon's     *)
(* writer, is about to be, or is behind a failed flush                     *)
(* (EscalationQueue::insert_and_emit).                                     *)
EscalationsAreLogged ==
  \A e \in ToSet(queue) :
    \/ e \in unlogged
    \/ \E x \in ToSet(file[DaemonWriter] \o buffer[DaemonWriter]) :
         x.kind = "escalation_added" /\ x.ticket = e.ticket /\ x.id >= e.id
=============================================================================
