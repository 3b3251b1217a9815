---------------------------- MODULE ControlStore ------------------------------
(***************************************************************************)
(* The SQLite control-plane store, as a value: its tables, the operations  *)
(* of the Store trait and the forward-only migrations.  An operation is    *)
(* one transaction, so it maps a database to the database after it; one    *)
(* that the schema or its own guard refuses maps to Refused and leaves     *)
(* the tables alone.                                                       *)
(***************************************************************************)
EXTENDS Naturals, Sequences, SequencesExt, FiniteSets

CONSTANTS
  Open,        (* a column that is NULL                                    *)
  Latest       (* version of the newest migration this binary knows        *)

ASSUME StoreAssumption == Latest \in Nat

(* NotFound, or a constraint of the schema: no database, whose tables are  *)
(* its fields.                                                             *)
Refused == <<>>

(* Rows are functions of their keys: tickets[id] = [repo, evicted],        *)
(* cycles[id] = [ticket, kind, ended, outcome, state, iter], visits[<<c,   *)
(* s>>], runs[<<c, s, v>>]; events and escalations are sequences in the    *)
(* order of their autoincrement key.                                       *)
EmptyTable == [x \in {} |-> Open]

Fresh ==
  [version |-> 0, tickets |-> EmptyTable, cycles |-> EmptyTable,
   visits |-> EmptyTable, events |-> <<>>, runs |-> EmptyTable, escalations |-> <<>>]

Put(table, key, row) == [k \in DOMAIN table \cup {key} |-> IF k = key THEN row ELSE table[k]]

(* An UPDATE with a guard: no row updated is NotFound. *)
Update(db, name, key, guard, row) == IF guard THEN [db EXCEPT ![name] = Put(@, key, row)] ELSE Refused

-----------------------------------------------------------------------------
(* Tickets: an upsert, and an eviction that finds an admitted row. *)
IsAdmitted(db, id) == id \in DOMAIN db.tickets /\ ~db.tickets[id].evicted

AdmitTicket(db, id, repo) ==
  [db EXCEPT !.tickets = Put(@, id, [repo |-> repo, evicted |-> FALSE])]

EvictTicket(db, id) ==
  Update(db, "tickets", id, IsAdmitted(db, id),
         [repo |-> IF id \in DOMAIN db.tickets THEN db.tickets[id].repo ELSE Open,
          evicted |-> TRUE])

ListAdmitted(db) == {id \in DOMAIN db.tickets : ~db.tickets[id].evicted}

-----------------------------------------------------------------------------
(* Cycles.  cycles.ticket_id references tickets(id). *)
OpenCycle(db, c, id, kind) ==
  Update(db, "cycles", c, id \in DOMAIN db.tickets /\ c \notin DOMAIN db.cycles,
         [ticket |-> id, kind |-> kind, ended |-> FALSE, outcome |-> Open,
          state |-> Open, iter |-> 0])

SetCurrentState(db, c, s, iter) ==
  IF c \in DOMAIN db.cycles
  THEN [db EXCEPT !.cycles[c].state = s, !.cycles[c].iter = iter] ELSE Refused

(* state_visits.cycle_id references cycles(id). *)
BumpVisit(db, c, s) ==
  Update(db, "visits", <<c, s>>, c \in DOMAIN db.cycles,
         1 + IF <<c, s>> \in DOMAIN db.visits THEN db.visits[<<c, s>>] ELSE 0)

CloseCycle(db, c, outcome) ==
  IF c \in DOMAIN db.cycles /\ ~db.cycles[c].ended
  THEN [db EXCEPT !.cycles[c].ended = TRUE, !.cycles[c].outcome = outcome] ELSE Refused

ListInflight(db) == {c \in DOMAIN db.cycles : ~db.cycles[c].ended}

-----------------------------------------------------------------------------
(* Events.  events.cycle_id references cycles(id) and may be NULL. *)
AppendEvent(db, id, c, kind) ==
  IF c = Open \/ c \in DOMAIN db.cycles
  THEN [db EXCEPT !.events = Append(@, [ticket |-> id, cycle |-> c, kind |-> kind])]
  ELSE Refused

(* The first `limit' events of a ticket after sequence number `since'. *)
EventsSince(db, id, since, limit) ==
  LET seqs == {n \in since + 1 .. Len(db.events) : db.events[n].ticket = id} IN
    SubSeq(SetToSortSeq(seqs, <), 1, limit)

LatestEventSeq(db, id) ==
  LET seqs == {n \in 1 .. Len(db.events) : db.events[n].ticket = id} IN
    IF seqs = {} THEN Open ELSE CHOOSE n \in seqs : \A m \in seqs : m <= n

-----------------------------------------------------------------------------
(* Subprocess runs and escalations. *)
RegisterSubprocess(db, c, s, v) ==
  Update(db, "runs", <<c, s, v>>,
         c \in DOMAIN db.cycles /\ <<c, s, v>> \notin DOMAIN db.runs,
         [ended |-> FALSE, exit |-> Open])

FinishSubprocess(db, c, s, v, exit) ==
  Update(db, "runs", <<c, s, v>>,
         <<c, s, v>> \in DOMAIN db.runs /\ ~db.runs[<<c, s, v>>].ended,
         [ended |-> TRUE, exit |-> exit])

EnqueueEscalation(db, id, reason) ==
  [db EXCEPT !.escalations = Append(@, [ticket |-> id, reason |-> reason, acked |-> FALSE])]

AckEscalation(db, n) ==
  IF n \in DOMAIN db.escalations /\ ~db.escalations[n].acked
  THEN [db EXCEPT !.escalations[n].acked = TRUE] ELSE Refused

-----------------------------------------------------------------------------
(* Migrations: each newer version in a transaction of its own; a database  *)
(* that is ahead of the binary is refused.  The retyping of version 2      *)
(* keeps every row under the text form of its key.                         *)
TooNew(db) == db.version > Latest
Migrated(db) == db.version >= Latest
Migrate(db) == [db EXCEPT !.version = @ + 1]

(* What foreign_key_check looks for. *)
KeysIntact(db) ==
  /\ \A c \in DOMAIN db.cycles : db.cycles[c].ticket \in DOMAIN db.tickets
  /\ \A k \in DOMAIN db.visits \cup DOMAIN db.runs : k[1] \in DOMAIN db.cycles
  /\ \A n \in DOMAIN db.events : db.events[n].cycle \in DOMAIN db.cycles \cup {Open}

(* A write through with_store: a refusal is logged and changes nothing. *)
BestEffort(db, result) == IF result = Refused THEN db ELSE result
===============================================================================
