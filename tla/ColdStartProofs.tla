---------------------------- MODULE ColdStartProofs ----------------------------
(***************************************************************************)
(* For any number of tickets, boots, crashes, cycles and workflow files:   *)
(* cache, store and running cycles agree, recovery leaves the event of     *)
(* each row that it has to announce and can, the sweep takes nothing that  *)
(* is worked on, the status filter loses no ticket and no foreign key ever *)
(* dangles.                                                                *)
(***************************************************************************)
EXTENDS ColdStart, WellFoundedInduction, TLAPS

(* Induction in its first-order form: a set of numbers has a least one. *)
Below == {p \in Nat \X Nat : p[1] < p[2]}

LEMMA LeastNat ==
  ASSUME NEW T, T \subseteq Nat, T # {}
  PROVE  \E m \in T : \A k \in T : m <= k
<1>1. IsWellFoundedOn(Below, Nat)
  <2>1. Below = OpToRel(<, Nat)
    BY DEF Below, OpToRel
  <2> QED
    BY <2>1, NatLessThanWellFounded
<1>2. PICK m \in T : \A k \in T : <<k, m>> \notin Below
  BY <1>1, WFMin
<1>3. ASSUME NEW k \in T, ~(m <= k) PROVE FALSE
  <2>1. k \in Nat /\ m \in Nat /\ k < m
    BY <1>3
  <2> QED
    BY <2>1, <1>2 DEF Below
<1> QED
  BY <1>3

(* The same for the numbers up to a bound: a bounded set has a greatest. *)
LEMMA GreatestNat ==
  ASSUME NEW n \in Nat, NEW T, T \subseteq 0 .. n, T # {}
  PROVE  \E m \in T : \A k \in T : k <= m
<1> DEFINE bounds == {b \in Nat : \A k \in T : k <= b}
<1>1. n \in bounds
  OBVIOUS
<1>2. PICK m \in bounds : \A b \in bounds : m <= b
  BY <1>1, LeastNat
<1>3. ASSUME m \notin T PROVE FALSE
  <2>1. \A k \in T : k \in Nat /\ k < m
    BY <1>2, <1>3
  <2>2. PICK k \in T : k \in Nat /\ k < m
    BY <2>1
  <2>3. m \in Nat /\ m - 1 \in Nat
    BY <1>2, <2>2
  <2>4. \A j \in T : j <= m - 1
    BY <2>1, <2>3
  <2> QED
    BY <1>2, <2>3, <2>4
<1> QED
  BY <1>2, <1>3

-----------------------------------------------------------------------------
(* Lists. *)

LEMMA ListDomain ==
  ASSUME NEW s, IsList(s)
  PROVE  Len(s) \in Nat /\ DOMAIN s = 1 .. Len(s)
BY DEF IsList

LEMMA AppendList ==
  ASSUME NEW s, IsList(s), NEW e
  PROVE  /\ IsList(Append(s, e))
         /\ DOMAIN Append(s, e) = 1 .. Len(s) + 1
         /\ \A n \in DOMAIN s : Append(s, e)[n] = s[n]
         /\ Append(s, e)[Len(s) + 1] = e
<1> DEFINE a == Append(s, e)
<1>1. s \in Seq(ToSet(s) \cup {e})
  BY DEF IsList
<1>2. /\ Len(s) \in Nat /\ DOMAIN s = 1 .. Len(s) /\ a \in Seq(ToSet(s) \cup {e})
      /\ DOMAIN a = 1 .. Len(s) + 1 /\ Len(a) = Len(s) + 1
      /\ \A n \in DOMAIN s : a[n] = s[n]
      /\ a[Len(s) + 1] = e
  BY <1>1
<1>3. \A n \in 1 .. Len(a) : a[n] \in ToSet(a)
  BY <1>2 DEF ToSet
<1> HIDE DEF a
<1>4. a = [n \in 1 .. Len(a) |-> a[n]] /\ Len(a) \in Nat
  BY <1>2
<1>5. a \in Seq(ToSet(a))
  BY <1>3, <1>4
<1> QED
  BY <1>2, <1>5 DEF IsList, a

-----------------------------------------------------------------------------
(* The store: what each operation does to the tables, refused or not. *)

Schema == {"version", "tickets", "cycles", "visits", "events", "runs", "escalations"}

Columns == {"ticket", "kind", "ended", "outcome", "state", "iter"}

(* A database as the operations build it. *)
IsDb(d) ==
  /\ DOMAIN d = Schema
  /\ IsList(d.events)
  /\ \A c \in DOMAIN d.cycles : DOMAIN d.cycles[c] = Columns

Sound(d) == IsDb(d) /\ KeysIntact(d)

LEMMA BestEffortResult ==
  ASSUME NEW d, NEW a, IsDb(a)
  PROVE  BestEffort(d, a) = a
<1>1. "events" \in DOMAIN a /\ "events" \notin DOMAIN Refused
  BY DEF IsDb, Schema, Refused
<1> QED
  BY <1>1 DEF BestEffort

(* An admission adds the ticket to the admitted ones. *)
LEMMA AdmitTicketEffect ==
  ASSUME NEW d, Sound(d), NEW id, NEW repo,
         NEW e, e = BestEffort(d, AdmitTicket(d, id, repo))
  PROVE  /\ Sound(e)
         /\ DOMAIN e.tickets = DOMAIN d.tickets \cup {id}
         /\ ListAdmitted(e) = ListAdmitted(d) \cup {id}
         /\ e.cycles = d.cycles /\ e.events = d.events
<1> DEFINE a == AdmitTicket(d, id, repo)
<1>1. /\ DOMAIN a = Schema /\ a.tickets = Put(d.tickets, id, [repo |-> repo, evicted |-> FALSE])
      /\ a.cycles = d.cycles /\ a.visits = d.visits /\ a.events = d.events /\ a.runs = d.runs
  BY DEF Sound, IsDb, Schema, AdmitTicket
<1>2. IsDb(a)
  BY <1>1 DEF Sound, IsDb
<1>3. e = a
  BY <1>2, BestEffortResult
<1> HIDE DEF a
<1>4. DOMAIN e.tickets = DOMAIN d.tickets \cup {id}
  BY <1>1, <1>3 DEF Put
<1>5. KeysIntact(e)
  BY <1>1, <1>3, <1>4 DEF Sound, KeysIntact
<1>6. ListAdmitted(e) = ListAdmitted(d) \cup {id}
  BY <1>1, <1>3 DEF ListAdmitted, Put
<1> QED
  BY <1>1, <1>2, <1>3, <1>4, <1>5, <1>6 DEF Sound

(* An eviction leaves the ticket out of them, though it may find no row. *)
LEMMA EvictTicketEffect ==
  ASSUME NEW d, Sound(d), NEW id,
         NEW e, e = BestEffort(d, EvictTicket(d, id))
  PROVE  /\ Sound(e)
         /\ DOMAIN e.tickets = DOMAIN d.tickets
         /\ ListAdmitted(e) = ListAdmitted(d) \ {id}
         /\ e.cycles = d.cycles /\ e.events = d.events
<1>1. CASE ~IsAdmitted(d, id)
  BY <1>1 DEF BestEffort, EvictTicket, Update, IsAdmitted, ListAdmitted
<1>2. CASE IsAdmitted(d, id)
  <2> DEFINE row == [repo |-> IF id \in DOMAIN d.tickets THEN d.tickets[id].repo ELSE Open,
                     evicted |-> TRUE]
  <2> DEFINE a == [d EXCEPT !["tickets"] = Put(@, id, row)]
  <2>1. a = EvictTicket(d, id)
    BY <1>2 DEF EvictTicket, Update
  <2>2. row.evicted = TRUE
    OBVIOUS
  <2> HIDE DEF row
  <2>3. /\ DOMAIN a = Schema /\ a.tickets = Put(d.tickets, id, row)
        /\ a.cycles = d.cycles /\ a.visits = d.visits /\ a.events = d.events /\ a.runs = d.runs
    BY DEF Sound, IsDb, Schema
  <2> HIDE DEF a
  <2>4. IsDb(a)
    BY <2>3 DEF Sound, IsDb
  <2>5. e = a
    BY <2>1, <2>4, BestEffortResult
  <2>6. DOMAIN e.tickets = DOMAIN d.tickets
    BY <1>2, <2>3, <2>5 DEF Put, IsAdmitted
  <2>7. KeysIntact(e)
    BY <2>3, <2>5, <2>6 DEF Sound, KeysIntact
  <2>8. ListAdmitted(e) = ListAdmitted(d) \ {id}
    BY <1>2, <2>2, <2>3, <2>5 DEF ListAdmitted, Put, IsAdmitted
  <2> QED
    BY <2>3, <2>4, <2>5, <2>6, <2>7, <2>8 DEF Sound
<1> QED
  BY <1>1, <1>2

(* A cycle that is opened is in flight, and the only new one. *)
LEMMA OpenCycleEffect ==
  ASSUME NEW d, Sound(d), NEW c, NEW id, NEW kind,
         NEW e, e = BestEffort(d, OpenCycle(d, c, id, kind))
  PROVE  /\ Sound(e) /\ e.tickets = d.tickets /\ e.events = d.events
         /\ DOMAIN e.cycles \subseteq DOMAIN d.cycles \cup {c}
         /\ ListInflight(e) \subseteq ListInflight(d) \cup {c}
         /\ ListInflight(d) \subseteq ListInflight(e)
<1> DEFINE guard == id \in DOMAIN d.tickets /\ c \notin DOMAIN d.cycles
<1>1. CASE ~guard
  BY <1>1 DEF BestEffort, OpenCycle, Update
<1>2. CASE guard
  <2> DEFINE row == [ticket |-> id, kind |-> kind, ended |-> FALSE, outcome |-> Open,
                     state |-> Open, iter |-> 0]
  <2> DEFINE a == [d EXCEPT !["cycles"] = Put(@, c, row)]
  <2>1. a = OpenCycle(d, c, id, kind)
    BY <1>2 DEF OpenCycle, Update
  <2>2. DOMAIN row = Columns /\ ~row.ended /\ row.ticket = id
    BY DEF Columns
  <2> HIDE DEF row
  <2>3. /\ DOMAIN a = Schema /\ a.cycles = Put(d.cycles, c, row)
        /\ a.tickets = d.tickets /\ a.visits = d.visits /\ a.events = d.events /\ a.runs = d.runs
    BY DEF Sound, IsDb, Schema
  <2> HIDE DEF a
  <2>4. IsDb(a)
    BY <2>2, <2>3 DEF Sound, IsDb, Put
  <2>5. e = a
    BY <2>1, <2>4, BestEffortResult
  <2>6. /\ DOMAIN e.cycles = DOMAIN d.cycles \cup {c} /\ e.cycles[c] = row
        /\ \A k \in DOMAIN d.cycles : e.cycles[k] = d.cycles[k]
    BY <1>2, <2>3, <2>5 DEF Put
  <2>7. KeysIntact(e)
    BY <1>2, <2>2, <2>3, <2>5, <2>6 DEF Sound, KeysIntact
  <2> QED
    BY <1>2, <2>2, <2>3, <2>4, <2>5, <2>6, <2>7 DEF ListInflight, Sound
<1> QED
  BY <1>1, <1>2

(* A change of two columns of one row. *)
LEMMA RowChange ==
  ASSUME NEW d, Sound(d), NEW c \in DOMAIN d.cycles, NEW a,
         DOMAIN a = Schema, DOMAIN a.cycles = DOMAIN d.cycles,
         a.tickets = d.tickets, a.visits = d.visits, a.events = d.events, a.runs = d.runs,
         \A k \in DOMAIN d.cycles \ {c} : a.cycles[k] = d.cycles[k],
         DOMAIN a.cycles[c] = Columns, a.cycles[c].ticket = d.cycles[c].ticket
  PROVE  Sound(a)
<1>1. IsDb(a)
  BY DEF Sound, IsDb
<1>2. KeysIntact(a)
  BY DEF Sound, KeysIntact
<1> QED
  BY <1>1, <1>2 DEF Sound

(* The state that a cycle is in changes nothing of what is in flight. *)
LEMMA SetCurrentStateEffect ==
  ASSUME NEW d, Sound(d), NEW c, NEW s, NEW iter,
         NEW e, e = BestEffort(d, SetCurrentState(d, c, s, iter))
  PROVE  /\ Sound(e) /\ e.tickets = d.tickets /\ e.events = d.events
         /\ DOMAIN e.cycles = DOMAIN d.cycles
         /\ ListInflight(e) = ListInflight(d)
<1>1. CASE c \notin DOMAIN d.cycles
  BY <1>1 DEF BestEffort, SetCurrentState
<1>2. CASE c \in DOMAIN d.cycles
  <2> DEFINE a == [d EXCEPT !.cycles[c].state = s, !.cycles[c].iter = iter]
  <2>1. a = SetCurrentState(d, c, s, iter)
    BY <1>2 DEF SetCurrentState
  <2>2. /\ DOMAIN a = Schema /\ DOMAIN a.cycles = DOMAIN d.cycles
        /\ a.tickets = d.tickets /\ a.visits = d.visits /\ a.events = d.events /\ a.runs = d.runs
    BY DEF Sound, IsDb, Schema
  <2>3. \A k \in DOMAIN d.cycles \ {c} : a.cycles[k] = d.cycles[k]
    BY DEF Sound, IsDb, Schema
  <2>4. /\ DOMAIN a.cycles[c] = Columns /\ a.cycles[c].ended = d.cycles[c].ended
        /\ a.cycles[c].ticket = d.cycles[c].ticket
    BY <1>2 DEF Sound, IsDb, Schema, Columns
  <2> HIDE DEF a
  <2>5. Sound(a)
    BY <1>2, <2>2, <2>3, <2>4, RowChange
  <2>6. e = a
    BY <2>1, <2>5, BestEffortResult DEF Sound
  <2> QED
    BY <2>2, <2>3, <2>4, <2>5, <2>6 DEF ListInflight
<1> QED
  BY <1>1, <1>2

(* So does the count of its visits. *)
LEMMA BumpVisitEffect ==
  ASSUME NEW d, Sound(d), NEW c, NEW s,
         NEW e, e = BestEffort(d, BumpVisit(d, c, s))
  PROVE  /\ Sound(e) /\ e.tickets = d.tickets /\ e.events = d.events
         /\ e.cycles = d.cycles
<1>1. CASE c \notin DOMAIN d.cycles
  BY <1>1 DEF BestEffort, BumpVisit, Update
<1>2. CASE c \in DOMAIN d.cycles
  <2> DEFINE n == 1 + IF <<c, s>> \in DOMAIN d.visits THEN d.visits[<<c, s>>] ELSE 0
  <2> DEFINE a == [d EXCEPT !["visits"] = Put(@, <<c, s>>, n)]
  <2>1. a = BumpVisit(d, c, s)
    BY <1>2 DEF BumpVisit, Update
  <2> HIDE DEF n
  <2>2. /\ DOMAIN a = Schema /\ a.visits = Put(d.visits, <<c, s>>, n)
        /\ a.tickets = d.tickets /\ a.cycles = d.cycles /\ a.events = d.events /\ a.runs = d.runs
    BY DEF Sound, IsDb, Schema
  <2> HIDE DEF a
  <2>3. IsDb(a)
    BY <2>2 DEF Sound, IsDb
  <2>4. e = a
    BY <2>1, <2>3, BestEffortResult
  <2>5. DOMAIN a.visits = DOMAIN d.visits \cup {<<c, s>>} /\ <<c, s>>[1] = c
    BY <2>2 DEF Put
  <2>6. KeysIntact(a)
    BY <1>2, <2>2, <2>5 DEF Sound, KeysIntact
  <2> QED
    BY <2>2, <2>3, <2>4, <2>6 DEF Sound
<1> QED
  BY <1>1, <1>2

(* A cycle that is closed, or was not open, is not in flight. *)
LEMMA CloseCycleEffect ==
  ASSUME NEW d, Sound(d), NEW c, NEW outcome,
         NEW e, e = BestEffort(d, CloseCycle(d, c, outcome))
  PROVE  /\ Sound(e) /\ e.tickets = d.tickets /\ e.events = d.events
         /\ DOMAIN e.cycles = DOMAIN d.cycles
         /\ ListInflight(e) = ListInflight(d) \ {c}
<1>1. CASE c \notin ListInflight(d)
  BY <1>1 DEF BestEffort, CloseCycle, ListInflight
<1>2. CASE c \in ListInflight(d)
  <2> DEFINE a == [d EXCEPT !.cycles[c].ended = TRUE, !.cycles[c].outcome = outcome]
  <2>1. c \in DOMAIN d.cycles /\ a = CloseCycle(d, c, outcome)
    BY <1>2 DEF CloseCycle, ListInflight
  <2>2. /\ DOMAIN a = Schema /\ DOMAIN a.cycles = DOMAIN d.cycles
        /\ a.tickets = d.tickets /\ a.visits = d.visits /\ a.events = d.events /\ a.runs = d.runs
    BY DEF Sound, IsDb, Schema
  <2>3. \A k \in DOMAIN d.cycles \ {c} : a.cycles[k] = d.cycles[k]
    BY DEF Sound, IsDb, Schema
  <2>4. /\ DOMAIN a.cycles[c] = Columns /\ a.cycles[c].ended = TRUE
        /\ a.cycles[c].ticket = d.cycles[c].ticket
    BY <2>1 DEF Sound, IsDb, Schema, Columns
  <2> HIDE DEF a
  <2>5. Sound(a)
    BY <2>1, <2>2, <2>3, <2>4, RowChange
  <2>6. e = a
    BY <2>1, <2>5, BestEffortResult DEF Sound
  <2> QED
    BY <2>2, <2>3, <2>4, <2>5, <2>6 DEF ListInflight
<1> QED
  BY <1>1, <1>2

(* An event of a cycle that has a row is in the store from then on. *)
LEMMA AppendEventEffect ==
  ASSUME NEW d, Sound(d), NEW id, NEW c, NEW kind,
         NEW e, e = BestEffort(d, AppendEvent(d, id, c, kind))
  PROVE  /\ Sound(e) /\ e.tickets = d.tickets /\ e.cycles = d.cycles
         /\ \A n \in DOMAIN d.events : n \in DOMAIN e.events /\ e.events[n] = d.events[n]
         /\ c \in DOMAIN d.cycles => \E n \in DOMAIN e.events : e.events[n].cycle = c
<1> DEFINE guard == c = Open \/ c \in DOMAIN d.cycles
<1>1. CASE ~guard
  BY <1>1 DEF BestEffort, AppendEvent
<1>2. CASE guard
  <2> DEFINE row == [ticket |-> id, cycle |-> c, kind |-> kind]
  <2> DEFINE a == [d EXCEPT !.events = Append(@, row)]
  <2>1. a = AppendEvent(d, id, c, kind) /\ row.cycle = c
    BY <1>2 DEF AppendEvent
  <2> HIDE DEF row
  <2>2. /\ DOMAIN a = Schema /\ a.events = Append(d.events, row)
        /\ a.tickets = d.tickets /\ a.cycles = d.cycles /\ a.visits = d.visits /\ a.runs = d.runs
    BY DEF Sound, IsDb, Schema
  <2> HIDE DEF a
  <2>3. IsList(d.events)
    BY DEF Sound, IsDb
  <2>4. /\ IsList(a.events) /\ Len(d.events) \in Nat
        /\ DOMAIN d.events = 1 .. Len(d.events) /\ DOMAIN a.events = 1 .. Len(d.events) + 1
        /\ \A n \in DOMAIN d.events : a.events[n] = d.events[n]
        /\ a.events[Len(d.events) + 1].cycle = c
    BY <2>1, <2>2, <2>3, AppendList, ListDomain
  <2>5. IsDb(a)
    BY <2>2, <2>4 DEF Sound, IsDb
  <2>6. e = a
    BY <2>1, <2>5, BestEffortResult
  <2>7. KeysIntact(a)
    BY <1>2, <2>2, <2>4 DEF Sound, KeysIntact
  <2> QED
    BY <2>2, <2>4, <2>5, <2>6, <2>7 DEF Sound
<1> QED
  BY <1>1, <1>2

(* A migration keeps every row. *)
LEMMA MigrateEffect ==
  ASSUME NEW d, Sound(d)
  PROVE  /\ Sound(Migrate(d)) /\ Migrate(d).tickets = d.tickets
         /\ Migrate(d).cycles = d.cycles /\ Migrate(d).events = d.events
<1> DEFINE a == Migrate(d)
<1>1. /\ DOMAIN a = Schema /\ a.tickets = d.tickets /\ a.cycles = d.cycles
      /\ a.visits = d.visits /\ a.events = d.events /\ a.runs = d.runs
  BY DEF Sound, IsDb, Schema, Migrate
<1> HIDE DEF a
<1>2. Sound(a)
  BY <1>1 DEF Sound, IsDb, KeysIntact
<1> QED
  BY <1>1, <1>2 DEF a

-----------------------------------------------------------------------------
(* The inductive invariant. *)

NoLiveWork ==
  /\ task = [t \in Tickets |-> "none"] /\ run = [t \in Tickets |-> NoCycle]
  /\ todo = {} /\ page = {} /\ keep = {} /\ deleted = {} /\ revoked = {} /\ crossed = {}
  /\ ~partial /\ ~serving

(* A boot before its enumeration has no task and nothing in hand. *)
BootIsQuiet == ~Booted \/ main = "enumerate" => NoLiveWork

(* The recovery has before it every row that is open; the one it closes    *)
(* next has its event, unless that could not be written.                   *)
RecoveryInHand ==
  /\ main = "recover" => ListInflight(db) \subseteq listed
  /\ main \in {"announced", "unheard"} => ListInflight(db) \subseteq listed \cup {at}
  /\ main = "announced" /\ at \in ListInflight(db) =>
       \E n \in DOMAIN db.events : db.events[n].cycle = at
  /\ main \in {"recover", "announced", "unheard"} => DOMAIN cache = ListAdmitted(db)

(* Cycle identifiers are handed out upwards, to a task that has none.      *)
RunsAtWork ==
  /\ DOMAIN db.cycles \subseteq 1 .. fresh
  /\ \A t \in Tickets :
       /\ run[t] <= fresh
       /\ task[t] \in {"none", "idle", "evict", "gone"} => run[t] = NoCycle
       /\ task[t] = "settle" => run[t] \notin ListInflight(db)

(* Which program counters belong to cold start, which to the dispatcher.   *)
Phases ==
  /\ main \in {"enumerate", "admit", "sweep"} => ~serving
  /\ main \in {"serving", "unmirror"} => serving
  /\ main \in {"mirror", "unmirror", "route"} => at \in Tickets

(* During cold start a task has come from an issue of the enumeration, and *)
(* one that is still to be admitted has none.                              *)
TasksAreKept ==
  /\ \A i \in todo : i.id \in Tickets
  /\ \A i, j \in todo : i.id = j.id => i = j
  /\ ~serving =>
       /\ \A i \in todo : task[i.id] = "none"
       /\ \A t \in Tickets : task[t] # "none" => t \in keep
       /\ main \in {"mirror", "route"} =>
            at \in keep /\ task[at] = "none" /\ \A i \in todo : i.id # at

(* The sweep takes nothing that is kept, and nothing else takes anything.  *)
SweepIsSafe ==
  /\ deleted # {} => main = "sweep"
  /\ main = "sweep" => ~partial /\ todo = {}
  /\ deleted \cap keep = {}

(* A ticket that has no task is not flagged. *)
FlagsNeedTasks == \A t \in Tickets : task[t] = "none" => t \notin revoked

(* What the write that is pending will find, unless the other side has     *)
(* changed the cache meanwhile.                                            *)
PendingWrites ==
  Booted =>
    \A t \in Tickets \ crossed :
      /\ task[t] = "evict" => t \notin DOMAIN cache
      /\ main = "mirror" /\ at = t => t \in DOMAIN cache /\ task[t] # "evict"
      /\ main = "unmirror" /\ at = t => t \notin DOMAIN cache /\ task[t] # "evict"

Inv ==
  /\ TypeOK /\ Sound(db) /\ BootIsQuiet /\ RecoveryInHand /\ RunsAtWork
  /\ OpenRowsAreRunning /\ Phases /\ TasksAreKept /\ SweepIsSafe
  /\ FlagsNeedTasks /\ PendingWrites /\ StoreMirrorsCache

-----------------------------------------------------------------------------
(* Every action keeps it. *)

LEMMA EditKeeps ==
  ASSUME Inv, NEW t \in Tickets, Edit(t)
  PROVE  Inv'
<1> USE ColdStartAssumption DEF Inv, Edit, GoTo, NoCycle, worldVars, diskVars, coldVars, cacheVars, taskVars
<1>1. TypeOK'
  BY DEF TypeOK, MainPC, TaskPC, Cycles
<1>2. Sound(db')
  OBVIOUS
<1>3. (BootIsQuiet /\ RecoveryInHand)'
  BY DEF BootIsQuiet, RecoveryInHand, NoLiveWork, Booted, TypeOK, MainPC
<1>4. RunsAtWork'
  BY DEF RunsAtWork, TypeOK, TaskPC, BootIsQuiet, NoLiveWork, Booted
<1>5. OpenRowsAreRunning'
  BY DEF OpenRowsAreRunning, RunsAtWork, RecoveryInHand, TypeOK, Booted
<1>6. Phases'
  BY DEF Phases, BootIsQuiet, NoLiveWork, Booted
<1>7. TasksAreKept'
  BY DEF TasksAreKept, Phases, BootIsQuiet, NoLiveWork, Booted, TypeOK, TaskPC
<1>8. (SweepIsSafe /\ FlagsNeedTasks)'
  BY DEF SweepIsSafe, FlagsNeedTasks, BootIsQuiet, NoLiveWork, Booted, TypeOK, Phases, TasksAreKept
<1>9. PendingWrites'
  BY DEF PendingWrites, StoreMirrorsCache, Pending, RecoveryInHand, BootIsQuiet, NoLiveWork, Booted, TypeOK, TasksAreKept, Phases
<1>10. StoreMirrorsCache'
  BY DEF PendingWrites, StoreMirrorsCache, Pending, RecoveryInHand, BootIsQuiet, NoLiveWork, Booted, TypeOK, Phases
<1> QED
  BY <1>1, <1>2, <1>3, <1>4, <1>5, <1>6, <1>7, <1>8, <1>9, <1>10

LEMMA CrashKeeps ==
  ASSUME Inv, Crash
  PROVE  Inv'
<1> USE ColdStartAssumption DEF Inv, Crash, Forgotten, GoTo, NoCycle, worldVars, diskVars, coldVars, cacheVars, taskVars
<1>1. TypeOK'
  <2>1. /\ linear' \in [Tickets -> States] /\ edits' \in 0 .. MaxEdits /\ boots' \in 0 .. MaxBoots
        /\ dirs' \subseteq Tickets \cup {Stray} /\ fresh' \in 0 .. MaxCycles
    BY DEF TypeOK
  <2>2. DOMAIN db'.tickets \subseteq Tickets /\ DOMAIN db'.cycles \subseteq Cycles
    BY DEF TypeOK
  <2>3. main' \in MainPC /\ serving' \in BOOLEAN /\ partial' \in BOOLEAN
    BY DEF TypeOK, MainPC
  <2>4. /\ at' \in Tickets \cup Cycles \cup {None} /\ listed' \subseteq Cycles
        /\ todo' \subseteq page' /\ keep' \subseteq Tickets
        /\ scanned' \cup deleted' \subseteq Tickets \cup {Stray}
    BY DEF TypeOK
  <2>5. /\ DOMAIN cache' \subseteq Tickets /\ revoked' \subseteq DOMAIN cache'
        /\ crossed' \subseteq Tickets /\ inbox' \subseteq Tickets
    BY DEF TypeOK, EmptyTable
  <2>6. task' \in [Tickets -> TaskPC] /\ run' \in [Tickets -> Cycles \cup {NoCycle}]
    BY DEF TypeOK, TaskPC
  <2> QED
    BY <2>1, <2>2, <2>3, <2>4, <2>5, <2>6 DEF TypeOK
<1>2. Sound(db')
  OBVIOUS
<1>3. (BootIsQuiet /\ RecoveryInHand)'
  BY DEF BootIsQuiet, RecoveryInHand, NoLiveWork, Booted, TypeOK, MainPC
<1>4. RunsAtWork'
  BY DEF RunsAtWork, TypeOK, TaskPC, BootIsQuiet, NoLiveWork, Booted
<1>5. OpenRowsAreRunning'
  BY DEF OpenRowsAreRunning, RunsAtWork, RecoveryInHand, TypeOK, Booted
<1>6. Phases'
  BY DEF Phases, BootIsQuiet, NoLiveWork, Booted
<1>7. TasksAreKept'
  BY DEF TasksAreKept, Phases, BootIsQuiet, NoLiveWork, Booted, TypeOK, TaskPC
<1>8. (SweepIsSafe /\ FlagsNeedTasks)'
  BY DEF SweepIsSafe, FlagsNeedTasks, BootIsQuiet, NoLiveWork, Booted, TypeOK, Phases, TasksAreKept
<1>9. PendingWrites'
  BY DEF PendingWrites, StoreMirrorsCache, Pending, RecoveryInHand, BootIsQuiet, NoLiveWork, Booted, TypeOK, TasksAreKept, Phases
<1>10. StoreMirrorsCache'
  BY DEF PendingWrites, StoreMirrorsCache, Pending, RecoveryInHand, BootIsQuiet, NoLiveWork, Booted, TypeOK, Phases
<1> QED
  BY <1>1, <1>2, <1>3, <1>4, <1>5, <1>6, <1>7, <1>8, <1>9, <1>10

LEMMA BootKeeps ==
  ASSUME Inv, Boot
  PROVE  Inv'
<1> USE ColdStartAssumption DEF Inv, Boot, GoTo, NoCycle, worldVars, diskVars, coldVars, cacheVars, taskVars
<1>1. TypeOK'
  <2>1. /\ linear' \in [Tickets -> States] /\ edits' \in 0 .. MaxEdits /\ boots' \in 0 .. MaxBoots
        /\ dirs' \subseteq Tickets \cup {Stray} /\ fresh' \in 0 .. MaxCycles
    BY DEF TypeOK
  <2>2. DOMAIN db'.tickets \subseteq Tickets /\ DOMAIN db'.cycles \subseteq Cycles
    BY DEF TypeOK
  <2>3. main' \in MainPC /\ serving' \in BOOLEAN /\ partial' \in BOOLEAN
    BY DEF TypeOK, MainPC
  <2>4. /\ at' \in Tickets \cup Cycles \cup {None} /\ listed' \subseteq Cycles
        /\ todo' \subseteq page' /\ keep' \subseteq Tickets
        /\ scanned' \cup deleted' \subseteq Tickets \cup {Stray}
    BY DEF TypeOK
  <2>5. /\ DOMAIN cache' \subseteq Tickets /\ revoked' \subseteq DOMAIN cache'
        /\ crossed' \subseteq Tickets /\ inbox' \subseteq Tickets
    BY DEF TypeOK
  <2>6. task' \in [Tickets -> TaskPC] /\ run' \in [Tickets -> Cycles \cup {NoCycle}]
    BY DEF TypeOK, TaskPC
  <2> QED
    BY <2>1, <2>2, <2>3, <2>4, <2>5, <2>6 DEF TypeOK
<1>2. Sound(db')
  OBVIOUS
<1>3. (BootIsQuiet /\ RecoveryInHand)'
  BY DEF BootIsQuiet, RecoveryInHand, NoLiveWork, Booted, TypeOK, MainPC
<1>4. RunsAtWork'
  BY DEF RunsAtWork, TypeOK, TaskPC, BootIsQuiet, NoLiveWork, Booted
<1>5. OpenRowsAreRunning'
  BY DEF OpenRowsAreRunning, RunsAtWork, RecoveryInHand, TypeOK, Booted
<1>6. Phases'
  BY DEF Phases, BootIsQuiet, NoLiveWork, Booted
<1>7. TasksAreKept'
  BY DEF TasksAreKept, Phases, BootIsQuiet, NoLiveWork, Booted, TypeOK, TaskPC
<1>8. (SweepIsSafe /\ FlagsNeedTasks)'
  BY DEF SweepIsSafe, FlagsNeedTasks, BootIsQuiet, NoLiveWork, Booted, TypeOK, Phases, TasksAreKept
<1>9. PendingWrites'
  BY DEF PendingWrites, StoreMirrorsCache, Pending, RecoveryInHand, BootIsQuiet, NoLiveWork, Booted, TypeOK, TasksAreKept, Phases
<1>10. StoreMirrorsCache'
  BY DEF PendingWrites, StoreMirrorsCache, Pending, RecoveryInHand, BootIsQuiet, NoLiveWork, Booted, TypeOK, Phases
<1> QED
  BY <1>1, <1>2, <1>3, <1>4, <1>5, <1>6, <1>7, <1>8, <1>9, <1>10

LEMMA OpenStoreKeeps ==
  ASSUME Inv, OpenStore
  PROVE  Inv'
<1> USE ColdStartAssumption DEF Inv, OpenStore, GoTo, NoCycle, worldVars, diskVars, coldVars, cacheVars, taskVars
<1>0. /\ Sound(db') /\ DOMAIN db'.tickets = DOMAIN db.tickets /\ DOMAIN db'.cycles = DOMAIN db.cycles
  BY MigrateEffect
<1>1. TypeOK'
  BY <1>0 DEF TypeOK, MainPC, TaskPC, Cycles
<1>2. Sound(db')
  BY <1>0
<1>3. (BootIsQuiet /\ RecoveryInHand)'
  BY <1>0 DEF BootIsQuiet, RecoveryInHand, NoLiveWork, Booted, TypeOK, MainPC
<1>4. RunsAtWork'
  BY <1>0 DEF RunsAtWork, TypeOK, TaskPC, BootIsQuiet, NoLiveWork, Booted
<1>5. OpenRowsAreRunning'
  BY <1>0 DEF OpenRowsAreRunning, RunsAtWork, RecoveryInHand, TypeOK, Booted
<1>6. Phases'
  BY <1>0 DEF Phases, BootIsQuiet, NoLiveWork, Booted
<1>7. TasksAreKept'
  BY <1>0 DEF TasksAreKept, Phases, BootIsQuiet, NoLiveWork, Booted, TypeOK, TaskPC
<1>8. (SweepIsSafe /\ FlagsNeedTasks)'
  BY <1>0 DEF SweepIsSafe, FlagsNeedTasks, BootIsQuiet, NoLiveWork, Booted, TypeOK, Phases, TasksAreKept
<1>9. PendingWrites'
  BY <1>0 DEF PendingWrites, StoreMirrorsCache, Pending, RecoveryInHand, BootIsQuiet, NoLiveWork, Booted, TypeOK, TasksAreKept, Phases
<1>10. StoreMirrorsCache'
  BY <1>0 DEF PendingWrites, StoreMirrorsCache, Pending, RecoveryInHand, BootIsQuiet, NoLiveWork, Booted, TypeOK, Phases
<1> QED
  BY <1>1, <1>2, <1>3, <1>4, <1>5, <1>6, <1>7, <1>8, <1>9, <1>10

LEMMA SeedKeeps ==
  ASSUME Inv, Seed
  PROVE  Inv'
<1> USE ColdStartAssumption DEF Inv, Seed, GoTo, NoCycle, worldVars, diskVars, coldVars, cacheVars, taskVars
<1>1. TypeOK'
  <2>1. /\ linear' \in [Tickets -> States] /\ edits' \in 0 .. MaxEdits /\ boots' \in 0 .. MaxBoots
        /\ dirs' \subseteq Tickets \cup {Stray} /\ fresh' \in 0 .. MaxCycles
    BY DEF TypeOK
  <2>2. DOMAIN db'.tickets \subseteq Tickets /\ DOMAIN db'.cycles \subseteq Cycles
    BY DEF TypeOK
  <2>3. main' \in MainPC /\ serving' \in BOOLEAN /\ partial' \in BOOLEAN
    BY DEF TypeOK, MainPC
  <2>4. /\ at' \in Tickets \cup Cycles \cup {None} /\ listed' \subseteq Cycles
        /\ todo' \subseteq page' /\ keep' \subseteq Tickets
        /\ scanned' \cup deleted' \subseteq Tickets \cup {Stray}
    BY DEF TypeOK, BootIsQuiet, NoLiveWork, Booted, ListInflight
  <2>5. /\ DOMAIN cache' \subseteq Tickets /\ revoked' \subseteq DOMAIN cache'
        /\ crossed' \subseteq Tickets /\ inbox' \subseteq Tickets
    BY DEF TypeOK, BootIsQuiet, NoLiveWork, Booted, ListAdmitted
  <2>6. task' \in [Tickets -> TaskPC] /\ run' \in [Tickets -> Cycles \cup {NoCycle}]
    BY DEF TypeOK, TaskPC
  <2> QED
    BY <2>1, <2>2, <2>3, <2>4, <2>5, <2>6 DEF TypeOK
<1>2. Sound(db')
  OBVIOUS
<1>3. (BootIsQuiet /\ RecoveryInHand)'
  BY DEF BootIsQuiet, RecoveryInHand, NoLiveWork, Booted, TypeOK, MainPC
<1>4. RunsAtWork'
  BY DEF RunsAtWork, TypeOK, TaskPC, BootIsQuiet, NoLiveWork, Booted
<1>5. OpenRowsAreRunning'
  BY DEF OpenRowsAreRunning, RunsAtWork, RecoveryInHand, TypeOK, Booted
<1>6. Phases'
  BY DEF Phases, BootIsQuiet, NoLiveWork, Booted
<1>7. TasksAreKept'
  BY DEF TasksAreKept, Phases, BootIsQuiet, NoLiveWork, Booted, TypeOK, TaskPC
<1>8. (SweepIsSafe /\ FlagsNeedTasks)'
  BY DEF SweepIsSafe, FlagsNeedTasks, BootIsQuiet, NoLiveWork, Booted, TypeOK, Phases, TasksAreKept
<1>9. PendingWrites'
  BY DEF PendingWrites, StoreMirrorsCache, Pending, RecoveryInHand, BootIsQuiet, NoLiveWork, Booted, TypeOK, TasksAreKept, Phases
<1>10. StoreMirrorsCache'
  BY DEF PendingWrites, StoreMirrorsCache, Pending, RecoveryInHand, BootIsQuiet, NoLiveWork, Booted, TypeOK, Phases
<1> QED
  BY <1>1, <1>2, <1>3, <1>4, <1>5, <1>6, <1>7, <1>8, <1>9, <1>10

LEMMA NextRowIsListed ==
  ASSUME TypeOK, listed # {}
  PROVE  NextRow \in listed
<1>1. listed \subseteq Nat
  BY ColdStartAssumption DEF TypeOK, Cycles
<1> QED
  BY <1>1, LeastNat DEF NextRow

LEMMA RecoverStepKeeps ==
  ASSUME Inv, RecoverStep
  PROVE  Inv'
<1> USE ColdStartAssumption DEF Inv, GoTo, NoCycle, worldVars, diskVars, coldVars, cacheVars, taskVars
<1>0. /\ UNCHANGED <<worldVars, dirs, fresh, serving, page, todo, keep, partial,
                     scanned, deleted, cacheVars, taskVars>>
      /\ Sound(db') /\ db'.tickets = db.tickets /\ ListAdmitted(db') = ListAdmitted(db)
      /\ DOMAIN db'.cycles = DOMAIN db.cycles
      /\ \/ /\ main = "recover" /\ main' \in {"announced", "unheard"} /\ at' \in listed
            /\ listed' = listed \ {at'} /\ ListInflight(db') = ListInflight(db)
            /\ main' = "announced" /\ at' \in ListInflight(db) =>
                 \E n \in DOMAIN db'.events : db'.events[n].cycle = at'
         \/ /\ main \in {"announced", "unheard"} /\ main' = "recover" /\ at' = None
            /\ listed' = listed /\ ListInflight(db') = ListInflight(db) \ {at}
         \/ /\ main = "recover" /\ main' = main /\ at' = at /\ listed' = listed \ {NextRow}
            /\ ListInflight(db') = ListInflight(db) \ {NextRow}
         \/ /\ main = "recover" /\ listed = {}
            /\ main' = "enumerate" /\ UNCHANGED <<db, at, listed>>
  <2>0. UNCHANGED <<worldVars, dirs, fresh, serving, page, todo, keep, partial,
                    scanned, deleted, cacheVars, taskVars>>
    BY DEF RecoverStep
  <2>1. CASE TakeRow /\ (\/ main' = "announced" /\ db' = BestEffort(db, Announced(at'))
                         \/ main' = "unheard" /\ db' = db)
    <3>1. at' = NextRow /\ listed' = listed \ {at'} /\ main = "recover" /\ listed # {}
      BY <2>1 DEF TakeRow
    <3>2. at' \in listed
      BY <3>1, NextRowIsListed
    <3>3. CASE main' = "unheard" /\ db' = db
      BY <2>0, <3>1, <3>2, <3>3
    <3>4. CASE main' = "announced" /\ db' = BestEffort(db, Announced(at'))
      <4>1. /\ Sound(db') /\ db'.tickets = db.tickets /\ db'.cycles = db.cycles
            /\ at' \in DOMAIN db.cycles => \E n \in DOMAIN db'.events : db'.events[n].cycle = at'
        <5> DEFINE id == db.cycles[at'].ticket
        <5>1. db' = BestEffort(db, AppendEvent(db, id, at', "crashed_cycle_recovered"))
          BY <3>4 DEF Announced
        <5> HIDE DEF id
        <5> QED
          BY <5>1, AppendEventEffect
      <4> QED
        BY <2>0, <3>1, <3>2, <3>4, <4>1 DEF ListInflight, ListAdmitted
    <3> QED
      BY <2>1, <3>3, <3>4
  <2>2. CASE /\ main \in {"announced", "unheard"} /\ db' = BestEffort(db, CloseCycle(db, at, "failure"))
             /\ at' = None /\ main' = "recover" /\ listed' = listed
    BY <2>0, <2>2, CloseCycleEffect DEF ListAdmitted
  <2>3. CASE CloseLegacy
    BY <2>0, <2>3, CloseCycleEffect DEF CloseLegacy, ListAdmitted
  <2>4. CASE RecoveryEnds
    BY <2>0, <2>4 DEF RecoveryEnds
  <2> QED
    BY <2>1, <2>2, <2>3, <2>4 DEF RecoverStep, Recover
<1>1. TypeOK'
  <2>1. /\ linear' \in [Tickets -> States] /\ edits' \in 0 .. MaxEdits /\ boots' \in 0 .. MaxBoots
        /\ dirs' \subseteq Tickets \cup {Stray} /\ fresh' \in 0 .. MaxCycles
    BY <1>0 DEF TypeOK
  <2>2. DOMAIN db'.tickets \subseteq Tickets /\ DOMAIN db'.cycles \subseteq Cycles
    BY <1>0 DEF TypeOK, Cycles
  <2>3. main' \in MainPC /\ serving' \in BOOLEAN /\ partial' \in BOOLEAN
    BY <1>0 DEF TypeOK, MainPC
  <2>4. /\ at' \in Tickets \cup Cycles \cup {None} /\ listed' \subseteq Cycles
        /\ todo' \subseteq page' /\ keep' \subseteq Tickets
        /\ scanned' \cup deleted' \subseteq Tickets \cup {Stray}
    BY <1>0 DEF TypeOK, TasksAreKept
  <2>5. /\ DOMAIN cache' \subseteq Tickets /\ revoked' \subseteq DOMAIN cache'
        /\ crossed' \subseteq Tickets /\ inbox' \subseteq Tickets
    BY <1>0 DEF TypeOK, TasksAreKept, FlagsNeedTasks
  <2>6. task' \in [Tickets -> TaskPC] /\ run' \in [Tickets -> Cycles \cup {NoCycle}]
    BY <1>0 DEF TypeOK, TaskPC, Cycles
  <2> QED
    BY <2>1, <2>2, <2>3, <2>4, <2>5, <2>6 DEF TypeOK
<1>2. Sound(db')
  BY <1>0
<1>3. (BootIsQuiet /\ RecoveryInHand)'
  BY <1>0 DEF BootIsQuiet, RecoveryInHand, NoLiveWork, Booted, TypeOK, MainPC
<1>4. RunsAtWork'
  BY <1>0 DEF RunsAtWork, TypeOK, TaskPC, Cycles, BootIsQuiet, NoLiveWork, Booted
<1>5. OpenRowsAreRunning'
  BY <1>0 DEF OpenRowsAreRunning, RunsAtWork, RecoveryInHand, TypeOK, Booted
<1>6. Phases'
  BY <1>0 DEF Phases, BootIsQuiet, NoLiveWork, Booted, TasksAreKept
<1>7. TasksAreKept'
  BY <1>0 DEF TasksAreKept, Phases, BootIsQuiet, NoLiveWork, Booted, TypeOK, TaskPC
<1>8. (SweepIsSafe /\ FlagsNeedTasks)'
  BY <1>0 DEF SweepIsSafe, FlagsNeedTasks, BootIsQuiet, NoLiveWork, Booted, TypeOK, Phases, TasksAreKept
<1>9. PendingWrites'
  BY <1>0 DEF PendingWrites, StoreMirrorsCache, Pending, RecoveryInHand, BootIsQuiet, NoLiveWork, Booted, TypeOK, TasksAreKept, Phases
<1>10. StoreMirrorsCache'
  BY <1>0 DEF PendingWrites, StoreMirrorsCache, Pending, RecoveryInHand, BootIsQuiet, NoLiveWork, Booted, TypeOK, Phases, TasksAreKept
<1> QED
  BY <1>1, <1>2, <1>3, <1>4, <1>5, <1>6, <1>7, <1>8, <1>9, <1>10

LEMMA EnumerateKeeps ==
  ASSUME Inv, Enumerate
  PROVE  Inv'
<1> USE ColdStartAssumption DEF Inv, Enumerate, GoTo, NoCycle, worldVars, diskVars, coldVars, cacheVars, taskVars
<1>1. TypeOK'
  BY DEF TypeOK, MainPC, TaskPC, Cycles
<1>2. Sound(db')
  OBVIOUS
<1>3. (BootIsQuiet /\ RecoveryInHand)'
  BY DEF BootIsQuiet, RecoveryInHand, NoLiveWork, Booted, TypeOK, MainPC
<1>4. RunsAtWork'
  BY DEF RunsAtWork, TypeOK, TaskPC, BootIsQuiet, NoLiveWork, Booted
<1>5. OpenRowsAreRunning'
  BY DEF OpenRowsAreRunning, RunsAtWork, RecoveryInHand, TypeOK, Booted
<1>6. Phases'
  BY DEF Phases, BootIsQuiet, NoLiveWork, Booted
<1>7. TasksAreKept'
  <2>1. todo' \subseteq {Issue(t, linear[t]) : t \in Tickets}
    OBVIOUS
  <2>2. \A t \in Tickets : Issue(t, linear[t]).id = t
    BY DEF Issue
  <2>3. \A i \in todo' : \E t \in Tickets : i = Issue(t, linear[t]) /\ i.id = t
    BY <2>1, <2>2
  <2>4. main' = "admit" /\ \A t \in Tickets : task'[t] = "none"
    BY DEF BootIsQuiet, NoLiveWork
  <2> QED
    BY <2>3, <2>4 DEF TasksAreKept
<1>8. (SweepIsSafe /\ FlagsNeedTasks)'
  BY DEF SweepIsSafe, FlagsNeedTasks, BootIsQuiet, NoLiveWork, Booted, TypeOK, Phases, TasksAreKept
<1>9. PendingWrites'
  BY DEF PendingWrites, StoreMirrorsCache, Pending, RecoveryInHand, BootIsQuiet, NoLiveWork, Booted, TypeOK, TasksAreKept, Phases
<1>10. StoreMirrorsCache'
  BY DEF PendingWrites, StoreMirrorsCache, Pending, RecoveryInHand, BootIsQuiet, NoLiveWork, Booted, TypeOK, Phases
<1> QED
  BY <1>1, <1>2, <1>3, <1>4, <1>5, <1>6, <1>7, <1>8, <1>9, <1>10

(* The cache after an observation has an entry of the ticket. *)
LEMMA ObservedDomain ==
  ASSUME NEW ticket
  PROVE  DOMAIN Observed(ticket) = DOMAIN cache \cup {ticket.id}
BY DEF Observed, Put

LEMMA AdmitEnumeratedKeeps ==
  ASSUME Inv, AdmitEnumerated
  PROVE  Inv'
<1> USE ColdStartAssumption DEF Inv, GoTo, NoCycle, worldVars, diskVars, coldVars, cacheVars, taskVars
<1>0. \E i \in todo :
        /\ main = "admit" /\ todo' = todo \ {i}
        /\ UNCHANGED <<worldVars, diskVars, fresh, serving, listed, page, partial,
                       scanned, deleted, revoked, crossed, taskVars>>
        /\ \/ UNCHANGED <<keep, at, cache, main>>
           \/ /\ keep' = keep \cup {i.id} /\ at' = i.id
              /\ DOMAIN cache' = DOMAIN cache \cup {i.id}
              /\ main' = IF i.id \in DOMAIN cache THEN "route" ELSE "mirror"
  <2>1. PICK i \in todo :
          LET ticket == SynthNormalized(i) IN
            /\ todo' = todo \ {i}
            /\ IF Accepts(ticket, wf, Me)
               THEN /\ keep' = keep \cup {i.id} /\ at' = i.id
                    /\ cache' = Observed(ticket) /\ NextAfterObserve(i.id)
               ELSE UNCHANGED <<keep, at, cache, main>>
    BY DEF AdmitEnumerated
  <2>2. SynthNormalized(i).id = i.id
    BY DEF SynthNormalized, NormalizedTicket
  <2> QED
    BY <2>1, <2>2, ObservedDomain DEF AdmitEnumerated, NextAfterObserve
<1>1. TypeOK'
  <2>1. /\ linear' \in [Tickets -> States] /\ edits' \in 0 .. MaxEdits /\ boots' \in 0 .. MaxBoots
        /\ dirs' \subseteq Tickets \cup {Stray} /\ fresh' \in 0 .. MaxCycles
    BY <1>0 DEF TypeOK
  <2>2. DOMAIN db'.tickets \subseteq Tickets /\ DOMAIN db'.cycles \subseteq Cycles
    BY <1>0 DEF TypeOK, Cycles
  <2>3. main' \in MainPC /\ serving' \in BOOLEAN /\ partial' \in BOOLEAN
    BY <1>0 DEF TypeOK, MainPC
  <2>4. /\ at' \in Tickets \cup Cycles \cup {None} /\ listed' \subseteq Cycles
        /\ todo' \subseteq page' /\ keep' \subseteq Tickets
        /\ scanned' \cup deleted' \subseteq Tickets \cup {Stray}
    BY <1>0 DEF TypeOK, TasksAreKept
  <2>5. /\ DOMAIN cache' \subseteq Tickets /\ revoked' \subseteq DOMAIN cache'
        /\ crossed' \subseteq Tickets /\ inbox' \subseteq Tickets
    BY <1>0 DEF TypeOK, TasksAreKept, FlagsNeedTasks
  <2>6. task' \in [Tickets -> TaskPC] /\ run' \in [Tickets -> Cycles \cup {NoCycle}]
    BY <1>0 DEF TypeOK, TaskPC, Cycles
  <2> QED
    BY <2>1, <2>2, <2>3, <2>4, <2>5, <2>6 DEF TypeOK
<1>2. Sound(db')
  BY <1>0
<1>3. (BootIsQuiet /\ RecoveryInHand)'
  BY <1>0 DEF BootIsQuiet, RecoveryInHand, NoLiveWork, Booted, TypeOK, MainPC
<1>4. RunsAtWork'
  BY <1>0 DEF RunsAtWork, TypeOK, TaskPC, Cycles, BootIsQuiet, NoLiveWork, Booted
<1>5. OpenRowsAreRunning'
  BY <1>0 DEF OpenRowsAreRunning, RunsAtWork, RecoveryInHand, TypeOK, Booted
<1>6. Phases'
  BY <1>0 DEF Phases, BootIsQuiet, NoLiveWork, Booted, TasksAreKept
<1>7. TasksAreKept'
  BY <1>0 DEF TasksAreKept, Phases, BootIsQuiet, NoLiveWork, Booted, TypeOK, TaskPC
<1>8. (SweepIsSafe /\ FlagsNeedTasks)'
  BY <1>0 DEF SweepIsSafe, FlagsNeedTasks, BootIsQuiet, NoLiveWork, Booted, TypeOK, Phases, TasksAreKept
<1>9. PendingWrites'
  BY <1>0 DEF PendingWrites, StoreMirrorsCache, Pending, RecoveryInHand, BootIsQuiet, NoLiveWork, Booted, TypeOK, TasksAreKept, Phases
<1>10. StoreMirrorsCache'
  BY <1>0 DEF PendingWrites, StoreMirrorsCache, Pending, RecoveryInHand, BootIsQuiet, NoLiveWork, Booted, TypeOK, Phases, TasksAreKept
<1> QED
  BY <1>1, <1>2, <1>3, <1>4, <1>5, <1>6, <1>7, <1>8, <1>9, <1>10

LEMMA MirrorKeeps ==
  ASSUME Inv, Mirror
  PROVE  Inv'
<1> USE ColdStartAssumption DEF Inv, Mirror, GoTo, NoCycle, worldVars, diskVars, coldVars, cacheVars, taskVars
<1>0. /\ Sound(db') /\ DOMAIN db'.tickets = DOMAIN db.tickets \cup {at}
      /\ ListAdmitted(db') = ListAdmitted(db) \cup {at}
      /\ DOMAIN db'.cycles = DOMAIN db.cycles /\ ListInflight(db') = ListInflight(db) /\ db'.events = db.events
  BY AdmitTicketEffect DEF ListInflight
<1>1. TypeOK'
  <2>1. /\ linear' \in [Tickets -> States] /\ edits' \in 0 .. MaxEdits /\ boots' \in 0 .. MaxBoots
        /\ dirs' \subseteq Tickets \cup {Stray} /\ fresh' \in 0 .. MaxCycles
    BY <1>0 DEF TypeOK
  <2>2. DOMAIN db'.tickets \subseteq Tickets /\ DOMAIN db'.cycles \subseteq Cycles
    BY <1>0 DEF TypeOK, Phases
  <2>3. main' \in MainPC /\ serving' \in BOOLEAN /\ partial' \in BOOLEAN
    BY <1>0 DEF TypeOK, MainPC
  <2>4. /\ at' \in Tickets \cup Cycles \cup {None} /\ listed' \subseteq Cycles
        /\ todo' \subseteq page' /\ keep' \subseteq Tickets
        /\ scanned' \cup deleted' \subseteq Tickets \cup {Stray}
    BY <1>0 DEF TypeOK
  <2>5. /\ DOMAIN cache' \subseteq Tickets /\ revoked' \subseteq DOMAIN cache'
        /\ crossed' \subseteq Tickets /\ inbox' \subseteq Tickets
    BY <1>0 DEF TypeOK
  <2>6. task' \in [Tickets -> TaskPC] /\ run' \in [Tickets -> Cycles \cup {NoCycle}]
    BY <1>0 DEF TypeOK, TaskPC
  <2> QED
    BY <2>1, <2>2, <2>3, <2>4, <2>5, <2>6 DEF TypeOK
<1>2. Sound(db')
  BY <1>0
<1>3. (BootIsQuiet /\ RecoveryInHand)'
  BY <1>0 DEF BootIsQuiet, RecoveryInHand, NoLiveWork, Booted, TypeOK, MainPC
<1>4. RunsAtWork'
  BY <1>0 DEF RunsAtWork, TypeOK, TaskPC, BootIsQuiet, NoLiveWork, Booted
<1>5. OpenRowsAreRunning'
  BY <1>0 DEF OpenRowsAreRunning, RunsAtWork, RecoveryInHand, TypeOK, Booted
<1>6. Phases'
  BY <1>0 DEF Phases, BootIsQuiet, NoLiveWork, Booted
<1>7. TasksAreKept'
  BY <1>0 DEF TasksAreKept, Phases, BootIsQuiet, NoLiveWork, Booted, TypeOK, TaskPC
<1>8. (SweepIsSafe /\ FlagsNeedTasks)'
  BY <1>0 DEF SweepIsSafe, FlagsNeedTasks, BootIsQuiet, NoLiveWork, Booted, TypeOK, Phases, TasksAreKept
<1>9. PendingWrites'
  BY <1>0 DEF PendingWrites, StoreMirrorsCache, Pending, RecoveryInHand, BootIsQuiet, NoLiveWork, Booted, TypeOK, TasksAreKept, Phases
<1>10. StoreMirrorsCache'
  BY <1>0 DEF PendingWrites, StoreMirrorsCache, Pending, RecoveryInHand, BootIsQuiet, NoLiveWork, Booted, TypeOK, Phases
<1> QED
  BY <1>1, <1>2, <1>3, <1>4, <1>5, <1>6, <1>7, <1>8, <1>9, <1>10

LEMMA UnmirrorKeeps ==
  ASSUME Inv, Unmirror
  PROVE  Inv'
<1> USE ColdStartAssumption DEF Inv, Unmirror, GoTo, NoCycle, worldVars, diskVars, coldVars, cacheVars, taskVars
<1>0. /\ Sound(db') /\ DOMAIN db'.tickets = DOMAIN db.tickets
      /\ ListAdmitted(db') = ListAdmitted(db) \ {at}
      /\ DOMAIN db'.cycles = DOMAIN db.cycles /\ ListInflight(db') = ListInflight(db) /\ db'.events = db.events
  BY EvictTicketEffect DEF ListInflight
<1>1. TypeOK'
  BY <1>0 DEF TypeOK, MainPC, TaskPC, Cycles
<1>2. Sound(db')
  BY <1>0
<1>3. (BootIsQuiet /\ RecoveryInHand)'
  BY <1>0 DEF BootIsQuiet, RecoveryInHand, NoLiveWork, Booted, TypeOK, MainPC
<1>4. RunsAtWork'
  BY <1>0 DEF RunsAtWork, TypeOK, TaskPC, BootIsQuiet, NoLiveWork, Booted
<1>5. OpenRowsAreRunning'
  BY <1>0 DEF OpenRowsAreRunning, RunsAtWork, RecoveryInHand, TypeOK, Booted
<1>6. Phases'
  BY <1>0 DEF Phases, BootIsQuiet, NoLiveWork, Booted
<1>7. TasksAreKept'
  BY <1>0 DEF TasksAreKept, Phases, BootIsQuiet, NoLiveWork, Booted, TypeOK, TaskPC
<1>8. (SweepIsSafe /\ FlagsNeedTasks)'
  BY <1>0 DEF SweepIsSafe, FlagsNeedTasks, BootIsQuiet, NoLiveWork, Booted, TypeOK, Phases, TasksAreKept
<1>9. PendingWrites'
  BY <1>0 DEF PendingWrites, StoreMirrorsCache, Pending, RecoveryInHand, BootIsQuiet, NoLiveWork, Booted, TypeOK, TasksAreKept, Phases
<1>10. StoreMirrorsCache'
  BY <1>0 DEF PendingWrites, StoreMirrorsCache, Pending, RecoveryInHand, BootIsQuiet, NoLiveWork, Booted, TypeOK, Phases
<1> QED
  BY <1>1, <1>2, <1>3, <1>4, <1>5, <1>6, <1>7, <1>8, <1>9, <1>10

LEMMA RouteKeeps ==
  ASSUME Inv, Route
  PROVE  Inv'
<1> USE ColdStartAssumption DEF Inv, Route, LiveTask, GoTo, NoCycle, worldVars, diskVars, coldVars, cacheVars, taskVars
<1>1. TypeOK'
  <2>1. /\ linear' \in [Tickets -> States] /\ edits' \in 0 .. MaxEdits /\ boots' \in 0 .. MaxBoots
        /\ dirs' \subseteq Tickets \cup {Stray} /\ fresh' \in 0 .. MaxCycles
    BY DEF TypeOK
  <2>2. DOMAIN db'.tickets \subseteq Tickets /\ DOMAIN db'.cycles \subseteq Cycles
    BY DEF TypeOK
  <2>3. main' \in MainPC /\ serving' \in BOOLEAN /\ partial' \in BOOLEAN
    BY DEF TypeOK, MainPC
  <2>4. /\ at' \in Tickets \cup Cycles \cup {None} /\ listed' \subseteq Cycles
        /\ todo' \subseteq page' /\ keep' \subseteq Tickets
        /\ scanned' \cup deleted' \subseteq Tickets \cup {Stray}
    BY DEF TypeOK
  <2>5. /\ DOMAIN cache' \subseteq Tickets /\ revoked' \subseteq DOMAIN cache'
        /\ crossed' \subseteq Tickets /\ inbox' \subseteq Tickets
    BY DEF TypeOK, Phases
  <2>6. task' \in [Tickets -> TaskPC] /\ run' \in [Tickets -> Cycles \cup {NoCycle}]
    BY DEF TypeOK, TaskPC
  <2> QED
    BY <2>1, <2>2, <2>3, <2>4, <2>5, <2>6 DEF TypeOK
<1>2. Sound(db')
  OBVIOUS
<1>3. (BootIsQuiet /\ RecoveryInHand)'
  BY DEF BootIsQuiet, RecoveryInHand, NoLiveWork, Booted, TypeOK, MainPC
<1>4. RunsAtWork'
  BY DEF RunsAtWork, TypeOK, TaskPC, BootIsQuiet, NoLiveWork, Booted
<1>5. OpenRowsAreRunning'
  BY DEF OpenRowsAreRunning, RunsAtWork, RecoveryInHand, TypeOK, Booted
<1>6. Phases'
  BY DEF Phases, BootIsQuiet, NoLiveWork, Booted
<1>7. TasksAreKept'
  BY DEF TasksAreKept, Phases, BootIsQuiet, NoLiveWork, Booted, TypeOK, TaskPC
<1>8. (SweepIsSafe /\ FlagsNeedTasks)'
  BY DEF SweepIsSafe, FlagsNeedTasks, BootIsQuiet, NoLiveWork, Booted, TypeOK, Phases, TasksAreKept
<1>9. PendingWrites'
  BY DEF PendingWrites, StoreMirrorsCache, Pending, RecoveryInHand, BootIsQuiet, NoLiveWork, Booted, TypeOK, TasksAreKept, Phases
<1>10. StoreMirrorsCache'
  BY DEF PendingWrites, StoreMirrorsCache, Pending, RecoveryInHand, BootIsQuiet, NoLiveWork, Booted, TypeOK, Phases
<1> QED
  BY <1>1, <1>2, <1>3, <1>4, <1>5, <1>6, <1>7, <1>8, <1>9, <1>10

LEMMA EndAdmissionKeeps ==
  ASSUME Inv, EndAdmission
  PROVE  Inv'
<1> USE ColdStartAssumption DEF Inv, EndAdmission, Returned, GoTo, NoCycle, worldVars, diskVars, coldVars, cacheVars, taskVars
<1>1. TypeOK'
  BY DEF TypeOK, MainPC, TaskPC, Cycles
<1>2. Sound(db')
  OBVIOUS
<1>3. (BootIsQuiet /\ RecoveryInHand)'
  BY DEF BootIsQuiet, RecoveryInHand, NoLiveWork, Booted, TypeOK, MainPC
<1>4. RunsAtWork'
  BY DEF RunsAtWork, TypeOK, TaskPC, BootIsQuiet, NoLiveWork, Booted
<1>5. OpenRowsAreRunning'
  BY DEF OpenRowsAreRunning, RunsAtWork, RecoveryInHand, TypeOK, Booted
<1>6. Phases'
  BY DEF Phases, BootIsQuiet, NoLiveWork, Booted
<1>7. TasksAreKept'
  BY DEF TasksAreKept, Phases, BootIsQuiet, NoLiveWork, Booted, TypeOK, TaskPC
<1>8. (SweepIsSafe /\ FlagsNeedTasks)'
  BY DEF SweepIsSafe, FlagsNeedTasks, BootIsQuiet, NoLiveWork, Booted, TypeOK, Phases, TasksAreKept
<1>9. PendingWrites'
  BY DEF PendingWrites, StoreMirrorsCache, Pending, RecoveryInHand, BootIsQuiet, NoLiveWork, Booted, TypeOK, TasksAreKept, Phases
<1>10. StoreMirrorsCache'
  BY DEF PendingWrites, StoreMirrorsCache, Pending, RecoveryInHand, BootIsQuiet, NoLiveWork, Booted, TypeOK, Phases
<1> QED
  BY <1>1, <1>2, <1>3, <1>4, <1>5, <1>6, <1>7, <1>8, <1>9, <1>10

LEMMA SweepKeeps ==
  ASSUME Inv, Sweep
  PROVE  Inv'
<1> USE ColdStartAssumption DEF Inv, Sweep, Returned, GoTo, NoCycle, worldVars, diskVars, coldVars, cacheVars, taskVars
<1>1. TypeOK'
  <2>1. /\ linear' \in [Tickets -> States] /\ edits' \in 0 .. MaxEdits /\ boots' \in 0 .. MaxBoots
        /\ dirs' \subseteq Tickets \cup {Stray} /\ fresh' \in 0 .. MaxCycles
    BY DEF TypeOK
  <2>2. DOMAIN db'.tickets \subseteq Tickets /\ DOMAIN db'.cycles \subseteq Cycles
    BY DEF TypeOK
  <2>3. main' \in MainPC /\ serving' \in BOOLEAN /\ partial' \in BOOLEAN
    BY DEF TypeOK, MainPC
  <2>4. /\ at' \in Tickets \cup Cycles \cup {None} /\ listed' \subseteq Cycles
        /\ todo' \subseteq page' /\ keep' \subseteq Tickets
        /\ scanned' \cup deleted' \subseteq Tickets \cup {Stray}
    BY DEF TypeOK, SweepIsSafe
  <2>5. /\ DOMAIN cache' \subseteq Tickets /\ revoked' \subseteq DOMAIN cache'
        /\ crossed' \subseteq Tickets /\ inbox' \subseteq Tickets
    BY DEF TypeOK
  <2>6. task' \in [Tickets -> TaskPC] /\ run' \in [Tickets -> Cycles \cup {NoCycle}]
    BY DEF TypeOK, TaskPC
  <2> QED
    BY <2>1, <2>2, <2>3, <2>4, <2>5, <2>6 DEF TypeOK
<1>2. Sound(db')
  OBVIOUS
<1>3. (BootIsQuiet /\ RecoveryInHand)'
  BY DEF BootIsQuiet, RecoveryInHand, NoLiveWork, Booted, TypeOK, MainPC
<1>4. RunsAtWork'
  BY DEF RunsAtWork, TypeOK, TaskPC, BootIsQuiet, NoLiveWork, Booted
<1>5. OpenRowsAreRunning'
  BY DEF OpenRowsAreRunning, RunsAtWork, RecoveryInHand, TypeOK, Booted
<1>6. Phases'
  BY DEF Phases, BootIsQuiet, NoLiveWork, Booted
<1>7. TasksAreKept'
  BY DEF TasksAreKept, Phases, BootIsQuiet, NoLiveWork, Booted, TypeOK, TaskPC
<1>8. (SweepIsSafe /\ FlagsNeedTasks)'
  BY DEF SweepIsSafe, FlagsNeedTasks, BootIsQuiet, NoLiveWork, Booted, TypeOK, Phases, TasksAreKept
<1>9. PendingWrites'
  BY DEF PendingWrites, StoreMirrorsCache, Pending, RecoveryInHand, BootIsQuiet, NoLiveWork, Booted, TypeOK, TasksAreKept, Phases
<1>10. StoreMirrorsCache'
  BY DEF PendingWrites, StoreMirrorsCache, Pending, RecoveryInHand, BootIsQuiet, NoLiveWork, Booted, TypeOK, Phases
<1> QED
  BY <1>1, <1>2, <1>3, <1>4, <1>5, <1>6, <1>7, <1>8, <1>9, <1>10

LEMMA WebhookKeeps ==
  ASSUME Inv, NEW t \in Tickets, Webhook(t)
  PROVE  Inv'
<1> USE ColdStartAssumption DEF Inv, GoTo, NoCycle, worldVars, diskVars, coldVars, cacheVars, taskVars
<1>0. /\ main = "serving"
      /\ UNCHANGED <<worldVars, diskVars, fresh, serving, listed, page, todo, keep,
                     partial, scanned, deleted, taskVars>>
      /\ \/ /\ UNCHANGED <<at, cache, main, crossed>>
            /\ \/ revoked' = revoked \cup {t} /\ t \in DOMAIN cache /\ task[t] # "none"
               \/ revoked' = revoked \ {t}
         \/ /\ task[t] = "none" /\ DOMAIN cache' = DOMAIN cache \ {t}
            /\ at' = t /\ main' = "unmirror" /\ revoked' = revoked /\ crossed' = crossed
         \/ /\ at' = t /\ DOMAIN cache' = DOMAIN cache \cup {t}
            /\ main' = (IF t \in DOMAIN cache THEN "route" ELSE "mirror")
            /\ revoked' = revoked \ {t}
            /\ crossed \subseteq crossed' /\ crossed' \subseteq crossed \cup {t}
            /\ task[t] = "evict" /\ t \notin DOMAIN cache => t \in crossed'
  <2> DEFINE ticket == ParseTicket(Issue(t, linear[t]))
  <2>1. ticket.id = t
    BY DEF ParseTicket, Issue, NormalizedTicket
  <2>2. DOMAIN Observed(ticket) = DOMAIN cache \cup {t}
    BY <2>1, ObservedDomain
  <2>3. DOMAIN Without(t) = DOMAIN cache \ {t}
    BY DEF Without
  <2> HIDE DEF ticket
  <2>4. CASE ~Accepts(ticket, wf, Me) /\ task[t] = "none"
    BY <2>3, <2>4 DEF Webhook, ticket
  <2>5. CASE ~Accepts(ticket, wf, Me) /\ task[t] # "none"
    BY <2>5 DEF Webhook, ticket
  <2>6. CASE Accepts(ticket, wf, Me) /\ Unchanged(ticket)
    BY <2>6 DEF Webhook, ticket
  <2>7. CASE Accepts(ticket, wf, Me) /\ ~Unchanged(ticket)
    BY <2>2, <2>7 DEF Webhook, ticket, NextAfterObserve
  <2> QED
    BY <2>4, <2>5, <2>6, <2>7
<1>1. TypeOK'
  <2>1. /\ linear' \in [Tickets -> States] /\ edits' \in 0 .. MaxEdits /\ boots' \in 0 .. MaxBoots
        /\ dirs' \subseteq Tickets \cup {Stray} /\ fresh' \in 0 .. MaxCycles
    BY <1>0 DEF TypeOK
  <2>2. DOMAIN db'.tickets \subseteq Tickets /\ DOMAIN db'.cycles \subseteq Cycles
    BY <1>0 DEF TypeOK, Cycles
  <2>3. main' \in MainPC /\ serving' \in BOOLEAN /\ partial' \in BOOLEAN
    BY <1>0 DEF TypeOK, MainPC
  <2>4. /\ at' \in Tickets \cup Cycles \cup {None} /\ listed' \subseteq Cycles
        /\ todo' \subseteq page' /\ keep' \subseteq Tickets
        /\ scanned' \cup deleted' \subseteq Tickets \cup {Stray}
    BY <1>0 DEF TypeOK, TasksAreKept
  <2>5. /\ DOMAIN cache' \subseteq Tickets /\ revoked' \subseteq DOMAIN cache'
        /\ crossed' \subseteq Tickets /\ inbox' \subseteq Tickets
    BY <1>0 DEF TypeOK, TasksAreKept, FlagsNeedTasks
  <2>6. task' \in [Tickets -> TaskPC] /\ run' \in [Tickets -> Cycles \cup {NoCycle}]
    BY <1>0 DEF TypeOK, TaskPC, Cycles
  <2> QED
    BY <2>1, <2>2, <2>3, <2>4, <2>5, <2>6 DEF TypeOK
<1>2. Sound(db')
  BY <1>0
<1>3. (BootIsQuiet /\ RecoveryInHand)'
  BY <1>0 DEF BootIsQuiet, RecoveryInHand, NoLiveWork, Booted, TypeOK, MainPC
<1>4. RunsAtWork'
  BY <1>0 DEF RunsAtWork, TypeOK, TaskPC, Cycles, BootIsQuiet, NoLiveWork, Booted
<1>5. OpenRowsAreRunning'
  BY <1>0 DEF OpenRowsAreRunning, RunsAtWork, RecoveryInHand, TypeOK, Booted
<1>6. Phases'
  BY <1>0 DEF Phases, BootIsQuiet, NoLiveWork, Booted, TasksAreKept
<1>7. TasksAreKept'
  BY <1>0 DEF TasksAreKept, Phases, BootIsQuiet, NoLiveWork, Booted, TypeOK, TaskPC
<1>8. (SweepIsSafe /\ FlagsNeedTasks)'
  BY <1>0 DEF SweepIsSafe, FlagsNeedTasks, BootIsQuiet, NoLiveWork, Booted, TypeOK, Phases, TasksAreKept
<1>9. PendingWrites'
  BY <1>0 DEF PendingWrites, StoreMirrorsCache, Pending, RecoveryInHand, BootIsQuiet, NoLiveWork, Booted, TypeOK, TasksAreKept, Phases
<1>10. StoreMirrorsCache'
  BY <1>0 DEF PendingWrites, StoreMirrorsCache, Pending, RecoveryInHand, BootIsQuiet, NoLiveWork, Booted, TypeOK, Phases, TasksAreKept
<1> QED
  BY <1>1, <1>2, <1>3, <1>4, <1>5, <1>6, <1>7, <1>8, <1>9, <1>10

LEMMA TaskStepKeeps ==
  ASSUME Inv, NEW t \in Tickets, TaskStep(t)
  PROVE  Inv'
<1> USE ColdStartAssumption DEF Inv, GoTo, NoCycle, worldVars, diskVars, coldVars, cacheVars, taskVars
<1>0. /\ task[t] = "idle" /\ inbox' = inbox \ {t}
      /\ UNCHANGED <<worldVars, coldVars, cacheVars>>
      /\ Sound(db') /\ db'.tickets = db.tickets /\ ListAdmitted(db') = ListAdmitted(db)
      /\ \/ UNCHANGED <<fresh, db, dirs, task, run, seen>>
         \/ /\ fresh < MaxCycles /\ fresh' = fresh + 1
            /\ run' = [run EXCEPT ![t] = fresh + 1]
            /\ DOMAIN db'.cycles \subseteq DOMAIN db.cycles \cup {fresh + 1}
            /\ ListInflight(db') \subseteq ListInflight(db) \cup {fresh + 1}
            /\ \E pc \in {"delete", "visit"} : task' = [task EXCEPT ![t] = pc]
            /\ dirs' \subseteq dirs \cup {t}
  <2> DEFINE target == IF t \notin DOMAIN cache THEN "none"
                       ELSE EvaluateFromCache(t, cache[t], wf, "default")
  <2>1. CASE target = "none"
    BY <2>1 DEF TaskStep
  <2>2. CASE target # "none"
    <3> DEFINE kind == IF target = "rule" THEN "rule" ELSE "cleanup"
    <3> HIDE DEF target
    <3>1. /\ task[t] = "idle" /\ inbox' = inbox \ {t}
          /\ UNCHANGED <<worldVars, coldVars, cacheVars>>
          /\ fresh < MaxCycles /\ fresh' = fresh + 1
          /\ run' = [run EXCEPT ![t] = fresh + 1]
          /\ db' = BestEffort(db, OpenCycle(db, fresh + 1, t, kind))
          /\ dirs' = IF target = "shorthand" THEN dirs ELSE dirs \cup {t}
          /\ task' = [task EXCEPT ![t] = IF target = "shorthand" THEN "delete" ELSE "visit"]
      BY <2>2 DEF TaskStep, target
    <3> HIDE DEF kind
    <3>2. /\ Sound(db') /\ db'.tickets = db.tickets
          /\ DOMAIN db'.cycles \subseteq DOMAIN db.cycles \cup {fresh + 1}
          /\ ListInflight(db') \subseteq ListInflight(db) \cup {fresh + 1}
      BY <3>1, OpenCycleEffect
    <3> QED
      BY <3>1, <3>2 DEF ListAdmitted
  <2> QED
    BY <2>1, <2>2
<1>1. TypeOK'
  <2>1. /\ linear' \in [Tickets -> States] /\ edits' \in 0 .. MaxEdits /\ boots' \in 0 .. MaxBoots
        /\ dirs' \subseteq Tickets \cup {Stray} /\ fresh' \in 0 .. MaxCycles
    BY <1>0 DEF TypeOK
  <2>2. DOMAIN db'.tickets \subseteq Tickets /\ DOMAIN db'.cycles \subseteq Cycles
    BY <1>0 DEF TypeOK, Cycles
  <2>3. main' \in MainPC /\ serving' \in BOOLEAN /\ partial' \in BOOLEAN
    BY <1>0 DEF TypeOK, MainPC
  <2>4. /\ at' \in Tickets \cup Cycles \cup {None} /\ listed' \subseteq Cycles
        /\ todo' \subseteq page' /\ keep' \subseteq Tickets
        /\ scanned' \cup deleted' \subseteq Tickets \cup {Stray}
    BY <1>0 DEF TypeOK, TasksAreKept
  <2>5. /\ DOMAIN cache' \subseteq Tickets /\ revoked' \subseteq DOMAIN cache'
        /\ crossed' \subseteq Tickets /\ inbox' \subseteq Tickets
    BY <1>0 DEF TypeOK, TasksAreKept, FlagsNeedTasks
  <2>6. task' \in [Tickets -> TaskPC] /\ run' \in [Tickets -> Cycles \cup {NoCycle}]
    BY <1>0 DEF TypeOK, TaskPC, Cycles
  <2> QED
    BY <2>1, <2>2, <2>3, <2>4, <2>5, <2>6 DEF TypeOK
<1>2. Sound(db')
  BY <1>0
<1>3. (BootIsQuiet /\ RecoveryInHand)'
  BY <1>0 DEF BootIsQuiet, RecoveryInHand, NoLiveWork, Booted, TypeOK, MainPC
<1>4. RunsAtWork'
  BY <1>0 DEF RunsAtWork, TypeOK, TaskPC, Cycles, BootIsQuiet, NoLiveWork, Booted
<1>5. OpenRowsAreRunning'
  <2>1. Booted' = Booted
    BY <1>0 DEF Booted
  <2>2. run[t] = NoCycle /\ NoCycle \notin ListInflight(db)
    BY <1>0 DEF RunsAtWork, ListInflight
  <2>3. ASSUME Booted, NEW c \in ListInflight(db) PROVE \E s \in Tickets : c = run'[s]
    <3>1. PICK s \in Tickets : c = run[s]
      BY <2>3 DEF OpenRowsAreRunning
    <3>2. s # t
      BY <2>2, <3>1
    <3> QED
      BY <1>0, <3>1, <3>2 DEF TypeOK
  <2>4. fresh' = fresh + 1 => run'[t] = fresh + 1
    BY <1>0 DEF TypeOK
  <2> QED
    BY <1>0, <2>1, <2>3, <2>4 DEF OpenRowsAreRunning
<1>6. Phases'
  BY <1>0 DEF Phases, BootIsQuiet, NoLiveWork, Booted, TasksAreKept
<1>7. TasksAreKept'
  BY <1>0 DEF TasksAreKept, Phases, BootIsQuiet, NoLiveWork, Booted, TypeOK, TaskPC
<1>8. (SweepIsSafe /\ FlagsNeedTasks)'
  BY <1>0 DEF SweepIsSafe, FlagsNeedTasks, BootIsQuiet, NoLiveWork, Booted, TypeOK, Phases, TasksAreKept
<1>9. PendingWrites'
  BY <1>0 DEF PendingWrites, StoreMirrorsCache, Pending, RecoveryInHand, BootIsQuiet, NoLiveWork, Booted, TypeOK, TasksAreKept, Phases
<1>10. StoreMirrorsCache'
  BY <1>0 DEF PendingWrites, StoreMirrorsCache, Pending, RecoveryInHand, BootIsQuiet, NoLiveWork, Booted, TypeOK, Phases, TasksAreKept
<1> QED
  BY <1>1, <1>2, <1>3, <1>4, <1>5, <1>6, <1>7, <1>8, <1>9, <1>10

LEMMA TaskVisitKeeps ==
  ASSUME Inv, NEW t \in Tickets, TaskVisit(t)
  PROVE  Inv'
<1> USE ColdStartAssumption DEF Inv, TaskVisit, GoTo, NoCycle, worldVars, diskVars, coldVars, cacheVars, taskVars
<1>0. /\ Sound(db') /\ db'.tickets = db.tickets
      /\ ListAdmitted(db') = ListAdmitted(db)
      /\ DOMAIN db'.cycles = DOMAIN db.cycles /\ ListInflight(db') = ListInflight(db) /\ db'.events = db.events
  BY SetCurrentStateEffect, BumpVisitEffect DEF ListInflight, ListAdmitted
<1>1. TypeOK'
  BY <1>0 DEF TypeOK, MainPC, TaskPC, Cycles
<1>2. Sound(db')
  BY <1>0
<1>3. (BootIsQuiet /\ RecoveryInHand)'
  BY <1>0 DEF BootIsQuiet, RecoveryInHand, NoLiveWork, Booted, TypeOK, MainPC
<1>4. RunsAtWork'
  BY <1>0 DEF RunsAtWork, TypeOK, TaskPC, BootIsQuiet, NoLiveWork, Booted
<1>5. OpenRowsAreRunning'
  BY <1>0 DEF OpenRowsAreRunning, RunsAtWork, RecoveryInHand, TypeOK, Booted
<1>6. Phases'
  BY <1>0 DEF Phases, BootIsQuiet, NoLiveWork, Booted
<1>7. TasksAreKept'
  BY <1>0 DEF TasksAreKept, Phases, BootIsQuiet, NoLiveWork, Booted, TypeOK, TaskPC
<1>8. (SweepIsSafe /\ FlagsNeedTasks)'
  BY <1>0 DEF SweepIsSafe, FlagsNeedTasks, BootIsQuiet, NoLiveWork, Booted, TypeOK, Phases, TasksAreKept
<1>9. PendingWrites'
  BY <1>0 DEF PendingWrites, StoreMirrorsCache, Pending, RecoveryInHand, BootIsQuiet, NoLiveWork, Booted, TypeOK, TasksAreKept, Phases
<1>10. StoreMirrorsCache'
  BY <1>0 DEF PendingWrites, StoreMirrorsCache, Pending, RecoveryInHand, BootIsQuiet, NoLiveWork, Booted, TypeOK, Phases
<1> QED
  BY <1>1, <1>2, <1>3, <1>4, <1>5, <1>6, <1>7, <1>8, <1>9, <1>10

LEMMA TaskCloseKeeps ==
  ASSUME Inv, NEW t \in Tickets, TaskClose(t)
  PROVE  Inv'
<1> USE ColdStartAssumption DEF Inv, TaskClose, GoTo, NoCycle, worldVars, diskVars, coldVars, cacheVars, taskVars
<1>0. /\ Sound(db') /\ db'.tickets = db.tickets
      /\ ListAdmitted(db') = ListAdmitted(db)
      /\ DOMAIN db'.cycles = DOMAIN db.cycles /\ ListInflight(db') = ListInflight(db) \ {run[t]} /\ db'.events = db.events
  BY CloseCycleEffect DEF ListAdmitted
<1>1. TypeOK'
  BY <1>0 DEF TypeOK, MainPC, TaskPC, Cycles
<1>2. Sound(db')
  BY <1>0
<1>3. (BootIsQuiet /\ RecoveryInHand)'
  BY <1>0 DEF BootIsQuiet, RecoveryInHand, NoLiveWork, Booted, TypeOK, MainPC
<1>4. RunsAtWork'
  BY <1>0 DEF RunsAtWork, TypeOK, TaskPC, BootIsQuiet, NoLiveWork, Booted
<1>5. OpenRowsAreRunning'
  BY <1>0 DEF OpenRowsAreRunning, RunsAtWork, RecoveryInHand, TypeOK, Booted
<1>6. Phases'
  BY <1>0 DEF Phases, BootIsQuiet, NoLiveWork, Booted
<1>7. TasksAreKept'
  BY <1>0 DEF TasksAreKept, Phases, BootIsQuiet, NoLiveWork, Booted, TypeOK, TaskPC
<1>8. (SweepIsSafe /\ FlagsNeedTasks)'
  BY <1>0 DEF SweepIsSafe, FlagsNeedTasks, BootIsQuiet, NoLiveWork, Booted, TypeOK, Phases, TasksAreKept
<1>9. PendingWrites'
  BY <1>0 DEF PendingWrites, StoreMirrorsCache, Pending, RecoveryInHand, BootIsQuiet, NoLiveWork, Booted, TypeOK, TasksAreKept, Phases
<1>10. StoreMirrorsCache'
  BY <1>0 DEF PendingWrites, StoreMirrorsCache, Pending, RecoveryInHand, BootIsQuiet, NoLiveWork, Booted, TypeOK, Phases
<1> QED
  BY <1>1, <1>2, <1>3, <1>4, <1>5, <1>6, <1>7, <1>8, <1>9, <1>10

LEMMA TaskDeleteKeeps ==
  ASSUME Inv, NEW t \in Tickets, TaskDelete(t)
  PROVE  Inv'
<1> USE ColdStartAssumption DEF Inv, TaskDelete, Evicted, Without, GoTo, NoCycle, worldVars, diskVars, coldVars, cacheVars, taskVars
<1>0. /\ Sound(db') /\ db'.tickets = db.tickets
      /\ ListAdmitted(db') = ListAdmitted(db)
      /\ DOMAIN db'.cycles = DOMAIN db.cycles /\ ListInflight(db') = ListInflight(db) \ {run[t]} /\ db'.events = db.events
  BY CloseCycleEffect DEF ListAdmitted
<1>1. TypeOK'
  BY <1>0 DEF TypeOK, MainPC, TaskPC, Cycles
<1>2. Sound(db')
  BY <1>0
<1>3. (BootIsQuiet /\ RecoveryInHand)'
  BY <1>0 DEF BootIsQuiet, RecoveryInHand, NoLiveWork, Booted, TypeOK, MainPC
<1>4. RunsAtWork'
  BY <1>0 DEF RunsAtWork, TypeOK, TaskPC, BootIsQuiet, NoLiveWork, Booted
<1>5. OpenRowsAreRunning'
  BY <1>0 DEF OpenRowsAreRunning, RunsAtWork, RecoveryInHand, TypeOK, Booted
<1>6. Phases'
  BY <1>0 DEF Phases, BootIsQuiet, NoLiveWork, Booted
<1>7. TasksAreKept'
  BY <1>0 DEF TasksAreKept, Phases, BootIsQuiet, NoLiveWork, Booted, TypeOK, TaskPC
<1>8. (SweepIsSafe /\ FlagsNeedTasks)'
  BY <1>0 DEF SweepIsSafe, FlagsNeedTasks, BootIsQuiet, NoLiveWork, Booted, TypeOK, Phases, TasksAreKept
<1>9. PendingWrites'
  BY <1>0 DEF PendingWrites, StoreMirrorsCache, Pending, RecoveryInHand, BootIsQuiet, NoLiveWork, Booted, TypeOK, TasksAreKept, Phases
<1>10. StoreMirrorsCache'
  BY <1>0 DEF PendingWrites, StoreMirrorsCache, Pending, RecoveryInHand, BootIsQuiet, NoLiveWork, Booted, TypeOK, Phases
<1> QED
  BY <1>1, <1>2, <1>3, <1>4, <1>5, <1>6, <1>7, <1>8, <1>9, <1>10

LEMMA TaskSettleKeeps ==
  ASSUME Inv, NEW t \in Tickets, TaskSettle(t)
  PROVE  Inv'
<1> USE ColdStartAssumption DEF Inv, TaskSettle, Evicted, Without, GoTo, NoCycle, worldVars, diskVars, coldVars, cacheVars, taskVars
<1>1. TypeOK'
  BY DEF TypeOK, MainPC, TaskPC, Cycles
<1>2. Sound(db')
  OBVIOUS
<1>3. (BootIsQuiet /\ RecoveryInHand)'
  BY DEF BootIsQuiet, RecoveryInHand, NoLiveWork, Booted, TypeOK, MainPC
<1>4. RunsAtWork'
  BY DEF RunsAtWork, TypeOK, TaskPC, BootIsQuiet, NoLiveWork, Booted
<1>5. OpenRowsAreRunning'
  BY DEF OpenRowsAreRunning, RunsAtWork, RecoveryInHand, TypeOK, Booted
<1>6. Phases'
  BY DEF Phases, BootIsQuiet, NoLiveWork, Booted
<1>7. TasksAreKept'
  BY DEF TasksAreKept, Phases, BootIsQuiet, NoLiveWork, Booted, TypeOK, TaskPC
<1>8. (SweepIsSafe /\ FlagsNeedTasks)'
  BY DEF SweepIsSafe, FlagsNeedTasks, BootIsQuiet, NoLiveWork, Booted, TypeOK, Phases, TasksAreKept
<1>9. PendingWrites'
  BY DEF PendingWrites, StoreMirrorsCache, Pending, RecoveryInHand, BootIsQuiet, NoLiveWork, Booted, TypeOK, TasksAreKept, Phases
<1>10. StoreMirrorsCache'
  BY DEF PendingWrites, StoreMirrorsCache, Pending, RecoveryInHand, BootIsQuiet, NoLiveWork, Booted, TypeOK, Phases
<1> QED
  BY <1>1, <1>2, <1>3, <1>4, <1>5, <1>6, <1>7, <1>8, <1>9, <1>10

LEMMA TaskEvictKeeps ==
  ASSUME Inv, NEW t \in Tickets, TaskEvict(t)
  PROVE  Inv'
<1> USE ColdStartAssumption DEF Inv, TaskEvict, GoTo, NoCycle, worldVars, diskVars, coldVars, cacheVars, taskVars
<1>0. /\ Sound(db') /\ DOMAIN db'.tickets = DOMAIN db.tickets
      /\ ListAdmitted(db') = ListAdmitted(db) \ {t}
      /\ DOMAIN db'.cycles = DOMAIN db.cycles /\ ListInflight(db') = ListInflight(db) /\ db'.events = db.events
  BY EvictTicketEffect DEF ListInflight
<1>1. TypeOK'
  BY <1>0 DEF TypeOK, MainPC, TaskPC, Cycles
<1>2. Sound(db')
  BY <1>0
<1>3. (BootIsQuiet /\ RecoveryInHand)'
  BY <1>0 DEF BootIsQuiet, RecoveryInHand, NoLiveWork, Booted, TypeOK, MainPC
<1>4. RunsAtWork'
  BY <1>0 DEF RunsAtWork, TypeOK, TaskPC, BootIsQuiet, NoLiveWork, Booted
<1>5. OpenRowsAreRunning'
  BY <1>0 DEF OpenRowsAreRunning, RunsAtWork, RecoveryInHand, TypeOK, Booted
<1>6. Phases'
  BY <1>0 DEF Phases, BootIsQuiet, NoLiveWork, Booted
<1>7. TasksAreKept'
  BY <1>0 DEF TasksAreKept, Phases, BootIsQuiet, NoLiveWork, Booted, TypeOK, TaskPC
<1>8. (SweepIsSafe /\ FlagsNeedTasks)'
  BY <1>0 DEF SweepIsSafe, FlagsNeedTasks, BootIsQuiet, NoLiveWork, Booted, TypeOK, Phases, TasksAreKept
<1>9. PendingWrites'
  BY <1>0 DEF PendingWrites, StoreMirrorsCache, Pending, RecoveryInHand, BootIsQuiet, NoLiveWork, Booted, TypeOK, TasksAreKept, Phases
<1>10. StoreMirrorsCache'
  BY <1>0 DEF PendingWrites, StoreMirrorsCache, Pending, RecoveryInHand, BootIsQuiet, NoLiveWork, Booted, TypeOK, Phases
<1> QED
  BY <1>1, <1>2, <1>3, <1>4, <1>5, <1>6, <1>7, <1>8, <1>9, <1>10

LEMMA Initially == Init => Inv
<1> USE ColdStartAssumption DEF NoCycle, EmptyTable
<1>1. SUFFICES ASSUME Init PROVE Inv
  OBVIOUS
<1>2. PICK cs \in SUBSET (1 .. Legacy), v \in FirstVersions :
        \E owner \in [cs -> Tickets] : db = FirstStore(v, owner)
  BY <1>1 DEF Init
<1>10. PICK owner \in [cs -> Tickets] : db = FirstStore(v, owner)
  BY <1>2
<1>11. /\ DOMAIN db = Schema /\ DOMAIN db.cycles = cs
       /\ DOMAIN db.tickets = {owner[c] : c \in cs}
       /\ \A c \in cs : DOMAIN db.cycles[c] = Columns /\ db.cycles[c].ticket = owner[c]
       /\ db.events = <<>> /\ DOMAIN db.visits = {} /\ DOMAIN db.runs = {}
  BY <1>10 DEF FirstStore, Fresh, Schema, Columns
<1>3. IsList(<<>>)
  BY DEF IsList
<1>4. Sound(db)
  <2>1. \A c \in DOMAIN db.cycles : DOMAIN db.cycles[c] = Columns
    BY <1>11
  <2>2. \A c \in DOMAIN db.cycles : db.cycles[c].ticket \in DOMAIN db.tickets
    BY <1>11
  <2>3. DOMAIN db.events = {}
    BY <1>11
  <2> QED
    BY <1>11, <1>3, <2>1, <2>2, <2>3 DEF Sound, IsDb, KeysIntact
<1>12. cs \subseteq 1 .. MaxCycles /\ fresh = Legacy /\ Legacy \in Nat /\ Legacy \in 0 .. MaxCycles
  BY <1>1, <1>2 DEF Init
<1>5. TypeOK
  <2>1. /\ linear \in [Tickets -> States] /\ edits \in 0 .. MaxEdits /\ boots \in 0 .. MaxBoots
        /\ dirs \subseteq Tickets \cup {Stray} /\ fresh \in 0 .. MaxCycles
    BY <1>1, <1>12 DEF Init
  <2>0. main \in MainPC /\ serving \in BOOLEAN /\ partial \in BOOLEAN
    BY <1>1 DEF Init, MainPC
  <2>2. /\ DOMAIN db.tickets \subseteq Tickets /\ DOMAIN db.cycles \subseteq Cycles
        /\ DOMAIN cache \subseteq Tickets /\ revoked \subseteq DOMAIN cache
    BY <1>1, <1>11, <1>12 DEF Init, Cycles
  <2>3. task \in [Tickets -> TaskPC] /\ run \in [Tickets -> Cycles \cup {NoCycle}]
    BY <1>1 DEF Init, TaskPC
  <2> QED
    BY <1>1, <2>0, <2>1, <2>2, <2>3 DEF Init, TypeOK
<1>6. BootIsQuiet /\ RecoveryInHand /\ OpenRowsAreRunning /\ Phases
  BY <1>1 DEF Init, BootIsQuiet, NoLiveWork, RecoveryInHand, OpenRowsAreRunning, Phases, Booted
<1>7. RunsAtWork
  BY <1>1, <1>11, <1>12 DEF Init, RunsAtWork, ListInflight
<1>8. TasksAreKept /\ SweepIsSafe /\ FlagsNeedTasks
  BY <1>1 DEF Init, TasksAreKept, SweepIsSafe, FlagsNeedTasks
<1>9. PendingWrites /\ StoreMirrorsCache
  BY <1>1 DEF Init, PendingWrites, StoreMirrorsCache, Booted
<1> QED
  BY <1>4, <1>5, <1>6, <1>7, <1>8, <1>9 DEF Inv

LEMMA StutterKeeps ==
  ASSUME Inv, UNCHANGED vars
  PROVE  Inv'
<1> USE DEF vars, worldVars, diskVars, coldVars, cacheVars, taskVars
<1>1. /\ TypeOK' = TypeOK /\ Sound(db)' = Sound(db) /\ BootIsQuiet' = BootIsQuiet
      /\ RecoveryInHand' = RecoveryInHand /\ RunsAtWork' = RunsAtWork
      /\ OpenRowsAreRunning' = OpenRowsAreRunning
  BY DEF TypeOK, BootIsQuiet, NoLiveWork, RecoveryInHand, RunsAtWork, OpenRowsAreRunning, Booted
<1>2. /\ Phases' = Phases /\ TasksAreKept' = TasksAreKept /\ SweepIsSafe' = SweepIsSafe
      /\ FlagsNeedTasks' = FlagsNeedTasks /\ PendingWrites' = PendingWrites
      /\ StoreMirrorsCache' = StoreMirrorsCache
  BY DEF Phases, TasksAreKept, SweepIsSafe, FlagsNeedTasks, PendingWrites, StoreMirrorsCache,
         Pending, Booted
<1> QED
  BY <1>1, <1>2 DEF Inv

LEMMA NextKeeps ==
  ASSUME Inv, [Next]_vars
  PROVE  Inv'
<1>1. CASE ColdStep
  BY <1>1, OpenStoreKeeps, SeedKeeps, RecoverStepKeeps, EnumerateKeeps, AdmitEnumeratedKeeps,
     MirrorKeeps, RouteKeeps, EndAdmissionKeeps, SweepKeeps DEF ColdStep
<1>2. CASE Boot \/ Crash \/ Unmirror
  BY <1>2, BootKeeps, CrashKeeps, UnmirrorKeeps
<1>3. ASSUME NEW t \in Tickets,
             \/ Edit(t) \/ Webhook(t) \/ TaskStep(t) \/ TaskVisit(t) \/ TaskClose(t)
             \/ TaskDelete(t) \/ TaskSettle(t) \/ TaskEvict(t)
      PROVE  Inv'
  BY <1>3, EditKeeps, WebhookKeeps, TaskStepKeeps, TaskVisitKeeps, TaskCloseKeeps,
     TaskDeleteKeeps, TaskSettleKeeps, TaskEvictKeeps
<1>4. CASE UNCHANGED vars
  BY <1>4, StutterKeeps
<1> QED
  BY <1>1, <1>2, <1>3, <1>4 DEF Next

LEMMA Always == Spec => []Inv
<1>1. Inv /\ [Next]_vars => Inv'
  BY NextKeeps
<1> QED
  BY Initially, <1>1, PTL DEF Spec

-----------------------------------------------------------------------------
(* Results. *)

(* Whatever crashes, edits and boots come between the writes: the rows     *)
(* that are open belong to the tasks of this boot, and a ticket without a  *)
(* pending write is admitted in the store exactly if the cache has it.     *)
THEOREM StoreAgrees == Spec => []StoreInv
<1>1. Inv => StoreInv
  BY DEF Inv, StoreInv
<1> QED
  BY <1>1, Always, PTL

(* The orphan sweep takes no directory of a ticket with a live task, and   *)
(* none after a partial enumeration.                                       *)
THEOREM SweepTakesNoWork == Spec => []SweepSparesWork
<1>1. ASSUME Inv PROVE SweepSparesWork
  <2>1. partial => deleted = {}
    BY <1>1 DEF Inv, SweepIsSafe
  <2>2. ASSUME main = "sweep", NEW t \in deleted \cap Tickets PROVE ~LiveTask(t)
    BY <1>1, <2>2 DEF Inv, SweepIsSafe, TasksAreKept, Phases, LiveTask
  <2> QED
    BY <2>1, <2>2 DEF SweepSparesWork
<1> QED
  BY <1>1, Always, PTL

(* No operation, refused or not, and no crash leaves a dangling key: the   *)
(* check after a migration never stops a boot on a store of this daemon.   *)
THEOREM KeysNeverDangle == Spec => []KeysIntact(db)
<1>1. Inv => KeysIntact(db)
  BY DEF Inv, Sound
<1> QED
  BY <1>1, Always, PTL

(* Recovery closes no row without its event in the store, even if it was   *)
(* interrupted by a crash any number of times, but for the rows of an old  *)
(* store and those whose event could not be written.                       *)
THEOREM RecoveryLeavesATrace == Spec => RecoveryIsAnnounced
<1> DEFINE Traced ==
      \A c \in Cycles : RecoveryCloses(c) /\ IsUuid(c) /\ main # "unheard" => HasEvent(c)
<1>1. ASSUME Inv, [Next]_vars PROVE Traced
  <2> USE <1>1 DEF Inv, vars, worldVars, diskVars, coldVars, cacheVars, taskVars, RecoveryCloses, HasEvent
  <2>1. CASE db' = db
    BY <2>1
  <2>2. CASE db'.cycles = db.cycles
    BY <2>2 DEF ListInflight
  <2>3. CASE OpenStore
    BY <2>2, <2>3, <2>1, MigrateEffect DEF OpenStore, ListInflight
  <2>4. CASE RecoverStep
    <3>1. CASE TakeRow /\ (db' = db \/ db' = BestEffort(db, Announced(at')))
      <4> DEFINE id == db.cycles[at'].ticket
      <4>1. CASE db' = BestEffort(db, AppendEvent(db, id, at', "crashed_cycle_recovered"))
        <5> HIDE DEF id
        <5> QED
          BY <2>2, <4>1, AppendEventEffect
      <4> QED
        BY <2>1, <3>1, <4>1 DEF Announced
    <3>2. CASE /\ main \in {"announced", "unheard"}
               /\ db' = BestEffort(db, CloseCycle(db, at, "failure"))
      <4>1. ListInflight(db') = ListInflight(db) \ {at} /\ db'.events = db.events
        BY <3>2, CloseCycleEffect
      <4> QED
        BY <3>2, <4>1 DEF RecoveryInHand
    <3>3. CASE CloseLegacy
      <4>1. ListInflight(db') = ListInflight(db) \ {NextRow} /\ ~IsUuid(NextRow)
        BY <3>3, CloseCycleEffect DEF CloseLegacy
      <4> QED
        BY <4>1
    <3>4. CASE RecoveryEnds
      BY <2>1, <3>4 DEF RecoveryEnds
    <3> QED
      BY <2>4, <3>1, <3>2, <3>3, <3>4 DEF RecoverStep, Recover
  <2>5. CASE Mirror \/ Unmirror
    BY <2>2, <2>5, AdmitTicketEffect, EvictTicketEffect DEF Mirror, Unmirror
  <2>6. ASSUME NEW t \in Tickets, TaskStep(t) PROVE Traced
    <3> DEFINE target == IF t \notin DOMAIN cache THEN "none"
                         ELSE EvaluateFromCache(t, cache[t], wf, "default")
    <3>1. CASE target = "none"
      BY <2>1, <2>6, <3>1 DEF TaskStep
    <3>2. CASE target # "none"
      <4> DEFINE kind == IF target = "rule" THEN "rule" ELSE "cleanup"
      <4> HIDE DEF target
      <4>1. db' = BestEffort(db, OpenCycle(db, fresh', t, kind))
        BY <2>6, <3>2 DEF TaskStep, target
      <4> HIDE DEF kind
      <4> QED
        BY <4>1, OpenCycleEffect
    <3> QED
      BY <3>1, <3>2
  <2>7. ASSUME NEW t \in Tickets, TaskVisit(t) PROVE Traced
    BY <2>7, SetCurrentStateEffect, BumpVisitEffect DEF TaskVisit, ListInflight
  <2>8. ASSUME NEW t \in Tickets, TaskEvict(t) PROVE Traced
    BY <2>2, <2>8, EvictTicketEffect DEF TaskEvict
  <2>9. ASSUME NEW t \in Tickets, TaskClose(t) \/ TaskDelete(t) PROVE task' # task
    BY <2>9 DEF TaskClose, TaskDelete, Evicted, TypeOK
  <2>10. ASSUME NEW t \in Tickets, Edit(t) \/ Webhook(t) \/ TaskSettle(t) PROVE db' = db
    BY <2>10 DEF Edit, Webhook, TaskSettle
  <2>11. CASE Boot \/ Crash \/ Seed \/ Enumerate \/ AdmitEnumerated \/ Route \/ EndAdmission \/ Sweep
    <3>1. db' = db
      BY <2>11 DEF Boot, Crash, Seed, Enumerate, AdmitEnumerated, Route, EndAdmission, Sweep
    <3> QED
      BY <2>1, <3>1
  <2>12. CASE UNCHANGED vars
    BY <2>1, <2>12
  <2> QED
    BY <2>1, <2>3, <2>4, <2>5, <2>6, <2>7, <2>8, <2>9, <2>10, <2>11, <2>12 DEF Next, ColdStep
<1>2. Inv /\ [Next]_vars => [Traced]_vars
  BY <1>1
<1> QED
  BY <1>2, Always, PTL DEF Spec, RecoveryIsAnnounced

-----------------------------------------------------------------------------
(* The status filter of the enumeration. *)

LEMMA ExpandAllList ==
  ASSUME NEW s, IsList(s)
  PROVE  IsList(ExpandAll(s))
<1> DEFINE x == ExpandAll(s)
<1>1. Len(s) \in Nat /\ x = [i \in 1 .. Len(s) |-> Expand(s[i])]
  BY ListDomain DEF ExpandAll
<1>2. DOMAIN x = 1 .. Len(s) /\ \A i \in 1 .. Len(s) : x[i] \in ToSet(x)
  BY <1>1 DEF ToSet
<1>3. x = [i \in 1 .. Len(s) |-> x[i]]
  BY <1>1
<1> HIDE DEF x
<1>4. x \in Seq(ToSet(x))
  BY <1>1, <1>2, <1>3
<1> QED
  BY <1>4 DEF IsList, x

(* The lists that a file which has been read expands to. *)
LEMMA ReadFile ==
  ASSUME NEW fs \in Files, NEW path, ParsedFile(fs, path) = "parsed"
  PROVE  /\ IsList(ExpandAll(fs[path].rules)) /\ IsList(ExpandAll(fs[path].cleanup))
         /\ fs[path].admission # None => IsList(fs[path].admission.repos)
<1>1. path \in DOMAIN fs /\ fs[path] # Malformed
  BY DEF ParsedFile
<1>2. /\ IsList(fs[path].rules) /\ IsList(fs[path].cleanup)
      /\ fs[path].admission # None => IsList(fs[path].admission.repos)
  BY <1>1, FilesAssumption
<1> QED
  BY <1>2, ExpandAllList

(* A workflow whose every source, own or override, has lists of entries.   *)
HasLists(w) == \A lists \in Sources(w) : IsList(lists.rules) /\ IsList(lists.cleanup)

LEMMA LoadedHasLists ==
  ASSUME NEW fs \in Files, NEW top, Loaded(LoadWorkflow(fs, top, TRUE))
  PROVE  HasLists(LoadWorkflow(fs, top, TRUE))
<1> DEFINE raw == fs[top]
<1> DEFINE repos == IF raw.admission = None THEN <<>> ELSE raw.admission.repos
<1> DEFINE split == {i \in DOMAIN repos : repos[i].workflow # None}
<1> DEFINE PathOf(i) == Resolve(repos[i].workflow, TRUE)
<1> DEFINE LastOf(ghq) == Max({i \in split : repos[i].ghq = ghq})
<1> DEFINE Lists(ghq) == [rules |-> ExpandAll(fs[PathOf(LastOf(ghq))].rules),
                          cleanup |-> ExpandAll(fs[PathOf(LastOf(ghq))].cleanup)]
<1> DEFINE w == LoadWorkflow(fs, top, TRUE)
<1>1. \A reason : ~Loaded(Failed(reason))
  BY DEF Loaded, Failed
<1>2. ParsedFile(fs, top) = "parsed"
  BY <1>1 DEF LoadWorkflow
<1>3. \A i \in split : ParsedFile(fs, PathOf(i)) = "parsed"
  BY <1>1, <1>2 DEF LoadWorkflow
<1>4. raw.admission # None
  BY <1>1, <1>2, <1>3 DEF LoadWorkflow
<1>5. w = [assignee |-> raw.admission.assignee,
           repo |-> IF repos = <<>> THEN None ELSE repos[1].ghq,
           rules |-> ExpandAll(raw.rules), cleanup |-> ExpandAll(raw.cleanup),
           overrides |-> [ghq \in {repos[i].ghq : i \in split} |-> Lists(ghq)]]
  BY <1>2, <1>3, <1>4 DEF LoadWorkflow
<1>6. /\ w.rules = ExpandAll(raw.rules) /\ w.cleanup = ExpandAll(raw.cleanup)
      /\ w.overrides = [ghq \in {repos[i].ghq : i \in split} |-> Lists(ghq)]
  <2> HIDE DEF w, Lists, split, repos, raw
  <2> QED
    BY <1>5
<1>7. IsList(repos)
  BY <1>2, <1>4, ReadFile
<1>8. ASSUME NEW ghq \in {repos[i].ghq : i \in split} PROVE LastOf(ghq) \in split
  <2> DEFINE S == {i \in split : repos[i].ghq = ghq}
  <2>1. S # {}
    OBVIOUS
  <2>2. Len(repos) \in Nat /\ S \subseteq 0 .. Len(repos)
    BY <1>7, ListDomain
  <2> HIDE DEF split, repos
  <2>3. S \subseteq split
    OBVIOUS
  <2> HIDE DEF S
  <2>4. \E m \in S : \A k \in S : k <= m
    BY <2>1, <2>2, GreatestNat
  <2>5. \E m \in S : \A k \in S : m >= k
    BY <2>2, <2>4
  <2>6. Max(S) \in S
    BY <2>5 DEF Max
  <2> QED
    BY <2>3, <2>6 DEF S
<1>9. ASSUME NEW ghq \in DOMAIN w.overrides
      PROVE  IsList(w.overrides[ghq].rules) /\ IsList(w.overrides[ghq].cleanup)
  <2>1. ghq \in {repos[i].ghq : i \in split} /\ w.overrides[ghq] = Lists(ghq)
    BY <1>6, <1>9
  <2>2. ParsedFile(fs, PathOf(LastOf(ghq))) = "parsed"
    BY <1>3, <1>8, <2>1
  <2> HIDE DEF PathOf, LastOf, w
  <2> QED
    BY <2>1, <2>2, ReadFile
<1>10. IsList(w.rules) /\ IsList(w.cleanup)
  <2>1. IsList(ExpandAll(raw.rules)) /\ IsList(ExpandAll(raw.cleanup))
    BY <1>2, ReadFile
  <2> HIDE DEF w, raw, repos, split, Lists
  <2> QED
    BY <2>1, <1>6
<1>11. HasLists(w)
  <2> HIDE DEF w
  <2> QED
    BY <1>9, <1>10 DEF HasLists, Sources
<1> QED
  BY <1>11

ListsAreLoaded == main # "down" => HasLists(wf)

LEMMA ListsLoaded == Spec => []ListsAreLoaded
<1>1. Init => ListsAreLoaded
  BY DEF Init, ListsAreLoaded
<1>2. ASSUME ListsAreLoaded, [Next]_vars PROVE ListsAreLoaded'
  <2>1. CASE Boot
    BY <2>1, LoadedHasLists DEF Boot, ListsAreLoaded, GoTo
  <2>2. CASE wf' = wf /\ (main = "down" => main' = "down")
    BY <1>2, <2>2 DEF ListsAreLoaded
  <2>3. CASE Crash
    BY <2>3 DEF Crash, GoTo, ListsAreLoaded
  <2>7. CASE RecoverStep
    BY <2>2, <2>7 DEF RecoverStep, Recover, CloseLegacy, TakeRow, RecoveryEnds, worldVars
  <2>4. CASE ColdStep \/ Unmirror
    BY <2>2, <2>4, <2>7 DEF ColdStep, OpenStore, Seed, Enumerate, AdmitEnumerated,
       Mirror, Unmirror, Route, EndAdmission, Sweep, worldVars
  <2>5. ASSUME NEW t \in Tickets,
               \/ Edit(t) \/ Webhook(t) \/ TaskStep(t) \/ TaskVisit(t) \/ TaskClose(t)
               \/ TaskDelete(t) \/ TaskSettle(t) \/ TaskEvict(t)
        PROVE  ListsAreLoaded'
    BY <2>2, <2>5 DEF Edit, Webhook, TaskStep, TaskVisit, TaskClose, TaskDelete, TaskSettle,
       TaskEvict, worldVars, coldVars
  <2>6. CASE UNCHANGED vars
    BY <2>2, <2>6 DEF vars, worldVars, coldVars
  <2> QED
    BY <1>2, <2>1, <2>3, <2>4, <2>5, <2>6 DEF Next
<1> QED
  BY <1>1, <1>2, PTL DEF Spec

(* What first-match picks is an entry of the list that matches. *)
LEMMA FirstMatchMatches ==
  ASSUME NEW admitted, NEW entries, IsList(entries), FirstMatch(admitted, entries) # None
  PROVE  /\ FirstMatch(admitted, entries) \in ToSet(entries)
         /\ MatchesWhen(FirstMatch(admitted, entries).when, admitted)
<1> DEFINE hits == {i \in 1 .. Len(entries) : MatchesWhen(entries[i].when, admitted)}
<1> DEFINE first == CHOOSE i \in hits : \A j \in hits : i <= j
<1>1. Len(entries) \in Nat /\ DOMAIN entries = 1 .. Len(entries)
  BY ListDomain
<1>2. hits \subseteq Nat /\ hits # {}
  BY <1>1 DEF FirstMatch
<1>3. FirstMatch(admitted, entries) = entries[first]
  BY <1>2 DEF FirstMatch
<1>4. first \in hits
  <2> HIDE DEF hits
  <2> QED
    BY <1>2, LeastNat
<1> QED
  BY <1>1, <1>3, <1>4 DEF ToSet

(* An entry that names its statuses accepts only tickets in one of them.   *)
LEMMA NamedStatus ==
  ASSUME NEW admitted, NEW e, Named(e), MatchesWhen(e.when, admitted)
  PROVE  admitted.ticket.status \in Seeds(e)
BY DEF Named, Seeds, MatchesWhen, ScalarMatches

(* The union of statuses that the query asks for covers every ticket that  *)
(* some entry would act on, unless it is empty and asks for all.           *)
LEMMA UnionCovers ==
  ASSUME NEW w, HasLists(w), \A lists \in Sources(w) : Selective(lists),
         NEW admitted, Evaluate(admitted, w, "default") # "none",
         StatusUnion(w) # {}
  PROVE  admitted.ticket.status \in StatusUnion(w)
<1> DEFINE lists == EntriesFor(w, admitted.ghq)
<1> DEFINE c == FirstMatch(admitted, lists.cleanup)
<1> DEFINE r == FirstMatch(admitted, lists.rules)
<1>1. lists \in Sources(w)
  BY DEF EntriesFor, Sources
<1>2. IsList(lists.rules) /\ IsList(lists.cleanup)
  BY <1>1 DEF HasLists
<1>3. /\ StatusUnion(w) = SeedsOnly(w)
      /\ \A s \in Sources(w) : \A e \in ToSet(s.cleanup) : ~Drops(e)
  BY DEF StatusUnion
<1>4. c # None \/ r # None
  BY DEF Evaluate
<1>5. \E e \in ToSet(lists.rules) \cup ToSet(lists.cleanup) :
        ~Drops(e) /\ MatchesWhen(e.when, admitted)
  <2> HIDE DEF lists
  <2>1. CASE c # None
    BY <1>1, <1>2, <1>3, <2>1, FirstMatchMatches
  <2>2. CASE r # None
    BY <1>1, <1>2, <2>2, FirstMatchMatches DEF Selective
  <2> QED
    BY <1>4, <2>1, <2>2
<1>6. PICK e \in ToSet(lists.rules) \cup ToSet(lists.cleanup) :
        admitted.ticket.status \in Seeds(e)
  BY <1>5, NamedStatus DEF Drops
<1> HIDE DEF lists
<1> QED
  BY <1>1, <1>3, <1>6 DEF SeedsOnly

(* With selective rules the enumeration of cold start loses no ticket that *)
(* the workflow, its overrides included, would act on.                     *)
THEOREM FilterLosesNothing == Spec => []EnumerationCovers
<1>1. ASSUME ListsAreLoaded PROVE EnumerationCovers
  <2>1. SUFFICES ASSUME main = "enumerate", \A lists \in Sources(wf) : Selective(lists),
                        NEW t \in Tickets,
                        Accepts(SynthNormalized(Issue(t, linear[t])), wf, Me),
                        EvaluateFromCache(t, Entry(SynthNormalized(Issue(t, linear[t])), wf.repo),
                                          wf, "default") # "none"
                 PROVE  Enumerable(Issue(t, linear[t]), wf, Me)
    BY DEF EnumerationCovers
  <2> DEFINE issue == Issue(t, linear[t])
  <2> DEFINE ticket == SynthNormalized(issue)
  <2> DEFINE admitted == Synthesize(t, Entry(ticket, wf.repo))
  <2>2. ticket.assignee = issue.assignee /\ ticket.status = issue.status
    BY DEF SynthNormalized, NormalizedTicket
  <2>3. admitted.ticket.status = ticket.status
    BY DEF Synthesize, NormalizedTicket, Entry
  <2>4. HasLists(wf)
    BY <1>1, <2>1 DEF ListsAreLoaded
  <2>5. Evaluate(admitted, wf, "default") # "none"
    BY <2>1 DEF EvaluateFromCache
  <2>6. issue.assignee = Expected(wf, Me)
    BY <2>1, <2>2 DEF Accepts
  <2> HIDE DEF admitted, ticket, issue
  <2>7. StatusUnion(wf) # {} => issue.status \in StatusUnion(wf)
    BY <2>1, <2>2, <2>3, <2>4, <2>5, UnionCovers
  <2> QED
    BY <2>6, <2>7 DEF Enumerable, issue
<1> QED
  BY <1>1, ListsLoaded, PTL
===============================================================================
