------------------------- MODULE TicketDispatchProofs -------------------------
(***************************************************************************)
(* Proofs about TicketDispatch, for every set of tickets, triples and      *)
(* tasks and for every channel capacity.                                   *)
(***************************************************************************)
EXTENDS TicketDispatch, TLAPS

-----------------------------------------------------------------------------
(* What the operations of the cache and the map return. *)

(* A flag written into an entry leaves an entry, and the cache a cache. *)
LEMMA FlagWrites ==
  ASSUME cache \in [Tickets -> Entry \cup {NoEntry}],
         NEW t \in Tickets, NEW b \in BOOLEAN,
         SetCycle(t, b) \/ SetRecheck(t, b) \/ SetEvict(t, b)
  PROVE  cache' \in [Tickets -> Entry \cup {NoEntry}]
<1>1. CASE ~Cached(t)
  BY <1>1 DEF SetCycle, SetRecheck, SetEvict
<1>2. CASE Cached(t)
  <2>1. cache[t] \in Entry
    BY <1>2 DEF Cached
  <2>2. /\ [cache[t] EXCEPT !.cycle = b] \in Entry
        /\ [cache[t] EXCEPT !.recheck = b] \in Entry
        /\ [cache[t] EXCEPT !.evict = b] \in Entry
    BY <2>1 DEF Entry
  <2> QED
    BY <1>2, <2>2 DEF SetCycle, SetRecheck, SetEvict
<1> QED
  BY <1>1, <1>2

(* observe admits a well-formed entry: the new triple with its flags down. *)
LEMMA NewEntryType == ASSUME NEW v \in Triples PROVE NewEntry(v) \in Entry
  BY DEF NewEntry, Entry

(* An entry seeded from the store is well-formed and has its flags down.   *)
LEMMA SeedType ==
  ASSUME NEW t \in Tickets
  PROVE  /\ Seed(t) \in Entry \cup {NoEntry}
         /\ Seed(t) # NoEntry => ~Seed(t).cycle /\ ~Seed(t).recheck /\ ~Seed(t).evict
<1>1. Blank \in Triples
  BY ConstantsAssumption
<1>2. NewEntry(Blank) \in Entry
  BY <1>1, NewEntryType
<1> QED
  BY <1>2 DEF Seed, NewEntry

(* Spawning a task keeps the handle map and the state of the tasks typed.  *)
LEMMA SpawnType ==
  ASSUME TypeOK, NEW t \in Tickets, Spawn(t)
  PROVE  /\ handle' \in [Tickets -> TaskIds \cup {NoTask}]
         /\ tpc' \in [TaskIds -> TaskPC]
         /\ owner' \in [TaskIds -> Tickets \cup {NoTicket}]
         /\ \A k \in TaskIds : tpc'[k] # "dead" => owner'[k] \in Tickets
         /\ inbox' \in [TaskIds -> 0 .. InboxCap]
         /\ job' = job
  BY DEF TypeOK, Spawn, TaskPC, InboxCap, Alive

-----------------------------------------------------------------------------
(* Every variable keeps its type: the base of every other proof here. *)
THEOREM TypeCorrect == Spec => []TypeOK
<1>1. Init => TypeOK
  <2> SUFFICES ASSUME Init PROVE TypeOK
    OBVIOUS
  <2>1. /\ channel \in Seq(Webhook) /\ Len(channel) <= ChannelCap
        /\ sent \in 0 .. MaxWebhooks
    BY ConstantsAssumption DEF Init
  <2>2. /\ cache \in [Tickets -> Entry \cup {NoEntry}]
        /\ handle \in [Tickets -> TaskIds \cup {NoTask}]
        /\ verdict \in [Tickets -> {"none", "accepted", "rejected"}]
    BY SeedType DEF Init
  <2>3. /\ tpc \in [TaskIds -> TaskPC]
        /\ owner \in [TaskIds -> Tickets \cup {NoTicket}]
        /\ inbox \in [TaskIds -> 0 .. InboxCap]
        /\ job \in [TaskIds -> Targets \cup Results]
        /\ \A k \in TaskIds : ~Alive(k)
    BY DEF Init, TaskPC, InboxCap, Targets, Alive
  <2> QED
    BY <2>1, <2>2, <2>3 DEF Init, TypeOK, DispatcherPC, Accepting
<1>2. TypeOK /\ [Next]_vars => TypeOK'
  <2> SUFFICES ASSUME TypeOK, [Next]_vars PROVE TypeOK'
    OBVIOUS
  <2> USE ConstantsAssumption DEF TypeOK, Alive, Accepting
  <2>1. ASSUME NEW t \in Tickets, NEW v \in Triples, ColdAdmit(t, v) PROVE TypeOK'
    BY <2>1, NewEntryType, SpawnType DEF ColdAdmit
  <2>2. CASE OpenGate
    BY <2>2 DEF OpenGate, taskVars
  <2>3. ASSUME NEW w \in Webhook, Deliver(w) PROVE TypeOK'
    BY <2>3 DEF Deliver, taskVars
  <2>4. CASE Receive
    <3>1. Head(channel) \in Webhook /\ Tail(channel) \in Seq(Webhook)
      BY <2>4 DEF Receive
    <3>2. Len(Tail(channel)) <= ChannelCap
      BY <2>4 DEF Receive
    <3>3. /\ Head(channel).ticket \in Tickets
          /\ Head(channel).payload # Rejected => Head(channel).payload \in Triples
      BY <3>1 DEF Webhook
    <3> QED
      BY <2>4, <3>1, <3>2, <3>3 DEF Receive, DispatcherPC, taskVars
  <2>5. CASE RejSnapshot
    BY <2>5 DEF RejSnapshot, DispatcherPC, taskVars, GoTo, Webhook, Cached
  <2>6. CASE RejFlag
    BY <2>6, FlagWrites DEF RejFlag, DispatcherPC, taskVars, GoTo, Webhook
  <2>7. CASE RejEscalation
    BY <2>7 DEF RejEscalation, DispatcherPC, taskVars, GoTo, Webhook
  <2>8. CASE RejLookup
    BY <2>8 DEF RejLookup, DispatcherPC, taskVars, GoTo, Webhook
  <2>9. CASE RejEvict
    BY <2>9 DEF RejEvict, DispatcherPC, taskVars, GoTo, Webhook, Remove
  <2>10. CASE RejStore
    BY <2>10 DEF RejStore, DispatcherPC, taskVars, GoTo, Webhook
  <2>11. CASE RejEscalation2
    BY <2>11 DEF RejEscalation2, DispatcherPC, taskVars, GoTo, Webhook
  <2>12. CASE AccSnapshot
    BY <2>12 DEF AccSnapshot, DispatcherPC, taskVars, GoTo, Webhook, Cached
  <2>13. CASE AccClear
    BY <2>13, FlagWrites DEF AccClear, DispatcherPC, taskVars, GoTo, Webhook
  <2>14. CASE AccRead
    BY <2>14 DEF AccRead, DispatcherPC, taskVars, GoTo, Webhook, Cached
  <2>15. CASE AccWrite
    <3>1. msg.ticket \in Tickets /\ msg.payload \in Triples
      BY <2>15 DEF AccWrite, Webhook
    <3>2. Cached(msg.ticket) =>
            [cache[msg.ticket] EXCEPT !.triple = msg.payload] \in Entry
      <4>1. Cached(msg.ticket) => cache[msg.ticket] \in Entry
        BY <3>1 DEF Cached
      <4>2. \A y \in Entry : [y EXCEPT !.triple = msg.payload] \in Entry
        BY <3>1 DEF Entry
      <4> QED
        BY <4>1, <4>2
    <3>3. cache' \in [Tickets -> Entry \cup {NoEntry}]
      <4>1. CASE Cached(msg.ticket)
        BY <2>15, <3>1, <3>2, <4>1 DEF AccWrite
      <4>2. CASE ~Cached(msg.ticket)
        <5>1. NewEntry(msg.payload) \in Entry
          BY <3>1, NewEntryType
        <5> QED
          BY <2>15, <3>1, <4>2, <5>1 DEF AccWrite
      <4> QED
        BY <4>1, <4>2
    <3> QED
      BY <2>15, <3>1, <3>3 DEF AccWrite, GoTo, DispatcherPC, taskVars
  <2>16. CASE AccStore
    BY <2>16 DEF AccStore, DispatcherPC, taskVars, GoTo, Webhook
  <2>17. CASE AccRouteSpawn
    BY <2>17, SpawnType DEF AccRouteSpawn, DispatcherPC, taskVars, GoTo, Webhook
  <2>18. CASE AccRouteSend
    BY <2>18 DEF AccRouteSend, DispatcherPC, taskVars, GoTo, Webhook, Open, InboxCap
  <2>19. CASE AccRecheck
    BY <2>19, FlagWrites DEF AccRecheck, DispatcherPC, taskVars, GoTo, Webhook
  <2>20. ASSUME NEW k \in TaskIds, TaskReceive(k) PROVE TypeOK'
    BY <2>20 DEF TaskReceive, Step, TaskPC, InboxCap
  <2>21. ASSUME NEW k \in TaskIds, TaskEvaluate(k) PROVE TypeOK'
    BY <2>21 DEF TaskEvaluate, Step, TaskPC, Cached, Targets, Entry
  <2>22. ASSUME NEW k \in TaskIds, TaskMark(k) PROVE TypeOK'
    BY <2>22, FlagWrites DEF TaskMark, Step, TaskPC
  <2>23. ASSUME NEW k \in TaskIds, TaskClear(k) PROVE TypeOK'
    BY <2>23, FlagWrites DEF TaskClear, Step, TaskPC
  <2>24. ASSUME NEW k \in TaskIds, TaskTakeEvict(k) PROVE TypeOK'
    BY <2>24, FlagWrites DEF TaskTakeEvict, Step, TaskPC
  <2>25. ASSUME NEW k \in TaskIds, TaskTakeRecheck(k) PROVE TypeOK'
    BY <2>25, FlagWrites DEF TaskTakeRecheck, Step, TaskPC, Targets
  <2>26. ASSUME NEW k \in TaskIds, TaskResend(k) PROVE TypeOK'
    BY <2>26 DEF TaskResend, Step, TaskPC, InboxCap, Cached
  <2>27. ASSUME NEW k \in TaskIds, TaskEvict(k) PROVE TypeOK'
    BY <2>27 DEF TaskEvict, Step, TaskPC, Remove
  <2>28. ASSUME NEW k \in TaskIds, TaskEvictStore(k) PROVE TypeOK'
    BY <2>28 DEF TaskEvictStore, Step, TaskPC
  <2>29. ASSUME NEW k \in TaskIds, TaskEvictEscalation(k) PROVE TypeOK'
    BY <2>29 DEF TaskEvictEscalation, Step, TaskPC
  <2>30. ASSUME NEW k \in TaskIds, TaskExit(k) PROVE TypeOK'
    BY <2>30 DEF TaskExit, Step, TaskPC, InboxCap, Targets
  <2>31. ASSUME NEW k \in TaskIds, CycleEnd(k) PROVE TypeOK'
    BY <2>31 DEF CycleEnd, Step, TaskPC
  <2>32. CASE UNCHANGED vars
    BY <2>32 DEF vars, taskVars
  <2> QED
    BY <2>1, <2>2, <2>3, <2>4, <2>5, <2>6, <2>7, <2>8, <2>9, <2>10, <2>11, <2>12, <2>13, <2>14, <2>15, <2>16, <2>17, <2>18, <2>19, <2>20, <2>21, <2>22, <2>23, <2>24, <2>25, <2>26, <2>27, <2>28, <2>29, <2>30, <2>31, <2>32
    DEF Next, Dispatcher, TaskStep, Rest
<1> QED
  BY <1>1, <1>2, PTL DEF Spec

-----------------------------------------------------------------------------
(* What the operations do to the facts the invariant is about. *)

(* The flags of a revocation or a recheck leave the cycle flag alone. *)
LEMMA PendingFlags ==
  ASSUME cache \in [Tickets -> Entry \cup {NoEntry}],
         NEW t \in Tickets, NEW b \in BOOLEAN, SetRecheck(t, b) \/ SetEvict(t, b)
  PROVE  \A u \in Tickets : (Cached(u)' <=> Cached(u)) /\ (InFlight(u)' <=> InFlight(u))
<1>1. CASE ~Cached(t)
  BY <1>1 DEF SetRecheck, SetEvict, Cached, InFlight
<1>2. CASE Cached(t)
  <2>1. cache[t] \in Entry
    BY <1>2 DEF Cached
  <2>2. \A e \in {[cache[t] EXCEPT !.recheck = b], [cache[t] EXCEPT !.evict = b]} :
          e \in Entry /\ e.cycle = cache[t].cycle
    BY <2>1 DEF Entry
  <2>3. /\ \A u \in Tickets \ {t} : cache'[u] = cache[u]
        /\ cache'[t] \in Entry /\ cache'[t].cycle = cache[t].cycle
    BY <1>2, <2>2 DEF SetRecheck, SetEvict
  <2> QED
    BY <1>2, <2>3, ConstantsAssumption DEF Cached, InFlight
<1> QED
  BY <1>1, <1>2

(* set_cycle_id and clear_cycle_id move the in-flight mark of one ticket.  *)
LEMMA CycleFlag ==
  ASSUME cache \in [Tickets -> Entry \cup {NoEntry}],
         NEW t \in Tickets, NEW b \in BOOLEAN, SetCycle(t, b)
  PROVE  /\ \A u \in Tickets : Cached(u)' <=> Cached(u)
         /\ \A u \in Tickets \ {t} : InFlight(u)' <=> InFlight(u)
         /\ InFlight(t)' <=> Cached(t) /\ b
<1>1. CASE ~Cached(t)
  BY <1>1 DEF SetCycle, Cached, InFlight
<1>2. CASE Cached(t)
  <2>1. cache[t] \in Entry
    BY <1>2 DEF Cached
  <2>2. [cache[t] EXCEPT !.cycle = b] \in Entry /\ [cache[t] EXCEPT !.cycle = b].cycle = b
    BY <2>1 DEF Entry
  <2>3. /\ \A u \in Tickets \ {t} : cache'[u] = cache[u]
        /\ cache'[t] \in Entry /\ cache'[t].cycle = b
    BY <1>2, <2>2 DEF SetCycle
  <2> QED
    BY <1>2, <2>3, ConstantsAssumption DEF Cached, InFlight
<1> QED
  BY <1>1, <1>2

(* Evicting a ticket from the cache takes its in-flight mark along, and    *)
(* leaves every other ticket as it was.                                    *)
LEMMA Removal ==
  ASSUME cache \in [Tickets -> Entry \cup {NoEntry}], NEW t \in Tickets, Remove(t)
  PROVE  /\ ~Cached(t)' /\ ~InFlight(t)'
         /\ \A u \in Tickets \ {t} : (Cached(u)' <=> Cached(u)) /\ (InFlight(u)' <=> InFlight(u))
  BY DEF Remove, Cached, InFlight

(* observe on a ticket without an entry makes it cached and not in flight. *)
LEMMA Insertion ==
  ASSUME cache \in [Tickets -> Entry \cup {NoEntry}],
         NEW t \in Tickets, NEW v \in Triples,
         cache' = [cache EXCEPT ![t] = NewEntry(v)]
  PROVE  /\ Cached(t)' /\ ~InFlight(t)'
         /\ \A u \in Tickets \ {t} : (Cached(u)' <=> Cached(u)) /\ (InFlight(u)' <=> InFlight(u))
<1>1. NewEntry(v) \in Entry /\ ~NewEntry(v).cycle
  BY DEF NewEntry, Entry
<1> QED
  BY <1>1, ConstantsAssumption DEF Cached, InFlight

(* observe on a cached ticket changes its triple, not its in-flight mark.  *)
LEMMA TripleWrite ==
  ASSUME cache \in [Tickets -> Entry \cup {NoEntry}],
         NEW t \in Tickets, NEW v \in Triples, Cached(t),
         cache' = [cache EXCEPT ![t].triple = v]
  PROVE  \A u \in Tickets : (Cached(u)' <=> Cached(u)) /\ (InFlight(u)' <=> InFlight(u))
<1>1. cache[t] \in Entry
  BY DEF Cached
<1>2. /\ [cache[t] EXCEPT !.triple = v] \in Entry
      /\ [cache[t] EXCEPT !.triple = v].cycle = cache[t].cycle
  BY <1>1 DEF Entry
<1> QED
  BY <1>2, ConstantsAssumption DEF Cached, InFlight

-----------------------------------------------------------------------------
(* The inductive invariant, DispatchInv with the types, holds in every     *)
(* state: handles of live tasks are on file, the dispatcher evicts only    *)
(* tickets without one, and the in-flight marks are the truth.             *)
THEOREM Inductive == Spec => []Inv
<1>1. Init => DispatchInv
  <2> SUFFICES ASSUME Init PROVE DispatchInv
    OBVIOUS
  <2>1. \A t \in Tickets : ~InFlight(t)
    BY SeedType DEF Init, InFlight, Cached
  <2>2. \A k \in TaskIds : tpc[k] = "dead"
    BY DEF Init
  <2> QED
    BY <2>1, <2>2 DEF Init, DispatchInv, HandleOnFile, EvictsUnhandled,
       GateClosed, WorksOnCached, InFlightTracked, Executing, Alive
<1>2. TypeOK /\ TypeOK' /\ DispatchInv /\ [Next]_vars => DispatchInv'
  <2> SUFFICES ASSUME TypeOK, TypeOK', DispatchInv, [Next]_vars
               PROVE  DispatchInv'
    OBVIOUS
  <2> USE ConstantsAssumption
      DEF TypeOK, DispatchInv, HandleOnFile, EvictsUnhandled, GateClosed,
          WorksOnCached, InFlightTracked, Executing, Alive
  <2>m. dpc # "idle" => msg.ticket \in Tickets
    BY DEF Webhook
  <2>o. \A k \in TaskIds : tpc[k] # "dead" => owner[k] \in Tickets
    OBVIOUS
  <2>1. ASSUME NEW t \in Tickets, NEW v \in Triples, ColdAdmit(t, v) PROVE DispatchInv'
    <3>1. /\ Cached(t)' /\ ~InFlight(t)'
          /\ \A u \in Tickets \ {t} : (Cached(u)' <=> Cached(u)) /\ (InFlight(u)' <=> InFlight(u))
      BY <2>1, Insertion DEF ColdAdmit
    <3>2. (HandleOnFile /\ WorksOnCached)'
      <4>1. PICK k \in TaskIds :
              /\ tpc' = [tpc EXCEPT ![k] = "recv"] /\ owner' = [owner EXCEPT ![k] = t]
              /\ handle' = [handle EXCEPT ![t] = k]
        BY <2>1 DEF ColdAdmit, Spawn
      <4>2. ASSUME NEW j \in TaskIds, j # k, tpc'[j] # "dead"
            PROVE  /\ tpc'[j] = tpc[j] /\ owner'[j] = owner[j] /\ owner[j] \in Tickets
                   /\ handle[owner[j]] = j /\ owner[j] # t
        BY <2>1, <4>1, <4>2 DEF ColdAdmit
      <4>3. tpc'[k] = "recv" /\ owner'[k] = t /\ handle'[t] = k
        BY <4>1
      <4>4. HandleOnFile'
        BY <4>1, <4>2, <4>3
      <4>5. WorksOnCached'
        BY <3>1, <4>2, <4>3
      <4> QED
        BY <4>4, <4>5
    <3>3. (EvictsUnhandled /\ GateClosed)'
      BY <2>1, <3>1 DEF ColdAdmit, Spawn
    <3>4. InFlightTracked'
      BY <2>1, <3>1 DEF ColdAdmit, Spawn
    <3> QED
      BY <3>2, <3>3, <3>4
  <2>2. CASE OpenGate
    BY <2>2 DEF OpenGate, taskVars, Cached, InFlight
  <2>3. ASSUME NEW w \in Webhook, Deliver(w) PROVE DispatchInv'
    BY <2>3 DEF Deliver, taskVars, Cached, InFlight
  <2>4. CASE Receive
    BY <2>4 DEF Receive, taskVars, Cached, InFlight
  <2>5. CASE RejSnapshot
    BY <2>5 DEF RejSnapshot, taskVars, GoTo, Cached, InFlight
  <2>6. CASE RejFlag
    BY <2>6, <2>m, PendingFlags DEF RejFlag, taskVars, GoTo
  <2>7. CASE RejEscalation
    BY <2>7 DEF RejEscalation, taskVars, GoTo, Cached, InFlight
  <2>8. CASE RejLookup
    BY <2>8 DEF RejLookup, taskVars, GoTo, Cached, InFlight
  <2>9. CASE RejEvict
    <3>1. PICK t \in Tickets : t = msg.ticket
      BY <2>9, <2>m DEF RejEvict
    <3>2. /\ UNCHANGED <<serving, channel, handle, tpc, owner>>
          /\ dpc' = "rejStore"
          /\ handle[t] = NoTask
      BY <2>9, <3>1 DEF RejEvict, taskVars, GoTo
    <3>3. /\ ~Cached(t)' /\ ~InFlight(t)'
          /\ \A u \in Tickets \ {t} :
               (Cached(u)' <=> Cached(u)) /\ (InFlight(u)' <=> InFlight(u))
      BY <2>9, <3>1, Removal DEF RejEvict
    <3>4. \A k \in TaskIds : tpc[k] # "dead" => owner[k] # t
      BY <3>2
    <3>5. HandleOnFile' /\ EvictsUnhandled' /\ GateClosed'
      BY <2>9, <3>2 DEF RejEvict
    <3>6. WorksOnCached'
      BY <2>o, <3>2, <3>3, <3>4
    <3>7. InFlightTracked'
      <4>1. \A l \in TaskIds : Executing(l)' <=> Executing(l)
        BY <3>2
      <4> QED
        BY <3>2, <3>3, <3>4, <4>1
    <3> QED
      BY <3>5, <3>6, <3>7
  <2>10. CASE RejStore
    BY <2>10 DEF RejStore, taskVars, GoTo, Cached, InFlight
  <2>11. CASE RejEscalation2
    BY <2>11 DEF RejEscalation2, taskVars, GoTo, Cached, InFlight
  <2>12. CASE AccSnapshot
    BY <2>12 DEF AccSnapshot, taskVars, GoTo, Cached, InFlight
  <2>13. CASE AccClear
    BY <2>13, <2>m, PendingFlags DEF AccClear, taskVars, GoTo
  <2>14. CASE AccRead
    BY <2>14 DEF AccRead, taskVars, GoTo, Cached, InFlight
  <2>15. CASE AccWrite
    <3>1. PICK t \in Tickets : t = msg.ticket
      BY <2>15, <2>m DEF AccWrite
    <3>2. /\ UNCHANGED <<serving, channel, handle, tpc, owner>>
          /\ dpc = "accWrite" /\ dpc' # "rejEvict" /\ msg.payload \in Triples
      BY <2>15 DEF AccWrite, taskVars, GoTo, Accepting
    <3>3. HandleOnFile' /\ EvictsUnhandled' /\ GateClosed'
      BY <3>2
    <3>4. \A l \in TaskIds : Executing(l)' <=> Executing(l)
      BY <3>2
    <3>5. CASE Cached(t)
      <4>1. \A u \in Tickets :
              (Cached(u)' <=> Cached(u)) /\ (InFlight(u)' <=> InFlight(u))
        <5>1. PICK v \in Triples : cache' = [cache EXCEPT ![t].triple = v]
          BY <2>15, <3>1, <3>2, <3>5 DEF AccWrite
        <5> QED
          BY <3>5, <5>1, TripleWrite
      <4>2. WorksOnCached'
        BY <2>o, <3>2, <4>1
      <4>3. InFlightTracked'
        BY <3>2, <3>4, <4>1
      <4> QED
        BY <3>3, <4>2, <4>3
    <3>6. CASE ~Cached(t)
      <4>1. /\ Cached(t)' /\ ~InFlight(t)'
            /\ \A u \in Tickets \ {t} :
                 (Cached(u)' <=> Cached(u)) /\ (InFlight(u)' <=> InFlight(u))
        BY <2>15, <3>1, <3>2, <3>6, Insertion DEF AccWrite
      <4>2. WorksOnCached'
        <5>1. \A u \in Tickets : Cached(u) => Cached(u)'
          BY <4>1
        <5> QED
          BY <2>o, <3>2, <5>1
      <4>3. \A l \in TaskIds : Executing(l) => owner[l] # t
        BY <3>6
      <4>4. InFlightTracked'
        BY <3>2, <3>4, <4>1, <4>3
      <4> QED
        BY <3>3, <4>2, <4>4
    <3> QED
      BY <3>5, <3>6
  <2>16. CASE AccStore
    BY <2>16 DEF AccStore, taskVars, GoTo, Cached, InFlight
  <2>17. CASE AccRouteSpawn
    BY <2>17, <2>m DEF AccRouteSpawn, taskVars, GoTo, Spawn, Open, Cached, InFlight
  <2>18. CASE AccRouteSend
    BY <2>18 DEF AccRouteSend, taskVars, GoTo, Cached, InFlight
  <2>19. CASE AccRecheck
    BY <2>19, <2>m, PendingFlags DEF AccRecheck, taskVars, GoTo
  <2>20. ASSUME NEW k \in TaskIds, TaskReceive(k) PROVE DispatchInv'
    BY <2>20 DEF TaskReceive, Step, Cached, InFlight
  <2>21. ASSUME NEW k \in TaskIds, TaskEvaluate(k) PROVE DispatchInv'
    <3>1. /\ UNCHANGED <<serving, channel, dpc, msg, handle, owner>>
          /\ tpc[k] = "snapshot" /\ owner[k] \in Tickets
          /\ \E pc \in {"recv", "mark"} : tpc' = [tpc EXCEPT ![k] = pc] /\ (pc = "mark" => Cached(owner[k]))
      BY <2>21, <2>o DEF TaskEvaluate, Step
    <3>2. \A u \in Tickets : (Cached(u)' <=> Cached(u)) /\ (InFlight(u)' <=> InFlight(u))
      BY <2>21, <3>1 DEF TaskEvaluate, Cached, InFlight
    <3>3. HandleOnFile' /\ EvictsUnhandled' /\ GateClosed'
      BY <3>1
    <3>4. WorksOnCached'
      BY <2>o, <3>1, <3>2
    <3>5. InFlightTracked'
      BY <2>o, <3>1, <3>2
    <3> QED
      BY <3>3, <3>4, <3>5
  <2>22. ASSUME NEW k \in TaskIds, TaskMark(k) PROVE DispatchInv'
    <3>1. /\ UNCHANGED <<serving, channel, dpc, msg, handle, owner>>
          /\ tpc[k] = "mark" /\ owner[k] \in Tickets
          /\ tpc' = [tpc EXCEPT ![k] = "running"]
      BY <2>22, <2>o DEF TaskMark, Step
    <3>2. /\ \A u \in Tickets : Cached(u)' <=> Cached(u)
          /\ \A u \in Tickets \ {owner[k]} : InFlight(u)' <=> InFlight(u)
          /\ InFlight(owner[k])' <=> Cached(owner[k])
      BY <2>22, <3>1, CycleFlag DEF TaskMark
    <3>3. HandleOnFile' /\ EvictsUnhandled' /\ GateClosed'
      BY <3>1
    <3>4. WorksOnCached'
      BY <2>o, <3>1, <3>2
    <3>5. InFlightTracked'
      BY <2>o, <3>1, <3>2
    <3> QED
      BY <3>3, <3>4, <3>5
  <2>23. ASSUME NEW k \in TaskIds, TaskClear(k) PROVE DispatchInv'
    <3>1. /\ UNCHANGED <<serving, channel, dpc, msg, handle, owner>>
          /\ tpc[k] = "clear" /\ owner[k] \in Tickets
          /\ \E pc \in {"evict", "takeEvict"} : tpc' = [tpc EXCEPT ![k] = pc]
      BY <2>23, <2>o DEF TaskClear, Step
    <3>2. /\ \A u \in Tickets : Cached(u)' <=> Cached(u)
          /\ \A u \in Tickets \ {owner[k]} : InFlight(u)' <=> InFlight(u)
          /\ InFlight(owner[k])' <=> FALSE
      BY <2>23, <3>1, CycleFlag DEF TaskClear
    <3>3. HandleOnFile' /\ EvictsUnhandled' /\ GateClosed'
      BY <3>1
    <3>4. WorksOnCached'
      BY <2>o, <3>1, <3>2
    <3>5. InFlightTracked'
      <4>1. \A l \in TaskIds : Executing(l)' <=> Executing(l) /\ l # k
        BY <3>1
      <4>2. \A l \in TaskIds : Executing(l) /\ owner[l] = owner[k] => l = k
        <5>1. \A l \in TaskIds : tpc[l] # "dead" => handle[owner[l]] = l
          OBVIOUS
        <5>2. \A l \in TaskIds : Executing(l) => tpc[l] # "dead"
          OBVIOUS
        <5> HIDE DEF TypeOK, DispatchInv, HandleOnFile
        <5> QED
          BY <3>1, <5>1, <5>2
      <4>3. \A t \in Tickets \ {owner[k]} :
              InFlight(t)' <=> \E l \in TaskIds : owner[l] = t /\ Executing(l)'
        BY <3>2, <4>1
      <4> QED
        BY <3>1, <3>2, <4>1, <4>2, <4>3
    <3> QED
      BY <3>3, <3>4, <3>5
  <2>24. ASSUME NEW k \in TaskIds, TaskTakeEvict(k) PROVE DispatchInv'
    <3>1. /\ UNCHANGED <<serving, channel, dpc, msg, handle, owner>>
          /\ tpc[k] = "takeEvict" /\ owner[k] \in Tickets
          /\ \E pc \in {"evict", "takeRecheck"} : tpc' = [tpc EXCEPT ![k] = pc]
      BY <2>24, <2>o DEF TaskTakeEvict, Step
    <3>2. \A u \in Tickets : (Cached(u)' <=> Cached(u)) /\ (InFlight(u)' <=> InFlight(u))
      BY <2>24, <3>1, PendingFlags DEF TaskTakeEvict
    <3>3. HandleOnFile' /\ EvictsUnhandled' /\ GateClosed'
      BY <3>1
    <3>4. WorksOnCached'
      BY <2>o, <3>1, <3>2
    <3>5. InFlightTracked'
      <4>1. \A l \in TaskIds : Executing(l)' <=> Executing(l)
        BY <3>1
      <4> QED
        BY <3>1, <3>2, <4>1
    <3> QED
      BY <3>3, <3>4, <3>5
  <2>25. ASSUME NEW k \in TaskIds, TaskTakeRecheck(k) PROVE DispatchInv'
    <3>1. /\ UNCHANGED <<serving, channel, dpc, msg, handle, owner>>
          /\ tpc[k] = "takeRecheck" /\ owner[k] \in Tickets
          /\ \E pc \in {"resend", "recv"} : tpc' = [tpc EXCEPT ![k] = pc]
      BY <2>25, <2>o DEF TaskTakeRecheck, Step
    <3>2. \A u \in Tickets : (Cached(u)' <=> Cached(u)) /\ (InFlight(u)' <=> InFlight(u))
      BY <2>25, <3>1, PendingFlags DEF TaskTakeRecheck
    <3>3. HandleOnFile' /\ EvictsUnhandled' /\ GateClosed'
      BY <3>1
    <3>4. WorksOnCached'
      BY <2>o, <3>1, <3>2
    <3>5. InFlightTracked'
      <4>1. \A l \in TaskIds : Executing(l)' <=> Executing(l)
        BY <3>1
      <4> QED
        BY <3>1, <3>2, <4>1
    <3> QED
      BY <3>3, <3>4, <3>5
  <2>26. ASSUME NEW k \in TaskIds, TaskResend(k) PROVE DispatchInv'
    <3>1. /\ UNCHANGED <<serving, channel, dpc, msg, handle, owner>>
          /\ tpc[k] = "resend" /\ owner[k] \in Tickets
          /\ tpc' = [tpc EXCEPT ![k] = "recv"]
      BY <2>26, <2>o DEF TaskResend, Step
    <3>2. \A u \in Tickets : (Cached(u)' <=> Cached(u)) /\ (InFlight(u)' <=> InFlight(u))
      BY <2>26, <3>1 DEF TaskResend, Cached, InFlight
    <3>3. HandleOnFile' /\ EvictsUnhandled' /\ GateClosed'
      BY <3>1
    <3>4. WorksOnCached'
      BY <2>o, <3>1, <3>2
    <3>5. InFlightTracked'
      BY <2>o, <3>1, <3>2
    <3> QED
      BY <3>3, <3>4, <3>5
  <2>27. ASSUME NEW k \in TaskIds, TaskEvict(k) PROVE DispatchInv'
    <3>1. /\ UNCHANGED <<serving, channel, dpc, msg, handle, owner>>
          /\ tpc[k] = "evict" /\ owner[k] \in Tickets
          /\ tpc' = [tpc EXCEPT ![k] = "evictStore"]
      BY <2>27, <2>o DEF TaskEvict, Step
    <3>2. /\ ~Cached(owner[k])' /\ ~InFlight(owner[k])'
          /\ \A u \in Tickets \ {owner[k]} : (Cached(u)' <=> Cached(u)) /\ (InFlight(u)' <=> InFlight(u))
      BY <2>27, <3>1, Removal DEF TaskEvict
    <3>3. HandleOnFile' /\ EvictsUnhandled' /\ GateClosed'
      BY <3>1
    <3>4. WorksOnCached'
      BY <2>o, <3>1, <3>2
    <3>5. InFlightTracked'
      <4>1. \A l \in TaskIds : Executing(l)' <=> Executing(l)
        BY <3>1
      <4>2. handle[owner[k]] = k /\ ~Executing(k)
        BY <3>1
      <4>3. ASSUME NEW l \in TaskIds, Executing(l) PROVE owner[l] # owner[k]
        <5>1. handle[owner[l]] = l
          BY <4>3
        <5> QED
          BY <4>2, <4>3, <5>1
      <4> QED
        BY <3>1, <3>2, <4>1, <4>3
    <3> QED
      BY <3>3, <3>4, <3>5
  <2>28. ASSUME NEW k \in TaskIds, TaskEvictStore(k) PROVE DispatchInv'
    <3>1. /\ UNCHANGED <<serving, channel, dpc, msg, cache, handle, owner>>
          /\ tpc[k] = "evictStore" /\ tpc' = [tpc EXCEPT ![k] = "evictEscalation"]
      BY <2>28 DEF TaskEvictStore, Step
    <3>2. \A u \in Tickets : (Cached(u)' <=> Cached(u)) /\ (InFlight(u)' <=> InFlight(u))
      BY <3>1 DEF Cached, InFlight
    <3>3. HandleOnFile' /\ EvictsUnhandled' /\ GateClosed'
      BY <3>1
    <3>4. WorksOnCached'
      BY <2>o, <3>1, <3>2
    <3>5. \A l \in TaskIds : Executing(l)' <=> Executing(l)
      BY <3>1
    <3>6. InFlightTracked'
      BY <3>1, <3>2, <3>5
    <3> QED
      BY <3>3, <3>4, <3>6
  <2>29. ASSUME NEW k \in TaskIds, TaskEvictEscalation(k) PROVE DispatchInv'
    <3>1. /\ UNCHANGED <<serving, channel, dpc, msg, cache, handle, owner>>
          /\ tpc[k] = "evictEscalation" /\ tpc' = [tpc EXCEPT ![k] = "exit"]
      BY <2>29 DEF TaskEvictEscalation, Step
    <3>2. \A u \in Tickets : (Cached(u)' <=> Cached(u)) /\ (InFlight(u)' <=> InFlight(u))
      BY <3>1 DEF Cached, InFlight
    <3>3. HandleOnFile' /\ EvictsUnhandled' /\ GateClosed'
      BY <3>1
    <3>4. WorksOnCached'
      BY <2>o, <3>1, <3>2
    <3>5. \A l \in TaskIds : Executing(l)' <=> Executing(l)
      BY <3>1
    <3>6. InFlightTracked'
      BY <3>1, <3>2, <3>5
    <3> QED
      BY <3>3, <3>4, <3>6
  <2>30. ASSUME NEW k \in TaskIds, TaskExit(k) PROVE DispatchInv'
    <3>1. /\ UNCHANGED <<serving, channel, dpc, msg, cache, handle, owner>>
          /\ tpc[k] = "exit" /\ tpc' = [tpc EXCEPT ![k] = "dead"]
      BY <2>30 DEF TaskExit, Step
    <3>2. \A u \in Tickets : (Cached(u)' <=> Cached(u)) /\ (InFlight(u)' <=> InFlight(u))
      BY <3>1 DEF Cached, InFlight
    <3>3. HandleOnFile' /\ EvictsUnhandled' /\ GateClosed'
      BY <3>1
    <3>4. WorksOnCached'
      BY <2>o, <3>1, <3>2
    <3>5. \A l \in TaskIds : Executing(l)' <=> Executing(l)
      BY <3>1
    <3>6. InFlightTracked'
      BY <3>1, <3>2, <3>5
    <3> QED
      BY <3>3, <3>4, <3>6
  <2>31. ASSUME NEW k \in TaskIds, CycleEnd(k) PROVE DispatchInv'
    BY <2>31 DEF CycleEnd, Step, Cached, InFlight
  <2>32. CASE UNCHANGED vars
    BY <2>32 DEF vars, taskVars, Cached, InFlight
  <2> QED
    BY <2>1, <2>2, <2>3, <2>4, <2>5, <2>6, <2>7, <2>8, <2>9, <2>10, <2>11,
       <2>12, <2>13, <2>14, <2>15, <2>16, <2>17, <2>18, <2>19, <2>20, <2>21,
       <2>22, <2>23, <2>24, <2>25, <2>26, <2>27, <2>28, <2>29, <2>30, <2>31,
       <2>32
    DEF Next, Dispatcher, TaskStep, Rest
<1> QED
  BY <1>1, <1>2, TypeCorrect, PTL DEF Spec, Inv

-----------------------------------------------------------------------------
(* Single flight, the first consequence of the inductive invariant: two    *)
(* live tasks of one ticket would both be its handle.                      *)
THEOREM SingleFlightHolds == Spec => []SingleFlight
<1>1. Inv => SingleFlight
  BY DEF Inv, DispatchInv, HandleOnFile, SingleFlight
<1> QED
  BY <1>1, Inductive, PTL

(* The cycle_id in the cache is the truth about the ticket's task.         *)
THEOREM InFlightTrackedHolds == Spec => []InFlightTracked
<1>1. Inv => InFlightTracked
  BY DEF Inv, DispatchInv
<1> QED
  BY <1>1, Inductive, PTL

-----------------------------------------------------------------------------
(* The refinement of TicketLifecycle.                                      *)

(* What a step must keep to be a stutter of the lifecycle. *)
SameTracked == \A u \in Tickets : Cached(u)' <=> Cached(u)
SameRunning ==
  \A l \in TaskIds, u \in Tickets :
    owner'[l] = u /\ tpc'[l] = "running" <=> owner[l] = u /\ tpc[l] = "running"

(* A step that leaves the cached tickets alone leaves Tracked alone.       *)
LEMMA TrackedKept == SameTracked => Tracked' = Tracked
  BY DEF SameTracked, Tracked

(* A step that moves no task into or out of a cycle leaves Running alone.  *)
LEMMA RunningKept == SameRunning => Running' = Running
  BY DEF SameRunning, Running

(* The only task that may run a cycle for the ticket of a live task. *)
LEMMA SoleWorker ==
  ASSUME Inv, NEW k \in TaskIds, Alive(k)
  PROVE  /\ owner[k] \in Tickets
         /\ Running[owner[k]] = IF tpc[k] = "running" THEN {k} ELSE {}
<1>1. owner[k] \in Tickets /\ handle[owner[k]] = k
  BY DEF Inv, TypeOK, DispatchInv, HandleOnFile
<1>2. \A l \in TaskIds : owner[l] = owner[k] /\ tpc[l] = "running" => l = k
  BY <1>1 DEF Inv, DispatchInv, HandleOnFile, Alive
<1> QED
  BY <1>1, <1>2 DEF Running

(* Every step of the dispatch core is a lifecycle step or a stutter. *)
LEMMA LifecycleStep ==
  ASSUME Inv, Inv', [Next]_vars
  PROVE  [Lifecycle!Next]_(Lifecycle!vars)
<1> USE ConstantsAssumption
<1>t. /\ cache \in [Tickets -> Entry \cup {NoEntry}]
      /\ tpc \in [TaskIds -> TaskPC]
      /\ owner \in [TaskIds -> Tickets \cup {NoTicket}]
      /\ dpc # "idle" => msg.ticket \in Tickets
      /\ dpc \in Accepting => msg.payload \in Triples
      /\ \A k \in TaskIds : Alive(k) => owner[k] \in Tickets
  BY DEF Inv, TypeOK, Webhook
<1>s. ASSUME SameTracked, SameRunning PROVE UNCHANGED Lifecycle!vars
  BY <1>s, TrackedKept, RunningKept DEF Lifecycle!vars
<1>1. ASSUME NEW t \in Tickets, NEW v \in Triples, ColdAdmit(t, v)
      PROVE  [Lifecycle!Next]_(Lifecycle!vars)
  <2>1. Tracked' = Tracked \cup {t}
    BY <1>1, <1>t, Insertion DEF ColdAdmit, Tracked
  <2>2. SameRunning
    BY <1>1, <1>t DEF ColdAdmit, Spawn, SameRunning, Alive
  <2>3. CASE t \in Tracked
    <3>1. Tracked' = Tracked
      BY <2>1, <2>3
    <3> QED
      BY <2>2, <3>1, RunningKept DEF Lifecycle!vars
  <2>4. CASE t \notin Tracked
    BY <2>1, <2>2, <2>4, RunningKept DEF Lifecycle!Next, Lifecycle!Track
  <2> QED
    BY <2>3, <2>4
<1>2. CASE OpenGate \/ \E w \in Webhook : Deliver(w)
  BY <1>2, <1>s DEF OpenGate, Deliver, taskVars, SameTracked, SameRunning, Cached
<1>3. CASE Receive \/ RejSnapshot \/ RejEscalation \/ RejLookup \/ RejStore
           \/ RejEscalation2 \/ AccSnapshot \/ AccRead \/ AccStore
  BY <1>3, <1>s DEF Receive, RejSnapshot, RejEscalation, RejLookup, RejStore,
     RejEscalation2, AccSnapshot, AccRead, AccStore, taskVars, SameTracked,
     SameRunning, Cached
<1>4. CASE RejFlag \/ AccClear \/ AccRecheck
  <2>1. SameTracked
    BY <1>4, <1>t, PendingFlags DEF RejFlag, AccClear, AccRecheck, SameTracked
  <2>2. SameRunning
    BY <1>4 DEF RejFlag, AccClear, AccRecheck, taskVars, SameRunning
  <2> QED
    BY <2>1, <2>2, <1>s
<1>5. CASE AccRouteSpawn \/ AccRouteSend
  <2>1. SameTracked
    BY <1>5 DEF AccRouteSpawn, AccRouteSend, SameTracked, Cached
  <2>2. SameRunning
    BY <1>5, <1>t DEF AccRouteSpawn, AccRouteSend, Spawn, SameRunning, Alive
  <2> QED
    BY <2>1, <2>2, <1>s
<1>6. CASE RejEvict
  <2>1. PICK t \in Tickets : t = msg.ticket
    BY <1>6, <1>t DEF RejEvict
  <2>2. SameRunning
    BY <1>6 DEF RejEvict, taskVars, SameRunning
  <2>3. Tracked' = Tracked \ {t}
    BY <1>6, <2>1, <1>t, Removal DEF RejEvict, Tracked
  <2>4. Running[t] = {}
    BY <1>6, <2>1 DEF RejEvict, Running, Inv, DispatchInv, HandleOnFile,
       EvictsUnhandled, Alive
  <2>5. CASE t \in Tracked
    BY <2>2, <2>3, <2>4, <2>5, RunningKept DEF Lifecycle!Next, Lifecycle!Untrack
  <2>6. CASE t \notin Tracked
    BY <2>2, <2>3, <2>6, RunningKept DEF Lifecycle!vars
  <2> QED
    BY <2>5, <2>6
<1>7. CASE AccWrite
  <2>1. PICK t \in Tickets : t = msg.ticket
    BY <1>7, <1>t DEF AccWrite
  <2>2. SameRunning
    BY <1>7 DEF AccWrite, taskVars, SameRunning
  <2>3. CASE Cached(t)
    <3>1. PICK v \in Triples : cache' = [cache EXCEPT ![t].triple = v]
      BY <1>7, <1>t, <2>1, <2>3 DEF AccWrite, Accepting
    <3>2. SameTracked
      BY <1>t, <2>3, <3>1, TripleWrite DEF SameTracked
    <3> QED
      BY <2>2, <3>2, <1>s
  <2>4. CASE ~Cached(t)
    <3>1. PICK v \in Triples : cache' = [cache EXCEPT ![t] = NewEntry(v)]
      BY <1>7, <1>t, <2>1, <2>4 DEF AccWrite, Accepting
    <3>2. Tracked' = Tracked \cup {t} /\ t \notin Tracked
      BY <1>t, <2>4, <3>1, Insertion DEF Tracked
    <3> QED
      BY <2>2, <3>2, RunningKept DEF Lifecycle!Next, Lifecycle!Track
  <2> QED
    BY <2>3, <2>4
<1>8. ASSUME NEW k \in TaskIds,
             \/ TaskReceive(k) \/ TaskEvaluate(k) \/ TaskResend(k)
             \/ TaskEvictStore(k) \/ TaskEvictEscalation(k) \/ TaskExit(k)
      PROVE  [Lifecycle!Next]_(Lifecycle!vars)
  <2>1. SameTracked
    BY <1>8 DEF TaskReceive, TaskEvaluate, TaskResend, TaskEvictStore,
       TaskEvictEscalation, TaskExit, SameTracked, Cached
  <2>2. SameRunning
    BY <1>8, <1>t DEF TaskReceive, TaskEvaluate, TaskResend, TaskEvictStore,
       TaskEvictEscalation, TaskExit, Step, SameRunning
  <2> QED
    BY <2>1, <2>2, <1>s
<1>9. ASSUME NEW k \in TaskIds, TaskTakeEvict(k) \/ TaskTakeRecheck(k) \/ TaskClear(k)
      PROVE  [Lifecycle!Next]_(Lifecycle!vars)
  <2>1. owner[k] \in Tickets
    BY <1>9, <1>t DEF TaskTakeEvict, TaskTakeRecheck, TaskClear, Step, Alive
  <2>2. SameTracked
    BY <1>9, <1>t, <2>1, PendingFlags, CycleFlag
    DEF TaskTakeEvict, TaskTakeRecheck, TaskClear, SameTracked
  <2>3. SameRunning
    BY <1>9, <1>t DEF TaskTakeEvict, TaskTakeRecheck, TaskClear, Step, SameRunning
  <2> QED
    BY <2>2, <2>3, <1>s
<1>10. ASSUME NEW k \in TaskIds, TaskMark(k)
       PROVE  [Lifecycle!Next]_(Lifecycle!vars)
  <2>1. PICK t \in Tickets : t = owner[k]
    BY <1>10, <1>t DEF TaskMark, Step, Alive
  <2>2. tpc[k] = "mark" /\ owner' = owner /\ tpc' = [tpc EXCEPT ![k] = "running"]
    BY <1>10 DEF TaskMark, Step
  <2>3. Running[t] = {}
    BY <2>1, <2>2, SoleWorker DEF Alive
  <2>4. Running' = [Running EXCEPT ![t] = {k}]
    <3> DEFINE On(u) == {l \in TaskIds : owner[l] = u /\ tpc[l] = "running"}
               After(u) == {l \in TaskIds : owner[l] = u /\ tpc'[l] = "running"}
    <3>1. \A u \in Tickets \ {t} : After(u) = On(u)
      BY <1>t, <2>1, <2>2
    <3>2. On(t) = Running[t] /\ After(t) = {k}
      BY <1>t, <2>1, <2>2, <2>3 DEF Running
    <3>3. Running = [u \in Tickets |-> On(u)] /\ Running' = [u \in Tickets |-> After(u)]
      BY <2>2 DEF Running
    <3> HIDE DEF On, After
    <3> QED
      BY <3>1, <3>2, <3>3
  <2>5. SameTracked
    BY <1>10, <1>t, <2>1, CycleFlag DEF TaskMark, SameTracked
  <2>6. t \in Tracked
    BY <2>1, <2>2 DEF Inv, DispatchInv, WorksOnCached, Tracked
  <2> QED
    BY <2>3, <2>4, <2>5, <2>6, TrackedKept DEF Lifecycle!Next, Lifecycle!Start
<1>11. ASSUME NEW k \in TaskIds, CycleEnd(k)
       PROVE  [Lifecycle!Next]_(Lifecycle!vars)
  <2>1. PICK t \in Tickets : t = owner[k]
    BY <1>11, <1>t DEF CycleEnd, Step, Alive
  <2>2. tpc[k] = "running" /\ owner' = owner /\ tpc' = [tpc EXCEPT ![k] = "clear"]
    BY <1>11 DEF CycleEnd, Step
  <2>3. Running[t] = {k}
    BY <2>1, <2>2, SoleWorker DEF Alive
  <2>4. Running' = [Running EXCEPT ![t] = {}]
    <3> DEFINE On(u) == {l \in TaskIds : owner[l] = u /\ tpc[l] = "running"}
               After(u) == {l \in TaskIds : owner[l] = u /\ tpc'[l] = "running"}
    <3>1. \A u \in Tickets \ {t} : After(u) = On(u)
      BY <1>t, <2>1, <2>2
    <3>2. On(t) = Running[t] /\ After(t) = {}
      BY <1>t, <2>1, <2>2, <2>3 DEF Running
    <3>3. Running = [u \in Tickets |-> On(u)] /\ Running' = [u \in Tickets |-> After(u)]
      BY <2>2 DEF Running
    <3> HIDE DEF On, After
    <3> QED
      BY <3>1, <3>2, <3>3
  <2>5. Tracked' = Tracked
    BY <1>11 DEF CycleEnd, Tracked, Cached
  <2> QED
    BY <2>3, <2>4, <2>5 DEF Lifecycle!Next, Lifecycle!Finish
<1>12. ASSUME NEW k \in TaskIds, TaskEvict(k)
       PROVE  [Lifecycle!Next]_(Lifecycle!vars)
  <2>1. PICK t \in Tickets : t = owner[k]
    BY <1>12, <1>t DEF TaskEvict, Step, Alive
  <2>2. tpc[k] = "evict" /\ owner' = owner /\ tpc' = [tpc EXCEPT ![k] = "evictStore"]
    BY <1>12 DEF TaskEvict, Step
  <2>3. Running[t] = {}
    BY <2>1, <2>2, SoleWorker DEF Alive
  <2>4. SameRunning
    BY <1>t, <2>2 DEF SameRunning
  <2>5. Tracked' = Tracked \ {t}
    BY <1>12, <1>t, <2>1, Removal DEF TaskEvict, Tracked
  <2>6. CASE t \in Tracked
    BY <2>3, <2>4, <2>5, <2>6, RunningKept DEF Lifecycle!Next, Lifecycle!Untrack
  <2>7. CASE t \notin Tracked
    BY <2>4, <2>5, <2>7, RunningKept DEF Lifecycle!vars
  <2> QED
    BY <2>6, <2>7
<1>13. CASE UNCHANGED vars
  BY <1>13, <1>s DEF vars, SameTracked, SameRunning, Cached
<1> QED
  BY <1>1, <1>2, <1>3, <1>4, <1>5, <1>6, <1>7, <1>8, <1>9, <1>10, <1>11, <1>12,
     <1>13
  DEF Next, Dispatcher, TaskStep, Rest

(* The detailed specification implements the abstract one. *)
THEOREM LifecycleImplemented == Spec => ImplementsLifecycle
<1>1. Init => Lifecycle!Init
  BY DEF Init, Lifecycle!Init, Tracked, Running, Cached
<1>2. Inv /\ Inv' /\ [Next]_vars => [Lifecycle!Next]_(Lifecycle!vars)
  BY LifecycleStep
<1> QED
  BY <1>1, <1>2, Inductive, PTL DEF Spec, ImplementsLifecycle, Lifecycle!Spec

-----------------------------------------------------------------------------
(* No wake-up is lost as long as nothing can evict a ticket: no webhook is *)
(* rejected and no list selects a cleanup.                                 *)

QueueMode ==
  /\ Rejected \notin Payloads
  /\ \A v \in Triples : TargetOf[v] \in {"none", "rule"}

Flagged(t) == Cached(t) /\ cache[t].evict

(* In queue mode nobody reaches an eviction, and a handle names a task of  *)
(* its ticket.                                                             *)
NoEviction ==
  /\ dpc = "idle" \/ dpc \in Accepting
  /\ \A k \in TaskIds :
       /\ tpc[k] \notin {"evict", "evictStore", "evictEscalation", "exit"}
       /\ job[k] \in {"none", "rule", "completed", "failed"}
  /\ \A t \in Tickets : ~Flagged(t)
HandleOwned == \A t \in Tickets : handle[t] # NoTask => owner[handle[t]] = t

QueueInv == NoEviction /\ HandleOwned /\ WakeupPending

(* Of the operations on the cache, only SetEvict(t, TRUE) raises the flag. *)
LEMMA NoFlagRaised ==
  ASSUME cache \in [Tickets -> Entry \cup {NoEntry}],
         NEW t \in Tickets, NEW v \in Triples, NEW b \in BOOLEAN,
         \/ SetCycle(t, b) \/ SetRecheck(t, b) \/ SetEvict(t, FALSE)
         \/ cache' = [cache EXCEPT ![t] = NewEntry(v)]
         \/ Cached(t) /\ cache' = [cache EXCEPT ![t].triple = v]
  PROVE  \A u \in Tickets : Flagged(u)' => Flagged(u)
<1>1. \A u \in Tickets \ {t} : cache'[u] = cache[u]
  BY DEF SetCycle, SetRecheck, SetEvict
<1>2. Flagged(t)' => Flagged(t)
  <2>1. CASE ~Cached(t)
    <3>1. cache'[t] \in {cache[t], NewEntry(v)}
      BY <2>1 DEF SetCycle, SetRecheck, SetEvict
    <3> QED
      BY <2>1, <3>1 DEF Flagged, Cached, NewEntry
  <2>2. CASE Cached(t)
    <3>1. cache[t] \in Entry
      BY <2>2 DEF Cached
    <3>2. \A e \in {[cache[t] EXCEPT !.cycle = b], [cache[t] EXCEPT !.recheck = b],
                    [cache[t] EXCEPT !.triple = v]} : e.evict = cache[t].evict
      BY <3>1 DEF Entry
    <3>3. ~[cache[t] EXCEPT !.evict = FALSE].evict /\ ~NewEntry(v).evict
      BY <3>1 DEF Entry, NewEntry
    <3>4. ~cache'[t].evict \/ cache'[t].evict = cache[t].evict
      BY <2>2, <3>2, <3>3 DEF SetCycle, SetRecheck, SetEvict
    <3> QED
      BY <2>2, <3>4 DEF Flagged
  <2> QED
    BY <2>1, <2>2
<1> QED
  BY <1>1, <1>2 DEF Flagged, Cached

(* Without rejected webhooks and cleanups no eviction is ever pending and  *)
(* no task reaches its eviction steps.                                     *)
LEMMA NoEvictionKept ==
  ASSUME QueueMode, TypeOK, TypeOK', NoEviction, [Next]_vars
  PROVE  NoEviction'
<1>t. /\ cache \in [Tickets -> Entry \cup {NoEntry}]
      /\ tpc \in [TaskIds -> TaskPC]
      /\ job \in [TaskIds -> Targets \cup Results]
      /\ dpc # "idle" => msg.ticket \in Tickets
      /\ dpc \in Accepting => msg.payload \in Triples
      /\ \A k \in TaskIds : Alive(k) => owner[k] \in Tickets
  BY DEF TypeOK, Webhook
<1>n. /\ dpc = "idle" \/ dpc \in Accepting
      /\ \A k \in TaskIds :
           /\ tpc[k] \notin {"evict", "evictStore", "evictEscalation", "exit"}
           /\ job[k] \in {"none", "rule", "completed", "failed"}
      /\ \A u \in Tickets : ~Flagged(u)
  BY DEF NoEviction
<1>d. ASSUME dpc' = "idle" \/ dpc' \in Accepting, UNCHANGED <<cache, tpc, job>>
      PROVE  NoEviction'
  BY <1>d, <1>n DEF NoEviction, Flagged, Cached
<1>1. ASSUME NEW t \in Tickets, NEW v \in Triples, ColdAdmit(t, v)
      PROVE  NoEviction'
  <2>1. \A u \in Tickets : ~Flagged(u)'
    <3>1. cache' = [cache EXCEPT ![t] = NewEntry(v)]
      BY <1>1 DEF ColdAdmit
    <3> QED
      BY <1>n, <1>t, <3>1, NoFlagRaised
  <2>2. dpc' = dpc /\ job' = job /\ \E k \in TaskIds : tpc' = [tpc EXCEPT ![k] = "recv"]
    BY <1>1 DEF ColdAdmit, Spawn
  <2> QED
    BY <1>n, <1>t, <2>1, <2>2 DEF NoEviction
<1>2. CASE OpenGate \/ (\E w \in Webhook : Deliver(w)) \/ UNCHANGED vars
  BY <1>2, <1>d, <1>n DEF OpenGate, Deliver, vars, taskVars
<1>3. CASE Receive
  <2>1. Head(channel) \in Webhook
    BY <1>3 DEF Receive, TypeOK
  <2>2. Head(channel).payload # Rejected
    BY <2>1 DEF Webhook, QueueMode
  <2> QED
    BY <1>3, <2>2, <1>d DEF Receive, taskVars, Accepting
<1>4. CASE AccSnapshot \/ AccRead \/ AccStore \/ AccRouteSend
  BY <1>4, <1>d DEF AccSnapshot, AccRead, AccStore, AccRouteSend, GoTo, taskVars,
     Accepting
<1>5. CASE AccClear \/ AccWrite \/ AccRecheck
  <2>1. PICK t \in Tickets : t = msg.ticket
    BY <1>5, <1>t DEF AccClear, AccWrite, AccRecheck
  <2>2. \/ SetEvict(t, FALSE) \/ SetRecheck(t, TRUE)
        \/ \E v \in Triples : cache' = [cache EXCEPT ![t] = NewEntry(v)]
        \/ \E v \in Triples : Cached(t) /\ cache' = [cache EXCEPT ![t].triple = v]
    BY <1>5, <1>t, <2>1 DEF AccClear, AccWrite, AccRecheck, Accepting
  <2>3. \E v \in Triples : TRUE
    BY <1>5, <1>n, <1>t DEF AccClear, AccWrite, AccRecheck, Accepting
  <2>4. \A u \in Tickets : ~Flagged(u)'
    BY <1>t, <1>n, <2>2, <2>3, NoFlagRaised
  <2>5. UNCHANGED <<tpc, job>> /\ (dpc' = "idle" \/ dpc' \in Accepting)
    BY <1>5 DEF AccClear, AccWrite, AccRecheck, GoTo, taskVars, Accepting
  <2> QED
    BY <1>n, <2>4, <2>5 DEF NoEviction
<1>6. CASE AccRouteSpawn
  <2>1. PICK k \in TaskIds : tpc' = [tpc EXCEPT ![k] = "recv"]
    BY <1>6 DEF AccRouteSpawn, Spawn
  <2>2. dpc' = "idle" /\ cache' = cache /\ job' = job
    BY <1>6 DEF AccRouteSpawn, Spawn, GoTo
  <2> QED
    BY <1>n, <1>t, <2>1, <2>2 DEF NoEviction, Flagged, Cached
<1>7. CASE RejSnapshot \/ RejFlag \/ RejEscalation \/ RejLookup \/ RejEvict
           \/ RejStore \/ RejEscalation2
  BY <1>7, <1>n DEF RejSnapshot, RejFlag, RejEscalation, RejLookup, RejEvict,
     RejStore, RejEscalation2, Accepting
<1>8. ASSUME NEW k \in TaskIds, TaskReceive(k) \/ TaskResend(k)
      PROVE  NoEviction'
  <2>1. \E pc \in {"snapshot", "recv"} : tpc' = [tpc EXCEPT ![k] = pc]
    BY <1>8 DEF TaskReceive, TaskResend, Step
  <2>2. dpc' = dpc /\ cache' = cache /\ job' = job
    BY <1>8 DEF TaskReceive, TaskResend
  <2> QED
    BY <1>n, <1>t, <2>1, <2>2 DEF NoEviction, Flagged, Cached
<1>9. ASSUME NEW k \in TaskIds, TaskEvaluate(k)
      PROVE  NoEviction'
  <2>1. PICK target \in {"none", "rule"} : job' = [job EXCEPT ![k] = target]
    <3>1. Cached(owner[k]) => cache[owner[k]].triple \in Triples
      BY <1>9, <1>t DEF TaskEvaluate, Step, Alive, Cached, Entry
    <3> QED
      BY <1>9, <3>1 DEF TaskEvaluate, QueueMode
  <2>2. \E pc \in {"recv", "mark"} : tpc' = [tpc EXCEPT ![k] = pc]
    BY <1>9 DEF TaskEvaluate, Step
  <2>3. dpc' = dpc /\ cache' = cache
    BY <1>9 DEF TaskEvaluate
  <2> QED
    BY <1>n, <1>t, <2>1, <2>2, <2>3 DEF NoEviction, Flagged, Cached
<1>10. ASSUME NEW k \in TaskIds, TaskMark(k) \/ TaskClear(k) \/ TaskTakeEvict(k)
                                 \/ TaskTakeRecheck(k)
       PROVE  NoEviction'
  <2>1. owner[k] \in Tickets
    BY <1>10, <1>t DEF TaskMark, TaskClear, TaskTakeEvict, TaskTakeRecheck, Step, Alive
  <2>2. \/ \E b \in BOOLEAN : SetCycle(owner[k], b) \/ SetRecheck(owner[k], b)
        \/ SetEvict(owner[k], FALSE)
    BY <1>10 DEF TaskMark, TaskClear, TaskTakeEvict, TaskTakeRecheck
  <2>3. \A u \in Tickets : ~Flagged(u)'
    <3>1. CASE Cached(owner[k])
      <4>1. \E v \in Triples : TRUE
        BY <1>t, <2>1, <3>1 DEF Cached, Entry
      <4> QED
        BY <1>t, <1>n, <2>1, <2>2, <4>1, NoFlagRaised
    <3>2. CASE ~Cached(owner[k])
      BY <1>n, <2>2, <3>2 DEF SetCycle, SetRecheck, SetEvict, Flagged, Cached
    <3> QED
      BY <3>1, <3>2
  <2>4. PICK pc \in {"running", "takeEvict", "takeRecheck", "resend", "recv"} :
          tpc' = [tpc EXCEPT ![k] = pc]
    <3>1. job[k] \notin Evicting /\ ~(Cached(owner[k]) /\ cache[owner[k]].evict)
      BY <1>n, <2>1 DEF Evicting, Flagged
    <3> QED
      BY <1>10, <3>1 DEF TaskMark, TaskClear, TaskTakeEvict, TaskTakeRecheck, Step
  <2>5. dpc' = dpc /\ (job' = job \/ job' = [job EXCEPT ![k] = "none"])
    BY <1>10 DEF TaskMark, TaskClear, TaskTakeEvict, TaskTakeRecheck
  <2> QED
    BY <1>n, <1>t, <2>3, <2>4, <2>5 DEF NoEviction
<1>11. ASSUME NEW k \in TaskIds, CycleEnd(k)
       PROVE  NoEviction'
  <2>1. PICK result \in {"completed", "failed"} : job' = [job EXCEPT ![k] = result]
    BY <1>11, <1>n DEF CycleEnd, CanEnd
  <2>2. dpc' = dpc /\ cache' = cache /\ tpc' = [tpc EXCEPT ![k] = "clear"]
    BY <1>11 DEF CycleEnd, Step
  <2> QED
    BY <1>n, <1>t, <2>1, <2>2 DEF NoEviction, Flagged, Cached
<1>12. ASSUME NEW k \in TaskIds,
              TaskEvict(k) \/ TaskEvictStore(k) \/ TaskEvictEscalation(k) \/ TaskExit(k)
       PROVE  NoEviction'
  BY <1>12, <1>n DEF TaskEvict, TaskEvictStore, TaskEvictEscalation, TaskExit, Step
<1> QED
  BY <1>1, <1>2, <1>3, <1>4, <1>5, <1>6, <1>7, <1>8, <1>9, <1>10, <1>11, <1>12
  DEF Next, Dispatcher, TaskStep, Rest

(* In queue mode no step loses the wake-up of a triple that waits for it.  *)
LEMMA WakeupKept ==
  ASSUME TypeOK, TypeOK', NoEviction, HandleOwned, WakeupPending, [Next]_vars
  PROVE  HandleOwned' /\ WakeupPending'
<1>t. /\ tpc \in [TaskIds -> TaskPC]
      /\ inbox \in [TaskIds -> 0 .. InboxCap]
      /\ handle \in [Tickets -> TaskIds \cup {NoTask}]
      /\ owner \in [TaskIds -> Tickets \cup {NoTicket}]
      /\ dpc # "idle" => msg.ticket \in Tickets
      /\ fresh \subseteq Tickets
      /\ \A k \in TaskIds : Alive(k) => owner[k] \in Tickets
  BY DEF TypeOK, Webhook
<1> USE ConstantsAssumption DEF HandleOwned, WakeupPending, Open, Alive
<1>1. ASSUME NEW t \in Tickets, NEW v \in Triples, ColdAdmit(t, v)
      PROVE  HandleOwned' /\ WakeupPending'
  BY <1>1, <1>t DEF ColdAdmit, Spawn
<1>2. CASE OpenGate \/ (\E w \in Webhook : Deliver(w)) \/ UNCHANGED vars
  BY <1>2 DEF OpenGate, Deliver, vars, taskVars
<1>3. CASE Receive \/ AccSnapshot \/ AccClear \/ AccRead \/ AccRecheck
  BY <1>3 DEF Receive, AccSnapshot, AccClear, AccRead, AccRecheck, GoTo, taskVars
<1>4. CASE AccWrite \/ AccStore
  BY <1>4 DEF AccWrite, AccStore, GoTo, taskVars
<1>5. CASE AccRouteSpawn
  BY <1>5, <1>t DEF AccRouteSpawn, Spawn, GoTo
<1>6. CASE AccRouteSend
  BY <1>6, <1>t DEF AccRouteSend, GoTo, InboxCap
<1>7. CASE RejSnapshot \/ RejFlag \/ RejEscalation \/ RejLookup \/ RejEvict
           \/ RejStore \/ RejEscalation2
  BY <1>7 DEF RejSnapshot, RejFlag, RejEscalation, RejLookup, RejEvict,
     RejStore, RejEscalation2, Accepting, NoEviction
<1>8. ASSUME NEW k \in TaskIds, TaskReceive(k)
      PROVE  HandleOwned' /\ WakeupPending'
  BY <1>8, <1>t DEF TaskReceive, Step
<1>9. ASSUME NEW k \in TaskIds, TaskEvaluate(k)
      PROVE  HandleOwned' /\ WakeupPending'
  BY <1>9, <1>t DEF TaskEvaluate, Step
<1>10. ASSUME NEW k \in TaskIds, TaskMark(k) \/ TaskClear(k) \/ TaskTakeEvict(k)
                                 \/ TaskTakeRecheck(k) \/ CycleEnd(k)
       PROVE  HandleOwned' /\ WakeupPending'
  <2>1. /\ tpc[k] # "snapshot"
        /\ \E pc \in TaskPC \ {"dead"} : tpc' = [tpc EXCEPT ![k] = pc]
    BY <1>10 DEF TaskMark, TaskClear, TaskTakeEvict, TaskTakeRecheck, CycleEnd, Step, TaskPC
  <2>2. UNCHANGED <<dpc, msg, handle, owner, inbox, fresh>>
    BY <1>10 DEF TaskMark, TaskClear, TaskTakeEvict, TaskTakeRecheck, CycleEnd
  <2> QED
    BY <1>t, <2>1, <2>2
<1>11. ASSUME NEW k \in TaskIds, TaskResend(k)
       PROVE  HandleOwned' /\ WakeupPending'
  BY <1>11, <1>t DEF TaskResend, Step, InboxCap
<1>12. ASSUME NEW k \in TaskIds,
              TaskEvict(k) \/ TaskEvictStore(k) \/ TaskEvictEscalation(k) \/ TaskExit(k)
       PROVE  HandleOwned' /\ WakeupPending'
  BY <1>12 DEF TaskEvict, TaskEvictStore, TaskEvictEscalation, TaskExit, Step, NoEviction
<1> QED
  BY <1>1, <1>2, <1>3, <1>4, <1>5, <1>6, <1>7, <1>8, <1>9, <1>10, <1>11, <1>12
  DEF Next, Dispatcher, TaskStep, Rest

(* A triple that waits for its evaluation always has a wake-up on its way. *)
THEOREM WakeupPendingHolds ==
  ASSUME QueueMode
  PROVE  Spec => []WakeupPending
<1>1. Init => QueueInv
  <2> SUFFICES ASSUME Init PROVE QueueInv
    OBVIOUS
  <2>1. \A t \in Tickets : cache[t] # NoEntry => ~cache[t].recheck /\ ~cache[t].evict
    BY SeedType DEF Init
  <2> QED
    BY <2>1, ConstantsAssumption
    DEF Init, QueueInv, NoEviction, HandleOwned, WakeupPending, Flagged, Cached
<1>2. QueueInv /\ TypeOK /\ TypeOK' /\ [Next]_vars => QueueInv'
  BY NoEvictionKept, WakeupKept, QueueMode DEF QueueInv
<1>3. QueueInv => WakeupPending
  BY DEF QueueInv
<1> QED
  BY <1>1, <1>2, <1>3, TypeCorrect, PTL DEF Spec
===============================================================================
