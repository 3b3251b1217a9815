------------------------------ MODULE TuiProofs ------------------------------
(***************************************************************************)
(* For every number of tickets, of failures and of restarts, every size of *)
(* the ring, the queue, the pages, the channel and the views: the three    *)
(* copies of the log agree, every escalation is announced, and the screen  *)
(* shows the events once, in order, with every hole announced.             *)
(*                                                                         *)
(* The events are followed from the ring over the page that is being       *)
(* answered and the pages in the channel to the rows on the screen.        *)
(***************************************************************************)
EXTENDS Tui, FiniteSetTheorems, SequenceTheorems, TLAPS

-----------------------------------------------------------------------------
(* What the sequences hold. *)
Kinds == {"event", "escalation_added", "api_request", "refresh_nudge_acknowledged"}
Events == [id : Nat, seq : Nat, boot : Nat, w : Writers, kind : Kinds,
           ticket : Tickets \cup {Anything}]
Entries == [ticket : Tickets, id : Nat]

LogTypes ==
  /\ boot \in 1 .. MaxBoots /\ emitted \in 0 .. MaxEvents /\ faults \in 0 .. MaxFaults
  /\ file \in [Writers -> Seq(Events)] /\ buffer \in [Writers -> Seq(Events)]
  /\ unstored \in [Writers -> {Idle} \cup {<<e>> : e \in Events}]
  /\ store \in Seq(Events) /\ ring \in Seq(Events) /\ Len(ring) <= RingSize
  /\ nextSeq \in 1 .. emitted + 1

(* The files hold all that the ring, the store and the events on their way *)
(* to it hold, and ids grow with time.                                     *)
RingOrder ==
  /\ \A i \in DOMAIN ring :
       /\ ring[i].seq + Len(ring) = nextSeq + i - 1 /\ ring[i].boot = boot
       /\ ring[i].id <= emitted
       /\ \E e \in ToSet(file[ring[i].w]) : e.id = ring[i].id
  /\ \A i, j \in DOMAIN ring : i < j => ring[i].id < ring[j].id

StoreOrder ==
  /\ \A i \in DOMAIN store : store[i].id <= emitted /\ store[i] \in ToSet(file[store[i].w])
  /\ \A i, j \in DOMAIN store :
       i < j /\ store[i].w = store[j].w => store[i].id < store[j].id
  /\ \A w \in Writers : unstored[w] # Idle =>
       /\ unstored[w][1].w = w /\ unstored[w][1].id <= emitted
       /\ unstored[w][1] \in ToSet(file[w])
       /\ \A i \in DOMAIN store : store[i].w = w => store[i].id < unstored[w][1].id

LogOrder == RingOrder /\ StoreOrder

(* An escalation is younger than what was emitted before it, and what is   *)
(* not about to be logged is written or waits behind a failed flush.       *)
Announced(e) ==
  \E x \in ToSet(file[DaemonWriter]) \cup ToSet(buffer[DaemonWriter]) :
    x.kind = "escalation_added" /\ x.ticket = e.ticket /\ x.id >= e.id

QueueInv ==
  /\ queue \in Seq(Entries) /\ Len(queue) <= QueueCapacity
  /\ unlogged \subseteq Entries /\ \A e \in unlogged : e.id <= emitted + 1
  /\ \A i \in DOMAIN queue : queue[i] \in unlogged \/ Announced(queue[i])

RecencyInv ==
  /\ recency \in Seq(Tickets)
  /\ \A i, j \in DOMAIN recency : recency[i] = recency[j] => i = j

-----------------------------------------------------------------------------
(* What a source may be answered. *)
IsAnswer(s, body) ==
  \/ IsError(body)
  \/ s = "tickets" /\ body.list \in Seq(Tickets)
  \/ s = "escalations" /\ body.list \in Seq(Entries)
  \/ s = "events" /\ body.events \in Seq(Events) /\ body.gap \in BOOLEAN
       /\ body.nextSince = IF body.events = <<>> THEN Anything
                           ELSE body.events[Len(body.events)].seq
  \/ s \in {"detail", "refresh"}

UiTypes ==
  /\ at \in [Sources -> {"idle", "asked", "acked", "answered"}]
  /\ DOMAIN answer = Sources
  /\ \A s \in Sources : at[s] # "idle" => IsAnswer(s, answer[s])
  /\ cursor \in Nat \cup {Anything} /\ wanted \in Tickets \cup {Anything}
  /\ channel \in Seq(ToSet(channel)) /\ Len(channel) <= ChannelSize
  /\ \A p \in DOMAIN channel :
       \/ channel[p].source = "key" /\ channel[p].body \in Keys
       \/ channel[p].source \in Sources /\ IsAnswer(channel[p].source, channel[p].body)
  /\ view \in {"tickets", "detail", "escalations"}
  /\ refresh \in {"idle", "inflight", "debounced", "expired"}
  /\ DOMAIN rows = {"tickets", "events", "escalations"}
  /\ rows.tickets \in Seq(Tickets) /\ rows.escalations \in Seq(Entries)
  /\ rows.events \in Seq(Events) /\ Len(rows.events) <= MaxRows
  /\ DOMAIN selected = {"tickets", "escalations"}
  /\ \A l \in DOMAIN selected :
       \/ selected[l] \in DOMAIN rows[l]
       \/ selected[l] = 1 /\ rows[l] = <<>>

(* One refresh at a time: it is asked for, or its reply is in the channel, *)
(* or none is under way.                                                   *)
RefreshInv ==
  /\ at["refresh"] # "idle" =>
       refresh = "inflight" /\ \A p \in DOMAIN channel : channel[p].source # "refresh"
  /\ \A p, q \in DOMAIN channel :
       channel[p].source = "refresh" /\ channel[q].source = "refresh" => p = q
  /\ refresh = "inflight" <=>
       at["refresh"] # "idle" \/ \E p \in DOMAIN channel : channel[p].source = "refresh"

-----------------------------------------------------------------------------
(* The events on their way to the screen: on it, in the pages of the       *)
(* channel, in the page that is being answered.                            *)
IsPage(s, body) == s = "events" /\ ~IsError(body)

PageAt(p) ==
  IF IsPage(channel[p].source, channel[p].body) THEN channel[p].body.events ELSE <<>>

Coming ==
  IF at["events"] # "idle" /\ ~IsError(answer["events"]) THEN answer["events"].events ELSE <<>>

Before(p) ==
  ToSet(rows.events) \cup UNION {ToSet(PageAt(q)) : q \in {k \in DOMAIN channel : k < p}}

Delivered == Before(Len(channel) + 1)

(* A page leaves nothing out. *)
Gapless(page) ==
  \A i, j \in DOMAIN page :
    /\ page[i].boot = page[j].boot /\ page[j].seq + i = page[i].seq + j
    /\ i < j => page[i].id < page[j].id

(* It is younger than the events of a set, and unless it says so there is  *)
(* no hole between the youngest of them and itself.                        *)
Younger(page, set) == \A e \in set : \A i \in DOMAIN page : e.id < page[i].id

Latest(e, set) == e \in set /\ \A x \in set : x.id <= e.id

Joined(page, gap, set) ==
  page # <<>> /\ ~gap =>
    \A e \in set : Latest(e, set) /\ e.boot = page[1].boot => page[1].seq <= e.seq + 1

FlowInv ==
  /\ \A i, j \in DOMAIN rows.events : i < j => rows.events[i].id < rows.events[j].id
  /\ \A p \in DOMAIN channel :
       /\ Gapless(PageAt(p)) /\ Younger(PageAt(p), Before(p))
       /\ IsPage(channel[p].source, channel[p].body) =>
            Joined(PageAt(p), channel[p].body.gap, Before(p))
  /\ Gapless(Coming) /\ Younger(Coming, Delivered)
  /\ Coming # <<>> => Joined(Coming, answer["events"].gap, Delivered)
  /\ \A e \in Delivered : e.id <= emitted
  /\ \A i \in DOMAIN Coming : Coming[i].id <= emitted

(* The cursor is the number of the latest event delivered, and what the    *)
(* ring holds after it, or after the page that is being answered, is       *)
(* younger than what it stands for.                                        *)
CursorInv ==
  /\ cursor = Anything => Delivered = {}
  /\ \A e \in Delivered : Latest(e, Delivered) => cursor = e.seq
  /\ \A i \in DOMAIN ring :
       /\ cursor # Anything /\ ring[i].seq > cursor =>
            \A e \in Delivered : e.id < ring[i].id
       /\ Coming # <<>> /\ ring[i].seq > Coming[Len(Coming)].seq =>
            \A k \in DOMAIN Coming : Coming[k].id < ring[i].id

IInv ==
  /\ LogTypes /\ LogOrder /\ QueueInv /\ RecencyInv
  /\ UiTypes /\ RefreshInv /\ AcksAreListed
  /\ FlowInv /\ CursorInv
-----------------------------------------------------------------------------
(* Sequences. *)

LEMMA OwnRange ==
  ASSUME NEW S, NEW s \in Seq(S)
  PROVE  s \in Seq(ToSet(s)) /\ ToSet(s) \subseteq S
<1>1. DOMAIN s = 1 .. Len(s) /\ Len(s) \in Nat /\ \A i \in 1 .. Len(s) : s[i] \in S
  OBVIOUS
<1>2. \A i \in 1 .. Len(s) : s[i] \in ToSet(s)
  BY <1>1 DEF ToSet
<1>3. s \in [1 .. Len(s) -> ToSet(s)]
  BY <1>1, <1>2, LenProperties
<1>4. ToSet(s) \subseteq S
  BY <1>1 DEF ToSet
<1> HIDE DEF ToSet
<1>5. s \in Seq(ToSet(s))
  BY <1>1, <1>3, SeqDef
<1> QED
  BY <1>4, <1>5

LEMMA ConcatRange ==
  ASSUME NEW S, NEW s \in Seq(S), NEW t \in Seq(S)
  PROVE  /\ s \o t \in Seq(S)
         /\ ToSet(s \o t) = ToSet(s) \cup ToSet(t)
<1>1. /\ s \o t \in Seq(S) /\ Len(s \o t) = Len(s) + Len(t)
      /\ \A i \in 1 .. Len(s) + Len(t) :
           (s \o t)[i] = IF i <= Len(s) THEN s[i] ELSE t[i - Len(s)]
  BY ConcatProperties
<1>2. /\ DOMAIN s = 1 .. Len(s) /\ DOMAIN t = 1 .. Len(t)
      /\ DOMAIN (s \o t) = 1 .. Len(s) + Len(t) /\ Len(s) \in Nat /\ Len(t) \in Nat
  BY <1>1
<1>3. ToSet(s \o t) \subseteq ToSet(s) \cup ToSet(t)
  <2> SUFFICES ASSUME NEW i \in 1 .. Len(s) + Len(t)
               PROVE  (s \o t)[i] \in ToSet(s) \cup ToSet(t)
    BY <1>2 DEF ToSet
  <2>1. CASE i <= Len(s)
    BY <1>1, <1>2, <2>1 DEF ToSet
  <2>2. CASE ~(i <= Len(s))
    <3>1. i - Len(s) \in DOMAIN t /\ (s \o t)[i] = t[i - Len(s)]
      BY <1>1, <1>2, <2>2
    <3> QED
      BY <3>1 DEF ToSet
  <2> QED
    BY <2>1, <2>2
<1>4. ToSet(s) \subseteq ToSet(s \o t)
  <2> SUFFICES ASSUME NEW i \in DOMAIN s PROVE s[i] \in ToSet(s \o t)
    BY DEF ToSet
  <2>1. i \in DOMAIN (s \o t) /\ (s \o t)[i] = s[i]
    BY <1>1, <1>2
  <2> QED
    BY <2>1 DEF ToSet
<1>5. ToSet(t) \subseteq ToSet(s \o t)
  <2> SUFFICES ASSUME NEW i \in DOMAIN t PROVE t[i] \in ToSet(s \o t)
    BY DEF ToSet
  <2>1. i + Len(s) \in DOMAIN (s \o t) /\ (s \o t)[i + Len(s)] = t[i]
    BY <1>1, <1>2
  <2> QED
    BY <2>1 DEF ToSet
<1> QED
  BY <1>1, <1>3, <1>4, <1>5

LEMMA AppendRange ==
  ASSUME NEW S, NEW s \in Seq(S), NEW e \in S
  PROVE  /\ Append(s, e) \in Seq(S)
         /\ ToSet(Append(s, e)) = ToSet(s) \cup {e}
<1>1. Append(s, e) = s \o <<e>> /\ <<e>> \in Seq(S)
  BY AppendIsConcat
<1>2. ToSet(<<e>>) = {e}
  BY DEF ToSet
<1>3. s \o <<e>> \in Seq(S) /\ ToSet(s \o <<e>>) = ToSet(s) \cup ToSet(<<e>>)
  <2> DEFINE one == <<e>>
  <2>1. one \in Seq(S)
    BY <1>1
  <2> HIDE DEF one
  <2>2. s \o one \in Seq(S) /\ ToSet(s \o one) = ToSet(s) \cup ToSet(one)
    BY <2>1, ConcatRange
  <2> QED
    BY <2>2 DEF one
<1> QED
  BY <1>1, <1>2, <1>3

LEMMA Shortened ==
  ASSUME NEW S, NEW q \in Seq(S), NEW n \in 0 .. Len(q)
  PROVE  /\ SubSeq(q, 1, n) \in Seq(S)
         /\ Len(SubSeq(q, 1, n)) = n /\ DOMAIN SubSeq(q, 1, n) = 1 .. n
         /\ \A i \in 1 .. n : SubSeq(q, 1, n)[i] = q[i]
<1>1. Len(q) \in Nat /\ \A i \in 1 .. Len(q) : q[i] \in S
  OBVIOUS
<1>2. \A i \in 1 .. n : q[i] \in S
  BY <1>1
<1>3. /\ SubSeq(q, 1, n) \in Seq(S)
      /\ Len(SubSeq(q, 1, n)) = IF 1 <= n THEN n - 1 + 1 ELSE 0
      /\ \A i \in 1 .. n - 1 + 1 : SubSeq(q, 1, n)[i] = q[1 + i - 1]
  BY <1>2, SubSeqProperties
<1>4. Len(SubSeq(q, 1, n)) = n
  BY <1>3, n \in Nat
<1>5. \A i \in 1 .. n : SubSeq(q, 1, n)[i] = q[i]
  BY <1>3, n \in Nat
<1> QED
  BY <1>3, <1>4, <1>5

-----------------------------------------------------------------------------
(* What a filter picks. *)

LEMMA PlaceOf ==
  ASSUME NEW n \in Nat, NEW P \in SUBSET (1 .. n)
  PROVE  /\ IsFiniteSet(P) /\ Cardinality(P) \in 0 .. n
         /\ \A i \in Nat : Place(i, P) \in 0 .. Cardinality(P)
         /\ Place(0, P) = 0 /\ Place(n, P) = Cardinality(P)
         /\ \A i \in Nat :
              Place(i + 1, P) = Place(i, P) + IF i + 1 \in P THEN 1 ELSE 0
<1>1. IsFiniteSet(1 .. n) /\ Cardinality(1 .. n) = n
  BY FS_Interval
<1>2. IsFiniteSet(P) /\ Cardinality(P) <= n
  BY <1>1, FS_Subset
<1>3. Cardinality(P) \in Nat
  BY <1>2, FS_CardinalityType
<1>4. ASSUME NEW i \in Nat
      PROVE  /\ IsFiniteSet({k \in P : k <= i}) /\ Place(i, P) \in Nat
             /\ Place(i, P) <= Cardinality(P)
  <2> DEFINE T == {k \in P : k <= i}
  <2>1. T \in SUBSET P /\ Place(i, P) = Cardinality(T)
    BY DEF Place
  <2> HIDE DEF T
  <2>2. IsFiniteSet(T) /\ Cardinality(T) <= Cardinality(P)
    BY <1>2, <2>1, FS_Subset
  <2>3. Cardinality(T) \in Nat
    BY <2>2, FS_CardinalityType
  <2> QED
    BY <2>1, <2>2, <2>3 DEF T
<1>0. \A k \in P : k \in Int /\ 1 <= k /\ k <= n
  OBVIOUS
<1>5. Place(0, P) = 0
  <2>1. \A k \in P : ~(k <= 0)
    BY <1>0
  <2>2. {k \in P : k <= 0} = {}
    BY <2>1
  <2> QED
    BY <2>2, FS_EmptySet DEF Place
<1>6. Place(n, P) = Cardinality(P)
  <2>1. {k \in P : k <= n} = P
    BY <1>0
  <2> QED
    BY <2>1 DEF Place
<1>7. ASSUME NEW i \in Nat
      PROVE  Place(i + 1, P) = Place(i, P) + IF i + 1 \in P THEN 1 ELSE 0
  <2> DEFINE T == {k \in P : k <= i}
             U == {k \in P : k <= i + 1}
  <2>1. Place(i, P) = Cardinality(T) /\ Place(i + 1, P) = Cardinality(U)
    BY DEF Place
  <2>2. i + 1 \notin T /\ IsFiniteSet(T) /\ Cardinality(T) \in Nat
    BY <1>4, <2>1
  <2>3. CASE i + 1 \in P
    <3>1. U = T \cup {i + 1}
      <4>1. \A k \in P : k <= i + 1 <=> (k <= i \/ k = i + 1)
        BY <1>0
      <4> QED
        BY <2>3, <4>1
    <3> HIDE DEF T, U
    <3>2. Cardinality(T \cup {i + 1}) = Cardinality(T) + 1
      BY <2>2, FS_AddElement
    <3> QED
      BY <2>1, <2>3, <3>1, <3>2
  <2>4. CASE i + 1 \notin P
    <3>1. U = T
      <4>1. \A k \in P : k <= i + 1 <=> k <= i
        BY <1>0, <2>4
      <4> QED
        BY <4>1
    <3> HIDE DEF T, U
    <3> QED
      BY <2>1, <2>2, <2>4, <3>1
  <2> QED
    BY <2>3, <2>4
<1> DEFINE c == Cardinality(P)
<1>8. \A i \in Nat : Place(i, P) \in 0 .. c
  <2>1. \A i \in Nat : Place(i, P) \in Nat /\ Place(i, P) <= c
    BY <1>4
  <2> HIDE DEF c
  <2> QED
    BY <1>3, <2>1 DEF c
<1> QED
  BY <1>2, <1>3, <1>5, <1>6, <1>7, <1>8

(* A set of numbers has a least one. *)
Smaller == {p \in Nat \X Nat : p[1] < p[2]}

LEMMA LeastOf ==
  ASSUME NEW T, T \subseteq Nat, T # {}
  PROVE  \E k \in T : \A j \in T : k <= j
<1>1. IsWellFoundedOn(Smaller, Nat)
  <2>1. Smaller = OpToRel(<, Nat)
    BY DEF Smaller, OpToRel
  <2> QED
    BY <2>1, NatLessThanWellFounded
<1>2. PICK k \in T : \A j \in T : <<j, k>> \notin Smaller
  BY <1>1, WFMin
<1>3. ASSUME NEW j \in T, ~(k <= j) PROVE FALSE
  <2>1. j \in Nat /\ k \in Nat /\ j < k
    BY <1>3
  <2> QED
    BY <2>1, <1>2 DEF Smaller
<1> QED
  BY <1>3

(* Every member of what is picked has a position of its own.               *)
LEMMA PickedFrom ==
  ASSUME NEW S, NEW s \in Seq(S), NEW P \in SUBSET DOMAIN s
  PROVE  /\ Picked(s, P) \in Seq(S) /\ Len(Picked(s, P)) <= Len(s)
         /\ DOMAIN Picked(s, P) = 1 .. Cardinality(P)
         /\ \E pos \in [1 .. Cardinality(P) -> P] :
              /\ \A j, k \in 1 .. Cardinality(P) : pos[j] = pos[k] => j = k
              /\ \A j \in 1 .. Cardinality(P) : Picked(s, P)[j] = s[pos[j]]
<1>1. DOMAIN s = 1 .. Len(s) /\ Len(s) \in Nat /\ \A i \in 1 .. Len(s) : s[i] \in S
  OBVIOUS
<1>2. P \in SUBSET (1 .. Len(s))
  BY <1>1
<1> DEFINE n == Cardinality(P)
           at_(j) == CHOOSE i \in P : Place(i, P) = j
           pos == [j \in 1 .. n |-> at_(j)]
<1>3. n \in Nat /\ n <= Len(s) /\ Place(0, P) = 0 /\ Place(Len(s), P) = n
  BY <1>1, <1>2, PlaceOf
<1>4. ASSUME NEW j \in 1 .. n PROVE \E i \in P : Place(i, P) = j
  <2> DEFINE T == {i \in Nat : Place(i, P) >= j}
  <2>1. Len(s) \in T /\ T \subseteq Nat
    BY <1>1, <1>3
  <2>2. PICK i \in T : \A k \in T : i <= k
    BY <2>1, LeastOf
  <2>3. i \in Nat /\ i # 0
    BY <1>3, <2>2
  <2>4. i - 1 \in Nat /\ i - 1 \notin T
    BY <2>2, <2>3
  <2>5. Place(i - 1, P) \in Nat /\ Place(i, P) \in Nat
    BY <1>1, <1>2, <2>3, <2>4, PlaceOf
  <2>6. ~(Place(i - 1, P) >= j)
    BY <2>4
  <2>7. Place((i - 1) + 1, P) = Place(i - 1, P) + IF (i - 1) + 1 \in P THEN 1 ELSE 0
    BY <1>1, <1>2, <2>4, PlaceOf
  <2>8. (i - 1) + 1 = i
    BY <2>3
  <2>9. i \in P /\ Place(i, P) = j
    BY <2>2, <2>5, <2>6, <2>7, <2>8
  <2> QED
    BY <2>9
<1>5. \A j \in 1 .. n : at_(j) \in P /\ Place(at_(j), P) = j
  BY <1>4
<1>6. /\ Picked(s, P) = [j \in 1 .. n |-> s[at_(j)]]
      /\ pos \in [1 .. n -> P] /\ \A j \in 1 .. n : pos[j] = at_(j)
  BY <1>5 DEF Picked
<1> HIDE DEF at_, pos, n
<1>7. \A j \in 1 .. n : s[at_(j)] \in S
  BY <1>1, <1>2, <1>5
<1>8. Picked(s, P) \in [1 .. n -> S]
  BY <1>6, <1>7
<1>9. Picked(s, P) \in Seq(S)
  BY <1>3, <1>8, SeqDef
<1>10. DOMAIN Picked(s, P) = 1 .. n /\ Len(Picked(s, P)) = n
  BY <1>3, <1>8, <1>9
<1>11. \A j, k \in 1 .. n : pos[j] = pos[k] => j = k
  BY <1>5, <1>6
<1>12. \A j \in 1 .. n : Picked(s, P)[j] = s[pos[j]]
  BY <1>6
<1> QED
  BY <1>3, <1>6, <1>9, <1>10, <1>11, <1>12 DEF n

(* The members from one position on are picked one after the other.        *)
LEMMA PickedRun ==
  ASSUME NEW S, NEW s \in Seq(S), NEW a \in 1 .. Len(s) + 1
  PROVE  /\ Picked(s, a .. Len(s)) \in Seq(S)
         /\ Len(Picked(s, a .. Len(s))) = Len(s) - a + 1
         /\ \A j \in 1 .. Len(s) - a + 1 : Picked(s, a .. Len(s))[j] = s[a + j - 1]
<1>1. DOMAIN s = 1 .. Len(s) /\ Len(s) \in Nat
  OBVIOUS
<1> DEFINE P == a .. Len(s)
           n == Len(s) - a + 1
<1>2. n \in Nat /\ P \in SUBSET DOMAIN s
  BY <1>1
<1>3. Cardinality(P) = n
  <2>1. a \in Int /\ Len(s) \in Int /\ Len(s) <= Len(s)
    BY <1>1
  <2>2. Cardinality(a .. Len(s)) = IF a > Len(s) THEN 0 ELSE Len(s) - a + 1
    BY <2>1, FS_Interval
  <2> QED
    BY <2>1, <2>2
<1>4. ASSUME NEW i \in P PROVE Place(i, P) = i - a + 1
  <2>1. {k \in P : k <= i} = a .. i
    BY <1>1
  <2>2. a \in Int /\ i \in Int /\ ~(a > i)
    BY <1>1
  <2>3. Cardinality(a .. i) = i - a + 1
    BY <2>2, FS_Interval
  <2> QED
    BY <2>1, <2>3 DEF Place
<1>5. \A j \in 1 .. n : (CHOOSE i \in P : Place(i, P) = j) = a + j - 1
  <2> SUFFICES ASSUME NEW j \in 1 .. n
               PROVE  (CHOOSE i \in P : Place(i, P) = j) = a + j - 1
    OBVIOUS
  <2> DEFINE c == CHOOSE i \in P : Place(i, P) = j
  <2>1. a + j - 1 \in P /\ Place(a + j - 1, P) = j
    BY <1>1, <1>4
  <2>2. c \in P /\ Place(c, P) = j
    BY <2>1
  <2> HIDE DEF c
  <2>3. c - a + 1 = j /\ c \in Int
    BY <1>4, <2>2
  <2>4. c = a + j - 1
    BY <2>3
  <2> QED
    BY <2>4 DEF c
<1>6. Picked(s, P) = [j \in 1 .. n |-> s[CHOOSE i \in P : Place(i, P) = j]]
  BY <1>3 DEF Picked
<1>7. \A j \in 1 .. n : Picked(s, P)[j] = s[a + j - 1]
  BY <1>5, <1>6
<1>8. Picked(s, P) \in Seq(S) /\ DOMAIN Picked(s, P) = 1 .. n
  BY <1>2, <1>3, PickedFrom
<1> HIDE DEF P
<1>9. Len(Picked(s, P)) = n
  BY <1>2, <1>8
<1> QED
  BY <1>7, <1>8, <1>9 DEF P
-----------------------------------------------------------------------------
(* The log. *)

LEMMA EventsIn ==
  ASSUME NEW s \in Seq(Events)
  PROVE  /\ DOMAIN s = 1 .. Len(s) /\ Len(s) \in Nat
         /\ \A i \in DOMAIN s :
              /\ s[i] \in Events /\ s[i].id \in Nat /\ s[i].seq \in Nat /\ s[i].boot \in Nat
              /\ s[i].w \in Writers
<1>1. \A e \in Events : e.id \in Nat /\ e.seq \in Nat /\ e.boot \in Nat /\ e.w \in Writers
  BY DEF Events
<1> HIDE DEF Events
<1>2. DOMAIN s = 1 .. Len(s) /\ Len(s) \in Nat /\ \A i \in DOMAIN s : s[i] \in Events
  OBVIOUS
<1> QED
  BY <1>1, <1>2

(* What a record does to the ring: at most the oldest event leaves it.     *)
LEMMA RingAfter ==
  ASSUME NEW S, ring \in Seq(S), Len(ring) <= RingSize, NEW e \in S
  PROVE  /\ Recorded(e) \in Seq(S) /\ Len(Recorded(e)) <= RingSize
         /\ \/ ring = <<>> /\ Recorded(e) = <<>>
            \/ \E d \in {0, 1} :
                 /\ Len(ring) - d \in Nat /\ Len(Recorded(e)) = Len(ring) - d + 1
                 /\ \A i \in 1 .. Len(ring) - d : Recorded(e)[i] = ring[i + d]
                 /\ Recorded(e)[Len(ring) - d + 1] = e
<1>1. Len(ring) \in Nat /\ RingSize \in Nat /\ <<e>> \in Seq(S)
  BY EventLogAssumption
<1> DEFINE kept == IF Len(ring) = RingSize THEN Tail(ring) ELSE ring
<1>2. CASE RingSize = 0
  <2>1. Recorded(e) = ring /\ Len(ring) = 0
    BY <1>1, <1>2 DEF Recorded
  <2>2. ring = <<>>
    BY <2>1, EmptySeq
  <2> QED
    BY <1>1, <2>1, <2>2
<1>3. CASE RingSize # 0
  <2>1. PICK d \in {0, 1} :
          /\ kept \in Seq(S) /\ Len(kept) = Len(ring) - d /\ Len(ring) - d \in Nat
          /\ Len(ring) - d < RingSize
          /\ \A i \in 1 .. Len(ring) - d : kept[i] = ring[i + d]
    <3>1. CASE Len(ring) = RingSize
      <4>1. ring # <<>>
        BY <1>3, <3>1
      <4>2. /\ kept \in Seq(S) /\ Len(kept) = Len(ring) - 1
            /\ \A i \in 1 .. Len(kept) : kept[i] = ring[i + 1]
        BY <3>1, <4>1, HeadTailProperties
      <4> QED
        BY <1>1, <1>3, <3>1, <4>2
    <3>2. CASE Len(ring) # RingSize
      BY <1>1, <3>2
    <3> QED
      BY <3>1, <3>2
  <2>2. Recorded(e) = kept \o <<e>>
    BY <1>3 DEF Recorded
  <2> HIDE DEF kept
  <2>3. /\ kept \o <<e>> \in Seq(S) /\ Len(kept \o <<e>>) = Len(kept) + Len(<<e>>)
        /\ \A i \in 1 .. Len(kept) + Len(<<e>>) :
             (kept \o <<e>>)[i] = IF i <= Len(kept) THEN kept[i] ELSE <<e>>[i - Len(kept)]
    BY <1>1, <2>1, ConcatProperties
  <2>4. /\ Recorded(e) \in Seq(S) /\ Len(Recorded(e)) = Len(ring) - d + 1
        /\ Len(Recorded(e)) <= RingSize
    BY <1>1, <2>1, <2>2, <2>3
  <2>5. \A i \in 1 .. Len(ring) - d : Recorded(e)[i] = ring[i + d]
    BY <1>1, <2>1, <2>2, <2>3
  <2>6. Recorded(e)[Len(ring) - d + 1] = e
    BY <1>1, <2>1, <2>2, <2>3
  <2> QED
    BY <2>1, <2>4, <2>5, <2>6
<1> QED
  BY <1>2, <1>3

(* A record keeps the order of the ring.                                  *)
LEMMA RecordKeeps ==
  ASSUME LogTypes, RingOrder, NEW e \in Events, e.id = emitted + 1, e.boot = boot,
         Record(e), emitted' = emitted + 1, boot' = boot,
         \A w \in Writers : ToSet(file[w]) \subseteq ToSet(file'[w]),
         e \in ToSet(file'[e.w])
  PROVE  /\ RingOrder' /\ ring' \in Seq(Events) /\ Len(ring') <= RingSize
         /\ nextSeq' \in 1 .. emitted' + 1
         /\ \A i \in DOMAIN ring' :
              \/ \E k \in DOMAIN ring : ring'[i] = ring[k]
              \/ ring'[i].id = emitted + 1
<1> DEFINE x == [e EXCEPT !.seq = nextSeq]
<1>1. /\ ring \in Seq(Events) /\ Len(ring) <= RingSize /\ emitted \in Nat
      /\ nextSeq \in 1 .. emitted + 1 /\ nextSeq \in Nat
  BY EventLogAssumption DEF LogTypes
<1>2. /\ x \in Events /\ x.seq = nextSeq /\ x.id = e.id /\ x.boot = e.boot /\ x.w = e.w
      /\ e.w \in Writers
  BY <1>1 DEF Events
<1>3. ring' = Recorded(x) /\ nextSeq' = nextSeq + 1
  BY DEF Record
<1> HIDE DEF x
<1>4. DOMAIN ring = 1 .. Len(ring) /\ Len(ring) \in Nat
  BY <1>1
<1>5. /\ ring' \in Seq(Events) /\ Len(ring') <= RingSize
      /\ DOMAIN ring' = 1 .. Len(ring') /\ Len(ring') \in Nat
  BY <1>1, <1>2, <1>3, RingAfter
<1>6. nextSeq' \in 1 .. emitted' + 1
  BY <1>1, <1>3
<1>7. /\ \A i \in DOMAIN ring : ring[i] \in Events /\ ring[i].w \in Writers
                               /\ ring[i].id \in Nat /\ ring[i].seq \in Nat
      /\ x.id \in Nat
  BY <1>1, <1>2, EventsIn
<1>8. CASE ring' = <<>>
  <2>1. DOMAIN ring' = {}
    BY <1>8
  <2> QED
    BY <1>5, <1>6, <2>1 DEF RingOrder
<1>9. CASE \E d \in {0, 1} :
             /\ Len(ring) - d \in Nat /\ Len(ring') = Len(ring) - d + 1
             /\ \A i \in 1 .. Len(ring) - d : ring'[i] = ring[i + d]
             /\ ring'[Len(ring) - d + 1] = x
  <2>1. PICK d \in {0, 1} :
          /\ Len(ring) - d \in Nat /\ Len(ring') = Len(ring) - d + 1
          /\ \A i \in 1 .. Len(ring) - d : ring'[i] = ring[i + d]
          /\ ring'[Len(ring) - d + 1] = x
    BY <1>9
  <2>2. \A i \in 1 .. Len(ring) - d : i + d \in DOMAIN ring /\ ring'[i] = ring[i + d]
    BY <1>4, <2>1
  <2>3. \A i \in DOMAIN ring' : i \in 1 .. Len(ring) - d \/ i = Len(ring')
    BY <1>4, <1>5, <2>1
  <2>4. ring'[Len(ring')] = x /\ Len(ring') = Len(ring) - d + 1
    BY <2>1
  <2>5. ASSUME NEW i \in DOMAIN ring'
        PROVE  /\ ring'[i].seq + Len(ring') = nextSeq' + i - 1 /\ ring'[i].boot = boot'
               /\ ring'[i].id <= emitted'
               /\ \E y \in ToSet(file'[ring'[i].w]) : y.id = ring'[i].id
               /\ \/ \E k \in DOMAIN ring : ring'[i] = ring[k]
                  \/ ring'[i].id = emitted + 1
    <3>1. CASE i \in 1 .. Len(ring) - d
      <4>1. /\ i + d \in DOMAIN ring /\ ring'[i] = ring[i + d]
            /\ ring[i + d].id \in Nat /\ ring[i + d].seq \in Nat /\ ring[i + d].w \in Writers
        BY <1>7, <2>2, <3>1
      <4>2. /\ ring[i + d].seq + Len(ring) = nextSeq + (i + d) - 1
            /\ ring[i + d].boot = boot /\ ring[i + d].id <= emitted
            /\ \E y \in ToSet(file[ring[i + d].w]) : y.id = ring[i + d].id
        BY <4>1 DEF RingOrder
      <4>3. ring'[i].seq + Len(ring') = nextSeq' + i - 1
        <5>1. /\ ring'[i].seq = ring[i + d].seq /\ Len(ring') = Len(ring) - d + 1
              /\ nextSeq' = nextSeq + 1 /\ i \in Int /\ d \in Int
              /\ ring[i + d].seq \in Int /\ Len(ring) \in Int /\ nextSeq \in Int
          BY <1>1, <1>3, <1>4, <2>4, <4>1
        <5> DEFINE s == ring[i + d].seq
                   l == Len(ring)
                   l2 == Len(ring')
                   n2 == nextSeq'
        <5> HIDE DEF s, l, l2, n2
        <5>2. /\ s \in Int /\ l \in Int /\ d \in Int /\ i \in Int /\ nextSeq \in Int
              /\ s + l = nextSeq + (i + d) - 1 /\ l2 = l - d + 1 /\ n2 = nextSeq + 1
          BY <4>2, <5>1 DEF s, l, l2, n2
        <5>3. s + l2 = n2 + i - 1
          BY <5>2
        <5> QED
          BY <5>1, <5>3 DEF s, l2, n2
      <4>4. ring'[i].id <= emitted' /\ ring'[i].boot = boot'
        BY <1>1, <4>1, <4>2
      <4>5. \E y \in ToSet(file'[ring'[i].w]) : y.id = ring'[i].id
        BY <4>1, <4>2
      <4> QED
        BY <4>1, <4>3, <4>4, <4>5
    <3>2. CASE i = Len(ring')
      <4>1. ring'[i] = x
        BY <2>4, <3>2
      <4>2. ring'[i].seq + Len(ring') = nextSeq' + i - 1
        BY <1>1, <1>2, <1>3, <1>5, <3>2, <4>1
      <4>3. ring'[i].id = emitted + 1 /\ ring'[i].id <= emitted' /\ ring'[i].boot = boot'
        BY <1>1, <1>2, <4>1
      <4> QED
        BY <1>2, <4>1, <4>2, <4>3
    <3> QED
      BY <2>3, <3>1, <3>2
  <2>6. ASSUME NEW i \in DOMAIN ring', NEW j \in DOMAIN ring', i < j
        PROVE  ring'[i].id < ring'[j].id
    <3>1. i \in 1 .. Len(ring) - d
      BY <1>5, <2>3, <2>6
    <3>2. i + d \in DOMAIN ring /\ ring'[i] = ring[i + d] /\ ring[i + d].id <= emitted
      BY <2>2, <3>1 DEF RingOrder
    <3>3. CASE j \in 1 .. Len(ring) - d
      <4>1. j + d \in DOMAIN ring /\ ring'[j] = ring[j + d] /\ i + d < j + d
        BY <2>2, <2>6, <3>1, <3>3
      <4> QED
        BY <3>2, <4>1 DEF RingOrder
    <3>4. CASE j = Len(ring')
      <4>1. ring'[j].id = emitted + 1
        BY <1>2, <2>4, <3>4
      <4> QED
        BY <1>1, <1>7, <3>2, <4>1
    <3> QED
      BY <2>3, <3>3, <3>4
  <2> QED
    BY <1>5, <1>6, <2>5, <2>6 DEF RingOrder
<1> QED
  BY <1>1, <1>2, <1>3, <1>8, <1>9, RingAfter

(* Files only grow, and what is not in the file may wait in the buffer.    *)
LogGrows ==
  \A e \in Entries : Announced(e) => Announced(e)'

LEMMA EventTypes ==
  ASSUME LogTypes, NEW w \in Writers, NEW kind \in Kinds,
         NEW ticket \in Tickets \cup {Anything}
  PROVE  Event(w, kind, ticket) \in Events
BY EventLogAssumption DEF LogTypes, Event, Events

LEMMA EmitKeeps ==
  ASSUME LogTypes, LogOrder, NEW w \in Writers, NEW kind \in Kinds,
         NEW ticket \in Tickets \cup {Anything}, Emit(w, kind, ticket)
  PROVE  /\ LogTypes' /\ LogOrder' /\ emitted' = emitted + 1 /\ LogGrows
         /\ w = DaemonWriter /\ kind = "escalation_added" =>
              \A e \in Entries : e.ticket = ticket /\ e.id <= emitted + 1 => Announced(e)'
         /\ \A i \in DOMAIN ring' :
              \/ \E k \in DOMAIN ring : ring'[i] = ring[k]
              \/ ring'[i].id = emitted + 1
<1> DEFINE e == Event(w, kind, ticket)
<1>1. /\ e \in Events /\ e.id = emitted + 1 /\ e.boot = boot /\ e.w = w /\ e.kind = kind
      /\ e.ticket = ticket
  BY EventTypes DEF Event
<1>2. /\ emitted < MaxEvents /\ unstored[w] = Idle /\ emitted' = emitted + 1
      /\ boot' = boot /\ store' = store
  BY DEF Emit
<1>3. /\ boot \in 1 .. MaxBoots /\ emitted \in Nat /\ MaxEvents \in Nat /\ emitted' \in 0 .. MaxEvents
      /\ faults \in 0 .. MaxFaults /\ MaxFaults \in Nat
      /\ file \in [Writers -> Seq(Events)] /\ buffer \in [Writers -> Seq(Events)]
      /\ unstored \in [Writers -> {Idle} \cup {<<y>> : y \in Events}]
      /\ store \in Seq(Events) /\ ring \in Seq(Events) /\ Len(ring) <= RingSize
      /\ nextSeq \in 1 .. emitted + 1
  BY <1>2, EventLogAssumption DEF LogTypes
<1>4. RingOrder /\ StoreOrder
  BY DEF LogOrder
<1>5. \A i \in DOMAIN store : store[i] \in Events /\ store[i].w \in Writers /\ store[i].id \in Nat
  BY <1>3, EventsIn
<1>6. \A v \in Writers : unstored[v] # Idle => unstored[v][1] \in Events /\ unstored[v][1].id \in Nat
  <2> SUFFICES ASSUME NEW v \in Writers, unstored[v] # Idle
               PROVE  unstored[v][1] \in Events /\ unstored[v][1].id \in Nat
    OBVIOUS
  <2>1. PICK y \in Events : unstored[v] = <<y>>
    BY <1>3
  <2> QED
    BY <2>1 DEF Events
<1>7. CASE /\ file' = [file EXCEPT ![w] = @ \o buffer[w] \o <<e>>]
           /\ buffer' = [buffer EXCEPT ![w] = <<>>]
           /\ unstored' = [unstored EXCEPT ![w] = <<e>>]
           /\ Record(e)
           /\ UNCHANGED faults
  <2> HIDE DEF e
  <2>1. file[w] \in Seq(Events) /\ buffer[w] \in Seq(Events) /\ <<e>> \in Seq(Events)
    BY <1>1, <1>3
  <2>2. /\ file[w] \o buffer[w] \in Seq(Events)
        /\ ToSet(file[w] \o buffer[w]) = ToSet(file[w]) \cup ToSet(buffer[w])
    BY <2>1, ConcatRange
  <2>3. /\ (file[w] \o buffer[w]) \o <<e>> \in Seq(Events)
        /\ ToSet((file[w] \o buffer[w]) \o <<e>>)
             = ToSet(file[w] \o buffer[w]) \cup ToSet(<<e>>)
    <3> DEFINE written == file[w] \o buffer[w]
               one == <<e>>
    <3>1. written \in Seq(Events) /\ one \in Seq(Events)
      BY <2>1, <2>2
    <3> HIDE DEF written, one
    <3>2. written \o one \in Seq(Events) /\ ToSet(written \o one) = ToSet(written) \cup ToSet(one)
      BY <3>1, ConcatRange
    <3> QED
      BY <3>2 DEF written, one
  <2>4. ToSet(<<e>>) = {e}
    BY DEF ToSet
  <2>5. /\ file' \in [Writers -> Seq(Events)] /\ buffer' \in [Writers -> Seq(Events)]
        /\ file'[w] = (file[w] \o buffer[w]) \o <<e>>
        /\ \A v \in Writers : v # w => file'[v] = file[v] /\ buffer'[v] = buffer[v]
    BY <1>3, <1>7, <2>3
  <2>6. ToSet(file'[w]) = ToSet(file[w]) \cup ToSet(buffer[w]) \cup {e}
    BY <2>2, <2>3, <2>4, <2>5
  <2>7. \A v \in Writers : ToSet(file[v]) \subseteq ToSet(file'[v])
    BY <2>5, <2>6
  <2>8. /\ unstored' \in [Writers -> {Idle} \cup {<<y>> : y \in Events}]
        /\ unstored'[w] = <<e>> /\ unstored'[w][1] = e
        /\ \A v \in Writers : v # w => unstored'[v] = unstored[v]
    BY <1>1, <1>3, <1>7
  <2>9. /\ RingOrder' /\ ring' \in Seq(Events) /\ Len(ring') <= RingSize
        /\ nextSeq' \in 1 .. emitted' + 1
        /\ \A i \in DOMAIN ring' :
             \/ \E k \in DOMAIN ring : ring'[i] = ring[k]
             \/ ring'[i].id = emitted + 1
    BY <1>1, <1>2, <1>4, <1>7, <2>6, <2>7, RecordKeeps
  <2>10. LogTypes'
    BY <1>2, <1>3, <1>7, <2>5, <2>8, <2>9 DEF LogTypes
  <2>11. StoreOrder'
    <3>1. \A i \in DOMAIN store' :
            store'[i].id <= emitted' /\ store'[i] \in ToSet(file'[store'[i].w])
      BY <1>2, <1>3, <1>4, <1>5, <2>7 DEF StoreOrder
    <3>2. \A i, j \in DOMAIN store' :
            i < j /\ store'[i].w = store'[j].w => store'[i].id < store'[j].id
      BY <1>2, <1>4 DEF StoreOrder
    <3>3. ASSUME NEW v \in Writers, unstored'[v] # Idle
          PROVE  /\ unstored'[v][1].w = v /\ unstored'[v][1].id <= emitted'
                 /\ unstored'[v][1] \in ToSet(file'[v])
                 /\ \A i \in DOMAIN store' : store'[i].w = v => store'[i].id < unstored'[v][1].id
      <4>1. CASE v = w
        <5>1. \A i \in DOMAIN store' : store'[i].id < emitted + 1
          BY <1>2, <1>3, <1>4, <1>5 DEF StoreOrder
        <5>2. e.id = emitted + 1 /\ e.w = w /\ e.id <= emitted'
          BY <1>1, <1>2, <1>3
        <5>3. unstored'[v][1] = e
          BY <2>8, <4>1
        <5>4. e \in ToSet(file'[v])
          BY <2>6, <4>1
        <5> QED
          BY <4>1, <5>1, <5>2, <5>3, <5>4
      <4>2. CASE v # w
        <5>1. unstored'[v] = unstored[v] /\ unstored[v] # Idle /\ unstored[v][1].id \in Nat
          BY <1>6, <2>8, <3>3, <4>2
        <5>2. /\ unstored[v][1].w = v /\ unstored[v][1].id <= emitted
              /\ unstored[v][1] \in ToSet(file[v])
              /\ \A i \in DOMAIN store : store[i].w = v => store[i].id < unstored[v][1].id
          BY <1>4, <5>1 DEF StoreOrder
        <5> QED
          BY <1>2, <1>3, <2>7, <5>1, <5>2
      <4> QED
        BY <4>1, <4>2
    <3> QED
      BY <3>1, <3>2, <3>3 DEF StoreOrder
  <2>12. LogOrder'
    BY <2>9, <2>11 DEF LogOrder
  <2>13. LogGrows
    BY <1>7, <2>5, <2>6 DEF LogGrows, Announced, Writers
  <2>14. w = DaemonWriter /\ kind = "escalation_added" =>
           \A y \in Entries : y.ticket = ticket /\ y.id <= emitted + 1 => Announced(y)'
    <3> SUFFICES ASSUME w = DaemonWriter, kind = "escalation_added",
                        NEW y \in Entries, y.ticket = ticket, y.id <= emitted + 1
                 PROVE  Announced(y)'
      OBVIOUS
    <3>1. e \in ToSet(file'[DaemonWriter]) /\ e.id >= y.id
      BY <1>1, <1>3, <2>6 DEF Entries
    <3> QED
      BY <1>1, <3>1 DEF Announced
  <2> QED
    BY <1>2, <2>9, <2>10, <2>12, <2>13, <2>14
<1>8. CASE /\ faults < MaxFaults /\ faults' = faults + 1
           /\ buffer' = [buffer EXCEPT ![w] = Append(@, e)]
           /\ UNCHANGED <<file, unstored, ring, nextSeq>>
  <2> HIDE DEF e
  <2>1. /\ Append(buffer[w], e) \in Seq(Events)
        /\ ToSet(Append(buffer[w], e)) = ToSet(buffer[w]) \cup {e}
    BY <1>1, <1>3, AppendRange
  <2>2. /\ buffer' \in [Writers -> Seq(Events)]
        /\ ToSet(buffer'[w]) = ToSet(buffer[w]) \cup {e}
        /\ \A v \in Writers : v # w => buffer'[v] = buffer[v]
    BY <1>3, <1>8, <2>1
  <2>3. nextSeq' \in 1 .. emitted' + 1 /\ faults' \in 0 .. MaxFaults
    <3>1. /\ faults \in 0 .. MaxFaults /\ MaxFaults \in Nat
          /\ faults < MaxFaults /\ faults' = faults + 1
      BY <1>3, <1>8
    <3>2. faults' \in 0 .. MaxFaults
      BY <3>1
    <3>3. /\ nextSeq \in 1 .. emitted + 1 /\ emitted \in Nat
          /\ nextSeq' = nextSeq /\ emitted' = emitted + 1
      BY <1>2, <1>3, <1>8
    <3>4. nextSeq' \in 1 .. emitted' + 1
      BY <3>3
    <3> QED
      BY <3>2, <3>4
  <2>4. LogTypes'
    BY <1>2, <1>3, <1>8, <2>2, <2>3 DEF LogTypes
  <2>5. \A i \in DOMAIN ring : ring[i].id \in Nat
    BY <1>3, EventsIn
  <2>6. RingOrder'
    <3>1. UNCHANGED <<file, ring, nextSeq, boot>> /\ emitted' = emitted + 1 /\ emitted \in Nat
      BY <1>2, <1>3, <1>8
    <3>2. \A i \in DOMAIN ring : ring[i].id <= emitted + 1
      BY <1>4, <2>5, <3>1 DEF RingOrder
    <3> QED
      BY <1>4, <3>1, <3>2 DEF RingOrder
  <2>7. StoreOrder'
    <3>1. /\ store' = store /\ file' = file /\ unstored' = unstored
          /\ emitted' = emitted + 1 /\ emitted \in Nat
      BY <1>2, <1>3, <1>8
    <3>2. \A i \in DOMAIN store :
            store[i].id <= emitted + 1 /\ store[i] \in ToSet(file[store[i].w])
      BY <1>4, <1>5, <3>1 DEF StoreOrder
    <3>3. \A v \in Writers : unstored[v] # Idle => unstored[v][1].id <= emitted + 1
      BY <1>4, <1>6, <3>1 DEF StoreOrder
    <3> QED
      BY <1>4, <3>1, <3>2, <3>3 DEF StoreOrder
  <2>8. LogOrder'
    BY <2>6, <2>7 DEF LogOrder
  <2>9. LogGrows
    BY <1>8, <2>2 DEF LogGrows, Announced, Writers
  <2>10. w = DaemonWriter /\ kind = "escalation_added" =>
           \A y \in Entries : y.ticket = ticket /\ y.id <= emitted + 1 => Announced(y)'
    <3> SUFFICES ASSUME w = DaemonWriter, kind = "escalation_added",
                        NEW y \in Entries, y.ticket = ticket, y.id <= emitted + 1
                 PROVE  Announced(y)'
      OBVIOUS
    <3>1. e \in ToSet(buffer'[DaemonWriter]) /\ e.id >= y.id
      BY <1>1, <1>3, <2>2 DEF Entries
    <3> QED
      BY <1>1, <3>1 DEF Announced
  <2> QED
    BY <1>2, <1>8, <2>4, <2>8, <2>9, <2>10
<1> QED
  BY <1>7, <1>8 DEF Emit
-----------------------------------------------------------------------------
(* What every step does to the log. *)
LogPart == LogTypes /\ LogOrder /\ QueueInv /\ RecencyInv

(* What the ring holds it held before, or is younger than all of it.       *)
RingGrows ==
  /\ emitted' >= emitted
  /\ \A i \in DOMAIN ring' :
       \/ \E k \in DOMAIN ring : ring'[i] = ring[k]
       \/ ring'[i].id > emitted

LEMMA LogStands ==
  ASSUME LogTypes, UNCHANGED <<boot, emitted, file, ring, nextSeq>>
  PROVE  RingGrows
<1>1. emitted \in Nat
  BY EventLogAssumption DEF LogTypes
<1> QED
  BY <1>1 DEF RingGrows

LEMMA QueueKeeps ==
  ASSUME queue' \in Seq(Entries), Len(queue') <= QueueCapacity, unlogged' \subseteq Entries,
         \A e \in unlogged' : e.id <= emitted' + 1,
         \A i \in DOMAIN queue' :
           \E x \in Entries : queue'[i] = x /\ (x \in unlogged' \/ Announced(x)')
  PROVE  QueueInv'
<1>1. ASSUME NEW i \in DOMAIN queue' PROVE (queue[i] \in unlogged \/ Announced(queue[i]))'
  <2>1. PICK x \in Entries : queue'[i] = x /\ (x \in unlogged' \/ Announced(x)')
    OBVIOUS
  <2>2. CASE x \in unlogged'
    BY <2>1, <2>2
  <2>3. CASE Announced(x)'
    BY <2>1, <2>3 DEF Announced
  <2> QED
    BY <2>1, <2>2, <2>3
<1> QED
  BY <1>1 DEF QueueInv

LEMMA EmitStep ==
  ASSUME LogPart, NEW w \in Writers, NEW kind \in Kinds,
         NEW ticket \in Tickets \cup {Anything}, Emit(w, kind, ticket),
         UNCHANGED <<escalationVars, recency>>
  PROVE  LogPart' /\ RingGrows
<1>1. /\ LogTypes' /\ LogOrder' /\ emitted' = emitted + 1 /\ LogGrows
      /\ \A i \in DOMAIN ring' :
           \/ \E k \in DOMAIN ring : ring'[i] = ring[k]
           \/ ring'[i].id = emitted + 1
  BY EmitKeeps DEF LogPart
<1>2. emitted \in Nat
  BY EventLogAssumption DEF LogPart, LogTypes
<1>3. RingGrows
  BY <1>1, <1>2 DEF RingGrows
<1>4. /\ queue \in Seq(Entries) /\ Len(queue) <= QueueCapacity
      /\ unlogged \subseteq Entries /\ \A e \in unlogged : e.id <= emitted + 1
      /\ \A i \in DOMAIN queue : queue[i] \in unlogged \/ Announced(queue[i])
      /\ queue' = queue /\ unlogged' = unlogged
  BY DEF LogPart, QueueInv, escalationVars
<1>5. \A i \in DOMAIN queue : queue[i] \in Entries
  BY <1>4
<1>6. \A e \in unlogged' : e.id <= emitted' + 1
  <2>1. \A e \in unlogged : e.id \in Nat
    BY <1>4 DEF Entries
  <2> QED
    BY <1>1, <1>2, <1>4, <2>1
<1>7. \A i \in DOMAIN queue' :
        \E x \in Entries : queue'[i] = x /\ (x \in unlogged' \/ Announced(x)')
  BY <1>1, <1>4, <1>5 DEF LogGrows
<1>8. QueueInv'
  BY <1>4, <1>6, <1>7, QueueKeeps
<1>9. RecencyInv'
  BY DEF LogPart, RecencyInv
<1> QED
  BY <1>1, <1>3, <1>8, <1>9 DEF LogPart

LEMMA LogRequestStep ==
  ASSUME LogPart, NEW kind \in Kinds, LogRequest(kind), UNCHANGED <<escalationVars, recency>>
  PROVE  LogPart' /\ RingGrows
<1>1. CASE Emit(DaemonWriter, kind, Anything)
  BY <1>1, EmitStep DEF Writers
<1>2. CASE UNCHANGED logVars
  <2>1. LogTypes' /\ LogOrder' /\ RecencyInv'
    BY <1>2 DEF LogPart, LogTypes, LogOrder, RingOrder, StoreOrder, RecencyInv, logVars
  <2>2. QueueInv'
    BY <1>2 DEF LogPart, QueueInv, Announced, logVars, escalationVars
  <2>3. RingGrows
    BY <1>2, LogStands DEF LogPart, logVars
  <2> QED
    BY <2>1, <2>2, <2>3 DEF LogPart
<1> QED
  BY <1>1, <1>2 DEF LogRequest

LEMMA UnchangedStep ==
  ASSUME LogPart, UNCHANGED <<boot, emitted, file, buffer, unstored, store, ring, nextSeq,
                              escalationVars, recency>>,
         faults' = faults \/ (faults < MaxFaults /\ faults' = faults + 1)
  PROVE  LogPart' /\ RingGrows
<1>1. faults' \in 0 .. MaxFaults
  BY EventLogAssumption DEF LogPart, LogTypes
<1>2. LogTypes' /\ LogOrder' /\ RecencyInv'
  BY <1>1 DEF LogPart, LogTypes, LogOrder, RingOrder, StoreOrder, RecencyInv
<1>3. QueueInv'
  BY DEF LogPart, QueueInv, Announced, escalationVars
<1>4. RingGrows
  BY LogStands DEF LogPart
<1> QED
  BY <1>2, <1>3, <1>4 DEF LogPart

LEMMA PersistStep ==
  ASSUME LogPart, NEW w \in Writers, Persist(w)
  PROVE  LogPart' /\ RingGrows
<1>1. /\ boot \in 1 .. MaxBoots /\ emitted \in 0 .. MaxEvents /\ faults \in 0 .. MaxFaults
      /\ file \in [Writers -> Seq(Events)] /\ buffer \in [Writers -> Seq(Events)]
      /\ unstored \in [Writers -> {Idle} \cup {<<e>> : e \in Events}]
      /\ store \in Seq(Events) /\ ring \in Seq(Events) /\ Len(ring) <= RingSize
      /\ nextSeq \in 1 .. emitted + 1
      /\ LogOrder /\ QueueInv /\ RecencyInv
  BY DEF LogPart, LogTypes
<1>2. /\ unstored[w] # Idle /\ unstored' = [unstored EXCEPT ![w] = Idle]
      /\ UNCHANGED <<boot, emitted, file, buffer, ring, nextSeq, escalationVars, recency>>
  BY DEF Persist
<1>3. PICK e \in Events : unstored[w] = <<e>>
  BY <1>1, <1>2
<1>4. /\ unstored[w][1] = e /\ e.w = w /\ e.id <= emitted /\ e \in ToSet(file[w])
      /\ \A i \in DOMAIN store : store[i].w = w => store[i].id < e.id
  <2>1. unstored[w][1] = e
    BY <1>3
  <2>2. /\ unstored[w][1].w = w /\ unstored[w][1].id <= emitted
        /\ unstored[w][1] \in ToSet(file[w])
        /\ \A i \in DOMAIN store : store[i].w = w => store[i].id < unstored[w][1].id
    BY <1>1, <1>2 DEF LogOrder, StoreOrder
  <2> QED
    BY <2>1, <2>2
<1>5. unstored' \in [Writers -> {Idle} \cup {<<x>> : x \in Events}]
  BY <1>1, <1>2
<1>6. /\ unstored'[w] = Idle
      /\ \A v \in Writers : v # w => unstored'[v] = unstored[v]
  BY <1>1, <1>2
<1>7. RingGrows /\ RecencyInv' /\ QueueInv'
  BY <1>1, <1>2, LogStands DEF LogPart, RecencyInv, QueueInv, Announced, escalationVars
<1>8. RingOrder'
  BY <1>1, <1>2 DEF LogOrder, RingOrder
<1>9. StoreOrder /\ \A i \in DOMAIN store : store[i] \in Events /\ store[i].id \in Nat /\ store[i].w \in Writers
  BY <1>1, EventsIn DEF LogOrder
<1>10. CASE Append1(unstored[w][1]) /\ UNCHANGED faults
  <2>1. store' = Append(store, e)
    BY <1>4, <1>10 DEF Append1
  <2>2. /\ store' \in Seq(Events) /\ Len(store') = Len(store) + 1
        /\ \A i \in 1 .. Len(store) : store'[i] = store[i]
        /\ store'[Len(store) + 1] = e
    BY <1>1, <2>1, AppendProperties
  <2>3. /\ Len(store) \in Nat /\ DOMAIN store = 1 .. Len(store)
        /\ DOMAIN store' = 1 .. Len(store) + 1
    BY <1>1, <2>2
  <2>4. \A i \in DOMAIN store' : (i \in DOMAIN store /\ store'[i] = store[i]) \/ i = Len(store) + 1
    BY <2>2, <2>3
  <2>5. \A i \in DOMAIN store' :
          store'[i].id <= emitted' /\ store'[i] \in ToSet(file'[store'[i].w])
    BY <1>2, <1>4, <1>9, <2>2, <2>4 DEF StoreOrder
  <2>6. ASSUME NEW i \in DOMAIN store', NEW j \in DOMAIN store',
               i < j, store'[i].w = store'[j].w
        PROVE  store'[i].id < store'[j].id
    <3>1. i \in DOMAIN store /\ store'[i] = store[i]
      BY <2>2, <2>3, <2>6
    <3>2. CASE j \in DOMAIN store
      BY <1>9, <2>2, <2>3, <2>6, <3>1, <3>2 DEF StoreOrder
    <3>3. CASE j = Len(store) + 1
      BY <1>4, <2>2, <2>6, <3>1, <3>3
    <3> QED
      BY <2>3, <3>2, <3>3
  <2>7. ASSUME NEW v \in Writers, unstored'[v] # Idle
        PROVE  /\ unstored'[v][1].w = v /\ unstored'[v][1].id <= emitted'
               /\ unstored'[v][1] \in ToSet(file'[v])
               /\ \A i \in DOMAIN store' : store'[i].w = v => store'[i].id < unstored'[v][1].id
    <3>1. v # w /\ unstored'[v] = unstored[v]
      BY <1>6, <2>7
    <3>2. /\ unstored[v][1].w = v /\ unstored[v][1].id <= emitted
          /\ unstored[v][1] \in ToSet(file[v])
          /\ \A i \in DOMAIN store : store[i].w = v => store[i].id < unstored[v][1].id
      BY <1>9, <2>7, <3>1 DEF StoreOrder
    <3>3. \A i \in DOMAIN store' : store'[i].w = v => store'[i].id < unstored'[v][1].id
      BY <1>4, <2>2, <2>4, <3>1, <3>2
    <3> QED
      BY <1>2, <3>1, <3>2, <3>3
  <2>8. StoreOrder'
    BY <2>5, <2>6, <2>7 DEF StoreOrder
  <2>9. LogTypes'
    BY <1>1, <1>2, <1>5, <1>10, <2>2 DEF LogTypes
  <2>10. LogOrder'
    BY <1>8, <2>8 DEF LogOrder
  <2> QED
    BY <1>7, <2>9, <2>10 DEF LogPart
<1>11. CASE faults < MaxFaults /\ faults' = faults + 1 /\ UNCHANGED store
  <2>1. faults' \in 0 .. MaxFaults
    <3>1. /\ faults \in 0 .. MaxFaults /\ MaxFaults \in Nat
          /\ faults < MaxFaults /\ faults' = faults + 1
      BY <1>1, <1>11, EventLogAssumption
    <3> QED
      BY <3>1
  <2>2. LogTypes'
    BY <1>1, <1>2, <1>5, <1>11, <2>1 DEF LogTypes
  <2>3. ASSUME NEW v \in Writers, unstored'[v] # Idle
        PROVE  v # w /\ unstored'[v] = unstored[v]
    BY <1>6, <2>3
  <2>4. StoreOrder'
    BY <1>2, <1>9, <1>11, <2>3 DEF StoreOrder
  <2>5. LogOrder'
    BY <1>8, <2>4 DEF LogOrder
  <2> QED
    BY <1>7, <2>2, <2>5 DEF LogPart
<1> QED
  BY <1>10, <1>11 DEF Persist

LEMMA RestartStep ==
  ASSUME LogPart, Restart
  PROVE  LogPart' /\ RingGrows
<1>1. /\ boot \in 1 .. MaxBoots /\ MaxBoots \in Nat /\ emitted \in 0 .. MaxEvents
      /\ emitted \in Nat /\ store \in Seq(Events)
      /\ LogTypes /\ StoreOrder
  BY EventLogAssumption DEF LogOrder, LogPart, LogTypes
<1>2. /\ boot < MaxBoots /\ boot' = boot + 1
      /\ buffer' = [w \in Writers |-> <<>>]
      /\ unstored' = [w \in Writers |-> Idle]
      /\ ring' = <<>> /\ nextSeq' = 1
      /\ queue' = <<>> /\ unlogged' = {} /\ recency' = <<>>
      /\ emitted' = emitted /\ faults' = faults /\ file' = file /\ store' = store
  BY DEF Restart
<1>3. /\ <<>> \in Seq(Events) /\ <<>> \in Seq(Entries) /\ <<>> \in Seq(Tickets)
      /\ Len(<<>>) = 0 /\ DOMAIN <<>> = {}
  OBVIOUS
<1>4. buffer' \in [Writers -> Seq(Events)]
      /\ unstored' \in [Writers -> {Idle} \cup {<<e>> : e \in Events}]
  BY <1>2, <1>3
<1>5. LogTypes'
  BY <1>1, <1>2, <1>3, <1>4, EventLogAssumption DEF LogTypes
<1>6. \A w \in Writers : unstored'[w] = Idle
  BY <1>2
<1>7. StoreOrder'
  BY <1>1, <1>2, <1>6 DEF StoreOrder
<1>8. RingOrder'
  BY <1>2, <1>3 DEF RingOrder
<1>9. LogOrder'
  BY <1>7, <1>8 DEF LogOrder
<1>10. QueueInv' /\ RecencyInv'
  BY <1>2, <1>3, EventLogAssumption DEF QueueInv, RecencyInv
<1>11. RingGrows
  BY <1>1, <1>2, <1>3 DEF RingGrows
<1> QED
  BY <1>5, <1>9, <1>10, <1>11 DEF LogPart

LEMMA QueueMembers ==
  ASSUME QueueInv
  PROVE  /\ queue \in Seq(Entries) /\ DOMAIN queue = 1 .. Len(queue) /\ Len(queue) \in Nat
         /\ \A i \in DOMAIN queue : queue[i] \in Entries
BY DEF QueueInv

LEMMA EscalateStep ==
  ASSUME LogPart, NEW t \in Tickets, Escalate(t)
  PROVE  LogPart' /\ RingGrows
<1> DEFINE e == Escalation(t)
           kept == IF Len(queue) = QueueCapacity THEN Tail(queue) ELSE queue
<1>1. /\ queue' = Append(kept, e) /\ unlogged' = unlogged \cup {e}
      /\ UNCHANGED <<logVars, recency>>
  BY DEF Escalate, Push, Pushed
<1>2. emitted \in Nat /\ QueueInv /\ QueueCapacity \in Nat \ {0}
  BY EventLogAssumption DEF LogPart, LogTypes
<1>3. e \in Entries /\ e.id = emitted + 1
  BY <1>2 DEF Escalation, Entries
<1>4. /\ kept \in Seq(Entries) /\ Len(kept) < QueueCapacity /\ Len(kept) \in Nat
      /\ \A i \in 1 .. Len(kept) : \E k \in DOMAIN queue : kept[i] = queue[k]
  <2>1. CASE Len(queue) = QueueCapacity
    <3>1. queue # <<>>
      BY <1>2, <2>1
    <3>2. /\ kept \in Seq(Entries) /\ Len(kept) = Len(queue) - 1
          /\ \A i \in 1 .. Len(kept) : kept[i] = queue[i + 1]
      BY <1>2, <2>1, <3>1, QueueMembers, HeadTailProperties
    <3>3. queue \in Seq(Entries) /\ DOMAIN queue = 1 .. Len(queue) /\ Len(queue) \in Nat
      BY <1>2, QueueMembers
    <3> HIDE DEF kept
    <3>4. \A i \in 1 .. Len(kept) : i + 1 \in DOMAIN queue
      BY <3>2, <3>3
    <3>5. Len(kept) < QueueCapacity /\ Len(kept) \in Nat
      BY <1>2, <2>1, <3>2
    <3> QED
      BY <3>2, <3>4, <3>5
  <2>2. CASE Len(queue) # QueueCapacity
    <3>1. kept = queue
      BY <2>2
    <3>2. /\ queue \in Seq(Entries) /\ DOMAIN queue = 1 .. Len(queue) /\ Len(queue) \in Nat
          /\ Len(queue) <= QueueCapacity
      BY <1>2, QueueMembers DEF QueueInv
    <3> HIDE DEF kept
    <3>3. Len(kept) < QueueCapacity /\ Len(kept) \in Nat
      <4>1. Len(queue) \in Nat /\ QueueCapacity \in Nat
        BY <1>2, <3>2
      <4>2. \A a, b \in Nat : a <= b /\ a # b => a < b
        OBVIOUS
      <4>3. Len(queue) < QueueCapacity
        BY <2>2, <3>2, <4>1, <4>2
      <4> QED
        BY <3>1, <4>1, <4>3
    <3>4. \A i \in 1 .. Len(kept) : i \in DOMAIN queue /\ kept[i] = queue[i]
      BY <3>1, <3>2
    <3> QED
      BY <3>1, <3>2, <3>3, <3>4
  <2> QED
    BY <2>1, <2>2
<1> HIDE DEF e, kept
<1>5. /\ queue' \in Seq(Entries) /\ Len(queue') = Len(kept) + 1
      /\ \A i \in 1 .. Len(kept) : queue'[i] = kept[i]
      /\ queue'[Len(kept) + 1] = e
  BY <1>1, <1>3, <1>4, AppendProperties
<1>6. DOMAIN queue' = 1 .. Len(kept) + 1
  BY <1>5
<1>7. logVars' = logVars /\ file' = file /\ buffer' = buffer /\ emitted' = emitted
  BY <1>1 DEF logVars
<1>8. ASSUME NEW i \in DOMAIN queue'
      PROVE  \E x \in Entries : queue'[i] = x /\ (x \in unlogged' \/ Announced(x)')
  <2>1. CASE i \in 1 .. Len(kept)
    <3>1. PICK k \in DOMAIN queue : queue'[i] = queue[k]
      BY <1>4, <1>5, <2>1
    <3>2. PICK x \in Entries : x = queue[k]
      BY <1>2, <3>1, QueueMembers
    <3>3. x \in unlogged \/ Announced(x)
      BY <1>2, <3>1, <3>2 DEF QueueInv
    <3>4. Announced(x) => Announced(x)'
      BY <1>7 DEF Announced
    <3> QED
      BY <1>1, <3>1, <3>2, <3>3, <3>4
  <2>2. CASE i = Len(kept) + 1
    BY <1>1, <1>3, <1>5, <2>2
  <2> QED
    BY <1>4, <1>6, <2>1, <2>2
<1>9. QueueInv'
  <2>1. unlogged' \subseteq Entries /\ \A x \in unlogged' : x.id <= emitted' + 1
    BY <1>1, <1>2, <1>3, <1>7 DEF QueueInv
  <2>2. Len(queue') <= QueueCapacity
    BY <1>2, <1>4, <1>5
  <2> QED
    BY <1>5, <1>8, <2>1, <2>2, QueueKeeps
<1>10. LogTypes' /\ LogOrder' /\ RecencyInv'
  BY <1>1 DEF LogPart, LogTypes, LogOrder, RingOrder, StoreOrder, RecencyInv, logVars
<1>11. RingGrows
  BY <1>1, LogStands DEF LogPart, logVars
<1> QED
  BY <1>9, <1>10, <1>11 DEF LogPart

LEMMA LogEscalationStep ==
  ASSUME LogPart, LogEscalation
  PROVE  LogPart' /\ RingGrows
<1>1. PICK e \in unlogged :
        /\ Emit(DaemonWriter, "escalation_added", e.ticket)
        /\ unlogged' = unlogged \ {e}
  BY DEF LogEscalation
<1>2. /\ QueueInv /\ emitted \in Nat /\ queue' = queue /\ recency' = recency
      /\ unlogged \subseteq Entries /\ \A x \in unlogged : x.id <= emitted + 1
  BY EventLogAssumption DEF LogEscalation, LogPart, LogTypes, QueueInv
<1>3. e \in Entries /\ e.ticket \in Tickets /\ e.id <= emitted + 1
      /\ \A x \in unlogged : x.id \in Nat
  BY <1>2 DEF Entries
<1>4. /\ LogTypes' /\ LogOrder' /\ emitted' = emitted + 1 /\ LogGrows
      /\ \A y \in Entries : y.ticket = e.ticket /\ y.id <= emitted + 1 => Announced(y)'
      /\ \A i \in DOMAIN ring' :
           \/ \E k \in DOMAIN ring : ring'[i] = ring[k]
           \/ ring'[i].id = emitted + 1
  BY <1>1, <1>3, EmitKeeps DEF LogPart, Writers, Kinds
<1>5. RingGrows
  BY <1>2, <1>4 DEF RingGrows
<1>6. RecencyInv'
  BY <1>2 DEF LogPart, RecencyInv
<1>7. ASSUME NEW x \in Entries, x \in unlogged \/ Announced(x)
      PROVE  x \in unlogged' \/ Announced(x)'
  <2>1. CASE x = e
    BY <1>3, <1>4, <2>1
  <2>2. CASE x # e /\ x \in unlogged
    BY <1>1, <2>2
  <2>3. CASE Announced(x)
    BY <1>4, <2>3 DEF LogGrows
  <2> QED
    BY <1>7, <2>1, <2>2, <2>3
<1>8. ASSUME NEW i \in DOMAIN queue'
      PROVE  \E x \in Entries : queue'[i] = x /\ (x \in unlogged' \/ Announced(x)')
  <2>1. PICK x \in Entries : x = queue[i]
    BY <1>2, QueueMembers
  <2>2. x \in unlogged \/ Announced(x)
    BY <1>2, <2>1 DEF QueueInv
  <2> QED
    BY <1>2, <1>7, <2>1, <2>2
<1>9. unlogged' \subseteq Entries /\ \A x \in unlogged' : x.id <= emitted' + 1
  BY <1>1, <1>2, <1>3, <1>4
<1>10. QueueInv'
  <2>1. queue' \in Seq(Entries) /\ Len(queue') <= QueueCapacity
    BY <1>2 DEF QueueInv
  <2> QED
    BY <1>8, <1>9, <2>1, QueueKeeps
<1> QED
  BY <1>4, <1>5, <1>6, <1>10 DEF LogPart

(* The list of the other tickets has each once, and not this one.          *)
LEMMA OthersList ==
  ASSUME RecencyInv, NEW t
  PROVE  /\ OthersThan(t) \in Seq(Tickets)
         /\ \A i, j \in DOMAIN OthersThan(t) : OthersThan(t)[i] = OthersThan(t)[j] => i = j
         /\ \A i \in DOMAIN OthersThan(t) : OthersThan(t)[i] # t
<1> DEFINE P == {i \in DOMAIN recency : recency[i] # t}
<1>1. recency \in Seq(Tickets) /\ P \in SUBSET DOMAIN recency /\ OthersThan(t) = Picked(recency, P)
  BY DEF RecencyInv, OthersThan
<1>2. \A i \in P : i \in DOMAIN recency /\ recency[i] # t
  OBVIOUS
<1> HIDE DEF P
<1>3. /\ OthersThan(t) \in Seq(Tickets)
      /\ DOMAIN OthersThan(t) = 1 .. Cardinality(P)
      /\ \E pos \in [1 .. Cardinality(P) -> P] :
           /\ \A j, k \in 1 .. Cardinality(P) : pos[j] = pos[k] => j = k
           /\ \A j \in 1 .. Cardinality(P) : OthersThan(t)[j] = recency[pos[j]]
  BY <1>1, PickedFrom
<1>4. PICK pos \in [1 .. Cardinality(P) -> P] :
        /\ \A j, k \in 1 .. Cardinality(P) : pos[j] = pos[k] => j = k
        /\ \A j \in 1 .. Cardinality(P) : OthersThan(t)[j] = recency[pos[j]]
  BY <1>3
<1>5. \A j \in 1 .. Cardinality(P) : pos[j] \in DOMAIN recency /\ recency[pos[j]] # t
  BY <1>2
<1>6. \A i, j \in 1 .. Cardinality(P) : OthersThan(t)[i] = OthersThan(t)[j] => i = j
  BY <1>4, <1>5 DEF RecencyInv
<1>7. \A i \in 1 .. Cardinality(P) : OthersThan(t)[i] # t
  BY <1>4, <1>5
<1> QED
  BY <1>3, <1>6, <1>7

LEMMA TouchStep ==
  ASSUME LogPart, NEW t \in Tickets, Touch(t)
  PROVE  LogPart' /\ RingGrows
<1> DEFINE others == OthersThan(t)
<1>1. /\ recency' = <<t>> \o others /\ UNCHANGED <<logVars, escalationVars>>
      /\ RecencyInv
  BY DEF Touch, LogPart
<1>2. /\ others \in Seq(Tickets)
      /\ \A i, j \in DOMAIN others : others[i] = others[j] => i = j
      /\ \A i \in DOMAIN others : others[i] # t
  BY <1>1, OthersList
<1> HIDE DEF others
<1>3. <<t>> \in Seq(Tickets) /\ Len(<<t>>) = 1 /\ <<t>>[1] = t
  OBVIOUS
<1>4. /\ recency' \in Seq(Tickets) /\ Len(recency') = Len(<<t>>) + Len(others)
      /\ \A i \in 1 .. Len(<<t>>) + Len(others) :
           recency'[i] = IF i <= Len(<<t>>) THEN <<t>>[i] ELSE others[i - Len(<<t>>)]
  BY <1>1, <1>2, <1>3, ConcatProperties
<1>5. /\ DOMAIN others = 1 .. Len(others) /\ Len(others) \in Nat
      /\ DOMAIN recency' = 1 .. 1 + Len(others)
  BY <1>2, <1>3, <1>4
<1>6. /\ recency'[1] = t
      /\ \A i \in DOMAIN recency' : i # 1 => i - 1 \in DOMAIN others /\ recency'[i] = others[i - 1]
  BY <1>3, <1>4, <1>5
<1>7. ASSUME NEW i \in DOMAIN recency', NEW j \in DOMAIN recency', recency'[i] = recency'[j]
      PROVE  i = j
  <2>1. i \in Int /\ j \in Int
    BY <1>5
  <2>2. CASE i = 1 \/ j = 1
    BY <1>2, <1>6, <1>7, <2>2
  <2>3. CASE i # 1 /\ j # 1
    <3>1. i - 1 = j - 1
      BY <1>2, <1>6, <1>7, <2>3
    <3> QED
      BY <2>1, <3>1
  <2> QED
    BY <2>2, <2>3
<1>8. RecencyInv'
  BY <1>4, <1>7 DEF RecencyInv
<1>9. LogTypes' /\ LogOrder'
  BY <1>1 DEF LogPart, LogTypes, LogOrder, RingOrder, StoreOrder, logVars
<1>10. QueueInv'
  BY <1>1 DEF LogPart, QueueInv, Announced, logVars, escalationVars
<1>11. RingGrows
  BY <1>1, LogStands DEF LogPart, logVars
<1> QED
  BY <1>8, <1>9, <1>10, <1>11 DEF LogPart

LEMMA ForgetStep ==
  ASSUME LogPart, NEW t \in Tickets, Forget(t)
  PROVE  LogPart' /\ RingGrows
<1> DEFINE P == {i \in DOMAIN queue : queue[i].ticket # t}
<1>1. /\ recency' = OthersThan(t) /\ queue' = Picked(queue, P)
      /\ unlogged' = unlogged /\ UNCHANGED logVars
      /\ RecencyInv /\ QueueInv
  BY DEF Forget, LogPart
<1>2. RecencyInv'
  <2>1. /\ OthersThan(t) \in Seq(Tickets)
        /\ \A i, j \in DOMAIN OthersThan(t) : OthersThan(t)[i] = OthersThan(t)[j] => i = j
    BY <1>1, OthersList
  <2> DEFINE others == OthersThan(t)
  <2> HIDE DEF others
  <2>2. /\ others \in Seq(Tickets) /\ recency' = others
        /\ \A i, j \in DOMAIN others : others[i] = others[j] => i = j
    BY <1>1, <2>1 DEF others
  <2> QED
    BY <2>2 DEF RecencyInv
<1>3. P \in SUBSET DOMAIN queue /\ queue \in Seq(Entries) /\ Len(queue) \in Nat
  BY <1>1, QueueMembers
<1> HIDE DEF P
<1>4. /\ queue' \in Seq(Entries) /\ Len(queue') <= Len(queue)
      /\ DOMAIN queue' = 1 .. Cardinality(P)
      /\ \E pos \in [1 .. Cardinality(P) -> P] :
           \A j \in 1 .. Cardinality(P) : queue'[j] = queue[pos[j]]
  BY <1>1, <1>3, PickedFrom
<1>5. PICK pos \in [1 .. Cardinality(P) -> P] :
        \A j \in 1 .. Cardinality(P) : queue'[j] = queue[pos[j]]
  BY <1>4
<1>6. file' = file /\ buffer' = buffer /\ emitted' = emitted
  BY <1>1 DEF logVars
<1>7. ASSUME NEW i \in DOMAIN queue'
      PROVE  \E x \in Entries : queue'[i] = x /\ (x \in unlogged' \/ Announced(x)')
  <2>1. pos[i] \in DOMAIN queue /\ queue'[i] = queue[pos[i]]
    BY <1>3, <1>4, <1>5
  <2>2. PICK x \in Entries : x = queue[pos[i]]
    BY <1>1, <2>1, QueueMembers
  <2>3. x \in unlogged \/ Announced(x)
    BY <1>1, <2>1, <2>2 DEF QueueInv
  <2>4. Announced(x) => Announced(x)'
    BY <1>6 DEF Announced
  <2> QED
    BY <1>1, <2>1, <2>2, <2>3, <2>4
<1>8. Len(queue') <= QueueCapacity
  <2>1. Len(queue') \in Nat
    BY <1>4
  <2>2. Len(queue) <= QueueCapacity /\ QueueCapacity \in Nat
    BY <1>1, EventLogAssumption DEF QueueInv
  <2> QED
    BY <1>3, <1>4, <2>1, <2>2
<1>9. QueueInv'
  <2>1. unlogged' \subseteq Entries /\ \A e \in unlogged' : e.id <= emitted' + 1
    BY <1>1, <1>6 DEF QueueInv
  <2> QED
    BY <1>4, <1>7, <1>8, <2>1, QueueKeeps
<1>10. LogTypes' /\ LogOrder'
  BY <1>1 DEF LogPart, LogTypes, LogOrder, RingOrder, StoreOrder, logVars
<1>11. RingGrows
  BY <1>1, LogStands DEF LogPart, logVars
<1> QED
  BY <1>2, <1>9, <1>10, <1>11 DEF LogPart

LEMMA DaemonStepKeeps ==
  ASSUME LogPart, DaemonStep
  PROVE  LogPart' /\ RingGrows
<1>1. ASSUME NEW t \in Talkers, TicketEvent(t) PROVE LogPart' /\ RingGrows
  <2>1. t \in Tickets
    BY TuiAssumption
  <2> QED
    BY <1>1, <2>1, EmitStep DEF TicketEvent, Writers, Kinds
<1> QED
  BY <1>1, TouchStep, LogEscalationStep, EscalateStep, ForgetStep, RestartStep, PersistStep
     DEF DaemonStep

LEMMA LoggedKeeps ==
  ASSUME LogPart, NEW kind \in Kinds, Logged(kind), UNCHANGED <<escalationVars, recency>>
  PROVE  LogPart' /\ RingGrows
<1>1. CASE LogRequest(kind)
  BY <1>1, LogRequestStep
<1>2. CASE UNCHANGED logVars
  BY <1>2, UnchangedStep DEF logVars
<1> QED
  BY <1>1, <1>2 DEF Logged
-----------------------------------------------------------------------------
(* The terminal UI. *)
UiPart == UiTypes /\ RefreshInv /\ AcksAreListed

LEMMA Sent ==
  ASSUME NEW u, channel \in Seq(ToSet(channel)), channel' = Append(channel, u)
  PROVE  /\ channel' \in Seq(ToSet(channel')) /\ Len(channel) \in Nat
         /\ Len(channel') = Len(channel) + 1
         /\ DOMAIN channel = 1 .. Len(channel) /\ DOMAIN channel' = 1 .. Len(channel) + 1
         /\ \A p \in 1 .. Len(channel) : channel'[p] = channel[p]
         /\ channel'[Len(channel) + 1] = u
<1> DEFINE S == ToSet(channel) \cup {u}
<1>1. channel \in Seq(S) /\ u \in S
  <2>1. ToSet(channel) \subseteq S
    OBVIOUS
  <2> HIDE DEF S
  <2>2. channel \in Seq(S)
    BY <2>1, SeqMonotonic
  <2> QED
    BY <2>2 DEF S
<1> HIDE DEF S
<1>2. /\ channel' \in Seq(S) /\ Len(channel') = Len(channel) + 1
      /\ \A p \in 1 .. Len(channel) : channel'[p] = channel[p]
      /\ channel'[Len(channel) + 1] = u
  BY <1>1, AppendProperties
<1>3. channel' \in Seq(ToSet(channel'))
  BY <1>2, OwnRange
<1>4. /\ Len(channel) \in Nat
      /\ DOMAIN channel = 1 .. Len(channel) /\ DOMAIN channel' = 1 .. Len(channel) + 1
  BY <1>1, <1>2
<1> QED
  BY <1>2, <1>3, <1>4

LEMMA Taken ==
  ASSUME channel \in Seq(ToSet(channel)), channel # <<>>, channel' = Tail(channel)
  PROVE  /\ channel' \in Seq(ToSet(channel')) /\ Len(channel) \in Nat \ {0}
         /\ Len(channel') = Len(channel) - 1 /\ Head(channel) = channel[1]
         /\ DOMAIN channel = 1 .. Len(channel) /\ DOMAIN channel' = 1 .. Len(channel) - 1
         /\ \A p \in 1 .. Len(channel) - 1 : channel'[p] = channel[p + 1]
<1> DEFINE S == ToSet(channel)
<1>1. channel \in Seq(S)
  OBVIOUS
<1> HIDE DEF S
<1>2. /\ channel' \in Seq(S) /\ Len(channel') = Len(channel) - 1
      /\ \A p \in 1 .. Len(channel') : channel'[p] = channel[p + 1]
  BY <1>1, HeadTailProperties
<1>3. channel' \in Seq(ToSet(channel'))
  BY <1>2, OwnRange
<1>4. /\ Len(channel) \in Nat \ {0} /\ Head(channel) = channel[1]
      /\ DOMAIN channel = 1 .. Len(channel)
  BY <1>1, EmptySeq
<1>5. DOMAIN channel' = 1 .. Len(channel) - 1
  BY <1>2
<1> QED
  BY <1>2, <1>3, <1>4, <1>5

LEMMA AsksKeep ==
  ASSUME UiPart, UNCHANGED <<cursor, channel, viewVars>>,
         at' \in [Sources -> {"idle", "asked", "acked", "answered"}],
         DOMAIN answer' = Sources,
         \A s \in Sources : at'[s] # "idle" => IsAnswer(s, answer'[s]),
         at'["refresh"] # "idle" <=> at["refresh"] # "idle"
  PROVE  UiPart'
<1>1. UiTypes'
  BY DEF UiPart, UiTypes, viewVars
<1>2. RefreshInv'
  BY DEF UiPart, RefreshInv, viewVars
<1>3. AcksAreListed'
  BY DEF UiPart, AcksAreListed, viewVars
<1> QED
  BY <1>1, <1>2, <1>3 DEF UiPart

LEMMA AskKeeps ==
  ASSUME UiPart, NEW s \in Sources \ {"refresh"}, NEW a, Ask(s, a), IsAnswer(s, a)
  PROVE  UiPart'
<1>1. /\ at \in [Sources -> {"idle", "asked", "acked", "answered"}]
      /\ DOMAIN answer = Sources
      /\ \A x \in Sources : at[x] # "idle" => IsAnswer(x, answer[x])
  BY DEF UiPart, UiTypes
<1> DEFINE stage == IF Logging THEN "asked" ELSE "answered"
<1>2. /\ at' = [at EXCEPT ![s] = stage] /\ answer' = [answer EXCEPT ![s] = a]
      /\ stage \in {"idle", "asked", "acked", "answered"}
      /\ UNCHANGED <<cursor, channel, viewVars>>
  BY DEF Ask
<1> HIDE DEF stage
<1>3. /\ at' \in [Sources -> {"idle", "asked", "acked", "answered"}] /\ DOMAIN answer' = Sources
      /\ answer'[s] = a
      /\ \A x \in Sources : x # s => at'[x] = at[x] /\ answer'[x] = answer[x]
  BY <1>1, <1>2
<1>4. \A x \in Sources : at'[x] # "idle" => IsAnswer(x, answer'[x])
  BY <1>1, <1>3
<1>5. at'["refresh"] = at["refresh"]
  BY <1>3 DEF Sources
<1> QED
  BY <1>2, <1>3, <1>4, <1>5, AsksKeep

LEMMA MovesOn ==
  ASSUME UiPart, NEW s \in Sources, at[s] # "idle", NEW stage \in {"acked", "answered"},
         at' = [at EXCEPT ![s] = stage],
         answer' = answer \/ answer' = [answer EXCEPT ![s] = Failed],
         UNCHANGED <<cursor, channel, viewVars>>
  PROVE  UiPart'
<1>1. /\ at \in [Sources -> {"idle", "asked", "acked", "answered"}]
      /\ DOMAIN answer = Sources
      /\ \A x \in Sources : at[x] # "idle" => IsAnswer(x, answer[x])
  BY DEF UiPart, UiTypes
<1>2. /\ at' \in [Sources -> {"idle", "asked", "acked", "answered"}] /\ DOMAIN answer' = Sources
      /\ at'[s] # "idle"
      /\ \A x \in Sources : x # s => at'[x] = at[x] /\ answer'[x] = answer[x]
      /\ answer'[s] = answer[s] \/ answer'[s] = Failed
  BY <1>1
<1>3. IsAnswer(s, Failed)
  BY DEF IsAnswer, IsError, Failed
<1>4. \A x \in Sources : at'[x] # "idle" => IsAnswer(x, answer'[x])
  BY <1>1, <1>2, <1>3
<1>5. at'["refresh"] # "idle" <=> at["refresh"] # "idle"
  BY <1>2 DEF Sources
<1> QED
  BY <1>2, <1>4, <1>5, AsksKeep

LEMMA DeliverKeeps ==
  ASSUME UiPart, LogTypes, NEW s \in Sources, Deliver(s)
  PROVE  UiPart'
<1> DEFINE u == [source |-> s, body |-> answer[s]]
<1>1. /\ UiTypes /\ RefreshInv /\ AcksAreListed
      /\ at \in [Sources -> {"idle", "asked", "acked", "answered"}]
      /\ DOMAIN answer = Sources
      /\ \A x \in Sources : at[x] # "idle" => IsAnswer(x, answer[x])
      /\ channel \in Seq(ToSet(channel)) /\ Len(channel) <= ChannelSize
      /\ \A p \in DOMAIN channel :
           \/ channel[p].source = "key" /\ channel[p].body \in Keys
           \/ channel[p].source \in Sources /\ IsAnswer(channel[p].source, channel[p].body)
  BY DEF UiPart, UiTypes
<1>2. /\ at[s] = "answered" /\ Len(channel) < ChannelSize /\ ChannelSize \in Nat
      /\ channel' = Append(channel, u)
      /\ cursor' = IF s = "events" THEN NextCursor(answer[s]) ELSE cursor
      /\ at' = [at EXCEPT ![s] = "idle"] /\ answer' = [answer EXCEPT ![s] = Nothing]
      /\ UNCHANGED viewVars
  BY TuiAssumption DEF Deliver
<1>3. u.source = s /\ u.body = answer[s] /\ IsAnswer(s, answer[s])
  BY <1>1, <1>2
<1> HIDE DEF u
<1>4. /\ channel' \in Seq(ToSet(channel')) /\ Len(channel) \in Nat
      /\ Len(channel') = Len(channel) + 1
      /\ DOMAIN channel = 1 .. Len(channel) /\ DOMAIN channel' = 1 .. Len(channel) + 1
      /\ \A p \in 1 .. Len(channel) : channel'[p] = channel[p]
      /\ channel'[Len(channel) + 1] = u
  BY <1>1, <1>2, Sent
<1>5. \A p \in DOMAIN channel' :
        (p \in DOMAIN channel /\ channel'[p] = channel[p]) \/ channel'[p] = u
  BY <1>4
<1>6. /\ at' \in [Sources -> {"idle", "asked", "acked", "answered"}]
      /\ DOMAIN answer' = Sources
      /\ at'[s] = "idle" /\ \A x \in Sources : x # s => at'[x] = at[x] /\ answer'[x] = answer[x]
  BY <1>1, <1>2
<1>7. \A x \in Sources : at'[x] # "idle" => IsAnswer(x, answer'[x])
  BY <1>1, <1>6
<1>8. \A p \in DOMAIN channel' :
        \/ channel'[p].source = "key" /\ channel'[p].body \in Keys
        \/ channel'[p].source \in Sources /\ IsAnswer(channel'[p].source, channel'[p].body)
  BY <1>1, <1>3, <1>5
<1>9. cursor' \in Nat \cup {Anything}
  <2>1. cursor \in Nat \cup {Anything}
    BY <1>1 DEF UiTypes
  <2>2. CASE s = "events" /\ ~IsError(answer[s]) /\ answer[s].nextSince # Anything
    <3>1. /\ answer[s].events \in Seq(Events) /\ answer[s].events # <<>>
          /\ answer[s].nextSince = answer[s].events[Len(answer[s].events)].seq
      BY <1>3, <2>2 DEF IsAnswer
    <3> DEFINE page == answer[s].events
    <3> HIDE DEF page
    <3>2. page \in Seq(Events) /\ page # <<>> /\ answer[s].nextSince = page[Len(page)].seq
      BY <3>1 DEF page
    <3>3. Len(page) \in DOMAIN page
      BY <3>2
    <3>4. answer[s].nextSince \in Nat
      BY <3>2, <3>3, EventsIn
    <3> QED
      BY <1>2, <2>2, <3>4 DEF NextCursor
  <2> QED
    BY <1>2, <2>1, <2>2 DEF NextCursor
<1>10. Len(channel') <= ChannelSize
  BY <1>2, <1>4
<1>11. UiTypes'
  BY <1>1, <1>2, <1>4, <1>6, <1>7, <1>8, <1>9, <1>10 DEF UiTypes, viewVars
<1>12. RefreshInv'
  <2>1. CASE s = "refresh"
    <3>1. /\ at["refresh"] # "idle" /\ refresh' = "inflight"
          /\ \A p \in DOMAIN channel : channel[p].source # "refresh"
      BY <1>1, <1>2, <2>1 DEF RefreshInv, viewVars
    <3>2. \A p \in DOMAIN channel' : channel'[p].source = "refresh" => p = Len(channel) + 1
      BY <1>4, <3>1
    <3>3. Len(channel) + 1 \in DOMAIN channel' /\ channel'[Len(channel) + 1].source = "refresh"
      BY <1>3, <1>4, <2>1
    <3> QED
      BY <1>6, <2>1, <3>1, <3>2, <3>3 DEF RefreshInv
  <2>2. CASE s # "refresh"
    <3>1. at'["refresh"] = at["refresh"] /\ refresh' = refresh
      BY <1>2, <1>6, <2>2 DEF Sources, viewVars
    <3>2. \A p \in DOMAIN channel' :
            channel'[p].source = "refresh" => p \in DOMAIN channel /\ channel[p].source = "refresh"
      BY <1>3, <1>5, <2>2
    <3>3. \A p \in DOMAIN channel : p \in DOMAIN channel' /\ channel'[p] = channel[p]
      BY <1>4
    <3> QED
      BY <1>1, <3>1, <3>2, <3>3 DEF RefreshInv
  <2> QED
    BY <2>1, <2>2
<1>13. AcksAreListed'
  BY <1>1, <1>2 DEF AcksAreListed, viewVars
<1> QED
  BY <1>11, <1>12, <1>13 DEF UiPart

LEMMA PressKeeps ==
  ASSUME UiPart, NEW k \in Keys, Press(k)
  PROVE  UiPart'
<1> DEFINE u == [source |-> "key", body |-> k]
<1>1. /\ UiTypes /\ RefreshInv /\ AcksAreListed
      /\ channel \in Seq(ToSet(channel))
      /\ \A p \in DOMAIN channel :
           \/ channel[p].source = "key" /\ channel[p].body \in Keys
           \/ channel[p].source \in Sources /\ IsAnswer(channel[p].source, channel[p].body)
  BY DEF UiPart, UiTypes
<1>2. /\ Len(channel) < ChannelSize /\ ChannelSize \in Nat
      /\ channel' = Append(channel, u)
      /\ UNCHANGED <<pollVars, viewVars>>
  BY TuiAssumption DEF Press
<1>3. u.source = "key" /\ u.body = k
  OBVIOUS
<1> HIDE DEF u
<1>4. /\ channel' \in Seq(ToSet(channel')) /\ Len(channel) \in Nat
      /\ Len(channel') = Len(channel) + 1
      /\ DOMAIN channel = 1 .. Len(channel) /\ DOMAIN channel' = 1 .. Len(channel) + 1
      /\ \A p \in 1 .. Len(channel) : channel'[p] = channel[p]
      /\ channel'[Len(channel) + 1] = u
  BY <1>1, <1>2, Sent
<1>5. \A p \in DOMAIN channel' :
        (p \in DOMAIN channel /\ channel'[p] = channel[p]) \/ channel'[p] = u
  BY <1>4
<1>6. \A p \in DOMAIN channel' :
        \/ channel'[p].source = "key" /\ channel'[p].body \in Keys
        \/ channel'[p].source \in Sources /\ IsAnswer(channel'[p].source, channel'[p].body)
  BY <1>1, <1>3, <1>5
<1>7. Len(channel') <= ChannelSize
  BY <1>2, <1>4
<1>8. UiTypes'
  BY <1>1, <1>2, <1>4, <1>6, <1>7 DEF UiTypes, pollVars, viewVars
<1>9. RefreshInv'
  <2>1. at' = at /\ refresh' = refresh
    BY <1>2 DEF pollVars, viewVars
  <2>2. \A p \in DOMAIN channel' :
          channel'[p].source = "refresh" => p \in DOMAIN channel /\ channel[p].source = "refresh"
    BY <1>3, <1>5
  <2>3. \A p \in DOMAIN channel : p \in DOMAIN channel' /\ channel'[p] = channel[p]
    BY <1>4
  <2> QED
    BY <1>1, <2>1, <2>2, <2>3 DEF RefreshInv
<1>10. AcksAreListed'
  BY <1>1, <1>2 DEF AcksAreListed, viewVars
<1> QED
  BY <1>8, <1>9, <1>10 DEF UiPart
(* What the App makes of an update. *)
ViewTypes ==
  /\ wanted \in Tickets \cup {Anything}
  /\ view \in {"tickets", "detail", "escalations"}
  /\ refresh \in {"idle", "inflight", "debounced", "expired"}
  /\ DOMAIN rows = {"tickets", "events", "escalations"}
  /\ rows.tickets \in Seq(Tickets) /\ rows.escalations \in Seq(Entries)
  /\ rows.events \in Seq(Events) /\ Len(rows.events) <= MaxRows
  /\ DOMAIN selected = {"tickets", "escalations"}
  /\ \A l \in DOMAIN selected :
       \/ selected[l] \in DOMAIN rows[l]
       \/ selected[l] = 1 /\ rows[l] = <<>>

LEMMA LastKept ==
  ASSUME NEW S, NEW s \in Seq(S)
  PROVE  /\ LastRows(s) \in Seq(S) /\ Len(LastRows(s)) <= MaxRows
         /\ \E d \in 0 .. Len(s) :
              /\ Len(LastRows(s)) = Len(s) - d /\ Len(s) - d \in Nat
              /\ d > 0 => Len(s) - d >= 1
              /\ \A i \in 1 .. Len(s) - d : LastRows(s)[i] = s[i + d]
<1>1. MaxRows \in Nat \ {0} /\ Len(s) \in Nat /\ \A i \in 1 .. Len(s) : s[i] \in S
  BY TuiAssumption
<1>2. CASE Len(s) > MaxRows
  <2> DEFINE m == Len(s) - MaxRows + 1
             n == Len(s)
  <2>1. LastRows(s) = SubSeq(s, m, n)
    BY <1>2 DEF LastRows
  <2>2. m \in Int /\ n \in Int /\ m <= n /\ m >= 1 /\ n - m + 1 = MaxRows
    BY <1>1, <1>2
  <2>3. \A i \in m .. n : s[i] \in S
    BY <1>1, <2>2
  <2> HIDE DEF m, n
  <2>4. /\ SubSeq(s, m, n) \in Seq(S)
        /\ Len(SubSeq(s, m, n)) = IF m <= n THEN n - m + 1 ELSE 0
        /\ \A i \in 1 .. n - m + 1 : SubSeq(s, m, n)[i] = s[m + i - 1]
    BY <2>2, <2>3, SubSeqProperties
  <2> DEFINE d == m - 1
  <2>5. d \in 0 .. Len(s) /\ Len(s) - d = MaxRows
    BY <1>1, <2>2 DEF m, n
  <2>6. \A i \in 1 .. MaxRows : LastRows(s)[i] = s[i + d]
    <3>1. \A i \in 1 .. MaxRows : i \in 1 .. n - m + 1 /\ m + i - 1 = i + d
      BY <1>1, <2>2
    <3> QED
      BY <2>1, <2>4, <3>1
  <2>7. LastRows(s) \in Seq(S) /\ Len(LastRows(s)) = MaxRows
    BY <2>1, <2>2, <2>4
  <2> HIDE DEF d
  <2>8. /\ Len(LastRows(s)) = Len(s) - d /\ Len(s) - d \in Nat
        /\ d > 0 => Len(s) - d >= 1
        /\ \A i \in 1 .. Len(s) - d : LastRows(s)[i] = s[i + d]
    BY <1>1, <2>5, <2>6, <2>7
  <2> QED
    BY <1>1, <2>5, <2>7, <2>8
<1>3. CASE ~(Len(s) > MaxRows)
  <2>1. LastRows(s) = s
    BY <1>3 DEF LastRows
  <2>2. \A d : d = 0 =>
          /\ d \in 0 .. Len(s) /\ Len(s) = Len(s) - d /\ Len(s) - d \in Nat
          /\ ~(d > 0) /\ \A i \in 1 .. Len(s) - d : s[i] = s[i + d]
    BY <1>1
  <2>3. Len(s) <= MaxRows
    BY <1>1, <1>3
  <2> QED
    BY <2>1, <2>2, <2>3
<1> QED
  BY <1>2, <1>3

LEMMA ClampedIn ==
  ASSUME NEW S, NEW list \in Seq(S), NEW i \in Nat, i >= 1
  PROVE  \/ Clamped(i, Len(list)) \in DOMAIN list
         \/ Clamped(i, Len(list)) = 1 /\ list = <<>>
<1>1. DOMAIN list = 1 .. Len(list) /\ Len(list) \in Nat
  OBVIOUS
<1>2. Len(list) = 0 => list = <<>>
  OBVIOUS
<1> QED
  BY <1>1, <1>2 DEF Clamped

LEMMA SelectedIn ==
  ASSUME ViewTypes
  PROVE  /\ selected.tickets \in Nat /\ selected.tickets >= 1
         /\ selected.escalations \in Nat /\ selected.escalations >= 1
         /\ Len(rows.tickets) \in Nat /\ Len(rows.escalations) \in Nat
         /\ DOMAIN rows.tickets = 1 .. Len(rows.tickets)
         /\ DOMAIN rows.escalations = 1 .. Len(rows.escalations)
<1>1. rows.tickets \in Seq(Tickets) /\ rows.escalations \in Seq(Entries)
  BY DEF ViewTypes
<1>2. /\ Len(rows.tickets) \in Nat /\ Len(rows.escalations) \in Nat
      /\ DOMAIN rows.tickets = 1 .. Len(rows.tickets)
      /\ DOMAIN rows.escalations = 1 .. Len(rows.escalations)
  BY <1>1
<1>3. /\ selected.tickets \in DOMAIN rows.tickets \/ selected.tickets = 1
      /\ selected.escalations \in DOMAIN rows.escalations \/ selected.escalations = 1
  BY DEF ViewTypes
<1> QED
  BY <1>2, <1>3

LEMMA ApplyCases ==
  ASSUME NEW u, u.source \in Sources, Apply(u)
  PROVE  \/ IsError(u.body) /\ ApplyError(u.source)
         \/ ~IsError(u.body) /\ u.source = "tickets" /\ ApplyTickets(u.body.list)
         \/ ~IsError(u.body) /\ u.source = "events" /\ MergePage(u.body)
         \/ ~IsError(u.body) /\ u.source = "escalations" /\ ApplyEscalations(u.body.list)
         \/ ~IsError(u.body) /\ u.source = "detail" /\ ApplyDetail(u.body)
         \/ ~IsError(u.body) /\ u.source = "refresh" /\ ApplyRefreshAck
<1> USE DEF Apply
<1>1. CASE IsError(u.body)
  BY <1>1
<1>2. CASE ~IsError(u.body) /\ u.source = "tickets"
  BY <1>2
<1>3. CASE ~IsError(u.body) /\ u.source = "events"
  BY <1>3
<1>4. CASE ~IsError(u.body) /\ u.source = "escalations"
  BY <1>4
<1>5. CASE ~IsError(u.body) /\ u.source = "detail"
  BY <1>5
<1>6. CASE ~IsError(u.body) /\ u.source = "refresh"
  BY <1>6
<1> QED
  BY <1>1, <1>2, <1>3, <1>4, <1>5, <1>6 DEF Sources

LEMMA HandleCases ==
  ASSUME NEW k \in Keys, k # "q", Handle(k)
  PROVE  \/ Enter \/ Down \/ Up \/ StartRefresh \/ ToggleAck
         \/ FocusView("tickets") \/ FocusView("escalations")
<1>1. CASE k = "enter"
  BY <1>1 DEF Handle
<1>2. CASE k = "down"
  BY <1>2 DEF Handle
<1>3. CASE k = "up"
  BY <1>3 DEF Handle
<1>4. CASE k = "r"
  BY <1>4 DEF Handle
<1>5. CASE k = "a"
  BY <1>5 DEF Handle
<1>6. CASE k = "1"
  BY <1>6 DEF Handle
<1>7. CASE k = "4"
  BY <1>7 DEF Handle
<1> QED
  BY <1>1, <1>2, <1>3, <1>4, <1>5, <1>6, <1>7 DEF Keys

(* An answer is applied: the views stay well-formed.                       *)
LEMMA ApplyKeeps ==
  ASSUME ViewTypes, AcksAreListed, NEW u, u.source \in Sources, IsAnswer(u.source, u.body), Apply(u)
  PROVE  /\ ViewTypes' /\ AcksAreListed'
         /\ u.source = "refresh" => refresh' \in {"idle", "debounced"}
         /\ u.source # "refresh" => refresh' = refresh
<1>0. /\ wanted \in Tickets \cup {Anything}
      /\ view \in {"tickets", "detail", "escalations"}
      /\ refresh \in {"idle", "inflight", "debounced", "expired"}
      /\ DOMAIN rows = {"tickets", "events", "escalations"}
      /\ rows.tickets \in Seq(Tickets) /\ rows.escalations \in Seq(Entries)
      /\ rows.events \in Seq(Events) /\ Len(rows.events) <= MaxRows
      /\ DOMAIN selected = {"tickets", "escalations"}
      /\ \A l \in DOMAIN selected :
           \/ selected[l] \in DOMAIN rows[l]
           \/ selected[l] = 1 /\ rows[l] = <<>>
  BY DEF ViewTypes
<1>1. CASE IsError(u.body) /\ ApplyError(u.source)
  <2>1. /\ refresh' = IF u.source = "refresh" THEN "idle" ELSE refresh
        /\ UNCHANGED <<view, rows, selected, gapPending, acked, shown, wanted>>
    BY <1>1 DEF ApplyError
  <2>2. refresh' \in {"idle", "inflight", "debounced", "expired"}
    BY <1>0, <2>1
  <2>3. ViewTypes'
    BY <1>0, <2>1, <2>2 DEF ViewTypes
  <2>4. AcksAreListed'
    BY <2>1 DEF AcksAreListed
  <2> QED
    BY <2>1, <2>3, <2>4
<1>2. CASE ~IsError(u.body) /\ u.source = "tickets" /\ ApplyTickets(u.body.list)
  <2> DEFINE list == u.body.list
  <2>1. list \in Seq(Tickets)
    BY <1>2 DEF IsAnswer
  <2>2. /\ rows' = [rows EXCEPT !.tickets = list]
        /\ selected' = [selected EXCEPT !.tickets = Clamped(@, Len(list))]
        /\ UNCHANGED <<view, gapPending, acked, shown, refresh, wanted>>
    BY <1>2 DEF ApplyTickets
  <2> HIDE DEF list
  <2>3. /\ DOMAIN rows' = {"tickets", "events", "escalations"} /\ rows'.tickets = list
        /\ rows'.events = rows.events /\ rows'.escalations = rows.escalations
        /\ DOMAIN selected' = {"tickets", "escalations"}
        /\ selected'.tickets = Clamped(selected.tickets, Len(list))
        /\ selected'.escalations = selected.escalations
    BY <1>0, <2>2
  <2>4. \/ selected'.tickets \in DOMAIN rows'.tickets
        \/ selected'.tickets = 1 /\ rows'.tickets = <<>>
    BY <2>1, <2>3, SelectedIn, ClampedIn
  <2>5. \A l \in DOMAIN selected' :
          \/ selected'[l] \in DOMAIN rows'[l]
          \/ selected'[l] = 1 /\ rows'[l] = <<>>
    BY <1>0, <2>3, <2>4
  <2>6. ViewTypes'
    BY <1>0, <2>1, <2>2, <2>3, <2>5 DEF ViewTypes
  <2>7. AcksAreListed'
    BY <2>2, <2>3 DEF AcksAreListed
  <2> QED
    BY <1>2, <2>2, <2>6, <2>7
<1>3. CASE ~IsError(u.body) /\ u.source = "events" /\ MergePage(u.body)
  <2> DEFINE all == rows.events \o u.body.events
  <2>1. all \in Seq(Events)
    <3>1. u.body.events \in Seq(Events)
      BY <1>3 DEF IsAnswer
    <3> QED
      BY <1>0, <3>1
  <2>2. /\ rows' = [rows EXCEPT !.events = LastRows(all)]
        /\ UNCHANGED <<view, selected, acked, shown, refresh, wanted>>
    BY <1>3 DEF MergePage
  <2> HIDE DEF all
  <2>3. LastRows(all) \in Seq(Events) /\ Len(LastRows(all)) <= MaxRows
    BY <2>1, LastKept
  <2>4. /\ DOMAIN rows' = {"tickets", "events", "escalations"} /\ rows'.tickets = rows.tickets
        /\ rows'.events = LastRows(all) /\ rows'.escalations = rows.escalations
    BY <1>0, <2>2
  <2>5. \A l \in DOMAIN selected' :
          \/ selected'[l] \in DOMAIN rows'[l]
          \/ selected'[l] = 1 /\ rows'[l] = <<>>
    BY <1>0, <2>2, <2>4
  <2>6. ViewTypes'
    BY <1>0, <2>2, <2>3, <2>4, <2>5 DEF ViewTypes
  <2>7. AcksAreListed'
    BY <2>2, <2>4 DEF AcksAreListed
  <2> QED
    BY <1>3, <2>2, <2>6, <2>7
<1>4. CASE ~IsError(u.body) /\ u.source = "escalations" /\ ApplyEscalations(u.body.list)
  <2> DEFINE list == u.body.list
  <2>1. list \in Seq(Entries)
    BY <1>4 DEF IsAnswer
  <2>2. /\ rows' = [rows EXCEPT !.escalations = list]
        /\ selected' = [selected EXCEPT !.escalations = Clamped(@, Len(list))]
        /\ acked' = acked \cap {Key(e) : e \in ToSet(list)}
        /\ UNCHANGED <<view, gapPending, shown, refresh, wanted>>
    BY <1>4 DEF ApplyEscalations
  <2> HIDE DEF list
  <2>3. /\ DOMAIN rows' = {"tickets", "events", "escalations"} /\ rows'.escalations = list
        /\ rows'.events = rows.events /\ rows'.tickets = rows.tickets
        /\ DOMAIN selected' = {"tickets", "escalations"}
        /\ selected'.escalations = Clamped(selected.escalations, Len(list))
        /\ selected'.tickets = selected.tickets
    BY <1>0, <2>2
  <2>4. \/ selected'.escalations \in DOMAIN rows'.escalations
        \/ selected'.escalations = 1 /\ rows'.escalations = <<>>
    BY <2>1, <2>3, SelectedIn, ClampedIn
  <2>5. \A l \in DOMAIN selected' :
          \/ selected'[l] \in DOMAIN rows'[l]
          \/ selected'[l] = 1 /\ rows'[l] = <<>>
    BY <1>0, <2>3, <2>4
  <2>6. ViewTypes'
    BY <1>0, <2>1, <2>2, <2>3, <2>5 DEF ViewTypes
  <2>7. AcksAreListed'
    BY <2>2, <2>3 DEF AcksAreListed
  <2> QED
    BY <1>4, <2>2, <2>6, <2>7
<1>5. CASE ~IsError(u.body) /\ u.source = "detail" /\ ApplyDetail(u.body)
  BY <1>0, <1>5 DEF ApplyDetail, ViewTypes, AcksAreListed
<1>6. CASE ~IsError(u.body) /\ u.source = "refresh" /\ ApplyRefreshAck
  BY <1>0, <1>6 DEF ApplyRefreshAck, ViewTypes, AcksAreListed
<1> QED
  BY <1>1, <1>2, <1>3, <1>4, <1>5, <1>6, ApplyCases

LEMMA MoveKeeps ==
  ASSUME ViewTypes, AcksAreListed, NEW i \in Nat, Move(i),
         view \in {"tickets", "escalations"} =>
           i \in DOMAIN rows[Listed] \/ (i = 1 /\ rows[Listed] = <<>>)
  PROVE  /\ ViewTypes' /\ AcksAreListed'
         /\ refresh' = refresh /\ at' = at /\ answer' = answer /\ rows' = rows
<1>1. /\ UNCHANGED <<at, answer, view, rows, gapPending, acked, shown, refresh, wanted>>
      /\ selected' = IF view \in {"tickets", "escalations"}
                     THEN [selected EXCEPT ![Listed] = i] ELSE selected
  BY DEF Move
<1>2. Listed \in {"tickets", "escalations"} /\ DOMAIN selected = {"tickets", "escalations"}
  BY DEF Listed, ViewTypes
<1>3. DOMAIN selected' = {"tickets", "escalations"}
  BY <1>1, <1>2
<1>4. \A l \in DOMAIN selected' :
        \/ selected'[l] \in DOMAIN rows'[l]
        \/ selected'[l] = 1 /\ rows'[l] = <<>>
  <2>1. CASE view \in {"tickets", "escalations"}
    <3>1. selected'[Listed] = i /\ \A l \in DOMAIN selected : l # Listed => selected'[l] = selected[l]
      BY <1>1, <1>2, <2>1
    <3> QED
      BY <1>1, <1>2, <1>3, <2>1, <3>1 DEF ViewTypes
  <2>2. CASE view \notin {"tickets", "escalations"}
    BY <1>1, <1>2, <2>2 DEF ViewTypes
  <2> QED
    BY <2>1, <2>2
<1>5. ViewTypes'
  BY <1>1, <1>3, <1>4 DEF ViewTypes
<1>6. AcksAreListed'
  BY <1>1 DEF AcksAreListed
<1> QED
  BY <1>1, <1>5, <1>6

LEMMA HandleKeeps ==
  ASSUME ViewTypes, AcksAreListed, NEW k \in Keys, k # "q", Handle(k)
  PROVE  /\ ViewTypes' /\ AcksAreListed' /\ rows' = rows
         /\ \/ refresh' = refresh /\ at' = at /\ answer' = answer
            \/ /\ refresh \in {"idle", "expired"} /\ refresh' = "inflight"
               /\ at' = [at EXCEPT !["refresh"] = "asked"]
               /\ answer' = [answer EXCEPT !["refresh"] = [ack |-> TRUE]]
<1>1. CASE UNCHANGED <<at, answer, viewVars>>
  BY <1>1 DEF ViewTypes, AcksAreListed, viewVars
<1>2. CASE Enter
  <2>1. CASE view # "tickets" \/ selected.tickets > Len(rows.tickets)
    BY <1>1, <1>2, <2>1 DEF Enter
  <2>2. CASE ~(view # "tickets" \/ selected.tickets > Len(rows.tickets))
    <3> DEFINE t == rows.tickets[selected.tickets]
    <3>1. t \in Tickets
      <4>1. selected.tickets \in 1 .. Len(rows.tickets) /\ rows.tickets \in Seq(Tickets)
        BY <2>2, SelectedIn DEF ViewTypes
      <4> QED
        BY <4>1
    <3>2. /\ wanted' = t /\ view' = "detail"
          /\ UNCHANGED <<at, answer, rows, selected, gapPending, acked, refresh>>
      BY <1>2, <2>2 DEF Enter
    <3> HIDE DEF t
    <3> QED
      BY <3>1, <3>2 DEF ViewTypes, AcksAreListed
  <2> QED
    BY <2>1, <2>2
<1>3. CASE Down
  <2> DEFINE i == IF selected[Listed] < Len(rows[Listed])
                  THEN selected[Listed] + 1 ELSE selected[Listed]
  <2>1. i \in Nat /\ (i \in DOMAIN rows[Listed] \/ (i = 1 /\ rows[Listed] = <<>>))
    <3>1. Listed \in DOMAIN selected
      BY DEF Listed, ViewTypes
    <3>2. /\ selected[Listed] \in DOMAIN rows[Listed] \/ (selected[Listed] = 1 /\ rows[Listed] = <<>>)
          /\ selected[Listed] \in Nat /\ selected[Listed] >= 1
          /\ Len(rows[Listed]) \in Nat /\ DOMAIN rows[Listed] = 1 .. Len(rows[Listed])
      BY <3>1, SelectedIn DEF Listed, ViewTypes
    <3>3. rows[Listed] = <<>> => Len(rows[Listed]) = 0
      OBVIOUS
    <3> QED
      BY <3>2, <3>3
  <2>2. Move(i)
    BY <1>3 DEF Down
  <2> HIDE DEF i
  <2> QED
    BY <2>1, <2>2, MoveKeeps
<1>4. CASE Up
  <2> DEFINE i == IF selected[Listed] > 1 THEN selected[Listed] - 1 ELSE 1
  <2>1. i \in Nat /\ (i \in DOMAIN rows[Listed] \/ (i = 1 /\ rows[Listed] = <<>>))
    <3>1. Listed \in DOMAIN selected
      BY DEF Listed, ViewTypes
    <3>2. /\ selected[Listed] \in DOMAIN rows[Listed] \/ (selected[Listed] = 1 /\ rows[Listed] = <<>>)
          /\ selected[Listed] \in Nat /\ selected[Listed] >= 1
          /\ Len(rows[Listed]) \in Nat /\ DOMAIN rows[Listed] = 1 .. Len(rows[Listed])
      BY <3>1, SelectedIn DEF Listed, ViewTypes
    <3> QED
      BY <3>2
  <2>2. Move(i)
    BY <1>4 DEF Up
  <2> HIDE DEF i
  <2> QED
    BY <2>1, <2>2, MoveKeeps
<1>5. CASE StartRefresh
  BY <1>1, <1>5 DEF StartRefresh, ViewTypes, AcksAreListed
<1>6. CASE ToggleAck
  <2> DEFINE list == rows.escalations
             i == selected.escalations
             more == acked \cup {Key(list[i])}
  <2>1. /\ UNCHANGED <<at, answer, view, rows, selected, gapPending, shown, refresh, wanted>>
        /\ acked' \subseteq acked \/ (~(i > Len(list)) /\ acked' = more)
    BY <1>6 DEF ToggleAck
  <2>2. acked' \subseteq {Key(e) : e \in ToSet(list)}
    <3>1. CASE acked' \subseteq acked
      BY <3>1 DEF AcksAreListed
    <3>2. CASE ~(i > Len(list)) /\ acked' = more
      <4>1. i \in DOMAIN list
        BY <3>2, SelectedIn
      <4>2. list[i] \in ToSet(list)
        BY <4>1 DEF ToSet
      <4> HIDE DEF list, i
      <4>3. Key(list[i]) \in {Key(e) : e \in ToSet(list)}
        BY <4>2
      <4> QED
        BY <3>2, <4>3 DEF AcksAreListed, list
    <3> QED
      BY <2>1, <3>1, <3>2
  <2> HIDE DEF list, i, more
  <2>3. AcksAreListed'
    BY <2>1, <2>2 DEF AcksAreListed, list
  <2>4. ViewTypes'
    BY <2>1 DEF ViewTypes
  <2> QED
    BY <2>1, <2>3, <2>4
<1>7. CASE FocusView("tickets") \/ FocusView("escalations")
  BY <1>7 DEF FocusView, ViewTypes, AcksAreListed
<1> QED
  BY <1>2, <1>3, <1>4, <1>5, <1>6, <1>7, HandleCases

LEMMA TakeKeeps ==
  ASSUME UiPart, TakeUpdate
  PROVE  UiPart'
<1> DEFINE u == channel[1]
<1>1. /\ UiTypes /\ RefreshInv /\ AcksAreListed /\ ViewTypes
      /\ channel \in Seq(ToSet(channel)) /\ Len(channel) <= ChannelSize
      /\ \A p \in DOMAIN channel :
           \/ channel[p].source = "key" /\ channel[p].body \in Keys
           \/ channel[p].source \in Sources /\ IsAnswer(channel[p].source, channel[p].body)
  BY DEF UiPart, UiTypes, ViewTypes
<1>2. channel # <<>> /\ channel' = Tail(channel) /\ cursor' = cursor
  BY DEF TakeUpdate
<1>3. /\ channel' \in Seq(ToSet(channel')) /\ Len(channel) \in Nat \ {0}
      /\ Len(channel') = Len(channel) - 1 /\ Head(channel) = channel[1]
      /\ DOMAIN channel = 1 .. Len(channel) /\ DOMAIN channel' = 1 .. Len(channel) - 1
      /\ \A p \in 1 .. Len(channel) - 1 : channel'[p] = channel[p + 1]
  BY <1>1, <1>2, Taken
<1>4. 1 \in DOMAIN channel
  BY <1>3
<1>5. \/ u.source = "key" /\ u.body \in Keys
      \/ u.source \in Sources /\ IsAnswer(u.source, u.body)
  BY <1>1, <1>4
<1>6. \/ u.source # "key" /\ Apply(u) /\ UNCHANGED <<at, answer>>
      \/ u.source = "key" /\ u.body # "q" /\ Handle(u.body)
      \/ u.source = "key" /\ UNCHANGED <<at, answer, viewVars>>
  BY <1>3 DEF TakeUpdate
<1>7. Len(channel') <= ChannelSize
  <2>1. Len(channel) \in Nat /\ ChannelSize \in Nat
    BY <1>3, TuiAssumption
  <2> QED
    BY <1>1, <1>3, <2>1
<1>8. \A p \in DOMAIN channel' : p + 1 \in DOMAIN channel /\ channel'[p] = channel[p + 1]
  BY <1>3
<1>9. \A p \in DOMAIN channel' :
        \/ channel'[p].source = "key" /\ channel'[p].body \in Keys
        \/ channel'[p].source \in Sources /\ IsAnswer(channel'[p].source, channel'[p].body)
  BY <1>1, <1>8
<1>10. \A p \in DOMAIN channel : p # 1 => p - 1 \in DOMAIN channel' /\ channel'[p - 1] = channel[p]
  BY <1>3
<1>11. ASSUME at' = at, answer' = answer, ViewTypes' PROVE UiTypes'
  BY <1>1, <1>2, <1>3, <1>7, <1>9, <1>11 DEF UiTypes, ViewTypes
<1>12. ASSUME u.source # "refresh", at'["refresh"] = at["refresh"], refresh' = refresh
       PROVE  RefreshInv'
  <2>1. \A p, q \in DOMAIN channel' :
          channel'[p].source = "refresh" /\ channel'[q].source = "refresh" => p = q
    <3> SUFFICES ASSUME NEW p \in DOMAIN channel', NEW q \in DOMAIN channel',
                        channel'[p].source = "refresh", channel'[q].source = "refresh"
                 PROVE  p = q
      OBVIOUS
    <3>1. p + 1 = q + 1
      BY <1>1, <1>8 DEF RefreshInv
    <3> QED
      BY <1>3, <3>1
  <2>2. (\E p \in DOMAIN channel' : channel'[p].source = "refresh")
          <=> \E p \in DOMAIN channel : channel[p].source = "refresh"
    BY <1>8, <1>10, <1>12
  <2>3. /\ at["refresh"] # "idle" =>
             refresh = "inflight" /\ \A p \in DOMAIN channel : channel[p].source # "refresh"
        /\ refresh = "inflight" <=>
             at["refresh"] # "idle" \/ \E p \in DOMAIN channel : channel[p].source = "refresh"
    BY <1>1 DEF RefreshInv
  <2> QED
    BY <1>12, <2>1, <2>2, <2>3 DEF RefreshInv
<1>13. CASE u.source # "key" /\ Apply(u) /\ UNCHANGED <<at, answer>>
  <2>1. u.source \in Sources /\ IsAnswer(u.source, u.body)
    BY <1>5, <1>13
  <2> HIDE DEF u
  <2>2. /\ ViewTypes' /\ AcksAreListed'
        /\ u.source = "refresh" => refresh' \in {"idle", "debounced"}
        /\ u.source # "refresh" => refresh' = refresh
    BY <1>1, <1>13, <2>1, ApplyKeeps
  <2>3. CASE u.source = "refresh"
    <3>1. \A p \in DOMAIN channel : channel[p].source = "refresh" => p = 1
      BY <1>1, <1>4, <2>3 DEF RefreshInv, u
    <3>2. \A p \in DOMAIN channel' : channel'[p].source # "refresh"
      BY <1>3, <1>8, <3>1
    <3>3. at["refresh"] = "idle"
      BY <1>1, <1>4, <2>3 DEF RefreshInv, u
    <3>4. RefreshInv'
      BY <1>13, <2>2, <2>3, <3>2, <3>3 DEF RefreshInv
    <3> QED
      BY <1>11, <1>13, <2>2, <3>4 DEF UiPart
  <2>4. CASE u.source # "refresh"
    BY <1>11, <1>12, <1>13, <2>2, <2>4 DEF UiPart
  <2> QED
    BY <2>3, <2>4
<1>14. CASE u.source = "key" /\ u.body # "q" /\ Handle(u.body)
  <2>1. u.body \in Keys
    BY <1>5, <1>14 DEF Sources
  <2> DEFINE k == u.body
  <2>2. k \in Keys /\ k # "q" /\ Handle(k) /\ u.source # "refresh"
    BY <1>14, <2>1
  <2> HIDE DEF k, u
  <2>3. /\ ViewTypes' /\ AcksAreListed'
        /\ \/ refresh' = refresh /\ at' = at /\ answer' = answer
           \/ /\ refresh \in {"idle", "expired"} /\ refresh' = "inflight"
              /\ at' = [at EXCEPT !["refresh"] = "asked"]
              /\ answer' = [answer EXCEPT !["refresh"] = [ack |-> TRUE]]
    BY <1>1, <2>2, HandleKeeps
  <2>4. CASE refresh' = refresh /\ at' = at /\ answer' = answer
    BY <1>11, <1>12, <2>2, <2>3, <2>4 DEF UiPart
  <2>5. CASE /\ refresh \in {"idle", "expired"} /\ refresh' = "inflight"
             /\ at' = [at EXCEPT !["refresh"] = "asked"]
             /\ answer' = [answer EXCEPT !["refresh"] = [ack |-> TRUE]]
    <3>1. at["refresh"] = "idle" /\ \A p \in DOMAIN channel : channel[p].source # "refresh"
      BY <1>1, <2>5 DEF RefreshInv
    <3>2. /\ at \in [Sources -> {"idle", "asked", "acked", "answered"}]
          /\ DOMAIN answer = Sources /\ "refresh" \in Sources
          /\ \A s \in Sources : at[s] # "idle" => IsAnswer(s, answer[s])
      BY <1>1 DEF UiTypes, Sources
    <3>3. /\ at' \in [Sources -> {"idle", "asked", "acked", "answered"}]
          /\ DOMAIN answer' = Sources /\ at'["refresh"] = "asked"
          /\ \A s \in Sources : s # "refresh" => at'[s] = at[s] /\ answer'[s] = answer[s]
      BY <2>5, <3>2
    <3>4. \A s \in Sources : at'[s] # "idle" => IsAnswer(s, answer'[s])
      BY <3>2, <3>3 DEF IsAnswer
    <3>5. UiTypes'
      BY <1>1, <1>2, <1>3, <1>7, <1>9, <2>3, <3>3, <3>4 DEF UiTypes, ViewTypes
    <3>6. \A p \in DOMAIN channel' : channel'[p].source # "refresh"
      BY <1>8, <3>1
    <3>7. RefreshInv'
      BY <2>5, <3>3, <3>6 DEF RefreshInv
    <3> QED
      BY <2>3, <3>5, <3>7 DEF UiPart
  <2> QED
    BY <2>3, <2>4, <2>5
<1>15. CASE u.source = "key" /\ UNCHANGED <<at, answer, viewVars>>
  <2>1. ViewTypes' /\ AcksAreListed' /\ refresh' = refresh
    BY <1>1, <1>15 DEF ViewTypes, AcksAreListed, viewVars
  <2> QED
    BY <1>11, <1>12, <1>15, <2>1 DEF UiPart
<1> QED
  BY <1>6, <1>13, <1>14, <1>15

LEMMA DebounceKeeps ==
  ASSUME UiPart, DebounceEnds
  PROVE  UiPart'
<1>1. /\ refresh = "debounced" /\ refresh' = "expired"
      /\ UNCHANGED <<pollVars, channel, view, rows, selected, acked, wanted>>
  BY DEF DebounceEnds
<1>2. UiTypes'
  BY <1>1 DEF UiPart, UiTypes, pollVars
<1>3. RefreshInv'
  BY <1>1 DEF UiPart, RefreshInv, pollVars
<1>4. AcksAreListed'
  BY <1>1 DEF UiPart, AcksAreListed
<1> QED
  BY <1>2, <1>3, <1>4 DEF UiPart
-----------------------------------------------------------------------------
(* The way of the events to the screen. *)

LEMMA Pages ==
  ASSUME UiTypes
  PROVE  /\ \A p \in DOMAIN channel : PageAt(p) \in Seq(Events)
         /\ Coming \in Seq(Events)
         /\ ToSet(rows.events) \subseteq Events
         /\ \A p : Before(p) \subseteq Events
         /\ Delivered \subseteq Events
<1>1. ASSUME NEW p \in DOMAIN channel PROVE PageAt(p) \in Seq(Events)
  <2>1. CASE IsPage(channel[p].source, channel[p].body)
    <3>1. IsAnswer(channel[p].source, channel[p].body) /\ PageAt(p) = channel[p].body.events
      BY <2>1 DEF UiTypes, IsPage, PageAt
    <3> QED
      BY <2>1, <3>1 DEF IsAnswer, IsPage
  <2>2. CASE ~IsPage(channel[p].source, channel[p].body)
    BY <2>2 DEF PageAt
  <2> QED
    BY <2>1, <2>2
<1>2. Coming \in Seq(Events)
  <2>1. CASE at["events"] # "idle" /\ ~IsError(answer["events"])
    <3>1. IsAnswer("events", answer["events"]) /\ Coming = answer["events"].events
      BY <2>1 DEF UiTypes, Sources, Coming
    <3> QED
      BY <2>1, <3>1 DEF IsAnswer
  <2>2. CASE ~(at["events"] # "idle" /\ ~IsError(answer["events"]))
    BY <2>2 DEF Coming
  <2> QED
    BY <2>1, <2>2
<1>3. ToSet(rows.events) \subseteq Events
  BY OwnRange DEF UiTypes
<1>4. \A q \in DOMAIN channel : ToSet(PageAt(q)) \subseteq Events
  BY <1>1, OwnRange
<1>5. \A p : Before(p) \subseteq Events
  BY <1>3, <1>4 DEF Before
<1> QED
  BY <1>1, <1>2, <1>3, <1>5 DEF Delivered

LEMMA EventIds == \A e \in Events : e.id \in Nat /\ e.seq \in Nat /\ e.boot \in Nat
BY DEF Events

(* What is on its way depends on the channel and the rows alone.           *)
LEMMA SameFlow ==
  ASSUME channel' = channel, rows'.events = rows.events
  PROVE  /\ \A p : PageAt(p)' = PageAt(p) /\ Before(p)' = Before(p)
         /\ Delivered' = Delivered
<1>1. \A p : PageAt(p)' = PageAt(p)
  BY DEF PageAt
<1>2. \A p : Before(p)' = Before(p)
  BY <1>1 DEF Before
<1>3. Delivered' = Delivered
  BY <1>2 DEF Delivered
<1> QED
  BY <1>1, <1>2, <1>3

FlowPart == FlowInv /\ CursorInv

(* The daemon goes on, or the page that was being answered is lost.        *)
LEMMA FlowWaits ==
  ASSUME FlowPart, UiTypes, LogTypes, LogTypes', RingGrows,
         UNCHANGED <<channel, cursor>>, rows'.events = rows.events,
         \/ Coming' = Coming /\ (Coming # <<>> => answer'["events"].gap = answer["events"].gap)
         \/ Coming' = <<>>
  PROVE  FlowPart'
<1>1. /\ \A p : PageAt(p)' = PageAt(p) /\ Before(p)' = Before(p)
      /\ Delivered' = Delivered
  BY SameFlow
<1>2. emitted \in Nat /\ emitted' \in Nat /\ emitted' >= emitted
  BY EventLogAssumption DEF LogTypes, RingGrows
<1>3. /\ ring \in Seq(Events) /\ ring' \in Seq(Events)
      /\ Coming \in Seq(Events) /\ Delivered \subseteq Events
  BY Pages DEF LogTypes
<1>4. /\ \A i \in DOMAIN ring : ring[i].id \in Nat /\ ring[i].seq \in Nat
      /\ \A i \in DOMAIN ring' : ring'[i].id \in Nat /\ ring'[i].seq \in Nat
      /\ \A i \in DOMAIN Coming : Coming[i].id \in Nat /\ Coming[i].seq \in Nat
      /\ \A e \in Delivered : e.id \in Nat
  BY <1>3, EventsIn, EventIds
<1>5. /\ \A e \in Delivered : e.id <= emitted
      /\ \A i \in DOMAIN Coming : Coming[i].id <= emitted
      /\ \A i \in DOMAIN ring :
           /\ cursor # Anything /\ ring[i].seq > cursor =>
                \A e \in Delivered : e.id < ring[i].id
           /\ Coming # <<>> /\ ring[i].seq > Coming[Len(Coming)].seq =>
                \A k \in DOMAIN Coming : Coming[k].id < ring[i].id
  BY DEF FlowPart, FlowInv, CursorInv
<1>6. \A i \in DOMAIN ring' :
        \/ \E k \in DOMAIN ring : ring'[i] = ring[k]
        \/ ring'[i].id > emitted
  BY DEF RingGrows
<1>7. \A e \in Delivered' : e.id <= emitted'
  BY <1>1, <1>2, <1>4, <1>5
<1>8. \A p \in DOMAIN channel' :
        /\ Gapless(PageAt(p)') /\ Younger(PageAt(p)', Before(p)')
        /\ IsPage(channel'[p].source, channel'[p].body) =>
             Joined(PageAt(p)', channel'[p].body.gap, Before(p)')
  BY <1>1 DEF FlowPart, FlowInv
<1>9. ASSUME NEW i \in DOMAIN ring', cursor' # Anything, ring'[i].seq > cursor',
             NEW e \in Delivered'
      PROVE  e.id < ring'[i].id
  <2>1. CASE \E k \in DOMAIN ring : ring'[i] = ring[k]
    BY <1>1, <1>5, <1>9, <2>1
  <2>2. CASE ring'[i].id > emitted
    BY <1>1, <1>2, <1>4, <1>5, <2>2
  <2> QED
    BY <1>6, <2>1, <2>2
<1>10. /\ \A i, j \in DOMAIN rows'.events : i < j => rows'.events[i].id < rows'.events[j].id
       /\ cursor' = Anything => Delivered' = {}
       /\ \A e \in Delivered' : Latest(e, Delivered') => cursor' = e.seq
  BY <1>1 DEF FlowPart, FlowInv, CursorInv
<1>11. CASE Coming' = Coming /\ (Coming # <<>> => answer'["events"].gap = answer["events"].gap)
  <2>1. Gapless(Coming') /\ Younger(Coming', Delivered')
    BY <1>1, <1>11 DEF FlowPart, FlowInv
  <2>2. Coming' # <<>> => Joined(Coming', answer'["events"].gap, Delivered')
    BY <1>1, <1>11 DEF FlowPart, FlowInv
  <2>3. \A i \in DOMAIN Coming' : Coming'[i].id <= emitted'
    BY <1>2, <1>4, <1>5, <1>11
  <2>4. ASSUME NEW i \in DOMAIN ring', Coming' # <<>>,
               ring'[i].seq > Coming'[Len(Coming')].seq, NEW k \in DOMAIN Coming'
        PROVE  Coming'[k].id < ring'[i].id
    <3>1. CASE \E j \in DOMAIN ring : ring'[i] = ring[j]
      BY <1>5, <1>11, <2>4, <3>1
    <3>2. CASE ring'[i].id > emitted
      BY <1>2, <1>4, <1>5, <1>11, <3>2
    <3> QED
      BY <1>6, <3>1, <3>2
  <2>5. FlowInv'
    BY <1>7, <1>8, <1>10, <2>1, <2>2, <2>3 DEF FlowInv
  <2>6. CursorInv'
    BY <1>9, <1>10, <2>4 DEF CursorInv
  <2> QED
    BY <2>5, <2>6 DEF FlowPart
<1>12. CASE Coming' = <<>>
  <2>1. DOMAIN Coming' = {}
    BY <1>12
  <2>2. Gapless(Coming') /\ Younger(Coming', Delivered')
    BY <2>1 DEF Gapless, Younger
  <2>3. FlowInv'
    BY <1>7, <1>8, <1>10, <1>12, <2>1, <2>2 DEF FlowInv
  <2>4. CursorInv'
    BY <1>9, <1>10, <1>12 DEF CursorInv
  <2> QED
    BY <2>3, <2>4 DEF FlowPart
<1> QED
  BY <1>11, <1>12

(* A page is the run of the ring that follows the cursor.                  *)
LEMMA PageOfRing ==
  ASSUME LogTypes, RingOrder, NEW since \in Nat \cup {Anything}
  PROVE  LET page == RingPage(since, Anything, Anything, PageLimit) IN
         /\ page.events \in Seq(Events)
         /\ page.gap \in BOOLEAN
         /\ page.nextSince = IF page.events = <<>> THEN Anything
                             ELSE page.events[Len(page.events)].seq
         /\ \E a \in Nat \ {0} :
              /\ \A j \in DOMAIN page.events :
                   a + j - 1 \in DOMAIN ring /\ page.events[j] = ring[a + j - 1]
              /\ since # Anything =>
                   /\ \A i \in DOMAIN ring : i >= a => ring[i].seq > since
                   /\ page.events # <<>> /\ ~page.gap => page.events[1].seq <= since + 1
<1>1. /\ ring \in Seq(Events) /\ DOMAIN ring = 1 .. Len(ring) /\ Len(ring) \in Nat
      /\ \A i \in DOMAIN ring : ring[i].seq \in Nat /\ ring[i] \in Events
      /\ nextSeq \in Int
      /\ \A i \in DOMAIN ring : ring[i].seq + Len(ring) = nextSeq + i - 1
  BY EventsIn DEF LogTypes, RingOrder
<1>2. PageLimit \in Nat \ {0} /\ Anything \notin Nat
  BY EventLogAssumption
<1> DEFINE found == Picked(ring, {i \in DOMAIN ring : since = Anything \/ ring[i].seq > since})
           n == IF Len(found) <= PageLimit THEN Len(found) ELSE PageLimit
           events == SubSeq(found, 1, n)
<1>3. RingPage(since, Anything, Anything, PageLimit) =
        [events |-> events, gap |-> Gap(since),
         nextSince |-> IF events = <<>> THEN Anything ELSE Last(events).seq]
  BY DEF RingPage, Asked
<1> DEFINE T == {i \in Nat : i >= 1 /\ (i = Len(ring) + 1 \/
                                        (i <= Len(ring) /\ (since = Anything \/ ring[i].seq > since)))}
<1>4. PICK a \in T : \A i \in T : a <= i
  <2>1. Len(ring) + 1 \in T /\ T \subseteq Nat
    BY <1>1
  <2> HIDE DEF T
  <2> QED
    BY <2>1, LeastOf
<1>5. a \in 1 .. Len(ring) + 1 /\ a \in Nat \ {0}
  BY <1>1, <1>4
<1>6. \A i \in DOMAIN ring : (since = Anything \/ ring[i].seq > since) <=> i >= a
  <2> SUFFICES ASSUME NEW i \in DOMAIN ring
               PROVE  (since = Anything \/ ring[i].seq > since) <=> i >= a
    OBVIOUS
  <2>1. ASSUME since = Anything \/ ring[i].seq > since PROVE i >= a
    <3>1. i \in T
      BY <1>1, <2>1
    <3> QED
      BY <1>1, <1>4, <3>1
  <2>2. ASSUME i >= a, since # Anything PROVE ring[i].seq > since
    <3>1. a \in DOMAIN ring /\ a <= Len(ring)
      BY <1>1, <1>5, <2>2
    <3>2. ring[a].seq > since
      BY <1>1, <1>4, <2>2, <3>1
    <3>3. /\ ring[a].seq + Len(ring) = nextSeq + a - 1
          /\ ring[i].seq + Len(ring) = nextSeq + i - 1
          /\ ring[a].seq \in Nat /\ ring[i].seq \in Nat
      BY <1>1, <3>1
    <3>4. ring[a].seq <= ring[i].seq
      BY <1>1, <1>5, <2>2, <3>3
    <3> QED
      BY <2>2, <3>2, <3>3, <3>4
  <2> QED
    BY <2>1, <2>2
<1>7. found = Picked(ring, a .. Len(ring))
  <2>1. {i \in DOMAIN ring : since = Anything \/ ring[i].seq > since} = a .. Len(ring)
    BY <1>1, <1>5, <1>6
  <2> QED
    BY <2>1
<1> HIDE DEF found, T
<1>8. /\ found \in Seq(Events) /\ Len(found) = Len(ring) - a + 1
      /\ \A j \in 1 .. Len(ring) - a + 1 : found[j] = ring[a + j - 1]
  BY <1>1, <1>5, <1>7, PickedRun
<1>9. n \in 0 .. Len(found) /\ Len(found) \in Nat
  BY <1>2, <1>8
<1> HIDE DEF n
<1>10. /\ events \in Seq(Events) /\ Len(events) = n /\ DOMAIN events = 1 .. n
       /\ \A j \in 1 .. n : events[j] = found[j]
  BY <1>8, <1>9, Shortened
<1> HIDE DEF events
<1>11. ASSUME NEW j \in DOMAIN events
       PROVE  a + j - 1 \in DOMAIN ring /\ events[j] = ring[a + j - 1]
  <2>1. j \in 1 .. n /\ j \in 1 .. Len(ring) - a + 1
    BY <1>1, <1>5, <1>8, <1>9, <1>10
  <2>2. a + j - 1 \in 1 .. Len(ring)
    BY <1>1, <1>5, <2>1
  <2> QED
    BY <1>1, <1>8, <1>10, <2>1, <2>2
<1>12. Gap(since) \in BOOLEAN
  BY DEF Gap
<1>13. ASSUME since # Anything, events # <<>>, ~Gap(since)
       PROVE  events[1].seq <= since + 1
  <2>1. 1 \in DOMAIN events
    BY <1>10, <1>13
  <2>2. a + 1 - 1 \in DOMAIN ring /\ events[1] = ring[a + 1 - 1]
    BY <1>11, <2>1
  <2>3. a + 1 - 1 = a
    BY <1>5
  <2>4. a \in DOMAIN ring /\ events[1] = ring[a]
    BY <2>2, <2>3
  <2>5. since \in Nat
    BY <1>13
  <2>6. CASE a = 1
    <3>1. ~(since + 1 < ring[1].seq)
      BY <1>13 DEF Gap
    <3> QED
      BY <1>1, <2>4, <2>5, <2>6, <3>1
  <2>7. CASE a # 1
    <3>1. a - 1 \in DOMAIN ring
      BY <1>1, <2>4, <2>7
    <3>2. ~(ring[a - 1].seq > since)
      BY <1>6, <1>13, <3>1, <1>5
    <3>3. ring[a - 1].seq + Len(ring) = nextSeq + (a - 1) - 1
      BY <1>1, <3>1
    <3>4. ring[a].seq + Len(ring) = nextSeq + a - 1
      BY <1>1, <2>4
    <3>5. ring[a - 1].seq \in Nat /\ ring[a].seq \in Nat
      BY <1>1, <2>4, <3>1
    <3> DEFINE s == ring[a].seq
               r == ring[a - 1].seq
    <3> HIDE DEF s, r
    <3>6. /\ s \in Nat /\ r \in Nat /\ ~(r > since) /\ s + Len(ring) = nextSeq + a - 1
          /\ r + Len(ring) = nextSeq + (a - 1) - 1
      BY <3>2, <3>3, <3>4, <3>5 DEF s, r
    <3>7. s <= since + 1
      BY <1>1, <1>5, <2>5, <3>6
    <3> QED
      BY <2>4, <3>7 DEF s
  <2> QED
    BY <2>6, <2>7
<1>14. since # Anything => \A i \in DOMAIN ring : i >= a => ring[i].seq > since
  BY <1>6
<1> DEFINE page == RingPage(since, Anything, Anything, PageLimit)
<1>15. /\ page.events = events /\ page.gap = Gap(since)
       /\ page.nextSince = IF events = <<>> THEN Anything ELSE events[Len(events)].seq
  BY <1>3 DEF Last
<1> HIDE DEF page
<1>16. /\ page.events \in Seq(Events) /\ page.gap \in BOOLEAN
       /\ page.nextSince = IF page.events = <<>> THEN Anything
                           ELSE page.events[Len(page.events)].seq
       /\ \E b \in Nat \ {0} :
            /\ \A j \in DOMAIN page.events :
                 b + j - 1 \in DOMAIN ring /\ page.events[j] = ring[b + j - 1]
            /\ since # Anything =>
                 /\ \A i \in DOMAIN ring : i >= b => ring[i].seq > since
                 /\ page.events # <<>> /\ ~page.gap => page.events[1].seq <= since + 1
  BY <1>5, <1>10, <1>11, <1>12, <1>13, <1>14, <1>15
<1> QED
  BY <1>16 DEF page
LEMMA AskFlow ==
  ASSUME FlowPart, UiTypes, LogTypes, RingOrder, AskEvents
  PROVE  FlowPart' /\ IsAnswer("events", answer'["events"])
<1> DEFINE page == RingPage(cursor, Anything, Anything, PageLimit)
           events == page.events
<1>1. cursor \in Nat \cup {Anything} /\ DOMAIN answer = Sources
      /\ at \in [Sources -> {"idle", "asked", "acked", "answered"}] /\ "events" \in Sources
  BY DEF UiTypes, Sources
<1>2. /\ at' = [at EXCEPT !["events"] = IF Logging THEN "asked" ELSE "answered"]
      /\ answer' = [answer EXCEPT !["events"] = page]
      /\ UNCHANGED <<ring, emitted, channel, cursor, rows>>
  BY DEF AskEvents, Ask, eventLogVars, logVars, viewVars
<1>3. ~IsError(page)
  <2>1. DOMAIN page = {"events", "gap", "nextSince"}
    BY DEF RingPage
  <2> HIDE DEF page
  <2> QED
    BY <2>1 DEF IsError
<1>4. /\ page.events \in Seq(Events) /\ page.gap \in BOOLEAN
      /\ page.nextSince = IF page.events = <<>> THEN Anything
                          ELSE page.events[Len(page.events)].seq
      /\ \E a \in Nat \ {0} :
           /\ \A j \in DOMAIN page.events :
                a + j - 1 \in DOMAIN ring /\ page.events[j] = ring[a + j - 1]
           /\ cursor # Anything =>
                /\ \A i \in DOMAIN ring : i >= a => ring[i].seq > cursor
                /\ page.events # <<>> /\ ~page.gap => page.events[1].seq <= cursor + 1
  BY <1>1, PageOfRing
<1> HIDE DEF page
<1>5. at'["events"] # "idle" /\ answer'["events"] = page
  BY <1>1, <1>2
<1>6. Coming' = events
  BY <1>3, <1>5 DEF Coming
<1>7. IsAnswer("events", answer'["events"])
  BY <1>4, <1>5 DEF IsAnswer
<1>8. events \in Seq(Events)
  BY <1>4
<1>9. PICK a \in Nat \ {0} :
        /\ \A j \in DOMAIN events : a + j - 1 \in DOMAIN ring /\ events[j] = ring[a + j - 1]
        /\ cursor # Anything =>
             /\ \A i \in DOMAIN ring : i >= a => ring[i].seq > cursor
             /\ events # <<>> /\ ~page.gap => events[1].seq <= cursor + 1
  BY <1>4
<1> HIDE DEF events
<1>10. /\ ring \in Seq(Events) /\ Len(ring) \in Nat /\ nextSeq \in Int /\ DOMAIN ring = 1 .. Len(ring)
       /\ \A i \in DOMAIN ring :
            /\ ring[i].seq \in Nat /\ ring[i].id \in Nat
            /\ ring[i].seq + Len(ring) = nextSeq + i - 1 /\ ring[i].boot = boot
            /\ ring[i].id <= emitted
       /\ \A i, j \in DOMAIN ring : i < j => ring[i].id < ring[j].id
  BY EventsIn DEF LogTypes, RingOrder
<1>11. DOMAIN events = 1 .. Len(events) /\ Len(events) \in Nat
  BY <1>8
<1>12. /\ \A p : PageAt(p)' = PageAt(p) /\ Before(p)' = Before(p)
       /\ Delivered' = Delivered
  BY <1>2, SameFlow
<1>13. Gapless(events)
  <2> SUFFICES ASSUME NEW i \in DOMAIN events, NEW j \in DOMAIN events
               PROVE  /\ events[i].boot = events[j].boot /\ events[j].seq + i = events[i].seq + j
                      /\ i < j => events[i].id < events[j].id
    BY DEF Gapless
  <2> DEFINE k == a + i - 1
             l == a + j - 1
  <2>1. /\ k \in DOMAIN ring /\ events[i] = ring[k] /\ l \in DOMAIN ring /\ events[j] = ring[l]
        /\ i \in Int /\ j \in Int /\ a \in Int /\ k = a + i - 1 /\ l = a + j - 1
        /\ i < j => k < l
    BY <1>9, <1>11
  <2> HIDE DEF k, l
  <2>2. /\ ring[k].seq \in Nat /\ ring[l].seq \in Nat
        /\ ring[k].seq + Len(ring) = nextSeq + k - 1 /\ ring[l].seq + Len(ring) = nextSeq + l - 1
        /\ ring[k].boot = boot /\ ring[l].boot = boot
        /\ k < l => ring[k].id < ring[l].id
    BY <1>10, <2>1
  <2> DEFINE later == ring[l].seq
             first == ring[k].seq
             size == Len(ring)
  <2> HIDE DEF later, first, size
  <2>3. /\ later \in Int /\ first \in Int /\ size \in Int /\ nextSeq \in Int
        /\ k \in Int /\ l \in Int /\ a \in Int /\ i \in Int /\ j \in Int
        /\ k = a + i - 1 /\ l = a + j - 1
        /\ first + size = nextSeq + k - 1 /\ later + size = nextSeq + l - 1
    <3>1. later \in Int /\ first \in Int /\ size \in Int
      BY <1>10, <2>2 DEF later, first, size
    <3>2. nextSeq \in Int /\ k \in Int /\ l \in Int
      BY <1>10, <2>1
    <3>3. first + size = nextSeq + k - 1 /\ later + size = nextSeq + l - 1
      BY <2>2 DEF later, first, size
    <3> QED
      BY <2>1, <3>1, <3>2, <3>3
  <2>4. later + i = first + j
    BY <2>3
  <2>5. ring[l].seq + i = ring[k].seq + j
    BY <2>4 DEF later, first
  <2> QED
    BY <2>1, <2>2, <2>5
<1>14. /\ cursor = Anything => Delivered = {}
       /\ \A e \in Delivered : Latest(e, Delivered) => cursor = e.seq
       /\ \A i \in DOMAIN ring : cursor # Anything /\ ring[i].seq > cursor =>
            \A e \in Delivered : e.id < ring[i].id
       /\ \A e \in Delivered : e.id <= emitted
  BY DEF FlowPart, FlowInv, CursorInv
<1>15. Younger(events, Delivered)
  <2> SUFFICES ASSUME NEW e \in Delivered, NEW i \in DOMAIN events
               PROVE  e.id < events[i].id
    BY DEF Younger
  <2>1. a + i - 1 \in DOMAIN ring /\ events[i] = ring[a + i - 1] /\ a + i - 1 >= a
    BY <1>9, <1>11
  <2>2. cursor # Anything
    BY <1>14
  <2>3. ring[a + i - 1].seq > cursor
    BY <1>9, <2>1, <2>2
  <2> QED
    BY <1>14, <2>1, <2>2, <2>3
<1>16. Joined(events, page.gap, Delivered)
  <2> SUFFICES ASSUME events # <<>>, ~page.gap, NEW e \in Delivered, Latest(e, Delivered)
               PROVE  events[1].seq <= e.seq + 1
    BY DEF Joined
  <2> QED
    BY <1>9, <1>14
<1>17. \A i \in DOMAIN events : events[i].id <= emitted
  BY <1>9, <1>10
<1>18. ASSUME NEW i \in DOMAIN ring, events # <<>>, ring[i].seq > events[Len(events)].seq,
              NEW k \in DOMAIN events
       PROVE  events[k].id < ring[i].id
  <2>1. Len(events) \in DOMAIN events /\ k \in 1 .. Len(events)
    BY <1>8, <1>11, <1>18
  <2> DEFINE last == a + Len(events) - 1
             j == a + k - 1
  <2>2. /\ last \in DOMAIN ring /\ events[Len(events)] = ring[last]
        /\ j \in DOMAIN ring /\ events[k] = ring[j] /\ j <= last /\ j \in Int /\ last \in Int
    BY <1>9, <1>11, <2>1
  <2> HIDE DEF last, j
  <2>3. /\ ring[last].seq + Len(ring) = nextSeq + last - 1
        /\ ring[i].seq + Len(ring) = nextSeq + i - 1
        /\ ring[last].seq \in Nat /\ ring[i].seq \in Nat
        /\ ring[i].seq > ring[last].seq
    BY <1>10, <1>18, <2>2
  <2>4. i \in Int
    BY <1>10
  <2>5. last < i
    <3> DEFINE lastSeq == ring[last].seq
               nextOne == ring[i].seq
               size == Len(ring)
    <3>1. /\ lastSeq \in Int /\ nextOne \in Int /\ size \in Int /\ nextSeq \in Int
          /\ last \in Int /\ i \in Int
      BY <1>10, <2>2, <2>3, <2>4
    <3>2. lastSeq + size = nextSeq + last - 1 /\ nextOne + size = nextSeq + i - 1 /\ nextOne > lastSeq
      BY <2>3
    <3> HIDE DEF lastSeq, nextOne, size
    <3> QED
      BY <3>1, <3>2
  <2>6. j < i
    BY <2>2, <2>4, <2>5
  <2> QED
    BY <1>10, <2>2, <2>6
<1>19. FlowInv'
  <2>1. /\ \A i, j \in DOMAIN rows'.events : i < j => rows'.events[i].id < rows'.events[j].id
        /\ \A p \in DOMAIN channel' :
             /\ Gapless(PageAt(p)') /\ Younger(PageAt(p)', Before(p)')
             /\ IsPage(channel'[p].source, channel'[p].body) =>
                  Joined(PageAt(p)', channel'[p].body.gap, Before(p)')
        /\ \A e \in Delivered' : e.id <= emitted'
    BY <1>2, <1>12 DEF FlowPart, FlowInv
  <2>2. /\ Gapless(Coming') /\ Younger(Coming', Delivered')
        /\ Coming' # <<>> => Joined(Coming', answer'["events"].gap, Delivered')
        /\ \A i \in DOMAIN Coming' : Coming'[i].id <= emitted'
    BY <1>2, <1>5, <1>6, <1>12, <1>13, <1>15, <1>16, <1>17
  <2> QED
    BY <2>1, <2>2 DEF FlowInv
<1>20. CursorInv'
  <2>1. /\ cursor' = Anything => Delivered' = {}
        /\ \A e \in Delivered' : Latest(e, Delivered') => cursor' = e.seq
    BY <1>2, <1>12, <1>14
  <2>2. \A i \in DOMAIN ring' :
          /\ cursor' # Anything /\ ring'[i].seq > cursor' =>
               \A e \in Delivered' : e.id < ring'[i].id
          /\ Coming' # <<>> /\ ring'[i].seq > Coming'[Len(Coming')].seq =>
               \A k \in DOMAIN Coming' : Coming'[k].id < ring'[i].id
    BY <1>2, <1>6, <1>12, <1>14, <1>18
  <2> QED
    BY <2>1, <2>2 DEF CursorInv
<1> QED
  BY <1>7, <1>19, <1>20 DEF FlowPart

LEMMA ChannelGrown ==
  ASSUME UiTypes, NEW u, channel' = Append(channel, u), rows' = rows
  PROVE  LET n == Len(channel) IN
         /\ n \in Nat /\ DOMAIN channel' = 1 .. n + 1 /\ DOMAIN channel = 1 .. n
         /\ channel'[n + 1] = u
         /\ \A p \in 1 .. n : channel'[p] = channel[p] /\ PageAt(p)' = PageAt(p)
         /\ \A p \in 1 .. n + 1 : Before(p)' = Before(p)
         /\ Before(n + 1) = Delivered
         /\ \A p : p = n + 1 =>
              /\ PageAt(p)' = IF IsPage(u.source, u.body) THEN u.body.events ELSE <<>>
              /\ Delivered' = Delivered \cup ToSet(PageAt(p)')
<1> DEFINE n == Len(channel)
<1>1. /\ n \in Nat /\ Len(channel') = n + 1
      /\ DOMAIN channel = 1 .. n /\ DOMAIN channel' = 1 .. n + 1
      /\ \A p \in 1 .. n : channel'[p] = channel[p]
      /\ channel'[n + 1] = u
  BY Sent DEF UiTypes
<1>2. Before(n + 1) = Delivered
  BY DEF Delivered
<1> HIDE DEF n
<1>3. \A p \in 1 .. n : PageAt(p)' = PageAt(p)
  BY <1>1 DEF PageAt
<1>4. \A p : p = n + 1 => PageAt(p)' = IF IsPage(u.source, u.body) THEN u.body.events ELSE <<>>
  BY <1>1 DEF PageAt
<1>5. ASSUME NEW p \in 1 .. n + 1 PROVE Before(p)' = Before(p)
  <2>1. {k \in DOMAIN channel' : k < p} = {k \in DOMAIN channel : k < p}
    BY <1>1
  <2>2. \A q \in {k \in DOMAIN channel : k < p} : PageAt(q)' = PageAt(q)
    BY <1>1, <1>3
  <2> DEFINE Q == {k \in DOMAIN channel : k < p}
  <2>3. Before(p)' = ToSet(rows'.events) \cup UNION {ToSet(PageAt(q)') : q \in Q}
    BY <2>1 DEF Before
  <2>4. Before(p) = ToSet(rows.events) \cup UNION {ToSet(PageAt(q)) : q \in Q}
    BY DEF Before
  <2> HIDE DEF Q
  <2>5. \A q \in Q : ToSet(PageAt(q)') = ToSet(PageAt(q))
    BY <2>2 DEF Q
  <2>6. {ToSet(PageAt(q)') : q \in Q} = {ToSet(PageAt(q)) : q \in Q}
    BY <2>5
  <2> QED
    BY <2>3, <2>4, <2>6
<1>6. ASSUME NEW p, p = n + 1 PROVE Delivered' = Delivered \cup ToSet(PageAt(p)')
  <2>1. Delivered' = ToSet(rows'.events)
                       \cup UNION {ToSet(PageAt(q)') : q \in {k \in DOMAIN channel' : k < n + 2}}
    <3>1. Len(channel') + 1 = n + 2
      BY <1>1
    <3> QED
      BY <3>1 DEF Delivered, Before
  <2>2. {k \in DOMAIN channel' : k < n + 2} = {k \in DOMAIN channel : k < n + 1} \cup {p}
    BY <1>1, <1>6
  <2> DEFINE Q == {k \in DOMAIN channel : k < n + 1}
  <2>3. Delivered = ToSet(rows.events) \cup UNION {ToSet(PageAt(q)) : q \in Q}
    BY <1>2 DEF Before
  <2>4. \A q \in Q : ToSet(PageAt(q)') = ToSet(PageAt(q))
    BY <1>1, <1>3
  <2>5. Delivered' = ToSet(rows'.events) \cup UNION {ToSet(PageAt(q)') : q \in Q \cup {p}}
    BY <2>1, <2>2
  <2> HIDE DEF Q
  <2> DEFINE pages == {ToSet(PageAt(q)) : q \in Q}
             more == ToSet(PageAt(p)')
  <2>6. {ToSet(PageAt(q)') : q \in Q \cup {p}} = pages \cup {more}
    BY <2>4
  <2>7. Delivered = ToSet(rows.events) \cup UNION pages
    BY <2>3
  <2>8. Delivered' = ToSet(rows.events) \cup UNION (pages \cup {more})
    BY <2>5, <2>6
  <2> HIDE DEF pages, more
  <2>9. UNION (pages \cup {more}) = (UNION pages) \cup more
    OBVIOUS
  <2>10. Delivered' = Delivered \cup more
    BY <2>7, <2>8, <2>9
  <2> QED
    BY <2>10 DEF more
<1> QED
  BY <1>1, <1>2, <1>3, <1>4, <1>5, <1>6 DEF n

(* An update enters the channel: a key, or an answer without a page.       *)
LEMMA PagelessFlow ==
  ASSUME FlowPart, UiTypes, LogTypes, NEW u, ~IsPage(u.source, u.body),
         channel' = Append(channel, u), rows' = rows, UNCHANGED <<cursor, ring, emitted>>,
         Coming' = Coming, Coming # <<>> => answer'["events"].gap = answer["events"].gap
  PROVE  FlowPart'
<1> DEFINE n == Len(channel)
<1>1. /\ n \in Nat /\ DOMAIN channel' = 1 .. n + 1 /\ DOMAIN channel = 1 .. n
      /\ channel'[n + 1] = u
      /\ \A p \in 1 .. n : channel'[p] = channel[p] /\ PageAt(p)' = PageAt(p)
      /\ \A p \in 1 .. n + 1 : Before(p)' = Before(p)
      /\ \A p : p = n + 1 =>
           PageAt(p)' = <<>> /\ Delivered' = Delivered \cup ToSet(PageAt(p)')
  BY ChannelGrown
<1> HIDE DEF n
<1>2. ToSet(<<>>) = {}
  BY DEF ToSet
<1>3. Delivered' = Delivered
  BY <1>1, <1>2
<1>4. ASSUME NEW p \in DOMAIN channel'
      PROVE  /\ Gapless(PageAt(p)') /\ Younger(PageAt(p)', Before(p)')
             /\ IsPage(channel'[p].source, channel'[p].body) =>
                  Joined(PageAt(p)', channel'[p].body.gap, Before(p)')
  <2>1. CASE p \in 1 .. n
    BY <1>1, <2>1 DEF FlowPart, FlowInv
  <2>2. CASE p = n + 1
    <3>1. PageAt(p)' = <<>> /\ DOMAIN <<>> = {}
      BY <1>1, <2>2
    <3> QED
      BY <1>1, <2>2, <3>1 DEF Gapless, Younger
  <2> QED
    BY <1>1, <2>1, <2>2
<1>5. FlowInv'
  BY <1>3, <1>4 DEF FlowPart, FlowInv
<1>6. CursorInv'
  BY <1>3 DEF FlowPart, CursorInv
<1> QED
  BY <1>5, <1>6 DEF FlowPart

(* The page that was being answered enters the channel, and the cursor     *)
(* moves to its end.                                                       *)
LEMMA PageFlow ==
  ASSUME FlowPart, UiTypes, LogTypes, Deliver("events"), ~IsError(answer["events"])
  PROVE  FlowPart'
<1> DEFINE n == Len(channel)
           body == answer["events"]
           page == body.events
           u == [source |-> "events", body |-> body]
<1>1. /\ at["events"] = "answered" /\ channel' = Append(channel, u)
      /\ cursor' = IF body.nextSince = Anything THEN cursor ELSE body.nextSince
      /\ at' = [at EXCEPT !["events"] = "idle"]
      /\ UNCHANGED <<ring, emitted, rows>>
  BY DEF Deliver, NextCursor, eventLogVars, logVars, viewVars
<1>2. /\ at \in [Sources -> {"idle", "asked", "acked", "answered"}] /\ "events" \in Sources
      /\ IsAnswer("events", body) /\ cursor \in Nat \cup {Anything} /\ Anything \notin Nat
  BY <1>1, EventLogAssumption DEF UiTypes, Sources
<1>3. /\ page \in Seq(Events) /\ body.gap \in BOOLEAN
      /\ body.nextSince = IF page = <<>> THEN Anything ELSE page[Len(page)].seq
  BY <1>2 DEF IsAnswer
<1>4. Coming = page
  BY <1>1 DEF Coming
<1>5. at'["events"] = "idle"
  BY <1>1, <1>2
<1>6. Coming' = <<>>
  BY <1>5 DEF Coming
<1>7. u.source = "events" /\ u.body = body /\ IsPage(u.source, u.body)
  BY DEF IsPage
<1> HIDE DEF u, body
<1>8. /\ n \in Nat /\ DOMAIN channel' = 1 .. n + 1 /\ DOMAIN channel = 1 .. n
      /\ channel'[n + 1] = u
      /\ \A p \in 1 .. n : channel'[p] = channel[p] /\ PageAt(p)' = PageAt(p)
      /\ \A p \in 1 .. n + 1 : Before(p)' = Before(p)
      /\ Before(n + 1) = Delivered
      /\ \A p : p = n + 1 =>
           PageAt(p)' = page /\ Delivered' = Delivered \cup ToSet(PageAt(p)')
  BY <1>1, <1>7, ChannelGrown
<1> HIDE DEF n, page
<1>9. Delivered' = Delivered \cup ToSet(page)
  BY <1>8
<1>10. /\ Gapless(page) /\ Younger(page, Delivered)
       /\ page # <<>> => Joined(page, body.gap, Delivered)
       /\ \A e \in Delivered : e.id <= emitted
       /\ \A i \in DOMAIN page : page[i].id <= emitted
  BY <1>4 DEF FlowPart, FlowInv, body
<1>11. /\ cursor = Anything => Delivered = {}
       /\ \A e \in Delivered : Latest(e, Delivered) => cursor = e.seq
       /\ \A i \in DOMAIN ring :
            /\ cursor # Anything /\ ring[i].seq > cursor =>
                 \A e \in Delivered : e.id < ring[i].id
            /\ page # <<>> /\ ring[i].seq > page[Len(page)].seq =>
                 \A k \in DOMAIN page : page[k].id < ring[i].id
  BY <1>4 DEF FlowPart, CursorInv
<1>12. /\ DOMAIN page = 1 .. Len(page) /\ Len(page) \in Nat
       /\ \A i \in DOMAIN page : page[i].id \in Nat /\ page[i].seq \in Nat
       /\ \A e \in Delivered : e.id \in Nat
       /\ ring \in Seq(Events) /\ \A i \in DOMAIN ring : ring[i].id \in Nat
  BY <1>3, EventsIn, EventIds, Pages DEF LogTypes
<1>13. ASSUME NEW p \in DOMAIN channel'
       PROVE  /\ Gapless(PageAt(p)') /\ Younger(PageAt(p)', Before(p)')
              /\ IsPage(channel'[p].source, channel'[p].body) =>
                   Joined(PageAt(p)', channel'[p].body.gap, Before(p)')
  <2>1. CASE p \in 1 .. n
    BY <1>8, <2>1 DEF FlowPart, FlowInv
  <2>2. CASE p = n + 1
    <3>1. PageAt(p)' = page /\ Before(p)' = Delivered /\ channel'[p].body = body
      BY <1>7, <1>8, <2>2
    <3>2. Joined(page, body.gap, Delivered)
      BY <1>10 DEF Joined
    <3> QED
      BY <1>10, <3>1, <3>2
  <2> QED
    BY <1>8, <2>1, <2>2
<1>14. \A e \in Delivered' : e.id <= emitted'
  BY <1>1, <1>9, <1>10 DEF ToSet
<1>15. FlowInv'
  <2>1. DOMAIN Coming' = {}
    BY <1>6
  <2>2. Gapless(Coming') /\ Younger(Coming', Delivered')
    BY <2>1 DEF Gapless, Younger
  <2>3. \A i, j \in DOMAIN rows'.events : i < j => rows'.events[i].id < rows'.events[j].id
    BY <1>1 DEF FlowPart, FlowInv
  <2> QED
    BY <1>6, <1>13, <1>14, <2>1, <2>2, <2>3 DEF FlowInv
<1>16. CASE page = <<>>
  <2>1. Delivered' = Delivered /\ cursor' = cursor
    BY <1>1, <1>3, <1>9, <1>16 DEF ToSet
  <2>2. CursorInv'
    BY <1>1, <1>6, <1>11, <2>1 DEF CursorInv
  <2> QED
    BY <1>15, <2>2 DEF FlowPart
<1>17. CASE page # <<>>
  <2> DEFINE l == Len(page)
  <2>1. l \in DOMAIN page /\ cursor' = page[l].seq /\ cursor' \in Nat
    <3>1. l \in DOMAIN page
      BY <1>3, <1>12, <1>17
    <3> QED
      BY <1>1, <1>2, <1>3, <1>12, <1>17, <3>1
  <2> HIDE DEF l
  <2>2. page[l] \in ToSet(page)
    BY <2>1 DEF ToSet
  <2>3. ASSUME NEW e \in Delivered', Latest(e, Delivered') PROVE cursor' = e.seq
    <3>1. page[l].id <= e.id
      BY <1>9, <2>2, <2>3 DEF Latest
    <3>2. CASE e \in Delivered
      <4>1. e.id < page[l].id
        BY <1>10, <2>1, <3>2 DEF Younger
      <4> QED
        BY <1>12, <2>1, <3>1, <3>2, <4>1
    <3>3. CASE e \in ToSet(page)
      <4>1. PICK k \in DOMAIN page : e = page[k]
        BY <3>3 DEF ToSet
      <4>2. k < l => page[k].id < page[l].id
        BY <1>10, <2>1 DEF Gapless
      <4>3. ~(k < l)
        BY <1>12, <2>1, <3>1, <4>1, <4>2
      <4>4. k = l
        BY <1>12, <2>1, <4>1, <4>3 DEF l
      <4> QED
        BY <2>1, <4>1, <4>4
    <3> QED
      BY <1>9, <3>2, <3>3
  <2>4. ASSUME NEW i \in DOMAIN ring', ring'[i].seq > cursor', NEW e \in Delivered'
        PROVE  e.id < ring'[i].id
    <3>1. i \in DOMAIN ring /\ ring' = ring /\ ring[i].seq > page[l].seq
      BY <1>1, <2>1, <2>4
    <3>2. \A k \in DOMAIN page : page[k].id < ring[i].id
      BY <1>11, <1>17, <3>1 DEF l
    <3>3. CASE e \in Delivered
      <4>1. e.id < page[l].id
        BY <1>10, <2>1, <3>3 DEF Younger
      <4> QED
        BY <1>12, <2>1, <3>1, <3>2, <3>3, <4>1
    <3>4. CASE e \in ToSet(page)
      BY <3>1, <3>2, <3>4 DEF ToSet
    <3> QED
      BY <1>9, <3>3, <3>4
  <2>5. cursor' # Anything
    BY <1>2, <2>1
  <2>6. CursorInv'
    BY <1>6, <2>3, <2>4, <2>5 DEF CursorInv
  <2> QED
    BY <1>15, <2>6 DEF FlowPart
<1> QED
  BY <1>16, <1>17
(* An update is taken: the rows that go are older than all that stay.      *)
LEMMA TakenFlow ==
  ASSUME FlowPart, UiTypes, LogTypes, channel # <<>>, channel' = Tail(channel),
         UNCHANGED <<cursor, ring, emitted>>, Coming' = Coming,
         Coming # <<>> => answer'["events"].gap = answer["events"].gap,
         NEW R, R = ToSet(rows.events) \cup ToSet(PageAt(1)),
         ToSet(rows'.events) \subseteq R,
         \A x \in R \ ToSet(rows'.events) : \E y \in ToSet(rows'.events) : x.id < y.id,
         \A i, j \in DOMAIN rows'.events : i < j => rows'.events[i].id < rows'.events[j].id
  PROVE  FlowPart'
<1> DEFINE n == Len(channel)
<1>1. /\ n \in Nat \ {0} /\ Len(channel') = n - 1
      /\ DOMAIN channel = 1 .. n /\ DOMAIN channel' = 1 .. n - 1
      /\ \A p \in 1 .. n - 1 : channel'[p] = channel[p + 1]
  BY Taken DEF UiTypes
<1>2. \A p \in 1 .. n - 1 : \A q : q = p + 1 => PageAt(p)' = PageAt(q)
  BY <1>1 DEF PageAt
<1>3. ASSUME NEW p \in 1 .. n, NEW q, q = p + 1
      PROVE  /\ Before(p)' \subseteq Before(q)
             /\ \A x \in Before(q) \ Before(p)' : \E y \in Before(p)' : x.id < y.id
  <2>1. \A x : x \in Before(p)' <=>
          \/ x \in ToSet(rows'.events)
          \/ \E k \in 1 .. n - 1 : k < p /\ x \in ToSet(PageAt(k)')
    BY <1>1 DEF Before
  <2>2. \A x : x \in Before(q) <=>
          \/ x \in ToSet(rows.events)
          \/ \E k \in 1 .. n : k < q /\ x \in ToSet(PageAt(k))
    BY <1>1 DEF Before
  <2>3. \A k \in 1 .. n - 1 : \A x : x \in ToSet(PageAt(k)') => x \in ToSet(PageAt(k + 1))
    BY <1>2
  <2>4. \A k \in 1 .. n : k # 1 => k - 1 \in 1 .. n - 1 /\ PageAt(k - 1)' = PageAt(k)
    <3> SUFFICES ASSUME NEW k \in 1 .. n, k # 1
                 PROVE  k - 1 \in 1 .. n - 1 /\ PageAt(k - 1)' = PageAt(k)
      OBVIOUS
    <3>1. k - 1 \in 1 .. n - 1 /\ k = (k - 1) + 1
      BY <1>1
    <3> QED
      BY <1>2, <3>1
  <2>5. ASSUME NEW x, x \in R PROVE x \in Before(q)
    <3>1. 1 \in 1 .. n /\ 1 < q
      BY <1>1, <1>3
    <3> QED
      BY <2>2, <2>5, <3>1
  <2>6. ASSUME NEW x, x \in Before(p)' PROVE x \in Before(q)
    <3>1. CASE x \in ToSet(rows'.events)
      BY <2>5, <3>1
    <3>2. ASSUME NEW k \in 1 .. n - 1, k < p, x \in ToSet(PageAt(k)') PROVE x \in Before(q)
      <4>1. k + 1 \in 1 .. n /\ k + 1 < q
        BY <1>1, <1>3, <3>2
      <4> QED
        BY <2>2, <2>3, <3>2, <4>1
    <3> QED
      BY <2>1, <2>6, <3>1, <3>2
  <2>7. ASSUME NEW x, x \in Before(q), x \notin R PROVE x \in Before(p)'
    <3>1. PICK k \in 1 .. n : k < q /\ x \in ToSet(PageAt(k))
      BY <2>2, <2>7
    <3>2. k # 1
      BY <2>7, <3>1
    <3>3. k - 1 \in 1 .. n - 1 /\ k - 1 < p /\ x \in ToSet(PageAt(k - 1)')
      BY <1>1, <1>3, <2>4, <3>1, <3>2
    <3> QED
      BY <2>1, <3>3
  <2>8. ASSUME NEW x, x \in Before(q), x \notin Before(p)'
        PROVE  \E y \in Before(p)' : x.id < y.id
    <3>1. x \in R /\ x \notin ToSet(rows'.events)
      BY <2>1, <2>7, <2>8
    <3>2. PICK y \in ToSet(rows'.events) : x.id < y.id
      BY <3>1
    <3>3. y \in Before(p)'
      BY <2>1, <3>2
    <3> QED
      BY <3>2, <3>3
  <2> QED
    BY <2>6, <2>8
<1> HIDE DEF n
<1>4. ASSUME NEW S, NEW T, S \subseteq T, T \subseteq Events,
             \A x \in T \ S : \E y \in S : x.id < y.id, NEW e \in S, Latest(e, S)
      PROVE  e \in T /\ Latest(e, T)
  <2> SUFFICES ASSUME NEW x \in T PROVE x.id <= e.id
    BY <1>4 DEF Latest
  <2>1. CASE x \in S
    BY <1>4, <2>1 DEF Latest
  <2>2. CASE x \notin S
    <3>1. PICK y \in S : x.id < y.id
      BY <1>4, <2>2
    <3>2. y.id <= e.id
      BY <1>4, <3>1 DEF Latest
    <3>3. x.id \in Nat /\ y.id \in Nat /\ e.id \in Nat
      BY <1>4, <3>1, EventIds
    <3> QED
      BY <3>1, <3>2, <3>3
  <2> QED
    BY <2>1, <2>2
<1>5. \A p : Before(p) \subseteq Events
  BY Pages
<1>6. ASSUME NEW p \in 1 .. n - 1
      PROVE  /\ Gapless(PageAt(p)') /\ Younger(PageAt(p)', Before(p)')
             /\ IsPage(channel'[p].source, channel'[p].body) =>
                  Joined(PageAt(p)', channel'[p].body.gap, Before(p)')
  <2> DEFINE q == p + 1
  <2>1. /\ q \in DOMAIN channel /\ channel'[p] = channel[q] /\ PageAt(p)' = PageAt(q)
        /\ p \in 1 .. n
    BY <1>1, <1>2
  <2>2. /\ Before(p)' \subseteq Before(q)
        /\ \A x \in Before(q) \ Before(p)' : \E y \in Before(p)' : x.id < y.id
    BY <1>3, <2>1
  <2> HIDE DEF q
  <2>3. /\ Gapless(PageAt(q)) /\ Younger(PageAt(q), Before(q))
        /\ IsPage(channel[q].source, channel[q].body) =>
             Joined(PageAt(q), channel[q].body.gap, Before(q))
    BY <2>1 DEF FlowPart, FlowInv
  <2>4. Younger(PageAt(p)', Before(p)')
    BY <2>1, <2>2, <2>3 DEF Younger
  <2>5. ASSUME IsPage(channel'[p].source, channel'[p].body)
        PROVE  Joined(PageAt(p)', channel'[p].body.gap, Before(p)')
    <3>1. Joined(PageAt(q), channel[q].body.gap, Before(q))
      BY <2>1, <2>3, <2>5
    <3>2. \A e \in Before(p)' : Latest(e, Before(p)') => e \in Before(q) /\ Latest(e, Before(q))
      BY <1>4, <1>5, <2>2
    <3> QED
      BY <2>1, <3>1, <3>2 DEF Joined
  <2> QED
    BY <2>1, <2>3, <2>4, <2>5
<1>7. /\ Delivered' \subseteq Delivered /\ Delivered \subseteq Events
      /\ \A x \in Delivered \ Delivered' : \E y \in Delivered' : x.id < y.id
  <2>1. n \in 1 .. n /\ Len(channel') + 1 = n /\ Len(channel) = n
    BY <1>1 DEF n
  <2>2. Delivered = Before(n + 1)
    BY <2>1 DEF Delivered
  <2>3. \A p : p = Len(channel') + 1 => Delivered' = Before(p)'
    BY DEF Delivered, Before
  <2>4. \A p : p = n => Delivered' = Before(p)' /\ Before(p)' \subseteq Before(n + 1)
          /\ \A x \in Before(n + 1) \ Before(p)' : \E y \in Before(p)' : x.id < y.id
    <3> SUFFICES ASSUME NEW p, p = n
                 PROVE  /\ Delivered' = Before(p)' /\ Before(p)' \subseteq Before(n + 1)
                        /\ \A x \in Before(n + 1) \ Before(p)' : \E y \in Before(p)' : x.id < y.id
      OBVIOUS
    <3>1. p \in 1 .. n /\ n + 1 = p + 1 /\ p = Len(channel') + 1
      BY <2>1
    <3> QED
      BY <1>3, <2>3, <3>1
  <2> QED
    BY <1>5, <2>2, <2>4
<1>8. \A e \in Delivered' : Latest(e, Delivered') => e \in Delivered /\ Latest(e, Delivered)
  BY <1>4, <1>7
<1>9. FlowInv'
  <2>1. Younger(Coming', Delivered') /\ Gapless(Coming')
    BY <1>7 DEF FlowPart, FlowInv, Younger
  <2>2. Coming' # <<>> => Joined(Coming', answer'["events"].gap, Delivered')
    BY <1>8 DEF FlowPart, FlowInv, Joined
  <2>3. \A e \in Delivered' : e.id <= emitted'
    BY <1>7 DEF FlowPart, FlowInv
  <2>4. \A i \in DOMAIN Coming' : Coming'[i].id <= emitted'
    BY DEF FlowPart, FlowInv
  <2>5. \A p \in DOMAIN channel' :
          /\ Gapless(PageAt(p)') /\ Younger(PageAt(p)', Before(p)')
          /\ IsPage(channel'[p].source, channel'[p].body) =>
               Joined(PageAt(p)', channel'[p].body.gap, Before(p)')
    BY <1>1, <1>6
  <2> QED
    BY <2>1, <2>2, <2>3, <2>4, <2>5 DEF FlowInv
<1>10. CursorInv'
  BY <1>7, <1>8 DEF FlowPart, CursorInv
<1> QED
  BY <1>9, <1>10 DEF FlowPart

(* What a page does to the rows.                                           *)
LEMMA MergedRows ==
  ASSUME FlowPart, UiTypes, channel # <<>>,
         IsPage(channel[1].source, channel[1].body), MergePage(channel[1].body)
  PROVE  /\ LET R == ToSet(rows.events) \cup ToSet(PageAt(1)) IN
              /\ ToSet(rows'.events) \subseteq R
              /\ \A x \in R \ ToSet(rows'.events) :
                   \E y \in ToSet(rows'.events) : x.id < y.id
         /\ \A i, j \in DOMAIN rows'.events : i < j => rows'.events[i].id < rows'.events[j].id
         /\ \A i \in 1 .. Len(rows'.events) - 1 :
              Hole(rows'.events, i) =>
                \/ gapPending'
                \/ \E j \in 1 .. Len(rows.events) - 1 :
                     rows.events[j] = rows'.events[i] /\ rows.events[j + 1] = rows'.events[i + 1]
<1> DEFINE old == rows.events
           body == channel[1].body
           page == body.events
           all == old \o page
           new == rows'.events
<1>1. 1 \in DOMAIN channel /\ PageAt(1) = page
  <2>1. channel \in Seq(ToSet(channel)) /\ channel # <<>>
    BY DEF UiTypes
  <2>2. 1 \in DOMAIN channel
    BY <2>1, Taken, EmptySeq
  <2> QED
    BY <2>2 DEF PageAt
<1>2. old \in Seq(Events) /\ page \in Seq(Events) /\ DOMAIN rows = {"tickets", "events", "escalations"}
  BY <1>1, Pages DEF UiTypes
<1>3. body.gap \in BOOLEAN
  BY <1>1 DEF UiTypes, IsAnswer, IsPage
<1>4. new = LastRows(all) /\ gapPending' = (body.gap \/ (gapPending /\ body.nextSince = Anything))
  BY <1>2 DEF MergePage
<1>5. Before(1) = ToSet(old)
  <2>1. channel \in Seq(ToSet(channel))
    BY DEF UiTypes
  <2>2. {k \in DOMAIN channel : k < 1} = {}
    BY <2>1
  <2> QED
    BY <2>2 DEF Before
<1>6. /\ \A i, j \in DOMAIN old : i < j => old[i].id < old[j].id
      /\ Gapless(page) /\ Younger(page, ToSet(old)) /\ Joined(page, body.gap, ToSet(old))
  BY <1>1, <1>5 DEF FlowPart, FlowInv
<1> HIDE DEF old, body, page, new
<1>7. /\ DOMAIN old = 1 .. Len(old) /\ Len(old) \in Nat
      /\ DOMAIN page = 1 .. Len(page) /\ Len(page) \in Nat
      /\ \A i \in DOMAIN old : /\ old[i].id \in Nat /\ old[i].seq \in Nat
                               /\ old[i] \in ToSet(old)
      /\ \A i \in DOMAIN page : /\ page[i].id \in Nat /\ page[i].seq \in Nat
                                /\ page[i] \in ToSet(page)
  BY <1>2, EventsIn DEF ToSet
<1>8. /\ all \in Seq(Events) /\ Len(all) = Len(old) + Len(page)
      /\ \A i \in 1 .. Len(old) + Len(page) :
           all[i] = IF i <= Len(old) THEN old[i] ELSE page[i - Len(old)]
      /\ ToSet(all) = ToSet(old) \cup ToSet(page)
  BY <1>2, ConcatProperties, ConcatRange
<1> HIDE DEF all
<1>9. \A i \in 1 .. Len(all) :
        \/ i \in DOMAIN old /\ all[i] = old[i]
        \/ i - Len(old) \in DOMAIN page /\ all[i] = page[i - Len(old)] /\ ~(i <= Len(old))
  BY <1>7, <1>8
<1>10. ASSUME NEW i \in 1 .. Len(all), NEW j \in 1 .. Len(all), i < j
       PROVE  all[i].id < all[j].id
  <2>1. CASE i \in DOMAIN old /\ all[i] = old[i]
    <3>1. CASE j \in DOMAIN old /\ all[j] = old[j]
      BY <1>6, <1>10, <2>1, <3>1
    <3>2. CASE j - Len(old) \in DOMAIN page /\ all[j] = page[j - Len(old)]
      BY <1>6, <1>7, <2>1, <3>2 DEF Younger
    <3> QED
      BY <1>9, <3>1, <3>2
  <2>2. CASE i - Len(old) \in DOMAIN page /\ all[i] = page[i - Len(old)] /\ ~(i <= Len(old))
    <3>1. j \notin DOMAIN old
      BY <1>7, <1>10, <2>2
    <3>2. j - Len(old) \in DOMAIN page /\ all[j] = page[j - Len(old)]
      BY <1>9, <3>1
    <3>3. i - Len(old) < j - Len(old)
      BY <1>7, <1>10
    <3> QED
      BY <1>6, <2>2, <3>2, <3>3 DEF Gapless
  <2> QED
    BY <1>9, <2>1, <2>2
<1>11. PICK d \in 0 .. Len(all) :
         /\ Len(new) = Len(all) - d /\ Len(all) - d \in Nat
         /\ d > 0 => Len(all) - d >= 1
         /\ \A i \in 1 .. Len(all) - d : new[i] = all[i + d]
  BY <1>4, <1>8, LastKept
<1>12. new \in Seq(Events) /\ DOMAIN new = 1 .. Len(all) - d /\ Len(all) \in Nat
       /\ DOMAIN all = 1 .. Len(all)
  <2>1. new \in Seq(Events)
    BY <1>4, <1>8, LastKept
  <2> QED
    BY <1>8, <1>11, <2>1
<1>13. \A i \in DOMAIN new : i + d \in 1 .. Len(all) /\ new[i] = all[i + d] /\ all[i + d] \in ToSet(all)
  BY <1>11, <1>12 DEF ToSet
<1>14. ToSet(new) \subseteq ToSet(old) \cup ToSet(page)
  BY <1>8, <1>13 DEF ToSet
<1>15. ASSUME NEW x \in ToSet(old) \cup ToSet(page), x \notin ToSet(new)
       PROVE  \E y \in ToSet(new) : x.id < y.id
  <2>1. PICK i \in 1 .. Len(all) : x = all[i]
    BY <1>8, <1>12 DEF ToSet
  <2>2. i <= d
    <3>1. ASSUME i > d PROVE FALSE
      <4>1. i - d \in DOMAIN new /\ (i - d) + d = i
        BY <1>11, <1>12, <2>1, <3>1
      <4>2. new[i - d] = x
        BY <1>13, <2>1, <4>1
      <4> QED
        BY <1>15, <4>1, <4>2 DEF ToSet
    <3> QED
      BY <3>1, <1>11, <2>1
  <2>3. 1 \in DOMAIN new /\ i < 1 + d /\ 1 + d \in 1 .. Len(all)
    BY <1>11, <1>12, <2>1, <2>2
  <2>4. new[1] \in ToSet(new) /\ new[1] = all[1 + d]
    BY <1>13, <2>3 DEF ToSet
  <2> QED
    BY <1>10, <2>1, <2>3, <2>4
<1>16. ASSUME NEW i \in DOMAIN new, NEW j \in DOMAIN new, i < j PROVE new[i].id < new[j].id
  <2>1. i + d < j + d
    BY <1>11, <1>12, <1>16
  <2> QED
    BY <1>10, <1>13, <1>16, <2>1
<1>17. ASSUME NEW i \in 1 .. Len(new) - 1, Hole(new, i)
       PROVE  \/ gapPending'
              \/ \E j \in 1 .. Len(old) - 1 : old[j] = new[i] /\ old[j + 1] = new[i + 1]
  <2> DEFINE k == i + d
             l == k + 1
  <2>1. /\ new[i] = all[k] /\ new[i + 1] = all[l] /\ k \in 1 .. Len(all) /\ l \in 1 .. Len(all)
        /\ k \in Int /\ l = k + 1
    <3>1. i \in DOMAIN new /\ i + 1 \in DOMAIN new /\ (i + 1) + d = l /\ k \in Int
      BY <1>11, <1>12
    <3> QED
      BY <1>13, <3>1
  <2> HIDE DEF k, l
  <2>2. all[k].boot = all[l].boot /\ all[k].seq + 1 < all[l].seq
    BY <1>17, <2>1 DEF Hole
  <2>3. CASE l \in DOMAIN old /\ all[l] = old[l]
    <3>1. k \in DOMAIN old /\ k \in 1 .. Len(old) - 1
      BY <1>7, <2>1, <2>3
    <3>2. all[k] = old[k]
      BY <1>7, <1>8, <2>1, <3>1
    <3>3. old[k] = new[i] /\ old[k + 1] = new[i + 1]
      BY <2>1, <2>3, <3>2
    <3> QED
      BY <3>1, <3>3
  <2>4. CASE l - Len(old) \in DOMAIN page /\ all[l] = page[l - Len(old)] /\ k \in DOMAIN old
    <3>1. k = Len(old) /\ l - Len(old) = 1 /\ all[k] = old[k]
      <4>1. k \in Int /\ l = k + 1 /\ 1 <= k /\ k <= Len(old) /\ l - Len(old) >= 1
        BY <1>7, <2>1, <2>4
      <4> DEFINE size == Len(old)
      <4>2. size \in Int /\ k <= size /\ l - size >= 1
        BY <1>7, <4>1
      <4> HIDE DEF size
      <4>3. k = size /\ l - size = 1
        BY <4>1, <4>2
      <4>4. k = Len(old) /\ l - Len(old) = 1
        BY <4>3 DEF size
      <4>5. all[k] = old[k]
        BY <1>7, <1>8, <2>1, <4>1
      <4> QED
        BY <4>4, <4>5
    <3>2. page # <<>> /\ all[l] = page[1]
      BY <1>2, <2>4, <3>1
    <3>3. Latest(old[k], ToSet(old))
      <4>1. \A j \in DOMAIN old : old[j].id <= old[k].id
        <5> SUFFICES ASSUME NEW j \in DOMAIN old PROVE old[j].id <= old[k].id
          OBVIOUS
        <5>1. j < k \/ j = k
          BY <1>7, <3>1
        <5> QED
          BY <1>6, <1>7, <2>4, <5>1
      <4> QED
        BY <1>7, <2>4, <4>1 DEF Latest, ToSet
    <3>4. CASE body.gap
      BY <1>4, <3>4
    <3>5. CASE ~body.gap
      <4>1. page[1].seq <= old[k].seq + 1
        BY <1>6, <1>7, <2>2, <2>4, <3>1, <3>2, <3>3, <3>5 DEF Joined
      <4>2. old[k].seq \in Nat /\ page[1].seq \in Nat
        BY <1>7, <2>4, <3>1
      <4>3. old[k].seq + 1 < page[1].seq
        BY <2>2, <3>1, <3>2
      <4> QED
        BY <4>1, <4>2, <4>3
    <3> QED
      BY <3>4, <3>5
  <2>5. CASE l - Len(old) \in DOMAIN page /\ all[l] = page[l - Len(old)] /\ k \notin DOMAIN old
    <3>1. k - Len(old) \in DOMAIN page /\ all[k] = page[k - Len(old)]
      BY <1>9, <2>1, <2>5
    <3> DEFINE m == k - Len(old)
               r == l - Len(old)
    <3>2. m \in DOMAIN page /\ r \in DOMAIN page /\ r = m + 1 /\ m \in Int
      BY <1>7, <2>1, <2>5, <3>1
    <3>3. all[k] = page[m] /\ all[l] = page[r]
      BY <2>5, <3>1
    <3> HIDE DEF m, r
    <3>4. page[r].seq + m = page[m].seq + r
      BY <1>6, <3>2 DEF Gapless
    <3> DEFINE later == page[r].seq
               first == page[m].seq
    <3> HIDE DEF later, first
    <3>5. later \in Int /\ first \in Int /\ later + m = first + r /\ first + 1 < later
      BY <1>7, <2>2, <3>2, <3>3, <3>4 DEF later, first
    <3> QED
      BY <3>2, <3>5
  <2> QED
    BY <1>9, <2>1, <2>3, <2>4, <2>5
<1> QED
  BY <1>1, <1>14, <1>15, <1>16, <1>17 DEF new, old, page, body
-----------------------------------------------------------------------------
(* The steps of the UI, as far as the events on their way are concerned.   *)

(* What is not about the events poller leaves its page as it is.           *)
LEMMA SameComing ==
  ASSUME at'["events"] = at["events"], answer'["events"] = answer["events"]
  PROVE  Coming' = Coming
BY DEF Coming

LEMMA OtherAsks ==
  ASSUME UiTypes, NEW s \in Sources \ {"events"}, NEW stage, NEW a,
         at' = [at EXCEPT ![s] = stage],
         answer' = answer \/ answer' = [answer EXCEPT ![s] = a]
  PROVE  Coming' = Coming /\ answer'["events"] = answer["events"]
<1>1. DOMAIN at = Sources /\ DOMAIN answer = Sources
  BY DEF UiTypes
<1>2. at'["events"] = at["events"] /\ answer'["events"] = answer["events"]
  BY <1>1 DEF Sources
<1> QED
  BY <1>2, SameComing

(* An answer goes on its way, or is lost.                                  *)
LEMMA MovesFlow ==
  ASSUME FlowPart, UiTypes, LogTypes, LogTypes', RingGrows, NEW s \in Sources,
         at[s] # "idle", NEW stage \in {"acked", "answered"}, at' = [at EXCEPT ![s] = stage],
         answer' = answer \/ answer' = [answer EXCEPT ![s] = Failed],
         UNCHANGED <<channel, cursor, rows>>
  PROVE  FlowPart'
<1>1. DOMAIN at = Sources /\ DOMAIN answer = Sources
  BY DEF UiTypes
<1>2. CASE s # "events"
  <2>1. Coming' = Coming /\ answer'["events"] = answer["events"]
    BY <1>2, OtherAsks
  <2> QED
    BY <2>1, FlowWaits
<1>3. CASE s = "events" /\ answer' = answer
  <2>1. Coming' = Coming
    <3>1. at'["events"] # "idle"
      BY <1>1, <1>3
    <3> QED
      BY <1>3, <3>1 DEF Coming
  <2> QED
    BY <1>3, <2>1, FlowWaits
<1>4. CASE s = "events" /\ answer' = [answer EXCEPT ![s] = Failed]
  <2>1. Coming' = <<>>
    <3>1. answer'["events"] = Failed
      BY <1>1, <1>4
    <3> QED
      BY <3>1 DEF Coming, IsError, Failed
  <2> QED
    BY <2>1, FlowWaits
<1> QED
  BY <1>2, <1>3, <1>4

LEMMA DeliverFlow ==
  ASSUME FlowPart, UiTypes, LogTypes, NEW s \in Sources, Deliver(s)
  PROVE  FlowPart'
<1> DEFINE u == [source |-> s, body |-> answer[s]]
<1>1. /\ channel' = Append(channel, u) /\ UNCHANGED <<rows, ring, emitted>>
      /\ at' = [at EXCEPT ![s] = "idle"] /\ answer' = [answer EXCEPT ![s] = Nothing]
      /\ cursor' = IF s = "events" THEN NextCursor(answer[s]) ELSE cursor
  BY DEF Deliver, eventLogVars, logVars, viewVars
<1>2. u.source = s /\ u.body = answer[s]
  OBVIOUS
<1>3. DOMAIN at = Sources /\ DOMAIN answer = Sources
  BY DEF UiTypes
<1>4. CASE s = "events" /\ ~IsError(answer["events"])
  BY <1>4, PageFlow
<1>5. CASE s = "events" /\ IsError(answer["events"])
  <2>1. Coming = <<>>
    BY <1>5 DEF Coming
  <2>2. Coming' = <<>>
    <3>1. at'["events"] = "idle"
      BY <1>1, <1>3, <1>5
    <3> QED
      BY <3>1 DEF Coming
  <2>3. cursor' = cursor /\ ~IsPage(u.source, u.body)
    BY <1>1, <1>2, <1>5 DEF NextCursor, IsPage
  <2> HIDE DEF u
  <2> QED
    BY <1>1, <2>1, <2>2, <2>3, PagelessFlow
<1>6. CASE s # "events"
  <2>1. Coming' = Coming /\ answer'["events"] = answer["events"]
    BY <1>1, <1>6, OtherAsks
  <2>2. cursor' = cursor /\ ~IsPage(u.source, u.body)
    BY <1>1, <1>2, <1>6 DEF IsPage
  <2> HIDE DEF u
  <2> QED
    BY <1>1, <2>1, <2>2, PagelessFlow
<1> QED
  BY <1>4, <1>5, <1>6

LEMMA PressFlow ==
  ASSUME FlowPart, UiTypes, LogTypes, NEW k \in Keys, Press(k)
  PROVE  FlowPart'
<1> DEFINE u == [source |-> "key", body |-> k]
<1>1. channel' = Append(channel, u) /\ UNCHANGED <<rows, ring, emitted, cursor, at, answer>>
  BY DEF Press, eventLogVars, logVars, viewVars, pollVars
<1>2. ~IsPage(u.source, u.body)
  BY DEF IsPage
<1>3. Coming' = Coming
  BY <1>1, SameComing
<1> HIDE DEF u
<1> QED
  BY <1>1, <1>2, <1>3, PagelessFlow

(* The App takes an update: only a page changes the rows.                  *)
LEMMA TakeCases ==
  ASSUME UiPart, TakeUpdate
  PROVE  /\ channel # <<>> /\ channel' = Tail(channel) /\ Head(channel) = channel[1]
         /\ 1 \in DOMAIN channel /\ UNCHANGED <<cursor, ring, emitted>>
         /\ Coming' = Coming /\ answer'["events"] = answer["events"]
         /\ \/ IsPage(channel[1].source, channel[1].body) /\ MergePage(channel[1].body)
            \/ ~IsPage(channel[1].source, channel[1].body) /\ rows'.events = rows.events
<1> DEFINE u == channel[1]
<1>1. /\ channel # <<>> /\ channel' = Tail(channel)
      /\ UNCHANGED <<cursor, ring, emitted>>
  BY DEF TakeUpdate, eventLogVars, logVars
<1>2. 1 \in DOMAIN channel /\ Head(channel) = u
  BY <1>1, Taken DEF UiPart, UiTypes
<1>3. \/ u.source = "key" /\ u.body \in Keys
      \/ u.source \in Sources /\ IsAnswer(u.source, u.body)
  BY <1>2 DEF UiPart, UiTypes
<1>4. \/ u.source # "key" /\ Apply(u) /\ UNCHANGED <<at, answer>>
      \/ u.source = "key" /\ u.body # "q" /\ Handle(u.body)
      \/ u.source = "key" /\ u.body = "q" /\ UNCHANGED <<at, answer, viewVars>>
  BY <1>2 DEF TakeUpdate
<1>5. DOMAIN rows = {"tickets", "events", "escalations"} /\ ViewTypes /\ AcksAreListed
  BY DEF UiPart, UiTypes, ViewTypes
<1> HIDE DEF u
<1>6. CASE u.source # "key" /\ Apply(u) /\ UNCHANGED <<at, answer>>
  <2>1. Coming' = Coming
    BY <1>6, SameComing
  <2>2. \/ IsError(u.body) /\ ApplyError(u.source)
        \/ ~IsError(u.body) /\ u.source = "tickets" /\ ApplyTickets(u.body.list)
        \/ ~IsError(u.body) /\ u.source = "events" /\ MergePage(u.body)
        \/ ~IsError(u.body) /\ u.source = "escalations" /\ ApplyEscalations(u.body.list)
        \/ ~IsError(u.body) /\ u.source = "detail" /\ ApplyDetail(u.body)
        \/ ~IsError(u.body) /\ u.source = "refresh" /\ ApplyRefreshAck
    BY <1>3, <1>6, ApplyCases
  <2>3. \/ IsPage(u.source, u.body) /\ MergePage(u.body)
        \/ ~IsPage(u.source, u.body) /\ rows'.events = rows.events
    BY <1>5, <2>2 DEF IsPage, ApplyError, ApplyTickets, ApplyEscalations, ApplyDetail,
                      ApplyRefreshAck
  <2> QED
    BY <1>1, <1>2, <1>6, <2>1, <2>3 DEF u
<1>7. CASE u.source = "key" /\ u.body # "q" /\ Handle(u.body)
  <2>1. /\ rows' = rows
        /\ \/ at' = at /\ answer' = answer
           \/ /\ at' = [at EXCEPT !["refresh"] = "asked"]
              /\ answer' = [answer EXCEPT !["refresh"] = [ack |-> TRUE]]
    BY <1>3, <1>5, <1>7, HandleKeeps DEF Sources
  <2>2. Coming' = Coming /\ answer'["events"] = answer["events"]
    <3>1. CASE at' = at /\ answer' = answer
      BY <3>1, SameComing
    <3>2. CASE /\ at' = [at EXCEPT !["refresh"] = "asked"]
               /\ answer' = [answer EXCEPT !["refresh"] = [ack |-> TRUE]]
      <4>1. "refresh" \in Sources \ {"events"} /\ UiTypes
        BY DEF Sources, UiPart
      <4> QED
        BY <3>2, <4>1, OtherAsks
    <3> QED
      BY <2>1, <3>1, <3>2
  <2>3. ~IsPage(u.source, u.body)
    BY <1>7 DEF IsPage
  <2> QED
    BY <1>1, <1>2, <2>1, <2>2, <2>3 DEF u
<1>8. CASE u.source = "key" /\ u.body = "q" /\ UNCHANGED <<at, answer, viewVars>>
  <2>1. Coming' = Coming /\ rows' = rows
    BY <1>8, SameComing DEF viewVars
  <2>2. ~IsPage(u.source, u.body)
    BY <1>8 DEF IsPage
  <2> QED
    BY <1>1, <1>2, <1>8, <2>1, <2>2 DEF u
<1> QED
  BY <1>4, <1>6, <1>7, <1>8

LEMMA TakeFlow ==
  ASSUME FlowPart, UiPart, LogTypes, TakeUpdate
  PROVE  FlowPart'
<1>1. UiTypes
  BY DEF UiPart
<1>2. /\ channel # <<>> /\ channel' = Tail(channel) /\ UNCHANGED <<cursor, ring, emitted>>
      /\ Coming' = Coming /\ (Coming # <<>> => answer'["events"].gap = answer["events"].gap)
  BY TakeCases
<1> DEFINE R == ToSet(rows.events) \cup ToSet(PageAt(1))
<1>3. /\ ToSet(rows'.events) \subseteq R
      /\ \A x \in R \ ToSet(rows'.events) : \E y \in ToSet(rows'.events) : x.id < y.id
      /\ \A i, j \in DOMAIN rows'.events : i < j => rows'.events[i].id < rows'.events[j].id
  <2>1. CASE IsPage(channel[1].source, channel[1].body) /\ MergePage(channel[1].body)
    BY <1>1, <1>2, <2>1, MergedRows
  <2>2. CASE ~IsPage(channel[1].source, channel[1].body) /\ rows'.events = rows.events
    <3>1. PageAt(1) = <<>>
      BY <2>2 DEF PageAt
    <3>2. ToSet(PageAt(1)) = {}
      BY <3>1 DEF ToSet
    <3> QED
      BY <2>2, <3>2 DEF FlowPart, FlowInv
  <2> QED
    BY TakeCases, <2>1, <2>2
<1> HIDE DEF R
<1> QED
  BY <1>1, <1>2, <1>3, TakenFlow DEF R
-----------------------------------------------------------------------------
(* The invariant. *)
LEMMA Parts == IInv <=> LogPart /\ UiPart /\ FlowPart
BY DEF IInv, LogPart, UiPart, FlowPart

LEMMA Initially == Init => IInv
<1> SUFFICES ASSUME Init PROVE IInv
  OBVIOUS
<1> USE EventLogAssumption, TuiAssumption DEF Init, EventLogInit
<1>1. LogTypes
  <2>1. 1 \in 1 .. MaxBoots /\ 0 \in 0 .. MaxEvents /\ 0 \in 0 .. MaxFaults /\ 1 \in 1 .. 0 + 1
    OBVIOUS
  <2>2. <<>> \in Seq(Events) /\ Len(<<>>) = 0 /\ 0 <= RingSize
    OBVIOUS
  <2>3. file \in [Writers -> Seq(Events)] /\ buffer \in [Writers -> Seq(Events)]
    BY <2>2
  <2>4. unstored \in [Writers -> {Idle} \cup {<<e>> : e \in Events}]
    OBVIOUS
  <2> QED
    BY <2>1, <2>2, <2>3, <2>4 DEF LogTypes
<1>2. LogOrder
  BY DEF LogOrder, RingOrder, StoreOrder
<1>3. QueueInv /\ RecencyInv
  BY DEF QueueInv, RecencyInv
<1>4. UiTypes
  <2>1. channel \in Seq(ToSet(channel)) /\ Len(channel) <= ChannelSize
    OBVIOUS
  <2>2. /\ DOMAIN rows = {"tickets", "events", "escalations"}
        /\ rows.tickets \in Seq(Tickets) /\ rows.escalations \in Seq(Entries)
        /\ rows.events \in Seq(Events) /\ Len(rows.events) <= MaxRows
    OBVIOUS
  <2>3. /\ DOMAIN selected = {"tickets", "escalations"}
        /\ \A l \in DOMAIN selected : selected[l] = 1 /\ rows[l] = <<>>
    OBVIOUS
  <2>4. at \in [Sources -> {"idle", "asked", "acked", "answered"}] /\ DOMAIN answer = Sources
        /\ \A s \in Sources : at[s] = "idle"
    OBVIOUS
  <2> QED
    BY <2>1, <2>2, <2>3, <2>4 DEF UiTypes
<1>5. RefreshInv /\ AcksAreListed
  <2>1. at["refresh"] = "idle" /\ refresh = "idle" /\ DOMAIN channel = {} /\ acked = {}
    BY DEF Sources
  <2> QED
    BY <2>1 DEF RefreshInv, AcksAreListed
<1>6. Coming = <<>> /\ DOMAIN channel = {} /\ Before(Len(channel) + 1) = {}
  <2>1. at["events"] = "idle"
    BY DEF Sources
  <2>2. ToSet(rows.events) = {}
    BY DEF ToSet
  <2> QED
    BY <2>1, <2>2 DEF Coming, Before
<1>7. FlowInv /\ CursorInv
  BY <1>6 DEF FlowInv, CursorInv, Delivered, Gapless, Younger
<1> QED
  BY <1>1, <1>2, <1>3, <1>4, <1>5, <1>7 DEF IInv

(* The daemon takes a step, or nothing happens: the UI stands.             *)
LEMMA UiStands ==
  ASSUME IInv, LogPart', RingGrows, UNCHANGED tuiVars
  PROVE  IInv'
<1>1. UNCHANGED <<cursor, channel, viewVars, at, answer, rows>>
  BY DEF tuiVars, pollVars, viewVars
<1>2. UiPart'
  <2>1. UiPart
    BY Parts
  <2>2. /\ at' \in [Sources -> {"idle", "asked", "acked", "answered"}]
        /\ DOMAIN answer' = Sources
        /\ \A s \in Sources : at'[s] # "idle" => IsAnswer(s, answer'[s])
        /\ at'["refresh"] # "idle" <=> at["refresh"] # "idle"
    BY <1>1, <2>1 DEF UiPart, UiTypes
  <2> QED
    BY <1>1, <2>1, <2>2, AsksKeep
<1>3. FlowPart'
  <2>1. Coming' = Coming
    BY <1>1, SameComing
  <2> QED
    BY <1>1, <2>1, FlowWaits, Parts DEF LogPart, UiPart
<1> QED
  BY <1>2, <1>3, Parts, PTL

(* A poller asks: nothing but its request changes.                         *)
LEMMA AskStep ==
  ASSUME IInv, NEW s \in Sources \ {"refresh"}, NEW a, Ask(s, a), IsAnswer(s, a),
         s = "events" => FlowPart'
  PROVE  IInv'
<1>1. LogPart /\ UiPart /\ FlowPart
  BY Parts
<1>2. LogPart' /\ RingGrows
  BY <1>1, UnchangedStep DEF Ask, eventLogVars, logVars
<1>3. UiPart'
  BY <1>1, AskKeeps
<1>4. FlowPart'
  <2>1. CASE s # "events"
    <3>1. Coming' = Coming /\ answer'["events"] = answer["events"]
      BY <1>1, <2>1, OtherAsks DEF Ask, UiPart
    <3>2. UNCHANGED <<channel, cursor, rows>>
      BY DEF Ask, viewVars
    <3> QED
      BY <1>1, <1>2, <3>1, <3>2, FlowWaits DEF LogPart, UiPart
  <2> QED
    BY <2>1
<1> QED
  BY <1>2, <1>3, <1>4, Parts, PTL

(* An answer goes on its way, or is lost.                                  *)
LEMMA MovesStep ==
  ASSUME IInv, LogPart', RingGrows, NEW s \in Sources, at[s] # "idle",
         NEW stage \in {"acked", "answered"}, at' = [at EXCEPT ![s] = stage],
         answer' = answer \/ answer' = [answer EXCEPT ![s] = Failed],
         UNCHANGED <<cursor, channel, viewVars>>
  PROVE  IInv'
<1>1. LogPart /\ UiPart /\ FlowPart
  BY Parts
<1>2. UiPart'
  BY <1>1, MovesOn
<1>3. FlowPart'
  <2>1. UNCHANGED <<channel, cursor, rows>>
    BY DEF viewVars
  <2> QED
    BY <1>1, <2>1, MovesFlow DEF LogPart, UiPart
<1> QED
  BY <1>2, <1>3, Parts, PTL

(* A step of the channel or of the App leaves the daemon alone.            *)
LEMMA ChannelStep ==
  ASSUME IInv, UNCHANGED eventLogVars, UiPart', FlowPart'
  PROVE  IInv'
<1>1. LogPart'
  BY Parts, UnchangedStep DEF eventLogVars, logVars
<1> QED
  BY <1>1, Parts, PTL

LEMMA Step == IInv /\ [Next]_vars => IInv'
<1> SUFFICES ASSUME IInv, [Next]_vars PROVE IInv'
  OBVIOUS
<1>1. LogPart /\ UiPart /\ FlowPart
  BY Parts
<1>2. LogTypes /\ UiTypes /\ RingOrder
  BY <1>1 DEF LogOrder, LogPart, UiPart
<1>3. CASE DaemonStep /\ UNCHANGED tuiVars
  BY <1>1, <1>3, DaemonStepKeeps, UiStands
<1>4. CASE AskTickets
  <2> DEFINE a == [list |-> recency]
  <2>1. IsAnswer("tickets", a) /\ Ask("tickets", a) /\ "tickets" \in Sources \ {"refresh"}
    BY <1>1, <1>4 DEF AskTickets, LogPart, RecencyInv, IsAnswer, Sources
  <2> HIDE DEF a
  <2> QED
    BY <2>1, AskStep
<1>5. CASE AskEvents
  <2> DEFINE a == RingPage(cursor, Anything, Anything, PageLimit)
  <2>1. FlowPart' /\ IsAnswer("events", answer'["events"])
    BY <1>1, <1>2, <1>5, AskFlow
  <2>2. Ask("events", a)
    BY <1>5 DEF AskEvents
  <2>3. answer'["events"] = a
    BY <1>2, <2>2 DEF Ask, UiTypes, Sources
  <2>4. IsAnswer("events", a) /\ "events" \in Sources \ {"refresh"}
    BY <2>1, <2>3 DEF Sources
  <2> HIDE DEF a
  <2> QED
    BY <2>1, <2>2, <2>4, AskStep
<1>6. CASE AskEscalations
  <2> DEFINE a == [list |-> queue]
  <2>1. IsAnswer("escalations", a) /\ Ask("escalations", a)
        /\ "escalations" \in Sources \ {"refresh"}
    BY <1>1, <1>6 DEF AskEscalations, LogPart, QueueInv, IsAnswer, Sources
  <2> HIDE DEF a
  <2> QED
    BY <2>1, AskStep
<1>7. CASE AskDetail
  <2> DEFINE a == TicketDetail(wanted)
  <2>1. Ask("detail", a)
    BY <1>7 DEF AskDetail
  <2>2. IsAnswer("detail", a) /\ "detail" \in Sources \ {"refresh"}
    BY DEF IsAnswer, Sources
  <2> HIDE DEF a
  <2> QED
    BY <2>1, <2>2, AskStep
<1>8. CASE AnnounceNudge
  <2>1. LogPart' /\ RingGrows
    BY <1>1, <1>8, LoggedKeeps DEF AnnounceNudge, Kinds
  <2>2. /\ "refresh" \in Sources /\ at["refresh"] # "idle" /\ answer' = answer
        /\ at' = [at EXCEPT !["refresh"] = "acked"] /\ UNCHANGED <<cursor, channel, viewVars>>
    BY <1>8 DEF AnnounceNudge, Sources
  <2> QED
    BY <2>1, <2>2, MovesStep
<1>9. ASSUME NEW s \in Sources, Answer(s) PROVE IInv'
  <2>1. LogPart' /\ RingGrows
    BY <1>1, <1>9, LoggedKeeps DEF Answer, Kinds
  <2>2. /\ at[s] # "idle" /\ answer' = answer
        /\ at' = [at EXCEPT ![s] = "answered"] /\ UNCHANGED <<cursor, channel, viewVars>>
    BY <1>9 DEF Answer
  <2> QED
    BY <2>1, <2>2, MovesStep
<1>10. ASSUME NEW s \in Sources, Lose(s) PROVE IInv'
  <2>1. LogPart' /\ RingGrows
    BY <1>1, <1>10, UnchangedStep DEF Lose
  <2>2. /\ at[s] # "idle" /\ answer' = [answer EXCEPT ![s] = Failed]
        /\ at' = [at EXCEPT ![s] = "answered"] /\ UNCHANGED <<cursor, channel, viewVars>>
    BY <1>10 DEF Lose
  <2> QED
    BY <2>1, <2>2, MovesStep
<1>11. ASSUME NEW s \in Sources, Deliver(s) PROVE IInv'
  <2>1. UiPart' /\ FlowPart'
    BY <1>1, <1>2, <1>11, DeliverKeeps, DeliverFlow
  <2>2. UNCHANGED eventLogVars
    BY <1>11 DEF Deliver
  <2> QED
    BY <2>1, <2>2, ChannelStep
<1>12. ASSUME NEW k \in Keys, Press(k) PROVE IInv'
  <2>1. UiPart' /\ FlowPart'
    BY <1>1, <1>2, <1>12, PressKeeps, PressFlow
  <2>2. UNCHANGED eventLogVars
    BY <1>12 DEF Press
  <2> QED
    BY <2>1, <2>2, ChannelStep
<1>13. CASE TakeUpdate
  <2>1. UiPart' /\ FlowPart'
    BY <1>1, <1>2, <1>13, TakeKeeps, TakeFlow
  <2>2. UNCHANGED eventLogVars
    BY <1>13 DEF TakeUpdate
  <2> QED
    BY <2>1, <2>2, ChannelStep
<1>14. CASE DebounceEnds
  <2>1. UNCHANGED <<eventLogVars, at, answer, channel, cursor, rows>>
    BY <1>14 DEF DebounceEnds, pollVars
  <2>2. UiPart'
    BY <1>1, <1>14, DebounceKeeps
  <2>3. Coming' = Coming
    BY <2>1, SameComing
  <2>4. LogPart' /\ RingGrows
    BY <1>1, <2>1, UnchangedStep DEF eventLogVars, logVars
  <2>5. FlowPart'
    BY <1>1, <1>2, <2>1, <2>3, <2>4, FlowWaits DEF LogPart
  <2> QED
    BY <2>1, <2>2, <2>5, ChannelStep
<1>15. CASE UNCHANGED vars
  <2>1. LogPart' /\ RingGrows
    BY <1>1, <1>15, UnchangedStep DEF vars, eventLogVars, logVars
  <2>2. UNCHANGED tuiVars
    BY <1>15 DEF vars, tuiVars
  <2> QED
    BY <2>1, <2>2, UiStands
<1> QED
  BY <1>3, <1>4, <1>5, <1>6, <1>7, <1>8, <1>9, <1>10, <1>11, <1>12, <1>13, <1>14, <1>15
     DEF Next

LEMMA Invariant == Spec => []IInv
BY Initially, Step, PTL DEF Spec

-----------------------------------------------------------------------------
(* The results. *)

(* A list that has each member once is as long as the set of them.         *)
LEMMA CountedOnce ==
  ASSUME NEW S, NEW s \in Seq(S), \A i, j \in DOMAIN s : s[i] = s[j] => i = j
  PROVE  Len(s) = Cardinality(ToSet(s))
<1> DEFINE T == ToSet(s)
<1>1. DOMAIN s = 1 .. Len(s) /\ Len(s) \in Nat
  OBVIOUS
<1>2. s \in [1 .. Len(s) -> T]
  <2>1. s = [i \in 1 .. Len(s) |-> s[i]] /\ \A i \in 1 .. Len(s) : s[i] \in T
    BY <1>1 DEF ToSet
  <2> QED
    BY <2>1
<1>3. s \in Bijection(1 .. Len(s), T)
  <2>1. \A t \in T : \E i \in 1 .. Len(s) : s[i] = t
    BY <1>1 DEF ToSet
  <2> QED
    BY <1>1, <1>2, <2>1 DEF Bijection, Injection, IsInjective, Surjection
<1>4. ExistsBijection(1 .. Len(s), T)
  BY <1>3 DEF ExistsBijection
<1> HIDE DEF T
<1>5. Cardinality(T) = Len(s)
  BY <1>1, <1>4, FS_CountingElements
<1> QED
  BY <1>5 DEF T

LEMMA Typed == IInv => TypeOK
<1> SUFFICES ASSUME IInv PROVE TypeOK
  OBVIOUS
<1>1. /\ boot \in 1 .. MaxBoots /\ emitted \in 0 .. MaxEvents /\ faults \in 0 .. MaxFaults
      /\ DOMAIN file = Writers /\ Len(ring) <= RingSize
  BY DEF IInv, LogTypes
<1>2. nextSeq \in 1 .. MaxEvents + 1
  BY EventLogAssumption DEF IInv, LogTypes
<1>3. Len(queue) <= QueueCapacity
  BY DEF IInv, QueueInv
<1>4. ToSet(recency) \subseteq Tickets /\ Len(recency) = Cardinality(ToSet(recency))
  BY CountedOnce, OwnRange DEF IInv, RecencyInv
<1>5. /\ Len(channel) <= ChannelSize
      /\ at \in [Sources -> {"idle", "asked", "acked", "answered"}]
      /\ cursor \in Nat \cup {Anything} /\ wanted \in Tickets \cup {Anything}
      /\ Len(rows.events) <= MaxRows
      /\ \A l \in DOMAIN selected :
           \/ selected[l] \in DOMAIN rows[l]
           \/ selected[l] = 1 /\ rows[l] = <<>>
      /\ view \in {"tickets", "detail", "escalations"}
      /\ refresh \in {"idle", "inflight", "debounced", "expired"}
  BY DEF IInv, UiTypes
<1> QED
  BY <1>1, <1>2, <1>3, <1>4, <1>5 DEF TypeOK

(* The ring is the tail of the files and the store is behind them, through *)
(* failed writes and restarts (events.rs: EventWriter::emit,               *)
(* append_event_best_effort; ring.rs: EventRing::record).                  *)
THEOREM CopiesAgree == Spec => []LogInv
<1>1. ASSUME IInv PROVE LogInv
  <2>1. RingOrder /\ StoreOrder /\ ring \in Seq(Events) /\ store \in Seq(Events)
    BY <1>1 DEF LogOrder, IInv, LogTypes
  <2>2. RingIsTheTail
    BY <2>1 DEF RingOrder, RingIsTheTail, OldestFirst
  <2>3. StoreTrailsFile
    BY <2>1 DEF StoreOrder, StoreTrailsFile, OldestFirst
  <2> QED
    BY <1>1, <2>2, <2>3, Typed DEF LogInv
<1> QED
  BY <1>1, Invariant, PTL

(* Every escalation the queue shows has been announced, is about to be, or *)
(* waits behind a failed flush (EscalationQueue::insert_and_emit).         *)
THEOREM NoEscalationIsSilent == Spec => []EscalationsAreLogged
<1>1. ASSUME IInv PROVE EscalationsAreLogged
  <2>1. DaemonWriter \in Writers
    BY DEF Writers
  <2>2. file[DaemonWriter] \in Seq(Events) /\ buffer[DaemonWriter] \in Seq(Events)
    BY <1>1, <2>1 DEF IInv, LogTypes
  <2>3. ToSet(file[DaemonWriter] \o buffer[DaemonWriter]) =
          ToSet(file[DaemonWriter]) \cup ToSet(buffer[DaemonWriter])
    BY <2>2, ConcatRange
  <2>4. \A i \in DOMAIN queue : queue[i] \in unlogged \/ Announced(queue[i])
    BY <1>1 DEF IInv, QueueInv
  <2>5. \A e \in ToSet(queue) : e \in unlogged \/ Announced(e)
    BY <2>4 DEF ToSet
  <2> QED
    BY <2>3, <2>5 DEF EscalationsAreLogged, Announced
<1> QED
  BY <1>1, Invariant, PTL

(* The screen shows no event twice and none out of order, one refresh at a *)
(* time, and acknowledges nothing that is not listed (app.rs: apply;       *)
(* poll/events.rs, model/escalations.rs).                                *)
THEOREM ScreenIsSound == Spec => []ViewInv
<1>1. ASSUME IInv PROVE ViewInv
  <2>1. NoEventTwice
    BY <1>1 DEF IInv, FlowInv, NoEventTwice
  <2>2. RefreshOnce
    <3> DEFINE replies == {i \in DOMAIN channel : channel[i].source = "refresh"}
    <3>1. replies # {} <=> \E p \in DOMAIN channel : channel[p].source = "refresh"
      OBVIOUS
    <3> QED
      BY <1>1, <3>1 DEF IInv, RefreshInv, RefreshOnce
  <2> QED
    BY <1>1, <2>1, <2>2 DEF IInv, ViewInv
<1> QED
  BY <1>1, Invariant, PTL

(* The rows change so that each new hole between two of them is announced. *)
HolesTold ==
  \A i \in 1 .. Len(rows'.events) - 1 :
    Hole(rows'.events, i) =>
      \/ gapPending'
      \/ \E j \in 1 .. Len(rows.events) - 1 :
           rows.events[j] = rows'.events[i] /\ rows.events[j + 1] = rows'.events[i + 1]

(* Two neighbouring rows leave out events of the ring only if the page     *)
(* that put them there said so, whatever pages were lost or late           *)
(* (EventRing::page, EventsView::merge_page).                              *)
THEOREM NoHoleIsSilent == Spec => HolesAreAnnounced
<1>1. ASSUME rows'.events = rows.events PROVE HolesTold
  BY <1>1 DEF HolesTold
<1>2. ASSUME IInv, [Next]_vars PROVE [HolesTold]_vars
  <2>1. CASE TakeUpdate
    <3>1. UiPart /\ UiTypes /\ FlowPart
      BY <1>2, Parts DEF UiPart
    <3>2. CASE IsPage(channel[1].source, channel[1].body) /\ MergePage(channel[1].body)
      <4>1. channel # <<>>
        BY <2>1 DEF TakeUpdate
      <4> QED
        BY <3>1, <3>2, <4>1, MergedRows DEF HolesTold
    <3> QED
      BY <1>1, <2>1, <3>1, <3>2, TakeCases
  <2>2. CASE UNCHANGED vars
    BY <2>2
  <2>3. CASE ~TakeUpdate /\ Next
    <3>1. rows' = rows
      BY <2>3 DEF Next, tuiVars, viewVars, vars, AskTickets, AskEvents, AskEscalations, AskDetail,
                  Ask, AnnounceNudge, Answer, Lose, Deliver, Press, DebounceEnds
    <3> QED
      BY <1>1, <3>1
  <2> QED
    BY <1>2, <2>1, <2>2, <2>3
<1>3. IInv /\ [Next]_vars => [HolesTold]_vars
  BY <1>2
<1> QED
  BY <1>3, Invariant, PTL DEF Spec, HolesAreAnnounced, HolesTold
=============================================================================
