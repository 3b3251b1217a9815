---------------------------- MODULE BoundaryProofs -----------------------------
(***************************************************************************)
(* Proofs about the two places where the daemon depends on what it does    *)
(* not control: the Linear API (LinearClient) and the child process of a   *)
(* visit (StateProcess).  The two share no variable.                       *)
(*                                                                         *)
(* For any issues, pages, retries, backoffs and callers: the enumeration   *)
(* returns all of the issues or nothing, no backoff outlives it, and       *)
(* whoever is told of a poll was polled for after asking.  For pipes and   *)
(* prompts of any size and any amount of output: a visit keeps its         *)
(* inductive invariant, and from it its safety properties.                 *)
(***************************************************************************)
EXTENDS LinearClient, StateProcess, SequenceTheorems, TLAPS

-----------------------------------------------------------------------------
(* LinearClient. *)

(* What a query has so far is a prefix of the issues, up to its cursor. *)
Fetched ==
  /\ Querying => ~partial
  /\ job = "viewer" => after = 0 /\ out = <<>>
  /\ job = "enumerate" => out = SubSeq(Issues, 1, after)

(* A request goes out when the backoff is over, and only of a query; none  *)
(* of it is left when the queries end.                                     *)
Rested ==
  /\ sent => backoff = 0
  /\ ~Querying => backoff = 0 /\ ~sent

(* Tracker and callers start after cold start, and the tracker holds       *)
(* nothing between two polls.                                              *)
TrackerLater ==
  /\ tracker # "recv" \/ asking # {} => Serving
  /\ tracker = "recv" => acks = <<>>

Asked(c) == c \in asking \/ Contains(queue, c) \/ Contains(acks, c)

(* A caller waits at one place at a time. *)
OnePlace ==
  \A c \in Callers :
    /\ Asked(c) => answers[c] = "waiting"
    /\ c \in asking => ~Contains(queue, c) /\ ~Contains(acks, c)
    /\ Contains(acks, c) => ~Contains(queue, c)

(* Between a poll and its acknowledgements: they are for callers that had  *)
(* asked before the poll.                                                  *)
PolledFor == tracker = "ack" => \A c \in Callers : Contains(acks, c) => c \notin unpolled

(* The types by what changes together. *)
QueryTypes ==
  /\ job \in {"viewer", "enumerate", "serve", "exit"} /\ sent \in BOOLEAN
  /\ retries \in 0 .. MaxRetries /\ after \in 0 .. Len(Issues)
  /\ out \in Seq(Nat) /\ partial \in BOOLEAN

RateTypes == base \in {0} \cup MinBackoff .. MaxBackoff /\ backoff \in 0 .. base

NudgeTypes ==
  /\ idle \in 0 .. Cadence /\ quiet \in 0 .. Silent
  /\ asking \subseteq Callers /\ queue \in Seq(Callers) /\ Len(queue) <= QueueSize
  /\ answers \in [Callers -> {"none", "waiting", "refused", "dropped", "polled", "shared"}]
  /\ acks \in Seq(Callers) /\ tracker \in {"recv", "decide", "ack"}
  /\ unpolled \subseteq Callers

Inv == ClientInv /\ Fetched /\ Rested /\ TrackerLater /\ OnePlace /\ PolledFor

-----------------------------------------------------------------------------
LEMMA LinearInitInv == LinearInit => Inv
<1> SUFFICES ASSUME LinearInit PROVE Inv
  OBVIOUS
<1>1. LinearTypes
  <2>1. QueryTypes
    <3>1. out \in Seq(Nat)
      BY DEF LinearInit
    <3>2. retries \in 0 .. MaxRetries /\ after \in 0 .. Len(Issues)
      BY LinearAssumption DEF LinearInit
    <3> QED
      BY <3>1, <3>2 DEF LinearInit, QueryTypes
  <2>2. RateTypes
    BY DEF LinearInit, RateTypes
  <2>3. NudgeTypes
    BY LinearAssumption DEF LinearInit, NudgeTypes, Silent
  <2> QED
    BY <2>1, <2>2, <2>3 DEF LinearTypes, QueryTypes, RateTypes, NudgeTypes
<1>2. AllOrNothing /\ NudgesAreServed
  BY DEF LinearInit, AllOrNothing, NudgesAreServed, Serving
<1>3. Fetched
  BY LinearAssumption, SubSeqEmpty DEF LinearInit, Fetched, Querying
<1>4. Rested /\ TrackerLater /\ OnePlace /\ PolledFor
  BY DEF LinearInit, Rested, Querying, TrackerLater, OnePlace, Asked, PolledFor, Contains
<1> QED
  BY <1>1, <1>2, <1>3, <1>4 DEF Inv, ClientInv

-----------------------------------------------------------------------------
(* The queries: the tracker has not started. *)

LEMMA Backoffs ==
  ASSUME LinearTypes, NEW header \in RetryAfter \cup {NoHeader}, Record429(header)
  PROVE  base' \in MinBackoff .. MaxBackoff /\ backoff' = base'
<1>1. /\ MinBackoff \in Nat /\ MaxBackoff \in Nat /\ MinBackoff <= MaxBackoff
      /\ base \in Nat /\ (header # NoHeader => header \in Nat)
  BY LinearAssumption DEF LinearTypes
<1>2. base' = Clamp(IF header = NoHeader THEN 2 * base ELSE header) /\ backoff' = base'
  BY DEF Record429
<1>3. \A s \in Nat : Clamp(s) \in MinBackoff .. MaxBackoff
  BY <1>1 DEF Clamp, Least
<1>4. (IF header = NoHeader THEN 2 * base ELSE header) \in Nat
  BY <1>1
<1> QED
  BY <1>2, <1>3, <1>4

LEMMA FailKeeps ==
  ASSUME Inv, sent, Fail, sent' = FALSE, backoff' = 0,
         base' \in {0} \cup MinBackoff .. MaxBackoff,
         UNCHANGED <<idle, quiet, nudgeVars>>
  PROVE  Inv'
<1> USE DEF Inv, Fail, nudgeVars
<1>1. Querying
  BY DEF Rested
<1>2. LinearTypes'
  <2>1. QueryTypes'
    <3>1. out' \in Seq(Nat)
      BY DEF ClientInv, LinearTypes
    <3>2. retries' \in 0 .. MaxRetries /\ after' \in 0 .. Len(Issues)
      BY LinearAssumption DEF ClientInv, LinearTypes
    <3>3. job' \in {"viewer", "enumerate", "serve", "exit"} /\ partial' \in BOOLEAN /\ sent' \in BOOLEAN
      BY DEF ClientInv, LinearTypes
    <3> QED
      BY <3>1, <3>2, <3>3 DEF QueryTypes
  <2>2. RateTypes'
    BY LinearAssumption DEF RateTypes
  <2>3. NudgeTypes'
    BY DEF ClientInv, LinearTypes, NudgeTypes
  <2> QED
    BY <2>1, <2>2, <2>3 DEF LinearTypes, QueryTypes, RateTypes, NudgeTypes
<1>3. AllOrNothing' /\ NudgesAreServed'
  BY <1>1 DEF ClientInv, AllOrNothing, NudgesAreServed, Serving, Querying
<1>4. Fetched' /\ Rested' /\ TrackerLater'
  BY <1>1 DEF Fetched, Rested, TrackerLater, Serving, Querying
<1>5. OnePlace' /\ PolledFor'
  BY DEF OnePlace, PolledFor, Asked
<1> QED
  BY <1>2, <1>3, <1>4, <1>5 DEF ClientInv

(* A step of a query that leaves the tracker and its nudges alone. *)
LEMMA QueryKeeps ==
  ASSUME Inv, Querying, LinearTypes', AllOrNothing', Fetched', Rested',
         UNCHANGED nudgeVars
  PROVE  Inv'
<1>0. tracker = "recv" /\ asking = {}
  BY DEF Inv, TrackerLater, Serving, Querying
<1>1. NudgesAreServed' /\ TrackerLater' /\ OnePlace' /\ PolledFor'
  BY <1>0 DEF Inv, ClientInv, NudgesAreServed, TrackerLater, OnePlace, Asked, PolledFor, nudgeVars
<1> QED
  BY <1>1 DEF Inv, ClientInv

LEMMA SendKeeps ==
  ASSUME Inv, Send
  PROVE  Inv'
<1> USE DEF Inv, Send, rateVars, nudgeVars
<1>1. LinearTypes' /\ AllOrNothing' /\ Fetched' /\ Rested'
  BY DEF ClientInv, LinearTypes, AllOrNothing, Serving, Fetched, Rested, Querying
<1> QED
  BY <1>1, QueryKeeps

LEMMA TooManyKeeps ==
  ASSUME Inv, NEW header \in RetryAfter \cup {NoHeader}, TooMany(header)
  PROVE  Inv'
<1>1. CASE retries >= MaxRetries
  BY <1>1, FailKeeps DEF TooMany, Inv, ClientInv, LinearTypes, Rested, rateVars
<1>2. CASE ~(retries >= MaxRetries)
  <2> USE <1>2 DEF TooMany, Inv, nudgeVars
  <2>1. base' \in MinBackoff .. MaxBackoff /\ backoff' = base'
    BY Backoffs DEF ClientInv
  <2>2. Querying
    BY DEF Rested
  <2>3. LinearTypes'
    <3>1. QueryTypes'
      <4>1. out' \in Seq(Nat)
        BY DEF ClientInv, LinearTypes
      <4>2. retries' \in 0 .. MaxRetries /\ after' \in 0 .. Len(Issues)
        BY LinearAssumption DEF ClientInv, LinearTypes
      <4>3. job' \in {"viewer", "enumerate", "serve", "exit"} /\ partial' \in BOOLEAN /\ sent' \in BOOLEAN
        BY DEF ClientInv, LinearTypes
      <4> QED
        BY <4>1, <4>2, <4>3 DEF QueryTypes
    <3>2. RateTypes'
      BY <2>1, LinearAssumption DEF RateTypes
    <3>3. NudgeTypes'
      BY DEF ClientInv, LinearTypes, NudgeTypes
    <3> QED
      BY <3>1, <3>2, <3>3 DEF LinearTypes, QueryTypes, RateTypes, NudgeTypes
  <2>4. AllOrNothing' /\ Fetched' /\ Rested'
    BY <2>2 DEF ClientInv, AllOrNothing, Serving, Fetched, Rested, Querying
  <2> QED
    BY <2>2, <2>3, <2>4, QueryKeeps
<1> QED
  BY <1>1, <1>2

LEMMA FailingKeeps ==
  ASSUME Inv, Refusal \/ Nonsense
  PROVE  Inv'
  BY FailKeeps DEF Refusal, Nonsense, ClearBackoff, Inv, ClientInv, LinearTypes, Rested, rateVars

LEMMA ViewerKeeps ==
  ASSUME Inv, Viewer
  PROVE  Inv'
<1> USE DEF Inv, Viewer, ClearBackoff, nudgeVars
<1>1. Querying /\ after = 0 /\ out = <<>>
  BY DEF Querying, Fetched
<1>2. LinearTypes'
  <2>1. QueryTypes'
    <3>1. out' \in Seq(Nat)
      BY DEF ClientInv, LinearTypes
    <3>2. retries' \in 0 .. MaxRetries /\ after' \in 0 .. Len(Issues)
      BY LinearAssumption DEF ClientInv, LinearTypes
    <3>3. job' \in {"viewer", "enumerate", "serve", "exit"} /\ partial' \in BOOLEAN /\ sent' \in BOOLEAN
      BY DEF ClientInv, LinearTypes
    <3> QED
      BY <3>1, <3>2, <3>3 DEF QueryTypes
  <2>2. RateTypes'
    BY LinearAssumption DEF RateTypes
  <2>3. NudgeTypes'
    BY DEF ClientInv, LinearTypes, NudgeTypes
  <2> QED
    BY <2>1, <2>2, <2>3 DEF LinearTypes, QueryTypes, RateTypes, NudgeTypes
<1>3. SubSeq(Issues, 1, 0) = <<>>
  BY LinearAssumption, SubSeqEmpty
<1>4. AllOrNothing' /\ Fetched' /\ Rested'
  BY <1>1, <1>3 DEF AllOrNothing, Serving, Fetched, Rested, Querying
<1> QED
  BY <1>1, <1>2, <1>4, QueryKeeps

LEMMA PageKeeps ==
  ASSUME Inv, Page
  PROVE  Inv'
<1> USE DEF Inv, nudgeVars
<1> DEFINE end == Least(after + PageSize, Len(Issues))
<1>1. /\ sent /\ job = "enumerate" /\ sent' = FALSE /\ base' = 0 /\ backoff' = 0
      /\ out' = out \o SubSeq(Issues, after + 1, end) /\ after' = end /\ retries' = 0
      /\ job' = (IF end < Len(Issues) THEN job ELSE "serve")
      /\ UNCHANGED <<partial, idle, quiet, nudgeVars>>
  BY DEF Page, ClearBackoff
<1>2. /\ Issues \in Seq(Nat) /\ Len(Issues) \in Nat /\ PageSize \in Nat
      /\ after \in Nat /\ after <= Len(Issues) /\ out = SubSeq(Issues, 1, after)
  <2>1. Issues \in Seq(Nat) /\ Len(Issues) \in Nat /\ PageSize \in Nat
    BY LinearAssumption
  <2>2. after \in 0 .. Len(Issues)
    BY DEF ClientInv, LinearTypes
  <2>3. out = SubSeq(Issues, 1, after)
    BY <1>1 DEF ClientInv, Fetched
  <2> QED
    BY <2>1, <2>2, <2>3
<1>3. end \in Nat /\ after <= end /\ end <= Len(Issues)
  BY <1>2 DEF Least
<1> HIDE DEF end
<1>4. out' = SubSeq(Issues, 1, end)
  <2>1. /\ 1 \in 1 .. Len(Issues) + 1 /\ after \in 1 - 1 .. Len(Issues)
        /\ end \in after .. Len(Issues)
    BY <1>2, <1>3
  <2> QED
    BY <1>1, <1>2, <2>1, ConcatAdjacentSubSeq
<1>5. ~(end < Len(Issues)) => SubSeq(Issues, 1, end) = Issues
  BY <1>2, <1>3, SubSeqFull
<1>6. out' \in Seq(Nat)
  <2>1. \A i \in 1 .. end : Issues[i] \in Nat
    BY <1>2, <1>3
  <2> QED
    BY <1>2, <1>3, <1>4, <2>1
<1>7. LinearTypes'
  <2>1. QueryTypes'
    <3>1. retries' \in 0 .. MaxRetries /\ after' \in 0 .. Len(Issues)
      BY <1>1, <1>2, <1>3, LinearAssumption
    <3>2. job' \in {"viewer", "enumerate", "serve", "exit"} /\ partial' \in BOOLEAN
      BY <1>1 DEF ClientInv, LinearTypes
    <3> QED
      BY <1>1, <1>6, <3>1, <3>2 DEF QueryTypes
  <2>2. RateTypes'
    BY <1>1 DEF RateTypes
  <2>3. NudgeTypes'
    BY <1>1 DEF ClientInv, LinearTypes, NudgeTypes
  <2> QED
    BY <2>1, <2>2, <2>3 DEF LinearTypes, QueryTypes, RateTypes, NudgeTypes
<1>8. Querying /\ ~partial
  BY <1>1 DEF Querying, Fetched
<1>9. AllOrNothing' /\ Fetched' /\ Rested'
  BY <1>1, <1>4, <1>5, <1>8 DEF AllOrNothing, Serving, Fetched, Rested, Querying
<1> QED
  BY <1>1, <1>7, <1>8, <1>9, QueryKeeps

-----------------------------------------------------------------------------
(* The tracker: the queries are over. *)

LEMMA InQueue ==
  ASSUME NEW c, NEW d
  PROVE  /\ ~Contains(<<>>, c)
         /\ \A s \in Seq(Callers) : Contains(Append(s, d), c) <=> Contains(s, c) \/ c = d
<1>1. ~Contains(<<>>, c)
  BY DEF Contains
<1>2. ASSUME NEW s \in Seq(Callers)
      PROVE  Contains(Append(s, d), c) <=> Contains(s, c) \/ c = d
  <2>1. /\ Len(Append(s, d)) = Len(s) + 1 /\ Len(s) \in Nat /\ Append(s, d)[Len(s) + 1] = d
        /\ \A i \in 1 .. Len(s) : Append(s, d)[i] = s[i]
    OBVIOUS
  <2>2. \A i \in 1 .. Len(s) + 1 : i \in 1 .. Len(s) \/ i = Len(s) + 1
    BY <2>1
  <2>3. \A i \in 1 .. Len(s) : i \in 1 .. Len(s) + 1
    BY <2>1
  <2>4. Len(s) + 1 \in 1 .. Len(s) + 1
    BY <2>1
  <2> QED
    BY <2>1, <2>2, <2>3, <2>4 DEF Contains
<1> QED
  BY <1>1, <1>2

(* A step of the tracker, of a caller or of time, once cold start is over. *)
LEMMA ServeKeeps ==
  ASSUME Inv, Serving, UNCHANGED <<clientVars, rateVars>>,
         LinearTypes', NudgesAreServed', TrackerLater', OnePlace', PolledFor'
  PROVE  Inv'
<1>1. AllOrNothing' /\ Fetched' /\ Rested'
  BY DEF Inv, ClientInv, AllOrNothing, Serving, Fetched, Rested, Querying, clientVars, rateVars
<1> QED
  BY <1>1 DEF Inv, ClientInv

LEMMA AskKeeps ==
  ASSUME Inv, NEW c \in Callers, Ask(c)
  PROVE  Inv'
<1> USE DEF Inv, Ask, ClientInv, clientVars, rateVars
<1>1. LinearTypes'
  BY DEF LinearTypes
<1>2. NudgesAreServed' /\ OnePlace'
  BY DEF LinearTypes, NudgesAreServed, OnePlace, Asked
<1>3. TrackerLater' /\ PolledFor'
  BY DEF TrackerLater, Serving, PolledFor, OnePlace, Asked
<1> QED
  BY <1>1, <1>2, <1>3, ServeKeeps

LEMMA EnqueueKeeps ==
  ASSUME Inv, NEW c \in Callers, Enqueue(c)
  PROVE  Inv'
<1> USE DEF Inv, Enqueue, ClientInv, clientVars, rateVars
<1>0. queue \in Seq(Callers) /\ queue' = Append(queue, c)
  BY DEF LinearTypes
<1>1. LinearTypes'
  BY <1>0, LinearAssumption DEF LinearTypes
<1>2. \A d \in Callers : Contains(queue', d) <=> Contains(queue, d) \/ d = c
  BY <1>0, InQueue
<1>3. NudgesAreServed' /\ OnePlace' /\ TrackerLater' /\ PolledFor'
  BY <1>2 DEF NudgesAreServed, OnePlace, Asked, TrackerLater, Serving, PolledFor
<1>4. Serving
  BY DEF TrackerLater
<1> QED
  BY <1>1, <1>3, <1>4, ServeKeeps

LEMMA TakeKeeps ==
  ASSUME Inv, Take
  PROVE  Inv'
<1> USE DEF Inv, Take, ClientInv, clientVars, rateVars
<1>1. LinearTypes'
  BY LinearAssumption DEF LinearTypes
<1>2. acks = <<>> /\ acks' = queue /\ queue' = <<>>
  BY DEF TrackerLater
<1>3. NudgesAreServed' /\ OnePlace' /\ TrackerLater' /\ PolledFor'
  BY <1>2, InQueue DEF NudgesAreServed, OnePlace, Asked, TrackerLater, Serving, PolledFor
<1> QED
  BY <1>1, <1>3, ServeKeeps

LEMMA DecideKeeps ==
  ASSUME Inv, Decide
  PROVE  Inv'
<1> USE DEF Inv, ClientInv, clientVars, rateVars
<1>1. backoff = 0 /\ Serving
  BY DEF Decide, TrackerLater, Rested, Serving, Querying
<1>2. /\ tracker = "decide"
      /\ \/ acks = <<>> /\ tracker' = "recv" /\ UNCHANGED <<answers, acks, idle, unpolled>>
         \/ idle' = 0 /\ unpolled' = {} /\ tracker' = "ack" /\ UNCHANGED <<answers, acks>>
      /\ UNCHANGED <<clientVars, rateVars, quiet, asking, queue>>
  BY <1>1 DEF Decide
<1> HIDE DEF clientVars, rateVars
<1>3. LinearTypes'
  BY <1>2, LinearAssumption DEF LinearTypes, clientVars, rateVars
<1>4. NudgesAreServed' /\ OnePlace' /\ TrackerLater' /\ PolledFor'
  BY <1>1, <1>2 DEF NudgesAreServed, OnePlace, Asked, TrackerLater, Serving, PolledFor, clientVars
<1> QED
  BY <1>1, <1>2, <1>3, <1>4, ServeKeeps

LEMMA AckKeeps ==
  ASSUME Inv, Ack
  PROVE  Inv'
<1> USE DEF Inv, Ack, ClientInv
<1>1. PICK answer \in {"polled", "shared"} : answers' = Told(answer)
  OBVIOUS
<1>2. \A c \in Callers : answers'[c] = IF Contains(acks, c) THEN answer ELSE answers[c]
  BY <1>1 DEF Told
<1>3. LinearTypes'
  BY <1>1, LinearAssumption DEF LinearTypes, Told, clientVars, rateVars
<1>4. NudgesAreServed' /\ OnePlace' /\ TrackerLater' /\ PolledFor'
  BY <1>2, InQueue
  DEF NudgesAreServed, OnePlace, Asked, TrackerLater, Serving, PolledFor, clientVars
<1>5. Serving
  BY DEF TrackerLater
<1> QED
  BY <1>3, <1>4, <1>5, ServeKeeps

LEMMA WebhookKeeps ==
  ASSUME Inv, WebhookAccepted
  PROVE  Inv'
<1> USE DEF Inv, WebhookAccepted, ClientInv, clientVars, rateVars, nudgeVars
<1>1. LinearTypes'
  BY LinearAssumption DEF LinearTypes, Silent
<1>2. NudgesAreServed' /\ OnePlace' /\ TrackerLater' /\ PolledFor'
  BY DEF NudgesAreServed, OnePlace, Asked, TrackerLater, Serving, PolledFor
<1> QED
  BY <1>1, <1>2, ServeKeeps

LEMMA PassesKeeps ==
  ASSUME Inv, Passes
  PROVE  Inv'
<1> USE DEF Inv, Passes, ClientInv, clientVars, nudgeVars
<1>1. /\ idle' \in 0 .. Cadence /\ quiet' \in 0 .. Silent
      /\ backoff' \in 0 .. base /\ (backoff = 0 => backoff' = 0)
  BY LinearAssumption DEF LinearTypes, Silent, Least
<1>2. LinearTypes'
  BY <1>1 DEF LinearTypes
<1>3. AllOrNothing' /\ Fetched' /\ Rested'
  BY <1>1 DEF AllOrNothing, Serving, Fetched, Rested, Querying
<1>4. NudgesAreServed' /\ OnePlace' /\ TrackerLater' /\ PolledFor'
  BY DEF NudgesAreServed, OnePlace, Asked, TrackerLater, Serving, PolledFor
<1> QED
  BY <1>2, <1>3, <1>4

-----------------------------------------------------------------------------
LEMMA StepKeeps == Inv /\ [LinearNext]_linearVars => Inv'
<1> SUFFICES ASSUME Inv, [LinearNext]_linearVars PROVE Inv'
  OBVIOUS
<1>1. CASE Send \/ Answer
  BY <1>1, SendKeeps, TooManyKeeps, FailingKeeps, ViewerKeeps, PageKeeps DEF Answer
<1>2. CASE Tracker \/ WebhookAccepted \/ Passes
  BY <1>2, TakeKeeps, DecideKeeps, AckKeeps, WebhookKeeps, PassesKeeps DEF Tracker
<1>3. CASE \E c \in Callers : Ask(c) \/ Enqueue(c)
  BY <1>3, AskKeeps, EnqueueKeeps
<1>4. CASE UNCHANGED linearVars
  BY <1>4 DEF linearVars, clientVars, rateVars, nudgeVars, Inv, ClientInv, LinearTypes, AllOrNothing,
     NudgesAreServed, Serving, Fetched, Querying, Rested, TrackerLater, OnePlace, Asked, PolledFor
<1> QED
  BY <1>1, <1>2, <1>3, <1>4 DEF LinearNext

LEMMA Invariant == LinearSpec => []Inv
  BY LinearInitInv, StepKeeps, PTL DEF LinearSpec

(* Cold start gets all of the issues or none, for every page size and any  *)
(* backoffs between the pages, and no backoff is left when the tracker     *)
(* starts, so no caller is ever refused (graphql.rs, polling.rs).          *)
THEOREM ClientInvariant == LinearSpec => []ClientInv
<1>1. Inv => ClientInv
  BY DEF Inv
<1> QED
  BY <1>1, Invariant, PTL

(* Whoever is told of a poll had asked before it (polling.rs, run).        *)
THEOREM PolledSinceAskedHolds == LinearSpec => PolledSinceAsked
<1>1. ASSUME Inv, [LinearNext]_linearVars, NEW c \in Callers,
             answers'[c] # answers[c], answers'[c] \in {"polled", "shared"}
      PROVE  c \notin unpolled
  <2>1. answers \in [Callers -> {"none", "waiting", "refused", "dropped", "polled", "shared"}]
    BY <1>1 DEF Inv, ClientInv, LinearTypes
  <2>2. CASE Ack
    BY <1>1, <2>2 DEF Ack, Told, Inv, PolledFor
  <2>3. CASE Decide
    BY <1>1, <2>3 DEF Decide, Told
  <2>4. CASE \E d \in Callers : Ask(d)
    BY <1>1, <2>1, <2>4 DEF Ask
  <2>5. CASE UNCHANGED answers
    BY <1>1, <2>5
  <2> QED
    BY <1>1, <2>2, <2>3, <2>4, <2>5
    DEF LinearNext, Send, Answer, TooMany, Refusal, Nonsense, Viewer, Page, Tracker, Take,
        WebhookAccepted, Passes, Enqueue, nudgeVars, linearVars
<1>2. Inv /\ [LinearNext]_linearVars =>
        [\A c \in Callers :
           answers'[c] # answers[c] /\ answers'[c] \in {"polled", "shared"} => c \notin unpolled]_linearVars
  BY <1>1
<1> QED
  BY <1>2, Invariant, PTL DEF LinearSpec, PolledSinceAsked

-----------------------------------------------------------------------------
(* StateProcess. *)

(* The sets of values are visible throughout. *)
USE DEF PCs, Streams, Chunks, Contents, Edges, Failures, Ended, world

LEMMA InitInv == ASSUME Init PROVE VisitInv
<1>1. TypeOK
  <2>1. pipe \in [Streams -> Seq(Chunks)] /\ drain \in [Streams -> {"off", "on"} \cup Ended]
    BY EmptySeq DEF Init
  <2>2. prompt \in Nat /\ stdin \in 0 .. PipeCap /\ printed \in Nat
    BY PipeAssumption DEF Init
  <2>3. /\ reads \in BOOLEAN /\ heir \in BOOLEAN /\ silent \in BOOLEAN
        /\ shutdown \in BOOLEAN /\ registered \in BOOLEAN /\ stalled \in BOOLEAN
    BY DEF Init
  <2> QED
    BY <2>1, <2>2, <2>3 DEF Init, TypeOK
<1>2. ChildAtPhase /\ CauseAtPhase /\ StallTrumps
  BY DEF Init, ChildAtPhase, CauseAtPhase, StallTrumps
<1>3. DrainAtPhase /\ CaptureComplete
  BY DEF Init, DrainAtPhase, CaptureComplete
<1> QED
  BY <1>1, <1>2, <1>3 DEF VisitInv

(* Whatever the child, its heir or the kernel does. *)
LEMMA ChildKeepsInv == ASSUME VisitInv, Child PROVE VisitInv'
<1>1. CASE ChildReads
  <2>1. TypeOK'
    BY <1>1, PipeAssumption DEF VisitInv, TypeOK, ChildReads, Quiet
  <2>2. ChildAtPhase' /\ CauseAtPhase' /\ StallTrumps'
    BY <1>1 DEF VisitInv, TypeOK, ChildAtPhase, CauseAtPhase, StallTrumps,
                ChildReads, Quiet
  <2>3. DrainAtPhase' /\ CaptureComplete'
    BY <1>1 DEF VisitInv, TypeOK, ChildAtPhase, CauseAtPhase, DrainAtPhase,
                CaptureComplete, ChildReads, Quiet
  <2> QED
    BY <2>1, <2>2, <2>3 DEF VisitInv
<1>2. CASE ChildClosesStdin
  <2>1. TypeOK'
    <3>1. reads' \in BOOLEAN
      BY <1>2 DEF ChildClosesStdin
    <3> QED
      BY <1>2, <3>1 DEF VisitInv, TypeOK, ChildClosesStdin, Quiet
  <2>2. ChildAtPhase' /\ CauseAtPhase' /\ StallTrumps'
    BY <1>2 DEF VisitInv, TypeOK, ChildAtPhase, CauseAtPhase, StallTrumps,
                ChildClosesStdin, Quiet
  <2>3. DrainAtPhase' /\ CaptureComplete'
    BY <1>2 DEF VisitInv, TypeOK, ChildAtPhase, CauseAtPhase, DrainAtPhase,
                CaptureComplete, ChildClosesStdin, Quiet
  <2> QED
    BY <2>1, <2>2, <2>3 DEF VisitInv
<1>3. CASE ChildForks
  <2>1. TypeOK'
    BY <1>3 DEF VisitInv, TypeOK, ChildForks, Quiet
  <2>2. ChildAtPhase' /\ CauseAtPhase' /\ StallTrumps'
    BY <1>3 DEF VisitInv, TypeOK, ChildAtPhase, CauseAtPhase, StallTrumps,
                ChildForks, Quiet
  <2>3. DrainAtPhase' /\ CaptureComplete'
    BY <1>3 DEF VisitInv, TypeOK, ChildAtPhase, CauseAtPhase, DrainAtPhase,
                CaptureComplete, ChildForks, Quiet
  <2> QED
    BY <2>1, <2>2, <2>3 DEF VisitInv
<1>4. CASE HeirEnds
  <2>1. TypeOK'
    <3>1. heir' \in BOOLEAN
      BY <1>4 DEF HeirEnds
    <3> QED
      BY <1>4, <3>1 DEF VisitInv, TypeOK, HeirEnds, Quiet
  <2>2. ChildAtPhase' /\ CauseAtPhase' /\ StallTrumps'
    BY <1>4 DEF VisitInv, TypeOK, ChildAtPhase, CauseAtPhase, StallTrumps,
                HeirEnds, Quiet
  <2>3. DrainAtPhase' /\ CaptureComplete'
    BY <1>4 DEF VisitInv, TypeOK, ChildAtPhase, CauseAtPhase, DrainAtPhase,
                CaptureComplete, HeirEnds, Quiet
  <2> QED
    BY <2>1, <2>2, <2>3 DEF VisitInv
<1>5. ASSUME NEW s \in Streams, NEW chunk \in Chunks, Prints(s, chunk)
      PROVE VisitInv'
  <2>1. TypeOK'
    BY <1>5 DEF VisitInv, TypeOK, Prints, Quiet
  <2>2. ChildAtPhase' /\ CauseAtPhase' /\ StallTrumps'
    BY <1>5 DEF VisitInv, TypeOK, ChildAtPhase, CauseAtPhase, StallTrumps,
                Prints, Quiet
  <2>3. DrainAtPhase' /\ CaptureComplete'
    BY <1>5 DEF VisitInv, TypeOK, ChildAtPhase, CauseAtPhase, DrainAtPhase,
                CaptureComplete, Prints, Quiet
  <2> QED
    BY <2>1, <2>2, <2>3 DEF VisitInv
<1>6. ASSUME NEW content \in Contents, WritesSentinel(content)
      PROVE VisitInv'
  <2>1. TypeOK'
    BY <1>6 DEF VisitInv, TypeOK, WritesSentinel, Quiet
  <2>2. ChildAtPhase' /\ CauseAtPhase' /\ StallTrumps'
    BY <1>6 DEF VisitInv, TypeOK, ChildAtPhase, CauseAtPhase, StallTrumps,
                WritesSentinel, Quiet
  <2>3. DrainAtPhase' /\ CaptureComplete'
    BY <1>6 DEF VisitInv, TypeOK, ChildAtPhase, CauseAtPhase, DrainAtPhase,
                CaptureComplete, WritesSentinel, Quiet
  <2> QED
    BY <2>1, <2>2, <2>3 DEF VisitInv
<1>7. ASSUME NEW code \in {"zero", "nonzero"}, ChildExits(code)
      PROVE VisitInv'
  <2>1. TypeOK'
    BY <1>7 DEF VisitInv, TypeOK, ChildExits, Quiet, Dies
  <2>2. ChildAtPhase' /\ CauseAtPhase' /\ StallTrumps'
    BY <1>7 DEF VisitInv, TypeOK, ChildAtPhase, CauseAtPhase, StallTrumps,
                ChildExits, Quiet, Dies
  <2>3. DrainAtPhase' /\ CaptureComplete'
    BY <1>7 DEF VisitInv, TypeOK, ChildAtPhase, CauseAtPhase, DrainAtPhase,
                CaptureComplete, ChildExits, Quiet, Dies
  <2> QED
    BY <2>1, <2>2, <2>3 DEF VisitInv
<1>8. CASE ChildBreaks
  <2>1. TypeOK'
    BY <1>8 DEF VisitInv, TypeOK, ChildBreaks, Quiet, Dies
  <2>2. ChildAtPhase' /\ CauseAtPhase' /\ StallTrumps'
    BY <1>8 DEF VisitInv, TypeOK, ChildAtPhase, CauseAtPhase, StallTrumps,
                ChildBreaks, Quiet, Dies
  <2>3. DrainAtPhase' /\ CaptureComplete'
    BY <1>8 DEF VisitInv, TypeOK, ChildAtPhase, CauseAtPhase, DrainAtPhase,
                CaptureComplete, ChildBreaks, Quiet, Dies
  <2> QED
    BY <2>1, <2>2, <2>3 DEF VisitInv
<1>9. CASE SignalKills
  <2>1. TypeOK'
    BY <1>9 DEF VisitInv, TypeOK, SignalKills, Quiet, Dies
  <2>2. ChildAtPhase' /\ CauseAtPhase' /\ StallTrumps'
    BY <1>9 DEF VisitInv, TypeOK, ChildAtPhase, CauseAtPhase, StallTrumps,
                SignalKills, Quiet, Dies
  <2>3. DrainAtPhase' /\ CaptureComplete'
    BY <1>9 DEF VisitInv, TypeOK, ChildAtPhase, CauseAtPhase, DrainAtPhase,
                CaptureComplete, SignalKills, Quiet, Dies
  <2> QED
    BY <2>1, <2>2, <2>3 DEF VisitInv
<1> QED
  BY <1>1, <1>2, <1>3, <1>4, <1>5, <1>6, <1>7, <1>8, <1>9 DEF Child

(* Whatever run_state does: the steps that change what the invariant says. *)
LEMMA RunnerKeepsInv == ASSUME VisitInv, Runner PROVE VisitInv'
<1>1. CASE Spawn
  <2>1. TypeOK'
    BY <1>1 DEF VisitInv, TypeOK, Spawn
  <2>2. ChildAtPhase' /\ CauseAtPhase' /\ StallTrumps'
    BY <1>1 DEF VisitInv, TypeOK, ChildAtPhase, CauseAtPhase, StallTrumps,
                Spawn
  <2>3. DrainAtPhase' /\ CaptureComplete'
    BY <1>1 DEF VisitInv, TypeOK, ChildAtPhase, CauseAtPhase, DrainAtPhase,
                CaptureComplete, Spawn
  <2> QED
    BY <2>1, <2>2, <2>3 DEF VisitInv
<1>2. ASSUME NEW kind \in {"fs_poison", "template_error", "process_crash"}, PrepareFails(kind)
      PROVE VisitInv'
  <2>1. TypeOK'
    BY <1>2 DEF VisitInv, TypeOK, PrepareFails
  <2>2. ChildAtPhase' /\ CauseAtPhase' /\ StallTrumps'
    BY <1>2 DEF VisitInv, TypeOK, ChildAtPhase, CauseAtPhase, StallTrumps,
                PrepareFails
  <2>3. DrainAtPhase' /\ CaptureComplete'
    BY <1>2 DEF VisitInv, TypeOK, ChildAtPhase, CauseAtPhase, DrainAtPhase,
                CaptureComplete, PrepareFails
  <2> QED
    BY <2>1, <2>2, <2>3 DEF VisitInv
<1>3. CASE Register
  <2>1. TypeOK'
    BY <1>3 DEF VisitInv, TypeOK, Register
  <2>2. ChildAtPhase' /\ CauseAtPhase' /\ StallTrumps'
    BY <1>3 DEF VisitInv, TypeOK, ChildAtPhase, CauseAtPhase, StallTrumps,
                Register
  <2>3. DrainAtPhase' /\ CaptureComplete'
    BY <1>3 DEF VisitInv, TypeOK, ChildAtPhase, CauseAtPhase, DrainAtPhase,
                CaptureComplete, Register
  <2> QED
    BY <2>1, <2>2, <2>3 DEF VisitInv
<1>4. CASE FeedPrompt
  <2>1. TypeOK'
    BY <1>4, PipeAssumption DEF VisitInv, TypeOK, FeedPrompt, HasReader
  <2>2. ChildAtPhase' /\ CauseAtPhase' /\ StallTrumps'
    BY <1>4 DEF VisitInv, TypeOK, ChildAtPhase, CauseAtPhase, StallTrumps,
                FeedPrompt, HasReader
  <2>3. DrainAtPhase' /\ CaptureComplete'
    BY <1>4 DEF VisitInv, TypeOK, ChildAtPhase, CauseAtPhase, DrainAtPhase,
                CaptureComplete, FeedPrompt, HasReader
  <2> QED
    BY <2>1, <2>2, <2>3 DEF VisitInv
<1>5. CASE WriteFails
  <2>1. TypeOK'
    BY <1>5 DEF VisitInv, TypeOK, WriteFails, HasReader
  <2>2. ChildAtPhase' /\ CauseAtPhase' /\ StallTrumps'
    BY <1>5 DEF VisitInv, TypeOK, ChildAtPhase, CauseAtPhase, StallTrumps,
                WriteFails, HasReader
  <2>3. DrainAtPhase' /\ CaptureComplete'
    BY <1>5 DEF VisitInv, TypeOK, ChildAtPhase, CauseAtPhase, DrainAtPhase,
                CaptureComplete, WriteFails, HasReader
  <2> QED
    BY <2>1, <2>2, <2>3 DEF VisitInv
<1>6. CASE StartDrains
  <2>1. TypeOK'
    BY <1>6 DEF VisitInv, TypeOK, StartDrains, Watching
  <2>2. ChildAtPhase' /\ CauseAtPhase' /\ StallTrumps'
    BY <1>6 DEF VisitInv, TypeOK, ChildAtPhase, CauseAtPhase, StallTrumps,
                StartDrains, Watching
  <2>3. DrainAtPhase' /\ CaptureComplete'
    BY <1>6 DEF VisitInv, TypeOK, ChildAtPhase, CauseAtPhase, DrainAtPhase,
                CaptureComplete, StartDrains, Watching
  <2> QED
    BY <2>1, <2>2, <2>3 DEF VisitInv
<1>7. CASE Abort
  <2>1. TypeOK'
    BY <1>7 DEF VisitInv, TypeOK, Abort, Reap
  <2>2. ChildAtPhase' /\ CauseAtPhase' /\ StallTrumps'
    BY <1>7 DEF VisitInv, TypeOK, ChildAtPhase, CauseAtPhase, StallTrumps,
                Abort, Reap
  <2>3. DrainAtPhase' /\ CaptureComplete'
    BY <1>7 DEF VisitInv, TypeOK, ChildAtPhase, CauseAtPhase, DrainAtPhase,
                CaptureComplete, Abort, Reap
  <2> QED
    BY <2>1, <2>2, <2>3 DEF VisitInv
<1>8. CASE Healthy
  <2>1. TypeOK'
    BY <1>8 DEF VisitInv, TypeOK, Healthy, Reap
  <2>2. ChildAtPhase' /\ CauseAtPhase' /\ StallTrumps'
    BY <1>8 DEF VisitInv, TypeOK, ChildAtPhase, CauseAtPhase, StallTrumps,
                Healthy, Reap
  <2>3. DrainAtPhase' /\ CaptureComplete'
    BY <1>8 DEF VisitInv, TypeOK, ChildAtPhase, CauseAtPhase, DrainAtPhase,
                CaptureComplete, Healthy, Reap
  <2> QED
    BY <2>1, <2>2, <2>3 DEF VisitInv
<1>9. CASE Stall
  <2>1. TypeOK'
    BY <1>9 DEF VisitInv, TypeOK, Stall, Sigterm
  <2>2. ChildAtPhase' /\ CauseAtPhase' /\ StallTrumps'
    BY <1>9 DEF VisitInv, TypeOK, ChildAtPhase, CauseAtPhase, StallTrumps,
                Stall, Sigterm
  <2>3. DrainAtPhase' /\ CaptureComplete'
    BY <1>9 DEF VisitInv, TypeOK, ChildAtPhase, CauseAtPhase, DrainAtPhase,
                CaptureComplete, Stall, Sigterm
  <2> QED
    BY <2>1, <2>2, <2>3 DEF VisitInv
<1>10. CASE Preempt
  <2>1. TypeOK'
    BY <1>10 DEF VisitInv, TypeOK, Preempt, Sigterm
  <2>2. ChildAtPhase' /\ CauseAtPhase' /\ StallTrumps'
    BY <1>10 DEF VisitInv, TypeOK, ChildAtPhase, CauseAtPhase, StallTrumps,
                Preempt, Sigterm
  <2>3. DrainAtPhase' /\ CaptureComplete'
    BY <1>10 DEF VisitInv, TypeOK, ChildAtPhase, CauseAtPhase, DrainAtPhase,
                CaptureComplete, Preempt, Sigterm
  <2> QED
    BY <2>1, <2>2, <2>3 DEF VisitInv
<1>11. CASE GraceEnds
  <2>1. TypeOK'
    BY <1>11 DEF VisitInv, TypeOK, GraceEnds, Reap
  <2>2. ChildAtPhase' /\ CauseAtPhase' /\ StallTrumps'
    BY <1>11 DEF VisitInv, TypeOK, ChildAtPhase, CauseAtPhase, StallTrumps,
                GraceEnds, Reap
  <2>3. DrainAtPhase' /\ CaptureComplete'
    BY <1>11 DEF VisitInv, TypeOK, ChildAtPhase, CauseAtPhase, DrainAtPhase,
                CaptureComplete, GraceEnds, Reap
  <2> QED
    BY <2>1, <2>2, <2>3 DEF VisitInv
<1>12. CASE GraceExpires
  <2>1. TypeOK'
    BY <1>12 DEF VisitInv, TypeOK, GraceExpires
  <2>2. ChildAtPhase' /\ CauseAtPhase' /\ StallTrumps'
    BY <1>12 DEF VisitInv, TypeOK, ChildAtPhase, CauseAtPhase, StallTrumps,
                GraceExpires
  <2>3. DrainAtPhase' /\ CaptureComplete'
    BY <1>12 DEF VisitInv, TypeOK, ChildAtPhase, CauseAtPhase, DrainAtPhase,
                CaptureComplete, GraceExpires
  <2> QED
    BY <2>1, <2>2, <2>3 DEF VisitInv
<1>13. CASE KillEnds
  <2>1. TypeOK'
    BY <1>13 DEF VisitInv, TypeOK, KillEnds, Reap
  <2>2. ChildAtPhase' /\ CauseAtPhase' /\ StallTrumps'
    BY <1>13 DEF VisitInv, TypeOK, ChildAtPhase, CauseAtPhase, StallTrumps,
                KillEnds, Reap
  <2>3. DrainAtPhase' /\ CaptureComplete'
    BY <1>13 DEF VisitInv, TypeOK, ChildAtPhase, CauseAtPhase, DrainAtPhase,
                CaptureComplete, KillEnds, Reap
  <2> QED
    BY <2>1, <2>2, <2>3 DEF VisitInv
<1>14. CASE JoinDrains
  <2>1. TypeOK'
    BY <1>14 DEF VisitInv, TypeOK, JoinDrains
  <2>2. ChildAtPhase' /\ CauseAtPhase' /\ StallTrumps'
    BY <1>14 DEF VisitInv, TypeOK, ChildAtPhase, CauseAtPhase, StallTrumps,
                JoinDrains
  <2>3. DrainAtPhase' /\ CaptureComplete'
    BY <1>14 DEF VisitInv, TypeOK, ChildAtPhase, CauseAtPhase, DrainAtPhase,
                CaptureComplete, JoinDrains
  <2> QED
    BY <2>1, <2>2, <2>3 DEF VisitInv
<1>15. CASE Clear
  <2>1. TypeOK'
    <3>1. registered' \in BOOLEAN
      BY <1>15 DEF Clear
    <3> QED
      BY <1>15, <3>1 DEF VisitInv, TypeOK, Clear
  <2>2. ChildAtPhase' /\ CauseAtPhase' /\ StallTrumps'
    BY <1>15 DEF VisitInv, TypeOK, ChildAtPhase, CauseAtPhase, StallTrumps,
                Clear
  <2>3. DrainAtPhase' /\ CaptureComplete'
    BY <1>15 DEF VisitInv, TypeOK, ChildAtPhase, CauseAtPhase, DrainAtPhase,
                CaptureComplete, Clear
  <2> QED
    BY <2>1, <2>2, <2>3 DEF VisitInv
<1>16. CASE Classify
  <2>1. TypeOK'
    BY <1>16 DEF VisitInv, TypeOK, Classify, Verdict
  <2>2. ChildAtPhase' /\ CauseAtPhase' /\ StallTrumps'
    BY <1>16 DEF VisitInv, TypeOK, ChildAtPhase, CauseAtPhase, StallTrumps,
                Classify, Verdict
  <2>3. DrainAtPhase' /\ CaptureComplete'
    BY <1>16 DEF VisitInv, TypeOK, ChildAtPhase, CauseAtPhase, DrainAtPhase,
                CaptureComplete, Classify, Verdict
  <2> QED
    BY <2>1, <2>2, <2>3 DEF VisitInv
<1> QED
  BY <1>1, <1>2, <1>3, <1>4, <1>5, <1>6, <1>7, <1>8, <1>9, <1>10, <1>11,
     <1>12, <1>13, <1>14, <1>15, <1>16 DEF Runner, Start

(* The drains, the clock and the shutdown signal. *)
LEMMA OthersKeepInv ==
  ASSUME VisitInv, Elapse \/ Fire \/ (\E s \in Streams : Drain(s)) \/ UNCHANGED vars
  PROVE VisitInv'
<1>1. CASE Elapse \/ Fire
  <2>1. TypeOK'
    <3>1. CASE Elapse
      BY <1>1, <3>1 DEF VisitInv, TypeOK, Elapse
    <3>2. CASE Fire
      BY <1>1, <3>2 DEF VisitInv, TypeOK, Fire
    <3> QED
      BY <1>1, <3>1, <3>2
  <2>2. ChildAtPhase' /\ CauseAtPhase' /\ StallTrumps'
    BY <1>1 DEF VisitInv, TypeOK, ChildAtPhase, CauseAtPhase, StallTrumps, Elapse, Fire
  <2>3. DrainAtPhase' /\ CaptureComplete'
    BY <1>1 DEF VisitInv, TypeOK, DrainAtPhase, CaptureComplete, Elapse, Fire
  <2> QED
    BY <2>1, <2>2, <2>3 DEF VisitInv
<1>2. ASSUME NEW s \in Streams, DrainChunk(s)
      PROVE VisitInv'
  <2>1. TypeOK'
    <3>1. pipe[s] \in Seq(Chunks) /\ pipe[s] # <<>>
      BY <1>2 DEF VisitInv, TypeOK, DrainChunk
    <3>2. Tail(pipe[s]) \in Seq(Chunks) /\ <<>> \in Seq(Chunks)
      BY <3>1, HeadTailProperties, EmptySeq
    <3>3. pipe' \in [Streams -> Seq(Chunks)]
      <4>1. /\ pipe \in [Streams -> Seq(Chunks)]
            /\ \/ pipe' = [pipe EXCEPT ![s] = Tail(@)]
               \/ pipe' = [pipe EXCEPT ![s] = <<>>]
        BY <1>2 DEF VisitInv, TypeOK, DrainChunk
      <4> QED
        BY <3>2, <4>1
    <3>4. drain' \in [Streams -> {"off", "on"} \cup Ended] /\ silent' \in BOOLEAN
      BY <1>2 DEF VisitInv, TypeOK, DrainChunk
    <3> QED
      BY <1>2, <3>3, <3>4 DEF VisitInv, TypeOK, DrainChunk
  <2>2. ChildAtPhase' /\ CauseAtPhase' /\ StallTrumps'
    BY <1>2 DEF VisitInv, TypeOK, ChildAtPhase, CauseAtPhase, StallTrumps, DrainChunk
  <2>3. DrainAtPhase' /\ CaptureComplete'
    BY <1>2 DEF VisitInv, TypeOK, ChildAtPhase, DrainAtPhase, CaptureComplete,
                DrainChunk
  <2> QED
    BY <2>1, <2>2, <2>3 DEF VisitInv
<1>3. ASSUME NEW s \in Streams, DrainEnds(s)
      PROVE VisitInv'
  <2>1. TypeOK'
    BY <1>3 DEF VisitInv, TypeOK, DrainEnds
  <2>2. ChildAtPhase' /\ CauseAtPhase' /\ StallTrumps'
    BY <1>3 DEF VisitInv, TypeOK, ChildAtPhase, CauseAtPhase, StallTrumps, DrainEnds
  <2>3. DrainAtPhase' /\ CaptureComplete'
    BY <1>3 DEF VisitInv, TypeOK, ChildAtPhase, DrainAtPhase, CaptureComplete,
                DrainEnds
  <2> QED
    BY <2>1, <2>2, <2>3 DEF VisitInv
<1>4. CASE UNCHANGED vars
  BY <1>4 DEF VisitInv, TypeOK, ChildAtPhase, CauseAtPhase, DrainAtPhase,
              StallTrumps, CaptureComplete, vars
<1> QED
  BY <1>1, <1>2, <1>3, <1>4 DEF Drain

-----------------------------------------------------------------------------
(* Every visit keeps its inductive invariant: what run_state believes of   *)
(* the child, the registry and the drains is true at every await.          *)
THEOREM VisitInvariant == Spec => []VisitInv
<1>1. VisitInv /\ [Next]_vars => VisitInv'
  BY ChildKeepsInv, RunnerKeepsInv, OthersKeepInv DEF Next, Rest
<1> QED
  BY InitInv, <1>1, PTL DEF Spec

(* The registry of live processes never misses a child the daemon spawned. *)
THEOREM LiveChildRegisteredHolds == Spec => []LiveChildRegistered
<1>1. VisitInv => LiveChildRegistered
  BY DEF VisitInv, TypeOK, ChildAtPhase, LiveChildRegistered
<1> QED
  BY VisitInvariant, <1>1, PTL

(* A visit that returned left no process and no registry entry behind. *)
THEOREM NothingLeftBehindHolds == Spec => []NothingLeftBehind
<1>1. VisitInv => NothingLeftBehind
  BY DEF VisitInv, TypeOK, ChildAtPhase, NothingLeftBehind
<1> QED
  BY VisitInvariant, <1>1, PTL

(* A stall is reported as a stall, unless a shutdown took the case over. *)
THEOREM StallTrumpsHolds == Spec => []StallTrumps
<1>1. VisitInv => StallTrumps
  BY DEF VisitInv
<1> QED
  BY VisitInvariant, <1>1, PTL

(* No verdict is given before everything that was printed is captured. *)
THEOREM CaptureCompleteHolds == Spec => []CaptureComplete
<1>1. VisitInv => CaptureComplete
  BY DEF VisitInv
<1> QED
  BY VisitInvariant, <1>1, PTL
================================================================================
