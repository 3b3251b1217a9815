--------------------------- MODULE CommandLineProofs ---------------------------
(***************************************************************************)
(* Proofs about the command line, for every set of calls, any files and    *)
(* flags, a daemon that writes visits and events as it likes, and rings,   *)
(* pages and captures of any size: what a command prints is what it was    *)
(* asked for, complete where it says so, and once.                         *)
(***************************************************************************)
EXTENDS CommandLine, WellFoundedInduction, SequenceTheorems, TLAPS

-----------------------------------------------------------------------------
(* The inductive invariant. *)
Phases == {"dir", "running"} \cup Over
VisitRecord == [state : States, at : Phases, chunks : 0 .. MaxChunks]
EventEntry == [kind : Kinds, shown : Nat]

CallTypes ==
  /\ call \in Calls /\ exit \in {Absent, 0, 1, 2} /\ (pc = "done" <=> Given(exit))

LogTypes ==
  /\ visits \in Seq(VisitRecord) /\ Len(visits) <= MaxVisits
  /\ listed \in Seq(Nat) /\ Len(listed) <= MaxVisits
  /\ chosen \in 0 .. MaxVisits /\ finished \subseteq 1 .. MaxVisits
  /\ printed \in Seq(Nat) /\ Len(printed) <= MaxChunks

EventTypes ==
  /\ ring \in Seq(EventEntry) /\ Len(ring) <= EventRingSize
  /\ lag \in -MaxAhead .. EventRingSize + 1
  /\ outages \in 0 .. MaxOutages /\ backoff \in 0 .. MaxBackoff

(* Where `roki log` has passed its checks, and where it has a visit.       *)
Reading == {"open", "attach", "read", "follow", "check"}
IsLog == call.command = "log"
Reads == call.mode \in {"read", "follow"}

(* Flags and environment name one ticket, and the directory of a cycle     *)
(* that is a name is its own.                                              *)
TicketIsOwners == ~IsPath(CycleArg) => call.env.ticket \in {Absent, Owner}

TicketChecked ==
  IsLog =>
    /\ pc = "dir" => SameTicket(call, call.env) /\ TicketAndCycle(call, call.env).ok
    /\ pc \in Reading \cup {"probe"} \/ Done(0) => TicketIsOwners

(* The daemon has deleted what the command looks for.                      *)
Gone == evicted /\ ~(IsPath(call.state) /\ Leads[call.state].fromRoot)

(* The directories that the probe has dropped had no exit code when they   *)
(* were listed, unless they are all gone since.                            *)
Probing ==
  IsLog /\ pc = "probe" =>
    /\ Reads /\ ~Given(call.iter) /\ chosen \in DOMAIN visits /\ Len(listed) <= chosen
    /\ \A i \in DOMAIN listed : listed[i] = i
    /\ \A n \in finished :
         /\ n <= chosen /\ n \in DOMAIN visits
         /\ Gone \/ (n <= Len(listed) /\ Sentinel(n))

Chosen ==
  IsLog /\ (pc \in Reading \/ (Done(0) /\ Reads)) =>
    /\ Reads /\ chosen \in DOMAIN visits
    /\ ~Given(call.iter) => \A n \in finished : n <= chosen

FollowAtEnd ==
  /\ IsLog /\ pc = "read" => call.mode # "follow"
  /\ FollowIsComplete

LogInv == TicketChecked /\ Probing /\ Chosen /\ FollowAtEnd

(* What comes after the cursor has not been printed, and a hole is ahead   *)
(* of it until the marker is out.                                          *)
CursorInv ==
  /\ \A i \in DOMAIN ring : ring[i].shown < 2 /\ (i > Len(ring) - lag => ring[i].shown = 0)
  /\ missed => lag > Len(ring)

Inv ==
  /\ CallTypes /\ LogTypes /\ EventTypes
  /\ StartsWithUsableSettings /\ LogInv /\ CursorInv

LEMMA InitInv == Init => Inv
<1> SUFFICES ASSUME Init PROVE Inv
  OBVIOUS
<1> USE DEF Init, LogInit, EventsInit
<1>1. CallTypes
  BY DEF CallTypes, Given
<1>2. LogTypes
  BY LogAssumption DEF LogTypes
<1>3. EventTypes
  BY EventsAssumption, CallsAssumption DEF EventTypes, MaxBackoff, Online
<1>4. StartsWithUsableSettings
  BY DEF StartsWithUsableSettings
<1>5. LogInv
  BY DEF LogInv, TicketChecked, Probing, Chosen, FollowAtEnd, FollowIsComplete, Reading, Done
<1>6. CursorInv
  BY DEF CursorInv
<1> QED
  BY <1>1, <1>2, <1>3, <1>4, <1>5, <1>6 DEF Inv

-----------------------------------------------------------------------------
(* Phases and exit codes. *)
LEMMA CodesAreGiven == Given(0) /\ Given(1) /\ Given(2) /\ ~Given(Absent)
BY ConfigAssumption DEF Given

LEMMA FinishTypes ==
  ASSUME CallTypes, NEW code \in {0, 1, 2}, Finish(code)
  PROVE  CallTypes'
BY CodesAreGiven DEF CallTypes, Finish, Given

LEMMA GoToTypes ==
  ASSUME CallTypes, pc # "done", NEW step, step # "done", GoTo(step)
  PROVE  CallTypes'
BY DEF CallTypes, GoTo, Given

LEMMA KeptTypes ==
  ASSUME CallTypes, UNCHANGED callVars
  PROVE  CallTypes'
BY DEF CallTypes, callVars, Given

LEMMA LogKeepsCallTypes ==
  ASSUME CallTypes, Log
  PROVE  CallTypes'
<1> USE DEF Is
<1>1. CASE StartLog
  <2>1. Refusal(call) \in {Absent, 1, 2}
    BY DEF Refusal
  <2> QED
    BY <1>1, <2>1, FinishTypes, GoToTypes, CodesAreGiven DEF StartLog, Given
<1>2. CASE Summarise
  BY <1>2, FinishTypes DEF Summarise
<1>3. CASE ListVisits
  BY <1>3, FinishTypes, GoToTypes DEF ListVisits
<1>4. CASE Probe
  BY <1>4, GoToTypes, KeptTypes DEF Probe
<1>5. CASE Open
  BY <1>5, FinishTypes, GoToTypes DEF Open
<1>6. CASE Attach
  BY <1>6, FinishTypes, GoToTypes DEF Attach
<1>7. CASE ReadStream
  BY <1>7, FinishTypes DEF ReadStream
<1>8. CASE FollowPoll
  BY <1>8, GoToTypes DEF FollowPoll
<1>9. CASE FollowCheck
  BY <1>9, FinishTypes, GoToTypes DEF FollowCheck
<1> QED
  BY <1>1, <1>2, <1>3, <1>4, <1>5, <1>6, <1>7, <1>8, <1>9 DEF Log

LEMMA EventsKeepCallTypes ==
  ASSUME CallTypes, Events
  PROVE  CallTypes'
<1> USE DEF Is
<1>1. CASE (\E k \in Kinds : Emit(k)) \/ Settle \/ RestartDaemon
  BY <1>1, KeptTypes DEF Emit, Settle, RestartDaemon
<1>2. CASE StartEvents
  <2>1. \/ \E code \in {1, 2} : Finish(code)
        \/ \E step \in {"lines", "request"} : GoTo(step)
    BY <1>2 DEF StartEvents
  <2> QED
    BY <1>2, <2>1, FinishTypes, GoToTypes DEF StartEvents
<1>3. CASE ReadOffline
  BY <1>3, FinishTypes DEF ReadOffline
<1>4. CASE Fetch
  BY <1>4, FinishTypes, GoToTypes DEF Fetch, AfterPage
<1>5. CASE LogFetch
  BY <1>5, GoToTypes DEF LogFetch
<1>6. CASE Outage
  BY <1>6, FinishTypes, KeptTypes DEF Outage
<1>7. CASE Rejected
  BY <1>7, FinishTypes DEF Rejected
<1> QED
  BY <1>1, <1>2, <1>3, <1>4, <1>5, <1>6, <1>7 DEF Events

LEMMA ShortKeepsCallTypes ==
  ASSUME CallTypes, Short
  PROVE  CallTypes'
<1> USE DEF Is
<1>1. CASE StartDaemon
  BY <1>1, FinishTypes, GoToTypes DEF StartDaemon
<1>2. CASE WorkflowFile
  BY <1>2, FinishTypes, GoToTypes DEF WorkflowFile
<1>3. CASE RenderGraph
  BY <1>3, FinishTypes DEF RenderGraph
<1>4. CASE StartRepo
  BY <1>4, FinishTypes, GoToTypes DEF StartRepo
<1>5. CASE GhqGet
  BY <1>5, FinishTypes, GoToTypes DEF GhqGet
<1>6. CASE FindWorktree
  <2>1. (\E code \in {0, 1} : Finish(code)) \/ GoTo("checkout")
    BY <1>6 DEF FindWorktree
  <2> QED
    BY <1>6, <2>1, FinishTypes, GoToTypes DEF FindWorktree
<1>7. CASE ResolveGhqBase
  BY <1>7, FinishTypes DEF ResolveGhqBase
<1> QED
  BY <1>1, <1>2, <1>3, <1>4, <1>5, <1>6, <1>7 DEF Short

LEMMA NextKeepsCallTypes ==
  ASSUME CallTypes, Next
  PROVE  CallTypes'
<1>1. CASE Is("log") /\ Daemon
  BY <1>1, KeptTypes DEF Daemon, WriteCycleStart, CreateVisitDir, DrainChunk, VisitMoves,
     WriteCycleEnd, Evict
<1>2. CASE Rest
  BY <1>2, KeptTypes DEF Rest, cmdVars
<1> QED
  BY <1>1, <1>2, LogKeepsCallTypes, EventsKeepCallTypes, ShortKeepsCallTypes DEF Next

-----------------------------------------------------------------------------
(* roki.toml: every check of a file that loads holds. *)
AllHold(checks) == \A i \in DOMAIN checks : checks[i].holds

LEMMA BothHold ==
  ASSUME NEW S, NEW s \in Seq(S), NEW t \in Seq(S), AllHold(s \o t)
  PROVE  AllHold(s) /\ AllHold(t)
<1>1. /\ Len(s) \in Nat /\ DOMAIN s = 1 .. Len(s)
      /\ Len(t) \in Nat /\ DOMAIN t = 1 .. Len(t)
      /\ s \o t \in Seq(S) /\ Len(s \o t) = Len(s) + Len(t)
      /\ DOMAIN (s \o t) = 1 .. Len(s) + Len(t)
  BY ConcatProperties, LenProperties
<1>2. \A i \in 1 .. Len(s) + Len(t) :
        (s \o t)[i] = IF i <= Len(s) THEN s[i] ELSE t[i - Len(s)]
  BY ConcatProperties
<1>3. ASSUME NEW i \in DOMAIN s PROVE s[i].holds
  <2>1. i \in 1 .. Len(s) + Len(t) /\ i <= Len(s)
    BY <1>1
  <2> QED
    BY <1>1, <1>2, <2>1 DEF AllHold
<1>4. ASSUME NEW i \in DOMAIN t PROVE t[i].holds
  <2>1. /\ Len(s) + i \in 1 .. Len(s) + Len(t)
        /\ ~(Len(s) + i <= Len(s)) /\ Len(s) + i - Len(s) = i
    BY <1>1
  <2>2. (s \o t)[Len(s) + i] = t[i]
    BY <1>2, <2>1
  <2>3. (s \o t)[Len(s) + i].holds
    BY <1>1, <2>1 DEF AllHold
  <2> QED
    BY <2>2, <2>3
<1> QED
  BY <1>3, <1>4 DEF AllHold

LEMMA HoldsAt ==
  ASSUME NEW s, NEW i \in DOMAIN s, AllHold(s), NEW key, NEW error, NEW P,
         s[i] = Check(key, error, P)
  PROVE  P
<1>1. Check(key, error, P).holds
  BY DEF AllHold
<1>2. Check(key, error, P).holds = P
  BY DEF Check
<1> QED
  BY <1>1, <1>2

LEMMA LoadedFile ==
  ASSUME NEW file, IsConfigFile(file), Load(file).ok
  PROVE  /\ AllHold(Checks(file.raw)) /\ IsRawConfig(file.raw)
         /\ Load(file) = [ok |-> TRUE, sections |-> Sections(file.raw)]
<1>1. \A error, key : ~Failed(error, key).ok
  BY DEF Failed
<1>2. ASSUME file.kind # "toml" PROVE FALSE
  <2>1. \E error, key : Load(file) = Failed(error, key)
    BY <1>2 DEF Load, IsConfigFile
  <2> QED
    BY <1>1, <2>1
<1> DEFINE checks == Checks(file.raw)
           broken == {i \in DOMAIN checks : ~checks[i].holds}
<1>3. Load(file) = IF broken = {} THEN [ok |-> TRUE, sections |-> Sections(file.raw)]
                   ELSE Failed(checks[Min(broken)].error, checks[Min(broken)].key)
  BY <1>2 DEF Load
<1>4. broken = {}
  <2> HIDE DEF broken, checks
  <2> QED
    BY <1>1, <1>3
<1> QED
  BY <1>2, <1>3, <1>4 DEF IsConfigFile, AllHold

LEMMA GroupsHold ==
  ASSUME NEW raw, AllHold(Checks(raw))
  PROVE  /\ AllHold(<<AtLeast("linear.polling.cadence_seconds", raw.cadence, 60)>>)
         /\ AllHold(SecretChecks(raw))
         /\ AllHold(<< NonEmpty("linear.webhook.bind", raw.hookBind),
                       Required("linear.webhook.port", raw.hookPort),
                       AtLeast("default.stall_seconds", raw.stall, 1),
                       NonEmpty("default.cli", raw.cli),
                       Required("paths.session_root", raw.sessionRoot),
                       Required("paths.workflow", raw.workflow) >>)
         /\ AllHold(EngineChecks(raw)) /\ AllHold(QueueChecks(raw))
         /\ AllHold(ApiChecks(raw.api))
<1> DEFINE c1 == <<AtLeast("linear.polling.cadence_seconds", raw.cadence, 60)>>
           c2 == SecretChecks(raw)
           c3 == << NonEmpty("linear.webhook.bind", raw.hookBind),
                    Required("linear.webhook.port", raw.hookPort),
                    AtLeast("default.stall_seconds", raw.stall, 1),
                    NonEmpty("default.cli", raw.cli),
                    Required("paths.session_root", raw.sessionRoot),
                    Required("paths.workflow", raw.workflow) >>
           c4 == EngineChecks(raw)
           c5 == QueueChecks(raw)
           c6 == ApiChecks(raw.api)
           S == Range(c1) \cup Range(c2) \cup Range(c3) \cup Range(c4) \cup Range(c5)
                  \cup Range(c6)
<1>1. c1 \in Seq(S)
  <2>1. c1 \in Seq(Range(c1))
    BY DEF Range
  <2> QED
    BY <2>1, SeqMonotonic
<1>2. c2 \in Seq(S)
  <2>1. c2 \in Seq(Range(c2))
    BY DEF Range, SecretChecks
  <2> QED
    BY <2>1, SeqMonotonic
<1>3. c3 \in Seq(S)
  <2>1. c3 \in Seq(Range(c3))
    BY DEF Range
  <2> QED
    BY <2>1, SeqMonotonic
<1>4. c4 \in Seq(S)
  <2>1. c4 \in Seq(Range(c4))
    BY DEF Range, EngineChecks
  <2> QED
    BY <2>1, SeqMonotonic
<1>5. c5 \in Seq(S)
  <2>1. c5 \in Seq(Range(c5))
    BY DEF Range, QueueChecks
  <2> QED
    BY <2>1, SeqMonotonic
<1>6. c6 \in Seq(S)
  <2> DEFINE e1 == Check("api.bind", "TypeMismatch",
                         Or(raw.api.bind, "127.0.0.1") # "not an address")
             e2 == AtLeast("api.port", raw.api.port, 1)
             e3 == Ranged("api.ticket_events_window", raw.api.ticketWindow, 1, 500)
             e4 == Ranged("api.cycle_list_window", raw.api.cycleWindow, 1, 500)
  <2>0. c6 = <<e1, e2, e3, e4>>
    BY DEF ApiChecks
  <2> HIDE DEF e1, e2, e3, e4, c6
  <2>1. c6 \in Seq(Range(c6))
    BY <2>0 DEF Range
  <2>2. Range(c6) \subseteq S
    OBVIOUS
  <2> HIDE DEF S
  <2> QED
    BY <2>1, <2>2, SeqMonotonic DEF c6
<1>7. Checks(raw) = c1 \o c2 \o c3 \o c4 \o c5 \o c6
  BY DEF Checks
<1> HIDE DEF c1, c2, c3, c4, c5, c6, S
<1>8. /\ c1 \o c2 \in Seq(S) /\ c1 \o c2 \o c3 \in Seq(S)
      /\ c1 \o c2 \o c3 \o c4 \in Seq(S) /\ c1 \o c2 \o c3 \o c4 \o c5 \in Seq(S)
  BY <1>1, <1>2, <1>3, <1>4, <1>5, ConcatProperties
<1>9. AllHold(c1 \o c2 \o c3 \o c4 \o c5) /\ AllHold(c6)
  <2> DEFINE front == c1 \o c2 \o c3 \o c4 \o c5
  <2>1. AllHold(front \o c6) /\ front \in Seq(S)
    BY <1>7, <1>8
  <2> HIDE DEF front
  <2>2. AllHold(front) /\ AllHold(c6)
    BY <1>6, <2>1, BothHold
  <2> QED
    BY <2>2 DEF front
<1>10. AllHold(c1 \o c2 \o c3 \o c4) /\ AllHold(c5)
  BY <1>5, <1>8, <1>9, BothHold
<1>11. AllHold(c1 \o c2 \o c3) /\ AllHold(c4)
  BY <1>4, <1>8, <1>10, BothHold
<1>12. AllHold(c1 \o c2) /\ AllHold(c3)
  BY <1>3, <1>8, <1>11, BothHold
<1>13. AllHold(c1) /\ AllHold(c2)
  BY <1>1, <1>2, <1>12, BothHold
<1> QED
  BY <1>9, <1>10, <1>11, <1>12, <1>13 DEF c1, c2, c3, c4, c5, c6

LEMMA UsableSettings ==
  ASSUME NEW file, IsConfigFile(file), Load(file).ok
  PROVE  Usable(file)
<1> DEFINE raw == file.raw
<1>1. /\ AllHold(Checks(raw)) /\ IsRawConfig(raw)
      /\ Load(file).sections = Sections(raw)
  BY LoadedFile
<1> HIDE DEF raw
<1> DEFINE g1 == <<AtLeast("linear.polling.cadence_seconds", raw.cadence, 60)>>
           g2 == SecretChecks(raw)
           g3 == << NonEmpty("linear.webhook.bind", raw.hookBind),
                    Required("linear.webhook.port", raw.hookPort),
                    AtLeast("default.stall_seconds", raw.stall, 1),
                    NonEmpty("default.cli", raw.cli),
                    Required("paths.session_root", raw.sessionRoot),
                    Required("paths.workflow", raw.workflow) >>
           g4 == EngineChecks(raw)
           g5 == QueueChecks(raw)
           g6 == ApiChecks(raw.api)
<1>a. /\ AllHold(g1) /\ AllHold(g2) /\ AllHold(g3) /\ AllHold(g4) /\ AllHold(g5)
      /\ AllHold(g6)
  BY <1>1, GroupsHold
<1>2. Given(raw.cadence) => raw.cadence >= 60
  <2>1. 1 \in DOMAIN g1
    OBVIOUS
  <2>2. g1[1] = Check("linear.polling.cadence_seconds", "TypeMismatch",
                     Given(raw.cadence) => raw.cadence >= 60)
    BY DEF AtLeast
  <2> HIDE DEF g1
  <2> QED
    BY <1>a, <2>1, <2>2, HoldsAt
<1>3. Given(raw.token)
  <2>1. 1 \in DOMAIN g2
    BY DEF SecretChecks
  <2>2. g2[1] = Check("linear.token", "MissingField", Given(raw.token))
    BY DEF SecretChecks, Required
  <2> HIDE DEF g2
  <2> QED
    BY <1>a, <2>1, <2>2, HoldsAt
<1>4. Given(raw.token) => SecretResolves(raw.token)
  <2>1. 2 \in DOMAIN g2
    BY DEF SecretChecks
  <2>2. g2[2] = Check("linear.token", "SourceResolve",
                     Given(raw.token) => SecretResolves(raw.token))
    BY DEF SecretChecks
  <2> HIDE DEF g2
  <2> QED
    BY <1>a, <2>1, <2>2, HoldsAt
<1>5. Given(raw.token) /\ SecretResolves(raw.token) => Secret(raw.token) # Empty
  <2>1. 3 \in DOMAIN g2
    BY DEF SecretChecks
  <2>2. g2[3] = Check("linear.token", "MissingField",
           Given(raw.token) /\ SecretResolves(raw.token) => Secret(raw.token) # Empty)
    BY DEF SecretChecks
  <2> HIDE DEF g2
  <2> QED
    BY <1>a, <2>1, <2>2, HoldsAt
<1>6. Given(raw.cli) /\ raw.cli # Empty
  <2>1. 4 \in DOMAIN g3
    OBVIOUS
  <2>2. g3[4] = Check("default.cli", "MissingField", Given(raw.cli) /\ raw.cli # Empty)
    BY DEF NonEmpty
  <2> HIDE DEF g3
  <2> QED
    BY <1>a, <2>1, <2>2, HoldsAt
<1>7. Given(raw.stall) => raw.stall >= 1
  <2>1. 3 \in DOMAIN g3
    OBVIOUS
  <2>2. g3[3] = Check("default.stall_seconds", "TypeMismatch",
                     Given(raw.stall) => raw.stall >= 1)
    BY DEF AtLeast
  <2> HIDE DEF g3
  <2> QED
    BY <1>a, <2>1, <2>2, HoldsAt
<1>8. Given(raw.iterations) => raw.iterations >= 1
  <2>1. 1 \in DOMAIN g4
    BY DEF EngineChecks
  <2>2. g4[1] = Check("engine.max_iterations", "TypeMismatch",
                     Given(raw.iterations) => raw.iterations >= 1)
    BY DEF EngineChecks, AtLeast
  <2> HIDE DEF g4
  <2> QED
    BY <1>a, <2>1, <2>2, HoldsAt
<1>9. Given(raw.window) => 1 <= raw.window /\ raw.window <= 600
  <2>1. 2 \in DOMAIN g4
    BY DEF EngineChecks
  <2>2. g4[2] = Check("engine.shutdown_window_seconds", "TypeMismatch",
                     Given(raw.window) => 1 <= raw.window /\ raw.window <= 600)
    BY DEF EngineChecks, Ranged
  <2> HIDE DEF g4
  <2> QED
    BY <1>a, <2>1, <2>2, HoldsAt
<1>10. Given(raw.queueSize) => 1 <= raw.queueSize /\ raw.queueSize <= 1024
  <2>1. 1 \in DOMAIN g5
    BY DEF QueueChecks
  <2>2. g5[1] = Check("escalation.queue_size", "TypeMismatch",
                     Given(raw.queueSize) => 1 <= raw.queueSize /\ raw.queueSize <= 1024)
    BY DEF QueueChecks, Ranged
  <2> HIDE DEF g5
  <2> QED
    BY <1>a, <2>1, <2>2, HoldsAt
<1>11. Given(raw.api.port) => raw.api.port >= 1
  <2>1. 2 \in DOMAIN g6
    BY DEF ApiChecks
  <2>2. g6[2] = Check("api.port", "TypeMismatch", Given(raw.api.port) => raw.api.port >= 1)
    BY DEF ApiChecks, AtLeast
  <2> HIDE DEF g6
  <2> QED
    BY <1>a, <2>1, <2>2, HoldsAt
<1>12. ASSUME Or(raw.stall, 300) % U32Modulus = 0 PROVE raw.stall >= U32Modulus
  <2>1. \A n, m \in Nat : n < m => n % m = n
    OBVIOUS
  <2>2. Given(raw.stall) /\ raw.stall \in Nat
    BY <1>1, <1>7, <1>12, <2>1, ConfigAssumption DEF Or, IsRawConfig
  <2> QED
    BY <1>7, <1>12, <2>1, <2>2, ConfigAssumption DEF Or
<1> DEFINE s == Sections(raw)
<1>13. /\ s.queueSize = Or(raw.queueSize, 64) /\ s.iterations = Or(raw.iterations, 10)
       /\ s.window = Or(raw.window, 30) /\ s.cadence = Or(raw.cadence, 300)
       /\ s.token = Secret(raw.token) /\ s.cli = raw.cli /\ s.apiPort = raw.api.port
       /\ s.stall = Or(raw.stall, 300) % U32Modulus
  BY DEF Sections
<1> HIDE DEF s
<1>14. s.queueSize \in 1 .. 1024
  <2>1. Given(raw.queueSize) => raw.queueSize \in Int
    BY <1>1 DEF IsRawConfig
  <2>2. CASE Given(raw.queueSize)
    <3>1. s.queueSize = raw.queueSize
      BY <1>13, <2>2 DEF Or
    <3> DEFINE q == raw.queueSize
    <3>2. q \in Int /\ 1 <= q /\ q <= 1024
      BY <1>10, <2>1, <2>2
    <3> HIDE DEF q
    <3>3. q \in 1 .. 1024
      BY <3>2
    <3> QED
      BY <3>1, <3>3 DEF q
  <2>3. CASE ~Given(raw.queueSize)
    BY <1>13, <2>3 DEF Or
  <2> QED
    BY <2>2, <2>3
<1>15. s.iterations >= 1
  BY <1>8, <1>13 DEF Or
<1>16. s.window \in 1 .. 600
  <2>1. Given(raw.window) => raw.window \in Int
    BY <1>1 DEF IsRawConfig
  <2>2. CASE Given(raw.window)
    <3>1. s.window = raw.window
      BY <1>13, <2>2 DEF Or
    <3> DEFINE q == raw.window
    <3>2. q \in Int /\ 1 <= q /\ q <= 600
      BY <1>9, <2>1, <2>2
    <3> HIDE DEF q
    <3>3. q \in 1 .. 600
      BY <3>2
    <3> QED
      BY <3>1, <3>3 DEF q
  <2>3. CASE ~Given(raw.window)
    BY <1>13, <2>3 DEF Or
  <2> QED
    BY <2>2, <2>3
<1>17. s.cadence >= 60
  BY <1>2, <1>13 DEF Or
<1>18. s.token # Empty /\ s.cli # Empty /\ (Given(s.apiPort) => s.apiPort >= 1)
  BY <1>3, <1>4, <1>5, <1>6, <1>11, <1>13
<1>19. s.stall = 0 => raw.stall >= U32Modulus
  BY <1>12, <1>13
<1>20. Load(file).sections = s
  BY <1>1 DEF s
<1> HIDE DEF s
<1> QED
  BY <1>14, <1>15, <1>16, <1>17, <1>18, <1>19, <1>20 DEF Usable, raw

LEMMA KeptSettings ==
  ASSUME StartsWithUsableSettings, UNCHANGED callVars
  PROVE  StartsWithUsableSettings'
BY DEF StartsWithUsableSettings, callVars

LEMMA NextKeepsSettings ==
  ASSUME StartsWithUsableSettings, call \in Calls, Next
  PROVE  StartsWithUsableSettings'
<1>1. CASE pc = "daemon" /\ UNCHANGED callVars
  BY <1>1, KeptSettings
<1>2. CASE StartDaemon
  <2>1. call' = call /\ (pc' = "daemon" => Load(call.config).ok)
    BY <1>2 DEF StartDaemon, GoTo, Finish
  <2>2. IsConfigFile(call.config)
    BY <1>2, CallsAssumption DEF StartDaemon, Is
  <2> QED
    BY <2>1, <2>2, UsableSettings DEF StartsWithUsableSettings
<1>3. ASSUME ~StartDaemon, ~(pc = "daemon" /\ UNCHANGED callVars) PROVE pc' # "daemon"
  <2> USE <1>3 DEF Finish, GoTo, callVars
  <2>1. CASE Log
    BY <2>1 DEF Log, StartLog, Summarise, ListVisits, Probe, Open, Attach, ReadStream, FollowPoll,
       FollowCheck
  <2>2. CASE Daemon
    BY <2>2 DEF Daemon, WriteCycleStart, CreateVisitDir, DrainChunk, VisitMoves,
       WriteCycleEnd, Evict
  <2>3. CASE Events
    BY <2>3 DEF Events, Emit, Settle, RestartDaemon, StartEvents, ReadOffline, Fetch,
       AfterPage, LogFetch, Outage, Rejected
  <2>4. CASE Short
    BY <2>4 DEF Short, WorkflowFile, RenderGraph, StartRepo, GhqGet, FindWorktree,
       ResolveGhqBase
  <2>5. CASE Rest
    BY <2>5 DEF Rest, cmdVars
  <2> QED
    BY <2>1, <2>2, <2>3, <2>4, <2>5 DEF Next
<1> QED
  BY <1>1, <1>2, <1>3 DEF StartsWithUsableSettings

-----------------------------------------------------------------------------
(* The cursor of `roki events`. *)

(* Induction in its first-order form: a set of numbers has a least one. *)
Below == {p \in Nat \X Nat : p[1] < p[2]}

LEMMA LeastNat ==
  ASSUME NEW T, T \subseteq Nat, T # {}
  PROVE  \E m \in T : \A k \in T : m <= k
<1>1. IsWellFoundedOn(Below, Nat)
  <2>1. Below = OpToRel(<, Nat)
    BY DEF Below, OpToRel
  <2> QED
    BY <2>1, NatLessThanWellFounded
<1>2. PICK m \in T : \A k \in T : <<k, m>> \notin Below
  BY <1>1, WFMin
<1>3. ASSUME NEW k \in T, ~(m <= k) PROVE FALSE
  <2>1. k \in Nat /\ m \in Nat /\ k < m
    BY <1>3
  <2> QED
    BY <2>1, <1>2 DEF Below
<1> QED
  BY <1>3

(* The same for the numbers up to a bound: a bounded set has a greatest. *)
LEMMA GreatestNat ==
  ASSUME NEW n \in Nat, NEW T, T \subseteq 0 .. n, T # {}
  PROVE  \E m \in T : \A k \in T : k <= m
<1> DEFINE bounds == {b \in Nat : \A k \in T : k <= b}
<1>1. n \in bounds
  OBVIOUS
<1>2. PICK m \in bounds : \A b \in bounds : m <= b
  BY <1>1, LeastNat
<1>3. ASSUME m \notin T PROVE FALSE
  <2>1. \A k \in T : k \in Nat /\ k < m
    BY <1>2, <1>3
  <2>2. PICK k \in T : k \in Nat /\ k < m
    BY <2>1
  <2>3. m \in Nat /\ m - 1 \in Nat
    BY <1>2, <2>2
  <2>4. \A j \in T : j <= m - 1
    BY <2>1, <2>3
  <2> QED
    BY <1>2, <2>3, <2>4
<1> QED
  BY <1>2, <1>3

(* The page reaches past the cursor, and what it leaves unread stays ahead. *)
LEMMA PageMax ==
  ASSUME EventTypes, Page # {}
  PROVE  /\ Max(Page) \in Page /\ Max(Page) \in 1 .. Len(ring)
         /\ Max(Page) > Len(ring) - lag /\ \A i \in Page : i <= Max(Page)
<1>1. Len(ring) \in Nat /\ DOMAIN ring = 1 .. Len(ring)
  BY LenProperties DEF EventTypes
<1>2. Page \subseteq 1 .. Len(ring) /\ \A i \in Page : i > Len(ring) - lag
  BY <1>1 DEF Page, Unread
<1> DEFINE page == Page
<1> HIDE DEF page
<1>3. page \subseteq 1 .. Len(ring) /\ page # {}
  BY <1>2 DEF page
<1>4. \E m \in page : \A k \in page : k <= m
  <2>1. page \subseteq 0 .. Len(ring)
    BY <1>1, <1>3
  <2> QED
    BY <1>1, <1>3, <2>1, GreatestNat
<1>5. \E m \in page : \A k \in page : m >= k
  BY <1>1, <1>3, <1>4
<1>6. Max(page) \in page /\ \A k \in page : Max(page) >= k
  BY <1>5 DEF Max
<1> QED
  BY <1>1, <1>2, <1>3, <1>6 DEF page

LEMMA PageUnread ==
  \A i \in Page : i \in DOMAIN ring /\ i > Len(ring) - lag
BY DEF Page, Unread

LEMMA RecordedKeeps ==
  ASSUME EventTypes, CursorInv, NEW kind \in Kinds, Recorded(kind)
  PROVE  /\ ring' \in Seq(EventEntry) /\ Len(ring') <= EventRingSize
         /\ lag' \in -MaxAhead .. EventRingSize + 1
         /\ CursorInv'
<1> DEFINE entry == [kind |-> kind, shown |-> 0]
           full == Len(ring) = EventRingSize
           base == IF full THEN Tail(ring) ELSE ring
           shift == IF full THEN 1 ELSE 0
           size == Len(ring)
<1>1. /\ size \in Nat /\ DOMAIN ring = 1 .. size /\ size <= EventRingSize
      /\ EventRingSize \in Nat \ {0} /\ MaxAhead \in Nat
      /\ lag \in Int /\ -MaxAhead <= lag /\ lag <= EventRingSize + 1
      /\ ring \in Seq(EventEntry)
  BY EventsAssumption, LenProperties DEF EventTypes
<1>0. full <=> size = EventRingSize
  OBVIOUS
<1> DEFINE left == size - shift
<1>2. /\ shift \in {0, 1} /\ left \in Nat /\ left + shift = size
      /\ full => shift = 1 /\ left < EventRingSize
      /\ ~full => shift = 0 /\ left < EventRingSize
  <2>1. (full => shift = 1) /\ (~full => shift = 0) /\ left = size - shift
    OBVIOUS
  <2> HIDE DEF size, full, shift, left
  <2> QED
    BY <1>0, <1>1, <2>1
<1>3. /\ base \in Seq(EventEntry) /\ Len(base) = left
      /\ \A i \in 1 .. left : base[i] = ring[i + shift]
  <2>1. CASE full
    <3>1. ring # <<>>
      BY <1>1, <2>1
    <3>2. /\ Tail(ring) \in Seq(EventEntry) /\ Len(Tail(ring)) = size - 1
          /\ \A i \in 1 .. Len(Tail(ring)) : Tail(ring)[i] = ring[i + 1]
      BY <1>1, <3>1, HeadTailProperties
    <3> QED
      BY <2>1, <3>2
  <2>2. CASE ~full
    <3>1. left = size /\ shift = 0
      <4> HIDE DEF size, full, shift, left
      <4> QED
        BY <1>1, <1>2, <2>2
    <3>2. base = ring
      BY <2>2
    <3>3. \A i \in 1 .. size : i + shift = i
      BY <3>1
    <3> HIDE DEF left, shift, base
    <3> QED
      BY <1>1, <3>1, <3>2, <3>3
  <2> QED
    BY <2>1, <2>2
<1>4. entry \in EventEntry /\ <<entry>> \in Seq(EventEntry) /\ entry.shown = 0
      /\ Len(<<entry>>) = 1 /\ <<entry>>[1] = entry
  BY DEF EventEntry
<1>5. /\ ring' = base \o <<entry>>
      /\ lag' = (IF lag > EventRingSize THEN lag ELSE lag + 1)
      /\ missed' = (missed \/ (full /\ Unread(1)))
  BY DEF Recorded
<1>b. (full /\ Unread(1) => 1 > size - lag) /\ (missed => lag > size) /\ size = Len(ring)
  BY DEF Unread, CursorInv
<1> HIDE DEF base, entry, shift, left, size, full
<1>6. /\ ring' \in Seq(EventEntry) /\ Len(ring') = left + 1
      /\ \A i \in 1 .. left + 1 :
           ring'[i] = IF i <= left THEN base[i] ELSE <<entry>>[i - left]
  BY <1>3, <1>4, <1>5, ConcatProperties
<1>7. Len(ring') <= EventRingSize /\ lag' \in -MaxAhead .. EventRingSize + 1
  <2>1. left + 1 <= EventRingSize /\ lag + 1 \in Int
    BY <1>1, <1>2
  <2>2. CASE lag > EventRingSize
    BY <1>1, <1>5, <1>6, <2>1, <2>2
  <2>3. CASE ~(lag > EventRingSize)
    BY <1>1, <1>5, <1>6, <2>1, <2>3
  <2> QED
    BY <2>2, <2>3
<1>8. ASSUME NEW i \in DOMAIN ring'
      PROVE  ring'[i].shown < 2 /\ (i > Len(ring') - lag' => ring'[i].shown = 0)
  <2>1. i \in 1 .. left + 1
    BY <1>6, LenProperties
  <2>2. CASE i <= left
    <3>1. i \in 1 .. left /\ i + shift \in 1 .. size
      BY <1>2, <2>1, <2>2
    <3>2. ring'[i] = ring[i + shift] /\ i + shift \in DOMAIN ring
      BY <1>1, <1>3, <1>6, <2>1, <2>2, <3>1
    <3>3. i > Len(ring') - lag' => i + shift > size - lag
      <4>1. CASE lag > EventRingSize
        BY <1>1, <3>1, <4>1
      <4>2. CASE ~(lag > EventRingSize)
        <5>1. Len(ring') = left + 1 /\ lag' = lag + 1
          BY <1>5, <1>6, <4>2
        <5>2. left + 1 - (lag + 1) = left - lag /\ left = size - shift
          BY <1>1, <1>2
        <5>3. i \in Int /\ shift \in Int /\ size \in Int /\ lag \in Int
          BY <1>1, <1>2, <2>1
        <5>4. i > left - lag => i + shift > size - lag
          BY <5>2, <5>3
        <5> QED
          BY <5>1, <5>2, <5>4
      <4> QED
        BY <4>1, <4>2
    <3> QED
      BY <1>b, <3>2, <3>3 DEF CursorInv
  <2>3. CASE ~(i <= left)
    <3>1. i - left = 1
      BY <1>2, <2>1, <2>3
    <3>2. ring'[i] = entry
      BY <1>4, <1>6, <2>1, <2>3, <3>1
    <3> QED
      BY <1>4, <3>2
  <2> QED
    BY <2>2, <2>3
<1>9. missed' => lag' > Len(ring')
  <2>1. missed => lag > size
    BY <1>b
  <2>2. full /\ Unread(1) => lag >= size
    BY <1>1, <1>b
  <2>3. ASSUME missed' PROVE lag >= size /\ (~full => lag > size)
    <3>1. missed \/ (full /\ Unread(1))
      BY <1>5, <2>3
    <3> QED
      BY <1>1, <2>1, <2>2, <3>1
  <2>4. ASSUME missed', ~(lag > EventRingSize) PROVE lag' > Len(ring')
    <3>1. lag' = lag + 1 /\ Len(ring') = left + 1 /\ (full => left + 1 = size)
          /\ (~full => left = size)
      BY <1>1, <1>2, <1>5, <1>6, <2>4
    <3> QED
      BY <1>1, <2>3, <2>4, <3>1
  <2>5. ASSUME lag > EventRingSize PROVE lag' > Len(ring')
    BY <1>1, <1>2, <1>5, <1>6, <2>5
  <2> QED
    BY <2>4, <2>5
<1> QED
  BY <1>6, <1>7, <1>8, <1>9 DEF CursorInv

LEMMA FetchKeeps ==
  ASSUME EventTypes, CursorInv, Fetch
  PROVE  EventTypes' /\ CursorInv' /\ ~missed'
<1> DEFINE size == Len(ring)
           page == Page
<1>1. /\ size \in Nat /\ DOMAIN ring = 1 .. size /\ size <= EventRingSize
      /\ EventRingSize \in Nat \ {0} /\ MaxAhead \in Nat
      /\ lag \in Int /\ -MaxAhead <= lag /\ lag <= EventRingSize + 1
      /\ \A i \in 1 .. size : ring[i] \in EventEntry
  BY EventsAssumption, LenProperties, ElementOfSeq DEF EventTypes
<1>2. /\ ring' = Printed(page) /\ missed' = (missed /\ ~GapSeen)
      /\ IF page = {} THEN lag' = lag ELSE lag' = size - Max(page)
      /\ backoff' = 0 /\ outages' = outages
  BY DEF Fetch, Marker, NextCursor
<1>3. \A i \in page : i \in 1 .. size /\ i > size - lag /\ ring[i].shown = 0
  BY <1>1, PageUnread DEF CursorInv
<1>4. page # {} => /\ Max(page) \in 1 .. size /\ Max(page) > size - lag
                   /\ \A i \in page : i <= Max(page)
  BY PageMax
<1> HIDE DEF page
<1>5. /\ ring' = [i \in 1 .. size |-> ring'[i]]
      /\ \A i \in 1 .. size : /\ ring'[i] \in EventEntry
                              /\ i \in page => ring'[i].shown \in {0, 1}
                              /\ i \notin page => ring'[i] = ring[i]
  <2>1. ring' = [i \in 1 .. size |->
                   IF i \in page /\ ring[i].kind \in call.shown /\ ring[i].shown < 2
                   THEN [ring[i] EXCEPT !.shown = @ + 1] ELSE ring[i]]
    BY <1>1, <1>2 DEF Printed
  <2>2. \A i \in 1 .. size : ring[i].shown \in Nat /\ ring[i].kind \in Kinds
                             /\ ring[i] = [kind |-> ring[i].kind, shown |-> ring[i].shown]
    BY <1>1 DEF EventEntry
  <2>3. ASSUME NEW i \in 1 .. size
        PROVE  [ring[i] EXCEPT !.shown = @ + 1]
                 = [kind |-> ring[i].kind, shown |-> ring[i].shown + 1]
    <3> DEFINE k == ring[i].kind
               n == ring[i].shown
    <3>1. ring[i] = [kind |-> k, shown |-> n]
      BY <2>2
    <3> HIDE DEF k, n
    <3>2. [ring[i] EXCEPT !.shown = n + 1] = [kind |-> k, shown |-> n + 1]
      BY <3>1
    <3> QED
      BY <3>2 DEF k, n
  <2>4. ASSUME NEW i \in 1 .. size
        PROVE  ring'[i] = ring[i]
          \/ (i \in page /\ ring'[i] = [kind |-> ring[i].kind, shown |-> ring[i].shown + 1])
    BY <2>1, <2>3
  <2>5. ASSUME NEW i \in 1 .. size PROVE ring'[i] \in EventEntry
    <3>1. ring[i] \in EventEntry /\ ring[i].shown + 1 \in Nat /\ ring[i].kind \in Kinds
      BY <1>1, <2>2
    <3>2. [kind |-> ring[i].kind, shown |-> ring[i].shown + 1] \in EventEntry
      BY <3>1 DEF EventEntry
    <3> QED
      BY <2>4, <3>1, <3>2
  <2>6. ASSUME NEW i \in 1 .. size, i \in page PROVE ring'[i].shown \in {0, 1}
    <3>1. ring[i].shown = 0
      BY <1>3, <2>6
    <3>2. CASE ring'[i] = ring[i]
      BY <3>1, <3>2
    <3>3. CASE ring'[i] = [kind |-> ring[i].kind, shown |-> ring[i].shown + 1]
      BY <3>1, <3>3
    <3> QED
      BY <2>4, <3>2, <3>3
  <2>7. \A i \in 1 .. size : i \notin page => ring'[i] = ring[i]
    BY <2>4
  <2>8. ring' = [i \in 1 .. size |-> ring'[i]]
    BY <2>1
  <2> QED
    BY <2>5, <2>6, <2>7, <2>8
<1>6. ring' \in Seq(EventEntry) /\ Len(ring') = size /\ DOMAIN ring' = 1 .. size
  <2>1. ring' \in [1 .. size -> EventEntry]
    BY <1>5
  <2> QED
    BY <1>1, <2>1
<1>7. lag' \in -MaxAhead .. EventRingSize + 1
  BY <1>1, <1>2, <1>4
<1>8. EventTypes'
  BY <1>1, <1>2, <1>6, <1>7 DEF EventTypes, MaxBackoff
<1>9. ~missed'
  BY <1>2 DEF GapSeen, CursorInv
<1>10. ASSUME NEW i \in 1 .. size
       PROVE  ring'[i].shown < 2 /\ (i > size - lag' => ring'[i].shown = 0)
  <2>1. CASE i \in page
    <3>1. ~(i > size - lag')
      BY <1>1, <1>2, <1>4, <2>1
    <3> QED
      BY <1>5, <2>1, <3>1
  <2>2. CASE i \notin page
    <3>1. i > size - lag' => i > size - lag
      BY <1>1, <1>2, <1>4
    <3> QED
      BY <1>1, <1>5, <2>2, <3>1 DEF CursorInv
  <2> QED
    BY <2>1, <2>2
<1>11. CursorInv'
  BY <1>6, <1>9, <1>10 DEF CursorInv
<1> QED
  BY <1>8, <1>9, <1>11

LEMMA EventsKeepCursor ==
  ASSUME EventTypes, CursorInv, Events
  PROVE  EventTypes' /\ CursorInv'
<1>1. \A x : (UNCHANGED <<ring, lag, missed>> /\ x \in 0 .. MaxOutages)
               => (outages' = x /\ backoff' \in 0 .. MaxBackoff => EventTypes' /\ CursorInv')
  BY DEF EventTypes, CursorInv, MaxBackoff
<1>2. ASSUME NEW kind \in Kinds, Recorded(kind), UNCHANGED <<outages, backoff>>
      PROVE  EventTypes' /\ CursorInv'
  BY <1>2, RecordedKeeps DEF EventTypes, MaxBackoff
<1>3. ASSUME NEW k \in Kinds, Emit(k) PROVE EventTypes' /\ CursorInv'
  BY <1>2, <1>3 DEF Emit
<1>4. CASE Settle \/ StartEvents \/ ReadOffline \/ Rejected
  BY <1>1, <1>4 DEF Settle, StartEvents, ReadOffline, Rejected, eventsVars, serverVars,
     cursorVars, EventTypes
<1>5. CASE RestartDaemon
  <2>1. ring' = <<>> /\ missed' = FALSE /\ lag' \in -MaxAhead .. 0
        /\ outages' = outages /\ backoff' = backoff
    BY <1>5, EventsAssumption DEF RestartDaemon
  <2>2. Len(<<>>) = 0 /\ <<>> \in Seq(EventEntry) /\ DOMAIN ring' = {}
    BY <2>1
  <2>3. Len(ring') <= EventRingSize /\ lag' \in -MaxAhead .. EventRingSize + 1
    BY <2>1, <2>2, EventsAssumption
  <2> QED
    BY <2>1, <2>2, <2>3 DEF EventTypes, CursorInv, MaxBackoff
<1>6. CASE Fetch
  BY <1>6, FetchKeeps
<1>7. CASE LogFetch
  BY <1>2, <1>7, EventsAssumption DEF LogFetch
<1>8. CASE Outage
  <2>1. /\ UNCHANGED <<ring, lag, missed>> /\ outages < MaxOutages
        /\ outages' = outages + 1 /\ backoff' \in {backoff, 1} \cup {backoff + 1}
        /\ backoff' = backoff + 1 => backoff # 1
    BY <1>8 DEF Outage, serverVars, MaxBackoff, EventTypes
  <2>2. outages + 1 \in 0 .. MaxOutages /\ backoff' \in 0 .. 1
    BY <2>1, EventsAssumption DEF EventTypes, MaxBackoff
  <2> QED
    BY <1>1, <2>1, <2>2 DEF MaxBackoff
<1> QED
  BY <1>3, <1>4, <1>5, <1>6, <1>7, <1>8 DEF Events

LEMMA NextKeepsCursor ==
  ASSUME EventTypes, CursorInv, Next
  PROVE  EventTypes' /\ CursorInv'
<1>1. CASE UNCHANGED eventsVars
  BY <1>1 DEF EventTypes, CursorInv, MaxBackoff, eventsVars, serverVars, cursorVars
<1>2. CASE Events
  BY <1>2, EventsKeepCursor
<1> QED
  BY <1>1, <1>2 DEF Next, Rest, cmdVars

(* Only a page prints, and it prints after its marker. *)
LEMMA NextMarksHoles ==
  ASSUME EventTypes, CursorInv, Next, pc = "request", pc' # "request", missed, Prints
  PROVE  ~missed'
<1>1. ASSUME NEW i \in DOMAIN ring PROVE ring[i].shown \in Nat
  <2>1. ring[i] \in EventEntry
    BY LenProperties, ElementOfSeq DEF EventTypes
  <2> QED
    BY <2>1 DEF EventEntry
<1>2. ASSUME ring' = ring PROVE FALSE
  BY <1>1, <1>2 DEF Prints
<1>3. CASE Events
  <2>1. CASE Fetch
    BY <2>1, FetchKeeps
  <2>2. CASE Outage \/ Rejected
    BY <1>2, <2>2 DEF Outage, Rejected, eventsVars, serverVars
  <2> QED
    BY <1>3, <2>1, <2>2 DEF Events, Emit, Settle, RestartDaemon, StartEvents, ReadOffline,
       LogFetch, callVars
<1> QED
  BY <1>2, <1>3 DEF Next, Rest, cmdVars, eventsVars, serverVars

-----------------------------------------------------------------------------
(* The daemon that `roki log` reads beside: a visit with an exit code      *)
(* stays as it is.                                                         *)
LEMMA Visits ==
  ASSUME LogTypes
  PROVE  /\ Len(visits) \in 0 .. MaxVisits /\ DOMAIN visits = 1 .. Len(visits)
         /\ \A n \in DOMAIN visits : /\ visits[n] \in VisitRecord
                                     /\ visits[n].chunks \in 0 .. MaxChunks
<1>1. Len(visits) \in Nat /\ DOMAIN visits = 1 .. Len(visits) /\ Len(visits) <= MaxVisits
  BY LenProperties DEF LogTypes
<1>2. \A n \in DOMAIN visits : visits[n] \in VisitRecord
  BY <1>1, ElementOfSeq DEF LogTypes
<1>3. \A n \in DOMAIN visits : visits[n].chunks \in 0 .. MaxChunks
  BY <1>2 DEF VisitRecord
<1> QED
  BY <1>1, <1>2, <1>3, LogAssumption

LEMMA SentinelMeans ==
  ASSUME NEW n
  PROVE  /\ ~IsPath(call.state) =>
              (Sentinel(n) <=> /\ ~evicted /\ n \in DOMAIN visits /\ ~(n < Pad)
                               /\ visits[n].state = call.state /\ visits[n].at = "exited")
         /\ IsPath(call.state) =>
              (Sentinel(n) <=> /\ "exit_code" \in Leads[call.state].files
                               /\ \/ Leads[call.state].fromRoot
                                  \/ ~evicted /\ n \in DOMAIN visits /\ ~(n < Pad))
BY DEF Sentinel, HasFile, OnDisk, VisitDir

(* It depends on the visits alone, and only gains by more of them.         *)
LEMMA SentinelStays ==
  ASSUME NEW n, call' = call, ~Gone', n \in DOMAIN visits => n \in DOMAIN visits',
         n \in DOMAIN visits /\ visits[n].at = "exited" => visits'[n] = visits[n],
         Sentinel(n)
  PROVE  Sentinel(n)'
BY DEF Sentinel, HasFile, OnDisk, VisitDir, IsPath, Gone

LEMMA SentinelSame ==
  ASSUME NEW n, call' = call, evicted' = evicted, visits' = visits
  PROVE  (Sentinel(n)' <=> Sentinel(n)) /\ (Gone' <=> Gone)
BY DEF Sentinel, HasFile, OnDisk, VisitDir, IsPath, Gone

LEMMA OneVisitMoves ==
  ASSUME LogTypes, visits # <<>>, visits[Latest].at # "exited", NEW r \in VisitRecord,
         r.state = visits[Latest].state, visits' = [visits EXCEPT ![Latest] = r]
  PROVE  /\ visits' \in Seq(VisitRecord) /\ Len(visits') = Len(visits)
         /\ DOMAIN visits' = DOMAIN visits
         /\ \A n \in DOMAIN visits :
              /\ visits'[n].state = visits[n].state
              /\ visits[n].at = "exited" => visits'[n] = visits[n]
<1>1. Latest \in 1 .. Len(visits) /\ visits \in Seq(VisitRecord)
  BY LenProperties, EmptySeq DEF Latest, LogTypes
<1>2. /\ visits' \in Seq(VisitRecord) /\ Len(visits') = Len(visits)
      /\ \A n \in 1 .. Len(visits) : visits'[n] = IF n = Latest THEN r ELSE visits[n]
  BY <1>1, ExceptSeq
<1>3. DOMAIN visits' = 1 .. Len(visits) /\ DOMAIN visits = 1 .. Len(visits)
  BY <1>1, <1>2, LenProperties
<1> QED
  BY <1>2, <1>3

LEMMA DaemonStep ==
  ASSUME LogTypes, Daemon
  PROVE  /\ LogTypes' /\ UNCHANGED <<callVars, readerVars>>
         /\ evicted => evicted'
         /\ \A n \in DOMAIN visits :
              /\ n \in DOMAIN visits' /\ visits'[n].state = visits[n].state
              /\ visits[n].at = "exited" => visits'[n] = visits[n]
<1> DEFINE Later ==
      /\ visits' \in Seq(VisitRecord) /\ Len(visits') <= MaxVisits
      /\ \A n \in DOMAIN visits :
           /\ n \in DOMAIN visits' /\ visits'[n].state = visits[n].state
           /\ visits[n].at = "exited" => visits'[n] = visits[n]
<1>1. UNCHANGED <<callVars, readerVars>> /\ (evicted => evicted')
  BY DEF Daemon, WriteCycleStart, CreateVisitDir, DrainChunk, VisitMoves, WriteCycleEnd, Evict
<1>2. visits' = visits => Later
  BY DEF LogTypes
<1>3. ASSUME CreateVisitDir PROVE Later
  <2>1. PICK s \in States :
          visits' = Append(visits, [state |-> s, at |-> "dir", chunks |-> 0])
    BY <1>3 DEF CreateVisitDir
  <2> DEFINE r == [state |-> s, at |-> "dir", chunks |-> 0]
  <2>2. r \in VisitRecord /\ Len(visits) < MaxVisits
    BY <1>3, LogAssumption DEF VisitRecord, Phases, CreateVisitDir, Latest
  <2> HIDE DEF r
  <2>3. /\ visits' \in Seq(VisitRecord) /\ Len(visits') = Len(visits) + 1
        /\ \A n \in 1 .. Len(visits) : visits'[n] = visits[n]
    BY <2>1, <2>2, AppendProperties DEF LogTypes, r
  <2> QED
    BY <2>2, <2>3, Visits, LenProperties, LogAssumption
<1>4. ASSUME NEW r \in VisitRecord, visits # <<>>, visits[Latest].at # "exited",
             r.state = visits[Latest].state, visits' = [visits EXCEPT ![Latest] = r]
      PROVE  Later
  BY <1>4, OneVisitMoves DEF LogTypes
<1>5. visits # <<>> => /\ Latest \in DOMAIN visits /\ visits[Latest] \in VisitRecord
                       /\ visits[Latest].state \in States
                       /\ visits[Latest].chunks \in 0 .. MaxChunks
                       /\ visits[Latest].at \in Phases
  <2>1. visits # <<>> => Latest \in DOMAIN visits
    BY Visits, EmptySeq DEF Latest, LogTypes
  <2> QED
    BY <2>1, Visits DEF VisitRecord
<1> HIDE DEF Later
<1>6. ASSUME DrainChunk PROVE Later
  <2> DEFINE r == [visits[Latest] EXCEPT !.chunks = @ + 1]
  <2>1. /\ visits # <<>> /\ visits[Latest].at = "running"
        /\ visits[Latest].chunks < MaxChunks
        /\ visits' = [visits EXCEPT ![Latest] = r]
    BY <1>6 DEF DrainChunk
  <2>2. r \in VisitRecord /\ r.state = visits[Latest].state
    BY <1>5, <2>1, LogAssumption DEF VisitRecord
  <2> HIDE DEF r
  <2> QED
    BY <1>4, <2>1, <2>2
<1>7. ASSUME NEW from, NEW to \in Phases, from # "exited", Moves(from, to) PROVE Later
  <2> DEFINE r == [visits[Latest] EXCEPT !.at = to]
  <2>1. /\ visits # <<>> /\ visits[Latest].at = from
        /\ visits' = [visits EXCEPT ![Latest] = r]
    BY <1>7 DEF Moves
  <2>2. r \in VisitRecord /\ r.state = visits[Latest].state
    BY <1>5, <2>1 DEF VisitRecord
  <2> HIDE DEF r
  <2> QED
    BY <1>4, <1>7, <2>1, <2>2
<1>8. ASSUME VisitMoves PROVE Later
  BY <1>7, <1>8 DEF VisitMoves, Phases, Over
<1>9. Later
  BY <1>2, <1>3, <1>6, <1>8 DEF Daemon, WriteCycleStart, WriteCycleEnd, Evict
<1> QED
  BY <1>1, <1>9 DEF LogTypes, readerVars, Later

LEMMA DaemonKeepsSentinel ==
  ASSUME LogTypes, Daemon, NEW n, Gone \/ Sentinel(n)
  PROVE  (Gone' \/ Sentinel(n)') /\ (Gone => Gone')
<1>1. call' = call /\ (evicted => evicted')
  BY DaemonStep DEF callVars
<1>2. Sentinel(n) /\ ~Gone' => Sentinel(n)'
  <2>1. /\ n \in DOMAIN visits => n \in DOMAIN visits'
        /\ n \in DOMAIN visits /\ visits[n].at = "exited" => visits'[n] = visits[n]
    BY DaemonStep
  <2> QED
    BY <1>1, <2>1, SentinelStays
<1>3. Gone => Gone'
  BY <1>1 DEF Gone, IsPath
<1> QED
  BY <1>2, <1>3

-----------------------------------------------------------------------------
(* The steps of `roki log`. *)
LEMMA Quits ==
  ASSUME NEW code \in {1, 2}, Finish(code)
  PROVE  LogInv'
<1>1. pc' = "done" /\ exit' # 0
  BY DEF Finish
<1> QED
  BY <1>1 DEF LogInv, TicketChecked, Probing, Chosen, FollowAtEnd, FollowIsComplete, Reading, Done

LEMMA SameDisk ==
  ASSUME LogTypes, UNCHANGED <<visits, listed, chosen, finished, printed>>
  PROVE  LogTypes'
BY DEF LogTypes

LEMMA StartLogKeeps ==
  ASSUME LogTypes, StartLog
  PROVE  LogTypes' /\ LogInv'
<1>1. LogTypes'
  BY SameDisk DEF StartLog, logVars, diskVars, readerVars
<1>2. Refusal(call) \in {Absent, 1, 2}
  BY DEF Refusal
<1>3. CASE Given(Refusal(call))
  <2>1. Refusal(call) \in {1, 2} /\ Finish(Refusal(call))
    BY <1>2, <1>3 DEF StartLog, Given
  <2> QED
    BY <1>1, <2>1, Quits
<1>4. CASE ~Given(Refusal(call))
  <2>1. SameTicket(call, call.env) /\ TicketAndCycle(call, call.env).ok
    <3>1. ~SameTicket(call, call.env) => Refusal(call) = 2
      BY DEF Refusal
    <3>2. SameTicket(call, call.env) /\ ~TicketAndCycle(call, call.env).ok
            => Refusal(call) \in {1, 2}
      BY DEF Refusal
    <3> QED
      BY <1>4, <3>1, <3>2, CodesAreGiven
  <2>2. pc' = "dir" /\ call' = call
    BY <1>4 DEF StartLog, GoTo
  <2>3. TicketChecked'
    BY <2>1, <2>2 DEF TicketChecked, Reading, Done
  <2> QED
    BY <1>1, <2>2, <2>3
       DEF LogInv, Probing, Chosen, FollowAtEnd, FollowIsComplete, Reading, Done
<1> QED
  BY <1>1, <1>3, <1>4

(* A directory of a cycle that is a name is one of the ticket of the       *)
(* flags, which is that of the environment.                                *)
LEMMA CycleDirIsOwners ==
  ASSUME CycleDir, SameTicket(call, call.env), TicketAndCycle(call, call.env).ok
  PROVE  TicketIsOwners
<1> SUFFICES ASSUME ~IsPath(CycleArg) PROVE call.env.ticket \in {Absent, Owner}
  BY DEF TicketIsOwners
<1>1. TicketAndCycle(call, call.env).value.ticket = Owner
  BY DEF CycleDir, CycleTicket
<1>2. Or(call.ticket, call.env.ticket) = Owner
  BY <1>1 DEF TicketAndCycle, Resolved, Refused
<1> QED
  BY <1>2 DEF SameTicket, Or, Given

LEMMA TicketStays ==
  ASSUME TicketIsOwners, call' = call
  PROVE  TicketIsOwners'
BY DEF TicketIsOwners, IsPath, CycleArg

LEMMA SummariseKeeps ==
  ASSUME LogTypes, TicketChecked, Summarise
  PROVE  LogTypes' /\ LogInv'
<1>1. LogTypes'
  BY SameDisk DEF Summarise, logVars, diskVars, readerVars
<1>2. CASE ~CycleDir
  BY <1>1, <1>2, Quits DEF Summarise
<1>3. CASE CycleDir
  <2>1. pc' = "done" /\ call' = call /\ call.mode \in {"list", "meta"}
    BY DEF Summarise, Finish
  <2>2. TicketIsOwners'
    BY <1>3, <2>1, CycleDirIsOwners, TicketStays DEF TicketChecked, Summarise, Is, IsLog
  <2>3. TicketChecked'
    BY <2>1, <2>2 DEF TicketChecked
  <2> QED
    BY <1>1, <2>1, <2>3
       DEF LogInv, Probing, Chosen, FollowAtEnd, FollowIsComplete, Following, Reads, Reading
<1> QED
  BY <1>2, <1>3

LEMMA AddressedVisit ==
  ASSUME LogTypes, NEW n \in Int, Given(Addressed(n))
  PROVE  Addressed(n) \in DOMAIN visits
<1>1. Latest \in Nat /\ DOMAIN visits = 1 .. Latest
  BY Visits DEF Latest
<1> HIDE DEF Latest
<1>2. \/ Addressed(n) = n /\ n > 0 /\ n <= Latest
      \/ Addressed(n) = Latest + n + 1 /\ n < 0 /\ -n <= Latest
  BY CodesAreGiven DEF Addressed
<1> QED
  BY <1>1, <1>2

LEMMA ListVisitsKeeps ==
  ASSUME call \in Calls, LogTypes, TicketChecked, ListVisits
  PROVE  LogTypes' /\ LogInv'
<1> DEFINE found == CycleDir /\ visits # <<>>
                      /\ (Given(call.iter) => Given(Addressed(call.iter)))
<1>1. /\ IsLog /\ Reads /\ call' = call /\ pc = "dir" /\ visits' = visits /\ evicted' = evicted
      /\ finished' = {n \in DOMAIN visits : Sentinel(n)} /\ printed' = printed
  BY DEF ListVisits, IsLog, Is, Reads, Finish, GoTo, diskVars
<1>2. DOMAIN visits = 1 .. Len(visits) /\ Len(visits) \in 0 .. MaxVisits
  BY Visits
<1>3. finished' \subseteq DOMAIN visits /\ finished' \subseteq 1 .. MaxVisits
  BY <1>1, <1>2, LogAssumption
<1>4. CASE ~found
  <2>1. Finish(1) /\ listed' = listed /\ chosen' = chosen
    BY <1>4 DEF ListVisits
  <2>2. LogTypes'
    BY <1>1, <1>3, <2>1 DEF LogTypes
  <2> QED
    BY <2>1, <2>2, Quits
<1>5. CASE found
  <2>1. /\ listed' = [n \in DOMAIN visits |-> n]
        /\ chosen' = (IF Given(call.iter) THEN Addressed(call.iter) ELSE Latest)
        /\ pc' = (IF Given(call.iter) THEN "open" ELSE "probe")
    BY <1>5 DEF ListVisits, GoTo
  <2>2. chosen' \in DOMAIN visits /\ (~Given(call.iter) => chosen' = Len(visits))
    <3>1. Len(visits) \in DOMAIN visits
      BY <1>2, <1>5, EmptySeq DEF LogTypes
    <3>2. Given(call.iter) => call.iter \in Int
      BY <1>1, CallsAssumption DEF IsLog
    <3> QED
      BY <1>5, <2>1, <3>1, <3>2, AddressedVisit DEF Latest
  <2>3. listed' \in Seq(Nat) /\ Len(listed') = Len(visits) /\ DOMAIN listed' = DOMAIN visits
        /\ \A i \in DOMAIN visits : listed'[i] = i
    <3> DEFINE k == Len(visits)
    <3>1. listed' = [n \in 1 .. k |-> n] /\ k \in Nat
      BY <1>2, <2>1, LogAssumption
    <3> HIDE DEF k
    <3>2. listed' \in [1 .. k -> Nat]
      BY <3>1
    <3>3. listed' \in Seq(Nat) /\ Len(listed') = k /\ DOMAIN listed' = 1 .. k
      BY <3>1, <3>2
    <3> QED
      BY <1>2, <3>1, <3>3 DEF k
  <2>4. LogTypes'
    BY <1>1, <1>2, <1>3, <2>2, <2>3, LogAssumption DEF LogTypes
  <2>5. TicketIsOwners'
    BY <1>1, <1>5, CycleDirIsOwners, TicketStays DEF TicketChecked
  <2>6. TicketChecked'
    BY <1>1, <2>1, <2>5 DEF TicketChecked
  <2>7. Probing'
    <3> SUFFICES ASSUME pc' = "probe" PROVE Probing'
      BY DEF Probing
    <3>1. ~Given(call.iter)
      BY <2>1
    <3>2. ASSUME NEW n \in finished'
          PROVE  n <= chosen' /\ n \in DOMAIN visits' /\ n <= Len(listed') /\ Sentinel(n)'
      BY <1>1, <1>2, <1>3, <2>2, <2>3, <3>1, <3>2, SentinelSame
    <3>3. Len(listed') <= chosen'
      BY <1>2, <2>2, <2>3, <3>1
    <3> QED
      BY <1>1, <2>2, <2>3, <3>1, <3>2, <3>3 DEF Probing, Reads
  <2>8. Chosen'
    BY <1>1, <2>1, <2>2 DEF Chosen, Reads, Reading, Done
  <2>9. FollowAtEnd'
    BY <2>1 DEF FollowAtEnd, FollowIsComplete, Done
  <2> QED
    BY <2>4, <2>6, <2>7, <2>8, <2>9 DEF LogInv
<1> QED
  BY <1>4, <1>5

LEMMA ProbeKeeps ==
  ASSUME LogTypes, TicketChecked, Probing, Probe
  PROVE  LogTypes' /\ LogInv'
<1>1. /\ IsLog /\ pc = "probe" /\ call' = call /\ visits' = visits /\ evicted' = evicted
      /\ finished' = finished /\ printed' = printed
  BY DEF Probe, IsLog, Is, GoTo, diskVars, callVars
<1>2. /\ Reads /\ ~Given(call.iter) /\ chosen \in DOMAIN visits /\ Len(listed) <= chosen
      /\ \A i \in DOMAIN listed : listed[i] = i
      /\ \A n \in finished : /\ n <= chosen /\ n \in DOMAIN visits
                             /\ Gone \/ (n <= Len(listed) /\ Sentinel(n))
  BY <1>1 DEF Probing
<1>3. TicketIsOwners'
  BY <1>1, TicketStays DEF TicketChecked
<1>4. /\ Len(listed) \in Nat /\ DOMAIN listed = 1 .. Len(listed) /\ Len(listed) <= MaxVisits
      /\ listed # <<>> => Len(listed) \in DOMAIN listed
  BY LenProperties, EmptySeq DEF LogTypes
<1>5. listed # <<>> => Last(listed) = Len(listed)
  BY <1>2, <1>4 DEF Last
<1>6. CASE listed # <<>> /\ ~Sentinel(Last(listed))
  <2>1. listed' = Front(listed) /\ chosen' = chosen /\ pc' = pc
    BY <1>6 DEF Probe, callVars
  <2> DEFINE k == Len(listed)
  <2>2. /\ listed' \in Seq(Nat) /\ Len(listed') = k - 1
        /\ \A i \in DOMAIN listed' : listed'[i] = listed[i]
    <3>1. \A i \in 1 .. k - 1 : listed[i] \in Nat
      BY <1>4, ElementOfSeq DEF LogTypes
    <3>2. k \in Nat /\ k >= 1 /\ 1 \in Int /\ k - 1 \in Int
      BY <1>4, <1>6
    <3>3. listed' = SubSeq(listed, 1, k - 1)
      BY <2>1 DEF Front
    <3> HIDE DEF k
    <3>4. /\ listed' \in Seq(Nat)
          /\ Len(listed') = IF 1 <= k - 1 THEN k - 1 - 1 + 1 ELSE 0
          /\ \A i \in 1 .. k - 1 - 1 + 1 : listed'[i] = listed[1 + i - 1]
      BY <3>1, <3>2, <3>3, SubSeqProperties
    <3>5. Len(listed') = k - 1 /\ DOMAIN listed' = 1 .. k - 1
      BY <3>2, <3>4, LenProperties
    <3>6. \A i \in 1 .. k - 1 : listed'[i] = listed[i]
      <4>1. \A i \in 1 .. k - 1 : 1 + i - 1 = i /\ i \in 1 .. k - 1 - 1 + 1
        BY <3>2
      <4> QED
        BY <3>4, <4>1
    <3> QED
      BY <3>4, <3>5, <3>6
  <2>3. LogTypes'
    <3>1. k - 1 <= MaxVisits
      BY <1>4, LogAssumption
    <3> QED
      BY <1>1, <2>1, <2>2, <3>1 DEF LogTypes
  <2>4. TicketChecked'
    BY <1>1, <1>3, <2>1 DEF TicketChecked
  <2>5. \A i \in DOMAIN listed' : listed'[i] = i
    <3>1. DOMAIN listed' \subseteq DOMAIN listed
      BY <1>4, <2>2, LenProperties
    <3> QED
      BY <1>2, <2>2, <3>1
  <2>6. ASSUME NEW n \in finished'
        PROVE  n <= chosen' /\ n \in DOMAIN visits'
               /\ (Gone' \/ (n <= Len(listed') /\ Sentinel(n)'))
    <3>1. n <= chosen /\ n \in DOMAIN visits /\ (Gone \/ (n <= k /\ Sentinel(n)))
      BY <1>1, <1>2, <2>6
    <3>2. CASE ~Gone
      <4>1. n # k
        BY <1>5, <1>6, <3>1, <3>2
      <4>2. n \in Int /\ k \in Int /\ Len(listed') = k - 1
        BY <1>4, <2>2, <3>1, Visits
      <4> HIDE DEF k
      <4>3. n <= Len(listed')
        BY <3>1, <3>2, <4>1, <4>2
      <4> QED
        BY <1>1, <2>1, <3>1, <3>2, <4>3, SentinelSame
    <3> QED
      BY <1>1, <2>1, <3>1, <3>2, SentinelSame
  <2>7. Probing'
    <3>1. Len(listed') <= chosen'
      BY <1>2, <1>4, <2>1, <2>2, Visits
    <3> QED
      BY <1>1, <1>2, <2>1, <2>5, <2>6, <3>1 DEF Probing, Reads
  <2>8. Chosen' /\ FollowAtEnd'
    BY <1>1, <2>1 DEF Chosen, FollowAtEnd, FollowIsComplete, Done, Reading
  <2> QED
    BY <2>3, <2>4, <2>7, <2>8 DEF LogInv
<1>7. CASE listed = <<>> \/ Sentinel(Last(listed))
  <2>1. /\ chosen' = (IF listed = <<>> THEN chosen ELSE Last(listed))
        /\ pc' = "open" /\ listed' = listed
    BY <1>7 DEF Probe, GoTo
  <2>2. chosen' \in DOMAIN visits
    <3>1. listed # <<>> => Len(listed) \in 1 .. Len(visits)
      BY <1>2, <1>4, Visits
    <3> QED
      BY <1>2, <1>5, <2>1, <3>1, Visits
  <2>3. ASSUME NEW n \in finished PROVE n <= chosen'
    <3>1. n <= chosen /\ (Gone \/ (n <= Len(listed) /\ Sentinel(n)))
      BY <1>2
    <3> QED
      BY <1>5, <1>7, <2>1, <3>1, SentinelMeans DEF Gone
  <2>4. LogTypes'
    <3>1. chosen' \in 0 .. MaxVisits
      BY <2>2, Visits, LogAssumption
    <3> QED
      BY <1>1, <2>1, <3>1 DEF LogTypes
  <2>5. TicketChecked'
    BY <1>1, <1>3, <2>1 DEF TicketChecked
  <2>6. Probing' /\ FollowAtEnd'
    BY <2>1 DEF Probing, FollowAtEnd, FollowIsComplete, Done
  <2>7. Chosen'
    BY <1>1, <1>2, <2>1, <2>2, <2>3 DEF Chosen, Reads
  <2> QED
    BY <2>4, <2>5, <2>6, <2>7 DEF LogInv
<1> QED
  BY <1>6, <1>7

(* The reader's own steps keep the visit that it chose. *)
LEMMA KeepsReading ==
  ASSUME IsLog, Reads, TicketChecked, Chosen, pc \in Reading, call' = call,
         UNCHANGED <<visits, chosen, finished>>,
         pc' \in {"attach", "follow", "check"} \/ (pc' = "read" /\ call.mode # "follow")
           \/ (pc' = "done" /\ FollowIsComplete')
  PROVE  LogInv'
<1>1. TicketIsOwners'
  BY TicketStays DEF TicketChecked
<1>2. chosen \in DOMAIN visits /\ (~Given(call.iter) => \A n \in finished : n <= chosen)
  BY DEF Chosen
<1>3. pc' \notin {"dir", "probe"}
  OBVIOUS
<1>4. TicketChecked'
  BY <1>1, <1>3 DEF TicketChecked
<1>5. Probing'
  BY <1>3 DEF Probing
<1>6. Chosen'
  BY <1>2 DEF Chosen, Reads
<1>7. FollowAtEnd'
  BY DEF FollowAtEnd, FollowIsComplete, Done
<1> QED
  BY <1>4, <1>5, <1>6, <1>7 DEF LogInv

LEMMA ChunksOf ==
  ASSUME LogTypes, NEW n \in DOMAIN visits
  PROVE  /\ Chunks(n) \in Seq(Nat) /\ Len(Chunks(n)) <= MaxChunks
         /\ \A k \in Nat : /\ LastChunks(Chunks(n), k) \in Seq(Nat)
                           /\ Len(LastChunks(Chunks(n), k)) <= MaxChunks
<1> DEFINE size == Size(n)
           s == Chunks(n)
<1>1. size \in Nat /\ size <= MaxChunks /\ MaxChunks \in Nat
  BY Visits, LogAssumption DEF Size, IsPath
<1>2. s = [i \in 1 .. size |-> i]
  BY DEF Chunks
<1> HIDE DEF size, s
<1>3. s \in [1 .. size -> Nat]
  BY <1>1, <1>2
<1>4. s \in Seq(Nat) /\ Len(s) = size
  BY <1>1, <1>2, <1>3
<1>5. ASSUME NEW k \in Nat
      PROVE  LastChunks(s, k) \in Seq(Nat) /\ Len(LastChunks(s, k)) <= MaxChunks
  <2> DEFINE from == IF k >= Len(s) THEN 1 ELSE Len(s) - k + 1
  <2>1. from \in Int /\ from >= 1
    BY <1>1, <1>4
  <2>2. LastChunks(s, k) = SubSeq(s, from, size)
    BY <1>4 DEF LastChunks
  <2> HIDE DEF from
  <2>3. \A i \in from .. size : s[i] \in Nat
    BY <1>1, <1>2, <2>1
  <2>4. /\ SubSeq(s, from, size) \in Seq(Nat)
        /\ Len(SubSeq(s, from, size)) = IF from <= size THEN size - from + 1 ELSE 0
    BY <1>1, <2>1, <2>3, SubSeqProperties
  <2> QED
    BY <1>1, <2>1, <2>2, <2>4
<1> QED
  BY <1>1, <1>4, <1>5 DEF s

LEMMA ReaderKeeps ==
  ASSUME call \in Calls, LogTypes, LogInv,
         Open \/ Attach \/ ReadStream \/ FollowPoll \/ FollowCheck
  PROVE  LogTypes' /\ LogInv'
<1>1. /\ IsLog /\ call' = call /\ pc \in Reading
      /\ visits' = visits /\ chosen' = chosen /\ finished' = finished /\ listed' = listed
  BY DEF Open, Attach, ReadStream, FollowPoll, FollowCheck, IsLog, Is, Reading, GoTo, Finish,
     logVars, diskVars, readerVars
<1>2. Reads /\ chosen \in DOMAIN visits /\ TicketChecked /\ Chosen
  BY <1>1 DEF LogInv, Chosen
<1>3. ASSUME printed' \in Seq(Nat) /\ Len(printed') <= MaxChunks PROVE LogTypes'
  BY <1>1, <1>3 DEF LogTypes
<1>4. printed' = printed => LogTypes'
  BY <1>3 DEF LogTypes
<1>5. CASE Open
  <2>1. LogTypes'
    BY <1>4, <1>5 DEF Open, logVars, readerVars
  <2>2. CASE Finish(1)
    BY <2>1, <2>2, Quits
  <2>3. CASE ~Finish(1)
    <3>1. pc' = IF call.mode = "follow" THEN "attach" ELSE "read"
      BY <1>5, <2>3 DEF Open, GoTo
    <3> QED
      BY <1>1, <1>2, <2>1, <3>1, KeepsReading
  <2> QED
    BY <2>2, <2>3
<1>9. CASE Attach
  <2>1. LogTypes'
    BY <1>4, <1>9 DEF Attach, logVars, readerVars
  <2>2. CASE Finish(1)
    BY <2>1, <2>2, Quits
  <2>3. CASE ~Finish(1)
    <3>1. pc' = "follow"
      BY <1>9, <2>3 DEF Attach, GoTo
    <3> QED
      BY <1>1, <1>2, <2>1, <3>1, KeepsReading
  <2> QED
    BY <2>2, <2>3
<1>6. CASE ReadStream
  <2>1. CASE ~HasFile(VisitDir(chosen), call.state, call.stream)
    BY <1>4, <1>6, <2>1, Quits DEF ReadStream
  <2>2. CASE HasFile(VisitDir(chosen), call.state, call.stream)
    <3>1. /\ pc' = "done"
          /\ printed' \in {<<>>, LastChunks(Chunks(chosen), call.tail), Chunks(chosen)}
          /\ ~Given(call.tail) => printed' \in {<<>>, Chunks(chosen)}
      BY <1>6, <2>2 DEF ReadStream, Finish
    <3>2. Given(call.tail) => call.tail \in Nat
      BY <1>1, CallsAssumption DEF IsLog
    <3>3. <<>> \in Seq(Nat) /\ Len(<<>>) = 0 /\ MaxChunks >= 0
      BY LogAssumption
    <3>4. LogTypes'
      BY <1>2, <1>3, <3>1, <3>2, <3>3, ChunksOf
    <3>5. call.mode # "follow"
      BY <1>1, <1>6 DEF LogInv, FollowAtEnd, ReadStream
    <3>6. FollowIsComplete'
      BY <1>1, <3>5 DEF FollowIsComplete, Following
    <3> QED
      BY <1>1, <1>2, <3>1, <3>4, <3>6, KeepsReading
  <2> QED
    BY <2>1, <2>2
<1>7. CASE FollowPoll
  <2>1. printed' = Chunks(chosen) /\ pc' = "check"
    BY <1>7 DEF FollowPoll, GoTo
  <2>2. LogTypes'
    BY <1>2, <1>3, <2>1, ChunksOf
  <2> QED
    BY <1>1, <1>2, <2>1, <2>2, KeepsReading
<1>8. CASE FollowCheck
  <2>1. CASE Sentinel(chosen)
    <3>1. printed' = Chunks(chosen) /\ pc' = "done"
      BY <1>8, <2>1 DEF FollowCheck, Finish
    <3>2. LogTypes'
      BY <1>2, <1>3, <3>1, ChunksOf
    <3>3. IsPath(call.state) \/ visits[chosen].at = "exited"
      BY <2>1, SentinelMeans
    <3>4. FollowIsComplete'
      BY <1>1, <3>1, <3>3 DEF FollowIsComplete, Chunks, Size, IsPath
    <3> QED
      BY <1>1, <1>2, <3>1, <3>2, <3>4, KeepsReading
  <2>2. CASE ~Sentinel(chosen)
    <3>1. printed' = printed /\ pc' = "follow"
      BY <1>8, <2>2 DEF FollowCheck, GoTo
    <3> QED
      BY <1>1, <1>2, <1>4, <3>1, KeepsReading
  <2> QED
    BY <2>1, <2>2
<1> QED
  BY <1>5, <1>6, <1>7, <1>8, <1>9

LEMMA LogKeeps ==
  ASSUME call \in Calls, LogTypes, LogInv, Log
  PROVE  LogTypes' /\ LogInv'
BY StartLogKeeps, SummariseKeeps, ListVisitsKeeps, ProbeKeeps, ReaderKeeps DEF Log, LogInv

LEMMA DaemonKeeps ==
  ASSUME LogTypes, LogInv, Is("log"), Daemon
  PROVE  LogTypes' /\ LogInv'
<1>1. /\ LogTypes' /\ call' = call /\ pc' = pc /\ pc # "done" /\ IsLog
      /\ listed' = listed /\ chosen' = chosen /\ finished' = finished
      /\ \A n \in DOMAIN visits : n \in DOMAIN visits'
  BY DaemonStep DEF callVars, readerVars, Is, IsLog
<1>2. TicketChecked'
  BY <1>1, TicketStays DEF LogInv, TicketChecked, Done
<1>3. Probing'
  <2> SUFFICES ASSUME pc = "probe" PROVE Probing'
    BY <1>1 DEF Probing
  <2>1. /\ Reads /\ ~Given(call.iter) /\ chosen \in DOMAIN visits /\ Len(listed) <= chosen
        /\ \A i \in DOMAIN listed : listed[i] = i
        /\ \A n \in finished : /\ n <= chosen /\ n \in DOMAIN visits
                               /\ Gone \/ (n <= Len(listed) /\ Sentinel(n))
    BY <1>1 DEF LogInv, Probing
  <2>2. ASSUME NEW n \in finished
        PROVE  n <= chosen' /\ n \in DOMAIN visits'
               /\ (Gone' \/ (n <= Len(listed') /\ Sentinel(n)'))
    BY <1>1, <2>1, <2>2, DaemonStep, DaemonKeepsSentinel
  <2> QED
    BY <1>1, <2>1, <2>2 DEF Probing, Reads
<1>4. Chosen'
  BY <1>1 DEF LogInv, Chosen, Reads, Done
<1>5. FollowAtEnd'
  BY <1>1 DEF LogInv, FollowAtEnd, FollowIsComplete, Done, IsLog
<1> QED
  BY <1>1, <1>2, <1>3, <1>4, <1>5 DEF LogInv

(* The other commands leave the captures alone. *)
LEMMA OthersKeep ==
  ASSUME LogTypes, LogInv, call' = call, UNCHANGED logVars, ~IsLog \/ UNCHANGED callVars
  PROVE  LogTypes' /\ LogInv'
<1>1. LogTypes'
  BY SameDisk DEF logVars, diskVars, readerVars
<1>2. CASE ~IsLog
  <2>1. ~IsLog' /\ ~Following'
    BY <1>2 DEF IsLog, Following
  <2> QED
    BY <1>1, <2>1 DEF LogInv, TicketChecked, Probing, Chosen, FollowAtEnd, FollowIsComplete
<1>3. CASE UNCHANGED callVars
  <2>1. /\ pc' = pc /\ exit' = exit /\ visits' = visits /\ evicted' = evicted
        /\ listed' = listed /\ chosen' = chosen /\ finished' = finished /\ printed' = printed
    BY <1>3 DEF callVars, logVars, diskVars, readerVars
  <2>2. TicketChecked'
    BY <2>1, TicketStays DEF LogInv, TicketChecked, Done, IsLog
  <2>3. Probing'
    BY <2>1, SentinelSame DEF LogInv, Probing, IsLog, Reads
  <2>4. Chosen'
    BY <2>1 DEF LogInv, Chosen, Reads, Done, IsLog
  <2>5. FollowAtEnd'
    BY <2>1 DEF LogInv, FollowAtEnd, FollowIsComplete, Following, Done, IsLog, Chunks, Size,
       IsPath
  <2> QED
    BY <1>1, <2>2, <2>3, <2>4, <2>5 DEF LogInv
<1> QED
  BY <1>2, <1>3

LEMMA NextKeepsLog ==
  ASSUME call \in Calls, LogTypes, LogInv, Next
  PROVE  LogTypes' /\ LogInv'
<1>1. CASE Log
  BY <1>1, LogKeeps
<1>2. CASE Is("log") /\ Daemon
  BY <1>2, DaemonKeeps
<1>3. CASE Events /\ UNCHANGED logVars
  <2>1. call' = call /\ ~IsLog
    BY <1>3 DEF Events, Emit, Settle, RestartDaemon, StartEvents, ReadOffline, Fetch, AfterPage,
       LogFetch, Outage, Rejected, Online, Is, IsLog, Finish, GoTo, callVars
  <2> QED
    BY <1>3, <2>1, OthersKeep
<1>4. CASE Short /\ UNCHANGED logVars
  <2>1. call' = call /\ ~IsLog
    BY <1>4 DEF Short, StartDaemon, WorkflowFile, RenderGraph, StartRepo, GhqGet, FindWorktree,
       ResolveGhqBase, Is, IsLog, Finish, GoTo
  <2> QED
    BY <1>4, <2>1, OthersKeep
<1>5. CASE Rest
  BY <1>5, OthersKeep DEF Rest, cmdVars, callVars
<1> QED
  BY <1>1, <1>2, <1>3, <1>4, <1>5 DEF Next

-----------------------------------------------------------------------------
(* The invariant. *)
LEMMA NextInv ==
  ASSUME Inv, Next
  PROVE  Inv'
BY NextKeepsCallTypes, NextKeepsSettings, NextKeepsCursor, NextKeepsLog
   DEF Inv, CallTypes

LEMMA StutterInv ==
  ASSUME Inv, UNCHANGED cmdVars
  PROVE  Inv'
<1>1. Rest \/ (UNCHANGED callVars /\ UNCHANGED eventsVars /\ UNCHANGED logVars)
  BY DEF cmdVars
<1>2. CallTypes' /\ LogTypes' /\ LogInv'
  BY <1>1, KeptTypes, OthersKeep DEF Inv, cmdVars, callVars
<1>3. EventTypes' /\ CursorInv'
  BY DEF Inv, EventTypes, CursorInv, MaxBackoff, cmdVars, eventsVars, serverVars, cursorVars
<1>4. StartsWithUsableSettings'
  BY KeptSettings DEF Inv, cmdVars
<1> QED
  BY <1>2, <1>3, <1>4 DEF Inv

THEOREM CommandLineInvariant == Spec => []Inv
<1>1. Inv /\ [Next]_cmdVars => Inv'
  BY NextInv, StutterInv
<1> QED
  BY <1>1, InitInv, PTL DEF Spec

-----------------------------------------------------------------------------
(* A command works on what it was asked for: a daemon starts with settings *)
(* its parts can work with, a state of one ticket that names its cycle and *)
(* its state, giving no path for either, reads no capture of another, and  *)
(* no page prints what an earlier one did (RokiConfig::load,               *)
(* cli/shared/config_resolve.rs, cli/log.rs, cli/events.rs).               *)
THEOREM CommandsAreRight == Spec => []CommandInv
<1>1. Inv => CommandInv
  <2> SUFFICES ASSUME Inv PROVE CommandInv
    OBVIOUS
  <2>1. TypeOK
    <3>1. \A n \in DOMAIN visits : visits[n].state \in States /\ visits[n].chunks \in 0 .. MaxChunks
      BY Visits DEF Inv, VisitRecord
    <3> QED
      BY <3>1 DEF TypeOK, Inv, CallTypes, LogTypes, EventTypes
  <2>2. SameTicketOnly
    BY DEF SameTicketOnly, Inv, LogInv, TicketChecked, TicketIsOwners, IsLog
  <2>3. PrintedOnce
    BY DEF PrintedOnce, Inv, CursorInv
  <2> QED
    BY <2>1, <2>2, <2>3 DEF CommandInv, Inv
<1> QED
  BY <1>1, CommandLineInvariant, PTL

(* A follow that ends has printed the whole capture of a visit that has    *)
(* exited, however its polls fall between the engine's writes              *)
(* (follow_loop, real_state_runner steps 15 to 18).                        *)
THEOREM FollowsToTheEnd == Spec => []FollowIsComplete
<1>1. Inv => FollowIsComplete
  BY DEF Inv, LogInv, FollowAtEnd
<1> QED
  BY <1>1, CommandLineInvariant, PTL

(* Without --iter the visit read is no older than any visit of the state   *)
(* that had an exit code when the command listed them, in whatever order   *)
(* the daemon goes on, unless it deletes them (resolve_iter_for_state).    *)
THEOREM LatestCompletedIsRead == Spec => []ReadsLatestCompleted
<1>1. Inv => ReadsLatestCompleted
  <2> SUFFICES ASSUME Inv, IsLog, Done(0), Reads, ~Given(call.iter), NEW n \in finished
               PROVE  chosen >= n
    BY DEF ReadsLatestCompleted, IsLog, Reads
  <2>1. n <= chosen
    BY DEF Inv, LogInv, Chosen
  <2>2. n \in Int /\ chosen \in Int
    BY DEF Inv, LogTypes
  <2> QED
    BY <2>1, <2>2
<1> QED
  BY <1>1, CommandLineInvariant, PTL

(* An event that left the ring unread is announced by the marker before    *)
(* the next event is printed, whatever the filters, the page limit and the *)
(* requests between (EventRing::page, run_online).                         *)
THEOREM HolesGetTheirMarker == Spec => HolesAreMarked
<1> DEFINE Marks == pc = "request" /\ pc' # "request" /\ missed /\ Prints => ~missed'
<1>1. Inv /\ [Next]_cmdVars => [Marks]_<<eventsVars, callVars>>
  BY NextMarksHoles DEF Inv, cmdVars
<1> HIDE DEF Marks
<1>2. Spec => [][Marks]_<<eventsVars, callVars>>
  BY <1>1, CommandLineInvariant, PTL DEF Spec
<1> QED
  BY <1>2 DEF HolesAreMarked, Marks

================================================================================
