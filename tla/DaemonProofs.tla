------------------------------ MODULE DaemonProofs ------------------------------
(***************************************************************************)
(* For any number of tickets, requests, children and channel slots: the    *)
(* inventory of ticket tasks that main drains is complete, a daemon that   *)
(* returns leaves no child behind, and cold start is alone until it opens  *)
(* the gate.                                                               *)
(***************************************************************************)
EXTENDS Daemon, TLAPS

LEMMA SevenSteps == Len(BootSteps) = 7
  BY DEF BootSteps

(* Before the gate opens nothing has come through it. *)
GateFirst ==
  main \in {"boot", "coldStart", "openGate"} => channel = <<>> /\ ~gate

(* Nothing is drained before the dispatcher is spawned, and no task exists *)
(* before cold start admits.                                               *)
DrainLater == main \in {"boot", "coldStart", "openGate", "ready", "spawnDrain"} => drain = "off"

NoTaskAtBoot == main = "boot" => alive = {} /\ \A t \in Tickets : task[t] = "none"

(* From its registration until its entry is cleared a child is registered. *)
Registered ==
  \A t \in Tickets : task[t] \in {"feeding", "supervised", "reaped"} => t \in registry

(* Until main takes the map, a live task is on file in it. *)
OnFile ==
  main \notin Draining \cup {"over"} => \A t \in Tickets : LiveTask(t) => t \in handle

(* main takes the map only after the dispatcher is done. *)
DrainFirst == main \in Draining \cup {"collect"} => drain = "done"

(* main is at an entry exactly while it sends to it or joins it. *)
AtEntry ==
  /\ main \in {"send", "join"} => at \in Tickets
  /\ main \in MainPC \ {"send", "join", "over"} => at = Nobody

(* A process that runs has not left main; one that does not, does nothing. *)
OverAtExit == Running <=> main # "over"

Inv ==
  /\ TypeOK /\ GateFirst /\ DrainLater /\ NoTaskAtBoot /\ Registered /\ OnFile
  /\ DrainFirst /\ AtEntry /\ OverAtExit
  /\ InventoryComplete /\ NothingOutlivesDaemon

LEMMA BootStepKeeps ==
  ASSUME Inv, BootStep
  PROVE  Inv'
<1> USE DaemonAssumption, SevenSteps DEF Inv, Running, GoTo, BootStep, vars, mainVars, netVars, taskVars
<1>1. TypeOK'
  BY DEF TypeOK, MainPC, TaskPC, Draining, AtEntry
<1>2. (GateFirst /\ DrainLater /\ DrainFirst /\ AtEntry /\ OverAtExit)'
  BY DEF TypeOK, MainPC, GateFirst, DrainLater, DrainFirst, AtEntry, OverAtExit, Draining
<1>3. (NoTaskAtBoot /\ Registered)'
  BY DEF TypeOK, TaskPC, NoTaskAtBoot, Registered, DrainLater, OverAtExit
<1>4. (OnFile /\ InventoryComplete)'
  BY DEF TypeOK, TaskPC, MainPC, OnFile, InventoryComplete, LiveTask, DrainFirst, AtEntry, Draining, NoTaskAtBoot, OverAtExit
<1>5. NothingOutlivesDaemon'
  BY DEF TypeOK, TaskPC, NothingOutlivesDaemon, NoTaskAtBoot, Registered, OverAtExit, DrainLater
<1> QED
  BY <1>1, <1>2, <1>3, <1>4, <1>5

LEMMA ColdAdmitKeeps ==
  ASSUME Inv, NEW t \in Tickets, ColdAdmit(t)
  PROVE  Inv'
<1> USE DaemonAssumption, SevenSteps DEF Inv, Running, GoTo, ColdAdmit, Spawn, vars, mainVars, netVars, taskVars
<1>1. TypeOK'
  BY DEF TypeOK, MainPC, TaskPC, Draining, AtEntry
<1>2. (GateFirst /\ DrainLater /\ DrainFirst /\ AtEntry /\ OverAtExit)'
  BY DEF TypeOK, MainPC, GateFirst, DrainLater, DrainFirst, AtEntry, OverAtExit, Draining
<1>3. (NoTaskAtBoot /\ Registered)'
  BY DEF TypeOK, TaskPC, NoTaskAtBoot, Registered, DrainLater, OverAtExit
<1>4. (OnFile /\ InventoryComplete)'
  BY DEF TypeOK, TaskPC, MainPC, OnFile, InventoryComplete, LiveTask, DrainFirst, AtEntry, Draining, NoTaskAtBoot, OverAtExit
<1>5. NothingOutlivesDaemon'
  BY DEF TypeOK, TaskPC, NothingOutlivesDaemon, NoTaskAtBoot, Registered, OverAtExit, DrainLater
<1> QED
  BY <1>1, <1>2, <1>3, <1>4, <1>5

LEMMA StartupKeeps ==
  ASSUME Inv, Startup
  PROVE  Inv'
<1> USE DaemonAssumption, SevenSteps DEF Inv, Running, GoTo, Startup, vars, mainVars, netVars, taskVars
<1>1. TypeOK'
  <2>1. /\ main' \in MainPC /\ gate' \in BOOLEAN /\ ready' \in BOOLEAN
        /\ drain' \in {"off", "recv", "check", "done"}
        /\ trap' \in {"off", "spawned", "armed", "caught", "done"}
    BY DEF TypeOK, MainPC, TaskPC
  <2> QED
    BY <2>1 DEF TypeOK, MainPC
<1>2. (GateFirst /\ DrainLater /\ DrainFirst /\ AtEntry /\ OverAtExit)'
  BY DEF TypeOK, MainPC, GateFirst, DrainLater, DrainFirst, AtEntry, OverAtExit, Draining
<1>3. (NoTaskAtBoot /\ Registered)'
  BY DEF TypeOK, TaskPC, NoTaskAtBoot, Registered, DrainLater, OverAtExit
<1>4. (OnFile /\ InventoryComplete)'
  BY DEF TypeOK, TaskPC, MainPC, OnFile, InventoryComplete, LiveTask, DrainFirst, AtEntry, Draining, NoTaskAtBoot, OverAtExit
<1>5. NothingOutlivesDaemon'
  BY DEF TypeOK, TaskPC, NothingOutlivesDaemon, NoTaskAtBoot, Registered, OverAtExit, DrainLater
<1> QED
  BY <1>1, <1>2, <1>3, <1>4, <1>5

LEMMA ListenerStepKeeps ==
  ASSUME Inv, ListenerBinds \/ Connect \/ ListenerStops
  PROVE  Inv'
<1> USE DaemonAssumption, SevenSteps DEF Inv, Running, GoTo, ListenerBinds, Connect, ListenerStops, vars, mainVars, netVars, taskVars
<1>1. TypeOK'
  BY DEF TypeOK, MainPC, TaskPC, Draining, AtEntry
<1>2. (GateFirst /\ DrainLater /\ DrainFirst /\ AtEntry /\ OverAtExit)'
  BY DEF TypeOK, MainPC, GateFirst, DrainLater, DrainFirst, AtEntry, OverAtExit, Draining
<1>3. (NoTaskAtBoot /\ Registered)'
  BY DEF TypeOK, TaskPC, NoTaskAtBoot, Registered, DrainLater, OverAtExit
<1>4. (OnFile /\ InventoryComplete)'
  BY DEF TypeOK, TaskPC, MainPC, OnFile, InventoryComplete, LiveTask, DrainFirst, AtEntry, Draining, NoTaskAtBoot, OverAtExit
<1>5. NothingOutlivesDaemon'
  BY DEF TypeOK, TaskPC, NothingOutlivesDaemon, NoTaskAtBoot, Registered, OverAtExit, DrainLater
<1> QED
  BY <1>1, <1>2, <1>3, <1>4, <1>5

LEMMA AnswerKeeps ==
  ASSUME Inv, NEW t \in Tickets, Answer(t)
  PROVE  Inv'
<1> USE DaemonAssumption, SevenSteps DEF Inv, Running, GoTo, Answer, vars, mainVars, netVars, taskVars
<1>1. TypeOK'
  <2>1. open' \in Nat /\ open' <= requests' /\ requests' = requests
    BY DEF TypeOK
  <2>2. channel' \in Seq(Tickets) /\ Len(channel') <= ChannelCap
    <3>1. CASE channel' = channel
      BY <3>1 DEF TypeOK
    <3>2. CASE Len(channel) < ChannelCap /\ channel' = Append(channel, t)
      BY <3>2 DEF TypeOK
    <3> QED
      BY <3>1, <3>2
  <2> QED
    BY <2>1, <2>2 DEF TypeOK, MainPC
<1>2. (GateFirst /\ DrainLater /\ DrainFirst /\ AtEntry /\ OverAtExit)'
  BY DEF TypeOK, MainPC, GateFirst, DrainLater, DrainFirst, AtEntry, OverAtExit, Draining
<1>3. (NoTaskAtBoot /\ Registered)'
  BY DEF TypeOK, TaskPC, NoTaskAtBoot, Registered, DrainLater, OverAtExit
<1>4. (OnFile /\ InventoryComplete)'
  BY DEF TypeOK, TaskPC, MainPC, OnFile, InventoryComplete, LiveTask, DrainFirst, AtEntry, Draining, NoTaskAtBoot, OverAtExit
<1>5. NothingOutlivesDaemon'
  BY DEF TypeOK, TaskPC, NothingOutlivesDaemon, NoTaskAtBoot, Registered, OverAtExit, DrainLater
<1> QED
  BY <1>1, <1>2, <1>3, <1>4, <1>5

LEMMA DispatchKeeps ==
  ASSUME Inv, Dispatch
  PROVE  Inv'
<1> USE DaemonAssumption, SevenSteps DEF Inv, Running, GoTo, Dispatch, Spawn, vars, mainVars, netVars, taskVars
<1>1. TypeOK'
  <2>1. channel' \in Seq(Tickets) /\ Len(channel') <= ChannelCap /\ Head(channel) \in Tickets
    <3>1. channel \in Seq(Tickets) /\ channel # <<>> /\ channel' = Tail(channel) /\ Len(channel) <= ChannelCap
      BY DEF TypeOK
    <3> QED
      BY <3>1
  <2>2. /\ handle' \subseteq Tickets /\ recheck' \subseteq Tickets
        /\ task' \in [Tickets -> TaskPC]
        /\ inbox' \in [Tickets -> {"empty", "webhook", "shutdown"}]
    <3>1. handle' \subseteq Tickets /\ recheck' \subseteq Tickets
      BY <2>1 DEF TypeOK
    <3>2. task' \in [Tickets -> TaskPC]
      BY <2>1 DEF TypeOK, TaskPC
    <3>3. inbox' \in [Tickets -> {"empty", "webhook", "shutdown"}]
      BY <2>1 DEF TypeOK
    <3> QED
      BY <3>1, <3>2, <3>3
  <2> QED
    BY <2>1, <2>2 DEF TypeOK, MainPC
<1>2. (GateFirst /\ DrainLater /\ DrainFirst /\ AtEntry /\ OverAtExit)'
  BY DEF TypeOK, MainPC, GateFirst, DrainLater, DrainFirst, AtEntry, OverAtExit, Draining
<1>3. (NoTaskAtBoot /\ Registered)'
  BY DEF TypeOK, TaskPC, NoTaskAtBoot, Registered, DrainLater, OverAtExit
<1>4. (OnFile /\ InventoryComplete)'
  BY DEF TypeOK, TaskPC, MainPC, OnFile, InventoryComplete, LiveTask, DrainFirst, AtEntry, Draining, NoTaskAtBoot, OverAtExit
<1>5. NothingOutlivesDaemon'
  BY DEF TypeOK, TaskPC, NothingOutlivesDaemon, NoTaskAtBoot, Registered, OverAtExit, DrainLater
<1> QED
  BY <1>1, <1>2, <1>3, <1>4, <1>5

LEMMA DrainChecksKeeps ==
  ASSUME Inv, DrainChecks
  PROVE  Inv'
<1> USE DaemonAssumption, SevenSteps DEF Inv, Running, GoTo, DrainChecks, vars, mainVars, netVars, taskVars
<1>1. TypeOK'
  BY DEF TypeOK, MainPC, TaskPC, Draining, AtEntry
<1>2. (GateFirst /\ DrainLater /\ DrainFirst /\ AtEntry /\ OverAtExit)'
  BY DEF TypeOK, MainPC, GateFirst, DrainLater, DrainFirst, AtEntry, OverAtExit, Draining
<1>3. (NoTaskAtBoot /\ Registered)'
  BY DEF TypeOK, TaskPC, NoTaskAtBoot, Registered, DrainLater, OverAtExit
<1>4. (OnFile /\ InventoryComplete)'
  BY DEF TypeOK, TaskPC, MainPC, OnFile, InventoryComplete, LiveTask, DrainFirst, AtEntry, Draining, NoTaskAtBoot, OverAtExit
<1>5. NothingOutlivesDaemon'
  BY DEF TypeOK, TaskPC, NothingOutlivesDaemon, NoTaskAtBoot, Registered, OverAtExit, DrainLater
<1> QED
  BY <1>1, <1>2, <1>3, <1>4, <1>5

LEMMA ReceiveKeeps ==
  ASSUME Inv, NEW t \in Tickets, Receive(t)
  PROVE  Inv'
<1> USE DaemonAssumption, SevenSteps DEF Inv, Running, GoTo, Receive, vars, mainVars, netVars, taskVars
<1>1. TypeOK'
  BY DEF TypeOK, MainPC, TaskPC, Draining, AtEntry
<1>2. (GateFirst /\ DrainLater /\ DrainFirst /\ AtEntry /\ OverAtExit)'
  BY DEF TypeOK, MainPC, GateFirst, DrainLater, DrainFirst, AtEntry, OverAtExit, Draining
<1>3. (NoTaskAtBoot /\ Registered)'
  BY DEF TypeOK, TaskPC, NoTaskAtBoot, Registered, DrainLater, OverAtExit
<1>4. (OnFile /\ InventoryComplete)'
  BY DEF TypeOK, TaskPC, MainPC, OnFile, InventoryComplete, LiveTask, DrainFirst, AtEntry, Draining, NoTaskAtBoot, OverAtExit
<1>5. NothingOutlivesDaemon'
  BY DEF TypeOK, TaskPC, NothingOutlivesDaemon, NoTaskAtBoot, Registered, OverAtExit, DrainLater
<1> QED
  BY <1>1, <1>2, <1>3, <1>4, <1>5

LEMMA VisitKeeps ==
  ASSUME Inv, NEW t \in Tickets, Visit(t)
  PROVE  Inv'
<1> USE DaemonAssumption, SevenSteps DEF Inv, Running, GoTo, Visit, vars, mainVars, netVars, taskVars
<1>1. TypeOK'
  BY DEF TypeOK, MainPC, TaskPC, Draining, AtEntry
<1>2. (GateFirst /\ DrainLater /\ DrainFirst /\ AtEntry /\ OverAtExit)'
  BY DEF TypeOK, MainPC, GateFirst, DrainLater, DrainFirst, AtEntry, OverAtExit, Draining
<1>3. (NoTaskAtBoot /\ Registered)'
  BY DEF TypeOK, TaskPC, NoTaskAtBoot, Registered, DrainLater, OverAtExit
<1>4. (OnFile /\ InventoryComplete)'
  BY DEF TypeOK, TaskPC, MainPC, OnFile, InventoryComplete, LiveTask, DrainFirst, AtEntry, Draining, NoTaskAtBoot, OverAtExit
<1>5. NothingOutlivesDaemon'
  BY DEF TypeOK, TaskPC, NothingOutlivesDaemon, NoTaskAtBoot, Registered, OverAtExit, DrainLater
<1> QED
  BY <1>1, <1>2, <1>3, <1>4, <1>5

LEMMA RegisterKeeps ==
  ASSUME Inv, NEW t \in Tickets, Register(t)
  PROVE  Inv'
<1> USE DaemonAssumption, SevenSteps DEF Inv, Running, GoTo, Register, vars, mainVars, netVars, taskVars
<1>1. TypeOK'
  BY DEF TypeOK, MainPC, TaskPC, Draining, AtEntry
<1>2. (GateFirst /\ DrainLater /\ DrainFirst /\ AtEntry /\ OverAtExit)'
  BY DEF TypeOK, MainPC, GateFirst, DrainLater, DrainFirst, AtEntry, OverAtExit, Draining
<1>3. (NoTaskAtBoot /\ Registered)'
  BY DEF TypeOK, TaskPC, NoTaskAtBoot, Registered, DrainLater, OverAtExit
<1>4. (OnFile /\ InventoryComplete)'
  BY DEF TypeOK, TaskPC, MainPC, OnFile, InventoryComplete, LiveTask, DrainFirst, AtEntry, Draining, NoTaskAtBoot, OverAtExit
<1>5. NothingOutlivesDaemon'
  BY DEF TypeOK, TaskPC, NothingOutlivesDaemon, NoTaskAtBoot, Registered, OverAtExit, DrainLater
<1> QED
  BY <1>1, <1>2, <1>3, <1>4, <1>5

LEMMA FeedKeeps ==
  ASSUME Inv, NEW t \in Tickets, Feed(t)
  PROVE  Inv'
<1> USE DaemonAssumption, SevenSteps DEF Inv, Running, GoTo, Feed, vars, mainVars, netVars, taskVars
<1>1. TypeOK'
  <2>1. /\ task' \in [Tickets -> TaskPC]
        /\ alive' \subseteq Tickets /\ registry' \subseteq Tickets
    BY DEF TypeOK, MainPC, TaskPC
  <2> QED
    BY <2>1 DEF TypeOK, MainPC
<1>2. (GateFirst /\ DrainLater /\ DrainFirst /\ AtEntry /\ OverAtExit)'
  BY DEF TypeOK, MainPC, GateFirst, DrainLater, DrainFirst, AtEntry, OverAtExit, Draining
<1>3. (NoTaskAtBoot /\ Registered)'
  BY DEF TypeOK, TaskPC, NoTaskAtBoot, Registered, DrainLater, OverAtExit
<1>4. (OnFile /\ InventoryComplete)'
  BY DEF TypeOK, TaskPC, MainPC, OnFile, InventoryComplete, LiveTask, DrainFirst, AtEntry, Draining, NoTaskAtBoot, OverAtExit
<1>5. NothingOutlivesDaemon'
  BY DEF TypeOK, TaskPC, NothingOutlivesDaemon, NoTaskAtBoot, Registered, OverAtExit, DrainLater
<1> QED
  BY <1>1, <1>2, <1>3, <1>4, <1>5

LEMMA ChildExitsKeeps ==
  ASSUME Inv, NEW t \in Tickets, ChildExits(t)
  PROVE  Inv'
<1> USE DaemonAssumption, SevenSteps DEF Inv, Running, GoTo, ChildExits, ChildEnds, vars, mainVars, netVars, taskVars
<1>1. TypeOK'
  BY DEF TypeOK, MainPC, TaskPC, Draining, AtEntry
<1>2. (GateFirst /\ DrainLater /\ DrainFirst /\ AtEntry /\ OverAtExit)'
  BY DEF TypeOK, MainPC, GateFirst, DrainLater, DrainFirst, AtEntry, OverAtExit, Draining
<1>3. (NoTaskAtBoot /\ Registered)'
  BY DEF TypeOK, TaskPC, NoTaskAtBoot, Registered, DrainLater, OverAtExit
<1>4. (OnFile /\ InventoryComplete)'
  BY DEF TypeOK, TaskPC, MainPC, OnFile, InventoryComplete, LiveTask, DrainFirst, AtEntry, Draining, NoTaskAtBoot, OverAtExit
<1>5. NothingOutlivesDaemon'
  BY DEF TypeOK, TaskPC, NothingOutlivesDaemon, NoTaskAtBoot, Registered, OverAtExit, DrainLater
<1> QED
  BY <1>1, <1>2, <1>3, <1>4, <1>5

LEMMA HeirEndsKeeps ==
  ASSUME Inv, NEW t \in Tickets, HeirEnds(t)
  PROVE  Inv'
<1> USE DaemonAssumption, SevenSteps DEF Inv, Running, GoTo, HeirEnds, vars, mainVars, netVars, taskVars
<1>1. TypeOK'
  BY DEF TypeOK, MainPC, TaskPC, Draining, AtEntry
<1>2. (GateFirst /\ DrainLater /\ DrainFirst /\ AtEntry /\ OverAtExit)'
  BY DEF TypeOK, MainPC, GateFirst, DrainLater, DrainFirst, AtEntry, OverAtExit, Draining
<1>3. (NoTaskAtBoot /\ Registered)'
  BY DEF TypeOK, TaskPC, NoTaskAtBoot, Registered, DrainLater, OverAtExit
<1>4. (OnFile /\ InventoryComplete)'
  BY DEF TypeOK, TaskPC, MainPC, OnFile, InventoryComplete, LiveTask, DrainFirst, AtEntry, Draining, NoTaskAtBoot, OverAtExit
<1>5. NothingOutlivesDaemon'
  BY DEF TypeOK, TaskPC, NothingOutlivesDaemon, NoTaskAtBoot, Registered, OverAtExit, DrainLater
<1> QED
  BY <1>1, <1>2, <1>3, <1>4, <1>5

LEMMA ClearKeeps ==
  ASSUME Inv, NEW t \in Tickets, Clear(t)
  PROVE  Inv'
<1> USE DaemonAssumption, SevenSteps DEF Inv, Running, GoTo, Clear, vars, mainVars, netVars, taskVars
<1>1. TypeOK'
  BY DEF TypeOK, MainPC, TaskPC, Draining, AtEntry
<1>2. (GateFirst /\ DrainLater /\ DrainFirst /\ AtEntry /\ OverAtExit)'
  BY DEF TypeOK, MainPC, GateFirst, DrainLater, DrainFirst, AtEntry, OverAtExit, Draining
<1>3. (NoTaskAtBoot /\ Registered)'
  BY DEF TypeOK, TaskPC, NoTaskAtBoot, Registered, DrainLater, OverAtExit
<1>4. (OnFile /\ InventoryComplete)'
  BY DEF TypeOK, TaskPC, MainPC, OnFile, InventoryComplete, LiveTask, DrainFirst, AtEntry, Draining, NoTaskAtBoot, OverAtExit
<1>5. NothingOutlivesDaemon'
  BY DEF TypeOK, TaskPC, NothingOutlivesDaemon, NoTaskAtBoot, Registered, OverAtExit, DrainLater
<1> QED
  BY <1>1, <1>2, <1>3, <1>4, <1>5

LEMMA CycleEndsKeeps ==
  ASSUME Inv, NEW t \in Tickets, CycleEnds(t)
  PROVE  Inv'
<1> USE DaemonAssumption, SevenSteps DEF Inv, Running, GoTo, CycleEnds, vars, mainVars, netVars, taskVars
<1>1. TypeOK'
  <2>1. /\ task' \in [Tickets -> TaskPC] /\ recheck' \subseteq Tickets
        /\ inbox' \in [Tickets -> {"empty", "webhook", "shutdown"}]
    BY DEF TypeOK, MainPC, TaskPC
  <2> QED
    BY <2>1 DEF TypeOK, MainPC
<1>2. (GateFirst /\ DrainLater /\ DrainFirst /\ AtEntry /\ OverAtExit)'
  BY DEF TypeOK, MainPC, GateFirst, DrainLater, DrainFirst, AtEntry, OverAtExit, Draining
<1>3. (NoTaskAtBoot /\ Registered)'
  BY DEF TypeOK, TaskPC, NoTaskAtBoot, Registered, DrainLater, OverAtExit
<1>4. (OnFile /\ InventoryComplete)'
  BY DEF TypeOK, TaskPC, MainPC, OnFile, InventoryComplete, LiveTask, DrainFirst, AtEntry, Draining, NoTaskAtBoot, OverAtExit
<1>5. NothingOutlivesDaemon'
  BY DEF TypeOK, TaskPC, NothingOutlivesDaemon, NoTaskAtBoot, Registered, OverAtExit, DrainLater
<1> QED
  BY <1>1, <1>2, <1>3, <1>4, <1>5

LEMMA SignalKeeps ==
  ASSUME Inv, Signal
  PROVE  Inv'
<1> USE DaemonAssumption, SevenSteps DEF Inv, Running, GoTo, Signal, vars, mainVars, netVars, taskVars
<1>1. TypeOK'
  BY DEF TypeOK, MainPC, TaskPC, Draining, AtEntry
<1>2. (GateFirst /\ DrainLater /\ DrainFirst /\ AtEntry /\ OverAtExit)'
  BY DEF TypeOK, MainPC, GateFirst, DrainLater, DrainFirst, AtEntry, OverAtExit, Draining
<1>3. (NoTaskAtBoot /\ Registered)'
  BY DEF TypeOK, TaskPC, NoTaskAtBoot, Registered, DrainLater, OverAtExit
<1>4. (OnFile /\ InventoryComplete)'
  BY DEF TypeOK, TaskPC, MainPC, OnFile, InventoryComplete, LiveTask, DrainFirst, AtEntry, Draining, NoTaskAtBoot, OverAtExit
<1>5. NothingOutlivesDaemon'
  BY DEF TypeOK, TaskPC, NothingOutlivesDaemon, NoTaskAtBoot, Registered, OverAtExit, DrainLater
<1> QED
  BY <1>1, <1>2, <1>3, <1>4, <1>5

LEMMA TrapKeeps ==
  ASSUME Inv, Trap
  PROVE  Inv'
<1> USE DaemonAssumption, SevenSteps DEF Inv, Running, GoTo, Trap, vars, mainVars, netVars, taskVars
<1>1. TypeOK'
  <2>1. /\ fired' \in BOOLEAN /\ trap' \in {"off", "spawned", "armed", "caught", "done"}
    BY DEF TypeOK, MainPC, TaskPC
  <2> QED
    BY <2>1 DEF TypeOK, MainPC
<1>2. (GateFirst /\ DrainLater /\ DrainFirst /\ AtEntry /\ OverAtExit)'
  BY DEF TypeOK, MainPC, GateFirst, DrainLater, DrainFirst, AtEntry, OverAtExit, Draining
<1>3. (NoTaskAtBoot /\ Registered)'
  BY DEF TypeOK, TaskPC, NoTaskAtBoot, Registered, DrainLater, OverAtExit
<1>4. (OnFile /\ InventoryComplete)'
  BY DEF TypeOK, TaskPC, MainPC, OnFile, InventoryComplete, LiveTask, DrainFirst, AtEntry, Draining, NoTaskAtBoot, OverAtExit
<1>5. NothingOutlivesDaemon'
  BY DEF TypeOK, TaskPC, NothingOutlivesDaemon, NoTaskAtBoot, Registered, OverAtExit, DrainLater
<1> QED
  BY <1>1, <1>2, <1>3, <1>4, <1>5

LEMMA AwaitKeeps ==
  ASSUME Inv, Await
  PROVE  Inv'
<1> USE DaemonAssumption, SevenSteps DEF Inv, Running, GoTo, Await, ListenerOver, vars, mainVars, netVars, taskVars
<1>1. TypeOK'
  BY DEF TypeOK, MainPC, TaskPC, Draining, AtEntry
<1>2. (GateFirst /\ DrainLater /\ DrainFirst /\ AtEntry /\ OverAtExit)'
  BY DEF TypeOK, MainPC, GateFirst, DrainLater, DrainFirst, AtEntry, OverAtExit, Draining
<1>3. (NoTaskAtBoot /\ Registered)'
  BY DEF TypeOK, TaskPC, NoTaskAtBoot, Registered, DrainLater, OverAtExit
<1>4. (OnFile /\ InventoryComplete)'
  BY DEF TypeOK, TaskPC, MainPC, OnFile, InventoryComplete, LiveTask, DrainFirst, AtEntry, Draining, NoTaskAtBoot, OverAtExit
<1>5. NothingOutlivesDaemon'
  BY DEF TypeOK, TaskPC, NothingOutlivesDaemon, NoTaskAtBoot, Registered, OverAtExit, DrainLater
<1> QED
  BY <1>1, <1>2, <1>3, <1>4, <1>5

LEMMA CollectKeeps ==
  ASSUME Inv, Collect
  PROVE  Inv'
<1> USE DaemonAssumption, SevenSteps DEF Inv, Running, GoTo, Collect, vars, mainVars, netVars, taskVars
<1>1. TypeOK'
  BY DEF TypeOK, MainPC, TaskPC, Draining, AtEntry
<1>2. (GateFirst /\ DrainLater /\ DrainFirst /\ AtEntry /\ OverAtExit)'
  BY DEF TypeOK, MainPC, GateFirst, DrainLater, DrainFirst, AtEntry, OverAtExit, Draining
<1>3. (NoTaskAtBoot /\ Registered)'
  BY DEF TypeOK, TaskPC, NoTaskAtBoot, Registered, DrainLater, OverAtExit
<1>4. (OnFile /\ InventoryComplete)'
  BY DEF TypeOK, TaskPC, MainPC, OnFile, InventoryComplete, LiveTask, DrainFirst, AtEntry, Draining, NoTaskAtBoot, OverAtExit
<1>5. NothingOutlivesDaemon'
  BY DEF TypeOK, TaskPC, NothingOutlivesDaemon, NoTaskAtBoot, Registered, OverAtExit, DrainLater
<1> QED
  BY <1>1, <1>2, <1>3, <1>4, <1>5

LEMMA WindowExpiresKeeps ==
  ASSUME Inv, WindowExpires
  PROVE  Inv'
<1> USE DaemonAssumption, SevenSteps DEF Inv, Running, GoTo, WindowExpires, vars, mainVars, netVars, taskVars
<1>1. TypeOK'
  BY DEF TypeOK, MainPC, TaskPC, Draining, AtEntry
<1>2. (GateFirst /\ DrainLater /\ DrainFirst /\ AtEntry /\ OverAtExit)'
  BY DEF TypeOK, MainPC, GateFirst, DrainLater, DrainFirst, AtEntry, OverAtExit, Draining
<1>3. (NoTaskAtBoot /\ Registered)'
  BY DEF TypeOK, TaskPC, NoTaskAtBoot, Registered, DrainLater, OverAtExit
<1>4. (OnFile /\ InventoryComplete)'
  BY DEF TypeOK, TaskPC, MainPC, OnFile, InventoryComplete, LiveTask, DrainFirst, AtEntry, Draining, NoTaskAtBoot, OverAtExit
<1>5. NothingOutlivesDaemon'
  BY DEF TypeOK, TaskPC, NothingOutlivesDaemon, NoTaskAtBoot, Registered, OverAtExit, DrainLater
<1> QED
  BY <1>1, <1>2, <1>3, <1>4, <1>5

LEMMA NextEntryKeeps ==
  ASSUME Inv, NextEntry
  PROVE  Inv'
<1> USE DaemonAssumption, SevenSteps DEF Inv, Running, GoTo, NextEntry, vars, mainVars, netVars, taskVars
<1>1. TypeOK'
  BY DEF TypeOK, MainPC, TaskPC, Draining, AtEntry
<1>2. (GateFirst /\ DrainLater /\ DrainFirst /\ AtEntry /\ OverAtExit)'
  BY DEF TypeOK, MainPC, GateFirst, DrainLater, DrainFirst, AtEntry, OverAtExit, Draining
<1>3. (NoTaskAtBoot /\ Registered)'
  BY DEF TypeOK, TaskPC, NoTaskAtBoot, Registered, DrainLater, OverAtExit
<1>4. (OnFile /\ InventoryComplete)'
  BY DEF TypeOK, TaskPC, MainPC, OnFile, InventoryComplete, LiveTask, DrainFirst, AtEntry, Draining, NoTaskAtBoot, OverAtExit
<1>5. NothingOutlivesDaemon'
  BY DEF TypeOK, TaskPC, NothingOutlivesDaemon, NoTaskAtBoot, Registered, OverAtExit, DrainLater
<1> QED
  BY <1>1, <1>2, <1>3, <1>4, <1>5

LEMMA SendShutdownKeeps ==
  ASSUME Inv, SendShutdown
  PROVE  Inv'
<1> USE DaemonAssumption, SevenSteps DEF Inv, Running, GoTo, SendShutdown, vars, mainVars, netVars, taskVars
<1>1. TypeOK'
  BY DEF TypeOK, MainPC, TaskPC, Draining, AtEntry
<1>2. (GateFirst /\ DrainLater /\ DrainFirst /\ AtEntry /\ OverAtExit)'
  BY DEF TypeOK, MainPC, GateFirst, DrainLater, DrainFirst, AtEntry, OverAtExit, Draining
<1>3. (NoTaskAtBoot /\ Registered)'
  BY DEF TypeOK, TaskPC, NoTaskAtBoot, Registered, DrainLater, OverAtExit
<1>4. (OnFile /\ InventoryComplete)'
  BY DEF TypeOK, TaskPC, MainPC, OnFile, InventoryComplete, LiveTask, DrainFirst, AtEntry, Draining, NoTaskAtBoot, OverAtExit
<1>5. NothingOutlivesDaemon'
  BY DEF TypeOK, TaskPC, NothingOutlivesDaemon, NoTaskAtBoot, Registered, OverAtExit, DrainLater
<1> QED
  BY <1>1, <1>2, <1>3, <1>4, <1>5

LEMMA JoinKeeps ==
  ASSUME Inv, Join
  PROVE  Inv'
<1> USE DaemonAssumption, SevenSteps DEF Inv, Running, GoTo, Join, vars, mainVars, netVars, taskVars
<1>1. TypeOK'
  BY DEF TypeOK, MainPC, TaskPC, Draining, AtEntry
<1>2. (GateFirst /\ DrainLater /\ DrainFirst /\ AtEntry /\ OverAtExit)'
  BY DEF TypeOK, MainPC, GateFirst, DrainLater, DrainFirst, AtEntry, OverAtExit, Draining
<1>3. (NoTaskAtBoot /\ Registered)'
  BY DEF TypeOK, TaskPC, NoTaskAtBoot, Registered, DrainLater, OverAtExit
<1>4. (OnFile /\ InventoryComplete)'
  BY DEF TypeOK, TaskPC, MainPC, OnFile, InventoryComplete, LiveTask, DrainFirst, AtEntry, Draining, NoTaskAtBoot, OverAtExit
<1>5. NothingOutlivesDaemon'
  BY DEF TypeOK, TaskPC, NothingOutlivesDaemon, NoTaskAtBoot, Registered, OverAtExit, DrainLater
<1> QED
  BY <1>1, <1>2, <1>3, <1>4, <1>5

LEMMA FinishKeeps ==
  ASSUME Inv, Finish
  PROVE  Inv'
<1> USE DaemonAssumption, SevenSteps DEF Inv, Running, GoTo, Finish, KilledOnExit, vars, mainVars, netVars, taskVars
<1>1. TypeOK'
  BY DEF TypeOK, MainPC, TaskPC, Draining, AtEntry
<1>2. (GateFirst /\ DrainLater /\ DrainFirst /\ AtEntry /\ OverAtExit)'
  BY DEF TypeOK, MainPC, GateFirst, DrainLater, DrainFirst, AtEntry, OverAtExit, Draining
<1>3. (NoTaskAtBoot /\ Registered)'
  BY DEF TypeOK, TaskPC, NoTaskAtBoot, Registered, DrainLater, OverAtExit
<1>4. (OnFile /\ InventoryComplete)'
  BY DEF TypeOK, TaskPC, MainPC, OnFile, InventoryComplete, LiveTask, DrainFirst, AtEntry, Draining, NoTaskAtBoot, OverAtExit
<1>5. NothingOutlivesDaemon'
  BY DEF TypeOK, TaskPC, NothingOutlivesDaemon, NoTaskAtBoot, Registered, OverAtExit, DrainLater
<1> QED
  BY <1>1, <1>2, <1>3, <1>4, <1>5

LEMMA StepKeeps == Inv /\ [Next]_vars => Inv'
<1> SUFFICES ASSUME Inv, [Next]_vars PROVE Inv'
  OBVIOUS
<1>1. CASE BootStep \/ Startup \/ Dispatch \/ DrainChecks \/ Signal \/ Trap \/ WindowExpires
  BY <1>1, BootStepKeeps, StartupKeeps, DispatchKeeps, DrainChecksKeeps, SignalKeeps,
     TrapKeeps, WindowExpiresKeeps
<1>2. CASE Shutdown
  BY <1>2, AwaitKeeps, CollectKeeps, NextEntryKeeps, SendShutdownKeeps, JoinKeeps, FinishKeeps
  DEF Shutdown
<1>3. CASE ListenerBinds \/ Connect \/ ListenerStops
  BY <1>3, ListenerStepKeeps
<1>4. ASSUME NEW t \in Tickets,
             \/ ColdAdmit(t) \/ Answer(t) \/ Receive(t) \/ Visit(t) \/ Register(t)
             \/ Feed(t) \/ ChildExits(t) \/ HeirEnds(t) \/ Clear(t) \/ CycleEnds(t)
      PROVE  Inv'
  BY <1>4, ColdAdmitKeeps, AnswerKeeps, ReceiveKeeps, VisitKeeps, RegisterKeeps, FeedKeeps,
     ChildExitsKeeps, HeirEndsKeeps, ClearKeeps, CycleEndsKeeps
<1>5. CASE UNCHANGED vars
  BY <1>5 DEF vars, mainVars, netVars, taskVars, Inv, TypeOK, GateFirst, DrainLater,
     NoTaskAtBoot, Registered, OnFile, DrainFirst, AtEntry, OverAtExit, Running,
     InventoryComplete, NothingOutlivesDaemon, LiveTask
<1> QED
  BY <1>1, <1>2, <1>3, <1>4, <1>5 DEF Next, Over

LEMMA InitInv == Init => Inv
<1> SUFFICES ASSUME Init PROVE Inv
  OBVIOUS
<1>1. TypeOK
  <2>1. /\ task \in [Tickets -> TaskPC] /\ inbox \in [Tickets -> {"empty", "webhook", "shutdown"}]
        /\ visits \in [Tickets -> 0 .. MaxVisits]
    BY DaemonAssumption DEF Init, TaskPC
  <2>2. channel \in Seq(Tickets) /\ Len(channel) <= ChannelCap
    BY DaemonAssumption DEF Init
  <2>3. step \in 1 .. Len(BootSteps) /\ requests \in 0 .. MaxRequests /\ open \in 0 .. requests
    BY DaemonAssumption, SevenSteps DEF Init
  <2> QED
    BY <2>1, <2>2, <2>3 DEF Init, TypeOK, MainPC
<1>2. GateFirst /\ DrainLater /\ NoTaskAtBoot /\ Registered /\ OnFile
  BY DEF Init, GateFirst, DrainLater, NoTaskAtBoot, Registered, OnFile, LiveTask
<1>3. DrainFirst /\ AtEntry /\ OverAtExit /\ InventoryComplete /\ NothingOutlivesDaemon
  BY DEF Init, DrainFirst, Draining, AtEntry, OverAtExit, Running, InventoryComplete,
     NothingOutlivesDaemon, MainPC
<1> QED
  BY <1>1, <1>2, <1>3 DEF Inv

(* The inductive invariant: what main, the listener, the dispatcher and    *)
(* the ticket tasks know of each other in every phase of run_inner.        *)
THEOREM DaemonInvariant == Spec => []Inv
  BY InitInv, StepKeeps, PTL DEF Spec

(* No task escapes the list of handles that main drains: the dispatcher is *)
(* over when main takes the map, and every live task is on file until then *)
(* (runtime.rs, steps 15 and 16).                                          *)
THEOREM InventoryCompleteHolds == Spec => []InventoryComplete
<1>1. Inv => InventoryComplete
  BY DEF Inv
<1> QED
  BY <1>1, DaemonInvariant, PTL

(* A daemon that returns leaves no child, and reports success only if no   *)
(* registered child was left (runtime.rs, sigkill_offenders).              *)
THEOREM NothingOutlivesDaemonHolds == Spec => []NothingOutlivesDaemon
<1>1. Inv => NothingOutlivesDaemon
  BY DEF Inv
<1> QED
  BY <1>1, DaemonInvariant, PTL

(* No webhook gets to the dispatcher before cold start is over             *)
(* (admit_for_cold_start's assertion, the ready gate).                     *)
THEOREM ColdStartAloneHolds == Spec => []ColdStartAlone
<1>1. Inv => ColdStartAlone
  BY DEF Inv, GateFirst, DrainLater, ColdStartAlone
<1> QED
  BY <1>1, DaemonInvariant, PTL

(* The handle map is handed over complete, from cold start to dispatcher   *)
(* and from dispatcher to main, whatever webhooks and signals come between *)
(* (run_inner).                                                            *)
THEOREM HandleMapPassedOn == Spec => []HandleMapInv
  BY ColdStartAloneHolds, InventoryCompleteHolds, PTL DEF HandleMapInv
================================================================================
