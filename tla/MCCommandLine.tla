----------------------------- MODULE MCCommandLine -----------------------------
(* Calls of each subcommand: log and events with the flags that change what *)
(* they wait for, run with a roki.toml that is wrong in one place.          *)
EXTENDS CommandLine

CONSTANTS Stranger, OneCycle, OneRepo, OneRoot, OneUrl, Across, Outward, Sideways

NoEnv == [root |-> Absent, api |-> Absent, ticket |-> Absent, cycle |-> Absent,
          ghq |-> Absent]
StateEnv(ticket) ==
  [root |-> OneRoot, api |-> OneUrl, ticket |-> ticket, cycle |-> OneCycle, ghq |-> OneRepo]

NoApi == [bind |-> Absent, port |-> Absent, ticketWindow |-> Absent, cycleWindow |-> Absent]
Raw ==
  [ cadence |-> Absent, token |-> Literal("token"), secret |-> Absent,
    hookBind |-> "address", hookPort |-> 0, cli |-> "cli", stall |-> Absent,
    sessionRoot |-> "sessions", storePath |-> Absent, workflow |-> "workflow",
    iterations |-> Absent, window |-> Absent, ringSize |-> Absent,
    queueSize |-> Absent, api |-> NoApi ]
Toml(raw) == [kind |-> "toml", raw |-> raw]
Serving == Toml([Raw EXCEPT !.api.port = 8080])

Raws ==
  {Raw}
  \cup {[Raw EXCEPT !.cadence = n] : n \in {59, 60}}
  \cup {[Raw EXCEPT !.token = t] : t \in {Absent, Literal(Empty), Tagged("token", Absent),
                                          Tagged(Absent, Unresolvable), Tagged("a", "b")}}
  \cup {[Raw EXCEPT !.secret = t] : t \in {Literal("secret"), Tagged(Absent, Absent)}}
  \cup {[Raw EXCEPT !.cli = c] : c \in {Absent, Empty}}
  \cup {[Raw EXCEPT !.stall = n] : n \in {0, 1, U32Modulus, U32Modulus + 1}}
  \cup {[Raw EXCEPT !.window = n] : n \in {0, 600, 601}}
  \cup {[Raw EXCEPT !.iterations = n] : n \in {0, 1}}
  \cup {[Raw EXCEPT !.queueSize = n] : n \in {0, 1, 1024, 1025}}
  \cup {[Raw EXCEPT !.api.port = n] : n \in {0, 1}}
  \cup {[Raw EXCEPT !.api.cycleWindow = n] : n \in {0, 500, 501}}
  \cup {[Raw EXCEPT !.api.bind = "not an address"], [Raw EXCEPT !.workflow = Absent]}

Configs == {[kind |-> k] : k \in {"missing", "unreadable", "malformed"}}
             \cup {Toml(r) : r \in Raws}

RunCalls == [command : {"run"}, config : Configs]

(* From a state, from a shell with a roki.toml, and with something missing. *)
Follow ==
  [ command |-> "log", mode |-> "follow", ticket |-> Absent, cycle |-> Absent,
    state |-> CHOOSE s \in States : TRUE, iter |-> Absent, tail |-> Absent,
    stream |-> "stdout", env |-> StateEnv(Owner), config |-> Absent ]

LogCalls ==
  {[Follow EXCEPT !.iter = n] : n \in {Absent, -1, 0, 2}}
  \cup {[Follow EXCEPT !.mode = "read", !.iter = n] : n \in {Absent, -1}}
  \cup {[Follow EXCEPT !.mode = m] : m \in {"list", "meta"}}
  \cup {[Follow EXCEPT !.mode = m, !.stream = f] :
           m \in {"read", "follow"}, f \in {Absent, "exit_code"}}
  \cup {[Follow EXCEPT !.mode = "read", !.tail = 1], [Follow EXCEPT !.state = Absent]}
  \cup {[Follow EXCEPT !.mode = "read", !.iter = 2, !.ticket = t, !.cycle = OneCycle,
                       !.env = e, !.config = f] :
           t \in {Absent, Owner, Stranger}, e \in {NoEnv, StateEnv(Owner), StateEnv(Stranger)},
           f \in {Absent, Serving}}

(* Of another ticket, from the root; of another cycle of the same one, whose *)
(* state still runs.                                                        *)
SmallLeads ==
  [p \in {Across, Outward, Sideways} |->
     [ticket |-> IF p = Outward THEN Stranger ELSE Owner, fromRoot |-> p = Outward,
      files |-> IF p = Sideways THEN {"stdout"} ELSE {"stdout", "exit_code"}, chunks |-> 1]]

PathCalls ==
  {[Follow EXCEPT !.mode = m, !.cycle = Across, !.env = StateEnv(Stranger)] :
     m \in {"read", "follow", "meta"}}
  \cup {[Follow EXCEPT !.mode = m, !.state = p] :
          m \in {"read", "follow"}, p \in {Outward, Sideways}}

OnlineCalls ==
  [command : {"events"}, offline : {FALSE}, tail : BOOLEAN, file : {FALSE},
   api : {OneUrl}, since : {0, 2}, asked : {{"asked"}, {"asked", "stale"}, Kinds},
   shown : {{"asked"}, Kinds}, env : {NoEnv}, config : {Absent}]

EventsCalls ==
  {c \in OnlineCalls : c.shown = {"asked"} <=> c.asked # Kinds}
  \cup [command : {"events"}, offline : BOOLEAN, tail : {FALSE}, file : BOOLEAN,
        api : {Absent}, since : {0}, asked : {{"asked"}}, shown : {{"asked"}},
        env : {NoEnv, StateEnv(Owner)}, config : {Absent, Serving, Toml(Raw)}]
  \cup [command : {"events"}, offline : {TRUE}, tail : {TRUE}, file : {TRUE},
        api : {Absent}, since : {0}, asked : {{"asked"}}, shown : {{"asked"}},
        env : {NoEnv}, config : {Absent}]

WorkflowCalls ==
  [command : {"workflow"}, graph : BOOLEAN, selector : {"rules", "malformed"}]

RepoCalls ==
  [command : {"repo"}, ghq : {Absent, OneRepo}, ticket : {Absent, Owner},
   worktree : BOOLEAN, autoClone : BOOLEAN, env : {NoEnv, StateEnv(Owner)}]

SmallCalls == RunCalls \cup LogCalls \cup PathCalls \cup EventsCalls \cup WorkflowCalls \cup RepoCalls
================================================================================
