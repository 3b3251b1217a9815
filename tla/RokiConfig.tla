------------------------------- MODULE RokiConfig ------------------------------
(***************************************************************************)
(* roki.toml: what RokiConfig::load makes of a file, and the values the    *)
(* commands resolve from their flags, their environment and that file.    *)
(* Strings, paths and addresses are members of small sets; a number keeps  *)
(* its bounds.                                                             *)
(***************************************************************************)
EXTENDS Integers, Sequences, SequencesExt

CONSTANTS
  Absent,     (* a key, a flag or a variable that is not given             *)
  U32Modulus  (* stall_seconds is read as i64 and cast: 2^32               *)

(* The default of stall_seconds, 300, survives the cast. *)
ASSUME ConfigAssumption == Absent \notin Int /\ U32Modulus \in Nat /\ U32Modulus > 300

Given(x) == x # Absent
Or(x, default) == IF Given(x) THEN x ELSE default

-----------------------------------------------------------------------------
(* Secrets: a literal, { env = .. } or { file = .. }.                      *)
Literal(s) == [literal |-> s]
Tagged(env, file) == [env |-> env, file |-> file]

(* The variable is not set, or the file cannot be read.                    *)
Unresolvable == "unresolvable"
Empty == ""

(* resolve_secret: exactly one source, and one that answers.               *)
SecretResolves(raw) ==
  \/ "literal" \in DOMAIN raw
  \/ /\ Given(raw.env) # Given(raw.file)
     /\ Unresolvable \notin {raw.env, raw.file}

Secret(raw) ==
  IF "literal" \in DOMAIN raw THEN raw.literal ELSE Or(raw.env, raw.file)

-----------------------------------------------------------------------------
(* RawRokiConfig: what TOML deserializes to.  The numbers that are checked *)
(* are numbers, a negative one of stall_seconds included.                  *)
IsRawConfig(raw) ==
  \A x \in {raw.cadence, raw.stall, raw.iterations, raw.window, raw.queueSize,
            raw.api.port, raw.api.ticketWindow, raw.api.cycleWindow} :
    Given(x) => x \in Int

IsConfigFile(file) ==
  /\ file.kind \in {"missing", "unreadable", "malformed", "toml"}
  /\ file.kind = "toml" => IsRawConfig(file.raw)

-----------------------------------------------------------------------------
(* RawRokiConfig::validate: the checks, in the order of the code; the      *)
(* first that fails names the key.                                         *)
Check(key, error, holds) == [key |-> key, error |-> error, holds |-> holds]
Ranged(key, x, lo, hi) ==
  Check(key, "TypeMismatch", Given(x) => lo <= x /\ x <= hi)
AtLeast(key, x, lo) == Check(key, "TypeMismatch", Given(x) => x >= lo)
Required(key, x) == Check(key, "MissingField", Given(x))
NonEmpty(key, x) == Check(key, "MissingField", Given(x) /\ x # Empty)

ApiChecks(api) ==
  << Check("api.bind", "TypeMismatch", Or(api.bind, "127.0.0.1") # "not an address"),
     AtLeast("api.port", api.port, 1),
     Ranged("api.ticket_events_window", api.ticketWindow, 1, 500),
     Ranged("api.cycle_list_window", api.cycleWindow, 1, 500) >>

QueueChecks(raw) == <<Ranged("escalation.queue_size", raw.queueSize, 1, 1024)>>

EngineChecks(raw) ==
  << AtLeast("engine.max_iterations", raw.iterations, 1),
     Ranged("engine.shutdown_window_seconds", raw.window, 1, 600) >>

SecretChecks(raw) ==
  << Required("linear.token", raw.token),
     Check("linear.token", "SourceResolve", Given(raw.token) => SecretResolves(raw.token)),
     Check("linear.token", "MissingField",
           Given(raw.token) /\ SecretResolves(raw.token) => Secret(raw.token) # Empty),
     Check("linear.webhook.secret", "SourceResolve",
           Given(raw.secret) => SecretResolves(raw.secret)) >>

Checks(raw) ==
  <<AtLeast("linear.polling.cadence_seconds", raw.cadence, 60)>>
  \o SecretChecks(raw)
  \o << NonEmpty("linear.webhook.bind", raw.hookBind),
        Required("linear.webhook.port", raw.hookPort),
        AtLeast("default.stall_seconds", raw.stall, 1),
        NonEmpty("default.cli", raw.cli),
        Required("paths.session_root", raw.sessionRoot),
        Required("paths.workflow", raw.workflow) >>
  \o EngineChecks(raw) \o QueueChecks(raw) \o ApiChecks(raw.api)

(* The sections of a file that passed them.                                *)
Sections(raw) ==
  [ cadence |-> Or(raw.cadence, 300),
    token |-> Secret(raw.token),
    hookBind |-> raw.hookBind, hookPort |-> raw.hookPort,
    cli |-> raw.cli, stall |-> Or(raw.stall, 300) % U32Modulus,
    sessionRoot |-> raw.sessionRoot,
    storePath |-> Or(raw.storePath, <<raw.sessionRoot, "roki.db">>),
    workflow |-> raw.workflow,
    iterations |-> Or(raw.iterations, 10), window |-> Or(raw.window, 30),
    ringSize |-> Or(raw.ringSize, 1000), queueSize |-> Or(raw.queueSize, 64),
    apiBind |-> Or(raw.api.bind, "127.0.0.1"), apiPort |-> raw.api.port,
    ticketWindow |-> Or(raw.api.ticketWindow, 50),
    cycleWindow |-> Or(raw.api.cycleWindow, 50) ]

Failed(error, key) == [ok |-> FALSE, error |-> error, key |-> key]

(* A file is missing, unreadable or malformed, or has a raw shape.         *)
Load(file) ==
  CASE file.kind = "missing" -> Failed("MissingFile", Absent)
    [] file.kind = "unreadable" -> Failed("Unreadable", Absent)
    [] file.kind = "malformed" -> Failed("Parse", Absent)
    [] file.kind = "toml" ->
         LET checks == Checks(file.raw)
             broken == {i \in DOMAIN checks : ~checks[i].holds}
         IN IF broken = {} THEN [ok |-> TRUE, sections |-> Sections(file.raw)]
            ELSE Failed(checks[Min(broken)].error, checks[Min(broken)].key)

-----------------------------------------------------------------------------
(* cli/shared/config_resolve.rs: a result, or the error and its exit code. *)
Resolved(v) == [ok |-> TRUE, value |-> v]
Refused(code) == [ok |-> FALSE, code |-> code]

SessionRoot(env, config) ==
  IF Given(env.root) THEN Resolved(env.root)
  ELSE IF Given(config) /\ Load(config).ok
    THEN Resolved(Load(config).sections.sessionRoot)
    ELSE Refused(1)

ApiUrl(flag, env, config) ==
  CASE Given(flag) -> Resolved(flag)
    [] ~Given(flag) /\ Given(env.api) -> Resolved(env.api)
    [] OTHER -> IF Given(config) /\ Load(config).ok
                   /\ Given(Load(config).sections.apiPort)
                THEN Resolved(<<Load(config).sections.apiBind,
                                Load(config).sections.apiPort>>)
                ELSE Refused(1)

TicketAndCycle(args, env) ==
  IF Given(Or(args.ticket, env.ticket)) /\ Given(Or(args.cycle, env.cycle))
  THEN Resolved([ticket |-> Or(args.ticket, env.ticket),
                 cycle |-> Or(args.cycle, env.cycle)])
  ELSE Refused(2)

SameTicket(args, env) ==
  Given(args.ticket) /\ Given(env.ticket) => args.ticket = env.ticket
================================================================================
