------------------------------- MODULE CommandLine -----------------------------
(***************************************************************************)
(* The roki binary: what each subcommand does with its arguments, the      *)
(* environment a state inherits and roki.toml, while the daemon writes the *)
(* captures and the events that it reads.                                  *)
(***************************************************************************)
EXTENDS LogCommand, EventsCommand

CONSTANT Calls  (* the calls: subcommand, flags, environment, roki.toml    *)

(* What clap and serde let through, as far as its numbers go.  MaxAhead    *)
(* bounds --since as it bounds every cursor.                               *)
ASSUME CallsAssumption ==
  \A c \in Calls :
    /\ c.command = "run" => IsConfigFile(c.config)
    /\ c.command = "events" => c.since \in 0 .. MaxAhead
    /\ c.command = "log" => (Given(c.iter) => c.iter \in Int) /\ (Given(c.tail) => c.tail \in Nat)

cmdVars == <<callVars, logVars, eventsVars>>

Init ==
  /\ call \in Calls /\ pc = "start" /\ exit = Absent
  /\ LogInit /\ EventsInit

(* `roki run` and `roki cleanup`: a file that loads goes to the daemon.    *)
StartDaemon ==
  /\ Is("run") /\ pc = "start"
  /\ IF Load(call.config).ok THEN GoTo("daemon") ELSE Finish(1)

(* `roki workflow`: 1 for a file that does not parse, 2 for one that does  *)
(* not validate; graph then renders what its selector picks, and writes it.*)
WorkflowFile ==
  /\ Is("workflow") /\ pc = "start"
  /\ \/ \E code \in {1, 2} : Finish(code)
     \/ IF call.graph THEN GoTo("render") ELSE Finish(0)

RenderGraph ==
  /\ Is("workflow") /\ pc = "render"
  /\ IF call.selector = "malformed" THEN Finish(1)
     ELSE \E code \in {0, 1} : Finish(code)

(* `roki repo`: ghq get if asked for, then the worktree or else the        *)
(* checkout.  wt and ghq answer as they like.                              *)
StartRepo ==
  /\ Is("repo") /\ pc = "start"
  /\ IF ~Given(Or(call.ghq, call.env.ghq)) \/ ~Given(Or(call.ticket, call.env.ticket))
     THEN Finish(2)
     ELSE GoTo(IF call.autoClone THEN "clone" ELSE "worktree")

GhqGet ==
  /\ Is("repo") /\ pc = "clone"
  /\ GoTo("worktree") \/ Finish(1)

(* worktree::exists: wt answers with the path, without it, or not at all.  *)
FindWorktree ==
  /\ Is("repo") /\ pc = "worktree"
  /\ \E answer \in {"path", "none", "error"} :
       CASE answer = "path" -> Finish(0)
         [] answer = "error" -> Finish(1)
         [] answer = "none" -> IF call.worktree THEN Finish(1) ELSE GoTo("checkout")

ResolveGhqBase ==
  /\ Is("repo") /\ pc = "checkout"
  /\ \E code \in {0, 1} : Finish(code)

Rest == pc \in {"done", "daemon"} /\ UNCHANGED cmdVars

Short == StartDaemon \/ WorkflowFile \/ RenderGraph \/ StartRepo \/ GhqGet
           \/ FindWorktree \/ ResolveGhqBase

Next ==
  \/ Log /\ UNCHANGED eventsVars
  \/ Is("log") /\ Daemon /\ UNCHANGED eventsVars
  \/ Events /\ UNCHANGED logVars
  \/ Short /\ UNCHANGED <<logVars, eventsVars>>
  \/ Rest

Spec == Init /\ [][Next]_cmdVars

(* The loops poll; the daemon answers a request that it neither refuses    *)
(* nor drops.                                                              *)
FairSpec ==
  /\ Spec
  /\ WF_cmdVars((FollowPoll \/ FollowCheck) /\ UNCHANGED eventsVars)
  /\ WF_cmdVars((StartEvents \/ Fetch \/ LogFetch) /\ UNCHANGED logVars)

-----------------------------------------------------------------------------
(* Types. *)
TypeOK ==
  /\ call \in Calls /\ exit \in {Absent, 0, 1, 2} /\ (pc = "done" <=> Given(exit))
  /\ Len(visits) <= MaxVisits /\ chosen \in 0 .. MaxVisits /\ Len(listed) <= MaxVisits
  /\ finished \subseteq 1 .. MaxVisits /\ Len(printed) <= MaxChunks
  /\ \A n \in DOMAIN visits : visits[n].state \in States /\ visits[n].chunks \in 0 .. MaxChunks
  /\ Len(ring) <= EventRingSize /\ lag \in -MaxAhead .. EventRingSize + 1
  /\ outages \in 0 .. MaxOutages /\ backoff \in 0 .. MaxBackoff

(* Settings that the daemon's parts can work with: a queue that holds an   *)
(* escalation, windows and caps that are not zero, a port it can bind, and *)
(* a stall window, unless the cast to u32 lost it.                         *)
Usable(config) ==
  LET s == Load(config).sections IN
  /\ s.queueSize \in 1 .. 1024 /\ s.iterations >= 1 /\ s.window \in 1 .. 600
  /\ s.cadence >= 60 /\ s.token # Empty /\ s.cli # Empty
  /\ Given(s.apiPort) => s.apiPort >= 1
  /\ s.stall = 0 => config.raw.stall >= U32Modulus

(* A daemon starts with no other (RokiConfig::load and what runtime.rs     *)
(* makes of it).                                                           *)
StartsWithUsableSettings == pc = "daemon" => Usable(call.config)

(* A command works on what it was asked for: usable settings, one ticket   *)
(* where it is given names and no paths, and every event of its pages once *)
(* (cli/mod.rs, config/roki.rs, cli/shared/config_resolve.rs,              *)
(* cli/events.rs).                                                         *)
CommandInv == TypeOK /\ StartsWithUsableSettings /\ SameTicketOnly /\ PrintedOnce

(* Once the daemon is silent the command comes to rest: it ends, or it has *)
(* caught up with the ring that its own requests fill (cli/events.rs).     *)
EventsSettle == FilteredEnds /\ PollingKeepsUp
================================================================================
