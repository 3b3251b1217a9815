----------------------------- MODULE StateProcess ------------------------------
(***************************************************************************)
(* One visit of a state: run_state spawns a child process, feeds it its    *)
(* prompt, drains its output, watches it for silence and for the daemon's  *)
(* shutdown, reaps it and says how the visit ended.                        *)
(*                                                                         *)
(* Four parties interleave: run_state itself, the two tasks that drain     *)
(* stdout and stderr, the operating system that delivers signals, and the  *)
(* child, which may do anything a process can: not read its prompt, fill a *)
(* pipe, ignore SIGTERM, print what is not text, or leave a grandchild     *)
(* behind that holds its output open.                                      *)
(*                                                                         *)
(* Time is one flag, "the stall window has passed since the last line".    *)
(* Data in a pipe is counted in chunks of a size nobody needs to know.  An *)
(* error of waitpid itself is left out, and so is what the captures hold.  *)
(***************************************************************************)
EXTENDS Naturals, Sequences

CONSTANTS
  PipeCap,    (* chunks a pipe holds                                       *)
  Prompt,     (* chunks of the rendered stdin body; 0 if there is none     *)
  MaxOutput   (* bound: chunks the child and its heir print in one visit   *)

ASSUME PipeAssumption ==
  /\ PipeCap \in Nat \ {0}
  /\ Prompt \in Nat
  /\ MaxOutput \in Nat

VARIABLES
  pc,          (* where run_state is                                       *)
  prompt,      (* chunks of the prompt still to be written                 *)
  stdin,       (* chunks in the child's stdin pipe                         *)
  child,       (* the process as the kernel sees it                        *)
  reads,       (* the child has its stdin open                             *)
  exit,        (* how the child ended                                      *)
  heir,        (* a grandchild holds the child's stdout and stderr         *)
  signal,      (* strongest signal sent to the child                       *)
  sentinel,    (* what the child wrote to the sentinel file                *)
  pipe,        (* chunks in the output pipes                               *)
  drain,       (* the tasks tee_stdout and drain_stderr                    *)
  printed,     (* chunks printed so far, bounded by MaxOutput              *)
  silent,      (* the stall window has passed since the last stdout line   *)
  shutdown,    (* the shutdown token has fired                             *)
  registered,  (* the child is in the registry of live processes           *)
  cause,       (* why run_state ended the child, if it did                 *)
  result,      (* the StateOutcome returned                                *)
  stalled      (* history: a stall was detected                            *)

world == <<stdin, child, reads, exit, heir, sentinel, pipe, printed>>
vars == <<pc, prompt, world, signal, drain, silent, shutdown, registered, cause,
          result, stalled>>

PCs ==
  {"prepare", "register", "write", "abort", "watch", "grace", "kill", "join",
   "clear", "classify", "returned"}
Streams == {"stdout", "stderr"}
Chunks == {"line", "binary"}
Contents == {"directive", "unknown", "garbled"}
Edges == {"on_done", "on_fail", "directed"}
Failures ==
  {"fs_poison", "template_error", "process_crash", "stall", "unparseable",
   "schema_drift"}

(* Both drains run as soon as the prompt is written. *)
Watching == [s \in Streams |-> "on"]
Ended == {"done", "broken"}

Init ==
  /\ pc = "prepare"
  /\ prompt = Prompt
  /\ stdin = 0
  /\ child = "none"
  /\ reads = TRUE
  /\ exit = "none"
  /\ heir = FALSE
  /\ signal = "none"
  /\ sentinel = "none"
  /\ pipe = [s \in Streams |-> <<>>]
  /\ drain = [s \in Streams |-> "off"]
  /\ printed = 0
  /\ silent = FALSE
  /\ shutdown = FALSE
  /\ registered = FALSE
  /\ cause = "none"
  /\ result = "none"
  /\ stalled = FALSE

-----------------------------------------------------------------------------
(* The child, its heir and the kernel. *)

Quiet == UNCHANGED <<pc, prompt, drain, silent, shutdown, registered, cause,
                     result, stalled>>

Dies(how) == child = "alive" /\ child' = "zombie" /\ exit' = how

ChildReads ==
  /\ child = "alive" /\ reads /\ stdin > 0
  /\ stdin' = stdin - 1
  /\ Quiet
  /\ UNCHANGED <<child, reads, exit, heir, sentinel, pipe, printed, signal>>

ChildClosesStdin ==
  /\ child = "alive" /\ reads
  /\ reads' = FALSE
  /\ Quiet
  /\ UNCHANGED <<stdin, child, exit, heir, sentinel, pipe, printed, signal>>

(* A full pipe blocks the writer: the action is not enabled. *)
Prints(s, chunk) ==
  /\ child = "alive" \/ heir
  /\ drain[s] # "broken"
  /\ printed < MaxOutput
  /\ Len(pipe[s]) < PipeCap
  /\ pipe' = [pipe EXCEPT ![s] = Append(@, chunk)]
  /\ printed' = printed + 1
  /\ Quiet
  /\ UNCHANGED <<stdin, child, reads, exit, heir, sentinel, signal>>

ChildForks ==
  /\ child = "alive" /\ ~heir
  /\ heir' = TRUE
  /\ Quiet
  /\ UNCHANGED <<stdin, child, reads, exit, sentinel, pipe, printed, signal>>

HeirEnds ==
  /\ heir
  /\ heir' = FALSE
  /\ Quiet
  /\ UNCHANGED <<stdin, child, reads, exit, sentinel, pipe, printed, signal>>

WritesSentinel(content) ==
  /\ child = "alive"
  /\ sentinel' = content
  /\ Quiet
  /\ UNCHANGED <<stdin, child, reads, exit, heir, pipe, printed, signal>>

ChildExits(code) ==
  /\ Dies(code)
  /\ Quiet
  /\ UNCHANGED <<stdin, reads, heir, sentinel, pipe, printed, signal>>

(* SIGPIPE, for a stream whose reader gave up; the child may also ignore it. *)
ChildBreaks ==
  /\ \E s \in Streams : drain[s] = "broken"
  /\ Dies("signal")
  /\ Quiet
  /\ UNCHANGED <<stdin, reads, heir, sentinel, pipe, printed, signal>>

(* SIGTERM may be caught, and is then simply ignored or answered by an exit. *)
SignalKills ==
  /\ signal # "none"
  /\ Dies("signal")
  /\ Quiet
  /\ UNCHANGED <<stdin, reads, heir, sentinel, pipe, printed, signal>>

SigkillLands == signal = "kill" /\ SignalKills

Child ==
  \/ ChildReads \/ ChildClosesStdin \/ ChildForks \/ HeirEnds
  \/ \E s \in Streams, chunk \in Chunks : Prints(s, chunk)
  \/ \E content \in Contents : WritesSentinel(content)
  \/ \E code \in {"zero", "nonzero"} : ChildExits(code)
  \/ ChildBreaks \/ SignalKills

Elapse ==
  /\ pc = "watch" /\ ~silent
  /\ silent' = TRUE
  /\ UNCHANGED <<pc, prompt, world, signal, drain, shutdown, registered, cause,
                 result, stalled>>

Fire ==
  /\ ~shutdown
  /\ shutdown' = TRUE
  /\ UNCHANGED <<pc, prompt, world, signal, drain, silent, registered, cause,
                 result, stalled>>

-----------------------------------------------------------------------------
(* The drains: only a whole line of stdout ticks the watchdog, and a chunk *)
(* that is not UTF-8 ends the drain and closes the pipe.                   *)

DrainChunk(s) ==
  /\ drain[s] = "on"
  /\ pipe[s] # <<>>
  /\ IF Head(pipe[s]) = "line"
       THEN /\ pipe' = [pipe EXCEPT ![s] = Tail(@)]
            /\ silent' = (silent /\ s # "stdout")
            /\ drain' = drain
       ELSE /\ pipe' = [pipe EXCEPT ![s] = <<>>]
            /\ drain' = [drain EXCEPT ![s] = "broken"]
            /\ silent' = silent
  /\ UNCHANGED <<pc, prompt, stdin, child, reads, exit, heir, sentinel, printed,
                 signal, shutdown, registered, cause, result, stalled>>

DrainEnds(s) ==
  /\ drain[s] = "on"
  /\ pipe[s] = <<>> /\ child # "alive" /\ ~heir
  /\ drain' = [drain EXCEPT ![s] = "done"]
  /\ UNCHANGED <<pc, prompt, world, signal, silent, shutdown, registered, cause,
                 result, stalled>>

Drain(s) == DrainChunk(s) \/ DrainEnds(s)

-----------------------------------------------------------------------------
(* run_state. *)

(* Steps 1 to 10 and a spawn that fails. *)
PrepareFails(kind) ==
  /\ pc = "prepare"
  /\ pc' = "returned"
  /\ result' = kind
  /\ UNCHANGED <<prompt, world, signal, drain, silent, shutdown, registered, cause,
                 stalled>>

Spawn ==
  /\ pc = "prepare"
  /\ pc' = "register"
  /\ child' = "alive"
  /\ UNCHANGED <<prompt, stdin, reads, exit, heir, sentinel, pipe, printed, signal,
                 drain, silent, shutdown, registered, cause, result, stalled>>

Register ==
  /\ pc = "register"
  /\ pc' = "write"
  /\ registered' = TRUE
  /\ UNCHANGED <<prompt, world, signal, drain, silent, shutdown, cause, result,
                 stalled>>

HasReader == child = "alive" /\ reads

FeedPrompt ==
  /\ pc = "write"
  /\ prompt > 0 /\ HasReader /\ stdin < PipeCap
  /\ prompt' = prompt - 1
  /\ stdin' = stdin + 1
  /\ UNCHANGED <<pc, child, reads, exit, heir, sentinel, pipe, printed, signal,
                 drain, silent, shutdown, registered, cause, result, stalled>>

(* Mutant of WriteFails: the registry forgets the child before it is reaped. *)
WriteFailsUnregistered ==
  /\ pc = "write"
  /\ prompt > 0 /\ ~HasReader
  /\ pc' = "abort"
  /\ signal' = "kill"
  /\ cause' = "stdin"
  /\ registered' = FALSE
  /\ UNCHANGED <<prompt, world, drain, silent, shutdown, result, stalled>>

(* EPIPE: start_kill. *)
WriteFails ==
  /\ pc = "write"
  /\ prompt > 0 /\ ~HasReader
  /\ pc' = "abort"
  /\ signal' = "kill"
  /\ cause' = "stdin"
  /\ UNCHANGED <<prompt, world, drain, silent, shutdown, registered, result, stalled>>

StartDrains ==
  /\ pc = "write"
  /\ prompt = 0
  /\ pc' = "watch"
  /\ drain' = Watching
  /\ UNCHANGED <<prompt, world, signal, silent, shutdown, registered, cause, result,
                 stalled>>

(* try_wait or wait finds the child dead. *)
Reap(from, to) ==
  /\ pc = from
  /\ child = "zombie"
  /\ child' = "reaped"
  /\ pc' = to
  /\ UNCHANGED <<prompt, stdin, reads, exit, heir, sentinel, pipe, printed, signal,
                 drain, silent, shutdown, registered, result, stalled>>

Abort == Reap("abort", "clear") /\ UNCHANGED cause

Healthy == Reap("watch", "join") /\ UNCHANGED cause

Sigterm == signal' = IF signal = "kill" THEN "kill" ELSE "term"

(* The window has passed: terminate_child, called by the watchdog. *)
Stall ==
  /\ pc = "watch"
  /\ child # "zombie" /\ silent
  /\ pc' = "grace"
  /\ Sigterm
  /\ cause' = "stall"
  /\ stalled' = TRUE
  /\ UNCHANGED <<prompt, world, drain, silent, shutdown, registered, result>>

(* The other arm of the select: it drops the watchdog, even one that waits *)
(* for a stalled child to end, and terminates the child in its own name.   *)
Preempt ==
  /\ shutdown
  /\ \/ pc = "watch"
     \/ pc \in {"grace", "kill"} /\ cause = "stall"
  /\ pc' = "grace"
  /\ Sigterm
  /\ cause' = "shutdown"
  /\ UNCHANGED <<prompt, world, drain, silent, shutdown, registered, result, stalled>>

GraceEnds == Reap("grace", "join") /\ UNCHANGED cause

(* Mutant of GraceExpires: SIGTERM again. *)
GraceExpiresPolitely ==
  /\ pc = "grace"
  /\ child = "alive"
  /\ pc' = "kill"
  /\ Sigterm
  /\ UNCHANGED <<prompt, world, drain, silent, shutdown, registered, cause, result,
                 stalled>>

GraceExpires ==
  /\ pc = "grace"
  /\ child = "alive"
  /\ pc' = "kill"
  /\ signal' = "kill"
  /\ UNCHANGED <<prompt, world, drain, silent, shutdown, registered, cause, result,
                 stalled>>

KillEnds == Reap("kill", "join") /\ UNCHANGED cause

JoinDrains ==
  /\ pc = "join"
  /\ \A s \in Streams : drain[s] \in Ended
  /\ pc' = "clear"
  /\ UNCHANGED <<prompt, world, signal, drain, silent, shutdown, registered, cause,
                 result, stalled>>

Clear ==
  /\ pc = "clear"
  /\ pc' = "classify"
  /\ registered' = FALSE
  /\ UNCHANGED <<prompt, world, signal, drain, silent, shutdown, cause, result,
                 stalled>>

(* Steps 16 to 20; the sentinel file may turn out to be unreadable. *)
Verdict(r) ==
  CASE cause = "stdin" -> r = "process_crash"
    [] cause = "stall" -> r = "stall"
    [] OTHER ->
         IF exit = "signal" THEN r = "process_crash"
         ELSE \/ r = "fs_poison"
              \/ sentinel = "garbled" /\ r = "unparseable"
              \/ sentinel = "unknown" /\ r = "schema_drift"
              \/ sentinel = "directive" /\ r = "directed"
              \/ sentinel = "none" /\ exit = "zero" /\ r = "on_done"
              \/ sentinel = "none" /\ exit = "nonzero" /\ r = "on_fail"

Classify ==
  /\ pc = "classify"
  /\ pc' = "returned"
  /\ \E r \in Edges \cup Failures : Verdict(r) /\ result' = r
  /\ UNCHANGED <<prompt, world, signal, drain, silent, shutdown, registered, cause,
                 stalled>>

Start == Spawn \/ \E k \in {"fs_poison", "template_error", "process_crash"} : PrepareFails(k)

Runner ==
  \/ Start \/ Register \/ FeedPrompt \/ WriteFails \/ StartDrains \/ Abort
  \/ Healthy \/ Stall \/ Preempt \/ GraceEnds \/ GraceExpires \/ KillEnds
  \/ JoinDrains \/ Clear \/ Classify

Rest == pc = "returned" /\ UNCHANGED vars

Next == Child \/ Elapse \/ Fire \/ (\E s \in Streams : Drain(s)) \/ Runner \/ Rest

Spec == Init /\ [][Next]_vars

(* The executor schedules run_state and the drains, SIGKILL is delivered,  *)
(* and time passes.  Nothing is assumed of the child or of a grandchild.   *)
FairSpec ==
  /\ Spec
  /\ WF_vars(Runner) /\ WF_vars(SigkillLands) /\ WF_vars(Elapse)
  /\ \A s \in Streams : WF_vars(Drain(s))

-----------------------------------------------------------------------------
(* Properties. *)

TypeOK ==
  /\ pc \in PCs
  /\ prompt \in Nat
  /\ stdin \in 0 .. PipeCap
  /\ child \in {"none", "alive", "zombie", "reaped"}
  /\ reads \in BOOLEAN
  /\ exit \in {"none", "zero", "nonzero", "signal"}
  /\ heir \in BOOLEAN
  /\ signal \in {"none", "term", "kill"}
  /\ sentinel \in {"none"} \cup Contents
  /\ pipe \in [Streams -> Seq(Chunks)]
  /\ drain \in [Streams -> {"off", "on"} \cup Ended]
  /\ printed \in Nat
  /\ silent \in BOOLEAN
  /\ shutdown \in BOOLEAN
  /\ registered \in BOOLEAN
  /\ cause \in {"none", "stdin", "stall", "shutdown"}
  /\ result \in {"none"} \cup Edges \cup Failures
  /\ stalled \in BOOLEAN

(* The registry of live processes, from which the shutdown drain names and *)
(* kills those that are left, misses no child: it holds each one from the  *)
(* moment it can be told of until after it is reaped, on every error path. *)
LiveChildRegistered ==
  child \in {"alive", "zombie"} /\ pc # "register" => registered

(* A visit returns nothing but a result: no live process, no zombie and no *)
(* entry in the registry is left, however the child and the visit ended.   *)
NothingLeftBehind ==
  pc = "returned" => child \in {"none", "reaped"} /\ ~registered

(* A stall trumps everything else, also a child that uses the grace period *)
(* to exit properly; only a shutdown that fires before the child is gone   *)
(* takes the case over.  Nothing else is ever reported as a stall.         *)
StallTrumps ==
  pc = "returned" =>
    /\ stalled /\ ~shutdown => result = "stall"
    /\ result = "stall" => stalled

(* By the time a visit is judged everything that the child, or a process   *)
(* it left behind, printed to a readable stream has been captured.         *)
CaptureComplete ==
  pc \in {"clear", "classify", "returned"} /\ exit # "none" /\ cause # "stdin" =>
    \A s \in Streams : drain[s] \in Ended /\ pipe[s] = <<>>

(* What run_state knows of the child at each of its positions. *)
ChildAtPhase ==
  /\ pc = "prepare" => child = "none"
  /\ pc \in {"register", "write", "abort", "watch", "grace", "kill"} =>
       child \in {"alive", "zombie"}
  /\ pc \in {"join", "clear", "classify"} => child = "reaped"
  /\ pc = "returned" => child \in {"none", "reaped"}
  /\ exit = "none" <=> child \in {"none", "alive"}
  /\ registered <=>
       pc \in {"write", "abort", "watch", "grace", "kill", "join", "clear"}

CauseAtPhase ==
  /\ pc \in {"prepare", "register", "write", "watch"} => cause = "none"
  /\ pc = "abort" => cause = "stdin"
  /\ pc \in {"grace", "kill", "join"} => cause # "stdin"
  /\ stalled => cause \in {"stall", "shutdown"}
  /\ cause = "stall" => stalled
  /\ cause = "shutdown" => shutdown

(* A drain that ended has emptied its pipe, and nobody is left to refill it. *)
DrainAtPhase ==
  /\ pc \in {"watch", "grace", "kill", "join"} => \A s \in Streams : drain[s] # "off"
  /\ \A s \in Streams :
       /\ drain[s] = "done" => pipe[s] = <<>> /\ child # "alive" /\ ~heir
       /\ drain[s] = "broken" => pipe[s] = <<>>
       /\ drain[s] # "off" => child # "none"

(* The safety properties of a visit, made inductive. *)
VisitInv ==
  /\ TypeOK
  /\ ChildAtPhase
  /\ CauseAtPhase
  /\ DrainAtPhase
  /\ StallTrumps
  /\ CaptureComplete

(* The child does not take the rest of its prompt. *)
PromptStuck == pc = "write" /\ child = "alive" /\ reads /\ stdin = PipeCap

(* A visit returns, whatever the child does with signals and pipes, unless *)
(* it never takes its prompt or leaves a process behind that never closes  *)
(* its output: those two the watchdog does not reach.                      *)
ReturnsUnlessHeld ==
  <>(pc = "returned") \/ <>[](heir \/ PromptStuck)
=============================================================================
