------------------------------- MODULE LogCommand ------------------------------
(***************************************************************************)
(* `roki log` beside the daemon that writes what it reads: the directories *)
(* of one cycle of one ticket.  The engine numbers the visits of a cycle,  *)
(* opens a directory and two captures for each, and writes the exit code   *)
(* of a state that exits; a state that stalls, or that a signal ends, has  *)
(* none.  The capture is a count of chunks.                                *)
(***************************************************************************)
EXTENDS Invocation

CONSTANTS
  Owner,      (* the ticket whose captures there are                       *)
  States,
  Leads,      (* arguments that are paths, with `..' or from the root, and *)
              (* what each leads to                                        *)
  Pad,        (* the first number that {n:03} leaves as {n} does: 100      *)
  MaxVisits, MaxChunks   (* bounds of the model                            *)

ASSUME LogAssumption ==
  /\ Pad \in Nat \ {0} /\ MaxVisits \in Nat /\ MaxChunks \in Nat
  /\ \A p \in DOMAIN Leads : Leads[p].chunks \in 0 .. MaxChunks

VARIABLES
  visits,    (* the visits of the cycle, in order                          *)
  cycleJson, (* "none", "started", "ended"                                 *)
  evicted,   (* the daemon has deleted the directory of the ticket         *)
  listed,    (* the visits the command saw, latest last                    *)
  chosen,    (* the visit it reads                                         *)
  printed,   (* chunks of that visit's capture on stdout, in order         *)
  finished   (* history: the visits with an exit code when it listed them  *)

diskVars == <<visits, cycleJson, evicted>>
readerVars == <<listed, chosen, printed, finished>>
logVars == <<diskVars, readerVars>>

LogInit ==
  /\ visits = <<>> /\ cycleJson = "none" /\ evicted = FALSE
  /\ listed = <<>> /\ chosen = 0 /\ printed = <<>> /\ finished = {}

-----------------------------------------------------------------------------
(* The daemon: cycle_metadata.rs, capture.rs and the steps of run_state    *)
(* that call it.                                                           *)
Latest == Len(visits)
Over == {"exited", "failed", "unopened"}
Between == \A n \in DOMAIN visits : visits[n].at \in Over

Moves(from, to) ==
  /\ visits # <<>> /\ visits[Latest].at = from
  /\ visits' = [visits EXCEPT ![Latest].at = to]

WriteCycleStart ==
  /\ cycleJson = "none" /\ cycleJson' = "started"
  /\ UNCHANGED <<callVars, visits, evicted, readerVars>>

CreateVisitDir ==
  /\ cycleJson = "started" /\ Between /\ Latest < MaxVisits
  /\ \E s \in States : visits' = Append(visits, [state |-> s, at |-> "dir", chunks |-> 0])
  /\ UNCHANGED <<callVars, cycleJson, evicted, readerVars>>

DrainChunk ==
  /\ visits # <<>> /\ visits[Latest].at = "running" /\ visits[Latest].chunks < MaxChunks
  /\ visits' = [visits EXCEPT ![Latest].chunks = @ + 1]
  /\ UNCHANGED <<callVars, cycleJson, evicted, readerVars>>

(* open_state_files; write_state_exit_code, once both drains have ended;   *)
(* or a failure before either.                                             *)
VisitMoves ==
  /\ \/ Moves("dir", "running") \/ Moves("dir", "unopened")
     \/ Moves("running", "exited") \/ Moves("running", "failed")
  /\ UNCHANGED <<callVars, cycleJson, evicted, readerVars>>

WriteCycleEnd ==
  /\ cycleJson = "started" /\ Between /\ cycleJson' = "ended"
  /\ UNCHANGED <<callVars, visits, evicted, readerVars>>

Evict ==
  /\ cycleJson = "ended" /\ ~evicted /\ evicted' = TRUE
  /\ UNCHANGED <<callVars, visits, cycleJson, readerVars>>

Daemon ==
  \/ WriteCycleStart \/ CreateVisitDir \/ DrainChunk \/ VisitMoves
  \/ WriteCycleEnd \/ Evict

-----------------------------------------------------------------------------
(* Paths: the engine writes visit-{n}, the command looks for visit-{n:03}, *)
(* so a directory whose number needs padding is listed and never found.    *)
VisitDir(n) == [number |-> n, padded |-> n < Pad]
OnDisk(dir) == ~evicted /\ dir.number \in DOMAIN visits /\ ~dir.padded

(* Path::join takes --cycle and --state as they come.  A cycle that is a   *)
(* path leads to the cycle of some ticket.  A state that is one leads to a *)
(* capture outside of this cycle, which is at rest: from the root, or      *)
(* upwards through the visit's directory and down again as many levels, so *)
(* that with_file_name leads there too.                                    *)
IsPath(arg) == arg \in DOMAIN Leads

CycleArg == TicketAndCycle(call, call.env).value.cycle
CycleTicket ==
  IF IsPath(CycleArg) THEN Leads[CycleArg].ticket
  ELSE TicketAndCycle(call, call.env).value.ticket

CycleDir == cycleJson # "none" /\ ~evicted /\ CycleTicket = Owner

HasFile(dir, state, stream) ==
  IF IsPath(state)
  THEN stream \in Leads[state].files /\ (Leads[state].fromRoot \/ OnDisk(dir))
  ELSE /\ OnDisk(dir) /\ visits[dir.number].state = state
       /\ visits[dir.number].at \in
            (IF stream = "exit_code" THEN {"exited"} ELSE {"running", "exited", "failed"})

Sentinel(n) == HasFile(VisitDir(n), call.state, "exit_code")

(* Chunks of the capture from the first, or the last n of them.            *)
Size(n) == IF IsPath(call.state) THEN Leads[call.state].chunks ELSE visits[n].chunks
Chunks(n) == [i \in 1 .. Size(n) |-> i]
LastChunks(s, n) == SubSeq(s, IF n >= Len(s) THEN 1 ELSE Len(s) - n + 1, Len(s))

-----------------------------------------------------------------------------
(* run_capture_inner and resolve_follow_target up to the first read of the *)
(* disk: the code of a refusal, or Absent.                                 *)
Refusal(c) ==
  IF ~SameTicket(c, c.env) THEN 2
  ELSE IF ~SessionRoot(c.env, c.config).ok THEN 1
  ELSE IF ~TicketAndCycle(c, c.env).ok THEN 2
  ELSE IF /\ c.mode \notin {"list", "meta"}
          /\ \/ Absent \in {c.stream, c.state}
             \/ c.mode = "follow" /\ c.stream = "exit_code"
       THEN 2
       ELSE Absent

StartLog ==
  /\ Is("log") /\ pc = "start"
  /\ IF Given(Refusal(call)) THEN Finish(Refusal(call)) ELSE GoTo("dir")
  /\ UNCHANGED logVars

(* --list-visits and --meta.  A directory that is not found has no state   *)
(* and no code, but is listed.                                             *)
Summarise ==
  /\ Is("log") /\ pc = "dir" /\ call.mode \in {"list", "meta"}
  /\ Finish(IF CycleDir THEN 0 ELSE 1)
  /\ UNCHANGED logVars

(* resolve_iter: an absolute visit, or one counted from the last.          *)
Addressed(n) ==
  CASE n > 0 /\ n <= Latest -> n
    [] n < 0 /\ -n <= Latest -> Latest + n + 1
    [] OTHER -> Absent

ListVisits ==
  /\ Is("log") /\ pc = "dir" /\ call.mode \in {"read", "follow"}
  /\ finished' = {n \in DOMAIN visits : Sentinel(n)}
  /\ IF CycleDir /\ visits # <<>> /\ (Given(call.iter) => Given(Addressed(call.iter)))
       THEN /\ listed' = [n \in DOMAIN visits |-> n]
            /\ chosen' = (IF Given(call.iter) THEN Addressed(call.iter) ELSE Latest)
            /\ GoTo(IF Given(call.iter) THEN "open" ELSE "probe")
       ELSE Finish(1) /\ UNCHANGED <<listed, chosen>>
  /\ UNCHANGED <<diskVars, printed>>

(* Mutant of Probe: the directories in ascending order.                    *)
ProbeAscending ==
  /\ Is("log") /\ pc = "probe"
  /\ IF listed # <<>> /\ ~Sentinel(Head(listed))
       THEN listed' = Tail(listed) /\ UNCHANGED <<callVars, chosen>>
       ELSE /\ chosen' = (IF listed = <<>> THEN chosen ELSE Head(listed))
            /\ GoTo("open") /\ UNCHANGED listed
  /\ UNCHANGED <<diskVars, printed, finished>>

(* resolve_iter_for_state: the last one with an exit code of the state, or *)
(* else the last.                                                          *)
Probe ==
  /\ Is("log") /\ pc = "probe"
  /\ IF listed # <<>> /\ ~Sentinel(Last(listed))
       THEN listed' = Front(listed) /\ UNCHANGED <<callVars, chosen>>
       ELSE /\ chosen' = (IF listed = <<>> THEN chosen ELSE Last(listed))
            /\ GoTo("open") /\ UNCHANGED listed
  /\ UNCHANGED <<diskVars, printed, finished>>

(* exists().                                                               *)
Open ==
  /\ Is("log") /\ pc = "open"
  /\ IF HasFile(VisitDir(chosen), call.state, call.stream)
       THEN GoTo(IF call.mode = "follow" THEN "attach" ELSE "read")
       ELSE Finish(1)
  /\ UNCHANGED logVars

(* follow_loop opens the file for itself.                                  *)
Attach ==
  /\ Is("log") /\ pc = "attach"
  /\ IF HasFile(VisitDir(chosen), call.state, call.stream) THEN GoTo("follow") ELSE Finish(1)
  /\ UNCHANGED logVars

(* The file, or its last lines or bytes.                                   *)
ReadStream ==
  /\ Is("log") /\ pc = "read"
  /\ IF HasFile(VisitDir(chosen), call.state, call.stream)
       THEN /\ printed' = (IF call.stream = "exit_code" THEN <<>>
                           ELSE IF Given(call.tail) THEN LastChunks(Chunks(chosen), call.tail)
                           ELSE Chunks(chosen))
            /\ Finish(0)
       ELSE Finish(1) /\ UNCHANGED printed
  /\ UNCHANGED <<diskVars, listed, chosen, finished>>

(* Its loop.  The file stays open when its directory is deleted.        *)
FollowPoll ==
  /\ Is("log") /\ pc = "follow"
  /\ printed' = Chunks(chosen) /\ GoTo("check")
  /\ UNCHANGED <<diskVars, listed, chosen, finished>>

(* Mutant of FollowCheck: ends on the exit code without a last read.       *)
FollowCheckWithoutDrain ==
  /\ Is("log") /\ pc = "check"
  /\ IF Sentinel(chosen) THEN Finish(0) ELSE GoTo("follow")
  /\ UNCHANGED logVars

(* Mutant of FollowCheck: waits for output that comes after the exit code. *)
FollowCheckForOutput ==
  /\ Is("log") /\ pc = "check"
  /\ IF Sentinel(chosen) /\ Len(printed) < Size(chosen)
       THEN Finish(0) ELSE GoTo("follow")
  /\ UNCHANGED logVars

FollowCheck ==
  /\ Is("log") /\ pc = "check"
  /\ IF Sentinel(chosen)
       THEN printed' = Chunks(chosen) /\ Finish(0)
       ELSE GoTo("follow") /\ UNCHANGED printed
  /\ UNCHANGED <<diskVars, listed, chosen, finished>>

Log ==
  \/ StartLog \/ Summarise \/ ListVisits \/ Probe \/ Open \/ Attach \/ ReadStream
  \/ FollowPoll \/ FollowCheck

-----------------------------------------------------------------------------
(* Properties. *)
Following == call.command = "log" /\ call.mode = "follow"

(* A follow that ends has printed the whole capture of a visit that has    *)
(* exited, however its polls fall between the engine's last writes and the *)
(* exit code (follow_loop, real_state_runner steps 15 to 18).              *)
FollowIsComplete ==
  Following /\ Done(0) =>
    /\ printed = Chunks(chosen)
    /\ IsPath(call.state) \/ visits[chosen].at = "exited"

(* Without --iter, the visit read is no older than any visit of the state  *)
(* that had ended, under a name the command can find, when it looked       *)
(* (resolve_iter_for_state; docs/reference/cli.md: latest completed).      *)
ReadsLatestCompleted ==
  call.command = "log" /\ Done(0) /\ call.mode \in {"read", "follow"} /\ ~Given(call.iter)
    => \A n \in finished : chosen >= n

(* Whose capture, summary or metadata a call reads.                        *)
ReadTicket ==
  IF call.mode \in {"read", "follow"} /\ IsPath(call.state)
  THEN Leads[call.state].ticket ELSE CycleTicket

(* With names for its cycle and its state, a state of one ticket reads     *)
(* nothing of another, whichever of the three readers it asks and whatever *)
(* else it passes (enforce_same_ticket): what a call with names can read   *)
(* is in the Owner's directory.                                            *)
SameTicketOnly ==
  call.command = "log" /\ Done(0) /\ ~IsPath(CycleArg) /\ ~IsPath(call.state)
    => call.env.ticket \in {Absent, Owner}

(* "The daemon refuses cross-ticket reads" (docs/fr/09, Scope).            *)
ReadsStayInTicket ==
  call.command = "log" /\ Done(0) => call.env.ticket \in {Absent, ReadTicket}

(* A follow ends once the visit has an exit code, unless the daemon then   *)
(* deletes it.  A visit that stalls or dies of a signal has no exit code,  *)
(* and its follow does not end.                                            *)
FollowEnds ==
  (Following /\ pc \in {"follow", "check"} /\ Sentinel(chosen))
    ~> (pc = "done" \/ evicted)
================================================================================
