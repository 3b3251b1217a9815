------------------------------ MODULE EventsCommand ----------------------------
(***************************************************************************)
(* `roki events` beside the daemon whose ring it pages through, and the    *)
(* file reader of --offline.                                               *)
(*                                                                         *)
(* The daemon may emit without end, so sequence numbers are kept as        *)
(* distances: lag is the number of events after the cursor, at most one    *)
(* more than the ring holds, and negative when the cursor is ahead of the  *)
(* daemon.                                                                 *)
(***************************************************************************)
EXTENDS Invocation, FiniteSets

CONSTANTS
  Kinds,       (* classes of events that filters tell apart                *)
  ApiRequest,  (* the class of the event that a request itself leaves      *)
  EventRingSize, EventPageLimit,
  MaxAhead,    (* bound of the model: how far a cursor is ahead            *)
  MaxOutages   (* bound of the model: requests that fail                   *)

ASSUME EventsAssumption ==
  /\ ApiRequest \in Kinds /\ EventRingSize \in Nat \ {0} /\ EventPageLimit \in Nat \ {0}
  /\ MaxAhead \in Nat /\ MaxOutages \in Nat

VARIABLES
  ring,     (* the classes of the events it holds, oldest first, and how   *)
            (* often each was printed                                      *)
  lag,      (* events after the cursor                                     *)
  atZero,   (* the cursor is 0                                             *)
  noted,    (* gap_reported                                                *)
  backoff,  (* doublings of the delay before the next request              *)
  outages,
  quiet,    (* the daemon has nothing more to report but requests          *)
  missed    (* history: an event this command asked for left the ring      *)
            (* unread, and no marker says so yet                           *)

serverVars == <<ring, quiet>>
cursorVars == <<lag, atZero, noted, backoff, outages>>
eventsVars == <<serverVars, cursorVars, missed>>

Online == call.command = "events" /\ ~call.offline

EventsInit ==
  /\ ring = <<>> /\ quiet = FALSE /\ missed = FALSE
  /\ lag = (IF Online THEN -call.since ELSE 0) /\ atZero = (lag = 0)
  /\ noted = FALSE /\ backoff = 0 /\ outages = 0

-----------------------------------------------------------------------------
(* The daemon. *)
(* Mutant of Unread: the cursor itself is after the cursor.                *)
UnreadFromCursor(i) == i >= Len(ring) - lag /\ ring[i].kind \in call.asked

Unread(i) == i > Len(ring) - lag /\ ring[i].kind \in call.asked

Recorded(kind) ==
  LET entry == [kind |-> kind, shown |-> 0]
      full == Len(ring) = EventRingSize
  IN /\ ring' = (IF full THEN Tail(ring) ELSE ring) \o <<entry>>
     /\ lag' = (IF lag > EventRingSize THEN lag ELSE lag + 1)
     /\ missed' = (missed \/ (full /\ Unread(1)))

Emit(kind) ==
  /\ Online /\ ~quiet /\ pc # "done"
  /\ Recorded(kind)
  /\ UNCHANGED <<callVars, quiet, atZero, noted, backoff, outages>>

Settle ==
  /\ Online /\ ~quiet /\ quiet' = TRUE
  /\ UNCHANGED <<callVars, ring, cursorVars, missed>>

(* The ring of the next daemon is empty and counts from 1 again, wherever  *)
(* the cursor of the command has come to.                                  *)
RestartDaemon ==
  /\ Online /\ ~quiet /\ pc # "done"
  /\ ring' = <<>> /\ missed' = FALSE
  /\ IF atZero THEN lag' = 0 ELSE lag' \in -MaxAhead .. -1
  /\ UNCHANGED <<callVars, quiet, atZero, noted, backoff, outages>>

-----------------------------------------------------------------------------
(* The command. *)
StartEvents ==
  /\ Is("events") /\ pc = "start"
  /\ CASE call.offline /\ (call.tail \/ ~call.file) -> Finish(IF call.tail THEN 2 ELSE 1)
       [] call.offline /\ ~call.tail /\ call.file -> GoTo("lines")
       [] ~call.offline -> \/ ApiUrl(call.api, call.env, call.config).ok /\ GoTo("request")
                           \/ Finish(1)  \* no address, or a filter that does not parse
  /\ UNCHANGED eventsVars

(* Lines of the file are ApiEvents, or are not; the second are skipped.    *)
ReadOffline ==
  /\ Is("events") /\ pc = "lines"
  /\ \E code \in {0, 1} : Finish(code)  \* 1: an I/O error
  /\ UNCHANGED eventsVars

(* EventRing::page.  since is given on every request, 0 to begin with.     *)
GapSeen == ring = <<>> \/ lag > Len(ring)

(* The first unread positions, as many as fit.                             *)
Page ==
  LET found == {i \in DOMAIN ring : Unread(i)}
  IN {i \in found : Cardinality({j \in found : j < i}) < EventPageLimit}

(* What the page prints: the server has applied the filters but the time.  *)
Printed(page) ==
  [i \in DOMAIN ring |->
     IF i \in page /\ ring[i].kind \in call.shown /\ ring[i].shown < 2
     THEN [ring[i] EXCEPT !.shown = @ + 1] ELSE ring[i]]

(* Mutant of Marker: one marker for a run of pages with a gap, as on       *)
(* stderr.                                                                 *)
MarkerOncePerRun == GapSeen /\ ~noted

Marker == GapSeen

(* Mutant of NextCursor: a page with a gap does not move it.               *)
NextCursorWithoutGap(page) ==
  IF page = {} \/ GapSeen THEN UNCHANGED <<lag, atZero>>
  ELSE lag' = Len(ring) - Max(page) /\ atZero' = FALSE

NextCursor(page) ==
  IF page = {} THEN UNCHANGED <<lag, atZero>>
  ELSE lag' = Len(ring) - Max(page) /\ atZero' = FALSE

AfterPage(page) ==
  IF page = {} /\ ~call.tail THEN Finish(0) ELSE GoTo("log")

(* A page, from the handler's read of the ring to the last line printed:   *)
(* what the daemon emits meanwhile only adds to the lag.                   *)
Fetch ==
  /\ Is("events") /\ pc = "request"
  /\ ring' = Printed(Page)
  /\ noted' = GapSeen
  /\ missed' = (missed /\ ~Marker)
  /\ NextCursor(Page) /\ AfterPage(Page)
  /\ backoff' = 0
  /\ UNCHANGED <<quiet, outages>>

(* log_layer: the request is an event, recorded after its page was read    *)
(* and before the next.                                                    *)
LogFetch ==
  /\ Is("events") /\ pc = "log"
  /\ Recorded(ApiRequest) /\ GoTo("request")
  /\ UNCHANGED <<quiet, atZero, noted, backoff, outages>>

(* 408, 429, 5xx or no answer: --tail tries again, later each time.        *)
MaxBackoff == 1
Outage ==
  /\ Is("events") /\ pc = "request"
  /\ outages < MaxOutages /\ outages' = outages + 1
  /\ IF call.tail
       THEN /\ backoff' = (IF backoff = MaxBackoff THEN backoff ELSE backoff + 1)
            /\ UNCHANGED callVars
       ELSE Finish(1) /\ UNCHANGED backoff
  /\ UNCHANGED <<serverVars, lag, atZero, noted, missed>>

(* Any other 4xx. *)
Rejected ==
  /\ Is("events") /\ pc = "request"
  /\ Finish(1) /\ UNCHANGED eventsVars

Events ==
  \/ \E k \in Kinds : Emit(k)
  \/ Settle \/ RestartDaemon
  \/ StartEvents \/ ReadOffline \/ Fetch \/ LogFetch \/ Outage \/ Rejected

-----------------------------------------------------------------------------
(* Properties. *)

(* No event is printed twice, on whatever pages it may be (EventRing::page,*)
(* the cursor of run_online).                                              *)
PrintedOnce == \A i \in DOMAIN ring : ring[i].shown < 2

(* When the ring dropped an event the command asked for, the marker comes  *)
(* on stdout before the next event does, filters or not (run_online).      *)
(* Within one run of the daemon: the next one counts from 1 again.         *)
Prints == \E i \in DOMAIN ring' : i \in DOMAIN ring /\ ring'[i].shown > ring[i].shown
HolesAreMarked == [][pc = "request" /\ pc' # "request" /\ missed /\ Prints => ~missed']_<<eventsVars, callVars>>

(* Without --tail and with a filter that leaves out requests, the command  *)
(* ends once the daemon has nothing to add (run_online: keep paging until  *)
(* next_since is None).                                                    *)
FilteredEnds ==
  (Online /\ ~call.tail /\ ApiRequest \notin call.asked /\ quiet) ~> (pc = "done")

(* The requests of the command fill the ring that it reads.  Once the      *)
(* daemon is silent it comes to a point where they push out nothing        *)
(* unread, even where a page takes no more events than its own request     *)
(* adds (log_layer, run_online).                                           *)
PollingKeepsUp == <>[](Online /\ quiet => ~missed \/ pc = "done")

(* Every call without --tail ends, once the daemon has nothing to add: the *)
(* code says "drain the ring once".                                        *)
EventsEnd == (Online /\ ~call.tail /\ quiet) ~> (pc = "done")
================================================================================
