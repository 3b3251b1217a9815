---------------------------------- MODULE Tui ----------------------------------
(***************************************************************************)
(* The terminal UI beside the daemon it watches: four pollers and the      *)
(* refresh request ask the API over a network that may fail, and send what *)
(* comes back into one bounded channel, as the keys are; the App takes one *)
(* update at a time.                                                       *)
(*                                                                         *)
(* The pollers touch only the channel, so a behaviour exercises one group  *)
(* of them (scene): their interleavings add up instead of multiplying.     *)
(***************************************************************************)
EXTENDS EventLog

CONSTANTS
  Scenes,        (* sets of the sources below                              *)
  Talkers,       (* bound: the tickets that emit events of their own       *)
  ChannelSize,   (* capacity of the updates channel, 64                    *)
  MaxRows,       (* rows the events view keeps, 1000                       *)
  MaxKeys        (* bound: keys pressed                                    *)

Sources == {"tickets", "events", "escalations", "detail", "refresh"}
Keys == {"enter", "down", "up", "r", "a", "1", "4", "q"}

ASSUME TuiAssumption ==
  /\ \A s \in Scenes : s \subseteq Sources
  /\ Talkers \subseteq Tickets /\ ChannelSize \in Nat \ {0} /\ MaxRows \in Nat \ {0}

VARIABLES
  scene,
  at,       (* per source: "idle", "asked", "acked" or "answered"          *)
  answer,   (* what it was answered                                        *)
  cursor,   (* last_seq of the events poller                               *)
  wanted,   (* the watch channel of the focused ticket                     *)
  channel, keys, running,
  view,     (* the focused view                                            *)
  rows,     (* of the tickets view, the events view, the escalations view  *)
  selected, (* in the tickets view, in the escalations view                *)
  gapPending, acked, shown, refresh

Failed == [error |-> 0]
Nothing == [none |-> TRUE]
IsError(a) == "error" \in DOMAIN a

pollVars == <<scene, at, answer, cursor>>
viewVars == <<view, rows, selected, gapPending, acked, shown, refresh, wanted>>
vars == <<eventLogVars, pollVars, channel, keys, running, viewVars>>

Init ==
  /\ EventLogInit
  /\ scene \in Scenes
  /\ at = [s \in Sources |-> "idle"] /\ answer = [s \in Sources |-> Nothing]
  /\ cursor = Anything /\ wanted = Anything
  /\ channel = <<>> /\ keys = 0 /\ running = TRUE
  /\ view = "tickets"
  /\ rows = [tickets |-> <<>>, events |-> <<>>, escalations |-> <<>>]
  /\ selected = [tickets |-> 1, escalations |-> 1]
  /\ gapPending = FALSE /\ acked = {}
  /\ shown = [ticket |-> Anything, detail |-> Nothing]
  /\ refresh = "idle"

-----------------------------------------------------------------------------
(* Requests are logged, a step of its own, where the scene shows events.   *)
Logging == "events" \in scene
Logged(kind) == IF Logging THEN LogRequest(kind) ELSE UNCHANGED logVars

(* Pollers: ask, wait for the answer, send it, sleep. *)
Ask(s, a) ==
  /\ running /\ s \in scene /\ at[s] = "idle"
  /\ at' = [at EXCEPT ![s] = IF Logging THEN "asked" ELSE "answered"] /\ answer' = [answer EXCEPT ![s] = a]
  /\ UNCHANGED <<eventLogVars, scene, cursor, channel, keys, running, viewVars>>

(* The daemon's answers, computed when the request reaches its handler.    *)
AskTickets == Ask("tickets", [list |-> recency])
AskEvents == Ask("events", RingPage(cursor, Anything, Anything, PageLimit))
AskEscalations == Ask("escalations", [list |-> queue])
AskDetail == wanted # Anything /\ Ask("detail", TicketDetail(wanted))

(* The refresh handler announces the nudge before it answers.              *)
AnnounceNudge ==
  /\ at["refresh"] = "asked"
  /\ at' = [at EXCEPT !["refresh"] = "acked"]
  /\ Logged("refresh_nudge_acknowledged")
  /\ UNCHANGED <<escalationVars, recency, scene, answer, cursor, channel, keys, running, viewVars>>

Answer(s) ==
  /\ at[s] = (IF s = "refresh" THEN "acked" ELSE "asked")
  /\ at' = [at EXCEPT ![s] = "answered"]
  /\ Logged("api_request")
  /\ UNCHANGED <<escalationVars, recency, scene, answer, cursor, channel, keys, running, viewVars>>

(* No answer within five seconds, none at all, or one that does not parse. *)
Lose(s) ==
  /\ at[s] # "idle" /\ answer[s] # Failed /\ faults < MaxFaults /\ faults' = faults + 1
  /\ at' = [at EXCEPT ![s] = "answered"] /\ answer' = [answer EXCEPT ![s] = Failed]
  /\ UNCHANGED <<boot, emitted, file, buffer, unstored, store, ring, nextSeq, escalationVars,
                 recency, scene, cursor, channel, keys, running, viewVars>>

NextCursor(a) == IF IsError(a) \/ a.nextSince = Anything THEN cursor ELSE a.nextSince

Deliver(s) ==
  /\ at[s] = "answered" /\ Len(channel) < ChannelSize
  /\ channel' = Append(channel, [source |-> s, body |-> answer[s]])
  /\ cursor' = IF s = "events" THEN NextCursor(answer[s]) ELSE cursor
  /\ at' = [at EXCEPT ![s] = "idle"] /\ answer' = [answer EXCEPT ![s] = Nothing]
  /\ UNCHANGED <<eventLogVars, scene, keys, running, viewVars>>

(* The keys a scene has a use for.                                         *)
Useful(k) ==
  CASE k \in {"enter", "1"} -> "detail" \in scene
    [] k \in {"a", "4", "up", "down"} -> "escalations" \in scene
    [] k \in {"r", "q"} -> "refresh" \in scene

Press(k) ==
  /\ Useful(k) /\ running /\ keys < MaxKeys /\ keys' = keys + 1 /\ Len(channel) < ChannelSize
  /\ channel' = Append(channel, [source |-> "key", body |-> k])
  /\ UNCHANGED <<eventLogVars, pollVars, running, viewVars>>

-----------------------------------------------------------------------------
(* Reducers. *)

Clamped(i, n) == IF n = 0 THEN 1 ELSE IF i > n THEN n ELSE i
Key(e) == e.ticket  (* AckKey: all but the time and the text               *)

LastRows(s) == IF Len(s) > MaxRows THEN SubSeq(s, Len(s) - MaxRows + 1, Len(s)) ELSE s

MergePage(page) ==
  /\ rows' = [rows EXCEPT !.events = LastRows(@ \o page.events)]
  /\ gapPending' = (page.gap \/ (gapPending /\ page.nextSince = Anything))
  /\ UNCHANGED <<view, selected, acked, shown, refresh, wanted>>

ApplyTickets(list) ==
  /\ rows' = [rows EXCEPT !.tickets = list]
  /\ selected' = [selected EXCEPT !.tickets = Clamped(@, Len(list))]
  /\ UNCHANGED <<view, gapPending, acked, shown, refresh, wanted>>

ApplyEscalations(list) ==
  /\ rows' = [rows EXCEPT !.escalations = list]
  /\ selected' = [selected EXCEPT !.escalations = Clamped(@, Len(list))]
  /\ acked' = acked \cap {Key(e) : e \in ToSet(list)}
  /\ UNCHANGED <<view, gapPending, shown, refresh, wanted>>

(* The detail is taken for that of the ticket on show, whatever it says.   *)
ApplyDetail(d) ==
  /\ shown' = [shown EXCEPT !.detail = d]
  /\ UNCHANGED <<view, rows, selected, gapPending, acked, refresh, wanted>>

ApplyRefreshAck ==
  /\ refresh' = "debounced"
  /\ UNCHANGED <<view, rows, selected, gapPending, acked, shown, wanted>>

(* Mutant of ApplyError: every failed poll ends the refresh.               *)
ApplyAnyError(s) ==
  /\ refresh' = "idle"
  /\ UNCHANGED <<view, rows, selected, gapPending, acked, shown, wanted>>

(* Mutant of ApplyError: a refresh that failed is not over.                *)
ApplyErrorQuietly(s) == UNCHANGED viewVars

ApplyError(s) ==
  /\ refresh' = IF s = "refresh" THEN "idle" ELSE refresh
  /\ UNCHANGED <<view, rows, selected, gapPending, acked, shown, wanted>>

Apply(u) ==
  CASE IsError(u.body) -> ApplyError(u.source)
    [] ~IsError(u.body) /\ u.source = "tickets" -> ApplyTickets(u.body.list)
    [] ~IsError(u.body) /\ u.source = "events" -> MergePage(u.body)
    [] ~IsError(u.body) /\ u.source = "escalations" -> ApplyEscalations(u.body.list)
    [] ~IsError(u.body) /\ u.source = "detail" -> ApplyDetail(u.body)
    [] ~IsError(u.body) /\ u.source = "refresh" -> ApplyRefreshAck

-----------------------------------------------------------------------------
(* Keys. *)
FocusView(v) ==
  /\ view' = v
  /\ UNCHANGED <<at, answer, rows, selected, gapPending, acked, shown, refresh, wanted>>

(* Mutant of Enter: the poller is not told.                                *)
EnterUntold ==
  LET list == rows.tickets IN
  IF view # "tickets" \/ selected.tickets > Len(list) THEN UNCHANGED <<at, answer, viewVars>>
  ELSE LET t == list[selected.tickets] IN
       /\ shown' = IF shown.ticket = t THEN shown ELSE [ticket |-> t, detail |-> Nothing]
       /\ view' = "detail"
       /\ UNCHANGED <<at, answer, rows, selected, gapPending, acked, refresh, wanted>>

(* Opens the row that is under the cursor when the key is handled.         *)
Enter ==
  LET list == rows.tickets IN
  IF view # "tickets" \/ selected.tickets > Len(list) THEN UNCHANGED <<at, answer, viewVars>>
  ELSE LET t == list[selected.tickets] IN
       /\ shown' = IF shown.ticket = t THEN shown ELSE [ticket |-> t, detail |-> Nothing]
       /\ wanted' = t /\ view' = "detail"
       /\ UNCHANGED <<at, answer, rows, selected, gapPending, acked, refresh>>

Listed == IF view = "escalations" THEN "escalations" ELSE "tickets"

Move(i) ==
  /\ selected' = IF view \in {"tickets", "escalations"}
                 THEN [selected EXCEPT ![Listed] = i] ELSE selected
  /\ UNCHANGED <<at, answer, view, rows, gapPending, acked, shown, refresh, wanted>>

Down == Move(IF selected[Listed] < Len(rows[Listed])
             THEN selected[Listed] + 1 ELSE selected[Listed])
Up == Move(IF selected[Listed] > 1 THEN selected[Listed] - 1 ELSE 1)

(* Only when none is under way, and not within the debounce.               *)
StartRefresh ==
  IF refresh \in {"idle", "expired"}
  THEN /\ refresh' = "inflight"
       /\ at' = [at EXCEPT !["refresh"] = "asked"]
       /\ answer' = [answer EXCEPT !["refresh"] = [ack |-> TRUE]]
       /\ UNCHANGED <<view, rows, selected, gapPending, acked, shown, wanted>>
  ELSE UNCHANGED <<at, answer, viewVars>>

ToggleAck ==
  LET list == rows.escalations
      i == selected.escalations IN
  /\ acked' = IF view # "escalations" \/ i > Len(list) THEN acked
              ELSE IF Key(list[i]) \in acked THEN acked \ {Key(list[i])}
              ELSE acked \cup {Key(list[i])}
  /\ UNCHANGED <<at, answer, view, rows, selected, gapPending, shown, refresh, wanted>>

Handle(k) ==
  CASE k = "enter" -> Enter
    [] k = "down" -> Down
    [] k = "up" -> Up
    [] k = "r" -> StartRefresh
    [] k = "a" -> ToggleAck
    [] k = "1" -> FocusView("tickets")
    [] k = "4" -> FocusView("escalations")

-----------------------------------------------------------------------------
(* The loop of the App; the terminal is restored when it ends.             *)
TakeUpdate ==
  LET u == Head(channel) IN
  /\ running /\ channel # <<>>
  /\ channel' = Tail(channel)
  /\ \/ /\ u.source # "key" /\ Apply(u)
        /\ UNCHANGED <<at, answer, running>>
     \/ /\ u.source = "key" /\ u.body # "q" /\ Handle(u.body)
        /\ UNCHANGED running
     \/ /\ u.source = "key" /\ u.body = "q"
        /\ running' = FALSE /\ UNCHANGED <<at, answer, viewVars>>
  /\ UNCHANGED <<eventLogVars, scene, cursor, keys>>

(* Less than a second of the five is left.                                 *)
DebounceEnds ==
  /\ refresh = "debounced" /\ refresh' = "expired"
  /\ UNCHANGED <<eventLogVars, pollVars, channel, keys, running, view, rows, selected,
                 gapPending, acked, shown, wanted>>

tuiVars == <<pollVars, channel, keys, running, viewVars>>

(* What the daemon does, where the scene shows it.                         *)
DaemonStep ==
  \/ "events" \in scene /\ \E t \in Talkers : TicketEvent(t)
  \/ "detail" \in scene /\ \E t \in Tickets : Touch(t)
  \/ "escalations" \in scene /\ (LogEscalation \/ \E t \in Tickets : Escalate(t))
  \/ scene \cap {"detail", "escalations"} # {} /\ \E t \in Tickets : Forget(t)
  \/ "events" \in scene /\ Restart
  \/ \E w \in Writers : Persist(w)

Next ==
  \/ DaemonStep /\ UNCHANGED tuiVars
  \/ AskTickets \/ AskEvents \/ AskEscalations \/ AskDetail
  \/ AnnounceNudge
  \/ \E s \in Sources : Answer(s) \/ Lose(s) \/ Deliver(s)
  \/ \E k \in Keys : Press(k)
  \/ TakeUpdate \/ DebounceEnds
  \/ ~running /\ UNCHANGED vars

Spec == Init /\ [][Next]_vars

(* Requests end within five seconds, the pollers tick, the App draws and   *)
(* takes the next update.                                                  *)
FairSpec ==
  /\ Spec
  /\ WF_vars(AskDetail) /\ WF_vars(TakeUpdate) /\ WF_vars(AnnounceNudge)
  /\ \A s \in {"detail", "refresh"} : WF_vars(Answer(s)) /\ SF_vars(Deliver(s))

-----------------------------------------------------------------------------
TypeOK ==
  /\ boot \in 1 .. MaxBoots /\ emitted \in 0 .. MaxEvents /\ faults \in 0 .. MaxFaults
  /\ DOMAIN file = Writers /\ Len(ring) <= RingSize /\ nextSeq \in 1 .. MaxEvents + 1
  /\ Len(queue) <= QueueCapacity /\ Len(channel) <= ChannelSize
  /\ at \in [Sources -> {"idle", "asked", "acked", "answered"}]
  /\ ToSet(recency) \subseteq Tickets /\ Len(recency) = Cardinality(ToSet(recency))
  /\ cursor \in Nat \cup {Anything} /\ wanted \in Tickets \cup {Anything}
  /\ Len(rows.events) <= MaxRows
  /\ \A l \in DOMAIN selected :
       \/ selected[l] \in DOMAIN rows[l]
       \/ selected[l] = 1 /\ rows[l] = <<>>
  /\ view \in {"tickets", "detail", "escalations"}
  /\ refresh \in {"idle", "inflight", "debounced", "expired"}

(* No event is shown twice and none out of order, not even across a        *)
(* restart of the daemon (poll/events.rs, EventRing::page).                *)
NoEventTwice ==
  \A i, j \in DOMAIN rows.events : i < j => rows.events[i].id < rows.events[j].id

(* Two neighbouring rows of one run of the daemon leave out events of the  *)
(* ring only if the page that put them there said so                       *)
(* (EventRing::page, EventsView::merge_page).                              *)
Hole(s, i) == s[i].boot = s[i + 1].boot /\ s[i].seq + 1 < s[i + 1].seq
HolesAreAnnounced ==
  [][\A i \in 1 .. Len(rows'.events) - 1 :
       Hole(rows'.events, i) =>
         \/ gapPending'
         \/ \E j \in 1 .. Len(rows.events) - 1 :
              rows.events[j] = rows'.events[i] /\ rows.events[j + 1] = rows'.events[i + 1]]_vars

(* A refresh that the UI believes under way is under way, once: no failed  *)
(* poll of another source lets a second POST /api/refresh go               *)
(* (app.rs: apply, trigger_refresh).                                       *)
RefreshOnce ==
  LET replies == {i \in DOMAIN channel : channel[i].source = "refresh"} IN
  (refresh = "inflight") <=> (at["refresh"] # "idle" \/ replies # {})

(* What is acknowledged is on the list: an escalation that comes back      *)
(* later is not born acknowledged (EscalationsView::apply).                *)
AcksAreListed == acked \subseteq {Key(e) : e \in ToSet(rows.escalations)}

(* The detail that stays on the screen is that of the ticket on show,      *)
(* although updates carry no ticket: what a late answer for the ticket     *)
(* before put there is replaced, while the daemon knows the ticket         *)
(* (poll/ticket_detail.rs, apply_ticket_detail).                           *)
DetailSettles ==
  \A t \in Tickets :
    <>[](running /\ "detail" \in scene /\ shown.ticket = t /\ t \in ToSet(recency)) =>
      <>[](shown.detail # Nothing /\ shown.detail.ticket = t)

(* A refresh does not stay under way (start_refresh).                      *)
RefreshEnds == (refresh = "inflight") ~> (refresh # "inflight" \/ ~running)

(* The three copies of the log agree at every step, through failed writes  *)
(* and restarts (events.rs): the ring is the tail of the files and the     *)
(* store is behind them.                                                   *)
LogInv == TypeOK /\ RingIsTheTail /\ StoreTrailsFile

(* The views show an event once, one refresh at a time, and acknowledge    *)
(* nothing that is not listed, whatever order replies come in (app.rs).    *)
ViewInv == NoEventTwice /\ RefreshOnce /\ AcksAreListed
=============================================================================
