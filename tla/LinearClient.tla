---------------------------- MODULE LinearClient ------------------------------
(***************************************************************************)
(* The daemon's side of Linear: the viewer query of startup, the paged     *)
(* enumeration of cold start, the backoff that both share, and the polling *)
(* tracker that starts after them and answers the nudges of the API.       *)
(*                                                                         *)
(* Time is kept as distances, each as far as the code looks: what is left  *)
(* of a backoff, the time since the last poll, the time since the last     *)
(* webhook that was accepted.                                              *)
(***************************************************************************)
EXTENDS Naturals, Sequences, SequencesExt

CONSTANTS
  Issues,      (* the issues that match the query, in Linear's order       *)
  PageSize, MaxRetries, MinBackoff, MaxBackoff, Cadence,
  RetryAfter,  (* values of the Retry-After header, in seconds             *)
  NoHeader,    (* a 429 without it, or with one that is not a number       *)
  NeedsViewer, (* the configured assignee is "me"                          *)
  Callers,     (* requests to POST /admin/refresh-now                      *)
  QueueSize    (* capacity of the nudge channel                            *)

ASSUME LinearAssumption ==
  /\ Issues \in Seq(Nat) /\ PageSize \in Nat \ {0} /\ MaxRetries \in Nat
  /\ MinBackoff \in Nat \ {0} /\ MaxBackoff \in Nat /\ MinBackoff <= MaxBackoff
  /\ Cadence \in Nat \ {0} /\ RetryAfter \subseteq Nat /\ NoHeader \notin RetryAfter
  /\ NeedsViewer \in BOOLEAN /\ QueueSize \in Nat \ {0}

Silent == 2 * Cadence

VARIABLES
  job,       (* what the daemon is at: "viewer", "enumerate", "serve"      *)
  sent,      (* a request is under way                                     *)
  retries, after, out, partial,  (* of the query at hand                   *)
  backoff,   (* seconds until backoff_until_ms, 0 when it has passed       *)
  base,      (* last_backoff_seconds                                       *)
  idle,      (* time since last_fire, at most Cadence                      *)
  quiet,     (* time since last_webhook_success, at most Silent            *)
  asking, queue, answers,  (* nudges: waiting for a slot, queued, answered *)
  acks, tracker,           (* those the tracker has taken; where it is     *)
  unpolled   (* history: callers that asked after the last poll            *)

clientVars == <<job, sent, retries, after, out, partial>>
rateVars == <<backoff, base>>
nudgeVars == <<asking, queue, answers, acks, tracker, unpolled>>
linearVars == <<clientVars, rateVars, idle, quiet, nudgeVars>>

LinearInit ==
  /\ job = (IF NeedsViewer THEN "viewer" ELSE "enumerate")
  /\ sent = FALSE /\ retries = 0 /\ after = 0 /\ out = <<>> /\ partial = FALSE
  /\ backoff = 0 /\ base = 0
  /\ idle = Cadence /\ quiet = Silent
  /\ asking = {} /\ queue = <<>> /\ answers = [c \in Callers |-> "none"]
  /\ acks = <<>> /\ tracker = "recv" /\ unpolled = {}

-----------------------------------------------------------------------------
(* RateLimitState. *)
Least(a, b) == IF a <= b THEN a ELSE b

Clamp(seconds) == IF seconds < MinBackoff THEN MinBackoff ELSE Least(seconds, MaxBackoff)

Record429(header) ==
  /\ base' = Clamp(IF header = NoHeader THEN 2 * base ELSE header)
  /\ backoff' = base'

ClearBackoff == base' = 0 /\ backoff' = 0

-----------------------------------------------------------------------------
(* Queries: wait for the end of the backoff, send, read the answer. *)
Querying == job \in {"viewer", "enumerate"}

Send ==
  /\ Querying /\ ~sent /\ backoff = 0
  /\ sent' = TRUE
  /\ UNCHANGED <<job, retries, after, out, partial, rateVars, idle, quiet, nudgeVars>>

(* Mutant of Fail: the pages that came before the failure are kept. *)
FailKeepingPages ==
  /\ job' = (IF job = "viewer" THEN "exit" ELSE "serve")
  /\ partial' = (job = "enumerate")
  /\ UNCHANGED <<out, retries, after>>

(* Without its viewer the daemon does not start; without an enumeration it *)
(* serves all the same, and forgets the pages it had.                      *)
Fail ==
  /\ job' = (IF job = "viewer" THEN "exit" ELSE "serve")
  /\ partial' = (job = "enumerate") /\ out' = <<>>
  /\ UNCHANGED <<retries, after>>

(* Mutant of TooMany: retries are not counted. *)
TooManyUncounted(header) ==
  /\ sent /\ sent' = FALSE
  /\ Record429(header)
  /\ UNCHANGED <<job, retries, after, out, partial, idle, quiet, nudgeVars>>

(* HTTP 429: retried, as often as MaxRetries for one page (or for the      *)
(* viewer).                                                                *)
TooMany(header) ==
  /\ sent /\ sent' = FALSE
  /\ IF retries >= MaxRetries THEN Fail /\ UNCHANGED rateVars
     ELSE /\ retries' = retries + 1 /\ Record429(header)
          /\ UNCHANGED <<job, after, out, partial>>
  /\ UNCHANGED <<idle, quiet, nudgeVars>>

(* No answer, or one with an error status. *)
Refusal ==
  /\ sent /\ sent' = FALSE
  /\ Fail
  /\ UNCHANGED <<rateVars, idle, quiet, nudgeVars>>

(* A success that says nothing: not JSON, an `errors' member, no viewer    *)
(* id, a page or any node of it without a field that is required, more     *)
(* pages without a cursor.                                                 *)
Nonsense ==
  /\ sent /\ sent' = FALSE
  /\ ClearBackoff /\ Fail
  /\ UNCHANGED <<idle, quiet, nudgeVars>>

Viewer ==
  /\ sent /\ job = "viewer" /\ sent' = FALSE
  /\ ClearBackoff
  /\ job' = "enumerate" /\ retries' = 0
  /\ UNCHANGED <<after, out, partial, idle, quiet, nudgeVars>>

(* A page, from the cursor on; the next one has its own retries. *)
Page ==
  LET end == Least(after + PageSize, Len(Issues)) IN
    /\ sent /\ job = "enumerate" /\ sent' = FALSE
    /\ ClearBackoff
    /\ out' = out \o SubSeq(Issues, after + 1, end)
    /\ after' = end /\ retries' = 0
    /\ job' = (IF end < Len(Issues) THEN job ELSE "serve")
    /\ UNCHANGED <<partial, idle, quiet, nudgeVars>>

Answer == (\E header \in RetryAfter \cup {NoHeader} : TooMany(header))
            \/ Refusal \/ Nonsense \/ Viewer \/ Page

-----------------------------------------------------------------------------
(* The polling tracker and its nudges; the API serves after cold start. *)
Serving == job = "serve"

Ask(c) ==
  /\ Serving /\ c \notin asking /\ answers[c] # "waiting"
  /\ asking' = asking \cup {c} /\ answers' = [answers EXCEPT ![c] = "waiting"]
  /\ unpolled' = unpolled \cup {c}
  /\ UNCHANGED <<clientVars, rateVars, idle, quiet, queue, acks, tracker>>

(* A send waits for a slot. *)
Enqueue(c) ==
  /\ c \in asking /\ Len(queue) < QueueSize
  /\ asking' = asking \ {c} /\ queue' = Append(queue, c)
  /\ UNCHANGED <<clientVars, rateVars, idle, quiet, answers, acks, tracker, unpolled>>

(* Mutant of Take: nudges are looked at when a poll is due and Linear      *)
(* silent.                                                                 *)
TakeWhenDue ==
  /\ Serving /\ tracker = "recv"
  /\ idle = Cadence /\ quiet = Silent
  /\ acks' = queue /\ queue' = <<>> /\ tracker' = "decide"
  /\ UNCHANGED <<clientVars, rateVars, idle, quiet, asking, answers, unpolled>>

(* A nudge, or the end of the cadence; with it whatever else is queued. *)
Take ==
  /\ Serving /\ tracker = "recv"
  /\ queue # <<>> \/ idle = Cadence
  /\ acks' = queue /\ queue' = <<>> /\ tracker' = "decide"
  /\ UNCHANGED <<clientVars, rateVars, idle, quiet, asking, answers, unpolled>>

Told(answer) == [c \in Callers |-> IF Contains(acks, c) THEN answer ELSE answers[c]]

(* Mutant of Decide: the test of the silence the wrong way round. *)
DecideInverted ==
  /\ tracker = "decide"
  /\ CASE backoff > 0 ->
            /\ answers' = Told("refused") /\ acks' = <<>> /\ tracker' = "recv"
            /\ UNCHANGED <<idle, unpolled>>
       [] backoff = 0 /\ acks = <<>> /\ quiet >= Silent ->
            /\ tracker' = "recv"
            /\ UNCHANGED <<answers, acks, idle, unpolled>>
       [] OTHER ->
            /\ idle' = 0 /\ unpolled' = {} /\ tracker' = "ack"
            /\ UNCHANGED <<answers, acks>>
  /\ UNCHANGED <<clientVars, rateVars, quiet, asking, queue>>

(* In a backoff the nudges are refused; without nudges a poll needs that   *)
(* no webhook came for twice the cadence; neither counts as a poll.        *)
Decide ==
  /\ tracker = "decide"
  /\ CASE backoff > 0 ->
            /\ answers' = Told("refused") /\ acks' = <<>> /\ tracker' = "recv"
            /\ UNCHANGED <<idle, unpolled>>
       [] backoff = 0 /\ acks = <<>> /\ quiet < Silent ->
            /\ tracker' = "recv"
            /\ UNCHANGED <<answers, acks, idle, unpolled>>
       [] OTHER ->
            /\ idle' = 0 /\ unpolled' = {} /\ tracker' = "ack"
            /\ UNCHANGED <<answers, acks>>
  /\ UNCHANGED <<clientVars, rateVars, quiet, asking, queue>>

(* Mutant of Ack: the channel is drained once more after the poll. *)
AckLateComers ==
  /\ tracker = "ack" /\ tracker' = "recv"
  /\ answers' = [c \in Callers |-> IF Contains(acks \o queue, c) THEN "shared" ELSE answers[c]]
  /\ acks' = <<>> /\ queue' = <<>>
  /\ UNCHANGED <<clientVars, rateVars, idle, quiet, asking, unpolled>>

(* After the poll: everybody it was for is told, and whether it was shared.*)
Ack ==
  /\ tracker = "ack" /\ tracker' = "recv"
  /\ answers' = Told(IF Len(acks) > 1 THEN "shared" ELSE "polled") /\ acks' = <<>>
  /\ UNCHANGED <<clientVars, rateVars, idle, quiet, asking, queue, unpolled>>

WebhookAccepted ==
  /\ Serving /\ quiet' = 0
  /\ UNCHANGED <<clientVars, rateVars, idle, nudgeVars>>

Passes ==
  /\ backoff > 0 \/ idle < Cadence \/ quiet < Silent
  /\ backoff' = (IF backoff > 0 THEN backoff - 1 ELSE 0)
  /\ idle' = Least(idle + 1, Cadence) /\ quiet' = Least(quiet + 1, Silent)
  /\ UNCHANGED <<clientVars, base, nudgeVars>>

-----------------------------------------------------------------------------
Tracker == Take \/ Decide \/ Ack

LinearNext ==
  \/ Send \/ Answer \/ Tracker \/ WebhookAccepted \/ Passes
  \/ \E c \in Callers : Ask(c) \/ Enqueue(c)
  \/ job = "exit" /\ UNCHANGED linearVars

LinearSpec == LinearInit /\ [][LinearNext]_linearVars

(* Time passes and tasks are scheduled; a slot of the channel is given to  *)
(* the senders in turn; that Linear answers is assumed, no request having  *)
(* a timeout.                                                              *)
FairLinearSpec ==
  /\ LinearSpec /\ WF_linearVars(Send) /\ WF_linearVars(Answer) /\ WF_linearVars(Passes)
  /\ WF_linearVars(Take) /\ WF_linearVars(Decide) /\ WF_linearVars(Ack)
  /\ \A c \in Callers : SF_linearVars(Enqueue(c))

-----------------------------------------------------------------------------
(* Properties. *)

LinearTypes ==
  /\ job \in {"viewer", "enumerate", "serve", "exit"} /\ sent \in BOOLEAN
  /\ retries \in 0 .. MaxRetries /\ after \in 0 .. Len(Issues)
  /\ out \in Seq(Nat) /\ partial \in BOOLEAN
  /\ base \in {0} \cup MinBackoff .. MaxBackoff /\ backoff \in 0 .. base
  /\ idle \in 0 .. Cadence /\ quiet \in 0 .. Silent
  /\ asking \subseteq Callers /\ queue \in Seq(Callers) /\ Len(queue) <= QueueSize
  /\ answers \in [Callers -> {"none", "waiting", "refused", "dropped", "polled", "shared"}]
  /\ acks \in Seq(Callers) /\ tracker \in {"recv", "decide", "ack"}
  /\ unpolled \subseteq Callers

(* Cold start gets every issue once, in order, or nothing at all, however  *)
(* many pages were interrupted by backoffs (graphql.rs, enumerate).        *)
AllOrNothing == Serving => out = IF partial THEN <<>> ELSE Issues

(* A backoff never outlives the queries: whoever asks for a poll is not    *)
(* refused, and no ask is dropped.  The tracker's branch for a backoff is  *)
(* out of reach while only startup queries Linear (polling.rs, run).       *)
NudgesAreServed == \A c \in Callers : answers[c] \notin {"refused", "dropped"}

(* Whoever is told of a poll was polled for after asking, in spite of the  *)
(* batch, the gate and the nudges that arrive between them.                *)
PolledSinceAsked ==
  [][\A c \in Callers :
       answers'[c] # answers[c] /\ answers'[c] \in {"polled", "shared"} => c \notin unpolled]_linearVars

(* Everybody who asks is answered. *)
NudgesAreAnswered ==
  \A c \in Callers : answers[c] = "waiting" ~> answers[c] # "waiting"

(* The enumeration ends, one way or the other. *)
QueriesEnd == <>~Querying

(* While no webhook comes, Linear is polled again and again. *)
OutageIsPolled == Serving /\ quiet = Silent ~> idle = 0 \/ quiet < Silent

(* Queries and tracker at every step: nothing of a failed enumeration and  *)
(* no backoff of it gets past the start (graphql.rs, polling.rs).          *)
ClientInv == LinearTypes /\ AllOrNothing /\ NudgesAreServed
===============================================================================
