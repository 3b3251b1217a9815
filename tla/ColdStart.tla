------------------------------ MODULE ColdStart -------------------------------
(***************************************************************************)
(* Boots of the daemon over one control-plane store and one session root:  *)
(* loading the workflow, opening and migrating the store, seeding the diff *)
(* cache, closing the cycles a crash left open, enumerating Linear,        *)
(* spawning ticket tasks, sweeping orphan session directories; then the    *)
(* dispatcher and the ticket tasks, as far as they write to the store and  *)
(* to the session root.  The process may crash between any two steps, and  *)
(* the operator may edit the workflow before the next boot.                *)
(*                                                                         *)
(* The cache and the store are two locks: a ticket enters or leaves the    *)
(* cache in one step and the store in a later one.  TicketDispatch has the *)
(* inbox, the recheck and the escalations in full, LinearClient the pages  *)
(* of the enumeration.                                                     *)
(***************************************************************************)
EXTENDS Admission, ControlStore

CONSTANTS
  Tickets,     (* Linear issue identifiers                                 *)
  Stray,       (* a session directory that is no ticket's                  *)
  Me,          (* the viewer                                               *)
  Files,       (* the workflow files an operator may have on disk          *)
  States,      (* [assignee, status, labels] of an issue at some time      *)
  FirstVersions, (* schema versions of the store before the first boot     *)
  Legacy,      (* cycles 1 .. Legacy have an integer key, no UUID          *)
  LegacyRepo,  (* the repository of the tickets they belong to             *)
  MaxBoots, MaxCycles, MaxEdits  (* bounds of one behaviour                *)

ASSUME ColdStartAssumption ==
  /\ Stray \notin Tickets /\ None \notin Tickets
  /\ MaxBoots \in Nat /\ MaxCycles \in Nat /\ MaxEdits \in Nat
  /\ Legacy \in 0 .. MaxCycles

(* What a file parses to holds its entries and repositories in lists.      *)
IsList(s) == s \in Seq(ToSet(s))

ASSUME FilesAssumption ==
  \A fs \in Files : \A path \in DOMAIN fs :
    fs[path] # Malformed =>
      /\ IsList(fs[path].rules) /\ IsList(fs[path].cleanup)
      /\ fs[path].admission # None => IsList(fs[path].admission.repos)

Cycles == 1 .. MaxCycles

MainPC ==
  {"down", "open", "seed", "recover", "announced", "unheard", "enumerate",
   "admit", "mirror", "unmirror", "route", "sweep", "serving"}

TaskPC == {"none", "idle", "visit", "count", "close", "delete", "settle", "evict", "gone"}

VARIABLES
  linear,   (* per ticket: its issue                                       *)
  edits, boots,  (* counters of the bounds                                 *)
  wf,       (* the workflow this boot has loaded                           *)
  db, dirs, (* what survives a crash: the store, the session directories   *)
  fresh,    (* the last cycle identifier handed out                        *)
  main,     (* program counter: cold start, then the dispatcher            *)
  serving,  (* cold start is over                                          *)
  at,       (* the row being recovered or the ticket being observed        *)
  listed,   (* rows the recovery has still to close                        *)
  page, todo,  (* the issues enumerated, those still to be admitted        *)
  keep, partial, scanned, deleted,  (* of the orphan sweep                 *)
  cache,    (* the diff cache                                              *)
  revoked,  (* tickets whose entry is flagged pending_evict                *)
  crossed,  (* history: tickets of which one of the two, dispatcher and    *)
            (* task, changed the cache before the other's store write      *)
  inbox,    (* tickets with a message for their task                       *)
  task, run,  (* per ticket: program counter and cycle of its task         *)
  seen      (* per ticket: the admitted ticket its cycle works on          *)

diskVars == <<db, dirs>>
worldVars == <<linear, edits, boots, wf>>
coldVars == <<main, serving, at, listed, page, todo, keep, partial, scanned, deleted>>
taskVars == <<inbox, task, run, seen>>
cacheVars == <<cache, revoked, crossed>>
vars == <<worldVars, diskVars, fresh, coldVars, cacheVars, taskVars>>

-----------------------------------------------------------------------------
NoCycle == 0

Forgotten ==
  /\ serving' = FALSE /\ at' = None /\ listed' = {} /\ page' = {} /\ todo' = {}
  /\ keep' = {} /\ partial' = FALSE /\ scanned' = {} /\ deleted' = {}
  /\ cache' = EmptyTable /\ revoked' = {} /\ crossed' = {} /\ inbox' = {}
  /\ task' = [t \in Tickets |-> "none"]
  /\ run' = [t \in Tickets |-> NoCycle]
  /\ seen' = [t \in Tickets |-> None]

Issue(t, s) ==
  [id |-> t, assignee |-> s.assignee, status |-> s.status, labels |-> s.labels,
   title |-> <<"title">>, body |-> <<"body">>]

(* A store of version 1 may hold cycles under integer keys, open ones      *)
(* among them; a later one numbers no cycle so.                            *)
FirstStore(version, owner) ==
  [Fresh EXCEPT
     !.version = version,
     !.tickets = [t \in {owner[c] : c \in DOMAIN owner} |->
                    [repo |-> LegacyRepo, evicted |-> FALSE]],
     !.cycles = [c \in DOMAIN owner |->
                   [ticket |-> owner[c], kind |-> "rule", ended |-> FALSE,
                    outcome |-> Open, state |-> Open, iter |-> 0]]]

Init ==
  /\ linear \in [Tickets -> States]
  /\ edits = 0 /\ boots = 0 /\ wf = None
  /\ \E v \in FirstVersions, cs \in SUBSET (1 .. Legacy) :
       /\ v = 1 \/ cs = {}
       /\ \E owner \in [cs -> Tickets] : db = FirstStore(v, owner)
  /\ dirs = {Stray} /\ fresh = Legacy
  /\ main = "down" /\ serving = FALSE /\ at = None /\ listed = {} /\ page = {}
  /\ todo = {} /\ keep = {} /\ partial = FALSE /\ scanned = {} /\ deleted = {}
  /\ cache = EmptyTable /\ revoked = {} /\ crossed = {} /\ inbox = {}
  /\ task = [t \in Tickets |-> "none"]
  /\ run = [t \in Tickets |-> NoCycle]
  /\ seen = [t \in Tickets |-> None]

GoTo(pc) == main' = pc
Up == main # "down"

(* Somebody edits an issue in Linear.  Enumerate and Webhook alone look,   *)
(* so an edit at another point of a boot is one before or after it.        *)
Edit(t) ==
  /\ main \in {"down", "serving"} /\ edits < MaxEdits /\ edits' = edits + 1
  /\ \E s \in States \ {linear[t]} : linear' = [linear EXCEPT ![t] = s]
  /\ UNCHANGED <<boots, wf, diskVars, fresh, coldVars, cacheVars, taskVars>>

(* At any write of a boot that another follows. *)
Crash ==
  /\ Up /\ boots < MaxBoots /\ GoTo("down") /\ Forgotten
  /\ UNCHANGED <<worldVars, diskVars, fresh>>

-----------------------------------------------------------------------------
(* Boot. *)

(* The workflow is loaded before the store is opened; without one the      *)
(* process ends.                                                           *)
Boot ==
  /\ main = "down" /\ boots < MaxBoots
  /\ boots' = boots + 1
  /\ \E fs \in Files :
       LET result == LoadWorkflow(fs, "WORKFLOW.yaml", TRUE) IN
         IF Loaded(result) THEN wf' = result /\ GoTo("open")
         ELSE wf' = None /\ GoTo("down")
  /\ UNCHANGED <<linear, edits, diskVars, fresh, serving, at, listed, page, todo,
                 keep, partial, scanned, deleted, cacheVars, taskVars>>

(* One migration at a time, each its own transaction; a store of a newer   *)
(* binary, or one whose keys dangle after a migration, ends the process.   *)
OpenStore ==
  /\ main = "open"
  /\ CASE TooNew(db) -> GoTo("down") /\ UNCHANGED db
       [] Migrated(db) -> GoTo(IF KeysIntact(db) THEN "seed" ELSE "down") /\ UNCHANGED db
       [] OTHER -> db' = Migrate(db) /\ UNCHANGED main
  /\ UNCHANGED <<worldVars, dirs, fresh, serving, at, listed, page, todo, keep,
                 partial, scanned, deleted, cacheVars, taskVars>>

(* seed_from_store_hint: an entry with an empty triple. *)
SeedEntry(repo) == [repo |-> repo, assignee |-> "", status |-> "", labels |-> {}]

(* The hint, then list_inflight_cycles. *)
Seed ==
  /\ main = "seed"
  /\ cache' = [id \in ListAdmitted(db) |-> SeedEntry(db.tickets[id].repo)]
  /\ listed' = ListInflight(db)
  /\ GoTo("recover")
  /\ UNCHANGED <<worldVars, diskVars, fresh, serving, at, page, todo, keep,
                 partial, scanned, deleted, revoked, crossed, taskVars>>

(* The rows in the order of their start; those of an old store first.      *)
NextRow == CHOOSE c \in listed : \A d \in listed : c <= d
IsUuid(c) == c > Legacy

Announced(c) == AppendEvent(db, db.cycles[c].ticket, c, "crashed_cycle_recovered")

(* A row whose key is no UUID is closed in silence. *)
CloseLegacy ==
  /\ main = "recover" /\ listed # {} /\ ~IsUuid(NextRow)
  /\ db' = BestEffort(db, CloseCycle(db, NextRow, "failure"))
  /\ listed' = listed \ {NextRow} /\ UNCHANGED <<main, at>>

TakeRow ==
  /\ main = "recover" /\ listed # {} /\ IsUuid(NextRow)
  /\ at' = NextRow /\ listed' = listed \ {NextRow}

RecoveryEnds ==
  /\ main = "recover" /\ listed = {}
  /\ GoTo("enumerate") /\ UNCHANGED <<db, at, listed>>

(* Mutant of Recover: the row is closed before the event is written. *)
RecoverCloseFirst ==
  \/ CloseLegacy
  \/ /\ TakeRow /\ GoTo("announced")
     /\ db' = BestEffort(db, CloseCycle(db, at', "failure"))
  \/ /\ main = "announced"
     /\ db' = BestEffort(db, Announced(at))
     /\ at' = None /\ GoTo("recover") /\ UNCHANGED listed
  \/ RecoveryEnds

(* Per row: the event, then the row is closed.  emit reaches the store     *)
(* only once the line is in the file; a write that fails leaves no event,  *)
(* and the row is closed all the same.                                     *)
Recover ==
  \/ CloseLegacy
  \/ /\ TakeRow
     /\ \/ GoTo("announced") /\ db' = BestEffort(db, Announced(at'))
        \/ GoTo("unheard") /\ UNCHANGED db
  \/ /\ main \in {"announced", "unheard"}
     /\ db' = BestEffort(db, CloseCycle(db, at, "failure"))
     /\ at' = None /\ GoTo("recover") /\ UNCHANGED listed
  \/ RecoveryEnds

RecoverStep ==
  /\ Recover
  /\ UNCHANGED <<worldVars, dirs, fresh, serving, page, todo, keep, partial,
                 scanned, deleted, cacheVars, taskVars>>

(* The issues that Linear lists for the assignee and the status union, or  *)
(* nothing at all when a page fails.                                       *)
Enumerate ==
  /\ main = "enumerate"
  /\ partial' \in BOOLEAN
  /\ page' = IF partial' THEN {}
             ELSE {i \in {Issue(t, linear[t]) : t \in Tickets} : Enumerable(i, wf, Me)}
  /\ todo' = page'
  /\ GoTo("admit")
  /\ UNCHANGED <<worldVars, diskVars, fresh, serving, at, listed, keep, scanned,
                 deleted, cacheVars, taskVars>>

-----------------------------------------------------------------------------
(* The diff cache and its mirror in the store. *)

Entry(ticket, ghq) ==
  [repo |-> ghq, assignee |-> ticket.assignee, status |-> ticket.status,
   labels |-> ticket.labels]

Triple(entry) == <<entry.status, entry.labels, entry.assignee>>

(* observe, in memory: a known ticket keeps the repository it had. *)
Observed(ticket) ==
  IF ticket.id \in DOMAIN cache
  THEN Put(cache, ticket.id, [Entry(ticket, wf.repo) EXCEPT !.repo = cache[ticket.id].repo])
  ELSE Put(cache, ticket.id, Entry(ticket, wf.repo))

Unchanged(ticket) ==
  ticket.id \in DOMAIN cache /\ Triple(cache[ticket.id]) = Triple(Entry(ticket, wf.repo))

Without(id) == [other \in DOMAIN cache \ {id} |-> cache[other]]

(* Only a new entry goes to the store. *)
NextAfterObserve(id) == GoTo(IF id \in DOMAIN cache THEN "route" ELSE "mirror")

(* The enumerated issues in some order; one that the filter refuses is     *)
(* skipped, and its directory not kept.                                    *)
AdmitEnumerated ==
  /\ main = "admit"
  /\ \E i \in todo :
       LET ticket == SynthNormalized(i) IN
         /\ todo' = todo \ {i}
         /\ IF Accepts(ticket, wf, Me)
            THEN /\ keep' = keep \cup {i.id} /\ at' = i.id
                 /\ cache' = Observed(ticket) /\ NextAfterObserve(i.id)
            ELSE UNCHANGED <<keep, at, cache, main>>
  /\ UNCHANGED <<worldVars, diskVars, fresh, serving, listed, page, partial,
                 scanned, deleted, revoked, crossed, taskVars>>

Mirror ==
  /\ main = "mirror"
  /\ db' = BestEffort(db, AdmitTicket(db, at, wf.repo))
  /\ GoTo("route")
  /\ UNCHANGED <<worldVars, dirs, fresh, serving, at, listed, page, todo, keep,
                 partial, scanned, deleted, cacheVars, taskVars>>

Unmirror ==
  /\ main = "unmirror"
  /\ db' = BestEffort(db, EvictTicket(db, at))
  /\ at' = None /\ GoTo("serving")
  /\ UNCHANGED <<worldVars, dirs, fresh, serving, listed, page, todo, keep,
                 partial, scanned, deleted, cacheVars, taskVars>>

LiveTask(t) == task[t] \notin {"none", "gone"}

(* A live task gets the message (an inbox that is full keeps its own);     *)
(* otherwise a task is spawned with it.                                    *)
Route ==
  /\ main = "route"
  /\ inbox' = inbox \cup {at}
  /\ task' = IF LiveTask(at) THEN task ELSE [task EXCEPT ![at] = "idle"]
  /\ at' = None /\ GoTo(IF serving THEN "serving" ELSE "admit")
  /\ UNCHANGED <<worldVars, diskVars, fresh, serving, listed, page, todo, keep,
                 partial, scanned, deleted, cacheVars, run, seen>>

-----------------------------------------------------------------------------
(* The orphan sweep. *)

(* What cold start kept for itself is gone when it returns. *)
Returned ==
  /\ GoTo("serving") /\ serving' = TRUE
  /\ page' = {} /\ keep' = {} /\ partial' = FALSE /\ scanned' = {} /\ deleted' = {}

(* Mutant of EndAdmission: the sweep runs after a partial enumeration. *)
EndAdmissionSweeping ==
  /\ main = "admit" /\ todo = {}
  /\ GoTo("sweep")
  /\ UNCHANGED <<worldVars, diskVars, fresh, serving, at, listed, page, todo,
                 keep, partial, scanned, deleted, cacheVars, taskVars>>

(* A partial enumeration knows nothing about the others: no sweep. *)
EndAdmission ==
  /\ main = "admit" /\ todo = {}
  /\ IF partial THEN Returned
     ELSE GoTo("sweep") /\ UNCHANGED <<serving, page, keep, partial, scanned, deleted>>
  /\ UNCHANGED <<worldVars, diskVars, fresh, at, listed, todo, cacheVars, taskVars>>

(* One directory of the listing; removing it may fail. *)
Sweep ==
  /\ main = "sweep"
  /\ \/ \E d \in dirs \ scanned :
          /\ scanned' = scanned \cup {d}
          /\ \/ d \notin keep /\ dirs' = dirs \ {d} /\ deleted' = deleted \cup {d}
             \/ UNCHANGED <<dirs, deleted>>
          /\ UNCHANGED <<main, serving, page, keep, partial>>
     \/ dirs \subseteq scanned /\ Returned /\ UNCHANGED dirs
  /\ UNCHANGED <<worldVars, db, fresh, at, listed, todo, cacheVars, taskVars>>

-----------------------------------------------------------------------------
(* The dispatcher: on_webhook of an issue as Linear has it now.  A revoked *)
(* ticket whose task has not been spawned in this boot is evicted at once, *)
(* any other is flagged.                                                   *)
Webhook(t) ==
  LET ticket == ParseTicket(Issue(t, linear[t])) IN
    /\ main = "serving" /\ linear[t].assignee # None
    /\ IF ~Accepts(ticket, wf, Me)
       THEN /\ t \in DOMAIN cache
            /\ IF task[t] = "none"
               THEN /\ cache' = Without(t) /\ at' = t /\ GoTo("unmirror")
                    /\ UNCHANGED revoked
               ELSE /\ revoked' = revoked \cup {t}
                    /\ UNCHANGED <<at, cache, main>>
       ELSE /\ revoked' = revoked \ {t}
            /\ IF Unchanged(ticket) THEN UNCHANGED <<at, cache, main>>
               ELSE at' = t /\ cache' = Observed(ticket) /\ NextAfterObserve(t)
    /\ crossed' = IF task[t] = "evict" /\ cache' # cache THEN crossed \cup {t} ELSE crossed
    /\ UNCHANGED <<worldVars, diskVars, fresh, serving, listed, page, todo, keep,
                   partial, scanned, deleted, taskVars>>

-----------------------------------------------------------------------------
(* The ticket tasks. *)

(* Bound: the rows of an old store count as cycles.                        *)
Room == fresh + Cardinality({c \in DOMAIN db.cycles : ~IsUuid(c)}) < MaxCycles

(* Take a message, evaluate what the cache has, and open a cycle with its  *)
(* row and its directory; or wait again.                                   *)
TaskStep(t) ==
  /\ task[t] = "idle" /\ t \in inbox
  /\ inbox' = inbox \ {t}
  /\ LET target == IF t \notin DOMAIN cache THEN "none"
                   ELSE EvaluateFromCache(t, cache[t], wf, "default")
     IN IF target = "none" THEN UNCHANGED <<fresh, db, dirs, task, run, seen>>
        ELSE /\ fresh < MaxCycles /\ Room /\ fresh' = fresh + 1
             /\ run' = [run EXCEPT ![t] = fresh']
             /\ seen' = [seen EXCEPT ![t] = Synthesize(t, cache[t]).ticket]
             /\ db' = BestEffort(db, OpenCycle(db, fresh', t,
                                   IF target = "rule" THEN "rule" ELSE "cleanup"))
             /\ dirs' = IF target = "shorthand" THEN dirs ELSE dirs \cup {t}
             /\ task' = [task EXCEPT ![t] =
                           IF target = "shorthand" THEN "delete" ELSE "visit"]
  /\ UNCHANGED <<worldVars, coldVars, cacheVars>>

KindOf(t) == db.cycles[run[t]].kind

(* A state is entered: two writes. *)
TaskVisit(t) ==
  /\ \/ /\ task[t] = "visit"
        /\ db' = BestEffort(db, SetCurrentState(db, run[t], "a", 0))
        /\ task' = [task EXCEPT ![t] = "count"]
     \/ /\ task[t] = "count"
        /\ db' = BestEffort(db, BumpVisit(db, run[t], "a"))
        /\ task' = [task EXCEPT ![t] = "close"]
  /\ UNCHANGED <<worldVars, dirs, fresh, coldVars, cacheVars, inbox, run, seen>>

(* Mutant of TaskClose: a failed cycle leaves its row open. *)
TaskCloseSuccess(t) ==
  /\ task[t] = "close"
  /\ \E outcome \in {"success", "failure"} :
       /\ db' = IF outcome = "failure" THEN db
                ELSE BestEffort(db, CloseCycle(db, run[t], outcome))
       /\ task' = [task EXCEPT ![t] =
            IF KindOf(t) = "cleanup" /\ outcome = "success" THEN "delete" ELSE "settle"]
  /\ UNCHANGED <<worldVars, dirs, fresh, coldVars, cacheVars, inbox, run, seen>>

(* The row is closed.  A cleanup that succeeds deletes the directory next; *)
(* every other end is settled.                                             *)
TaskClose(t) ==
  /\ task[t] = "close"
  /\ \E outcome \in {"success", "failure"} :
       /\ db' = BestEffort(db, CloseCycle(db, run[t], outcome))
       /\ task' = [task EXCEPT ![t] =
            IF KindOf(t) = "cleanup" /\ outcome = "success" THEN "delete" ELSE "settle"]
  /\ UNCHANGED <<worldVars, dirs, fresh, coldVars, cacheVars, inbox, run, seen>>

(* A task drops the entry of its ticket; the store is told in TaskEvict. *)
Evicted(t) ==
  /\ cache' = Without(t)
  /\ revoked' = revoked \ {t}
  /\ crossed' = IF main \in {"mirror", "unmirror"} /\ at = t THEN crossed \cup {t} ELSE crossed
  /\ task' = [task EXCEPT ![t] = "evict"]

(* The worktree and the directory are removed, or not (a failure of either *)
(* leaves the directory); either way the ticket leaves the cache.  Only    *)
(* the shorthand's row is still open here, and closed.                     *)
TaskDelete(t) ==
  /\ task[t] = "delete"
  /\ \E ok \in BOOLEAN :
       /\ dirs' = IF ok THEN dirs \ {t} ELSE dirs
       /\ db' = BestEffort(db, CloseCycle(db, run[t], IF ok THEN "success" ELSE "failure"))
  /\ run' = [run EXCEPT ![t] = NoCycle] /\ seen' = [seen EXCEPT ![t] = None]
  /\ Evicted(t)
  /\ UNCHANGED <<worldVars, fresh, coldVars, inbox>>

(* A revocation that came during the cycle evicts the ticket. *)
TaskSettle(t) ==
  /\ task[t] = "settle"
  /\ run' = [run EXCEPT ![t] = NoCycle] /\ seen' = [seen EXCEPT ![t] = None]
  /\ IF t \in revoked
     THEN Evicted(t)
     ELSE task' = [task EXCEPT ![t] = "idle"] /\ UNCHANGED cacheVars
  /\ UNCHANGED <<worldVars, diskVars, fresh, coldVars, inbox>>

(* The mirror of the eviction; then the task ends and drops its inbox. *)
TaskEvict(t) ==
  /\ task[t] = "evict"
  /\ db' = BestEffort(db, EvictTicket(db, t))
  /\ task' = [task EXCEPT ![t] = "gone"]
  /\ inbox' = inbox \ {t}
  /\ UNCHANGED <<worldVars, dirs, fresh, coldVars, cacheVars, run, seen>>

-----------------------------------------------------------------------------
ColdStep ==
  OpenStore \/ Seed \/ RecoverStep \/ Enumerate \/ AdmitEnumerated \/ Mirror
    \/ Route \/ EndAdmission \/ Sweep

Next ==
  \/ Boot \/ Crash \/ ColdStep \/ Unmirror
  \/ \E t \in Tickets :
       \/ Edit(t) \/ Webhook(t)
       \/ TaskStep(t) \/ TaskVisit(t) \/ TaskClose(t) \/ TaskDelete(t)
       \/ TaskSettle(t) \/ TaskEvict(t)
  \/ boots = MaxBoots /\ main \in {"down", "serving"} /\ UNCHANGED vars

Spec == Init /\ [][Next]_vars
-----------------------------------------------------------------------------
(* Properties. *)

TypeOK ==
  /\ linear \in [Tickets -> States] /\ edits \in 0 .. MaxEdits /\ boots \in 0 .. MaxBoots
  /\ dirs \subseteq Tickets \cup {Stray} /\ fresh \in 0 .. MaxCycles
  /\ DOMAIN db.tickets \subseteq Tickets /\ DOMAIN db.cycles \subseteq Cycles
  /\ main \in MainPC /\ serving \in BOOLEAN /\ partial \in BOOLEAN
  /\ at \in Tickets \cup Cycles \cup {None} /\ listed \subseteq Cycles
  /\ todo \subseteq page /\ keep \subseteq Tickets
  /\ scanned \cup deleted \subseteq Tickets \cup {Stray}
  /\ DOMAIN cache \subseteq Tickets /\ revoked \subseteq DOMAIN cache
  /\ crossed \subseteq Tickets
  /\ inbox \subseteq Tickets
  /\ task \in [Tickets -> TaskPC] /\ run \in [Tickets -> Cycles \cup {NoCycle}]

Booted == main \notin {"down", "open", "seed", "recover", "announced", "unheard"}

(* Once a boot has recovered, a row that is open belongs to a cycle of a   *)
(* task of this boot: no crash, wherever it falls, and no end of a cycle   *)
(* leaves a row that looks in flight (cold_start.rs, phase-3 recovery).    *)
OpenRowsAreRunning == Booted => ListInflight(db) \subseteq {run[t] : t \in Tickets}

RecoveryCloses(c) ==
  db' # db /\ task' = task /\ c \in ListInflight(db) \ ListInflight(db')
HasEvent(c) == \E n \in DOMAIN db'.events : db'.events[n].cycle = c

(* A row that recovery closes has its crashed_cycle_recovered event in the *)
(* store, even if the process crashes again between the two writes.  Two   *)
(* rows have none, and no others: one whose key is no UUID, and one whose  *)
(* event could not be written (cold_start.rs, recover_inflight_cycles).    *)
RecoveryIsAnnounced ==
  [][\A c \in Cycles :
       RecoveryCloses(c) /\ IsUuid(c) /\ main # "unheard" => HasEvent(c)]_vars

(* "The daemon emits one crashed_cycle_recovered event per row"            *)
(* (docs/fr/07-recovery.md).                                               *)
EveryRecoveryIsAnnounced ==
  [][\A c \in Cycles : RecoveryCloses(c) => HasEvent(c)]_vars

(* The sweep takes no directory after a partial enumeration, and never one *)
(* of a ticket that this boot works on, though its tasks run already.      *)
SweepSparesWork ==
  /\ partial => deleted = {}
  /\ main = "sweep" => \A t \in deleted \cap Tickets : ~LiveTask(t)

(* The store mirrors the cache: with no write of a ticket pending, its row *)
(* says admitted exactly if it has an entry, through any number of crashes *)
(* between the two writes.  The only way apart is that the dispatcher and  *)
(* the task overtake each other (cache.rs, the dual write of observe and   *)
(* evict), and that lasts until the next boot at most.                     *)
Pending(t) == task[t] = "evict" \/ (main \in {"mirror", "unmirror"} /\ at = t)

StoreMirrorsCache ==
  Booted =>
    \A t \in Tickets \ crossed : ~Pending(t) => (t \in ListAdmitted(db) <=> t \in DOMAIN cache)

(* Every rule names its states. *)
Selective(lists) == \A e \in ToSet(lists.rules) : ~Drops(e)

(* With such rules, cold start enumerates every issue that some entry      *)
(* would act on: the status filter loses nothing.                          *)
EnumerationCovers ==
  main = "enumerate" /\ (\A lists \in Sources(wf) : Selective(lists)) =>
    \A t \in Tickets :
      LET ticket == SynthNormalized(Issue(t, linear[t])) IN
        /\ Accepts(ticket, wf, Me)
        /\ EvaluateFromCache(t, Entry(ticket, wf.repo), wf, "default") # "none"
        => Enumerable(Issue(t, linear[t]), wf, Me)

(* Templates see the title of the ticket ("Current Linear state").         *)
CyclesSeeTheTitle == \A t \in Tickets : run[t] # NoCycle => seen[t].title # <<>>

(* Cache, store and running cycles agree through crashes, of any boot: the *)
(* state that one boot leaves is one that the next can start from          *)
(* (cold_start.rs, cache.rs, store_handle.rs).                             *)
StoreInv == TypeOK /\ OpenRowsAreRunning /\ StoreMirrorsCache
===============================================================================
