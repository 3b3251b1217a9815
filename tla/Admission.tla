------------------------------ MODULE Admission -------------------------------
(***************************************************************************)
(* Which tickets the daemon works on, and with which entry of the          *)
(* workflow: the admission filter, the `when' clauses, first-match         *)
(* dispatch and the status filter that cold start derives from them.       *)
(*                                                                         *)
(* A ticket is a record of its id, assignee, status, labels, title and     *)
(* body; a text is the sequence of its words.  A matcher is a record of an *)
(* operator and its operand, NoMatcher where the clause has none.  An      *)
(* entry is a `when' clause and the shape of its state machine.            *)
(***************************************************************************)
EXTENDS Naturals, Sequences, SequencesExt

CONSTANTS
  NoMatcher,  (* an axis without a matcher, an entry without a clause      *)
  None,       (* no assignee, no repository, no entry                      *)
  Malformed   (* a file that has not the schema of a workflow              *)

Eq(s) == [op |-> "eq", arg |-> {s}]
Not(s) == [op |-> "not", arg |-> {s}]
In(ss) == [op |-> "in", arg |-> ss]

(* A clause that constrains nothing: WhenClause::default(). *)
NoClause ==
  [axis \in {"status", "labels", "assignee", "repo", "title", "body"} |-> NoMatcher]

(* The fields of a ticket that triple detection and matching read. *)
NormalizedTicket(id, assignee, status, labels, title, body) ==
  [id |-> id, assignee |-> assignee, status |-> status, labels |-> labels,
   title |-> title, body |-> body]

(* A webhook body yields a ticket only if it names an id, an assignee, a   *)
(* state and well-formed labels; title and description default to empty.   *)
ParseTicket(data) ==
  IF {"id", "assignee", "status", "labels"} \subseteq DOMAIN data
  THEN NormalizedTicket(data.id, data.assignee, data.status, data.labels,
                        IF "title" \in DOMAIN data THEN data.title ELSE <<>>,
                        IF "body" \in DOMAIN data THEN data.body ELSE <<>>)
  ELSE None

(* An enumerated issue keeps its assignee optional, and its identifier     *)
(* stands in for the title.                                                *)
SynthNormalized(issue) ==
  NormalizedTicket(issue.id, issue.assignee, issue.status, issue.labels,
                   <<issue.id>>, issue.body)

-----------------------------------------------------------------------------
(* The admission filter: the configured assignee, or the viewer for "me",  *)
(* and the first admission.repos entry.                                    *)
Expected(wf, me) == IF wf.assignee = "me" THEN me ELSE wf.assignee

Accepts(ticket, wf, me) == ticket.assignee = Expected(wf, me) /\ wf.repo # None

Admitted(ticket, wf) == [ticket |-> ticket, ghq |-> wf.repo]

-----------------------------------------------------------------------------
(* The `when' clause: every axis that has a matcher must accept.           *)
ScalarMatches(m, value) == (value \in m.arg) = (m.op # "not")

LabelsMatch(m, labels) ==
  /\ m.has_all \subseteq labels
  /\ m.has_any = NoMatcher \/ m.has_any \cap labels # {}
  /\ m.has_none \cap labels = {}

(* `regex' is a search for the pattern as a plain substring. *)
TextMatches(m, text) ==
  IF m.op = "starts_with" THEN text # <<>> /\ Head(text) = m.arg
  ELSE \E i \in 1 .. Len(text) : text[i] = m.arg

MatchesWhen(when, admitted) ==
  LET t == admitted.ticket IN
    when # NoMatcher =>
      /\ when.status # NoMatcher => ScalarMatches(when.status, t.status)
      /\ when.labels # NoMatcher => LabelsMatch(when.labels, t.labels)
      /\ when.assignee # NoMatcher =>
           ScalarMatches(when.assignee, IF t.assignee = None THEN "" ELSE t.assignee)
      /\ when.repo # NoMatcher => when.repo = admitted.ghq
      /\ when.title # NoMatcher => TextMatches(when.title, t.title)
      /\ when.body # NoMatcher => TextMatches(when.body, t.body)

FirstMatch(admitted, entries) ==
  LET hits == {i \in 1 .. Len(entries) : MatchesWhen(entries[i].when, admitted)} IN
    IF hits = {} THEN None ELSE entries[CHOOSE i \in hits : \A j \in hits : i <= j]

(* A machine without states whose start is the built-in success terminal.  *)
IsShorthand(entry) == entry.states = {} /\ entry.start = "__success__"

-----------------------------------------------------------------------------
(* Loading.  A file system maps a path to a raw workflow, or to Malformed; *)
(* a path outside it is not found.  A raw entry says which of its body's   *)
(* keys are there.                                                         *)
(* The untagged body: canonical, sugar or empty, tried in this order, and  *)
(* no other set of keys.                                                   *)
Body(keys) ==
  IF {"start", "states", "terminals"} \subseteq keys
     /\ keys \subseteq {"start", "states", "terminals", "on_fail"} THEN "canonical"
  ELSE IF "tasks" \in keys /\ keys \subseteq {"tasks", "states", "terminals", "on_fail"}
       THEN "sugar"
  ELSE IF keys = {} THEN "empty" ELSE "none"

AllEntries(raw) == ToSet(raw.rules) \cup ToSet(raw.cleanup) \cup ToSet(raw.on_failure)

(* An empty body means immediate deletion, which only a cleanup may ask.   *)
ParsedFile(fs, path) ==
  IF path \notin DOMAIN fs THEN "missing"
  ELSE IF fs[path] = Malformed THEN "unparsed"
  ELSE IF \/ \E e \in AllEntries(fs[path]) : Body(e.keys) = "none"
          \/ \E e \in ToSet(fs[path].rules) \cup ToSet(fs[path].on_failure) :
               Body(e.keys) = "empty"
  THEN "unparsed" ELSE "parsed"

(* A declared path is absolute, under the home directory or next to the    *)
(* file that names it; a `~name' path or a missing home is an error.       *)
Resolve(path, hasHome) ==
  CASE path.form = "absolute" -> path.name
    [] path.form = "home" /\ hasHome -> path.name
    [] path.form = "relative" -> path.name
    [] OTHER -> None

(* Expansion turns an empty body into the machine that succeeds at once;   *)
(* WorkflowExpansion has the rest, and what of it is refused.              *)
Expand(entry) ==
  [when |-> entry.when,
   states |-> IF Body(entry.keys) = "empty" THEN {} ELSE {"a"},
   start |-> IF Body(entry.keys) = "empty" THEN "__success__" ELSE "a"]

ExpandAll(entries) == [i \in DOMAIN entries |-> Expand(entries[i])]

Failed(reason) == [error |-> reason]

(* The override files are read before anything is expanded; each replaces  *)
(* the lists of its repository, and of two for one repository the later    *)
(* one stays.  Only the first repository is kept for admission.            *)
LoadWorkflow(fs, top, hasHome) ==
  IF ParsedFile(fs, top) # "parsed" THEN Failed(ParsedFile(fs, top))
  ELSE LET raw == fs[top]
           repos == IF raw.admission = None THEN <<>> ELSE raw.admission.repos
           split == {i \in DOMAIN repos : repos[i].workflow # None}
           PathOf(i) == Resolve(repos[i].workflow, hasHome)
           LastOf(ghq) == Max({i \in split : repos[i].ghq = ghq})
  IN IF \E i \in split : ParsedFile(fs, PathOf(i)) # "parsed" THEN Failed("override")
     ELSE IF raw.admission = None THEN Failed("no admission")
     ELSE [assignee |-> raw.admission.assignee,
           repo |-> IF repos = <<>> THEN None ELSE repos[1].ghq,
           rules |-> ExpandAll(raw.rules), cleanup |-> ExpandAll(raw.cleanup),
           overrides |->
             [ghq \in {repos[i].ghq : i \in split} |->
                [rules |-> ExpandAll(fs[PathOf(LastOf(ghq))].rules),
                 cleanup |-> ExpandAll(fs[PathOf(LastOf(ghq))].cleanup)]]]

Loaded(result) == "error" \notin DOMAIN result

(* What healthz names: the first repository and every override. *)
AdmissionRepos(wf) == ({wf.repo} \ {None}) \cup DOMAIN wf.overrides

-----------------------------------------------------------------------------
(* The lists of a repository: its override file replaces all of them.      *)
EntriesFor(wf, ghq) ==
  IF ghq \in DOMAIN wf.overrides THEN wf.overrides[ghq]
  ELSE [rules |-> wf.rules, cleanup |-> wf.cleanup]

(* Cleanups first, then rules; `roki cleanup' stops at the cleanups. *)
Evaluate(admitted, wf, mode) ==
  LET lists == EntriesFor(wf, admitted.ghq)
      c == FirstMatch(admitted, lists.cleanup)
      r == FirstMatch(admitted, lists.rules)
  IN IF c # None THEN IF IsShorthand(c) THEN "shorthand" ELSE "cleanup"
     ELSE IF mode = "default" /\ r # None THEN "rule" ELSE "none"

(* A ticket task evaluates what the cache kept: no title and no body.      *)
Synthesize(id, entry) ==
  [ticket |-> NormalizedTicket(id, entry.assignee, entry.status, entry.labels, <<>>, <<>>),
   ghq |-> entry.repo]

EvaluateFromCache(id, entry, wf, mode) == Evaluate(Synthesize(id, entry), wf, mode)

-----------------------------------------------------------------------------
(* The status filter of the cold-start query.                              *)

(* The entry names its statuses: `not' excludes one and names none.        *)
Named(entry) ==
  /\ entry.when # NoMatcher
  /\ entry.when.status # NoMatcher
  /\ entry.when.status.op # "not"

Seeds(entry) == IF Named(entry) THEN entry.when.status.arg ELSE {}

(* A cleanup without them drops the whole filter. *)
Drops(entry) == ~Named(entry)

Sources(wf) ==
  {[rules |-> wf.rules, cleanup |-> wf.cleanup]}
    \cup {wf.overrides[ghq] : ghq \in DOMAIN wf.overrides}

SeedsOnly(wf) ==
  UNION {UNION {Seeds(e) : e \in ToSet(s.rules) \cup ToSet(s.cleanup)} : s \in Sources(wf)}

(* Mutant of StatusUnion: an entry without seeds adds none, that is all. *)
StatusUnionKept(wf) == SeedsOnly(wf)

(* Empty is no filter. *)
StatusUnion(wf) ==
  IF \E s \in Sources(wf) : \E e \in ToSet(s.cleanup) : Drops(e) THEN {} ELSE SeedsOnly(wf)

(* Linear answers with the assignee's issues in those states, with every   *)
(* issue of the assignee when the union is empty.                          *)
Enumerable(issue, wf, me) ==
  /\ issue.assignee = Expected(wf, me)
  /\ StatusUnion(wf) # {} => issue.status \in StatusUnion(wf)
===============================================================================
