----------------------------- MODULE TarjanProofs -----------------------------
(***************************************************************************)
(* For every machine, whatever its states and edges and in whatever order  *)
(* they are visited: Tarjan's algorithm finds the classes of mutual        *)
(* reachability and nothing else, the caps that are injected reach every   *)
(* loop, and no entry that is well written is turned down.                 *)
(*                                                                         *)
(* Reachability is defined by closed sets of states, so that everything    *)
(* needed of it follows without an induction over paths.                   *)
(***************************************************************************)
EXTENDS TarjanScc, FiniteSetTheorems, SequenceTheorems, TLAPS

-----------------------------------------------------------------------------
(* Reachability. *)

LEMMA NeighbourIsState ==
  ASSUME NEW g, NEW x
  PROVE  Neighbours(g, x) \subseteq DOMAIN g.states
BY DEF Neighbours

LEMMA ReachSelf ==
  ASSUME NEW g, NEW x
  PROVE  Reaches(g, x, x)
BY DEF Reaches

LEMMA ReachTrans ==
  ASSUME NEW g, NEW x, NEW y, NEW z, Reaches(g, x, y), Reaches(g, y, z)
  PROVE  Reaches(g, x, z)
BY DEF Reaches

LEMMA ReachEdge ==
  ASSUME NEW g, NEW x, NEW y \in Neighbours(g, x)
  PROVE  Reaches(g, x, y)
BY DEF Reaches, Closed

LEMMA ReachStaysClosed ==
  ASSUME NEW g, NEW S \in SUBSET DOMAIN g.states, Closed(g, S),
         NEW x \in S, NEW y, Reaches(g, x, y)
  PROVE  y \in S
BY DEF Reaches

(* A class is the class of each of its members. *)
LEMMA ComponentOfMember ==
  ASSUME NEW g, NEW x, NEW y \in Component(g, x)
  PROVE  Component(g, y) = Component(g, x)
BY ReachTrans DEF Component

LEMMA ComponentOfItself ==
  ASSUME NEW g, NEW x \in DOMAIN g.states
  PROVE  x \in Component(g, x)
BY ReachSelf DEF Component

(* What an emitted component has to be: a set of states that reach one of  *)
(* them and are reached by it, closed but for states whose edges lead      *)
(* nowhere else.                                                           *)
LEMMA EmittedIsComponent ==
  ASSUME NEW g, NEW A \in SUBSET DOMAIN g.states, NEW P \in SUBSET DOMAIN g.states,
         NEW r \in A, A \cap P = {}, Closed(g, P), Closed(g, A \cup P),
         \A x \in A : Reaches(g, x, r) /\ Reaches(g, r, x)
  PROVE  A = Component(g, r)
<1>1. A \subseteq Component(g, r)
  BY DEF Component
<1>2. ASSUME NEW x \in Component(g, r) PROVE x \in A
  <2>1. Reaches(g, r, x) /\ Reaches(g, x, r)
    BY DEF Component
  <2>2. x \in A \cup P
    BY <2>1, ReachStaysClosed
  <2>3. CASE x \in P
    <3>1. r \in P
      BY <2>1, <2>3, ReachStaysClosed
    <3> QED
      BY <3>1
  <2> QED
    BY <2>2, <2>3
<1> QED
  BY <1>1, <1>2

-----------------------------------------------------------------------------
(* The inductive invariant. *)

(* The state whose call is the i-th active one. *)
Caller(i) == frames[i].state

Popped == UNION sccs

(* The stack holds what is discovered and has no component yet, in order   *)
(* of discovery.                                                           *)
StackInv ==
  /\ Discovered \subseteq DOMAIN m.states /\ IsFiniteSet(Discovered)
  /\ indices \in [Discovered -> Nat] /\ lowlinks \in [Discovered -> Nat]
  /\ \A x \in Discovered : indices[x] < Cardinality(Discovered)
  /\ \A x, y \in Discovered : indices[x] = indices[y] => x = y
  /\ stack \in Seq(DOMAIN m.states)
  /\ on_stack = ToSet(stack)
  /\ \A i, j \in DOMAIN stack : i < j => indices[stack[i]] < indices[stack[j]]
  /\ Discovered = on_stack \cup Popped
  /\ on_stack \cap Popped = {}

(* The active calls are on the stack, in the same order; each of them      *)
(* reaches all that is above it there, and all on the stack reach one that *)
(* is not above them.                                                      *)
CallsInv ==
  /\ frames \in Seq([state : DOMAIN m.states, rest : SUBSET DOMAIN m.states])
  /\ \A i \in DOMAIN frames :
       Caller(i) \in on_stack /\ frames[i].rest \subseteq Neighbours(m, Caller(i))
  /\ \A i, j \in DOMAIN frames : i < j => indices[Caller(i)] < indices[Caller(j)]
  /\ \A i \in DOMAIN frames : \A x \in on_stack :
       indices[Caller(i)] <= indices[x] => Reaches(m, Caller(i), x)
  /\ \A x \in on_stack : \E i \in DOMAIN frames :
       indices[Caller(i)] <= indices[x] /\ Reaches(m, x, Caller(i))

(* What an edge leads to is discovered, unless its turn has not come; no   *)
(* edge leaves what has its component.                                     *)
ScanInv ==
  /\ \A x \in Discovered : \A y \in Neighbours(m, x) :
       \/ y \in Discovered
       \/ \E i \in DOMAIN frames : Caller(i) = x /\ y \in frames[i].rest
  /\ Closed(m, Popped)

(* The lowlink of a call is the index of a state on the stack that it      *)
(* reaches, and no edge that it or a call it made has scanned leads below. *)
LowInv ==
  /\ \A i \in DOMAIN frames :
       /\ lowlinks[Caller(i)] <= indices[Caller(i)]
       /\ \E x \in on_stack :
            indices[x] = lowlinks[Caller(i)] /\ Reaches(m, Caller(i), x)
  /\ \A i \in DOMAIN frames : \A x \in on_stack : \A y \in Neighbours(m, x) \cap on_stack :
       /\ indices[Caller(i)] <= indices[x]
       /\ i + 1 \in DOMAIN frames => indices[x] < indices[Caller(i + 1)]
       => lowlinks[Caller(i)] <= indices[y] \/ (x = Caller(i) /\ y \in frames[i].rest)

(* The state in which a search starts. *)
NothingFound ==
  /\ indices = Empty /\ lowlinks = Empty
  /\ stack = <<>> /\ on_stack = {}
  /\ sccs = {} /\ frames = <<>>

(* The machine that is searched, and how it has come about. *)
MachineInv ==
  /\ stage \in {"build", "cap", "validate", "loaded", "rejected"}
  /\ body \in Bodies
  /\ IsMachine(m)
  /\ stage = "build" => NothingFound
  /\ stage = "cap" => HasBody(body) /\ m = Assemble(body)
  /\ stage \in {"validate", "loaded"} => HasBody(body) /\ m = Expand(body)
  /\ stage = "loaded" => Valid(m, Components(m))
  /\ WellWrittenLoads

SearchCore == StackInv /\ CallsInv /\ ScanInv /\ LowInv /\ sccs \subseteq Components(m)

IInv == SearchCore /\ MachineInv

-----------------------------------------------------------------------------
(* The stack. *)

LEMMA Shortened ==
  ASSUME NEW S, NEW q \in Seq(S), NEW n \in 0 .. Len(q)
  PROVE  /\ SubSeq(q, 1, n) \in Seq(S)
         /\ Len(SubSeq(q, 1, n)) = n /\ DOMAIN SubSeq(q, 1, n) = 1 .. n
         /\ \A i \in 1 .. n : SubSeq(q, 1, n)[i] = q[i]
<1>1. Len(q) \in Nat /\ \A i \in 1 .. Len(q) : q[i] \in S
  OBVIOUS
<1>2. \A i \in 1 .. n : q[i] \in S
  BY <1>1
<1>3. /\ SubSeq(q, 1, n) \in Seq(S)
      /\ Len(SubSeq(q, 1, n)) = IF 1 <= n THEN n - 1 + 1 ELSE 0
      /\ \A i \in 1 .. n - 1 + 1 : SubSeq(q, 1, n)[i] = q[1 + i - 1]
  BY <1>2, SubSeqProperties
<1>4. Len(SubSeq(q, 1, n)) = n
  BY <1>3, n \in Nat
<1>5. \A i \in 1 .. n : SubSeq(q, 1, n)[i] = q[i]
  BY <1>3, n \in Nat
<1> QED
  BY <1>3, <1>4, <1>5

LEMMA AboveIsLater ==
  ASSUME StackInv, NEW s \in on_stack
  PROVE  /\ Above(s) = {x \in on_stack : indices[s] <= indices[x]}
         /\ Below(s) \in Seq(DOMAIN m.states)
         /\ ToSet(Below(s)) = {x \in on_stack : indices[x] < indices[s]}
         /\ \A i, j \in DOMAIN Below(s) :
              i < j => indices[Below(s)[i]] < indices[Below(s)[j]]
<1> DEFINE k == CHOOSE i \in DOMAIN stack : stack[i] = s
<1>1. k \in DOMAIN stack /\ stack[k] = s
  BY DEF StackInv, ToSet
<1>2. /\ stack \in Seq(DOMAIN m.states) /\ Len(stack) \in Nat
      /\ DOMAIN stack = 1 .. Len(stack)
      /\ on_stack = {stack[i] : i \in DOMAIN stack}
  BY DEF StackInv, ToSet
<1>3. /\ \A i, j \in DOMAIN stack : i < j => indices[stack[i]] < indices[stack[j]]
      /\ \A i \in DOMAIN stack : indices[stack[i]] \in Nat
  BY <1>2 DEF StackInv
<1>4. Below(s) = SubSeq(stack, 1, k - 1)
  BY DEF Below
<1> HIDE DEF k
<1>5. k \in 1 .. Len(stack)
  BY <1>1, <1>2
<1>6. \A i \in DOMAIN stack :
        /\ i < k => indices[stack[i]] < indices[s]
        /\ k <= i => indices[s] <= indices[stack[i]]
  BY <1>1, <1>2, <1>3
<1>7. Above(s) = {x \in on_stack : indices[s] <= indices[x]}
  <2>1. \A i \in DOMAIN stack : (\E j \in 1 .. i : stack[j] = s) <=> k <= i
    <3>1. \A j \in DOMAIN stack : stack[j] = s => j = k
      BY <1>1, <1>2, <1>3
    <3> QED
      BY <3>1, <1>1, <1>2
  <2>2. Above(s) = {stack[i] : i \in {j \in DOMAIN stack : k <= j}}
    BY <2>1 DEF Above
  <2>3. \A i \in DOMAIN stack : k <= i <=> indices[s] <= indices[stack[i]]
    BY <1>1, <1>2, <1>3, <1>6
  <2> QED
    BY <2>2, <2>3, <1>2
<1>8. /\ Below(s) \in Seq(DOMAIN m.states)
      /\ Len(Below(s)) = k - 1 /\ DOMAIN Below(s) = 1 .. k - 1
      /\ \A i \in 1 .. k - 1 : Below(s)[i] = stack[i]
  <2> DEFINE n == k - 1
  <2>1. n \in 0 .. Len(stack) /\ Below(s) = SubSeq(stack, 1, n)
    BY <1>2, <1>4, <1>5
  <2>2. stack \in Seq(DOMAIN m.states)
    BY <1>2
  <2> HIDE DEF n
  <2>3. /\ Below(s) \in Seq(DOMAIN m.states)
        /\ Len(Below(s)) = n /\ DOMAIN Below(s) = 1 .. n
        /\ \A i \in 1 .. n : Below(s)[i] = stack[i]
    <3>1. /\ SubSeq(stack, 1, n) \in Seq(DOMAIN m.states)
          /\ Len(SubSeq(stack, 1, n)) = n /\ DOMAIN SubSeq(stack, 1, n) = 1 .. n
          /\ \A i \in 1 .. n : SubSeq(stack, 1, n)[i] = stack[i]
      BY <2>1, <2>2, Shortened
    <3> QED
      BY <3>1, <2>1
  <2> QED
    BY <2>3 DEF n
<1>9. ToSet(Below(s)) = {x \in on_stack : indices[x] < indices[s]}
  <2>1. ToSet(Below(s)) = {stack[i] : i \in 1 .. k - 1}
    BY <1>8 DEF ToSet
  <2>2. \A i \in DOMAIN stack : i \in 1 .. k - 1 <=> indices[stack[i]] < indices[s]
    BY <1>1, <1>2, <1>3, <1>5, <1>6
  <2>3. \A i \in 1 .. k - 1 : i \in DOMAIN stack
    BY <1>2, <1>5
  <2> QED
    BY <2>1, <2>2, <2>3, <1>2
<1>10. \A i, j \in DOMAIN Below(s) :
         i < j => indices[Below(s)[i]] < indices[Below(s)[j]]
  BY <1>2, <1>3, <1>5, <1>8
<1> QED
  BY <1>7, <1>8, <1>9, <1>10

(* Nothing is active: nothing waits either. *)
LEMMA NothingWaits ==
  ASSUME StackInv, CallsInv, frames = <<>>
  PROVE  on_stack = {}
BY DEF CallsInv

-----------------------------------------------------------------------------
(* The search. *)

Frames == [state : DOMAIN m.states, rest : SUBSET DOMAIN m.states]

(* A call for a state that is not discovered keeps the invariant.  callers *)
(* are the active calls, the last of which may have taken s from its rest. *)
LEMMA EnterKeeps ==
  ASSUME SearchCore, NEW s \in DOMAIN m.states, s \notin Discovered,
         NEW callers \in Seq(Frames), Len(callers) = Len(frames),
         \A i \in DOMAIN frames :
           /\ callers[i].state = Caller(i)
           /\ callers[i].rest \subseteq frames[i].rest
           /\ frames[i].rest \subseteq callers[i].rest \cup {s},
         frames # <<>> => s \in Neighbours(m, Caller(Len(frames))),
         Enter(s, callers)
  PROVE  SearchCore'
<1> DEFINE n == Cardinality(Discovered)
           N == Len(frames)
<1>1. /\ n \in Nat /\ Cardinality(Discovered') = n + 1 /\ IsFiniteSet(Discovered')
      /\ Discovered' = Discovered \cup {s} /\ m' = m /\ sccs' = sccs
      /\ DOMAIN lowlinks' = Discovered'
      /\ indices'[s] = n /\ lowlinks'[s] = n
      /\ \A x \in Discovered : indices'[x] = indices[x] /\ lowlinks'[x] = lowlinks[x]
  <2>1. /\ indices' = [t \in Discovered \cup {s} |-> IF t = s THEN n ELSE indices[t]]
        /\ lowlinks' = [t \in Discovered \cup {s} |-> IF t = s THEN n ELSE lowlinks[t]]
    BY DEF Enter, Extend, SearchCore, StackInv, Discovered
  <2>2. Discovered' = Discovered \cup {s} /\ IsFiniteSet(Discovered) /\ m' = m /\ sccs' = sccs
    BY <2>1 DEF Discovered, SearchCore, StackInv, Enter
  <2>3. IsFiniteSet(Discovered') /\ n \in Nat /\ Cardinality(Discovered') = n + 1
    BY <2>2, FS_AddElement, FS_CardinalityType
  <2> HIDE DEF n
  <2> QED
    BY <2>1, <2>2, <2>3
<1>2. /\ stack' \in Seq(DOMAIN m.states) /\ Len(stack') = Len(stack) + 1
      /\ Len(stack) \in Nat /\ DOMAIN stack = 1 .. Len(stack)
      /\ DOMAIN stack' = 1 .. Len(stack) + 1
      /\ \A i \in DOMAIN stack : stack'[i] = stack[i]
      /\ stack'[Len(stack) + 1] = s
      /\ on_stack' = on_stack \cup {s}
  <2>1. stack \in Seq(DOMAIN m.states) /\ stack' = Append(stack, s) /\ on_stack' = on_stack \cup {s}
    BY DEF SearchCore, StackInv, Enter
  <2> QED
    BY <2>1, AppendProperties
<1>3. /\ N \in Nat /\ DOMAIN frames = 1 .. N /\ DOMAIN frames' = 1 .. N + 1
      /\ frames' \in Seq(Frames)
      /\ \A i \in 1 .. N : /\ i \in DOMAIN frames' /\ frames'[i].state = Caller(i)
                           /\ frames'[i].rest \subseteq frames[i].rest
                           /\ frames[i].rest \subseteq frames'[i].rest \cup {s}
      /\ frames'[N + 1].state = s /\ frames'[N + 1].rest = Neighbours(m, s)
  <2> DEFINE call == [state |-> s, rest |-> Neighbours(m, s)]
  <2>1. call \in Frames /\ call.state = s /\ call.rest = Neighbours(m, s)
    BY NeighbourIsState DEF Frames
  <2>2. frames \in Seq(Frames) /\ frames' = Append(callers, call)
    BY DEF SearchCore, CallsInv, Frames, Enter
  <2> HIDE DEF call
  <2>3. N \in Nat /\ DOMAIN frames = 1 .. N /\ Len(callers) = N
    BY <2>2
  <2>4. /\ frames' \in Seq(Frames) /\ Len(frames') = N + 1 /\ DOMAIN frames' = 1 .. N + 1
        /\ frames'[N + 1] = call
        /\ \A i \in 1 .. N : frames'[i] = callers[i]
    BY <2>1, <2>2, <2>3, AppendProperties
  <2> QED
    BY <2>1, <2>3, <2>4
<1> HIDE DEF n, N
<1>4. /\ Discovered \subseteq DOMAIN m.states
      /\ indices \in [Discovered -> Nat] /\ lowlinks \in [Discovered -> Nat]
      /\ \A x \in Discovered : indices[x] < n
      /\ on_stack \subseteq Discovered /\ Popped \subseteq Discovered
      /\ s \notin on_stack /\ s \notin Popped
  BY DEF SearchCore, StackInv, n
<1>5. \A x \in Discovered : /\ indices'[x] = indices[x] /\ lowlinks'[x] = lowlinks[x]
                            /\ indices[x] \in Nat /\ lowlinks[x] \in Nat
                            /\ indices[x] < n /\ x # s
  BY <1>1, <1>4
<1>6. StackInv'
  <2>1. /\ Discovered' \subseteq DOMAIN m'.states
        /\ indices' \in [Discovered' -> Nat] /\ lowlinks' \in [Discovered' -> Nat]
    <3>1. DOMAIN indices' = Discovered' /\ DOMAIN lowlinks' = Discovered'
      BY <1>1 DEF Discovered
    <3>2. \A x \in Discovered' : indices'[x] \in Nat /\ lowlinks'[x] \in Nat
      BY <1>1, <1>5
    <3>3. /\ indices' = [x \in DOMAIN indices' |-> indices'[x]]
          /\ lowlinks' = [x \in DOMAIN lowlinks' |-> lowlinks'[x]]
      BY DEF Enter, Extend
    <3> QED
      BY <1>1, <1>4, <3>1, <3>2, <3>3
  <2>2. /\ \A x \in Discovered' : indices'[x] < Cardinality(Discovered')
        /\ \A x, y \in Discovered' : indices'[x] = indices'[y] => x = y
    BY <1>1, <1>5 DEF SearchCore, StackInv
  <2>3. on_stack' = ToSet(stack)' /\ stack' \in Seq(DOMAIN m'.states)
    <3>1. on_stack = {stack[i] : i \in DOMAIN stack}
      BY DEF SearchCore, StackInv, ToSet
    <3>2. {stack'[i] : i \in DOMAIN stack'} = {stack'[i] : i \in DOMAIN stack} \cup {s}
      BY <1>2
    <3>3. {stack'[i] : i \in DOMAIN stack} = {stack[i] : i \in DOMAIN stack}
      BY <1>2
    <3> QED
      BY <1>1, <1>2, <3>1, <3>2, <3>3 DEF ToSet
  <2>4. \A i, j \in DOMAIN stack' : i < j => indices'[stack'[i]] < indices'[stack'[j]]
    <3>1. \A i \in DOMAIN stack : stack[i] \in Discovered
      BY <1>4 DEF SearchCore, StackInv, ToSet
    <3>2. \A i, j \in DOMAIN stack : i < j => indices[stack[i]] < indices[stack[j]]
      BY DEF SearchCore, StackInv
    <3>3. \A i \in DOMAIN stack : indices'[stack'[i]] = indices[stack[i]]
      BY <3>1, <1>2, <1>5
    <3>4. \A i, j \in DOMAIN stack : i < j => indices'[stack'[i]] < indices'[stack'[j]]
      BY <3>2, <3>3
    <3>5. \A i \in DOMAIN stack : indices'[stack'[i]] < n
      BY <3>1, <3>3, <1>5
    <3>6. \A i, j \in DOMAIN stack' : i < j => i \in DOMAIN stack
      BY <1>2
    <3>7. \A j \in DOMAIN stack' : j \in DOMAIN stack \/ indices'[stack'[j]] = n
      BY <1>2, <1>1
    <3> QED
      BY <3>4, <3>5, <3>6, <3>7
  <2>5. Discovered' = on_stack' \cup Popped' /\ on_stack' \cap Popped' = {}
    BY <1>1, <1>2, <1>4 DEF SearchCore, StackInv, Popped
  <2> QED
    BY <1>1, <2>1, <2>2, <2>3, <2>4, <2>5 DEF StackInv
<1>7. /\ \A i \in 1 .. N : Caller(i) \in on_stack /\ Caller(i) \in Discovered
      /\ \A i \in DOMAIN frames' : i \in 1 .. N \/ i = N + 1
      /\ \A x \in on_stack' : x \in on_stack \/ x = s
  <2>1. \A i \in 1 .. N : Caller(i) \in on_stack
    BY <1>3 DEF SearchCore, CallsInv
  <2>2. \A i \in DOMAIN frames' : i \in 1 .. N \/ i = N + 1
    BY <1>3
  <2> QED
    BY <2>1, <2>2, <1>2, <1>4
<1>8. \A i \in 1 .. N : /\ indices'[Caller(i)'] = indices[Caller(i)]
                        /\ lowlinks'[Caller(i)'] = lowlinks[Caller(i)]
                        /\ indices[Caller(i)] \in Nat /\ indices[Caller(i)] < n
                        /\ Caller(i)' = Caller(i) /\ Caller(i) # s
  BY <1>3, <1>5, <1>7 DEF Caller
<1>9. \A i : i = N + 1 =>
        Caller(i)' = s /\ indices'[Caller(i)'] = n /\ lowlinks'[Caller(i)'] = n
  BY <1>1, <1>3 DEF Caller
<1>10. \A i \in 1 .. N : Reaches(m, Caller(i), s)
  <2> SUFFICES ASSUME NEW i \in 1 .. N PROVE Reaches(m, Caller(i), s)
    OBVIOUS
  <2>1. N \in DOMAIN frames /\ frames # <<>> /\ i \in DOMAIN frames
    BY <1>3
  <2>2. indices[Caller(i)] <= indices[Caller(N)]
    <3>1. i < N => indices[Caller(i)] < indices[Caller(N)]
      BY <2>1 DEF SearchCore, CallsInv
    <3> QED
      BY <3>1, <1>3, <1>8, <2>1
  <2>3. Reaches(m, Caller(i), Caller(N))
    BY <2>1, <2>2, <1>7, <1>3 DEF SearchCore, CallsInv
  <2>4. Reaches(m, Caller(N), s)
    BY <2>1, ReachEdge DEF N
  <2> QED
    BY <2>3, <2>4, ReachTrans
<1>11. CallsInv'
  <2>1. frames' \in Seq([state : DOMAIN m'.states, rest : SUBSET DOMAIN m'.states])
    BY <1>1, <1>3 DEF Frames
  <2>2. \A i \in DOMAIN frames' :
          Caller(i)' \in on_stack' /\ frames'[i].rest \subseteq Neighbours(m, Caller(i))'
    <3>1. \A i \in 1 .. N : frames[i].rest \subseteq Neighbours(m, Caller(i))
      BY <1>3 DEF SearchCore, CallsInv
    <3>2. \A i \in 1 .. N :
            Caller(i)' \in on_stack' /\ frames'[i].rest \subseteq Neighbours(m, Caller(i))'
      BY <3>1, <1>1, <1>2, <1>3, <1>7, <1>8
    <3>3. \A i : i = N + 1 =>
            Caller(i)' \in on_stack' /\ frames'[i].rest \subseteq Neighbours(m, Caller(i))'
      BY <1>1, <1>2, <1>3, <1>9
    <3> QED
      BY <3>2, <3>3, <1>7
  <2>3. \A i, j \in DOMAIN frames' : i < j => indices'[Caller(i)'] < indices'[Caller(j)']
    <3>1. \A i, j \in 1 .. N : i < j => indices[Caller(i)] < indices[Caller(j)]
      BY <1>3 DEF SearchCore, CallsInv
    <3> QED
      BY <3>1, <1>3, <1>7, <1>8, <1>9
  <2>4. \A i \in DOMAIN frames' : \A x \in on_stack' :
          indices'[Caller(i)'] <= indices'[x] => Reaches(m, Caller(i), x)'
    <3>1. \A i \in 1 .. N : \A x \in on_stack :
            indices[Caller(i)] <= indices[x] => Reaches(m, Caller(i), x)
      BY <1>3 DEF SearchCore, CallsInv
    <3>2. \A x \in on_stack : indices'[x] = indices[x] /\ indices[x] < n /\ indices[x] \in Nat
      BY <1>4, <1>5
    <3> QED
      BY <3>1, <3>2, <1>1, <1>7, <1>8, <1>9, <1>10, ReachSelf
  <2>5. \A x \in on_stack' : \E i \in DOMAIN frames' :
          indices'[Caller(i)'] <= indices'[x] /\ Reaches(m, x, Caller(i))'
    <3>1. ASSUME NEW x \in on_stack
          PROVE  \E i \in DOMAIN frames' :
                   indices'[Caller(i)'] <= indices'[x] /\ Reaches(m, x, Caller(i))'
      <4>1. PICK i \in 1 .. N : indices[Caller(i)] <= indices[x] /\ Reaches(m, x, Caller(i))
        BY <1>3 DEF SearchCore, CallsInv
      <4> QED
        <5>1. i \in DOMAIN frames' /\ indices'[x] = indices[x]
          BY <1>3, <1>4, <1>5
        <5>2. indices'[Caller(i)'] <= indices'[x] /\ Reaches(m, x, Caller(i))'
          BY <4>1, <5>1, <1>1, <1>8
        <5> QED
          BY <5>1, <5>2
    <3>2. \E i \in DOMAIN frames' :
            indices'[Caller(i)'] <= indices'[s] /\ Reaches(m, s, Caller(i))'
      <4>1. N + 1 \in DOMAIN frames'
        BY <1>3
      <4>2. \A i : i = N + 1 => indices'[Caller(i)'] <= indices'[s] /\ Reaches(m, s, Caller(i))'
        BY <1>1, <1>9, ReachSelf
      <4> QED
        BY <4>1, <4>2
    <3> QED
      BY <3>1, <3>2, <1>7
  <2> QED
    BY <2>1, <2>2, <2>3, <2>4, <2>5 DEF CallsInv
<1>12. ScanInv'
  <2>1. ASSUME NEW x \in Discovered', NEW y \in Neighbours(m, x), y \notin Discovered'
        PROVE  \E i \in DOMAIN frames' : Caller(i)' = x /\ y \in frames'[i].rest
    <3>1. CASE x = s
      BY <3>1, <2>1, <1>3, <1>9
    <3>2. CASE x # s
      <4>1. PICK i \in 1 .. N : Caller(i) = x /\ y \in frames[i].rest
        BY <3>2, <2>1, <1>1, <1>3 DEF SearchCore, ScanInv
      <4> QED
        BY <4>1, <2>1, <1>1, <1>3, <1>8
    <3> QED
      BY <3>1, <3>2
  <2>2. Closed(m, Popped)'
    BY <1>1 DEF SearchCore, ScanInv, Popped
  <2> QED
    BY <2>1, <2>2, <1>1 DEF ScanInv
<1>13. LowInv'
  <2>1. \A i \in DOMAIN frames' :
          /\ lowlinks'[Caller(i)'] <= indices'[Caller(i)']
          /\ \E x \in on_stack' :
               indices'[x] = lowlinks'[Caller(i)'] /\ Reaches(m, Caller(i), x)'
    <3>1. ASSUME NEW i \in 1 .. N
          PROVE  /\ lowlinks'[Caller(i)'] <= indices'[Caller(i)']
                 /\ \E x \in on_stack' :
                      indices'[x] = lowlinks'[Caller(i)'] /\ Reaches(m, Caller(i), x)'
      <4>1. /\ lowlinks[Caller(i)] <= indices[Caller(i)]
            /\ \E x \in on_stack :
                 indices[x] = lowlinks[Caller(i)] /\ Reaches(m, Caller(i), x)
        BY <1>3 DEF SearchCore, LowInv
      <4> QED
        BY <4>1, <1>1, <1>2, <1>4, <1>5, <1>8
    <3>2. s \in on_stack' /\ Reaches(m, s, s)' /\ indices'[s] = n
      BY <1>1, <1>2, ReachSelf
    <3> QED
      BY <3>1, <3>2, <1>7, <1>1, <1>9
  <2>2. ASSUME NEW i \in DOMAIN frames', NEW x \in on_stack',
               NEW y \in Neighbours(m, x) \cap on_stack',
               indices'[Caller(i)'] <= indices'[x],
               i + 1 \in DOMAIN frames' => indices'[x] < indices'[Caller(i + 1)']
        PROVE  lowlinks'[Caller(i)'] <= indices'[y] \/ (x = Caller(i)' /\ y \in frames'[i].rest)
    <3>1. CASE i = N + 1
      <4>1. x = s
        <5>1. ~(n <= indices'[x]) \/ x = s
          <6>1. ASSUME x \in on_stack PROVE ~(n <= indices'[x])
            <7>1. x \in Discovered /\ indices'[x] = indices[x] /\ indices[x] \in Nat /\ indices[x] < n
              BY <6>1, <1>4, <1>5
            <7> QED
              BY <7>1, <1>1
          <6> QED
            BY <6>1, <1>7
        <5> QED
          BY <5>1, <3>1, <2>2, <1>9
      <4> QED
        BY <4>1, <3>1, <2>2, <1>3, <1>9
    <3>2. CASE i \in 1 .. N
      <4>1. x \in on_stack
        <5>1. CASE i = N
          BY <5>1, <2>2, <1>1, <1>3, <1>7, <1>9
        <5>2. CASE i # N
          <6>1. i + 1 \in 1 .. N
            BY <5>2, <3>2, <1>3
          <6> QED
            BY <6>1, <2>2, <1>1, <1>3, <1>7, <1>8
        <5> QED
          BY <5>1, <5>2
      <4>2. /\ indices'[x] = indices[x] /\ indices[Caller(i)] <= indices[x]
            /\ i + 1 \in DOMAIN frames => indices[x] < indices[Caller(i + 1)]
        <5>1. i + 1 \in DOMAIN frames => i + 1 \in DOMAIN frames' /\ i + 1 \in 1 .. N
          BY <1>3
        <5> QED
          BY <5>1, <4>1, <3>2, <2>2, <1>4, <1>5, <1>8
      <4>3. CASE y = s
        <5>1. lowlinks[Caller(i)] <= indices[Caller(i)]
          BY <3>2, <1>3 DEF SearchCore, LowInv
        <5> QED
          BY <5>1, <4>3, <3>2, <1>1, <1>5, <1>7, <1>8
      <4>4. CASE y # s
        <5>1. y \in on_stack /\ y \in Neighbours(m, x)
          BY <4>4, <2>2, <1>7
        <5>2. lowlinks[Caller(i)] <= indices[y] \/ (x = Caller(i) /\ y \in frames[i].rest)
          BY <5>1, <4>1, <4>2, <3>2, <1>3 DEF SearchCore, LowInv
        <5> QED
          BY <5>1, <5>2, <4>4, <3>2, <1>3, <1>4, <1>5, <1>8
      <4> QED
        BY <4>3, <4>4
    <3> QED
      BY <3>1, <3>2, <1>7
  <2> QED
    BY <2>1, <2>2, <1>1 DEF LowInv
<1>14. (sccs \subseteq Components(m))'
  BY <1>1 DEF SearchCore
<1> QED
  BY <1>6, <1>11, <1>12, <1>13, <1>14 DEF SearchCore

LEMMA LastCall ==
  ASSUME SearchCore, frames # <<>>
  PROVE  /\ Len(frames) \in Nat /\ Len(frames) > 0 /\ DOMAIN frames = 1 .. Len(frames)
         /\ Len(frames) \in DOMAIN frames
         /\ Top = frames[Len(frames)] /\ Top.state = Caller(Len(frames))
         /\ Top.rest \subseteq Neighbours(m, Top.state)
         /\ Top.state \in on_stack
<1>1. frames \in Seq(Frames)
  BY DEF SearchCore, CallsInv, Frames
<1>2. /\ Len(frames) \in Nat /\ Len(frames) > 0 /\ DOMAIN frames = 1 .. Len(frames)
      /\ Len(frames) \in DOMAIN frames
  BY <1>1
<1>3. Top = frames[Len(frames)] /\ Top.state = Caller(Len(frames))
  BY DEF Top, Last, Caller
<1> QED
  BY <1>2, <1>3 DEF SearchCore, CallsInv

LEMMA TookFrames ==
  ASSUME SearchCore, frames # <<>>, NEW w
  PROVE  /\ Took(w) \in Seq(Frames) /\ Len(Took(w)) = Len(frames)
         /\ DOMAIN Took(w) = DOMAIN frames
         /\ \A i \in DOMAIN frames :
              /\ Took(w)[i].state = Caller(i)
              /\ Took(w)[i].rest = IF i = Len(frames) THEN frames[i].rest \ {w}
                                   ELSE frames[i].rest
<1> DEFINE N == Len(frames)
<1>1. frames \in Seq(Frames) /\ N \in Nat /\ N > 0 /\ DOMAIN frames = 1 .. N
  BY LastCall DEF SearchCore, CallsInv, Frames
<1>2. \A i \in 1 .. N : frames[i] \in Frames
  BY <1>1
<1>3. Took(w) = [i \in 1 .. N |-> IF i = N THEN [frames[i] EXCEPT !.rest = @ \ {w}]
                                  ELSE frames[i]]
  BY <1>1 DEF Took
<1>4. \A i \in 1 .. N :
        /\ [frames[i] EXCEPT !.rest = @ \ {w}] \in Frames
        /\ [frames[i] EXCEPT !.rest = @ \ {w}].state = Caller(i)
        /\ [frames[i] EXCEPT !.rest = @ \ {w}].rest = frames[i].rest \ {w}
  BY <1>2 DEF Frames, Caller
<1> HIDE DEF N
<1>5. \A i \in 1 .. N : Took(w)[i] \in Frames
  BY <1>2, <1>3, <1>4
<1>6. Took(w) \in [1 .. N -> Frames]
  BY <1>3, <1>5
<1>7. Took(w) \in Seq(Frames) /\ Len(Took(w)) = N
  BY <1>1, <1>6
<1> QED
  BY <1>1, <1>3, <1>4, <1>7 DEF Caller, N

(* An edge to a discovered state. *)
LEMMA ScanKeeps ==
  ASSUME SearchCore, frames # <<>>, NEW w, Scan(w)
  PROVE  SearchCore'
<1> DEFINE N == Len(frames)
           v == Top.state
           low == lowlinks'[v]
<1>1. /\ N \in Nat /\ N > 0 /\ DOMAIN frames = 1 .. N
      /\ v = Caller(N) /\ v \in on_stack
      /\ Top = frames[N] /\ Top.rest \subseteq Neighbours(m, v)
  BY LastCall
<1>2. /\ frames' \in Seq(Frames) /\ DOMAIN frames' = 1 .. N
      /\ \A i \in 1 .. N : /\ Caller(i)' = Caller(i)
                           /\ frames'[i].rest \subseteq frames[i].rest
                           /\ frames[i].rest \subseteq
                                frames'[i].rest \cup (IF i = N THEN {w} ELSE {})
  <2>1. frames' = Took(w)
    BY DEF Scan
  <2>2. /\ frames' \in Seq(Frames) /\ DOMAIN frames' = DOMAIN frames
        /\ \A i \in DOMAIN frames :
             /\ frames'[i].state = Caller(i)
             /\ frames'[i].rest = IF i = Len(frames) THEN frames[i].rest \ {w}
                                  ELSE frames[i].rest
    BY <2>1, TookFrames
  <2>3. \A i \in 1 .. N : Caller(i)' = Caller(i)
    BY <1>1, <2>2 DEF Caller
  <2>4. \A i \in 1 .. N : /\ frames'[i].rest \subseteq frames[i].rest
                          /\ frames[i].rest \subseteq
                               frames'[i].rest \cup (IF i = N THEN {w} ELSE {})
    BY <1>1, <2>2
  <2> QED
    BY <1>1, <2>2, <2>3, <2>4
<1>3. /\ m' = m /\ indices' = indices /\ stack' = stack /\ on_stack' = on_stack
      /\ sccs' = sccs /\ Discovered' = Discovered /\ w \in Discovered
      /\ Popped' = Popped /\ w \in Neighbours(m, v)
  BY <1>1 DEF Scan, Discovered, Popped
<1>4. /\ on_stack \subseteq Discovered /\ v \in Discovered
      /\ indices \in [Discovered -> Nat] /\ lowlinks \in [Discovered -> Nat]
      /\ \A x \in on_stack : indices[x] \in Nat /\ lowlinks[x] \in Nat
      /\ on_stack \cap Popped = {}
  BY <1>1 DEF SearchCore, StackInv
<1>5. lowlinks' \in [Discovered -> Nat] /\ \A x \in Discovered : x # v => lowlinks'[x] = lowlinks[x]
  <2>1. w \in on_stack => indices[w] \in Nat
    BY <1>4
  <2>2. LowerTo(v, indices[w]) =
          [x \in Discovered |-> IF x # v THEN lowlinks[x]
                                ELSE IF indices[w] < lowlinks[x] THEN indices[w] ELSE lowlinks[x]]
    BY <1>4 DEF LowerTo
  <2> QED
    BY <2>1, <2>2, <1>4 DEF Scan
<1>6. /\ low \in Nat /\ low <= lowlinks[v]
      /\ w \in on_stack => low <= indices[w]
      /\ low = lowlinks[v] \/ (w \in on_stack /\ low = indices[w])
  <2>1. LowerTo(v, indices[w])[v] = IF indices[w] < lowlinks[v] THEN indices[w] ELSE lowlinks[v]
    BY <1>4 DEF LowerTo
  <2>2. low = IF w \in on_stack THEN LowerTo(v, indices[w])[v] ELSE lowlinks[v]
    BY DEF Scan
  <2>3. lowlinks[v] \in Nat /\ (w \in on_stack => indices[w] \in Nat)
    BY <1>4
  <2> HIDE DEF low, v
  <2> QED
    BY <2>1, <2>2, <2>3
<1> HIDE DEF N, v, low
<1>7. StackInv'
  BY <1>3, <1>5 DEF SearchCore, StackInv
<1>8. CallsInv'
  <2>1. frames' \in Seq([state : DOMAIN m'.states, rest : SUBSET DOMAIN m'.states])
    BY <1>2, <1>3 DEF Frames
  <2>2. \A i \in DOMAIN frames' :
          Caller(i)' \in on_stack' /\ frames'[i].rest \subseteq Neighbours(m, Caller(i))'
    <3>1. \A i \in 1 .. N : Caller(i) \in on_stack /\ frames[i].rest \subseteq Neighbours(m, Caller(i))
      BY <1>1 DEF SearchCore, CallsInv
    <3> QED
      BY <3>1, <1>2, <1>3
  <2>3. \A i, j \in DOMAIN frames' : i < j => indices'[Caller(i)'] < indices'[Caller(j)']
    BY <1>1, <1>2, <1>3 DEF SearchCore, CallsInv
  <2>4. \A i \in DOMAIN frames' : \A x \in on_stack' :
          indices'[Caller(i)'] <= indices'[x] => Reaches(m, Caller(i), x)'
    <3>1. \A i \in 1 .. N : \A x \in on_stack :
            indices[Caller(i)] <= indices[x] => Reaches(m, Caller(i), x)
      BY <1>1 DEF SearchCore, CallsInv
    <3>2. ASSUME NEW i \in 1 .. N, NEW x
          PROVE  Reaches(m, Caller(i), x)' = Reaches(m, Caller(i), x)
      <4>1. m' = m /\ Caller(i)' = Caller(i)
        BY <1>2, <1>3
      <4> QED
        BY <4>1
    <3> QED
      BY <1>2, <1>3, <3>1, <3>2
  <2>5. \A x \in on_stack' : \E i \in DOMAIN frames' :
          indices'[Caller(i)'] <= indices'[x] /\ Reaches(m, x, Caller(i))'
    <3>1. \A x \in on_stack : \E i \in 1 .. N :
            indices[Caller(i)] <= indices[x] /\ Reaches(m, x, Caller(i))
      BY <1>1 DEF SearchCore, CallsInv
    <3>2. ASSUME NEW i \in 1 .. N, NEW x
          PROVE  Reaches(m, x, Caller(i))' = Reaches(m, x, Caller(i))
      <4>1. m' = m /\ Caller(i)' = Caller(i)
        BY <1>2, <1>3
      <4> QED
        BY <4>1
    <3> QED
      BY <1>2, <1>3, <3>1, <3>2
  <2> QED
    BY <2>1, <2>2, <2>3, <2>4, <2>5 DEF CallsInv
<1>9. ScanInv'
  <2>1. ASSUME NEW x \in Discovered, NEW y \in Neighbours(m, x), y \notin Discovered
        PROVE  \E i \in DOMAIN frames' : Caller(i)' = x /\ y \in frames'[i].rest
    <3>1. PICK i \in 1 .. N : Caller(i) = x /\ y \in frames[i].rest
      BY <2>1, <1>1 DEF SearchCore, ScanInv
    <3>2. y # w
      BY <2>1, <1>3
    <3> QED
      BY <3>1, <3>2, <1>2
  <2>2. Closed(m, Popped)'
    BY <1>3 DEF SearchCore, ScanInv
  <2> QED
    BY <2>1, <2>2, <1>3 DEF ScanInv
<1>10. \A i \in 1 .. N : /\ Caller(i) \in on_stack
                         /\ i = N => Caller(i) = v
                         /\ i # N => Caller(i) # v /\ lowlinks'[Caller(i)] = lowlinks[Caller(i)]
                         /\ lowlinks'[Caller(i)] <= lowlinks[Caller(i)]
                         /\ lowlinks[Caller(i)] \in Nat /\ lowlinks'[Caller(i)] \in Nat
                         /\ indices[Caller(i)] \in Nat
  <2>1. \A i \in 1 .. N : Caller(i) \in on_stack
    BY <1>1 DEF SearchCore, CallsInv
  <2>2. \A i \in 1 .. N : i # N => indices[Caller(i)] < indices[Caller(N)]
    <3>1. N \in DOMAIN frames /\ \A i \in 1 .. N : i # N => i < N
      BY <1>1
    <3> QED
      BY <3>1, <1>1 DEF SearchCore, CallsInv
  <2>3. \A i \in 1 .. N : i # N => Caller(i) # v
    BY <2>1, <2>2, <1>1, <1>4
  <2>4. \A i \in 1 .. N : i # N => lowlinks'[Caller(i)] = lowlinks[Caller(i)]
    BY <2>1, <2>3, <1>4, <1>5
  <2>5. lowlinks'[v] <= lowlinks[v]
    BY <1>6 DEF low
  <2> QED
    BY <2>1, <2>3, <2>4, <2>5, <1>1, <1>4, <1>5
<1>11. LowInv'
  <2>1. ASSUME NEW i \in 1 .. N
        PROVE  /\ lowlinks'[Caller(i)] <= indices[Caller(i)]
               /\ \E x \in on_stack : indices[x] = lowlinks'[Caller(i)] /\ Reaches(m, Caller(i), x)
    <3>1. /\ lowlinks[Caller(i)] <= indices[Caller(i)]
          /\ \E x \in on_stack : indices[x] = lowlinks[Caller(i)] /\ Reaches(m, Caller(i), x)
      BY <1>1 DEF SearchCore, LowInv
    <3>2. lowlinks'[Caller(i)] <= indices[Caller(i)]
      BY <3>1, <1>10
    <3>3. CASE lowlinks'[Caller(i)] = lowlinks[Caller(i)]
      BY <3>1, <3>2, <3>3
    <3>4. CASE lowlinks'[Caller(i)] # lowlinks[Caller(i)]
      <4>1. Caller(i) = v /\ w \in on_stack /\ low = indices[w]
        BY <3>4, <1>6, <1>10 DEF low
      <4>2. Reaches(m, Caller(i), w)
        BY <4>1, <1>3, ReachEdge
      <4> QED
        BY <3>2, <4>1, <4>2 DEF low
    <3> QED
      BY <3>3, <3>4
  <2>2. ASSUME NEW i \in 1 .. N, NEW x \in on_stack, NEW y \in Neighbours(m, x) \cap on_stack,
               indices[Caller(i)] <= indices[x],
               i + 1 \in 1 .. N => indices[x] < indices[Caller(i + 1)]
        PROVE  lowlinks'[Caller(i)] <= indices[y] \/ (x = Caller(i) /\ y \in frames'[i].rest)
    <3>1. lowlinks[Caller(i)] <= indices[y] \/ (x = Caller(i) /\ y \in frames[i].rest)
      BY <2>2, <1>1 DEF SearchCore, LowInv
    <3>2. CASE lowlinks[Caller(i)] <= indices[y]
      BY <3>2, <1>4, <1>10
    <3>3. CASE x = Caller(i) /\ y \in frames[i].rest /\ y \notin frames'[i].rest
      <4>1. i = N /\ y = w
        BY <3>3, <1>2
      <4> QED
        BY <4>1, <1>6, <1>10 DEF low
    <3> QED
      BY <3>1, <3>2, <3>3
  <2>3. \A i \in 1 .. N : i + 1 \in 1 .. N => Caller(i + 1)' = Caller(i + 1)
    BY <1>2
  <2> QED
    BY <2>1, <2>2, <2>3, <1>2, <1>3 DEF LowInv
<1>12. (sccs \subseteq Components(m))'
  BY <1>3 DEF SearchCore
<1> QED
  BY <1>7, <1>8, <1>9, <1>11, <1>12 DEF SearchCore

(* A call that has scanned everything and has its own index as lowlink:    *)
(* what is above it on the stack is its component.                         *)
LEMMA RootHasItsComponent ==
  ASSUME SearchCore, frames # <<>>, Top.rest = {},
         lowlinks[Top.state] = indices[Top.state]
  PROVE  /\ Above(Top.state) = Component(m, Top.state)
         /\ Closed(m, Above(Top.state) \cup Popped)
<1> DEFINE N == Len(frames)
           s == Top.state
           A == Above(s)
<1>1. /\ N \in Nat /\ DOMAIN frames = 1 .. N /\ N \in 1 .. N
      /\ s = Caller(N) /\ s \in on_stack /\ frames[N].rest = {}
  BY LastCall
<1>2. A = {x \in on_stack : indices[s] <= indices[x]}
  BY <1>1, AboveIsLater DEF SearchCore
<1>3. /\ on_stack \subseteq Discovered /\ Popped \subseteq Discovered
      /\ Discovered \subseteq DOMAIN m.states
      /\ on_stack \cap Popped = {} /\ Discovered = on_stack \cup Popped
      /\ \A x \in on_stack : indices[x] \in Nat
      /\ lowlinks[s] = indices[s] /\ Closed(m, Popped)
  BY DEF SearchCore, StackInv, ScanInv
<1> HIDE DEF N, s, A
<1>4. \A i \in 1 .. N : /\ Caller(i) \in on_stack
                        /\ i # N => indices[Caller(i)] < indices[s]
                        /\ indices[Caller(i)] <= indices[s]
  <2>1. N \in DOMAIN frames /\ \A i \in 1 .. N : i # N => i < N
    BY <1>1
  <2>2. \A i \in 1 .. N : Caller(i) \in on_stack /\ (i # N => indices[Caller(i)] < indices[s])
    BY <2>1, <1>1 DEF SearchCore, CallsInv
  <2> QED
    BY <2>2, <1>1, <1>3
<1>5. ASSUME NEW x \in A, NEW y \in Neighbours(m, x) PROVE y \in A \cup Popped
  <2>1. x \in on_stack /\ indices[s] <= indices[x]
    BY <1>2
  <2>2. y \in Discovered
    <3>1. ASSUME NEW i \in 1 .. N, Caller(i) = x, y \in frames[i].rest PROVE FALSE
      <4>1. i = N
        BY <3>1, <2>1, <1>1, <1>3, <1>4
      <4> QED
        BY <4>1, <3>1, <1>1
    <3> QED
      BY <3>1, <2>1, <1>1, <1>3 DEF SearchCore, ScanInv
  <2>3. CASE y \in on_stack
    <3>1. N + 1 \notin DOMAIN frames
      BY <1>1
    <3>2. lowlinks[s] <= indices[y]
      BY <3>1, <2>1, <2>3, <1>1 DEF SearchCore, LowInv
    <3> QED
      BY <3>2, <2>3, <1>2, <1>3
  <2> QED
    BY <2>2, <2>3, <1>3
<1>6. Closed(m, A \cup Popped)
  BY <1>5, <1>3 DEF Closed
<1>7. ASSUME NEW x \in A PROVE Reaches(m, x, s) /\ Reaches(m, s, x)
  <2>1. x \in on_stack /\ indices[s] <= indices[x]
    BY <1>2
  <2>2. Reaches(m, s, x)
    BY <2>1, <1>1 DEF SearchCore, CallsInv
  <2>3. PICK i \in 1 .. N : indices[Caller(i)] <= indices[x] /\ Reaches(m, x, Caller(i))
    BY <2>1, <1>1 DEF SearchCore, CallsInv
  <2>4. Reaches(m, Caller(i), s)
    BY <1>1, <1>4 DEF SearchCore, CallsInv
  <2> QED
    BY <2>2, <2>3, <2>4, ReachTrans
<1>8. /\ A \in SUBSET DOMAIN m.states /\ Popped \in SUBSET DOMAIN m.states
      /\ s \in A /\ A \cap Popped = {}
  BY <1>1, <1>2, <1>3
<1>9. A = Component(m, s)
  BY <1>3, <1>6, <1>7, <1>8, EmittedIsComponent
<1> QED
  BY <1>6, <1>9 DEF A, s

LEMMA ReturnedFrames ==
  ASSUME SearchCore, frames # <<>>, Return
  PROVE  /\ frames' \in Seq(Frames) /\ Len(frames') = Len(frames) - 1
         /\ DOMAIN frames' = 1 .. Len(frames) - 1
         /\ \A i \in 1 .. Len(frames) - 1 : frames'[i] = frames[i] /\ Caller(i)' = Caller(i)
         /\ frames' # <<>> => Last(frames') = frames[Len(frames) - 1]
         /\ frames' # <<>> <=> Len(frames) - 1 \in 1 .. Len(frames) - 1
<1> DEFINE n == Len(frames) - 1
<1>1. frames \in Seq(Frames) /\ n \in 0 .. Len(frames) /\ frames' = SubSeq(frames, 1, n)
  BY LastCall DEF SearchCore, CallsInv, Frames, Return, Front
<1> HIDE DEF n
<1>2. /\ SubSeq(frames, 1, n) \in Seq(Frames)
      /\ Len(SubSeq(frames, 1, n)) = n /\ DOMAIN SubSeq(frames, 1, n) = 1 .. n
      /\ \A i \in 1 .. n : SubSeq(frames, 1, n)[i] = frames[i]
  BY <1>1, Shortened
<1>3. /\ frames' \in Seq(Frames) /\ Len(frames') = n /\ DOMAIN frames' = 1 .. n
      /\ \A i \in 1 .. n : frames'[i] = frames[i] /\ Caller(i)' = Caller(i)
  BY <1>1, <1>2 DEF Caller
<1>4. frames' # <<>> <=> n \in 1 .. n
  BY <1>1, <1>3
<1>5. frames' # <<>> => Last(frames') = frames[n]
  BY <1>3, <1>4 DEF Last
<1> QED
  BY <1>3, <1>4, <1>5 DEF n

(* The calls that are left have the same index, and at most the last of    *)
(* them a lower lowlink than before.                                       *)
LEMMA ReturnedLows ==
  ASSUME SearchCore, frames # <<>>, Return
  PROVE  LET N == Len(frames) IN
         /\ m' = m /\ indices' = indices /\ Discovered' = Discovered
         /\ lowlinks' \in [Discovered -> Nat]
         /\ \A i \in 1 .. N - 1 :
              /\ Caller(i) \in on_stack /\ indices[Caller(i)] < indices[Caller(N)]
              /\ indices[Caller(i)] \in Nat /\ lowlinks[Caller(i)] \in Nat
              /\ lowlinks'[Caller(i)] =
                   IF i = N - 1 /\ lowlinks[Caller(N)] < lowlinks[Caller(i)]
                     THEN lowlinks[Caller(N)] ELSE lowlinks[Caller(i)]
<1> DEFINE N == Len(frames)
           c == Caller(N - 1)
           low == lowlinks[Caller(N)]
<1>1. /\ N \in Nat /\ N > 0 /\ DOMAIN frames = 1 .. N /\ N \in 1 .. N
      /\ Top.state = Caller(N) /\ Caller(N) \in on_stack
  BY LastCall
<1>2. /\ on_stack \subseteq Discovered
      /\ indices \in [Discovered -> Nat] /\ lowlinks \in [Discovered -> Nat]
      /\ \A x \in on_stack : indices[x] \in Nat /\ lowlinks[x] \in Nat
  BY DEF SearchCore, StackInv
<1>3. m' = m /\ indices' = indices /\ Discovered' = Discovered
  BY DEF Return, Discovered
<1> HIDE DEF N
<1>4. \A i \in 1 .. N - 1 :
        /\ Caller(i) \in on_stack /\ indices[Caller(i)] < indices[Caller(N)]
        /\ indices[Caller(i)] \in Nat /\ lowlinks[Caller(i)] \in Nat
        /\ i # N - 1 => Caller(i) # c
  <2>1. \A i \in 1 .. N - 1 : i \in 1 .. N /\ i < N /\ (i # N - 1 => i < N - 1 /\ N - 1 \in 1 .. N)
    BY <1>1
  <2>2. \A i \in 1 .. N : Caller(i) \in on_stack
    BY <1>1 DEF SearchCore, CallsInv
  <2>3. \A i, j \in 1 .. N : i < j => indices[Caller(i)] < indices[Caller(j)]
    BY <1>1 DEF SearchCore, CallsInv
  <2>4. \A i \in 1 .. N - 1 : i # N - 1 => indices[Caller(i)] < indices[c]
    BY <2>1, <2>3
  <2>5. \A i \in 1 .. N - 1 : indices[Caller(i)] < indices[Caller(N)] /\ Caller(i) \in on_stack
    BY <2>1, <2>2, <2>3, <1>1
  <2>6. \A i \in 1 .. N - 1 : i # N - 1 => Caller(i) # c
    <3>1. ASSUME NEW i \in 1 .. N - 1, i # N - 1, Caller(i) = c PROVE FALSE
      <4>1. indices[Caller(i)] \in Nat /\ indices[Caller(i)] < indices[Caller(i)]
        BY <3>1, <2>4, <2>5, <1>2
      <4> QED
        BY <4>1
    <3> QED
      BY <3>1
  <2> QED
    BY <2>5, <2>6, <1>2
<1>5. frames' = <<>> => lowlinks' = lowlinks /\ 1 .. N - 1 = {}
  <2>1. frames' = <<>> => lowlinks' = lowlinks
    BY DEF Return
  <2>2. frames' = <<>> => ~(N - 1 \in 1 .. N - 1)
    BY ReturnedFrames DEF N
  <2> QED
    BY <2>1, <2>2, <1>1
<1>6. frames' # <<>> =>
        /\ N - 1 \in 1 .. N - 1
        /\ lowlinks' = [x \in Discovered |->
                          IF x = c /\ low < lowlinks[x] THEN low ELSE lowlinks[x]]
  <2>1. frames' # <<>> => N - 1 \in 1 .. N - 1 /\ Last(frames').state = c
    BY ReturnedFrames DEF N, Caller
  <2>2. frames' # <<>> => lowlinks' = LowerTo(Last(frames').state, low)
    BY <1>1 DEF Return
  <2>3. LowerTo(c, low) =
          [x \in Discovered |-> IF x = c THEN IF low < lowlinks[x] THEN low ELSE lowlinks[x]
                                ELSE lowlinks[x]]
    BY <1>2 DEF LowerTo
  <2> HIDE DEF c, low
  <2> QED
    BY <2>1, <2>2, <2>3
<1>7. low \in Nat
  BY <1>1, <1>2
<1> HIDE DEF low, c
<1>8. lowlinks' \in [Discovered -> Nat]
  BY <1>2, <1>5, <1>6, <1>7
<1>9. \A i \in 1 .. N - 1 : lowlinks'[Caller(i)] =
        IF i = N - 1 /\ low < lowlinks[Caller(i)] THEN low ELSE lowlinks[Caller(i)]
  <2>1. \A i \in 1 .. N - 1 : i = N - 1 => Caller(i) = c
    BY DEF c
  <2> QED
    BY <2>1, <1>2, <1>4, <1>5, <1>6
<1> QED
  BY <1>3, <1>4, <1>8, <1>9 DEF N, low

(* The call is the root of a component: the stack shrinks down to it. *)
LEMMA ReturnWithComponent ==
  ASSUME SearchCore, frames # <<>>, Return, lowlinks[Top.state] = indices[Top.state]
  PROVE  SearchCore'
<1> DEFINE N == Len(frames)
           s == Top.state
           A == Above(s)
<1>1. /\ N \in Nat /\ N > 0 /\ DOMAIN frames = 1 .. N /\ N \in 1 .. N
      /\ s = Caller(N) /\ s \in on_stack /\ Top.rest = {}
      /\ \A i \in 1 .. N - 1 : i \in 1 .. N
      /\ \A i \in 1 .. N : i = N \/ i \in 1 .. N - 1
  <2>1. /\ N \in Nat /\ N > 0 /\ DOMAIN frames = 1 .. N /\ N \in 1 .. N
        /\ s = Caller(N) /\ s \in on_stack /\ Top.rest = {}
    BY LastCall DEF Return
  <2> HIDE DEF N, s
  <2>2. \A i \in 1 .. N - 1 : i \in 1 .. N
    BY <2>1
  <2>3. \A i \in 1 .. N : i = N \/ i \in 1 .. N - 1
    BY <2>1
  <2> QED
    BY <2>1, <2>2, <2>3
<1>2. /\ frames' \in Seq(Frames) /\ DOMAIN frames' = 1 .. N - 1
      /\ \A i \in 1 .. N - 1 : frames'[i] = frames[i] /\ Caller(i)' = Caller(i)
  BY ReturnedFrames
<1>3. /\ A = {x \in on_stack : indices[s] <= indices[x]}
      /\ Below(s) \in Seq(DOMAIN m.states)
      /\ ToSet(Below(s)) = {x \in on_stack : indices[x] < indices[s]}
      /\ \A i, j \in DOMAIN Below(s) : i < j => indices[Below(s)[i]] < indices[Below(s)[j]]
  BY <1>1, AboveIsLater DEF SearchCore
<1>4. A = Component(m, s) /\ Closed(m, A \cup Popped)
  BY <1>1, RootHasItsComponent
<1>5. /\ sccs' = sccs \cup {A} /\ stack' = Below(s) /\ on_stack' = on_stack \ A
      /\ m' = m /\ indices' = indices
  BY DEF Return
<1>6. /\ m' = m /\ indices' = indices /\ Discovered' = Discovered
      /\ lowlinks' \in [Discovered -> Nat]
      /\ \A i \in 1 .. N - 1 :
           /\ Caller(i) \in on_stack /\ indices[Caller(i)] < indices[s]
           /\ indices[Caller(i)] \in Nat /\ lowlinks[Caller(i)] \in Nat
           /\ lowlinks'[Caller(i)] =
                IF i = N - 1 /\ lowlinks[s] < lowlinks[Caller(i)]
                  THEN lowlinks[s] ELSE lowlinks[Caller(i)]
  BY <1>1, ReturnedLows
<1>7. /\ on_stack \subseteq Discovered /\ Discovered = on_stack \cup Popped
      /\ on_stack \cap Popped = {}
      /\ Discovered \subseteq DOMAIN m.states
      /\ \A x \in on_stack : indices[x] \in Nat
      /\ lowlinks[s] = indices[s]
  BY DEF SearchCore, StackInv
<1> HIDE DEF N, s, A
<1>8. /\ on_stack' = {x \in on_stack : indices[x] < indices[s]}
      /\ A \subseteq on_stack
      /\ Popped' = Popped \cup A
  <2>1. Popped' = Popped \cup A
    BY <1>5 DEF Popped
  <2>2. \A x \in on_stack : x \notin A <=> indices[x] < indices[s]
    BY <1>1, <1>3, <1>7
  <2> QED
    BY <2>1, <2>2, <1>3, <1>5
<1>9. \A i \in 1 .. N - 1 : /\ lowlinks[Caller(i)] <= indices[Caller(i)]
                            /\ lowlinks'[Caller(i)] = lowlinks[Caller(i)]
  <2>1. \A i \in 1 .. N - 1 : lowlinks[Caller(i)] <= indices[Caller(i)]
    BY <1>1 DEF SearchCore, LowInv
  <2> QED
    BY <2>1, <1>1, <1>6, <1>7
<1>10. StackInv'
  <2>1. /\ Discovered' \subseteq DOMAIN m'.states /\ IsFiniteSet(Discovered')
        /\ indices' \in [Discovered' -> Nat] /\ lowlinks' \in [Discovered' -> Nat]
        /\ \A x \in Discovered' : indices'[x] < Cardinality(Discovered')
        /\ \A x, y \in Discovered' : indices'[x] = indices'[y] => x = y
    BY <1>6 DEF SearchCore, StackInv
  <2>2. /\ stack' \in Seq(DOMAIN m'.states) /\ on_stack' = ToSet(stack')
        /\ \A i, j \in DOMAIN stack' : i < j => indices'[stack'[i]] < indices'[stack'[j]]
    BY <1>3, <1>5, <1>8
  <2>3. Discovered' = on_stack' \cup Popped' /\ on_stack' \cap Popped' = {}
    BY <1>5, <1>6, <1>7, <1>8
  <2> QED
    BY <2>1, <2>2, <2>3 DEF StackInv
<1>11. CallsInv'
  <2>1. frames' \in Seq([state : DOMAIN m'.states, rest : SUBSET DOMAIN m'.states])
    BY <1>2, <1>6 DEF Frames
  <2>2. \A i \in 1 .. N - 1 :
          Caller(i) \in on_stack' /\ frames[i].rest \subseteq Neighbours(m, Caller(i))
    BY <1>1, <1>6, <1>8 DEF SearchCore, CallsInv
  <2>3. \A i, j \in 1 .. N - 1 : i < j => indices[Caller(i)] < indices[Caller(j)]
    BY <1>1 DEF SearchCore, CallsInv
  <2>4. \A i \in 1 .. N - 1 : \A x \in on_stack' :
          indices[Caller(i)] <= indices[x] => Reaches(m, Caller(i), x)
    BY <1>1, <1>8 DEF SearchCore, CallsInv
  <2>5. ASSUME NEW x \in on_stack'
        PROVE  \E i \in 1 .. N - 1 : indices[Caller(i)] <= indices[x] /\ Reaches(m, x, Caller(i))
    <3>1. PICK i \in 1 .. N : indices[Caller(i)] <= indices[x] /\ Reaches(m, x, Caller(i))
      BY <1>1, <1>8 DEF SearchCore, CallsInv
    <3>2. i # N
      BY <3>1, <1>1, <1>7, <1>8
    <3> QED
      BY <3>1, <3>2, <1>1
  <2>6. \A i \in DOMAIN frames' :
          Caller(i)' \in on_stack' /\ frames'[i].rest \subseteq Neighbours(m, Caller(i))'
    BY <2>2, <1>2, <1>6
  <2>7. \A i, j \in DOMAIN frames' : i < j => indices'[Caller(i)'] < indices'[Caller(j)']
    BY <2>3, <1>2, <1>6
  <2>8. \A i \in DOMAIN frames' : \A x \in on_stack' :
          indices'[Caller(i)'] <= indices'[x] => Reaches(m, Caller(i), x)'
    BY <2>4, <1>2, <1>6
  <2>9. \A x \in on_stack' : \E i \in DOMAIN frames' :
          indices'[Caller(i)'] <= indices'[x] /\ Reaches(m, x, Caller(i))'
    BY <2>5, <1>2, <1>6
  <2> QED
    BY <2>1, <2>6, <2>7, <2>8, <2>9 DEF CallsInv
<1>12. ScanInv'
  <2>1. ASSUME NEW x \in Discovered, NEW y \in Neighbours(m, x), y \notin Discovered
        PROVE  \E i \in 1 .. N - 1 : Caller(i) = x /\ y \in frames[i].rest
    <3>1. PICK i \in 1 .. N : Caller(i) = x /\ y \in frames[i].rest
      BY <2>1, <1>1 DEF SearchCore, ScanInv
    <3>2. i # N
      BY <3>1, LastCall, <1>1 DEF N
    <3> QED
      BY <3>1, <3>2, <1>1
  <2>2. Closed(m, Popped)'
    <3>1. A \cup Popped = Popped'
      BY <1>8
    <3> QED
      BY <3>1, <1>4, <1>6
  <2> QED
    BY <2>1, <2>2, <1>2, <1>6 DEF ScanInv
<1>13. LowInv'
  <2>1. ASSUME NEW i \in 1 .. N - 1
        PROVE  /\ lowlinks'[Caller(i)] <= indices[Caller(i)]
               /\ \E x \in on_stack' : indices[x] = lowlinks'[Caller(i)] /\ Reaches(m, Caller(i), x)
    <3>1. PICK x \in on_stack : indices[x] = lowlinks[Caller(i)] /\ Reaches(m, Caller(i), x)
      BY <1>1 DEF SearchCore, LowInv
    <3>2. indices[x] < indices[s]
      BY <3>1, <1>1, <1>6, <1>7, <1>9
    <3> QED
      BY <3>1, <3>2, <1>8, <1>9
  <2>2. ASSUME NEW i \in 1 .. N - 1, NEW x \in on_stack', NEW y \in Neighbours(m, x) \cap on_stack',
               indices[Caller(i)] <= indices[x],
               i + 1 \in 1 .. N - 1 => indices[x] < indices[Caller(i + 1)]
        PROVE  lowlinks'[Caller(i)] <= indices[y] \/ (x = Caller(i) /\ y \in frames[i].rest)
    <3>1. i + 1 \in 1 .. N => indices[x] < indices[Caller(i + 1)]
      <4>1. CASE i + 1 = N
        BY <4>1, <1>1, <1>8
      <4>2. CASE i + 1 # N
        BY <4>2, <2>2, <1>1
      <4> QED
        BY <4>1, <4>2
    <3>2. x \in on_stack /\ y \in Neighbours(m, x) \cap on_stack
      BY <2>2, <1>8
    <3>3. lowlinks[Caller(i)] <= indices[y] \/ (x = Caller(i) /\ y \in frames[i].rest)
      BY <2>2, <3>1, <3>2, <1>1 DEF SearchCore, LowInv
    <3> QED
      BY <3>3, <1>9
  <2>3. \A i \in 1 .. N - 1 : i + 1 \in 1 .. N - 1 => Caller(i + 1)' = Caller(i + 1)
    BY <1>2
  <2> QED
    BY <2>1, <2>2, <2>3, <1>2, <1>6 DEF LowInv
<1>14. (sccs \subseteq Components(m))'
  <2>1. s \in DOMAIN m.states
    BY <1>1, <1>7
  <2> QED
    BY <2>1, <1>4, <1>5 DEF SearchCore, Components
<1> QED
  BY <1>10, <1>11, <1>12, <1>13, <1>14 DEF SearchCore

(* It is not: its caller, which exists, answers for it from now on. *)
LEMMA ReturnToCaller ==
  ASSUME SearchCore, frames # <<>>, Return, lowlinks[Top.state] # indices[Top.state]
  PROVE  SearchCore'
<1> DEFINE N == Len(frames)
           s == Top.state
<1>1. /\ N \in Nat /\ N > 0 /\ DOMAIN frames = 1 .. N /\ N \in 1 .. N
      /\ s = Caller(N) /\ s \in on_stack /\ Top.rest = {} /\ frames[N].rest = {}
      /\ \A i \in 1 .. N - 1 : i \in 1 .. N
      /\ \A i \in 1 .. N : i = N \/ i \in 1 .. N - 1
  BY LastCall DEF Return
<1>2. /\ frames' \in Seq(Frames) /\ DOMAIN frames' = 1 .. N - 1
      /\ \A i \in 1 .. N - 1 : frames'[i] = frames[i] /\ Caller(i)' = Caller(i)
  BY ReturnedFrames
<1>3. /\ sccs' = sccs /\ stack' = stack /\ on_stack' = on_stack /\ Popped' = Popped
  BY DEF Return, Popped
<1>4. /\ m' = m /\ indices' = indices /\ Discovered' = Discovered
      /\ lowlinks' \in [Discovered -> Nat]
      /\ \A i \in 1 .. N - 1 :
           /\ Caller(i) \in on_stack /\ indices[Caller(i)] < indices[s]
           /\ indices[Caller(i)] \in Nat /\ lowlinks[Caller(i)] \in Nat
           /\ lowlinks'[Caller(i)] =
                IF i = N - 1 /\ lowlinks[s] < lowlinks[Caller(i)]
                  THEN lowlinks[s] ELSE lowlinks[Caller(i)]
  BY <1>1, ReturnedLows
<1>5. /\ on_stack \subseteq Discovered
      /\ \A x \in on_stack : indices[x] \in Nat /\ lowlinks[x] \in Nat
      /\ lowlinks[s] # indices[s]
  BY DEF SearchCore, StackInv
<1> HIDE DEF N, s
<1>6. lowlinks[s] < indices[s] /\ lowlinks[s] \in Nat /\ indices[s] \in Nat
  <2>1. lowlinks[s] <= indices[s]
    BY <1>1 DEF SearchCore, LowInv
  <2> QED
    BY <2>1, <1>1, <1>5
<1>7. PICK t \in on_stack : indices[t] = lowlinks[s] /\ Reaches(m, s, t)
  BY <1>1 DEF SearchCore, LowInv
<1>8. PICK c \in 1 .. N - 1 : indices[Caller(c)] <= indices[t] /\ Reaches(m, t, Caller(c))
  <2>1. PICK c \in 1 .. N : indices[Caller(c)] <= indices[t] /\ Reaches(m, t, Caller(c))
    BY <1>1 DEF SearchCore, CallsInv
  <2>2. c # N
    BY <2>1, <1>1, <1>6, <1>7
  <2> QED
    BY <2>1, <2>2, <1>1
<1>9. StackInv'
  BY <1>3, <1>4 DEF SearchCore, StackInv
<1>10. CallsInv'
  <2>1. frames' \in Seq([state : DOMAIN m'.states, rest : SUBSET DOMAIN m'.states])
    BY <1>2, <1>4 DEF Frames
  <2>2. \A i \in 1 .. N - 1 :
          Caller(i) \in on_stack /\ frames[i].rest \subseteq Neighbours(m, Caller(i))
    BY <1>1, <1>4 DEF SearchCore, CallsInv
  <2>3. \A i, j \in 1 .. N - 1 : i < j => indices[Caller(i)] < indices[Caller(j)]
    BY <1>1 DEF SearchCore, CallsInv
  <2>4. \A i \in 1 .. N - 1 : \A x \in on_stack :
          indices[Caller(i)] <= indices[x] => Reaches(m, Caller(i), x)
    BY <1>1 DEF SearchCore, CallsInv
  <2>5. ASSUME NEW x \in on_stack
        PROVE  \E i \in 1 .. N - 1 : indices[Caller(i)] <= indices[x] /\ Reaches(m, x, Caller(i))
    <3>1. PICK i \in 1 .. N : indices[Caller(i)] <= indices[x] /\ Reaches(m, x, Caller(i))
      BY <1>1 DEF SearchCore, CallsInv
    <3>2. CASE i = N
      <4>1. Reaches(m, x, Caller(c))
        BY <3>1, <3>2, <1>1, <1>7, <1>8, ReachTrans
      <4>2. indices[Caller(c)] <= indices[x]
        BY <3>1, <3>2, <1>1, <1>4, <1>5
      <4> QED
        BY <4>1, <4>2
    <3> QED
      BY <3>1, <3>2, <1>1
  <2>6. \A i \in DOMAIN frames' :
          Caller(i)' \in on_stack' /\ frames'[i].rest \subseteq Neighbours(m, Caller(i))'
    BY <2>2, <1>2, <1>3, <1>4
  <2>7. \A i, j \in DOMAIN frames' : i < j => indices'[Caller(i)'] < indices'[Caller(j)']
    BY <2>3, <1>2, <1>3, <1>4
  <2>8. \A i \in DOMAIN frames' : \A x \in on_stack' :
          indices'[Caller(i)'] <= indices'[x] => Reaches(m, Caller(i), x)'
    BY <2>4, <1>2, <1>3, <1>4
  <2>9. ASSUME NEW x \in on_stack'
        PROVE  \E i \in DOMAIN frames' :
                 indices'[Caller(i)'] <= indices'[x] /\ Reaches(m, x, Caller(i))'
    <3>1. PICK i \in 1 .. N - 1 : indices[Caller(i)] <= indices[x] /\ Reaches(m, x, Caller(i))
      BY <2>5, <1>3
    <3>2. i \in DOMAIN frames' /\ Caller(i)' = Caller(i)
      BY <1>2
    <3> QED
      BY <3>1, <3>2, <1>4
  <2> QED
    BY <2>1, <2>6, <2>7, <2>8, <2>9 DEF CallsInv
<1>11. ScanInv'
  <2>1. ASSUME NEW x \in Discovered, NEW y \in Neighbours(m, x), y \notin Discovered
        PROVE  \E i \in 1 .. N - 1 : Caller(i) = x /\ y \in frames[i].rest
    <3>1. PICK i \in 1 .. N : Caller(i) = x /\ y \in frames[i].rest
      BY <2>1, <1>1 DEF SearchCore, ScanInv
    <3> QED
      BY <3>1, <1>1
  <2>2. Closed(m, Popped)'
    BY <1>3, <1>4 DEF SearchCore, ScanInv
  <2> QED
    BY <2>1, <2>2, <1>2, <1>4 DEF ScanInv
<1>12. LowInv'
  <2>1. ASSUME NEW i \in 1 .. N - 1
        PROVE  /\ lowlinks'[Caller(i)] <= indices[Caller(i)]
               /\ \E x \in on_stack : indices[x] = lowlinks'[Caller(i)] /\ Reaches(m, Caller(i), x)
    <3>1. PICK x \in on_stack : indices[x] = lowlinks[Caller(i)] /\ Reaches(m, Caller(i), x)
      BY <1>1 DEF SearchCore, LowInv
    <3>2. lowlinks[Caller(i)] <= indices[Caller(i)]
      BY <1>1 DEF SearchCore, LowInv
    <3>3. CASE lowlinks'[Caller(i)] = lowlinks[Caller(i)]
      BY <3>1, <3>2, <3>3
    <3>4. CASE lowlinks'[Caller(i)] # lowlinks[Caller(i)]
      <4>1. lowlinks'[Caller(i)] = lowlinks[s] /\ lowlinks[s] < lowlinks[Caller(i)]
        BY <3>4, <1>4
      <4>2. lowlinks'[Caller(i)] <= indices[Caller(i)]
        BY <4>1, <3>2, <1>4, <1>6
      <4>3. indices[Caller(i)] <= indices[s]
        BY <1>4, <1>6
      <4>4. Reaches(m, Caller(i), s)
        BY <4>3, <1>1 DEF SearchCore, CallsInv
      <4>5. Reaches(m, Caller(i), t)
        BY <4>4, <1>7, ReachTrans
      <4> QED
        BY <4>1, <4>2, <4>5, <1>7
    <3> QED
      BY <3>3, <3>4
  <2>2. ASSUME NEW i \in 1 .. N - 1, NEW x \in on_stack, NEW y \in Neighbours(m, x) \cap on_stack,
               indices[Caller(i)] <= indices[x],
               i + 1 \in 1 .. N - 1 => indices[x] < indices[Caller(i + 1)]
        PROVE  lowlinks'[Caller(i)] <= indices[y] \/ (x = Caller(i) /\ y \in frames[i].rest)
    <3>1. lowlinks'[Caller(i)] <= lowlinks[Caller(i)] /\ lowlinks'[Caller(i)] \in Nat
      BY <1>4, <1>6
    <3>2. indices[y] \in Nat /\ indices[x] \in Nat
      BY <1>5
    <3>3. CASE i + 1 \in 1 .. N => indices[x] < indices[Caller(i + 1)]
      <4>1. lowlinks[Caller(i)] <= indices[y] \/ (x = Caller(i) /\ y \in frames[i].rest)
        BY <2>2, <3>3, <1>1 DEF SearchCore, LowInv
      <4> QED
        BY <4>1, <3>1, <3>2, <1>4
    <3>4. CASE i + 1 \in 1 .. N /\ ~(indices[x] < indices[Caller(i + 1)])
      <4>1. i + 1 = N
        BY <3>4, <2>2, <1>1
      <4>2. indices[s] <= indices[x] /\ N + 1 \notin 1 .. N /\ i = N - 1
        BY <3>4, <4>1, <3>2, <1>1, <1>6
      <4>3. lowlinks[s] <= indices[y]
        BY <4>2, <1>1 DEF SearchCore, LowInv
      <4>4. lowlinks'[Caller(i)] <= lowlinks[s]
        BY <4>2, <1>4, <1>6
      <4> QED
        BY <4>3, <4>4, <3>1, <3>2, <1>6
    <3> QED
      BY <3>3, <3>4
  <2>3. \A i \in 1 .. N - 1 : i + 1 \in 1 .. N - 1 => Caller(i + 1)' = Caller(i + 1)
    BY <1>2
  <2>4. \A i \in DOMAIN frames' :
          /\ lowlinks'[Caller(i)'] <= indices'[Caller(i)']
          /\ \E x \in on_stack' :
               indices'[x] = lowlinks'[Caller(i)'] /\ Reaches(m, Caller(i), x)'
    BY <2>1, <1>2, <1>3, <1>4
  <2>5. \A i \in DOMAIN frames' : \A x \in on_stack' :
          \A y \in Neighbours(m, x)' \cap on_stack' :
            /\ indices'[Caller(i)'] <= indices'[x]
            /\ i + 1 \in DOMAIN frames' => indices'[x] < indices'[Caller(i + 1)']
            => lowlinks'[Caller(i)'] <= indices'[y] \/ (x = Caller(i)' /\ y \in frames'[i].rest)
    BY <2>2, <2>3, <1>2, <1>3, <1>4
  <2> QED
    BY <2>4, <2>5 DEF LowInv
<1>13. (sccs \subseteq Components(m))'
  BY <1>3, <1>4 DEF SearchCore
<1> QED
  BY <1>9, <1>10, <1>11, <1>12, <1>13 DEF SearchCore

LEMMA SearchKeeps ==
  ASSUME SearchCore, Search
  PROVE  SearchCore'
<1>1. ASSUME NEW s \in DOMAIN m.states, Root(s) PROVE SearchCore'
  <2>1. frames = <<>> /\ DOMAIN frames = {} /\ Len(frames) = 0 /\ <<>> \in Seq(Frames)
    BY <1>1 DEF Root
  <2> QED
    BY <2>1, <1>1, EnterKeeps DEF Root
<1>2. ASSUME frames # <<>>, NEW w \in Top.rest, Descend(w) PROVE SearchCore'
  <2>1. w \in Neighbours(m, Caller(Len(frames))) /\ w \in DOMAIN m.states
    BY <1>2, LastCall, NeighbourIsState
  <2>2. /\ Took(w) \in Seq(Frames) /\ Len(Took(w)) = Len(frames)
        /\ \A i \in DOMAIN frames :
             /\ Took(w)[i].state = Caller(i)
             /\ Took(w)[i].rest \subseteq frames[i].rest
             /\ frames[i].rest \subseteq Took(w)[i].rest \cup {w}
    BY <1>2, TookFrames
  <2> QED
    BY <2>1, <2>2, <1>2, EnterKeeps DEF Descend
<1> QED
  BY <1>1, <1>2, ScanKeeps, ReturnWithComponent, ReturnToCaller DEF Search

-----------------------------------------------------------------------------
(* The machine that a body becomes. *)

(* A set of numbers has a least one, and a greatest one if it is bounded. *)
Smaller == {p \in Nat \X Nat : p[1] < p[2]}

LEMMA LeastOf ==
  ASSUME NEW T, T \subseteq Nat, T # {}
  PROVE  \E k \in T : \A j \in T : k <= j
<1>1. IsWellFoundedOn(Smaller, Nat)
  <2>1. Smaller = OpToRel(<, Nat)
    BY DEF Smaller, OpToRel
  <2> QED
    BY <2>1, NatLessThanWellFounded
<1>2. PICK k \in T : \A j \in T : <<j, k>> \notin Smaller
  BY <1>1, WFMin
<1>3. ASSUME NEW j \in T, ~(k <= j) PROVE FALSE
  <2>1. j \in Nat /\ k \in Nat /\ j < k
    BY <1>3
  <2> QED
    BY <2>1, <1>2 DEF Smaller
<1> QED
  BY <1>3

LEMMA GreatestOf ==
  ASSUME NEW n \in Nat, NEW T, T \subseteq 1 .. n, T # {}
  PROVE  \E k \in T : \A j \in T : j <= k
<1> DEFINE gaps == {n - j : j \in T}
<1>1. gaps \subseteq Nat /\ gaps # {}
  <2>1. \A j \in T : n - j \in Nat
    OBVIOUS
  <2> QED
    BY <2>1
<1>2. PICK gap \in gaps : \A other \in gaps : gap <= other
  BY <1>1, LeastOf
<1>3. PICK k \in T : gap = n - k
  BY <1>2
<1>4. \A j \in T : n - k <= n - j
  BY <1>2, <1>3
<1>5. \A j \in T : j \in Nat /\ k \in Nat
  BY <1>3
<1> QED
  BY <1>3, <1>4, <1>5

(* An edge that leads to a terminal without being known to names one of    *)
(* the built-in ones.                                                      *)
IsBuiltState(state) ==
  /\ IsState(state)
  /\ \A e \in Edges(state) : e.kind = "terminal" => e.id \in BuiltinTerminals

LEMMA BuiltStateFrom ==
  ASSUME NEW raw, NEW exits, IsRawState(raw, exits), NEW done, NEW fail,
         done \in Edge, done.kind = "terminal" => done.id \in BuiltinTerminals,
         fail \in Edge, fail.kind = "terminal" => fail.id \in BuiltinTerminals
  PROVE  IsBuiltState(StateFrom(raw, done, fail))
<1> DEFINE built == StateFrom(raw, done, fail)
<1>1. /\ DOMAIN built = {"on_done", "on_fail", "directives", "max_visits", "guarded"}
      /\ built.on_done = done /\ built.on_fail = fail
      /\ built.directives = [d \in DOMAIN raw.directives |-> ToState(raw.directives[d])]
      /\ built.max_visits = OrElse(raw.max_visits, 1) /\ built.guarded = raw.guarded
  BY DEF StateFrom
<1>2. \A d \in DOMAIN raw.directives :
        d \in Directives /\ ToState(raw.directives[d]) \in Edge
        /\ ToState(raw.directives[d]).kind = "state"
  BY DEF IsRawState, ToState, Edge
<1>3. OrElse(raw.max_visits, 1) \in Nat /\ raw.guarded \in BOOLEAN
  BY DEF IsRawState, OrElse
<1> HIDE DEF built
<1>4. IsState(built)
  BY <1>1, <1>2, <1>3 DEF IsState
<1>5. \A e \in Edges(built) : e.kind = "terminal" => e.id \in BuiltinTerminals
  <2>1. Edges(built) = {done, fail} \cup {ToState(raw.directives[d]) : d \in DOMAIN raw.directives}
    BY <1>1 DEF Edges
  <2> QED
    BY <2>1, <1>2
<1> QED
  BY <1>4, <1>5 DEF IsBuiltState, built

LEMMA ExitIsEdge ==
  ASSUME NEW id \in Ids \cup {Unset}, NEW default \in BuiltinTerminals
  PROVE  /\ IdOrElse(id, default) \in Edge
         /\ IdOrElse(id, default).kind = "terminal" =>
              IdOrElse(id, default).id \in BuiltinTerminals
BY DEF IdOrElse, ToTerminal, ToState, Edge, Ids

LEMMA BuildIsMachine ==
  ASSUME NEW raw, IsRawBody(raw), HasBody(raw)
  PROVE  /\ IsMachine(Build(raw))
         /\ \A s \in DOMAIN Build(raw).states : IsBuiltState(Build(raw).states[s])
<1>1. Success \in BuiltinTerminals /\ Failure \in BuiltinTerminals
  BY DEF BuiltinTerminals
<1>2. ASSUME NEW s \in DOMAIN raw.states PROVE IsBuiltState(ConvertStates(raw.states)[s])
  <2>1. /\ IsRawState(raw.states[s], {"on_done", "on_fail"})
        /\ raw.states[s].on_done \in Ids \cup {Unset}
        /\ raw.states[s].on_fail \in Ids \cup {Unset}
    BY DEF IsRawBody, IsRawState
  <2> DEFINE done == IdOrElse(raw.states[s].on_done, Success)
             fail == IdOrElse(raw.states[s].on_fail, Failure)
  <2>2. /\ done \in Edge /\ (done.kind = "terminal" => done.id \in BuiltinTerminals)
        /\ fail \in Edge /\ (fail.kind = "terminal" => fail.id \in BuiltinTerminals)
    BY <2>1, <1>1, ExitIsEdge
  <2>3. ConvertStates(raw.states)[s] = StateFrom(raw.states[s], done, fail)
    BY DEF ConvertStates, ConvertState
  <2> HIDE DEF done, fail
  <2> QED
    BY <2>1, <2>2, <2>3, BuiltStateFrom
<1>3. DOMAIN ConvertStates(raw.states) = DOMAIN raw.states
  BY DEF ConvertStates
<1>4. CASE ~IsSugar(raw)
  <2>1. /\ Build(raw) = [start |-> raw.start, states |-> ConvertStates(raw.states),
                         terminals |-> raw.terminals]
        /\ raw.start \in Ids
    BY <1>4 DEF Build, BuildCanonical, IsRawBody
  <2>2. /\ DOMAIN Build(raw) = {"start", "states", "terminals"}
        /\ Build(raw).start = raw.start /\ Build(raw).states = ConvertStates(raw.states)
        /\ Build(raw).terminals = raw.terminals
    BY <2>1
  <2> QED
    BY <2>1, <2>2, <1>2, <1>3 DEF IsMachine, IsBuiltState, IsRawBody
<1>5. CASE IsSugar(raw)
  <2> DEFINE tasks == raw.tasks
             named(id) == {i \in DOMAIN tasks : tasks[i].id = id}
             last(id) == CHOOSE i \in named(id) : \A j \in named(id) : j <= i
             all == DOMAIN raw.states \cup {tasks[i].id : i \in DOMAIN tasks}
  <2>1. /\ tasks \in Seq({tasks[i] : i \in DOMAIN tasks}) /\ tasks # <<>>
        /\ raw.on_fail \in Ids \cup {Unset}
        /\ \A i \in DOMAIN tasks :
             /\ IsRawState(tasks[i], {"on_fail"}) /\ tasks[i].id \in Ids
             /\ tasks[i].on_fail \in Ids \cup {Unset}
    BY <1>5 DEF IsRawBody, HasBody, IsRawState
  <2>2. Len(tasks) \in Nat /\ DOMAIN tasks = 1 .. Len(tasks) /\ 1 \in DOMAIN tasks
    BY <2>1
  <2>3. /\ DOMAIN Build(raw) = {"start", "states", "terminals"}
        /\ Build(raw).start = tasks[1].id
        /\ Build(raw).terminals = raw.terminals
        /\ Build(raw).states =
             [id \in all |-> IF named(id) # {} THEN TaskToState(tasks, last(id), raw.on_fail)
                             ELSE ConvertStates(raw.states)[id]]
    BY <1>3, <1>5 DEF Build, BuildSugar
  <2> HIDE DEF tasks
  <2>4. ASSUME NEW i \in DOMAIN tasks PROVE IsBuiltState(TaskToState(tasks, i, raw.on_fail))
    <3> DEFINE done == IF i < Len(tasks) THEN ToState(tasks[i + 1].id) ELSE ToTerminal(Success)
               fail == IdOrElse(OrElse(tasks[i].on_fail, raw.on_fail), Failure)
    <3>1. done \in Edge /\ (done.kind = "terminal" => done.id \in BuiltinTerminals)
      <4>1. i < Len(tasks) => i + 1 \in DOMAIN tasks
        BY <2>2
      <4>2. i < Len(tasks) => tasks[i + 1].id \in Ids
        BY <4>1, <2>1
      <4> QED
        BY <4>2, <1>1 DEF ToState, ToTerminal, Edge, Ids
    <3>2. fail \in Edge /\ (fail.kind = "terminal" => fail.id \in BuiltinTerminals)
      <4>1. OrElse(tasks[i].on_fail, raw.on_fail) \in Ids \cup {Unset}
        BY <2>1 DEF OrElse
      <4> QED
        BY <4>1, <1>1, ExitIsEdge
    <3>3. TaskToState(tasks, i, raw.on_fail) = StateFrom(tasks[i], done, fail)
      BY DEF TaskToState
    <3> HIDE DEF done, fail
    <3> QED
      BY <2>1, <3>1, <3>2, <3>3, BuiltStateFrom
  <2>5. ASSUME NEW id, named(id) # {} PROVE last(id) \in DOMAIN tasks
    <3>1. named(id) \subseteq 1 .. Len(tasks)
      BY <2>2
    <3>2. \E i \in named(id) : \A j \in named(id) : j <= i
      BY <3>1, <2>2, <2>5, GreatestOf
    <3> HIDE DEF named
    <3>3. last(id) \in named(id)
      BY <3>2
    <3> QED
      BY <3>1, <3>3, <2>2
  <2>6. ASSUME NEW id \in all PROVE IsBuiltState(Build(raw).states[id])
    <3>1. CASE named(id) # {}
      <4>1. last(id) \in DOMAIN tasks
        BY <3>1, <2>5
      <4>2. Build(raw).states[id] = TaskToState(tasks, last(id), raw.on_fail)
        BY <3>1, <2>3
      <4> HIDE DEF last
      <4> QED
        BY <4>1, <4>2, <2>4
    <3>2. CASE named(id) = {}
      <4>1. id \in DOMAIN raw.states
        BY <3>2
      <4>2. Build(raw).states[id] = ConvertStates(raw.states)[id]
        BY <3>2, <2>3
      <4> QED
        BY <4>1, <4>2, <1>2
    <3> QED
      BY <3>1, <3>2
  <2>7. all \subseteq Ids /\ DOMAIN raw.terminals \subseteq Ids /\ tasks[1].id \in Ids
    BY <2>1, <2>2 DEF IsRawBody
  <2>8. DOMAIN Build(raw).states = all
    BY <2>3
  <2> HIDE DEF all
  <2> QED
    BY <2>3, <2>6, <2>7, <2>8 DEF IsMachine, IsBuiltState
<1> QED
  BY <1>4, <1>5

(* Pass 1. *)
LEMMA AssembleIsMachine ==
  ASSUME NEW raw, IsRawBody(raw), HasBody(raw)
  PROVE  /\ IsMachine(Assemble(raw))
         /\ Assemble(raw).start = Build(raw).start
         /\ Assemble(raw).states = Build(raw).states
         /\ DOMAIN Assemble(raw).terminals =
              DOMAIN Build(raw).terminals \cup (BuiltinTerminals \cap Referenced(Build(raw)))
         /\ \A s \in DOMAIN Assemble(raw).states : \A e \in Edges(Assemble(raw).states[s]) :
              e.kind = "terminal" => e.id \in DOMAIN Assemble(raw).terminals
<1> DEFINE b == Build(raw)
           added == (BuiltinTerminals \cap Referenced(b)) \ DOMAIN b.terminals
           terminals == [t \in DOMAIN b.terminals \cup added |->
                           IF t \in added THEN BuiltinOutcome[t] ELSE b.terminals[t]]
           a == Assemble(raw)
<1>1. a = [b EXCEPT !.terminals = terminals]
  BY DEF Assemble, ImplicitTerminals
<1>2. /\ DOMAIN terminals = DOMAIN b.terminals \cup (BuiltinTerminals \cap Referenced(b))
  OBVIOUS
<1>3. IsMachine(b) /\ \A s \in DOMAIN b.states : IsBuiltState(b.states[s])
  BY BuildIsMachine
<1> HIDE DEF b, terminals, a
<1>4. /\ DOMAIN a = {"start", "states", "terminals"}
      /\ a.start = b.start /\ a.states = b.states /\ a.terminals = terminals
  BY <1>1, <1>3 DEF IsMachine
<1>5. IsMachine(a)
  BY <1>2, <1>3, <1>4 DEF IsMachine, Ids
<1>6. ASSUME NEW s \in DOMAIN b.states, NEW e \in Edges(b.states[s]), e.kind = "terminal"
      PROVE  e.id \in DOMAIN terminals
  <2>1. e.id \in BuiltinTerminals
    BY <1>3, <1>6 DEF IsBuiltState
  <2>2. e.id \in Referenced(b)
    BY <1>6 DEF Referenced
  <2> QED
    BY <2>1, <2>2, <1>2
<1> QED
  BY <1>2, <1>4, <1>5, <1>6 DEF a, b

(* Pass 5 and the classification. *)
Mark(g, e) == IF e.id \in DOMAIN g.terminals THEN ToTerminal(e.id) ELSE e

Entries(g, C) == {First(scc) : scc \in {c \in C : IsLoop(g, c) /\ ~Declares(g, c)}}

LEMMA FinishShape ==
  ASSUME NEW g, IsMachine(g), NEW C
  PROVE  LET f == Finish(g, C) IN
         /\ IsMachine(f)
         /\ f.start = g.start /\ f.terminals = g.terminals
         /\ DOMAIN f.states = DOMAIN g.states
         /\ \A s \in DOMAIN g.states :
              /\ Edges(f.states[s]) = {Mark(g, e) : e \in Edges(g.states[s])}
              /\ f.states[s].max_visits =
                   IF s \in Entries(g, C) THEN DefaultCap ELSE g.states[s].max_visits
<1> DEFINE entries == Entries(g, C)
           capped(s) == IF s \in entries THEN [g.states[s] EXCEPT !.max_visits = DefaultCap]
                        ELSE g.states[s]
           c == CapLoops(g, C)
           f == Finish(g, C)
<1>1. c = [g EXCEPT !.states = [s \in DOMAIN g.states |-> capped(s)]]
  BY DEF CapLoops, Entries
<1>2. /\ DOMAIN g = {"start", "states", "terminals"}
      /\ \A s \in DOMAIN g.states : IsState(g.states[s])
      /\ {g.start} \cup DOMAIN g.states \cup DOMAIN g.terminals \subseteq Ids
  BY DEF IsMachine
<1>3. f = Classify(c)
  BY DEF Finish
<1> HIDE DEF entries
<1>4. /\ DOMAIN c = {"start", "states", "terminals"}
      /\ c.start = g.start /\ c.terminals = g.terminals
      /\ DOMAIN c.states = DOMAIN g.states
      /\ \A s \in DOMAIN g.states : c.states[s] = capped(s)
  <2> HIDE DEF capped, c
  <2> QED
    BY <1>1, <1>2
<1>5. \A s \in DOMAIN g.states :
        /\ DOMAIN capped(s) = {"on_done", "on_fail", "directives", "max_visits", "guarded"}
        /\ capped(s).on_done = g.states[s].on_done /\ capped(s).on_fail = g.states[s].on_fail
        /\ capped(s).directives = g.states[s].directives
        /\ capped(s).guarded = g.states[s].guarded
        /\ capped(s).max_visits = IF s \in entries THEN DefaultCap ELSE g.states[s].max_visits
  BY <1>2 DEF IsState
<1> HIDE DEF c, capped, f
<1>6. f = [c EXCEPT !.states = [s \in DOMAIN c.states |->
                       [c.states[s] EXCEPT
                          !.on_done = Mark(g, @), !.on_fail = Mark(g, @),
                          !.directives = [d \in DOMAIN @ |-> Mark(g, @[d])]]]]
  BY <1>3, <1>4 DEF Classify, Mark
<1> DEFINE marked(s) == [capped(s) EXCEPT
                           !.on_done = Mark(g, @), !.on_fail = Mark(g, @),
                           !.directives = [d \in DOMAIN @ |-> Mark(g, @[d])]]
<1>7. f = [c EXCEPT !.states = [s \in DOMAIN g.states |-> marked(s)]]
  BY <1>4, <1>6
<1>8. \A s \in DOMAIN g.states :
        /\ DOMAIN marked(s) = {"on_done", "on_fail", "directives", "max_visits", "guarded"}
        /\ marked(s).on_done = Mark(g, g.states[s].on_done)
        /\ marked(s).on_fail = Mark(g, g.states[s].on_fail)
        /\ marked(s).directives =
             [d \in DOMAIN g.states[s].directives |-> Mark(g, g.states[s].directives[d])]
        /\ marked(s).guarded = g.states[s].guarded
        /\ marked(s).max_visits = IF s \in entries THEN DefaultCap ELSE g.states[s].max_visits
  BY <1>5
<1> HIDE DEF marked
<1>9. /\ DOMAIN f = {"start", "states", "terminals"}
      /\ f.start = g.start /\ f.terminals = g.terminals
      /\ DOMAIN f.states = DOMAIN g.states
      /\ \A s \in DOMAIN g.states : f.states[s] = marked(s)
  BY <1>4, <1>7
<1>10. \A e \in Edge : Mark(g, e) \in Edge
  BY <1>2 DEF Mark, ToTerminal, Edge
<1>11. \A s \in DOMAIN g.states : IsState(marked(s))
  <2> SUFFICES ASSUME NEW s \in DOMAIN g.states PROVE IsState(marked(s))
    OBVIOUS
  <2>1. IsState(g.states[s])
    BY <1>2
  <2>2. marked(s).max_visits \in Nat
    BY <2>1, <1>8, CapAssumption DEF IsState
  <2>3. marked(s).on_done \in Edge /\ marked(s).on_fail \in Edge
    BY <2>1, <1>8, <1>10 DEF IsState
  <2>4. /\ DOMAIN marked(s).directives \subseteq Directives
        /\ \A d \in DOMAIN marked(s).directives : marked(s).directives[d] \in Edge
    BY <2>1, <1>8, <1>10 DEF IsState
  <2>5. marked(s).guarded \in BOOLEAN
    BY <2>1, <1>8 DEF IsState
  <2> QED
    BY <2>2, <2>3, <2>4, <2>5, <1>8 DEF IsState
<1>12. IsMachine(f)
  BY <1>2, <1>9, <1>11 DEF IsMachine
<1>13. \A s \in DOMAIN g.states : Edges(marked(s)) = {Mark(g, e) : e \in Edges(g.states[s])}
  <2> SUFFICES ASSUME NEW s \in DOMAIN g.states
               PROVE  Edges(marked(s)) = {Mark(g, e) : e \in Edges(g.states[s])}
    OBVIOUS
  <2> DEFINE table == g.states[s].directives
  <2>1. /\ marked(s).on_done = Mark(g, g.states[s].on_done)
        /\ marked(s).on_fail = Mark(g, g.states[s].on_fail)
        /\ marked(s).directives = [d \in DOMAIN table |-> Mark(g, table[d])]
    BY <1>8
  <2>2. Edges(marked(s)) = {Mark(g, g.states[s].on_done), Mark(g, g.states[s].on_fail)}
                             \cup {Mark(g, table[d]) : d \in DOMAIN table}
    BY <2>1 DEF Edges
  <2>3. Edges(g.states[s]) = {g.states[s].on_done, g.states[s].on_fail}
                               \cup {table[d] : d \in DOMAIN table}
    BY DEF Edges
  <2> HIDE DEF table
  <2> QED
    BY <2>2, <2>3
<1> QED
  BY <1>8, <1>9, <1>12, <1>13 DEF f, entries

(* No edge changes its target, so the loops stay what they were as long as *)
(* no id is both a state and a terminal.                                   *)
LEMMA FinishKeepsLoops ==
  ASSUME NEW g, IsMachine(g), NEW C, DOMAIN g.states \cap DOMAIN g.terminals = {}
  PROVE  /\ Components(Finish(g, C)) = Components(g)
         /\ \A s \in DOMAIN g.states : Neighbours(Finish(g, C), s) = Neighbours(g, s)
<1> DEFINE f == Finish(g, C)
<1>1. /\ DOMAIN f.states = DOMAIN g.states
      /\ \A s \in DOMAIN g.states : Edges(f.states[s]) = {Mark(g, e) : e \in Edges(g.states[s])}
  BY FinishShape
<1>2. \A e : /\ e.id \in DOMAIN g.states => Mark(g, e) = e
             /\ Mark(g, e).id = e.id
  BY DEF Mark, ToTerminal
<1> HIDE DEF f
<1>3. ASSUME NEW s \in DOMAIN g.states PROVE Neighbours(f, s) = Neighbours(g, s)
  <2>1. ASSUME NEW t \in Neighbours(f, s) PROVE t \in Neighbours(g, s)
    <3>1. PICK e \in Edges(f.states[s]) : e.kind = "state" /\ e.id = t /\ t \in DOMAIN g.states
      BY <2>1, <1>1 DEF Neighbours
    <3>2. PICK h \in Edges(g.states[s]) : e = Mark(g, h)
      BY <3>1, <1>1
    <3>3. h = e
      BY <3>1, <3>2, <1>2
    <3> QED
      BY <3>1, <3>2, <3>3 DEF Neighbours
  <2>2. ASSUME NEW t \in Neighbours(g, s) PROVE t \in Neighbours(f, s)
    <3>1. PICK e \in Edges(g.states[s]) : e.kind = "state" /\ e.id = t /\ t \in DOMAIN g.states
      BY <2>2 DEF Neighbours
    <3>2. e \in Edges(f.states[s])
      BY <3>1, <1>1, <1>2
    <3> QED
      BY <3>1, <3>2, <1>1 DEF Neighbours
  <2> QED
    BY <2>1, <2>2
<1>4. \A S \in SUBSET DOMAIN g.states : Closed(f, S) <=> Closed(g, S)
  BY <1>3 DEF Closed
<1>5. \A s, t : Reaches(f, s, t) <=> Reaches(g, s, t)
  BY <1>1, <1>4 DEF Reaches
<1>6. \A s : Component(f, s) = Component(g, s)
  BY <1>1, <1>5 DEF Component
<1>7. Components(f) = Components(g)
  BY <1>1, <1>6 DEF Components
<1> QED
  BY <1>3, <1>7 DEF f

LEMMA FirstIsMember ==
  ASSUME NEW scc \in SUBSET Ids, scc # {}
  PROVE  First(scc) \in scc
<1> DEFINE ranks == {Rank[s] : s \in scc}
<1>1. ranks \subseteq Nat /\ ranks # {}
  BY RankAssumption
<1>2. PICK r \in ranks : \A q \in ranks : r <= q
  BY <1>1, LeastOf
<1>3. \E s \in scc : \A t \in scc : Rank[s] <= Rank[t]
  BY <1>2
<1> QED
  BY <1>3 DEF First

LEMMA CapsBoundLoops ==
  ASSUME NEW g, IsMachine(g), DOMAIN g.states \cap DOMAIN g.terminals = {}
  PROVE  LET f == Finish(g, Components(g)) IN LoopsBounded(f, Components(f))
<1> DEFINE C == Components(g)
           f == Finish(g, C)
<1>1. /\ DOMAIN f.states = DOMAIN g.states
      /\ \A s \in DOMAIN g.states :
           f.states[s].max_visits =
             IF s \in Entries(g, C) THEN DefaultCap ELSE g.states[s].max_visits
  BY FinishShape
<1>2. Components(f) = C /\ \A s \in DOMAIN g.states : Neighbours(f, s) = Neighbours(g, s)
  BY FinishKeepsLoops
<1>3. \A scc \in C : scc \subseteq DOMAIN g.states /\ scc \in SUBSET Ids /\ scc # {}
  BY ComponentOfItself DEF Components, Component, IsMachine
<1>4. \A s \in DOMAIN g.states : g.states[s].max_visits \in Nat
  BY DEF IsMachine, IsState
<1> HIDE DEF C, f
<1>5. ASSUME NEW scc \in C, IsLoop(f, scc) PROVE Declares(f, scc)
  <2>1. IsLoop(g, scc)
    BY <1>2, <1>3, <1>5 DEF IsLoop
  <2>2. CASE Declares(g, scc)
    <3>1. PICK s \in scc : g.states[s].max_visits > 1
      BY <2>2 DEF Declares
    <3>2. f.states[s].max_visits > 1
      BY <3>1, <1>1, <1>3, CapAssumption
    <3> QED
      BY <3>2 DEF Declares
  <2>3. CASE ~Declares(g, scc)
    <3>1. First(scc) \in Entries(g, C) /\ First(scc) \in scc
      BY <2>1, <2>3, <1>3, FirstIsMember DEF Entries
    <3>2. f.states[First(scc)].max_visits > 1
      BY <3>1, <1>1, <1>3, CapAssumption
    <3> QED
      BY <3>1, <3>2 DEF Declares
  <2> QED
    BY <2>2, <2>3
<1> QED
  BY <1>2, <1>5 DEF LoopsBounded, f, C

(* Passes 1 and 5 and the classification together. *)
LEMMA ExpandIsMachine ==
  ASSUME NEW raw, IsRawBody(raw), HasBody(raw)
  PROVE  /\ IsMachine(Expand(raw))
         /\ Expand(raw).start = Build(raw).start
         /\ DOMAIN Expand(raw).states = DOMAIN Build(raw).states
         /\ DOMAIN Expand(raw).terminals =
              DOMAIN Build(raw).terminals \cup (BuiltinTerminals \cap Referenced(Build(raw)))
         /\ \A s \in DOMAIN Expand(raw).states : \A e \in Edges(Expand(raw).states[s]) :
              /\ e.kind = "terminal" <=> e.id \in DOMAIN Expand(raw).terminals
              /\ \E h \in Edges(Build(raw).states[s]) : e.id = h.id
<1> DEFINE b == Build(raw)
           a == Assemble(raw)
           cs == Components(a)
           f == Finish(a, cs)
<1>1. /\ IsMachine(a) /\ a.start = b.start /\ a.states = b.states
      /\ DOMAIN a.terminals = DOMAIN b.terminals \cup (BuiltinTerminals \cap Referenced(b))
      /\ \A s \in DOMAIN a.states : \A e \in Edges(a.states[s]) :
           e.kind = "terminal" => e.id \in DOMAIN a.terminals
  BY AssembleIsMachine
<1> HIDE DEF a
<1>2. /\ IsMachine(f) /\ f.start = a.start /\ f.terminals = a.terminals
      /\ DOMAIN f.states = DOMAIN a.states
      /\ \A s \in DOMAIN a.states :
           Edges(f.states[s]) = {Mark(a, e) : e \in Edges(a.states[s])}
  <2>1. IsMachine(a)
    BY <1>1
  <2> HIDE DEF cs
  <2> QED
    BY <2>1, FinishShape
<1>3. Expand(raw) = f
  BY DEF Expand, a
<1> HIDE DEF f, b
<1>4. ASSUME NEW s \in DOMAIN f.states, NEW e \in Edges(f.states[s])
      PROVE  /\ e.kind = "terminal" <=> e.id \in DOMAIN f.terminals
             /\ \E h \in Edges(b.states[s]) : e.id = h.id
  <2>1. PICK h \in Edges(a.states[s]) : e = Mark(a, h)
    BY <1>2, <1>4
  <2>2. h.kind = "terminal" => h.id \in DOMAIN a.terminals
    BY <2>1, <1>1, <1>2, <1>4
  <2>3. e.id = h.id /\ (e.kind = "terminal" <=> h.id \in DOMAIN a.terminals)
    BY <2>1, <2>2 DEF Mark, ToTerminal
  <2> QED
    BY <2>1, <2>3, <1>1, <1>2
<1> QED
  BY <1>1, <1>2, <1>3, <1>4 DEF b

LEMMA WellWrittenIsValid ==
  ASSUME IsRawBody(body), WellWritten
  PROVE  Valid(Expand(body), Components(Expand(body)))
<1> DEFINE b == Build(body)
           a == Assemble(body)
           f == Expand(body)
<1>1. /\ HasBody(body)
      /\ Referenced(b) \subseteq DOMAIN b.states \cup DOMAIN b.terminals \cup BuiltinTerminals
      /\ b.start \in DOMAIN b.states
      /\ DOMAIN b.states \cap (DOMAIN b.terminals \cup BuiltinTerminals) = {}
  BY DEF WellWritten
<1>2. /\ f.start = b.start /\ DOMAIN f.states = DOMAIN b.states
      /\ DOMAIN f.terminals = DOMAIN b.terminals \cup (BuiltinTerminals \cap Referenced(b))
      /\ \A s \in DOMAIN f.states : \A e \in Edges(f.states[s]) :
           \E h \in Edges(b.states[s]) : e.id = h.id
  BY <1>1, ExpandIsMachine
<1>3. /\ IsMachine(a) /\ DOMAIN a.states = DOMAIN b.states
      /\ DOMAIN a.terminals = DOMAIN b.terminals \cup (BuiltinTerminals \cap Referenced(b))
  BY <1>1, AssembleIsMachine
<1>4. f = Finish(a, Components(a))
  BY DEF Expand
<1> HIDE DEF b, a, f
<1>5. ValidStart(f) /\ ValidIds(f)
  BY <1>1, <1>2 DEF ValidStart, ValidIds
<1>6. ValidEdges(f)
  <2> SUFFICES ASSUME NEW s \in DOMAIN f.states, NEW e \in Edges(f.states[s])
               PROVE  e.id \in DOMAIN f.states \cup DOMAIN f.terminals
    BY DEF ValidEdges
  <2>1. e.id \in Referenced(b)
    BY <1>2 DEF Referenced
  <2> QED
    BY <2>1, <1>1, <1>2
<1>7. LoopsBounded(f, Components(f))
  <2>1. DOMAIN a.states \cap DOMAIN a.terminals = {}
    BY <1>1, <1>3
  <2> QED
    BY <2>1, <1>3, <1>4, CapsBoundLoops
<1> QED
  BY <1>5, <1>6, <1>7 DEF Valid, f

-----------------------------------------------------------------------------
(* The invariant. *)

LEMMA EmptySearch == NothingFound => SearchCore
<1> SUFFICES ASSUME NothingFound PROVE SearchCore
  OBVIOUS
<1>1. Discovered = {} /\ Empty \in [{} -> Nat] /\ IsFiniteSet({})
  BY FS_EmptySet DEF Discovered, Empty, NothingFound
<1>2. DOMAIN stack = {} /\ DOMAIN frames = {} /\ ToSet(stack) = {} /\ Popped = {}
  BY DEF ToSet, Popped, NothingFound
<1>3. /\ stack \in Seq(DOMAIN m.states)
      /\ frames \in Seq([state : DOMAIN m.states, rest : SUBSET DOMAIN m.states])
  BY DEF NothingFound
<1> QED
  BY <1>1, <1>2, <1>3
  DEF SearchCore, StackInv, CallsInv, ScanInv, LowInv, Closed, NothingFound

(* When every state is discovered and no call is active, all the classes   *)
(* have been found.                                                        *)
LEMMA AllFound ==
  ASSUME SearchCore, Searched
  PROVE  sccs = Components(m)
<1>1. on_stack = {} /\ Discovered = DOMAIN m.states /\ Discovered = on_stack \cup Popped
  BY NothingWaits DEF SearchCore, StackInv, Searched
<1>2. ASSUME NEW s \in DOMAIN m.states PROVE Component(m, s) \in sccs
  <2>1. PICK scc \in sccs : s \in scc
    BY <1>1 DEF Popped
  <2>2. PICK t \in DOMAIN m.states : scc = Component(m, t)
    BY <2>1 DEF SearchCore, Components
  <2> QED
    BY <2>1, <2>2, ComponentOfMember
<1> QED
  BY <1>2 DEF SearchCore, Components

LEMMA IdleKeeps ==
  ASSUME SearchCore, UNCHANGED <<m, tarjan>>
  PROVE  SearchCore'
<1>1. /\ m' = m /\ indices' = indices /\ lowlinks' = lowlinks /\ stack' = stack
      /\ on_stack' = on_stack /\ sccs' = sccs /\ frames' = frames
      /\ Discovered' = Discovered /\ Popped' = Popped
  BY DEF tarjan, Discovered, Popped
<1>2. StackInv'
  BY <1>1 DEF SearchCore, StackInv
<1>3. CallsInv'
  BY <1>1 DEF SearchCore, CallsInv, Caller
<1>4. ScanInv'
  BY <1>1 DEF SearchCore, ScanInv, Caller
<1>5. LowInv'
  BY <1>1 DEF SearchCore, LowInv, Caller
<1>6. (sccs \subseteq Components(m))'
  BY <1>1 DEF SearchCore
<1> QED
  BY <1>2, <1>3, <1>4, <1>5, <1>6 DEF SearchCore

LEMMA Initially ==
  ASSUME Init
  PROVE  IInv
<1>1. NothingFound
  BY DEF Init, NothingFound
<1>2. IsMachine(m)
  BY DEF Init, NoStates, IsMachine, Empty, Ids, BuiltinTerminals
<1> QED
  BY <1>1, <1>2, EmptySearch DEF Init, IInv, MachineInv, WellWrittenLoads

LEMMA Step ==
  ASSUME IInv, [Next]_vars
  PROVE  IInv'
<1>1. SearchCore /\ MachineInv /\ IsRawBody(body)
  BY BodiesAssumption DEF IInv, MachineInv
<1>2. (NothingFound => SearchCore)'
  BY EmptySearch, PTL
<1>3. ASSUME BuildMachine PROVE IInv'
  <2>1. NothingFound'
    BY <1>1, <1>3 DEF BuildMachine, MachineInv, NothingFound, tarjan
  <2>2. MachineInv'
    <3>1. body' = body /\ body \in Bodies /\ (WellWritten => HasBody(body))
      BY <1>1, <1>3 DEF BuildMachine, MachineInv, WellWritten
    <3>2. CASE HasBody(body)
      <4>1. m' = Assemble(body) /\ stage' = "cap" /\ IsMachine(m')
        BY <1>1, <1>3, <3>2, AssembleIsMachine DEF BuildMachine
      <4> QED
        BY <3>1, <3>2, <4>1 DEF MachineInv, WellWrittenLoads
    <3>3. CASE ~HasBody(body)
      <4>1. m' = m /\ stage' = "rejected" /\ ~WellWritten'
        BY <1>3, <3>1, <3>3 DEF BuildMachine, WellWritten
      <4> QED
        BY <1>1, <3>1, <4>1 DEF MachineInv, WellWrittenLoads
    <3> QED
      BY <3>2, <3>3
  <2> QED
    BY <1>2, <2>1, <2>2 DEF IInv
<1>4. ASSUME Search PROVE IInv'
  <2>1. body' = body /\ m' = m /\ stage' = stage /\ stage \in {"cap", "validate"}
    BY <1>4 DEF Search, Searching, Root, Descend, Enter, Scan, Return
  <2>2. MachineInv'
    BY <1>1, <2>1 DEF MachineInv, WellWrittenLoads
  <2> QED
    BY <1>1, <1>4, <2>2, SearchKeeps DEF IInv
<1>5. ASSUME Cap PROVE IInv'
  <2>1. NothingFound'
    BY <1>5 DEF Cap, Reset, NothingFound
  <2>2. sccs = Components(m) /\ HasBody(body) /\ m = Assemble(body) /\ body \in Bodies
    BY <1>1, <1>5, AllFound DEF Cap, MachineInv
  <2>3. m' = Expand(body) /\ body' = body /\ stage' = "validate"
    BY <1>5, <2>2 DEF Cap, Expand
  <2>4. IsMachine(m')
    BY <1>1, <2>2, <2>3, ExpandIsMachine
  <2>5. MachineInv'
    BY <2>2, <2>3, <2>4 DEF MachineInv, WellWrittenLoads
  <2> QED
    BY <1>2, <2>1, <2>5 DEF IInv
<1>6. ASSUME Validate PROVE IInv'
  <2>1. UNCHANGED <<body, m, tarjan>>
    BY <1>6 DEF Validate
  <2>2. SearchCore'
    BY <1>1, <2>1, IdleKeeps
  <2>3. sccs = Components(m) /\ HasBody(body) /\ m = Expand(body) /\ body \in Bodies /\ IsMachine(m)
    BY <1>1, <1>6, AllFound DEF Validate, MachineInv
  <2>4. stage' = IF Valid(m, Components(m)) THEN "loaded" ELSE "rejected"
    BY <1>6, <2>3 DEF Validate
  <2>5. WellWritten => Valid(m, Components(m))
    BY <1>1, <2>3, WellWrittenIsValid
  <2>6. WellWritten' <=> WellWritten
    BY <2>1 DEF WellWritten
  <2>7. MachineInv'
    BY <2>1, <2>3, <2>4, <2>5, <2>6 DEF MachineInv, WellWrittenLoads
  <2> QED
    BY <2>2, <2>7 DEF IInv
<1>7. ASSUME UNCHANGED vars PROVE IInv'
  <2>1. SearchCore'
    BY <1>1, <1>7, IdleKeeps DEF vars
  <2>2. MachineInv'
    BY <1>1, <1>7 DEF vars, tarjan, MachineInv, NothingFound, WellWrittenLoads, WellWritten
  <2> QED
    BY <2>1, <2>2 DEF IInv
<1> QED
  BY <1>3, <1>4, <1>5, <1>6, <1>7 DEF Next, Done

LEMMA Invariant == Spec => []IInv
BY Initially, Step, PTL DEF Spec

-----------------------------------------------------------------------------
(* What follows. *)

(* Whatever the graph and the order of the visits: the stack between two   *)
(* calls is in order of discovery and waits for its roots, nothing but     *)
(* classes of mutual reachability is ever emitted, and at the end all of   *)
(* them are (tarjan_strongconnect).                                        *)
THEOREM LoopsAreFound == Spec => []SearchInv
<1>1. ASSUME IInv PROVE SearchInv
  <2>1. StackInv /\ CallsInv /\ sccs \subseteq Components(m) /\ IsMachine(m)
    BY <1>1 DEF IInv, SearchCore, MachineInv
  <2>2. TypeOK
    <3>1. on_stack \subseteq Discovered /\ Popped \subseteq Discovered
          /\ Discovered \subseteq DOMAIN m.states /\ DOMAIN lowlinks = Discovered
      BY <2>1 DEF StackInv
    <3>2. stack \in Seq(Discovered)
      <4>1. stack \in Seq(DOMAIN m.states) /\ \A i \in DOMAIN stack : stack[i] \in Discovered
        BY <2>1, <3>1 DEF StackInv, ToSet
      <4>2. Len(stack) \in Nat /\ stack = [i \in 1 .. Len(stack) |-> stack[i]]
        BY <4>1
      <4> QED
        BY <4>1, <4>2
    <3>3. sccs \subseteq SUBSET Discovered
      BY <3>1 DEF Popped
    <3>4. \A i \in DOMAIN frames :
            frames[i].state \in on_stack /\ frames[i].rest \subseteq DOMAIN m.states
      BY <2>1, NeighbourIsState DEF CallsInv, Caller
    <3> QED
      BY <1>1, <2>1, <3>1, <3>2, <3>3, <3>4 DEF TypeOK, IInv, MachineInv
  <2>3. StackWaitsForItsRoot
    <3>1. on_stack = ToSet(stack) /\ Discovered = on_stack \cup Popped /\ on_stack \cap Popped = {}
      BY <2>1 DEF StackInv
    <3>2. /\ Len(stack) \in Nat /\ DOMAIN stack = 1 .. Len(stack)
          /\ \A i \in DOMAIN stack : indices[stack[i]] \in Nat
          /\ \A i, j \in DOMAIN stack : i < j => indices[stack[i]] < indices[stack[j]]
      BY <2>1 DEF StackInv, ToSet
    <3>3. IsInjective(stack)
      <4>1. ASSUME NEW i \in DOMAIN stack, NEW j \in DOMAIN stack, i < j PROVE stack[i] # stack[j]
        <5>1. indices[stack[i]] < indices[stack[j]] /\ indices[stack[i]] \in Nat
          BY <3>2, <4>1
        <5> QED
          BY <5>1
      <4>2. \A i, j \in DOMAIN stack : i < j \/ j < i \/ i = j
        BY <3>2
      <4> QED
        BY <4>1, <4>2 DEF IsInjective
    <3>4. \A i \in 2 .. Len(stack) : indices[stack[i - 1]] < indices[stack[i]]
      <4>1. \A i \in 2 .. Len(stack) : i - 1 \in DOMAIN stack /\ i \in DOMAIN stack /\ i - 1 < i
        BY <3>2
      <4> QED
        BY <3>2, <4>1
    <3>5. \A s \in on_stack : \E i \in DOMAIN frames :
            indices[frames[i].state] <= indices[s] /\ Reaches(m, s, frames[i].state)
      BY <2>1 DEF CallsInv, Caller
    <3> QED
      BY <3>1, <3>3, <3>4, <3>5 DEF StackWaitsForItsRoot, Popped
  <2>4. SccsAreComponents
    BY <1>1, <2>1, AllFound DEF SccsAreComponents, IInv
  <2> QED
    BY <2>2, <2>3, <2>4 DEF SearchInv
<1> QED
  BY <1>1, Invariant, PTL

(* Once the caps are injected, every loop of the machine has one, if no id *)
(* is both a state and a terminal (apply_pass5_max_visits).                *)
THEOREM CapsReachEveryLoop == Spec => []CapsReachDisjointLoops
<1>1. ASSUME IInv PROVE CapsReachDisjointLoops
  <2> SUFFICES ASSUME stage = "validate", Overlap = {} PROVE LoopsBounded(m, Components(m))
    BY DEF CapsReachDisjointLoops
  <2> DEFINE a == Assemble(body)
  <2>1. IsRawBody(body) /\ HasBody(body) /\ m = Finish(a, Components(a))
    BY <1>1, BodiesAssumption DEF IInv, MachineInv, Expand
  <2>2. IsMachine(a)
    BY <2>1, AssembleIsMachine
  <2> HIDE DEF a
  <2>3. DOMAIN m.states = DOMAIN a.states /\ m.terminals = a.terminals
    BY <2>1, <2>2, FinishShape
  <2> QED
    BY <2>1, <2>2, <2>3, CapsBoundLoops DEF Overlap
<1> QED
  BY <1>1, Invariant, PTL

(* No well-written entry is turned down, and what loads is the machine     *)
(* that the definition of the expansion gives, with its edges told apart   *)
(* and a start that exists (expand_body, validate_rule).                   *)
THEOREM WellWrittenEntriesLoad == Spec => []LoadingInv
<1>1. ASSUME IInv PROVE LoadingInv
  <2>1. WellWrittenLoads
    BY <1>1 DEF IInv, MachineInv
  <2>2. ASSUME stage = "loaded" PROVE LoadedAsDefined
    <3>1. IsRawBody(body) /\ HasBody(body) /\ m = Expand(body) /\ Valid(m, Components(m))
      BY <1>1, <2>2, BodiesAssumption DEF IInv, MachineInv
    <3>2. m.start \in IF DOMAIN m.states = {} THEN DOMAIN m.terminals ELSE DOMAIN m.states
      BY <3>1 DEF Valid, ValidStart
    <3>3. \A s \in DOMAIN m.states : \A e \in Edges(m.states[s]) :
            e.kind = "terminal" <=> e.id \in DOMAIN m.terminals
      BY <3>1, ExpandIsMachine
    <3> QED
      BY <3>1, <3>2, <3>3 DEF LoadedAsDefined
  <2> QED
    BY <2>1, <2>2 DEF LoadingInv, LoadedAsDefined
<1> QED
  BY <1>1, Invariant, PTL
===============================================================================
