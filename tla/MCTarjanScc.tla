------------------------------ MODULE MCTarjanScc ------------------------------
(* Bodies for TarjanScc: every graph over three states, and short sugar. *)
EXTENDS TarjanScc

Letters == {"a", "b", "c"}
MCRank == [s \in Ids |-> CASE s = "a" -> 1 [] s = "b" -> 2 [] s = "c" -> 3 [] OTHER -> 0]

(* A raw state with the given edges; a directive goes to the third of them, *)
(* or else to a built-in terminal.                                          *)
RawState(targets, cap) ==
  LET e == SetToSortSeq(targets, LAMBDA s, t : MCRank[s] < MCRank[t])
      nth(i) == IF i \in DOMAIN e THEN e[i] ELSE Unset
  IN  [on_done |-> nth(1), on_fail |-> nth(2),
       directives |-> [d \in {"go"} |-> IF 3 \in DOMAIN e THEN e[3] ELSE Cancelled],
       max_visits |-> cap, guarded |-> FALSE]

Capped(set) == [s \in Letters |-> IF s \in set THEN 2 ELSE Unset]
End(set) == [t \in set |-> "done"]

(* Every graph, with and without a declared cap and an id used twice. *)
GraphBodies ==
  {[start |-> "a", states |-> [s \in Letters |-> RawState(edges[s], Capped(cap)[s])],
    terminals |-> End(both)] :
     edges \in [Letters -> SUBSET Letters], cap \in {{}, {"c"}},
     both \in {{}, {"c"}}}

Tasks ==
  {[id |-> id, on_fail |-> fail, max_visits |-> Unset, guarded |-> FALSE,
    directives |-> [d \in retry |-> "a"]] :
     id \in {"a", "b"}, fail \in {Unset, "b", "t"}, retry \in {{}, {"retry"}}}

SugarBodies ==
  {[tasks |-> tasks, terminals |-> End(ends), on_fail |-> fail,
    states |-> [s \in inline |-> RawState({"a"}, Unset)]] :
     tasks \in BoundedSeq(Tasks, 2), ends \in {{}, {"t"}}, fail \in {Unset, "t"},
     inline \in {{}, {"b"}}}

(* No states at all: nothing to start but a terminal. *)
EmptyBodies ==
  {[start |-> start, states |-> [s \in {} |-> Unset], terminals |-> End(ends)] :
     start \in {"a", "t", Success}, ends \in {{}, {"t"}}}

MCBodies == GraphBodies \cup SugarBodies \cup EmptyBodies
================================================================================
