--------------------------- MODULE MCLinearClient -----------------------------
(* A small instance of LinearClient: three issues on two pages, two        *)
(* callers and a channel of one slot.                                      *)
EXTENDS LinearClient

ThreeIssues == <<11, 12, 13>>
===============================================================================
