--------------------------------- MODULE MCTui ---------------------------------
(* A small instance of Tui: two tickets, a ring of two events, pages of    *)
(* two, a channel of two updates.                                          *)
EXTENDS Tui

Groups == {{"events"}, {"tickets", "detail"}, {"escalations"}, {"tickets", "refresh"}}
================================================================================
