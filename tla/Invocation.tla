------------------------------- MODULE Invocation ------------------------------
(* One command of the roki binary: what it was called with, how far it is, *)
(* and the code it exits with.                                             *)
EXTENDS RokiConfig

VARIABLES
  call,  (* the subcommand with its flags, environment and roki.toml       *)
  pc,    (* "start", the steps of the subcommand, "done"                   *)
  exit   (* the exit code, Absent while it runs                            *)

callVars == <<call, pc, exit>>

Finish(code) == pc' = "done" /\ exit' = code /\ UNCHANGED call
GoTo(step) == pc' = step /\ UNCHANGED <<call, exit>>

Is(command) == call.command = command /\ pc # "done"
Done(code) == pc = "done" /\ exit = code
================================================================================
