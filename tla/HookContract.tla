---------------------------- MODULE HookContract ----------------------------
(***************************************************************************)
(* What source/wiiu/patcher.h promises of hookFunction and removePatch,    *)
(* seen from a caller of the hooked functions: a call runs either the      *)
(* original function or its hook, and what the hook calls as the real      *)
(* function is the original.                                               *)
(***************************************************************************)
CONSTANT Sites      \* the functions that are hooked

VARIABLES
  runs,             \* what a call of the function runs
  reaches           \* what a call through the hook's real pointer runs

vars == <<runs, reaches>>

Init ==
  /\ runs = [s \in Sites |-> "original"]
  /\ reaches = [s \in Sites |-> "nothing"]

Install(s) ==
  /\ runs[s] = "original"
  /\ runs' = [runs EXCEPT ![s] = "hook"]
  /\ UNCHANGED reaches

Publish(s) ==
  /\ runs[s] = "hook"
  /\ reaches[s] = "nothing"
  /\ reaches' = [reaches EXCEPT ![s] = "original"]
  /\ UNCHANGED runs

Remove(s) ==
  /\ runs[s] = "hook"
  /\ runs' = [runs EXCEPT ![s] = "original"]
  /\ UNCHANGED reaches

Next == \E s \in Sites : Install(s) \/ Publish(s) \/ Remove(s)

Spec == Init /\ [][Next]_vars
=============================================================================
