--------------------------- MODULE CommandContract ---------------------------
(***************************************************************************)
(* What the device command queue promises its users, whatever workers,     *)
(* networks and credentials do: a command waiting for approval is never    *)
(* performed, a command is reported completed only once it has been        *)
(* performed, and a reported command is never taken back into the queue.   *)
(* The promise is one of honesty, not of exactly-once: a command may be    *)
(* performed again, and a later report may replace an earlier one.         *)
(***************************************************************************)
EXTENDS Naturals

CONSTANT Commands

VARIABLES outcome,    \* what the workspace is told about each command
          performed   \* how often the command really took effect

contractVars == <<outcome, performed>>

ContractInit == /\ outcome = [c \in Commands |-> "absent"]
                /\ performed = [c \in Commands |-> 0]

Issue(c) ==
  /\ outcome[c] = "absent"
  /\ \E o \in {"queued", "approval_required"} : outcome' = [outcome EXCEPT ![c] = o]
  /\ UNCHANGED performed

Act(c) ==
  /\ outcome[c] \in {"queued", "completed", "failed"}
  /\ performed' = [performed EXCEPT ![c] = @ + 1]
  /\ UNCHANGED outcome

Report(c) ==
  /\ outcome[c] \in {"queued", "completed", "failed"}
  /\ \/ performed[c] > 0 /\ outcome' = [outcome EXCEPT ![c] = "completed"]
     \/ outcome' = [outcome EXCEPT ![c] = "failed"]
  /\ UNCHANGED performed

ContractNext == \E c \in Commands : Issue(c) \/ Act(c) \/ Report(c)

ContractSpec == ContractInit /\ [][ContractNext]_contractVars
=============================================================================
