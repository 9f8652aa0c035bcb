--------------------------- MODULE ApprovalLifecycle ---------------------------
(***************************************************************************)
(* What the approval component promises its users, with no requests,       *)
(* transactions or processes in sight: a sensitive action moves along the  *)
(* transition table of app/approval/manager.py, and the business change it *)
(* stands for takes effect at most once, only while the approval is        *)
(* executing, and always before the approval reads "executed".             *)
(***************************************************************************)
EXTENDS Naturals

CONSTANTS
    ApprovalIds,  \* public ids (apr-...) an approval can be given
    LostAcks      \* may the answer to a COMMIT be lost after it took effect?

VARIABLES
    status,   \* status[a]: the lifecycle status, "absent" before creation
    effects   \* effects[a]: how many times a's business change was committed

lifecycleVars == <<status, effects>>

\* Not a status of the code: the row does not exist yet.
Absent == "absent"

ALL_STATUSES == {"pending", "approved", "rejected", "executing", "executed", "failed"}

\* Everything not listed is rejected by validate_transition.
ALLOWED_TRANSITIONS ==
    { <<"pending", "approved">>, <<"pending", "rejected">>,
      <<"approved", "executing">>,
      <<"executing", "executed">>, <<"executing", "failed">> }

LifecycleInit ==
    /\ status = [a \in ApprovalIds |-> Absent]
    /\ effects = [a \in ApprovalIds |-> 0]

\* The agent asks for a sensitive action.
Request(a) ==
    /\ status[a] = Absent
    /\ status' = [status EXCEPT ![a] = "pending"]
    /\ UNCHANGED effects

\* A human decides, or an executor claims: both only write the status.
Move(a, new) ==
    /\ new \in {"approved", "rejected", "executing"}
    /\ <<status[a], new>> \in ALLOWED_TRANSITIONS
    /\ status' = [status EXCEPT ![a] = new]
    /\ UNCHANGED effects

\* The business transaction commits.
TakeEffect(a) ==
    /\ status[a] = "executing"
    /\ effects[a] = 0
    /\ effects' = [effects EXCEPT ![a] = 1]
    /\ UNCHANGED status

\* "executed" is only ever reported of a change that happened; "failed" of one
\* that did not, unless the answer to its COMMIT was lost.
Finish(a) ==
    /\ status[a] = "executing"
    /\ \/ /\ effects[a] = 1
          /\ status' = [status EXCEPT ![a] = "executed"]
       \/ /\ effects[a] = 0 \/ LostAcks
          /\ status' = [status EXCEPT ![a] = "failed"]
    /\ UNCHANGED effects

LifecycleNext ==
    \E a \in ApprovalIds :
        \/ Request(a)
        \/ \E new \in ALL_STATUSES : Move(a, new)
        \/ TakeEffect(a)
        \/ Finish(a)

LifecycleSpec == LifecycleInit /\ [][LifecycleNext]_lifecycleVars
================================================================================
