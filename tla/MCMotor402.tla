----------------------------- MODULE MCMotor402 -----------------------------
(***************************************************************************)
(* Motor402 with the clients of a real system: the services of the node,   *)
(* and the ros2_control thread.  A behaviour begins with the choice of     *)
(* what they do with the axis, and of what goes wrong.                     *)
(***************************************************************************)
EXTENDS Motor402

CONSTANTS
  services, ros2_control,   \* the clients
  Uses                      \* what a behaviour is about

VARIABLE use

\* memory that was zero, and memory that was not
Memory ==
  {[control_word_ |-> {}, mode_id_ |-> No_Mode, start_fault_reset_ |-> FALSE],
   [control_word_ |-> CommandBits, mode_id_ |-> Homing, start_fault_reset_ |-> TRUE]}

Everything == [c \in Clients |-> Operations]

\* "states", "disabling": the services switch states, and the drive faults once;
\* "modes": the services switch modes and set targets, and one wait times out; "again":
\* they initialise a motor that runs already; "halting": they switch states while
\* the ros2_control thread halts; "timeout": they switch states, and one wait times out
Does(c) ==
  IF c = services
  THEN CASE use = "states" -> {"enable", "recover", "shutdown", "halt"}
         [] use = "disabling" -> {"enable", "shutdown", "disable"}
         [] use = "modes" -> {"init", "mode", "target"}
         [] use = "again" -> {"init", "mode"}
         [] use = "halting" -> {"recover", "shutdown"}
         [] use = "timeout" -> {"enable", "disable", "recover", "shutdown", "halt"}
  ELSE IF use = "halting" THEN {"halt"} ELSE {}

\* the service init is called for a motor that runs already
InitAgain == op[services] = "none" /\ op'[services] = "init" /\ state_ = "Operation_Enable"

Kept ==
  /\ \A c \in Clients : op'[c] \in Does(c) \cup {"none"}
  /\ faults' > 0 => use \in {"states", "disabling"}
  /\ timeouts' > 0 => use \in {"modes", "timeout"}
  /\ InitAgain => use = "again"

MCInit ==
  /\ Init
  /\ use \in Uses
  /\ use = "halting" => start_fault_reset_

MCNext == Next /\ Kept /\ UNCHANGED use

MCSpec == MCInit /\ [][MCNext]_<<vars, use>>

BusMCSpec == MCSpec /\ WF_vars(Poll) /\ WF_vars(DriveAnswers)

FairMCSpec == BusMCSpec /\ \A c \in Clients : WF_vars(ClientStep(c))
=============================================================================
