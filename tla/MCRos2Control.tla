--------------------------- MODULE MCRos2Control ---------------------------
(***************************************************************************)
(* Instances of Ros2Control and RobotSystem for TLC.  The two have nothing *)
(* in common: a behaviour is one of the hand-over, or one of a robot.      *)
(***************************************************************************)
EXTENDS Ros2Control, FiniteSets

Triggers == <<"init", "halt">>

Idle == [system |-> "CanopenSystem", services |-> {}, calls |-> 0, tpdos |-> 0, rpdos |-> 0,
         activations |-> 1, states |-> << >>, memory |-> "BOOTUP", data |-> {0}, busy |-> FALSE]

\* the services, also across an activation
Calling(s, names, n) ==
  [Idle EXCEPT !.system = s, !.services = names, !.calls = 2, !.activations = n]

\* TPDO messages, with data beside 2^31
Sending(n) == [Idle EXCEPT !.tpdos = 3, !.data = 0 .. 3, !.activations = n]

\* RPDO messages and NMT states
Receiving(s, b) ==
  [Idle EXCEPT !.system = s, !.rpdos = 2, !.states = <<"BOOTUP", "START">>, !.memory = "ERROR",
               !.data = {1, 3}, !.busy = b]

\* NMT states alone
Booting(m, ss) == [Idle EXCEPT !.states = ss, !.memory = m, !.activations = 2]

AllConfigurations ==
  {Calling("CanopenSystem", {"reset", "start"}, 2),
   Calling("Cia402System", {"reset", "start"}, 1),
   Calling("Cia402System", {"init", "halt"}, 2),
   Sending(1), Sending(2),
   Booting("BOOTUP", <<"BOOTUP", "START">>),
   Booting("BOOTUP", <<"START", "BOOTUP">>),
   Booting("START", <<"BOOTUP", "BOOTUP">>)}
  \cup {Receiving(s, b) : s \in {"CanopenSystem", "Cia402System"}, b \in BOOLEAN}

-----------------------------------------------------------------------------
CONSTANTS MaxSwitches, MaxFailures

\* the variables of RobotSystem; "joint" is its "at", and "reply" its "answer"
VARIABLES part, phase, linked, to_start, mode, motor, call, joint, reply, switches,
          failures, named, left, before, excused, ended

robot == <<phase, linked, to_start, mode, motor, call, joint, reply, switches,
           failures, named, left, before, excused, ended>>

\* two joints share the motor of node 1
Joints == <<[node |-> 1, interfaces |-> {"position"}],
            [node |-> 1, interfaces |-> {"position", "velocity"}],
            [node |-> 2, interfaces |-> {"position"}]>>

Robot == INSTANCE RobotSystem WITH at <- joint, answer <- reply

ASSUME JointsFit == Robot!RobotFits

\* the interfaces that one switch of command modes names
MaxNamed == 2

\* the hand-over of a behaviour of the robot does nothing
MCInit ==
  /\ part \in {"hand-over", "robot"}
  /\ Init /\ (part = "robot" => conf = CHOOSE c \in Configurations : TRUE)
  /\ Robot!Init

MCNext ==
  \/ part = "hand-over" /\ Next /\ UNCHANGED <<part, robot>>
  \/ part = "robot" /\ Robot!Next /\ Cardinality(named') <= MaxNamed /\ UNCHANGED <<part, vars>>

MCSpec == MCInit /\ [][MCNext]_<<part, vars, robot>>

\* The fairness is that of the hand-over: no liveness is stated of a robot.
FairMCSpec == MCSpec /\ Fairness

\* A switch of command modes that answers OK has put the motors in the modes it names, and one
\* that is refused had a reason (RobotSystem).
SwitchTakes == Robot!SwitchTakes

\* An active robot system has its motors enabled, an inactive one has not, but for the excused
\* ones (RobotSystem).
EnabledWhileActive == Robot!EnabledWhileActive

JustReset == {Calling("CanopenSystem", {"reset"}, 1)}
=============================================================================
