----------------------------- MODULE RobotSystem -----------------------------
(***************************************************************************)
(* The RobotSystem of canopen_ros2_control: the joints of a robot, each on  *)
(* a motor of a CiA 402 driver.  The controller manager calls it from one   *)
(* thread at a time: the transitions, the switch of command modes, read()   *)
(* and write().  A call goes through the joints in their order, one call of *)
(* a driver after the other, while the drivers' timers go on.               *)
(*                                                                         *)
(* Every call a joint makes goes to channel 0 of its node, whatever channel *)
(* it is configured for: joints of one node share a motor.  A mode is named *)
(* by the interface whose set points it takes; "none" is also homing.       *)
(***************************************************************************)
EXTENDS Naturals, Sequences, SequencesExt

CONSTANTS
  Joints,       \* a sequence of records: the node and the interfaces of each joint
  MaxSwitches, MaxFailures

Interfaces == {"position", "velocity", "effort"}
Modes == Interfaces \cup {"none"}
J == DOMAIN Joints
Node(j) == Joints[j].node
Nodes == {Node(j) : j \in J}
Requests == UNION {{j} \X Joints[j].interfaces : j \in J}

\* What the parameters are to be: a list of joints, each with some of the interfaces, and
\* the bounds.
RobotFits ==
  /\ Len(Joints) \in Nat \ {0} /\ J = 1 .. Len(Joints)
  /\ \A j \in J : Joints[j].interfaces \subseteq Interfaces
  /\ MaxSwitches \in Nat /\ MaxFailures \in Nat

VARIABLES
  phase,        \* the state of the hardware component
  linked,       \* the joints whose driver is set
  to_start,     \* interfaces_to_start of each joint
  mode,         \* the motors: the selected mode, and the drive (see below)
  motor,
  call,         \* the call under way, and the joint it is at
  at,
  answer,       \* what the last switch of command modes returned
  switches,
  failures,     \* how many calls of a driver have failed, or motors faulted
  named,        \* history: what the switch under way has named, ...
  left,         \* ... what earlier ones have that were not OK, since the last that was, ...
  before,       \* ... and the modes before it
  excused,      \* history: the motors that need not be as the phase says (see below)
  ended         \* by a null pointer or by an exception

motors == <<mode, motor>>
calling == <<call, at>>
bounds == <<switches, failures>>
switching == <<to_start, answer, named, left, before>>
vars == <<phase, linked, motors, calling, bounds, switching, excused, ended>>

\* A drive is in Operation Enable or not; its control word keeps it there, or takes it out
\* ("leaving") or in ("entering") with the next cycle of the driver.
Drives == {"off", "on", "leaving", "entering"}
Enabled == {"on", "leaving"}

TypeOK ==
  /\ phase \in {"unconfigured", "inactive", "active"}
  /\ linked \subseteq J
  /\ DOMAIN to_start = J /\ \A j \in J : to_start[j] \in Seq(Joints[j].interfaces)
  /\ mode \in [Nodes -> Modes] /\ motor \in [Nodes -> Drives]
  /\ call \in {"none", "init", "halt", "switch"} /\ at \in J
  /\ answer \in {"ok", "refused", "failed"}
  /\ switches \in 0 .. MaxSwitches /\ failures \in 0 .. MaxFailures
  /\ named \subseteq Requests /\ left \subseteq Requests /\ before \in [Nodes -> Modes]
  /\ excused \subseteq Nodes /\ ended \in BOOLEAN

Init ==
  /\ phase = "unconfigured" /\ linked = {}
  /\ to_start = [j \in J |-> << >>]
  /\ mode = [n \in Nodes |-> "none"] /\ motor = [n \in Nodes |-> "off"]
  /\ call = "none" /\ at = 1 /\ answer = "ok"
  /\ switches = 0 /\ failures = 0
  /\ named = {} /\ left = {} /\ before = mode
  /\ excused = {} /\ ended = FALSE

-----------------------------------------------------------------------------
(***************************************************************************)
(* The calls of the controller manager.                                    *)
(***************************************************************************)

\* Make the container and look up the driver of each joint; one that is missing is logged.
Configure ==
  /\ phase = "unconfigured"
  /\ phase' = "inactive"
  /\ \E found \in SUBSET Nodes : linked' = {j \in J : Node(j) \in found}
  /\ UNCHANGED <<motors, calling, bounds, switching, excused, ended>>

Begin(c) == call = "none" /\ call' = c /\ at' = 1

Activate ==
  /\ phase = "inactive"
  /\ Begin("init")
  /\ UNCHANGED <<phase, linked, motors, bounds, switching, excused, ended>>

Deactivate ==
  /\ phase = "active"
  /\ Begin("halt")
  /\ UNCHANGED <<phase, linked, motors, bounds, switching, excused, ended>>

\* interfaces_to_start of each joint once the controller manager has named some.
Registered(names) ==
  [j \in J |-> to_start[j] \o SetToSeq({i \in Joints[j].interfaces : <<j, i>> \in names})]

\* perform_command_mode_switch(): one call names interfaces of several joints.  What is
\* to be stopped is registered, and forgotten.
Switch ==
  /\ phase \in {"inactive", "active"}
  /\ Begin("switch")
  /\ switches < MaxSwitches
  /\ switches' = switches + 1
  /\ named' \in SUBSET Requests
  /\ to_start' = Registered(named')
  /\ before' = mode
  /\ UNCHANGED <<phase, linked, motors, failures, answer, left, excused, ended>>

\* on_cleanup() and on_shutdown(): clean() joins the threads.  The one that made the
\* container was joined by on_configure() or never started, so that this throws, or meets
\* a null pointer, before the joints are cleared.
Clean ==
  /\ call = "none"
  /\ ended' = TRUE
  /\ UNCHANGED <<phase, linked, motors, calling, bounds, switching, excused>>

\* read() and write() use the driver of every joint.
ReadWrite ==
  /\ call = "none"
  /\ phase \in {"inactive", "active"}
  /\ linked # J
  /\ ended' = TRUE
  /\ UNCHANGED <<phase, linked, motors, calling, bounds, switching, excused>>

-----------------------------------------------------------------------------
(***************************************************************************)
(* The drivers, joint after joint.                                         *)
(***************************************************************************)

Here == Node(at)

LastJoint == at = Len(Joints)

\* On to the next joint; after the last one the transition has been made.
GoOn(to) ==
  IF LastJoint
  THEN call' = "none" /\ at' = 1 /\ phase' = to
  ELSE at' = at + 1 /\ UNCHANGED <<call, phase>>

\* A call that fails ends there.
Stop ==
  /\ call' = "none" /\ at' = 1
  /\ UNCHANGED phase

Failure == failures < MaxFailures /\ failures' = failures + 1

\* The motors of the joints up to this one.
Reached == {Node(j) : j \in 1 .. at}

\* init_motor() zeroes the control word and brings the drive to Operation Enable.  One that
\* is there already counts as brought; the zero takes it out, unless the homing that may
\* follow brings it back.  Homing leaves no mode.
InitMotor ==
  /\ call = "init" /\ at \in linked
  /\ \E m \in IF motor[Here] \in Enabled THEN Enabled ELSE {"on"} :
       motor' = [motor EXCEPT ![Here] = m]
  /\ mode' \in {mode, [mode EXCEPT ![Here] = "none"]}
  /\ excused' = IF motor[Here] \in Enabled THEN excused \cup {Here} ELSE excused \ {Here}
  /\ GoOn("active")
  /\ UNCHANGED <<linked, bounds, switching, ended>>

FailToInit ==
  /\ call = "init" /\ at \in linked
  /\ Failure
  /\ \E m \in Drives : motor' = [motor EXCEPT ![Here] = m]
  /\ mode' \in {mode, [mode EXCEPT ![Here] = "none"]}
  /\ excused' = excused \cup Reached
  /\ Stop
  /\ UNCHANGED <<linked, switches, switching, ended>>

\* Mutant of HaltMotor: on_deactivate() returns after the first joint.
HaltFirstMotor ==
  /\ call = "halt" /\ at \in linked
  /\ motor' = [motor EXCEPT ![Here] = IF @ = "on" THEN "leaving" ELSE @]
  /\ excused' = IF motor[Here] = "entering" THEN excused \cup {Here} ELSE excused \ {Here}
  /\ call' = "none" /\ at' = 1 /\ phase' = "inactive"
  /\ UNCHANGED <<linked, mode, bounds, switching, ended>>

\* halt_motor(): a quick stop of an enabled drive; another one keeps its control word.
HaltMotor ==
  /\ call = "halt" /\ at \in linked
  /\ motor' = [motor EXCEPT ![Here] = IF @ = "on" THEN "leaving" ELSE @]
  /\ excused' = IF motor[Here] = "entering" THEN excused \cup {Here} ELSE excused \ {Here}
  /\ GoOn("inactive")
  /\ UNCHANGED <<linked, mode, bounds, switching, ended>>

\* A drive with a fault is not halted.
FailToHalt ==
  /\ call = "halt" /\ at \in linked
  /\ Failure
  /\ excused' = excused \cup Reached
  /\ Stop
  /\ UNCHANGED <<linked, motors, switches, switching, ended>>

\* What a switch of command modes answers, and leaves for later ones.
Answer(a) ==
  /\ answer' = a
  /\ left' = IF a = "ok" THEN {} ELSE left \cup named

PassJoint ==
  /\ GoOn(phase)
  /\ IF LastJoint THEN Answer("ok") ELSE UNCHANGED <<answer, left>>

\* perform_switch() of a joint with nothing to start.
SkipJoint ==
  /\ call = "switch" /\ to_start[at] = << >>
  /\ PassJoint
  /\ UNCHANGED <<linked, motors, bounds, to_start, named, before, excused, ended>>

\* Two interfaces of a joint at once are refused, and stay registered for this joint, as do
\* those of the joints after it ...
RefuseTwo ==
  /\ call = "switch" /\ Len(to_start[at]) > 1
  /\ Stop /\ Answer("refused")
  /\ UNCHANGED <<linked, motors, bounds, to_start, named, before, excused, ended>>

Wanted == to_start[at][1]

\* One interface is forgotten as soon as its mode is known.
StartsOne ==
  /\ call = "switch" /\ Len(to_start[at]) = 1 /\ at \in linked
  /\ to_start' = [to_start EXCEPT ![at] = << >>]

\* ... and set_operation_mode() refuses the mode the motor has.
RefuseMode ==
  /\ StartsOne
  /\ mode[Here] = Wanted
  /\ Stop /\ Answer("refused")
  /\ UNCHANGED <<linked, motors, bounds, named, before, excused, ended>>

\* Mutant of SwitchMode: interfaces_to_start is kept.
SwitchModeKeepsName ==
  /\ call = "switch" /\ Len(to_start[at]) = 1 /\ at \in linked
  /\ mode[Here] # Wanted
  /\ mode' = [mode EXCEPT ![Here] = Wanted]
  /\ \E m \in IF motor[Here] = "leaving" THEN Enabled ELSE {"on"} :
       motor' = [motor EXCEPT ![Here] = m]
  /\ excused' = IF phase = "inactive" THEN excused \cup {Here} ELSE excused
  /\ PassJoint
  /\ UNCHANGED <<linked, bounds, to_start, named, before, ended>>

\* A motor that takes a mode is enabled, whatever the phase.
SwitchMode ==
  /\ StartsOne
  /\ mode[Here] # Wanted
  /\ mode' = [mode EXCEPT ![Here] = Wanted]
  /\ \E m \in IF motor[Here] = "leaving" THEN Enabled ELSE {"on"} :
       motor' = [motor EXCEPT ![Here] = m]
  /\ excused' = IF phase = "inactive" THEN excused \cup {Here} ELSE excused
  /\ PassJoint
  /\ UNCHANGED <<linked, bounds, named, before, ended>>

\* A driver that fails leaves its motor in the old mode, without one or in the new one.
FailToSwitch ==
  /\ StartsOne
  /\ mode[Here] # Wanted
  /\ Failure
  /\ \E m \in {mode[Here], "none", Wanted} : mode' = [mode EXCEPT ![Here] = m]
  /\ \E m \in Drives : motor' = [motor EXCEPT ![Here] = m]
  /\ excused' = excused \cup {Here}
  /\ Stop /\ Answer("failed")
  /\ UNCHANGED <<linked, switches, named, before, ended>>

\* A joint without a driver is not called, but crashes.
NullDriver ==
  /\ call # "none" /\ at \notin linked
  /\ call = "switch" => Len(to_start[at]) = 1
  /\ ended' = TRUE
  /\ UNCHANGED <<phase, linked, motors, calling, bounds, switching, excused>>

-----------------------------------------------------------------------------
(***************************************************************************)
(* The motors: the timer of the driver sends the control word, ...         *)
(***************************************************************************)
Poll(n) ==
  /\ motor[n] \in {"leaving", "entering"}
  /\ motor' = [motor EXCEPT ![n] = IF @ = "leaving" THEN "off" ELSE "on"]
  /\ UNCHANGED <<phase, linked, mode, calling, bounds, switching, excused, ended>>

\* ... and a drive may have a fault.
MotorFaults(n) ==
  /\ motor[n] # "off"
  /\ Failure
  /\ motor' = [motor EXCEPT ![n] = "off"]
  /\ excused' = excused \cup {n}
  /\ UNCHANGED <<phase, linked, mode, calling, switches, switching, ended>>

Next ==
  /\ ~ended
  /\ \/ Configure \/ Activate \/ Deactivate \/ Switch \/ Clean \/ ReadWrite
     \/ InitMotor \/ FailToInit \/ HaltMotor \/ FailToHalt
     \/ SkipJoint \/ RefuseTwo \/ RefuseMode \/ SwitchMode \/ FailToSwitch \/ NullDriver
     \/ \E n \in Nodes : Poll(n) \/ MotorFaults(n)

Spec == Init /\ [][Next]_vars

-----------------------------------------------------------------------------
(***************************************************************************)
(* Properties.                                                             *)
(***************************************************************************)

Alone(j) == \A k \in J : Node(k) = Node(j) => k = j

\* A switch of command modes that answers OK has put every joint it names in the mode of its
\* interface (if the joint has its node to itself); it has left a motor as it was or put it
\* in a mode that one of its joints asked for, now or in a call that was not OK since the last
\* that was.  Unless such a call has left something, a switch is refused only if it names
\* two interfaces of a joint, or a mode that the motor has: from before, or from an earlier
\* joint of its node.
SwitchTakes ==
  [][call = "switch" /\ call' = "none" =>
       /\ answer' = "ok" =>
            /\ \A r \in named : Alone(r[1]) => mode'[Node(r[1])] = r[2]
            /\ \A n \in Nodes :
                 \/ mode'[n] = before[n]
                 \/ \E r \in named \cup left : Node(r[1]) = n /\ mode'[n] = r[2]
       /\ answer' = "refused" /\ left = {} =>
            \/ \E r, q \in named : r # q /\ r[1] = q[1]
            \/ \E r \in named : before[Node(r[1])] = r[2]
            \/ \E r, q \in named : r[1] # q[1] /\ Node(r[1]) = Node(q[1]) /\ r[2] = q[2]]_vars

\* An active system has all its motors enabled, and one that is inactive none, but for the
\* motors that are excused, each by what happened to it since the last transition that
\* reached it and that it answered as it should: init_motor() met it enabled (as the
\* second joint of a node does), it had a fault, its driver failed, an activation or a
\* deactivation got as far as it and not to the end, or a switch enabled it while the system
\* was inactive.
EnabledWhileActive ==
  call = "none" =>
    \A n \in Nodes \ excused :
      /\ phase = "active" => motor[n] = "on"
      /\ phase = "inactive" => motor[n] \notin {"on", "entering"}
=============================================================================
