-------------------------- MODULE RobotSystemProof --------------------------
(***************************************************************************)
(* Theorems about RobotSystem, for any number of joints on any nodes, and  *)
(* any number of switches and failures: any parameters with RobotFits.     *)
(***************************************************************************)
EXTENDS RobotSystem, FiniteSetTheorems, SequenceTheorems, TLAPS

-----------------------------------------------------------------------------
(***************************************************************************)
(* The motors of an active system are enabled.                             *)
(***************************************************************************)
\* The joint a call is at, and its motor.
LEMMA PlaceFacts ==
  ASSUME RobotFits, at \in J
  PROVE  /\ Here \in Nodes /\ at \in 1 .. Len(Joints) /\ Len(Joints) \in Nat \ {0}
         /\ Reached \subseteq Nodes /\ Here \in Reached
         /\ LastJoint => Reached = Nodes
BY DEF RobotFits, Here, Nodes, Reached, LastJoint

\* The motors that the transition under way has not reached.
Ahead == {n \in Nodes : \A j \in 1 .. at - 1 : Node(j) # n}

\* The motors are as the phase says but for those the transition under way has reached,
\* which are as it leaves them.
MotorsFit ==
  \A n \in Nodes \ excused :
    /\ phase = "unconfigured" => motor[n] = "off"
    /\ phase = "active" /\ ~(call = "halt" /\ n \notin Ahead) => motor[n] = "on"
    /\ phase = "active" /\ call = "halt" /\ n \notin Ahead => motor[n] \in {"off", "leaving"}
    /\ phase = "inactive" /\ ~(call = "init" /\ n \notin Ahead) => motor[n] \in {"off", "leaving"}
    /\ phase = "inactive" /\ call = "init" /\ n \notin Ahead => motor[n] = "on"

\* The phases and the calls that go with them.
PhasesFit ==
  /\ phase \in {"unconfigured", "inactive", "active"}
  /\ call \in {"none", "init", "halt", "switch"} /\ at \in J
  /\ motor \in [Nodes -> Drives] /\ excused \subseteq Nodes
  /\ call = "init" => phase = "inactive"
  /\ call = "halt" => phase = "active"
  /\ call = "switch" => phase # "unconfigured"

\* The inductive invariant of the motors.
EnabledInv == PhasesFit /\ MotorsFit

\* At the first joint every motor is still ahead; the step to the next one leaves its motor
\* behind, and after the last none is ahead.
LEMMA AheadFacts ==
  ASSUME RobotFits, at \in J
  PROVE  /\ at = 1 => Ahead = Nodes
         /\ at' = 1 => Ahead' = Nodes
         /\ at' = at + 1 => Ahead' = Ahead \ {Here}
         /\ LastJoint => Ahead \subseteq {Here}
<1>1. /\ at \in 1 .. Len(Joints) /\ Len(Joints) \in Nat /\ J = 1 .. Len(Joints)
      /\ Nodes = {Node(j) : j \in 1 .. Len(Joints)} /\ Nodes' = Nodes
  BY DEF RobotFits, Nodes
<1>2. ASSUME at' = at + 1 PROVE Ahead' = Ahead \ {Here}
  <2>1. Ahead' = {n \in Nodes : \A j \in 1 .. at : Node(j) # n}
    BY <1>1, <1>2 DEF Ahead
  <2>2. 1 .. at = (1 .. at - 1) \cup {at}
    BY <1>1
  <2>3. QED
    BY <2>1, <2>2 DEF Ahead, Here
<1>3. LastJoint => Ahead \subseteq {Here}
  <2> SUFFICES ASSUME LastJoint, NEW n \in Ahead PROVE n = Here
    OBVIOUS
  <2>1. PICK j \in 1 .. Len(Joints) : n = Node(j)
    BY <1>1 DEF Ahead
  <2>2. j = at
    BY <1>1, <2>1 DEF Ahead, LastJoint
  <2>3. QED
    BY <2>1, <2>2 DEF Here
<1>4. (at = 1 => Ahead = Nodes) /\ (at' = 1 => Ahead' = Nodes)
  BY <1>1 DEF Ahead
<1>5. QED
  BY <1>2, <1>3, <1>4

\* Each call leaves its motor as the phase it leads to wants it, or excuses it.
LEMMA EnabledNext ==
  ASSUME RobotFits PROVE EnabledInv /\ [Next]_vars => EnabledInv'
<1> SUFFICES ASSUME EnabledInv, [Next]_vars PROVE EnabledInv'
  OBVIOUS
<1>0. /\ Here \in Nodes /\ Reached \subseteq Nodes /\ Here \in Reached /\ Nodes' = Nodes
      /\ 1 \in J /\ at \in J
  BY PlaceFacts DEF RobotFits, EnabledInv, PhasesFit, Nodes
<1>00. at + 1 \in J \/ LastJoint
  BY <1>0 DEF RobotFits, LastJoint
<1> USE DEF EnabledInv, PhasesFit, MotorsFit
<1>1. CASE Configure
  BY <1>1 DEF Configure, motors, calling, Ahead
<1>2. CASE Activate \/ Deactivate
  BY <1>2, <1>0, AheadFacts DEF Activate, Deactivate, Begin, motors
<1>3. CASE Switch
  BY <1>3, <1>0, AheadFacts DEF Switch, Begin, motors
<1>4. CASE InitMotor
  <2>1. /\ call = "init" /\ phase = "inactive"
        /\ motor' \in [Nodes -> Drives] /\ excused' \subseteq Nodes
        /\ \A n \in Nodes \ {Here} : motor'[n] = motor[n] /\ (n \in excused' <=> n \in excused)
        /\ Here \notin excused' => motor'[Here] = "on"
    BY <1>4, <1>0 DEF InitMotor, Enabled, Drives
  <2>2. CASE LastJoint
    <3>1. phase' = "active" /\ call' = "none" /\ at' = 1
      BY <1>4, <2>2 DEF InitMotor, GoOn
    <3>2. \A n \in Nodes \ {Here} : n \notin Ahead
      BY <1>0, <2>2, AheadFacts
    <3>3. \A n \in Nodes \ excused' : motor'[n] = "on"
      BY <2>1, <3>2
    <3>4. QED
      BY <1>0, <2>1, <3>1, <3>3
  <2>3. CASE ~LastJoint
    <3>1. phase' = phase /\ call' = call /\ at' = at + 1
      BY <1>4, <2>3 DEF InitMotor, GoOn
    <3>2. Ahead' = Ahead \ {Here}
      BY <1>0, <3>1, AheadFacts
    <3>3. \A n \in Nodes \ excused' :
            IF n \in Ahead' THEN motor'[n] \in {"off", "leaving"} ELSE motor'[n] = "on"
      BY <2>1, <3>2
    <3>4. QED
      BY <1>0, <1>00, <2>1, <2>3, <3>1, <3>3
  <2>4. QED
    BY <2>2, <2>3
<1>5. CASE HaltMotor
  <2>1. /\ call = "halt" /\ phase = "active"
        /\ motor' \in [Nodes -> Drives] /\ excused' \subseteq Nodes
        /\ \A n \in Nodes \ {Here} : motor'[n] = motor[n] /\ (n \in excused' <=> n \in excused)
        /\ Here \notin excused' => motor'[Here] \in {"off", "leaving"}
    BY <1>5, <1>0 DEF HaltMotor, Drives
  <2>2. CASE LastJoint
    <3>1. phase' = "inactive" /\ call' = "none" /\ at' = 1
      BY <1>5, <2>2 DEF HaltMotor, GoOn
    <3>2. \A n \in Nodes \ {Here} : n \notin Ahead
      BY <1>0, <2>2, AheadFacts
    <3>3. \A n \in Nodes \ excused' : motor'[n] \in {"off", "leaving"}
      BY <2>1, <3>2
    <3>4. QED
      BY <1>0, <2>1, <3>1, <3>3
  <2>3. CASE ~LastJoint
    <3>1. phase' = phase /\ call' = call /\ at' = at + 1
      BY <1>5, <2>3 DEF HaltMotor, GoOn
    <3>2. Ahead' = Ahead \ {Here}
      BY <1>0, <3>1, AheadFacts
    <3>3. \A n \in Nodes \ excused' :
            IF n \in Ahead' THEN motor'[n] = "on" ELSE motor'[n] \in {"off", "leaving"}
      BY <2>1, <3>2
    <3>4. QED
      BY <1>0, <1>00, <2>1, <2>3, <3>1, <3>3
  <2>4. QED
    BY <2>2, <2>3
<1>6. CASE FailToInit \/ FailToHalt
  <2>1. /\ phase' = phase /\ call' = "none" /\ at' = 1 /\ excused' = excused \cup Reached
        /\ motor' \in [Nodes -> Drives] /\ \A n \in Nodes \ {Here} : motor'[n] = motor[n]
        /\ call \in {"init", "halt"}
    BY <1>6, <1>0 DEF FailToInit, FailToHalt, Stop, motors
  <2>2. \A n \in Nodes \ Reached : n \in Ahead
    BY <1>0 DEF RobotFits, Reached, Ahead
  <2>3. QED
    BY <1>0, <2>1, <2>2
<1>7. CASE SkipJoint \/ RefuseTwo \/ RefuseMode
  <2>1. UNCHANGED <<phase, motor, excused>> /\ call = "switch" /\ call' \in {"none", "switch"}
    BY <1>7 DEF SkipJoint, RefuseTwo, RefuseMode, StartsOne, PassJoint, GoOn, Stop, motors
  <2>2. at' \in J
    BY <1>7, <1>0, <1>00 DEF SkipJoint, RefuseTwo, RefuseMode, PassJoint, GoOn, Stop
  <2>3. QED
    BY <2>1, <2>2, <1>0
<1>8. CASE SwitchMode
  <2>1. /\ call = "switch" /\ call' \in {"none", "switch"} /\ phase' = phase
        /\ motor' \in [Nodes -> Drives] /\ \A n \in Nodes \ {Here} : motor'[n] = motor[n]
        /\ excused \subseteq excused' /\ excused' \subseteq Nodes
        /\ phase = "inactive" => Here \in excused'
        /\ motor[Here] = "on" => motor'[Here] = "on"
    BY <1>8, <1>0 DEF SwitchMode, StartsOne, PassJoint, GoOn, Enabled, Drives
  <2>2. at' \in J
    BY <1>8, <1>0, <1>00 DEF SwitchMode, PassJoint, GoOn
  <2>3. QED
    BY <1>0, <2>1, <2>2
<1>9. CASE FailToSwitch
  <2>1. /\ call = "switch" /\ call' = "none" /\ at' = 1 /\ phase' = phase
        /\ motor' \in [Nodes -> Drives] /\ \A n \in Nodes \ {Here} : motor'[n] = motor[n]
        /\ excused' = excused \cup {Here}
    BY <1>9, <1>0 DEF FailToSwitch, StartsOne, Stop
  <2>2. QED
    BY <1>0, <2>1
<1>10. ASSUME NEW n \in Nodes, Poll(n) PROVE EnabledInv'
  <2>1. /\ UNCHANGED <<phase, call, at, excused>>
        /\ motor' \in [Nodes -> Drives] /\ \A m \in Nodes \ {n} : motor'[m] = motor[m]
        /\ motor[n] \in {"leaving", "entering"} /\ (motor[n] = "leaving" => motor'[n] = "off")
    BY <1>10 DEF Poll, calling, Drives
  <2>2. Ahead' = Ahead
    BY <2>1, <1>0 DEF Ahead
  <2>3. QED
    BY <1>0, <2>1, <2>2
<1>11. ASSUME NEW n \in Nodes, MotorFaults(n) PROVE EnabledInv'
  <2>1. /\ UNCHANGED <<phase, call, at>> /\ excused' = excused \cup {n}
        /\ motor' \in [Nodes -> Drives] /\ \A m \in Nodes \ {n} : motor'[m] = motor[m]
    BY <1>11 DEF MotorFaults, calling, Drives
  <2>2. Ahead' = Ahead
    BY <2>1, <1>0 DEF Ahead
  <2>3. QED
    BY <1>0, <2>1, <2>2
<1>12. CASE Clean \/ ReadWrite \/ NullDriver \/ UNCHANGED vars
  <2>1. UNCHANGED <<phase, call, at, excused, motor>>
    BY <1>12 DEF Clean, ReadWrite, NullDriver, vars, motors, calling
  <2>2. Ahead' = Ahead
    BY <2>1, <1>0 DEF Ahead
  <2>3. QED
    BY <1>0, <2>1, <2>2
<1>13. QED
  BY <1>1, <1>2, <1>3, <1>4, <1>5, <1>6, <1>7, <1>8, <1>9, <1>10, <1>11, <1>12 DEF Next

\* Whatever joints share a motor and whatever fails: the motors of an active system are
\* enabled and those of an inactive one are not, but for those that init_motor() met enabled,
\* that had a fault or a failing driver, that a transition reached which went no further, or
\* that a switch enabled while the system was inactive.
THEOREM RobotEnabledWhileActive ==
  ASSUME RobotFits PROVE Spec => []EnabledWhileActive
<1>1. Init => EnabledInv
  BY DEF RobotFits, Init, EnabledInv, PhasesFit, MotorsFit, Drives
<1>2. EnabledInv => EnabledWhileActive
  BY DEF EnabledInv, PhasesFit, MotorsFit, EnabledWhileActive
<1>3. QED
  BY <1>1, <1>2, EnabledNext, PTL DEF Spec

-----------------------------------------------------------------------------
(***************************************************************************)
(* Type correctness.                                                       *)
(***************************************************************************)
\* A finite set as a sequence: each element once.
LEMMA SetToSeqFacts ==
  ASSUME NEW S, IsFiniteSet(S)
  PROVE  /\ SetToSeq(S) \in Seq(S) /\ Cardinality(S) \in Nat
         /\ Len(SetToSeq(S)) = Cardinality(S)
         /\ \A x \in S : \E k \in 1 .. Cardinality(S) : SetToSeq(S)[k] = x
         /\ \A k, l \in 1 .. Cardinality(S) : SetToSeq(S)[k] = SetToSeq(S)[l] => k = l
<1> DEFINE n == Cardinality(S)
           f == SetToSeq(S)
<1>1. n \in Nat /\ ExistsBijection(1 .. n, S)
  BY FS_CardinalityType
<1>2. \E g \in [1 .. n -> S] : IsInjective(g)
  BY <1>1 DEF ExistsBijection, Bijection, Injection
<1>3. f \in [1 .. n -> S] /\ IsInjective(f)
  BY <1>2, Zenon DEF SetToSeq
<1> HIDE DEF f
<1>4. f \in Seq(S) /\ Len(f) = n
  BY <1>1, <1>3
<1>5. \A k, l \in 1 .. n : f[k] = f[l] => k = l
  BY <1>3 DEF IsInjective
<1>6. \A x \in S : \E k \in 1 .. n : f[k] = x
  <2>1. IsFiniteSet(1 .. n) /\ Cardinality(1 .. n) = n
    BY <1>1, FS_Interval
  <2> DEFINE T == {f[k] : k \in 1 .. n}
  <2>2. f \in Bijection(1 .. n, T)
    BY <1>3 DEF Bijection, Injection, Surjection
  <2>3. IsFiniteSet(T) /\ Cardinality(T) = n
    BY <2>1, <2>2, FS_Bijection DEF ExistsBijection
  <2>4. T \in SUBSET S
    BY <1>3
  <2>5. T = S
    BY <2>3, <2>4, FS_Subset
  <2>6. QED
    BY <2>5
<1>7. QED
  BY <1>1, <1>4, <1>5, <1>6 DEF f

\* The interfaces of a joint are finitely many.
LEMMA InterfacesFinite ==
  ASSUME NEW S, S \subseteq Interfaces
  PROVE  IsFiniteSet(S)
<1>1. IsFiniteSet({"position"})
  BY FS_Singleton
<1>2. IsFiniteSet({"position"} \cup {"velocity"})
  BY <1>1, FS_AddElement
<1>3. IsFiniteSet(({"position"} \cup {"velocity"}) \cup {"effort"})
  BY <1>2, FS_AddElement
<1>4. Interfaces = ({"position"} \cup {"velocity"}) \cup {"effort"}
  BY DEF Interfaces
<1>5. IsFiniteSet(Interfaces)
  BY <1>3, <1>4
<1>6. QED
  BY <1>5, FS_Subset

\* The names one call adds to those of a joint.
Added(names, j) == {i \in Joints[j].interfaces : <<j, i>> \in names}

\* interfaces_to_start of a joint lists some of its interfaces.
Starts == DOMAIN to_start = J /\ \A j \in J : to_start[j] \in Seq(Joints[j].interfaces)

\* What the controller manager names is added at the end, each interface once.
LEMMA RegisteredFacts ==
  ASSUME RobotFits, Starts, NEW names, NEW j \in J
  PROVE  LET r == Registered(names)[j]
             t == to_start[j]
             S == Added(names, j)
         IN  /\ r \in Seq(Joints[j].interfaces)
             /\ \A k \in 1 .. Len(r) : r[k] \in S \/ \E l \in 1 .. Len(t) : r[k] = t[l]
             /\ \A x \in S : \E k \in 1 .. Len(r) : r[k] = x
             /\ t = << >> => \A k, l \in 1 .. Len(r) : r[k] = r[l] => k = l
<1> DEFINE I == Joints[j].interfaces
           S == Added(names, j)
           t == to_start[j]
           f == SetToSeq(S)
           r == Registered(names)[j]
<1>1. S \subseteq I /\ IsFiniteSet(S)
  BY InterfacesFinite DEF RobotFits, Added
<1>2. t \in Seq(I)
  BY DEF Starts
<1>3. r = t \o f
  BY DEF Registered, Added
<1> HIDE DEF S, t, r
<1>4. /\ f \in Seq(S) /\ Cardinality(S) \in Nat /\ Len(f) = Cardinality(S)
      /\ \A x \in S : \E k \in 1 .. Cardinality(S) : f[k] = x
      /\ \A k, l \in 1 .. Cardinality(S) : f[k] = f[l] => k = l
  BY <1>1, SetToSeqFacts
<1> HIDE DEF f, I
<1>5. f \in Seq(I)
  BY <1>1, <1>4
<1>6. /\ r \in Seq(I) /\ Len(t) \in Nat /\ Len(f) \in Nat /\ Len(r) = Len(t) + Len(f)
      /\ \A k \in 1 .. Len(t) : r[k] = t[k]
      /\ \A k \in 1 .. Len(f) : r[k + Len(t)] = f[k]
  BY <1>2, <1>3, <1>5
<1>7. t = << >> => r = f
  BY <1>3, <1>5
<1>8. ASSUME NEW k \in 1 .. Len(r) PROVE r[k] \in S \/ \E l \in 1 .. Len(t) : r[k] = t[l]
  <2>1. CASE k <= Len(t)
    BY <1>6, <2>1
  <2>2. CASE k > Len(t)
    <3>1. k - Len(t) \in 1 .. Len(f) /\ k = (k - Len(t)) + Len(t)
      BY <1>6, <2>2
    <3>2. r[k] = f[k - Len(t)]
      BY <1>6, <3>1
    <3>3. f[k - Len(t)] \in S
      BY <1>4, <3>1
    <3>4. QED
      BY <3>2, <3>3
  <2>3. QED
    BY <1>6, <2>1, <2>2
<1>9. ASSUME NEW x \in S PROVE \E k \in 1 .. Len(r) : r[k] = x
  <2>1. PICK k \in 1 .. Len(f) : f[k] = x
    BY <1>4
  <2>2. k + Len(t) \in 1 .. Len(r) /\ r[k + Len(t)] = x
    BY <1>6, <2>1
  <2>3. QED
    BY <2>2
<1>10. t = << >> => \A k, l \in 1 .. Len(r) : r[k] = r[l] => k = l
  BY <1>4, <1>7
<1>11. QED
  BY <1>6, <1>8, <1>9, <1>10 DEF I, S, t, r

\* The types of a switch of command modes and of its counters, ...
SwitchTypes ==
  /\ Starts /\ answer \in {"ok", "refused", "failed"}
  /\ named \subseteq Requests /\ left \subseteq Requests
  /\ mode \in [Nodes -> Modes] /\ before \in [Nodes -> Modes]
  /\ switches \in 0 .. MaxSwitches /\ failures \in 0 .. MaxFailures

\* ... of the drivers that were found, and of the end.
LinkTypes == linked \subseteq J /\ ended \in BOOLEAN

\* An empty list in the place of a joint keeps the lists.
LEMMA ForgetStarts ==
  ASSUME Starts, NEW j \in J, to_start' = [to_start EXCEPT ![j] = << >>]
  PROVE  Starts'
<1> SUFFICES ASSUME NEW i \in J PROVE to_start'[i] \in Seq(Joints[i].interfaces)
  BY DEF Starts
<1>1. to_start'[i] = << >> \/ to_start'[i] = to_start[i]
  BY DEF Starts
<1>2. << >> \in Seq(Joints[i].interfaces)
  BY EmptySeq
<1>3. QED
  BY <1>1, <1>2 DEF Starts

\* A mode in the place of a motor keeps the modes.
LEMMA ModeTypes ==
  ASSUME mode \in [Nodes -> Modes], NEW n, NEW m \in Modes, mode' = [mode EXCEPT ![n] = m]
  PROVE  mode' \in [Nodes -> Modes]
OBVIOUS

\* What a joint is to start is an interface.
LEMMA WantedType ==
  ASSUME RobotFits, Starts, at \in J, Len(to_start[at]) = 1
  PROVE  Wanted \in Joints[at].interfaces /\ Wanted \in Modes
<1>1. to_start[at] \in Seq(Joints[at].interfaces)
  BY DEF Starts
<1>2. to_start[at][1] \in Joints[at].interfaces
  BY <1>1
<1>3. QED
  BY <1>2 DEF RobotFits, Wanted, Modes

\* Every call keeps the types.
LEMMA SwitchTypesNext ==
  ASSUME RobotFits PROVE EnabledInv /\ SwitchTypes /\ [Next]_vars => SwitchTypes'
<1> SUFFICES ASSUME EnabledInv, SwitchTypes, [Next]_vars PROVE SwitchTypes'
  OBVIOUS
<1> USE DEF SwitchTypes
<1>0. /\ at \in J /\ Here \in Nodes /\ Nodes' = Nodes /\ "none" \in Modes
      /\ MaxSwitches \in Nat /\ MaxFailures \in Nat
  BY PlaceFacts DEF RobotFits, EnabledInv, PhasesFit, Nodes, Modes
<1>1. CASE Configure \/ Activate \/ Deactivate \/ Clean \/ ReadWrite \/ NullDriver \/ UNCHANGED vars
  BY <1>1 DEF Configure, Activate, Deactivate, Clean, ReadWrite, NullDriver, vars, motors, bounds,
     switching, Starts
<1>2. CASE Switch
  <2>1. Starts'
    <3>1. to_start' = Registered(named')
      BY <1>2 DEF Switch
    <3>2. \A j \in J : Registered(named')[j] \in Seq(Joints[j].interfaces)
      BY RegisteredFacts
    <3>3. DOMAIN Registered(named') = J
      BY DEF Registered
    <3>4. QED
      BY <3>1, <3>2, <3>3 DEF Starts
  <2>2. QED
    BY <1>0, <1>2, <2>1 DEF Switch, motors
<1>3. CASE InitMotor
  BY <1>0, <1>3 DEF InitMotor, bounds, switching, Starts
<1>4. CASE FailToInit
  BY <1>0, <1>4 DEF FailToInit, Failure, switching, Starts
<1>5. CASE HaltMotor
  BY <1>0, <1>5 DEF HaltMotor, bounds, switching, Starts
<1>6. CASE FailToHalt
  BY <1>0, <1>6 DEF FailToHalt, Failure, switching, motors, Starts
<1>7. CASE SkipJoint \/ RefuseTwo
  BY <1>0, <1>7 DEF SkipJoint, RefuseTwo, PassJoint, Answer, bounds, motors, Starts
<1>8. CASE RefuseMode
  <2>1. Starts'
    BY <1>0, <1>8, ForgetStarts DEF RefuseMode, StartsOne
  <2>2. QED
    BY <1>0, <1>8, <2>1 DEF RefuseMode, Answer, bounds, motors
<1>9. CASE SwitchMode
  <2>1. Starts'
    BY <1>0, <1>9, ForgetStarts DEF SwitchMode, StartsOne
  <2>2. mode' \in [Nodes -> Modes]
    BY <1>0, <1>9, WantedType, ModeTypes DEF SwitchMode, StartsOne
  <2>3. QED
    BY <1>0, <1>9, <2>1, <2>2 DEF SwitchMode, PassJoint, Answer, bounds
<1>10. CASE FailToSwitch
  <2>1. Starts'
    BY <1>0, <1>10, ForgetStarts DEF FailToSwitch, StartsOne
  <2>2. PICK m \in {mode[Here], "none", Wanted} : mode' = [mode EXCEPT ![Here] = m]
    BY <1>10 DEF FailToSwitch
  <2>3. m \in Modes
    BY <1>0, <1>10, WantedType DEF FailToSwitch, StartsOne
  <2>4. QED
    BY <1>0, <1>10, <2>1, <2>2, <2>3, ModeTypes DEF FailToSwitch, Answer, Failure
<1>11. ASSUME NEW n \in Nodes, Poll(n) \/ MotorFaults(n) PROVE SwitchTypes'
  BY <1>0, <1>11 DEF Poll, MotorFaults, Failure, bounds, switching, Starts
<1>12. QED
  BY <1>1, <1>2, <1>3, <1>4, <1>5, <1>6, <1>7, <1>8, <1>9, <1>10, <1>11 DEF Next

\* The drivers are found once.
LEMMA LinkTypesNext == LinkTypes /\ [Next]_vars => LinkTypes'
BY DEF LinkTypes, Next, Configure, Activate, Deactivate, Switch, Clean, ReadWrite, InitMotor,
   FailToInit, HaltMotor, FailToHalt, SkipJoint, RefuseTwo, RefuseMode, SwitchMode, FailToSwitch,
   NullDriver, StartsOne, Poll, MotorFaults, vars

\* The invariant of the motors and the types hold together.
LEMMA TypesHold ==
  ASSUME RobotFits PROVE Spec => [](EnabledInv /\ SwitchTypes /\ LinkTypes)
<1>1. Init => EnabledInv /\ SwitchTypes /\ LinkTypes
  <2>1. Init => EnabledInv
    BY DEF RobotFits, Init, EnabledInv, PhasesFit, MotorsFit, Drives
  <2>2. Init => SwitchTypes /\ LinkTypes
    <3>1. Init => Starts
      BY EmptySeq DEF Init, Starts
    <3>2. Init => mode \in [Nodes -> Modes] /\ before \in [Nodes -> Modes]
      BY DEF Init, Modes
    <3>3. Init => switches \in 0 .. MaxSwitches /\ failures \in 0 .. MaxFailures
      BY DEF RobotFits, Init
    <3>4. Init => named \subseteq Requests /\ left \subseteq Requests
                  /\ answer \in {"ok", "refused", "failed"} /\ linked \subseteq J /\ ended \in BOOLEAN
      BY DEF Init
    <3>5. QED
      BY <3>1, <3>2, <3>3, <3>4 DEF SwitchTypes, LinkTypes
  <2>3. QED
    BY <2>1, <2>2
<1>2. QED
  BY <1>1, EnabledNext, SwitchTypesNext, LinkTypesNext, PTL DEF Spec

\* The variables of the system, of its joints and of its motors keep their types.
THEOREM RobotTypeCorrect ==
  ASSUME RobotFits PROVE Spec => []TypeOK
<1>1. EnabledInv /\ SwitchTypes /\ LinkTypes => TypeOK
  BY DEF EnabledInv, PhasesFit, SwitchTypes, LinkTypes, Starts, TypeOK
<1>2. QED
  BY <1>1, TypesHold, PTL

-----------------------------------------------------------------------------
(***************************************************************************)
(* What a switch of command modes does.                                    *)
(***************************************************************************)
\* What a joint has to start was named by the switch under way, or left by an earlier one.
OneAsked ==
  \A j \in J : \A k \in 1 .. Len(to_start[j]) :
    <<j, to_start[j][k]>> \in left \cup IF call = "switch" THEN named ELSE {}

\* While a switch is under way: the joints it has passed have nothing left to start; what it
\* has named for the others is registered, and nothing twice unless something was left; a
\* motor has its old mode, or one that a joint asked for which has been passed, the one that
\* was named if that joint is alone.
SwitchUnderWay ==
  call = "switch" =>
    /\ \A j \in J : j < at => to_start[j] = << >>
    /\ \A r \in named :
         r[1] >= at => \E k \in 1 .. Len(to_start[r[1]]) : to_start[r[1]][k] = r[2]
    /\ left = {} =>
         \A j \in J : \A k, l \in 1 .. Len(to_start[j]) : to_start[j][k] = to_start[j][l] => k = l
    /\ \A n \in Nodes :
         \/ mode[n] = before[n]
         \/ \E r \in named \cup left : Node(r[1]) = n /\ r[1] < at /\ mode[n] = r[2]
    /\ \A r \in named : r[1] < at /\ Alone(r[1]) => mode[Node(r[1])] = r[2]

\* The inductive invariant of a switch of command modes.
SwitchInv == OneAsked /\ SwitchUnderWay

\* A request is of a joint, and of one of its interfaces.
LEMMA RequestFacts ==
  ASSUME NEW r \in Requests
  PROVE  r[1] \in J /\ r[2] \in Joints[r[1]].interfaces /\ r = <<r[1], r[2]>>
         /\ Node(r[1]) \in Nodes
BY DEF Requests, Nodes

\* What holds once the call has passed a joint.
Passed ==
  /\ \A j \in J : to_start'[j] = IF j = at THEN << >> ELSE to_start[j]
  /\ \A n \in Nodes :
       \/ mode'[n] = before[n]
       \/ \E r \in named \cup left : Node(r[1]) = n /\ r[1] <= at /\ mode'[n] = r[2]
  /\ \A r \in named : r[1] <= at /\ Alone(r[1]) => mode'[Node(r[1])] = r[2]

\* A joint that the call passes has switched its motor, or has nothing to start.
LEMMA PassingJoint ==
  ASSUME RobotFits, EnabledInv, SwitchTypes, SwitchInv, SkipJoint \/ SwitchMode
  PROVE  Passed
<1>1. /\ call = "switch" /\ at \in J /\ at \in Nat /\ Here \in Nodes /\ J \subseteq Nat
      /\ named \subseteq Requests /\ left \subseteq Requests
      /\ \A r \in named \cup left : r[1] \in Nat
  BY PlaceFacts, RequestFacts
  DEF RobotFits, SkipJoint, SwitchMode, StartsOne, EnabledInv, PhasesFit, SwitchTypes
<1>2. CASE SkipJoint
  <2>1. mode' = mode /\ to_start' = to_start /\ to_start[at] = << >>
    BY <1>2 DEF SkipJoint, motors
  <2>2. \A j \in J : to_start'[j] = IF j = at THEN << >> ELSE to_start[j]
    BY <2>1
  <2>3. ASSUME NEW r \in named, r[1] <= at, Alone(r[1]) PROVE mode'[Node(r[1])] = r[2]
    <3>1. r[1] # at
      BY <1>1, <2>1 DEF SwitchInv, SwitchUnderWay
    <3>2. r[1] < at
      BY <1>1, <2>3, <3>1
    <3>3. QED
      BY <1>1, <2>1, <2>3, <3>2 DEF SwitchInv, SwitchUnderWay
  <2>4. \A n \in Nodes :
          \/ mode'[n] = before[n]
          \/ \E r \in named \cup left : Node(r[1]) = n /\ r[1] <= at /\ mode'[n] = r[2]
    BY <1>1, <2>1 DEF SwitchInv, SwitchUnderWay
  <2>5. QED
    BY <2>2, <2>3, <2>4 DEF Passed
<1>3. CASE SwitchMode
  <2>1. /\ mode' = [mode EXCEPT ![Here] = Wanted]
        /\ \A j \in J : to_start'[j] = IF j = at THEN << >> ELSE to_start[j]
        /\ Len(to_start[at]) = 1
    BY <1>3 DEF SwitchMode, StartsOne, SwitchTypes, Starts
  <2>2. mode'[Here] = Wanted /\ \A n \in Nodes \ {Here} : mode'[n] = mode[n]
    BY <1>1, <2>1 DEF SwitchTypes
  <2>3. <<at, Wanted>> \in named \cup left
    BY <1>1, <2>1 DEF SwitchInv, OneAsked, Wanted
  <2>4. ASSUME NEW n \in Nodes
        PROVE  \/ mode'[n] = before[n]
               \/ \E r \in named \cup left : Node(r[1]) = n /\ r[1] <= at /\ mode'[n] = r[2]
    <3>1. CASE n = Here
      <4> DEFINE r == <<at, Wanted>>
      <4>1. Node(r[1]) = n /\ r[1] <= at /\ mode'[n] = r[2] /\ r \in named \cup left
        BY <1>1, <2>2, <2>3, <3>1 DEF Here
      <4> HIDE DEF r
      <4>2. QED
        BY <4>1
    <3>2. CASE n # Here
      BY <1>1, <2>2, <3>2 DEF SwitchInv, SwitchUnderWay
    <3>3. QED
      BY <3>1, <3>2
  <2>5. ASSUME NEW r \in named, r[1] <= at, Alone(r[1]) PROVE mode'[Node(r[1])] = r[2]
    <3>1. r[1] \in J /\ Node(r[1]) \in Nodes
      BY <1>1, RequestFacts
    <3>2. CASE r[1] = at
      <4>1. PICK k \in 1 .. Len(to_start[at]) : to_start[at][k] = r[2]
        BY <1>1, <3>2 DEF SwitchInv, SwitchUnderWay
      <4>2. k = 1
        BY <2>1, <4>1
      <4>3. QED
        BY <2>2, <3>2, <4>1, <4>2 DEF Here, Wanted
    <3>3. CASE r[1] # at
      <4>1. Node(r[1]) # Here
        BY <1>1, <2>5, <3>1, <3>3 DEF Alone, Here
      <4>2. r[1] < at
        BY <1>1, <2>5, <3>3
      <4>3. QED
        BY <1>1, <2>2, <2>5, <3>1, <4>1, <4>2 DEF SwitchInv, SwitchUnderWay
    <3>4. QED
      BY <3>2, <3>3
  <2>6. QED
    BY <2>1, <2>4, <2>5 DEF Passed
<1>4. QED
  BY <1>2, <1>3

\* Every call keeps the invariant.
LEMMA SwitchInvNext ==
  ASSUME RobotFits PROVE EnabledInv /\ SwitchTypes /\ SwitchInv /\ [Next]_vars => SwitchInv'
<1> SUFFICES ASSUME EnabledInv, SwitchTypes, SwitchInv, [Next]_vars PROVE SwitchInv'
  OBVIOUS
<1>0. /\ at \in J /\ J = 1 .. Len(Joints) /\ Len(Joints) \in Nat \ {0} /\ Here \in Nodes
      /\ named \subseteq Requests /\ left \subseteq Requests /\ Nodes' = Nodes
  BY PlaceFacts DEF RobotFits, EnabledInv, PhasesFit, SwitchTypes, Nodes
<1>1. ASSUME UNCHANGED <<to_start, named, left, before, mode>>,
             call = "switch" => UNCHANGED <<call, at>>, call' = "switch" => call = "switch"
      PROVE  SwitchInv'
  <2>1. OneAsked'
    BY <1>1 DEF SwitchInv, OneAsked
  <2>2. SwitchUnderWay'
    <3> SUFFICES ASSUME call' = "switch" PROVE SwitchUnderWay'
      BY DEF SwitchUnderWay
    <3>1. UNCHANGED <<to_start, named, left, before, mode, call, at>> /\ call = "switch"
      BY <1>1
    <3>2. QED
      BY <1>0, <3>1 DEF SwitchInv, SwitchUnderWay, Alone
  <2>3. QED
    BY <2>1, <2>2 DEF SwitchInv
<1>2. CASE Configure \/ Clean \/ ReadWrite \/ NullDriver \/ UNCHANGED vars
  BY <1>1, <1>2 DEF Configure, Clean, ReadWrite, NullDriver, vars, motors, calling, switching
<1>3. CASE Activate \/ Deactivate
  BY <1>1, <1>3 DEF Activate, Deactivate, Begin, motors, switching
<1>4. CASE InitMotor \/ FailToInit
  <2>1. call # "switch" /\ call' # "switch" /\ UNCHANGED switching
    BY <1>4 DEF InitMotor, FailToInit, GoOn, Stop
  <2>2. QED
    BY <2>1 DEF SwitchInv, OneAsked, SwitchUnderWay, switching
<1>5. CASE HaltMotor \/ FailToHalt
  <2>1. call # "switch" /\ call' # "switch" /\ UNCHANGED switching
    BY <1>5 DEF HaltMotor, FailToHalt, GoOn, Stop
  <2>2. QED
    BY <2>1 DEF SwitchInv, OneAsked, SwitchUnderWay, switching
<1>6. ASSUME NEW n \in Nodes, Poll(n) \/ MotorFaults(n) PROVE SwitchInv'
  BY <1>1, <1>6 DEF Poll, MotorFaults, calling, switching
<1>7. CASE Switch
  <2>1. /\ call # "switch" /\ call' = "switch" /\ at' = 1 /\ left' = left
        /\ to_start' = Registered(named') /\ named' \subseteq Requests
        /\ mode' = mode /\ before' = mode
    BY <1>7 DEF Switch, Begin, motors
  <2>2. Starts
    BY DEF SwitchTypes
  <2>3. OneAsked'
    <3> SUFFICES ASSUME NEW j \in J, NEW k \in 1 .. Len(to_start'[j])
                 PROVE  <<j, to_start'[j][k]>> \in left \cup named'
      BY <2>1 DEF OneAsked
    <3>1. \/ to_start'[j][k] \in Added(named', j)
          \/ \E l \in 1 .. Len(to_start[j]) : to_start'[j][k] = to_start[j][l]
      BY <2>1, <2>2, RegisteredFacts
    <3>2. QED
      BY <2>1, <3>1 DEF Added, SwitchInv, OneAsked
  <2>4. \A r \in named' : \E k \in 1 .. Len(to_start'[r[1]]) : to_start'[r[1]][k] = r[2]
    <3> SUFFICES ASSUME NEW r \in named'
                 PROVE  \E k \in 1 .. Len(to_start'[r[1]]) : to_start'[r[1]][k] = r[2]
      OBVIOUS
    <3>1. r[1] \in J /\ r[2] \in Added(named', r[1])
      BY <2>1, RequestFacts DEF Added
    <3>2. QED
      BY <2>1, <2>2, <3>1, RegisteredFacts
  <2>5. ASSUME left = {}, NEW j \in J
        PROVE  \A k, l \in 1 .. Len(to_start'[j]) : to_start'[j][k] = to_start'[j][l] => k = l
    <3>1. to_start[j] \in Seq(Joints[j].interfaces) /\ ~\E k \in 1 .. Len(to_start[j]) : TRUE
      BY <2>1, <2>2, <2>5 DEF SwitchInv, OneAsked, Starts
    <3>2. to_start[j] = << >>
      BY <3>1
    <3>3. QED
      BY <2>1, <2>2, <3>2, RegisteredFacts
  <2>6. \A j \in J : ~(j < 1)
    BY <1>0
  <2>7. \A r \in named' : ~(r[1] < 1)
    BY <2>1, <2>6, RequestFacts
  <2>8. SwitchUnderWay'
    BY <2>1, <2>4, <2>5, <2>6, <2>7, <1>0 DEF SwitchUnderWay
  <2>9. QED
    BY <2>3, <2>8 DEF SwitchInv
<1>8. CASE SkipJoint \/ SwitchMode
  <2>1. Passed
    BY <1>8, PassingJoint
  <2>2. call = "switch" /\ UNCHANGED <<named, before>> /\ PassJoint
    BY <1>8 DEF SkipJoint, SwitchMode, StartsOne
  <2>3. CASE LastJoint
    <3>1. call' = "none"
      BY <2>2, <2>3 DEF PassJoint, GoOn
    <3>2. \A j \in J : to_start'[j] = << >>
      <4>1. \A j \in J : j = at \/ j < at
        BY <1>0, <2>3 DEF LastJoint
      <4>2. QED
        BY <2>1, <2>2, <4>1 DEF Passed, SwitchInv, SwitchUnderWay
    <3>3. QED
      BY <3>1, <3>2 DEF SwitchInv, OneAsked, SwitchUnderWay
  <2>4. CASE ~LastJoint
    <3>1. call' = call /\ at' = at + 1 /\ left' = left
      BY <2>2, <2>4 DEF PassJoint, GoOn
    <3>2. \A j \in J : to_start'[j] = << >> \/ to_start'[j] = to_start[j]
      BY <2>1 DEF Passed
    <3>3. OneAsked'
      BY <2>2, <3>1, <3>2 DEF SwitchInv, OneAsked
    <3>4. /\ \A j \in J :
               /\ j < at + 1 <=> j < at \/ j = at
               /\ j <= at => j < at + 1
               /\ j < at + 1 => j <= at
               /\ j >= at + 1 => j >= at /\ j # at
          /\ \A r \in named \cup left : r[1] \in J
      BY <1>0, RequestFacts
    <3>5. \A j \in J : j < at + 1 => to_start'[j] = << >>
      BY <2>1, <2>2, <3>4 DEF Passed, SwitchInv, SwitchUnderWay
    <3>6. \A r \in named :
            r[1] >= at + 1 => \E k \in 1 .. Len(to_start'[r[1]]) : to_start'[r[1]][k] = r[2]
      <4> SUFFICES ASSUME NEW r \in named, r[1] >= at + 1
                   PROVE  \E k \in 1 .. Len(to_start'[r[1]]) : to_start'[r[1]][k] = r[2]
        OBVIOUS
      <4>1. r[1] \in J /\ r[1] >= at /\ r[1] # at
        BY <3>4
      <4>2. to_start'[r[1]] = to_start[r[1]]
        BY <2>1, <4>1 DEF Passed
      <4>3. QED
        BY <2>2, <4>1, <4>2 DEF SwitchInv, SwitchUnderWay
    <3>7. left = {} =>
            \A j \in J : \A k, l \in 1 .. Len(to_start'[j]) : to_start'[j][k] = to_start'[j][l] => k = l
      BY <2>2, <3>2 DEF SwitchInv, SwitchUnderWay
    <3>8. \A n \in Nodes :
            \/ mode'[n] = before[n]
            \/ \E r \in named \cup left : Node(r[1]) = n /\ r[1] < at + 1 /\ mode'[n] = r[2]
      <4>1. \A r \in named \cup left : r[1] <= at => r[1] < at + 1
        BY <3>4
      <4>2. QED
        BY <2>1, <4>1 DEF Passed
    <3>9. \A r \in named : r[1] < at + 1 /\ Alone(r[1]) => mode'[Node(r[1])] = r[2]
      <4>1. \A r \in named : r[1] < at + 1 => r[1] <= at
        BY <3>4
      <4>2. QED
        BY <2>1, <4>1 DEF Passed
    <3>10. SwitchUnderWay'
      BY <1>0, <2>2, <3>1, <3>5, <3>6, <3>7, <3>8, <3>9 DEF SwitchUnderWay, Alone
    <3>11. QED
      BY <3>3, <3>10 DEF SwitchInv
  <2>5. QED
    BY <2>3, <2>4
<1>9. CASE RefuseTwo \/ RefuseMode \/ FailToSwitch
  <2>1. /\ call = "switch" /\ call' = "none" /\ left' = left \cup named /\ named' = named
    BY <1>9 DEF RefuseTwo, RefuseMode, FailToSwitch, StartsOne, Stop, Answer
  <2>2. \A j \in J : to_start'[j] = to_start[j] \/ to_start'[j] = << >>
    BY <1>9 DEF RefuseTwo, RefuseMode, FailToSwitch, StartsOne, SwitchTypes, Starts
  <2>3. QED
    BY <2>1, <2>2 DEF SwitchInv, OneAsked, SwitchUnderWay
<1>10. QED
  BY <1>2, <1>3, <1>4, <1>5, <1>6, <1>7, <1>8, <1>9 DEF Next

\* perform_command_mode_switch() that answers OK has switched the motor of each joint it names
\* that is alone on its node, and no other motor than those asked for now or in a call that
\* was not OK; unless one of those has left something, it refuses only two interfaces of a
\* joint and a mode that the motor has.
THEOREM RobotSwitchTakes ==
  ASSUME RobotFits PROVE Spec => SwitchTakes
<1> DEFINE Takes ==
      /\ answer' = "ok" =>
           /\ \A r \in named : Alone(r[1]) => mode'[Node(r[1])] = r[2]
           /\ \A n \in Nodes :
                \/ mode'[n] = before[n]
                \/ \E r \in named \cup left : Node(r[1]) = n /\ mode'[n] = r[2]
      /\ answer' = "refused" /\ left = {} =>
           \/ \E r, q \in named : r # q /\ r[1] = q[1]
           \/ \E r \in named : before[Node(r[1])] = r[2]
           \/ \E r, q \in named : r[1] # q[1] /\ Node(r[1]) = Node(q[1]) /\ r[2] = q[2]
<1>1. ASSUME EnabledInv, SwitchTypes, SwitchInv, [Next]_vars, call = "switch", call' = "none"
      PROVE  Takes
  <2>1. /\ at \in J /\ J = 1 .. Len(Joints) /\ Len(Joints) \in Nat \ {0} /\ Here \in Nodes
        /\ named \subseteq Requests /\ left \subseteq Requests
    BY <1>1, PlaceFacts DEF RobotFits, EnabledInv, PhasesFit, SwitchTypes
  <2>2. SkipJoint \/ SwitchMode \/ RefuseTwo \/ RefuseMode \/ FailToSwitch
    BY <1>1 DEF Next, Configure, Activate, Deactivate, Switch, Begin, Clean, ReadWrite,
       InitMotor, FailToInit, HaltMotor, FailToHalt, NullDriver, Poll, MotorFaults, vars, calling
  <2>3. CASE SkipJoint \/ SwitchMode
    <3>1. LastJoint /\ answer' = "ok"
      BY <1>1, <2>3 DEF SkipJoint, SwitchMode, PassJoint, GoOn, Answer
    <3>2. Passed
      BY <1>1, <2>3, PassingJoint
    <3>3. \A r \in named : r[1] <= at
      BY <2>1, <3>1, RequestFacts DEF LastJoint
    <3>4. QED
      BY <3>1, <3>2, <3>3 DEF Passed
  <2>4. CASE RefuseTwo
    <3>1. answer' = "refused" /\ Len(to_start[at]) > 1
      BY <2>4 DEF RefuseTwo, Answer
    <3>2. ASSUME left = {} PROVE \E r, q \in named : r # q /\ r[1] = q[1]
      <4>1. to_start[at] \in Seq(Joints[at].interfaces)
        BY <1>1, <2>1 DEF SwitchTypes, Starts
      <4>2. 1 \in 1 .. Len(to_start[at]) /\ 2 \in 1 .. Len(to_start[at])
        BY <3>1, <4>1
      <4> DEFINE r == <<at, to_start[at][1]>>
                 q == <<at, to_start[at][2]>>
      <4>3. r \in named /\ q \in named
        BY <1>1, <2>1, <3>2, <4>2 DEF SwitchInv, OneAsked
      <4>4. to_start[at][1] # to_start[at][2]
        BY <1>1, <2>1, <3>2, <4>2 DEF SwitchInv, SwitchUnderWay
      <4>5. r # q /\ r[1] = q[1]
        BY <4>4
      <4> HIDE DEF r, q
      <4>6. QED
        BY <4>3, <4>5
    <3>3. QED
      BY <3>1, <3>2
  <2>5. CASE RefuseMode
    <3>1. answer' = "refused" /\ Len(to_start[at]) = 1 /\ mode[Here] = Wanted
      BY <2>5 DEF RefuseMode, StartsOne, Answer
    <3>2. ASSUME left = {}
          PROVE  \/ \E r \in named : before[Node(r[1])] = r[2]
                 \/ \E r, q \in named : r[1] # q[1] /\ Node(r[1]) = Node(q[1]) /\ r[2] = q[2]
      <4> DEFINE r == <<at, Wanted>>
      <4>1. r \in named
        BY <1>1, <2>1, <3>1, <3>2 DEF SwitchInv, OneAsked, Wanted
      <4>2. r[1] = at /\ r[2] = Wanted /\ Node(r[1]) = Here
        BY DEF Here
      <4> HIDE DEF r
      <4>3. CASE mode[Here] = before[Here]
        BY <3>1, <4>1, <4>2, <4>3
      <4>4. CASE \E q \in named \cup left : Node(q[1]) = Here /\ q[1] < at /\ mode[Here] = q[2]
        <5>1. PICK q \in named : Node(q[1]) = Here /\ q[1] < at /\ mode[Here] = q[2]
          BY <3>2, <4>4
        <5>2. r[1] # q[1]
          BY <2>1, <4>2, <5>1
        <5>3. QED
          BY <3>1, <4>1, <4>2, <5>1, <5>2
      <4>5. QED
        BY <1>1, <2>1, <4>3, <4>4 DEF SwitchInv, SwitchUnderWay
    <3>3. QED
      BY <3>1, <3>2
  <2>6. CASE FailToSwitch
    BY <2>6 DEF FailToSwitch, Answer
  <2>7. QED
    BY <2>2, <2>3, <2>4, <2>5, <2>6
<1>2. EnabledInv /\ SwitchTypes /\ SwitchInv /\ [Next]_vars =>
        [call = "switch" /\ call' = "none" => Takes]_vars
  BY <1>1
<1>3. Init => SwitchInv
  BY DEF Init, SwitchInv, OneAsked, SwitchUnderWay
<1>4. QED
  BY <1>2, <1>3, TypesHold, SwitchInvNext, PTL DEF Spec, SwitchTakes
=============================================================================
