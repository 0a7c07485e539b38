--------------------------- MODULE LifecycleProof ---------------------------
(***************************************************************************)
(* Theorems about LifecycleManager.                                        *)
(***************************************************************************)
EXTENDS LifecycleManager, SequenceTheorems, TLAPS

\* Node n is in state s and has nothing to do.
Rest(n, s) ==
  /\ lifecycle[n] = s
  /\ handler[n] = "none"
  /\ requests[n] = << >>

\* The flags of a driver, its demands and its task, by lifecycle state and callback.
Shape(d) ==
  /\ handler[d] \in {"none", "demand", "add", "boot", "remove"}
  /\ demands[d] > 0 => configured[d] /\ ~activated[d]
  /\ posted[d] # "stop"
  /\ handler[d] = "demand" =>
       lifecycle[d] = "unconfigured" /\ configured[d] /\ ~activated[d]
       /\ ~attached[d] /\ posted[d] = "none"
  /\ handler[d] # "demand" /\ lifecycle[d] # "finalized" => demands[d] = 0
  /\ handler[d] = "add" =>
       lifecycle[d] = "inactive" /\ configured[d] /\ master_set[d] /\ ~activated[d]
       /\ ~attached[d] /\ posted[d] = "add"
  /\ handler[d] = "boot" =>
       lifecycle[d] = "inactive" /\ configured[d] /\ master_set[d] /\ ~activated[d]
       /\ posted[d] = "none"
  /\ handler[d] = "remove" =>
       lifecycle[d] = "active" /\ configured[d] /\ master_set[d] /\ ~activated[d]
       /\ posted[d] = "remove"
  /\ handler[d] = "none" =>
       /\ lifecycle[d] = "unconfigured" =>
            ~configured[d] /\ ~master_set[d] /\ ~activated[d]
            /\ ~attached[d] /\ posted[d] = "none"
       /\ lifecycle[d] = "inactive" =>
            configured[d] /\ master_set[d] /\ ~activated[d]
            /\ ~attached[d] /\ posted[d] = "none"
       /\ lifecycle[d] = "active" =>
            configured[d] /\ master_set[d] /\ activated[d] /\ posted[d] = "none"
       /\ lifecycle[d] = "finalized" => ~activated[d]

\* The same for the master.
MasterShape ==
  /\ handler[Master] \in {"none", "stop"}
  /\ handler[Master] = "stop" <=> posted[Master] = "stop"
  /\ handler[Master] = "stop" => lifecycle[Master] = "active"
  /\ lifecycle[Master] = "unconfigured" =>
       ~configured[Master] /\ ~activated[Master] /\ ~master_set[Master]
  /\ lifecycle[Master] = "inactive" => configured[Master] /\ ~activated[Master]
  /\ lifecycle[Master] = "active" =>
       configured[Master] /\ activated[Master] /\ master_set[Master]
  /\ lifecycle[Master] = "finalized" => ~activated[Master]

MasterRests == Rest(Master, "active")
DriversRest == \A d \in Drivers : Rest(d, "unconfigured")

\* No driver has anything to do unless the master is active and stays so.
Core == MasterRests \/ DriversRest

\* The call the manager waits for belongs to its step.
CallMatches ==
  /\ call.kind = "none" => reply = "none"
  /\ call.kind = "get_state" =>
       step \in {"see_master", "see_unconfigured", "see_cleaned"} /\ call.node = Target
  /\ call.kind = "change_state" => step \in Transitions /\ call.node = at
  /\ step \in UpSteps => manager = "inactive"
  /\ step \in DownSteps => manager = "active"
  /\ step = "see_master" => at # Master

\* Every device but the one the manager is at rests: those it has dealt with are
\* up (down), the others are down (up) still.
OthersRest ==
  /\ step \in UpSteps =>
       \A n \in Nodes : /\ n < at => Rest(n, "active")
                        /\ n > at => Rest(n, "unconfigured")
  /\ step \in DownSteps /\ at # Master =>
       \A n \in Nodes : /\ n > at \/ n = Master => Rest(n, "active")
                        /\ n < at /\ n # Master => Rest(n, "unconfigured")
  /\ step \in DownSteps /\ at = Master => DriversRest

\* The queues of requests that occur.
Configuration == <<"configure">>
Activation == <<"activate">>
Deactivation == <<"deactivate">>
OnlyCleanup == <<"cleanup">>
FullDeactivation == <<"deactivate", "cleanup">>

\* The device the manager is at, on its way up.
ComingUp ==
  /\ step \in {"see_master", "see_unconfigured"} => Rest(at, "unconfigured")
  /\ step = "configure" /\ call.kind = "none" => Rest(at, "unconfigured")
  /\ step = "configure" /\ call.kind # "none" /\ reply = "none" =>
       \/ requests[at] = Configuration /\ lifecycle[at] = "unconfigured" /\ handler[at] = "none"
       \/ requests[at] = << >> /\ handler[at] = "demand"
  /\ step \in {"configure", "activate"} /\ reply # "none" =>
       requests[at] = << >> /\ handler[at] = "none"
  /\ step = "configure" /\ reply = "success" => Rest(at, "inactive")
  /\ step = "activate" /\ call.kind = "none" => Rest(at, "inactive")
  /\ step = "activate" /\ call.kind # "none" /\ reply = "none" =>
       \/ requests[at] = Activation /\ lifecycle[at] = "inactive" /\ handler[at] = "none"
       \/ requests[at] = << >> /\ handler[at] \in {"add", "boot"}
  /\ step = "activate" /\ reply = "success" => Rest(at, "active")

\* The device the manager is at, on its way down: a deactivation is queued or not, and
\* then a cleanup is queued behind it or not.
Leaving ==
  /\ handler[at] \in {"none", "remove", "stop"}
  /\ requests[at] \in {<< >>, Deactivation}
  /\ lifecycle[at] # "unconfigured"

Left ==
  /\ handler[at] \in {"none", "remove", "stop"}
  /\ requests[at] \in {<< >>, Deactivation, OnlyCleanup, FullDeactivation}
  /\ lifecycle[at] = "unconfigured" => requests[at] = << >>

GoingDown ==
  /\ step = "deactivate" /\ call.kind = "none" => Rest(at, "active")
  /\ step = "deactivate" => Leaving
  /\ step = "cleanup" /\ call.kind = "none" => Leaving
  /\ step \in {"cleanup", "see_cleaned"} => Left
  /\ step = "see_cleaned" /\ reply = "unconfigured" => Rest(at, "unconfigured")

\* What the manager's state says while it has nothing to do.
Idle ==
  step = "none" =>
    /\ call.kind = "none"
    /\ manager = "active" => \A n \in Nodes : Rest(n, "active")
    /\ manager \in {"unconfigured", "inactive"} => \A n \in Nodes : Rest(n, "unconfigured")

IInv ==
  /\ TypeOK
  /\ \A d \in Drivers : Shape(d)
  /\ MasterShape
  /\ Core
  /\ CallMatches
  /\ OthersRest
  /\ ComingUp
  /\ GoingDown
  /\ Idle
  /\ alive

-----------------------------------------------------------------------------
(***************************************************************************)
(* Type correctness.                                                       *)
(***************************************************************************)

LEMMA NodesFacts == Master \in Nodes /\ Drivers \subseteq Nodes /\ Master \notin Drivers
                    /\ Nodes = Drivers \cup {Master}
BY NAssumption DEF Master, Nodes, Drivers

LEMMA TypeInit == Init => TypeOK
BY NAssumption, AttemptsAssumption, MaxActivationsAssumption, NodesFacts
   DEF Init, NodesInit, TypeOK, NodesTypeOK, States, NoCall, Calls, Replies, Nodes, Drivers, Master

LEMMA TakeType ==
  ASSUME TypeOK, NEW n \in Nodes, NEW t, Take(n, t)
  PROVE  requests' \in [Nodes -> Seq(Transitions)]
<1>1. requests[n] \in Seq(Transitions) /\ requests[n] # << >>
  BY DEF Take, TypeOK, NodesTypeOK
<1>2. Tail(requests[n]) \in Seq(Transitions)
  BY <1>1
<1>3. QED
  BY <1>2 DEF Take, TypeOK, NodesTypeOK

LEMMA FinishType ==
  ASSUME TypeOK, NEW n \in Nodes, NEW s \in States, NEW r \in {"success", "failure"},
         Finish(n, s, r)
  PROVE  /\ lifecycle' \in [Nodes -> States]
         /\ handler' \in [Nodes -> {"none", "demand", "add", "boot", "remove", "stop"}]
         /\ reply' \in Replies
<1>1. reply' \in Replies
  BY DEF Finish, Answer, TypeOK, NodesTypeOK, Replies
<1>2. QED
  BY <1>1 DEF Finish, TypeOK, NodesTypeOK

LEMMA ThrowType ==
  ASSUME TypeOK, NEW n \in Nodes, Throw(n)
  PROVE  /\ lifecycle' \in [Nodes -> States]
         /\ handler' \in [Nodes -> {"none", "demand", "add", "boot", "remove", "stop"}]
         /\ reply' \in Replies
BY FinishType DEF Throw, States

LEMMA WaitType ==
  ASSUME TypeOK, NEW n \in Nodes, NEW h \in {"demand", "add", "boot", "remove", "stop"},
         UNCHANGED <<lifecycle, reply>>, handler' = [handler EXCEPT ![n] = h]
  PROVE  /\ lifecycle' \in [Nodes -> States]
         /\ handler' \in [Nodes -> {"none", "demand", "add", "boot", "remove", "stop"}]
         /\ reply' \in Replies
BY DEF TypeOK, NodesTypeOK

\* What a further call of demand_set_master does to the counters.
LEMMA DemandType ==
  ASSUME attempt \in [Drivers -> 0 .. Attempts], demands \in [Drivers -> Nat],
         NEW d \in Drivers, NEW a \in 1 .. Attempts,
         attempt' = [attempt EXCEPT ![d] = a], demands' = [demands EXCEPT ![d] = @ + 1]
  PROVE  attempt' \in [Drivers -> 0 .. Attempts] /\ demands' \in [Drivers -> Nat]
<1>1. attempt' \in [Drivers -> 0 .. Attempts]
  BY AttemptsAssumption
<1>2. demands' \in [Drivers -> Nat]
  OBVIOUS
<1>3. QED
  BY <1>1, <1>2

LEMMA TypeDriver ==
  ASSUME TypeOK, NEW d \in Drivers, DriverStep(d), UNCHANGED managerVars
  PROVE  TypeOK'
<1> USE AttemptsAssumption, NodesFacts
    DEF TypeOK, NodesTypeOK, States, managerVars, flags
<1>1. CASE Configure(d)
  <2>a. \/ UNCHANGED <<configured, attempt, demands>>
        \/ /\ configured' = [configured EXCEPT ![d] = TRUE]
           /\ attempt' = [attempt EXCEPT ![d] = 1]
           /\ demands' = [demands EXCEPT ![d] = @ + 1]
    BY <1>1 DEF Configure
  <2>b. requests' \in [Nodes -> Seq(Transitions)]
    BY <1>1, TakeType DEF Configure
  <2>c. /\ attempt' \in [Drivers -> 0 .. Attempts]
        /\ demands' \in [Drivers -> Nat]
    BY <2>a, DemandType, 1 \in 1 .. Attempts
  <2>1. /\ configured' \in [Nodes -> BOOLEAN]
        /\ attempt' \in [Drivers -> 0 .. Attempts]
        /\ demands' \in [Drivers -> Nat]
        /\ requests' \in [Nodes -> Seq(Transitions)]
    BY <2>a, <2>b, <2>c
  <2>2. \/ UNCHANGED <<lifecycle, reply>> /\ handler' = [handler EXCEPT ![d] = "demand"]
        \/ Throw(d)
    BY <1>1 DEF Configure
  <2>3. /\ lifecycle' \in [Nodes -> States]
        /\ handler' \in [Nodes -> {"none", "demand", "add", "boot", "remove", "stop"}]
        /\ reply' \in Replies
    BY <2>2, WaitType, ThrowType
  <2>4. QED
    BY <1>1, <2>1, <2>3, TakeType, FinishType, ThrowType DEF Configure
<1>2. CASE DemandTimeout(d)
  <2>1. attempt' \in [Drivers -> 0 .. Attempts] /\ demands' \in [Drivers -> Nat]
    <3>1. CASE attempt' = attempt /\ demands' = demands
      BY <3>1
    <3>2. CASE /\ attempt[d] < Attempts
               /\ attempt' = [attempt EXCEPT ![d] = @ + 1]
               /\ demands' = [demands EXCEPT ![d] = @ + 1]
      <4>1. attempt[d] + 1 \in 1 .. Attempts
        BY <3>2
      <4>2. QED
        BY <3>2, <4>1, DemandType
    <3>3. QED
      BY <1>2, <3>1, <3>2 DEF DemandTimeout
  <2>2. Throw(d) \/ UNCHANGED <<lifecycle, handler, reply>>
    BY <1>2 DEF DemandTimeout
  <2>3. /\ lifecycle' \in [Nodes -> States]
        /\ handler' \in [Nodes -> {"none", "demand", "add", "boot", "remove", "stop"}]
        /\ reply' \in Replies
    BY <2>2, WaitType, ThrowType
  <2>4. QED
    BY <1>2, <2>1, <2>3, TakeType, FinishType, ThrowType DEF DemandTimeout
<1>3. CASE SetMaster(d)
  <2>1. demands' \in [Drivers -> Nat] /\ UNCHANGED requests
    BY <1>3 DEF SetMaster
  <2>2. master_set' \in [Nodes -> BOOLEAN] /\ alive' \in BOOLEAN
    BY <1>3 DEF SetMaster
  <2>3. \/ Finish(d, "inactive", "success")
        \/ UNCHANGED <<lifecycle, handler, reply>>
    BY <1>3 DEF SetMaster
  <2>4. QED
    BY <1>3, <2>1, <2>2, <2>3, TakeType, FinishType, ThrowType DEF SetMaster
<1>4. CASE Activate(d)
  BY <1>4, TakeType, FinishType, ThrowType DEF Activate
<1>5. CASE Booted(d)
  BY <1>5, TakeType, FinishType, ThrowType DEF Booted
<1>6. CASE BootFails(d)
  BY <1>6, TakeType, FinishType, ThrowType DEF BootFails
<1>7. CASE Deactivate(d)
  <2>a. \/ UNCHANGED <<activated, posted>>
        \/ /\ activated' = [activated EXCEPT ![d] = FALSE]
           /\ posted' = [posted EXCEPT ![d] = "remove"]
    BY <1>7 DEF Deactivate
  <2>b. requests' \in [Nodes -> Seq(Transitions)]
    BY <1>7, TakeType DEF Deactivate
  <2>c. activated' \in [Nodes -> BOOLEAN]
    BY <2>a
  <2>1. /\ requests' \in [Nodes -> Seq(Transitions)]
        /\ activated' \in [Nodes -> BOOLEAN]
        /\ posted' \in [Nodes -> {"none", "add", "remove", "stop"}]
    <3>1. posted' \in [Nodes -> {"none", "add", "remove", "stop"}]
      BY <2>a
    <3>2. QED
      BY <2>b, <2>c, <3>1, Zenon
  <2>2. \/ UNCHANGED <<lifecycle, reply>> /\ handler' = [handler EXCEPT ![d] = "remove"]
        \/ Throw(d)
    BY <1>7 DEF Deactivate
  <2>3. /\ lifecycle' \in [Nodes -> States]
        /\ handler' \in [Nodes -> {"none", "demand", "add", "boot", "remove", "stop"}]
        /\ reply' \in Replies
    BY <2>2, WaitType, ThrowType
  <2>4. QED
    BY <1>7, <2>1, <2>3, TakeType, FinishType, ThrowType DEF Deactivate
<1>8. CASE TaskTimeout(d)
  BY <1>8, TakeType, FinishType, ThrowType DEF TaskTimeout
<1>9. CASE Cleanup(d)
  BY <1>9, TakeType, FinishType, ThrowType DEF Cleanup
<1>10. CASE RunTask(d)
  BY <1>10, TakeType, FinishType, ThrowType DEF RunTask
<1>11. QED
  BY <1>1, <1>2, <1>3, <1>4, <1>5, <1>6, <1>7, <1>8, <1>9, <1>10 DEF DriverStep

LEMMA TypeMaster ==
  ASSUME TypeOK, MasterStep, UNCHANGED managerVars
  PROVE  TypeOK'
<1> USE NodesFacts
    DEF TypeOK, NodesTypeOK, States, managerVars, flags
<1>1. CASE MasterConfigure
  BY <1>1, TakeType, FinishType, ThrowType DEF MasterConfigure
<1>2. CASE MasterActivate
  BY <1>2, TakeType, FinishType, ThrowType DEF MasterActivate
<1>3. CASE MasterDeactivate
  <2>1. /\ requests' \in [Nodes -> Seq(Transitions)]
        /\ posted' \in [Nodes -> {"none", "add", "remove", "stop"}]
    BY <1>3, TakeType DEF MasterDeactivate
  <2>2. \/ UNCHANGED <<lifecycle, reply>> /\ handler' = [handler EXCEPT ![Master] = "stop"]
        \/ Throw(Master)
    BY <1>3 DEF MasterDeactivate
  <2>3. /\ lifecycle' \in [Nodes -> States]
        /\ handler' \in [Nodes -> {"none", "demand", "add", "boot", "remove", "stop"}]
        /\ reply' \in Replies
    BY <2>2, WaitType, ThrowType
  <2>4. QED
    BY <1>3, <2>1, <2>3, TakeType, FinishType, ThrowType DEF MasterDeactivate
<1>4. CASE StopLoop
  BY <1>4, TakeType, FinishType, ThrowType DEF StopLoop
<1>5. CASE MasterCleanup
  <2>a. \/ UNCHANGED <<configured, master_set, posted>>
        \/ /\ configured' = [configured EXCEPT ![Master] = FALSE]
           /\ master_set' = [master_set EXCEPT ![Master] = FALSE]
           /\ posted' = [n \in Nodes |-> "none"]
    BY <1>5 DEF MasterCleanup
  <2>b. requests' \in [Nodes -> Seq(Transitions)]
    BY <1>5, TakeType DEF MasterCleanup
  <2>1. /\ requests' \in [Nodes -> Seq(Transitions)]
        /\ configured' \in [Nodes -> BOOLEAN]
        /\ master_set' \in [Nodes -> BOOLEAN]
        /\ posted' \in [Nodes -> {"none", "add", "remove", "stop"}]
    BY <2>a, <2>b
  <2>2. Finish(Master, "unconfigured", "success") \/ Throw(Master)
    BY <1>5 DEF MasterCleanup
  <2>3. QED
    BY <1>5, <2>1, <2>2, TakeType, FinishType, ThrowType DEF MasterCleanup
<1>6. QED
  BY <1>1, <1>2, <1>3, <1>4, <1>5 DEF MasterStep

LEMMA TypeService ==
  ASSUME TypeOK, NEW n \in Nodes, ServiceStep(n), UNCHANGED managerVars
  PROVE  TypeOK'
<1> USE DEF managerVars, flags
<1>1. CASE Reject(n)
  <2>1. requests[n] \in Seq(Transitions) /\ requests[n] # << >>
    BY <1>1 DEF Reject, TypeOK, NodesTypeOK
  <2>2. Tail(requests[n]) \in Seq(Transitions)
    BY <2>1
  <2>3. requests' \in [Nodes -> Seq(Transitions)]
    BY <1>1, <2>2 DEF Reject, TypeOK, NodesTypeOK
  <2>4. reply' \in Replies
    BY <1>1 DEF Reject, Answer, TypeOK, NodesTypeOK, Replies
  <2>5. QED
    BY <1>1, <2>3, <2>4 DEF Reject, TypeOK, NodesTypeOK
<1>2. CASE AnswerState(n)
  BY <1>2 DEF AnswerState, nodeVars, TypeOK, NodesTypeOK, Replies
<1>3. QED
  BY <1>1, <1>2 DEF ServiceStep

LEMMA TypeManager ==
  ASSUME TypeOK, ManagerStep \/ UserStep
  PROVE  TypeOK'
<1> USE NAssumption, MaxActivationsAssumption, NodesFacts DEF nodeVars, flags, managerVars
<1>1. CASE AskState
  BY <1>1 DEF AskState, TypeOK, NodesTypeOK, Calls, Target
<1>2. CASE RequestChange
  <2>1. Target \in Nodes
    BY DEF Target, TypeOK
  <2>2. Append(requests[Target], step) \in Seq(Transitions)
    BY <1>2, <2>1 DEF RequestChange, TypeOK, NodesTypeOK
  <2>3. QED
    BY <1>2, <2>1, <2>2 DEF RequestChange, TypeOK, NodesTypeOK, Calls
<1>3. ASSUME NEW result, Conclude(result)
      PROVE  TypeOK'
  <2>1. /\ manager' \in States
        /\ step' \in UpSteps \cup DownSteps \cup {"none"}
        /\ at' \in Nodes
    BY <1>3 DEF Conclude, Proceed, GoTo, End, NextDown, TypeOK, UpSteps, DownSteps, States,
                Nodes, Master
  <2>2. QED
    BY <1>3, <2>1 DEF Conclude, TypeOK, NodesTypeOK, Calls, NoCall, Replies
<1>4. CASE Receive \/ Timeout
  BY <1>3, <1>4 DEF Receive, Timeout
<1>5. CASE UserStep
  BY <1>5 DEF UserStep, ManagerConfigure, ManagerCleanup, ManagerShutdown, BringUpAll,
              BringDownAll, TypeOK, NodesTypeOK, States, UpSteps, DownSteps, NextDown, Nodes, Master
<1>6. QED
  BY <1>1, <1>2, <1>4, <1>5 DEF ManagerStep

-----------------------------------------------------------------------------
(***************************************************************************)
(* What a step of one node does to that node and to the others.            *)
(***************************************************************************)

SameNode(n) ==
  /\ lifecycle'[n] = lifecycle[n]
  /\ configured'[n] = configured[n]
  /\ activated'[n] = activated[n]
  /\ master_set'[n] = master_set[n]
  /\ handler'[n] = handler[n]
  /\ requests'[n] = requests[n]
  /\ posted'[n] = posted[n]

SameDriver(d) ==
  /\ SameNode(d)
  /\ attached'[d] = attached[d]
  /\ demands'[d] = demands[d]

\* A step of a driver changes nothing of another node.
LEMMA DriverFrame ==
  ASSUME TypeOK, NEW d \in Drivers, DriverStep(d)
  PROVE  SameNode(Master) /\ \A e \in Drivers \ {d} : SameDriver(e)
<1> USE NodesFacts DEF TypeOK, NodesTypeOK, SameNode, SameDriver, flags, Take, Finish, Throw
<1>1. CASE Configure(d)
  BY <1>1 DEF Configure
<1>2. CASE DemandTimeout(d)
  BY <1>2 DEF DemandTimeout
<1>3. CASE SetMaster(d)
  BY <1>3 DEF SetMaster
<1>4. CASE Activate(d)
  BY <1>4 DEF Activate
<1>5. CASE Booted(d)
  BY <1>5 DEF Booted
<1>6. CASE BootFails(d)
  BY <1>6 DEF BootFails
<1>7. CASE Deactivate(d)
  BY <1>7 DEF Deactivate
<1>8. CASE TaskTimeout(d)
  BY <1>8 DEF TaskTimeout
<1>9. CASE Cleanup(d)
  BY <1>9 DEF Cleanup
<1>10. CASE RunTask(d)
  BY <1>10 DEF RunTask
<1>11. QED
  BY <1>1, <1>2, <1>3, <1>4, <1>5, <1>6, <1>7, <1>8, <1>9, <1>10 DEF DriverStep

\* A step of the master changes nothing of a driver that is unconfigured and at rest.
LEMMA MasterFrame ==
  ASSUME TypeOK, MasterStep, NEW d \in Drivers, Shape(d), Rest(d, "unconfigured")
  PROVE  SameDriver(d)
<1> USE NodesFacts DEF TypeOK, NodesTypeOK, SameNode, SameDriver, flags, Take, Finish, Throw, Shape, Rest
<1>1. CASE MasterConfigure
  BY <1>1 DEF MasterConfigure
<1>2. CASE MasterActivate
  BY <1>2 DEF MasterActivate
<1>3. CASE MasterDeactivate
  BY <1>3 DEF MasterDeactivate
<1>4. CASE StopLoop
  BY <1>4 DEF StopLoop
<1>5. CASE MasterCleanup
  BY <1>5 DEF MasterCleanup
<1>6. QED
  BY <1>1, <1>2, <1>3, <1>4, <1>5 DEF MasterStep

\* A driver at rest takes no step.
LEMMA DriverBusy ==
  ASSUME TypeOK, NEW d \in Drivers, Shape(d), DriverStep(d), NEW s \in States \ {"finalized"}
  PROVE  ~Rest(d, s)
<1> USE NodesFacts DEF TypeOK, NodesTypeOK, Take, Shape, Rest, States
<1>1. CASE Configure(d)
  BY <1>1 DEF Configure
<1>2. CASE DemandTimeout(d)
  BY <1>2 DEF DemandTimeout
<1>3. CASE SetMaster(d)
  BY <1>3 DEF SetMaster
<1>4. CASE Activate(d)
  BY <1>4 DEF Activate
<1>5. CASE Booted(d)
  BY <1>5 DEF Booted
<1>6. CASE BootFails(d)
  BY <1>6 DEF BootFails
<1>7. CASE Deactivate(d)
  BY <1>7 DEF Deactivate
<1>8. CASE TaskTimeout(d)
  BY <1>8 DEF TaskTimeout
<1>9. CASE Cleanup(d)
  BY <1>9 DEF Cleanup
<1>10. CASE RunTask(d)
  BY <1>10 DEF RunTask
<1>11. QED
  BY <1>1, <1>2, <1>3, <1>4, <1>5, <1>6, <1>7, <1>8, <1>9, <1>10 DEF DriverStep

\* Nor does the master.
LEMMA MasterBusy ==
  ASSUME MasterShape, MasterStep, NEW s
  PROVE  ~Rest(Master, s)
BY DEF MasterStep, MasterConfigure, MasterActivate, MasterDeactivate, StopLoop, MasterCleanup,
       Take, Rest, MasterShape

\* The steps of a driver keep its shape while the master is active, and the container
\* survives them.
LEMMA DriverShape ==
  ASSUME TypeOK, TypeOK', NEW d \in Drivers, Shape(d), DriverStep(d),
         MasterRests, MasterShape, alive
  PROVE  Shape(d)' /\ alive'
<1> USE NodesFacts DEF TypeOK, NodesTypeOK, Shape, flags, Take, Finish, Throw, Source
<1>1. CASE Configure(d)
  BY <1>1 DEF Configure
<1>2. CASE DemandTimeout(d)
  BY <1>2 DEF DemandTimeout
<1>3. CASE SetMaster(d)
  <2>1. master_set[Master] /\ configured[d] /\ ~activated[d]
    BY <1>3 DEF SetMaster, MasterRests, MasterShape, Rest
  <2>2. /\ master_set' = [master_set EXCEPT ![d] = TRUE]
        /\ UNCHANGED alive
        /\ \/ Finish(d, "inactive", "success") /\ handler[d] = "demand" /\ demands[d] = 1
           \/ UNCHANGED <<lifecycle, handler>> /\ ~(handler[d] = "demand" /\ demands[d] = 1)
    BY <1>3, <2>1 DEF SetMaster
  <2>3. /\ demands' = [demands EXCEPT ![d] = @ - 1] /\ demands[d] > 0
        /\ UNCHANGED <<configured, activated, attached, posted>>
    BY <1>3 DEF SetMaster
  <2>4. CASE Finish(d, "inactive", "success") /\ handler[d] = "demand" /\ demands[d] = 1
    BY <2>1, <2>2, <2>3, <2>4
  <2>5. CASE UNCHANGED <<lifecycle, handler>> /\ ~(handler[d] = "demand" /\ demands[d] = 1)
    BY <2>1, <2>2, <2>3, <2>5
  <2>6. QED
    BY <2>2, <2>4, <2>5
<1>4. CASE Activate(d)
  BY <1>4 DEF Activate
<1>5. CASE Booted(d)
  BY <1>5 DEF Booted
<1>6. CASE BootFails(d)
  BY <1>6 DEF BootFails
<1>7. CASE Deactivate(d)
  BY <1>7 DEF Deactivate
<1>8. CASE TaskTimeout(d)
  BY <1>8 DEF TaskTimeout
<1>9. CASE Cleanup(d)
  BY <1>9 DEF Cleanup
<1>10. CASE RunTask(d)
  BY <1>10 DEF RunTask
<1>11. QED
  BY <1>1, <1>2, <1>3, <1>4, <1>5, <1>6, <1>7, <1>8, <1>9, <1>10 DEF DriverStep

LEMMA MasterShapeStep ==
  ASSUME TypeOK, TypeOK', MasterShape, MasterStep
  PROVE  MasterShape'
<1> USE NodesFacts DEF TypeOK, NodesTypeOK, MasterShape, flags, Take, Finish, Throw, Source
<1>1. CASE MasterConfigure
  BY <1>1 DEF MasterConfigure
<1>2. CASE MasterActivate
  BY <1>2 DEF MasterActivate
<1>3. CASE MasterDeactivate
  BY <1>3 DEF MasterDeactivate
<1>4. CASE StopLoop
  BY <1>4 DEF StopLoop
<1>5. CASE MasterCleanup
  BY <1>5 DEF MasterCleanup
<1>6. QED
  BY <1>1, <1>2, <1>3, <1>4, <1>5 DEF MasterStep

-----------------------------------------------------------------------------
(***************************************************************************)
(* The device the manager is at.                                           *)
(***************************************************************************)

LEMMA QueueFacts ==
  /\ Head(Configuration) = "configure" /\ Tail(Configuration) = << >> /\ Configuration # << >>
  /\ Head(Activation) = "activate" /\ Tail(Activation) = << >> /\ Activation # << >>
  /\ Head(Deactivation) = "deactivate" /\ Tail(Deactivation) = << >> /\ Deactivation # << >>
  /\ Head(OnlyCleanup) = "cleanup" /\ Tail(OnlyCleanup) = << >> /\ OnlyCleanup # << >>
  /\ Head(FullDeactivation) = "deactivate" /\ Tail(FullDeactivation) = OnlyCleanup
  /\ FullDeactivation # << >>
BY DEF Configuration, Activation, Deactivation, OnlyCleanup, FullDeactivation

(***************************************************************************)
(* The steps of a node as the manager can notice them.                     *)
(***************************************************************************)

\* A callback begins and has to wait.
Begins(n) ==
  \E t \in Transitions, h \in {"demand", "add", "remove", "stop"} :
    /\ Take(n, t)
    /\ h = "demand" <=> t = "configure"
    /\ h = "add" <=> t = "activate"
    /\ t # "cleanup"
    /\ handler' = [handler EXCEPT ![n] = h]
    /\ UNCHANGED <<lifecycle, reply>>

\* A callback begins and ends.
Completes(n) ==
  \E t \in Transitions, s \in States, r \in {"success", "failure"} :
    /\ Take(n, t)
    /\ Finish(n, s, r)
    /\ r = "failure" => s = "finalized"
    /\ r = "success" =>
         \/ t = "configure" /\ s = "inactive"
         \/ t = "activate" /\ s = "active"
         \/ t = "cleanup" /\ s = "unconfigured"

\* A callback that has waited ends.
Ends(n) ==
  \E s \in States, r \in {"success", "failure"} :
    /\ handler[n] # "none"
    /\ UNCHANGED requests
    /\ Finish(n, s, r)
    /\ r = "failure" => s = "finalized"
    /\ r = "success" =>
         \/ handler[n] \in {"demand", "remove", "stop"} /\ s = "inactive"
         \/ handler[n] = "boot" /\ s = "active"

\* A callback waits on, or goes from one wait to the next.
Goes(n) ==
  /\ UNCHANGED <<lifecycle, requests, reply>>
  /\ \/ UNCHANGED handler
     \/ handler[n] = "add" /\ handler' = [handler EXCEPT ![n] = "boot"]

NodeStep(n) == Begins(n) \/ Completes(n) \/ Ends(n) \/ Goes(n)

LEMMA DriverKinds ==
  ASSUME TypeOK, NEW d \in Drivers, Shape(d), DriverStep(d)
  PROVE  NodeStep(d)
<1> USE NodesFacts DEF NodeStep, Throw, States, Transitions, Shape, TypeOK, NodesTypeOK
<1>1. CASE Configure(d)
  BY <1>1 DEF Configure, Begins, Completes
<1>2. CASE DemandTimeout(d)
  BY <1>2 DEF DemandTimeout, Ends, Goes
<1>3. CASE SetMaster(d)
  BY <1>3 DEF SetMaster, Ends, Goes
<1>4. CASE Activate(d)
  BY <1>4 DEF Activate, Begins, Completes
<1>5. CASE Booted(d)
  BY <1>5 DEF Booted, Ends
<1>6. CASE BootFails(d)
  BY <1>6 DEF BootFails, Ends
<1>7. CASE Deactivate(d)
  BY <1>7 DEF Deactivate, Begins, Completes
<1>8. CASE TaskTimeout(d)
  BY <1>8 DEF TaskTimeout, Ends
<1>9. CASE Cleanup(d)
  BY <1>9 DEF Cleanup, Completes
<1>10. CASE RunTask(d)
  BY <1>10 DEF RunTask, Ends, Goes
<1>11. QED
  BY <1>1, <1>2, <1>3, <1>4, <1>5, <1>6, <1>7, <1>8, <1>9, <1>10 DEF DriverStep

LEMMA MasterKinds ==
  ASSUME TypeOK, MasterShape, MasterStep
  PROVE  NodeStep(Master)
<1> USE NodesFacts DEF NodeStep, Throw, States, Transitions, MasterShape, TypeOK, NodesTypeOK
<1>1. CASE MasterConfigure
  BY <1>1 DEF MasterConfigure, Completes
<1>2. CASE MasterActivate
  BY <1>2 DEF MasterActivate, Completes
<1>3. CASE MasterDeactivate
  BY <1>3 DEF MasterDeactivate, Begins, Completes
<1>4. CASE StopLoop
  BY <1>4 DEF StopLoop, Ends
<1>5. CASE MasterCleanup
  BY <1>5 DEF MasterCleanup, Completes
<1>6. QED
  BY <1>1, <1>2, <1>3, <1>4, <1>5 DEF MasterStep

\* What the manager knows of the device it is at is a matter of these.
LEMMA NodeAt ==
  ASSUME TypeOK, NodeStep(at), UNCHANGED call, UNCHANGED managerVars,
         handler[at] = "demand" => lifecycle[at] = "unconfigured",
         handler[at] \in {"add", "boot"} => lifecycle[at] = "inactive",
         handler[at] \in {"remove", "stop"} => lifecycle[at] = "active",
         CallMatches, ComingUp, GoingDown
  PROVE  ComingUp' /\ GoingDown'
<1>a. /\ lifecycle \in [Nodes -> States]
      /\ handler \in [Nodes -> {"none", "demand", "add", "boot", "remove", "stop"}]
      /\ requests \in [Nodes -> Seq(Transitions)]
      /\ at \in Nodes
      /\ call.kind = "change_state" => call = [node |-> at, kind |-> "change_state"]
      /\ call.kind \in {"none", "get_state", "change_state"}
  BY DEF TypeOK, NodesTypeOK, CallMatches, Calls
<1>b. step' = step /\ at' = at /\ call' = call
  BY DEF managerVars
<1>1. CASE Begins(at)
  <2>1. PICK t \in Transitions, h \in {"demand", "add", "remove", "stop"} :
              /\ Take(at, t)
              /\ h = "demand" <=> t = "configure"
              /\ h = "add" <=> t = "activate"
              /\ t # "cleanup"
              /\ handler' = [handler EXCEPT ![at] = h]
              /\ UNCHANGED <<lifecycle, reply>>
    BY <1>1 DEF Begins
  <2>2. /\ handler[at] = "none" /\ handler'[at] = h
        /\ requests[at] # << >> /\ Head(requests[at]) = t
        /\ requests'[at] = Tail(requests[at])
        /\ lifecycle'[at] = lifecycle[at] /\ lifecycle[at] = Source(t)
        /\ reply' = reply
    BY <1>a, <2>1 DEF Take
  <2>3. ComingUp'
    BY <1>b, <2>1, <2>2, QueueFacts DEF ComingUp, Rest, Source
  <2>4. GoingDown'
    BY <1>b, <2>1, <2>2, QueueFacts DEF GoingDown, Leaving, Left, Rest, Source, Transitions
  <2>5. QED
    BY <2>3, <2>4
<1>2. CASE Completes(at)
  <2>1. PICK t \in Transitions, s \in States, r \in {"success", "failure"} :
              /\ Take(at, t)
              /\ Finish(at, s, r)
              /\ r = "failure" => s = "finalized"
              /\ r = "success" =>
                   \/ t = "configure" /\ s = "inactive"
                   \/ t = "activate" /\ s = "active"
                   \/ t = "cleanup" /\ s = "unconfigured"
    BY <1>2 DEF Completes
  <2>2. /\ handler[at] = "none" /\ handler'[at] = "none"
        /\ requests[at] # << >> /\ Head(requests[at]) = t
        /\ requests'[at] = Tail(requests[at])
        /\ lifecycle'[at] = s /\ lifecycle[at] = Source(t)
        /\ \/ reply' = reply
           \/ reply' = r /\ call.kind = "change_state" /\ requests'[at] = << >>
        /\ call.kind = "change_state" /\ requests'[at] = << >> => reply' = r
    BY <1>a, <2>1 DEF Take, Finish, Answer
  <2>3. ComingUp'
    BY <1>a, <1>b, <2>1, <2>2, QueueFacts DEF ComingUp, Rest, Source, CallMatches
  <2>4. GoingDown'
    BY <1>a, <1>b, <2>1, <2>2, QueueFacts
       DEF GoingDown, Leaving, Left, Rest, Source, Transitions, CallMatches
  <2>5. QED
    BY <2>3, <2>4
<1>3. CASE Ends(at)
  <2>1. PICK s \in States, r \in {"success", "failure"} :
              /\ handler[at] # "none"
              /\ UNCHANGED requests
              /\ Finish(at, s, r)
              /\ r = "failure" => s = "finalized"
              /\ r = "success" =>
                   \/ handler[at] \in {"demand", "remove", "stop"} /\ s = "inactive"
                   \/ handler[at] = "boot" /\ s = "active"
    BY <1>3 DEF Ends
  <2>2. /\ handler'[at] = "none" /\ lifecycle'[at] = s
        /\ requests'[at] = requests[at]
        /\ \/ reply' = reply
           \/ reply' = r /\ call.kind = "change_state" /\ requests'[at] = << >>
        /\ call.kind = "change_state" /\ requests'[at] = << >> => reply' = r
    BY <1>a, <2>1 DEF Finish, Answer
  <2>3. ComingUp'
    BY <1>a, <1>b, <2>1, <2>2, QueueFacts DEF ComingUp, Rest, CallMatches
  <2>4. GoingDown'
    BY <1>a, <1>b, <2>1, <2>2, QueueFacts DEF GoingDown, Leaving, Left, Rest, CallMatches
  <2>5. QED
    BY <2>3, <2>4
<1>4. CASE Goes(at)
  BY <1>a, <1>b, <1>4 DEF Goes, ComingUp, GoingDown, Leaving, Left, Rest
<1>5. QED
  BY <1>1, <1>2, <1>3, <1>4 DEF NodeStep

-----------------------------------------------------------------------------
(***************************************************************************)
(* The inductive invariant, step by step.                                  *)
(***************************************************************************)

LEMMA InvInit == Init => IInv
<1> SUFFICES ASSUME Init PROVE IInv
  OBVIOUS
<1>1. TypeOK
  BY TypeInit
<1>2. \A n \in Nodes : Rest(n, "unconfigured")
  BY DEF Init, NodesInit, Rest
<1>3. \A d \in Drivers : Shape(d)
  BY NodesFacts DEF Init, NodesInit, Shape
<1>4. MasterShape
  BY NodesFacts DEF Init, NodesInit, MasterShape
<1>5. Core
  BY <1>2, NodesFacts DEF Core, DriversRest
<1>6. CallMatches /\ OthersRest /\ ComingUp /\ GoingDown /\ Idle /\ alive
  BY <1>2 DEF Init, NodesInit, NoCall, CallMatches, OthersRest, ComingUp, GoingDown, Idle,
              UpSteps, DownSteps, Transitions
<1>7. QED
  BY <1>1, <1>3, <1>4, <1>5, <1>6 DEF IInv

\* The device the manager is at is the only one with something to do, unless the manager
\* has ended its work in a failure.
LEMMA OnlyAt ==
  ASSUME IInv, NEW n \in Nodes,
         \A s \in {"unconfigured", "active"} : ~Rest(n, s)
  PROVE  /\ step # "none" => n = at
         /\ step = "none" => manager = "finalized"
<1>1. CASE step \in UpSteps
  BY <1>1, NAssumption DEF IInv, OthersRest, Nodes, TypeOK, UpSteps
<1>2. CASE step \in DownSteps /\ at # Master
  BY <1>2, NAssumption DEF IInv, OthersRest, Nodes, TypeOK, DownSteps
<1>3. CASE step \in DownSteps /\ at = Master
  BY <1>3, NodesFacts DEF IInv, OthersRest, DriversRest, DownSteps
<1>4. CASE step = "none"
  BY <1>4 DEF IInv, Idle, TypeOK, States
<1>5. QED
  BY <1>1, <1>2, <1>3, <1>4 DEF IInv, TypeOK

LEMMA InvDriver ==
  ASSUME IInv, NEW d \in Drivers, DriverStep(d), UNCHANGED managerVars
  PROVE  IInv'
<1>1. TypeOK /\ TypeOK'
  BY TypeDriver DEF IInv
<1>2. \A s \in States \ {"finalized"} : ~Rest(d, s)
  BY <1>1, DriverBusy DEF IInv
<1>3. MasterRests
  BY <1>2 DEF IInv, Core, DriversRest, States
<1>4. /\ step # "none" => d = at
      /\ step = "none" => manager = "finalized"
  BY <1>2, OnlyAt, NodesFacts DEF States
<1>5. SameNode(Master) /\ \A e \in Drivers \ {d} : SameDriver(e)
  BY <1>1, DriverFrame
<1>6. Shape(d)' /\ alive'
  BY <1>1, <1>3, DriverShape DEF IInv
<1>7. \A e \in Drivers : Shape(e)'
  <2>1. ASSUME NEW e \in Drivers \ {d} PROVE Shape(e)'
    BY <1>5, <2>1 DEF IInv, Shape, SameDriver, SameNode
  <2>2. QED
    BY <1>6, <2>1
<1>8. MasterShape'
  BY <1>5 DEF IInv, MasterShape, SameNode
<1>9. MasterRests'
  BY <1>3, <1>5 DEF MasterRests, Rest, SameNode
<1>10. step' = step /\ at' = at /\ manager' = manager /\ call' = call
  BY DEF managerVars, DriverStep, Configure, DemandTimeout, SetMaster, Activate, Booted,
         BootFails, Deactivate, TaskTimeout, Cleanup, RunTask
<1>11. call.kind = "none" => reply' = reply
  BY DEF DriverStep, Configure, DemandTimeout, SetMaster, Activate, Booted, BootFails,
         Deactivate, TaskTimeout, Cleanup, RunTask, Take, Throw, Finish, Answer
<1>12. CallMatches'
  BY <1>10, <1>11 DEF IInv, CallMatches, Target
<1>13. \A n \in Nodes \ {d}, s \in States : Rest(n, s) => Rest(n, s)'
  BY <1>5, NodesFacts DEF Rest, SameDriver, SameNode
<1>14. OthersRest' /\ Idle'
  <2>1. CASE step = "none"
    BY <1>4, <1>10, <2>1 DEF OthersRest, Idle, UpSteps, DownSteps, IInv
  <2>2. CASE step # "none"
    <3>1. d = at /\ at # Master
      BY <1>4, <2>2, NodesFacts
    <3>2. \A n \in Nodes \ {at}, s \in States : Rest(n, s) => Rest(n, s)'
      BY <1>13, <3>1
    <3>3. OthersRest'
      BY <1>10, <3>1, <3>2, NAssumption, NodesFacts DEF IInv, OthersRest, States, Nodes, Master
    <3>4. QED
      BY <1>10, <2>2, <3>3 DEF Idle
  <2>3. QED
    BY <2>1, <2>2
<1>15. ComingUp' /\ GoingDown'
  <2>1. CASE step = "none"
    BY <1>10, <2>1 DEF ComingUp, GoingDown
  <2>2. CASE step # "none"
    <3>1. d = at
      BY <1>4, <2>2
    <3>2. NodeStep(at)
      BY <1>1, <3>1, DriverKinds DEF IInv
    <3>3. QED
      BY <1>1, <1>10, <3>1, <3>2, NodeAt DEF IInv, Shape
  <2>3. QED
    BY <2>1, <2>2
<1>16. QED
  BY <1>1, <1>6, <1>7, <1>8, <1>9, <1>12, <1>14, <1>15 DEF IInv, Core

LEMMA InvMaster ==
  ASSUME IInv, MasterStep, UNCHANGED managerVars
  PROVE  IInv'
<1>1. TypeOK /\ TypeOK'
  BY TypeMaster DEF IInv
<1>2. \A s : ~Rest(Master, s)
  BY MasterBusy DEF IInv
<1>3. DriversRest
  BY <1>2 DEF IInv, Core, MasterRests
<1>4. /\ step # "none" => at = Master
      /\ step = "none" => manager = "finalized"
  BY <1>2, OnlyAt, NodesFacts
<1>5. \A d \in Drivers : SameDriver(d)
  BY <1>1, <1>3, MasterFrame DEF IInv, DriversRest
<1>6. \A d \in Drivers : Shape(d)'
  BY <1>5 DEF IInv, Shape, SameDriver, SameNode
<1>7. MasterShape'
  BY <1>1, MasterShapeStep DEF IInv
<1>8. DriversRest'
  BY <1>3, <1>5 DEF DriversRest, Rest, SameDriver, SameNode
<1>9. /\ step' = step /\ at' = at /\ manager' = manager /\ call' = call
      /\ alive' = alive
  BY DEF managerVars, MasterStep, MasterConfigure, MasterActivate, MasterDeactivate, StopLoop,
         MasterCleanup
<1>10. call.kind = "none" => reply' = reply
  BY DEF MasterStep, MasterConfigure, MasterActivate, MasterDeactivate, StopLoop,
         MasterCleanup, Take, Throw, Finish, Answer
<1>11. CallMatches'
  BY <1>9, <1>10 DEF IInv, CallMatches, Target
<1>12. OthersRest' /\ Idle'
  <2>1. CASE step = "none"
    BY <1>4, <1>9, <2>1 DEF OthersRest, Idle, UpSteps, DownSteps, IInv
  <2>2. CASE step # "none"
    BY <1>4, <1>8, <1>9, <2>2, NAssumption, NodesFacts
       DEF OthersRest, Idle, DriversRest, Nodes, Drivers, Master
  <2>3. QED
    BY <2>1, <2>2
<1>13. ComingUp' /\ GoingDown'
  <2>1. CASE step = "none"
    BY <1>9, <2>1 DEF ComingUp, GoingDown
  <2>2. CASE step # "none"
    <3>1. NodeStep(at)
      BY <1>1, <1>4, <2>2, MasterKinds DEF IInv
    <3>2. QED
      BY <1>1, <1>4, <1>9, <2>2, <3>1, NodeAt DEF IInv, MasterShape
  <2>3. QED
    BY <2>1, <2>2
<1>14. QED
  BY <1>1, <1>6, <1>7, <1>8, <1>9, <1>11, <1>12, <1>13 DEF IInv, Core

LEMMA InvService ==
  ASSUME IInv, NEW n \in Nodes, ServiceStep(n), UNCHANGED managerVars
  PROVE  IInv'
<1>1. TypeOK /\ TypeOK'
  BY TypeService DEF IInv
<1>2. /\ step' = step /\ at' = at /\ manager' = manager /\ call' = call /\ alive' = alive
      /\ UNCHANGED <<lifecycle, flags, handler, demands, posted>>
  BY DEF managerVars, nodeVars, ServiceStep, Reject, AnswerState
<1>3. \A d \in Drivers : Shape(d)'
  BY <1>2 DEF IInv, Shape, flags
<1>4. MasterShape'
  BY <1>2 DEF IInv, MasterShape, flags
<1>5. CASE AnswerState(n)
  <2>1. /\ requests' = requests /\ reply' = lifecycle[n] /\ reply = "none"
        /\ call.kind = "get_state" /\ call.node = n /\ handler[n] = "none"
    BY <1>5 DEF AnswerState, nodeVars
  <2>2. \A m, s : Rest(m, s)' <=> Rest(m, s)
    BY <1>2, <2>1 DEF Rest
  <2>3. Core' /\ OthersRest' /\ Idle'
    BY <1>2, <2>2 DEF IInv, Core, MasterRests, DriversRest, OthersRest, Idle
  <2>4. CallMatches'
    BY <1>2, <2>1 DEF IInv, CallMatches, Target
  <2>5. step \in {"see_master", "see_unconfigured", "see_cleaned"} /\ n = Target
    BY <2>1 DEF IInv, CallMatches
  <2>6. ComingUp'
    BY <1>2, <2>1, <2>2, <2>5 DEF IInv, ComingUp
  <2>7. step = "see_cleaned" /\ reply' = "unconfigured" => Rest(at, "unconfigured")
    BY <2>1, <2>5 DEF IInv, GoingDown, Left, Rest, Target
  <2>8. GoingDown'
    BY <1>2, <2>1, <2>2, <2>5, <2>7 DEF IInv, GoingDown, Leaving, Left
  <2>9. QED
    BY <1>1, <1>2, <1>3, <1>4, <2>3, <2>4, <2>6, <2>8 DEF IInv
<1>6. CASE Reject(n)
  <2>1. /\ handler[n] = "none" /\ requests[n] # << >>
        /\ lifecycle[n] # Source(Head(requests[n]))
        /\ requests'[n] = Tail(requests[n])
        /\ \A m \in Nodes \ {n} : requests'[m] = requests[m]
        /\ \/ reply' = reply
           \/ reply' = "failure" /\ call = [node |-> n, kind |-> "change_state"]
    BY <1>1, <1>6 DEF Reject, Answer, TypeOK, NodesTypeOK
  <2>2. \A s : ~Rest(n, s)
    BY <2>1 DEF Rest
  <2>3. /\ step # "none" => n = at
        /\ step = "none" => manager = "finalized"
    BY <2>2, OnlyAt
  <2>4. \A m \in Nodes, s \in States : Rest(m, s) => Rest(m, s)'
    BY <1>2, <2>1, <2>2 DEF Rest
  <2>5. Core'
    BY <2>4, NodesFacts DEF IInv, Core, MasterRests, DriversRest, States
  <2>6. CallMatches'
    BY <1>2, <2>1 DEF IInv, CallMatches, Target
  <2>7. OthersRest' /\ Idle'
    <3>1. OthersRest'
      BY <1>1, <1>2, <2>4, NodesFacts DEF IInv, OthersRest, DriversRest, States
    <3>2. QED
      BY <1>2, <2>3, <3>1 DEF IInv, Idle
  <2>8. ComingUp'
    BY <1>2, <2>1, <2>2, <2>3, QueueFacts DEF IInv, ComingUp, Rest, Source
  <2>9. GoingDown'
    BY <1>2, <2>1, <2>2, <2>3, QueueFacts
       DEF IInv, GoingDown, Leaving, Left, Rest, CallMatches, Transitions
  <2>10. QED
    BY <1>1, <1>2, <1>3, <1>4, <2>5, <2>6, <2>7, <2>8, <2>9 DEF IInv
<1>7. QED
  BY <1>5, <1>6 DEF ServiceStep

LEMMA AppendFacts ==
  /\ Append(<< >>, "configure") = Configuration
  /\ Append(<< >>, "activate") = Activation
  /\ Append(<< >>, "deactivate") = Deactivation
  /\ Append(<< >>, "cleanup") = OnlyCleanup
  /\ Append(Deactivation, "cleanup") = FullDeactivation
<1>1. Append(<< >>, "configure") = <<"configure">>
  OBVIOUS
<1>2. Append(<< >>, "activate") = <<"activate">>
  OBVIOUS
<1>3. Append(<< >>, "deactivate") = <<"deactivate">>
  OBVIOUS
<1>4. Append(<< >>, "cleanup") = <<"cleanup">>
  OBVIOUS
<1>5. Append(<<"deactivate">>, "cleanup") = <<"deactivate", "cleanup">>
  <2> DEFINE one == <<"deactivate">>
             two == <<"deactivate", "cleanup">>
             longer == Append(one, "cleanup")
  <2>1. one \in Seq(Transitions) /\ Len(one) = 1 /\ one[1] = "deactivate"
    BY DEF Transitions
  <2>2. two \in Seq(Transitions) /\ Len(two) = 2 /\ two[1] = "deactivate" /\ two[2] = "cleanup"
    BY DEF Transitions
  <2>3. "cleanup" \in Transitions
    BY DEF Transitions
  <2> HIDE DEF one, two
  <2>4. longer \in Seq(Transitions) /\ Len(longer) = Len(one) + 1
    BY <2>1, <2>3, AppendProperties
  <2>5. longer[Len(one) + 1] = "cleanup" /\ \A i \in 1 .. Len(one) : longer[i] = one[i]
    BY <2>1, <2>3, AppendProperties, ZenonT(30)
  <2> HIDE DEF longer
  <2>6. Len(longer) = Len(two)
    BY <2>1, <2>2, <2>4
  <2>7. ASSUME NEW i \in 1 .. Len(longer) PROVE longer[i] = two[i]
    <3>1. i = 1 \/ i = 2
      BY <2>2, <2>6, <2>7
    <3>2. QED
      BY <2>1, <2>2, <2>5, <3>1
  <2>8. longer = two
    BY <2>2, <2>4, <2>6, <2>7, SeqEqual
  <2>9. QED
    BY <2>8 DEF one, two, longer
<1>6. QED
  BY <1>1, <1>2, <1>3, <1>4, <1>5
     DEF Configuration, Activation, Deactivation, OnlyCleanup, FullDeactivation

LEMMA InvCall ==
  ASSUME IInv, AskState \/ RequestChange
  PROVE  IInv'
<1>1. TypeOK /\ TypeOK'
  BY TypeManager DEF ManagerStep, IInv
<1>2. /\ step' = step /\ at' = at /\ manager' = manager /\ reply' = reply /\ alive' = alive
      /\ call.kind = "none" /\ reply = "none" /\ call'.kind # "none" /\ step # "none"
      /\ UNCHANGED <<lifecycle, flags, handler, demands, posted>>
  <2>1. call.kind = "none" /\ step # "none"
    BY DEF AskState, RequestChange, Transitions
  <2>2. call'.kind # "none"
    BY DEF AskState, RequestChange
  <2>3. UNCHANGED <<lifecycle, flags, handler, demands, posted, managerVars, reply, alive>>
    BY DEF AskState, RequestChange, nodeVars
  <2>4. QED
    BY <2>1, <2>2, <2>3 DEF managerVars, IInv, CallMatches
<1>3. \A d \in Drivers : Shape(d)'
  BY <1>2 DEF IInv, Shape, flags
<1>4. MasterShape'
  BY <1>2 DEF IInv, MasterShape, flags
<1>5. Idle'
  BY <1>2 DEF Idle
<1>6. CallMatches'
  BY <1>2 DEF IInv, CallMatches, AskState, RequestChange, Target, Transitions
<1>7. CASE AskState
  <2>1. requests' = requests /\ step \in {"see_master", "see_unconfigured", "see_cleaned"}
    BY <1>7 DEF AskState, nodeVars
  <2>2. \A m, s : Rest(m, s)' <=> Rest(m, s)
    BY <1>2, <2>1 DEF Rest
  <2>3. Core' /\ OthersRest'
    BY <1>2, <2>2 DEF IInv, Core, MasterRests, DriversRest, OthersRest
  <2>4. ComingUp' /\ GoingDown'
    BY <1>2, <2>1, <2>2 DEF IInv, ComingUp, GoingDown, Leaving, Left
  <2>5. QED
    BY <1>1, <1>2, <1>3, <1>4, <1>5, <1>6, <2>3, <2>4 DEF IInv
<1>8. CASE RequestChange
  <2>1. /\ step \in Transitions
        /\ requests'[at] = Append(requests[at], step)
        /\ \A n \in Nodes \ {at} : requests'[n] = requests[n]
    BY <1>1, <1>8 DEF RequestChange, Target, Transitions, TypeOK, NodesTypeOK
  <2>2. \A m \in Nodes \ {at} : \A s : Rest(m, s) => Rest(m, s)'
    BY <1>2, <2>1 DEF Rest
  <2>3. OthersRest'
    BY <1>1, <1>2, <2>2, NAssumption DEF IInv, OthersRest, DriversRest, Nodes, Drivers, Master
  <2>4. Core'
    <3>1. CASE at = Master
      BY <1>2, <2>1, <2>2, <3>1, NAssumption, NodesFacts
         DEF IInv, OthersRest, Core, DriversRest, UpSteps, DownSteps, Transitions, Nodes, Drivers, Master
    <3>2. CASE at # Master
      BY <1>1, <1>2, <2>1, <2>2, <3>2, NAssumption, NodesFacts
         DEF IInv, OthersRest, Core, MasterRests, UpSteps, DownSteps, Transitions, TypeOK, Nodes, Master
    <3>3. QED
      BY <3>1, <3>2
  <2>5. ComingUp'
    BY <1>2, <2>1, AppendFacts DEF IInv, ComingUp, Rest, Transitions
  <2>6. GoingDown'
    BY <1>2, <2>1, AppendFacts DEF IInv, GoingDown, Leaving, Left, Rest, Transitions
  <2>7. QED
    BY <1>1, <1>2, <1>3, <1>4, <1>5, <1>6, <2>3, <2>4, <2>5, <2>6 DEF IInv
<1>9. QED
  BY <1>7, <1>8

\* The nodes do nothing.
LEMMA NodesUnchanged ==
  ASSUME IInv, UNCHANGED <<nodeVars, alive>>
  PROVE  /\ \A n, s : Rest(n, s)' <=> Rest(n, s)
         /\ \A d \in Drivers : Shape(d)'
         /\ MasterShape' /\ Core' /\ alive'
<1>1. \A n, s : Rest(n, s)' <=> Rest(n, s)
  BY DEF nodeVars, Rest
<1>2. \A d \in Drivers : Shape(d)'
  BY DEF IInv, nodeVars, flags, Shape
<1>3. MasterShape' /\ alive'
  BY DEF IInv, nodeVars, flags, MasterShape
<1>4. QED
  BY <1>1, <1>2, <1>3 DEF IInv, Core, MasterRests, DriversRest

\* What is left to show once the manager has moved on to its next call.
LEMMA InvMoved ==
  ASSUME IInv, TypeOK', UNCHANGED <<nodeVars, alive>>, call' = NoCall, reply' = "none",
         \/ step' \in UpSteps /\ manager' = "inactive"
         \/ step' \in DownSteps /\ manager' = "active"
         \/ step' = "none",
         step' = "see_master" => at' # Master,
         OthersRest', Idle',
         step' \in {"see_master", "see_unconfigured", "configure"} => Rest(at', "unconfigured"),
         step' = "activate" => Rest(at', "inactive"),
         step' = "deactivate" => Rest(at', "active"),
         step' = "cleanup" => Leaving',
         step' \in {"cleanup", "see_cleaned"} => Left'
  PROVE  IInv'
<1>1. /\ \A n, s : Rest(n, s)' <=> Rest(n, s)
      /\ \A d \in Drivers : Shape(d)'
      /\ MasterShape' /\ Core' /\ alive'
  BY NodesUnchanged
<1>2. call'.kind = "none"
  BY DEF NoCall
<1>3. CallMatches'
  BY <1>2 DEF CallMatches, UpSteps, DownSteps
<1>4. \A n, s : Rest(n, s) => lifecycle'[n] = s /\ handler'[n] = "none" /\ requests'[n] = << >>
  BY DEF Rest, nodeVars
<1>5. ComingUp'
  BY <1>2, <1>4 DEF ComingUp, Rest
<1>6. GoingDown'
  BY <1>2, <1>4 DEF GoingDown, Leaving, Rest
<1>7. QED
  BY <1>1, <1>3, <1>5, <1>6 DEF IInv

LEMMA InvConclude ==
  ASSUME IInv, Receive \/ Timeout
  PROVE  IInv'
<1>1. TypeOK /\ TypeOK'
  BY TypeManager DEF ManagerStep, IInv
<1> DEFINE result == IF reply # "none" THEN reply ELSE "failure"
<1>2. Conclude(result)
  BY DEF Receive, Timeout
<1>3. step # "none"
  BY DEF Receive, Timeout, IInv, Idle, CallMatches
<1>4. /\ IF Good(result) THEN Proceed ELSE End("finalized")
      /\ call' = NoCall /\ reply' = "none"
      /\ UNCHANGED <<nodeVars, alive, activations>>
  BY <1>2 DEF Conclude
<1>5. \A n, s : Rest(n, s)' <=> Rest(n, s)
  BY <1>4, NodesUnchanged
<1>6. CASE ~Good(result)
  <2>1. step' = "none" /\ manager' = "finalized"
    BY <1>4, <1>6 DEF End
  <2>2. OthersRest' /\ Idle'
    BY <1>4, <2>1 DEF OthersRest, Idle, UpSteps, DownSteps, NoCall
  <2>3. QED
    BY <1>1, <1>4, <2>1, <2>2, InvMoved
<1>7. CASE Good(result) /\ step = "see_master"
  <2>1. step' = "see_unconfigured" /\ at' = at /\ manager' = manager
    BY <1>4, <1>7 DEF Proceed, GoTo
  <2>2. manager = "inactive" /\ Rest(at, "unconfigured")
    BY <1>7 DEF IInv, CallMatches, ComingUp, UpSteps
  <2>3. OthersRest' /\ Idle'
    BY <1>5, <1>7, <2>1 DEF IInv, OthersRest, Idle, UpSteps, DownSteps
  <2>4. QED
    BY <1>1, <1>4, <2>1, <2>2, <2>3, InvMoved DEF UpSteps
<1>8. CASE Good(result) /\ step = "see_unconfigured"
  <2>1. step' = "configure" /\ at' = at /\ manager' = manager
    BY <1>4, <1>8 DEF Proceed, GoTo
  <2>2. manager = "inactive" /\ Rest(at, "unconfigured")
    BY <1>8 DEF IInv, CallMatches, ComingUp, UpSteps
  <2>3. OthersRest' /\ Idle'
    BY <1>5, <1>8, <2>1 DEF IInv, OthersRest, Idle, UpSteps, DownSteps
  <2>4. QED
    BY <1>1, <1>4, <2>1, <2>2, <2>3, InvMoved DEF UpSteps
<1>9. CASE Good(result) /\ step = "configure"
  <2>1. step' = "activate" /\ at' = at /\ manager' = manager
    BY <1>4, <1>9 DEF Proceed, GoTo
  <2>2. manager = "inactive" /\ Rest(at, "inactive")
    BY <1>9 DEF IInv, CallMatches, ComingUp, UpSteps, Good
  <2>3. OthersRest' /\ Idle'
    BY <1>5, <1>9, <2>1 DEF IInv, OthersRest, Idle, UpSteps, DownSteps
  <2>4. QED
    BY <1>1, <1>4, <2>1, <2>2, <2>3, InvMoved DEF UpSteps
<1>10. CASE Good(result) /\ step = "activate"
  <2>1. manager = "inactive" /\ Rest(at, "active")
    BY <1>10 DEF IInv, CallMatches, ComingUp, UpSteps, Good
  <2>2. \A n \in Nodes : /\ n < at => Rest(n, "active")
                         /\ n > at => Rest(n, "unconfigured")
    BY <1>10 DEF IInv, OthersRest, UpSteps
  <2>3. at \in 0 .. N
    BY <1>1 DEF TypeOK, Nodes
  <2>4. CASE at = N
    <3>1. step' = "none" /\ manager' = "active"
      BY <1>4, <1>10, <2>4 DEF Proceed, End
    <3>2. \A n \in Nodes : Rest(n, "active")
      BY <2>1, <2>2, <2>4, NAssumption DEF Nodes
    <3>3. OthersRest' /\ Idle'
      BY <1>4, <1>5, <3>1, <3>2 DEF OthersRest, Idle, UpSteps, DownSteps, NoCall
    <3>4. QED
      BY <1>1, <1>4, <3>1, <3>3, InvMoved
  <2>5. CASE at # N
    <3>1. step' = "see_master" /\ at' = at + 1 /\ manager' = manager
      BY <1>4, <1>10, <2>5 DEF Proceed, GoTo
    <3>2. at + 1 \in Nodes /\ at + 1 > at /\ at + 1 # Master
      BY <2>3, <2>5, NAssumption DEF Nodes, Master
    <3>3. Rest(at', "unconfigured")
      BY <2>2, <3>1, <3>2
    <3>4. \A n \in Nodes : /\ n < at + 1 => Rest(n, "active")
                           /\ n > at + 1 => Rest(n, "unconfigured")
      BY <2>1, <2>2, <2>3, NAssumption DEF Nodes
    <3>5. OthersRest' /\ Idle'
      BY <1>5, <3>1, <3>4 DEF OthersRest, Idle, UpSteps, DownSteps
    <3>6. QED
      BY <1>1, <1>4, <2>1, <3>1, <3>2, <3>3, <3>5, InvMoved DEF UpSteps
  <2>6. QED
    BY <2>4, <2>5
<1>11. CASE Good(result) /\ step = "deactivate"
  <2>1. step' = "cleanup" /\ at' = at /\ manager' = manager
    BY <1>4, <1>11 DEF Proceed, GoTo
  <2>2. manager = "active" /\ Leaving
    BY <1>11 DEF IInv, CallMatches, GoingDown, DownSteps
  <2>3. Leaving' /\ Left'
    BY <1>4, <2>1, <2>2 DEF Leaving, Left, nodeVars
  <2>4. OthersRest' /\ Idle'
    BY <1>5, <1>11, <2>1 DEF IInv, OthersRest, DriversRest, Idle, UpSteps, DownSteps
  <2>5. QED
    BY <1>1, <1>4, <2>1, <2>2, <2>3, <2>4, InvMoved DEF DownSteps
<1>12. CASE Good(result) /\ step = "cleanup"
  <2>1. step' = "see_cleaned" /\ at' = at /\ manager' = manager
    BY <1>4, <1>12 DEF Proceed, GoTo
  <2>2. manager = "active" /\ Left
    BY <1>12 DEF IInv, CallMatches, GoingDown, DownSteps
  <2>3. Left'
    BY <1>4, <2>1, <2>2 DEF Left, nodeVars
  <2>4. OthersRest' /\ Idle'
    BY <1>5, <1>12, <2>1 DEF IInv, OthersRest, DriversRest, Idle, UpSteps, DownSteps
  <2>5. QED
    BY <1>1, <1>4, <2>1, <2>2, <2>3, <2>4, InvMoved DEF DownSteps
<1>13. CASE Good(result) /\ step = "see_cleaned"
  <2>1. manager = "active" /\ Rest(at, "unconfigured")
    BY <1>13 DEF IInv, CallMatches, GoingDown, DownSteps, Good
  <2>2. at \in 0 .. N
    BY <1>1 DEF TypeOK, Nodes
  <2>3. CASE at = Master
    <3>1. step' = "none" /\ manager' = "inactive"
      BY <1>4, <1>13, <2>3 DEF Proceed, End
    <3>2. DriversRest
      BY <1>13, <2>3 DEF IInv, OthersRest, DownSteps
    <3>3. \A n \in Nodes : Rest(n, "unconfigured")
      BY <2>1, <2>3, <3>2, NAssumption DEF DriversRest, Nodes, Drivers, Master
    <3>4. OthersRest' /\ Idle'
      BY <1>4, <1>5, <3>1, <3>3 DEF OthersRest, Idle, UpSteps, DownSteps, NoCall
    <3>5. QED
      BY <1>1, <1>4, <3>1, <3>4, InvMoved
  <2>4. CASE at # Master
    <3>1. step' = "deactivate" /\ at' = NextDown(at) /\ manager' = manager
      BY <1>4, <1>13, <2>4 DEF Proceed, GoTo
    <3>2. \A n \in Nodes : /\ n > at \/ n = Master => Rest(n, "active")
                           /\ n < at /\ n # Master => Rest(n, "unconfigured")
      BY <1>13, <2>4 DEF IInv, OthersRest, DownSteps
    <3>3. CASE at < N
      <4>1. at' = at + 1 /\ at + 1 \in Nodes /\ at + 1 # Master
        BY <2>2, <3>1, <3>3, NAssumption DEF NextDown, Nodes, Master
      <4>2. Rest(at', "active")
        BY <2>2, <3>2, <4>1
      <4>3. \A n \in Nodes : /\ n > at + 1 \/ n = Master => Rest(n, "active")
                             /\ n < at + 1 /\ n # Master => Rest(n, "unconfigured")
        BY <2>1, <2>2, <3>2, NAssumption DEF Nodes
      <4>4. OthersRest' /\ Idle'
        BY <1>5, <3>1, <4>1, <4>3 DEF OthersRest, Idle, UpSteps, DownSteps
      <4>5. QED
        BY <1>1, <1>4, <2>1, <3>1, <4>2, <4>4, InvMoved DEF DownSteps
    <3>4. CASE at >= N
      <4>1. at' = Master /\ at = N
        BY <2>2, <3>1, <3>4, NAssumption DEF NextDown
      <4>2. Rest(at', "active")
        BY <3>2, <4>1, NodesFacts
      <4>3. DriversRest
        BY <2>1, <3>2, <4>1, NAssumption DEF DriversRest, Nodes, Drivers, Master
      <4>4. OthersRest' /\ Idle'
        BY <1>5, <3>1, <4>1, <4>3 DEF OthersRest, DriversRest, Idle, UpSteps, DownSteps
      <4>5. QED
        BY <1>1, <1>4, <2>1, <3>1, <4>2, <4>4, InvMoved DEF DownSteps
    <3>5. QED
      BY <2>2, <3>3, <3>4, NAssumption
  <2>5. QED
    BY <2>3, <2>4
<1>14. QED
  BY <1>1, <1>3, <1>6, <1>7, <1>8, <1>9, <1>10, <1>11, <1>12, <1>13
     DEF TypeOK, UpSteps, DownSteps

LEMMA InvUser ==
  ASSUME IInv, UserStep
  PROVE  IInv'
<1>1. TypeOK /\ TypeOK'
  BY TypeManager DEF IInv
<1>2. UNCHANGED <<nodeVars, alive>> /\ UNCHANGED <<call, reply>>
  BY DEF UserStep, ManagerConfigure, ManagerCleanup, ManagerShutdown, BringUpAll, BringDownAll
<1>3. step = "none"
  BY DEF UserStep, ManagerConfigure, ManagerCleanup, ManagerShutdown, BringUpAll, BringDownAll,
         IInv, CallMatches, TypeOK, UpSteps, DownSteps
<1>4. call.kind = "none" /\ reply = "none"
  BY <1>3 DEF IInv, Idle, CallMatches
<1>5. /\ manager = "active" => \A n \in Nodes : Rest(n, "active")
      /\ manager \in {"unconfigured", "inactive"} => \A n \in Nodes : Rest(n, "unconfigured")
  BY <1>3 DEF IInv, Idle
<1>6. /\ \A n, s : Rest(n, s)' <=> Rest(n, s)
      /\ \A d \in Drivers : Shape(d)'
      /\ MasterShape' /\ Core' /\ alive'
  BY <1>2, NodesUnchanged
<1>7. call'.kind = "none" /\ reply' = "none"
  BY <1>2, <1>4 DEF NoCall
<1>8. CASE step' = "none"
  <2>1. Idle'
    <3>1. \/ manager = "unconfigured" /\ manager' = "inactive"
          \/ manager = "inactive" /\ manager' = "unconfigured"
          \/ manager' = "finalized"
      BY <1>8 DEF UserStep, ManagerConfigure, ManagerCleanup, ManagerShutdown, BringUpAll,
                  BringDownAll
    <3>2. QED
      BY <1>5, <1>6, <1>7, <3>1 DEF Idle
  <2>2. CallMatches' /\ OthersRest' /\ ComingUp' /\ GoingDown'
    BY <1>7, <1>8 DEF CallMatches, OthersRest, ComingUp, GoingDown, UpSteps, DownSteps, Transitions
  <2>3. QED
    BY <1>1, <1>6, <2>1, <2>2 DEF IInv
<1>9. CASE BringUpAll
  <2>1. step' = "see_unconfigured" /\ at' = Master /\ manager' = "inactive"
    BY <1>9 DEF BringUpAll
  <2>2. \A n \in Nodes : Rest(n, "unconfigured")'
    BY <1>5, <1>6, <1>9 DEF BringUpAll
  <2>3. \A n \in Nodes : ~(n < Master)
    BY NAssumption DEF Nodes, Master
  <2>4. OthersRest'
    BY <2>1, <2>2, <2>3 DEF OthersRest, UpSteps, DownSteps
  <2>5. CallMatches' /\ ComingUp' /\ GoingDown' /\ Idle'
    BY <1>7, <2>1, <2>2, NodesFacts
       DEF CallMatches, ComingUp, GoingDown, Idle, UpSteps, DownSteps, Transitions
  <2>6. QED
    BY <1>1, <1>6, <2>4, <2>5 DEF IInv
<1>10. CASE BringDownAll
  <2>1. step' = "deactivate" /\ at' = NextDown(0) /\ manager' = "active"
    BY <1>10 DEF BringDownAll
  <2>2. \A n \in Nodes : Rest(n, "active")'
    BY <1>5, <1>6, <1>10 DEF BringDownAll
  <2>3. /\ at' \in Nodes
        /\ at' # Master => at' = 1
        /\ at' = Master => Drivers = {}
    BY <2>1, NAssumption DEF NextDown, Nodes, Drivers, Master
  <2>4. at' # Master => \A n \in Nodes : ~(n < at' /\ n # Master)
    BY <2>3, NAssumption DEF Nodes, Master
  <2>5. OthersRest'
    BY <2>1, <2>2, <2>3, <2>4 DEF OthersRest, DriversRest, UpSteps, DownSteps
  <2>6. Leaving' /\ Rest(at, "active")'
    <3>1. Rest(at, "active")'
      BY <2>2, <2>3
    <3>2. QED
      BY <3>1 DEF Leaving, Rest
  <2>7. CallMatches' /\ ComingUp' /\ GoingDown' /\ Idle'
    BY <1>7, <2>1, <2>6
       DEF CallMatches, ComingUp, GoingDown, Idle, UpSteps, DownSteps, Transitions
  <2>8. QED
    BY <1>1, <1>6, <2>5, <2>7 DEF IInv
<1>11. QED
  BY <1>3, <1>8, <1>9, <1>10
     DEF UserStep, ManagerConfigure, ManagerCleanup, ManagerShutdown

LEMMA InvNext ==
  ASSUME IInv, [Next]_vars
  PROVE  IInv'
<1>1. CASE UserStep
  BY <1>1, InvUser
<1>2. CASE ManagerStep
  BY <1>2, InvCall, InvConclude DEF ManagerStep
<1>3. CASE NodesStep /\ UNCHANGED managerVars
  <2>1. CASE \E d \in Drivers : DriverStep(d)
    BY <1>3, <2>1, InvDriver
  <2>2. CASE MasterStep
    BY <1>3, <2>2, InvMaster
  <2>3. CASE \E n \in Nodes : ServiceStep(n)
    BY <1>3, <2>3, InvService
  <2>4. QED
    BY <1>3, <2>1, <2>2, <2>3 DEF NodesStep
<1>4. CASE UNCHANGED vars
  <2>1. UNCHANGED <<nodeVars, alive>> /\ UNCHANGED <<call, reply, managerVars>>
    BY <1>4 DEF vars
  <2>2. /\ \A n, s : Rest(n, s)' <=> Rest(n, s)
        /\ \A d \in Drivers : Shape(d)'
        /\ MasterShape' /\ Core' /\ alive'
    BY <2>1, NodesUnchanged
  <2>3. TypeOK'
    BY <1>4 DEF IInv, TypeOK, NodesTypeOK, vars, nodeVars, flags, managerVars
  <2>4. CallMatches' /\ OthersRest' /\ ComingUp' /\ GoingDown' /\ Idle'
    <3>1. CallMatches' /\ Idle'
      BY <2>1, <2>2 DEF IInv, CallMatches, Idle, Target, managerVars
    <3>2. OthersRest'
      BY <2>1, <2>2 DEF IInv, OthersRest, DriversRest, managerVars
    <3>3. ComingUp' /\ GoingDown'
      BY <2>1, <2>2 DEF IInv, ComingUp, GoingDown, Leaving, Left, managerVars, nodeVars
    <3>4. QED
      BY <3>1, <3>2, <3>3
  <2>5. QED
    BY <2>2, <2>3, <2>4 DEF IInv
<1>5. QED
  BY <1>1, <1>2, <1>3, <1>4 DEF Next

-----------------------------------------------------------------------------
(***************************************************************************)
(* The theorems.                                                           *)
(***************************************************************************)

\* The inductive invariant: where every node may be, what it may be waiting for and what
\* may be queued for it, at each step of bring_up_all() and bring_down_all().
THEOREM InvariantHolds == Spec => []IInv
<1>1. Init => IInv
  BY InvInit
<1>2. IInv /\ [Next]_vars => IInv'
  BY InvNext
<1>3. QED
  BY <1>1, <1>2, PTL DEF Spec

\* The state of the nodes and of the manager keeps its type; in particular a driver's
\* on_configure calls demand_set_master at most Attempts times.
THEOREM TypeCorrect == Spec => []TypeOK
<1>1. IInv => TypeOK
  BY DEF IInv
<1>2. QED
  BY <1>1, InvariantHolds, PTL

LEMMA HoldersNeedMaster == IInv => MasterOutlivesDrivers
<1>1. SUFFICES ASSUME IInv, NEW d \in Drivers, Holds(d)
               PROVE  activated[Master]
  BY DEF MasterOutlivesDrivers
<1>2. CASE MasterRests
  BY <1>1, <1>2 DEF IInv, MasterRests, Rest, MasterShape
<1>3. CASE DriversRest
  BY <1>1, <1>3 DEF IInv, DriversRest, Rest, Shape, Holds
<1>4. QED
  BY <1>1, <1>2, <1>3 DEF IInv, Core

\* The master is up before any driver takes hold of it and until the last has let go, for
\* any number of drivers and whatever times out (add_to_master, remove_from_master).
THEOREM MasterOutlives == Spec => []MasterOutlivesDrivers
BY HoldersNeedMaster, InvariantHolds, PTL

\* No call of init_driver, however late the container serves it, finds the master gone or
\* the driver in a state in which set_master() throws.
THEOREM ContainerSafe == Spec => []ContainerSurvives
<1>1. IInv => ContainerSurvives
  BY DEF IInv, ContainerSurvives
<1>2. QED
  BY <1>1, InvariantHolds, PTL

\* The manager is active only while every device is, and inactive or unconfigured only
\* while none is configured (on_activate and on_deactivate of lifecycle_manager.cpp).
THEOREM ManagerTruthful == Spec => []ManagerTellsTheTruth
<1>1. IInv => ManagerTellsTheTruth
  <2>1. SUFFICES ASSUME IInv, step = "none" PROVE ManagerTellsTheTruth
    BY DEF ManagerTellsTheTruth
  <2>2. CASE manager = "active"
    <3>1. \A n \in Nodes : Rest(n, "active")
      BY <2>1, <2>2 DEF IInv, Idle
    <3>2. activated[Master] /\ \A d \in Drivers : activated[d]
      BY <2>1, <3>1, NodesFacts DEF IInv, MasterShape, Shape, Rest
    <3>3. \A n \in Nodes : lifecycle[n] = "active" /\ activated[n]
      BY <3>1, <3>2, NAssumption DEF Rest, Nodes, Drivers, Master
    <3>4. QED
      BY <2>2, <3>3 DEF ManagerTellsTheTruth
  <2>3. CASE manager \in {"unconfigured", "inactive"}
    <3>1. \A n \in Nodes : Rest(n, "unconfigured")
      BY <2>1, <2>3 DEF IInv, Idle
    <3>2. /\ ~activated[Master] /\ ~master_set[Master]
          /\ \A d \in Drivers : ~activated[d] /\ ~master_set[d]
      BY <2>1, <3>1, NodesFacts DEF IInv, MasterShape, Shape, Rest
    <3>3. \A n \in Nodes : lifecycle[n] = "unconfigured" /\ ~activated[n] /\ ~master_set[n]
      BY <3>1, <3>2, NAssumption DEF Rest, Nodes, Drivers, Master
    <3>4. QED
      BY <2>3, <3>3 DEF ManagerTellsTheTruth
  <2>4. QED
    BY <2>2, <2>3 DEF ManagerTellsTheTruth
<1>2. QED
  BY <1>1, InvariantHolds, PTL

\* Only the answer of the container takes a driver from unconfigured to inactive.
LEMMA LeavesUnconfigured ==
  ASSUME TypeOK, [Next]_vars, NEW d \in Drivers, Shape(d),
         lifecycle[d] = "unconfigured", lifecycle'[d] = "inactive"
  PROVE  handler[d] = "demand"
<1> USE NodesFacts DEF TypeOK, NodesTypeOK
<1>1. ASSUME NEW e \in Drivers, DriverStep(e) PROVE handler[d] = "demand"
  <2>1. CASE e # d
    BY <1>1, <2>1, DriverFrame DEF SameDriver, SameNode
  <2>2. CASE e = d
    <3> USE <2>2 DEF Take, Finish, Throw, Shape
    <3>1. CASE Configure(d)
      BY <3>1 DEF Configure
    <3>2. CASE DemandTimeout(d) \/ SetMaster(d)
      BY <3>2 DEF DemandTimeout, SetMaster
    <3>3. CASE Activate(d) \/ Deactivate(d) \/ Cleanup(d)
      BY <3>3 DEF Activate, Deactivate, Cleanup, Source
    <3>4. CASE Booted(d) \/ BootFails(d) \/ TaskTimeout(d)
      BY <3>4 DEF Booted, BootFails, TaskTimeout
    <3>5. CASE RunTask(d)
      BY <3>5 DEF RunTask
    <3>6. QED
      BY <1>1, <3>1, <3>2, <3>3, <3>4, <3>5 DEF DriverStep
  <2>3. QED
    BY <2>1, <2>2
<1>2. ~MasterStep
  BY DEF MasterStep, MasterConfigure, MasterActivate, MasterDeactivate, StopLoop, MasterCleanup,
         Finish, Throw
<1>3. lifecycle' # lifecycle
  OBVIOUS
<1>4. ~UserStep /\ ~ManagerStep /\ ~UNCHANGED vars
  BY <1>3 DEF UserStep, ManagerConfigure, ManagerCleanup, ManagerShutdown, BringUpAll,
              BringDownAll, ManagerStep, AskState, RequestChange, Receive, Timeout, Conclude,
              vars, nodeVars
<1>5. \A n \in Nodes : ~ServiceStep(n)
  BY <1>3 DEF ServiceStep, Reject, AnswerState, nodeVars
<1>6. QED
  BY <1>1, <1>2, <1>4, <1>5 DEF Next, NodesStep

\* A request to configure is queued for driver d, or its callback is at work on it.
Configuring(d) == handler[d] = "demand" \/ requests[d] = Configuration

\* What StartUpSequence needs on top of IInv, also after the manager has given up: the
\* requests left behind go on to be served.
InOrder ==
  /\ \A n \in Nodes : requests[n] \in {<< >>, Configuration, Activation, Deactivation,
                                       OnlyCleanup, FullDeactivation}
  /\ \A d \in Drivers : Configuring(d) => \A n \in Nodes : n < d => Rest(n, "active")

LEMMA QueueKinds ==
  /\ Configuration # Activation /\ Configuration # Deactivation
  /\ Configuration # OnlyCleanup /\ Configuration # FullDeactivation
BY QueueFacts

LEMMA InOrderNode ==
  ASSUME IInv, InOrder, NEW m \in Nodes,
         \/ m \in Drivers /\ DriverStep(m)
         \/ m = Master /\ MasterStep
         \/ ServiceStep(m)
  PROVE  InOrder'
<1>1. TypeOK
  BY DEF IInv
<1>2. CASE AnswerState(m)
  BY <1>2 DEF AnswerState, nodeVars, InOrder, Configuring, Rest
<1>3. CASE ~AnswerState(m)
  <2>1. NodeStep(m) \/ Reject(m)
    BY <1>1, <1>3, DriverKinds, MasterKinds DEF ServiceStep, IInv
  <2>2. /\ \A n \in Nodes \ {m} : requests'[n] = requests[n] /\ handler'[n] = handler[n]
                                 /\ lifecycle'[n] = lifecycle[n]
        /\ \/ requests'[m] = requests[m]
           \/ requests[m] # << >> /\ requests'[m] = Tail(requests[m])
        /\ handler'[m] = "demand" /\ handler[m] # "demand" =>
             requests[m] # << >> /\ Head(requests[m]) = "configure"
    <3>1. CASE NodeStep(m)
      BY <1>1, <3>1 DEF NodeStep, Begins, Completes, Ends, Goes, Take, Finish, TypeOK, NodesTypeOK
    <3>2. CASE Reject(m)
      BY <1>1, <3>2 DEF Reject, TypeOK, NodesTypeOK
    <3>3. QED
      BY <2>1, <3>1, <3>2
  <2>3. ~Rest(m, "active")
    BY <1>1, <1>3, DriverBusy, MasterBusy DEF ServiceStep, Reject, Rest, IInv, States
  <2>4. requests[m] \in {<< >>, Configuration, Activation, Deactivation,
                         OnlyCleanup, FullDeactivation}
    BY DEF InOrder
  <2>5. requests'[m] \in {<< >>, Configuration, Activation, Deactivation,
                          OnlyCleanup, FullDeactivation}
    BY <2>2, <2>4, QueueFacts
  <2>6. Configuring(m)' => Configuring(m)
    BY <2>2, <2>4, QueueFacts, QueueKinds DEF Configuring
  <2>7. \A n \in Nodes : Configuring(n)' => Configuring(n)
    BY <2>2, <2>6 DEF Configuring
  <2>8. \A n \in Nodes : Rest(n, "active") => Rest(n, "active")'
    BY <2>2, <2>3 DEF Rest
  <2>9. QED
    BY <2>2, <2>5, <2>7, <2>8, NodesFacts DEF InOrder
<1>4. QED
  BY <1>2, <1>3

LEMMA InOrderNodes ==
  ASSUME IInv, InOrder, NodesStep
  PROVE  InOrder'
<1>1. CASE \E d \in Drivers : DriverStep(d)
  BY <1>1, InOrderNode, NodesFacts
<1>2. CASE MasterStep
  BY <1>2, InOrderNode, NodesFacts
<1>3. CASE \E n \in Nodes : ServiceStep(n)
  BY <1>3, InOrderNode
<1>4. QED
  BY <1>1, <1>2, <1>3 DEF NodesStep

LEMMA InOrderNext ==
  ASSUME IInv, IInv', InOrder, [Next]_vars
  PROVE  InOrder'
<1>1. CASE NodesStep
  BY <1>1, InOrderNodes
<1>2. CASE UNCHANGED nodeVars
  BY <1>2 DEF nodeVars, InOrder, Configuring, Rest
<1>3. CASE RequestChange
  <2>1. /\ step' = step /\ at' = at /\ reply' = reply /\ step \in Transitions
        /\ call.kind = "none" /\ call'.kind = "change_state"
        /\ handler' = handler /\ lifecycle' = lifecycle
        /\ \A n \in Nodes \ {at} : requests'[n] = requests[n]
    BY <1>3 DEF RequestChange, Target, Transitions, IInv, TypeOK, NodesTypeOK, managerVars
  <2>2. reply' = "none"
    BY <2>1 DEF IInv, CallMatches
  <2>3. at \in Nodes
    BY DEF IInv, TypeOK
  <2>4. requests'[at] \in {<< >>, Configuration, Activation, Deactivation,
                           OnlyCleanup, FullDeactivation}
    BY <2>1, <2>2 DEF IInv, ComingUp, GoingDown, Leaving, Left, Transitions
  <2>5. \A n \in Nodes : requests'[n] \in {<< >>, Configuration, Activation, Deactivation,
                                           OnlyCleanup, FullDeactivation}
    BY <2>1, <2>3, <2>4 DEF InOrder
  <2>6. ASSUME NEW d \in Drivers, Configuring(d)', NEW n \in Nodes, n < d
        PROVE  Rest(n, "active")'
    <3>1. \A s : ~Rest(d, s)'
      BY <2>6, QueueFacts DEF Configuring, Rest
    <3>2. CASE step \in UpSteps
      <4>1. \A k \in Nodes : /\ k < at => Rest(k, "active")'
                             /\ k > at => Rest(k, "unconfigured")'
        BY <2>1, <3>2 DEF IInv, OthersRest
      <4>2. d \in Nodes /\ ~(d < at) /\ ~(d > at)
        BY <3>1, <4>1, NodesFacts DEF Rest
      <4>3. d = at
        BY <2>3, <4>2, NAssumption DEF Nodes
      <4>4. QED
        BY <2>6, <4>1, <4>3 DEF Rest
    <3>3. CASE step \in DownSteps /\ at = Master
      BY <2>1, <2>6, <3>1, <3>3 DEF IInv, OthersRest, DriversRest
    <3>4. CASE step \in DownSteps /\ at # Master
      <4>1. \A k \in Nodes : /\ k > at \/ k = Master => Rest(k, "active")'
                             /\ k < at /\ k # Master => Rest(k, "unconfigured")'
        BY <2>1, <3>4 DEF IInv, OthersRest
      <4>2. d = at
        <5>1. d \in Nodes /\ d # Master /\ ~(d < at) /\ ~(d > at)
          BY <3>1, <4>1, NodesFacts DEF Rest
        <5>2. QED
          BY <2>3, <5>1, NAssumption DEF Nodes
      <4>3. /\ handler'[at] # "demand"
            /\ requests'[at] \in {<< >>, Deactivation, OnlyCleanup, FullDeactivation}
        BY <2>1, <3>4 DEF IInv, GoingDown, Leaving, Left, DownSteps, Transitions
      <4>4. QED
        BY <2>6, <4>2, <4>3, QueueFacts, QueueKinds DEF Configuring
    <3>5. QED
      BY <2>1, <3>2, <3>3, <3>4 DEF UpSteps, DownSteps, Transitions
  <2>7. QED
    BY <2>5, <2>6 DEF InOrder
<1>4. QED
  BY <1>1, <1>2, <1>3
     DEF Next, UserStep, ManagerConfigure, ManagerCleanup, ManagerShutdown, BringUpAll,
         BringDownAll, ManagerStep, AskState, Receive, Timeout, Conclude, vars

\* Drivers are configured one after another in the order of their names, the master and
\* those before being active (bring_up_all).
THEOREM StartUp == Spec => StartUpSequence
<1>1. Init => InOrder
  BY NodesFacts, QueueFacts DEF Init, NodesInit, InOrder, Configuring, Rest
<1>2. IInv /\ IInv' /\ InOrder /\ [Next]_vars => InOrder'
  BY InOrderNext
<1>3. ASSUME IInv, InOrder, [Next]_vars, NEW d \in Drivers,
             lifecycle[d] = "unconfigured", lifecycle'[d] = "inactive",
             NEW n \in 0 .. d - 1
      PROVE  lifecycle[n] = "active"
  <2>1. Configuring(d)
    BY <1>3, LeavesUnconfigured DEF IInv, Configuring
  <2>2. n \in Nodes /\ n < d
    BY <1>3, NAssumption DEF Nodes, Drivers
  <2>3. Rest(n, "active")
    BY <1>3, <2>1, <2>2 DEF InOrder
  <2>4. QED
    BY <2>3 DEF Rest
<1>4. IInv /\ InOrder /\ [Next]_vars =>
        [\A d \in Drivers :
           lifecycle[d] = "unconfigured" /\ lifecycle'[d] = "inactive" =>
             \A n \in 0 .. d - 1 : lifecycle[n] = "active"]_vars
  BY <1>3
<1>5. QED
  BY <1>1, <1>2, <1>4, InvariantHolds, PTL DEF Spec, StartUpSequence

holders == {d \in Drivers : Holds(d)}

\* The flags of drivers are left alone by all but their own steps.
LEMMA HoldersFrame ==
  ASSUME TypeOK, [Next]_vars, ~\E d \in Drivers : DriverStep(d)
  PROVE  holders' = holders
<1>1. UNCHANGED attached /\ \A d \in Drivers : /\ activated'[d] = activated[d]
                                               /\ master_set'[d] = master_set[d]
  <2> USE NodesFacts DEF TypeOK, NodesTypeOK, flags, nodeVars
  <2>1. CASE MasterStep
    BY <2>1 DEF MasterStep, MasterConfigure, MasterActivate, MasterDeactivate, StopLoop,
                MasterCleanup
  <2>2. ASSUME NEW n \in Nodes, ServiceStep(n) PROVE UNCHANGED flags
    BY <2>2 DEF ServiceStep, Reject, AnswerState
  <2>3. CASE UserStep
    BY <2>3 DEF UserStep, ManagerConfigure, ManagerCleanup, ManagerShutdown, BringUpAll,
                BringDownAll
  <2>4. CASE ManagerStep \/ UNCHANGED vars
    BY <2>4 DEF ManagerStep, AskState, RequestChange, Receive, Timeout, Conclude, vars
  <2>5. QED
    BY <2>4, <2>3, <2>2, <2>1 DEF Next, NodesStep
<1>2. \A d \in Drivers : Holds(d)' <=> Holds(d)
  BY <1>1 DEF Holds
<1>3. QED
  BY <1>2 DEF holders

\* The loop is started and ended by the master only, while no driver holds it.
LEMMA MasterUpDown ==
  ASSUME IInv, IInv', [Next]_vars, activated'[Master] # activated[Master]
  PROVE  holders = {} /\ holders' = {} /\ activated[Master] \in BOOLEAN
                      /\ activated'[Master] \in BOOLEAN
<1>1. /\ activated[Master] \in BOOLEAN /\ activated'[Master] \in BOOLEAN
      /\ TypeOK
  BY NodesFacts DEF IInv, TypeOK, NodesTypeOK
<1>2. ~\E d \in Drivers : DriverStep(d)
  BY <1>1, DriverFrame DEF SameNode
<1>3. holders' = holders
  BY <1>1, <1>2, HoldersFrame
<1>4. ~activated[Master] \/ ~activated'[Master]
  BY <1>1
<1>5. ~activated[Master] => holders = {}
  BY HoldersNeedMaster DEF MasterOutlivesDrivers, holders
<1>6. ~activated'[Master] => holders' = {}
  <2>1. IInv' => MasterOutlivesDrivers'
    BY HoldersNeedMaster, PTL
  <2>2. QED
    BY <2>1 DEF MasterOutlivesDrivers, holders
<1>7. QED
  BY <1>1, <1>3, <1>4, <1>5, <1>6

\* The managed container keeps the promise of MasterUse: every step of the nodes, the
\* manager and the user starts or stops the master while no driver holds it, or lets one
\* driver take hold of it or let go while it runs, or is none of its concern.
THEOREM UseImplemented == Spec => UseSpec
<1>1. Init => Use!Init
  BY NodesFacts DEF Init, NodesInit, Use!Init, Holds
<1>2. ASSUME IInv, IInv', [Next]_vars
      PROVE  [Use!Next]_(Use!vars)
  <2>1. TypeOK /\ activated[Master] \in BOOLEAN /\ activated'[Master] \in BOOLEAN
    BY <1>2, NodesFacts DEF IInv, TypeOK, NodesTypeOK
  <2>2. CASE activated'[Master] # activated[Master]
    <3>1. holders = {} /\ holders' = {}
      BY <1>2, <2>2, MasterUpDown
    <3>2. CASE activated[Master]
      BY <2>1, <2>2, <3>1, <3>2 DEF Use!Next, Use!Stop, holders
    <3>3. CASE ~activated[Master]
      BY <2>1, <2>2, <3>1, <3>3 DEF Use!Next, Use!Start, holders
    <3>4. QED
      BY <3>2, <3>3
  <2>3. CASE activated'[Master] = activated[Master] /\ ~\E d \in Drivers : DriverStep(d)
    <3>1. holders' = holders
      BY <1>2, <2>1, <2>3, HoldersFrame
    <3>2. QED
      BY <2>3, <3>1 DEF Use!vars, holders
  <2>4. ASSUME activated'[Master] = activated[Master], NEW d \in Drivers, DriverStep(d)
        PROVE  [Use!Next]_(Use!vars)
    <3>1. \A e \in Drivers \ {d} : Holds(e)' <=> Holds(e)
      BY <2>1, <2>4, DriverFrame DEF SameDriver, SameNode, Holds
    <3>2. CASE ~activated[Master]
      <4>1. IInv' => MasterOutlivesDrivers'
        BY HoldersNeedMaster, PTL
      <4>2. holders = {} /\ holders' = {}
        BY <1>2, <2>4, <3>2, <4>1, HoldersNeedMaster DEF MasterOutlivesDrivers, holders
      <4>3. QED
        BY <2>4, <4>2 DEF Use!vars, holders
    <3>3. CASE activated[Master] /\ Holds(d)'
      <4>1. holders' = holders \cup {d}
        BY <2>4, <3>1, <3>3 DEF holders
      <4>2. QED
        BY <2>4, <3>3, <4>1 DEF Use!Next, Use!Hold, holders
    <3>4. CASE activated[Master] /\ ~Holds(d)'
      <4>1. holders' = holders \ {d}
        BY <2>4, <3>1, <3>4 DEF holders
      <4>2. QED
        BY <2>4, <3>4, <4>1 DEF Use!Next, Use!Release, holders
    <3>5. QED
      BY <3>2, <3>3, <3>4
  <2>5. QED
    BY <2>2, <2>3, <2>4
<1>3. QED
  BY <1>1, <1>2, InvariantHolds, PTL DEF Spec, UseSpec, Use!Spec

=============================================================================
