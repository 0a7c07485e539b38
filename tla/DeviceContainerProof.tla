------------------------ MODULE DeviceContainerProof ------------------------
(***************************************************************************)
(* Theorems about DeviceContainer, for every set of bus configurations,    *)
(* with any number of devices, and every number of attempts.               *)
(***************************************************************************)
EXTENDS DeviceContainer, SequenceTheorems, WellFoundedInduction, TLAPS

-----------------------------------------------------------------------------
(***************************************************************************)
(* The inductive invariant.                                                *)
(***************************************************************************)

\* A driver has been loaded, and asks for the master.
Loading == init \in {"demand", "waiting", "activate"}

\* The drivers before the one init() is at are registered, each under its own node id,
\* and no others.
RegisteredFits ==
  /\ \A n \in DOMAIN registered : registered[n] \in Drivers
  /\ \A i \in Drivers :
       (i < at \/ (i = at /\ Loading)) <=>
         (conf[i].id \in DOMAIN registered /\ registered[conf[i].id] = i)

\* Before the drivers there is the master, after them the manager.
StagesFit ==
  /\ init \in {"configure", "master"} => at = 1 /\ can_master = 0
  /\ init \notin {"configure", "master"} /\ ended = "no" => can_master # 0
  /\ manager => init = "done" /\ Lifecycle
  /\ init = "done" => at = Len(conf) + 1 /\ (Lifecycle => manager)

\* Only a plain driver asks for the master, which is configured and not active yet.
LoadingFits ==
  /\ Loading => at \in Drivers /\ ~Lifecycle /\ at \in configured /\ at \notin activated
  /\ init = "waiting" => main # "spin"

\* The requests that wait for the executor are those of the driver that is asking; the
\* last one is the one it waits for.  Once that is answered, nothing is left.
DemandsFit ==
  /\ init \notin {"demand", "waiting"} => demands = << >>
  /\ init = "demand" =>
       /\ answered => demands = << >>
       /\ \A k \in 1 .. Len(demands) :
            /\ demands[k].driver = at /\ demands[k].attempt <= attempt
            /\ demands[k].attempt = attempt => k = Len(demands)

\* A driver goes on only when it has the master.
AnswerFits == (init = "demand" /\ answered) \/ init = "activate" => at \in master_set

\* Only a driver that init() has passed is active.
ActivatedFits == \A i \in activated : i \in Drivers /\ i < at

\* The plain drivers before that one work.
PlainWork ==
  ~Lifecycle /\ main \in {"spin", "join"} =>
    \A i \in Drivers : i < at => i \in activated /\ i \in master_set

\* main() shuts down what init() has made, each driver in its turn.
ShutdownFits ==
  /\ main \in {"shutdown", "destroy", "exited"} => init = "done"
  /\ main = "shutdown" => \A i \in activated : conf[i].id \in turn
  /\ main \in {"destroy", "exited"} => activated = {}
  /\ master_down => main \in {"destroy", "exited"}

\* What is on the master works, or was left there.
LeftFits == on_master \subseteq activated \cup left

\* Nothing ends the process once init() is done.
EndFits == init = "done" => ended = "no"

\* The inductive invariant.
IInv ==
  /\ TypeOK
  /\ RegisteredFits /\ StagesFit /\ LoadingFits /\ DemandsFit /\ AnswerFits
  /\ ActivatedFits /\ PlainWork /\ ShutdownFits /\ LeftFits /\ EndFits

\* The facts about a configuration that the proofs use.
LEMMA ConfFacts ==
  ASSUME conf \in Configurations
  PROVE  /\ Len(conf) \in Nat /\ DOMAIN conf = 1 .. Len(conf)
         /\ \A i \in DOMAIN conf : conf[i].id \in Nat
<1> DEFINE Entries ==
      [name : {"master", "mastered", "driver", "options", "optional"}, id : Nat,
       complete : BOOLEAN, component : {"plain", "lifecycle", "missing", "throws"}]
<1>1. conf \in Seq(Entries)
  BY ConfigurationsAssumption
<1>2. \A d \in Entries : d.id \in Nat
  OBVIOUS
<1> HIDE DEF Entries
<1>3. QED
  BY <1>1, <1>2, LenProperties

\* No step changes the configuration, and what is a driver of it.
LEMMA ConfStays ==
  ASSUME Next
  PROVE  conf' = conf /\ Devices' = Devices /\ Drivers' = Drivers
<1>1. conf' = conf
  BY DEF Next, InitThread, Closing, Configure, LoadMaster, SkipDevice, LoadDriver, Answered,
     DemandTimesOut, ActivateDriver, LoadManager, InitDriver, ListNodes, BringUp, BringDown,
     Interrupt, Join, ShutdownDriver, ShutdownMaster
<1>2. QED
  BY <1>1 DEF Devices, Drivers

\* What kind of master there is depends on the master alone.
LEMMA LifecycleStays ==
  ASSUME Next, can_master' = can_master
  PROVE  Lifecycle' = Lifecycle
BY ConfStays DEF Lifecycle

\* The least of some node ids is one of them.
LEMMA MinFacts ==
  ASSUME NEW S, S \subseteq Nat, S # {}
  PROVE  Min(S) \in S
<1>1. PICK n \in S : \A m \in S : ~(<<m, n>> \in OpToRel(<, Nat))
  BY WFMin, NatLessThanWellFounded
<1>2. ASSUME NEW m \in S PROVE n <= m
  <2>1. <<m, n>> \notin OpToRel(<, Nat)
    BY <1>1
  <2>2. <<m, n>> \notin {ss \in Nat \X Nat : ss[1] < ss[2]}
    BY <2>1 DEF OpToRel
  <2>3. ~(m < n)
    BY <2>2
  <2>4. QED
    BY <2>3
<1>3. QED
  BY <1>2, Zenon DEF Min

\* Loading a driver throws, or registers it: a lifecycle driver, with which init() goes on
\* to the next device, or a plain one, which asks for the master.
Registers ==
  /\ at \in Drivers /\ conf[at].id \notin DOMAIN registered
  /\ registered' = [n \in DOMAIN registered \cup {conf[at].id} |->
                      IF n = conf[at].id THEN at ELSE registered[n]]
  /\ ended' = ended

\* Every outcome of load_driver() is one of these three.
LEMMA DriverLoads ==
  ASSUME LoadDriver
  PROVE  \/ ended' = "threw" /\ UNCHANGED <<init, at, registered, configured, demanding>>
         \/ /\ Registers /\ Lifecycle /\ at' = at + 1
            /\ UNCHANGED <<init, configured, demanding>>
         \/ /\ Registers /\ ~Lifecycle /\ at' = at /\ configured' = configured \cup {at}
            /\ Demand(at, 1)
<1>1. CASE Throws /\ UNCHANGED demanding
  BY <1>1 DEF Throws
<1>2. CASE ~(Throws /\ UNCHANGED demanding)
  <2>1. at \in Drivers /\ Acceptable(at)
    BY <1>2 DEF LoadDriver
  <2>2. Registers
    BY <1>2, <2>1 DEF LoadDriver, Registers, Acceptable
  <2>3. CASE Lifecycle
    BY <1>2, <2>2, <2>3, Zenon DEF LoadDriver
  <2>4. CASE ~Lifecycle
    BY <1>2, <2>2, <2>4, Zenon DEF LoadDriver
  <2>5. QED
    BY <2>3, <2>4
<1>3. QED
  BY <1>1, <1>2

-----------------------------------------------------------------------------
(***************************************************************************)
(* Type correctness, in parts.                                             *)
(***************************************************************************)

\* The Booleans of the state ...
Flags == manager \in BOOLEAN /\ answered \in BOOLEAN /\ master_down \in BOOLEAN

\* ... its plain values, ...
Values ==
  /\ conf \in Configurations
  /\ init \in {"configure", "master", "drivers", "demand", "waiting", "activate", "done"}
  /\ at \in 1 .. Len(conf) + 1 /\ can_master \in Devices \cup {0}
  /\ attempt \in 1 .. Attempts
  /\ lists \in 0 .. MaxLists
  /\ main \in {"spin", "join", "shutdown", "destroy", "exited"}
  /\ ended \in {"no", "threw", "null"}

\* ... the registered drivers, by node id, ...
Registry ==
  /\ DOMAIN registered \subseteq {conf[i].id : i \in Devices}
  /\ \A n \in DOMAIN registered : registered[n] \in Devices /\ conf[registered[n]].id = n
  /\ turn \subseteq DOMAIN registered

\* ... the sets of drivers, ...
Known ==
  /\ configured \subseteq Devices /\ master_set \subseteq Devices
  /\ activated \subseteq Devices /\ on_master \subseteq Devices /\ left \subseteq Devices

\* ... and the requests to the master, ...
Requests == [driver : Devices, attempt : 1 .. Attempts]

\* ... in the order they were made.
Asked == demands \in Seq(Requests)

\* Together they are the type invariant ...
LEMMA TypeParts == TypeOK <=> Flags /\ Values /\ Registry /\ Known /\ Asked
BY DEF TypeOK, Flags, Values, Registry, Known, Asked, Requests

\* ... also after a step.
LEMMA TypePartsNext ==
  ASSUME Flags', Values', Registry', Known', Asked'
  PROVE  TypeOK'
BY DEF TypeOK, Flags, Values, Registry, Known, Asked, Requests

\* Each part is kept by every step.  The Booleans: only loading, a request and the
\* manager write them.
LEMMA FlagsNext ==
  ASSUME Flags, Next
  PROVE  Flags'
<1> USE DEF Flags, flags, demanding, closing
<1>1. CASE LoadDriver
  <2>1. answered' \in {answered, FALSE}
    BY <1>1, DriverLoads, Zenon DEF Demand
  <2>2. UNCHANGED <<manager, master_down>>
    BY <1>1 DEF LoadDriver, Throws
  <2>3. QED
    BY <2>1, <2>2
<1>2. CASE DemandTimesOut
  <2>1. answered' \in {answered, FALSE}
    BY <1>2, Zenon DEF DemandTimesOut, Demand
  <2>2. UNCHANGED <<manager, master_down>>
    BY <1>2 DEF DemandTimesOut
  <2>3. QED
    BY <2>1, <2>2
<1>3. CASE LoadManager
  <2>1. Lifecycle \in BOOLEAN
    BY DEF Lifecycle
  <2>2. manager' = Lifecycle /\ UNCHANGED <<answered, master_down>>
    BY <1>3 DEF LoadManager
  <2>3. QED
    BY <2>1, <2>2
<1>4. CASE InitDriver
  <2>1. answered' \in {answered, TRUE, FALSE}
    BY <1>4, Zenon DEF InitDriver
  <2>2. UNCHANGED <<manager, master_down>>
    BY <1>4 DEF InitDriver
  <2>3. QED
    BY <2>1, <2>2
<1>5. ASSUME NEW i \in Drivers, BringUp(i) PROVE Flags'
  BY <1>5 DEF BringUp
<1>6. ASSUME NEW i \in Drivers, BringDown(i) PROVE Flags'
  BY <1>6 DEF BringDown, Deactivate
<1>7. CASE ShutdownMaster
  BY <1>7 DEF ShutdownMaster
<1>8. CASE Configure \/ LoadMaster \/ SkipDevice \/ Answered \/ ActivateDriver \/
     ListNodes \/ Interrupt \/ Join \/ ShutdownDriver
  <2>1. UNCHANGED <<manager, answered, master_down>>
    BY <1>8 DEF Configure, Throws, LoadMaster, SkipDevice, Answered, ActivateDriver,
       ListNodes, Interrupt, Join, ShutdownDriver, Deactivate
  <2>2. QED
    BY <2>1
<1>9. QED
  BY <1>1, <1>2, <1>3, <1>4, <1>5, <1>6, <1>7, <1>8 DEF Next, InitThread, Closing

\* The plain values: at moves by one, and never past the end of the file.
LEMMA ValuesNext ==
  ASSUME Values, LoadingFits, Next
  PROVE  Values'
<1>1. /\ conf' = conf /\ Devices' = Devices /\ Drivers' = Drivers /\ Len(conf) \in Nat
      /\ DOMAIN conf = 1 .. Len(conf) /\ Drivers \subseteq Devices
      /\ Devices \subseteq DOMAIN conf /\ Attempts \in Nat \ {0} /\ MaxLists \in Nat
  BY ConfStays, ConfFacts, BoundsAssumption DEF Values, Drivers, Devices
<1> USE DEF Values, flags, demanding, closing
<1>2. CASE Configure
  BY <1>2, <1>1 DEF Configure, Throws
<1>3. CASE LoadMaster
  <2>1. can_master' \in Devices \cup {0}
    BY <1>3, Zenon DEF LoadMaster, Throws, Loads
  <2>2. init' \in {init, "drivers"} /\ ended' \in {"no", "threw", "null"}
    BY <1>3 DEF LoadMaster, Throws
  <2>3. UNCHANGED <<at, attempt, lists, main>>
    BY <1>3 DEF LoadMaster, Throws
  <2>4. QED
    BY <1>1, <2>1, <2>2, <2>3
<1>4. CASE SkipDevice
  BY <1>4, <1>1 DEF SkipDevice
<1>5. CASE LoadDriver
  <2>1. at' = at \/ (at \in Drivers /\ at' = at + 1)
    BY <1>5, DriverLoads DEF Registers
  <2>2. /\ init' \in {init, "demand", "waiting"} /\ attempt' \in {attempt, 1}
        /\ ended' \in {ended, "threw"}
    BY <1>5, DriverLoads DEF Registers, Demand
  <2>3. UNCHANGED <<can_master, lists, main>>
    BY <1>5 DEF LoadDriver, Throws
  <2>4. QED
    BY <1>1, <2>1, <2>2, <2>3
<1>6. CASE Answered
  BY <1>6, <1>1 DEF Answered
<1>7. CASE DemandTimesOut
  <2>1. attempt' = attempt \/ (attempt < Attempts /\ attempt' = attempt + 1)
    BY <1>7, Zenon DEF DemandTimesOut, Demand
  <2>2. init' \in {init, "demand", "waiting"} /\ ended' \in {ended, "threw"}
    BY <1>7 DEF DemandTimesOut, Demand
  <2>3. UNCHANGED <<at, can_master, lists, main>>
    BY <1>7 DEF DemandTimesOut
  <2>4. QED
    BY <1>1, <2>1, <2>2, <2>3
<1>8. CASE ActivateDriver
  <2>1. at' \in {at, at + 1} /\ at \in Drivers
    BY <1>8 DEF ActivateDriver, LoadingFits, Loading
  <2>2. init' \in {init, "drivers"} /\ ended' \in {ended, "threw"}
    BY <1>8 DEF ActivateDriver
  <2>3. UNCHANGED <<can_master, attempt, lists, main>>
    BY <1>8 DEF ActivateDriver
  <2>4. QED
    BY <1>1, <2>1, <2>2, <2>3
<1>9. CASE LoadManager
  BY <1>9, <1>1 DEF LoadManager
<1>10. CASE InitDriver
  <2>1. ended' \in {ended, "threw"}
    BY <1>10, Zenon DEF InitDriver
  <2>2. UNCHANGED <<init, at, can_master, attempt, lists, main>>
    BY <1>10 DEF InitDriver
  <2>3. QED
    BY <1>1, <2>1, <2>2
<1>11. CASE ListNodes
  <2>1. ended' \in {"no", "null"} /\ lists < MaxLists /\ lists' = lists + 1
    BY <1>11, Zenon DEF ListNodes
  <2>2. UNCHANGED <<init, at, can_master, attempt, main>>
    BY <1>11 DEF ListNodes
  <2>3. QED
    BY <1>1, <2>1, <2>2
<1>12. ASSUME NEW i \in Drivers, BringUp(i) PROVE Values'
  BY <1>12, <1>1 DEF BringUp
<1>13. ASSUME NEW i \in Drivers, BringDown(i) PROVE Values'
  BY <1>13, <1>1 DEF BringDown, Deactivate
<1>14. CASE Interrupt
  BY <1>14, <1>1 DEF Interrupt
<1>15. CASE Join
  BY <1>15, <1>1 DEF Join
<1>16. CASE ShutdownMaster
  BY <1>16, <1>1 DEF ShutdownMaster
<1>17. CASE ShutdownDriver
  <2>1. UNCHANGED <<init, at, can_master, attempt, lists, main, ended>>
    BY <1>17 DEF ShutdownDriver, Deactivate
  <2>2. QED
    BY <2>1, <1>1
<1>18. QED
  BY <1>2, <1>3, <1>4, <1>5, <1>6, <1>7, <1>8, <1>9, <1>10, <1>11, <1>12, <1>13, <1>14,
     <1>15, <1>16, <1>17 DEF Next, InitThread, Closing

\* The registered drivers: a driver goes under its own node id, which was free.
LEMMA RegistryNext ==
  ASSUME Values, Registry, Next
  PROVE  Registry'
<1>1. /\ conf' = conf /\ Devices' = Devices /\ Drivers' = Drivers /\ Len(conf) \in Nat
      /\ DOMAIN conf = 1 .. Len(conf) /\ Drivers \subseteq Devices
      /\ Devices \subseteq DOMAIN conf /\ Attempts \in Nat \ {0} /\ MaxLists \in Nat
  BY ConfStays, ConfFacts, BoundsAssumption DEF Values, Drivers, Devices
<1> USE DEF Registry, flags, demanding, closing
<1>2. CASE LoadDriver
  <2>1. UNCHANGED registered \/ Registers
    BY <1>2, DriverLoads
  <2>2. turn' = turn
    BY <1>2 DEF LoadDriver, Throws
  <2>3. QED
    BY <1>1, <2>1, <2>2 DEF Registers
<1>3. ASSUME NEW i \in Drivers, BringUp(i) PROVE Registry'
  BY <1>3, <1>1 DEF BringUp
<1>4. ASSUME NEW i \in Drivers, BringDown(i) PROVE Registry'
  BY <1>4, <1>1 DEF BringDown, Deactivate
<1>5. CASE Join
  BY <1>5, <1>1 DEF Join
<1>6. CASE ShutdownDriver
  BY <1>6, <1>1 DEF ShutdownDriver, Deactivate
<1>7. CASE ShutdownMaster
  BY <1>7, <1>1 DEF ShutdownMaster
<1>8. CASE Configure \/ LoadMaster \/ SkipDevice \/ Answered \/ DemandTimesOut \/
     ActivateDriver \/ LoadManager \/ InitDriver \/ ListNodes \/ Interrupt
  <2>1. UNCHANGED <<registered, turn>>
    BY <1>8 DEF Configure, Throws, LoadMaster, SkipDevice, Answered, DemandTimesOut,
       Demand, ActivateDriver, LoadManager, InitDriver, ListNodes, Interrupt
  <2>2. QED
    BY <2>1, <1>1
<1>9. QED
  BY <1>2, <1>3, <1>4, <1>5, <1>6, <1>7, <1>8 DEF Next, InitThread, Closing

\* The sets of drivers: each grows by a driver that init() or the manager works on.
LEMMA KnownNext ==
  ASSUME Values, Registry, Known, LoadingFits, Next
  PROVE  Known'
<1>1. /\ conf' = conf /\ Devices' = Devices /\ Drivers' = Drivers /\ Len(conf) \in Nat
      /\ DOMAIN conf = 1 .. Len(conf) /\ Drivers \subseteq Devices
      /\ Devices \subseteq DOMAIN conf /\ Attempts \in Nat \ {0} /\ MaxLists \in Nat
  BY ConfStays, ConfFacts, BoundsAssumption DEF Values, Drivers, Devices
<1> USE DEF Known, flags, demanding, closing
<1>2. CASE LoadDriver
  <2>1. configured' = configured \/ (at \in Drivers /\ configured' = configured \cup {at})
    BY <1>2, DriverLoads, Zenon DEF Registers
  <2>2. UNCHANGED <<master_set, activated, on_master, left>>
    BY <1>2 DEF LoadDriver, Throws
  <2>3. QED
    BY <1>1, <2>1, <2>2
<1>3. CASE ActivateDriver
  BY <1>3, <1>1 DEF ActivateDriver, LoadingFits, Loading
<1>4. CASE InitDriver
  <2>1. PICK d : \/ master_set' = master_set \cup {d} /\ d \in configured
                 \/ master_set' = master_set
    BY <1>4, Zenon DEF InitDriver
  <2>2. UNCHANGED <<configured, activated, on_master, left>>
    BY <1>4 DEF InitDriver
  <2>3. QED
    BY <1>1, <2>1, <2>2
<1>5. ASSUME NEW i \in Drivers, BringUp(i) PROVE Known'
  BY <1>5, <1>1 DEF BringUp
<1>6. ASSUME NEW i \in Drivers, BringDown(i) PROVE Known'
  BY <1>6, <1>1 DEF BringDown, Deactivate
<1>7. CASE ShutdownDriver
  <2>1. registered[Min(turn)] \in Devices
    <3>1. turn \subseteq Nat
      BY <1>1, ConfFacts DEF Registry, Values
    <3>2. Min(turn) \in turn
      BY <1>7, <3>1, MinFacts DEF ShutdownDriver
    <3>3. QED
      BY <3>2 DEF Registry
  <2>2. /\ configured' \subseteq configured /\ master_set' \subseteq master_set
        /\ activated' \subseteq activated /\ on_master' \subseteq on_master
        /\ left' \in {left, left \cup {registered[Min(turn)]}}
    BY <1>7 DEF ShutdownDriver, Deactivate
  <2>3. QED
    BY <1>1, <2>1, <2>2
<1>8. CASE Configure \/ LoadMaster \/ SkipDevice \/ Answered \/ DemandTimesOut \/
     LoadManager \/ ListNodes \/ Interrupt \/ Join \/ ShutdownMaster
  <2>1. UNCHANGED <<configured, master_set, activated, on_master, left>>
    BY <1>8 DEF Configure, Throws, LoadMaster, SkipDevice, Answered, DemandTimesOut,
       Demand, LoadManager, ListNodes, Interrupt, Join, ShutdownMaster
  <2>2. QED
    BY <2>1, <1>1
<1>9. QED
  BY <1>2, <1>3, <1>4, <1>5, <1>6, <1>7, <1>8 DEF Next, InitThread, Closing

\* The executor takes the first request, ...
LEMMA TakeRequest ==
  ASSUME Asked, demands # << >>
  PROVE  /\ Tail(demands) \in Seq(Requests)
         /\ Head(demands) = demands[1] /\ demands[1] \in Requests
         /\ Len(demands) \in Nat \ {0} /\ Len(Tail(demands)) = Len(demands) - 1
         /\ \A k \in 1 .. Len(Tail(demands)) : Tail(demands)[k] = demands[k + 1]
<1>1. demands \in Seq(Requests)
  BY DEF Asked
<1> HIDE DEF Requests
<1>2. Len(demands) \in Nat \ {0}
  BY <1>1, EmptySeq, LenProperties
<1>3. QED
  BY <1>1, <1>2, HeadTailProperties

\* ... and a driver puts one behind the others.
LEMMA PutRequest ==
  ASSUME Asked, NEW r \in Requests
  PROVE  /\ Append(demands, r) \in Seq(Requests)
         /\ Len(demands) \in Nat /\ Len(Append(demands, r)) = Len(demands) + 1
         /\ Append(demands, r)[Len(demands) + 1] = r
         /\ \A k \in 1 .. Len(demands) : Append(demands, r)[k] = demands[k]
BY AppendProperties, LenProperties DEF Asked

\* The requests: a new one goes to the end, the executor takes the first.
LEMMA AskedNext ==
  ASSUME Values, Asked, LoadingFits, Next
  PROVE  Asked'
<1>1. /\ conf' = conf /\ Devices' = Devices /\ Drivers' = Drivers /\ Len(conf) \in Nat
      /\ DOMAIN conf = 1 .. Len(conf) /\ Drivers \subseteq Devices
      /\ Devices \subseteq DOMAIN conf /\ Attempts \in Nat \ {0} /\ attempt \in 1 .. Attempts
      /\ at \in Nat
  BY ConfStays, ConfFacts, BoundsAssumption DEF Values, Drivers, Devices
<1>2. Requests' = Requests
  BY <1>1 DEF Requests
<1> USE DEF flags, demanding, closing
<1>3. CASE LoadDriver
  <2>1. \/ demands' = demands
        \/ /\ at \in Drivers
           /\ demands' = Append(demands, [driver |-> at, attempt |-> 1])
    BY <1>3, DriverLoads, Zenon DEF Demand, Registers, demanding
  <2>2. at \in Drivers => [driver |-> at, attempt |-> 1] \in Requests
    BY <1>1 DEF Requests
  <2>3. QED
    BY <1>2, <2>1, <2>2, PutRequest DEF Asked
<1>4. CASE DemandTimesOut
  <2>1. \/ demands' = demands
        \/ /\ attempt < Attempts
           /\ demands' = Append(demands, [driver |-> at, attempt |-> attempt + 1])
    BY <1>4, Zenon DEF DemandTimesOut, Demand, demanding
  <2>2. at \in Drivers
    BY <1>4 DEF DemandTimesOut, LoadingFits, Loading
  <2>3. attempt < Attempts => [driver |-> at, attempt |-> attempt + 1] \in Requests
    BY <1>1, <2>2 DEF Requests
  <2>4. QED
    BY <1>2, <2>1, <2>3, PutRequest DEF Asked
<1>5. CASE InitDriver
  <2>1. demands # << >> /\ demands' = Tail(demands)
    BY <1>5, Zenon DEF InitDriver
  <2>2. QED
    BY <1>2, <2>1, TakeRequest DEF Asked
<1>6. ASSUME NEW i \in Drivers, BringUp(i) PROVE Asked'
  BY <1>6, <1>1, <1>2 DEF BringUp, Asked
<1>7. ASSUME NEW i \in Drivers, BringDown(i) PROVE Asked'
  BY <1>7, <1>1, <1>2 DEF BringDown, Deactivate, Asked
<1>8. CASE Configure \/ LoadMaster \/ SkipDevice \/ Answered \/ ActivateDriver \/
     LoadManager \/ ListNodes \/ Interrupt \/ Join \/ ShutdownDriver \/ ShutdownMaster
  <2>1. UNCHANGED <<demands>>
    BY <1>8 DEF Configure, Throws, LoadMaster, SkipDevice, Answered, ActivateDriver,
       LoadManager, ListNodes, Interrupt, Join, ShutdownDriver, Deactivate, ShutdownMaster
  <2>2. QED
    BY <2>1, <1>1, <1>2 DEF Asked
<1>9. QED
  BY <1>3, <1>4, <1>5, <1>6, <1>7, <1>8 DEF Next, InitThread, Closing

-----------------------------------------------------------------------------
(***************************************************************************)
(* The conjuncts of the inductive invariant, one by one.                   *)
(***************************************************************************)

\* Before the drivers there is the master, after them the manager.
LEMMA StagesFitNext ==
  ASSUME StagesFit, Values, Next
  PROVE  StagesFit'
<1>1. /\ conf' = conf /\ Devices' = Devices /\ Drivers' = Drivers /\ Len(conf) \in Nat
      /\ DOMAIN conf = 1 .. Len(conf) /\ Drivers \subseteq Devices
      /\ Devices \subseteq DOMAIN conf /\ Attempts \in Nat \ {0} /\ attempt \in 1 .. Attempts
      /\ at \in 1 .. Len(conf) + 1
  BY ConfStays, ConfFacts, BoundsAssumption DEF Values, Drivers, Devices
<1> USE DEF flags, demanding, closing
<1>2. CASE Configure
  BY <1>2, <1>1, LifecycleStays DEF Configure, Throws, StagesFit
<1>3. CASE LoadMaster
  <2>1. at' = at /\ manager' = manager /\ init = "master" /\ ~manager
    BY <1>3 DEF LoadMaster, Throws, StagesFit
  <2>2. \/ init' = "master" /\ can_master' = can_master
        \/ init' = "drivers" /\ (can_master' = 0 => ended' = "null")
    BY <1>3, Zenon DEF LoadMaster, Throws
  <2>3. QED
    BY <1>1, <2>1, <2>2 DEF StagesFit
<1>4. CASE SkipDevice
  BY <1>4, <1>1, LifecycleStays DEF SkipDevice, StagesFit
<1>5. CASE LoadDriver
  <2>1. init = "drivers" /\ UNCHANGED <<can_master, manager>>
    BY <1>5 DEF LoadDriver, Throws
  <2>2. init' \in {"drivers", "demand", "waiting"} /\ ended' \in {ended, "threw"}
    BY <1>5, <2>1, DriverLoads DEF Registers, Demand
  <2>3. QED
    BY <1>1, <2>1, <2>2 DEF StagesFit
<1>6. CASE Answered
  BY <1>6, <1>1, LifecycleStays DEF Answered, StagesFit
<1>7. CASE DemandTimesOut
  <2>1. init = "demand" /\ UNCHANGED <<can_master, manager, at>>
    BY <1>7 DEF DemandTimesOut
  <2>2. init' \in {"demand", "waiting"} /\ ended' \in {ended, "threw"}
    BY <1>7, <2>1 DEF DemandTimesOut, Demand
  <2>3. QED
    BY <1>1, <2>1, <2>2 DEF StagesFit
<1>8. CASE ActivateDriver
  BY <1>8, <1>1, LifecycleStays DEF ActivateDriver, StagesFit
<1>9. CASE LoadManager
  <2>1. Lifecycle' = Lifecycle /\ manager' = Lifecycle
    BY <1>9, LifecycleStays DEF LoadManager
  <2>2. init = "drivers" /\ init' = "done" /\ UNCHANGED <<at, can_master, ended>>
    BY <1>9 DEF LoadManager
  <2>3. at = Len(conf) + 1
    BY <1>9, <1>1 DEF LoadManager
  <2>4. QED
    BY <1>1, <2>1, <2>2, <2>3 DEF StagesFit
<1>10. CASE InitDriver
  <2>1. ended' \in {ended, "threw"} /\ UNCHANGED <<init, at, can_master, manager>>
    BY <1>10 DEF InitDriver
  <2>2. Lifecycle' = Lifecycle /\ ended = "no"
    BY <1>1, <2>1 DEF Lifecycle, Next
  <2>3. QED
    BY <1>1, <2>1, <2>2 DEF StagesFit
<1>11. CASE ListNodes
  <2>1. UNCHANGED <<init, at, can_master, manager>>
    BY <1>11 DEF ListNodes
  <2>2. Lifecycle' = Lifecycle /\ ended = "no"
    BY <1>1, <2>1 DEF Lifecycle, Next
  <2>3. QED
    BY <1>1, <2>1, <2>2 DEF StagesFit
<1>12. ASSUME NEW i \in Drivers, BringUp(i) PROVE StagesFit'
  BY <1>12, <1>1, LifecycleStays DEF BringUp, StagesFit
<1>13. ASSUME NEW i \in Drivers, BringDown(i) PROVE StagesFit'
  BY <1>13, <1>1, LifecycleStays DEF BringDown, Deactivate, StagesFit
<1>14. CASE Interrupt \/ Join \/ ShutdownDriver \/ ShutdownMaster
  <2>1. UNCHANGED <<init, at, can_master, manager, ended>>
    BY <1>14 DEF Interrupt, Join, ShutdownDriver, Deactivate, ShutdownMaster
  <2>2. QED
    BY <2>1, <1>1, LifecycleStays DEF StagesFit
<1>15. QED
  BY <1>2, <1>3, <1>4, <1>5, <1>6, <1>7, <1>8, <1>9, <1>10, <1>11, <1>12, <1>13, <1>14 DEF Next, InitThread, Closing

\* The registered drivers are those before at, and the one being loaded.
LEMMA RegisteredFitsNext ==
  ASSUME RegisteredFits, LoadingFits, Values, Registry, Next
  PROVE  RegisteredFits'
<1>1. /\ conf' = conf /\ Devices' = Devices /\ Drivers' = Drivers /\ Len(conf) \in Nat
      /\ DOMAIN conf = 1 .. Len(conf) /\ Drivers \subseteq 1 .. Len(conf)
      /\ at \in 1 .. Len(conf) + 1
  BY ConfStays, ConfFacts DEF Values, Drivers, Devices
<1> USE DEF flags, demanding, closing
<1>2. CASE Configure \/ LoadMaster
  BY <1>2, <1>1 DEF Configure, Throws, LoadMaster, RegisteredFits, Loading
<1>3. CASE SkipDevice
  <2>1. at' = at + 1 /\ at \notin Drivers /\ UNCHANGED <<registered, init>>
    BY <1>3 DEF SkipDevice
  <2>2. \A i \in Drivers : i < at' <=> i < at
    BY <1>1, <2>1
  <2>3. ~Loading /\ ~Loading'
    BY <1>3 DEF SkipDevice, Loading
  <2>4. QED
    BY <1>1, <2>1, <2>2, <2>3 DEF RegisteredFits
<1>4. CASE LoadDriver
  <2>1. init = "drivers"
    BY <1>4 DEF LoadDriver
  <2>2. CASE UNCHANGED <<init, at, registered>>
    BY <1>1, <2>2 DEF RegisteredFits, Loading
  <2>3. CASE ~UNCHANGED <<init, at, registered>>
    <3>1. Registers
      BY <1>4, <2>3, DriverLoads DEF Registers
    <3>2. \/ at' = at + 1 /\ init' = init
          \/ at' = at /\ init' \in {"demand", "waiting"}
      BY <1>4, <2>3, DriverLoads DEF Registers, Demand
    <3>3. \A i \in Drivers : (i < at' \/ (i = at' /\ Loading')) <=> (i < at \/ i = at)
      BY <1>1, <2>1, <3>2 DEF Loading
    <3>4. \A n \in DOMAIN registered' : registered'[n] \in Drivers
      BY <3>1 DEF Registers, RegisteredFits
    <3>5. \A i \in Drivers : i < at <=>
             (conf[i].id \in DOMAIN registered /\ registered[conf[i].id] = i)
      BY <1>1, <2>1 DEF RegisteredFits, Loading
    <3>6. \A i \in Drivers : (i < at \/ i = at) <=>
             (conf[i].id \in DOMAIN registered' /\ registered'[conf[i].id] = i)
      BY <1>1, <3>1, <3>5 DEF Registers
    <3>7. QED
      BY <1>1, <3>3, <3>4, <3>6 DEF RegisteredFits
  <2>4. QED
    BY <2>2, <2>3
<1>5. CASE Answered
  BY <1>5, <1>1 DEF Answered, RegisteredFits, Loading
<1>6. CASE DemandTimesOut
  <2>1. init = "demand" /\ init' \in {"demand", "waiting"} /\ UNCHANGED <<registered, at>>
    BY <1>6 DEF DemandTimesOut, Demand
  <2>2. QED
    BY <1>1, <2>1 DEF RegisteredFits, Loading
<1>7. CASE ActivateDriver
  BY <1>7, <1>1 DEF ActivateDriver, RegisteredFits, Loading
<1>8. CASE LoadManager
  BY <1>8, <1>1 DEF LoadManager, RegisteredFits, Loading
<1>9. ASSUME NEW i \in Drivers, BringUp(i) PROVE RegisteredFits'
  BY <1>9, <1>1 DEF BringUp, RegisteredFits, Loading
<1>10. ASSUME NEW i \in Drivers, BringDown(i) PROVE RegisteredFits'
  BY <1>10, <1>1 DEF BringDown, Deactivate, RegisteredFits, Loading
<1>11. CASE InitDriver \/ ListNodes \/ Interrupt \/ Join \/ ShutdownDriver \/
     ShutdownMaster
  <2>1. UNCHANGED <<init, at, registered>>
    BY <1>11 DEF InitDriver, ListNodes, Interrupt, Join, ShutdownDriver, Deactivate,
       ShutdownMaster
  <2>2. QED
    BY <2>1, <1>1 DEF RegisteredFits, Loading
<1>12. QED
  BY <1>2, <1>3, <1>4, <1>5, <1>6, <1>7, <1>8, <1>9, <1>10, <1>11 DEF Next, InitThread, Closing

\* The driver that asks for the master is a plain one, configured and not active.
LEMMA LoadingFitsNext ==
  ASSUME LoadingFits, StagesFit, ActivatedFits, ShutdownFits, Values, Next
  PROVE  LoadingFits'
<1>1. /\ conf' = conf /\ Devices' = Devices /\ Drivers' = Drivers /\ Len(conf) \in Nat
      /\ DOMAIN conf = 1 .. Len(conf) /\ Drivers \subseteq 1 .. Len(conf)
      /\ at \in 1 .. Len(conf) + 1
  BY ConfStays, ConfFacts DEF Values, Drivers, Devices
<1> USE DEF flags, demanding, closing
<1>2. CASE Configure
  BY <1>2, <1>1, LifecycleStays DEF Configure, Throws, LoadingFits, Loading
<1>3. CASE LoadMaster
  <2>1. init' \in {"master", "drivers"}
    BY <1>3 DEF LoadMaster, Throws
  <2>2. QED
    BY <2>1 DEF LoadingFits, Loading
<1>4. CASE SkipDevice
  BY <1>4, <1>1, LifecycleStays DEF SkipDevice, LoadingFits, Loading
<1>5. CASE LoadDriver
  <2>1. init = "drivers" /\ UNCHANGED <<activated, can_master, main>>
    BY <1>5 DEF LoadDriver, Throws
  <2>2. CASE init' = init
    BY <2>1, <2>2 DEF LoadingFits, Loading
  <2>3. CASE init' # init
    <3>1. at \in Drivers /\ ~Lifecycle /\ at' = at /\ configured' = configured \cup {at}
      BY <1>5, <2>3, DriverLoads DEF Registers
    <3>2. init' = "waiting" => main # "spin"
      BY <1>5, <2>1, <2>3, DriverLoads DEF Demand
    <3>3. at \notin activated
      BY <1>1 DEF ActivatedFits
    <3>4. QED
      BY <1>1, <2>1, <3>1, <3>2, <3>3, LifecycleStays DEF LoadingFits
  <2>4. QED
    BY <2>2, <2>3
<1>6. CASE Answered
  BY <1>6, <1>1, LifecycleStays DEF Answered, LoadingFits, Loading
<1>7. CASE DemandTimesOut
  <2>1. /\ init = "demand" /\ init' \in {"demand", "waiting"}
        /\ UNCHANGED <<at, configured, activated, can_master, main>>
        /\ init' = "waiting" => main # "spin"
    BY <1>7 DEF DemandTimesOut, Demand
  <2>2. QED
    BY <1>1, <2>1, LifecycleStays DEF LoadingFits, Loading
<1>8. CASE ActivateDriver
  BY <1>8, <1>1, LifecycleStays DEF ActivateDriver, LoadingFits, Loading
<1>9. CASE LoadManager
  BY <1>9, <1>1, LifecycleStays DEF LoadManager, LoadingFits, Loading
<1>10. ASSUME NEW i \in Drivers, BringUp(i) PROVE LoadingFits'
  <2>1. init = "done" /\ init' = init
    BY <1>10 DEF BringUp, StagesFit
  <2>2. QED
    BY <2>1 DEF LoadingFits, Loading
<1>11. ASSUME NEW i \in Drivers, BringDown(i) PROVE LoadingFits'
  <2>1. init = "done" /\ init' = init
    BY <1>11 DEF BringDown, StagesFit
  <2>2. QED
    BY <2>1 DEF LoadingFits, Loading
<1>12. CASE Interrupt
  BY <1>12, <1>1, LifecycleStays DEF Interrupt, LoadingFits, Loading
<1>13. CASE Join
  BY <1>13, <1>1, LifecycleStays DEF Join, LoadingFits, Loading
<1>14. CASE ShutdownDriver
  <2>1. init = "done" /\ init' = init
    BY <1>14 DEF ShutdownDriver, ShutdownFits
  <2>2. QED
    BY <2>1 DEF LoadingFits, Loading
<1>15. CASE ShutdownMaster
  <2>1. init = "done" /\ init' = init
    BY <1>15 DEF ShutdownMaster, ShutdownFits
  <2>2. QED
    BY <2>1 DEF LoadingFits, Loading
<1>16. CASE InitDriver \/ ListNodes
  <2>1. UNCHANGED <<init, at, can_master, configured, activated, main>>
    BY <1>16 DEF InitDriver, ListNodes
  <2>2. QED
    BY <2>1, <1>1, LifecycleStays DEF LoadingFits, Loading
<1>17. QED
  BY <1>2, <1>3, <1>4, <1>5, <1>6, <1>7, <1>8, <1>9, <1>10, <1>11, <1>12, <1>13, <1>14,
     <1>15, <1>16 DEF Next, InitThread, Closing

\* A request that waits is one of the driver that asks, whatever timed out before it.
LEMMA DemandsFitNext ==
  ASSUME DemandsFit, LoadingFits, Values, Asked, Next
  PROVE  DemandsFit'
<1>1. /\ attempt \in Nat /\ demands \in Seq(Requests) /\ Len(demands) \in Nat
      /\ Devices \subseteq Nat
  BY ConfFacts, BoundsAssumption, LenProperties DEF Values, Asked, Devices
<1> USE DEF flags, demanding, closing
<1>2. CASE Configure
  BY <1>2, <1>1 DEF Configure, Throws, DemandsFit
<1>3. CASE LoadMaster
  BY <1>3, <1>1 DEF LoadMaster, Throws, DemandsFit
<1>4. CASE SkipDevice
  BY <1>4, <1>1 DEF SkipDevice, DemandsFit
<1>5. CASE LoadDriver
  <2>1. init = "drivers" /\ demands = << >>
    BY <1>5 DEF LoadDriver, DemandsFit
  <2>2. CASE init' = init
    <3>1. demands' = demands
      BY <1>5, <2>1, <2>2, DriverLoads DEF Demand
    <3>2. QED
      BY <2>1, <2>2, <3>1 DEF DemandsFit
  <2>3. CASE init' # init
    <3>1. Demand(at, 1) /\ at' = at
      BY <1>5, <2>3, DriverLoads
    <3>2. CASE init' = "waiting"
      BY <3>2 DEF DemandsFit
    <3>3. CASE init' # "waiting"
      <4>1. /\ demands' = <<[driver |-> at, attempt |-> 1]>> /\ init' = "demand"
            /\ attempt' = 1 /\ answered' = FALSE
        BY <2>1, <3>1, <3>3 DEF Demand
      <4>2. Len(demands') = 1 /\ demands'[1] = [driver |-> at, attempt |-> 1]
        BY <4>1
      <4>3. QED
        BY <3>1, <4>1, <4>2 DEF DemandsFit
    <3>4. QED
      BY <3>2, <3>3
  <2>4. QED
    BY <2>2, <2>3
<1>6. CASE Answered
  BY <1>6, <1>1 DEF Answered, DemandsFit
<1>7. CASE DemandTimesOut
  <2>1. init = "demand" /\ at' = at /\ at \in Drivers
    BY <1>7 DEF DemandTimesOut, LoadingFits, Loading
  <2>2. CASE UNCHANGED <<init, demanding>>
    BY <2>1, <2>2 DEF DemandsFit
  <2>3. CASE init' = "waiting"
    BY <2>3 DEF DemandsFit
  <2>4. CASE attempt < Attempts /\ Demand(at, attempt + 1) /\ init' = init
    <3>1. /\ demands' = Append(demands, [driver |-> at, attempt |-> attempt + 1])
          /\ answered' = FALSE /\ attempt' = attempt + 1
      BY <2>1, <2>4 DEF Demand
    <3>2. [driver |-> at, attempt |-> attempt + 1] \in Requests
      BY <1>1, <2>1, <2>4, BoundsAssumption DEF Requests, Drivers
    <3>3. /\ Len(demands') = Len(demands) + 1
          /\ demands'[Len(demands) + 1] = [driver |-> at, attempt |-> attempt + 1]
          /\ \A k \in 1 .. Len(demands) : demands'[k] = demands[k]
      BY <3>1, <3>2, PutRequest
    <3>4. ASSUME NEW k \in 1 .. Len(demands')
          PROVE  /\ demands'[k].driver = at /\ demands'[k].attempt <= attempt + 1
                 /\ demands'[k].attempt = attempt + 1 => k = Len(demands')
      <4>1. CASE k = Len(demands) + 1
        BY <1>1, <3>3, <4>1
      <4>2. CASE k \in 1 .. Len(demands)
        <5>1. demands[k].driver = at /\ demands[k].attempt <= attempt
          BY <2>1, <4>2 DEF DemandsFit
        <5>2. demands[k] \in Requests
          BY <1>1, <4>2
        <5>3. demands[k].attempt \in Nat
          BY <5>2, BoundsAssumption DEF Requests
        <5>4. demands'[k] = demands[k]
          BY <3>3, <4>2
        <5>5. QED
          BY <1>1, <5>1, <5>3, <5>4
      <4>3. QED
        BY <1>1, <3>3, <4>1, <4>2
    <3>5. QED
      BY <2>1, <2>4, <3>1, <3>4 DEF DemandsFit
  <2>5. QED
    BY <1>7, <2>2, <2>3, <2>4, Zenon DEF DemandTimesOut
<1>8. CASE ActivateDriver
  BY <1>8, <1>1 DEF ActivateDriver, DemandsFit
<1>9. CASE LoadManager
  BY <1>9, <1>1 DEF LoadManager, DemandsFit
<1>10. CASE InitDriver
  <2>1. main = "spin" /\ demands # << >> /\ demands' = Tail(demands)
        /\ UNCHANGED <<init, at, attempt>>
    BY <1>10, Zenon DEF InitDriver
  <2>2. init = "demand"
    BY <2>1 DEF DemandsFit, LoadingFits
  <2>3. ~answered
    BY <2>1, <2>2 DEF DemandsFit
  <2>4. /\ Head(demands) = demands[1] /\ Len(demands) \in Nat \ {0}
        /\ Len(demands') = Len(demands) - 1
        /\ \A k \in 1 .. Len(demands') : demands'[k] = demands[k + 1]
    BY <2>1, TakeRequest
  <2>5. answered' => demands' = << >>
    <3>1. SUFFICES ASSUME answered' PROVE demands' = << >>
      OBVIOUS
    <3>2. Head(demands).attempt = attempt
      BY <1>10, <2>3, <3>1, Zenon DEF InitDriver
    <3>3. Len(demands) = 1
      BY <2>2, <2>4, <3>2 DEF DemandsFit
    <3>4. demands' \in Seq(Requests) /\ Len(demands') = 0
      BY <2>1, <2>4, <3>3, TakeRequest
    <3>5. QED
      BY <3>4, EmptySeq
  <2>6. ASSUME NEW k \in 1 .. Len(demands')
        PROVE  /\ demands'[k].driver = at /\ demands'[k].attempt <= attempt
               /\ demands'[k].attempt = attempt => k = Len(demands')
    <3>1. k + 1 \in 1 .. Len(demands) /\ demands'[k] = demands[k + 1]
      BY <2>4
    <3>2. /\ demands[k + 1].driver = at /\ demands[k + 1].attempt <= attempt
          /\ demands[k + 1].attempt = attempt => k + 1 = Len(demands)
      BY <2>2, <3>1 DEF DemandsFit
    <3>3. QED
      BY <2>4, <3>1, <3>2
  <2>7. QED
    BY <2>1, <2>2, <2>5, <2>6 DEF DemandsFit
<1>11. ASSUME NEW i \in Drivers, BringUp(i) PROVE DemandsFit'
  BY <1>11, <1>1 DEF BringUp, DemandsFit
<1>12. ASSUME NEW i \in Drivers, BringDown(i) PROVE DemandsFit'
  BY <1>12, <1>1 DEF BringDown, Deactivate, DemandsFit
<1>13. CASE ListNodes \/ Interrupt \/ Join \/ ShutdownDriver \/ ShutdownMaster
  <2>1. UNCHANGED <<init, at, attempt, demands, answered>>
    BY <1>13 DEF ListNodes, Interrupt, Join, ShutdownDriver, Deactivate, ShutdownMaster
  <2>2. QED
    BY <2>1, <1>1 DEF DemandsFit
<1>14. QED
  BY <1>2, <1>3, <1>4, <1>5, <1>6, <1>7, <1>8, <1>9, <1>10, <1>11, <1>12, <1>13 DEF Next, InitThread, Closing

\* Only an answer to the newest attempt counts, and it comes with the master.
LEMMA AnswerFitsNext ==
  ASSUME AnswerFits, LoadingFits, ShutdownFits, Flags, Next
  PROVE  AnswerFits'
<1> USE DEF AnswerFits, flags, demanding, closing
<1>1. CASE Configure
  BY <1>1 DEF Configure, Throws
<1>2. CASE LoadMaster
  BY <1>2 DEF LoadMaster, Throws
<1>3. CASE SkipDevice
  BY <1>3 DEF SkipDevice
<1>4. CASE LoadDriver
  <2>1. init = "drivers" /\ init' \in {"drivers", "demand", "waiting"}
    BY <1>4, DriverLoads DEF LoadDriver, Demand
  <2>2. init' = "demand" => ~answered'
    BY <1>4, <2>1, DriverLoads DEF Demand
  <2>3. QED
    BY <2>1, <2>2 DEF AnswerFits
<1>5. CASE Answered
  <2>1. init = "demand" /\ answered /\ UNCHANGED <<at, master_set>>
    BY <1>5 DEF Answered
  <2>2. QED
    BY <2>1 DEF AnswerFits
<1>6. CASE DemandTimesOut
  <2>1. init = "demand" /\ UNCHANGED <<at, master_set>>
    BY <1>6 DEF DemandTimesOut
  <2>2. init' = "waiting" \/ answered' = FALSE \/ UNCHANGED <<init, answered>>
    BY <1>6, Zenon DEF DemandTimesOut, Demand, demanding
  <2>3. init' \in {"demand", "waiting"}
    BY <1>6, <2>1 DEF DemandTimesOut, Demand
  <2>4. QED
    BY <2>1, <2>2, <2>3 DEF AnswerFits
<1>7. CASE ActivateDriver
  BY <1>7 DEF ActivateDriver
<1>8. CASE LoadManager
  BY <1>8 DEF LoadManager
<1>9. CASE InitDriver
  <2>1. UNCHANGED <<init, at>>
    BY <1>9 DEF InitDriver
  <2>2. CASE UNCHANGED <<answered, master_set>>
    BY <2>1, <2>2 DEF AnswerFits
  <2>3. CASE ~UNCHANGED <<answered, master_set>>
    <3>1. /\ master_set' = master_set \cup {Head(demands).driver}
          /\ answered' = (answered \/ (init = "demand" /\ Head(demands).driver = at
                                        /\ Head(demands).attempt = attempt))
      BY <1>9, <2>3, Zenon DEF InitDriver
    <3>2. QED
      BY <2>1, <3>1 DEF AnswerFits
  <2>4. QED
    BY <2>2, <2>3
<1>10. ASSUME NEW i \in Drivers, BringUp(i) PROVE AnswerFits'
  BY <1>10 DEF BringUp
<1>11. ASSUME NEW i \in Drivers, BringDown(i) PROVE AnswerFits'
  BY <1>11 DEF BringDown, Deactivate
<1>12. CASE ShutdownDriver
  <2>1. init = "done" /\ init' = init
    BY <1>12 DEF ShutdownDriver, ShutdownFits
  <2>2. QED
    BY <2>1 DEF AnswerFits
<1>13. CASE ListNodes \/ Interrupt \/ Join \/ ShutdownMaster
  <2>1. UNCHANGED <<init, at, master_set, answered>>
    BY <1>13 DEF ListNodes, Interrupt, Join, ShutdownMaster
  <2>2. QED
    BY <2>1
<1>14. QED
  BY <1>1, <1>2, <1>3, <1>4, <1>5, <1>6, <1>7, <1>8, <1>9, <1>10, <1>11, <1>12, <1>13 DEF Next, InitThread, Closing

\* A driver is activated when init() has its answer, or by the manager after init().
LEMMA ActivatedFitsNext ==
  ASSUME ActivatedFits, LoadingFits, StagesFit, Values, Next
  PROVE  ActivatedFits'
<1>1. /\ conf' = conf /\ Devices' = Devices /\ Drivers' = Drivers /\ Len(conf) \in Nat
      /\ DOMAIN conf = 1 .. Len(conf) /\ Drivers \subseteq 1 .. Len(conf)
      /\ at \in 1 .. Len(conf) + 1
  BY ConfStays, ConfFacts DEF Values, Drivers, Devices
<1>2. \A i \in Drivers : i < at => i < at + 1
  BY <1>1
<1> USE DEF flags, demanding, closing
<1>3. CASE SkipDevice
  BY <1>3, <1>1, <1>2 DEF SkipDevice, ActivatedFits
<1>4. CASE LoadDriver
  <2>1. at' \in {at, at + 1} /\ activated' = activated
    BY <1>4, DriverLoads DEF LoadDriver, Throws
  <2>2. QED
    BY <1>1, <1>2, <2>1 DEF ActivatedFits
<1>5. CASE ActivateDriver
  <2>1. \/ at' = at /\ activated' = activated
        \/ at' = at + 1 /\ activated' = activated \cup {at} /\ at \in Drivers
    BY <1>5 DEF ActivateDriver, LoadingFits, Loading
  <2>2. ASSUME NEW i \in activated' PROVE i \in Drivers /\ i < at'
    <3>1. CASE i \in activated
      <4>1. i \in Drivers /\ i < at
        BY <3>1 DEF ActivatedFits
      <4>2. QED
        BY <1>2, <2>1, <4>1
    <3>2. CASE i \notin activated
      BY <1>1, <2>1, <3>2
    <3>3. QED
      BY <3>1, <3>2
  <2>3. QED
    BY <1>1, <2>2 DEF ActivatedFits
<1>6. ASSUME NEW i \in Drivers, BringUp(i) PROVE ActivatedFits'
  <2>1. at = Len(conf) + 1 /\ at' = at /\ activated' \subseteq activated \cup {i}
    BY <1>6 DEF BringUp, StagesFit
  <2>2. QED
    BY <1>1, <1>2, <2>1 DEF ActivatedFits
<1>7. ASSUME NEW i \in Drivers, BringDown(i) PROVE ActivatedFits'
  BY <1>7, <1>1, <1>2 DEF BringDown, Deactivate, ActivatedFits
<1>8. CASE ShutdownDriver
  BY <1>8, <1>1, <1>2 DEF ShutdownDriver, Deactivate, ActivatedFits
<1>9. CASE Configure \/ LoadMaster \/ Answered \/ DemandTimesOut \/ LoadManager \/
     InitDriver \/ ListNodes \/ Interrupt \/ Join \/ ShutdownMaster
  <2>1. UNCHANGED <<at, activated>>
    BY <1>9 DEF Configure, Throws, LoadMaster, Answered, DemandTimesOut, Demand,
       LoadManager, InitDriver, ListNodes, Interrupt, Join, ShutdownMaster
  <2>2. QED
    BY <2>1, <1>1, <1>2 DEF ActivatedFits
<1>10. QED
  BY <1>3, <1>4, <1>5, <1>6, <1>7, <1>8, <1>9 DEF Next, InitThread, Closing

\* Every plain driver that init() has passed stays configured and active until the
\* shutdown.
LEMMA PlainWorkNext ==
  ASSUME PlainWork, AnswerFits, StagesFit, Values, Next
  PROVE  PlainWork'
<1>1. /\ conf' = conf /\ Devices' = Devices /\ Drivers' = Drivers /\ Len(conf) \in Nat
      /\ DOMAIN conf = 1 .. Len(conf) /\ Drivers \subseteq 1 .. Len(conf)
      /\ at \in 1 .. Len(conf) + 1
  BY ConfStays, ConfFacts DEF Values, Drivers, Devices
<1> USE DEF flags, demanding, closing
<1>2. CASE LoadMaster
  <2>1. at' = 1
    BY <1>2 DEF LoadMaster, Throws, StagesFit
  <2>2. QED
    BY <1>1, <2>1 DEF PlainWork
<1>3. CASE SkipDevice
  <2>1. at' = at + 1 /\ at \notin Drivers
        /\ UNCHANGED <<can_master, main, activated, master_set>>
    BY <1>3 DEF SkipDevice
  <2>2. \A i \in Drivers : i < at' => i < at
    BY <1>1, <2>1
  <2>3. QED
    BY <1>1, <2>1, <2>2, LifecycleStays DEF PlainWork
<1>4. CASE LoadDriver
  <2>1. UNCHANGED <<can_master, main, activated, master_set>>
    BY <1>4 DEF LoadDriver, Throws
  <2>2. at' = at \/ Lifecycle
    BY <1>4, DriverLoads
  <2>3. QED
    BY <1>1, <2>1, <2>2, LifecycleStays DEF PlainWork
<1>5. CASE ActivateDriver
  <2>1. UNCHANGED <<can_master, main, master_set>> /\ at \in master_set
    BY <1>5 DEF ActivateDriver, AnswerFits
  <2>2. \/ at' = at /\ activated' = activated
        \/ at' = at + 1 /\ activated' = activated \cup {at}
    BY <1>5 DEF ActivateDriver
  <2>3. Lifecycle' = Lifecycle
    BY <2>1, LifecycleStays
  <2>4. \A i \in Drivers : i < at' => i < at \/ i = at
    BY <1>1, <2>2
  <2>5. \A i \in Drivers : i < at' /\ ~(i < at) => i \in activated'
    BY <1>1, <2>2
  <2>6. QED
    BY <1>1, <2>1, <2>2, <2>3, <2>4, <2>5 DEF PlainWork
<1>6. CASE InitDriver
  <2>1. UNCHANGED <<can_master, main, at, activated>> /\ master_set \subseteq master_set'
    BY <1>6 DEF InitDriver
  <2>2. QED
    BY <1>1, <2>1, LifecycleStays DEF PlainWork
<1>7. ASSUME NEW i \in Drivers, BringUp(i) PROVE PlainWork'
  <2>1. Lifecycle /\ can_master' = can_master
    BY <1>7 DEF BringUp, Deactivate, StagesFit
  <2>2. QED
    BY <2>1, LifecycleStays DEF PlainWork
<1>8. ASSUME NEW i \in Drivers, BringDown(i) PROVE PlainWork'
  <2>1. Lifecycle /\ can_master' = can_master
    BY <1>8 DEF BringDown, Deactivate, StagesFit
  <2>2. QED
    BY <2>1, LifecycleStays DEF PlainWork
<1>9. CASE Interrupt
  BY <1>9, <1>1, LifecycleStays DEF Interrupt, PlainWork
<1>10. CASE Join
  <2>1. main' \notin {"spin", "join"}
    BY <1>10 DEF Join
  <2>2. QED
    BY <2>1 DEF PlainWork
<1>11. CASE ShutdownDriver
  <2>1. main' \notin {"spin", "join"}
    BY <1>11 DEF ShutdownDriver
  <2>2. QED
    BY <2>1 DEF PlainWork
<1>12. CASE ShutdownMaster
  <2>1. main' \notin {"spin", "join"}
    BY <1>12 DEF ShutdownMaster
  <2>2. QED
    BY <2>1 DEF PlainWork
<1>13. CASE Configure \/ Answered \/ DemandTimesOut \/ LoadManager \/ ListNodes
  <2>1. UNCHANGED <<at, can_master, master_set, activated, main>>
    BY <1>13 DEF Configure, Throws, Answered, DemandTimesOut, Demand, LoadManager,
       ListNodes
  <2>2. QED
    BY <2>1, <1>1, LifecycleStays DEF PlainWork
<1>14. QED
  BY <1>2, <1>3, <1>4, <1>5, <1>6, <1>7, <1>8, <1>9, <1>10, <1>11, <1>12, <1>13 DEF Next, InitThread, Closing

\* While the drivers are shut down, those that remain are those whose turn is to come.
LEMMA ShutdownFitsNext ==
  ASSUME ShutdownFits, RegisteredFits, StagesFit, ActivatedFits, Values, Registry, Next
  PROVE  ShutdownFits'
<1>1. /\ conf' = conf /\ Devices' = Devices /\ Drivers' = Drivers /\ Len(conf) \in Nat
      /\ DOMAIN conf = 1 .. Len(conf) /\ Drivers \subseteq 1 .. Len(conf)
      /\ at \in 1 .. Len(conf) + 1
  BY ConfStays, ConfFacts DEF Values, Drivers, Devices
<1> USE DEF flags, demanding, closing
<1>2. CASE Configure
  <2>1. main \in {"spin", "join"} /\ UNCHANGED <<main, master_down>>
    BY <1>2 DEF Configure, Throws, ShutdownFits, Values
  <2>2. QED
    BY <2>1 DEF ShutdownFits
<1>3. CASE LoadMaster
  <2>1. main \in {"spin", "join"} /\ UNCHANGED <<main, master_down>>
    BY <1>3 DEF LoadMaster, Throws, ShutdownFits, Values
  <2>2. QED
    BY <2>1 DEF ShutdownFits
<1>4. CASE LoadDriver
  <2>1. main \in {"spin", "join"} /\ UNCHANGED <<main, master_down>>
    BY <1>4 DEF LoadDriver, Throws, ShutdownFits, Values
  <2>2. QED
    BY <2>1 DEF ShutdownFits
<1>5. CASE Answered
  <2>1. main \in {"spin", "join"} /\ UNCHANGED <<main, master_down>>
    BY <1>5 DEF Answered, ShutdownFits, Values
  <2>2. QED
    BY <2>1 DEF ShutdownFits
<1>6. CASE DemandTimesOut
  <2>1. main \in {"spin", "join"} /\ UNCHANGED <<main, master_down>>
    BY <1>6 DEF DemandTimesOut, ShutdownFits, Values
  <2>2. QED
    BY <2>1 DEF ShutdownFits
<1>7. CASE ActivateDriver
  <2>1. main \in {"spin", "join"} /\ UNCHANGED <<main, master_down>>
    BY <1>7 DEF ActivateDriver, ShutdownFits, Values
  <2>2. QED
    BY <2>1 DEF ShutdownFits
<1>8. CASE LoadManager
  <2>1. main \in {"spin", "join"} /\ UNCHANGED <<main, master_down>>
    BY <1>8 DEF LoadManager, ShutdownFits, Values
  <2>2. QED
    BY <2>1 DEF ShutdownFits
<1>9. ASSUME NEW i \in Drivers, BringUp(i) PROVE ShutdownFits'
  <2>1. main \in {"spin", "join"} /\ UNCHANGED <<main, master_down>>
    BY <1>9 DEF BringUp, ShutdownFits, Values
  <2>2. QED
    BY <2>1 DEF ShutdownFits
<1>10. ASSUME NEW i \in Drivers, BringDown(i) PROVE ShutdownFits'
  <2>1. main \in {"spin", "join"} /\ UNCHANGED <<main, master_down>>
    BY <1>10 DEF BringDown, ShutdownFits, Values
  <2>2. QED
    BY <2>1 DEF ShutdownFits
<1>11. CASE Interrupt
  <2>1. main' = "join" /\ ~master_down /\ master_down' = master_down
    BY <1>11 DEF Interrupt, ShutdownFits
  <2>2. QED
    BY <2>1 DEF ShutdownFits
<1>12. CASE Join
  <2>1. /\ main' = "shutdown" /\ turn' = DOMAIN registered /\ ~master_down
        /\ UNCHANGED <<init, activated, master_down>> /\ init = "done"
    BY <1>12 DEF Join, ShutdownFits
  <2>2. \A i \in activated : conf[i].id \in DOMAIN registered
    BY DEF ActivatedFits, RegisteredFits
  <2>3. QED
    BY <1>1, <2>1, <2>2 DEF ShutdownFits
<1>13. CASE ShutdownDriver
  <2>1. UNCHANGED <<main, init, master_down>> /\ turn # {} /\ turn' = turn \ {Min(turn)}
    BY <1>13 DEF ShutdownDriver
  <2>2. activated' = activated \ {registered[Min(turn)]}
    BY <1>13 DEF ShutdownDriver, Deactivate
  <2>3. \A i \in activated : conf[i].id \in DOMAIN registered /\ registered[conf[i].id] = i
    BY DEF ActivatedFits, RegisteredFits
  <2>4. main = "shutdown" => \A i \in activated' : conf[i].id \in turn'
    BY <2>1, <2>2, <2>3 DEF ShutdownFits
  <2>5. QED
    BY <1>1, <2>1, <2>2, <2>4 DEF ShutdownFits
<1>14. CASE ShutdownMaster
  <2>1. activated = {} /\ init = "done"
    BY <1>14 DEF ShutdownMaster, ShutdownFits
  <2>2. main' \in {"destroy", "exited"} /\ UNCHANGED <<activated, init>>
    BY <1>14 DEF ShutdownMaster
  <2>3. QED
    BY <2>1, <2>2 DEF ShutdownFits
<1>15. CASE SkipDevice \/ InitDriver \/ ListNodes
  <2>1. UNCHANGED <<init, activated, main, turn, master_down>>
    BY <1>15 DEF SkipDevice, InitDriver, ListNodes
  <2>2. QED
    BY <2>1, <1>1 DEF ShutdownFits
<1>16. QED
  BY <1>2, <1>3, <1>4, <1>5, <1>6, <1>7, <1>8, <1>9, <1>10, <1>11, <1>12, <1>13, <1>14,
     <1>15 DEF Next, InitThread, Closing

\* A driver is on the master while it is active, or because it was left there.
LEMMA LeftFitsNext ==
  ASSUME LeftFits, Next
  PROVE  LeftFits'
<1> USE DEF LeftFits, flags, demanding, closing
<1>1. CASE ActivateDriver
  BY <1>1 DEF ActivateDriver
<1>2. ASSUME NEW i \in Drivers, BringUp(i) PROVE LeftFits'
  BY <1>2 DEF BringUp
<1>3. ASSUME NEW i \in Drivers, BringDown(i) PROVE LeftFits'
  BY <1>3 DEF BringDown, Deactivate
<1>4. CASE ShutdownDriver
  BY <1>4 DEF ShutdownDriver, Deactivate
<1>5. CASE Configure \/ LoadMaster \/ SkipDevice \/ LoadDriver \/ Answered \/
     DemandTimesOut \/ LoadManager \/ InitDriver \/ ListNodes \/ Interrupt \/ Join \/
     ShutdownMaster
  <2>1. UNCHANGED <<activated, on_master, left>>
    BY <1>5 DEF Configure, Throws, LoadMaster, SkipDevice, LoadDriver, Demand, Answered,
       DemandTimesOut, LoadManager, InitDriver, ListNodes, Interrupt, Join, ShutdownMaster
  <2>2. QED
    BY <2>1
<1>6. QED
  BY <1>1, <1>2, <1>3, <1>4, <1>5 DEF Next, InitThread, Closing

\* Once init() is done the executor has no request left that throws, and no null pointer
\* to use.
LEMMA EndFitsNext ==
  ASSUME EndFits, StagesFit, DemandsFit, Next
  PROVE  EndFits'
<1> USE DEF EndFits, flags, demanding, closing
<1>1. CASE Configure
  BY <1>1 DEF Configure, Throws
<1>2. CASE LoadMaster
  BY <1>2 DEF LoadMaster, Throws
<1>3. CASE LoadDriver
  <2>1. init' # "done"
    BY <1>3, DriverLoads DEF LoadDriver, Demand
  <2>2. QED
    BY <2>1
<1>4. CASE Answered
  BY <1>4 DEF Answered
<1>5. CASE DemandTimesOut
  BY <1>5 DEF DemandTimesOut, Demand
<1>6. CASE ActivateDriver
  BY <1>6 DEF ActivateDriver
<1>7. CASE LoadManager
  <2>1. ended' = "no"
    BY <1>7 DEF LoadManager, Next
  <2>2. QED
    BY <2>1
<1>8. CASE InitDriver
  <2>1. init # "done" /\ init' = init
    BY <1>8 DEF InitDriver, DemandsFit
  <2>2. QED
    BY <2>1
<1>9. CASE ListNodes
  <2>1. init' = init /\ UNCHANGED <<can_master, manager>> /\ ended = "no"
    BY <1>9 DEF ListNodes, Next
  <2>2. init = "done" => can_master # 0 /\ (Lifecycle => manager)
    BY <2>1 DEF StagesFit
  <2>3. init = "done" => ended' = "no"
    BY <1>9, <2>2, Zenon DEF ListNodes
  <2>4. QED
    BY <2>1, <2>3
<1>10. ASSUME NEW i \in Drivers, BringUp(i) PROVE EndFits'
  BY <1>10 DEF BringUp
<1>11. ASSUME NEW i \in Drivers, BringDown(i) PROVE EndFits'
  BY <1>11 DEF BringDown, Deactivate
<1>12. CASE SkipDevice \/ Interrupt \/ Join \/ ShutdownDriver \/ ShutdownMaster
  <2>1. UNCHANGED <<init, ended>>
    BY <1>12 DEF SkipDevice, Interrupt, Join, ShutdownDriver, Deactivate, ShutdownMaster
  <2>2. QED
    BY <2>1
<1>13. QED
  BY <1>1, <1>2, <1>3, <1>4, <1>5, <1>6, <1>7, <1>8, <1>9, <1>10, <1>11, <1>12 DEF Next, InitThread, Closing

-----------------------------------------------------------------------------
(***************************************************************************)
(* The theorems.                                                           *)
(***************************************************************************)

\* The inductive invariant holds at the start, ...
LEMMA InitIInv == Init => IInv
<1> SUFFICES ASSUME Init PROVE IInv
  OBVIOUS
<1>1. /\ conf \in Configurations /\ Len(conf) \in Nat
      /\ \A i \in Drivers : i \in Nat \ {0}
  <2>1. conf \in Configurations
    BY DEF Init
  <2>2. Len(conf) \in Nat /\ DOMAIN conf = 1..Len(conf)
    BY <2>1, ConfFacts
  <2>3. \A i \in Drivers : i \in DOMAIN conf
    BY DEF Drivers, Devices
  <2>4. \A i \in Drivers : i \in 1 .. Len(conf)
    BY <2>2, <2>3, Zenon
  <2>5. \A i \in 1 .. Len(conf) : i \in Nat \ {0}
    BY <2>2
  <2>6. QED
    BY <2>1, <2>2, <2>4, <2>5, Zenon
<1>2. Flags /\ Values
  <2>1. 1 \in 1 .. Len(conf) + 1 /\ 1 \in 1 .. Attempts /\ 0 \in 0 .. MaxLists
    BY <1>1, BoundsAssumption
  <2>2. Flags
    BY DEF Init, Flags
  <2>3. Values
    BY <1>1, <2>1, Zenon DEF Init, Values
  <2>4. QED
    BY <2>2, <2>3
<1>3. DOMAIN registered = {}
  BY DEF Init
<1>4. Registry /\ Known
  BY <1>3 DEF Init, Registry, Known
<1>5. Asked
  BY DEF Init, Asked
<1>6. RegisteredFits
  <2>1. \A i \in Drivers : ~(i < at) /\ ~Loading
    BY <1>1 DEF Init, Loading
  <2>2. QED
    BY <1>3, <2>1 DEF RegisteredFits
<1>7. StagesFit /\ LoadingFits /\ DemandsFit /\ AnswerFits
  BY DEF Init, StagesFit, LoadingFits, Loading, DemandsFit, AnswerFits
<1>8. ActivatedFits /\ ShutdownFits /\ LeftFits /\ EndFits
  BY DEF Init, ActivatedFits, ShutdownFits, LeftFits, EndFits
<1>9. PlainWork
  BY <1>1 DEF Init, PlainWork
<1>10. QED
  BY <1>2, <1>4, <1>5, <1>6, <1>7, <1>8, <1>9, TypeParts DEF IInv

\* ... and every step keeps it.
LEMMA NextIInv ==
  ASSUME IInv, [Next]_vars
  PROVE  IInv'
<1>1. /\ Flags /\ Values /\ Registry /\ Known /\ Asked
      /\ RegisteredFits /\ StagesFit /\ LoadingFits /\ DemandsFit /\ AnswerFits
      /\ ActivatedFits /\ PlainWork /\ ShutdownFits /\ LeftFits /\ EndFits
  BY TypeParts DEF IInv
<1>2. CASE Next
  <2>1. Flags' /\ Values' /\ Registry' /\ Known' /\ Asked'
    BY <1>1, <1>2, FlagsNext, ValuesNext, RegistryNext, KnownNext, AskedNext
  <2>2. RegisteredFits' /\ StagesFit' /\ LoadingFits'
    BY <1>1, <1>2, RegisteredFitsNext, StagesFitNext, LoadingFitsNext
  <2>3. DemandsFit' /\ AnswerFits' /\ ActivatedFits'
    BY <1>1, <1>2, DemandsFitNext, AnswerFitsNext, ActivatedFitsNext
  <2>4. PlainWork' /\ ShutdownFits' /\ LeftFits' /\ EndFits'
    BY <1>1, <1>2, PlainWorkNext, ShutdownFitsNext, LeftFitsNext, EndFitsNext
  <2>5. QED
    BY <2>1, <2>2, <2>3, <2>4, TypePartsNext DEF IInv
<1>3. CASE UNCHANGED vars
  <2>1. /\ UNCHANGED <<conf, init, at, can_master, manager, registered, lists, main, left>>
        /\ UNCHANGED flags /\ UNCHANGED demanding /\ UNCHANGED closing /\ ended' = ended
    BY <1>3 DEF vars
  <2>2. /\ Devices' = Devices /\ Drivers' = Drivers /\ Lifecycle' = Lifecycle
        /\ Loading' = Loading /\ Requests' = Requests
    BY <2>1 DEF Devices, Drivers, Lifecycle, Loading, Requests
  <2>3. Flags' /\ Values'
    BY <1>1, <2>1, <2>2 DEF Flags, Values, demanding, closing
  <2>4. Registry' /\ Known' /\ Asked'
    BY <1>1, <2>1, <2>2 DEF Registry, Known, Asked, flags, demanding, closing
  <2>5. RegisteredFits' /\ StagesFit' /\ LoadingFits'
    BY <1>1, <2>1, <2>2 DEF RegisteredFits, StagesFit, LoadingFits, flags
  <2>6. DemandsFit' /\ AnswerFits' /\ ActivatedFits'
    BY <1>1, <2>1, <2>2 DEF DemandsFit, AnswerFits, ActivatedFits, flags, demanding
  <2>7. PlainWork' /\ ShutdownFits' /\ LeftFits' /\ EndFits'
    BY <1>1, <2>1, <2>2 DEF PlainWork, ShutdownFits, LeftFits, EndFits, flags, closing
  <2>8. QED
    BY <2>3, <2>4, <2>5, <2>6, <2>7, TypePartsNext DEF IInv
<1>4. QED
  BY <1>2, <1>3

\* The inductive invariant holds in every state of every behaviour.
THEOREM InvHolds == Spec => []IInv
<1>1. Init => IInv
  BY InitIInv
<1>2. IInv /\ [Next]_vars => IInv'
  BY NextIInv
<1>3. QED
  BY <1>1, <1>2, PTL DEF Spec

\* The type invariant.
THEOREM TypeCorrect == Spec => []TypeOK
<1>1. IInv => TypeOK
  BY DEF IInv
<1>2. QED
  BY <1>1, InvHolds, PTL

\* When init() has returned, the container is complete, and nothing can end the process.
LEMMA CompleteWhenReady == IInv => ReadyIsComplete
<1> SUFFICES ASSUME IInv, init = "done"
             PROVE  /\ {registered[n] : n \in DOMAIN registered} = Drivers
                    /\ ended = "no" /\ can_master # 0
                    /\ Lifecycle = manager
                    /\ ~Lifecycle /\ main \in {"spin", "join"}
                         => Drivers \subseteq activated \cap master_set
  BY DEF ReadyIsComplete
<1>1. /\ Flags /\ Values /\ RegisteredFits /\ StagesFit /\ PlainWork /\ EndFits
  BY TypeParts DEF IInv
<1>2. at = Len(conf) + 1 /\ ended = "no" /\ can_master # 0
  BY <1>1 DEF StagesFit, EndFits
<1>3. \A i \in Drivers : i < at
  BY <1>1, <1>2, ConfFacts DEF Values, Drivers, Devices
<1>4. {registered[n] : n \in DOMAIN registered} = Drivers
  BY <1>1, <1>3 DEF RegisteredFits
<1>5. Lifecycle = manager
  <2>1. Lifecycle \in BOOLEAN /\ manager \in BOOLEAN /\ (Lifecycle <=> manager)
    BY <1>1 DEF Lifecycle, Flags, StagesFit
  <2>2. QED
    BY <2>1
<1>6. ~Lifecycle /\ main \in {"spin", "join"} => Drivers \subseteq activated \cap master_set
  BY <1>1, <1>3 DEF PlainWork
<1>7. QED
  BY <1>2, <1>4, <1>5, <1>6

\* A container that is ready is complete, and its master is shut down after its drivers,
\* whatever times out, fails or interrupts it.
THEOREM OrderIsKept == Spec => []ContainerKeepsOrder
<1>1. IInv => MasterGoesLast
  BY DEF IInv, MasterGoesLast, ShutdownFits, LeftFits
<1>2. IInv => ContainerKeepsOrder
  BY <1>1, CompleteWhenReady DEF ContainerKeepsOrder
<1>3. QED
  BY <1>2, InvHolds, PTL

-----------------------------------------------------------------------------
(***************************************************************************)
(* The refinement of MasterUse.                                            *)
(***************************************************************************)
Up == can_master # 0 /\ ~master_down

\* Only drivers hold the master, and each has its turn in the shutdown; then the master is
\* shut down, and nobody takes hold of it again.
HoldersFit ==
  /\ Holders \subseteq Drivers
  /\ main = "shutdown" => \A i \in Holders : conf[i].id \in turn
  /\ main \in {"destroy", "exited"} => Holders = {} /\ master_down

\* What leaves the flags of the drivers alone leaves the holders as they are.
LEMMA QuietSteps ==
  ASSUME Next, ~InitDriver, ~ActivateDriver, ~ShutdownDriver,
         \A i \in Drivers : ~BringUp(i) /\ ~BringDown(i)
  PROVE  Holders' = Holders
<1>1. UNCHANGED <<master_set, on_master, activated, left>>
  BY DEF Next, InitThread, Closing, Configure, LoadMaster, SkipDevice, LoadDriver, Answered,
     DemandTimesOut, LoadManager, ListNodes, Interrupt, Join, ShutdownMaster, flags
<1>2. QED
  BY <1>1 DEF Holders

\* The steps in which a driver takes hold of the master, or lets go of it, before the
\* shutdown: the master is up.
Moves == InitDriver \/ ActivateDriver \/ \E i \in Drivers : BringUp(i) \/ BringDown(i)

LEMMA MovesOne ==
  ASSUME IInv, Moves, ended = "no"
  PROVE  /\ \E d \in Drivers : Holders' \in {Holders, Holders \cup {d}, Holders \ {d}}
         /\ Up /\ main \in {"spin", "join"}
         /\ UNCHANGED <<main, can_master, master_down>>
<1>1. /\ Flags /\ Values /\ Asked /\ StagesFit /\ LoadingFits /\ DemandsFit
      /\ ShutdownFits
  BY TypeParts DEF IInv
<1>2. CASE InitDriver
  <2>1. main = "spin" /\ demands # << >> /\ UNCHANGED <<main, can_master, master_down, left>>
    BY <1>2 DEF InitDriver, closing
  <2>2. init = "demand" /\ at \in Drivers
    BY <1>1, <2>1 DEF DemandsFit, LoadingFits, Loading
  <2>3. Head(demands).driver = at
    <3>1. Len(demands) \in Nat /\ Len(demands) # 0 /\ Head(demands) = demands[1]
      BY <1>1, <2>1, EmptySeq, HeadTailProperties, LenProperties DEF Asked
    <3>2. QED
      BY <1>1, <2>2, <3>1 DEF DemandsFit
  <2>4. UNCHANGED <<on_master, activated>> /\ master_set' \in {master_set, master_set \cup {at}}
    BY <1>2, <2>3, Zenon DEF InitDriver
  <2>5. Holders' \in {Holders, Holders \cup {at}}
    BY <2>1, <2>4 DEF Holders
  <2>6. Up
    BY <1>1, <2>1, <2>2 DEF StagesFit, ShutdownFits, Up
  <2>7. QED
    BY <2>1, <2>2, <2>5, <2>6
<1>3. CASE ActivateDriver
  <2>1. init = "activate" /\ UNCHANGED <<main, can_master, master_down, left, master_set>>
    BY <1>3 DEF ActivateDriver, closing
  <2>2. at \in Drivers /\ main \in {"spin", "join"} /\ Up
    BY <1>1, <2>1 DEF LoadingFits, Loading, ShutdownFits, Values, StagesFit, Up
  <2>3. \/ activated' = activated \cup {at} /\ on_master' = on_master \cup {at}
        \/ UNCHANGED <<activated, on_master>>
    BY <1>3 DEF ActivateDriver
  <2>4. Holders' \in {Holders, Holders \cup {at}}
    BY <2>1, <2>3 DEF Holders
  <2>5. QED
    BY <2>1, <2>2, <2>4
<1>4. ASSUME NEW i \in Drivers, BringUp(i) \/ BringDown(i)
      PROVE  /\ Holders' \in {Holders, Holders \cup {i}, Holders \ {i}}
             /\ Up /\ main \in {"spin", "join"}
             /\ UNCHANGED <<main, can_master, master_down>>
  <2>1. main = "spin" /\ manager /\ UNCHANGED <<main, can_master, master_down>>
    BY <1>4 DEF BringUp, BringDown, closing
  <2>2. Up
    BY <1>1, <2>1 DEF StagesFit, ShutdownFits, Up
  <2>3. CASE BringUp(i)
    <3>1. /\ master_set' = master_set \cup {i} /\ on_master' = on_master \cup {i}
          /\ \/ activated' = activated \cup {i} /\ left' = left
             \/ activated' = activated /\ left' = left \cup {i}
      BY <2>3 DEF BringUp
    <3>2. Holders' \in {Holders \cup {i}, Holders, Holders \ {i}}
      BY <3>1 DEF Holders
    <3>3. QED
      BY <2>1, <2>2, <3>2
  <2>4. CASE BringDown(i)
    <3>1. /\ master_set' = master_set /\ activated' = activated \ {i}
          /\ \/ on_master' = on_master \ {i} /\ left' = left
             \/ on_master' = on_master /\ left' = left \cup {i}
      BY <2>4 DEF BringDown, Deactivate
    <3>2. Holders' \in {Holders, Holders \ {i}}
      BY <3>1 DEF Holders
    <3>3. QED
      BY <2>1, <2>2, <3>2
  <2>5. QED
    BY <1>4, <2>3, <2>4
<1>5. QED
  BY <1>2, <1>3, <1>4 DEF Moves

\* In the shutdown a driver lets go in its turn.
LEMMA TurnLetsGo ==
  ASSUME IInv, HoldersFit, ShutdownDriver
  PROVE  /\ \E d \in Drivers : Holders' = Holders \ {d}
         /\ HoldersFit'
         /\ UNCHANGED <<main, can_master, master_down>>
<1>1. /\ Values /\ Registry /\ RegisteredFits /\ LeftFits /\ StagesFit /\ ShutdownFits
  BY TypeParts DEF IInv
<1> DEFINE i == registered[Min(turn)]
<1>2. Min(turn) \in turn
  <2>1. turn # {} /\ turn \subseteq Nat
    BY <1>1, ConfFacts DEF ShutdownDriver, Registry, Values, Devices
  <2>2. QED
    BY <2>1, MinFacts
<1>3. i \in Drivers
  BY <1>1, <1>2 DEF Registry, RegisteredFits
<1>4. /\ turn' = turn \ {Min(turn)}
      /\ UNCHANGED <<conf, main, can_master, master_down, registered>>
  BY DEF ShutdownDriver, closing
<1>5. Holders' = Holders \ {i}
  <2>1. CASE i \in activated /\ on_master' = on_master \ {i} /\ left' = left
    <3>1. activated' = activated \ {i} /\ master_set' = master_set \ {i}
      BY <2>1 DEF ShutdownDriver, Deactivate
    <3>2. QED
      BY <2>1, <3>1 DEF Holders
  <2>2. CASE i \in activated /\ on_master' = on_master /\ left' = left \cup {i}
    <3>1. activated' = activated \ {i} /\ master_set' \in {master_set, master_set \ {i}}
      BY <2>2 DEF ShutdownDriver, Deactivate
    <3>2. QED
      BY <2>2, <3>1 DEF Holders
  <2>3. CASE i \notin activated
    <3>1. /\ UNCHANGED <<activated, on_master, left>>
          /\ master_set' = master_set \ {i}
      BY <2>3 DEF ShutdownDriver
    <3>2. i \in on_master => i \in left
      BY <1>1, <2>3 DEF LeftFits
    <3>3. QED
      BY <2>3, <3>1, <3>2 DEF Holders
  <2>4. QED
    BY <2>1, <2>2, <2>3 DEF ShutdownDriver, Deactivate
<1>6. Drivers' = Drivers
  BY <1>4 DEF Drivers, Devices
<1>7. main = "shutdown" => \A j \in Holders' : conf[j].id \in turn'
  <2> SUFFICES ASSUME main = "shutdown", NEW j \in Holders' PROVE conf[j].id \in turn'
    OBVIOUS
  <2>1. j \in Holders /\ j # i /\ j \in Drivers /\ conf[j].id \in turn
    BY <1>5 DEF HoldersFit
  <2>2. at = Len(conf) + 1 /\ j \in 1 .. Len(conf) /\ Len(conf) \in Nat
    BY <1>1, <2>1, ConfFacts DEF ShutdownFits, StagesFit, Drivers, Devices, Values
  <2>3. registered[conf[j].id] = j
    BY <1>1, <2>1, <2>2 DEF RegisteredFits
  <2>4. QED
    BY <1>4, <2>1, <2>3
<1>8. HoldersFit'
  BY <1>4, <1>5, <1>6, <1>7 DEF HoldersFit
<1>9. QED
  BY <1>3, <1>4, <1>5, <1>8

\* Every step keeps the invariant ...
LEMMA HoldersFitNext ==
  ASSUME IInv, HoldersFit, [Next]_vars
  PROVE  HoldersFit'
<1>1. /\ Values /\ Registry /\ RegisteredFits /\ StagesFit /\ ShutdownFits
  BY TypeParts DEF IInv
<1>2. CASE UNCHANGED vars
  <2>1. UNCHANGED <<conf, main, turn, master_down, master_set, on_master, activated, left>>
    BY <1>2 DEF vars, flags, closing
  <2>2. QED
    BY <2>1 DEF HoldersFit, Holders, Drivers, Devices
<1>3. CASE Next /\ Moves
  <2>1. ended = "no" /\ Drivers' = Drivers
    BY <1>3, ConfStays DEF Next
  <2>2. /\ \E d \in Drivers : Holders' \in {Holders, Holders \cup {d}, Holders \ {d}}
        /\ main' \in {"spin", "join"}
    BY <1>3, <2>1, MovesOne
  <2>3. QED
    BY <2>1, <2>2 DEF HoldersFit
<1>4. CASE Next /\ ShutdownDriver
  BY <1>4, TurnLetsGo
<1>5. CASE Next /\ ~Moves /\ ~ShutdownDriver
  <2>1. Holders' = Holders /\ Drivers' = Drivers /\ conf' = conf
    BY <1>5, QuietSteps, ConfStays DEF Moves
  <2>2. CASE Join
    <3>1. main' = "shutdown" /\ turn' = DOMAIN registered /\ init = "done"
      BY <2>2 DEF Join
    <3>2. \A i \in Drivers : i < at
      BY <1>1, <3>1, ConfFacts DEF StagesFit, Values, Drivers, Devices
    <3>3. \A i \in Drivers : conf[i].id \in DOMAIN registered
      BY <1>1, <3>2 DEF RegisteredFits
    <3>4. QED
      BY <2>1, <3>1, <3>3 DEF HoldersFit
  <2>3. CASE ShutdownMaster
    <3>1. /\ main \in {"shutdown", "destroy"} /\ turn = {}
          /\ main' \in {"destroy", "exited"} /\ master_down'
      BY <2>3 DEF ShutdownMaster
    <3>2. Holders = {}
      BY <3>1 DEF HoldersFit
    <3>3. QED
      BY <2>1, <3>1, <3>2 DEF HoldersFit
  <2>4. CASE Interrupt
    BY <2>1, <2>4 DEF Interrupt, HoldersFit
  <2>5. CASE InitThread \/ ListNodes
    <3>1. UNCHANGED <<main, turn, master_down>>
      BY <2>5 DEF InitThread, Configure, LoadMaster, SkipDevice, LoadDriver, Answered,
         DemandTimesOut, ActivateDriver, LoadManager, ListNodes, closing
    <3>2. QED
      BY <2>1, <3>1 DEF HoldersFit
  <2>6. QED
    BY <1>5, <2>2, <2>3, <2>4, <2>5 DEF Next, Closing, Moves
<1>6. QED
  BY <1>2, <1>3, <1>4, <1>5

\* ... and is a step of MasterUse, or a stutter.
LEMMA StepsUse ==
  ASSUME IInv, HoldersFit, [Next]_vars
  PROVE  [Use!Next]_(Use!vars)
<1>1. /\ Values /\ Flags /\ StagesFit /\ ShutdownFits
  BY TypeParts DEF IInv
<1>2. Drivers \subseteq UNION {DOMAIN c : c \in Configurations}
  BY <1>1 DEF Values, Drivers, Devices
<1>3. CASE UNCHANGED vars
  <2>1. UNCHANGED <<can_master, master_down, master_set, on_master, activated, left>>
    BY <1>3 DEF vars, flags, closing
  <2>2. QED
    BY <2>1 DEF Use!vars, Holders
<1>4. CASE Next /\ Moves
  <2>1. ended = "no"
    BY <1>4 DEF Next
  <2>2. Up /\ Up' = Up
    BY <1>4, <2>1, MovesOne DEF Up
  <2>3. PICK d \in Drivers : Holders' \in {Holders, Holders \cup {d}, Holders \ {d}}
    BY <1>4, <2>1, MovesOne
  <2>4. QED
    BY <1>2, <2>2, <2>3 DEF Up, Use!Next, Use!Hold, Use!Release, Use!vars
<1>5. CASE Next /\ ShutdownDriver
  <2>1. PICK d \in Drivers : Holders' = Holders \ {d}
    BY <1>5, TurnLetsGo
  <2>2. main \in {"shutdown", "destroy"} /\ UNCHANGED <<can_master, master_down>>
    BY <1>5, TurnLetsGo DEF ShutdownDriver
  <2>3. CASE main = "shutdown"
    <3>1. Up /\ Up' = Up
      BY <1>1, <1>5, <2>2, <2>3 DEF ShutdownFits, StagesFit, Next, Up
    <3>2. QED
      BY <1>2, <2>1, <3>1 DEF Up, Use!Next, Use!Release
  <2>4. CASE main = "destroy"
    <3>1. Holders' = Holders
      BY <2>1, <2>4 DEF HoldersFit
    <3>2. QED
      BY <2>2, <3>1 DEF Use!vars
  <2>5. QED
    BY <2>2, <2>3, <2>4
<1>6. CASE Next /\ ~Moves /\ ~ShutdownDriver
  <2>1. Holders' = Holders
    BY <1>6, QuietSteps DEF Moves
  <2>2. CASE ShutdownMaster
    <3>1. main \in {"shutdown", "destroy"} /\ turn = {} /\ master_down' /\ can_master' = can_master
      BY <2>2 DEF ShutdownMaster
    <3>2. CASE main = "shutdown"
      <4>1. Up /\ ~Up' /\ Holders = {}
        BY <1>1, <1>6, <3>1, <3>2 DEF ShutdownFits, StagesFit, Next, Up, HoldersFit
      <4>2. QED
        BY <2>1, <4>1 DEF Up, Use!Next, Use!Stop
    <3>3. CASE main = "destroy"
      <4>1. master_down /\ master_down' = master_down
        BY <1>1, <3>1, <3>3 DEF HoldersFit, Flags
      <4>2. QED
        BY <2>1, <3>1, <4>1 DEF Use!vars
    <3>4. QED
      BY <3>1, <3>2, <3>3
  <2>3. CASE LoadMaster
    <3>1. init = "master" /\ can_master = 0 /\ UNCHANGED master_down
      BY <1>1, <2>3 DEF LoadMaster, StagesFit, closing
    <3>2. ~master_down
      BY <1>1, <3>1 DEF ShutdownFits
    <3>3. ~Up
      BY <3>1 DEF Up
    <3>4. CASE Up'
      BY <2>1, <3>3, <3>4 DEF Up, Use!Next, Use!Start
    <3>5. CASE ~Up'
      BY <2>1, <3>3, <3>5 DEF Up, Use!vars
    <3>6. QED
      BY <3>4, <3>5
  <2>4. CASE ~ShutdownMaster /\ ~LoadMaster
    <3>1. UNCHANGED <<can_master, master_down>>
      BY <1>6, <2>4 DEF Next, InitThread, Closing, Moves, Configure, Throws, SkipDevice,
         LoadDriver, Answered, DemandTimesOut, LoadManager, ListNodes, Interrupt, Join, closing
    <3>2. QED
      BY <2>1, <3>1 DEF Use!vars
  <2>5. QED
    BY <2>2, <2>3, <2>4
<1>7. QED
  BY <1>3, <1>4, <1>5, <1>6

\* The container keeps the promise of MasterUse, for any bus, plain or with a manager, and
\* whatever is interrupted or fails: the master is loaded before a driver takes hold of it,
\* and is shut down after every driver that did not fail has let go.
THEOREM ContainerImplementsUse == Spec => UseSpec
<1>1. Init => Use!Init /\ HoldersFit
  BY DEF Init, Use!Init, HoldersFit, Holders
<1>2. IInv /\ HoldersFit /\ [Next]_vars => HoldersFit' /\ [Use!Next]_(Use!vars)
  BY HoldersFitNext, StepsUse
<1>3. QED
  BY <1>1, <1>2, InvHolds, PTL DEF Spec, UseSpec, Use!Spec

=============================================================================
