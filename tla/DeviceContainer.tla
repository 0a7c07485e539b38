--------------------------- MODULE DeviceContainer ---------------------------
(***************************************************************************)
(* The device container of canopen_core and its main(): it reads the bus    *)
(* configuration, makes the master, the drivers and the lifecycle manager,  *)
(* hands the master to drivers that ask for it, and shuts them down.        *)
(*                                                                         *)
(* init() runs in a thread of its own; the executor, which answers the      *)
(* services of the container and of its nodes, runs in main() until the     *)
(* process is interrupted.  A driver is known by its place in the map of    *)
(* devices, which is sorted by their names.                                 *)
(***************************************************************************)
EXTENDS Naturals, Sequences, FiniteSetsExt

CONSTANTS
  Configurations,  \* the bus configurations a behaviour may begin with
  Attempts,        \* how often a driver asks for the master: 5
  MaxLists         \* calls of list_nodes

\* A device: what its name is like ("mastered" contains "master", "optional" contains
\* "options"), its node id, are all its entries there, and what its component is like.
ASSUME ConfigurationsAssumption ==
  \A c \in Configurations :
    c \in Seq([name : {"master", "mastered", "driver", "options", "optional"}, id : Nat,
               complete : BOOLEAN,
               component : {"plain", "lifecycle", "missing", "throws"}])

ASSUME BoundsAssumption == Attempts \in Nat \ {0} /\ MaxLists \in Nat

VARIABLES
  conf,
  init,         \* what the thread of init() does next
  at,           \* the device it is at
  can_master,   \* the place of the device that became the master, or 0
  manager,      \* is there a lifecycle manager?
  registered,   \* registered_drivers_: the driver of a node id
  configured, master_set, activated,   \* the drivers with these flags
  on_master,    \* the drivers the master knows
  attempt,
  demands,      \* requests of init_driver that wait for the executor
  answered,     \* the answer to the last request is there
  lists,
  main,         \* what main() does
  turn,         \* the node ids whose drivers shutdown() has still to shut down
  master_down,
  left,         \* history: drivers an activation or deactivation left with the master
  ended         \* "no", or how the process ended early: "threw" or "null"

flags == <<configured, master_set, activated, on_master>>
demanding == <<attempt, demands, answered>>
closing == <<turn, master_down>>
vars == <<conf, init, at, can_master, manager, registered, flags, demanding, lists, main,
          closing, left, ended>>

\* init_config() leaves the options out.
Devices == {i \in DOMAIN conf : conf[i].name # "options"}
Masters == {i \in Devices : conf[i].name \in {"master", "mastered"}}
First == IF Masters = {} THEN 0 ELSE Min(Masters)
Drivers == {i \in Devices : conf[i].name = "driver"}
Lifecycle == can_master # 0 /\ conf[can_master].component = "lifecycle"

TypeOK ==
  /\ conf \in Configurations
  /\ init \in {"configure", "master", "drivers", "demand", "waiting", "activate", "done"}
  /\ at \in 1 .. Len(conf) + 1 /\ can_master \in Devices \cup {0} /\ manager \in BOOLEAN
  /\ DOMAIN registered \subseteq {conf[i].id : i \in Devices}
  /\ \A n \in DOMAIN registered : registered[n] \in Devices /\ conf[registered[n]].id = n
  /\ {configured, master_set, activated, on_master, left} \subseteq SUBSET Devices
  /\ attempt \in 1 .. Attempts
  /\ demands \in Seq([driver : Devices, attempt : 1 .. Attempts])
  /\ answered \in BOOLEAN /\ lists \in 0 .. MaxLists
  /\ main \in {"spin", "join", "shutdown", "destroy", "exited"}
  /\ turn \subseteq DOMAIN registered /\ master_down \in BOOLEAN
  /\ ended \in {"no", "threw", "null"}

Init ==
  /\ conf \in Configurations
  /\ init = "configure" /\ at = 1 /\ can_master = 0 /\ manager = FALSE
  /\ registered = << >>
  /\ configured = {} /\ master_set = {} /\ activated = {} /\ on_master = {}
  /\ attempt = 1 /\ demands = << >> /\ answered = FALSE
  /\ lists = 0
  /\ main = "spin" /\ turn = {} /\ master_down = FALSE
  /\ left = {} /\ ended = "no"

-----------------------------------------------------------------------------
(***************************************************************************)
(* The thread of init().  It catches no exception: one that leaves it ends  *)
(* the process.                                                            *)
(***************************************************************************)

Throws == ended' = "threw" /\ UNCHANGED <<init, at, can_master, manager, registered, configured>>

\* Read the parameters and the file.
Configure ==
  /\ init = "configure"
  /\ \/ Throws
     \/ /\ init' = "master"
        /\ UNCHANGED <<at, can_master, manager, registered, configured, ended>>
  /\ UNCHANGED <<conf, master_set, activated, on_master, demanding, lists, main, closing,
                 left>>

\* The entries of a device are there, and so is its component.
Loads(i) == i \in Devices /\ conf[i].complete /\ conf[i].component \in {"plain", "lifecycle"}

\* The first device whose name contains "master" is made the master; the others are left
\* out.  One that is not called "master" is made a driver, and the pointer to the master
\* is null.  A plain master is configured and activated at once, which may throw.
LoadMaster ==
  /\ init = "master"
  /\ \/ (Loads(First) => conf[First].component = "plain") /\ Throws
     \/ /\ Loads(First)
        /\ can_master' = IF conf[First].name = "master" THEN First ELSE 0
        /\ ended' = IF can_master' = 0 THEN "null" ELSE "no"
        /\ init' = "drivers"
        /\ UNCHANGED <<at, manager, registered, configured>>
  /\ UNCHANGED <<conf, master_set, activated, on_master, demanding, lists, main, closing,
                 left>>

SkipDevice ==
  /\ init = "drivers" /\ at \in DOMAIN conf \ Drivers
  /\ at' = at + 1
  /\ UNCHANGED <<conf, init, can_master, manager, registered, flags, demanding, lists, main,
                 closing, left, ended>>

\* Mutant of Acceptable: node ids may be taken already.
AcceptableTwice(i) ==
  /\ Loads(i)
  /\ conf[i].id # conf[can_master].id
  /\ (conf[i].component = "lifecycle") = Lifecycle

\* A driver needs a node id of its own, and must be a lifecycle node if the master is.
Acceptable(i) ==
  /\ Loads(i)
  /\ conf[i].id # conf[can_master].id /\ conf[i].id \notin DOMAIN registered
  /\ (conf[i].component = "lifecycle") = Lifecycle

\* Once the process is interrupted the service is never available, and the driver waits
\* for it for ever.
Demand(i, n) ==
  /\ attempt' = n
  /\ answered' = FALSE
  /\ IF main = "spin"
     THEN demands' = Append(demands, [driver |-> i, attempt |-> n]) /\ init' = "demand"
     ELSE init' = "waiting" /\ UNCHANGED demands

\* A plain driver is configured, which may throw, and asks for the master; a lifecycle
\* driver waits for its manager.
LoadDriver ==
  /\ init = "drivers" /\ at \in Drivers
  /\ \/ /\ ~Acceptable(at) \/ ~Lifecycle
        /\ Throws /\ UNCHANGED demanding
     \/ /\ Acceptable(at)
        /\ registered' = [n \in DOMAIN registered \cup {conf[at].id} |->
                            IF n = conf[at].id THEN at ELSE registered[n]]
        /\ IF Lifecycle
           THEN at' = at + 1 /\ UNCHANGED <<init, configured, demanding>>
           ELSE /\ configured' = configured \cup {at}
                /\ Demand(at, 1)
                /\ UNCHANGED at
        /\ UNCHANGED <<can_master, manager, ended>>
  /\ UNCHANGED <<conf, master_set, activated, on_master, lists, main, closing, left>>

Answered ==
  /\ init = "demand"
  /\ answered
  /\ init' = "activate"
  /\ UNCHANGED <<conf, at, can_master, manager, registered, flags, demanding, lists, main,
                 closing, left, ended>>

\* Mutant of DemandTimesOut: it asks again for ever.
DemandTimesOutAlways ==
  /\ init = "demand"
  /\ Demand(at, attempt)
  /\ UNCHANGED <<conf, at, can_master, manager, registered, flags, lists, main, closing, left,
                 ended>>

\* Mutant of DemandTimesOut: it asks once more.
DemandTimesOutOnceMore ==
  /\ init = "demand"
  /\ \/ /\ attempt <= Attempts
        /\ IF main # "spin"
           THEN init' = "waiting" /\ UNCHANGED demanding
           ELSE Demand(at, attempt + 1) /\ UNCHANGED init
        /\ UNCHANGED ended
     \/ /\ attempt > Attempts
        /\ ended' = "threw"
        /\ UNCHANGED <<init, demanding>>
  /\ UNCHANGED <<conf, at, can_master, manager, registered, flags, lists, main, closing, left>>

\* No answer in time: the driver asks again, or throws.
DemandTimesOut ==
  /\ init = "demand"
  /\ \/ /\ attempt < Attempts
        /\ IF main # "spin"
           THEN init' = "waiting" /\ UNCHANGED demanding
           ELSE Demand(at, attempt + 1) /\ UNCHANGED init
        /\ UNCHANGED ended
     \/ /\ attempt = Attempts
        /\ ended' = "threw"
        /\ UNCHANGED <<init, demanding>>
  /\ UNCHANGED <<conf, at, can_master, manager, registered, flags, lists, main, closing, left>>

\* activate() adds the driver to the master, or throws.
ActivateDriver ==
  /\ init = "activate"
  /\ \/ /\ activated' = activated \cup {at} /\ on_master' = on_master \cup {at}
        /\ at' = at + 1
        /\ init' = "drivers"
        /\ UNCHANGED ended
     \/ ended' = "threw" /\ UNCHANGED <<activated, on_master, at, init>>
  /\ UNCHANGED <<conf, can_master, manager, registered, configured, master_set, demanding, lists,
                 main, closing, left>>

LoadManager ==
  /\ init = "drivers" /\ at \notin DOMAIN conf
  /\ manager' = Lifecycle
  /\ init' = "done"
  /\ UNCHANGED <<conf, at, can_master, registered, flags, demanding, lists, main, closing, left,
                 ended>>

-----------------------------------------------------------------------------
(***************************************************************************)
(* The executor.                                                           *)
(***************************************************************************)

\* on_init_driver(): hand the master to the driver, which throws if it is not configured
\* or if it is active already.
InitDriver ==
  /\ main = "spin" /\ demands # << >>
  /\ LET d == Head(demands) IN
     /\ demands' = Tail(demands)
     /\ IF d.driver \in configured \ activated
        THEN /\ master_set' = master_set \cup {d.driver}
             /\ answered' = (answered \/ (init = "demand" /\ d.driver = at /\ d.attempt = attempt))
             /\ UNCHANGED ended
        ELSE ended' = "threw" /\ UNCHANGED <<master_set, answered>>
  /\ UNCHANGED <<conf, init, at, can_master, manager, registered, configured, activated,
                 on_master, attempt, lists, main, closing, left>>

\* on_list_nodes() uses the pointers to the master and to the manager.
ListNodes ==
  /\ main = "spin" /\ lists < MaxLists
  /\ lists' = lists + 1
  /\ ended' = IF can_master = 0 \/ (Lifecycle /\ ~manager) THEN "null" ELSE "no"
  /\ UNCHANGED <<conf, init, at, can_master, manager, registered, flags, demanding, main,
                 closing, left>>

\* The manager brings a lifecycle driver up, or fails to and leaves it with the master ...
BringUp(i) ==
  /\ main = "spin" /\ manager /\ i \notin activated \cup on_master
  /\ configured' = configured \cup {i} /\ master_set' = master_set \cup {i}
  /\ on_master' = on_master \cup {i}
  /\ \/ activated' = activated \cup {i} /\ UNCHANGED left
     \/ left' = left \cup {i} /\ UNCHANGED activated
  /\ UNCHANGED <<conf, init, at, can_master, manager, registered, demanding, lists, main,
                 closing, ended>>

\* ... and down: deactivate() clears its flag before it removes the driver, or throws.
Deactivate(i) ==
  /\ activated' = activated \ {i}
  /\ \/ on_master' = on_master \ {i} /\ UNCHANGED left
     \/ left' = left \cup {i} /\ UNCHANGED on_master

BringDown(i) ==
  /\ main = "spin" /\ manager /\ i \in activated
  /\ Deactivate(i)
  /\ UNCHANGED <<conf, init, at, can_master, manager, registered, configured, master_set,
                 demanding, lists, main, closing, ended>>

-----------------------------------------------------------------------------
(***************************************************************************)
(* main() after the executor has stopped: wait for init(), shut down, and   *)
(* shut down once more in the destructor.                                  *)
(***************************************************************************)

Interrupt ==
  /\ main = "spin"
  /\ main' = "join"
  /\ UNCHANGED <<conf, init, at, can_master, manager, registered, flags, demanding, lists,
                 closing, left, ended>>

Join ==
  /\ main = "join" /\ init = "done"
  /\ main' = "shutdown" /\ turn' = DOMAIN registered
  /\ UNCHANGED <<conf, init, at, can_master, manager, registered, flags, demanding, lists,
                 master_down, left, ended>>

\* A driver that fails to deactivate keeps its other flags; the container goes on.
ShutdownDriver ==
  /\ main \in {"shutdown", "destroy"} /\ turn # {}
  /\ turn' = turn \ {Min(turn)}
  /\ LET i == registered[Min(turn)] IN
     /\ IF i \in activated THEN Deactivate(i) ELSE UNCHANGED <<activated, on_master, left>>
     /\ IF left' = left
        THEN configured' = configured \ {i} /\ master_set' = master_set \ {i}
        ELSE UNCHANGED <<configured, master_set>>
  /\ UNCHANGED <<conf, init, at, can_master, manager, registered, demanding, lists, main,
                 master_down, ended>>

\* Mutant of ShutdownMaster: it does not wait for the drivers.
ShutdownMasterFirst ==
  /\ main \in {"shutdown", "destroy"}
  /\ master_down' = TRUE
  /\ IF main = "shutdown"
     THEN main' = "destroy" /\ turn' = DOMAIN registered
     ELSE main' = "exited" /\ UNCHANGED turn
  /\ UNCHANGED <<conf, init, at, can_master, manager, registered, flags, demanding, lists,
                 left, ended>>

ShutdownMaster ==
  /\ main \in {"shutdown", "destroy"} /\ turn = {}
  /\ master_down' = TRUE
  /\ IF main = "shutdown"
     THEN main' = "destroy" /\ turn' = DOMAIN registered
     ELSE main' = "exited" /\ UNCHANGED turn
  /\ UNCHANGED <<conf, init, at, can_master, manager, registered, flags, demanding, lists,
                 left, ended>>

-----------------------------------------------------------------------------
InitThread ==
  \/ Configure \/ LoadMaster \/ SkipDevice \/ LoadDriver
  \/ Answered \/ DemandTimesOut \/ ActivateDriver \/ LoadManager

Closing == Join \/ ShutdownDriver \/ ShutdownMaster

Next ==
  /\ ended = "no"
  /\ \/ InitThread \/ InitDriver \/ ListNodes
     \/ \E i \in Drivers : BringUp(i) \/ BringDown(i)
     \/ Interrupt \/ Closing

\* The thread of init() runs, a wait with a timeout ends, and main() goes on once the
\* executor has stopped.  Nothing is assumed of the executor.
Fairness == WF_vars(ended = "no" /\ InitThread) /\ WF_vars(ended = "no" /\ Closing)

Spec == Init /\ [][Next]_vars

FairSpec == Spec /\ Fairness

-----------------------------------------------------------------------------
(***************************************************************************)
(* Properties.                                                             *)
(***************************************************************************)

\* When init() has returned, every device of the configuration whose name contains
\* neither "master" nor "options" is registered under its own node id, plain drivers
\* work with the master, lifecycle drivers have a manager, and nothing can end the
\* process any more: neither list_nodes nor a request of init_driver that comes late.
ReadyIsComplete ==
  init = "done" =>
    /\ {registered[n] : n \in DOMAIN registered} = Drivers
    /\ ended = "no" /\ can_master # 0
    /\ Lifecycle = manager
    /\ ~Lifecycle /\ main \in {"spin", "join"} => Drivers \subseteq activated \cap master_set

\* The master is shut down after its drivers: none is on it then that works, and only
\* drivers are on it whose own activation or deactivation failed.
MasterGoesLast ==
  master_down => activated = {} /\ on_master \subseteq left

ContainerKeepsOrder == ReadyIsComplete /\ MasterGoesLast

\* The drivers that hold the master: they have been given it, are on it or are active.  One
\* whose own activation or deactivation failed holds on to it, and is not waited for.
Holders == (master_set \cup on_master \cup activated) \ left

\* The promise about the master, kept by a container with plain drivers and by one with a
\* manager: it is loaded before a driver is given it, and is shut down when they have all
\* let go of it.  (LifecycleManager shows it for the manager's own requests.)
Use == INSTANCE MasterUse WITH
         Drivers <- UNION {DOMAIN c : c \in Configurations},
         up <- can_master # 0 /\ ~master_down,
         holders <- Holders

UseSpec == Use!Spec

\* In the end init() has returned, and main() has exited if the process was interrupted;
\* or the process has ended early, or the interrupt has found a driver that is still asking
\* for the master.
Over ==
  \/ init = "done" /\ main \in {"spin", "exited"}
  \/ init = "waiting" \/ ended # "no"

InitEnds == <>[]Over
=============================================================================
