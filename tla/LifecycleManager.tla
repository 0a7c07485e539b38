-------------------------- MODULE LifecycleManager --------------------------
(***************************************************************************)
(* The lifecycle manager, and the managed nodes it brings up and down.     *)
(*                                                                         *)
(* Activating the manager runs bring_up_all(), deactivating it runs        *)
(* bring_down_all(); both are sequences of get_state and change_state      *)
(* calls to one node after another, each with a time limit of 3 s.  The    *)
(* first step that fails ends the sequence, and the manager's callback     *)
(* returns ERROR: nothing that was done is undone.  A step that times out  *)
(* leaves its request with the node.  The manager is the only client of    *)
(* the nodes' lifecycle services.                                          *)
(***************************************************************************)
EXTENDS LifecycleNodes

CONSTANT MaxActivations   \* bound on the activations of the manager

ASSUME MaxActivationsAssumption == MaxActivations \in Nat

VARIABLES
  manager,      \* lifecycle state of the manager
  step,         \* where its callback is, "none" if it runs none
  at,           \* the device the callback is at
  activations   \* number of activations so far

managerVars == <<manager, step, at, activations>>
vars == <<nodeVars, call, reply, alive, managerVars, faults>>

UpSteps == {"see_master", "see_unconfigured", "configure", "activate"}
DownSteps == {"deactivate", "cleanup", "see_cleaned"}

TypeOK ==
  /\ NodesTypeOK
  /\ manager \in States
  /\ step \in UpSteps \cup DownSteps \cup {"none"}
  /\ at \in Nodes
  /\ activations \in 0 .. MaxActivations

Init ==
  /\ NodesInit
  /\ manager = "unconfigured"
  /\ step = "none"
  /\ at = Master
  /\ activations = 0

-----------------------------------------------------------------------------
(***************************************************************************)
(* Transitions of the manager itself, requested by the user.               *)
(***************************************************************************)

\* Mutant of NextDown: the master is first.
NextDownMasterFirst(n) == IF n = 0 THEN 0 ELSE IF n < N THEN n + 1 ELSE 1

\* The device after device n in bring_down_all(): the master is last.
NextDown(n) == IF n < N THEN n + 1 ELSE Master

\* on_configure, on_cleanup: the bus file is read, no node is touched.
ManagerConfigure ==
  /\ manager = "unconfigured"
  /\ manager' = "inactive"
  /\ UNCHANGED <<nodeVars, call, reply, alive, step, at, activations>>

ManagerCleanup ==
  /\ manager = "inactive"
  /\ step = "none"
  /\ manager' = "unconfigured"
  /\ UNCHANGED <<nodeVars, call, reply, alive, step, at, activations>>

\* on_shutdown does not touch them either.
ManagerShutdown ==
  /\ manager # "finalized"
  /\ step = "none"
  /\ manager' = "finalized"
  /\ UNCHANGED <<nodeVars, call, reply, alive, step, at, activations>>

BringUpAll ==
  /\ manager = "inactive"
  /\ step = "none"
  /\ activations < MaxActivations
  /\ activations' = activations + 1
  /\ step' = "see_unconfigured"
  /\ at' = Master
  /\ UNCHANGED <<nodeVars, call, reply, alive, manager>>

BringDownAll ==
  /\ manager = "active"
  /\ step = "none"
  /\ step' = "deactivate"
  /\ at' = NextDown(0)
  /\ UNCHANGED <<nodeVars, call, reply, alive, manager, activations>>

-----------------------------------------------------------------------------
(***************************************************************************)
(* get_state and change_state.                                             *)
(***************************************************************************)

Target == IF step = "see_master" THEN Master ELSE at

AskState ==
  /\ step \in {"see_master", "see_unconfigured", "see_cleaned"}
  /\ call.kind = "none"
  /\ call' = [node |-> Target, kind |-> "get_state"]
  /\ UNCHANGED <<nodeVars, reply, alive, managerVars>>

RequestChange ==
  /\ step \in Transitions
  /\ call.kind = "none"
  /\ call' = [node |-> Target, kind |-> "change_state"]
  /\ requests' = [requests EXCEPT ![Target] = Append(@, step)]
  /\ UNCHANGED <<lifecycle, flags, handler, attempt, demands, posted,
                 reply, alive, managerVars>>

-----------------------------------------------------------------------------
(***************************************************************************)
(* What the manager makes of a result.                                     *)
(***************************************************************************)

\* Mutant of Good: the state after the transitions is ignored as well.
GoodIgnoringState(result) ==
  CASE step = "see_master" -> result = "active"
    [] step = "see_unconfigured" -> result = "unconfigured"
    [] step \in {"configure", "activate"} -> result = "success"
    [] OTHER -> TRUE

\* bring_down_driver() and bring_down_master() ignore what their two transitions
\* return and look at the state that came of them.
Good(result) ==
  CASE step = "see_master" -> result = "active"
    [] step \in {"see_unconfigured", "see_cleaned"} -> result = "unconfigured"
    [] step \in {"configure", "activate"} -> result = "success"
    [] OTHER -> TRUE

GoTo(s, n) ==
  /\ step' = s
  /\ at' = n
  /\ UNCHANGED manager

End(state) ==
  /\ manager' = state
  /\ step' = "none"
  /\ UNCHANGED at

\* Mutant of Proceed: a driver is brought up without a look at the master.
ProceedInParallel ==
  CASE step = "see_master"       -> GoTo("see_unconfigured", at)
    [] step = "see_unconfigured" -> GoTo("configure", at)
    [] step = "configure"        -> IF at < N /\ at # Master THEN GoTo("see_master", at + 1)
                                    ELSE GoTo("activate", at)
    [] step = "activate"         -> IF at = N THEN End("active") ELSE GoTo("see_master", at + 1)
    [] step = "deactivate"       -> GoTo("cleanup", at)
    [] step = "cleanup"          -> GoTo("see_cleaned", at)
    [] OTHER                     -> IF at = Master THEN End("inactive")
                                    ELSE GoTo("deactivate", NextDown(at))

\* The steps of bring_up_master(), bring_up_driver() for each driver,
\* bring_down_driver() for each driver and bring_down_master().
Proceed ==
  CASE step = "see_master"       -> GoTo("see_unconfigured", at)
    [] step = "see_unconfigured" -> GoTo("configure", at)
    [] step = "configure"        -> GoTo("activate", at)
    [] step = "activate"         -> IF at = N THEN End("active") ELSE GoTo("see_master", at + 1)
    [] step = "deactivate"       -> GoTo("cleanup", at)
    [] step = "cleanup"          -> GoTo("see_cleaned", at)
    [] OTHER                     -> IF at = Master THEN End("inactive")
                                    ELSE GoTo("deactivate", NextDown(at))

Conclude(result) ==
  /\ IF Good(result) THEN Proceed ELSE End("finalized")
  /\ call' = NoCall
  /\ reply' = "none"
  /\ UNCHANGED <<nodeVars, alive, activations>>

Receive ==
  /\ reply # "none"
  /\ Conclude(reply)

\* The service is not available, or its answer does not come in time.
Timeout ==
  /\ "timeout" \in faults
  /\ step # "none"
  /\ reply = "none"
  /\ Conclude("failure")

-----------------------------------------------------------------------------
ManagerStep == AskState \/ RequestChange \/ Receive \/ Timeout

UserStep ==
  \/ ManagerConfigure \/ ManagerCleanup \/ ManagerShutdown
  \/ BringUpAll \/ BringDownAll

Next ==
  /\ alive
  /\ UserStep \/ ManagerStep \/ (NodesStep /\ UNCHANGED managerVars)
  /\ UNCHANGED faults

Spec == Init /\ [][Next]_vars

\* The executor is multi-threaded and serves what is ready, the loop runs its tasks, and
\* devices boot.  The user need not do anything, and nothing has to time out.
Fairness ==
  /\ WF_vars(alive /\ (AskState \/ RequestChange) /\ UNCHANGED faults)
  /\ WF_vars(alive /\ Receive /\ UNCHANGED faults)
  /\ \A d \in Drivers : WF_vars(alive /\ DriverStep(d) /\ UNCHANGED <<managerVars, faults>>)
  /\ WF_vars(alive /\ MasterStep /\ UNCHANGED <<managerVars, faults>>)
  /\ \A n \in Nodes : WF_vars(alive /\ ServiceStep(n) /\ UNCHANGED <<managerVars, faults>>)

FairSpec == Spec /\ Fairness

-----------------------------------------------------------------------------
(***************************************************************************)
(* Properties.                                                             *)
(***************************************************************************)

\* A driver holds the master, or may still come to: it was given it, or its bridge is on
\* the loop.
Holds(d) == master_set[d] \/ attached[d] \/ activated[d]

\* "The master needs to be configured and activated before any driver node"
\* (managed-service-interface.rst), and it goes down after them: no driver holds a master
\* whose loop does not run, also when a wait timed out and what it was waiting for comes
\* later.
MasterOutlivesDrivers == \A d \in Drivers : Holds(d) => activated[Master]

\* init_driver never throws in the container, though calls that were given up are
\* served late: the master is there, the driver is configured and not yet active.
ContainerSurvives == alive

\* What the manager's own state says of the bus when its callback is over: active, and
\* every node is; unconfigured or inactive, and every node is unconfigured, none active
\* and none with a master in hand, whatever its two ignored results were on the way down.
ManagerTellsTheTruth ==
  step = "none" =>
    /\ manager = "active" => \A n \in Nodes : lifecycle[n] = "active" /\ activated[n]
    /\ manager \in {"unconfigured", "inactive"} =>
         \A n \in Nodes : lifecycle[n] = "unconfigured" /\ ~activated[n] /\ ~master_set[n]

\* The start-up sequence drawn in lifecycle_manager.hpp: a driver leaves unconfigured only
\* while the master and all drivers before it are active.
StartUpSequence ==
  [][\A d \in Drivers :
       lifecycle[d] = "unconfigured" /\ lifecycle'[d] = "inactive" =>
         \A n \in 0 .. d - 1 : lifecycle[n] = "active"]_vars

\* With no fault, bring_up_all() and bring_down_all() come to their end: nobody waits for
\* a node that waits for somebody else (a driver calls the container from its callback).
TransitionsComplete ==
  /\ faults = {} /\ step \in UpSteps ~> manager = "active" /\ step = "none"
  /\ faults = {} /\ step \in DownSteps ~> manager = "inactive" /\ step = "none"

\* "Once the transition is successfully finished, the cleanup transition is triggered"
\* (bring_down_driver and bring_down_master in lifecycle_manager.hpp): the manager asks
\* for a cleanup of a node that is inactive.
CleanupAfterDeactivate ==
  [][step = "cleanup" /\ call.kind = "none" /\ call'.kind = "change_state"
       => lifecycle[at] = "inactive"]_vars

\* The promise about the master that the managed container keeps.
Use == INSTANCE MasterUse WITH
         up <- activated[Master],
         holders <- {d \in Drivers : Holds(d)}

UseSpec == Use!Spec

=============================================================================
