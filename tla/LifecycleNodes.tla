--------------------------- MODULE LifecycleNodes ---------------------------
(***************************************************************************)
(* The managed nodes of a device container: the lifecycle master, the      *)
(* lifecycle drivers, the CANopen loop the master runs and the container's *)
(* init_driver service, through which a driver is handed the master.       *)
(*                                                                         *)
(* A node serves one request at a time.  A driver's on_configure calls the *)
(* container and waits, its on_activate and on_deactivate post a task to   *)
(* the CANopen loop and wait; each wait has a time limit, except for the   *)
(* boot of the device and the end of the loop.  What has timed out is not  *)
(* taken back: the container still serves the call and the loop still runs *)
(* the task.  A callback that throws sends its node to finalized           *)
(* (rclcpp_lifecycle's on_error is not overridden).  An exception in a     *)
(* callback of the container ends the process.                             *)
(*                                                                         *)
(* init() has run on every node, so initialised_ is TRUE throughout.       *)
(***************************************************************************)
EXTENDS Naturals, Sequences

CONSTANTS
  N,         \* number of drivers
  Attempts,  \* calls of demand_set_master in on_configure (5 in the code)
  Faults     \* what may go wrong: "timeout", "boot", "channel", "config"

ASSUME NAssumption == N \in Nat

ASSUME AttemptsAssumption == Attempts \in Nat \ {0}

ASSUME FaultsAssumption == Faults \subseteq {"timeout", "boot", "channel", "config"}

Master == 0
Drivers == 1 .. N     \* in the order of their names, that of the manager's map
Nodes == 0 .. N

VARIABLES
  lifecycle,   \* lifecycle state of each node
  configured,  \* the flags of NodeCanopenMaster and NodeCanopenDriver
  activated,   \* (the master's loop runs while it is activated)
  master_set,
  attached,    \* does the driver's LelyDriverBridge exist, on the master's loop?
  handler,     \* what the transition callback of each node is waiting for
  attempt,     \* the demand_set_master call of each driver, from 1
  requests,    \* change_state requests each node has not taken yet
  demands,     \* init_driver calls of each driver the container has not served
  posted,      \* task of each node the loop has not run (a node never has two)
  call,        \* the service call the manager is waiting for
  reply,       \* the answer to it
  alive,       \* FALSE once an exception ended the process
  faults       \* what goes wrong in this behaviour, never changed

flags == <<configured, activated, master_set, attached>>
nodeVars == <<lifecycle, flags, handler, attempt, requests, demands, posted>>

Transitions == {"configure", "activate", "deactivate", "cleanup"}
States == {"unconfigured", "inactive", "active", "finalized"}
NoCall == [node |-> Master, kind |-> "none"]
Calls == [node : Nodes, kind : {"none", "get_state", "change_state"}]
Replies == States \cup {"none", "success", "failure"}

NodesTypeOK ==
  /\ lifecycle \in [Nodes -> States]
  /\ configured \in [Nodes -> BOOLEAN]
  /\ activated \in [Nodes -> BOOLEAN]
  /\ master_set \in [Nodes -> BOOLEAN]
  /\ attached \in [Drivers -> BOOLEAN]
  /\ handler \in [Nodes -> {"none", "demand", "add", "boot", "remove", "stop"}]
  /\ attempt \in [Drivers -> 0 .. Attempts]
  /\ requests \in [Nodes -> Seq(Transitions)]
  /\ demands \in [Drivers -> Nat]
  /\ posted \in [Nodes -> {"none", "add", "remove", "stop"}]
  /\ call \in Calls
  /\ reply \in Replies
  /\ alive \in BOOLEAN

NodesInit ==
  /\ lifecycle = [n \in Nodes |-> "unconfigured"]
  /\ configured = [n \in Nodes |-> FALSE]
  /\ activated = [n \in Nodes |-> FALSE]
  /\ master_set = [n \in Nodes |-> FALSE]
  /\ attached = [d \in Drivers |-> FALSE]
  /\ handler = [n \in Nodes |-> "none"]
  /\ attempt = [d \in Drivers |-> 0]
  /\ requests = [n \in Nodes |-> << >>]
  /\ demands = [d \in Drivers |-> 0]
  /\ posted = [n \in Nodes |-> "none"]
  /\ call = NoCall
  /\ reply = "none"
  /\ alive = TRUE
  /\ faults \in {{}, Faults}

-----------------------------------------------------------------------------
(***************************************************************************)
(* The lifecycle services of a node.                                       *)
(***************************************************************************)

Source(t) ==
  CASE t = "configure"  -> "unconfigured"
    [] t = "activate"   -> "inactive"
    [] t = "deactivate" -> "active"
    [] t = "cleanup"    -> "inactive"

\* The caller gets the answer if it still waits for it: it waits for its last
\* request only, and a node answers requests in their order.
Answer(n, result) ==
  reply' = IF call = [node |-> n, kind |-> "change_state"] /\ requests'[n] = << >>
           THEN result ELSE reply

\* Node n takes a request for transition t, which its state allows.
Take(n, t) ==
  /\ handler[n] = "none"
  /\ requests[n] # << >>
  /\ Head(requests[n]) = t
  /\ lifecycle[n] = Source(t)
  /\ requests' = [requests EXCEPT ![n] = Tail(@)]

\* The callback of node n is over.
Finish(n, state, result) ==
  /\ lifecycle' = [lifecycle EXCEPT ![n] = state]
  /\ handler' = [handler EXCEPT ![n] = "none"]
  /\ Answer(n, result)

\* The callback of node n throws.
Throw(n) == Finish(n, "finalized", "failure")

\* A transition the node's state does not allow.
Reject(n) ==
  /\ handler[n] = "none"
  /\ requests[n] # << >>
  /\ lifecycle[n] # Source(Head(requests[n]))
  /\ requests' = [requests EXCEPT ![n] = Tail(@)]
  /\ Answer(n, "failure")
  /\ UNCHANGED <<lifecycle, flags, handler, attempt, demands, posted, call, alive>>

\* get_state shares the node's callback group with change_state.
AnswerState(n) ==
  /\ call = [node |-> n, kind |-> "get_state"]
  /\ reply = "none"
  /\ handler[n] = "none"
  /\ reply' = lifecycle[n]
  /\ UNCHANGED <<nodeVars, call, alive>>

-----------------------------------------------------------------------------
(***************************************************************************)
(* Drivers.                                                                *)
(***************************************************************************)

\* configure(), and the first call of demand_set_master().
Configure(d) ==
  /\ Take(d, "configure")
  /\ \/ /\ ~configured[d] /\ ~activated[d]
        /\ configured' = [configured EXCEPT ![d] = TRUE]
        /\ handler' = [handler EXCEPT ![d] = "demand"]
        /\ attempt' = [attempt EXCEPT ![d] = 1]
        /\ demands' = [demands EXCEPT ![d] = @ + 1]
        /\ UNCHANGED <<lifecycle, reply>>
     \/ /\ configured[d] \/ activated[d] \/ "config" \in faults
        /\ Throw(d)
        /\ UNCHANGED <<configured, attempt, demands>>
  /\ UNCHANGED <<activated, master_set, attached, posted, call, alive>>

\* Mutant of DemandTimeout: one call too many.
DemandTimeoutOnceMore(d) ==
  /\ handler[d] = "demand"
  /\ UNCHANGED requests
  /\ "timeout" \in faults
  /\ \/ /\ attempt[d] <= Attempts
        /\ attempt' = [attempt EXCEPT ![d] = @ + 1]
        /\ demands' = [demands EXCEPT ![d] = @ + 1]
        /\ UNCHANGED <<lifecycle, handler, reply>>
     \/ /\ attempt[d] > Attempts
        /\ Throw(d)
        /\ UNCHANGED <<attempt, demands>>
  /\ UNCHANGED <<flags, posted, call, alive>>

\* The container has not answered in non_transmit_timeout_: call again, or throw.
DemandTimeout(d) ==
  /\ handler[d] = "demand"
  /\ UNCHANGED requests
  /\ "timeout" \in faults
  /\ \/ /\ attempt[d] < Attempts
        /\ attempt' = [attempt EXCEPT ![d] = @ + 1]
        /\ demands' = [demands EXCEPT ![d] = @ + 1]
        /\ UNCHANGED <<lifecycle, handler, reply>>
     \/ /\ attempt[d] = Attempts
        /\ Throw(d)
        /\ UNCHANGED <<attempt, demands>>
  /\ UNCHANGED <<flags, posted, call, alive>>

\* Mutant of SetMaster: a late answer is taken for the one awaited.
SetMasterAnyAnswer(d) ==
  /\ demands[d] > 0
  /\ UNCHANGED requests
  /\ demands' = [demands EXCEPT ![d] = @ - 1]
  /\ IF master_set[Master] /\ configured[d] /\ ~activated[d]
     THEN /\ master_set' = [master_set EXCEPT ![d] = TRUE]
          /\ IF handler[d] = "demand"
             THEN Finish(d, "inactive", "success")
             ELSE UNCHANGED <<lifecycle, handler, reply>>
          /\ UNCHANGED alive
     ELSE /\ alive' = FALSE
          /\ UNCHANGED <<lifecycle, master_set, handler, reply>>
  /\ UNCHANGED <<configured, activated, attached, attempt, posted, call>>

\* Mutant of SetMaster: the client shares the callback group of the transition that
\* waits for it, so its answer is never seen.
SetMasterUnseen(d) ==
  /\ demands[d] > 0
  /\ UNCHANGED requests
  /\ demands' = [demands EXCEPT ![d] = @ - 1]
  /\ master_set' = [master_set EXCEPT ![d] = TRUE]
  /\ UNCHANGED <<lifecycle, handler, reply, configured, activated, attached, attempt,
                 posted, call, alive>>

\* The container serves init_driver for d: get_executor() and get_master() throw if
\* the master has none, set_master() if d is not configured or is active.  It is the
\* answer d waits for if no later call of d is queued.
SetMaster(d) ==
  /\ demands[d] > 0
  /\ UNCHANGED requests
  /\ demands' = [demands EXCEPT ![d] = @ - 1]
  /\ IF master_set[Master] /\ configured[d] /\ ~activated[d]
     THEN /\ master_set' = [master_set EXCEPT ![d] = TRUE]
          /\ IF handler[d] = "demand" /\ demands[d] = 1
             THEN Finish(d, "inactive", "success")
             ELSE UNCHANGED <<lifecycle, handler, reply>>
          /\ UNCHANGED alive
     ELSE /\ alive' = FALSE
          /\ UNCHANGED <<lifecycle, master_set, handler, reply>>
  /\ UNCHANGED <<configured, activated, attached, attempt, posted, call>>

\* activate() as far as add_to_master() posting its task.
Activate(d) ==
  /\ Take(d, "activate")
  /\ IF master_set[d] /\ configured[d] /\ ~activated[d]
     THEN /\ handler' = [handler EXCEPT ![d] = "add"]
          /\ posted' = [posted EXCEPT ![d] = "add"]
          /\ UNCHANGED <<lifecycle, reply>>
     ELSE /\ Throw(d)
          /\ UNCHANGED posted
  /\ UNCHANGED <<flags, attempt, demands, call, alive>>

\* The device has booted: add_to_master() returns and activate() goes on to its end.
Booted(d) ==
  /\ handler[d] = "boot"
  /\ UNCHANGED requests
  /\ activated' = [activated EXCEPT ![d] = TRUE]
  /\ Finish(d, "active", "success")
  /\ UNCHANGED <<configured, master_set, attached, attempt, demands,
                 posted, call, alive>>

\* Three attempts to boot have failed.  The bridge stays.
BootFails(d) ==
  /\ "boot" \in faults
  /\ handler[d] = "boot"
  /\ UNCHANGED requests
  /\ Throw(d)
  /\ UNCHANGED <<flags, attempt, demands, posted, call, alive>>

\* Mutant of Deactivate: the driver does not wait for its removal.
DeactivateWithoutWaiting(d) ==
  /\ Take(d, "deactivate")
  /\ activated' = [activated EXCEPT ![d] = FALSE]
  /\ posted' = [posted EXCEPT ![d] = "remove"]
  /\ Finish(d, "inactive", "success")
  /\ UNCHANGED <<configured, master_set, attached, attempt, demands, call, alive>>

\* deactivate() as far as remove_from_master() posting its task.
Deactivate(d) ==
  /\ Take(d, "deactivate")
  /\ IF master_set[d] /\ configured[d] /\ activated[d]
     THEN /\ activated' = [activated EXCEPT ![d] = FALSE]
          /\ handler' = [handler EXCEPT ![d] = "remove"]
          /\ posted' = [posted EXCEPT ![d] = "remove"]
          /\ UNCHANGED <<lifecycle, reply>>
     ELSE /\ Throw(d)
          /\ UNCHANGED <<activated, posted>>
  /\ UNCHANGED <<configured, master_set, attached, attempt, demands, call, alive>>

\* The loop has not run the task in non_transmit_timeout_.
TaskTimeout(d) ==
  /\ handler[d] \in {"add", "remove"}
  /\ UNCHANGED requests
  /\ "timeout" \in faults
  /\ Throw(d)
  /\ UNCHANGED <<flags, attempt, demands, posted, call, alive>>

Cleanup(d) ==
  /\ Take(d, "cleanup")
  /\ IF configured[d] /\ ~activated[d]
     THEN /\ master_set' = [master_set EXCEPT ![d] = FALSE]
          /\ configured' = [configured EXCEPT ![d] = FALSE]
          /\ Finish(d, "unconfigured", "success")
     ELSE /\ Throw(d)
          /\ UNCHANGED <<master_set, configured>>
  /\ UNCHANGED <<activated, attached, attempt, demands, posted, call, alive>>

-----------------------------------------------------------------------------
(***************************************************************************)
(* The loop.                                                               *)
(***************************************************************************)

\* The loop runs the task of driver d, awaited or not.
RunTask(d) ==
  /\ activated[Master]
  /\ posted[d] # "none"
  /\ UNCHANGED requests
  /\ posted' = [posted EXCEPT ![d] = "none"]
  /\ attached' = [attached EXCEPT ![d] = (posted[d] = "add")]
  /\ CASE handler[d] = "add" -> /\ handler' = [handler EXCEPT ![d] = "boot"]
                                /\ UNCHANGED <<lifecycle, reply>>
       [] handler[d] = "remove" -> Finish(d, "inactive", "success")
       [] OTHER -> UNCHANGED <<lifecycle, handler, reply>>
  /\ UNCHANGED <<configured, activated, master_set, attempt, demands, call, alive>>

-----------------------------------------------------------------------------
(***************************************************************************)
(* The master.                                                             *)
(***************************************************************************)

MasterConfigure ==
  /\ Take(Master, "configure")
  /\ \/ /\ ~configured[Master] /\ ~activated[Master]
        /\ configured' = [configured EXCEPT ![Master] = TRUE]
        /\ Finish(Master, "inactive", "success")
     \/ /\ configured[Master] \/ activated[Master] \/ "config" \in faults
        /\ Throw(Master)
        /\ UNCHANGED configured
  /\ UNCHANGED <<activated, master_set, attached, attempt, demands, posted, call, alive>>

\* Opening the CAN channel may throw.
MasterActivate ==
  /\ Take(Master, "activate")
  /\ \/ /\ configured[Master] /\ ~activated[Master]
        /\ master_set' = [master_set EXCEPT ![Master] = TRUE]
        /\ activated' = [activated EXCEPT ![Master] = TRUE]
        /\ Finish(Master, "active", "success")
     \/ /\ ~configured[Master] \/ activated[Master] \/ "channel" \in faults
        /\ Throw(Master)
        /\ UNCHANGED <<master_set, activated>>
  /\ UNCHANGED <<configured, attached, attempt, demands, posted, call, alive>>

\* deactivate() posts the shutdown of the loop's context and joins the spinner.
MasterDeactivate ==
  /\ Take(Master, "deactivate")
  /\ IF configured[Master] /\ activated[Master]
     THEN /\ handler' = [handler EXCEPT ![Master] = "stop"]
          /\ posted' = [posted EXCEPT ![Master] = "stop"]
          /\ UNCHANGED <<lifecycle, reply>>
     ELSE /\ Throw(Master)
          /\ UNCHANGED posted
  /\ UNCHANGED <<flags, attempt, demands, call, alive>>

\* The loop ends; master_set_ stays TRUE until the cleanup.
StopLoop ==
  /\ activated[Master]
  /\ posted[Master] = "stop"
  /\ UNCHANGED requests
  /\ posted' = [posted EXCEPT ![Master] = "none"]
  /\ activated' = [activated EXCEPT ![Master] = FALSE]
  /\ Finish(Master, "inactive", "success")
  /\ UNCHANGED <<configured, master_set, attached, attempt, demands, call, alive>>

\* The loop is destroyed, and the tasks it has not run with it.
MasterCleanup ==
  /\ Take(Master, "cleanup")
  /\ IF configured[Master] /\ ~activated[Master]
     THEN /\ configured' = [configured EXCEPT ![Master] = FALSE]
          /\ master_set' = [master_set EXCEPT ![Master] = FALSE]
          /\ posted' = [n \in Nodes |-> "none"]
          /\ Finish(Master, "unconfigured", "success")
     ELSE /\ Throw(Master)
          /\ UNCHANGED <<configured, master_set, posted>>
  /\ UNCHANGED <<activated, attached, attempt, demands, call, alive>>

-----------------------------------------------------------------------------
DriverStep(d) ==
  \/ Configure(d) \/ DemandTimeout(d) \/ SetMaster(d)
  \/ Activate(d) \/ Booted(d) \/ BootFails(d)
  \/ Deactivate(d) \/ TaskTimeout(d) \/ Cleanup(d) \/ RunTask(d)

MasterStep ==
  \/ MasterConfigure \/ MasterActivate \/ MasterDeactivate \/ StopLoop \/ MasterCleanup

ServiceStep(n) == Reject(n) \/ AnswerState(n)

NodesStep ==
  \/ \E d \in Drivers : DriverStep(d)
  \/ MasterStep
  \/ \E n \in Nodes : ServiceStep(n)

=============================================================================
