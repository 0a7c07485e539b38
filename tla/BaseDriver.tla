----------------------------- MODULE BaseDriver -----------------------------
(***************************************************************************)
(* One driver of the base driver's family while it is added to the master, *)
(* works and is removed again: the thread that activates and deactivates   *)
(* it, the CANopen loop that runs its tasks and the callbacks of its       *)
(* LelyDriverBridge, the nmt_listener thread, the poll callback (a timer's, *)
(* or the loop's own at each SYNC), and the callbacks of the proxy driver  *)
(* that use the bridge when activated_ is set.                             *)
(*                                                                         *)
(* Messages and NMT states are numbered in their order of arrival.  A null *)
(* pointer that is used, a promise satisfied twice and an exception on the *)
(* loop end the process: "crash" then names the thread.                    *)
(***************************************************************************)
EXTENDS Naturals, Sequences

CONSTANTS
  Configurations,  \* the drivers and surroundings a behaviour may begin with (see below)
  BootAttempts,    \* max_boot_attempts (3 in the code)
  Batch            \* messages a poll takes from one queue (10 in the code)

\* A configuration: polling_; whether a motor keeps the bridge; whether nmt_state_cb_ and
\* rpdo_cb_ are set; whether the device has booted before; what the atomics of a new
\* bridge may hold; what may happen ("timeout" of a task, "spurious" wakeup, "slow"
\* activation, "throw" of a handler); and the bounds: activations, boots the device begins
\* on its own, NMT states and messages of each kind of a bridge.
ASSUME ConfigurationsAssumption ==
  \A c \in Configurations :
    c \in [polling : BOOLEAN, motors : BOOLEAN, callbacks : BOOLEAN, ready : BOOLEAN,
          garbage : (SUBSET BOOLEAN) \ {{}}, faults : SUBSET {"timeout", "spurious", "slow", "throw"},
          activations : Nat, boots : Nat, states : Nat, messages : Nat]

ASSUME BoundsAssumption == BootAttempts \in Nat \ {0} /\ Batch \in Nat \ {0}

VARIABLES
  conf,         \* the configuration
  pc,           \* what the activating or deactivating thread does next
  activations,
  attempt,      \* of the boot
  activated,    \* activated_
  lely_driver,  \* does lely_driver_ point to a bridge?
  motor,        \* does a motor keep the bridge?
  registered,   \* is a bridge registered with the master?
  tasks,        \* what was posted to the loop
  loop,         \* "idle", or what the loop is in the middle of: "sync", or an OnBoot's es
  booted,       \* the bridge: booted, boot_status, and whether boot_cond was notified
  boot_status,
  notified,
  booting,      \* the device: a boot process runs; boots it began on its own
  boots,
  ready,        \* lely's IsReady()
  state,        \* NMT states the bridge was told
  nmt_is_set,   \* nmt_state_is_set and nmt_state_promise
  promise,
  listener,     \* the nmt_listener thread
  published,    \* the NMT state published last
  arrived,      \* messages of each kind: arrived, in the queue, handed on last
  queue,
  handed,
  queue_ptr,    \* are emcy_queue_ and rpdo_queue_ set?
  armed,        \* does poll_timer_ run, or has the bridge the sync function?
  poll,         \* the poll callback: "idle", or the queue it reads
  taken,        \* messages it took from that queue
  user,         \* a callback of the proxy driver
  evidence,     \* history: has a boot of the device succeeded?
  crash

thread == <<conf, pc, activations, attempt>>
bridge == <<activated, lely_driver, motor, registered>>
bootVars == <<booted, boot_status, notified, evidence>>
device == <<booting, boots, ready>>
nmt == <<state, nmt_is_set, promise, published>>
messages == <<arrived, queue, handed, queue_ptr, armed>>
polling == <<poll, taken>>
boot == <<bootVars, device>>
looping == <<tasks, loop>>
actors == <<nmt, listener, messages, polling, user, crash>>
vars == <<thread, bridge, tasks, loop, bootVars, device, nmt, listener, messages,
          polling, user, crash>>

Kinds == {"emcy", "rpdo"}
Outcomes == {"ok", "L", "error"}    \* of a boot: es is 0, 'L' or another letter
NoState == 0
Broken == conf.states + 1

TypeOK ==
  /\ conf \in Configurations
  /\ pc \in {"idle", "adding", "check", "test", "block", "waiting", "added", "queues",
             "flag", "active", "remove", "join", "cancel", "reset_emcy", "reset_rpdo", "failed"}
  /\ activations \in 0 .. conf.activations
  /\ attempt \in 0 .. BootAttempts
  /\ activated \in BOOLEAN /\ lely_driver \in BOOLEAN
  /\ motor \in BOOLEAN /\ registered \in BOOLEAN
  /\ tasks \in Seq({"add", "remove"} \cup Outcomes)
  /\ loop \in {"idle", "sync"} \cup Outcomes
  /\ booted \in BOOLEAN /\ boot_status \in Outcomes /\ notified \in BOOLEAN
  /\ booting \in BOOLEAN /\ boots \in 0 .. conf.boots /\ ready \in BOOLEAN
  /\ state \in 0 .. conf.states
  /\ nmt_is_set \in BOOLEAN
  /\ promise \in 0 .. Broken
  /\ listener \in {"none", "request", "unlock", "wait", "got", "use", "ended"}
  /\ published \in 0 .. conf.states
  /\ arrived \in [Kinds -> 0 .. conf.messages]
  /\ queue \in [Kinds -> Seq(1 .. conf.messages)]
  /\ handed \in [Kinds -> 0 .. conf.messages]
  /\ queue_ptr \in [Kinds -> BOOLEAN]
  /\ armed \in BOOLEAN
  /\ poll \in Kinds \cup {"idle"}
  /\ taken \in 0 .. Batch
  /\ user \in {"idle", "use"}
  /\ evidence \in BOOLEAN
  /\ crash \in {"none", "loop", "listener", "poll", "user"}

Init ==
  /\ conf \in Configurations
  /\ pc = "idle" /\ activations = 0 /\ attempt = 0
  /\ activated = FALSE /\ lely_driver = FALSE /\ motor = FALSE /\ registered = FALSE
  /\ tasks = << >> /\ loop = "idle"
  /\ booted = FALSE /\ boot_status = "ok" /\ notified = FALSE
  /\ booting \in IF conf.ready THEN {FALSE} ELSE BOOLEAN
  /\ boots = 0 /\ ready = conf.ready
  /\ state = 0 /\ nmt_is_set = FALSE /\ promise = NoState /\ published = 0
  /\ listener = "none"
  /\ arrived = [k \in Kinds |-> 0] /\ queue = [k \in Kinds |-> << >>]
  /\ handed = [k \in Kinds |-> 0] /\ queue_ptr = [k \in Kinds |-> FALSE]
  /\ armed = FALSE /\ poll = "idle" /\ taken = 0
  /\ user = "idle"
  /\ evidence = conf.ready
  /\ crash = "none"

-----------------------------------------------------------------------------
(***************************************************************************)
(* The device and lely's boot process.                                     *)
(***************************************************************************)

\* The device announces itself, and the master boots it.
DeviceStarts ==
  /\ boots < conf.boots
  /\ boots' = boots + 1
  /\ booting' = TRUE
  /\ ready' = FALSE
  /\ UNCHANGED <<thread, bridge, looping, bootVars, actors>>

\* The boot process ends, and OnBoot is posted to the driver's executor.
BootEnds ==
  /\ booting
  /\ booting' = FALSE
  /\ \E es \in Outcomes :
       /\ ready' = (es # "error")
       /\ evidence' = (evidence \/ es # "error")
       /\ tasks' = IF registered THEN Append(tasks, es) ELSE tasks
  /\ UNCHANGED <<thread, bridge, loop, booted, boot_status, notified, boots, actors>>

-----------------------------------------------------------------------------
(***************************************************************************)
(* add_to_master().                                                        *)
(***************************************************************************)

Activate ==
  /\ pc = "idle"
  /\ activations < conf.activations
  /\ activations' = activations + 1
  /\ pc' = "adding"
  /\ tasks' = Append(tasks, "add")
  /\ UNCHANGED <<conf, attempt, bridge, loop, boot, actors>>

AddingTimesOut ==
  /\ pc = "adding"
  /\ "timeout" \in conf.faults
  /\ pc' = "failed"
  /\ UNCHANGED <<conf, activations, attempt, bridge, looping, boot, actors>>

CheckReady ==
  /\ pc = "check"
  /\ pc' = IF ready THEN "added" ELSE "test"
  /\ attempt' = IF ready THEN 0 ELSE 1
  /\ UNCHANGED <<conf, activations, bridge, looping, boot, actors>>

\* wait_for_boot() looks at booted before it locks boot_mtex ...
TestBooted ==
  /\ pc = "test"
  /\ pc' = IF booted THEN "added" ELSE "block"
  /\ UNCHANGED <<conf, activations, attempt, bridge, looping, boot, actors>>

\* ... and then waits for boot_cond.
Block ==
  /\ pc = "block"
  /\ pc' = "waiting"
  /\ notified' = FALSE
  /\ UNCHANGED <<conf, activations, attempt, bridge, looping, booted, boot_status, evidence,
                 device, actors>>

\* Mutant of AttemptFails: one attempt too many.
AttemptFailsOnceMore ==
  IF attempt <= BootAttempts
  THEN /\ pc' = "test"
       /\ attempt' = attempt + 1
       /\ booted' = FALSE
       /\ booting' = TRUE
       /\ ready' = FALSE
  ELSE /\ pc' = "failed"
       /\ UNCHANGED <<attempt, booted, booting, ready>>

\* wait_for_boot() throws: reset the device and boot it again, or give up.
AttemptFails ==
  IF attempt < BootAttempts
  THEN /\ pc' = "test"
       /\ attempt' = attempt + 1
       /\ booted' = FALSE
       /\ booting' = TRUE
       /\ ready' = FALSE
  ELSE /\ pc' = "failed"
       /\ UNCHANGED <<attempt, booted, booting, ready>>

\* Mutant of Awake: any notification is taken for a successful boot.
AwakeUnchecked ==
  /\ pc = "waiting"
  /\ notified \/ "spurious" \in conf.faults
  /\ pc' = "added"
  /\ booted' = TRUE
  /\ UNCHANGED <<conf, activations, attempt, bridge, looping, boot_status, notified,
                 evidence, device, actors>>

Awake ==
  /\ pc = "waiting"
  /\ notified \/ "spurious" \in conf.faults
  /\ IF boot_status = "error"
     THEN AttemptFails
     ELSE /\ pc' = "added"
          /\ booted' = TRUE
          /\ UNCHANGED <<attempt, booting, ready, evidence>>
  /\ UNCHANGED <<conf, activations, bridge, looping, boot_status, notified, evidence, boots,
                 actors>>

\* boot_timeout_ passes, also when a notification came too late.
BootTimesOut ==
  /\ pc = "waiting"
  /\ notified' = FALSE
  /\ AttemptFails
  /\ UNCHANGED <<conf, activations, bridge, looping, boot_status, evidence, boots, actors>>

-----------------------------------------------------------------------------
(***************************************************************************)
(* activate(true), deactivate() and deactivate(true).                      *)
(***************************************************************************)

\* The motors are made at the end of add_to_master() of the CiA 402 driver.
StartListener ==
  /\ pc = "added"
  /\ pc' = "queues"
  /\ attempt' = 0
  /\ motor' = conf.motors
  /\ listener' = "request"
  /\ UNCHANGED <<conf, activations, activated, lely_driver, registered, looping, boot, nmt,
                 messages, polling, user, crash>>

\* Mutant of TakeQueues: the timer is started without the EMCY queue.
TakeQueuesRpdoOnly ==
  /\ pc = "queues"
  /\ pc' = "flag"
  /\ queue_ptr' = [queue_ptr EXCEPT !["rpdo"] = TRUE]
  /\ armed' = TRUE
  /\ UNCHANGED <<conf, activations, attempt, bridge, looping, boot, nmt, listener, arrived,
                 queue, handed, polling, user, crash>>

\* The queues, and the timer or the sync function that reads them.
TakeQueues ==
  /\ pc = "queues"
  /\ pc' = "flag"
  /\ queue_ptr' = [k \in Kinds |-> TRUE]
  /\ armed' = TRUE
  /\ UNCHANGED <<conf, activations, attempt, bridge, looping, boot, nmt, listener, arrived,
                 queue, handed, polling, user, crash>>

SetActivated ==
  /\ pc = "flag"
  /\ pc' = "active"
  /\ activated' = TRUE
  /\ UNCHANGED <<conf, activations, attempt, lely_driver, motor, registered, looping, boot,
                 actors>>

Deactivate ==
  /\ pc = "active"
  /\ pc' = "remove"
  /\ activated' = FALSE
  /\ tasks' = Append(tasks, "remove")
  /\ UNCHANGED <<conf, activations, attempt, lely_driver, motor, registered, loop, boot,
                 actors>>

\* The thread is not joined then, and the timer not cancelled.
RemovingTimesOut ==
  /\ pc = "remove"
  /\ "timeout" \in conf.faults
  /\ pc' = "failed"
  /\ UNCHANGED <<conf, activations, attempt, bridge, looping, boot, actors>>

JoinListener ==
  /\ pc = "join"
  /\ listener = "ended"
  /\ listener' = "none"
  /\ pc' = "cancel"
  /\ UNCHANGED <<conf, activations, attempt, bridge, looping, boot, nmt, messages, polling,
                 user, crash>>

\* cancel() does not wait for a callback that runs.  The sync function stays.
CancelTimer ==
  /\ pc = "cancel"
  /\ pc' = "reset_emcy"
  /\ armed' = (armed /\ ~conf.polling)
  /\ UNCHANGED <<conf, activations, attempt, bridge, looping, boot, nmt, listener, arrived,
                 queue, handed, queue_ptr, polling, user, crash>>

ResetQueue ==
  /\ \/ /\ pc = "reset_emcy" /\ pc' = "reset_rpdo"
        /\ queue_ptr' = [queue_ptr EXCEPT !["emcy"] = FALSE]
     \/ /\ pc = "reset_rpdo" /\ pc' = "idle"
        /\ queue_ptr' = [queue_ptr EXCEPT !["rpdo"] = FALSE]
  /\ UNCHANGED <<conf, activations, attempt, bridge, looping, boot, nmt, listener, arrived,
                 queue, handed, armed, polling, user, crash>>

-----------------------------------------------------------------------------
(***************************************************************************)
(* The loop.                                                               *)
(***************************************************************************)

NextTask(t) ==
  /\ loop = "idle"
  /\ tasks # << >>
  /\ Head(tasks) = t
  /\ tasks' = Tail(tasks)

\* Make the bridge.  The master refuses a second driver for the node: the exception
\* leaves the task.
AddTask ==
  /\ NextTask("add")
  /\ IF registered
     THEN /\ crash' = "loop"
          /\ UNCHANGED <<pc, lely_driver, registered, booted, boot_status, nmt, arrived,
                         queue, handed, armed>>
     ELSE /\ lely_driver' = TRUE
          /\ registered' = TRUE
          /\ pc' = IF pc = "adding" THEN "check" ELSE pc
          /\ booted' \in conf.garbage
          /\ nmt_is_set' \in conf.garbage
          /\ boot_status' = "ok"
          /\ state' = 0 /\ promise' = NoState /\ published' = 0
          /\ arrived' = [k \in Kinds |-> 0]
          /\ queue' = [k \in Kinds |-> << >>]
          /\ handed' = [k \in Kinds |-> 0]
          /\ armed' = FALSE
          /\ UNCHANGED crash
  /\ UNCHANGED <<conf, activations, attempt, activated, motor, loop, notified, evidence,
                 device, listener, queue_ptr, polling, user>>

\* Reset lely_driver_, without driver_mutex_.  Unless a motor keeps it, the bridge goes,
\* and with it the promise, the sync function and what was posted for it.
RemoveTask ==
  /\ NextTask("remove")
  /\ lely_driver' = FALSE
  /\ registered' = (registered /\ motor)
  /\ promise' = IF promise = NoState /\ ~motor THEN Broken ELSE promise
  /\ armed' = (armed /\ (motor \/ conf.polling))
  /\ pc' = IF pc = "remove" THEN "join" ELSE pc
  /\ UNCHANGED <<conf, activations, attempt, activated, motor, loop, boot, state,
                 nmt_is_set, published, listener, arrived, queue, handed, queue_ptr,
                 polling, user, crash>>

\* OnBoot: booted first ...
OnBoot ==
  /\ \E es \in Outcomes :
       /\ NextTask(es)
       /\ IF registered
          THEN /\ booted' = (booted \/ es = "ok")
               /\ loop' = es
          ELSE UNCHANGED <<booted, loop>>
  /\ UNCHANGED <<thread, bridge, boot_status, notified, evidence, device, actors>>

\* ... then, with boot_mtex locked, the status and the notification.
OnBootNotify ==
  /\ loop \in Outcomes
  /\ loop' = "idle"
  /\ boot_status' = loop
  /\ notified' = (pc = "waiting")
  /\ UNCHANGED <<thread, bridge, tasks, booted, evidence, device, actors>>

\* Mutant of OnState: it does not look whether the last state was fetched.
OnStateAlways ==
  /\ loop = "idle"
  /\ registered
  /\ state < conf.states
  /\ state' = state + 1
  /\ IF promise = NoState
     THEN promise' = state' /\ nmt_is_set' = TRUE /\ UNCHANGED crash
     ELSE crash' = "loop" /\ UNCHANGED <<promise, nmt_is_set>>
  /\ UNCHANGED <<thread, bridge, looping, boot, published, listener, messages, polling,
                 user>>

\* OnState drops a state when the last one was not fetched, or nmt_mtex is locked.
OnState ==
  /\ loop = "idle"
  /\ registered
  /\ state < conf.states
  /\ state' = state + 1
  /\ IF nmt_is_set \/ listener = "unlock"
     THEN UNCHANGED <<nmt_is_set, promise, crash>>
     ELSE IF promise = NoState
          THEN promise' = state' /\ nmt_is_set' = TRUE /\ UNCHANGED crash
          ELSE crash' = "loop" /\ UNCHANGED <<promise, nmt_is_set>>
  /\ UNCHANGED <<thread, bridge, looping, boot, published, listener, messages, polling,
                 user>>

\* OnRpdoWrite and OnEmcy.
OnMessage(k) ==
  /\ loop = "idle"
  /\ registered
  /\ arrived[k] < conf.messages
  /\ arrived' = [arrived EXCEPT ![k] = @ + 1]
  /\ queue' = [queue EXCEPT ![k] = Append(@, arrived'[k])]
  /\ UNCHANGED <<thread, bridge, looping, boot, nmt, listener, handed, queue_ptr, armed,
                 polling, user, crash>>

-----------------------------------------------------------------------------
(***************************************************************************)
(* The poll callback.                                                      *)
(***************************************************************************)

\* The timer fires on a thread of the executor, or SYNC arrives on the loop.
StartPoll ==
  /\ poll = "idle"
  /\ armed
  /\ conf.polling \/ (loop = "idle" /\ registered)
  /\ loop' = IF conf.polling THEN loop ELSE "sync"
  /\ poll' = "emcy"
  /\ taken' = 0
  /\ UNCHANGED <<thread, bridge, tasks, boot, nmt, listener, messages, user, crash>>

\* Mutant of TakeMessage: the newest message first.
TakeMessageLast(k) ==
  /\ handed' = [handed EXCEPT ![k] = queue[k][Len(queue[k])]]
  /\ queue' = [queue EXCEPT ![k] = SubSeq(@, 1, Len(@) - 1)]

\* A message is handed to on_emcy or on_rpdo; the latter drops it before activated_.
TakeMessage(k) ==
  /\ handed' = [handed EXCEPT ![k] = IF k = "emcy" \/ activated THEN Head(queue[k]) ELSE @]
  /\ queue' = [queue EXCEPT ![k] = Tail(@)]

\* The poll callback leaves the loop over a queue, for the other one or its end.
LeaveQueue ==
  /\ poll' = IF poll = "emcy" THEN "rpdo" ELSE "idle"
  /\ taken' = 0
  /\ loop' = IF poll = "rpdo" /\ loop = "sync" THEN "idle" ELSE loop

\* It leaves it when the queue is empty, after so many messages, or when a handler throws.
PollStep ==
  /\ poll # "idle"
  /\ \/ /\ ~queue_ptr[poll]
        /\ crash' = "poll"
        /\ UNCHANGED <<handed, queue, polling, loop>>
     \/ /\ queue_ptr[poll]
        /\ queue[poll] # << >> /\ taken < Batch
        /\ TakeMessage(poll)
        /\ crash' = IF conf.callbacks /\ ~lely_driver THEN "poll" ELSE crash
        /\ \/ taken' = taken + 1 /\ UNCHANGED <<poll, loop>>
           \/ "throw" \in conf.faults /\ LeaveQueue
     \/ /\ queue_ptr[poll]
        /\ queue[poll] = << >> \/ taken = Batch
        /\ LeaveQueue
        /\ UNCHANGED <<handed, queue, crash>>
  /\ UNCHANGED <<thread, bridge, tasks, boot, nmt, listener, arrived, queue_ptr, armed,
                 user>>

-----------------------------------------------------------------------------
(***************************************************************************)
(* The nmt_listener thread, and the callbacks of the proxy driver.         *)
(***************************************************************************)

\* async_request_nmt(), with nmt_mtex locked ...
RequestNmt ==
  /\ listener = "request"
  /\ IF lely_driver
     THEN /\ nmt_is_set' = FALSE
          /\ promise' = NoState
          /\ listener' = "unlock"
          /\ UNCHANGED crash
     ELSE crash' = "listener" /\ UNCHANGED <<nmt_is_set, promise, listener>>
  /\ UNCHANGED <<thread, bridge, looping, boot, state, published, messages, polling, user>>

\* ... and unlocked again.
UnlockNmt ==
  /\ listener = "unlock"
  /\ listener' = "wait"
  /\ UNCHANGED <<thread, bridge, looping, boot, nmt, messages, polling, user, crash>>

\* Mutant of NmtTimesOut: the listener ends with the promise only.
NmtNeverTimesOut == FALSE /\ UNCHANGED vars

\* non_transmit_timeout_ passes without a state: the thread ends if activated_ is not set.
NmtTimesOut ==
  /\ listener = "wait"
  /\ promise = NoState
  /\ ~activated
  /\ pc \in {"queues", "flag"} => "slow" \in conf.faults
  /\ listener' = "ended"
  /\ UNCHANGED <<thread, bridge, looping, boot, nmt, messages, polling, user, crash>>

\* The future is ready: a state, or a broken promise, which ends the thread.
GetNmt ==
  /\ listener = "wait"
  /\ promise # NoState
  /\ listener' = IF promise = Broken THEN "ended" ELSE "got"
  /\ UNCHANGED <<thread, bridge, looping, boot, nmt, messages, polling, user, crash>>

\* Mutant of HandleNmt: the next state is requested first.
HandleNmtLater ==
  /\ listener = "got"
  /\ listener' = "request"
  /\ UNCHANGED <<thread, bridge, looping, boot, nmt, messages, polling, user, crash>>

\* nmt_state_cb_(), and on_nmt() as far as its look at activated_.
HandleNmt ==
  /\ listener = "got"
  /\ crash' = IF conf.callbacks /\ ~lely_driver THEN "listener" ELSE crash
  /\ listener' = IF activated THEN "use" ELSE "request"
  /\ UNCHANGED <<thread, bridge, looping, boot, nmt, messages, polling, user>>

PublishNmt ==
  /\ listener = "use"
  /\ IF lely_driver
     THEN published' = promise /\ UNCHANGED crash
     ELSE crash' = "listener" /\ UNCHANGED published
  /\ listener' = "request"
  /\ UNCHANGED <<thread, bridge, looping, boot, state, nmt_is_set, promise, messages,
                 polling, user>>

\* tpdo_transmit() or an NMT command of the proxy driver looks at activated_ ...
UserCalls ==
  /\ user = "idle"
  /\ activated
  /\ user' = "use"
  /\ UNCHANGED <<thread, bridge, looping, boot, nmt, listener, messages, polling, crash>>

\* ... and then uses the bridge.
UserUses ==
  /\ user = "use"
  /\ user' = "idle"
  /\ crash' = IF lely_driver THEN crash ELSE "user"
  /\ UNCHANGED <<thread, bridge, looping, boot, nmt, listener, messages, polling>>

-----------------------------------------------------------------------------
Adding == AddingTimesOut \/ CheckReady \/ TestBooted \/ Block \/ Awake \/ BootTimesOut

Activating == StartListener \/ TakeQueues \/ SetActivated

Removing == RemovingTimesOut \/ JoinListener \/ CancelTimer \/ ResetQueue

Thread == Adding \/ Activating \/ Removing

Tasks == AddTask \/ RemoveTask \/ OnBoot \/ OnBootNotify

Listener == RequestNmt \/ UnlockNmt \/ NmtTimesOut \/ GetNmt \/ HandleNmt \/ PublishNmt

Next ==
  /\ crash = "none"
  /\ \/ DeviceStarts \/ BootEnds
     \/ Activate \/ Deactivate \/ Thread
     \/ Tasks \/ OnState \/ \E k \in Kinds : OnMessage(k)
     \/ StartPoll \/ PollStep
     \/ Listener
     \/ UserCalls \/ UserUses

\* Every thread goes on; the loop runs its tasks also when SYNC comes again and again.
\* Nothing makes the device send, the node change its state or a client call.
Fairness ==
  /\ WF_vars(crash = "none" /\ Thread)
  /\ SF_vars(crash = "none" /\ Tasks)
  /\ WF_vars(crash = "none" /\ PollStep)
  /\ WF_vars(crash = "none" /\ Listener)

Spec == Init /\ [][Next]_vars

FairSpec == Spec /\ Fairness

-----------------------------------------------------------------------------
(***************************************************************************)
(* Properties.                                                             *)
(***************************************************************************)

\* add_to_master() returns only when a boot of the device has succeeded: IsReady(), booted
\* and boot_status never say so of a device that none has, whatever attempts have failed
\* or timed out, provided no wakeup is spurious and the memory of the bridge was zero.
BootedWhenAdded ==
  pc = "added" /\ "spurious" \notin conf.faults /\ conf.garbage = {FALSE} => evidence

\* As long as the driver comes up and works, no thread meets a null pointer: lely_driver_,
\* emcy_queue_ and rpdo_queue_ are set before the listener, the timer or a callback of
\* the proxy driver needs them.  (What the last activation left running may.)
SafeInOperation ==
  crash # "none" =>
    \/ pc \in {"remove", "join", "cancel", "reset_emcy", "reset_rpdo", "idle", "failed"}
    \/ activations > 1

\* What runs on the loop is safe at any time, as the bridge is removed there too: OnState
\* satisfies a promise once, and in event mode the poll callback never meets a reset
\* queue or bridge.  (A bridge that no motor keeps.)
LoopIsSafe ==
  ~conf.motors =>
    crash # "loop" /\ (crash = "poll" => conf.polling)

\* The messages of a bridge reach on_emcy and on_rpdo in their order and, from the first
\* on, without a gap, over however many polls, until activated_ is cleared.
NoMessageLost ==
  [][\A k \in Kinds : handed'[k] # handed[k] /\ handed[k] # 0 /\ handed'[k] # 0
       => handed'[k] = handed[k] + 1]_vars

\* Whatever the listener is doing when the driver is deactivated, deactivate() gets past
\* the join: the promise is broken, or the wait times out and finds activated_ cleared.
\* The exception is the process that ends before: RemoveTask resets lely_driver_ while
\* the listener, the poll timer or a callback of the proxy driver may be about to use it,
\* and the thread that meets the null pointer takes deactivate() with it.  The loop never
\* does (crash = "loop" is no excuse).
DeactivateReturns ==
  pc = "remove" ~> pc \in {"idle", "failed"} \/ crash \in {"listener", "poll", "user"}

\* A state that satisfies a promise the listener has asked for is published, unless the
\* driver is deactivated or the process has ended.  (One that comes before the first
\* request is lost.)
StatesArePublished ==
  \A s \in UNION {1 .. c.states : c \in Configurations} :
    promise = s /\ activated /\ listener = "wait" ~>
      published = s \/ ~activated \/ crash # "none"
=============================================================================
