# Verification of ros2_canopen

TLA+ models of the ROS 2 CANopen stack, the TLC instances that check them, and
TLAPS proofs about them. The code is the reference: every definition is
translated from the source lines that `PROJECT.json` names under `map`.

## The system

A CAN bus is run by one *device container* process. It loads a *master* (which
owns the lely CANopen event loop and a thread that runs it), one *driver* per
device on the bus, and, if the bus is managed, a *lifecycle manager* that brings
all of them up and down. ROS executor threads and the thread of the CANopen loop
meet in the *bridges*: objects that hand requests to lely and bring answers back.

| Component | State it keeps | Operations | Interacts with | What is hard | What makes it correct |
|---|---|---|---|---|---|
| **Driver bridge** (`canopen_base_driver/lely_driver_bridge`) | `running`, `sdo_mutex`, `sdo_cond`, `sdo_read_promise`, `sdo_write_promise`; `booted`, `boot_mtex`, `boot_cond`; `nmt_state_promise`, `rpdo_queue`, `pdo_map_` | `async_sdo_read`/`_write`, `sync_sdo_*_typed`, `OnBoot`, `OnState`, `OnRpdoWrite`, `wait_for_boot`, `tpdo_transmit` | ROS threads call it, lely calls it back on the loop thread | a gate tested once, shared promise members, late answers, refused requests, exceptions | one request at a time, a future gets its own reply, no lost wakeup, every call returns |
| **Proxy driver** (`canopen_proxy_driver`) | `sdo_mtex`, `pre_operational` | services `sdo_read`, `sdo_write`, `nmt_*`, topic `tpdo`, publishers | bridge | services on several executor threads | services do not overlap on the bridge |
| **Base driver** (`node_canopen_base_driver_impl.hpp`) | `lely_driver_`, `driver_mutex_`, NMT listener and poll threads, `polling_` | `add_to_master`, `remove_from_master`, `nmt_listener`, `poll_timer_callback`, diagnostics | bridge, master's executor | tasks posted to another thread with a time limit, a pointer reset under its users, retries of the boot | the bridge is only used while it exists, states arrive |
| **Managed nodes** (`node_canopen_driver.hpp`, `node_canopen_master.hpp`) | `configured_`, `activated_`, `initialised_`, `master_set_`, lifecycle state | `configure`, `activate`, `deactivate`, `cleanup`, `shutdown`, `set_master`, `demand_set_master` | container (`init_driver`), manager (`change_state`), loop | waits inside callbacks, five retries whose late copies are still served | no driver holds a master whose loop does not run |
| **Device container** (`device_container.cpp`) | maps of drivers, `can_master_`, `lifecycle_manager_`, executor | `init` (configure, load master, drivers, manager), `init_driver`, `list_nodes`, `shutdown` | nodes | services are served while it loads, exceptions end the process, an interrupt while it waits | a bus that is ready is complete, the master goes last |
| **Lifecycle manager** (`lifecycle_manager.cpp`) | device map, `master_id_`, own lifecycle state | `bring_up_all`, `bring_down_all`, `change_state`, `get_state` | nodes' lifecycle services | timeouts that leave requests behind, no rollback, ignored results | order of start-up, its state tells the truth, completion |
| **Master bridge** (`lely_master_bridge`) | a second SDO gate, `nmt_promise`, `running` never initialised | `async_write_sdo`, `async_read_sdo`, `async_write_nmt` | master's services | as the driver bridge, with other error paths | as the driver bridge |
| **CiA 402 driver** (`canopen_402_driver`) | `target_state_`, `State402`, `control_word_`, `start_fault_reset_`, `selected_mode_`, `mode_id_`, homing mode | `handleInit`, `handleEnable`, `switchState`, `switchMode`, `handleHalt`, `handleRecover`, `handleRead`, `handleWrite`, homing | bridge, drive | services and the poll timer share a state machine that the device drives too | transitions follow the CiA 402 diagram, commands lead to their state |
| **PDO path** (`lely_driver_bridge`) | the local dictionary and its mutex, `tpdo_mapped`, `pdo_map_` | `universal_get_value`, `universal_set_value`, `tpdo_transmit`, `OnRpdoWrite` | drivers, loop | two writers of one object, fallback to old values, PDO or SDO by mapping | the newest value is shown, the last one reaches the device |
| **CiA 401 / 408 / 410 drivers** | `remote_`, `axis_`, `inclinometer_`; phase, ticks and set point of the valve | poll, services, topics | bridge, PDO path | a wrapper reset under its users, lost writes during a climb | the valve obeys the services |
| **ros2_control** (`canopen_system`, `cia402_system`, `robot_system`, controllers) | command and state interfaces per device, container thread | `on_configure`, `on_activate`, `read`, `write`, `perform_command_mode_switch`, services of the controllers | container, drivers | three threads over plain doubles, leftovers of failed calls | a command is applied once and answered for, what is published settles, motors are enabled while active |
| **Configuration manager**, interfaces, fake slaves, launch files, vendored core | a YAML map, read once | parsing | all | none | none stated |

`PROJECT.json` lists the components with their status, and under `hazards` what
in this code is hard to test, each at its line.

## The modules

| Module | Models | Kind |
|---|---|---|
| `SdoGate` | the SDO gate of the driver bridge with its callers (proxy services and typed calls) and the completion callbacks | specification |
| `MCSdoGate` | who calls, and the end of a bounded behaviour of `SdoGate` | for TLC |
| `SdoGateProof` | theorems about `SdoGate` | proofs |
| `LifecycleNodes` | master, drivers, the loop's tasks and the container's `init_driver`, as actions | component |
| `LifecycleManager` | the manager, composed with `LifecycleNodes` over the service calls | specification |
| `MasterUse` | what both, `LifecycleManager` and `DeviceContainer`, promise about the master | abstract specification |
| `LifecycleProof` | theorems about `LifecycleManager`, the refinement of `MasterUse` among them | proofs |
| `BaseDriver` | one driver between activation and deactivation: boot handshake, bridge, NMT listener, poll callback, queues, the proxy driver's callbacks | specification |
| `MCBaseDriver` | the drivers and surroundings to look at | for TLC |
| `BaseDriverProof` | theorems about `BaseDriver` | proofs |
| `Cia402` | status word, control word, transition table and the drive's reaction, as operators | data |
| `Motor402` | `Motor402` between its clients, the poll timer and a drive | specification |
| `MCMotor402` | the clients of a real system, and what uninitialised memory may hold | for TLC |
| `Motor402Proof` | theorems about `Cia402` and `Motor402` | proofs |
| `DeviceContainer` | the container and its `main()`: loading a bus configuration, its services, shutdown | specification |
| `DeviceContainerProof` | theorems about `DeviceContainer`, the refinement of `MasterUse` among them | proofs |
| `ProfileDrivers` | the way of a value through a driver of the 401, 408 and 410 families and the PDO path | specification |
| `ValveDriver` | the hydraulic axis of CiA 408 and its valve | specification |
| `ProfileDriversProof` | theorems about `ValveDriver` and `ProfileDrivers` | proofs |
| `MCDevices` | `DeviceContainer`, `ProfileDrivers` and `ValveDriver` side by side: the bus configurations, the drivers and the demands on the valve to look at | for TLC |
| `Ros2Control` | the doubles between a controller and a hardware system, with their three threads | specification |
| `Ros2ControlProof` | theorems about `Ros2Control` | proofs |
| `RobotSystem` | transitions and mode switches of the robot system | specification |
| `RobotSystemProof` | theorems about `RobotSystem` | proofs |
| `MCRos2Control` | `Ros2Control` and `RobotSystem` side by side: what the controllers do, and the joints of a robot | for TLC |

`LifecycleNodes` keeps what `BaseDriver` and `DeviceContainer` show in detail to
what the manager can see of it: a task that runs in time or late, a boot that
succeeds or not, an `init_driver` that is served or throws.

### `SdoGate` and the code

A caller is a ROS thread. `pc` says where it is: before the proxy driver's
`sdo_mtex` (`lock`), at the gate (`enter`), in `sdo_cond.wait()` (`waiting`, and
`woken` once notified and until it has `sdo_mutex` back), or waiting for its
future (`future`). Between taking and leaving `sdo_mutex` a thread runs alone,
so each such section is one action; the exception is the wait, which releases
the mutex and splits the section in `EnterWait` and `Resume`. `PassGate` is what
both `Enter` and `Resume` do, with one disjunct for each way through the code:
`Submit`, `Refuse` (the dictionary has no such object), `Strand` (a type the
`switch` does not know), `ReadThrows`, `WriteThrows`, `TypedThrows` (lely throws).
The code tests `running` with an `if`; accordingly `Resume` has no guard on it. An exception
of lely in a typed call ends the process, or its caller catches it and goes on
(`write_output_byte` of the M880, the inclinometer, `OnSync`). Like an object of an unknown
type it leaves `running` set (`LeaveShut`); `deserted` remembers that no request stands
behind the flag, until some completion clears it.

The completion callback has two steps, because the code sets the promise before
it takes `sdo_mutex`: `Reply` and `OpenGate`. Calls are numbered; a promise is
named by the number of the call that made it, and `reply` remembers whose answer
it was given, which only `OwnReply` reads. lely's client SDO queue is a sequence:
it answers requests in their order. `sdo_read_promise` and `sdo_write_promise`
hold the number of the call whose promise the member points to (0: null).

Data is abstracted to whether the dictionary knows an object, and a reply with
an abort code counts as a reply. lely may refuse a request by an exception where
`SubmitThrows` is TRUE.

### `LifecycleNodes`, `LifecycleManager` and the code

Node 0 is the master, nodes 1 to `N` are the drivers in the order in which the
manager's map lists them. A transition callback that waits is split where it
waits: `handler` names what it waits for (`demand`: the container's answer to
`init_driver`; `add` and `remove`: the task it posted to the loop; `boot`: the
boot of the device; `stop`: the end of the loop's thread). What it does before
the wait is the action that takes the request (`Configure`, `Activate`, ...), what
it does after is part of the action that ends the wait (`SetMaster`, `Booted`,
`RunTask`, `StopLoop`) or of the timeout (`DemandTimeout`, `TaskTimeout`). A
timeout takes nothing back: the call stays in `demands`, the task in `posted`, and
both are served later. A callback that throws ends in `finalized`
(`rclcpp_lifecycle` calls `on_error`, which is not overridden).

The manager's callback is a sequence of `get_state` and `change_state` calls;
`step` and `at` say which call for which device, `Proceed` which one comes next.
`call` and `reply` are the one call under way. A call that timed out stays in the
node's queue `requests`, and a node answers it to nobody (`Answer`). The two
results that `bring_down_driver` and `bring_down_master` ignore are ignored by
`Good`.

`MasterUse` is the promise on top: the master's loop starts, drivers take hold of
it and let go, it stops when none holds it. `Use` in `LifecycleManager` is the
refinement mapping; a driver *holds* the master while it has been given it, has
its bridge on the loop, or is active. `Use` in `DeviceContainer` is another: the master is up
from its load to its shutdown, whoever asks for it. There a driver whose own activation or
deactivation failed (`left`) is not among the holders: the container goes on and shuts the
master down with that driver on it.

### `BaseDriver` and the code

One driver. `pc` is the thread in `activate()` or `deactivate()`: it posts a task to
the loop and waits (`adding`), asks `IsReady()` (`check`), and waits for the boot
(`test`, `block`, `waiting`: `wait_for_boot` looks at `booted` before it locks
`boot_mtex`), `BootAttempts` times. It then starts the listener, takes the queues and
arms the timer, and sets `activated_`, one action each, as the other threads run
between them. `deactivate()` goes the other way: `remove`, `join`, `cancel`, `reset_emcy`,
`reset_rpdo`. `tasks` is what was posted to the loop, with the outcome of a boot as
the task `OnBoot`; `OnBoot` has two steps because it sets `booted` before it takes the mutex,
under which it sets `boot_status` and notifies. The listener's steps are those between its accesses of shared state:
`RequestNmt`, `UnlockNmt`, the wait, `GetNmt`, `HandleNmt`, `PublishNmt`. In event mode the
poll callback runs on the loop, at each SYNC, and holds it.

Messages and states are numbers in their order of arrival. `crash` names the thread that
met a null pointer, satisfied a promise twice or threw on the loop; nothing happens
after it. A configuration (`conf`) says what kind of driver it is and what surrounds it:
the fault `slow` lets the listener time out before `activated_` is set, `timeout` is that
of a posted task, `spurious` a wakeup, `throw` an exception of a handler, which the poll
callback catches, to leave the queue it is at (`LeaveQueue`). `garbage` is what the flags of a bridge may hold that
its constructor does not set.

### `Cia402`, `Motor402` and the code

`Cia402` holds what is pure: `ReadStatus` is the `switch` of `State402::read`,
`Ops`, `Transitions` and `Apply` are the table of `Command402`, `Hop` the choice in
`setTransition`, `DriveStep` the reaction of the mock slave to a control word. A
word is the set of its named bits. `Start` and `Unknown` have the same value in the
code and are one state here.

In `Motor402` a thread is the poll timer or a *client*: the services of a node,
which are all in its default, mutually exclusive callback group and are one client, or the
ros2_control thread, which calls the driver directly. `op` is the operation a client
makes, `todo` its remaining steps (`Program`), `at` where it is inside one. A step is
what no other thread can split: what is done under `cw_mutex_` or `mode_mutex_`, or
one access of an atomic. So `readState` takes three (`Fetch` gets the status word,
`Store` sets `state_`, `ReadMode` sets `mode_id_`), `handleHalt` two (`HaltLook`,
`HaltAct`), and `switchState` is the loop `SwitchBegin`, `SwitchAim`, then `SwitchTurn`,
`SwitchCommand`, `SwitchWait` until `SwitchEnd`; `target_state_` is read anew in
`SwitchTurn` and in `SwitchCommand`, as in the code. `seen` is the local variable `state`
of either function. `handleWrite` is one action, `HandleWrite`.

`drive` is the device: its state, the mode it shows and the one it was asked for,
the last control word it received, and whether a rising edge of the fault reset bit
came with it. The mock acts in the write itself and never faults; a real drive is
slower and does. So `DriveReact` is a step of its own (a word may be overtaken by the
next one), `DriveFaults`, `DriveFaultHandled` and `DriveResetsFault` are those of a CiA
402 drive, and `DriveQuickStops` is the transition the comments of the table expect
("transit to Switch_On_Disabled") and the mock lacks; these are marked external.

Not initialised by the constructor are `control_word_`, `mode_id_` and
`start_fault_reset_`: `Init` takes them from `Garbage`. `target_state_` is not either, but
is never read before it is set.

Abstracted: the set points, whose only trace is `has_target_`, the modes that have
one to send (for homing its `execute_`); the bits of the modes in the control word;
`CW_Halt`, which every `handleWrite` sets anew and which is kept only in the word
sent; homing, which begins (`HomeBegin`) and ends well or not (`HomeEnd`), or does
not begin (`HomeNone`). `handleShutdown` is modelled although only a user of the
class can call it: no service does.

`history` remembers what the properties speak about and is read by no action: the
promise of the last operation, whether a quick stop was commanded since the last
target was set, whether a halt returned true since the last operation was asked for.

### `DeviceContainer` and the code

Two threads: `init` is where the one of `DeviceContainer::init()` is, `main` what
`main()` does with the executor. A device is a place in the map of the configuration,
which is sorted by names; its record says what its name contains, its node id,
whether its entries are there, and what its component is like. `init_config` leaves
`options` out (`Devices`; `at` passes over their places). `LoadMaster` takes the first name with *master* in it, and
`load_component` makes a driver of one that is not called *master*: the pointer to
the master is then null, and `ended` is `"null"`. `LoadDriver` rejects incomplete entries,
node ids that are taken, and components of the other kind than the master's. A
standalone driver asks for the master with `init_driver` (`Demand`), up to
`Attempts` times; requests that timed out stay in `demands`, in their order, and are
served later, when `set_master` may throw in the executor. Every exception that
leaves `init()` ends the process (`Throws`), which is what the code means by it.
`Interrupt` ends the spinning at any time; `main()` then joins the thread of `init()`,
shuts down the drivers in the order of their node ids and the master after them, and
once more in the destructor (`turn`). `left` remembers the drivers whose own activation
or deactivation failed.

### `ProfileDrivers`, `ValveDriver` and the code

`ProfileDrivers` follows one input and one output through a driver: `StartPoll`,
`ReadValue`, `AskForInput`, `ReadDictionary` and `Publish` are the poll callback, which tests the
wrapper (`remote_`, `inclinometer_`, `axis_`) once and uses it several times;
`OnDigitalOutput` tests it and `SetValue` uses it, a step later. `SetValue` with
`StoreInDictionary`, `StoreMapped` and `WriteEvent` is `universal_set_value` and the same
steps are `tpdo_transmit`, which stores into `tpdo_mapped` first and takes the mutex of
the dictionary (`holder`) afterwards. `Mapping` is `fetchRPDO` and `fetchTPDO`: where both
map an object, that of the TPDO stays. Without a PDO a value goes by SDO: `request` is the
one under way (`SdoGate` shows how they wait for each other), the device serves it
(`ServeSdo`), and a success stores the value in the dictionary, also when the caller has given
up (`EndSdo`, `GiveUpReading`, `GiveUpWriting`); a failure, before or after the device
served it, stores nothing (`FailSdo`). A read that failed or was given up looks the
value up in the dictionary. The node posts the reset of the wrapper to the loop when it
is deactivated; the task of `add_to_master` makes a bridge with a dictionary of its own. Values are
numbered in the order in which the device takes them or in which they are asked for.

`ValveDriver` is `HydraulicAxis408` and the services of its node under
`io_mutex_`. `AdvancePhase`, `WriteControlword` and `StreamSetpoint` are one `spin_once()`,
in which the set point can change between the steps, because `set_setpoint` stores it
before it takes the mutex. The number 16384 of the code (the full stroke) is `Full`,
2^15 is `2 * Full`, and the wrap of an `int16_t` is `AsInt16`. The valve is external; it
obeys the words as the comments in `hydraulic_axis.hpp` say, faults, and is reset: by a power
cycle, or by the NMT reset that the inherited services offer, behind the back of the axis.
`upset` remembers what it does not know.

### `Ros2Control`, `RobotSystem` and the code

A double that a controller and a system share is a command (in `cmd` when it is not
NaN) or a feedback (`fbk`). The control loop is one thread, `loop` says where it is:
`update()` of the controller (`nmt`, `rpdo`, `rpdo_data`, `publish`, `tpdo`, `null`), then `write()` of
the system, which for each command in `Order` tests the double and makes it NaN
(`TestCommand`, `ClearCommanded`), calls the driver (`Act`, `TransmitTpdo`) and stores the
feedback (`StoreFeedback`). The services and the subscription of the controller are a
second thread, the drivers' callbacks the third (`OnRpdo`, `OnRpdoData`, `OnNmt`). Every
access of a double is a step of its own. `input` is the `RealtimeBuffer` with its two
sides and its flag, where `NullInput` reads a second time. Data are numbers below
`2 * Half`, where `Half` stands for 2^31: through an `int32_t` or a negative double they are
undefined from there on (`AsSent`, `AsPublished`). `mishap` remembers that a command was lost
between test and reset, or wiped by a deactivation.

In the `update()` of a controller an NMT state is a name: `nmt_state_actual_` begins with
`"BOOTUP"`, and the double it looks at holds what its memory did until the first state comes
(`conf.memory`). `Cia402System` hands no RPDO on.

`RobotSystem` is called by the controller manager from one thread. A transition or a
switch goes through the joints, one call of a driver a step (`at`, `GoOn`, `Stop`), and in between
the drivers' timers send their control words (`Poll`) and motors fault. Every call goes to
channel 0 of a node, so that joints of one node share a motor. A motor is `"off"`,
`"on"`, or about to leave or enter Operation Enable with the next control word. `InitMotor` of
one that is enabled zeroes its word and succeeds at once, unless the homing that may
follow enables it again; `RefuseMode` is `set_operation_mode` for a mode the motor has.
`to_start` is `interfaces_to_start` of each joint, of which a switch that is refused or fails
leaves some (`left`). `excused` remembers the motors that need not be as the phase says, and
forgets each at the next transition that reaches it. `Clean` ends the process,
because `clean()` joins a thread that is joined already. The driver's own services, which a
user may call beside the controller manager, are in `Motor402` only.

## The runs

| Run | Instance | Shows |
|---|---|---|
| `sdo_gate` | 2 services and 1 typed caller, 4 calls, lely throws, spurious wakeups. A behaviour has the services alone, with objects of all three kinds, or all callers, with objects the services' dictionary has | type invariant; lely never has the requests of two services (`ServicesOneAtATime`); nobody gets the reply to another request (`OwnReply`); every completion finds its promise unsatisfied (`CompletionsDeliver`); whoever waits at the gate has somebody to wake it, unless a call has deserted the gate (`NoLostWakeup`); with the same exception every call comes back (`CallsReturn`) |
| `sdo_race` | 1 service, 1 typed caller, nothing goes wrong | `OneRequestAtATime` is violated: a woken caller does not look at `running` again |
| `sdo_lost` | 1 service, 2 typed callers, an object the dictionary lacks | `CallsReturn` is violated: the refused call clears `running` and notifies nobody |
| `lifecycle` | 3 drivers, 3 attempts, every fault, 3 activations | type invariant, `MasterOutlivesDrivers`, `ContainerSurvives`, `ManagerTellsTheTruth`, `StartUpSequence`, `LifecycleManager` implements `MasterUse` (`UseSpec`), and callbacks that wait for each other end (`TransitionsComplete`) |
| `lifecycle_cleanup` | 1 driver, timeouts | `CleanupAfterDeactivate` is violated: the cleanup is requested whatever became of the deactivation |
| `base_driver` | 12 configurations of a driver: its boot, its messages by timer and by SYNC, its NMT states, two activations, with and without a motor that keeps the bridge, used memory, spurious wakeups, tasks that time out, handlers that throw | type invariant; a driver is added only if a boot of the device succeeded (`BootedWhenAdded`); no thread meets a null pointer while it comes up or works (`SafeInOperation`); the loop is safe at any time (`LoopIsSafe`); messages keep their order, without a gap (`NoMessageLost`); `deactivate()` gets past the join, unless another thread meets the pointer that its own task reset (`DeactivateReturns`); an NMT state the listener waits for is published (`StatesArePublished`) |
| `motor` | a behaviour is one of five *uses*: the services enable, recover, shut down and halt, or enable, shut down and disable, with one fault; they initialise with homing, switch modes and set targets, with one timeout; they initialise a motor that runs; or they recover and shut down while the ros2_control thread halts. The modes switch in Switched On | type invariant; what a successful operation promised holds until the next one or a fault (`PromiseHolds`); the quick stop stays commanded (`QuickStopStands`) and the drive obeys it (`QuickStopEnds`); a client that is alone gets out of every operation without its timeouts (`OperationsReturn`); no set point goes to a drive in another mode (`SetPointsInMode`) |
| `motor_halted` | 1 client, one timeout | `HaltHolds` is violated: a halt while the drive is not enabled takes back no command |
| `motor_disable` | 1 client, nothing goes wrong | `DisableSwitchesOff` is violated: `handleDisable` goes to Switched On, not to Switch On Disabled |
| `devices` | a container with a bus of up to four devices of every kind; or one of 12 drivers with 2 changes of an input and up to 2 values of an output by 2 writers, requests that fail, objects the dictionary lacks, 1 or 2 activations; or a valve with 3 calls, a fault or reset and a lost write | type invariant of the container; a bus that is ready is complete, nothing can end the process after that, and the master goes last (`ContainerKeepsOrder`); `DeviceContainer` implements `MasterUse` (`UseSpec`); `init()` ends and so does the process that is interrupted, but for one case (`InitEndsHere`). The topic never goes back and shows the newest value, the device has the last one written, the wrapper is there while the driver is active (`ValuesArrive`). The valve obeys the services (`ValveObeys`) |
| `ros2_control` | the services of both systems, TPDO and RPDO messages around 2^31, NMT states in three orders over memory of three kinds, a busy publisher, two activations; or a robot of 3 joints on 2 nodes, 2 switches of up to 2 interfaces, 1 failure or fault | type invariant; a service answers for its own operation (`AnswersOwn`) and comes back (`CallsReturn`); TPDOs are sent whole, once and in order (`SentWhole`), and the newest is sent (`LatestSent`); the last RPDO and NMT state are published in the end (`LastPublished`). What a switch of command modes that answers OK has done, and when one is refused (`SwitchTakes`); which motors are enabled in an active and in an inactive system (`EnabledWhileActive`) |
| `ros2_reset` | one service, the reset | `ResetReports` is violated: the service answers before the driver has carried the reset out |

**Side by side.** `devices` and `ros2_control` each check specifications that share no
state in one run. `part` says which of them a behaviour is one of; the others stay in their
initial state, and the properties of those hold of it trivially. The fairness of `MCDevices`
joins a thread of each, of which only that of the part in question can go on.

**Bounds.** `MaxCalls` bounds the calls through the gate. Three calls are needed
for the deepest interleaving (one is running, one waits, one overtakes); four
let a caller return, leave its request behind and call again. Two services are
needed to contend for `sdo_mtex`, one typed caller to bypass it. `MaxActivations`
bounds the activations of the manager: two let a second start meet what the
first left over, three is one more. Three drivers give one before and one after
the driver that fails. `Attempts` is 5 in the code; 3 has a first, a middle and a
last attempt, here and in the container. Where deadlock is not checked the system
may really stop: the process ends after a fault or an exception, the bound is
reached, or (`sdo_lost`) a caller waits for ever, which is what the run shows. In
`sdo_gate` the MC module adds the step of a behaviour that ended (`Finished`), and a
behaviour that stops anywhere else is reported.

For `BaseDriver`, `conf` has the bounds: one boot that the device begins on its own next to
the three attempts, two NMT states (one may overtake the other), two messages of
each kind with a `Batch` of one (10 in the code), so that a batch can be too small;
two activations let what the first left running meet the second.

For the container, two drivers suffice for a node id that is taken and for one that is
loaded while the other works; the configurations put the master first, second and
last, and have components of every kind. `Dwell` is 3 (15 cycles in the code: a first,
a middle and a last tick), `Full` is 2 (16384), and `Demands` has values of half and full
stroke, the one that means floating, and one an `int16_t` does not hold. One lost write
and a fault or reset at any time are met by a phase of three cycles; a phase of which
all writes are lost leaves the valve behind, which the code has no answer to either. `Half` is 2 (2^31), so that data are two
values below it and two above. In `RobotSystem` two joints share a node and one has two
interfaces; two switches of at most two interfaces (`MaxNamed`) let one meet what another left, and a
transition that failed is followed by every other.

For `Motor402` the variables are finite but for `MaxFaults` and `MaxTimeouts`; there is
no bound on operations or polls, so the runs cover every sequence of them. One
fault finds the fault reset at work; with a second one before the master has seen
the first one reset, the edge is lost and only the timeout ends the operation.
Two modes, the one a client asks for and homing, are what `SetPointsInMode` tells
apart. `Memory` has memory that was zero and memory with every bit set. What
one behaviour does with the axis is one of `Uses`, each with the fault or the timeout it is
about; with all of it at once the states are too many. The
client beside the one that halts makes the two operations that switch
to opposite ends and do not read the state first: with `enable`, which does, the
properties hold too, on eight times as many states. The configured state for the
mode switch is Operation Enable in the code's default; the
run uses Switched On, which makes the switch leave and enter operation.

**Fairness.** The executor is multi-threaded and the condition variable's wakeup
returns, so a thread that can run does: weak fairness of each step of a caller.
lely has a timeout on every SDO, so `Reply` is fair. `GiveUp`, spurious wakeups
and new calls are not. In `LifecycleManager` the executor serves the services,
the loop runs its tasks and devices boot in the end (`wait_for_boot` is retried);
the user and the timeouts are under no obligation. In `BaseDriver` every thread goes
on, and the loop runs a posted task even if SYNC messages keep it busy again and
again (strong fairness: the loop's queue is first in, first out); no device has to
send, and no client to call. In `Motor402` the timer fires
(`Poll`), the drive answers (`DriveAnswers`), and a client that
can go on does, which `OperationsReturn` needs. Nobody has to ask for an operation, no drive has to fault, and no
wait has to end by its timeout: the timeouts (5 s) are much longer than a poll, and
an operation that returned only by them would be a failed one. In `DeviceContainer`
the thread of `init()` goes on, also by the timeouts of its waits, and `main()` does
once the executor has stopped; nothing is assumed of the executor. In `ProfileDrivers`
the loop, the poll timer and a write that has begun go on, in `ValveDriver` the poll
timer, in `Ros2Control` the control loop, a service that can go on and a callback
that has begun, and the publisher is not busy for ever (strong fairness of
`PublishRpdo`: it sends what it has in a thread of its own); nobody has to send, call, activate or interrupt.

**Preconditions.** Where a property has an exception its comment names it, because the
code does it. `PromiseHolds` speaks about operations that were begun alone and with
nothing underway (`Settled`) and do not disable an enabled drive themselves (`Disables`), and
`OperationsReturn` about a fault reset bit that is down. These conditions are needed, because
of what the code does:

- `switchState` returns at once when `state_` is the target and leaves the control
  word alone. An enable right after a halt returns true while the drive is about to
  act on the quick stop; so does `handleInit` of a drive that is enabled, whose
  control word it has just zeroed.
- `handleRecover` does not read the state: with an old `state_` of Operation Enable it
  returns true and resets nothing.
- `handleRecover` has the control word sent once without the fault reset bit. When two
  clients switch states, one may set that bit late, for a fault it saw and the other has
  reset since, in a word with which the other is about to take the drive out of operation.
  With the bit up the word asks for nothing and the drive stays enabled; sent without it,
  the drive leaves Operation Enable, while `handleRecover` has seen that state and returns true.
- A fault is reset by a rising edge of a bit that only the next transition lowers.
  With the bit up already (an earlier fault, uninitialised memory), or with the low
  word sent while the drive is still in Fault Reaction, there is no edge.

In the modules of the other drivers and of ros2_control:

- A boot is only known to have succeeded if the bridge's memory was zero and no wakeup
  is spurious: `booted` and `boot_status` are read without asking why the wait ended.
- A listener whose first wait ends before `activated_` is set ends, and nothing is
  published (`StatesArePublished` speaks of one that waits). What it or the poll
  callback of the first activation still does may meet the second (`SafeInOperation`).
- The boot that lets a driver be added may be one that ended before this attempt began:
  `evidence` counts every boot of the device (`BootedWhenAdded`).
- `RemoveTask` resets `lely_driver_` while other threads use it. One that meets the null
  pointer ends the process, and `deactivate()` with it (`DeactivateReturns`).
- A call that leaves the SDO gate shut and no request behind it, because lely does not know
  its type or because its exception was caught, leaves everybody after it waiting
  (`NoLostWakeup`, `CallsReturn`).
- `list_nodes` during the load meets a null pointer (`ContainerKeepsOrder` begins after it).
- The executor of the container has enough threads for the service calls that wait in
  each other (`TransitionsComplete`).
- If `main()` is interrupted while a standalone driver waits for `init_driver`, the thread
  of `init()` waits for a service that nobody serves (`InitEnds`, which `MCDevices` states as `InitEndsHere`).
- A failed SDO read shows what was stored last (`ValuesArrive`), a failed write leaves the
  device with what it has; and `deactivate()` may
  stop the timer before it has sent the word that disables the valve (`ValveObeys`).
- `set_position` casts a demand to `int16_t` before `set_setpoint` clamps it: one beyond twice
  the full stroke may move the spool to the opposite side, where `hydraulic_axis.hpp:104` says
  *clamped*. `ValveObeys` is about what is left of the demand. No run of its own shows this.
- A valve that was reset leaves an axis that says it is enabled (`ValveObeys`).
- A command that is set between the test and the reset of its double is lost, and its
  service waits for ever; so does every start service of a `Cia402System`, which stores
  no feedback. A message that comes between the two reads of `update()` is dropped, and `tpdo_transmit` is taken to succeed. A
  first state BOOTUP is not published: the controller begins with it (`LastPublished`).
- After a failed switch of command modes the interfaces it left are switched, or
  refused, by a later one that does not name them (`SwitchTakes`).
- A mode that the motor has already, from before or from another joint of the node, fails the
  switch after the joints before it were switched (`SwitchTakes`).
- A motor is as the phase of the robot system says unless `init_motor` met it enabled, it had a
  fault, its driver failed, a transition ended before the last joint, or a switch enabled it in the
  inactive system (`EnabledWhileActive`). So `on_activate`, whose motors were enabled by a switch
  of modes, disables them although every `init_motor` returned true; no run of its own shows this.

**Findings.** The six violations are disagreements between comments, documentation and code,
quoted in `PROJECT.json` under `findings`.

## The proofs

All theorems are for every value of the constants that the named assumptions
allow: any number of callers, calls, drivers, attempts and activations, any set
of faults.

`SdoGateProof`. `OwnReply` is not inductive: a reply goes to whichever promise the
member holds. The strengthening `IInv` adds that calls in progress have distinct
numbers (`Numbered`), that only the holder of `sdo_mtex` is past `LockProxy`
(`Holder`), that a call has no promise before it is through the gate (`Unmade`), and,
the heart of it, that the promise of every queued request is unsatisfied, and for
an untyped request that its service still waits for the future while the member
still holds that promise (`Queued`). From it: `TypeCorrect`, `OwnReplyAlways`,
`CompletionsAlwaysDeliver` and, as only the holder of `sdo_mtex` has an untyped request
queued whose promise the member holds, `ServicesTakeTurns`. `ServicesAlone` proves `OneRequestAtATime` from
`TypedCallers = {}`; the run `sdo_race` shows that the condition is needed. `WakeupsKept` proves
`NoLostWakeup` from `"absent" \notin ProxyObjects`, whatever objects the typed calls ask for and
whatever lely throws: its own invariant `WInv` says that a flag that is set has a request or
a completion behind it, or was deserted. The run `sdo_lost` shows that this condition is needed.

`LifecycleProof`. None of the properties is inductive on its own, since a cleanup
of the master is harmless only if no driver has anything left to do. `IInv` says
what each node may look like in each lifecycle state (`Shape`, `MasterShape`), that
every device but the one the manager is at rests (`OthersRest`), what the queue of
that one may hold at each step (`ComingUp`, `Leaving`, `Left`), and hence that
either the master rests in active or all drivers rest in unconfigured (`Core`).
From it: `TypeCorrect`, `MasterOutlives`, `ContainerSafe`, `ManagerTruthful`, with the
further invariant `InOrder` `StartUp`, and `UseImplemented`: initial states map to
initial states, and every step to a step of `MasterUse` or a stutter.

`Motor402Proof`. `ReadStatusDecodes`: the status word of each state is decoded to it.
`TableMovesDrive`: for every transition of the table that the drive does not make by
itself, and whatever the control word held before, the composed word moves the
drive from one end of the transition to the other (the quick stops of a drive that
is not enabled, which the mock ignores, and the fault reset, which needs an edge,
excepted). `MotorQuickStopStands` proves `QuickStopStands` for any number of clients.
It is not inductive: `StandInv` adds that after such a quick stop `target_state_` is not
Operation Enable, since only `switchState` sets that and it ends the interval; then no
operation the table has for another target sets all the bits that enable.
`MotorTypeCorrect` needs to know what an operation still has to do: `TypeInv` adds that the
steps that are left fit together (`Fits`: a mode switch is begun, waited for and ended in its
order, so that what a timeout goes on with is there and names a state) and that a client
inside a step has that step in front of it (`PlaceFits`). `SetPointsMatchMode` proves
`SetPointsInMode` on condition that at most one client initialises, switches modes or shuts
down, while any number of others set targets, switch states and halt. `ModeInv` says that the drive was
asked for the selected mode (`AskedFor`) and that none is selected from the first part of a
mode switch to its end (`Switching`), which follows from the order of its steps. The
condition is needed: with a second client that shuts the drive down, TLC finds the mode one
of them selects outliving the other's switch to no mode, since `switchMode` asks the drive for a
mode, waits for it and selects it with no mutex held from the first to the last.

`OperationsKeepPromises` proves `PromiseHolds`: the client, the poll timer and the drive
share no lock, so what the invariant has to bound is what is *behind*: the words the drive has not acted
on (the last one received, the control word, and that word without the reset bit while
`start_fault_reset_` is up) and the views of the drive's state that are out of date
(`state_`, the status words read but not decoded, what a `switchState` saw; `Views`). A
drive is `AtRest` when none of these words asks it to leave its state. A switch to a goal is
on `Course` when every view is the drive's state, or one it has left without harm
(`Harmless`: it is not the goal, and what the table commands there keeps the drive where it
is), when no view is behind unless the drive is at rest, and when wherever a word may lead
the drive (`MayReach`) is harmless in that sense. Then no command from an old view can pass the drive over its goal, and
a switch that sees its goal has reached it (`CourseEnds`). `Orderly` says what follows each
step of an operation, `Ready` what each needs: rest and a true view before the first edit
(`Calm`), rest between two switches (`Still`), the promised state at the end (`Landed`).
`PromiseInv` says this of the watched operation, the only one, until it fails, and of the drive
once it has returned. `LeadsTable`, `CommandKind` and `CommandHarmless` are the facts about the
state machine of CiA 402 and the command table it rests on. Two attempts failed and are
findings: the reset bit that hides a demand (see *Preconditions*), and a fault reset that is on its way
when an operation begins, which `Settled` now excludes: the drive would leave Fault after the operation has looked.

`BaseDriverProof`. A theorem is for every set of drivers and surroundings `Configurations` may
hold: any number of boots, states, messages and activations, any garbage, any faults.
`LoopIsSafe` and `SafeInOperation` are not inductive, since what a thread meets was
decided by another one steps before. `IInv` adds that at most one order to the loop
is on its way and that its thread waits for it or has given up (`TasksFit`); that
`activated_` and `lely_driver_` follow that thread (`PointerFits`); that whatever says the
device has booted (a result on its way to the loop, `IsReady()`, `booted` and the
status with it) says it of a boot that succeeded (`ResultsFit`, `BootsFit`); that the NMT
promise is unsatisfied unless the flag beside it says so (`NmtFits`); that nothing runs before the first
activation has started it (`FirstIsClean`); that a bridge is gone once the loop has
run the order to remove it, unless a motor keeps it (`Registers`, `AddsToNone`,
`LoopFits`); and how far arrival, queue and hand-over are (`QueuesFit`, `HandedFit`).
One attempt failed and says something about the code: that `booted` alone means a boot holds
only without spurious wakeups, also on zeroed memory (`Calm`), because such a wakeup ends the wait as a
boot does; `BootedWhenAdded` has that precondition, the invariant needs it too.

`Ros2ControlProof`. `AnswersOwn` relates a service to what the driver did for it, several
steps of another thread apart. `IInv` says whose the doubles are: a command that is set is
that of the call that waits and is not carried out yet (`CommandsOwn`), a feedback that is
set is the result of that call's operation (`FeedbackOwn`), what `write()` has found is still
there when it clears it (`SeenHolds`), and while the driver acts the call waits (`WorkOwn`).
The reset is apart in each, since its service returns before the driver is done
(`ResetOnce`). For `SentWhole`: the side of the `RealtimeBuffer` the loop owns is empty except between its two
looks, and holds the newest message that has not been seen otherwise (`InputFits`), the doubles
hold one message (`TpdoWhole`), and one whose command is set is not sent (`PendingFits`). Two conjuncts
were found by a proof that failed: that no service is named after the TPDO's command, and
that this command is not set while it is carried out.

`RobotSystemProof`. A theorem is for any list of joints, each with some of the three
interfaces, on nodes of its own or shared, and for any number of switches and failures
(`RobotFits`, which the theorems assume and TLC checks of the instance). `RobotEnabledWhileActive` says where a transition is: the motors of the
nodes it has reached are as it leaves them, those still `Ahead` as the phase before has
them (`MotorsFit`), and at the last joint none is ahead (`AheadFacts`). `RobotSwitchTakes` says the
same of a switch (`SwitchUnderWay`): what it has passed has nothing left to start, each motor has its
old mode or one of a joint that was passed, and what it named for the others is still
registered; what is registered was named now or left by a call that was not OK
(`OneAsked`). The rest is what the operators return: `SetToSeqFacts` (a set as a sequence
has each element once) and `RegisteredFacts`.

`DeviceContainerProof`. The configuration may have any number of devices in any order.
`IInv` says that the registered drivers are those before `at`, each under its own node id
(`RegisteredFits`), which of master, drivers and manager are there at each stage
(`StagesFit`), that the requests that wait are attempts of the driver that asks and the
newest is the last (`DemandsFit`), that an answer means the driver has its master
(`AnswerFits`), that the drivers `init()` has passed are active (`PlainWork`),
and whose turn it is in the shutdown (`ShutdownFits`). `DemandsFit` is what keeps a late copy
of a request from throwing in the executor: requests are served in their order, so that
none is left when the newest is answered, and the driver is activated only then.

`ContainerImplementsUse` needs more than `IInv` says: in the shutdown every holder still has its
turn, and none is left when it is over (`HoldersFit`); without that the second shutdown, in
the destructor, could let a driver go of a master that is gone. Then each step is a step of `MasterUse` or a
stutter: no step moves more than one driver, and one that does finds the master up
(`MovesOne`, `TurnLetsGo`, `StepsUse`).

`ProfileDriversProof`. `ValveDriver` and `ProfileDrivers` are one component, so their theorems share a module.
`EnabledValveIsActive`: the axis ticks on whatever becomes of its words, and reports enabled at
the last tick of the last phase, before that word is sent. A fault or a reset behind the climb is
the exception (`upset`). `ClimbFits` counts: a phase has its
state reached, or every word it has sent was lost. So it holds if fewer words and set
points are lost than a phase sends before its last (`FewLosses`, `MaxLosses < Dwell - 1`), so that no
phase is lost as a whole; TLC finds it violated with `Dwell - 1` losses. `ValveStartsAsAsked` counts the set points of the
first phase in the same way (`SpoolFits`), where fewer losses than necessary are asked for; `StoppedValveStaysStopped` follows from which word is on
its way in each phase (`WordFits`) and needs no bound. The proof found a fault of the model: two
conditions of the external valve's `Obeys` overlapped.
`WrapperAlwaysStands`: no task waits in the loop while the driver is active. `OutputAlwaysArrives`: a value
stored after the last PDO has an event to come, whichever of the two writers stored it, and a
write by SDO that its writer has not given up is the last one asked for
(`WritersFit`). `TopicNeverGoesBack`: values get older on their way from the device over the bus or
an answer to the dictionary, and from there to the topic (`ReadingFits`). It needs that a read
which was answered is stored before, or in the same step as, its value is handed over: a fallback on the
dictionary is then never older than what was published. No request has to succeed for that.

Some constants have assumptions for the proofs: `Attempts` and `Half` are at least one, no
trigger of a `Cia402System` is called as one of the commands every system has, and the
bounds, the dwell and the stroke of a valve are natural numbers (`ValveFits`).

**Only model-checked**: every liveness property, alone (`CallsReturn`, `TransitionsComplete`,
`OperationsReturn`, `QuickStopEnds`, `DeactivateReturns`, `StatesArePublished`, `LatestSent`,
`LastPublished`, `InitEndsHere`) or as a conjunct (that a stopped valve leaves *active* in
`ValveObeys`, that the newest value is shown in `ValuesArrive`; their other conjuncts are
proved), and the six violations. Liveness under fairness and `ENABLED` are out of the
prover's reach, as are induction over data and `RECURSIVE` operators, which no module
uses. Every other property of the passing runs is stated by a
theorem; that of `NoLostWakeup`, of `SetPointsInMode` and of the valve's other conjuncts is on
the conditions given above.

## What is not modelled

Within the modelled components: the data of SDOs, abort codes and the wording of
errors; diagnostics; the parsing of YAML and of data types; which axis, button or bit
a value of a 401 driver is, the scaling of slopes, and `save_to_eeprom`, which keeps no
state; the continuous targets that `write()` of a `Cia402System` or a `RobotSystem` passes on
in each cycle; a bus with several devices whose name contains *master* under the
lifecycle manager (`DeviceContainer` has them); the handshakes of the CiA 402 modes
with the control word. `LifecycleNodes` has no bound on the retries of a boot
(`BootFails` may come at any time), `BaseDriver` has the code's. `rclcpp` and `lely` are
modelled by what the code relies on, and marked external where they are an action.

The components with status `not_modelled` in `PROJECT.json`, for the reasons given
there.

## Plan

1. `SdoGate` and 2. `LifecycleManager` with `LifecycleNodes` and `MasterUse` (done, proved):
   the two places where all drivers meet.
3. `Cia402` and `Motor402` (done, proved).
4. `BaseDriver` (done, proved).
5. `DeviceContainer`, `ProfileDrivers` and `ValveDriver` (done, proved).
6. `Ros2Control` and `RobotSystem` (done, proved).
7. `Modes402`: the handshakes of homing and of profiled position with the control
   word's mode bits, against the motion threads of the mock.
8. The master bridge as a variant of the gate with an uninitialised flag.
