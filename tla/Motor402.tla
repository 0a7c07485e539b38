------------------------------ MODULE Motor402 ------------------------------
(***************************************************************************)
(* Motor402, the driver of one axis of a CiA 402 drive, between the        *)
(* threads that use it and the drive.                                      *)
(*                                                                         *)
(* The poll timer reads the status word and the displayed mode and sends   *)
(* the control word, period after period.  Clients ask for operations:     *)
(* the services of a node share one callback group, so they come one at a  *)
(* time and are one client; the ros2_control system calls the driver from  *)
(* a thread of its own and is another.  An operation never talks to the    *)
(* drive's state machine itself: it edits control_word_ and waits until    *)
(* the timer has reported a new state.  A drive acts on what it received   *)
(* when it gets to it, and may fault.                                      *)
(*                                                                         *)
(* An operation is a sequence of steps, each made of the parts that no     *)
(* lock holds together: reading takes three (status word, state_, mode),   *)
(* a turn of the loop of switchState two.  Everything done under cw_mutex_  *)
(* is one action.  The set points of a mode are left out but for whether   *)
(* the mode has one to send; homing is a step that ends well or not.       *)
(***************************************************************************)
EXTENDS Cia402, Naturals, Sequences

CONSTANTS
  Clients,         \* threads that ask for operations
  Timer,           \* the thread of the poll timer
  MayDo,           \* the operations each client asks for
  Modes,           \* the operation modes clients ask for
  SwitchingState,  \* configured state in which the mode is switched
  HomingSupported, \* does the drive support the homing mode?
  Garbage,         \* what the members no constructor sets may hold at first
  MaxFaults,       \* bound on the faults of the drive
  MaxTimeouts      \* bound on the waits that time out

No_Mode == "No_Mode"
Homing == "Homing"
AllModes == Modes \cup {No_Mode, Homing}

Operations == {"init", "enable", "disable", "recover", "shutdown", "halt",
               "mode", "target"}

ASSUME ClientsAssumption ==
  /\ Timer \notin Clients
  /\ MayDo \in [Clients -> SUBSET Operations]

ASSUME ModesAssumption == {No_Mode, Homing} \cap Modes = {}

ASSUME ConfigurationAssumption ==
  /\ SwitchingState \in States
  /\ HomingSupported \in BOOLEAN
  /\ MaxFaults \in Nat /\ MaxTimeouts \in Nat

ASSUME GarbageAssumption ==
  Garbage \subseteq [control_word_ : SUBSET CommandBits, mode_id_ : AllModes,
                     start_fault_reset_ : BOOLEAN]

VARIABLES
  control_word_,      \* but for CW_Halt, which every write sets anew
  start_fault_reset_,
  target_state_,
  state_,             \* state_ of state_handler_
  selected_mode_,     \* the id of the selected mode, No_Mode for a null pointer
  mode_id_,
  has_target_,        \* modes with a set point to send; for homing: execute_
  at,                 \* where each thread is
  sw,                 \* the status word a reading thread holds
  op,                 \* the operation each client makes
  todo,               \* its remaining steps
  seen,               \* the local state of switchState and handleHalt
  okay,               \* what the operation is to return
  drive,              \* the drive
  faults,             \* number of faults so far
  timeouts,           \* number of waits that timed out
  history             \* what was promised to whom; read by no action

motorVars == <<control_word_, start_fault_reset_, target_state_, state_,
               selected_mode_, mode_id_, has_target_>>
clientVars == <<op, todo, seen, okay>>
vars == <<motorVars, at, sw, clientVars, drive, faults, timeouts, history>>

Threads == Clients \cup {Timer}

-----------------------------------------------------------------------------
(***************************************************************************)
(* Operations.                                                             *)
(***************************************************************************)
Step(do, arg) == [do |-> do, arg |-> arg]

Switch(target) == Step("switch", target)

\* switchMode for a mode that is not No_Mode
SwitchMode(m) ==
  <<Step("start", m), Switch(SwitchingState), Step("set", m), Step("await", m),
    Switch("Operation_Enable")>>

Program(o, m) ==
  CASE o = "enable" -> <<Step("read", No_Mode), Switch("Operation_Enable")>>
    [] o = "disable" -> <<Step("read", No_Mode), Switch("Switched_On")>>
    [] o = "recover" -> <<Step("arm", No_Mode), Step("restart", No_Mode), Switch("Operation_Enable")>>
    [] o = "shutdown" -> <<Step("deselect", No_Mode), Switch("Switch_On_Disabled")>>
    [] o = "halt" -> <<Step("look", No_Mode), Step("halt", No_Mode)>>
    [] o = "mode" -> SwitchMode(m)
    [] o = "target" -> <<Step("ask", No_Mode), Step("target", No_Mode)>>
    [] o = "init" ->
         <<Step("read", No_Mode), Step("zero", No_Mode), Switch("Operation_Enable")>>
         \o (IF HomingSupported
             THEN SwitchMode(Homing)
                  \o <<Step("home", Homing), Step("deselect", No_Mode)>>
             ELSE <<>>)

\* the state of the drive a successful operation promises; "Unknown" for none
Promises(o) ==
  CASE o \in {"init", "enable", "recover", "mode"} -> "Operation_Enable"
    [] o = "disable" -> "Switched_On"
    [] o = "shutdown" -> "Switch_On_Disabled"
    [] OTHER -> "Unknown"

Idle(c) == op[c] = "none"

\* client c is about to make the step do
Doing(c, do) == op[c] # "none" /\ at[c] = "step" /\ todo[c] # <<>> /\ Head(todo[c]).do = do

Arg(c) == Head(todo[c]).arg

Go(t, where) == at' = [at EXCEPT ![t] = where]

\* the step of c is done, the operation goes on with rest
Continue(c, rest) == todo' = [todo EXCEPT ![c] = rest] /\ Go(c, "step")

Done(c) == Continue(c, Tail(todo[c])) /\ UNCHANGED okay

\* the operation returns false
Fail(c) == Continue(c, <<>>) /\ okay' = [okay EXCEPT ![c] = FALSE]

\* the local state is dead
Forget(c) == seen' = [seen EXCEPT ![c] = "Unknown"]

-----------------------------------------------------------------------------
(***************************************************************************)
(* The history: what the last operation promised while nothing stood in    *)
(* its way, whether a quick stop was commanded and no target set since,    *)
(* whether a halt returned true and no operation was asked for since.      *)
(***************************************************************************)
NoPromise == [watched |-> FALSE, state |-> "Unknown"]

\* everybody agrees on the state of the drive and nobody asks it to leave it
Settled ==
  /\ state_ = drive.state
  /\ \A t \in Threads : at[t] # "store"
  /\ \A cw \in {drive.rx, control_word_} : ~AsksToLeave(drive.state, cw)
  /\ drive.state \in {"Fault_Reaction_Active", "Fault"} /\ "Fault_Reset" \in control_word_
       => "Fault_Reset" \in drive.rx
  /\ drive.mode = drive.ask
  /\ ~start_fault_reset_ /\ ~drive.edge

\* the operation itself may take the drive out of operation before it looks at
\* its state: it zeroes the control word, or has it sent without the reset bit
Disables(o) ==
  /\ drive.state = "Operation_Enable"
  /\ \/ o = "init"
     \/ o = "recover" /\ AsksToLeave(drive.state, control_word_ \ {"Fault_Reset"})

Init ==
  /\ \E g \in Garbage : /\ control_word_ = g.control_word_
                         /\ mode_id_ = g.mode_id_
                         /\ start_fault_reset_ = g.start_fault_reset_
  /\ target_state_ = "Unknown"
  /\ state_ = "Unknown"
  /\ selected_mode_ = No_Mode
  /\ has_target_ = {}
  /\ at = [t \in Threads |-> IF t = Timer THEN "fetch" ELSE "step"]
  /\ sw = [t \in Threads |-> {}]
  /\ op = [c \in Clients |-> "none"]
  /\ todo = [c \in Clients |-> <<>>]
  /\ seen = [c \in Clients |-> "Unknown"]
  /\ okay = [c \in Clients |-> TRUE]
  /\ drive = [state |-> "Not_Ready_To_Switch_On", mode |-> No_Mode, ask |-> No_Mode,
              rx |-> {}, edge |-> FALSE]
  /\ faults = 0 /\ timeouts = 0
  /\ history = [promise |-> NoPromise, quickstop |-> FALSE, halted |-> FALSE]

-----------------------------------------------------------------------------
(***************************************************************************)
(* A client asks for an operation, and gets its answer.                    *)
(***************************************************************************)
Begin(c, o, m) ==
  /\ Idle(c)
  /\ o \in MayDo[c]
  /\ o = "mode" => selected_mode_ # m     \* set_operation_mode asks getMode first
  /\ op' = [op EXCEPT ![c] = o]
  /\ todo' = [todo EXCEPT ![c] = Program(o, m)]
  /\ history' =
       IF o = "target" THEN history
       ELSE [history EXCEPT
               !.promise =
                  [watched |-> /\ Promises(o) # "Unknown"
                               /\ \A d \in Clients : Idle(d)
                               /\ Settled /\ ~Disables(o),
                   state |-> "Unknown"],
               !.halted = FALSE]
  /\ UNCHANGED <<motorVars, at, sw, seen, okay, drive, faults, timeouts>>

\* Mutant of Return: the flag of the last operation is not reset.
ReturnKeepsFlag(c) ==
  /\ ~Idle(c)
  /\ todo[c] = <<>>
  /\ op' = [op EXCEPT ![c] = "none"]
  /\ Forget(c)
  /\ UNCHANGED <<motorVars, at, sw, todo, okay, drive, faults, timeouts, history>>

Return(c) ==
  /\ ~Idle(c)
  /\ todo[c] = <<>>
  /\ op' = [op EXCEPT ![c] = "none"]
  /\ okay' = [okay EXCEPT ![c] = TRUE]
  /\ Forget(c)
  /\ history' =
       CASE op[c] = "target" -> history
         [] op[c] = "halt" ->
              [history EXCEPT !.halted = okay[c] /\ \A d \in Clients \ {c} : Idle(d)]
         [] OTHER ->
              [history EXCEPT !.promise.state = IF history.promise.watched /\ okay[c]
                                                THEN Promises(op[c]) ELSE "Unknown"]
  /\ UNCHANGED <<motorVars, at, sw, todo, drive, faults, timeouts>>

-----------------------------------------------------------------------------
(***************************************************************************)
(* readState, by the timer and by clients: the status word is fetched,     *)
(* then decoded into state_, then the mode is read under mode_mutex_.      *)
(***************************************************************************)
MayFetch(t) == IF t = Timer THEN at[t] = "fetch" ELSE Doing(t, "read")

Fetch(t) ==
  /\ MayFetch(t)
  /\ sw' = [sw EXCEPT ![t] = StatusWord(drive.state)]
  /\ Go(t, "store")
  /\ UNCHANGED <<motorVars, clientVars, drive, faults, timeouts, history>>

Store(t) ==
  /\ at[t] = "store"
  /\ state_' = ReadStatus(sw[t])
  /\ sw' = [sw EXCEPT ![t] = {}]
  /\ Go(t, "display")
  /\ UNCHANGED <<control_word_, start_fault_reset_, target_state_, selected_mode_,
                 mode_id_, has_target_, clientVars, drive, faults, timeouts, history>>

ReadMode(t) ==
  /\ at[t] = "display"
  /\ mode_id_' = drive.mode
  /\ IF t = Timer THEN Go(t, "write") /\ UNCHANGED clientVars
                  ELSE Done(t) /\ UNCHANGED <<op, seen>>
  /\ UNCHANGED <<control_word_, start_fault_reset_, target_state_, state_,
                 selected_mode_, has_target_, sw, drive, faults, timeouts, history>>

\* handleWrite: does the selected mode write a set point this time?
Okay ==
  /\ state_ = "Operation_Enable"
  /\ selected_mode_ # No_Mode
  /\ selected_mode_ = mode_id_
  /\ selected_mode_ \in has_target_

\* the drive receives a control word; only a rising edge resets a fault
Receive(cw) ==
  [drive EXCEPT !.rx = cw,
                !.edge = /\ drive.state = "Fault"
                         /\ "Fault_Reset" \in cw
                         /\ drive.edge \/ "Fault_Reset" \notin drive.rx]

HandleWrite ==
  /\ at[Timer] = "write"
  /\ start_fault_reset_' = FALSE
  /\ drive' = Receive((IF start_fault_reset_ THEN control_word_ \ {"Fault_Reset"}
                                             ELSE control_word_)
                        \cup (IF Okay THEN {} ELSE {"Halt"}))
  /\ Go(Timer, "fetch")
  /\ UNCHANGED <<control_word_, target_state_, state_, selected_mode_, mode_id_,
                 has_target_, sw, clientVars, faults, timeouts, history>>

-----------------------------------------------------------------------------
(***************************************************************************)
(* switchState.                                                            *)
(***************************************************************************)
\* the state the switch starts from, then the target
SwitchBegin(c) ==
  /\ Doing(c, "switch")
  /\ seen' = [seen EXCEPT ![c] = state_]
  /\ Go(c, "aim")
  /\ UNCHANGED <<motorVars, sw, op, todo, okay, drive, faults, timeouts, history>>

SwitchAim(c) ==
  /\ at[c] = "aim"
  /\ target_state_' = Arg(c)
  /\ history' = [history EXCEPT !.quickstop = FALSE]
  /\ Go(c, "loop")
  /\ UNCHANGED <<control_word_, start_fault_reset_, state_, selected_mode_, mode_id_,
                 has_target_, sw, clientVars, drive, faults, timeouts>>

\* the test of the loop reads target_state_, which a halt may have moved
SwitchEnd(c) ==
  /\ at[c] = "loop"
  /\ seen[c] = target_state_
  /\ IF seen[c] = Arg(c) THEN Done(c) ELSE Fail(c)
  /\ Forget(c)
  /\ UNCHANGED <<motorVars, sw, op, drive, faults, timeouts, history>>

SwitchTurn(c) ==
  /\ at[c] = "loop"
  /\ seen[c] # target_state_
  /\ Go(c, "turn")
  /\ UNCHANGED <<motorVars, sw, clientVars, drive, faults, timeouts, history>>

\* under cw_mutex_: target_state_ is read again
SwitchCommand(c) ==
  /\ at[c] = "turn"
  /\ LET hop == Hop(seen[c], target_state_)
     IN  \/ /\ seen[c] = target_state_ \* next stays Unknown
            /\ Go(c, IF seen[c] = "Unknown" THEN "loop" ELSE "wait")
            /\ UNCHANGED <<control_word_, todo, okay>>
         \/ /\ seen[c] # target_state_
            /\ HasTransition(seen[c], hop)
            /\ control_word_' = Apply(control_word_, seen[c], hop)
            /\ Go(c, "wait")
            /\ UNCHANGED <<todo, okay>>
         \/ /\ seen[c] # target_state_
            /\ ~HasTransition(seen[c], hop)
            /\ Fail(c)
            /\ UNCHANGED control_word_
  /\ UNCHANGED <<start_fault_reset_, target_state_, state_, selected_mode_, mode_id_,
                 has_target_, sw, op, seen, drive, faults, timeouts, history>>

\* Mutant of SwitchWait: the loop is an if, one new state will do.
SwitchWaitOnce(c) ==
  /\ at[c] = "wait"
  /\ state_ # seen[c]
  /\ Done(c) /\ Forget(c)
  /\ UNCHANGED <<motorVars, sw, op, drive, faults, timeouts, history>>

\* waitForNewState hands the new state back
SwitchWait(c) ==
  /\ at[c] = "wait"
  /\ state_ # seen[c]
  /\ seen' = [seen EXCEPT ![c] = state_]
  /\ Go(c, "loop")
  /\ UNCHANGED <<motorVars, sw, op, todo, okay, drive, faults, timeouts, history>>

SwitchTimeout(c) ==
  /\ at[c] = "wait"
  /\ state_ = seen[c]
  /\ Fail(c)
  /\ UNCHANGED <<motorVars, sw, op, seen, drive, faults, history>>

-----------------------------------------------------------------------------
(***************************************************************************)
(* The other steps of switchMode.                                          *)
(***************************************************************************)
\* Mutant of StartMode: the mode handler stays enabled.
StartModeKeepsHandler(c) ==
  /\ Doing(c, "start")
  /\ has_target_' = has_target_ \ {Arg(c)}
  /\ Done(c)
  /\ UNCHANGED <<control_word_, start_fault_reset_, target_state_, state_,
                 selected_mode_, mode_id_, sw, op, seen, drive, faults, timeouts, history>>

\* start the mode and, unless it is in use already, disable the mode handler
StartMode(c) ==
  /\ Doing(c, "start")
  /\ has_target_' = has_target_ \ {Arg(c)}
  /\ IF mode_id_ = Arg(c) /\ selected_mode_ = Arg(c)
     THEN /\ Continue(c, SubSeq(todo[c], Len(SwitchMode(Arg(c))) + 1, Len(todo[c])))
          /\ UNCHANGED <<selected_mode_, okay>>
     ELSE selected_mode_' = No_Mode /\ Done(c)
  /\ UNCHANGED <<control_word_, start_fault_reset_, target_state_, state_, mode_id_,
                 sw, op, seen, drive, faults, timeouts, history>>

SetMode(c) ==
  /\ Doing(c, "set")
  /\ drive' = [drive EXCEPT !.ask = Arg(c)]
  /\ Done(c)
  /\ UNCHANGED <<motorVars, sw, op, seen, faults, timeouts, history>>

\* the drive shows the mode: select it
AwaitMode(c) ==
  /\ Doing(c, "await")
  /\ mode_id_ = Arg(c)
  /\ selected_mode_' = Arg(c)
  /\ Done(c)
  /\ UNCHANGED <<control_word_, start_fault_reset_, target_state_, state_, mode_id_,
                 has_target_, sw, op, seen, drive, faults, timeouts, history>>

\* or ask for the old one again, and return to operation all the same
AwaitTimeout(c) ==
  /\ Doing(c, "await")
  /\ mode_id_ # Arg(c)
  /\ drive' = [drive EXCEPT !.ask = mode_id_]
  /\ okay' = [okay EXCEPT ![c] = FALSE]
  /\ Continue(c, <<todo[c][2]>>)
  /\ UNCHANGED <<motorVars, sw, op, seen, faults, history>>

\* switchMode(No_Mode)
Deselect(c) ==
  /\ Doing(c, "deselect")
  /\ selected_mode_' = No_Mode
  /\ drive' = [drive EXCEPT !.ask = No_Mode]
  /\ Done(c)
  /\ UNCHANGED <<control_word_, start_fault_reset_, target_state_, state_, mode_id_,
                 has_target_, sw, op, seen, faults, timeouts, history>>

-----------------------------------------------------------------------------
(***************************************************************************)
(* The other steps of the operations.                                      *)
(***************************************************************************)
\* handleInit, under cw_mutex_
ZeroControlWord(c) ==
  /\ Doing(c, "zero")
  /\ control_word_' = {}
  /\ start_fault_reset_' = TRUE
  /\ Done(c)
  /\ UNCHANGED <<target_state_, state_, selected_mode_, mode_id_, has_target_, sw,
                 op, seen, drive, faults, timeouts, history>>

\* handleRecover arms the fault reset, then restarts the selected mode
ArmFaultReset(c) ==
  /\ Doing(c, "arm")
  /\ start_fault_reset_' = TRUE
  /\ Done(c)
  /\ UNCHANGED <<control_word_, target_state_, state_, selected_mode_, mode_id_,
                 has_target_, sw, op, seen, drive, faults, timeouts, history>>

RestartMode(c) ==
  /\ Doing(c, "restart")
  /\ has_target_' = has_target_ \ {selected_mode_}
  /\ Done(c)
  /\ UNCHANGED <<control_word_, start_fault_reset_, target_state_, state_,
                 selected_mode_, mode_id_, sw, op, seen, drive, faults, timeouts, history>>

\* handleHalt reads the state before it takes cw_mutex_
HaltLook(c) ==
  /\ Doing(c, "look")
  /\ seen' = [seen EXCEPT ![c] = state_]
  /\ Done(c)
  /\ UNCHANGED <<motorVars, sw, op, drive, faults, timeouts, history>>

\* Mutant of HaltAct: the target of a switch in progress stays.
HaltActKeepsTarget(c) ==
  /\ Doing(c, "halt")
  /\ IF seen[c] = "Operation_Enable"
     THEN /\ control_word_' = Apply(control_word_, seen[c], "Quick_Stop_Active")
          /\ history' = [history EXCEPT !.quickstop = TRUE]
     ELSE UNCHANGED <<control_word_, history>>
  /\ Done(c)
  /\ UNCHANGED <<start_fault_reset_, target_state_, state_, selected_mode_, mode_id_,
                 has_target_, sw, op, seen, drive, faults, timeouts>>

\* and, under it, does not demand a quick stop in case of a fault
HaltAct(c) ==
  /\ Doing(c, "halt")
  /\ \/ /\ seen[c] \in {"Fault_Reaction_Active", "Fault"}
        /\ Fail(c)
        /\ UNCHANGED <<target_state_, control_word_, history>>
     \/ /\ seen[c] = "Operation_Enable"
        /\ target_state_' = "Quick_Stop_Active"
        /\ control_word_' = Apply(control_word_, seen[c], "Quick_Stop_Active")
        /\ history' = [history EXCEPT !.quickstop = TRUE]
        /\ Done(c)
     \/ /\ seen[c] \notin {"Fault_Reaction_Active", "Fault", "Operation_Enable"}
        /\ target_state_' = seen[c]
        /\ Done(c)
        /\ UNCHANGED <<control_word_, history>>
  /\ UNCHANGED <<start_fault_reset_, state_, selected_mode_, mode_id_, has_target_,
                 sw, op, seen, drive, faults, timeouts>>

\* setTarget: the state is tested before mode_mutex_ is taken
TargetAsk(c) ==
  /\ Doing(c, "ask")
  /\ IF state_ = "Operation_Enable" THEN Done(c) ELSE Fail(c)
  /\ UNCHANGED <<motorVars, sw, op, seen, drive, faults, timeouts, history>>

TargetSet(c) ==
  /\ Doing(c, "target")
  /\ IF selected_mode_ \in Modes
     THEN has_target_' = has_target_ \cup {selected_mode_} /\ Done(c)
     ELSE Fail(c) /\ UNCHANGED has_target_
  /\ UNCHANGED <<control_word_, start_fault_reset_, target_state_, state_,
                 selected_mode_, mode_id_, sw, op, seen, drive, faults, timeouts, history>>

\* executeHoming: execute_ is set, and reset when it returns
HomeBegin(c) ==
  /\ Doing(c, "home")
  /\ has_target_' = has_target_ \cup {Homing}
  /\ Go(c, "homing")
  /\ UNCHANGED <<control_word_, start_fault_reset_, target_state_, state_,
                 selected_mode_, mode_id_, sw, clientVars, drive, faults, timeouts, history>>

HomeEnd(c) ==
  /\ at[c] = "homing"
  /\ has_target_' = has_target_ \ {Homing}
  /\ Done(c) \/ Fail(c)
  /\ UNCHANGED <<control_word_, start_fault_reset_, target_state_, state_,
                 selected_mode_, mode_id_, sw, op, seen, drive, faults, timeouts, history>>

\* no homing method is configured, or the drive is not ready for homing
HomeNone(c) ==
  /\ Doing(c, "home")
  /\ Done(c) \/ Fail(c)
  /\ UNCHANGED <<motorVars, sw, op, seen, drive, faults, timeouts, history>>

-----------------------------------------------------------------------------
(***************************************************************************)
(* The drive.                                                              *)
(***************************************************************************)
DriveIs(d) == drive' = [drive EXCEPT !.state = d, !.edge = FALSE]

\* it acts on the last control word, or completes an automatic transition
DriveReact ==
  /\ DriveStep(drive.state, drive.rx) # drive.state
  /\ DriveIs(DriveStep(drive.state, drive.rx))
  /\ UNCHANGED <<motorVars, at, sw, clientVars, faults, timeouts, history>>

DriveSwitchesMode ==
  /\ drive.mode # drive.ask
  /\ drive' = [drive EXCEPT !.mode = drive.ask]
  /\ UNCHANGED <<motorVars, at, sw, clientVars, faults, timeouts, history>>

\* not the mock, but drives that obey a quick stop before they are enabled
DriveQuickStops ==
  /\ MayQuickStop(drive.state, drive.rx)
  /\ DriveIs("Switch_On_Disabled")
  /\ UNCHANGED <<motorVars, at, sw, clientVars, faults, timeouts, history>>

DriveFaults ==
  /\ faults < MaxFaults
  /\ drive.state \notin {"Fault_Reaction_Active", "Fault"}
  /\ DriveIs("Fault_Reaction_Active")
  /\ faults' = faults + 1
  /\ history' = [history EXCEPT !.promise = NoPromise]
  /\ UNCHANGED <<motorVars, at, sw, clientVars, timeouts>>

DriveFaultHandled ==
  /\ drive.state = "Fault_Reaction_Active"
  /\ DriveIs("Fault")
  /\ UNCHANGED <<motorVars, at, sw, clientVars, faults, timeouts, history>>

DriveResetsFault ==
  /\ drive.state = "Fault"
  /\ drive.edge
  /\ DriveIs("Switch_On_Disabled")
  /\ UNCHANGED <<motorVars, at, sw, clientVars, faults, timeouts, history>>

-----------------------------------------------------------------------------
Reading(t) == Fetch(t) \/ Store(t) \/ ReadMode(t)

Poll == Reading(Timer) \/ HandleWrite

\* what a client does of its own accord, once the operation is begun
ClientStep(c) ==
  \/ Reading(c) \/ Return(c)
  \/ SwitchBegin(c) \/ SwitchAim(c) \/ SwitchEnd(c) \/ SwitchTurn(c)
  \/ SwitchCommand(c) \/ SwitchWait(c)
  \/ StartMode(c) \/ SetMode(c) \/ AwaitMode(c) \/ Deselect(c)
  \/ ZeroControlWord(c) \/ ArmFaultReset(c) \/ RestartMode(c)
  \/ HaltLook(c) \/ HaltAct(c) \/ TargetAsk(c) \/ TargetSet(c)
  \/ HomeBegin(c) \/ HomeEnd(c) \/ HomeNone(c)

Timeout(c) ==
  /\ timeouts < MaxTimeouts
  /\ timeouts' = timeouts + 1
  /\ SwitchTimeout(c) \/ AwaitTimeout(c)

DriveAnswers ==
  DriveReact \/ DriveSwitchesMode \/ DriveFaultHandled \/ DriveResetsFault

Next ==
  \/ Poll
  \/ \E c \in Clients :
       \/ \E o \in Operations : \E m \in IF o = "mode" THEN Modes ELSE {No_Mode} :
            Begin(c, o, m)
       \/ ClientStep(c)
       \/ Timeout(c)
  \/ DriveAnswers \/ DriveQuickStops \/ DriveFaults

Spec == Init /\ [][Next]_vars

\* the timer fires and the drive answers
BusSpec == Spec /\ WF_vars(Poll) /\ WF_vars(DriveAnswers)

\* clients run too; nobody has to ask for an operation, no wait has to end by
\* its timeout and no drive has to fault
FairSpec == BusSpec /\ \A c \in Clients : WF_vars(ClientStep(c))

-----------------------------------------------------------------------------
(***************************************************************************)
(* Properties.                                                             *)
(***************************************************************************)
Locations == {"step", "fetch", "store", "display", "write", "aim", "loop", "turn",
              "wait", "homing"}

Steps == [do : {"read", "switch", "start", "set", "await", "deselect", "zero", "arm",
                "restart", "look", "halt", "ask", "target", "home"},
          arg : AllModes \cup States]

\* The variables keep their types: words are sets of their bits, a client
\* without an operation has no steps left and is between two steps.
TypeOK ==
  /\ control_word_ \subseteq CommandBits
  /\ start_fault_reset_ \in BOOLEAN
  /\ target_state_ \in States /\ state_ \in States
  /\ selected_mode_ \in AllModes /\ mode_id_ \in AllModes
  /\ has_target_ \subseteq AllModes
  /\ at \in [Threads -> Locations]
  /\ sw \in [Threads -> SUBSET StatusBits]
  /\ op \in [Clients -> Operations \cup {"none"}]
  /\ todo \in [Clients -> Seq(Steps)]
  /\ \A c \in Clients : Idle(c) => todo[c] = <<>> /\ at[c] = "step" /\ okay[c]
  /\ seen \in [Clients -> States]
  /\ okay \in [Clients -> BOOLEAN]
  /\ drive \in [state : DriveStates, mode : AllModes, ask : AllModes,
                rx : SUBSET ControlBits, edge : BOOLEAN]
  /\ faults \in 0 .. MaxFaults /\ timeouts \in 0 .. MaxTimeouts
  /\ history \in [promise : [watched : BOOLEAN, state : States],
                  quickstop : BOOLEAN, halted : BOOLEAN]

\* An operation that returned true has brought the drive to the state its code
\* aims at (enabled, or switched on, or switched off), and the drive stays there
\* until it faults or the next operation is asked for.  For handleDisable that
\* state is Switched_On (motor.cpp:488); its documentation names another one,
\* which is DisableSwitchesOff below.  Only for operations
\* begun alone, with nothing underway (Settled), and not for one that may
\* disable an enabled drive itself (Disables): switchState returns at once when
\* state_ is the target, and leaves what the control word asks for as it is.
PromiseHolds ==
  history.promise.state # "Unknown" => drive.state = history.promise.state

\* handleWrite sends a set point of a mode to a drive that was asked for
\* that mode: never to a drive that another mode switch has already sent, or
\* is about to send, to another mode.
SetPointsInMode ==
  [][HandleWrite /\ Okay => drive.ask = selected_mode_]_vars

\* A quick stop handleHalt put into the control word stays there until the
\* next switchState sets a target: a switchState in progress in another
\* thread, with a state it saw before the halt, cannot overwrite it.
QuickStopStands == history.quickstop => ~is_enable_operation(control_word_)

\* The drive obeys: it leaves Operation_Enable after such a quick stop, unless
\* a later switchState sets a new target.
QuickStopEnds ==
  history.quickstop ~> drive.state # "Operation_Enable" \/ ~history.quickstop

\* An operation of a client that is alone returns without the help of its
\* timeouts, though the drive faults once, if the fault reset bit is down in the
\* control word and in the last one sent, or about to be lowered by handleWrite
\* for a drive in Fault: else the drive may never see the rising edge it waits for.
OperationsReturn ==
  \A c \in Clients :
    [](\A d \in Clients \ {c} : Idle(d)) =>
      (/\ ~Idle(c)
       /\ \/ "Fault_Reset" \notin control_word_ \cup drive.rx
          \/ start_fault_reset_ /\ drive.state = "Fault"
       ~> Idle(c))

\* handleDisable "attempts to bring the device to switched on disabled state
\* (CIA402)" (motor.hpp:170-171): once it has returned true, begun alone with
\* nothing underway, the drive is in Switch_On_Disabled.
DisableSwitchesOff ==
  [][\A c \in Clients :
       Return(c) /\ op[c] = "disable" /\ okay[c] /\ history.promise.watched
         => drive.state = "Switch_On_Disabled"]_vars

\* "Executes a quickstop" (motor.hpp:142): once handleHalt has returned true,
\* with no other operation running, the drive does not enter Operation_Enable
\* until something else is asked for.
HaltHolds ==
  [][history.halted /\ drive.state # "Operation_Enable"
       => drive'.state # "Operation_Enable"]_vars
=============================================================================
