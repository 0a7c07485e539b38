--------------------------- MODULE Motor402Proof ---------------------------
(***************************************************************************)
(* What is proved of Motor402, for any number of clients, any modes and    *)
(* any first contents of the memory.                                       *)
(***************************************************************************)
EXTENDS Motor402, SequenceTheorems, TLAPS

-----------------------------------------------------------------------------
(***************************************************************************)
(* The state machine of CiA 402.                                           *)
(***************************************************************************)
\* State402::read decodes the status word of every state of a drive.
THEOREM ReadStatusDecodes ==
  ASSUME NEW d \in DriveStates PROVE ReadStatus(StatusWord(d)) = d
  BY SMTT(30) DEF DriveStates, States, StatusWord, ReadStatus

LEMMA ApplyOf ==
  ASSUME NEW cw, NEW t \in Transitions
  PROVE  /\ HasTransition(t[1], t[2])
         /\ Apply(cw, t[1], t[2]) = (cw \ Ops[t[3]].reset) \cup Ops[t[3]].set
<1>1. \A u \in Transitions : u[1] = t[1] /\ u[2] = t[2] => u = t
  BY DEF Transitions
<1>2. t = CHOOSE u \in Transitions : u[1] = t[1] /\ u[2] = t[2]
  BY <1>1
<1> QED BY <1>2 DEF Apply, HasTransition

\* What the table commands is what a drive does: whatever the control word was
\* before, a drive in the state the hop starts from takes it.  Left out are the
\* automatic transitions, the fault reset, which takes a rising edge, and the
\* quick stop of a drive that is not enabled.
THEOREM TableMovesDrive ==
  ASSUME NEW cw \in SUBSET ControlBits, NEW t \in Transitions,
         t[3] \notin {"automatic", "fault_reset"},
         t[3] = "quickstop" => t[1] = "Operation_Enable"
  PROVE  DriveStep(t[1], Apply(cw, t[1], t[2])) = t[2]
<1> DEFINE w == (cw \ Ops[t[3]].reset) \cup Ops[t[3]].set
<1>1. Apply(cw, t[1], t[2]) = w
  BY ApplyOf
<1>2. CASE t[3] = "disable_voltage"
  <2>1. /\ is_disable_voltage(w)
        /\ ~is_shutdown(w) /\ ~is_switch_on(w)
        /\ ~is_enable_operation(w) /\ ~is_quickstop(w)
    BY <1>2 DEF Ops, is_disable_voltage, is_shutdown, is_switch_on,
                is_enable_operation, is_quickstop
  <2>2. /\ t[1] \in {"Ready_To_Switch_On", "Switched_On", "Operation_Enable",
                     "Quick_Stop_Active"}
        /\ t[2] = "Switch_On_Disabled"
    BY <1>2 DEF Transitions
  <2> HIDE DEF w
  <2> QED BY <1>1, <2>1, <2>2 DEF DriveStep
<1>3. CASE t[3] = "shutdown"
  <2>1. /\ is_shutdown(w)
        /\ ~is_disable_voltage(w) /\ ~is_switch_on(w)
        /\ ~is_enable_operation(w) /\ ~is_quickstop(w)
    BY <1>3 DEF Ops, is_disable_voltage, is_shutdown, is_switch_on,
                is_enable_operation, is_quickstop
  <2>2. /\ t[1] \in {"Switch_On_Disabled", "Switched_On", "Operation_Enable"}
        /\ t[2] = "Ready_To_Switch_On"
    BY <1>3 DEF Transitions
  <2> HIDE DEF w
  <2> QED BY <1>1, <2>1, <2>2 DEF DriveStep
<1>4. CASE t[3] = "switch_on"
  <2>1. /\ is_switch_on(w)
        /\ ~is_disable_voltage(w) /\ ~is_shutdown(w)
        /\ ~is_enable_operation(w) /\ ~is_quickstop(w)
    BY <1>4 DEF Ops, is_disable_voltage, is_shutdown, is_switch_on,
                is_enable_operation, is_quickstop
  <2>2. t[1] \in {"Ready_To_Switch_On", "Operation_Enable"} /\ t[2] = "Switched_On"
    BY <1>4 DEF Transitions
  <2> HIDE DEF w
  <2> QED BY <1>1, <2>1, <2>2 DEF DriveStep
<1>5. CASE t[3] = "enable_operation"
  <2>1. /\ is_enable_operation(w)
        /\ ~is_disable_voltage(w) /\ ~is_shutdown(w)
        /\ ~is_switch_on(w) /\ ~is_quickstop(w)
    BY <1>5 DEF Ops, is_disable_voltage, is_shutdown, is_switch_on,
                is_enable_operation, is_quickstop
  <2>2. t[1] \in {"Switched_On", "Quick_Stop_Active"} /\ t[2] = "Operation_Enable"
    BY <1>5 DEF Transitions
  <2> HIDE DEF w
  <2> QED BY <1>1, <2>1, <2>2 DEF DriveStep
<1>6. CASE t[3] = "quickstop"
  <2>1. /\ is_quickstop(w)
        /\ ~is_disable_voltage(w) /\ ~is_shutdown(w)
        /\ ~is_switch_on(w) /\ ~is_enable_operation(w)
    BY <1>6 DEF Ops, is_disable_voltage, is_shutdown, is_switch_on,
                is_enable_operation, is_quickstop
  <2>2. t[1] = "Operation_Enable" /\ t[2] = "Quick_Stop_Active"
    BY <1>6 DEF Transitions
  <2> HIDE DEF w
  <2> QED BY <1>1, <2>1, <2>2 DEF DriveStep
<1> QED
  <2>1. t[3] \in {"disable_voltage", "automatic", "shutdown", "switch_on",
                  "enable_operation", "quickstop", "fault_reset"}
    BY DEF Transitions
  <2> QED BY <2>1, <1>2, <1>3, <1>4, <1>5, <1>6

\* Only a hop to Operation_Enable can make a word enable operation.
LEMMA ApplyDoesNotEnable ==
  ASSUME NEW cw, NEW from, NEW to,
         HasTransition(from, to), to # "Operation_Enable", ~is_enable_operation(cw)
  PROVE  ~is_enable_operation(Apply(cw, from, to))
<1>1. PICK t \in Transitions : t[1] = from /\ t[2] = to
  BY DEF HasTransition
<1>2. Apply(cw, from, to) = (cw \ Ops[t[3]].reset) \cup Ops[t[3]].set
  BY <1>1, ApplyOf
<1>3. t[3] \in {"disable_voltage", "automatic", "shutdown", "switch_on",
                "quickstop", "fault_reset"}
  BY <1>1 DEF Transitions
<1> QED BY <1>2, <1>3 DEF Ops, is_enable_operation

LEMMA QuickStopDoesNotEnable ==
  ASSUME NEW cw
  PROVE  ~is_enable_operation(Apply(cw, "Operation_Enable", "Quick_Stop_Active"))
<1>1. <<"Operation_Enable", "Quick_Stop_Active", "quickstop">> \in Transitions
  BY DEF Transitions
<1>2. Apply(cw, "Operation_Enable", "Quick_Stop_Active")
        = (cw \ Ops["quickstop"].reset) \cup Ops["quickstop"].set
  BY <1>1, ApplyOf
<1> QED BY <1>2 DEF Ops, is_enable_operation

-----------------------------------------------------------------------------
(***************************************************************************)
(* QuickStopStands.  Alone it is not inductive: a switchState in progress  *)
(* could command Operation_Enable, were the target not another.            *)
(***************************************************************************)
HistoryShape ==
  history = [promise |-> history.promise, quickstop |-> history.quickstop,
             halted |-> history.halted]

StandInv ==
  /\ HistoryShape
  /\ history.quickstop => target_state_ # "Operation_Enable"
  /\ history.quickstop => ~is_enable_operation(control_word_)

LEMMA StandInit == Init => StandInv
  BY DEF Init, StandInv, HistoryShape

LEMMA StandSwitchCommand ==
  ASSUME StandInv, NEW c \in Clients, SwitchCommand(c)
  PROVE  StandInv'
<1>1. UNCHANGED <<target_state_, history>>
  BY DEF SwitchCommand
<1>2. ASSUME history.quickstop PROVE ~is_enable_operation(control_word_')
  <2>1. /\ target_state_ # "Operation_Enable"
        /\ ~is_enable_operation(control_word_)
        /\ Hop(seen[c], target_state_) = target_state_
    BY <1>2 DEF StandInv, Hop
  <2>2. CASE UNCHANGED control_word_
    BY <2>1, <2>2
  <2>3. CASE /\ HasTransition(seen[c], Hop(seen[c], target_state_))
             /\ control_word_' = Apply(control_word_, seen[c], Hop(seen[c], target_state_))
    BY <2>1, <2>3, ApplyDoesNotEnable
  <2> QED BY <2>2, <2>3 DEF SwitchCommand
<1> QED BY <1>1, <1>2 DEF StandInv, HistoryShape

LEMMA StandHaltAct ==
  ASSUME StandInv, NEW c \in Clients, HaltAct(c)
  PROVE  StandInv'
<1>1. CASE UNCHANGED <<target_state_, control_word_, history>>
  BY <1>1 DEF StandInv, HistoryShape
<1>2. CASE /\ target_state_' = "Quick_Stop_Active"
           /\ control_word_' = Apply(control_word_, "Operation_Enable", "Quick_Stop_Active")
           /\ history' = [history EXCEPT !.quickstop = TRUE]
  <2>1. ~is_enable_operation(control_word_')
    BY <1>2, QuickStopDoesNotEnable
  <2>2. HistoryShape'
    BY <1>2 DEF StandInv, HistoryShape
  <2> QED BY <1>2, <2>1, <2>2 DEF StandInv
<1>3. CASE /\ target_state_' = seen[c]
           /\ seen[c] # "Operation_Enable"
           /\ UNCHANGED <<control_word_, history>>
  BY <1>3 DEF StandInv, HistoryShape
<1> QED BY <1>1, <1>2, <1>3 DEF HaltAct

LEMMA StandBegin ==
  ASSUME StandInv, NEW c \in Clients, NEW o, NEW m, Begin(c, o, m)
  PROVE  StandInv'
<1>1. UNCHANGED <<target_state_, control_word_>>
  BY DEF Begin, motorVars
<1>2. HistoryShape' /\ history'.quickstop = history.quickstop
  BY DEF Begin, StandInv, HistoryShape
<1> QED BY <1>1, <1>2 DEF StandInv

LEMMA StandReturn ==
  ASSUME StandInv, NEW c \in Clients, Return(c)
  PROVE  StandInv'
<1>1. UNCHANGED <<target_state_, control_word_>>
  BY DEF Return, motorVars
<1>2. \/ history' = history
      \/ \E h : history' = [history EXCEPT !.halted = h]
      \/ \E s : history' = [history EXCEPT !.promise.state = s]
  BY DEF Return
<1>3. HistoryShape' /\ history'.quickstop = history.quickstop
  BY <1>2 DEF StandInv, HistoryShape
<1> QED BY <1>1, <1>3 DEF StandInv

LEMMA StandStep ==
  ASSUME StandInv, NEW c \in Clients, ClientStep(c)
  PROVE  StandInv'
<1>1. CASE UNCHANGED <<control_word_, target_state_, history>>
  BY <1>1 DEF StandInv, HistoryShape
<1>2. CASE SwitchAim(c)
  BY <1>2 DEF SwitchAim, StandInv, HistoryShape
<1>3. CASE ZeroControlWord(c)
  BY <1>3 DEF ZeroControlWord, StandInv, HistoryShape, is_enable_operation
<1>4. CASE SwitchCommand(c)
  BY <1>4, StandSwitchCommand
<1>5. CASE HaltAct(c)
  BY <1>5, StandHaltAct
<1>6. CASE Return(c)
  BY <1>6, StandReturn
<1>7. CASE Reading(c)
  BY <1>1, <1>7 DEF Reading, Fetch, Store, ReadMode, motorVars
<1>8. CASE SwitchBegin(c) \/ SwitchEnd(c) \/ SwitchTurn(c) \/ SwitchWait(c)
  BY <1>1, <1>8 DEF SwitchBegin, SwitchEnd, SwitchTurn, SwitchWait, motorVars
<1>9. CASE StartMode(c) \/ SetMode(c) \/ AwaitMode(c) \/ Deselect(c)
  BY <1>1, <1>9 DEF StartMode, SetMode, AwaitMode, Deselect, motorVars
<1>10. CASE \/ ArmFaultReset(c) \/ RestartMode(c) \/ HaltLook(c)
            \/ TargetAsk(c) \/ TargetSet(c)
  BY <1>1, <1>10 DEF ArmFaultReset, RestartMode, HaltLook, TargetAsk, TargetSet, motorVars
<1>11. CASE HomeBegin(c) \/ HomeEnd(c) \/ HomeNone(c)
  BY <1>1, <1>11 DEF HomeBegin, HomeEnd, HomeNone, motorVars
<1> QED
  BY <1>2, <1>3, <1>4, <1>5, <1>6, <1>7, <1>8, <1>9, <1>10, <1>11 DEF ClientStep

LEMMA StandNext == StandInv /\ [Next]_vars => StandInv'
<1> SUFFICES ASSUME StandInv, [Next]_vars PROVE StandInv'
  OBVIOUS
<1>1. CASE UNCHANGED <<control_word_, target_state_, history>>
  BY <1>1 DEF StandInv, HistoryShape
<1>2. CASE UNCHANGED vars
  BY <1>1, <1>2 DEF vars, motorVars
<1>3. CASE Poll
  BY <1>1, <1>3 DEF Poll, Reading, Fetch, Store, ReadMode, HandleWrite, motorVars
<1>4. ASSUME NEW c \in Clients, NEW o, NEW m, Begin(c, o, m) PROVE StandInv'
  BY <1>4, StandBegin
<1>5. ASSUME NEW c \in Clients, ClientStep(c) PROVE StandInv'
  BY <1>5, StandStep
<1>6. ASSUME NEW c \in Clients, Timeout(c) PROVE StandInv'
  BY <1>1, <1>6 DEF Timeout, SwitchTimeout, AwaitTimeout, motorVars
<1>7. CASE DriveAnswers \/ DriveQuickStops
  BY <1>1, <1>7 DEF DriveAnswers, DriveQuickStops, DriveReact, DriveSwitchesMode,
                    DriveFaultHandled, DriveResetsFault, motorVars
<1>8. CASE DriveFaults
  <2>1. UNCHANGED <<target_state_, control_word_>>
    BY <1>8 DEF DriveFaults, motorVars
  <2>2. HistoryShape' /\ history'.quickstop = history.quickstop
    BY <1>8 DEF DriveFaults, StandInv, HistoryShape
  <2> QED BY <2>1, <2>2 DEF StandInv
<1> QED BY <1>2, <1>3, <1>4, <1>5, <1>6, <1>7, <1>8 DEF Next

\* A quick stop handleHalt commanded is not overwritten by a switchState in
\* progress, in however many threads: cw_mutex_ covers the target and the word.
THEOREM MotorQuickStopStands == Spec => []QuickStopStands
<1>1. StandInv => QuickStopStands
  BY DEF StandInv, QuickStopStands
<1> QED BY <1>1, StandInit, StandNext, PTL DEF Spec

-----------------------------------------------------------------------------
(***************************************************************************)
(* The steps of an operation: which ones come before and after others.     *)
(***************************************************************************)
\* What a step names, and which steps are around those of a mode switch.
Fits(steps) ==
  \A k \in 1 .. Len(steps) :
    /\ steps[k].do = "switch" => steps[k].arg \in States
    /\ steps[k].do \in {"start", "set", "await"} => steps[k].arg \in AllModes \ {No_Mode}
    /\ steps[k].do = "start" =>
         k + 4 <= Len(steps) /\ steps[k + 3].do = "await" /\ steps[k + 4].do = "switch"
    /\ steps[k].do = "set" =>
         (k > 1 => steps[k - 1].do = "switch") /\ (k > 2 => steps[k - 2].do = "start")
    /\ steps[k].do = "await" =>
         /\ k < Len(steps) /\ steps[k + 1].do = "switch"
         /\ k > 1 => steps[k - 1].do = "set" /\ steps[k - 1].arg = steps[k].arg

\* Where a thread can be inside a step.
Inside(c, places, do) ==
  at[c] \in places => todo[c] # <<>> /\ Head(todo[c]).do = do

PlaceFits(c) ==
  /\ at[c] \notin {"fetch", "write"}
  /\ Inside(c, {"store", "display"}, "read")
  /\ Inside(c, {"aim", "loop", "turn", "wait"}, "switch")
  /\ Inside(c, {"homing"}, "home")

\* The type invariant, strengthened.
TypeInv ==
  /\ TypeOK
  /\ \A c \in Clients : Fits(todo[c]) /\ PlaceFits(c)
  /\ at[Timer] \in {"fetch", "store", "display", "write"}

\* The steps of the operations that touch the mode of the drive.
ModeSteps == {"start", "set", "await", "deselect"}

\* The steps that are left when some have been done.
Rest(steps, rest) ==
  \E n \in 0 .. Len(steps) :
    /\ Len(rest) = Len(steps) - n
    /\ \A k \in 1 .. Len(rest) : rest[k] = steps[k + n]

\* The steps but the first are a rest.
LEMMA TailRest ==
  ASSUME NEW S, NEW steps \in Seq(S), steps # <<>>
  PROVE  /\ Tail(steps) \in Seq(S) /\ Rest(steps, Tail(steps))
         /\ Len(steps) \in Nat \ {0} /\ steps[1] = Head(steps) /\ steps[1] \in S
BY DEF Rest

\* What is left of steps that fit fits too, but for the beginning of a mode switch, ...
LEMMA FitsRest ==
  ASSUME NEW S, NEW steps \in Seq(S), NEW rest \in Seq(S), Fits(steps), Rest(steps, rest)
  PROVE  Fits(rest)
<1>1. PICK n \in 0 .. Len(steps) :
         /\ Len(rest) = Len(steps) - n
         /\ \A k \in 1 .. Len(rest) : rest[k] = steps[k + n]
  BY DEF Rest
<1>2. Len(steps) \in Nat /\ Len(rest) \in Nat
  OBVIOUS
<1> SUFFICES ASSUME NEW k \in 1 .. Len(rest)
             PROVE  Fits(rest)!(k)
  BY Zenon DEF Fits
<1>3. k + n \in 1 .. Len(steps) /\ rest[k] = steps[k + n]
  BY <1>1, <1>2
<1>4. Fits(steps)!(k + n)
  BY <1>3, Zenon DEF Fits
<1>5. ASSUME rest[k].do = "start"
      PROVE  k + 4 <= Len(rest) /\ rest[k + 3].do = "await" /\ rest[k + 4].do = "switch"
  <2>1. /\ (k + n) + 4 <= Len(steps) /\ steps[(k + n) + 3].do = "await"
        /\ steps[(k + n) + 4].do = "switch"
    BY <1>3, <1>4, <1>5
  <2>2. /\ k + 3 \in 1 .. Len(rest) /\ k + 4 \in 1 .. Len(rest)
        /\ (k + n) + 3 = (k + 3) + n /\ (k + n) + 4 = (k + 4) + n
    BY <1>1, <1>2, <2>1
  <2>3. rest[k + 3] = steps[(k + n) + 3] /\ rest[k + 4] = steps[(k + n) + 4]
    BY <1>1, <2>2
  <2>4. QED
    BY <2>1, <2>2, <2>3
<1>6. ASSUME rest[k].do = "set"
      PROVE  (k > 1 => rest[k - 1].do = "switch") /\ (k > 2 => rest[k - 2].do = "start")
  <2>1. /\ k + n > 1 => steps[(k + n) - 1].do = "switch"
        /\ k + n > 2 => steps[(k + n) - 2].do = "start"
    BY <1>3, <1>4, <1>6
  <2>2. /\ k > 1 => k - 1 \in 1 .. Len(rest) /\ k + n > 1
        /\ k > 2 => k - 2 \in 1 .. Len(rest) /\ k + n > 2
        /\ (k + n) - 1 = (k - 1) + n /\ (k + n) - 2 = (k - 2) + n
    BY <1>1, <1>2
  <2>3. /\ k > 1 => rest[k - 1] = steps[(k + n) - 1]
        /\ k > 2 => rest[k - 2] = steps[(k + n) - 2]
    BY <1>1, <2>2
  <2>4. QED
    BY <2>1, <2>2, <2>3
<1>7. ASSUME rest[k].do = "await"
      PROVE  /\ k < Len(rest) /\ rest[k + 1].do = "switch"
             /\ k > 1 => rest[k - 1].do = "set" /\ rest[k - 1].arg = rest[k].arg
  <2>1. k + n < Len(steps) /\ steps[(k + n) + 1].do = "switch"
    BY <1>3, <1>4, <1>7
  <2>2. k + n > 1 =>
          steps[(k + n) - 1].do = "set" /\ steps[(k + n) - 1].arg = steps[k + n].arg
    BY <1>3, <1>4, <1>7
  <2>3. k + 1 \in 1 .. Len(rest)
    BY <1>1, <1>2, <2>1
  <2>4. /\ k > 1 => k - 1 \in 1 .. Len(rest) /\ k + n > 1
        /\ (k + n) + 1 = (k + 1) + n /\ (k + n) - 1 = (k - 1) + n
    BY <1>1, <1>2
  <2>5. k < Len(rest) /\ rest[k + 1].do = "switch"
    BY <1>1, <1>2, <2>1, <2>3, <2>4
  <2>6. k > 1 => rest[k - 1].do = "set" /\ rest[k - 1].arg = rest[k].arg
    BY <1>1, <1>3, <2>2, <2>4
  <2>7. QED
    BY <2>5, <2>6
<1>8. QED
  BY <1>3, <1>4, <1>5, <1>6, <1>7

\* Every operation begins with steps that fit.
LEMMA SwitchModeSteps ==
  ASSUME NEW m \in AllModes \ {No_Mode}
  PROVE  /\ SwitchMode(m) \in Seq(Steps) /\ Len(SwitchMode(m)) = 5
         /\ SwitchMode(m)[1] = Step("start", m) /\ SwitchMode(m)[2] = Switch(SwitchingState)
         /\ SwitchMode(m)[3] = Step("set", m) /\ SwitchMode(m)[4] = Step("await", m)
         /\ SwitchMode(m)[5] = Switch("Operation_Enable")
<1>1. SwitchingState \in States /\ "Operation_Enable" \in States
  BY ConfigurationAssumption DEF States
<1>2. /\ Step("start", m) \in Steps /\ Step("set", m) \in Steps /\ Step("await", m) \in Steps
      /\ Switch(SwitchingState) \in Steps /\ Switch("Operation_Enable") \in Steps
  BY <1>1 DEF Steps, Step, Switch
<1> HIDE DEF Steps, Step, Switch
<1>3. QED
  BY <1>2 DEF SwitchMode

\* The steps of two sequences, one after the other.
LEMMA Joined ==
  ASSUME NEW S, NEW s \in Seq(S), NEW t \in Seq(S)
  PROVE  /\ s \o t \in Seq(S) /\ Len(s \o t) = Len(s) + Len(t)
         /\ \A k \in 1 .. Len(s) : (s \o t)[k] = s[k]
         /\ \A k \in 1 .. Len(t) : (s \o t)[k + Len(s)] = t[k]
OBVIOUS

\* The initialisation of a drive that supports homing, step by step.
LEMMA InitSteps ==
  ASSUME HomingSupported, NEW m
  PROVE  /\ Program("init", m) \in Seq(Steps) /\ Len(Program("init", m)) = 10
         /\ Program("init", m)[1].do = "read" /\ Program("init", m)[2].do = "zero"
         /\ Program("init", m)[3] = Switch("Operation_Enable")
         /\ Program("init", m)[4] = Step("start", Homing)
         /\ Program("init", m)[5] = Switch(SwitchingState)
         /\ Program("init", m)[6] = Step("set", Homing)
         /\ Program("init", m)[7] = Step("await", Homing)
         /\ Program("init", m)[8] = Switch("Operation_Enable")
         /\ Program("init", m)[9].do = "home" /\ Program("init", m)[10].do = "deselect"
<1> DEFINE first == <<Step("read", No_Mode), Step("zero", No_Mode), Switch("Operation_Enable")>>
           middle == SwitchMode(Homing)
           last == <<Step("home", Homing), Step("deselect", No_Mode)>>
<1>1. Program("init", m) = first \o (middle \o last)
  BY DEF Program
<1>2. /\ first \in Seq(Steps) /\ Len(first) = 3
      /\ first[1].do = "read" /\ first[2].do = "zero" /\ first[3] = Switch("Operation_Enable")
  BY DEF Steps, Step, Switch, States, AllModes
<1>3. /\ last \in Seq(Steps) /\ Len(last) = 2
      /\ last[1].do = "home" /\ last[2].do = "deselect"
  BY DEF Steps, Step, AllModes
<1>4. Homing \in AllModes \ {No_Mode}
  BY DEF AllModes, Homing, No_Mode
<1>5. /\ middle \in Seq(Steps) /\ Len(middle) = 5
      /\ middle[1] = Step("start", Homing) /\ middle[2] = Switch(SwitchingState)
      /\ middle[3] = Step("set", Homing) /\ middle[4] = Step("await", Homing)
      /\ middle[5] = Switch("Operation_Enable")
  BY <1>4, SwitchModeSteps
<1> DEFINE rest == middle \o last
           all == first \o rest
<1> HIDE DEF first, middle, last
<1>6. /\ rest \in Seq(Steps) /\ Len(rest) = Len(middle) + Len(last)
      /\ \A k \in 1 .. Len(middle) : rest[k] = middle[k]
      /\ \A k \in 1 .. Len(last) : rest[k + Len(middle)] = last[k]
  <2>1. middle \in Seq(Steps) /\ last \in Seq(Steps)
    BY <1>3, <1>5
  <2>2. QED
    BY <2>1, Joined
<1> HIDE DEF rest
<1>7. /\ all \in Seq(Steps) /\ Len(all) = Len(first) + Len(rest)
      /\ \A k \in 1 .. Len(first) : all[k] = first[k]
      /\ \A k \in 1 .. Len(rest) : all[k + Len(first)] = rest[k]
  <2>1. first \in Seq(Steps) /\ rest \in Seq(Steps)
    BY <1>2, <1>6
  <2>2. QED
    BY <2>1, Joined
<1>8. Program("init", m) = all
  BY <1>1 DEF rest
<1> HIDE DEF all
<1>9. Len(rest) = 7 /\ Len(all) = 10
  BY <1>2, <1>3, <1>5, <1>6, <1>7
<1>10. /\ rest[1] = middle[1] /\ rest[2] = middle[2] /\ rest[3] = middle[3]
       /\ rest[4] = middle[4] /\ rest[5] = middle[5] /\ rest[6] = last[1] /\ rest[7] = last[2]
  BY <1>3, <1>5, <1>6
<1>11. /\ all[1] = first[1] /\ all[2] = first[2] /\ all[3] = first[3] /\ all[4] = rest[1]
       /\ all[5] = rest[2] /\ all[6] = rest[3] /\ all[7] = rest[4] /\ all[8] = rest[5]
       /\ all[9] = rest[6] /\ all[10] = rest[7]
  BY <1>2, <1>7, <1>9
<1>12. QED
  BY <1>2, <1>3, <1>5, <1>7, <1>8, <1>9, <1>10, <1>11

\* A few steps without a mode switch fit.
Plain(steps) ==
  /\ steps \in Seq(Steps) /\ Len(steps) \in 2 .. 3
  /\ \A k \in 1 .. Len(steps) :
       /\ steps[k].do \notin {"start", "set", "await"}
       /\ steps[k].do = "switch" => steps[k].arg \in States

\* Nothing is asked of them but the state a switch names.
LEMMA PlainFits ==
  ASSUME NEW steps, Plain(steps)
  PROVE  Fits(steps)
BY DEF Plain, Fits

\* The operations without a mode switch are a few such steps.
LEMMA PlainPrograms ==
  ASSUME NEW o, NEW m, o \in {"enable", "disable", "recover", "shutdown", "halt", "target"}
  PROVE  /\ Plain(Program(o, m))
         /\ o # "shutdown" =>
              \A k \in 1 .. Len(Program(o, m)) : Program(o, m)[k].do # "deselect"
<1>1. CASE o = "enable"
  <2>1. Program(o, m) = <<Step("read", No_Mode), Switch("Operation_Enable")>>
    BY <1>1 DEF Program
  <2>2. QED
    BY <2>1 DEF Plain, Steps, Step, Switch, States, AllModes
<1>2. CASE o = "disable"
  <2>1. Program(o, m) = <<Step("read", No_Mode), Switch("Switched_On")>>
    BY <1>2 DEF Program
  <2>2. QED
    BY <2>1 DEF Plain, Steps, Step, Switch, States, AllModes
<1>3. CASE o = "recover"
  <2>1. Program(o, m) = <<Step("arm", No_Mode), Step("restart", No_Mode),
                          Switch("Operation_Enable")>>
    BY <1>3 DEF Program
  <2>2. QED
    BY <2>1 DEF Plain, Steps, Step, Switch, States, AllModes
<1>4. CASE o = "shutdown"
  <2>1. Program(o, m) = <<Step("deselect", No_Mode), Switch("Switch_On_Disabled")>>
    BY <1>4 DEF Program
  <2>2. Plain(Program(o, m))
    BY <2>1 DEF Plain, Steps, Step, Switch, States, AllModes
  <2>3. QED
    BY <1>4, <2>2
<1>5. CASE o = "halt"
  <2>1. Program(o, m) = <<Step("look", No_Mode), Step("halt", No_Mode)>>
    BY <1>5 DEF Program
  <2>2. QED
    BY <2>1 DEF Plain, Steps, Step, Switch, States, AllModes
<1>6. CASE o = "target"
  <2>1. Program(o, m) = <<Step("ask", No_Mode), Step("target", No_Mode)>>
    BY <1>6 DEF Program
  <2>2. QED
    BY <2>1 DEF Plain, Steps, Step, Switch, States, AllModes
<1>7. QED
  BY <1>1, <1>2, <1>3, <1>4, <1>5, <1>6

\* Every operation is made of steps that fit, and only three touch the mode.
LEMMA ProgramFits ==
  ASSUME NEW o \in Operations, NEW m \in IF o = "mode" THEN Modes ELSE {No_Mode}
  PROVE  /\ Program(o, m) \in Seq(Steps) /\ Fits(Program(o, m)) /\ Len(Program(o, m)) > 1
         /\ Program(o, m)[1].do \notin {"set", "await"}
         /\ Program(o, m)[1].do = "switch" => Program(o, m)[2].do # "set"
         /\ o \notin {"init", "mode", "shutdown"} =>
              \A k \in 1 .. Len(Program(o, m)) : Program(o, m)[k].do \notin ModeSteps
<1>1. CASE o \in {"enable", "disable", "recover", "shutdown", "halt", "target"}
  <2> DEFINE p == Program(o, m)
  <2>1. Plain(p) /\ (o # "shutdown" => \A k \in 1 .. Len(p) : p[k].do # "deselect")
    BY <1>1, PlainPrograms
  <2> HIDE DEF p
  <2>2. Fits(p)
    BY <2>1, PlainFits
  <2>3. QED
    BY <2>1, <2>2 DEF ModeSteps, Plain, p
<1>2. CASE o = "mode"
  <2>1. m \in AllModes \ {No_Mode}
    BY <1>2, ModesAssumption DEF AllModes
  <2> DEFINE p == SwitchMode(m)
  <2>2. Program(o, m) = p
    BY <1>2 DEF Program
  <2>3. SwitchingState \in States
    BY ConfigurationAssumption
  <2>4. /\ p \in Seq(Steps) /\ Len(p) = 5 /\ p[1].do = "start" /\ p[1].arg = m
        /\ p[2].do = "switch" /\ p[2].arg \in States /\ p[3].do = "set" /\ p[3].arg = m
        /\ p[4].do = "await" /\ p[4].arg = m /\ p[5].do = "switch" /\ p[5].arg \in States
    <3>1. /\ p \in Seq(Steps) /\ Len(p) = 5 /\ p[1] = Step("start", m)
          /\ p[2] = Switch(SwitchingState) /\ p[3] = Step("set", m)
          /\ p[4] = Step("await", m) /\ p[5] = Switch("Operation_Enable")
      BY <2>1, SwitchModeSteps
    <3> HIDE DEF p
    <3>2. QED
      BY <2>3, <3>1 DEF Step, Switch, States
  <2> HIDE DEF p
  <2>5. Fits(p)
    <3> SUFFICES ASSUME NEW k \in 1 .. 5 PROVE Fits(p)!(k)
      BY <2>4, Zenon DEF Fits
    <3>1. k = 1 \/ k = 2 \/ k = 3 \/ k = 4 \/ k = 5
      OBVIOUS
    <3>2. QED
      BY <2>1, <2>4, <3>1
  <2>6. QED
    BY <1>2, <2>2, <2>4, <2>5
<1>3. CASE o = "init"
  <2>1. CASE HomingSupported
    <3> DEFINE p == Program("init", m)
    <3>1. /\ p \in Seq(Steps) /\ Len(p) = 10 /\ p[1].do = "read" /\ p[2].do = "zero"
          /\ p[3].do = "switch" /\ p[3].arg \in States /\ p[4].do = "start" /\ p[4].arg = Homing
          /\ p[5].do = "switch" /\ p[5].arg \in States /\ p[6].do = "set" /\ p[6].arg = Homing
          /\ p[7].do = "await" /\ p[7].arg = Homing /\ p[8].do = "switch" /\ p[8].arg \in States
          /\ p[9].do = "home" /\ p[10].do = "deselect"
      BY <2>1, InitSteps, ConfigurationAssumption DEF Step, Switch, States
    <3>2. Homing \in AllModes \ {No_Mode}
      BY DEF AllModes, Homing, No_Mode
    <3> HIDE DEF p
    <3>3. Fits(p)
      <4> SUFFICES ASSUME NEW k \in 1 .. 10 PROVE Fits(p)!(k)
        BY <3>1, Zenon DEF Fits
      <4>1. \/ k = 1 \/ k = 2 \/ k = 3 \/ k = 4 \/ k = 5
            \/ k = 6 \/ k = 7 \/ k = 8 \/ k = 9 \/ k = 10
        OBVIOUS
      <4>2. QED
        BY <3>1, <3>2, <4>1
    <3>4. QED
      BY <1>3, <3>1, <3>3 DEF p
  <2>2. CASE ~HomingSupported
    <3>1. Program(o, m) = <<Step("read", No_Mode), Step("zero", No_Mode),
                            Switch("Operation_Enable")>>
      BY <1>3, <2>2 DEF Program
    <3>2. Plain(Program(o, m)) /\ Program(o, m)[1].do = "read"
      BY <3>1 DEF Plain, Steps, Step, Switch, States, AllModes
    <3>3. QED
      BY <1>3, <3>2, PlainFits DEF Plain
  <2>3. QED
    BY <2>1, <2>2
<1>4. QED
  BY <1>1, <1>2, <1>3 DEF Operations

-----------------------------------------------------------------------------
(***************************************************************************)
(* Type correctness, in parts: where the threads are and what they have    *)
(* still to do, and the other variables.                                   *)
(***************************************************************************)
Shape ==
  /\ at \in [Threads -> Locations] /\ todo \in [Clients -> Seq(Steps)]
  /\ \A c \in Clients : Fits(todo[c]) /\ PlaceFits(c)
  /\ at[Timer] \in {"fetch", "store", "display", "write"}

Rests ==
  /\ okay \in [Clients -> BOOLEAN]
  /\ \A c \in Clients : Idle(c) => todo[c] = <<>> /\ at[c] = "step" /\ okay[c]

MotorTypes ==
  /\ control_word_ \subseteq CommandBits
  /\ start_fault_reset_ \in BOOLEAN
  /\ target_state_ \in States /\ state_ \in States
  /\ selected_mode_ \in AllModes /\ mode_id_ \in AllModes
  /\ has_target_ \subseteq AllModes

LocalTypes ==
  /\ sw \in [Threads -> SUBSET StatusBits]
  /\ op \in [Clients -> Operations \cup {"none"}]
  /\ seen \in [Clients -> States]

DriveTypes ==
  drive \in [state : DriveStates, mode : AllModes, ask : AllModes,
             rx : SUBSET ControlBits, edge : BOOLEAN]

Counts == faults \in 0 .. MaxFaults /\ timeouts \in 0 .. MaxTimeouts

HistoryTypes ==
  history \in [promise : [watched : BOOLEAN, state : States],
               quickstop : BOOLEAN, halted : BOOLEAN]

\* The parts make up the type invariant.
LEMMA TypeParts ==
  TypeInv <=> Shape /\ Rests /\ MotorTypes /\ LocalTypes /\ DriveTypes /\ Counts /\ HistoryTypes
BY DEF TypeInv, TypeOK, Shape, Rests, MotorTypes, LocalTypes, DriveTypes, Counts, HistoryTypes

\* What every step of a client does to its place and to what it has to do.
LEMMA ShapeContinue ==
  ASSUME Shape, NEW c \in Clients, NEW rest \in Seq(Steps), Fits(rest), Continue(c, rest)
  PROVE  Shape'
<1>1. c \in Threads /\ c # Timer /\ Timer \in Threads /\ Clients \subseteq Threads
  BY ClientsAssumption DEF Threads
<1>2. /\ at' = [at EXCEPT ![c] = "step"] /\ todo' = [todo EXCEPT ![c] = rest]
  BY DEF Continue, Go
<1>3. at' \in [Threads -> Locations] /\ todo' \in [Clients -> Seq(Steps)]
  BY <1>1, <1>2 DEF Shape, Locations
<1>4. ASSUME NEW d \in Clients PROVE Fits(todo'[d]) /\ PlaceFits(d)'
  <2>1. CASE d = c
    <3>1. todo'[d] = rest /\ at'[d] = "step"
      BY <1>1, <1>2, <2>1 DEF Shape
    <3>2. QED
      BY <3>1 DEF PlaceFits, Inside
  <2>2. CASE d # c
    <3>1. todo'[d] = todo[d] /\ at'[d] = at[d]
      BY <1>1, <1>2, <2>2 DEF Shape
    <3>2. QED
      BY <3>1 DEF Shape, PlaceFits, Inside
  <2>3. QED
    BY <2>1, <2>2
<1>5. at'[Timer] = at[Timer]
  BY <1>1, <1>2 DEF Shape
<1>6. QED
  BY <1>3, <1>4, <1>5 DEF Shape

\* A client moves to another place inside a step.
LEMMA ShapeGo ==
  ASSUME Shape, NEW c \in Clients, NEW where \in Locations, Go(c, where), todo' = todo,
         where \notin {"fetch", "write"},
         where \in {"store", "display"} => todo[c] # <<>> /\ Head(todo[c]).do = "read",
         where \in {"aim", "loop", "turn", "wait"} =>
           todo[c] # <<>> /\ Head(todo[c]).do = "switch",
         where = "homing" => todo[c] # <<>> /\ Head(todo[c]).do = "home"
  PROVE  Shape'
<1>1. c \in Threads /\ c # Timer /\ Timer \in Threads /\ Clients \subseteq Threads
  BY ClientsAssumption DEF Threads
<1>2. at' = [at EXCEPT ![c] = where]
  BY DEF Go
<1>3. at' \in [Threads -> Locations] /\ at'[Timer] = at[Timer] /\ at'[c] = where
  BY <1>1, <1>2 DEF Shape
<1>4. ASSUME NEW d \in Clients PROVE PlaceFits(d)'
  <2>1. CASE d = c
    BY <1>3, <2>1 DEF PlaceFits, Inside
  <2>2. CASE d # c
    <3>1. at'[d] = at[d]
      BY <1>1, <1>2, <2>2 DEF Shape
    <3>2. QED
      BY <3>1 DEF Shape, PlaceFits, Inside
  <2>3. QED
    BY <2>1, <2>2
<1>5. QED
  BY <1>3, <1>4 DEF Shape

\* The timer moves.
LEMMA ShapeTimer ==
  ASSUME Shape, NEW where \in {"fetch", "store", "display", "write"}, Go(Timer, where), todo' = todo
  PROVE  Shape'
<1>1. Timer \notin Clients /\ Timer \in Threads /\ Clients \subseteq Threads
  BY ClientsAssumption DEF Threads
<1>2. /\ at' = [at EXCEPT ![Timer] = where] /\ where \in Locations
  BY DEF Go, Locations
<1>3. at' \in [Threads -> Locations] /\ at'[Timer] = where
  BY <1>1, <1>2 DEF Shape
<1>4. \A d \in Clients : at'[d] = at[d]
  BY <1>1, <1>2 DEF Shape
<1>5. \A d \in Clients : PlaceFits(d)'
  BY <1>4 DEF Shape, PlaceFits, Inside
<1>6. QED
  BY <1>3, <1>5 DEF Shape

\* A client is done with a step.
LEMMA ShapeDone ==
  ASSUME Shape, NEW c \in Clients, todo[c] # <<>>, Continue(c, Tail(todo[c]))
  PROVE  Shape'
<1>1. todo[c] \in Seq(Steps) /\ Fits(todo[c])
  BY DEF Shape
<1>2. Tail(todo[c]) \in Seq(Steps) /\ Rest(todo[c], Tail(todo[c]))
  BY <1>1, TailRest
<1>3. Fits(Tail(todo[c]))
  BY <1>1, <1>2, FitsRest
<1>4. QED
  BY <1>2, <1>3, ShapeContinue

\* An operation fails: nothing is left to do.
LEMMA ShapeFail ==
  ASSUME Shape, NEW c \in Clients, Continue(c, <<>>)
  PROVE  Shape'
<1>1. <<>> \in Seq(Steps) /\ Fits(<<>>)
  BY DEF Fits
<1>2. QED
  BY <1>1, ShapeContinue

\* Only the place of c and its steps change.
Moves(c) == (\E rest : Continue(c, rest)) \/ ((\E where : Go(c, where)) /\ todo' = todo)

\* Clients without an operation stay without one while c goes on.
LEMMA RestsOthers ==
  ASSUME Rests, LocalTypes, Shape, NEW c \in Clients, ~Idle(c), op' = op,
         Moves(c),
         okay' \in {okay, [okay EXCEPT ![c] = FALSE]}
  PROVE  Rests'
<1>1. okay' \in [Clients -> BOOLEAN]
  BY DEF Rests
<1>2. ASSUME NEW d \in Clients, Idle(d)
      PROVE  todo'[d] = todo[d] /\ at'[d] = at[d] /\ okay'[d] = okay[d]
  BY <1>2 DEF Moves, Continue, Go, Rests, Shape, Threads
<1>3. QED
  BY <1>1, <1>2 DEF Rests, Idle

\* A client goes on with its operation in one of three ways.
MayGo(c, where) ==
  /\ where \in Locations \ {"fetch", "write"}
  /\ where \in {"store", "display"} => todo[c] # <<>> /\ Head(todo[c]).do = "read"
  /\ where \in {"aim", "loop", "turn", "wait"} => todo[c] # <<>> /\ Head(todo[c]).do = "switch"
  /\ where = "homing" => todo[c] # <<>> /\ Head(todo[c]).do = "home"

Goes(c) ==
  \/ todo[c] # <<>> /\ Done(c)
  \/ Fail(c)
  \/ \E where : MayGo(c, where) /\ Go(c, where) /\ UNCHANGED <<todo, okay>>

\* In each of the three ways, places and steps still fit.
LEMMA GoesFits ==
  ASSUME Shape, Rests, LocalTypes, NEW c \in Clients, ~Idle(c), op' = op, Goes(c)
  PROVE  Shape' /\ Rests'
<1>1. CASE todo[c] # <<>> /\ Done(c)
  <2>1. Continue(c, Tail(todo[c])) /\ okay' = okay
    BY <1>1 DEF Done
  <2>2. okay' \in {okay, [okay EXCEPT ![c] = FALSE]}
    BY <2>1
  <2>3. Moves(c)
    BY <2>1, Zenon DEF Moves
  <2>4. Shape'
    BY <1>1, <2>1, ShapeDone
  <2>5. QED
    BY <2>2, <2>3, <2>4, RestsOthers, Zenon
<1>2. CASE Fail(c)
  <2>1. Continue(c, <<>>) /\ okay' = [okay EXCEPT ![c] = FALSE]
    BY <1>2 DEF Fail
  <2>2. okay' \in {okay, [okay EXCEPT ![c] = FALSE]}
    BY <2>1
  <2>3. Moves(c)
    BY <2>1, Zenon DEF Moves
  <2>4. Shape'
    BY <2>1, ShapeFail
  <2>5. QED
    BY <2>2, <2>3, <2>4, RestsOthers, Zenon
<1>3. ASSUME NEW where, MayGo(c, where), Go(c, where), UNCHANGED <<todo, okay>>
      PROVE  Shape' /\ Rests'
  <2>1. where \in Locations /\ where \notin {"fetch", "write"} /\ todo' = todo
    BY <1>3 DEF MayGo
  <2>2. Shape'
    BY <1>3, <2>1, ShapeGo DEF MayGo
  <2>3. okay' \in {okay, [okay EXCEPT ![c] = FALSE]}
    BY <1>3
  <2>4. Moves(c)
    BY <1>3, <2>1, Zenon DEF Moves
  <2>5. QED
    BY <2>2, <2>3, <2>4, RestsOthers, Zenon
<1>4. QED
  BY <1>1, <1>2, <1>3 DEF Goes

\* A client that is inside a step, or at one, has not returned.
LEMMA Busy ==
  ASSUME Rests, NEW c \in Clients, at[c] # "step"
  PROVE  ~Idle(c)
BY DEF Rests

\* What is left of a sequence after its first five elements.
LEMMA AfterFive ==
  ASSUME NEW S, NEW t \in Seq(S), Len(t) >= 5
  PROVE  LET rest == SubSeq(t, 6, Len(t)) IN
         /\ rest \in Seq(S) /\ Len(rest) = Len(t) - 5
         /\ \A k \in 1 .. Len(rest) : rest[k] = t[k + 5]
<1>1. ASSUME NEW m \in Int, NEW n \in Int, \A i \in m .. n : t[i] \in S
      PROVE  /\ SubSeq(t, m, n) \in Seq(S)
             /\ Len(SubSeq(t, m, n)) = IF m <= n THEN n - m + 1 ELSE 0
             /\ \A i \in 1 .. n - m + 1 : SubSeq(t, m, n)[i] = t[m + i - 1]
  BY <1>1, SubSeqProperties
<1> DEFINE l == Len(t)
           rest == SubSeq(t, 6, l)
<1>2. l \in Int /\ l >= 5 /\ \A i \in 6 .. l : t[i] \in S
  OBVIOUS
<1> HIDE DEF l
<1>3. /\ rest \in Seq(S)
      /\ Len(rest) = IF 6 <= l THEN l - 6 + 1 ELSE 0
      /\ \A k \in 1 .. l - 6 + 1 : rest[k] = t[6 + k - 1]
  BY <1>1, <1>2
<1> HIDE DEF rest
<1>4. Len(rest) = l - 5
  BY <1>2, <1>3
<1>5. ASSUME NEW k \in 1 .. Len(rest) PROVE rest[k] = t[k + 5]
  <2>1. k \in 1 .. l - 6 + 1 /\ 6 + k - 1 = k + 5
    BY <1>2, <1>4
  <2>2. QED
    BY <1>3, <2>1
<1>6. QED
  BY <1>3, <1>4, <1>5 DEF rest, l

\* The beginning of a mode switch may pass over all of it.
LEMMA SkipFits ==
  ASSUME Shape, NEW c \in Clients, todo[c] # <<>>, Head(todo[c]).do = "start"
  PROVE  LET rest == SubSeq(todo[c], Len(SwitchMode(Arg(c))) + 1, Len(todo[c])) IN
         /\ rest \in Seq(Steps) /\ Rest(todo[c], rest) /\ Fits(rest)
         /\ Len(todo[c]) >= 5 /\ Len(rest) = Len(todo[c]) - 5
         /\ \A k \in 1 .. Len(rest) : rest[k] = todo[c][k + 5]
<1> DEFINE t == todo[c]
           rest == SubSeq(t, 6, Len(t))
<1>1. Len(SwitchMode(Arg(c))) + 1 = 6
  BY DEF SwitchMode
<1>2. t \in Seq(Steps) /\ Fits(t) /\ t # <<>> /\ Head(t).do = "start"
  BY DEF Shape
<1> HIDE DEF t
<1>3. Len(t) \in Nat /\ Len(t) >= 5
  <2>1. Len(t) \in Nat \ {0} /\ t[1] = Head(t)
    BY <1>2, TailRest
  <2>2. 1 \in 1 .. Len(t)
    BY <2>1
  <2>3. t[1].do = "start" => 1 + 4 <= Len(t)
    BY <1>2, <2>2, Zenon DEF Fits
  <2>4. QED
    BY <1>2, <2>1, <2>3
<1>4. /\ rest \in Seq(Steps) /\ Len(rest) = Len(t) - 5
      /\ \A k \in 1 .. Len(rest) : rest[k] = t[k + 5]
  BY <1>2, <1>3, AfterFive
<1>5. Rest(t, rest)
  BY <1>3, <1>4 DEF Rest
<1> HIDE DEF rest
<1>6. Fits(rest)
  BY <1>2, <1>4, <1>5, FitsRest
<1>7. QED
  BY <1>1, <1>3, <1>4, <1>5, <1>6 DEF t, rest

\* So does every step of a client but the beginning of a mode switch and the return.
LEMMA StepGoes ==
  ASSUME Shape, Rests, NEW c \in Clients, ClientStep(c), ~StartMode(c), ~Return(c)
  PROVE  Goes(c) /\ op' = op /\ ~Idle(c)
<1>2. c # Timer
  BY ClientsAssumption
<1> USE DEF motorVars, clientVars
<1>3. CASE \/ SetMode(c) \/ AwaitMode(c) \/ Deselect(c) \/ ZeroControlWord(c)
          \/ ArmFaultReset(c) \/ RestartMode(c) \/ HaltLook(c)
  <2>1. todo[c] # <<>> /\ Done(c) /\ ~Idle(c) /\ op' = op
    BY <1>3 DEF SetMode, AwaitMode, Deselect, ZeroControlWord, ArmFaultReset, RestartMode,
                HaltLook, Doing, Idle
  <2>2. QED
    BY <2>1 DEF Goes
<1>4. CASE HaltAct(c) \/ TargetAsk(c) \/ TargetSet(c) \/ HomeNone(c)
  <2>1. todo[c] # <<>> /\ (Done(c) \/ Fail(c)) /\ ~Idle(c) /\ op' = op
    BY <1>4 DEF HaltAct, TargetAsk, TargetSet, HomeNone, Doing, Idle
  <2>2. QED
    BY <2>1 DEF Goes
<1>5. CASE HomeEnd(c)
  <2>1. todo[c] # <<>> /\ (Done(c) \/ Fail(c)) /\ at[c] = "homing" /\ op' = op
    BY <1>5 DEF HomeEnd, Shape, PlaceFits, Inside
  <2>2. QED
    BY <2>1, Busy DEF Goes
<1>6. CASE HomeBegin(c)
  <2>1. MayGo(c, "homing") /\ Go(c, "homing") /\ UNCHANGED <<todo, okay, op>> /\ ~Idle(c)
    BY <1>6 DEF HomeBegin, MayGo, Locations, Doing, Idle
  <2>2. QED
    BY <2>1 DEF Goes
<1>7. CASE Reading(c)
  <2>1. CASE Fetch(c)
    <3>1. MayGo(c, "store") /\ Go(c, "store") /\ UNCHANGED <<todo, okay, op>> /\ ~Idle(c)
      BY <1>2, <2>1 DEF Fetch, MayFetch, MayGo, Locations, Doing, Idle
    <3>2. QED
      BY <3>1 DEF Goes
  <2>2. CASE Store(c)
    <3>1. MayGo(c, "display") /\ Go(c, "display") /\ UNCHANGED <<todo, okay, op>>
          /\ at[c] # "step"
      BY <2>2 DEF Store, MayGo, Locations, Shape, PlaceFits, Inside
    <3>2. QED
      BY <3>1, Busy DEF Goes
  <2>3. CASE ReadMode(c)
    <3>1. todo[c] # <<>> /\ Done(c) /\ op' = op /\ at[c] # "step"
      BY <1>2, <2>3 DEF ReadMode, Shape, PlaceFits, Inside
    <3>2. QED
      BY <3>1, Busy DEF Goes
  <2>4. QED
    BY <1>7, <2>1, <2>2, <2>3 DEF Reading
<1>8. CASE SwitchBegin(c)
  <2>1. MayGo(c, "aim") /\ Go(c, "aim") /\ UNCHANGED <<todo, okay, op>> /\ ~Idle(c)
    BY <1>8 DEF SwitchBegin, MayGo, Locations, Doing, Idle
  <2>2. QED
    BY <2>1 DEF Goes
<1>9. CASE SwitchAim(c) \/ SwitchTurn(c) \/ SwitchWait(c)
  <2>1. /\ at[c] \in {"aim", "loop", "wait"} /\ UNCHANGED <<todo, okay, op>>
        /\ Go(c, "loop") \/ Go(c, "turn")
    BY <1>9 DEF SwitchAim, SwitchTurn, SwitchWait
  <2>2. MayGo(c, "loop") /\ MayGo(c, "turn")
    BY <2>1 DEF MayGo, Locations, Shape, PlaceFits, Inside
  <2>3. QED
    BY <2>1, <2>2, Busy DEF Goes
<1>10. CASE SwitchEnd(c)
  <2>1. at[c] = "loop" /\ (Done(c) \/ Fail(c)) /\ op' = op
    BY <1>10 DEF SwitchEnd
  <2>2. todo[c] # <<>>
    BY <2>1 DEF Shape, PlaceFits, Inside
  <2>3. QED
    BY <2>1, <2>2, Busy DEF Goes
<1>11. CASE SwitchCommand(c)
  <2>1. /\ at[c] = "turn" /\ op' = op
        /\ Fail(c) \/ ((Go(c, "loop") \/ Go(c, "wait")) /\ UNCHANGED <<todo, okay>>)
    BY <1>11 DEF SwitchCommand
  <2>2. MayGo(c, "loop") /\ MayGo(c, "wait")
    BY <2>1 DEF MayGo, Locations, Shape, PlaceFits, Inside
  <2>3. QED
    BY <2>1, <2>2, Busy DEF Goes
<1>12. QED
  BY <1>3, <1>4, <1>5, <1>6, <1>7, <1>8, <1>9, <1>10, <1>11 DEF ClientStep

\* And with those two, every step of a client.
LEMMA ClientGoes ==
  ASSUME Shape, Rests, LocalTypes, NEW c \in Clients, ClientStep(c)
  PROVE  Shape' /\ Rests'
<1>1. at[c] \in Locations \ {"fetch", "write"}
  BY ClientsAssumption DEF Shape, PlaceFits, Threads
<1> USE DEF motorVars, clientVars
<1>12. CASE StartMode(c)
  <2>1. todo[c] # <<>> /\ Head(todo[c]).do = "start" /\ ~Idle(c) /\ op' = op
    BY <1>12 DEF StartMode, Doing, Idle
  <2>2. CASE Done(c)
    BY <2>1, <2>2, GoesFits DEF Goes
  <2>3. CASE ~Done(c)
    <3> DEFINE rest == SubSeq(todo[c], Len(SwitchMode(Arg(c))) + 1, Len(todo[c]))
    <3>1. Continue(c, rest) /\ okay' = okay
      BY <1>12, <2>3 DEF StartMode
    <3>2. rest \in Seq(Steps) /\ Fits(rest)
      BY <2>1, SkipFits
    <3>3. okay' \in {okay, [okay EXCEPT ![c] = FALSE]}
      BY <3>1
    <3> HIDE DEF rest
    <3>4. Moves(c)
      BY <3>1, Zenon DEF Moves
    <3>5. Shape'
      BY <3>1, <3>2, ShapeContinue
    <3>6. QED
      BY <2>1, <3>3, <3>4, <3>5, RestsOthers, Zenon
  <2>4. QED
    BY <2>2, <2>3
<1>13. CASE Return(c)
  <2>1. /\ todo[c] = <<>> /\ UNCHANGED <<at, todo>> /\ ~Idle(c)
        /\ op' = [op EXCEPT ![c] = "none"] /\ okay' = [okay EXCEPT ![c] = TRUE]
    BY <1>13 DEF Return
  <2>2. at[c] = "step"
    BY <1>1, <2>1 DEF Shape, PlaceFits, Inside, Locations
  <2>3. Shape'
    BY <2>1 DEF Shape, PlaceFits, Inside
  <2>4. okay' \in [Clients -> BOOLEAN] /\ okay'[c]
    BY <2>1 DEF Rests
  <2>5. \A d \in Clients \ {c} : (Idle(d)' <=> Idle(d)) /\ okay'[d] = okay[d]
    BY <2>1 DEF Idle, Rests, LocalTypes
  <2>6. QED
    BY <2>1, <2>2, <2>3, <2>4, <2>5 DEF Rests
<1>14. CASE ~StartMode(c) /\ ~Return(c)
  BY <1>14, StepGoes, GoesFits
<1>15. QED
  BY <1>12, <1>13, <1>14

\* What the step of a client names.
LEMMA ArgFits ==
  ASSUME Shape, NEW c \in Clients, todo[c] # <<>>
  PROVE  /\ Head(todo[c]).do = "switch" => Arg(c) \in States
         /\ Head(todo[c]).do \in {"start", "set", "await"} => Arg(c) \in AllModes \ {No_Mode}
<1> DEFINE t == todo[c]
<1>1. t \in Seq(Steps) /\ Fits(t) /\ t # <<>>
  BY DEF Shape
<1> HIDE DEF t
<1>2. Len(t) \in Nat \ {0} /\ t[1] = Head(t)
  BY <1>1, TailRest
<1>3. 1 \in 1 .. Len(t)
  BY <1>2
<1>4. Fits(t)!(1)
  BY <1>1, <1>3, Zenon DEF Fits
<1>5. QED
  BY <1>2, <1>4 DEF t, Arg

\* What the words are made of.
LEMMA StatusTypes ==
  ASSUME NEW d \in DriveStates, NEW w
  PROVE  StatusWord(d) \subseteq StatusBits /\ ReadStatus(w) \in States
<1>1. StatusWord(d) \subseteq StatusBits
  BY DEF DriveStates, States, StatusWord, StatusBits
<1>2. ReadStatus(w) \in States
  BY DEF ReadStatus, States
<1>3. QED
  BY <1>1, <1>2

\* A command changes the bits of a command and no others.
LEMMA ApplyTypes ==
  ASSUME NEW cw \in SUBSET CommandBits, NEW from, NEW hop, HasTransition(from, hop)
  PROVE  Apply(cw, from, hop) \in SUBSET CommandBits
<1>1. PICK t \in Transitions : t[1] = from /\ t[2] = hop
  BY DEF HasTransition
<1>2. Apply(cw, from, hop) = (cw \ Ops[t[3]].reset) \cup Ops[t[3]].set
  BY <1>1, ApplyOf
<1>3. t[3] \in {"disable_voltage", "automatic", "shutdown", "switch_on", "enable_operation",
                "quickstop", "fault_reset"}
  BY DEF Transitions
<1>4. Ops[t[3]].set \subseteq CommandBits
  BY <1>3 DEF Ops, CommandBits
<1>5. QED
  BY <1>2, <1>4

\* The types of everything but places, steps and results.
Types == MotorTypes /\ LocalTypes /\ DriveTypes /\ Counts /\ HistoryTypes

\* The step of a client keeps the types: what it stores is a state, a mode or a word.
LEMMA ClientTypes ==
  ASSUME Shape, Rests, Types, NEW c \in Clients, ClientStep(c)
  PROVE  Types'
<1> USE DEF Types
<1>1. c \in Threads /\ c # Timer
  BY ClientsAssumption DEF Threads
<1>2. CASE Fetch(c)
  <2>1. drive.state \in DriveStates
    BY DEF DriveTypes
  <2>2. StatusWord(drive.state) \in SUBSET StatusBits
    BY <2>1, StatusTypes
  <2>3. LocalTypes'
    BY <1>1, <1>2, <2>2 DEF Fetch, LocalTypes, clientVars
  <2>4. QED
    BY <1>2, <2>3 DEF Fetch, MotorTypes, DriveTypes, Counts, HistoryTypes, motorVars
<1>3. CASE Store(c)
  <2>1. ReadStatus(sw[c]) \in States
    BY StatusTypes DEF DriveStates, States
  <2>2. MotorTypes'
    BY <1>3, <2>1 DEF Store, MotorTypes
  <2>3. LocalTypes'
    BY <1>1, <1>3 DEF Store, LocalTypes, clientVars
  <2>4. QED
    BY <1>3, <2>2, <2>3 DEF Store, DriveTypes, Counts, HistoryTypes
<1>4. CASE ReadMode(c)
  <2>1. MotorTypes'
    BY <1>4 DEF ReadMode, MotorTypes, DriveTypes
  <2>2. QED
    BY <1>1, <1>4, <2>1 DEF ReadMode, LocalTypes, DriveTypes, Counts, HistoryTypes
<1>5. CASE Return(c)
  <2>1. LocalTypes'
    BY <1>5 DEF Return, Forget, LocalTypes, States
  <2>2. Promises(op[c]) \in States
    BY DEF Promises, States
  <2>3. HistoryTypes'
    BY <1>5, <2>2 DEF Return, HistoryTypes, Rests, States
  <2>4. QED
    BY <1>5, <2>1, <2>3 DEF Return, MotorTypes, DriveTypes, Counts, motorVars
<1>6. CASE SwitchBegin(c) \/ SwitchWait(c)
  BY <1>6 DEF SwitchBegin, SwitchWait, MotorTypes, LocalTypes, DriveTypes, Counts,
              HistoryTypes, motorVars
<1>7. CASE SwitchAim(c)
  <2>1. todo[c] # <<>> /\ Head(todo[c]).do = "switch"
    BY <1>7 DEF SwitchAim, Shape, PlaceFits, Inside
  <2>2. Arg(c) \in States
    BY <2>1, ArgFits
  <2>3. MotorTypes' /\ HistoryTypes'
    BY <1>7, <2>2 DEF SwitchAim, MotorTypes, HistoryTypes
  <2>4. QED
    BY <1>7, <2>3 DEF SwitchAim, LocalTypes, DriveTypes, Counts, clientVars
<1>8. CASE SwitchEnd(c)
  BY <1>8 DEF SwitchEnd, Forget, States, MotorTypes, LocalTypes, DriveTypes, Counts,
              HistoryTypes, motorVars
<1>9. CASE SwitchTurn(c)
  BY <1>9 DEF SwitchTurn, MotorTypes, LocalTypes, DriveTypes, Counts, HistoryTypes,
              motorVars, clientVars
<1>10. CASE SwitchCommand(c)
  <2>1. control_word_' \in SUBSET CommandBits
    BY <1>10, ApplyTypes DEF SwitchCommand, MotorTypes
  <2>2. QED
    BY <1>10, <2>1 DEF SwitchCommand, MotorTypes, LocalTypes, DriveTypes, Counts, HistoryTypes
<1>11. CASE StartMode(c) \/ SetMode(c) \/ AwaitMode(c)
  <2>1. todo[c] # <<>> /\ Head(todo[c]).do \in {"start", "set", "await"}
    BY <1>11 DEF StartMode, SetMode, AwaitMode, Doing
  <2>2. Arg(c) \in AllModes /\ No_Mode \in AllModes
    BY <2>1, ArgFits DEF AllModes
  <2>3. CASE StartMode(c)
    BY <2>2, <2>3 DEF StartMode, MotorTypes, LocalTypes, DriveTypes, Counts, HistoryTypes
  <2>4. CASE SetMode(c)
    BY <2>2, <2>4 DEF SetMode, MotorTypes, LocalTypes, DriveTypes, Counts, HistoryTypes,
                      motorVars
  <2>5. CASE AwaitMode(c)
    BY <2>2, <2>5 DEF AwaitMode, MotorTypes, LocalTypes, DriveTypes, Counts, HistoryTypes
  <2>6. QED
    BY <1>11, <2>3, <2>4, <2>5
<1>12. CASE Deselect(c)
  BY <1>12 DEF Deselect, AllModes, MotorTypes, LocalTypes, DriveTypes, Counts, HistoryTypes
<1>13. CASE ZeroControlWord(c) \/ ArmFaultReset(c) \/ RestartMode(c)
  BY <1>13 DEF ZeroControlWord, ArmFaultReset, RestartMode, MotorTypes, LocalTypes,
               DriveTypes, Counts, HistoryTypes
<1>14. CASE HaltLook(c)
  BY <1>14 DEF HaltLook, MotorTypes, LocalTypes, DriveTypes, Counts, HistoryTypes, motorVars
<1>15. CASE HaltAct(c)
  <2>1. HasTransition("Operation_Enable", "Quick_Stop_Active")
    <3>1. <<"Operation_Enable", "Quick_Stop_Active", "quickstop">> \in Transitions
      BY DEF Transitions
    <3>2. QED
      BY <3>1 DEF HasTransition
  <2>2. control_word_' \in SUBSET CommandBits
    BY <1>15, <2>1, ApplyTypes DEF HaltAct, MotorTypes
  <2>3. target_state_' \in States
    BY <1>15 DEF HaltAct, MotorTypes, LocalTypes, States
  <2>4. HistoryTypes'
    BY <1>15 DEF HaltAct, HistoryTypes
  <2>5. QED
    BY <1>15, <2>2, <2>3, <2>4 DEF HaltAct, MotorTypes, LocalTypes, DriveTypes, Counts
<1>16. CASE TargetAsk(c) \/ HomeNone(c)
  BY <1>16 DEF TargetAsk, HomeNone, MotorTypes, LocalTypes, DriveTypes, Counts,
               HistoryTypes, motorVars
<1>17. CASE TargetSet(c) \/ HomeBegin(c) \/ HomeEnd(c)
  <2>1. has_target_' \subseteq AllModes
    BY <1>17 DEF TargetSet, HomeBegin, HomeEnd, MotorTypes, AllModes
  <2>2. QED
    BY <1>17, <2>1 DEF TargetSet, HomeBegin, HomeEnd, MotorTypes, LocalTypes, DriveTypes,
                       Counts, HistoryTypes, clientVars
<1>18. QED
  BY <1>2, <1>3, <1>4, <1>5, <1>6, <1>7, <1>8, <1>9, <1>10, <1>11, <1>12, <1>13, <1>14,
     <1>15, <1>16, <1>17 DEF ClientStep, Reading

\* An operation is asked for.
LEMMA BeginKeeps ==
  ASSUME Shape, Rests, Types, NEW c \in Clients, NEW o \in Operations,
         NEW m \in IF o = "mode" THEN Modes ELSE {No_Mode}, Begin(c, o, m)
  PROVE  Shape' /\ Rests' /\ Types'
<1> DEFINE p == Program(o, m)
<1>1. p \in Seq(Steps) /\ Fits(p)
  BY ProgramFits
<1>2. /\ Idle(c) /\ op' = [op EXCEPT ![c] = o] /\ todo' = [todo EXCEPT ![c] = p]
      /\ UNCHANGED <<motorVars, at, sw, seen, okay, drive, faults, timeouts>>
  BY DEF Begin
<1> HIDE DEF p
<1>3. at[c] = "step"
  BY <1>2 DEF Rests
<1>4. Shape'
  BY <1>1, <1>2, <1>3 DEF Shape, PlaceFits, Inside
<1>5. Rests'
  BY <1>2 DEF Rests, Idle, Types, LocalTypes, Operations
<1>6. HistoryTypes'
  BY DEF Begin, Types, HistoryTypes, States
<1>7. QED
  BY <1>2, <1>4, <1>5, <1>6 DEF Types, MotorTypes, LocalTypes, DriveTypes, Counts, motorVars

\* A wait times out: the operation fails, or goes on with the switch to operation.
LEMMA TimeoutKeeps ==
  ASSUME Shape, Rests, Types, NEW c \in Clients, Timeout(c)
  PROVE  Shape' /\ Rests' /\ Types'
<1>1. timeouts' \in 0 .. MaxTimeouts
  BY ConfigurationAssumption DEF Timeout, Types, Counts
<1>2. CASE SwitchTimeout(c)
  <2>1. Fail(c) /\ op' = op /\ at[c] # "step"
    BY <1>2 DEF SwitchTimeout
  <2>2. Shape' /\ Rests'
    BY <2>1, Busy, GoesFits DEF Goes, Types
  <2>3. QED
    BY <1>1, <1>2, <2>2 DEF SwitchTimeout, Types, MotorTypes, LocalTypes, DriveTypes, Counts,
                            HistoryTypes, motorVars
<1>3. CASE AwaitTimeout(c)
  <2> DEFINE t == todo[c]
             last == <<t[2]>>
  <2>1. /\ t # <<>> /\ Head(t).do = "await" /\ ~Idle(c) /\ op' = op
        /\ Continue(c, last) /\ okay' = [okay EXCEPT ![c] = FALSE]
    BY <1>3 DEF AwaitTimeout, Doing, Idle
  <2>2. t \in Seq(Steps) /\ Fits(t)
    BY DEF Shape
  <2> HIDE DEF t
  <2>3. Len(t) \in Nat \ {0} /\ t[1] = Head(t)
    BY <2>1, <2>2, TailRest
  <2>4. 1 \in 1 .. Len(t)
    BY <2>3
  <2>5. Fits(t)!(1)
    BY <2>2, <2>4, Zenon DEF Fits
  <2>6. 2 \in 1 .. Len(t) /\ t[2].do = "switch"
    BY <2>1, <2>3, <2>5
  <2>7. Fits(t)!(2)
    BY <2>2, <2>6, Zenon DEF Fits
  <2>8. t[2] \in Steps /\ t[2].arg \in States
    BY <2>2, <2>6, <2>7
  <2>9. last \in Seq(Steps) /\ Fits(last)
    BY <2>6, <2>8 DEF Fits
  <2> HIDE DEF last
  <2>10. Shape'
    BY <2>1, <2>9, ShapeContinue
  <2>11. Rests'
    <3>1. okay' \in {okay, [okay EXCEPT ![c] = FALSE]}
      BY <2>1
    <3>2. Moves(c)
      BY <2>1, Zenon DEF Moves
    <3>3. LocalTypes
      BY DEF Types
    <3>4. QED
      BY <2>1, <3>1, <3>2, <3>3, RestsOthers, Zenon
  <2>12. DriveTypes'
    BY <1>3 DEF AwaitTimeout, Types, DriveTypes, MotorTypes
  <2>13. QED
    BY <1>1, <1>3, <2>10, <2>11, <2>12 DEF AwaitTimeout, Types, MotorTypes, LocalTypes, Counts,
                                        HistoryTypes, motorVars
<1>4. QED
  BY <1>2, <1>3 DEF Timeout

\* The poll timer reads and writes.
LEMMA PollKeeps ==
  ASSUME Shape, Rests, Types, Poll
  PROVE  Shape' /\ Rests' /\ Types'
<1>1. /\ Timer \notin Clients /\ Timer \in Threads /\ Clients \subseteq Threads
  BY ClientsAssumption DEF Threads
<1>2. \E where \in {"fetch", "store", "display", "write"} : Go(Timer, where)
  BY DEF Poll, Reading, Fetch, Store, ReadMode, HandleWrite
<1>3. UNCHANGED clientVars
  BY DEF Poll, Reading, Fetch, Store, ReadMode, HandleWrite
<1>4. Shape'
  BY <1>2, <1>3, ShapeTimer DEF clientVars
<1>5. Rests'
  BY <1>1, <1>2, <1>3 DEF Rests, Idle, Go, Shape, clientVars
<1>6. CASE Fetch(Timer)
  <2>1. drive.state \in DriveStates
    BY DEF Types, DriveTypes
  <2>2. StatusWord(drive.state) \in SUBSET StatusBits
    BY <2>1, StatusTypes
  <2>3. LocalTypes'
    BY <1>1, <1>3, <1>6, <2>2 DEF Fetch, Types, LocalTypes, clientVars
  <2>4. QED
    BY <1>4, <1>5, <1>6, <2>3 DEF Fetch, Types, MotorTypes, DriveTypes, Counts, HistoryTypes,
                              motorVars
<1>7. CASE Store(Timer)
  <2>1. ReadStatus(sw[Timer]) \in States
    BY StatusTypes DEF DriveStates, States
  <2>2. MotorTypes'
    BY <1>7, <2>1 DEF Store, Types, MotorTypes
  <2>3. LocalTypes'
    BY <1>1, <1>3, <1>7 DEF Store, Types, LocalTypes, clientVars
  <2>4. QED
    BY <1>4, <1>5, <1>7, <2>2, <2>3 DEF Store, Types, DriveTypes, Counts, HistoryTypes
<1>8. CASE ReadMode(Timer)
  <2>1. MotorTypes'
    BY <1>8 DEF ReadMode, Types, MotorTypes, DriveTypes
  <2>2. QED
    BY <1>3, <1>4, <1>5, <1>8, <2>1 DEF ReadMode, Types, LocalTypes, DriveTypes, Counts,
                                    HistoryTypes, clientVars
<1>9. CASE HandleWrite
  <2> DEFINE cw == (IF start_fault_reset_ THEN control_word_ \ {"Fault_Reset"}
                                          ELSE control_word_)
                     \cup (IF Okay THEN {} ELSE {"Halt"})
  <2>1. cw \in SUBSET ControlBits
    BY DEF Types, MotorTypes, ControlBits
  <2>2. drive' = Receive(cw)
    BY <1>9 DEF HandleWrite
  <2> HIDE DEF cw
  <2>3. DriveTypes'
    BY <2>1, <2>2 DEF Receive, Types, DriveTypes
  <2>4. MotorTypes'
    BY <1>9 DEF HandleWrite, Types, MotorTypes
  <2>5. QED
    BY <1>3, <1>4, <1>5, <1>9, <2>3, <2>4 DEF HandleWrite, Types, LocalTypes, Counts,
                                          HistoryTypes, clientVars
<1>10. QED
  BY <1>6, <1>7, <1>8, <1>9 DEF Poll, Reading

\* The drive answers, or faults.
LEMMA DriveKeeps ==
  ASSUME Shape, Rests, Types, DriveAnswers \/ DriveQuickStops \/ DriveFaults
  PROVE  Shape' /\ Rests' /\ Types'
<1>1. UNCHANGED <<motorVars, at, sw, clientVars, timeouts>>
  BY DEF DriveAnswers, DriveReact, DriveSwitchesMode, DriveFaultHandled, DriveResetsFault,
         DriveQuickStops, DriveFaults
<1>2. Shape' /\ Rests'
  BY <1>1 DEF Shape, PlaceFits, Inside, Rests, Idle, clientVars
<1>3. drive.state \in DriveStates
  BY DEF Types, DriveTypes
<1>4. DriveStep(drive.state, drive.rx) \in DriveStates
  BY <1>3 DEF DriveStep, DriveStates, States
<1>5. DriveTypes'
  BY <1>4 DEF DriveAnswers, DriveReact, DriveSwitchesMode, DriveFaultHandled, DriveResetsFault,
              DriveQuickStops, DriveFaults, DriveIs, Types, DriveTypes, DriveStates, States
<1>6. Counts'
  <2>1. faults' = faults \/ (faults < MaxFaults /\ faults' = faults + 1)
    BY DEF DriveAnswers, DriveReact, DriveSwitchesMode, DriveFaultHandled, DriveResetsFault,
           DriveQuickStops, DriveFaults
  <2>2. QED
    BY <1>1, <2>1, ConfigurationAssumption DEF Types, Counts
<1>7. HistoryTypes'
  <2>1. history' = history \/ history' = [history EXCEPT !.promise = NoPromise]
    BY DEF DriveAnswers, DriveReact, DriveSwitchesMode, DriveFaultHandled, DriveResetsFault,
           DriveQuickStops, DriveFaults
  <2>2. NoPromise \in [watched : BOOLEAN, state : States]
    BY DEF NoPromise, States
  <2>3. QED
    BY <2>1, <2>2 DEF Types, HistoryTypes
<1>8. QED
  BY <1>1, <1>2, <1>5, <1>6, <1>7 DEF Types, MotorTypes, LocalTypes, motorVars, clientVars

\* The type invariant is inductive.
LEMMA TypeInit == Init => Shape /\ Rests /\ Types
<1> SUFFICES ASSUME Init PROVE Shape /\ Rests /\ Types
  OBVIOUS
<1>1. Timer \notin Clients
  BY ClientsAssumption
<1>2. /\ at = [t \in Threads |-> IF t = Timer THEN "fetch" ELSE "step"]
      /\ todo = [c \in Clients |-> <<>>] /\ op = [c \in Clients |-> "none"]
      /\ okay = [c \in Clients |-> TRUE]
  BY DEF Init
<1>3. Shape
  BY <1>1, <1>2 DEF Shape, PlaceFits, Inside, Fits, Threads, Locations
<1>4. Rests
  BY <1>1, <1>2 DEF Rests, Threads
<1>5. MotorTypes
  BY GarbageAssumption DEF Init, MotorTypes, States, AllModes
<1>6. LocalTypes /\ DriveTypes /\ Counts /\ HistoryTypes
  BY ConfigurationAssumption
     DEF Init, LocalTypes, DriveTypes, Counts, HistoryTypes, NoPromise, States, DriveStates,
         AllModes
<1>7. QED
  BY <1>3, <1>4, <1>5, <1>6 DEF Types

LEMMA TypeStep == Shape /\ Rests /\ Types /\ [Next]_vars => (Shape /\ Rests /\ Types)'
<1> SUFFICES ASSUME Shape, Rests, Types, [Next]_vars
             PROVE  Shape' /\ Rests' /\ Types'
  OBVIOUS
<1>1. CASE Poll
  BY <1>1, PollKeeps
<1>2. ASSUME NEW c \in Clients, NEW o \in Operations,
             NEW m \in IF o = "mode" THEN Modes ELSE {No_Mode}, Begin(c, o, m)
      PROVE  Shape' /\ Rests' /\ Types'
  BY <1>2, BeginKeeps, Zenon
<1>3. ASSUME NEW c \in Clients, ClientStep(c)
      PROVE  Shape' /\ Rests' /\ Types'
  BY <1>3, ClientGoes, ClientTypes, Zenon DEF Types
<1>4. ASSUME NEW c \in Clients, Timeout(c)
      PROVE  Shape' /\ Rests' /\ Types'
  BY <1>4, TimeoutKeeps, Zenon
<1>5. CASE DriveAnswers \/ DriveQuickStops \/ DriveFaults
  BY <1>5, DriveKeeps
<1>6. CASE UNCHANGED vars
  BY <1>6 DEF vars, motorVars, clientVars, Shape, PlaceFits, Inside, Rests, Idle, Types,
              MotorTypes, LocalTypes, DriveTypes, Counts, HistoryTypes
<1>7. QED
  BY <1>1, <1>2, <1>3, <1>4, <1>5, <1>6 DEF Next

\* Steps that are left fit together, and a thread inside a step has that step
\* in front of it: the type invariant in its inductive form.
THEOREM TypeInvHolds == Spec => []TypeInv
<1>1. Shape /\ Rests /\ Types => TypeInv
  BY TypeParts DEF Types
<1>2. QED
  BY <1>1, TypeInit, TypeStep, PTL DEF Spec

\* The variables of the driver keep their types, for any clients, modes and
\* first contents of the memory no constructor sets: an operation that fails,
\* times out or passes over a mode switch leaves no thread inside a step it no
\* longer has, and a client without an operation has nothing left to do.
THEOREM MotorTypeCorrect == Spec => []TypeOK
<1>1. TypeInv => TypeOK
  BY DEF TypeInv
<1>2. QED
  BY <1>1, TypeInvHolds, PTL

-----------------------------------------------------------------------------
(***************************************************************************)
(* Set points go to a drive in their mode, as long as one client switches  *)
(* modes.                                                                  *)
(***************************************************************************)
\* The drive was asked for the mode that is selected.
AskedFor == selected_mode_ # No_Mode => drive.ask = selected_mode_

\* While client c switches the mode, none is selected.
Switching(c) ==
  todo[c] # <<>> =>
    /\ Head(todo[c]).do = "set" => selected_mode_ = No_Mode
    /\ Head(todo[c]).do = "await" => selected_mode_ = No_Mode /\ drive.ask = Arg(c)
    /\ Len(todo[c]) > 1 /\ Head(todo[c]).do = "switch" /\ todo[c][2].do = "set"
         => selected_mode_ = No_Mode

\* The other clients leave the mode alone.
OthersKeep(c) ==
  \A d \in Clients \ {c} : \A k \in 1 .. Len(todo[d]) : todo[d][k].do \notin ModeSteps

\* What makes SetPointsInMode inductive.
ModeInv(c) == AskedFor /\ Switching(c) /\ OthersKeep(c)

\* What comes after a step that fits.
LEMMA NextFits ==
  ASSUME NEW t \in Seq(Steps), t # <<>>, Fits(t), Tail(t) # <<>>
  PROVE  LET rest == Tail(t) IN
         /\ Head(rest).do = "set" =>
              Head(t).do = "switch" /\ Len(t) > 1 /\ t[2].do = "set"
         /\ Head(rest).do = "await" => Head(t).do = "set" /\ Head(rest).arg = Head(t).arg
         /\ Len(rest) > 1 /\ Head(rest).do = "switch" /\ rest[2].do = "set" =>
              Head(t).do = "start"
<1> DEFINE rest == Tail(t)
<1>1. /\ Len(t) \in Nat /\ Len(t) > 1 /\ Head(t) = t[1] /\ Head(rest) = t[2]
      /\ Len(rest) = Len(t) - 1
  OBVIOUS
<1>2. Len(rest) > 1 => rest[2] = t[3]
  OBVIOUS
<1> HIDE DEF rest
<1>3. Fits(t)!(2)
  <2>1. 2 \in 1 .. Len(t)
    BY <1>1
  <2>2. QED
    BY <2>1, Zenon DEF Fits
<1>4. Len(rest) > 1 => Fits(t)!(3)
  <2>1. Len(rest) > 1 => 3 \in 1 .. Len(t)
    BY <1>1
  <2>2. QED
    BY <2>1, Zenon DEF Fits
<1>5. Head(rest).do = "set" => Head(t).do = "switch" /\ t[2].do = "set"
  BY <1>1, <1>3
<1>6. Head(rest).do = "await" => Head(t).do = "set" /\ Head(rest).arg = Head(t).arg
  BY <1>1, <1>3
<1>7. Len(rest) > 1 /\ rest[2].do = "set" => Head(t).do = "start"
  BY <1>1, <1>2, <1>4
<1>8. QED
  BY <1>1, <1>5, <1>6, <1>7 DEF rest

\* The step of a client that touches no mode.
LEMMA StepHead ==
  ASSUME Shape, NEW c \in Clients, ClientStep(c), ~Return(c), ~StartMode(c), ~SetMode(c),
         ~AwaitMode(c), ~Deselect(c)
  PROVE  todo[c] # <<>> /\ Head(todo[c]).do \notin ModeSteps
<1>1. c # Timer
  BY ClientsAssumption
<1>2. CASE Fetch(c) \/ SwitchBegin(c) \/ ZeroControlWord(c) \/ ArmFaultReset(c) \/ RestartMode(c)
           \/ HaltLook(c) \/ HaltAct(c) \/ TargetAsk(c) \/ TargetSet(c) \/ HomeBegin(c)
           \/ HomeNone(c)
  BY <1>1, <1>2 DEF Fetch, MayFetch, SwitchBegin, ZeroControlWord, ArmFaultReset, RestartMode,
     HaltLook, HaltAct, TargetAsk, TargetSet, HomeBegin, HomeNone, Doing, ModeSteps
<1>3. CASE \/ Store(c) \/ ReadMode(c) \/ SwitchAim(c) \/ SwitchEnd(c) \/ SwitchTurn(c)
           \/ SwitchCommand(c) \/ SwitchWait(c) \/ HomeEnd(c)
  BY <1>3 DEF Store, ReadMode, SwitchAim, SwitchEnd, SwitchTurn, SwitchCommand, SwitchWait,
     HomeEnd, Shape, PlaceFits, Inside, ModeSteps
<1>4. QED
  BY <1>2, <1>3 DEF ClientStep, Reading

\* Nor does it touch the selected mode or what the drive was asked for.
LEMMA StepModes ==
  ASSUME NEW c \in Clients, ClientStep(c), ~StartMode(c), ~SetMode(c), ~AwaitMode(c), ~Deselect(c)
  PROVE  UNCHANGED <<selected_mode_, drive>>
BY DEF ClientStep, Reading, Fetch, Store, ReadMode, Return, SwitchBegin, SwitchAim, SwitchEnd,
       SwitchTurn, SwitchCommand, SwitchWait, ZeroControlWord, ArmFaultReset, RestartMode,
       HaltLook, HaltAct, TargetAsk, TargetSet, HomeBegin, HomeEnd, HomeNone, motorVars

\* A client that goes on leaves the steps of the others alone, and has no new ones.
LEMMA GoesOthers ==
  ASSUME Shape, NEW c \in Clients, NEW d \in Clients, d # c, OthersKeep(c), Goes(d)
  PROVE  OthersKeep(c)' /\ todo'[c] = todo[c]
<1> DEFINE t == todo[d]
<1>1. t \in Seq(Steps) /\ \A k \in 1 .. Len(t) : t[k].do \notin ModeSteps
  BY DEF Shape, OthersKeep
<1>2. \/ t # <<>> /\ todo' = [todo EXCEPT ![d] = Tail(t)]
      \/ todo' = [todo EXCEPT ![d] = <<>>]
      \/ todo' = todo
  BY DEF Goes, Done, Fail, Continue
<1> HIDE DEF t
<1>3. todo \in [Clients -> Seq(Steps)]
  BY DEF Shape
<1>4. ASSUME t # <<>>
      PROVE  \A k \in 1 .. Len(Tail(t)) : Tail(t)[k].do \notin ModeSteps
  <2> SUFFICES ASSUME NEW k \in 1 .. Len(Tail(t))
               PROVE  Tail(t)[k].do \notin ModeSteps
    OBVIOUS
  <2>1. k + 1 \in 1 .. Len(t) /\ Tail(t)[k] = t[k + 1]
    BY <1>1, <1>4
  <2>2. QED
    BY <1>1, <2>1
<1>5. \A k \in 1 .. Len(todo'[d]) : todo'[d][k].do \notin ModeSteps
  <2>1. CASE todo' = [todo EXCEPT ![d] = <<>>]
    BY <1>3, <2>1
  <2>2. CASE todo' = todo
    BY <1>1, <2>2 DEF t
  <2>3. CASE t # <<>> /\ todo' = [todo EXCEPT ![d] = Tail(t)]
    <3>1. todo'[d] = Tail(t)
      BY <1>3, <2>3
    <3>2. QED
      BY <1>4, <2>3, <3>1
  <2>4. QED
    BY <1>2, <2>1, <2>2, <2>3
<1>6. \A e \in Clients \ {d} : todo'[e] = todo[e]
  BY <1>2, <1>3
<1>7. QED
  BY <1>5, <1>6 DEF OthersKeep

\* The others: their steps are not those of a mode switch.
LEMMA OthersStep ==
  ASSUME Shape, Rests, NEW c \in Clients, ModeInv(c), NEW d \in Clients, d # c,
         ClientStep(d) \/ Timeout(d)
  PROVE  ModeInv(c)'
<1>1. \A k \in 1 .. Len(todo[d]) : todo[d][k].do \notin ModeSteps
  BY DEF ModeInv, OthersKeep
<1>2. todo[d] # <<>> => Head(todo[d]).do \notin ModeSteps
  <2> DEFINE t == todo[d]
  <2>1. t \in Seq(Steps)
    BY DEF Shape
  <2> HIDE DEF t
  <2>2. t # <<>> => Len(t) \in Nat \ {0} /\ t[1] = Head(t)
    BY <2>1
  <2>3. t # <<>> => 1 \in 1 .. Len(t)
    BY <2>2
  <2>4. QED
    BY <1>1, <2>2, <2>3 DEF t
<1>3. /\ ~StartMode(d) /\ ~SetMode(d) /\ ~AwaitMode(d) /\ ~Deselect(d) /\ ~AwaitTimeout(d)
  BY <1>2 DEF StartMode, SetMode, AwaitMode, Deselect, AwaitTimeout, Doing, ModeSteps
<1>4. UNCHANGED <<selected_mode_, drive>> /\ OthersKeep(c)' /\ todo'[c] = todo[c]
  <2>1. CASE Return(d)
    BY <2>1 DEF Return, motorVars, ModeInv, OthersKeep
  <2>2. CASE ClientStep(d) /\ ~Return(d)
    <3>1. Goes(d)
      BY <1>3, <2>2, StepGoes
    <3>2. QED
      BY <1>3, <2>2, <3>1, StepModes, GoesOthers DEF ModeInv
  <2>3. CASE Timeout(d)
    <3>1. Fail(d) /\ UNCHANGED <<selected_mode_, drive>>
      BY <1>3, <2>3 DEF Timeout, SwitchTimeout, motorVars
    <3>2. QED
      BY <3>1, GoesOthers DEF Goes, ModeInv
  <2>4. QED
    BY <2>1, <2>2, <2>3
<1>5. QED
  BY <1>4 DEF ModeInv, AskedFor, Switching, Arg

\* The steps of client c that go on to the next one.
LEMMA DoneSwitching ==
  ASSUME Shape, NEW c \in Clients, todo[c] # <<>>, Continue(c, Tail(todo[c])),
         \/ /\ Switching(c) /\ UNCHANGED <<selected_mode_, drive>>
            /\ Head(todo[c]).do \notin {"start", "set"}
         \/ /\ selected_mode_' = No_Mode
            /\ Head(todo[c]).do = "set" => drive'.ask = Arg(c)
  PROVE  Switching(c)'
<1> DEFINE t == todo[c]
           rest == Tail(t)
<1>1. t \in Seq(Steps) /\ Fits(t) /\ t # <<>>
  BY DEF Shape
<1>2. todo'[c] = rest
  BY DEF Continue, Shape
<1> SUFFICES ASSUME rest # <<>> PROVE Switching(c)'
  BY <1>2 DEF Switching
<1>3. /\ Head(rest).do = "set" =>
           Head(t).do = "switch" /\ Len(t) > 1 /\ t[2].do = "set"
      /\ Head(rest).do = "await" => Head(t).do = "set" /\ Head(rest).arg = Head(t).arg
      /\ Len(rest) > 1 /\ Head(rest).do = "switch" /\ rest[2].do = "set" =>
           Head(t).do = "start"
  <2> HIDE DEF t
  <2>1. QED
    BY <1>1, NextFits
<1> HIDE DEF rest
<1>4. QED
  BY <1>2, <1>3 DEF Switching, Arg

\* A step or a failure of client c that touches no mode.
LEMMA GoesSwitching ==
  ASSUME Shape, NEW c \in Clients, Switching(c), Goes(c), UNCHANGED <<selected_mode_, drive>>,
         todo[c] # <<>>, Head(todo[c]).do \notin {"start", "set"}
  PROVE  Switching(c)'
<1>1. CASE todo[c] # <<>> /\ Done(c)
  BY <1>1, DoneSwitching DEF Done
<1>2. CASE Fail(c)
  <2>1. todo'[c] = <<>>
    BY <1>2 DEF Fail, Continue, Shape
  <2>2. QED
    BY <2>1 DEF Switching
<1>3. CASE todo' = todo
  BY <1>3 DEF Switching, Arg
<1>4. QED
  BY <1>1, <1>2, <1>3 DEF Goes

\* The beginning of a mode switch that passes over all of it.
LEMMA SkipSwitching ==
  ASSUME Shape, NEW c \in Clients, todo[c] # <<>>, Head(todo[c]).do = "start",
         Continue(c, SubSeq(todo[c], Len(SwitchMode(Arg(c))) + 1, Len(todo[c])))
  PROVE  Switching(c)'
<1> DEFINE t == todo[c]
           rest == SubSeq(t, Len(SwitchMode(Arg(c))) + 1, Len(t))
<1>1. /\ rest \in Seq(Steps) /\ Len(t) >= 5 /\ Len(rest) = Len(t) - 5
      /\ \A k \in 1 .. Len(rest) : rest[k] = t[k + 5]
  BY SkipFits
<1>2. t \in Seq(Steps) /\ Fits(t) /\ t # <<>> /\ Head(t).do = "start"
  BY DEF Shape
<1>3. todo'[c] = rest
  BY DEF Continue, Shape
<1> SUFFICES ASSUME rest # <<>> PROVE Switching(c)'
  BY <1>3 DEF Switching
<1> HIDE DEF t, rest
<1>4. /\ Len(t) \in Nat /\ t[1] = Head(t) /\ Len(rest) \in Nat /\ Len(rest) > 0
      /\ Head(rest) = rest[1]
  BY <1>1, <1>2
<1>5. t[4].do = "await" /\ t[5].do = "switch"
  <2>1. 1 \in 1 .. Len(t)
    BY <1>1, <1>4
  <2>2. Fits(t)!(1)
    BY <1>2, <2>1, Zenon DEF Fits
  <2>3. QED
    BY <1>2, <1>4, <2>2
<1>6. rest[1].do \notin {"set", "await"}
  <2>1. 6 \in 1 .. Len(t) /\ rest[1] = t[6]
    BY <1>1, <1>4
  <2>2. Fits(t)!(6)
    BY <1>2, <2>1, Zenon DEF Fits
  <2>3. QED
    BY <1>5, <2>1, <2>2
<1>7. Len(rest) > 1 => rest[2].do # "set"
  <2> SUFFICES ASSUME Len(rest) > 1 PROVE rest[2].do # "set"
    OBVIOUS
  <2>1. 7 \in 1 .. Len(t) /\ rest[2] = t[7]
    BY <1>1, <1>4
  <2>2. Fits(t)!(7)
    BY <1>2, <2>1, Zenon DEF Fits
  <2>3. QED
    BY <1>5, <2>1, <2>2
<1>8. QED
  BY <1>3, <1>4, <1>6, <1>7 DEF Switching

\* The steps of client c, those of a mode switch among them.
LEMMA OwnStep ==
  ASSUME Shape, Rests, Types, NEW c \in Clients, ModeInv(c), ClientStep(c) \/ Timeout(c)
  PROVE  ModeInv(c)'
<1> USE DEF ModeInv
<1>1. /\ drive \in [state : DriveStates, mode : AllModes, ask : AllModes,
                     rx : SUBSET ControlBits, edge : BOOLEAN]
  BY DEF Types, DriveTypes
<1>2. OthersKeep(c)'
  <2>1. \A d \in Clients \ {c} : todo'[d] = todo[d]
    <3>1. \/ todo' = todo
          \/ \E rest : todo' = [todo EXCEPT ![c] = rest]
      <4>1. CASE StartMode(c)
        BY <4>1 DEF StartMode, Done, Continue
      <4>2. CASE AwaitTimeout(c)
        BY <4>2 DEF AwaitTimeout, Continue
      <4>3. CASE SwitchTimeout(c)
        BY <4>3 DEF SwitchTimeout, Fail, Continue
      <4>4. CASE Return(c)
        BY <4>4 DEF Return
      <4>5. CASE ClientStep(c) /\ ~StartMode(c) /\ ~Return(c)
        <5>1. Goes(c)
          BY <4>5, StepGoes
        <5>2. QED
          BY <5>1 DEF Goes, Done, Fail, Continue
      <4>6. QED
        BY <4>1, <4>2, <4>3, <4>4, <4>5 DEF Timeout
    <3>2. QED
      BY <3>1 DEF Shape
  <2>2. QED
    BY <2>1 DEF OthersKeep
<1>3. CASE Return(c)
  BY <1>2, <1>3 DEF Return, AskedFor, Switching, Arg, motorVars
<1>4. CASE StartMode(c)
  <2>1. /\ todo[c] # <<>> /\ Head(todo[c]).do = "start" /\ drive' = drive
        /\ \/ /\ selected_mode_' = selected_mode_
              /\ Continue(c, SubSeq(todo[c], Len(SwitchMode(Arg(c))) + 1, Len(todo[c])))
           \/ selected_mode_' = No_Mode /\ Continue(c, Tail(todo[c]))
    BY <1>4 DEF StartMode, Doing, Done
  <2>2. AskedFor'
    BY <2>1 DEF AskedFor
  <2>3. Switching(c)'
    BY <2>1, SkipSwitching, DoneSwitching
  <2>4. QED
    BY <1>2, <2>2, <2>3
<1>5. CASE SetMode(c)
  <2>1. /\ todo[c] # <<>> /\ Head(todo[c]).do = "set" /\ Continue(c, Tail(todo[c]))
        /\ drive' = [drive EXCEPT !.ask = Arg(c)] /\ selected_mode_' = selected_mode_
    BY <1>5 DEF SetMode, Doing, Done, motorVars
  <2>2. selected_mode_' = No_Mode /\ drive'.ask = Arg(c)
    BY <1>1, <2>1 DEF Switching
  <2>3. Switching(c)'
    BY <2>1, <2>2, DoneSwitching
  <2>4. QED
    BY <1>2, <2>2, <2>3 DEF AskedFor
<1>6. CASE AwaitMode(c)
  <2>1. /\ todo[c] # <<>> /\ Head(todo[c]).do = "await" /\ Continue(c, Tail(todo[c]))
        /\ drive' = drive /\ selected_mode_' = Arg(c)
    BY <1>6 DEF AwaitMode, Doing, Done
  <2>2. AskedFor'
    BY <2>1 DEF Switching, AskedFor
  <2>3. Switching(c)'
    <3> DEFINE t == todo[c]
               rest == Tail(t)
    <3>1. t \in Seq(Steps) /\ Fits(t) /\ t # <<>> /\ todo'[c] = rest
      BY <2>1 DEF Shape, Continue
    <3> SUFFICES ASSUME rest # <<>> PROVE Switching(c)'
      BY <3>1 DEF Switching
    <3>2. /\ Head(rest).do \notin {"set", "await"}
          /\ Len(rest) > 1 /\ Head(rest).do = "switch" => rest[2].do # "set"
      <4> HIDE DEF t
      <4>1. Head(t).do = "await"
        BY <2>1 DEF t
      <4>2. QED
        BY <3>1, <4>1, NextFits
    <3> HIDE DEF rest
    <3>3. QED
      BY <3>1, <3>2 DEF Switching
  <2>4. QED
    BY <1>2, <2>2, <2>3
<1>7. CASE Deselect(c)
  <2>1. /\ todo[c] # <<>> /\ Head(todo[c]).do = "deselect" /\ Continue(c, Tail(todo[c]))
        /\ selected_mode_' = No_Mode
    BY <1>7 DEF Deselect, Doing, Done
  <2>2. Switching(c)'
    BY <2>1, DoneSwitching
  <2>3. QED
    BY <1>2, <2>1, <2>2 DEF AskedFor
<1>8. CASE /\ ClientStep(c) /\ ~Return(c) /\ ~StartMode(c) /\ ~SetMode(c)
           /\ ~AwaitMode(c) /\ ~Deselect(c)
  <2>1. Goes(c) /\ UNCHANGED <<selected_mode_, drive>>
    BY <1>8, StepGoes, StepModes
  <2>2. todo[c] # <<>> /\ Head(todo[c]).do \notin {"start", "set"}
    BY <1>8, StepHead DEF ModeSteps
  <2>3. Switching(c)'
    BY <2>1, <2>2, GoesSwitching
  <2>4. QED
    BY <1>2, <2>1, <2>3 DEF AskedFor
<1>9. CASE SwitchTimeout(c)
  <2>1. todo'[c] = <<>> /\ UNCHANGED <<selected_mode_, drive>>
    BY <1>9 DEF SwitchTimeout, Fail, Continue, Shape, motorVars
  <2>2. QED
    BY <1>2, <2>1 DEF AskedFor, Switching
<1>10. CASE AwaitTimeout(c)
  <2>1. /\ todo[c] # <<>> /\ Head(todo[c]).do = "await" /\ selected_mode_' = selected_mode_
        /\ todo'[c] = <<todo[c][2]>>
    BY <1>10 DEF AwaitTimeout, Doing, Continue, Shape, motorVars
  <2>2. selected_mode_' = No_Mode
    BY <2>1 DEF Switching
  <2>3. todo[c][2].do = "switch"
    <3> DEFINE t == todo[c]
    <3>1. t \in Seq(Steps) /\ Fits(t) /\ t # <<>> /\ Head(t).do = "await"
      BY <2>1 DEF Shape
    <3> HIDE DEF t
    <3>2. Len(t) \in Nat \ {0} /\ t[1] = Head(t)
      BY <3>1, TailRest
    <3>3. 1 \in 1 .. Len(t)
      BY <3>2
    <3>4. Fits(t)!(1)
      BY <3>1, <3>3, Zenon DEF Fits
    <3>5. t[2].do = "switch"
      BY <3>1, <3>2, <3>4
    <3>6. QED
      BY <3>5 DEF t
  <2>4. Switching(c)'
    BY <2>1, <2>3 DEF Switching
  <2>5. QED
    BY <1>2, <2>2, <2>4 DEF AskedFor
<1>11. QED
  BY <1>3, <1>4, <1>5, <1>6, <1>7, <1>8, <1>9, <1>10 DEF Timeout

\* No operation begins in the middle of a mode switch.
LEMMA BeginSwitching ==
  ASSUME Shape, NEW c \in Clients, ModeInv(c), NEW d \in Clients, NEW o \in Operations,
         NEW m \in IF o = "mode" THEN Modes ELSE {No_Mode}, Begin(d, o, m),
         d # c => o \notin {"init", "mode", "shutdown"}
  PROVE  ModeInv(c)'
<1> DEFINE p == Program(o, m)
<1>1. /\ p \in Seq(Steps) /\ Len(p) > 1 /\ p[1].do \notin {"set", "await"}
      /\ p[1].do = "switch" => p[2].do # "set"
      /\ d # c => \A k \in 1 .. Len(p) : p[k].do \notin ModeSteps
  BY ProgramFits
<1>2. todo' = [todo EXCEPT ![d] = p] /\ UNCHANGED <<selected_mode_, drive>>
  BY DEF Begin, motorVars
<1> HIDE DEF p
<1>3. Head(p) = p[1]
  BY <1>1
<1>4. todo'[d] = p /\ \A e \in Clients \ {d} : todo'[e] = todo[e]
  BY <1>2 DEF Shape
<1>5. Switching(c)'
  BY <1>1, <1>2, <1>3, <1>4 DEF ModeInv, Switching, Arg
<1>6. OthersKeep(c)'
  BY <1>1, <1>4 DEF ModeInv, OthersKeep
<1>7. QED
  BY <1>2, <1>5, <1>6 DEF ModeInv, AskedFor

\* The timer and the drive leave the selected mode and the mode asked for alone.
LEMMA DriveSwitching ==
  ASSUME Types, NEW c \in Clients, ModeInv(c),
         Poll \/ DriveAnswers \/ DriveQuickStops \/ DriveFaults
  PROVE  ModeInv(c)'
<1>1. drive \in [state : DriveStates, mode : AllModes, ask : AllModes,
                 rx : SUBSET ControlBits, edge : BOOLEAN]
  BY DEF Types, DriveTypes
<1>2. UNCHANGED <<selected_mode_, todo>>
  BY DEF Poll, Reading, Fetch, Store, ReadMode, HandleWrite, DriveAnswers, DriveReact,
         DriveSwitchesMode, DriveFaultHandled, DriveResetsFault, DriveQuickStops, DriveFaults,
         motorVars, clientVars
<1>3. drive'.ask = drive.ask
  BY <1>1 DEF Poll, Reading, Fetch, Store, ReadMode, HandleWrite, Receive, DriveAnswers,
         DriveReact, DriveSwitchesMode, DriveFaultHandled, DriveResetsFault, DriveQuickStops,
         DriveFaults, DriveIs
<1>4. QED
  BY <1>2, <1>3 DEF ModeInv, AskedFor, Switching, OthersKeep, Arg

\* handleWrite sends set points of a mode only to a drive that was asked for
\* that mode, if one client c at most switches modes (init and shutdown do so
\* too); any number of others may set targets, switch states and halt.  With two
\* the property fails: one of them selects the mode it asked for after the
\* other has asked the drive for another one, since switchMode asks, waits and
\* selects with no mutex held from the first to the last.
THEOREM SetPointsMatchMode ==
  ASSUME NEW c \in Clients,
         \A d \in Clients \ {c} : MayDo[d] \cap {"init", "mode", "shutdown"} = {}
  PROVE  Spec => SetPointsInMode
<1> DEFINE I == Shape /\ Rests /\ Types /\ ModeInv(c)
<1>1. Init => I
  <2>1. Init => ModeInv(c)
    BY DEF Init, ModeInv, AskedFor, Switching, OthersKeep
  <2>2. QED
    BY <2>1, TypeInit
<1>2. I /\ [Next]_vars => I'
  <2> SUFFICES ASSUME Shape, Rests, Types, ModeInv(c), [Next]_vars PROVE ModeInv(c)'
    BY TypeStep
  <2>1. ASSUME NEW d \in Clients, NEW o \in Operations,
               NEW m \in IF o = "mode" THEN Modes ELSE {No_Mode}, Begin(d, o, m)
        PROVE  ModeInv(c)'
    <3>1. d # c => o \notin {"init", "mode", "shutdown"}
      BY <2>1 DEF Begin
    <3>2. QED
      BY <2>1, <3>1, BeginSwitching, Zenon
  <2>2. ASSUME NEW d \in Clients, ClientStep(d) \/ Timeout(d)
        PROVE  ModeInv(c)'
    BY <2>2, OwnStep, OthersStep
  <2>3. CASE Poll \/ DriveAnswers \/ DriveQuickStops \/ DriveFaults
    BY <2>3, DriveSwitching
  <2>4. CASE UNCHANGED vars
    BY <2>4 DEF vars, motorVars, clientVars, ModeInv, AskedFor, Switching, OthersKeep, Arg
  <2>5. QED
    BY <2>1, <2>2, <2>3, <2>4 DEF Next
<1>3. I => (HandleWrite /\ Okay => drive.ask = selected_mode_)
  BY DEF ModeInv, AskedFor, Okay
<1>4. QED
  BY <1>1, <1>2, <1>3, PTL DEF Spec, SetPointsInMode

-----------------------------------------------------------------------------
(***************************************************************************)
(* Where the words under way lead a drive.                                 *)
(***************************************************************************)
Faulty == {"Fault_Reaction_Active", "Fault"}
Powered == {"Switch_On_Disabled", "Ready_To_Switch_On", "Switched_On", "Operation_Enable",
            "Quick_Stop_Active"}

\* A drive in state d may go to state x when it acts on the word cw.
Leads(d, cw, x) ==
  \/ x # d /\ x = DriveStep(d, cw)
  \/ MayQuickStop(d, cw) /\ x = "Switch_On_Disabled"

\* A word asks for one thing at most, and for none with the bit of the fault reset.
LEMMA OneDemand ==
  ASSUME NEW cw
  PROVE  /\ is_disable_voltage(cw) =>
              ~is_shutdown(cw) /\ ~is_switch_on(cw) /\ ~is_enable_operation(cw) /\ ~is_quickstop(cw)
         /\ is_shutdown(cw) => ~is_switch_on(cw) /\ ~is_enable_operation(cw) /\ ~is_quickstop(cw)
         /\ is_switch_on(cw) => ~is_enable_operation(cw) /\ ~is_quickstop(cw)
         /\ is_enable_operation(cw) => ~is_quickstop(cw)
         /\ "Fault_Reset" \in cw =>
              /\ ~is_disable_voltage(cw) /\ ~is_shutdown(cw) /\ ~is_switch_on(cw)
              /\ ~is_enable_operation(cw) /\ ~is_quickstop(cw)
  BY DEF is_disable_voltage, is_shutdown, is_switch_on, is_enable_operation, is_quickstop

\* What each kind of word does to a drive.
LEMMA LeadsTable ==
  ASSUME NEW d \in Powered, NEW cw, NEW x
  PROVE  Leads(d, cw, x) <=>
           \/ is_shutdown(cw) /\ x = "Ready_To_Switch_On"
              /\ d \in {"Switch_On_Disabled", "Switched_On", "Operation_Enable"}
           \/ is_disable_voltage(cw) /\ d # "Switch_On_Disabled" /\ x = "Switch_On_Disabled"
           \/ is_switch_on(cw) /\ x = "Switched_On"
              /\ d \in {"Ready_To_Switch_On", "Operation_Enable"}
           \/ is_enable_operation(cw) /\ x = "Operation_Enable"
              /\ d \in {"Switched_On", "Quick_Stop_Active"}
           \/ is_quickstop(cw) /\ d = "Operation_Enable" /\ x = "Quick_Stop_Active"
           \/ is_quickstop(cw) /\ x = "Switch_On_Disabled"
              /\ d \in {"Ready_To_Switch_On", "Switched_On"}
<1> DEFINE dv == is_disable_voltage(cw)
           sd == is_shutdown(cw)
           so == is_switch_on(cw)
           eo == is_enable_operation(cw)
           qs == is_quickstop(cw)
<1>1. /\ dv => ~sd /\ ~so /\ ~eo /\ ~qs
      /\ sd => ~so /\ ~eo /\ ~qs
      /\ so => ~eo /\ ~qs
      /\ eo => ~qs
  BY OneDemand
<1>2. Leads(d, cw, x) <=>
        \/ x # d /\ x = CASE d = "Not_Ready_To_Switch_On" -> "Switch_On_Disabled"
             [] d = "Switch_On_Disabled" /\ sd -> "Ready_To_Switch_On"
             [] d \in {"Ready_To_Switch_On", "Switched_On", "Operation_Enable", "Quick_Stop_Active"}
                  /\ dv -> "Switch_On_Disabled"
             [] d \in {"Switched_On", "Operation_Enable"} /\ sd -> "Ready_To_Switch_On"
             [] d \in {"Ready_To_Switch_On", "Operation_Enable"} /\ so -> "Switched_On"
             [] d \in {"Switched_On", "Quick_Stop_Active"} /\ eo -> "Operation_Enable"
             [] d = "Operation_Enable" /\ qs -> "Quick_Stop_Active"
             [] OTHER -> d
        \/ d \in {"Ready_To_Switch_On", "Switched_On"} /\ qs /\ x = "Switch_On_Disabled"
  BY DEF Leads, DriveStep, MayQuickStop
<1> HIDE DEF dv, sd, so, eo, qs
<1>3. Leads(d, cw, x) <=>
           \/ sd /\ x = "Ready_To_Switch_On"
              /\ d \in {"Switch_On_Disabled", "Switched_On", "Operation_Enable"}
           \/ dv /\ d # "Switch_On_Disabled" /\ x = "Switch_On_Disabled"
           \/ so /\ x = "Switched_On" /\ d \in {"Ready_To_Switch_On", "Operation_Enable"}
           \/ eo /\ x = "Operation_Enable" /\ d \in {"Switched_On", "Quick_Stop_Active"}
           \/ qs /\ d = "Operation_Enable" /\ x = "Quick_Stop_Active"
           \/ qs /\ x = "Switch_On_Disabled" /\ d \in {"Ready_To_Switch_On", "Switched_On"}
  BY <1>1, <1>2, SMTT(60) DEF Powered
<1> QED BY <1>3 DEF dv, sd, so, eo, qs

\* A drive leaves its state for one of these, or not at all while it is faulty.
LEMMA AsksLeads ==
  ASSUME NEW cw, NEW d
  PROVE  /\ d \in Powered =>
              /\ AsksToLeave(d, cw) <=> \E x : Leads(d, cw, x)
              /\ \A x : Leads(d, cw, x) => x \in Powered /\ x # d
         /\ d \in Faulty => ~AsksToLeave(d, cw) /\ \A x : ~Leads(d, cw, x)
<1>1. CASE d \in Powered
  <2>1. AsksToLeave(d, cw) <=> \E x : Leads(d, cw, x)
    <3>1. ASSUME AsksToLeave(d, cw) PROVE \E x : Leads(d, cw, x)
      <4>1. CASE DriveStep(d, cw) # d
        <5>1. Leads(d, cw, DriveStep(d, cw))
          BY <4>1 DEF Leads
        <5> QED BY <5>1
      <4>2. CASE MayQuickStop(d, cw)
        <5>1. Leads(d, cw, "Switch_On_Disabled")
          BY <4>2 DEF Leads
        <5> QED BY <5>1
      <4> QED BY <3>1, <4>1, <4>2 DEF AsksToLeave
    <3>2. ASSUME NEW x, Leads(d, cw, x) PROVE AsksToLeave(d, cw)
      BY <3>2 DEF Leads, AsksToLeave
    <3> QED BY <3>1, <3>2
  <2>2. ASSUME NEW x, Leads(d, cw, x) PROVE x \in Powered /\ x # d
    BY <1>1, <2>2, LeadsTable DEF Powered
  <2>3. d \notin Faulty
    BY <1>1 DEF Powered, Faulty
  <2> QED BY <1>1, <2>1, <2>2, <2>3
<1>2. CASE d \in Faulty
  <2>1. DriveStep(d, cw) = d /\ ~MayQuickStop(d, cw) /\ d \notin Powered
    BY <1>2 DEF DriveStep, MayQuickStop, Faulty, Powered
  <2> QED BY <1>2, <2>1 DEF AsksToLeave, Leads
<1> QED BY <1>1, <1>2

\* A word keeps the state it leads to, and one with the fault reset any state.
LEMMA WordKeeps ==
  ASSUME NEW cw, NEW d \in Faulty \cup Powered
  PROVE  /\ \A x : Leads(d, cw, x) => ~AsksToLeave(x, cw)
         /\ "Fault_Reset" \in cw => ~AsksToLeave(d, cw)
<1>1. ASSUME NEW x, Leads(d, cw, x) PROVE ~AsksToLeave(x, cw)
  <2>1. d \in Powered /\ x \in Powered
    BY <1>1, AsksLeads
  <2>2. \A y : ~Leads(x, cw, y)
    BY <1>1, <2>1, LeadsTable, OneDemand
  <2> QED BY <2>1, <2>2, AsksLeads
<1>2. ASSUME "Fault_Reset" \in cw PROVE ~AsksToLeave(d, cw)
  <2>1. d \in Powered => \A y : ~Leads(d, cw, y)
    BY <1>2, LeadsTable, OneDemand
  <2> QED BY <2>1, AsksLeads
<1> QED BY <1>1, <1>2

\* The bit CW_Halt asks for nothing.
LEMMA HaltAsksNothing ==
  ASSUME NEW cw, NEW more \in SUBSET {"Halt"}
  PROVE  \A d : /\ AsksToLeave(d, cw \cup more) <=> AsksToLeave(d, cw)
                /\ \A x : Leads(d, cw \cup more, x) <=> Leads(d, cw, x)
<1>1. /\ is_disable_voltage(cw \cup more) <=> is_disable_voltage(cw)
      /\ is_shutdown(cw \cup more) <=> is_shutdown(cw)
      /\ is_switch_on(cw \cup more) <=> is_switch_on(cw)
      /\ is_enable_operation(cw \cup more) <=> is_enable_operation(cw)
      /\ is_quickstop(cw \cup more) <=> is_quickstop(cw)
  BY DEF is_disable_voltage, is_shutdown, is_switch_on, is_enable_operation, is_quickstop
<1>2. \A d : /\ DriveStep(d, cw \cup more) = DriveStep(d, cw)
             /\ MayQuickStop(d, cw \cup more) <=> MayQuickStop(d, cw)
  BY <1>1, SMTT(60) DEF DriveStep, MayQuickStop
<1> QED BY <1>2 DEF AsksToLeave, Leads

\* A view of the state s that the drive has left for d does no harm to a switch
\* to goal: it is not the goal, and what the table commands in s keeps d.
Harmless(s, goal, d) ==
  /\ s \in Powered /\ s # goal
  /\ HasTransition(s, Hop(s, goal)) =>
       \A cw : ~AsksToLeave(d, Apply(cw, s, Hop(s, goal)))

\* The kind of word the table has for a transition out of a state without a fault.
LEMMA CommandKind ==
  ASSUME NEW s \in Powered, NEW h, HasTransition(s, h)
  PROVE  \A cw :
           LET w == Apply(cw, s, h) IN
           /\ "Fault_Reset" \notin w
           /\ \/ is_disable_voltage(w) /\ h = "Switch_On_Disabled" /\ s # "Switch_On_Disabled"
              \/ is_shutdown(w) /\ h = "Ready_To_Switch_On"
                 /\ s \in {"Switch_On_Disabled", "Switched_On", "Operation_Enable"}
              \/ is_switch_on(w) /\ h = "Switched_On"
                 /\ s \in {"Ready_To_Switch_On", "Operation_Enable"}
              \/ is_enable_operation(w) /\ h = "Operation_Enable"
                 /\ s \in {"Switched_On", "Quick_Stop_Active"}
              \/ is_quickstop(w) /\ h = "Quick_Stop_Active"
                 /\ s \in {"Ready_To_Switch_On", "Switched_On", "Operation_Enable"}
<1>1. PICK t \in Transitions : t[1] = s /\ t[2] = h
  BY DEF HasTransition
<1> SUFFICES ASSUME NEW cw
             PROVE  LET w == Apply(cw, s, h) IN
           /\ "Fault_Reset" \notin w
           /\ \/ is_disable_voltage(w) /\ h = "Switch_On_Disabled" /\ s # "Switch_On_Disabled"
              \/ is_shutdown(w) /\ h = "Ready_To_Switch_On"
                 /\ s \in {"Switch_On_Disabled", "Switched_On", "Operation_Enable"}
              \/ is_switch_on(w) /\ h = "Switched_On"
                 /\ s \in {"Ready_To_Switch_On", "Operation_Enable"}
              \/ is_enable_operation(w) /\ h = "Operation_Enable"
                 /\ s \in {"Switched_On", "Quick_Stop_Active"}
              \/ is_quickstop(w) /\ h = "Quick_Stop_Active"
                 /\ s \in {"Ready_To_Switch_On", "Switched_On", "Operation_Enable"}
  OBVIOUS
<1> DEFINE w == (cw \ Ops[t[3]].reset) \cup Ops[t[3]].set
<1>2. Apply(cw, s, h) = w
  BY <1>1, ApplyOf
<1>3. CASE t[3] = "disable_voltage"
  <2>1. "Fault_Reset" \notin w /\ is_disable_voltage(w)
    BY <1>3 DEF Ops, is_disable_voltage
  <2>2. h = "Switch_On_Disabled" /\ s # "Switch_On_Disabled"
    BY <1>1, <1>3 DEF Transitions
  <2> HIDE DEF w
  <2> QED BY <1>2, <2>1, <2>2
<1>4. CASE t[3] = "shutdown"
  <2>1. "Fault_Reset" \notin w /\ is_shutdown(w)
    BY <1>4 DEF Ops, is_shutdown
  <2>2. /\ h = "Ready_To_Switch_On"
        /\ s \in {"Switch_On_Disabled", "Switched_On", "Operation_Enable"}
    BY <1>1, <1>4 DEF Transitions
  <2> HIDE DEF w
  <2> QED BY <1>2, <2>1, <2>2
<1>5. CASE t[3] = "switch_on"
  <2>1. "Fault_Reset" \notin w /\ is_switch_on(w)
    BY <1>5 DEF Ops, is_switch_on
  <2>2. h = "Switched_On" /\ s \in {"Ready_To_Switch_On", "Operation_Enable"}
    BY <1>1, <1>5 DEF Transitions
  <2> HIDE DEF w
  <2> QED BY <1>2, <2>1, <2>2
<1>6. CASE t[3] = "enable_operation"
  <2>1. "Fault_Reset" \notin w /\ is_enable_operation(w)
    BY <1>6 DEF Ops, is_enable_operation
  <2>2. h = "Operation_Enable" /\ s \in {"Switched_On", "Quick_Stop_Active"}
    BY <1>1, <1>6 DEF Transitions
  <2> HIDE DEF w
  <2> QED BY <1>2, <2>1, <2>2
<1>7. CASE t[3] = "quickstop"
  <2>1. "Fault_Reset" \notin w /\ is_quickstop(w)
    BY <1>7 DEF Ops, is_quickstop
  <2>2. /\ h = "Quick_Stop_Active"
        /\ s \in {"Ready_To_Switch_On", "Switched_On", "Operation_Enable"}
    BY <1>1, <1>7 DEF Transitions
  <2> HIDE DEF w
  <2> QED BY <1>2, <2>1, <2>2
<1>8. \/ t[3] \in {"disable_voltage", "shutdown", "switch_on", "enable_operation", "quickstop"}
      \/ s \notin Powered
  BY <1>1 DEF Transitions, Powered
<1> QED BY <1>3, <1>4, <1>5, <1>6, <1>7, <1>8

\* In a fault the table leaves the word as it is, or adds the fault reset to it.
LEMMA FaultCommand ==
  ASSUME NEW s \in Faulty, NEW h, HasTransition(s, h), NEW cw
  PROVE  Apply(cw, s, h) \in {cw, cw \cup {"Fault_Reset"}}
<1>1. PICK t \in Transitions : t[1] = s /\ t[2] = h
  BY DEF HasTransition
<1>2. Apply(cw, s, h) = (cw \ Ops[t[3]].reset) \cup Ops[t[3]].set
  BY <1>1, ApplyOf
<1>3. t[3] \in {"automatic", "fault_reset"}
  BY <1>1 DEF Transitions, Faulty
<1>4. CASE t[3] = "automatic"
  BY <1>2, <1>4 DEF Ops
<1>5. CASE t[3] = "fault_reset"
  BY <1>2, <1>5 DEF Ops
<1> QED BY <1>3, <1>4, <1>5

\* On the way to Operation_Enable nothing a word does to the drive does harm ...
LEMMA UpwardsHarmless ==
  ASSUME NEW s \in Powered, s # "Operation_Enable", NEW cw, NEW x, Leads(s, cw, x)
  PROVE  Harmless(s, "Operation_Enable", x)
<1> DEFINE h == Hop(s, "Operation_Enable")
<1>1. /\ s = "Switch_On_Disabled" => h = "Ready_To_Switch_On"
      /\ s = "Ready_To_Switch_On" => h = "Switched_On"
      /\ s \in {"Switched_On", "Quick_Stop_Active"} => h = "Operation_Enable"
  BY DEF Hop, NextStateForEnabling, States
<1> HIDE DEF h
<1>2. ASSUME HasTransition(s, h), NEW v PROVE ~AsksToLeave(x, Apply(v, s, h))
  <2> DEFINE w == Apply(v, s, h)
  <2>1. /\ is_disable_voltage(w) => h = "Switch_On_Disabled"
        /\ is_quickstop(w) => h = "Quick_Stop_Active"
        /\ is_shutdown(w) => h = "Ready_To_Switch_On"
        /\ is_switch_on(w) => h = "Switched_On"
        /\ is_enable_operation(w) => h = "Operation_Enable"
    BY <1>2, CommandKind, OneDemand
  <2> HIDE DEF w
  <2>2. x \in Powered
    BY AsksLeads
  <2>3. /\ s = "Switch_On_Disabled" => x = "Ready_To_Switch_On"
        /\ s = "Ready_To_Switch_On" => x \in {"Switch_On_Disabled", "Switched_On"}
        /\ s = "Switched_On" => x \in {"Switch_On_Disabled", "Ready_To_Switch_On", "Operation_Enable"}
        /\ s = "Quick_Stop_Active" => x \in {"Switch_On_Disabled", "Operation_Enable"}
    BY LeadsTable
  <2>4. \A y : ~Leads(x, w, y)
    BY <1>1, <2>1, <2>2, <2>3, LeadsTable DEF Powered
  <2> QED BY <2>2, <2>4, AsksLeads DEF w
<1> QED BY <1>2 DEF Harmless, h

\* ... nor does what the table commands, whatever the goal.
LEMMA CommandHarmless ==
  ASSUME NEW s \in Powered, NEW goal, s # goal, HasTransition(s, Hop(s, goal)),
         NEW cw, NEW x, Leads(s, Apply(cw, s, Hop(s, goal)), x)
  PROVE  Harmless(s, goal, x)
<1> DEFINE h == Hop(s, goal)
<1> HIDE DEF h
<1>0. HasTransition(s, h) /\ Leads(s, Apply(cw, s, h), x)
  BY DEF h
<1>1. ASSUME NEW v PROVE ~AsksToLeave(x, Apply(v, s, h))
  <2> DEFINE w == Apply(cw, s, h)
             u == Apply(v, s, h)
  <2>1. /\ is_disable_voltage(u) <=> h = "Switch_On_Disabled"
        /\ is_quickstop(u) <=> h = "Quick_Stop_Active"
        /\ is_shutdown(u) <=> h = "Ready_To_Switch_On"
        /\ is_switch_on(u) <=> h = "Switched_On"
        /\ is_enable_operation(u) <=> h = "Operation_Enable"
    BY <1>0, CommandKind, OneDemand
  <2>2. /\ is_disable_voltage(w) <=> h = "Switch_On_Disabled"
        /\ is_quickstop(w) <=> h = "Quick_Stop_Active"
        /\ is_shutdown(w) <=> h = "Ready_To_Switch_On"
        /\ is_switch_on(w) <=> h = "Switched_On"
        /\ is_enable_operation(w) <=> h = "Operation_Enable"
    BY <1>0, CommandKind, OneDemand
  <2>3. x \in Powered /\ Leads(s, w, x)
    BY <1>0, AsksLeads
  <2> HIDE DEF w, u
  <2>4. Leads(s, w, x) <=> Leads(s, u, x)
    BY <2>1, <2>2, LeadsTable
  <2>5. ~AsksToLeave(x, u)
    BY <2>3, <2>4, WordKeeps
  <2> QED BY <2>5 DEF u
<1> QED BY <1>1 DEF Harmless, h

-----------------------------------------------------------------------------
(***************************************************************************)
(* An operation underway.  What it needs to know is what may be behind:    *)
(* a word the drive has not acted on, a state it has left.                 *)
(***************************************************************************)
\* Every word on its way to the drive, and the last one it got, keeps state x.
Kept(x) ==
  /\ ~AsksToLeave(x, drive.rx)
  /\ ~AsksToLeave(x, control_word_)
  /\ start_fault_reset_ => ~AsksToLeave(x, control_word_ \ {"Fault_Reset"})

AtRest == Kept(drive.state)

\* One of these words leads the drive to state x.
MayReach(x) ==
  \/ Leads(drive.state, drive.rx, x)
  \/ Leads(drive.state, control_word_, x)
  \/ start_fault_reset_ /\ Leads(drive.state, control_word_ \ {"Fault_Reset"}, x)

\* The status words that are read and not yet decoded, as states.
Pending == {ReadStatus(sw[t]) : t \in {u \in Threads : at[u] = "store"}}

InSwitch(c) == at[c] \in {"aim", "loop", "turn", "wait"}

\* What client c, now or later, takes for the state of the drive.
Views(c) == {state_} \cup Pending \cup (IF InSwitch(c) THEN {seen[c]} ELSE {})

\* The later view is the truer one, but for a fault while two threads read.
InOrder(c) ==
  drive.state \notin Faulty =>
    /\ InSwitch(c) /\ seen[c] = drive.state => state_ = drive.state
    /\ state_ = drive.state => \A v \in Pending : v = drive.state

\* The drive has left its first state, and a fault is not forgotten.
DriveFits(c) ==
  /\ drive.state \in Faulty \cup Powered
  /\ drive.state = "Fault_Reaction_Active" => \A v \in Views(c) : v = drive.state
  /\ drive.state = "Fault" => \A v \in Views(c) : v \in Faulty
  /\ drive.edge => /\ drive.state = "Fault" /\ ~start_fault_reset_
                   /\ "Fault_Reset" \in drive.rx /\ "Fault_Reset" \in control_word_

\* A switch to goal is on course: what is behind does it no harm, and while
\* something is behind the words on their way keep the drive where it is.
Course(c, goal) ==
  /\ DriveFits(c) /\ InOrder(c)
  /\ \/ \A v \in Views(c) : v \in Faulty \cup {drive.state}
     \/ \E s : Harmless(s, goal, drive.state) /\ \A v \in Views(c) : v \in {s, drive.state}
  /\ (\E v \in Views(c) : v # drive.state) => AtRest
  /\ \A x : Leads(drive.state, drive.rx, x) => Kept(x)
  /\ \A x : MayReach(x) => Harmless(drive.state, goal, x)

\* Between two switches the drive is at rest.
Still(c) ==
  /\ DriveFits(c) /\ InOrder(c) /\ AtRest
  /\ \A v \in Views(c) : v \in Faulty \cup {drive.state}

\* No fault reset is on its way.
NoReset ==
  /\ ~start_fault_reset_ /\ ~drive.edge
  /\ drive.state \in Faulty /\ "Fault_Reset" \in control_word_ => "Fault_Reset" \in drive.rx

\* And before the first one nothing is underway.
Calm(c) ==
  /\ drive.state \in Faulty \cup Powered /\ AtRest /\ NoReset
  /\ \/ \A v \in Views(c) : v = drive.state
     \/ drive.state = "Fault" /\ \A v \in Views(c) : v \in Faulty

\* Before its first edit an operation is at rest.
LEMMA CalmStill == \A c : Calm(c) => Still(c)
<1> SUFFICES ASSUME NEW c, Calm(c) PROVE Still(c)
  OBVIOUS
<1> DEFINE d == drive.state
<1>1. \/ \A v \in Views(c) : v = d
      \/ d = "Fault" /\ \A v \in Views(c) : v \in Faulty
  BY DEF Calm
<1>2. /\ state_ \in Views(c) /\ Pending \subseteq Views(c)
      /\ InSwitch(c) => seen[c] \in Views(c)
  BY DEF Views
<1>3. InOrder(c)
  BY <1>1, <1>2 DEF InOrder, Faulty
<1>4. DriveFits(c)
  BY <1>1 DEF DriveFits, Calm, NoReset, Faulty
<1> QED BY <1>1, <1>3, <1>4 DEF Still, Calm

\* At rest no word leads the drive anywhere.
LEMMA RestKeeps ==
  ASSUME drive.state \in Faulty \cup Powered, AtRest
  PROVE  \A x : ~MayReach(x)
  BY AsksLeads DEF AtRest, Kept, MayReach

\* From rest a switch to any state is on course.
LEMMA StillCourse ==
  ASSUME NEW c, NEW goal, Still(c)
  PROVE  Course(c, goal)
<1>1. \A x : ~MayReach(x)
  BY RestKeeps DEF Still, DriveFits
<1>2. \A x : ~Leads(drive.state, drive.rx, x)
  BY <1>1 DEF MayReach
<1> QED BY <1>1, <1>2 DEF Still, Course

\* A switch that sees its goal is where it wants to be, or the goal is a fault.
LEMMA CourseEnds ==
  ASSUME NEW c, NEW goal, Course(c, goal), InSwitch(c), seen[c] = goal
  PROVE  /\ Still(c)
         /\ goal \notin Faulty => drive.state = goal
<1> DEFINE d == drive.state
<1>1. /\ goal \in Views(c) /\ state_ \in Views(c) /\ Pending \subseteq Views(c)
      /\ \A v \in Views(c) : v \in {goal, state_} \/ v \in Pending
  BY DEF Views
<1>2. d = goal => AtRest
  <2>1. d = goal => \A x : ~MayReach(x)
    BY DEF Course, Harmless
  <2>2. d \in Faulty \cup Powered
    BY DEF Course, DriveFits
  <2> QED BY <2>1, <2>2, AsksLeads DEF MayReach, AtRest, Kept
<1>3. AtRest
  BY <1>1, <1>2 DEF Course
<1>4. CASE \A v \in Views(c) : v \in Faulty \cup {d}
  BY <1>1, <1>3, <1>4 DEF Still, Course
<1>5. ASSUME NEW s, Harmless(s, goal, d), \A v \in Views(c) : v \in {s, d}
      PROVE  d = goal /\ \A v \in Views(c) : v \in Faulty \cup {d}
  <2>1. d = goal
    BY <1>1, <1>5 DEF Harmless
  <2>2. CASE d \in Faulty
    BY <2>1, <2>2 DEF Course, DriveFits, Faulty
  <2>3. CASE d \notin Faulty
    <3>1. state_ = d /\ \A v \in Pending : v = d
      BY <2>1, <2>3 DEF Course, InOrder
    <3> QED BY <1>1, <2>1, <3>1
  <2> QED BY <2>1, <2>2, <2>3
<1> QED BY <1>3, <1>4, <1>5 DEF Still, Course

-----------------------------------------------------------------------------
(***************************************************************************)
(* Steps that read, and steps of the bus.                                  *)
(***************************************************************************)
SameWords ==
  /\ drive'.state = drive.state /\ drive'.rx = drive.rx /\ drive'.edge = drive.edge
  /\ UNCHANGED <<control_word_, start_fault_reset_>>

\* No view is taken but of the drive as it is.
SeesDrive(c) == \A v \in Views(c)' : v \in Views(c) \cup {drive.state}

\* A step that changes no word leaves alone what they ask for.
LEMMA WordsStay ==
  ASSUME SameWords
  PROVE  /\ AtRest' <=> AtRest
         /\ NoReset' <=> NoReset
         /\ \A x : (Kept(x)' <=> Kept(x)) /\ (MayReach(x)' <=> MayReach(x))
  BY DEF SameWords, AtRest, NoReset, Kept, MayReach

\* Nor does it harm an operation, if what it looks at is the drive as it is.
LEMMA ReadingKeeps ==
  ASSUME SameWords, NEW c, SeesDrive(c)
  PROVE  /\ Calm(c) => Calm(c)'
         /\ Still(c) /\ InOrder(c)' => Still(c)'
         /\ \A goal : Course(c, goal) /\ InOrder(c)' => Course(c, goal)'
<1>1. /\ AtRest' <=> AtRest
      /\ NoReset' <=> NoReset
      /\ \A x : (Kept(x)' <=> Kept(x)) /\ (MayReach(x)' <=> MayReach(x))
  BY WordsStay
<1>2. /\ drive'.state = drive.state /\ drive'.rx = drive.rx /\ drive'.edge = drive.edge
      /\ control_word_' = control_word_ /\ start_fault_reset_' = start_fault_reset_
  BY DEF SameWords
<1>3. DriveFits(c) => DriveFits(c)'
  BY <1>2 DEF DriveFits, SeesDrive, Faulty
<1>4. Calm(c) => Calm(c)'
  BY <1>1, <1>2 DEF Calm, SeesDrive, Faulty
<1>5. Still(c) /\ InOrder(c)' => Still(c)'
  BY <1>1, <1>2, <1>3 DEF Still, SeesDrive
<1>6. ASSUME NEW goal, Course(c, goal), InOrder(c)' PROVE Course(c, goal)'
  <2> DEFINE d == drive.state
  <2>1. DriveFits(c)' /\ drive'.state = d /\ drive'.rx = drive.rx
    BY <1>2, <1>3, <1>6 DEF Course
  <2>2. \/ \A v \in Views(c)' : v \in Faulty \cup {d}
        \/ \E s : Harmless(s, goal, d) /\ \A v \in Views(c)' : v \in {s, d}
    <3>1. CASE \A v \in Views(c) : v \in Faulty \cup {d}
      BY <3>1 DEF SeesDrive
    <3>2. CASE \E s : Harmless(s, goal, d) /\ \A v \in Views(c) : v \in {s, d}
      BY <3>2 DEF SeesDrive
    <3> QED BY <1>6, <3>1, <3>2 DEF Course
  <2>3. (\E v \in Views(c)' : v # d) => AtRest'
    BY <1>1, <1>6 DEF SeesDrive, Course
  <2>4. \A x : Leads(d, drive.rx, x) => Kept(x)'
    BY <1>1, <1>6 DEF Course
  <2>5. \A x : MayReach(x)' => Harmless(d, goal, x)
    BY <1>1, <1>6 DEF Course
  <2> QED BY <1>6, <2>1, <2>2, <2>3, <2>4, <2>5 DEF Course
<1> QED BY <1>4, <1>5, <1>6

\* A step that leaves the views of c alone.
SameViews(c) ==
  /\ Views(c)' = Views(c) /\ Pending' = Pending /\ state_' = state_
  /\ InSwitch(c)' = InSwitch(c) /\ (InSwitch(c) => seen'[c] = seen[c])

\* The order of the views depends on nothing else.
LEMMA SameInOrder ==
  ASSUME NEW c, SameViews(c), drive'.state = drive.state
  PROVE  InOrder(c)' <=> InOrder(c)
  BY DEF SameViews, InOrder

\* What handleWrite sends was on its way.
LEMMA WriteWords ==
  ASSUME HandleWrite, DriveTypes
  PROVE  /\ drive'.state = drive.state /\ control_word_' = control_word_
         /\ start_fault_reset_' = FALSE
         /\ \E more \in SUBSET {"Halt"} :
              \/ drive'.rx = control_word_ \cup more
              \/ start_fault_reset_ /\ drive'.rx = (control_word_ \ {"Fault_Reset"}) \cup more
         /\ drive'.edge => /\ drive.state = "Fault" /\ "Fault_Reset" \in drive'.rx
                           /\ "Fault_Reset" \in control_word_
                           /\ drive.edge \/ "Fault_Reset" \notin drive.rx
<1> DEFINE more == IF Okay THEN {} ELSE {"Halt"}
           word == IF start_fault_reset_ THEN control_word_ \ {"Fault_Reset"} ELSE control_word_
<1>1. /\ drive' = Receive(word \cup more) /\ start_fault_reset_' = FALSE
      /\ control_word_' = control_word_
  BY DEF HandleWrite
<1>2. more \in SUBSET {"Halt"} /\ word \subseteq control_word_
  OBVIOUS
<1>3. /\ word = control_word_ \/ (start_fault_reset_ /\ word = control_word_ \ {"Fault_Reset"})
  OBVIOUS
<1> HIDE DEF more, word
<1>4. /\ drive'.state = drive.state /\ drive'.rx = word \cup more
      /\ drive'.edge = /\ drive.state = "Fault"
                       /\ "Fault_Reset" \in word \cup more
                       /\ drive.edge \/ "Fault_Reset" \notin drive.rx
  BY <1>1 DEF Receive, DriveTypes
<1>5. "Fault_Reset" \in word \cup more => "Fault_Reset" \in control_word_
  BY <1>2
<1> QED BY <1>1, <1>2, <1>3, <1>4, <1>5

\* What it sends leads nowhere new.
LEMMA WriteKeeps ==
  ASSUME HandleWrite, DriveTypes, drive.state \in Faulty \cup Powered
  PROVE  /\ \A x : (Kept(x) => Kept(x)') /\ (MayReach(x)' => MayReach(x))
         /\ AtRest => AtRest'
         /\ \A x : Leads(drive.state, drive'.rx, x) => Kept(x)'
<1>1. /\ drive'.state = drive.state /\ control_word_' = control_word_
      /\ start_fault_reset_' = FALSE
  BY WriteWords
<1>2. PICK more \in SUBSET {"Halt"} :
         \/ drive'.rx = control_word_ \cup more
         \/ start_fault_reset_ /\ drive'.rx = (control_word_ \ {"Fault_Reset"}) \cup more
  BY WriteWords
<1>3. PICK word \in {control_word_, control_word_ \ {"Fault_Reset"}} :
         /\ drive'.rx = word \cup more
         /\ word = control_word_ \/ start_fault_reset_
  BY <1>2
<1>4. \A d, x : /\ AsksToLeave(d, drive'.rx) <=> AsksToLeave(d, word)
                /\ Leads(d, drive'.rx, x) <=> Leads(d, word, x)
  BY <1>3, HaltAsksNothing
<1>5. ASSUME NEW x
      PROVE  (Kept(x) => Kept(x)') /\ (MayReach(x)' => MayReach(x))
  BY <1>1, <1>3, <1>4 DEF Kept, MayReach
<1>6. ASSUME NEW x, Leads(drive.state, drive'.rx, x) PROVE Kept(x)'
  <2>1. Leads(drive.state, word, x)
    BY <1>4, <1>6
  <2>2. ~AsksToLeave(x, word) /\ x \in Powered
    BY <2>1, WordKeeps, AsksLeads
  <2>3. ~AsksToLeave(x, control_word_)
    <3>1. CASE word = control_word_
      BY <2>2, <3>1
    <3>2. CASE word # control_word_
      <4>1. "Fault_Reset" \in control_word_
        BY <1>3, <3>2
      <4> QED BY <2>2, <4>1, WordKeeps
    <3> QED BY <3>1, <3>2
  <2> QED BY <1>1, <1>4, <2>2, <2>3 DEF Kept
<1> QED BY <1>1, <1>5, <1>6 DEF AtRest

\* handleWrite keeps everything.
LEMMA WriteStep ==
  ASSUME HandleWrite, DriveTypes, NEW c, SameViews(c)
  PROVE  /\ Calm(c) => Calm(c)'
         /\ Still(c) => Still(c)'
         /\ \A goal : Course(c, goal) => Course(c, goal)'
<1> DEFINE d == drive.state
<1>1. /\ d' = d /\ control_word_' = control_word_ /\ start_fault_reset_' = FALSE
      /\ drive'.edge => /\ d = "Fault" /\ "Fault_Reset" \in drive'.rx
                        /\ "Fault_Reset" \in control_word_
                        /\ drive.edge \/ "Fault_Reset" \notin drive.rx
  BY WriteWords
<1>2. Views(c)' = Views(c) /\ (InOrder(c)' <=> InOrder(c))
  BY <1>1, SameInOrder DEF SameViews
<1>3. DriveFits(c) => DriveFits(c)'
  BY <1>1, <1>2 DEF DriveFits
<1>4. d \in Faulty \cup Powered =>
         /\ \A x : (Kept(x) => Kept(x)') /\ (MayReach(x)' => MayReach(x))
         /\ AtRest => AtRest'
         /\ \A x : Leads(d, drive'.rx, x) => Kept(x)'
  BY WriteKeeps
<1>5. ASSUME Calm(c) PROVE Calm(c)'
  <2>1. /\ ~start_fault_reset_ /\ ~drive.edge /\ d \in Faulty \cup Powered /\ AtRest'
        /\ d \in Faulty /\ "Fault_Reset" \in control_word_ => "Fault_Reset" \in drive.rx
    BY <1>4, <1>5 DEF Calm, NoReset
  <2>2. drive'.edge = FALSE
    <3>1. ~drive'.edge
      BY <1>1, <2>1 DEF Faulty
    <3>2. drive'.edge \in BOOLEAN
      BY DEF HandleWrite, Receive, DriveTypes
    <3> QED BY <3>1, <3>2
  <2>3. "Fault_Reset" \in control_word_ => "Fault_Reset" \in drive'.rx
    BY <2>1, WriteWords
  <2>4. NoReset'
    BY <1>1, <2>2, <2>3 DEF NoReset
  <2> QED BY <1>1, <1>2, <1>5, <2>1, <2>4 DEF Calm
<1>6. Still(c) => Still(c)'
  BY <1>1, <1>2, <1>3, <1>4 DEF Still, DriveFits
<1>7. ASSUME NEW goal, Course(c, goal) PROVE Course(c, goal)'
  <2>1. d \in Faulty \cup Powered
    BY <1>7 DEF Course, DriveFits
  <2>2. /\ (\E v \in Views(c)' : v # d) => AtRest'
        /\ \A x : Leads(d, drive'.rx, x) => Kept(x)'
        /\ \A x : MayReach(x)' => Harmless(d, goal, x)
    BY <1>2, <1>4, <1>7, <2>1 DEF Course
  <2>3. DriveFits(c)' /\ InOrder(c)'
    BY <1>2, <1>3, <1>7 DEF Course
  <2>4. \/ \A v \in Views(c)' : v \in Faulty \cup {d}
        \/ \E s : Harmless(s, goal, d) /\ \A v \in Views(c)' : v \in {s, d}
    BY <1>2, <1>7 DEF Course
  <2> QED BY <1>1, <2>2, <2>3, <2>4 DEF Course
<1> QED BY <1>5, <1>6, <1>7

\* The drive acts on a word: it leaves a state everybody has seen.
LEMMA ReactStep ==
  ASSUME DriveReact \/ DriveQuickStops, DriveTypes, NEW c, SameViews(c)
  PROVE  /\ drive.state \in Faulty \cup Powered => ~AtRest
         /\ ~Calm(c) /\ ~Still(c)
         /\ \A goal : Course(c, goal) => Course(c, goal)'
<1> DEFINE d == drive.state
<1>0. PICK x : x = drive'.state
  OBVIOUS
<1>1. /\ Leads(d, drive.rx, x)
      /\ drive' = [drive EXCEPT !.state = x, !.edge = FALSE]
      /\ drive'.rx = drive.rx /\ drive'.edge = FALSE
      /\ UNCHANGED <<control_word_, start_fault_reset_>>
  <2>1. CASE DriveReact
    <3>1. /\ DriveStep(d, drive.rx) # d
          /\ drive' = [drive EXCEPT !.state = DriveStep(d, drive.rx), !.edge = FALSE]
          /\ UNCHANGED <<control_word_, start_fault_reset_>>
      BY <2>1 DEF DriveReact, DriveIs, motorVars
    <3> QED BY <1>0, <3>1 DEF Leads, DriveTypes
  <2>2. CASE DriveQuickStops
    <3>1. /\ MayQuickStop(d, drive.rx)
          /\ drive' = [drive EXCEPT !.state = "Switch_On_Disabled", !.edge = FALSE]
          /\ UNCHANGED <<control_word_, start_fault_reset_>>
      BY <2>2 DEF DriveQuickStops, DriveIs, motorVars
    <3> QED BY <1>0, <3>1 DEF Leads, DriveTypes
  <2> QED BY <2>1, <2>2
<1>2. d \in Faulty \cup Powered => ~AtRest
  BY <1>1, RestKeeps DEF MayReach
<1>3. ~Calm(c) /\ ~Still(c)
  BY <1>2 DEF Calm, Still, DriveFits
<1>4. ASSUME NEW goal, Course(c, goal) PROVE Course(c, goal)'
  <2>1. /\ d \in Powered /\ x \in Powered /\ x # d
    BY <1>1, <1>4, AsksLeads DEF Course, DriveFits
  <2>2. d \notin Faulty /\ x \notin Faulty
    BY <2>1 DEF Powered, Faulty
  <2>3. \A v \in Views(c) : v = d
    BY <1>2, <1>4, <2>1 DEF Course
  <2>4. \A v \in Views(c)' : v = d
    BY <2>3 DEF SameViews
  <2>5. Harmless(d, goal, x)
    BY <1>1, <1>4 DEF Course, MayReach
  <2>6. Kept(x)
    BY <1>1, <1>4 DEF Course
  <2>7. Kept(x)'
    BY <1>1, <2>6 DEF Kept
  <2>8. AtRest'
    BY <1>0, <2>7 DEF AtRest
  <2>9. state_' = d /\ \A v \in Pending' : v = d
    BY <2>4 DEF Views
  <2>10. InOrder(c)'
    <3>1. state_' # drive'.state
      BY <1>0, <2>1, <2>9
    <3>2. InSwitch(c)' => seen'[c] # drive'.state
      <4>1. InSwitch(c)' => seen'[c] \in Views(c)'
        BY DEF Views
      <4> QED BY <1>0, <2>1, <2>4, <4>1
    <3> QED BY <3>1, <3>2 DEF InOrder
  <2>11. DriveFits(c)'
    BY <1>0, <1>1, <2>1, <2>2 DEF DriveFits, Faulty
  <2>12. \A y : ~MayReach(y)'
    <3>1. drive'.state \in Faulty \cup Powered
      BY <1>0, <2>1
    <3>2. \A y : ~Leads(x, drive'.rx, y) /\ ~Leads(x, control_word_', y)
                 /\ (start_fault_reset_' => ~Leads(x, control_word_' \ {"Fault_Reset"}, y))
      BY <2>1, <2>7, AsksLeads DEF Kept
    <3> QED BY <1>0, <3>2 DEF MayReach
  <2>13. \A y : ~Leads(x, drive'.rx, y)
    BY <1>0, <2>12 DEF MayReach
  <2>14. \E s : Harmless(s, goal, x) /\ \A v \in Views(c)' : v \in {s, x}
    BY <2>4, <2>5
  <2> QED BY <1>0, <2>8, <2>10, <2>11, <2>12, <2>13, <2>14 DEF Course
<1> QED BY <1>2, <1>3, <1>4

\* A fault is handled, or reset; no word moves the drive before or after.
LEMMA FaultWords ==
  ASSUME DriveFaultHandled \/ DriveResetsFault, DriveTypes, NEW c, DriveFits(c), SameViews(c)
  PROVE  /\ AtRest' /\ DriveFits(c)' /\ InOrder(c)'
         /\ \A v \in Views(c)' : v \in Faulty
         /\ drive.state \in Faulty /\ drive'.rx = drive.rx /\ drive'.edge = FALSE
         /\ UNCHANGED <<control_word_, start_fault_reset_>>
         /\ drive.edge \/ drive'.state = "Fault"
<1> DEFINE d == drive.state
<1>0. PICK x : x = drive'.state
  OBVIOUS
<1>1. /\ drive'.rx = drive.rx /\ drive'.edge = FALSE
      /\ UNCHANGED <<control_word_, start_fault_reset_>>
      /\ \/ d = "Fault_Reaction_Active" /\ x = "Fault"
         \/ d = "Fault" /\ drive.edge /\ x = "Switch_On_Disabled"
  BY <1>0 DEF DriveFaultHandled, DriveResetsFault, DriveIs, DriveTypes, motorVars
<1>2. \A v \in Views(c)' : v \in Faulty
  BY <1>1 DEF SameViews, DriveFits, Faulty
<1>3. d = "Fault" /\ drive.edge =>
        /\ "Fault_Reset" \in drive.rx /\ "Fault_Reset" \in control_word_ /\ ~start_fault_reset_
  BY DEF DriveFits
<1>4. Kept(x)'
  <2>1. CASE x = "Fault"
    <3>1. x \in Faulty
      BY <2>1 DEF Faulty
    <3> QED BY <3>1, AsksLeads DEF Kept
  <2>2. CASE x = "Switch_On_Disabled" /\ d = "Fault" /\ drive.edge
    <3>1. x \in Powered
      BY <2>2 DEF Powered
    <3> QED BY <1>1, <1>3, <2>2, <3>1, WordKeeps DEF Kept
  <2> QED BY <1>1, <2>1, <2>2
<1>5. AtRest'
  BY <1>0, <1>4 DEF AtRest
<1>6. x \in Faulty \cup Powered
  BY <1>1 DEF Faulty, Powered
<1>7. DriveFits(c)'
  BY <1>0, <1>1, <1>2, <1>6 DEF DriveFits, Faulty
<1>8. InOrder(c)'
  <2>1. state_' \in Faulty /\ (InSwitch(c)' => seen'[c] \in Faulty)
    BY <1>2 DEF Views
  <2> QED BY <2>1 DEF InOrder
<1> QED BY <1>0, <1>1, <1>2, <1>5, <1>7, <1>8 DEF Faulty

\* A drive that handles or resets a fault harms no operation.
LEMMA FaultStep ==
  ASSUME DriveFaultHandled \/ DriveResetsFault, DriveTypes, NEW c, SameViews(c)
  PROVE  /\ Calm(c) => Calm(c)'
         /\ Still(c) => Still(c)'
         /\ \A goal : Course(c, goal) => Course(c, goal)'
<1>1. Calm(c) => DriveFits(c)
  BY CalmStill DEF Still
<1>2. DriveFits(c) => Still(c)'
  BY FaultWords DEF Still
<1>3. \A goal : Still(c)' => Course(c, goal)'
  <2> SUFFICES ASSUME NEW goal, Still(c)' PROVE Course(c, goal)'
    OBVIOUS
  <2>1. /\ DriveFits(c)' /\ InOrder(c)' /\ AtRest'
        /\ \A v \in Views(c)' : v \in Faulty \cup {drive'.state}
    BY DEF Still
  <2>2. \A x : ~MayReach(x)'
    BY <2>1, AsksLeads DEF DriveFits, AtRest, Kept, MayReach
  <2>3. \A x : ~Leads(drive'.state, drive'.rx, x)
    BY <2>2 DEF MayReach
  <2> QED BY <2>1, <2>2, <2>3 DEF Course
<1>4. ASSUME Calm(c) PROVE Calm(c)'
  <2>1. ~drive.edge /\ ~start_fault_reset_ /\ DriveFits(c)
    BY <1>1, <1>4 DEF Calm, NoReset
  <2>2. /\ AtRest' /\ \A v \in Views(c)' : v \in Faulty
        /\ drive.state \in Faulty /\ drive'.rx = drive.rx /\ drive'.edge = FALSE
        /\ UNCHANGED <<control_word_, start_fault_reset_>>
        /\ drive'.state = "Fault"
    BY <2>1, FaultWords
  <2>3. NoReset'
    BY <1>4, <2>1, <2>2 DEF Calm, NoReset
  <2> QED BY <2>2, <2>3 DEF Calm, Faulty
<1> QED BY <1>2, <1>3, <1>4 DEF Still, Course

\* And so does every step of the bus.
LEMMA DriveWorks ==
  ASSUME DriveAnswers \/ DriveQuickStops, DriveTypes, NEW c, SameViews(c)
  PROVE  /\ Calm(c) => Calm(c)'
         /\ Still(c) => Still(c)'
         /\ \A goal : Course(c, goal) => Course(c, goal)'
<1>1. CASE DriveSwitchesMode
  <2>1. SameWords
    BY <1>1 DEF DriveSwitchesMode, DriveTypes, SameWords, motorVars
  <2>2. SeesDrive(c) /\ (InOrder(c)' <=> InOrder(c))
    BY <2>1, SameInOrder DEF SameViews, SeesDrive, SameWords
  <2> QED BY <2>1, <2>2, ReadingKeeps, CalmStill DEF Still, Course
<1>2. CASE DriveReact \/ DriveQuickStops
  BY <1>2, ReactStep
<1>3. CASE DriveFaultHandled \/ DriveResetsFault
  BY <1>3, FaultStep
<1> QED BY <1>1, <1>2, <1>3 DEF DriveAnswers

\* A drive at rest stays where it is.
LEMMA LandedStays ==
  ASSUME DriveAnswers \/ DriveQuickStops \/ HandleWrite, DriveTypes,
         drive.state \in Powered, AtRest
  PROVE  drive'.state = drive.state /\ AtRest'
<1>1. CASE HandleWrite
  BY <1>1, WriteWords, WriteKeeps
<1>2. CASE DriveSwitchesMode
  <2>1. /\ drive'.state = drive.state /\ drive'.rx = drive.rx
        /\ UNCHANGED <<control_word_, start_fault_reset_>>
    BY <1>2 DEF DriveSwitchesMode, DriveTypes, motorVars
  <2> QED BY <2>1 DEF AtRest, Kept
<1>3. CASE DriveReact \/ DriveQuickStops
  <2>1. AsksToLeave(drive.state, drive.rx)
    BY <1>3 DEF DriveReact, DriveQuickStops, AsksToLeave
  <2> QED BY <2>1 DEF AtRest, Kept
<1>4. CASE DriveFaultHandled \/ DriveResetsFault
  BY <1>4 DEF DriveFaultHandled, DriveResetsFault, Powered
<1> QED BY <1>1, <1>2, <1>3, <1>4 DEF DriveAnswers

-----------------------------------------------------------------------------
(***************************************************************************)
(* Steps that edit the control word.                                       *)
(***************************************************************************)
\* switchState commands what the table has for the state it has seen.
LEMMA CommandKeeps ==
  ASSUME NEW c, NEW goal, Course(c, goal), InSwitch(c), seen[c] # goal, SameViews(c),
         HasTransition(seen[c], Hop(seen[c], goal)),
         control_word_' = Apply(control_word_, seen[c], Hop(seen[c], goal)),
         UNCHANGED <<drive, start_fault_reset_>>
  PROVE  Course(c, goal)'
<1> DEFINE d == drive.state
<1>0. PICK s, w : s = seen[c] /\ w = Apply(control_word_, s, Hop(s, goal))
  OBVIOUS
<1>1. /\ drive' = drive /\ start_fault_reset_' = start_fault_reset_ /\ control_word_' = w
      /\ HasTransition(s, Hop(s, goal)) /\ s # goal
  BY <1>0
<1>2. /\ Views(c)' = Views(c) /\ (InOrder(c)' <=> InOrder(c))
  BY <1>1, SameInOrder DEF SameViews
<1>3. /\ s \in Views(c) /\ state_ \in Views(c) /\ Pending \subseteq Views(c)
      /\ \A v \in Views(c) : v \in {s, state_} \/ v \in Pending
  BY <1>0 DEF Views
<1>4. d \in Faulty \cup Powered /\ InOrder(c) /\ DriveFits(c)
  BY DEF Course, DriveFits
<1>5. \A x : Leads(d, drive.rx, x) => x \in Powered /\ Kept(x)
  BY <1>4, AsksLeads DEF Course
<1>6. \/ \A v \in Views(c)' : v \in Faulty \cup {d}
      \/ \E r : Harmless(r, goal, d) /\ \A v \in Views(c)' : v \in {r, d}
  BY <1>2 DEF Course
<1>7. CASE s \in Faulty
  <2>1. w \in {control_word_, control_word_ \cup {"Fault_Reset"}}
    BY <1>0, <1>1, <1>7, FaultCommand
  <2>2. /\ "Fault_Reset" \in control_word_ => "Fault_Reset" \in w
        /\ w \ {"Fault_Reset"} = control_word_ \ {"Fault_Reset"}
        /\ w = control_word_ \/ "Fault_Reset" \in w
    BY <2>1
  <2>3. \A x \in Faulty \cup Powered :
          w = control_word_ \/ (~AsksToLeave(x, w) /\ \A y : ~Leads(x, w, y))
    BY <2>2, WordKeeps, AsksLeads
  <2>4. \A x \in Faulty \cup Powered : Kept(x) => Kept(x)'
    BY <1>1, <2>2, <2>3 DEF Kept
  <2>5. \A x : MayReach(x)' => MayReach(x)
    BY <1>1, <1>4, <2>2, <2>3 DEF MayReach
  <2>6. DriveFits(c)'
    BY <1>1, <1>2, <1>4, <2>2 DEF DriveFits
  <2>7. (\E v \in Views(c)' : v # d) => AtRest'
    <3>1. AtRest => AtRest'
      BY <1>1, <1>4, <2>4 DEF AtRest
    <3> QED BY <1>2, <3>1 DEF Course
  <2>8. \A x : Leads(d, drive.rx, x) => Kept(x)'
    BY <1>5, <2>4
  <2>9. \A x : MayReach(x)' => Harmless(d, goal, x)
    BY <2>5 DEF Course
  <2> QED BY <1>1, <1>2, <1>4, <1>6, <2>6, <2>7, <2>8, <2>9 DEF Course
<1>8. CASE s \notin Faulty
  <2>1. d \notin Faulty /\ d \in Powered
    BY <1>3, <1>4, <1>8 DEF DriveFits, Faulty
  <2>2. s \in Powered
    <3>1. s = d \/ (\E r : Harmless(r, goal, d) /\ s = r)
      BY <1>3, <1>8 DEF Course
    <3> QED BY <2>1, <3>1 DEF Harmless
  <2>3. "Fault_Reset" \notin w /\ w \ {"Fault_Reset"} = w
    <3>1. "Fault_Reset" \notin w
      BY <1>0, <1>1, <2>2, CommandKind
    <3> QED BY <3>1
  <2>4. DriveFits(c)'
    BY <1>1, <1>2, <1>4, <2>1 DEF DriveFits, Faulty
  <2>5. /\ \A x : Kept(x)' <=> ~AsksToLeave(x, drive.rx) /\ ~AsksToLeave(x, w)
        /\ \A x : MayReach(x)' => Leads(d, drive.rx, x) \/ Leads(d, w, x)
    BY <1>1, <2>3 DEF Kept, MayReach
  <2>6. \A x : Leads(d, drive.rx, x) => Harmless(d, goal, x)
    BY DEF Course, MayReach
  <2>7. CASE s = d
    <3>1. \A v \in Views(c) : v = d
      BY <1>0, <1>3, <1>4, <2>1, <2>7 DEF InOrder
    <3>2. \A x : Leads(d, drive.rx, x) => Kept(x)'
      <4> SUFFICES ASSUME NEW x, Leads(d, drive.rx, x) PROVE Kept(x)'
        OBVIOUS
      <4>1. ~AsksToLeave(x, drive.rx)
        BY <1>5 DEF Kept
      <4>2. ~AsksToLeave(x, w)
        BY <1>0, <1>1, <2>6, <2>7 DEF Harmless
      <4> QED BY <2>5, <4>1, <4>2
    <3>3. \A x : MayReach(x)' => Harmless(d, goal, x)
      <4>1. \A x : Leads(d, w, x) => Harmless(d, goal, x)
        BY <1>0, <1>1, <2>2, <2>7, CommandHarmless
      <4> QED BY <2>5, <2>6, <4>1
    <3> QED BY <1>1, <1>2, <1>4, <1>6, <2>4, <3>1, <3>2, <3>3 DEF Course
  <2>8. CASE s # d
    <3>1. AtRest
      BY <1>3, <2>8 DEF Course
    <3>2. Harmless(s, goal, d)
      <4>1. ~ \A v \in Views(c) : v \in Faulty \cup {d}
        BY <1>3, <1>8, <2>8
      <4>2. PICK r : Harmless(r, goal, d) /\ \A v \in Views(c) : v \in {r, d}
        BY <4>1 DEF Course
      <4>3. r = s
        BY <1>3, <2>8, <4>2
      <4> QED BY <4>2, <4>3
    <3>3. ~AsksToLeave(d, w) /\ ~AsksToLeave(d, drive.rx)
      BY <1>0, <1>1, <3>1, <3>2 DEF Harmless, AtRest, Kept
    <3>4. AtRest'
      BY <1>1, <2>5, <3>3 DEF AtRest
    <3>5. /\ \A x : ~Leads(d, drive.rx, x)
          /\ \A x : ~MayReach(x)'
      BY <1>4, <2>5, <3>3, AsksLeads
    <3> QED BY <1>1, <1>2, <1>4, <1>6, <2>4, <3>4, <3>5 DEF Course
  <2> QED BY <2>7, <2>8
<1> QED BY <1>7, <1>8

\* handleInit zeroes the control word of a drive that is not enabled, and handleRecover
\* arms the fault reset.
LEMMA FirstEdit ==
  ASSUME NEW c, Calm(c), SameViews(c), drive' = drive, start_fault_reset_' = TRUE,
         \/ control_word_' = {} /\ drive.state # "Operation_Enable"
         \/ control_word_' = control_word_ /\ ~Disables("recover")
  PROVE  Course(c, "Operation_Enable")'
<1> DEFINE d == drive.state
<1>1. PICK w : w = control_word_'
  OBVIOUS
<1>2. /\ Views(c)' = Views(c) /\ (InOrder(c)' <=> InOrder(c))
  BY SameInOrder DEF SameViews
<1>3. /\ d \in Faulty \cup Powered /\ AtRest /\ ~drive.edge
      /\ InOrder(c)
  BY CalmStill DEF Calm, Still, NoReset
<1>4. \A x : ~Leads(d, drive.rx, x)
  BY <1>3, RestKeeps DEF MayReach
<1>5. \A x : Leads(d, w, x) \/ Leads(d, w \ {"Fault_Reset"}, x)
                => d \in Powered \ {"Operation_Enable"}
  <2> SUFFICES ASSUME NEW x, Leads(d, w, x) \/ Leads(d, w \ {"Fault_Reset"}, x),
                      d = "Operation_Enable"
               PROVE  FALSE
    BY <1>3, AsksLeads
  <2>1. d \in Powered /\ w = control_word_ /\ ~Disables("recover")
    BY <1>1 DEF Powered
  <2>2. ~AsksToLeave(d, w \ {"Fault_Reset"})
    BY <2>1 DEF Disables
  <2>3. ~AsksToLeave(d, w)
    BY <1>3, <2>1 DEF AtRest, Kept
  <2> QED BY <2>1, <2>2, <2>3, AsksLeads
<1>6. \A x : MayReach(x)' => Leads(d, w, x) \/ Leads(d, w \ {"Fault_Reset"}, x)
  BY <1>1, <1>4 DEF MayReach
<1>7. \A x : MayReach(x)' => Harmless(d, "Operation_Enable", x)
  BY <1>5, <1>6, UpwardsHarmless
<1>8. \/ \A v \in Views(c)' : v = d
      \/ d = "Fault" /\ \A v \in Views(c)' : v \in Faulty
  BY <1>2 DEF Calm
<1>9. d \in Faulty => AtRest'
  BY AsksLeads DEF AtRest, Kept
<1>10. DriveFits(c)'
  BY <1>3, <1>8 DEF DriveFits, Faulty
<1>11. (\E v \in Views(c)' : v # d) => AtRest'
  BY <1>8, <1>9 DEF Faulty
<1>12. \A v \in Views(c)' : v \in Faulty \cup {d}
  BY <1>8
<1> QED BY <1>2, <1>3, <1>4, <1>7, <1>10, <1>11, <1>12 DEF Course

\* Where everybody agrees and nobody asks the drive to leave its state, all is calm.
LEMMA SettledCalm ==
  ASSUME Settled, DriveTypes, NEW c, ~InSwitch(c)
  PROVE  Calm(c)
<1>1. drive.state \in Faulty \cup Powered
  <2>1. drive.state # "Not_Ready_To_Switch_On"
    <3>1. ~AsksToLeave(drive.state, drive.rx)
      BY DEF Settled
    <3>2. AsksToLeave("Not_Ready_To_Switch_On", drive.rx)
      BY DEF AsksToLeave, DriveStep
    <3> QED BY <3>1, <3>2
  <2> QED BY <2>1 DEF DriveTypes, DriveStates, States, Faulty, Powered
<1>2. \A v \in Views(c) : v = drive.state
  BY DEF Settled, Views, Pending
<1>3. AtRest
  BY DEF Settled, AtRest, Kept
<1>4. NoReset
  BY DEF Settled, NoReset, Faulty
<1> QED BY <1>1, <1>2, <1>3, <1>4 DEF Calm

-----------------------------------------------------------------------------
(***************************************************************************)
(* The steps of an operation that promises a state, in their order.        *)
(***************************************************************************)
First(steps) == IF steps = <<>> THEN "none" ELSE Head(steps).do

After(steps, k) == IF k < Len(steps) THEN steps[k + 1].do ELSE "none"

\* What comes after a step: a status is read and the control word edited only
\* before a switch, and what the last switch is to is what was promised.
OrderlyAt(o, steps, k) ==
  LET step == steps[k]
      after == After(steps, k)
  IN  /\ step.do \in {"read", "zero", "arm", "restart", "start", "set", "await", "switch",
                      "home", "deselect"}
      /\ step.do = "read" => after \in {"zero", "switch"}
      /\ step.do = "zero" => o = "init"
      /\ step.do = "arm" => after = "restart"
      /\ step.do \in {"zero", "restart"} =>
           after = "switch" /\ steps[k + 1].arg = "Operation_Enable"
      /\ step.do \in {"start", "await"} => after = "switch"
      /\ step.do = "start" => o = "mode" \/ (o = "init" /\ k + 5 <= Len(steps)
                                                        /\ steps[k + 5].do = "home")
      /\ step.do = "set" => after = "await"
      /\ step.do = "switch" =>
           /\ after \in {"none", "home", "start", "set"}
           /\ after # "set" => step.arg = Promises(o)
           /\ after = "start" => o = "init"
      /\ step.do = "home" => o = "init" /\ after = "deselect"
      /\ step.do = "deselect" =>
           (o = "init" /\ after = "none") \/ (o = "shutdown" /\ after = "switch")

Orderly(o, steps) == \A k \in 1 .. Len(steps) : OrderlyAt(o, steps, k)

\* What is left of orderly steps is orderly.
LEMMA OrderlyRest ==
  ASSUME NEW S, NEW steps \in Seq(S), NEW rest \in Seq(S), NEW o,
         Orderly(o, steps), Rest(steps, rest)
  PROVE  Orderly(o, rest)
<1>1. PICK n \in 0 .. Len(steps) :
         /\ Len(rest) = Len(steps) - n
         /\ \A k \in 1 .. Len(rest) : rest[k] = steps[k + n]
  BY DEF Rest
<1>2. Len(steps) \in Nat /\ Len(rest) \in Nat
  OBVIOUS
<1> SUFFICES ASSUME NEW k \in 1 .. Len(rest)
             PROVE  OrderlyAt(o, rest, k)
  BY DEF Orderly
<1>3. k + n \in 1 .. Len(steps) /\ rest[k] = steps[k + n]
  BY <1>1, <1>2
<1>4. OrderlyAt(o, steps, k + n)
  BY <1>3 DEF Orderly
<1>5. /\ After(rest, k) = After(steps, k + n)
      /\ k < Len(rest) => rest[k + 1] = steps[(k + n) + 1]
  <2>1. CASE k < Len(rest)
    <3>1. k + 1 \in 1 .. Len(rest) /\ (k + 1) + n = (k + n) + 1 /\ k + n < Len(steps)
      BY <1>1, <1>2, <2>1
    <3>2. rest[k + 1] = steps[(k + n) + 1]
      BY <1>1, <3>1
    <3> QED BY <2>1, <3>1, <3>2 DEF After
  <2>2. CASE ~(k < Len(rest))
    <3>1. ~(k + n < Len(steps))
      BY <1>1, <1>2, <2>2
    <3> QED BY <2>2, <3>1 DEF After
  <2> QED BY <2>1, <2>2
<1>6. After(rest, k) = "switch" => rest[k + 1] = steps[(k + n) + 1]
  BY <1>5 DEF After
<1>7. (k + n) + 5 <= Len(steps) =>
         /\ k + 5 <= Len(rest) /\ rest[k + 5] = steps[(k + n) + 5]
  <2>1. ASSUME (k + n) + 5 <= Len(steps)
        PROVE  k + 5 \in 1 .. Len(rest) /\ (k + 5) + n = (k + n) + 5
    BY <1>1, <1>2, <2>1
  <2> QED BY <1>1, <2>1
<1> QED BY <1>3, <1>4, <1>5, <1>6, <1>7 DEF OrderlyAt

\* The first step and what comes after it.
LEMMA OrderlyHead ==
  ASSUME NEW S, NEW steps \in Seq(S), steps # <<>>, NEW o, Orderly(o, steps)
  PROVE  /\ OrderlyAt(o, steps, 1) /\ steps[1] = Head(steps)
         /\ First(Tail(steps)) = After(steps, 1)
         /\ After(steps, 1) # "none" => steps[2] = Head(Tail(steps))
         /\ Orderly(o, Tail(steps))
<1>1. /\ Tail(steps) \in Seq(S) /\ Rest(steps, Tail(steps))
      /\ Len(steps) \in Nat \ {0} /\ steps[1] = Head(steps)
  BY TailRest
<1>2. OrderlyAt(o, steps, 1)
  BY <1>1 DEF Orderly
<1>3. Orderly(o, Tail(steps))
  BY <1>1, OrderlyRest
<1>4. /\ Len(steps) > 1 => Tail(steps) # <<>> /\ Head(Tail(steps)) = steps[2]
      /\ Len(steps) = 1 => Tail(steps) = <<>>
  <2> DEFINE rest == Tail(steps)
  <2>1. /\ rest \in Seq(S) /\ Len(rest) = Len(steps) - 1
        /\ \A k \in 1 .. Len(rest) : rest[k] = steps[k + 1]
    OBVIOUS
  <2>2. Len(steps) \in Nat \ {0}
    BY <1>1
  <2> HIDE DEF rest
  <2>3. Len(steps) > 1 => rest # <<>> /\ Head(rest) = rest[1] /\ rest[1] = steps[2]
    BY <2>1, <2>2
  <2>4. Len(steps) = 1 => rest = <<>>
    BY <2>1, <2>2
  <2> QED BY <2>3, <2>4 DEF rest
<1>5. /\ First(Tail(steps)) = After(steps, 1)
      /\ After(steps, 1) # "none" => steps[2] = Head(Tail(steps))
  BY <1>1, <1>4 DEF First, After
<1> QED BY <1>1, <1>2, <1>3, <1>5

\* A sequence of some length has a head.
LEMMA SomeHead ==
  ASSUME NEW S, NEW steps \in Seq(S), Len(steps) # 0
  PROVE  steps # <<>> /\ Head(steps) = steps[1]
  OBVIOUS

\* The operations that promise something are orderly from the beginning.
LEMMA ProgramOrderly ==
  ASSUME NEW o \in Operations, NEW m \in IF o = "mode" THEN Modes ELSE {No_Mode},
         Promises(o) # "Unknown"
  PROVE  /\ Orderly(o, Program(o, m))
         /\ Promises(o) \in Powered
         /\ First(Program(o, m)) \in {"read", "arm", "deselect", "start"}
         /\ First(Program(o, m)) = "start" => o = "mode" /\ Head(Program(o, m)).arg = m
         /\ First(Program(o, m)) = "arm" => o = "recover"
         /\ First(Program(o, m)) = "deselect" => o = "shutdown"
<1>0. /\ o \in {"init", "enable", "recover", "mode", "disable", "shutdown"}
      /\ Promises(o) \in Powered
      /\ o \in {"init", "enable", "recover", "mode"} => Promises(o) = "Operation_Enable"
      /\ o = "disable" => Promises(o) = "Switched_On"
      /\ o = "shutdown" => Promises(o) = "Switch_On_Disabled"
  BY DEF Promises, Powered, Operations
<1>1. CASE o = "enable" \/ o = "disable"
  <2>1. Program(o, m) = <<Step("read", No_Mode), Switch(Promises(o))>>
    BY <1>0, <1>1 DEF Program
  <2> QED BY <1>0, <1>1, <2>1 DEF Orderly, OrderlyAt, After, First, Step, Switch
<1>2. CASE o = "recover"
  <2>1. Program(o, m) = <<Step("arm", No_Mode), Step("restart", No_Mode),
                          Switch("Operation_Enable")>>
    BY <1>2 DEF Program
  <2> DEFINE p == Program(o, m)
  <2>2. /\ Len(p) = 3 /\ p # <<>> /\ Head(p) = p[1]
        /\ p[1].do = "arm" /\ p[2].do = "restart"
        /\ p[3].do = "switch" /\ p[3].arg = "Operation_Enable"
    BY <2>1 DEF Step, Switch
  <2> HIDE DEF p
  <2>3. Orderly(o, p)
    <3> SUFFICES ASSUME NEW k \in 1 .. 3 PROVE OrderlyAt(o, p, k)
      BY <2>2 DEF Orderly
    <3>1. k = 1 \/ k = 2 \/ k = 3
      OBVIOUS
    <3> QED BY <1>0, <1>2, <2>2, <3>1 DEF OrderlyAt, After
  <2> QED BY <1>0, <1>2, <2>2, <2>3 DEF First, p
<1>3. CASE o = "shutdown"
  <2>1. Program(o, m) = <<Step("deselect", No_Mode), Switch("Switch_On_Disabled")>>
    BY <1>3 DEF Program
  <2> DEFINE p == Program(o, m)
  <2>2. /\ Len(p) = 2 /\ p # <<>> /\ Head(p) = p[1]
        /\ p[1].do = "deselect" /\ p[2].do = "switch" /\ p[2].arg = "Switch_On_Disabled"
    BY <2>1 DEF Step, Switch
  <2> HIDE DEF p
  <2>3. Orderly(o, p)
    <3> SUFFICES ASSUME NEW k \in 1 .. 2 PROVE OrderlyAt(o, p, k)
      BY <2>2 DEF Orderly
    <3>1. k = 1 \/ k = 2
      OBVIOUS
    <3> QED BY <1>0, <1>3, <2>2, <3>1 DEF OrderlyAt, After
  <2> QED BY <1>0, <1>3, <2>2, <2>3 DEF First, p
<1>4. CASE o = "mode"
  <2>1. m \in AllModes \ {No_Mode}
    BY <1>4, ModesAssumption DEF AllModes
  <2> DEFINE p == Program(o, m)
  <2>2. p = SwitchMode(m)
    BY <1>4 DEF Program
  <2>3. /\ p \in Seq(Steps) /\ Len(p) = 5 /\ p[1] = Step("start", m)
        /\ p[2].do = "switch" /\ p[3].do = "set" /\ p[4].do = "await"
        /\ p[5].do = "switch" /\ p[5].arg = "Operation_Enable"
    <3>1. /\ p \in Seq(Steps) /\ Len(p) = 5 /\ p[1] = Step("start", m)
          /\ p[2] = Switch(SwitchingState) /\ p[3] = Step("set", m)
          /\ p[4] = Step("await", m) /\ p[5] = Switch("Operation_Enable")
      BY <2>1, <2>2, SwitchModeSteps
    <3> HIDE DEF p
    <3> QED BY <3>1 DEF Step, Switch
  <2> HIDE DEF p
  <2>4. p[1].do = "start" /\ p[1].arg = m /\ p # <<>> /\ Head(p) = p[1]
    <3>1. p \in Seq(Steps) /\ Len(p) # 0
      BY <2>3
    <3>2. p # <<>> /\ Head(p) = p[1]
      BY <3>1, SomeHead
    <3>3. p[1].do = "start" /\ p[1].arg = m
      BY <2>3 DEF Step
    <3> QED BY <3>2, <3>3
  <2>5. Orderly(o, p)
    <3> SUFFICES ASSUME NEW k \in 1 .. 5 PROVE OrderlyAt(o, p, k)
      BY <2>3 DEF Orderly
    <3>1. k = 1 \/ k = 2 \/ k = 3 \/ k = 4 \/ k = 5
      OBVIOUS
    <3> QED BY <1>0, <1>4, <2>3, <2>4, <3>1 DEF OrderlyAt, After
  <2> QED BY <1>0, <1>4, <2>4, <2>5 DEF First, p
<1>5. CASE o = "init"
  <2> DEFINE p == Program("init", m)
  <2>1. CASE HomingSupported
    <3>1. /\ p \in Seq(Steps) /\ Len(p) = 10 /\ p[1].do = "read" /\ p[2].do = "zero"
          /\ p[3].do = "switch" /\ p[3].arg = "Operation_Enable" /\ p[4].do = "start"
          /\ p[5].do = "switch" /\ p[6].do = "set" /\ p[7].do = "await"
          /\ p[8].do = "switch" /\ p[8].arg = "Operation_Enable"
          /\ p[9].do = "home" /\ p[10].do = "deselect"
      <4>1. /\ p \in Seq(Steps) /\ Len(p) = 10 /\ p[1].do = "read" /\ p[2].do = "zero"
            /\ p[3] = Switch("Operation_Enable") /\ p[4] = Step("start", Homing)
            /\ p[5] = Switch(SwitchingState) /\ p[6] = Step("set", Homing)
            /\ p[7] = Step("await", Homing) /\ p[8] = Switch("Operation_Enable")
            /\ p[9].do = "home" /\ p[10].do = "deselect"
        BY <2>1, InitSteps
      <4> HIDE DEF p
      <4> QED BY <4>1 DEF Step, Switch
    <3> HIDE DEF p
    <3>2. p # <<>> /\ Head(p) = p[1]
      <4>1. p \in Seq(Steps) /\ Len(p) # 0
        BY <3>1
      <4> QED BY <4>1, SomeHead
    <3>3. Orderly(o, p)
      <4> SUFFICES ASSUME NEW k \in 1 .. 10 PROVE OrderlyAt(o, p, k)
        BY <3>1 DEF Orderly
      <4>1. \/ k = 1 \/ k = 2 \/ k = 3 \/ k = 4 \/ k = 5
            \/ k = 6 \/ k = 7 \/ k = 8 \/ k = 9 \/ k = 10
        OBVIOUS
      <4> QED BY <1>0, <1>5, <3>1, <4>1 DEF OrderlyAt, After
    <3> QED BY <1>0, <1>5, <3>1, <3>2, <3>3 DEF First, p
  <2>2. CASE ~HomingSupported
    <3>1. Program(o, m) = <<Step("read", No_Mode), Step("zero", No_Mode),
                            Switch("Operation_Enable")>>
      BY <1>5, <2>2 DEF Program
    <3> DEFINE q == Program(o, m)
    <3>2. /\ Len(q) = 3 /\ q # <<>> /\ Head(q) = q[1]
          /\ q[1].do = "read" /\ q[2].do = "zero"
          /\ q[3].do = "switch" /\ q[3].arg = "Operation_Enable"
      BY <3>1 DEF Step, Switch
    <3> HIDE DEF q
    <3>3. Orderly(o, q)
      <4> SUFFICES ASSUME NEW k \in 1 .. 3 PROVE OrderlyAt(o, q, k)
        BY <3>2 DEF Orderly
      <4>1. k = 1 \/ k = 2 \/ k = 3
        OBVIOUS
      <4> QED BY <1>0, <1>5, <3>2, <4>1 DEF OrderlyAt, After
    <3> QED BY <1>0, <1>5, <3>2, <3>3 DEF First, q
  <2> QED BY <2>1, <2>2
<1> QED BY <1>0, <1>1, <1>2, <1>3, <1>4, <1>5

-----------------------------------------------------------------------------
(***************************************************************************)
(* An operation on course, step by step.                                   *)
(***************************************************************************)
\* The drive is in the state operation o promises, and nothing takes it out of it.
Landed(o) == drive.state = Promises(o) /\ AtRest

\* What operation o of client c needs for the step do with argument arg.
Ready(c, o, do, arg) ==
  /\ do \in {"read", "zero", "arm"} => Calm(c)
  /\ o = "init" /\ do \in {"read", "zero"} => drive.state # "Operation_Enable"
  /\ do = "arm" => ~Disables("recover")
  /\ do = "restart" => Course(c, "Operation_Enable")
  /\ do = "switch" => Course(c, arg)
  /\ do \in {"start", "set", "await"} \/ (do = "deselect" /\ o = "shutdown") => Still(c)
  /\ do = "start" /\ o = "mode" => selected_mode_ # arg
  /\ do \in {"none", "home"} \/ (do \in {"start", "deselect"} /\ o = "init") => Landed(o)

\* Where client c is inside a switch.
Aimed(c) ==
  /\ at[c] \in {"loop", "turn", "wait"} => target_state_ = Arg(c)
  /\ at[c] \in {"turn", "wait"} => seen[c] # Arg(c)

OnCourse(c) == Ready(c, op[c], First(todo[c]), Arg(c)) /\ Aimed(c)

\* No other client is inside a step.
Alone(c) == \A d \in Clients \ {c} : at[d] = "step"

\* The timer and the others look, and change no word.
LEMMA LookKeeps ==
  ASSUME SameWords, NEW c, state_' = state_, Pending' = Pending,
         InSwitch(c)' => seen'[c] = state_ \/ (InSwitch(c) /\ seen'[c] = seen[c])
  PROVE  /\ Calm(c) => Calm(c)'
         /\ Still(c) => Still(c)'
         /\ \A goal : Course(c, goal) => Course(c, goal)'
<1>1. SeesDrive(c)
  BY DEF SeesDrive, Views
<1>2. InOrder(c) => InOrder(c)'
  BY DEF InOrder, SameWords
<1> QED BY <1>1, <1>2, ReadingKeeps DEF Still, Course

\* The status words that are read are those of the threads about to decode one.
LEMMA PendingStays ==
  ASSUME sw' = sw, \A t \in Threads : at'[t] = "store" <=> at[t] = "store"
  PROVE  Pending' = Pending
  BY DEF Pending

\* Thread t, a client or the timer, fetches the status word, ...
LEMMA FetchSees ==
  ASSUME Shape, LocalTypes, DriveTypes, NEW t \in Threads, Fetch(t)
  PROVE  Pending' \subseteq Pending \cup {drive.state}
<1>1. /\ sw' = [sw EXCEPT ![t] = StatusWord(drive.state)] /\ at' = [at EXCEPT ![t] = "store"]
      /\ ReadStatus(StatusWord(drive.state)) = drive.state
  BY ReadStatusDecodes DEF Fetch, Go, DriveTypes
<1>2. ASSUME NEW u \in Threads, at'[u] = "store"
      PROVE  ReadStatus(sw'[u]) \in Pending \cup {drive.state}
  <2>1. CASE u = t
    BY <1>1, <2>1 DEF LocalTypes
  <2>2. CASE u # t
    <3>1. sw'[u] = sw[u] /\ at'[u] = at[u]
      BY <1>1, <2>2 DEF LocalTypes, Shape
    <3> QED BY <1>2, <3>1 DEF Pending
  <2> QED BY <2>1, <2>2
<1> QED BY <1>2 DEF Pending

\* ... and decodes it.
LEMMA StoreSees ==
  ASSUME Shape, LocalTypes, NEW t \in Threads, Store(t)
  PROVE  /\ state_' \in Pending /\ Pending' \subseteq Pending
         /\ (\A u \in Threads \ {t} : at[u] # "store") => Pending' = {}
<1>1. /\ at[t] = "store" /\ state_' = ReadStatus(sw[t])
      /\ sw' = [sw EXCEPT ![t] = {}] /\ at' = [at EXCEPT ![t] = "display"]
  BY DEF Store, Go
<1>2. state_' \in Pending
  BY <1>1 DEF Pending
<1>3. \A u \in Threads : at'[u] = "store" => u # t /\ at[u] = "store" /\ sw'[u] = sw[u]
  BY <1>1 DEF LocalTypes, Shape
<1>4. Pending' \subseteq Pending
  BY <1>3 DEF Pending
<1>5. (\A u \in Threads \ {t} : at[u] # "store") => Pending' = {}
  BY <1>3 DEF Pending
<1> QED BY <1>2, <1>4, <1>5

\* A drive at rest is not enabled by what the bus does.
LEMMA CalmNotEnabled ==
  ASSUME DriveAnswers \/ DriveQuickStops \/ HandleWrite, DriveTypes, NEW c, Calm(c),
         drive'.state = "Operation_Enable"
  PROVE  drive.state = "Operation_Enable" /\ control_word_' = control_word_
<1>1. control_word_' = control_word_
  BY DEF DriveAnswers, DriveReact, DriveSwitchesMode, DriveFaultHandled, DriveResetsFault,
         DriveQuickStops, HandleWrite, motorVars
<1>2. drive.state \in Powered => drive.state = "Operation_Enable"
  BY LandedStays DEF Calm
<1>3. drive.state \notin Faulty
  <2> SUFFICES ASSUME drive.state \in Faulty PROVE FALSE
    OBVIOUS
  <2>1. ~AsksToLeave(drive.state, drive.rx)
    BY DEF Calm, AtRest, Kept
  <2>2. CASE HandleWrite
    BY <2>2, WriteWords DEF Faulty
  <2>3. CASE DriveReact \/ DriveQuickStops
    BY <2>1, <2>3 DEF DriveReact, DriveQuickStops, AsksToLeave
  <2>4. CASE DriveSwitchesMode
    BY <2>4 DEF DriveSwitchesMode, DriveTypes, Faulty
  <2>5. CASE DriveFaultHandled \/ DriveResetsFault
    BY <2>5 DEF DriveFaultHandled, DriveResetsFault, DriveIs, DriveTypes
  <2> QED BY <2>2, <2>3, <2>4, <2>5 DEF DriveAnswers
<1> QED BY <1>1, <1>2, <1>3 DEF Calm

\* What a step needs stays, when what it is made of does.
LEMMA ReadyStays ==
  ASSUME NEW c, NEW o, NEW do, NEW arg, Ready(c, o, do, arg), selected_mode_' = selected_mode_,
         Calm(c) => Calm(c)', Still(c) => Still(c)',
         \A goal : Course(c, goal) => Course(c, goal)',
         Calm(c) /\ drive'.state = "Operation_Enable" =>
           drive.state = "Operation_Enable" /\ control_word_' = control_word_,
         Landed(o) => Landed(o)'
  PROVE  Ready(c, o, do, arg)'
  BY DEF Ready, Disables

\* A client that does not move is on course if its next step is ready.
LEMMA CourseStays ==
  ASSUME NEW c, OnCourse(c), target_state_' = target_state_,
         op'[c] = op[c], todo'[c] = todo[c], at'[c] = at[c], seen'[c] = seen[c],
         \A o, do, arg : o = op[c] /\ do = First(todo[c]) /\ arg = Arg(c) => Ready(c, o, do, arg)'
  PROVE  OnCourse(c)'
<1>1. PICK o, do, arg : o = op[c] /\ do = First(todo[c]) /\ arg = Arg(c)
  OBVIOUS
<1>2. Ready(c, o, do, arg)'
  BY <1>1
<1>3. op'[c] = o /\ First(todo[c])' = do /\ Arg(c)' = arg
  BY <1>1 DEF First, Arg
<1>4. Ready(c, op[c], First(todo[c]), Arg(c))'
  BY <1>2, <1>3
<1>5. Aimed(c)'
  BY <1>1, <1>3 DEF OnCourse, Aimed
<1> QED BY <1>4, <1>5 DEF OnCourse

\* The timer and the drive keep an operation on course.
LEMMA BusCourse ==
  ASSUME Shape, LocalTypes, DriveTypes, NEW c \in Clients, Alone(c), OnCourse(c),
         Promises(op[c]) \in Powered, Poll \/ DriveAnswers \/ DriveQuickStops
  PROVE  OnCourse(c)'
<1>1. Timer \notin Clients /\ Timer \in Threads /\ c \in Threads /\ Threads = Clients \cup {Timer}
  BY ClientsAssumption DEF Threads
<1>2. UNCHANGED <<op, todo, target_state_, seen, selected_mode_, control_word_>> /\ at'[c] = at[c]
  BY <1>1 DEF Poll, Reading, Fetch, Store, ReadMode, HandleWrite, DriveAnswers, DriveReact,
     DriveSwitchesMode, DriveFaultHandled, DriveResetsFault, DriveQuickStops, motorVars,
     clientVars, Go, Shape
<1>3. InSwitch(c)' = InSwitch(c)
  BY <1>2 DEF InSwitch
<1>4. CASE HandleWrite \/ DriveAnswers \/ DriveQuickStops
  <2>1. Pending' = Pending /\ state_' = state_
    <3>1. CASE HandleWrite
      <4>1. sw' = sw /\ at[Timer] = "write" /\ at' = [at EXCEPT ![Timer] = "fetch"]
            /\ state_' = state_
        BY <3>1 DEF HandleWrite, Go
      <4>2. \A t \in Threads : at'[t] = "store" <=> at[t] = "store"
        BY <1>1, <4>1 DEF Shape
      <4> QED BY <4>1, <4>2, PendingStays
    <3>2. CASE DriveAnswers \/ DriveQuickStops
      <4>1. UNCHANGED <<sw, at, state_>>
        BY <3>2 DEF DriveAnswers, DriveReact, DriveSwitchesMode, DriveFaultHandled,
           DriveResetsFault, DriveQuickStops, motorVars
      <4> QED BY <4>1, PendingStays
    <3> QED BY <1>4, <3>1, <3>2
  <2>2. SameViews(c)
    BY <1>2, <1>3, <2>1 DEF SameViews, Views
  <2>3. /\ Calm(c) => Calm(c)'
        /\ Still(c) => Still(c)'
        /\ \A goal : Course(c, goal) => Course(c, goal)'
    BY <1>4, <2>2, WriteStep, DriveWorks
  <2>4. Calm(c) /\ drive'.state = "Operation_Enable" =>
          drive.state = "Operation_Enable" /\ control_word_' = control_word_
    BY <1>4, CalmNotEnabled
  <2>5. ASSUME NEW o, o = op[c], Landed(o) PROVE Landed(o)'
    BY <1>4, <2>5, LandedStays DEF Landed
  <2>6. \A o, do, arg : o = op[c] /\ do = First(todo[c]) /\ arg = Arg(c) => Ready(c, o, do, arg)'
    BY <1>2, <2>3, <2>4, <2>5, ReadyStays DEF OnCourse
  <2> QED BY <1>2, <2>6, CourseStays
<1>5. CASE Reading(Timer)
  <2>1. SameWords /\ drive' = drive
    BY <1>2, <1>5 DEF Reading, Fetch, Store, ReadMode, motorVars, SameWords
  <2>2. SeesDrive(c)
    <3>1. state_' \in {state_} \cup Pending /\ Pending' \subseteq Pending \cup {drive.state}
      <4>1. CASE Fetch(Timer)
        BY <1>1, <4>1, FetchSees DEF Fetch, motorVars
      <4>2. CASE Store(Timer)
        BY <1>1, <4>2, StoreSees
      <4>3. CASE ReadMode(Timer)
        <5>1. \A t \in Threads : at'[t] = "store" <=> at[t] = "store"
          BY <1>1, <4>3 DEF ReadMode, Go, Shape
        <5> QED BY <4>3, <5>1, PendingStays DEF ReadMode
      <4> QED BY <1>5, <4>1, <4>2, <4>3 DEF Reading
    <3> QED BY <1>2, <1>3, <3>1 DEF SeesDrive, Views
  <2>3. Calm(c) => Calm(c)'
    BY <2>1, <2>2, ReadingKeeps
  <2>4. InOrder(c) /\ at[c] # "store" => InOrder(c)'
    <3>1. CASE Fetch(Timer)
      <4>1. state_' = state_ /\ Pending' \subseteq Pending \cup {drive.state}
        BY <1>1, <3>1, FetchSees DEF Fetch, motorVars
      <4> QED BY <1>2, <1>3, <2>1, <4>1 DEF InOrder
    <3>2. CASE Store(Timer)
      <4>1. /\ state_' \in Pending
            /\ at[c] # "store" => Pending' = {}
        BY <1>1, <3>2, StoreSees DEF Alone
      <4> QED BY <1>2, <1>3, <2>1, <4>1 DEF InOrder
    <3>3. CASE ReadMode(Timer)
      <4>1. \A t \in Threads : at'[t] = "store" <=> at[t] = "store"
        BY <1>1, <3>3 DEF ReadMode, Go, Shape
      <4>2. Pending' = Pending /\ state_' = state_
        BY <3>3, <4>1, PendingStays DEF ReadMode
      <4> QED BY <1>2, <1>3, <2>1, <4>2 DEF InOrder
    <3> QED BY <1>5, <3>1, <3>2, <3>3 DEF Reading
  <2>5. at[c] = "store" => First(todo[c]) = "read"
    BY DEF Shape, PlaceFits, Inside, First
  <2>6. at[c] # "store" => /\ Still(c) => Still(c)'
                           /\ \A goal : Course(c, goal) => Course(c, goal)'
    BY <2>1, <2>2, <2>4, ReadingKeeps DEF Still, Course
  <2>7. \A o : Landed(o) => Landed(o)'
    BY <2>1, WordsStay DEF Landed
  <2>8. ASSUME NEW o, NEW do, NEW arg, o = op[c], do = First(todo[c]), arg = Arg(c)
        PROVE  Ready(c, o, do, arg)'
    <3>1. Ready(c, o, do, arg)
      BY <2>8 DEF OnCourse
    <3>2. CASE at[c] # "store"
      BY <1>2, <2>1, <2>3, <2>6, <2>7, <3>1, <3>2, ReadyStays
    <3>3. CASE at[c] = "store"
      <4>1. do = "read"
        BY <2>5, <2>8, <3>3
      <4> QED BY <2>1, <2>3, <3>1, <4>1 DEF Ready
    <3> QED BY <3>2, <3>3
  <2> QED BY <1>2, <2>8, CourseStays
<1> QED BY <1>4, <1>5 DEF Poll

\* What an orderly operation does next, and what it does then.
LEMMA HeadAt ==
  ASSUME Shape, NEW c \in Clients, todo[c] # <<>>, Orderly(op[c], todo[c])
  PROVE  /\ OrderlyAt(op[c], todo[c], 1)
         /\ First(todo[c]) = todo[c][1].do /\ Arg(c) = todo[c][1].arg
<1> DEFINE t == todo[c]
<1>1. t \in Seq(Steps) /\ t # <<>> /\ Orderly(op[c], t)
  BY DEF Shape
<1> HIDE DEF t
<1>2. OrderlyAt(op[c], t, 1) /\ t[1] = Head(t)
  BY <1>1, OrderlyHead
<1> QED BY <1>1, <1>2 DEF t, First, Arg

\* It is done with a step: what the next one needs keeps it on course.
LEMMA DoneCourse ==
  ASSUME Shape, NEW c \in Clients, todo[c] # <<>>, Orderly(op[c], todo[c]), op' = op,
         Continue(c, Tail(todo[c])),
         \A o, do, arg : /\ o = op[c] /\ do = After(todo[c], 1)
                         /\ do # "none" => arg = todo[c][2].arg
                         => Ready(c, o, do, arg)'
  PROVE  Orderly(op[c], todo'[c]) /\ OnCourse(c)'
<1> DEFINE t == todo[c]
<1>1. t \in Seq(Steps) /\ t # <<>> /\ Orderly(op[c], t)
  BY DEF Shape
<1>2. todo'[c] = Tail(t) /\ at'[c] = "step"
  BY DEF Continue, Go, Shape, Threads
<1> HIDE DEF t
<1>3. /\ First(Tail(t)) = After(t, 1) /\ Orderly(op[c], Tail(t))
      /\ After(t, 1) # "none" => t[2] = Head(Tail(t))
  BY <1>1, OrderlyHead
<1>4. PICK o, do, arg : o = op[c] /\ do = After(t, 1) /\ arg = Arg(c)'
  OBVIOUS
<1>5. First(todo[c])' = do /\ (do # "none" => arg = t[2].arg)
  BY <1>2, <1>3, <1>4 DEF First, Arg
<1>6. Ready(c, o, do, arg)'
  BY <1>4, <1>5 DEF t
<1>7. Ready(c, op[c], First(todo[c]), Arg(c))'
  BY <1>4, <1>5, <1>6
<1>8. Aimed(c)'
  BY <1>2 DEF Aimed
<1> QED BY <1>2, <1>3, <1>7, <1>8 DEF OnCourse

\* The client goes on inside a step.
LEMMA GoCourse ==
  ASSUME NEW c \in Clients, UNCHANGED <<op, todo>>, Aimed(c)', Orderly(op[c], todo[c]),
         \A o, do, arg : o = op[c] /\ do = First(todo[c]) /\ arg = Arg(c) => Ready(c, o, do, arg)'
  PROVE  Orderly(op[c], todo'[c]) /\ OnCourse(c)'
<1>1. PICK o, do, arg : o = op[c] /\ do = First(todo[c]) /\ arg = Arg(c)
  OBVIOUS
<1>2. op'[c] = o /\ First(todo[c])' = do /\ Arg(c)' = arg
  BY <1>1 DEF First, Arg
<1>3. Ready(c, op[c], First(todo[c]), Arg(c))'
  BY <1>1, <1>2
<1> QED BY <1>3 DEF OnCourse

\* A client that neither fetches nor stores leaves what the others read alone.
LEMMA OwnPending ==
  ASSUME Shape, NEW c \in Clients, sw' = sw, at[c] # "store",
         NEW where, where # "store", Go(c, where) \/ at' = at
  PROVE  Pending' = Pending
<1>1. \A t \in Threads : at'[t] = "store" <=> at[t] = "store"
  BY DEF Shape, Go
<1> QED BY <1>1, PendingStays

\* At rest, every switch would be on course.
LEMMA RestReady ==
  ASSUME SameWords, NEW c, state_' = state_, Pending' = Pending,
         InSwitch(c)' => seen'[c] = state_ \/ (InSwitch(c) /\ seen'[c] = seen[c]),
         Still(c), NEW o, NEW do, NEW arg,
         do \in {"switch", "start", "set", "await", "home", "deselect", "none"},
         do \in {"none", "home"} \/ (do \in {"start", "deselect"} /\ o = "init") => Landed(o),
         do = "start" => o # "mode"
  PROVE  Ready(c, o, do, arg)'
<1>1. Still(c)'
  BY LookKeeps
<1>2. \A goal : Course(c, goal)'
  BY LookKeeps, StillCourse
<1>3. Landed(o) => Landed(o)'
  BY WordsStay DEF Landed, SameWords
<1> QED BY <1>1, <1>2, <1>3 DEF Ready

\* Client c, on course with an operation that promises a state.
Sails(c) ==
  /\ Shape /\ LocalTypes /\ DriveTypes
  /\ Orderly(op[c], todo[c]) /\ OnCourse(c) /\ Promises(op[c]) \in Powered

\* Reading the state first.
LEMMA ReadCourse ==
  ASSUME NEW c \in Clients, Sails(c), Reading(c)
  PROVE  Orderly(op[c], todo'[c]) /\ OnCourse(c)'
<1>1. /\ c # Timer /\ c \in Threads /\ SameWords /\ op' = op /\ seen' = seen /\ drive' = drive
  BY ClientsAssumption
     DEF Reading, Fetch, Store, ReadMode, SameWords, Threads, motorVars, clientVars
<1>2. /\ todo[c] # <<>> /\ First(todo[c]) = "read" /\ at[c] \in {"step", "store", "display"}
  BY <1>1 DEF Reading, Fetch, Store, ReadMode, MayFetch, Doing, Sails, Shape, PlaceFits, Inside,
              First
<1>3. Calm(c) /\ Ready(c, op[c], "read", Arg(c))
  BY <1>2 DEF Sails, OnCourse, Ready
<1>4. op[c] = "init" => drive.state # "Operation_Enable"
  BY <1>3 DEF Ready
<1>5. CASE Fetch(c) \/ Store(c)
  <2>1. todo' = todo /\ (Go(c, "store") \/ Go(c, "display"))
    BY <1>5 DEF Fetch, Store, clientVars
  <2>2. at'[c] \in {"store", "display"}
    BY <1>1, <2>1 DEF Go, Sails, Shape
  <2>3. state_' \in {state_} \cup Pending /\ Pending' \subseteq Pending \cup {drive.state}
    <3>1. CASE Fetch(c)
      BY <1>1, <3>1, FetchSees DEF Fetch, motorVars, Sails
    <3>2. CASE Store(c)
      BY <1>1, <3>2, StoreSees DEF Sails
    <3> QED BY <1>5, <3>1, <3>2
  <2>4. SeesDrive(c)
    BY <2>2, <2>3 DEF SeesDrive, Views, InSwitch
  <2>5. Calm(c)'
    BY <1>1, <1>3, <2>4, ReadingKeeps
  <2>6. \A o, do, arg : o = op[c] /\ do = First(todo[c]) /\ arg = Arg(c) => Ready(c, o, do, arg)'
    BY <1>1, <1>2, <1>4, <2>5 DEF Ready
  <2>7. Aimed(c)'
    BY <2>2 DEF Aimed
  <2> QED BY <1>1, <2>1, <2>6, <2>7, GoCourse DEF Sails
<1>6. CASE ReadMode(c)
  <2>1. Done(c) /\ sw' = sw /\ at[c] = "display" /\ state_' = state_
    BY <1>1, <1>6 DEF ReadMode
  <2>2. Continue(c, Tail(todo[c])) /\ Go(c, "step")
    BY <2>1 DEF Done, Continue
  <2>3. at'[c] = "step"
    BY <1>1, <2>2 DEF Go, Sails, Shape
  <2>4. Pending' = Pending
    BY <1>1, <2>1, <2>2, OwnPending DEF Sails
  <2>5. Calm(c)'
    BY <1>1, <1>3, <2>1, <2>3, <2>4, LookKeeps DEF InSwitch
  <2>6. OrderlyAt(op[c], todo[c], 1) /\ todo[c][1].do = "read"
    BY <1>2, HeadAt DEF Sails
  <2>7. /\ After(todo[c], 1) \in {"zero", "switch"}
        /\ After(todo[c], 1) = "zero" => drive'.state # "Operation_Enable" \/ op[c] # "init"
    BY <1>1, <1>4, <2>6 DEF OrderlyAt
  <2>8. ASSUME NEW o, NEW do, NEW arg, o = op[c], do = After(todo[c], 1)
        PROVE  Ready(c, o, do, arg)'
    <3>1. CASE do = "zero"
      BY <1>1, <2>5, <2>7, <2>8, <3>1 DEF Ready
    <3>2. CASE do = "switch"
      <4>1. ~InSwitch(c)'
        BY <2>3 DEF InSwitch
      <4> QED BY <1>1, <1>3, <2>1, <2>4, <2>8, <3>2, <4>1, CalmStill, RestReady
    <3> QED BY <2>7, <2>8, <3>1, <3>2
  <2> QED BY <1>1, <1>2, <2>2, <2>8, DoneCourse DEF Sails
<1> QED BY <1>5, <1>6 DEF Reading

\* The two operations that edit the control word before the first switch.
LEMMA EditCourse ==
  ASSUME NEW c \in Clients, Sails(c), ZeroControlWord(c) \/ ArmFaultReset(c) \/ RestartMode(c)
  PROVE  Orderly(op[c], todo'[c]) /\ OnCourse(c)'
<1>1. /\ c # Timer /\ c \in Threads /\ op' = op /\ drive' = drive /\ seen' = seen
      /\ at[c] = "step" /\ sw' = sw /\ state_' = state_ /\ todo[c] # <<>>
      /\ Continue(c, Tail(todo[c])) /\ Go(c, "step")
  BY ClientsAssumption
     DEF ZeroControlWord, ArmFaultReset, RestartMode, Doing, Done, Continue, Threads
<1>2. at'[c] = "step"
  BY <1>1 DEF Go, Sails, Shape
<1>3. SameViews(c)
  <2>1. Pending' = Pending
    BY <1>1, OwnPending DEF Sails
  <2>2. InSwitch(c)' = FALSE /\ InSwitch(c) = FALSE
    BY <1>1, <1>2 DEF InSwitch
  <2> QED BY <1>1, <2>1, <2>2 DEF SameViews, Views
<1>4. /\ OrderlyAt(op[c], todo[c], 1) /\ First(todo[c]) = todo[c][1].do
      /\ Ready(c, op[c], First(todo[c]), Arg(c))
  BY <1>1, HeadAt DEF Sails, OnCourse
<1>5. CASE RestartMode(c)
  <2>1. First(todo[c]) = "restart" /\ SameWords
    BY <1>1, <1>5 DEF RestartMode, Doing, First, SameWords
  <2>2. After(todo[c], 1) = "switch" /\ todo[c][2].arg = "Operation_Enable"
    BY <1>4, <2>1 DEF OrderlyAt
  <2>3. Course(c, "Operation_Enable")
    BY <1>4, <2>1 DEF Ready
  <2>4. Course(c, "Operation_Enable")'
    BY <1>3, <2>1, <2>3, LookKeeps DEF SameViews
  <2>5. \A o, do, arg : do = "switch" /\ arg = "Operation_Enable" => Ready(c, o, do, arg)'
    BY <2>4 DEF Ready
  <2> QED BY <1>1, <2>2, <2>5, DoneCourse DEF Sails
<1>6. CASE ZeroControlWord(c)
  <2>1. First(todo[c]) = "zero" /\ control_word_' = {} /\ start_fault_reset_' = TRUE
    BY <1>1, <1>6 DEF ZeroControlWord, Doing, First
  <2>2. After(todo[c], 1) = "switch" /\ todo[c][2].arg = "Operation_Enable" /\ op[c] = "init"
    BY <1>4, <2>1 DEF OrderlyAt
  <2>3. Calm(c) /\ drive.state # "Operation_Enable"
    BY <1>4, <2>1, <2>2 DEF Ready
  <2>4. Course(c, "Operation_Enable")'
    BY <1>1, <1>3, <2>1, <2>3, FirstEdit
  <2>5. \A o, do, arg : do = "switch" /\ arg = "Operation_Enable" => Ready(c, o, do, arg)'
    BY <2>4 DEF Ready
  <2> QED BY <1>1, <2>2, <2>5, DoneCourse DEF Sails
<1>7. CASE ArmFaultReset(c)
  <2>1. First(todo[c]) = "arm" /\ control_word_' = control_word_ /\ start_fault_reset_' = TRUE
    BY <1>1, <1>7 DEF ArmFaultReset, Doing, First
  <2>2. After(todo[c], 1) = "restart"
    BY <1>4, <2>1 DEF OrderlyAt
  <2>3. Calm(c) /\ ~Disables("recover")
    BY <1>4, <2>1 DEF Ready
  <2>4. Course(c, "Operation_Enable")'
    BY <1>1, <1>3, <2>1, <2>3, FirstEdit
  <2>5. \A o, do, arg : do = "restart" => Ready(c, o, do, arg)'
    BY <2>4 DEF Ready
  <2> QED BY <1>1, <2>2, <2>5, DoneCourse DEF Sails
<1> QED BY <1>5, <1>6, <1>7

\* Inside a switch.
LEMMA SwitchCourse ==
  ASSUME NEW c \in Clients, Sails(c), okay'[c], okay \in [Clients -> BOOLEAN],
         \/ SwitchBegin(c) \/ SwitchAim(c) \/ SwitchEnd(c) \/ SwitchTurn(c)
         \/ SwitchCommand(c) \/ SwitchWait(c)
  PROVE  Orderly(op[c], todo'[c]) /\ OnCourse(c)'
<1>1. /\ c # Timer /\ c \in Threads /\ op' = op /\ drive' = drive /\ sw' = sw /\ state_' = state_
      /\ start_fault_reset_' = start_fault_reset_ /\ selected_mode_' = selected_mode_
  BY ClientsAssumption DEF SwitchBegin, SwitchAim, SwitchEnd, SwitchTurn, SwitchCommand,
     SwitchWait, Threads, motorVars, clientVars
<1>2. /\ todo[c] # <<>> /\ Head(todo[c]).do = "switch"
      /\ at[c] \in {"step", "aim", "loop", "turn", "wait"}
  BY DEF SwitchBegin, SwitchAim, SwitchEnd, SwitchTurn, SwitchCommand, SwitchWait, Doing, Sails,
     Shape, PlaceFits, Inside
<1>3. PICK goal : goal = Arg(c)
  OBVIOUS
<1>4. /\ OrderlyAt(op[c], todo[c], 1) /\ First(todo[c]) = "switch" /\ todo[c][1].arg = goal
      /\ todo[c][1].do = "switch"
  BY <1>2, <1>3, HeadAt DEF Sails, First
<1>5. Course(c, goal) /\ Aimed(c)
  BY <1>3, <1>4 DEF Sails, OnCourse, Ready
<1>6. ASSUME todo' = todo, Course(c, goal)', Aimed(c)'
      PROVE  Orderly(op[c], todo'[c]) /\ OnCourse(c)'
  <2>1. \A o, do, arg : o = op[c] /\ do = First(todo[c]) /\ arg = Arg(c) => Ready(c, o, do, arg)'
    BY <1>3, <1>4, <1>6 DEF Ready
  <2> QED BY <1>1, <1>6, <2>1, GoCourse DEF Sails
<1>7. CASE SwitchBegin(c) \/ SwitchAim(c) \/ SwitchTurn(c) \/ SwitchWait(c)
  <2>1. /\ SameWords /\ todo' = todo
        /\ Go(c, "aim") \/ Go(c, "loop") \/ Go(c, "turn")
    BY <1>1, <1>7 DEF SwitchBegin, SwitchAim, SwitchTurn, SwitchWait, SameWords, motorVars,
                clientVars
  <2>2. at[c] # "store" /\ Pending' = Pending
    BY <1>1, <1>2, <2>1, OwnPending DEF Sails
  <2>3. seen'[c] = state_ \/ (InSwitch(c) /\ seen'[c] = seen[c])
    BY <1>7 DEF SwitchBegin, SwitchAim, SwitchTurn, SwitchWait, InSwitch, clientVars,
                Sails, LocalTypes
  <2>4. Course(c, goal)'
    BY <1>1, <1>5, <2>1, <2>2, <2>3, LookKeeps
  <2>5. Arg(c)' = Arg(c)
    BY <2>1 DEF Arg
  <2>6. Aimed(c)'
    <3>1. CASE SwitchBegin(c)
      <4>1. at'[c] = "aim"
        BY <1>1, <3>1 DEF SwitchBegin, Go, Sails, Shape
      <4> QED BY <4>1 DEF Aimed
    <3>2. CASE SwitchAim(c)
      <4>1. at'[c] = "loop" /\ target_state_' = Arg(c)
        BY <1>1, <3>2 DEF SwitchAim, Go, Sails, Shape
      <4> QED BY <2>5, <4>1 DEF Aimed
    <3>3. CASE SwitchTurn(c)
      <4>1. /\ at[c] = "loop" /\ at'[c] = "turn" /\ seen[c] # target_state_
            /\ UNCHANGED <<seen, target_state_>>
        BY <1>1, <3>3 DEF SwitchTurn, Go, Sails, Shape, motorVars, clientVars
      <4> QED BY <1>5, <2>5, <4>1 DEF Aimed
    <3>4. CASE SwitchWait(c)
      <4>1. at[c] = "wait" /\ at'[c] = "loop" /\ target_state_' = target_state_
        BY <1>1, <3>4 DEF SwitchWait, Go, Sails, Shape, motorVars
      <4> QED BY <1>5, <2>5, <4>1 DEF Aimed
    <3> QED BY <1>7, <3>1, <3>2, <3>3, <3>4
  <2> QED BY <1>6, <2>1, <2>4, <2>6
<1>8. CASE SwitchCommand(c)
  <2>1. /\ at[c] = "turn" /\ seen[c] # goal /\ target_state_ = goal /\ seen' = seen
        /\ target_state_' = target_state_ /\ InSwitch(c)
    BY <1>3, <1>5, <1>8 DEF SwitchCommand, Aimed, InSwitch
  <2>2. ~Fail(c)
    BY DEF Fail
  <2>3. /\ HasTransition(seen[c], Hop(seen[c], goal))
        /\ control_word_' = Apply(control_word_, seen[c], Hop(seen[c], goal))
        /\ Go(c, "wait") /\ UNCHANGED <<todo, okay>>
    BY <1>8, <2>1, <2>2 DEF SwitchCommand
  <2>4. at'[c] = "wait"
    BY <1>1, <2>3 DEF Go, Sails, Shape
  <2>5. Pending' = Pending
    BY <1>1, <1>2, <2>3, OwnPending DEF Sails
  <2>6. InSwitch(c)'
    BY <2>4 DEF InSwitch
  <2>7. SameViews(c)
    BY <1>1, <2>1, <2>5, <2>6 DEF SameViews, Views
  <2>8. Course(c, goal)'
    BY <1>1, <1>5, <2>1, <2>3, <2>7, CommandKeeps
  <2>9. Aimed(c)'
    BY <1>3, <2>1, <2>3, <2>4 DEF Aimed, Arg
  <2> QED BY <1>6, <2>3, <2>8, <2>9
<1>9. CASE SwitchEnd(c)
  <2>1. /\ at[c] = "loop" /\ seen[c] = target_state_ /\ InSwitch(c) /\ SameWords
        /\ target_state_ = goal
    BY <1>1, <1>3, <1>5, <1>9 DEF SwitchEnd, SameWords, Aimed, InSwitch, motorVars
  <2>2. ~Fail(c)
    BY DEF Fail
  <2>3. Continue(c, Tail(todo[c])) /\ Go(c, "step")
    BY <1>9, <2>2 DEF SwitchEnd, Done, Continue
  <2>4. at'[c] = "step"
    BY <1>1, <2>3 DEF Go, Sails, Shape
  <2>5. Still(c) /\ (goal \notin Faulty => drive.state = goal)
    BY <1>5, <2>1, CourseEnds
  <2>6. Pending' = Pending /\ ~InSwitch(c)'
    BY <1>1, <1>2, <2>3, <2>4, OwnPending DEF Sails, InSwitch
  <2>7. /\ After(todo[c], 1) \in {"none", "home", "start", "set"}
        /\ After(todo[c], 1) # "set" => goal = Promises(op[c])
        /\ After(todo[c], 1) = "start" => op[c] = "init"
    BY <1>4 DEF OrderlyAt
  <2>8. After(todo[c], 1) # "set" => Landed(op[c])
    BY <2>5, <2>7 DEF Landed, Still, Sails, Powered, Faulty
  <2>9. ASSUME NEW o, NEW do, NEW arg, o = op[c], do = After(todo[c], 1)
        PROVE  Ready(c, o, do, arg)'
    BY <1>1, <2>1, <2>5, <2>6, <2>7, <2>8, <2>9, RestReady
  <2> QED BY <1>1, <1>2, <2>3, <2>9, DoneCourse DEF Sails
<1> QED BY <1>7, <1>8, <1>9

\* The other steps of a mode switch, and homing.
LEMMA ModeCourse ==
  ASSUME NEW c \in Clients, Sails(c), okay'[c], okay \in [Clients -> BOOLEAN],
         \/ StartMode(c) \/ SetMode(c) \/ AwaitMode(c) \/ Deselect(c)
         \/ HomeBegin(c) \/ HomeEnd(c) \/ HomeNone(c)
  PROVE  Orderly(op[c], todo'[c]) /\ OnCourse(c)'
<1>1. /\ c # Timer /\ c \in Threads /\ op' = op /\ seen' = seen /\ sw' = sw /\ state_' = state_
      /\ SameWords
  BY ClientsAssumption DEF StartMode, SetMode, AwaitMode, Deselect, HomeBegin, HomeEnd, HomeNone,
     Threads, motorVars, clientVars, SameWords, Sails, DriveTypes
<1>2. /\ todo[c] # <<>> /\ at[c] \in {"step", "homing"}
      /\ Head(todo[c]).do \in {"start", "set", "await", "deselect", "home"}
  BY DEF StartMode, SetMode, AwaitMode, Deselect, HomeBegin, HomeEnd, HomeNone, Doing, Sails,
     Shape, PlaceFits, Inside
<1>3. PICK do : do = Head(todo[c]).do
  OBVIOUS
<1>4. /\ OrderlyAt(op[c], todo[c], 1) /\ First(todo[c]) = do /\ todo[c][1].do = do
      /\ Ready(c, op[c], do, Arg(c))
  BY <1>2, <1>3, HeadAt DEF Sails, First, OnCourse
<1>5. ~Fail(c)
  BY DEF Fail
<1>6. CASE Done(c)
  <2>1. Continue(c, Tail(todo[c])) /\ Go(c, "step")
    BY <1>6 DEF Done, Continue
  <2>2. at'[c] = "step"
    BY <1>1, <2>1 DEF Go, Sails, Shape
  <2>3. Pending' = Pending /\ ~InSwitch(c)'
    BY <1>1, <1>2, <2>1, <2>2, OwnPending DEF Sails, InSwitch
  <2>4. CASE do \in {"start", "set", "await"} \/ (do = "deselect" /\ op[c] = "shutdown")
    <3>1. Still(c)
      BY <1>4, <2>4 DEF Ready
    <3>2. After(todo[c], 1) \in {"switch", "await"}
      BY <1>4, <2>4 DEF OrderlyAt
    <3>3. ASSUME NEW o, NEW next, NEW arg, o = op[c], next = After(todo[c], 1)
          PROVE  Ready(c, o, next, arg)'
      BY <1>1, <2>3, <3>1, <3>2, <3>3, RestReady
    <3> QED BY <1>1, <1>2, <2>1, <3>3, DoneCourse DEF Sails
  <2>5. CASE do = "home" \/ (do = "deselect" /\ op[c] # "shutdown")
    <3>1. /\ op[c] = "init" /\ Landed(op[c])
          /\ After(todo[c], 1) \in {"none", "deselect"}
      BY <1>4, <2>5 DEF OrderlyAt, Ready
    <3>2. \A o : o = op[c] => Landed(o)'
      BY <1>1, <3>1, WordsStay DEF Landed, SameWords
    <3>3. ASSUME NEW o, NEW next, NEW arg, o = op[c], next = After(todo[c], 1)
          PROVE  Ready(c, o, next, arg)'
      BY <3>1, <3>2, <3>3 DEF Ready
    <3> QED BY <1>1, <1>2, <2>1, <3>3, DoneCourse DEF Sails
  <2> QED BY <1>2, <1>3, <2>4, <2>5
<1>7. CASE HomeBegin(c)
  <2>1. do = "home" /\ Go(c, "homing") /\ todo' = todo
    BY <1>3, <1>7 DEF HomeBegin, Doing, clientVars
  <2>2. Landed(op[c])
    BY <1>4, <2>1 DEF Ready
  <2>3. \A o : o = op[c] => Landed(o)'
    BY <1>1, <2>2, WordsStay DEF Landed, SameWords
  <2>4. at'[c] = "homing"
    BY <1>1, <2>1 DEF Go, Sails, Shape
  <2>5. Aimed(c)'
    BY <2>4 DEF Aimed
  <2>6. \A o, next, arg : o = op[c] /\ next = First(todo[c]) /\ arg = Arg(c) =>
          Ready(c, o, next, arg)'
    BY <1>4, <2>1, <2>3 DEF Ready
  <2> QED BY <1>1, <2>1, <2>5, <2>6, GoCourse DEF Sails
<1>8. CASE StartMode(c) /\ ~Done(c)
  <2> DEFINE t == todo[c]
             rest == SubSeq(t, Len(SwitchMode(Arg(c))) + 1, Len(t))
  <2>1. /\ do = "start" /\ selected_mode_ = Arg(c) /\ Continue(c, rest) /\ op[c] # "none"
    BY <1>3, <1>8 DEF StartMode, Doing
  <2>2. op[c] # "mode" /\ op[c] = "init" /\ t[6].do = "home" /\ Landed(op[c])
    BY <1>4, <2>1 DEF Ready, OrderlyAt
  <2>3. /\ rest \in Seq(Steps) /\ Rest(t, rest) /\ Len(t) >= 5 /\ Len(rest) = Len(t) - 5
        /\ \A k \in 1 .. Len(rest) : rest[k] = t[k + 5]
    BY <1>2, <1>3, <2>1, SkipFits DEF Sails
  <2>4. t \in Seq(Steps) /\ Orderly(op[c], t) /\ 1 + 5 <= Len(t)
    BY <1>4, <2>1, <2>2 DEF Sails, Shape, OrderlyAt
  <2>5. todo'[c] = rest /\ at'[c] = "step"
    BY <1>1, <2>1 DEF Continue, Go, Sails, Shape
  <2> HIDE DEF t, rest
  <2>6. Orderly(op[c], rest)
    BY <2>3, <2>4, OrderlyRest
  <2>7. First(rest) = "home"
    <3>1. Len(rest) \in Nat \ {0}
      <4>1. Len(t) \in Nat /\ Len(rest) \in Nat
        BY <2>3, <2>4
      <4> QED BY <2>3, <2>4, <4>1
    <3>3. rest # <<>> /\ Head(rest) = rest[1]
      <4>1. rest \in Seq(Steps)
        BY <2>3
      <4> QED BY <3>1, <4>1
    <3>2. 1 \in 1 .. Len(rest) /\ 1 + 5 = 6
      BY <3>1
    <3> QED BY <2>2, <2>3, <3>2, <3>3 DEF First
  <2>8. \A o : o = op[c] => Landed(o)'
    BY <1>1, <2>2, WordsStay DEF Landed, SameWords
  <2>9. PICK o, arg : o = op[c] /\ arg = Arg(c)'
    OBVIOUS
  <2>10. Ready(c, o, "home", arg)'
    BY <2>2, <2>8, <2>9 DEF Ready
  <2>11. op'[c] = o /\ First(todo[c])' = "home" /\ Arg(c)' = arg
    BY <1>1, <2>5, <2>7, <2>9 DEF First
  <2>12. Ready(c, op[c], First(todo[c]), Arg(c))'
    BY <2>10, <2>11
  <2>13. Aimed(c)'
    BY <2>5 DEF Aimed
  <2> QED BY <2>5, <2>6, <2>12, <2>13 DEF OnCourse
<1> QED BY <1>5, <1>6, <1>7, <1>8 DEF SetMode, AwaitMode, Deselect, HomeEnd, HomeNone

-----------------------------------------------------------------------------
(***************************************************************************)
(* PromiseHolds.  Its inductive invariant: while an operation is watched   *)
(* it is the only one and on course, until it fails; once it has returned  *)
(* true the drive is at rest in the state it promised.                     *)
(***************************************************************************)
\* Client c makes an operation that may promise something.
Engaged(c) == op[c] \notin {"none", "target"}

\* A client that sets a target does nothing else.
TargetOnly(c) ==
  op[c] = "target" =>
    at[c] = "step" /\ \A k \in 1 .. Len(todo[c]) : todo[c][k].do \in {"ask", "target"}

\* A promise was made by the last operation, and nothing is underway.
Promised ==
  history.promise.state # "Unknown" =>
    /\ history.promise.watched
    /\ \A c \in Clients : ~Engaged(c)
    /\ drive.state = history.promise.state /\ drive.state \in Powered /\ AtRest

\* A watched operation is the only one, and on course until it fails.
Underway(c) ==
  history.promise.watched /\ Engaged(c) =>
    /\ \A d \in Clients : Engaged(d) => d = c
    /\ Promises(op[c]) \in Powered
    /\ okay[c] => Orderly(op[c], todo[c]) /\ OnCourse(c)

PromiseInv == Promised /\ \A c \in Clients : TargetOnly(c) /\ Underway(c)

\* The steps of an operation on course keep it on course.
LEMMA OwnCourse ==
  ASSUME NEW c \in Clients, Sails(c), Rests, ClientStep(c), ~Return(c), okay'[c]
  PROVE  Orderly(op[c], todo'[c]) /\ OnCourse(c)'
<1>1. okay \in [Clients -> BOOLEAN]
  BY DEF Rests
<1>2. CASE HaltLook(c) \/ HaltAct(c) \/ TargetAsk(c) \/ TargetSet(c)
  <2>1. todo[c] # <<>> /\ Head(todo[c]).do \in {"look", "halt", "ask", "target"}
    BY <1>2 DEF HaltLook, HaltAct, TargetAsk, TargetSet, Doing
  <2>2. OrderlyAt(op[c], todo[c], 1) /\ First(todo[c]) = todo[c][1].do
    BY <2>1, HeadAt DEF Sails
  <2> QED BY <2>1, <2>2 DEF OrderlyAt, First
<1> QED BY <1>1, <1>2, ReadCourse, EditCourse, SwitchCourse, ModeCourse DEF ClientStep

\* The step of a client leaves the places and the steps of the others alone.
LEMMA LeavesOthers ==
  ASSUME Shape, Rests, LocalTypes, NEW d \in Clients, ClientStep(d) \/ Timeout(d)
  PROVE  /\ \A c \in Clients \ {d} : /\ op'[c] = op[c] /\ todo'[c] = todo[c]
                                     /\ at'[c] = at[c] /\ okay'[c] = okay[c]
         /\ ~Idle(d)
<1>0. d \in Threads /\ Clients \subseteq Threads
  BY DEF Threads
<1>1. ASSUME op' = op, Moves(d), okay' \in {okay, [okay EXCEPT ![d] = FALSE]}
      PROVE  \A c \in Clients \ {d} : /\ op'[c] = op[c] /\ todo'[c] = todo[c]
                                      /\ at'[c] = at[c] /\ okay'[c] = okay[c]
  BY <1>0, <1>1 DEF Moves, Continue, Go, Shape, Rests
<1>2. CASE StartMode(d)
  <2>1. /\ op' = op /\ ~Idle(d) /\ okay' = okay /\ \E rest : Continue(d, rest)
    BY <1>2 DEF StartMode, Doing, Done, Idle
  <2> QED BY <1>1, <2>1 DEF Moves
<1>3. CASE Return(d)
  BY <1>3 DEF Return, LocalTypes, Rests
<1>4. CASE ClientStep(d) /\ ~StartMode(d) /\ ~Return(d)
  <2>1. Goes(d) /\ op' = op /\ ~Idle(d)
    BY <1>4, StepGoes
  <2>2. Moves(d) /\ okay' \in {okay, [okay EXCEPT ![d] = FALSE]}
    BY <2>1 DEF Goes, Done, Fail, Moves
  <2> QED BY <1>1, <2>1, <2>2
<1>5. CASE SwitchTimeout(d)
  <2>1. op' = op /\ at[d] # "step" /\ Fail(d)
    BY <1>5 DEF SwitchTimeout
  <2> QED BY <1>1, <2>1, Busy DEF Fail, Moves
<1>6. CASE AwaitTimeout(d)
  <2>1. /\ op' = op /\ ~Idle(d) /\ okay' = [okay EXCEPT ![d] = FALSE]
        /\ \E rest : Continue(d, rest)
    BY <1>6 DEF AwaitTimeout, Doing, Idle
  <2> QED BY <1>1, <2>1 DEF Moves
<1> QED BY <1>2, <1>3, <1>4, <1>5, <1>6 DEF Timeout

\* Nor, until it returns, does it make a promise or take one back.
LEMMA PromiseStays ==
  ASSUME HistoryTypes, Rests, NEW d \in Clients, (ClientStep(d) /\ ~Return(d)) \/ Timeout(d)
  PROVE  /\ op' = op /\ history'.promise = history.promise
         /\ okay'[d] => okay[d] /\ ClientStep(d)
<1>1. op' = op
  BY DEF ClientStep, Timeout, Reading, Fetch, Store, ReadMode, SwitchBegin, SwitchAim, SwitchEnd,
         SwitchTurn, SwitchCommand, SwitchWait, SwitchTimeout, StartMode, SetMode, AwaitMode,
         AwaitTimeout, Deselect, ZeroControlWord, ArmFaultReset, RestartMode, HaltLook, HaltAct,
         TargetAsk, TargetSet, HomeBegin, HomeEnd, HomeNone, clientVars
<1>2. \/ history' = history
      \/ \E b \in BOOLEAN : history' = [history EXCEPT !.quickstop = b]
  BY DEF ClientStep, Timeout, Reading, Fetch, Store, ReadMode, SwitchBegin, SwitchAim, SwitchEnd,
         SwitchTurn, SwitchCommand, SwitchWait, SwitchTimeout, StartMode, SetMode, AwaitMode,
         AwaitTimeout, Deselect, ZeroControlWord, ArmFaultReset, RestartMode, HaltLook, HaltAct,
         TargetAsk, TargetSet, HomeBegin, HomeEnd, HomeNone
<1>3. CASE Timeout(d)
  <2>1. okay' = [okay EXCEPT ![d] = FALSE]
    BY <1>3 DEF Timeout, SwitchTimeout, AwaitTimeout, Fail
  <2> QED BY <1>1, <1>2, <2>1 DEF HistoryTypes, Rests
<1>4. CASE ClientStep(d) /\ ~Return(d)
  <2>1. okay' = okay \/ okay' = [okay EXCEPT ![d] = FALSE]
    BY <1>4 DEF ClientStep, Reading, Fetch, Store, ReadMode, SwitchBegin, SwitchAim, SwitchEnd,
         SwitchTurn, SwitchCommand, SwitchWait, StartMode, SetMode, AwaitMode,
         Deselect, ZeroControlWord, ArmFaultReset, RestartMode, HaltLook, HaltAct,
         TargetAsk, TargetSet, HomeBegin, HomeEnd, HomeNone, Done, Fail, clientVars
  <2> QED BY <1>1, <1>2, <1>4, <2>1 DEF HistoryTypes, Rests
<1> QED BY <1>3, <1>4

\* What a client that sets a target can do.
LEMMA TargetSteps ==
  ASSUME Shape, LocalTypes, NEW d \in Clients, op[d] = "target", TargetOnly(d),
         ClientStep(d) \/ Timeout(d)
  PROVE  /\ TargetAsk(d) \/ TargetSet(d) \/ Return(d)
         /\ TargetOnly(d)' /\ ~Engaged(d)' /\ at' = at
         /\ UNCHANGED <<control_word_, start_fault_reset_, target_state_, state_,
                        selected_mode_, sw, drive, history>>
         /\ \A c \in Clients \ {d} : seen'[c] = seen[c]
<1> DEFINE t == todo[d]
<1>1. /\ at[d] = "step" /\ t \in Seq(Steps) /\ \A k \in 1 .. Len(t) : t[k].do \in {"ask", "target"}
      /\ d # Timer /\ d \in Threads
  BY ClientsAssumption DEF TargetOnly, Shape, Threads
<1>2. t # <<>> => /\ Head(t).do \in {"ask", "target"} /\ Tail(t) \in Seq(Steps)
                  /\ \A k \in 1 .. Len(Tail(t)) : Tail(t)[k].do \in {"ask", "target"}
  <2> SUFFICES ASSUME t # <<>>
               PROVE  /\ Head(t).do \in {"ask", "target"} /\ Tail(t) \in Seq(Steps)
                      /\ \A k \in 1 .. Len(Tail(t)) : Tail(t)[k].do \in {"ask", "target"}
    OBVIOUS
  <2> HIDE DEF t
  <2>1. /\ Len(t) \in Nat \ {0} /\ t[1] = Head(t) /\ Tail(t) \in Seq(Steps)
        /\ Len(Tail(t)) = Len(t) - 1 /\ \A k \in 1 .. Len(t) - 1 : Tail(t)[k] = t[k + 1]
    <3>1. t \in Seq(Steps) /\ t # <<>>
      BY <1>1
    <3> QED BY <3>1, TailRest
  <2>2. 1 \in 1 .. Len(t) /\ \A k \in 1 .. Len(t) - 1 : k + 1 \in 1 .. Len(t)
    BY <2>1
  <2> QED BY <1>1, <2>1, <2>2
<1>3. TargetAsk(d) \/ TargetSet(d) \/ Return(d)
  BY <1>1, <1>2 DEF ClientStep, Timeout, Reading, Fetch, Store, ReadMode, MayFetch, SwitchBegin,
     SwitchAim, SwitchEnd, SwitchTurn, SwitchCommand, SwitchWait, SwitchTimeout, StartMode,
     SetMode, AwaitMode, AwaitTimeout, Deselect, ZeroControlWord, ArmFaultReset, RestartMode,
     HaltLook, HaltAct, HomeBegin, HomeEnd, HomeNone, Doing
<1>4. /\ UNCHANGED <<control_word_, start_fault_reset_, target_state_, state_, selected_mode_, sw,
                     drive, history>>
      /\ \A c \in Clients \ {d} : seen'[c] = seen[c]
  <2>1. CASE TargetAsk(d) \/ TargetSet(d)
    BY <2>1 DEF TargetAsk, TargetSet, motorVars
  <2>2. CASE Return(d)
    BY <2>2 DEF Return, Forget, motorVars, LocalTypes
  <2> QED BY <1>3, <2>1, <2>2
<1>5. CASE Return(d)
  BY <1>1, <1>3, <1>4, <1>5 DEF Return, TargetOnly, Engaged, LocalTypes
<1>6. CASE TargetAsk(d) \/ TargetSet(d)
  <2>1. /\ op' = op /\ t # <<>> /\ Go(d, "step")
        /\ todo' = [todo EXCEPT ![d] = Tail(t)] \/ todo' = [todo EXCEPT ![d] = <<>>]
    BY <1>6 DEF TargetAsk, TargetSet, Doing, Done, Fail, Continue
  <2>2. at' = at
    BY <1>1, <2>1 DEF Go, Shape
  <2>3. todo'[d] \in {Tail(t), <<>>}
    BY <2>1 DEF Shape
  <2>4. \A k \in 1 .. Len(todo'[d]) : todo'[d][k].do \in {"ask", "target"}
    <3>1. CASE todo'[d] = Tail(t)
      BY <1>2, <2>1, <3>1
    <3>2. CASE todo'[d] = <<>>
      BY <3>2
    <3> QED BY <2>3, <3>1, <3>2
  <2> QED BY <1>1, <1>3, <1>4, <2>1, <2>2, <2>4 DEF TargetOnly, Engaged
<1> QED BY <1>3, <1>4, <1>5, <1>6

\* A step that touches nothing an operation of c is about keeps it on course.
LEMMA QuietCourse ==
  ASSUME Shape, NEW c \in Clients, OnCourse(c), at' = at,
         UNCHANGED <<control_word_, start_fault_reset_, target_state_, state_,
                     selected_mode_, sw, drive>>,
         op'[c] = op[c], todo'[c] = todo[c], seen'[c] = seen[c]
  PROVE  OnCourse(c)'
<1>1. SameWords /\ Pending' = Pending
  BY PendingStays DEF SameWords
<1>2. InSwitch(c)' => InSwitch(c) /\ seen'[c] = seen[c]
  BY DEF InSwitch
<1>3. /\ Calm(c) => Calm(c)'
      /\ Still(c) => Still(c)'
      /\ \A goal : Course(c, goal) => Course(c, goal)'
  BY <1>1, <1>2, LookKeeps
<1>4. \A o : Landed(o) => Landed(o)'
  BY <1>1, WordsStay DEF Landed
<1>5. \A o, do, arg : o = op[c] /\ do = First(todo[c]) /\ arg = Arg(c) => Ready(c, o, do, arg)'
  BY <1>3, <1>4, ReadyStays DEF OnCourse
<1> QED BY <1>5, CourseStays

\* While an operation is watched the others are not inside a step.
LEMMA UnderwayAlone ==
  ASSUME Rests, PromiseInv, NEW c \in Clients, history.promise.watched, Engaged(c)
  PROVE  Alone(c)
  BY DEF PromiseInv, Underway, TargetOnly, Engaged, Rests, Idle, Alone

\* The bus.
LEMMA BusPromise ==
  ASSUME Shape, Rests, LocalTypes, DriveTypes, PromiseInv, Poll \/ DriveAnswers \/ DriveQuickStops
  PROVE  PromiseInv'
<1>1. /\ Timer \notin Clients /\ Timer \in Threads /\ Clients \subseteq Threads
      /\ UNCHANGED <<op, todo, okay, history>>
  BY ClientsAssumption DEF Threads, Poll, Reading, Fetch, Store, ReadMode, HandleWrite,
     DriveAnswers, DriveReact, DriveSwitchesMode, DriveFaultHandled, DriveResetsFault,
     DriveQuickStops, motorVars, clientVars
<1>2. \A c \in Clients : at'[c] = at[c]
  BY <1>1 DEF Poll, Reading, Fetch, Store, ReadMode, HandleWrite, DriveAnswers, DriveReact,
     DriveSwitchesMode, DriveFaultHandled, DriveResetsFault, DriveQuickStops, Go, Shape
<1>3. Promised'
  <2> SUFFICES ASSUME history.promise.state # "Unknown" PROVE Promised'
    BY <1>1 DEF Promised
  <2>1. /\ history.promise.watched
        /\ \A c \in Clients : ~Engaged(c)
        /\ drive.state = history.promise.state /\ drive.state \in Powered /\ AtRest
    BY DEF PromiseInv, Promised
  <2>2. drive'.state = drive.state /\ AtRest'
    <3>1. CASE Reading(Timer)
      <4>1. SameWords
        BY <3>1 DEF Reading, Fetch, Store, ReadMode, SameWords, motorVars
      <4> QED BY <2>1, <4>1, WordsStay DEF SameWords
    <3>2. CASE HandleWrite \/ DriveAnswers \/ DriveQuickStops
      BY <2>1, <3>2, LandedStays
    <3> QED BY <3>1, <3>2 DEF Poll
  <2> QED BY <1>1, <2>1, <2>2 DEF Promised, Engaged
<1>4. ASSUME NEW c \in Clients PROVE TargetOnly(c)' /\ Underway(c)'
  <2>1. TargetOnly(c)'
    BY <1>1, <1>2 DEF PromiseInv, TargetOnly
  <2>2. ASSUME history.promise.watched, Engaged(c), okay[c], OnCourse(c),
               Promises(op[c]) \in Powered
        PROVE  OnCourse(c)'
    BY <2>2, UnderwayAlone, BusCourse
  <2>3. Underway(c)'
    BY <1>1, <2>2 DEF PromiseInv, Underway, Engaged
  <2> QED BY <2>1, <2>3
<1> QED BY <1>3, <1>4 DEF PromiseInv

\* A client that sets a target disturbs no promise and no operation.
LEMMA QuietPromise ==
  ASSUME Shape, Rests, LocalTypes, PromiseInv, NEW d \in Clients, ~Engaged(d), ~Engaged(d)',
         TargetOnly(d)', at' = at,
         UNCHANGED <<control_word_, start_fault_reset_, target_state_, state_,
                     selected_mode_, sw, drive, history>>,
         \A c \in Clients \ {d} : /\ op'[c] = op[c] /\ todo'[c] = todo[c] /\ okay'[c] = okay[c]
                                  /\ seen'[c] = seen[c]
  PROVE  PromiseInv'
<1>1. \A c \in Clients : Engaged(c)' <=> Engaged(c)
  BY DEF Engaged
<1>2. SameWords
  BY DEF SameWords
<1>3. Promised'
  BY <1>1, <1>2, WordsStay DEF PromiseInv, Promised
<1>4. ASSUME NEW c \in Clients \ {d} PROVE TargetOnly(c)' /\ Underway(c)'
  <2>1. OnCourse(c) => OnCourse(c)'
    BY QuietCourse
  <2> QED BY <1>1, <2>1 DEF PromiseInv, TargetOnly, Underway
<1>5. Underway(d)'
  BY DEF Underway
<1> QED BY <1>3, <1>4, <1>5 DEF PromiseInv

\* An operation begins: if it is watched, it is on course.
LEMMA BeginPromise ==
  ASSUME Shape, Rests, Types, PromiseInv, NEW d \in Clients, NEW o \in Operations,
         NEW m \in IF o = "mode" THEN Modes ELSE {No_Mode}, Begin(d, o, m)
  PROVE  PromiseInv'
<1> DEFINE p == Program(o, m)
<1>1. /\ Idle(d) /\ op'[d] = o /\ todo'[d] = p /\ at[d] = "step"
      /\ \A c \in Clients \ {d} : op'[c] = op[c] /\ todo'[c] = todo[c]
      /\ UNCHANGED <<motorVars, at, sw, seen, okay, drive>>
  BY DEF Begin, Types, LocalTypes, Shape, Rests
<1>2. UNCHANGED <<control_word_, start_fault_reset_, target_state_, state_, selected_mode_>>
  BY <1>1 DEF motorVars
<1>3. CASE o = "target"
  <2>1. p = <<Step("ask", No_Mode), Step("target", No_Mode)>> /\ history' = history
    BY <1>3 DEF Program, Begin
  <2>2. TargetOnly(d)'
    BY <1>1, <2>1 DEF TargetOnly, Step
  <2>3. ~Engaged(d) /\ ~Engaged(d)'
    BY <1>1, <1>3 DEF Engaged, Idle
  <2> QED BY <1>1, <1>2, <2>1, <2>2, <2>3, QuietPromise DEF Types
<1>4. CASE o # "target"
  <2>1. /\ history'.promise.state = "Unknown"
        /\ history'.promise.watched = (/\ Promises(o) # "Unknown" /\ \A c \in Clients : Idle(c)
                                       /\ Settled /\ ~Disables(o))
    BY <1>4 DEF Begin, Types, HistoryTypes
  <2>2. \A c \in Clients : TargetOnly(c)'
    BY <1>1, <1>4 DEF PromiseInv, TargetOnly
  <2>3. ASSUME history'.promise.watched, NEW c \in Clients, Engaged(c)'
        PROVE  /\ \A e \in Clients : Engaged(e)' => e = c
               /\ c = d
    BY <1>1, <2>1, <2>3 DEF Engaged, Idle
  <2>4. ASSUME history'.promise.watched
        PROVE  Promises(o) \in Powered /\ Orderly(o, p) /\ OnCourse(d)'
    <3>1. Promises(o) # "Unknown" /\ Settled /\ ~Disables(o)
      BY <2>1, <2>4
    <3>2. /\ Orderly(o, p) /\ Promises(o) \in Powered
          /\ First(p) \in {"read", "arm", "deselect", "start"}
          /\ First(p) = "start" => o = "mode" /\ Head(p).arg = m
          /\ First(p) = "arm" => o = "recover"
          /\ First(p) = "deselect" => o = "shutdown"
      BY <3>1, ProgramOrderly
    <3>3. Calm(d)
      BY <1>1, <3>1, SettledCalm DEF Types, InSwitch
    <3>4. SameWords /\ Pending' = Pending /\ ~InSwitch(d)'
      BY <1>1, <1>2, PendingStays DEF SameWords, InSwitch
    <3>5. Calm(d)' /\ Still(d)'
      BY <1>2, <3>3, <3>4, CalmStill, LookKeeps
    <3>6. PICK do, arg : do = First(p) /\ arg = Head(p).arg
      OBVIOUS
    <3>7. o = "mode" => selected_mode_ # m
      BY DEF Begin
    <3>8. (drive'.state = drive.state) /\ (Disables("recover")' <=> Disables("recover"))
      BY <1>1, <1>2 DEF Disables
    <3>9. o = "init" => drive.state # "Operation_Enable"
      BY <3>1 DEF Disables
    <3> HIDE DEF p
    <3>10. Ready(d, o, do, arg)'
      BY <1>2, <3>1, <3>2, <3>5, <3>6, <3>7, <3>8, <3>9 DEF Ready
    <3>11. op'[d] = o /\ First(todo[d])' = do /\ Arg(d)' = arg
      BY <1>1, <3>6 DEF First, Arg
    <3>12. Ready(d, op[d], First(todo[d]), Arg(d))'
      BY <3>10, <3>11
    <3>13. Aimed(d)'
      BY <1>1 DEF Aimed
    <3> QED BY <3>2, <3>12, <3>13 DEF OnCourse
  <2> HIDE DEF p
  <2>5. ASSUME NEW c \in Clients PROVE Underway(c)'
    BY <1>1, <2>3, <2>4 DEF Underway
  <2> QED BY <2>1, <2>2, <2>5 DEF PromiseInv, Promised
<1> QED BY <1>3, <1>4

\* An operation returns, and promises what it has reached.
LEMMA ReturnPromise ==
  ASSUME Shape, Rests, Types, PromiseInv, NEW d \in Clients, Return(d), op[d] # "target"
  PROVE  PromiseInv'
<1>1. /\ op[d] # "none" /\ todo[d] = <<>> /\ op'[d] = "none" /\ Engaged(d)
      /\ \A c \in Clients \ {d} : op'[c] = op[c]
      /\ UNCHANGED <<motorVars, at, todo, drive>>
  BY DEF Return, Idle, Engaged, Types, LocalTypes
<1>2. history.promise.state = "Unknown"
  BY <1>1 DEF PromiseInv, Promised
<1>3. \A c \in Clients : TargetOnly(c)'
  BY <1>1 DEF PromiseInv, TargetOnly
<1>4. /\ history'.promise.watched = history.promise.watched
      /\ \/ history'.promise.state = "Unknown"
         \/ /\ history'.promise.state = Promises(op[d])
            /\ history.promise.watched /\ okay[d]
  BY <1>2 DEF Return, Types, HistoryTypes
<1>5. history.promise.watched => \A c \in Clients : ~Engaged(c)'
  BY <1>1 DEF PromiseInv, Underway, Engaged
<1>6. \A c \in Clients : Underway(c)'
  BY <1>4, <1>5 DEF Underway
<1>7. Promised'
  <2> SUFFICES ASSUME history'.promise.state # "Unknown" PROVE Promised'
    BY DEF Promised
  <2>1. /\ history'.promise.state = Promises(op[d]) /\ history'.promise.watched
        /\ Promises(op[d]) \in Powered /\ OnCourse(d)
    BY <1>1, <1>4 DEF PromiseInv, Underway
  <2>2. Landed(op[d])
    BY <1>1, <2>1 DEF OnCourse, Ready, First
  <2>3. SameWords
    BY <1>1 DEF SameWords, motorVars
  <2>4. drive'.state = Promises(op[d]) /\ AtRest'
    BY <2>2, <2>3, WordsStay DEF Landed, SameWords
  <2> QED BY <1>4, <1>5, <2>1, <2>4 DEF Promised
<1> QED BY <1>3, <1>6, <1>7 DEF PromiseInv

\* A client goes on, or a wait of it times out.
LEMMA StepPromise ==
  ASSUME Shape, Rests, Types, PromiseInv, NEW d \in Clients, ClientStep(d) \/ Timeout(d)
  PROVE  PromiseInv'
<1>1. /\ \A c \in Clients \ {d} : /\ op'[c] = op[c] /\ todo'[c] = todo[c]
                                  /\ at'[c] = at[c] /\ okay'[c] = okay[c]
      /\ ~Idle(d)
  BY LeavesOthers DEF Types
<1>2. CASE op[d] = "target"
  <2>1. /\ TargetOnly(d)' /\ ~Engaged(d)' /\ at' = at
        /\ UNCHANGED <<control_word_, start_fault_reset_, target_state_, state_,
                       selected_mode_, sw, drive, history>>
        /\ \A c \in Clients \ {d} : seen'[c] = seen[c]
    BY <1>2, TargetSteps DEF PromiseInv, Types
  <2>2. ~Engaged(d)
    BY <1>2 DEF Engaged
  <2> QED BY <1>1, <2>1, <2>2, QuietPromise DEF Types
<1>3. CASE op[d] # "target" /\ Return(d)
  BY <1>3, ReturnPromise
<1>4. CASE op[d] # "target" /\ ~Return(d)
  <2>1. /\ op' = op /\ history'.promise = history.promise /\ Engaged(d)
        /\ okay'[d] => okay[d] /\ ClientStep(d)
    BY <1>1, <1>4, PromiseStays DEF Types, Engaged, Idle
  <2>2. history.promise.state = "Unknown"
    BY <2>1 DEF PromiseInv, Promised
  <2>3. Promised'
    BY <2>1, <2>2 DEF Promised
  <2>4. \A c \in Clients : TargetOnly(c)'
    BY <1>1, <1>4, <2>1 DEF PromiseInv, TargetOnly
  <2>5. ASSUME history.promise.watched, okay'[d]
        PROVE  Orderly(op[d], todo'[d]) /\ OnCourse(d)'
    <3>1. Sails(d)
      BY <2>1, <2>5 DEF PromiseInv, Underway, Sails, Types
    <3> QED BY <1>4, <2>1, <2>5, <3>1, OwnCourse
  <2>6. ASSUME NEW c \in Clients PROVE Underway(c)'
    BY <2>1, <2>5 DEF PromiseInv, Underway, Engaged
  <2> QED BY <2>3, <2>4, <2>6 DEF PromiseInv
<1> QED BY <1>2, <1>3, <1>4

\* Where the drive is promised to be it is: an operation that was begun alone
\* and settled, and returned true, has brought the drive to the state it is for,
\* and the drive stays there until it faults or another operation is begun; for
\* any number of clients, any modes, any number of faults and timeouts.
THEOREM OperationsKeepPromises == Spec => []PromiseHolds
<1> DEFINE I == Shape /\ Rests /\ Types /\ PromiseInv
<1>1. Init => I
  <2> SUFFICES ASSUME Init PROVE PromiseInv
    BY TypeInit
  <2>1. /\ history.promise = NoPromise /\ \A c \in Clients : op[c] = "none"
    BY DEF Init
  <2> QED BY <2>1 DEF PromiseInv, Promised, TargetOnly, Underway, Engaged, NoPromise
<1>2. I /\ [Next]_vars => I'
  <2> SUFFICES ASSUME Shape, Rests, Types, PromiseInv, [Next]_vars PROVE PromiseInv'
    BY TypeStep
  <2>1. ASSUME NEW d \in Clients, NEW o \in Operations,
               NEW m \in IF o = "mode" THEN Modes ELSE {No_Mode}, Begin(d, o, m)
        PROVE  PromiseInv'
    BY <2>1, BeginPromise, Zenon
  <2>2. ASSUME NEW d \in Clients, ClientStep(d) \/ Timeout(d)
        PROVE  PromiseInv'
    BY <2>2, StepPromise
  <2>3. CASE Poll \/ DriveAnswers \/ DriveQuickStops
    BY <2>3, BusPromise DEF Types
  <2>4. CASE DriveFaults
    <3>1. history'.promise = NoPromise /\ UNCHANGED <<op, todo, at>>
      BY <2>4 DEF DriveFaults, Types, HistoryTypes, clientVars
    <3> QED BY <3>1 DEF PromiseInv, Promised, TargetOnly, Underway, NoPromise
  <2>5. CASE UNCHANGED vars
    <3>1. UNCHANGED <<control_word_, start_fault_reset_, target_state_, state_, selected_mode_,
                      sw, drive, history, at, op, todo, okay, seen>>
      BY <2>5 DEF vars, motorVars, clientVars
    <3>2. SameWords
      BY <3>1 DEF SameWords
    <3>3. Promised'
      BY <3>1, <3>2, WordsStay DEF PromiseInv, Promised, Engaged
    <3>4. ASSUME NEW c \in Clients PROVE TargetOnly(c)' /\ Underway(c)'
      <4>1. OnCourse(c) => OnCourse(c)'
        BY <3>1, QuietCourse
      <4> QED BY <3>1, <4>1 DEF PromiseInv, TargetOnly, Underway, Engaged
    <3> QED BY <3>3, <3>4 DEF PromiseInv
  <2> QED BY <2>1, <2>2, <2>3, <2>4, <2>5 DEF Next
<1>3. I => PromiseHolds
  BY DEF PromiseInv, Promised, PromiseHolds
<1> QED BY <1>1, <1>2, <1>3, PTL DEF Spec
=============================================================================
