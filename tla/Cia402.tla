------------------------------- MODULE Cia402 -------------------------------
(***************************************************************************)
(* The state machine of CiA 402 as the two ends of the bus see it: the     *)
(* status word the master decodes (State402::read), the control word it    *)
(* composes from a table of transitions (Command402), and the reaction of  *)
(* a drive to a control word (CIA402MockSlave).  A word is the set of its  *)
(* bits that are set, each bit named as in the code.                       *)
(***************************************************************************)
EXTENDS FiniteSets

(***************************************************************************)
(* State402::InternalState.  The code gives Start and Unknown one value.   *)
(***************************************************************************)
States == {"Unknown", "Not_Ready_To_Switch_On", "Switch_On_Disabled",
           "Ready_To_Switch_On", "Switched_On", "Operation_Enable",
           "Quick_Stop_Active", "Fault_Reaction_Active", "Fault"}

DriveStates == States \ {"Unknown"}

(***************************************************************************)
(* The status word.                                                        *)
(***************************************************************************)
StatusBits == {"ready_to_switch_on", "switched_on", "operation_enabled",
               "fault", "quick_stop", "switch_on_disabled"}

\* State402::read: the state a status word stands for
ReadStatus(sw) ==
  LET s == sw \ {"quick_stop"}
      q == "quick_stop" \in sw
  IN  CASE s = {} -> "Not_Ready_To_Switch_On"
        [] s = {"switch_on_disabled"} -> "Switch_On_Disabled"
        [] s = {"ready_to_switch_on"} /\ q -> "Ready_To_Switch_On"
        [] s = {"ready_to_switch_on", "switched_on"} /\ q -> "Switched_On"
        [] s = {"ready_to_switch_on", "switched_on", "operation_enabled"} ->
             IF q THEN "Operation_Enable" ELSE "Quick_Stop_Active"
        [] s = {"ready_to_switch_on", "switched_on", "operation_enabled", "fault"} ->
             "Fault_Reaction_Active"
        [] s = {"fault"} -> "Fault"
        [] OTHER -> "Unknown"

\* the word a drive shows in state d; set_switch_on_disabled leaves the
\* quick stop bit as it was, which is set but for the first time
StatusWord(d) ==
  CASE d = "Not_Ready_To_Switch_On" -> {}
    [] d = "Switch_On_Disabled" -> {"switch_on_disabled", "quick_stop"}
    [] d = "Ready_To_Switch_On" -> {"ready_to_switch_on", "quick_stop"}
    [] d = "Switched_On" -> {"ready_to_switch_on", "switched_on", "quick_stop"}
    [] d = "Operation_Enable" ->
         {"ready_to_switch_on", "switched_on", "operation_enabled", "quick_stop"}
    [] d = "Quick_Stop_Active" ->
         {"ready_to_switch_on", "switched_on", "operation_enabled"}
    [] d = "Fault_Reaction_Active" ->
         {"ready_to_switch_on", "switched_on", "operation_enabled", "fault"}
    [] d = "Fault" -> {"fault"}

(***************************************************************************)
(* The control word, without the bits of the operation modes: CW_Halt      *)
(* tells whether the word carries a set point of the selected mode.        *)
(***************************************************************************)
CommandBits == {"Switch_On", "Enable_Voltage", "Quick_Stop",
                "Enable_Operation", "Fault_Reset"}
ControlBits == CommandBits \cup {"Halt"}

\* the operations of the table, as the bits they set and reset
Ops ==
  [disable_voltage  |-> [set |-> {}, reset |-> {"Fault_Reset", "Enable_Voltage"}],
   automatic        |-> [set |-> {}, reset |-> {}],
   shutdown         |-> [set |-> {"Quick_Stop", "Enable_Voltage"},
                         reset |-> {"Fault_Reset", "Switch_On"}],
   switch_on        |-> [set |-> {"Quick_Stop", "Enable_Voltage", "Switch_On"},
                         reset |-> {"Fault_Reset", "Enable_Operation"}],
   enable_operation |-> [set |-> {"Quick_Stop", "Enable_Voltage", "Switch_On",
                                  "Enable_Operation"},
                         reset |-> {"Fault_Reset"}],
   quickstop        |-> [set |-> {"Enable_Voltage"},
                         reset |-> {"Fault_Reset", "Quick_Stop"}],
   fault_reset      |-> [set |-> {"Fault_Reset"}, reset |-> {}]]

\* the transitions the table holds: from, to, operation
Transitions ==
  {<<s, "Switch_On_Disabled", "disable_voltage">> :
     s \in {"Ready_To_Switch_On", "Operation_Enable", "Switched_On", "Quick_Stop_Active"}}
  \cup {<<"Unknown", "Not_Ready_To_Switch_On", "automatic">>,
        <<"Not_Ready_To_Switch_On", "Switch_On_Disabled", "automatic">>,
        <<"Fault_Reaction_Active", "Fault", "automatic">>}
  \cup {<<s, "Ready_To_Switch_On", "shutdown">> :
          s \in {"Switch_On_Disabled", "Switched_On", "Operation_Enable"}}
  \cup {<<s, "Switched_On", "switch_on">> : s \in {"Ready_To_Switch_On", "Operation_Enable"}}
  \cup {<<s, "Operation_Enable", "enable_operation">> :
          s \in {"Switched_On", "Quick_Stop_Active"}}
  \cup {<<s, "Quick_Stop_Active", "quickstop">> :
          s \in {"Ready_To_Switch_On", "Switched_On", "Operation_Enable"}}
  \cup {<<"Fault", "Switch_On_Disabled", "fault_reset">>}

\* Command402::nextStateForEnabling, total: Start is Unknown's other name
NextStateForEnabling ==
  [s \in States |->
     CASE s = "Unknown" -> "Not_Ready_To_Switch_On"
       [] s \in {"Fault", "Not_Ready_To_Switch_On"} -> "Switch_On_Disabled"
       [] s = "Switch_On_Disabled" -> "Ready_To_Switch_On"
       [] s = "Ready_To_Switch_On" -> "Switched_On"
       [] s \in {"Switched_On", "Quick_Stop_Active", "Operation_Enable"} -> "Operation_Enable"
       [] s = "Fault_Reaction_Active" -> "Fault"]

\* Command402::setTransition, from a state to another one: where it hops to
Hop(from, to) == IF to = "Operation_Enable" THEN NextStateForEnabling[from] ELSE to

HasTransition(from, hop) == \E t \in Transitions : t[1] = from /\ t[2] = hop

\* Mutant of Apply: an operation sets its bits and resets none.
ApplySetOnly(cw, from, hop) ==
  LET t == CHOOSE t \in Transitions : t[1] = from /\ t[2] = hop
  IN  cw \cup Ops[t[3]].set

\* the control word after the operation the table has for that hop
Apply(cw, from, hop) ==
  LET t == CHOOSE t \in Transitions : t[1] = from /\ t[2] = hop
  IN  (cw \ Ops[t[3]].reset) \cup Ops[t[3]].set

(***************************************************************************)
(* A drive: what a received control word asks for.  No two of the          *)
(* conditions hold at once.                                                *)
(***************************************************************************)
is_disable_voltage(cw) == cw \cap {"Fault_Reset", "Enable_Voltage"} = {}

is_shutdown(cw) ==
  /\ cw \cap {"Fault_Reset", "Switch_On"} = {}
  /\ {"Quick_Stop", "Enable_Voltage"} \subseteq cw

is_switch_on(cw) ==
  /\ cw \cap {"Fault_Reset", "Enable_Operation"} = {}
  /\ {"Quick_Stop", "Enable_Voltage", "Switch_On"} \subseteq cw

is_enable_operation(cw) ==
  /\ "Fault_Reset" \notin cw
  /\ {"Quick_Stop", "Enable_Voltage", "Switch_On", "Enable_Operation"} \subseteq cw

is_quickstop(cw) ==
  /\ cw \cap {"Fault_Reset", "Quick_Stop"} = {}
  /\ "Enable_Voltage" \in cw

\* the state a drive in state d goes to when it acts on the word cw; d when
\* the word asks for nothing
DriveStep(d, cw) ==
  CASE d = "Not_Ready_To_Switch_On" -> "Switch_On_Disabled"
    [] d = "Switch_On_Disabled" /\ is_shutdown(cw) -> "Ready_To_Switch_On"
    [] d \in {"Ready_To_Switch_On", "Switched_On", "Operation_Enable", "Quick_Stop_Active"}
         /\ is_disable_voltage(cw) -> "Switch_On_Disabled"
    [] d \in {"Switched_On", "Operation_Enable"} /\ is_shutdown(cw) -> "Ready_To_Switch_On"
    [] d \in {"Ready_To_Switch_On", "Operation_Enable"} /\ is_switch_on(cw) -> "Switched_On"
    [] d \in {"Switched_On", "Quick_Stop_Active"} /\ is_enable_operation(cw) ->
         "Operation_Enable"
    [] d = "Operation_Enable" /\ is_quickstop(cw) -> "Quick_Stop_Active"
    [] OTHER -> d

\* the mock ignores a quick stop of a drive that is not enabled; the table's
\* comments expect such a drive to go to Switch_On_Disabled
MayQuickStop(d, cw) == d \in {"Ready_To_Switch_On", "Switched_On"} /\ is_quickstop(cw)

AsksToLeave(d, cw) == DriveStep(d, cw) # d \/ MayQuickStop(d, cw)
=============================================================================
