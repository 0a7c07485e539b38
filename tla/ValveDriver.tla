----------------------------- MODULE ValveDriver -----------------------------
(***************************************************************************)
(* The CiA 408 driver: HydraulicAxis408 climbs the states of a valve by     *)
(* streaming control words, and streams the set point of its spool.         *)
(*                                                                         *)
(* The poll timer and the node's services run on two threads; io_mutex_ is  *)
(* held by one of them.  The writes of a cycle go by PDO, or by SDO, whose  *)
(* failure nobody looks at.  Word and set point are lost, or arrive in      *)
(* their order.                                                            *)
(*                                                                         *)
(* Set points are integers; Full stands for 16384, the full stroke, and     *)
(* 2 * Full for 2^15, so that 2 * Full - 1 is the sentinel for "float".     *)
(***************************************************************************)
EXTENDS Integers, FiniteSetsExt

CONSTANTS
  Dwell,      \* PHASE_DWELL_TICKS
  Full,
  Demands,    \* what set_position() computes from its argument
  MaxCalls, MaxFaults, MaxLosses

VARIABLES
  node,       \* "active", "stopping" or "stopped"
  phase,      \* the fields of HydraulicAxis408
  ticks,
  word,       \* current_cw_
  enabled,
  setpoint,   \* last_setpoint_
  poll,       \* where the poll callback is
  raw,        \* the set point of a set_setpoint() that waits for the mutex, or NoRaw
  calls,
  valve,      \* its state and its set point
  faults, losses,
  stopped,    \* history: was the last call a hold() or a disable(), not an enable()?
  upset,      \* history: has the valve faulted and got no fault reset since, or was it reset
              \* and has no enable() come since?
  since       \* history: the demands since the last enable(), and 0

axis == <<phase, ticks, word, enabled>>
bounds == <<calls, faults, losses>>
history == <<stopped, upset, since>>
vars == <<node, axis, setpoint, poll, raw, valve, bounds, history>>

NoRaw == 4 * Full
Float == 2 * Full - 1
Phases == {"Idle", "FaultReset", "Init", "Disabled", "Hold", "Active"}

TypeOK ==
  /\ node \in {"active", "stopping", "stopped"}
  /\ phase \in Phases /\ ticks \in 0 .. Dwell - 1
  /\ word \in Phases \ {"Idle"} /\ enabled \in BOOLEAN
  /\ {setpoint, valve.setpoint} \subseteq -Float .. Float
  /\ since \subseteq Demands \cup {0}
  /\ raw \in -Float .. Float \cup {NoRaw}
  /\ poll \in {"idle", "word", "setpoint"}
  /\ valve.state \in {"Init", "Disabled", "Hold", "Active", "Fault"}
  /\ calls \in 0 .. MaxCalls /\ faults \in 0 .. MaxFaults /\ losses \in 0 .. MaxLosses
  /\ stopped \in BOOLEAN /\ upset \in {"no", "fault", "reset"}

Init ==
  /\ node = "active"
  /\ phase = "Idle" /\ ticks = 0 /\ word = "Disabled" /\ enabled = FALSE /\ setpoint = 0
  /\ poll = "idle" /\ raw = NoRaw
  /\ valve = [state |-> "Init", setpoint |-> 0]
  /\ calls = 0 /\ faults = 0 /\ losses = 0
  /\ stopped = TRUE /\ upset = "no" /\ since = {0}

-----------------------------------------------------------------------------
(***************************************************************************)
(* The poll callback: spin_once(), with the mutex.                         *)
(***************************************************************************)

After ==
  [FaultReset |-> "Init", Init |-> "Disabled", Disabled |-> "Hold", Hold |-> "Active",
   Active |-> "Idle"]

\* Mutant of LastTick: a phase lasts one cycle more.
LastTickLate == ticks >= Dwell

LastTick == ticks + 1 >= Dwell

\* advance_phase_locked(): stream the word of the phase, and go on after its last tick.
\* The last phase ends with the axis enabled, whatever became of the writes.
AdvancePhase ==
  /\ node # "stopped" /\ poll = "idle"
  /\ poll' = "word"
  /\ IF phase = "Idle"
     THEN UNCHANGED axis
     ELSE /\ word' = phase
          /\ IF LastTick
             THEN /\ ticks' = 0
                  /\ phase' = After[phase]
                  /\ enabled' = (enabled \/ phase = "Active")
             ELSE ticks' = ticks + 1 /\ UNCHANGED <<phase, enabled>>
  /\ UNCHANGED <<node, setpoint, raw, valve, bounds, history>>

\* The states of the valve, as the control words are said to move it.
Obeys(w) ==
  IF valve.state = "Fault" THEN IF w = "FaultReset" THEN "Hold" ELSE "Fault"
  ELSE CASE w \in {"Init", "Disabled"} -> w
         [] w = "Hold" /\ valve.state # "Init" -> "Hold"
         [] w = "Active" /\ valve.state \in {"Hold", "Active"} -> "Active"
         [] OTHER -> valve.state

Lose == losses < MaxLosses /\ losses' = losses + 1 /\ UNCHANGED valve

WriteControlword ==
  /\ poll = "word"
  /\ poll' = "setpoint"
  /\ \/ /\ valve' = [valve EXCEPT !.state = Obeys(word)]
        /\ upset' = IF upset = "fault" /\ word = "FaultReset" THEN "no" ELSE upset
        /\ UNCHANGED losses
     \/ Lose /\ UNCHANGED upset
  /\ UNCHANGED <<node, axis, setpoint, raw, calls, faults, stopped, since>>

\* The set point is read when it is sent.
StreamSetpoint ==
  /\ poll = "setpoint"
  /\ poll' = "idle"
  /\ \/ valve' = [valve EXCEPT !.setpoint = setpoint] /\ UNCHANGED losses
     \/ Lose
  /\ UNCHANGED <<node, axis, setpoint, raw, calls, faults, history>>

-----------------------------------------------------------------------------
(***************************************************************************)
(* The services, one at a time.  All but the first half of set_setpoint()   *)
(* need the mutex.                                                         *)
(***************************************************************************)

Calls ==
  /\ node = "active" /\ raw = NoRaw
  /\ calls < MaxCalls /\ calls' = calls + 1

\* enable() and recover(): the next cycles climb, from neutral.
Climb(p) ==
  /\ Calls /\ poll = "idle"
  /\ phase' = p /\ ticks' = 0 /\ enabled' = FALSE
  /\ setpoint' = 0
  /\ stopped' = FALSE /\ since' = {0}
  /\ upset' = IF upset = "reset" THEN "no" ELSE upset
  /\ UNCHANGED <<node, word, poll, raw, valve, faults, losses>>

Enable == Climb("Init")
Recover == Climb("FaultReset")

\* Mutant of Stop: the climb goes on.
StopStillClimbs(w) ==
  /\ poll = "idle"
  /\ enabled' = FALSE /\ word' = w
  /\ stopped' = TRUE
  /\ UNCHANGED <<phase, ticks, setpoint, poll, raw, valve, faults, losses, upset, since>>

Stop(w) ==
  /\ poll = "idle"
  /\ phase' = "Idle" /\ enabled' = FALSE /\ word' = w
  /\ stopped' = TRUE
  /\ UNCHANGED <<ticks, setpoint, poll, raw, valve, faults, losses, upset, since>>

Hold == Calls /\ Stop("Hold") /\ UNCHANGED node
Disable == Calls /\ Stop("Disabled") /\ UNCHANGED node

\* The number as an int16_t, and what is left of it.
AsInt16(d) == ((d + 2 * Full) % (4 * Full)) - 2 * Full

Clamped(d) ==
  CASE d \in {Float, -Float} -> d
    [] d \notin {Float, -Float} /\ d > Full -> Full
    [] d \notin {Float, -Float} /\ d < -Full -> -Full
    [] OTHER -> d

\* set_position() and set_setpoint() store the set point before they wait for the mutex.
SetPosition(d) ==
  /\ Calls
  /\ setpoint' = Clamped(AsInt16(d))
  /\ raw' = setpoint'
  /\ since' = since \cup {d}
  /\ UNCHANGED <<node, axis, poll, valve, faults, losses, stopped, upset>>

SendSetpoint ==
  /\ raw # NoRaw /\ poll = "idle"
  /\ raw' = NoRaw
  /\ \/ valve' = [valve EXCEPT !.setpoint = raw] /\ UNCHANGED losses
     \/ Lose
  /\ UNCHANGED <<node, axis, setpoint, poll, calls, faults, history>>

\* deactivate() disables the axis, and stops the poll timer: the word may stay unsent.
Deactivate ==
  /\ Calls /\ Stop("Disabled")
  /\ node' = "stopping"

StopPolling ==
  /\ node = "stopping"
  /\ node' = "stopped"
  /\ UNCHANGED <<axis, setpoint, poll, raw, valve, bounds, history>>

\* The next activation makes a new HydraulicAxis408.
Activate ==
  /\ node = "stopped" /\ poll = "idle"
  /\ node' = "active"
  /\ phase' = "Idle" /\ ticks' = 0 /\ word' = "Disabled" /\ enabled' = FALSE /\ setpoint' = 0
  /\ stopped' = TRUE /\ since' = {0}
  /\ UNCHANGED <<poll, raw, valve, bounds, upset>>

ValveFaults ==
  /\ faults < MaxFaults
  /\ faults' = faults + 1
  /\ valve' = [valve EXCEPT !.state = "Fault"]
  /\ upset' = "fault"
  /\ UNCHANGED <<node, axis, setpoint, poll, raw, calls, losses, stopped, since>>

\* A power cycle, or an NMT reset, which the services of the driver offer: the valve is in
\* Init again, and nobody tells the axis.  A climb that has not left Init loses nothing.
ValveResets ==
  /\ faults < MaxFaults
  /\ faults' = faults + 1
  /\ valve' = [state |-> "Init", setpoint |-> 0]
  /\ upset' = IF phase \in {"FaultReset", "Init"} THEN "no" ELSE "reset"
  /\ UNCHANGED <<node, axis, setpoint, poll, raw, calls, losses, stopped, since>>

-----------------------------------------------------------------------------
Poll == AdvancePhase \/ WriteControlword \/ StreamSetpoint

Next ==
  \/ Poll
  \/ Enable \/ Recover \/ Hold \/ Disable \/ SendSetpoint
  \/ \E d \in Demands : SetPosition(d)
  \/ Deactivate \/ StopPolling \/ Activate
  \/ ValveFaults \/ ValveResets

Spec == Init /\ [][Next]_vars

\* The poll timer goes on while the node is active.
Fairness == WF_vars(Poll)

FairSpec == Spec /\ Fairness

-----------------------------------------------------------------------------
(***************************************************************************)
(* Properties.                                                             *)
(***************************************************************************)

\* An axis that says it is enabled has its valve in Device_Mode_Active, unless the valve has
\* faulted and got no fault reset since, or was reset after the climb left Init: then the axis
\* goes on streaming a word that the valve ignores, until the next enable().  A few lost
\* writes do not matter: every phase is streamed for several cycles.
EnabledIsActive == enabled /\ upset = "no" => valve.state = "Active"

\* Once hold() or disable() has come back the valve does not become active until the next
\* enable(), and an active one is stopped by the next cycle: if there is one.  (The one
\* disable() of deactivate() may find none.)
StopStands ==
  /\ [][stopped' /\ valve'.state = "Active" => valve.state = "Active"]_vars
  /\ stopped ~> ~stopped \/ valve.state # "Active" \/ node = "stopped"

Asked(d) == IF d \in {Float, -Float} THEN d ELSE Max({-Full, Min({Full, d})})

\* A valve becomes active with its spool at neutral, or where a call since the last
\* enable() demands it (no further than the full stroke, or floating): never where it
\* was before.  A demand is what is left of it as an int16_t: one beyond that may mean
\* the opposite direction.
StartsAsAsked ==
  [][valve'.state = "Active" /\ valve.state # "Active"
       => \E d \in since : valve'.setpoint = Asked(AsInt16(d))]_vars

\* The valve obeys the services, whatever the order of calls, cycles and losses.
ValveObeys == []EnabledIsActive /\ StopStands /\ StartsAsAsked
=============================================================================
