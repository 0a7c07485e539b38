------------------------- MODULE ProfileDriversProof -------------------------
(***************************************************************************)
(* Theorems about the drivers of the CiA 401, 408 and 410 families: about  *)
(* ValveDriver, for any dwell, stroke, demands and bounds, and about       *)
(* ProfileDrivers, for any set of configurations.                          *)
(***************************************************************************)
EXTENDS ValveDriver, SequenceTheorems, TLAPS

\* The constants of the axis: a phase lasts a cycle at least, a demand is an integer.
ValveFits ==
  /\ Dwell \in Nat \ {0} /\ Full \in Nat \ {0}
  /\ Demands \subseteq Int
  /\ MaxCalls \in Nat /\ MaxFaults \in Nat /\ MaxLosses \in Nat

\* Fewer words and set points are lost than a phase sends before its last.
FewLosses == MaxLosses < Dwell - 1

\* A cast gives a number of sixteen bits.
LEMMA AsInt16Fits ==
  ASSUME Full \in Nat \ {0}, NEW d \in Int
  PROVE  AsInt16(d) \in -2 * Full .. 2 * Full - 1
<1>1. ASSUME NEW a \in Int, NEW n \in Nat, n > 0 PROVE a % n \in 0 .. n - 1
  BY <1>1
<1>2. (d + 2 * Full) % (4 * Full) \in 0 .. 4 * Full - 1
  BY <1>1
<1>3. QED
  BY <1>2 DEF AsInt16

\* set_setpoint() clamps such a number to the stroke, or floats.
LEMMA ClampedFits ==
  ASSUME Full \in Nat \ {0}, NEW d \in -2 * Full .. 2 * Full - 1
  PROVE  /\ Clamped(d) \in -Float .. Float
         /\ Clamped(d) = Asked(d)
<1>1. Clamped(d) \in -Float .. Float
  BY DEF Clamped, Float
<1>2. ASSUME NEW a \in Int, NEW b \in Int
      PROVE  /\ Max({a, b}) = IF a >= b THEN a ELSE b
             /\ Min({a, b}) = IF a <= b THEN a ELSE b
  <2>1. \E x \in {a, b} : \A y \in {a, b} : x >= y
    OBVIOUS
  <2>2. \E x \in {a, b} : \A y \in {a, b} : x <= y
    OBVIOUS
  <2>3. Max({a, b}) \in {a, b} /\ \A y \in {a, b} : Max({a, b}) >= y
    BY <2>1, Zenon DEF Max
  <2>4. Min({a, b}) \in {a, b} /\ \A y \in {a, b} : Min({a, b}) <= y
    BY <2>2, Zenon DEF Min
  <2>5. QED
    BY <2>3, <2>4
<1>3. Min({Full, d}) = IF Full <= d THEN Full ELSE d
  BY <1>2
<1>4. Max({-Full, Min({Full, d})}) = IF -Full >= Min({Full, d}) THEN -Full ELSE Min({Full, d})
  BY <1>2, <1>3
<1>5. Clamped(d) = Asked(d)
  BY <1>3, <1>4 DEF Clamped, Asked, Float
<1>6. QED
  BY <1>1, <1>5

-----------------------------------------------------------------------------
(***************************************************************************)
(* Types.                                                                  *)
(***************************************************************************)
\* The valve is a state and a set point.
ValveTypes ==
  /\ TypeOK
  /\ valve \in [state : {"Init", "Disabled", "Hold", "Active", "Fault"},
                  setpoint : -Float .. Float]

\* A word moves the valve to one of its states.
LEMMA ObeysFits ==
  ASSUME ValveTypes, NEW w \in Phases
  PROVE  Obeys(w) \in {"Init", "Disabled", "Hold", "Active", "Fault"}
BY DEF ValveTypes, TypeOK, Obeys, Phases

\* Every step keeps the types.
LEMMA ValveTypesNext ==
  ASSUME ValveFits, ValveTypes, [Next]_vars
  PROVE  ValveTypes'
<1> USE DEF ValveTypes, TypeOK
<1>1. ASSUME NEW d \in Demands PROVE Clamped(AsInt16(d)) \in -Float .. Float
  BY AsInt16Fits, ClampedFits DEF ValveFits
<1>2. 0 \in -Float .. Float /\ 0 \in 0 .. Dwell - 1
  BY DEF ValveFits, Float
<1>3. ASSUME Calls PROVE calls' \in 0 .. MaxCalls
  BY <1>3 DEF Calls, ValveFits
<1>4. ASSUME Lose PROVE losses' \in 0 .. MaxLosses /\ valve' = valve
  BY <1>4 DEF Lose, ValveFits
<1>5. CASE AdvancePhase
  <2>1. CASE phase = "Idle"
    BY <1>5, <2>1 DEF AdvancePhase, axis, bounds, history
  <2>2. CASE phase # "Idle"
    <3>1. word' \in Phases \ {"Idle"}
      BY <1>5, <2>2 DEF AdvancePhase
    <3>2. phase' \in Phases /\ ticks' \in 0 .. Dwell - 1 /\ enabled' \in BOOLEAN
      <4>1. CASE LastTick
        <5>1. ticks' = 0 /\ phase' = After[phase] /\ enabled' = (enabled \/ phase = "Active")
          BY <1>5, <2>2, <4>1 DEF AdvancePhase
        <5>2. QED
          BY <2>2, <5>1 DEF After, Phases, ValveFits
      <4>2. CASE ~LastTick
        BY <1>5, <2>2, <4>2 DEF AdvancePhase, LastTick, ValveFits
      <4>3. QED
        BY <4>1, <4>2
    <3>3. QED
      BY <1>5, <3>1, <3>2 DEF AdvancePhase, bounds, history
  <2>3. QED
    BY <2>1, <2>2
<1>6. CASE WriteControlword
  <2>1. Obeys(word) \in {"Init", "Disabled", "Hold", "Active", "Fault"}
    BY ObeysFits
  <2>2. QED
    BY <1>4, <1>6, <2>1 DEF WriteControlword, axis
<1>7. CASE StreamSetpoint
  BY <1>4, <1>7 DEF StreamSetpoint, axis, history
<1>8. CASE Enable \/ Recover
  BY <1>2, <1>3, <1>8 DEF Enable, Recover, Climb, Phases
<1>9. CASE Hold \/ Disable \/ Deactivate
  BY <1>3, <1>9 DEF Hold, Disable, Deactivate, Stop, Phases
<1>10. CASE SendSetpoint
  <2>1. raw \in -Float .. Float
    BY <1>10 DEF SendSetpoint
  <2>2. QED
    BY <1>4, <1>10, <2>1 DEF SendSetpoint, axis, history
<1>11. ASSUME NEW d \in Demands, SetPosition(d) PROVE ValveTypes'
  BY <1>1, <1>3, <1>11 DEF SetPosition, axis
<1>12. CASE StopPolling \/ UNCHANGED vars
  BY <1>12 DEF StopPolling, vars, axis, bounds, history
<1>13. CASE Activate
  BY <1>2, <1>13 DEF Activate, bounds, Phases
<1>14. CASE ValveFaults \/ ValveResets
  BY <1>2, <1>14 DEF ValveFaults, ValveResets, axis, ValveFits
<1>15. QED
  BY <1>5, <1>6, <1>7, <1>8, <1>9, <1>10, <1>11, <1>12, <1>13, <1>14 DEF Next, Poll

\* They hold at first.
LEMMA ValveTypesInit ==
  ASSUME ValveFits
  PROVE  Init => ValveTypes
<1>1. 0 \in -Float .. Float /\ 0 \in 0 .. Dwell - 1
  BY DEF ValveFits, Float
<1>2. 0 \in 0 .. MaxCalls /\ 0 \in 0 .. MaxFaults /\ 0 \in 0 .. MaxLosses
  BY DEF ValveFits
<1>3. Init => valve \in [state : {"Init", "Disabled", "Hold", "Active", "Fault"},
                         setpoint : -Float .. Float]
  BY <1>1 DEF Init
<1>4. Init => TypeOK
  <2>1. Init => {setpoint, valve.setpoint} \subseteq -Float .. Float
    BY <1>1 DEF Init
  <2>2. Init => calls \in 0 .. MaxCalls /\ faults \in 0 .. MaxFaults /\ losses \in 0 .. MaxLosses
    BY <1>2 DEF Init
  <2>3. Init => phase \in Phases /\ ticks \in 0 .. Dwell - 1 /\ word \in Phases \ {"Idle"}
    BY <1>1 DEF Init, Phases
  <2>4. Init => valve.state = "Init"
    BY DEF Init
  <2>5. QED
    BY <2>1, <2>2, <2>3, <2>4 DEF Init, TypeOK
<1>5. QED
  BY <1>3, <1>4 DEF ValveTypes

\* The fields of the axis, the set point that waits and the valve keep their types: the
\* set point is one of an int16_t whatever set_position() is told.
THEOREM ValveTypeCorrect == ASSUME ValveFits PROVE Spec => []TypeOK
<1>1. Init => ValveTypes
  BY ValveTypesInit
<1>2. ValveTypes /\ [Next]_vars => ValveTypes'
  BY ValveTypesNext
<1>3. ValveTypes => TypeOK
  BY DEF ValveTypes
<1>4. QED
  BY <1>1, <1>2, <1>3, PTL DEF Spec

-----------------------------------------------------------------------------
(***************************************************************************)
(* The words of a climb, and the state of the valve.                       *)
(***************************************************************************)
\* The phases that begin with the valve in the state of the one before.
Steps == {"Disabled", "Hold", "Active"}
Before == [Disabled |-> "Init", Hold |-> "Disabled", Active |-> "Hold"]

\* Which word is on its way: that of the phase, or at its first tick the last of the phase
\* before; a stopped axis streams the word that stopped it.
WordFits ==
  /\ phase \in Steps \cup {"Init"} /\ ticks > 0 => word = phase
  /\ phase = "Init" /\ ticks = 0 /\ poll = "word" => word = "FaultReset"
  /\ phase \in Steps /\ ticks = 0 /\ poll = "word" => word = Before[phase]
  /\ phase = "FaultReset" /\ poll = "word" => word = "FaultReset"
  /\ enabled => phase = "Idle" /\ word = "Active"
  /\ stopped => phase = "Idle" /\ word \in {"Hold", "Disabled"}

\* How many words of the phase have been sent.
Sent == IF poll = "word" THEN ticks - 1 ELSE ticks

\* A phase has its state reached, or all its words so far are lost: unless the valve has
\* faulted, or was reset when the climb had left Init.
ClimbFits ==
  /\ upset = "fault" <=> valve.state = "Fault"
  /\ upset = "no" =>
       /\ phase = "Init" => valve.state = "Init" \/ losses >= Sent
       /\ phase \in Steps =>
            valve.state = phase \/ (valve.state = Before[phase] /\ losses >= Sent)
       /\ enabled => valve.state = "Active"

\* Only a cycle of the poll changes phase and word together; a call stops or restarts both.
LEMMA WordFitsNext ==
  ASSUME ValveFits, ValveTypes, WordFits, [Next]_vars
  PROVE  WordFits'
<1> USE DEF WordFits, Steps, Before
<1>1. CASE AdvancePhase
  <2>1. CASE phase = "Idle"
    BY <1>1, <2>1 DEF AdvancePhase, axis, history
  <2>2. CASE phase # "Idle"
    <3>1. phase \in {"FaultReset", "Init", "Disabled", "Hold", "Active"} /\ ticks \in Nat
      BY <2>2 DEF ValveTypes, TypeOK, Phases, ValveFits
    <3>2. poll' = "word" /\ word' = phase /\ UNCHANGED stopped /\ ~stopped /\ ~enabled
      BY <1>1, <2>2 DEF AdvancePhase, history
    <3>3. CASE LastTick
      <4>1. ticks' = 0 /\ phase' = After[phase] /\ enabled' = (enabled \/ phase = "Active")
        BY <1>1, <2>2, <3>3 DEF AdvancePhase
      <4>2. enabled' => phase = "Active"
        BY <3>2, <4>1
      <4>3. ~(ticks' > 0)
        BY <4>1
      <4>4. QED
        BY <3>1, <3>2, <4>1, <4>2, <4>3 DEF After
    <3>4. CASE ~LastTick
      <4>1. ticks' = ticks + 1 /\ UNCHANGED <<phase, enabled>>
        BY <1>1, <2>2, <3>4 DEF AdvancePhase
      <4>2. QED
        BY <3>1, <3>2, <4>1
    <3>5. QED
      BY <3>3, <3>4
  <2>3. QED
    BY <2>1, <2>2
<1>2. CASE WriteControlword \/ StreamSetpoint
  BY <1>2 DEF WriteControlword, StreamSetpoint, axis, history
<1>3. CASE Enable \/ Recover
  BY <1>3 DEF Enable, Recover, Climb
<1>4. CASE Hold \/ Disable \/ Deactivate
  BY <1>4 DEF Hold, Disable, Deactivate, Stop
<1>5. CASE Activate
  BY <1>5 DEF Activate
<1>6. CASE SendSetpoint \/ (\E d \in Demands : SetPosition(d)) \/ StopPolling \/ ValveFaults
           \/ ValveResets \/ UNCHANGED vars
  BY <1>6 DEF SendSetpoint, SetPosition, StopPolling, ValveFaults, ValveResets, vars, axis,
              history
<1>7. QED
  BY <1>1, <1>2, <1>3, <1>4, <1>5, <1>6 DEF Next, Poll

\* A phase has more words than can be lost: its last tick comes with its state reached, and
\* so does the axis when it reports enabled.
LEMMA ClimbFitsNext ==
  ASSUME ValveFits, FewLosses, ValveTypes, WordFits, ClimbFits, [Next]_vars
  PROVE  ClimbFits'
<1> USE DEF ClimbFits, Steps, Before
<1>1. /\ ticks \in Nat /\ losses \in Nat /\ losses < Dwell - 1 /\ Dwell \in Nat
      /\ phase \in Phases /\ poll \in {"idle", "word", "setpoint"}
      /\ valve \in [state : {"Init", "Disabled", "Hold", "Active", "Fault"},
                  setpoint : -Float .. Float]
      /\ enabled \in BOOLEAN /\ upset \in {"no", "fault", "reset"}
  BY DEF ValveTypes, TypeOK, ValveFits, FewLosses
<1>2. CASE AdvancePhase
  <2>1. poll = "idle" /\ poll' = "word" /\ UNCHANGED <<valve, losses, upset>>
    BY <1>2 DEF AdvancePhase, bounds, history
  <2>2. CASE phase = "Idle"
    BY <1>2, <2>1, <2>2 DEF AdvancePhase, axis
  <2>3. CASE phase # "Idle"
    <3>1. phase \in {"FaultReset", "Init", "Disabled", "Hold", "Active"}
      BY <1>1, <2>3 DEF Phases
    <3>2. ~enabled
      BY <2>3 DEF WordFits
    <3>3. CASE LastTick
      <4>1. ticks' = 0 /\ phase' = After[phase] /\ enabled' = (enabled \/ phase = "Active")
        BY <1>2, <2>3, <3>3 DEF AdvancePhase
      <4>2. Sent = ticks /\ losses < ticks /\ Sent' = -1
        BY <1>1, <2>1, <3>3, <4>1 DEF Sent, LastTick
      <4>3. losses' >= Sent'
        BY <1>1, <2>1, <4>2
      <4>4. QED
        BY <1>1, <2>1, <3>1, <3>2, <4>1, <4>2, <4>3 DEF After
    <3>4. CASE ~LastTick
      <4>1. ticks' = ticks + 1 /\ UNCHANGED <<phase, enabled>>
        BY <1>2, <2>3, <3>4 DEF AdvancePhase
      <4>2. Sent' = Sent
        BY <1>1, <2>1, <4>1 DEF Sent
      <4>3. QED
        BY <2>1, <4>1, <4>2
    <3>5. QED
      BY <3>3, <3>4
  <2>4. QED
    BY <2>2, <2>3
<1>3. CASE WriteControlword
  <2>1. poll = "word" /\ poll' = "setpoint" /\ UNCHANGED axis
    BY <1>3 DEF WriteControlword
  <2>2. Sent = ticks - 1 /\ Sent' = ticks
    BY <2>1 DEF Sent, axis
  <2>3. CASE Lose /\ UNCHANGED upset
    BY <1>1, <2>1, <2>2, <2>3 DEF Lose, axis
  <2>4. CASE /\ valve' = [valve EXCEPT !.state = Obeys(word)]
             /\ upset' = IF upset = "fault" /\ word = "FaultReset" THEN "no" ELSE upset
             /\ UNCHANGED losses
    <3>1. valve'.state = Obeys(word)
      BY <1>1, <2>4
    <3>2. upset' = "fault" <=> valve'.state = "Fault"
      <4>1. Obeys(word) = "Fault" <=> valve.state = "Fault" /\ word # "FaultReset"
        BY <1>1 DEF Obeys, ValveTypes, TypeOK, Phases
      <4>2. QED
        BY <2>4, <3>1, <4>1
    <3>3. ASSUME upset' = "no", phase = "Init" PROVE valve'.state = "Init" \/ losses' >= Sent'
      <4>1. CASE ticks = 0
        BY <1>1, <2>2, <2>4, <4>1
      <4>2. CASE ticks > 0
        BY <1>1, <2>4, <3>1, <3>3, <4>2 DEF WordFits, Obeys
      <4>3. QED
        BY <1>1, <4>1, <4>2
    <3>4. ASSUME upset' = "no", phase \in Steps
          PROVE  valve'.state = phase \/ (valve'.state = Before[phase] /\ losses' >= Sent')
      <4>1. word # "FaultReset" /\ upset = "no"
        BY <1>1, <2>1, <2>4, <3>4 DEF WordFits
      <4>2. CASE ticks = 0
        BY <1>1, <2>1, <2>2, <2>4, <3>1, <3>4, <4>1, <4>2 DEF WordFits, Obeys
      <4>3. CASE ticks > 0
        BY <1>1, <2>4, <3>1, <3>4, <4>1, <4>3 DEF WordFits, Obeys
      <4>4. QED
        BY <1>1, <4>2, <4>3
    <3>5. ASSUME upset' = "no", enabled PROVE valve'.state = "Active"
      BY <1>1, <2>4, <3>1, <3>5 DEF WordFits, Obeys
    <3>6. QED
      BY <2>1, <3>2, <3>3, <3>4, <3>5 DEF axis
  <2>5. QED
    BY <1>3, <2>3, <2>4 DEF WriteControlword
<1>4. CASE StreamSetpoint
  <2>1. /\ valve'.state = valve.state /\ losses' \in Nat /\ losses' >= losses
        /\ poll = "setpoint" /\ poll' = "idle" /\ UNCHANGED <<axis, upset>>
    BY <1>1, <1>4 DEF StreamSetpoint, Lose, history
  <2>2. Sent' = Sent
    BY <2>1 DEF Sent, axis
  <2>3. QED
    BY <1>1, <2>1, <2>2 DEF axis, Sent
<1>5. CASE SendSetpoint
  <2>1. /\ valve'.state = valve.state /\ losses' \in Nat /\ losses' >= losses
        /\ UNCHANGED <<axis, poll, upset>>
    BY <1>1, <1>5 DEF SendSetpoint, Lose, history
  <2>2. QED
    BY <1>1, <2>1 DEF axis, Sent
<1>6. CASE Enable \/ Recover
  <2>1. PICK p \in {"Init", "FaultReset"} : Climb(p)
    BY <1>6 DEF Enable, Recover
  <2>2. /\ phase' \in {"Init", "FaultReset"} /\ ~enabled' /\ ticks' = 0 /\ poll' = "idle"
        /\ UNCHANGED <<valve, losses>> /\ (upset' = "fault" <=> upset = "fault")
    BY <1>1, <2>1 DEF Climb
  <2>3. Sent' = 0
    BY <2>2 DEF Sent
  <2>4. QED
    BY <1>1, <2>2, <2>3
<1>7. CASE Hold \/ Disable \/ Deactivate
  BY <1>7 DEF Hold, Disable, Deactivate, Stop
<1>8. CASE Activate
  BY <1>8 DEF Activate, bounds
<1>9. CASE (\E d \in Demands : SetPosition(d)) \/ StopPolling \/ UNCHANGED vars
  BY <1>9 DEF SetPosition, StopPolling, vars, axis, bounds, history, Sent
<1>10. CASE ValveFaults
  BY <1>1, <1>10 DEF ValveFaults
<1>11. CASE ValveResets
  <2>1. /\ valve'.state = "Init" /\ UNCHANGED <<axis, poll, losses>>
        /\ upset' = IF phase \in {"FaultReset", "Init"} THEN "no" ELSE "reset"
    BY <1>11 DEF ValveResets
  <2>2. upset' = "no" => phase \in {"FaultReset", "Init"} /\ ~enabled
    BY <2>1 DEF WordFits
  <2>3. QED
    BY <2>1, <2>2 DEF axis
<1>12. QED
  BY <1>2, <1>3, <1>4, <1>5, <1>6, <1>7, <1>8, <1>9, <1>10, <1>11 DEF Next, Poll

-----------------------------------------------------------------------------
(***************************************************************************)
(* The set points of a climb.                                              *)
(***************************************************************************)
\* What the spool may be told since the last enable().
Given == {0} \cup {Clamped(AsInt16(d)) : d \in since}

\* How many set points the phase has streamed.
Streamed == IF poll = "idle" THEN ticks ELSE ticks - 1

\* The set point, and one that waits, are given since the last enable(); so is that of the
\* valve, at the latest when the first phase is over.
SpoolFits ==
  /\ 0 \in since
  /\ setpoint \in Given
  /\ raw \in Given \cup {NoRaw}
  /\ node # "active" => raw = NoRaw
  /\ phase = "Init" => valve.setpoint \in Given \/ losses >= Streamed
  /\ phase \in Steps \/ (phase = "Idle" /\ word = "Active") => valve.setpoint \in Given

\* The first phase streams more set points than can be lost.
LEMMA SpoolFitsNext ==
  ASSUME ValveFits, FewLosses, ValveTypes, WordFits, SpoolFits, [Next]_vars
  PROVE  SpoolFits'
<1> USE DEF SpoolFits, Steps
<1>1. /\ ticks \in Nat /\ losses \in Nat /\ losses < Dwell - 1 /\ Dwell \in Nat
      /\ phase \in Phases /\ poll \in {"idle", "word", "setpoint"}
      /\ valve \in [state : {"Init", "Disabled", "Hold", "Active", "Fault"},
                  setpoint : -Float .. Float]
  BY DEF ValveTypes, TypeOK, ValveFits, FewLosses
<1>2. CASE AdvancePhase
  <2>1. /\ poll = "idle" /\ poll' = "word"
        /\ UNCHANGED <<node, setpoint, raw, valve, losses, since>>
    BY <1>2 DEF AdvancePhase, bounds, history
  <2>2. Given' = Given
    BY <2>1 DEF Given
  <2>3. CASE phase = "Idle"
    BY <1>2, <2>1, <2>2, <2>3 DEF AdvancePhase, axis
  <2>4. CASE phase # "Idle"
    <3>1. phase \in {"FaultReset", "Init", "Disabled", "Hold", "Active"} /\ word' = phase
      BY <1>1, <1>2, <2>4 DEF Phases, AdvancePhase
    <3>2. CASE LastTick
      <4>1. ticks' = 0 /\ phase' = After[phase]
        BY <1>2, <2>4, <3>2 DEF AdvancePhase
      <4>2. Streamed = ticks /\ losses < ticks /\ Streamed' = -1
        BY <1>1, <2>1, <3>2, <4>1 DEF Streamed, LastTick
      <4>3. losses' >= Streamed'
        BY <1>1, <2>1, <4>2
      <4>4. phase # "FaultReset" => valve.setpoint \in Given
        BY <1>1, <3>1, <4>2
      <4>5. QED
        BY <2>1, <2>2, <3>1, <4>1, <4>3, <4>4 DEF After
    <3>3. CASE ~LastTick
      <4>1. ticks' = ticks + 1 /\ UNCHANGED phase
        BY <1>2, <2>4, <3>3 DEF AdvancePhase
      <4>2. Streamed' = Streamed
        BY <1>1, <2>1, <4>1 DEF Streamed
      <4>3. QED
        BY <2>1, <2>2, <2>4, <4>1, <4>2
    <3>4. QED
      BY <3>2, <3>3
  <2>5. QED
    BY <2>3, <2>4
<1>3. CASE WriteControlword
  <2>1. /\ poll = "word" /\ poll' = "setpoint" /\ valve'.setpoint = valve.setpoint
        /\ losses' \in Nat /\ losses' >= losses
        /\ UNCHANGED <<node, axis, setpoint, raw, since>>
    BY <1>1, <1>3 DEF WriteControlword, Lose
  <2>2. Given' = Given /\ Streamed' = Streamed
    BY <2>1 DEF Given, Streamed, axis
  <2>3. QED
    BY <1>1, <2>1, <2>2 DEF axis, Streamed
<1>4. CASE StreamSetpoint
  <2>1. /\ poll = "setpoint" /\ poll' = "idle" /\ UNCHANGED <<node, axis, setpoint, raw, since>>
    BY <1>4 DEF StreamSetpoint, history
  <2>2. Given' = Given /\ Streamed = ticks - 1 /\ Streamed' = ticks
    BY <2>1 DEF Given, Streamed, axis
  <2>3. CASE valve' = [valve EXCEPT !.setpoint = setpoint]
    BY <1>1, <2>1, <2>2, <2>3 DEF axis
  <2>4. CASE Lose
    BY <1>1, <2>1, <2>2, <2>4 DEF axis, Lose
  <2>5. QED
    BY <1>4, <2>3, <2>4 DEF StreamSetpoint
<1>5. CASE SendSetpoint
  <2>1. /\ raw \in Given /\ raw' = NoRaw /\ UNCHANGED <<node, axis, poll, setpoint, since>>
        /\ \/ valve'.setpoint = raw /\ UNCHANGED losses
           \/ losses' \in Nat /\ losses' >= losses /\ UNCHANGED valve
    BY <1>1, <1>5 DEF SendSetpoint, Lose, history
  <2>2. Given' = Given /\ Streamed' = Streamed
    BY <2>1 DEF Given, Streamed, axis
  <2>3. QED
    BY <1>1, <2>1, <2>2 DEF axis, Streamed
<1>6. CASE Enable \/ Recover
  <2>1. PICK p \in {"Init", "FaultReset"} : Climb(p)
    BY <1>6 DEF Enable, Recover
  <2>2. /\ phase' \in {"Init", "FaultReset"} /\ ticks' = 0 /\ poll' = "idle"
        /\ setpoint' = 0 /\ since' = {0} /\ raw' = NoRaw
        /\ UNCHANGED losses
    BY <2>1 DEF Climb, Calls
  <2>3. Streamed' = 0 /\ 0 \in Given'
    BY <2>2 DEF Streamed, Given
  <2>4. QED
    BY <1>1, <2>2, <2>3
<1>7. CASE Hold \/ Disable \/ Deactivate
  <2>1. /\ phase' = "Idle" /\ word' # "Active" /\ raw' = raw /\ raw = NoRaw
        /\ UNCHANGED <<setpoint, since>>
    BY <1>7 DEF Hold, Disable, Deactivate, Stop, Calls
  <2>2. Given' = Given
    BY <2>1 DEF Given
  <2>3. QED
    BY <2>1, <2>2
<1>8. CASE Activate
  <2>1. /\ phase' = "Idle" /\ word' = "Disabled" /\ raw' = raw /\ raw = NoRaw
        /\ setpoint' = 0 /\ since' = {0}
    BY <1>8 DEF Activate
  <2>2. 0 \in Given'
    BY DEF Given
  <2>3. QED
    BY <2>1, <2>2
<1>9. ASSUME NEW d \in Demands, SetPosition(d) PROVE SpoolFits'
  <2>1. /\ setpoint' = Clamped(AsInt16(d)) /\ raw' = setpoint' /\ since' = since \cup {d}
        /\ node' = node /\ node = "active" /\ UNCHANGED <<axis, poll, valve, losses>>
    BY <1>9 DEF SetPosition, Calls
  <2>2. Given \subseteq Given' /\ setpoint' \in Given'
    BY <2>1 DEF Given
  <2>3. Streamed' = Streamed
    BY <2>1 DEF Streamed, axis
  <2>4. QED
    BY <2>1, <2>2, <2>3 DEF axis
<1>10. CASE StopPolling \/ ValveFaults \/ UNCHANGED vars
  <2>1. /\ UNCHANGED <<axis, poll, setpoint, raw, losses, since>>
        /\ valve'.setpoint = valve.setpoint
        /\ node' # "active" => node # "active"
    BY <1>1, <1>10 DEF StopPolling, ValveFaults, vars, bounds, history
  <2>2. Given' = Given /\ Streamed' = Streamed
    BY <2>1 DEF Given, Streamed, axis
  <2>3. QED
    BY <2>1, <2>2 DEF axis
<1>11. CASE ValveResets
  <2>1. /\ UNCHANGED <<node, axis, poll, setpoint, raw, losses, since>>
        /\ valve'.setpoint = 0
    BY <1>11 DEF ValveResets
  <2>2. Given' = Given /\ Streamed' = Streamed /\ 0 \in Given
    BY <2>1 DEF Given, Streamed, axis
  <2>3. QED
    BY <2>1, <2>2 DEF axis
<1>12. QED
  BY <1>2, <1>3, <1>4, <1>5, <1>6, <1>7, <1>8, <1>9, <1>10, <1>11 DEF Next, Poll

\* At first the axis is disabled and stopped, with the spool at neutral.
LEMMA ValveInit ==
  ASSUME ValveFits, Init
  PROVE  ValveTypes /\ WordFits /\ ClimbFits /\ SpoolFits
<1>1. ValveTypes
  BY ValveTypesInit
<1>2. WordFits
  BY DEF Init, WordFits, Steps
<1>3. ClimbFits
  BY DEF Init, ClimbFits, Steps
<1>4. SpoolFits
  BY DEF Init, SpoolFits, Steps, Given
<1>5. QED
  BY <1>1, <1>2, <1>3, <1>4

\* is_enabled() is true only while the valve is active, or has faulted, or was reset behind the
\* back of the axis: although nobody looks at the result of a write, if fewer words and set
\* points are lost in all than a phase sends before its last tick (a climb that loses a whole
\* phase reports enabled all the same), for any order of calls, cycles, faults and resets.
THEOREM EnabledValveIsActive == ASSUME ValveFits, FewLosses PROVE Spec => []EnabledIsActive
<1> DEFINE Inv == ValveTypes /\ WordFits /\ ClimbFits
<1>1. Init => Inv
  BY ValveInit
<1>2. Inv /\ [Next]_vars => Inv'
  BY ValveTypesNext, WordFitsNext, ClimbFitsNext
<1>3. Inv => EnabledIsActive
  BY DEF ClimbFits, EnabledIsActive
<1> HIDE DEF Inv
<1>4. QED
  BY <1>1, <1>2, <1>3, PTL DEF Spec

\* hold() and disable() stand: no word on its way can activate the valve until the next
\* enable(), whatever is lost.
THEOREM StoppedValveStaysStopped ==
  ASSUME ValveFits
  PROVE  Spec => [][stopped' /\ valve'.state = "Active" => valve.state = "Active"]_vars
<1> DEFINE Inv == ValveTypes /\ WordFits
           Stays == stopped' /\ valve'.state = "Active" => valve.state = "Active"
<1>1. Init => Inv
  BY ValveInit
<1>2. Inv /\ [Next]_vars => Inv'
  BY ValveTypesNext, WordFitsNext
<1>3. Inv /\ [Next]_vars => [Stays]_vars
  <2> SUFFICES ASSUME Inv, Next, stopped', valve'.state = "Active"
               PROVE  valve.state = "Active"
    OBVIOUS
  <2>1. valve \in [state : {"Init", "Disabled", "Hold", "Active", "Fault"},
                  setpoint : -Float .. Float]
    BY DEF ValveTypes
  <2>2. CASE WriteControlword
    <3>1. word \in {"Hold", "Disabled"}
      BY <2>2 DEF WriteControlword, WordFits
    <3>2. QED
      BY <2>1, <2>2, <3>1 DEF WriteControlword, Lose, Obeys
  <2>3. CASE StreamSetpoint \/ SendSetpoint
    BY <2>1, <2>3 DEF StreamSetpoint, SendSetpoint, Lose
  <2>4. CASE ValveFaults \/ ValveResets
    <3>1. CASE ValveFaults
      BY <2>1, <3>1 DEF ValveFaults
    <3>2. CASE ValveResets
      BY <3>2 DEF ValveResets
    <3>3. QED
      BY <2>4, <3>1, <3>2
  <2>5. CASE AdvancePhase \/ Enable \/ Recover \/ Hold \/ Disable \/ Deactivate \/ StopPolling
             \/ Activate \/ \E d \in Demands : SetPosition(d)
    BY <2>5 DEF AdvancePhase, Enable, Recover, Climb, Hold, Disable, Deactivate, Stop,
                StopPolling, Activate, SetPosition
  <2>6. QED
    BY <2>2, <2>3, <2>4, <2>5 DEF Next, Poll
<1> HIDE DEF Inv, Stays
<1>4. Spec => [][Stays]_vars
  BY <1>1, <1>2, <1>3, PTL DEF Spec
<1>5. QED
  BY <1>4 DEF Stays

\* enable() starts from neutral or from a set point demanded since (what is left of it as an
\* int16_t): one from before it has been replaced on the valve when the last phase begins, if
\* few are lost.
THEOREM ValveStartsAsAsked == ASSUME ValveFits, FewLosses PROVE Spec => StartsAsAsked
<1> DEFINE Inv == ValveTypes /\ WordFits /\ SpoolFits
           Starts == valve'.state = "Active" /\ valve.state # "Active"
                       => \E d \in since : valve'.setpoint = Asked(AsInt16(d))
<1>1. Init => Inv
  BY ValveInit
<1>2. Inv /\ [Next]_vars => Inv'
  BY ValveTypesNext, WordFitsNext, SpoolFitsNext
<1>3. Inv /\ [Next]_vars => [Starts]_vars
  <2> SUFFICES ASSUME Inv, Next, valve'.state = "Active", valve.state # "Active"
               PROVE  \E d \in since : valve'.setpoint = Asked(AsInt16(d))
    OBVIOUS
  <2>1. valve \in [state : {"Init", "Disabled", "Hold", "Active", "Fault"},
                  setpoint : -Float .. Float]
    BY DEF ValveTypes
  <2>2. WriteControlword
    <3>1. ~StreamSetpoint /\ ~SendSetpoint /\ ~ValveFaults /\ ~ValveResets
      BY <2>1 DEF StreamSetpoint, SendSetpoint, ValveFaults, ValveResets, Lose
    <3>2. UNCHANGED valve => valve'.state # "Active"
      OBVIOUS
    <3>3. QED
      BY <3>1, <3>2 DEF Next, Poll, AdvancePhase, Enable, Recover, Climb, Hold, Disable, Deactivate,
                        Stop, StopPolling, Activate, SetPosition
  <2>3. valve'.setpoint = valve.setpoint /\ Obeys(word) = "Active" /\ poll = "word"
    BY <2>1, <2>2 DEF WriteControlword, Lose
  <2>4. word = "Active"
    BY <2>1, <2>3 DEF Obeys, ValveTypes, TypeOK
  <2>5. phase \in Steps \/ (phase = "Idle" /\ word = "Active")
    BY <2>3, <2>4 DEF WordFits, Steps, ValveTypes, TypeOK, Phases, ValveFits
  <2>6. valve.setpoint \in Given /\ 0 \in since
    BY <2>5 DEF SpoolFits
  <2>7. since \subseteq Int
    BY DEF ValveTypes, TypeOK, ValveFits
  <2>8. ASSUME NEW d \in since PROVE Clamped(AsInt16(d)) = Asked(AsInt16(d))
    BY <2>7, AsInt16Fits, ClampedFits DEF ValveFits
  <2>9. 0 = Clamped(AsInt16(0))
    <3>1. (0 + 2 * Full) % (4 * Full) = 2 * Full
      BY DEF ValveFits
    <3>2. QED
      BY <3>1 DEF AsInt16, Clamped, Float, ValveFits
  <2>10. PICK d \in since : valve.setpoint = Clamped(AsInt16(d))
    BY <2>6, <2>9 DEF Given
  <2>11. QED
    BY <2>3, <2>8, <2>10
<1> HIDE DEF Inv, Starts
<1>4. Spec => [][Starts]_vars
  BY <1>1, <1>2, <1>3, PTL DEF Spec
<1>5. QED
  BY <1>4 DEF Starts, StartsAsAsked
-----------------------------------------------------------------------------
(***************************************************************************)
(* Theorems about ProfileDrivers, for any set of configurations.           *)
(***************************************************************************)
CONSTANT Configurations

VARIABLES conf, device, bus, dictionary, holder, request, datum, tpdo_mapped, writer, value,
          wrote, active, adding, wrapper, posted, activations, polling, read, published, old,
          failed, crash

Profile == INSTANCE ProfileDrivers

\* Every configuration is one of a driver.
ProfileFits == Configurations \subseteq Profile!Configuration

\* The tasks of the loop and of the node.
Living ==
  /\ active => wrapper /\ ~adding /\ posted = << >>
  /\ crash => ~active
  /\ active \in BOOLEAN /\ wrapper \in BOOLEAN /\ adding \in BOOLEAN /\ crash \in BOOLEAN

\* activate() comes only after the loop has run the task of add_to_master(), and every one
\* before it.
LEMMA LivingNext == Living /\ [Profile!Next]_(Profile!vars) => Living'
<1> SUFFICES ASSUME Living, [Profile!Next]_(Profile!vars) PROVE Living'
  OBVIOUS
<1> USE DEF Living
<1>1. CASE ~crash /\ Profile!AddToMaster
  BY <1>1 DEF Profile!AddToMaster
<1>2. CASE ~crash /\ Profile!Activated
  BY <1>2 DEF Profile!Activated
<1>3. CASE ~crash /\ Profile!Deactivate
  BY <1>3 DEF Profile!Deactivate
<1>4. CASE ~crash /\ Profile!RunTask
  BY <1>4 DEF Profile!RunTask
<1>5. CASE ~crash /\ (Profile!ReadValue \/ Profile!Publish \/ Profile!SetValue)
  <2>1. crash' = ~wrapper /\ UNCHANGED <<active, adding, wrapper, posted>>
    BY <1>5 DEF Profile!ReadValue, Profile!Publish, Profile!SetValue, Profile!living
  <2>2. crash' \in BOOLEAN /\ (wrapper => ~crash')
    BY <2>1
  <2>3. QED
    BY <2>1, <2>2
<1>6. CASE UNCHANGED <<active, wrapper, adding, posted, crash>>
  BY <1>6
<1>7. QED
  BY <1>1, <1>2, <1>3, <1>4, <1>5, <1>6
  DEF Profile!Next, Profile!Loop, Profile!PollCallback, Profile!WriteStep, Profile!Change,
      Profile!OnRpdoWrite, Profile!ServeSdo, Profile!EndSdo, Profile!FailSdo, Profile!StartPoll,
      Profile!AskForInput, Profile!GiveUpReading, Profile!ReadDictionary,
      Profile!OnDigitalOutput, Profile!Transmit, Profile!StoreInDictionary, Profile!StoreMapped,
      Profile!WriteEvent, Profile!WriteSdo, Profile!GiveUpWriting, Profile!vars, Profile!living

\* The wrapper that the callbacks use is there while the driver is active, however often it is
\* activated: the task of the last deactivation has run before activate() makes a new one.
THEOREM WrapperAlwaysStands == Profile!Spec => []Profile!WrapperStands
<1>1. Profile!Init => Living
  BY DEF Profile!Init, Living
<1>2. Living => Profile!WrapperStands
  BY DEF Living, Profile!WrapperStands
<1>3. QED
  BY <1>1, <1>2, LivingNext, PTL DEF Profile!Spec

-----------------------------------------------------------------------------
(***************************************************************************)
(* Types.                                                                  *)
(***************************************************************************)
\* A behaviour keeps its configuration, whose bounds are numbers.
ConfFits ==
  /\ conf \in Configurations \cap Profile!Configuration
  /\ conf.changes \in Nat /\ conf.writes \in Nat /\ conf.activations \in Nat

\* The way of the input.  Neither the device, nor the dictionary, nor an answer has a value
\* that is not to come.
InputTypes ==
  /\ device \in [Profile!Objects -> Nat] /\ device["input"] <= conf.changes
  /\ dictionary \in [Profile!Objects -> Nat] /\ dictionary["input"] <= conf.changes
  /\ bus \in Seq(0 .. conf.changes)
  /\ datum \in Nat /\ (request = "answered" => datum <= conf.changes)
  /\ request \in {"none", "read", "write", "answered", "written"}
  /\ polling \in Profile!PollSteps
  /\ read \in 0 .. conf.changes /\ published \in 0 .. conf.changes
  /\ old \in BOOLEAN

\* The writers of the output.
OutputTypes ==
  /\ holder \in Profile!Writers \cup {"none"}
  /\ tpdo_mapped \in 0 .. conf.writes /\ wrote \in 0 .. conf.writes
  /\ writer \in [Profile!Writers -> Profile!WriteSteps]
  /\ value \in [Profile!Writers -> 0 .. conf.writes]

\* The node.
NodeTypes ==
  /\ active \in BOOLEAN /\ adding \in BOOLEAN /\ wrapper \in BOOLEAN /\ crash \in BOOLEAN
  /\ posted \in Seq({"add", "reset"})
  /\ activations \in 0 .. conf.activations
  /\ failed \in [Profile!Objects -> BOOLEAN]

ProfileTypes == ConfFits /\ InputTypes /\ OutputTypes /\ NodeTypes

\* Of two mappings of an object that of the TPDO stays.
LEMMA MappingFits ==
  ASSUME NEW o
  PROVE  /\ Profile!Mapping(o) = "tpdo" <=> o \in conf.tpdos
         /\ Profile!Mapping(o) = "rpdo" <=> o \in conf.rpdos \ conf.tpdos
BY DEF Profile!Mapping

\* No step changes the configuration.
LEMMA ConfFitsNext ==
  ASSUME ConfFits, [Profile!Next]_(Profile!vars)
  PROVE  conf' = conf /\ ConfFits'
<1>1. conf' = conf
  BY DEF Profile!Next, Profile!Loop, Profile!PollCallback, Profile!WriteStep, Profile!vars,
         Profile!AddToMaster, Profile!Activated, Profile!Deactivate, Profile!Change,
         Profile!RunTask, Profile!OnRpdoWrite, Profile!ServeSdo, Profile!EndSdo,
         Profile!FailSdo, Profile!StartPoll, Profile!ReadValue, Profile!AskForInput,
         Profile!GiveUpReading, Profile!ReadDictionary, Profile!Publish,
         Profile!OnDigitalOutput, Profile!SetValue, Profile!Transmit,
         Profile!StoreInDictionary, Profile!StoreMapped, Profile!WriteEvent, Profile!WriteSdo,
         Profile!GiveUpWriting
<1>2. QED
  BY <1>1 DEF ConfFits

\* A value of the device goes on the bus.
LEMMA SentFits ==
  ASSUME InputTypes, conf.changes \in Nat, NEW v \in 0 .. conf.changes
  PROVE  Append(bus, v) \in Seq(0 .. conf.changes)
<1> DEFINE Values == 0 .. conf.changes
<1>1. bus \in Seq(Values) /\ v \in Values
  BY DEF InputTypes
<1> HIDE DEF Values
<1>2. Append(bus, v) \in Seq(Values)
  BY <1>1, AppendProperties
<1>3. QED
  BY <1>2 DEF Values

\* The input, read or received, is a value the device had.
LEMMA InputTypesNext ==
  ASSUME ConfFits, InputTypes, OutputTypes, [Profile!Next]_(Profile!vars)
  PROVE  InputTypes'
<1> USE DEF InputTypes, Profile!Objects, Profile!PollSteps
<1>1. conf.changes \in Nat /\ conf.writes \in Nat /\ conf' = conf
  BY ConfFitsNext DEF ConfFits
<1>2. /\ device["input"] \in 0 .. conf.changes /\ dictionary["input"] \in 0 .. conf.changes
      /\ 0 \in 0 .. conf.changes
  BY <1>1
<1>3. CASE Profile!Change
  <2>1. device' = [device EXCEPT !["input"] = @ + 1] /\ device["input"] < conf.changes
    BY <1>3 DEF Profile!Change
  <2>2. device' \in [Profile!Objects -> Nat] /\ device'["input"] = device["input"] + 1
    BY <2>1
  <2>3. device'["input"] \in 0 .. conf.changes
    BY <1>1, <1>2, <2>1, <2>2
  <2>4. bus' \in Seq(0 .. conf.changes)
    <3>1. bus' = bus \/ bus' = Append(bus, device'["input"])
      BY <1>3 DEF Profile!Change
    <3>2. Append(bus, device'["input"]) \in Seq(0 .. conf.changes)
      BY <1>1, <2>3, SentFits
    <3>3. QED
      BY <3>1, <3>2
  <2>5. QED
    BY <1>1, <1>3, <2>2, <2>3, <2>4 DEF Profile!Change, Profile!storing, Profile!asking,
       Profile!reading
<1>4. CASE Profile!Activated
  <2>1. bus' = bus \/ bus' = Append(bus, device["input"])
    BY <1>4 DEF Profile!Activated
  <2>2. Append(bus, device["input"]) \in Seq(0 .. conf.changes)
    BY <1>1, <1>2, SentFits
  <2>3. bus' \in Seq(0 .. conf.changes)
    BY <2>1, <2>2
  <2>4. QED
    BY <1>1, <1>4, <2>3 DEF Profile!Activated, Profile!storing, Profile!asking, Profile!reading
<1>5. CASE Profile!OnRpdoWrite
  <2>1. bus # << >> /\ bus' = Tail(bus)
    BY <1>5 DEF Profile!OnRpdoWrite
  <2>2. Head(bus) \in 0 .. conf.changes /\ Tail(bus) \in Seq(0 .. conf.changes)
    BY <2>1, HeadTailProperties
  <2>3. dictionary' = dictionary \/ dictionary' = [dictionary EXCEPT !["input"] = Head(bus)]
    BY <1>5 DEF Profile!OnRpdoWrite
  <2>4. Head(bus) \in Nat /\ Head(bus) <= conf.changes
    BY <1>1, <2>2
  <2>5. dictionary' \in [Profile!Objects -> Nat] /\ dictionary'["input"] <= conf.changes
    BY <2>3, <2>4
  <2>6. QED
    BY <1>1, <1>5, <2>1, <2>2, <2>5 DEF Profile!OnRpdoWrite, Profile!asking, Profile!reading
<1>6. CASE Profile!RunTask
  <2>1. /\ dictionary' = [o \in Profile!Objects |-> 0] \/ dictionary' = dictionary
        /\ published' \in {0, published} /\ datum' \in {0, datum}
        /\ request' = "none" \/ (request' = request /\ datum' = datum)
        /\ UNCHANGED <<device, bus, polling, read, old>>
    BY <1>6 DEF Profile!RunTask, Profile!Forget, Profile!asking
  <2>2. dictionary' \in [Profile!Objects -> Nat] /\ dictionary'["input"] <= conf.changes
    BY <1>1, <2>1
  <2>3. QED
    BY <1>1, <1>2, <2>1, <2>2
<1>7. CASE Profile!ServeSdo
  <2>1. CASE request = "read"
    BY <1>1, <1>2, <1>7, <2>1 DEF Profile!ServeSdo, Profile!storing, Profile!reading
  <2>2. CASE request = "write"
    <3>1. device' = [device EXCEPT !["output"] = datum] /\ request' = "written"
      BY <1>7, <2>2 DEF Profile!ServeSdo
    <3>2. device' \in [Profile!Objects -> Nat] /\ device'["input"] = device["input"]
      BY <3>1
    <3>3. QED
      BY <1>1, <1>7, <2>2, <3>1, <3>2 DEF Profile!ServeSdo, Profile!storing, Profile!reading
  <2>3. QED
    BY <1>7, <2>1, <2>2 DEF Profile!ServeSdo
<1>8. CASE Profile!EndSdo
  <2>1. /\ request' = "none" /\ datum' = 0 /\ UNCHANGED <<device, bus, published, old>>
    BY <1>8 DEF Profile!EndSdo, Profile!Forget
  <2>2. CASE request = "answered"
    <3>1. /\ dictionary' = [dictionary EXCEPT !["input"] = datum]
          /\ read' \in {datum, read} /\ polling' \in {"read", polling}
      BY <1>8, <2>2 DEF Profile!EndSdo, Profile!ReaderGoes
    <3>2. /\ dictionary' \in [Profile!Objects -> Nat] /\ dictionary'["input"] = datum
          /\ datum \in 0 .. conf.changes
      BY <1>1, <2>2, <3>1
    <3>3. QED
      BY <1>1, <2>1, <3>1, <3>2
  <2>3. CASE request = "written"
    <3>1. /\ dictionary' = [dictionary EXCEPT !["output"] = datum]
          /\ UNCHANGED <<read, polling>>
      BY <1>8, <2>3 DEF Profile!EndSdo
    <3>2. /\ dictionary' \in [Profile!Objects -> Nat]
          /\ dictionary'["input"] = dictionary["input"]
      BY <3>1
    <3>3. QED
      BY <1>1, <2>1, <3>1, <3>2
  <2>4. QED
    BY <1>8, <2>2, <2>3 DEF Profile!EndSdo
<1>9. CASE Profile!FailSdo
  <2>1. /\ request' = "none" /\ datum' = 0 /\ polling' \in {"dictionary", polling}
        /\ UNCHANGED <<device, bus, dictionary, read, published, old>>
    BY <1>9 DEF Profile!FailSdo, Profile!Forget, Profile!ReaderGoes, Profile!storing
  <2>2. QED
    BY <1>1, <2>1
<1>10. CASE Profile!AskForInput \/ Profile!GiveUpReading \/ Profile!StartPoll \/ Profile!Publish
            \/ Profile!Deactivate
  <2>1. /\ UNCHANGED <<device, bus, dictionary, read>>
        /\ old' \in BOOLEAN /\ published' \in {read, published}
        /\ polling' \in {"waiting", "dictionary", "started", "idle", polling}
        /\ (request' = "read" /\ datum' = 0) \/ (request' = request /\ datum' = datum)
    BY <1>10 DEF Profile!AskForInput, Profile!GiveUpReading, Profile!StartPoll, Profile!Publish,
       Profile!Deactivate, Profile!Ask, Profile!storing, Profile!asking
  <2>2. QED
    BY <1>1, <2>1
<1>11. CASE Profile!ReadValue \/ Profile!ReadDictionary
  <2>1. /\ read' \in {0, dictionary["input"], read} /\ polling' \in {"read", "sdo", "dictionary"}
        /\ UNCHANGED <<device, bus, dictionary, request, datum, published, old>>
    BY <1>11 DEF Profile!ReadValue, Profile!ReadDictionary, Profile!storing, Profile!asking
  <2>2. read' \in 0 .. conf.changes
    BY <1>2, <2>1
  <2>3. QED
    BY <1>1, <2>1, <2>2
<1>12. ASSUME NEW w \in Profile!Writers, Profile!StoreInDictionary(w) PROVE InputTypes'
  <2>1. /\ \/ dictionary' = dictionary
           \/ dictionary' = [dictionary EXCEPT !["output"] = value[w]]
        /\ value[w] \in Nat
    BY <1>1, <1>12 DEF Profile!StoreInDictionary, OutputTypes
  <2>2. dictionary' \in [Profile!Objects -> Nat] /\ dictionary'["input"] = dictionary["input"]
    BY <2>1
  <2>3. QED
    BY <1>1, <1>12, <2>2 DEF Profile!StoreInDictionary, Profile!asking, Profile!reading
<1>13. ASSUME NEW w \in Profile!Writers, Profile!WriteEvent(w) PROVE InputTypes'
  <2>1. device' = device \/ device' = [device EXCEPT !["output"] = tpdo_mapped]
    BY <1>13 DEF Profile!WriteEvent
  <2>2. tpdo_mapped \in Nat
    BY <1>1 DEF OutputTypes
  <2>3. device' \in [Profile!Objects -> Nat] /\ device'["input"] = device["input"]
    BY <2>1, <2>2
  <2>4. QED
    BY <1>1, <1>13, <2>3 DEF Profile!WriteEvent, Profile!asking, Profile!reading
<1>14. CASE Profile!WriteSdo
  <2>1. value["node"] \in Nat
    BY <1>1 DEF OutputTypes, Profile!Writers
  <2>2. /\ (request' = "write" /\ datum' = value["node"]) \/ (request' = request /\ datum' = datum)
        /\ UNCHANGED <<device, bus, dictionary, polling, read, published, old>>
    BY <1>14 DEF Profile!WriteSdo, Profile!Ask, Profile!asking, Profile!storing, Profile!reading
  <2>3. QED
    BY <1>1, <2>1, <2>2
<1>15. CASE UNCHANGED <<device, dictionary, bus, request, datum, polling, read, published, old>>
  BY <1>1, <1>15
<1>16. QED
  BY <1>3, <1>4, <1>5, <1>6, <1>7, <1>8, <1>9, <1>10, <1>11, <1>12, <1>13, <1>14, <1>15
  DEF Profile!Next, Profile!Loop, Profile!PollCallback, Profile!WriteStep, Profile!AddToMaster,
      Profile!OnDigitalOutput, Profile!SetValue, Profile!Transmit, Profile!StoreMapped,
      Profile!GiveUpWriting, Profile!vars, Profile!storing, Profile!asking, Profile!reading

\* A writer takes the steps of its call, with a value that was asked for.
LEMMA OutputTypesNext ==
  ASSUME ConfFits, OutputTypes, [Profile!Next]_(Profile!vars)
  PROVE  OutputTypes'
<1> USE DEF OutputTypes
<1>1. conf.writes \in Nat /\ conf' = conf
  BY ConfFitsNext DEF ConfFits
<1>2. ASSUME NEW w \in Profile!Writers, Profile!NewValue(w)
      PROVE  /\ wrote' \in 0 .. conf.writes
             /\ value' \in [Profile!Writers -> 0 .. conf.writes]
  <2>1. wrote' \in 0 .. conf.writes
    BY <1>1, <1>2 DEF Profile!NewValue
  <2>2. QED
    BY <1>2, <2>1 DEF Profile!NewValue
<1>3. ASSUME NEW w \in Profile!Writers, NEW s \in Profile!WriteSteps, Profile!Goes(w, s)
      PROVE  writer' \in [Profile!Writers -> Profile!WriteSteps]
  BY <1>3 DEF Profile!Goes
<1>4. /\ "node" \in Profile!Writers /\ "system" \in Profile!Writers
      /\ Profile!WriteSteps
           = {"idle", "tested", "dictionary", "mapped", "event", "sdo", "waiting"}
  BY DEF Profile!Writers, Profile!WriteSteps
<1>5. CASE Profile!OnDigitalOutput
  <2>1. /\ wrote' \in 0 .. conf.writes /\ value' \in [Profile!Writers -> 0 .. conf.writes]
    BY <1>2, <1>4, <1>5 DEF Profile!OnDigitalOutput
  <2>2. writer' \in [Profile!Writers -> Profile!WriteSteps]
    BY <1>3, <1>4, <1>5 DEF Profile!OnDigitalOutput
  <2>3. QED
    BY <1>1, <1>5, <2>1, <2>2 DEF Profile!OnDigitalOutput, Profile!storing
<1>6. CASE Profile!SetValue
  <2>1. writer' \in [Profile!Writers -> Profile!WriteSteps]
    BY <1>3, <1>4, <1>6 DEF Profile!SetValue
  <2>2. QED
    BY <1>1, <1>4, <1>6, <2>1 DEF Profile!SetValue
<1>7. CASE Profile!Transmit
  <2>1. /\ wrote' \in 0 .. conf.writes /\ value' \in [Profile!Writers -> 0 .. conf.writes]
    BY <1>2, <1>4, <1>7 DEF Profile!Transmit
  <2>2. /\ writer' \in [Profile!Writers -> Profile!WriteSteps]
        /\ tpdo_mapped' \in 0 .. conf.writes
    BY <1>3, <1>4, <1>7, <2>1 DEF Profile!Transmit
  <2>3. QED
    BY <1>1, <1>7, <2>1, <2>2 DEF Profile!Transmit, Profile!storing
<1>8. ASSUME NEW w \in Profile!Writers, Profile!StoreInDictionary(w) PROVE OutputTypes'
  <2>1. Profile!Goes(w, "mapped") \/ Profile!Goes(w, "event")
    BY <1>8 DEF Profile!StoreInDictionary
  <2>2. writer' \in [Profile!Writers -> Profile!WriteSteps]
    BY <1>3, <1>4, <2>1
  <2>3. QED
    BY <1>1, <1>8, <2>2 DEF Profile!StoreInDictionary
<1>9. CASE Profile!StoreMapped
  <2>1. value["node"] \in 0 .. conf.writes /\ writer' \in [Profile!Writers -> Profile!WriteSteps]
    BY <1>3, <1>4, <1>9 DEF Profile!StoreMapped
  <2>2. QED
    BY <1>1, <1>9, <2>1 DEF Profile!StoreMapped, Profile!storing
<1>10. ASSUME NEW w \in Profile!Writers, Profile!WriteEvent(w) PROVE OutputTypes'
  <2>1. writer' \in [Profile!Writers -> Profile!WriteSteps]
    BY <1>3, <1>4, <1>10 DEF Profile!WriteEvent
  <2>2. QED
    BY <1>1, <1>10, <2>1 DEF Profile!WriteEvent
<1>11. CASE Profile!WriteSdo \/ Profile!GiveUpWriting
  <2>1. Profile!Goes("node", "idle") \/ Profile!Goes("node", "waiting")
    BY <1>11 DEF Profile!WriteSdo, Profile!GiveUpWriting
  <2>2. writer' \in [Profile!Writers -> Profile!WriteSteps]
    BY <1>3, <1>4, <2>1
  <2>3. QED
    BY <1>1, <1>11, <2>2 DEF Profile!WriteSdo, Profile!GiveUpWriting, Profile!storing
<1>12. CASE Profile!EndSdo \/ Profile!FailSdo
  <2>1. /\ writer' = writer \/ Profile!WriterGoes
        /\ UNCHANGED <<holder, tpdo_mapped, wrote, value>>
    BY <1>12 DEF Profile!EndSdo, Profile!FailSdo, Profile!storing
  <2>2. writer' \in [Profile!Writers -> Profile!WriteSteps]
    BY <1>4, <2>1 DEF Profile!WriterGoes
  <2>3. QED
    BY <1>1, <2>1, <2>2
<1>13. CASE UNCHANGED <<holder, tpdo_mapped, wrote, writer, value>>
  BY <1>1, <1>13
<1>14. QED
  BY <1>5, <1>6, <1>7, <1>8, <1>9, <1>10, <1>11, <1>12, <1>13
  DEF Profile!Next, Profile!Loop, Profile!PollCallback, Profile!WriteStep, Profile!AddToMaster,
      Profile!Activated, Profile!Deactivate, Profile!Change, Profile!RunTask, Profile!ServeSdo,
      Profile!OnRpdoWrite, Profile!StartPoll, Profile!ReadValue, Profile!AskForInput,
      Profile!GiveUpReading, Profile!ReadDictionary, Profile!Publish, Profile!vars,
      Profile!storing, Profile!writing

\* The node only posts its two tasks.
LEMMA NodeTypesNext ==
  ASSUME ConfFits, NodeTypes, [Profile!Next]_(Profile!vars)
  PROVE  NodeTypes'
<1> USE DEF NodeTypes, Profile!Objects
<1>1. conf.activations \in Nat /\ conf' = conf
  BY ConfFitsNext DEF ConfFits
<1>2. CASE Profile!AddToMaster
  BY <1>1, <1>2 DEF Profile!AddToMaster
<1>3. CASE Profile!Activated \/ Profile!Deactivate
  <2>1. posted' = posted \/ posted' = Append(posted, "reset")
    BY <1>3 DEF Profile!Activated, Profile!Deactivate
  <2>2. posted' \in Seq({"add", "reset"})
    BY <2>1
  <2>3. QED
    BY <1>1, <1>3, <2>2 DEF Profile!Activated, Profile!Deactivate
<1>4. CASE Profile!RunTask
  <2>1. posted # << >> /\ posted' = Tail(posted) /\ wrapper' \in {FALSE, wrapper}
    BY <1>4 DEF Profile!RunTask
  <2>2. crash' = FALSE \/ crash' = TRUE \/ crash' = crash
    BY <1>4, Zenon DEF Profile!RunTask
  <2>3. posted' \in Seq({"add", "reset"}) /\ crash' \in BOOLEAN /\ wrapper' \in BOOLEAN
    <3>1. posted' \in Seq({"add", "reset"})
      BY <2>1, HeadTailProperties
    <3>2. crash' \in BOOLEAN
      BY <2>2, Zenon
    <3>3. wrapper' \in BOOLEAN
      BY <2>1
    <3>4. QED
      BY <3>1, <3>2, <3>3
  <2>4. failed' \in [Profile!Objects -> BOOLEAN]
    <3> DEFINE fails == failed["output"] \/ request \in {"write", "written"}
    <3>1. fails \in BOOLEAN
      BY Zenon
    <3>2. failed' = failed \/ failed' = [failed EXCEPT !["output"] = fails]
      BY <1>4 DEF Profile!RunTask
    <3> HIDE DEF fails
    <3>3. QED
      BY <3>1, <3>2
  <2>5. QED
    BY <1>1, <1>4, <2>3, <2>4 DEF Profile!RunTask
<1>5. CASE Profile!ReadValue \/ Profile!Publish \/ Profile!SetValue
  BY <1>1, <1>5 DEF Profile!ReadValue, Profile!Publish, Profile!SetValue, Profile!living
<1>6. CASE Profile!EndSdo \/ Profile!FailSdo \/ Profile!GiveUpReading
  <2>1. failed' \in [Profile!Objects -> BOOLEAN]
    BY <1>6 DEF Profile!EndSdo, Profile!FailSdo, Profile!GiveUpReading
  <2>2. QED
    BY <1>1, <1>6, <2>1 DEF Profile!EndSdo, Profile!FailSdo, Profile!GiveUpReading,
       Profile!living
<1>7. CASE UNCHANGED <<active, adding, wrapper, posted, activations, failed, crash>>
  BY <1>1, <1>7
<1>8. QED
  BY <1>2, <1>3, <1>4, <1>5, <1>6, <1>7
  DEF Profile!Next, Profile!Loop, Profile!PollCallback, Profile!WriteStep, Profile!Change,
      Profile!OnRpdoWrite, Profile!ServeSdo, Profile!StartPoll, Profile!AskForInput,
      Profile!ReadDictionary, Profile!OnDigitalOutput, Profile!Transmit,
      Profile!StoreInDictionary, Profile!StoreMapped, Profile!WriteEvent, Profile!WriteSdo,
      Profile!GiveUpWriting, Profile!vars, Profile!living

\* Every step keeps the types ...
LEMMA ProfileTypesNext ==
  ASSUME ProfileTypes, [Profile!Next]_(Profile!vars)
  PROVE  ProfileTypes'
BY ConfFitsNext, InputTypesNext, OutputTypesNext, NodeTypesNext DEF ProfileTypes

\* ... which hold at first.
LEMMA ProfileTypesInit ==
  ASSUME ProfileFits
  PROVE  Profile!Init => ProfileTypes
<1> SUFFICES ASSUME Profile!Init PROVE ProfileTypes
  OBVIOUS
<1>1. ConfFits
  BY DEF Profile!Init, ProfileFits, Profile!Configuration, ConfFits
<1>2. 0 \in 0 .. conf.changes /\ 0 \in 0 .. conf.writes /\ 0 \in 0 .. conf.activations
  BY <1>1 DEF ConfFits
<1>3. InputTypes
  <2>1. bus \in Seq(0 .. conf.changes)
    BY EmptySeq DEF Profile!Init
  <2>2. device["input"] = 0 /\ dictionary["input"] = 0 /\ conf.changes >= 0
    BY <1>1 DEF Profile!Init, Profile!Objects, ConfFits
  <2>3. QED
    BY <1>2, <2>1, <2>2 DEF Profile!Init, InputTypes, Profile!PollSteps
<1>4. OutputTypes
  BY <1>2 DEF Profile!Init, OutputTypes, Profile!Writers, Profile!WriteSteps
<1>5. NodeTypes
  BY <1>2, EmptySeq DEF Profile!Init, NodeTypes
<1>6. QED
  BY <1>1, <1>3, <1>4, <1>5 DEF ProfileTypes

\* The values, the writers, the requests, the poll callback and the node keep their types.
THEOREM ProfileTypeCorrect == ASSUME ProfileFits PROVE Profile!Spec => []Profile!TypeOK
<1>1. Profile!Init => ProfileTypes
  BY ProfileTypesInit
<1>2. ProfileTypes /\ [Profile!Next]_(Profile!vars) => ProfileTypes'
  BY ProfileTypesNext
<1>3. ProfileTypes => Profile!TypeOK
  BY DEF ProfileTypes, ConfFits, InputTypes, OutputTypes, NodeTypes, Profile!TypeOK
<1>4. QED
  BY <1>1, <1>2, <1>3, PTL DEF Profile!Spec

-----------------------------------------------------------------------------
(***************************************************************************)
(* The way of the output.                                                  *)
(***************************************************************************)
\* universal_set_value() takes the way of the PDO, and a write is under way by SDO.
ByPdo == "output" \in conf.rpdos \ conf.tpdos
Writing == request \in {"write", "written"}

\* What the two writers may be doing, what of it the device has not got yet, and whose value
\* the SDO request brings: a writer that gives up is still the last one that asked.
WritersFit ==
  /\ writer["node"] \in {"sdo", "waiting"} \/ Writing => ~ByPdo
  /\ writer["node"] \in {"dictionary", "mapped", "event"} => ByPdo
  /\ writer["system"] \in {"idle", "dictionary", "event"}
  /\ ByPdo /\ "output" \notin conf.absent =>
       device["output"] = tpdo_mapped \/ writer["node"] = "event" \/ writer["system"] # "idle"
  /\ Writing /\ writer["node"] \in {"idle", "waiting"} => datum = value["node"]
  /\ conf.rpdos = {} /\ request = "written" => device["output"] = datum
  /\ conf.rpdos = {} /\ "output" \notin conf.absent /\ ~Writing
       /\ writer["node"] \in {"idle", "waiting"} =>
         device["output"] = value["node"] \/ failed["output"] = TRUE
  /\ writer["node"] = "waiting" /\ ~Writing => failed["output"] = TRUE

\* WriteEvent() sends what is stored then: a value stored before it by the other writer goes
\* out too, one stored later has an event to come.  An SDO write waits for the one before it.
LEMMA WritersFitNext ==
  ASSUME ProfileTypes, WritersFit, [Profile!Next]_(Profile!vars)
  PROVE  WritersFit'
<1> USE DEF WritersFit, Writing, ByPdo
<1>1. /\ conf' = conf
      /\ device \in [Profile!Objects -> Nat] /\ failed \in [Profile!Objects -> BOOLEAN]
      /\ writer \in [Profile!Writers -> Profile!WriteSteps]
      /\ value \in [Profile!Writers -> 0 .. conf.writes]
      /\ request \in {"none", "read", "write", "answered", "written"}
  BY ConfFitsNext DEF ProfileTypes, InputTypes, OutputTypes, NodeTypes
<1>2. Profile!Mapping("output") = "rpdo" <=> ByPdo
  BY MappingFits
<1> USE DEF Profile!Objects, Profile!Writers, Profile!WriteSteps
<1>3. CASE Profile!Change
  BY <1>1, <1>3 DEF Profile!Change, Profile!writing, Profile!asking
<1>4. CASE Profile!RunTask
  <2>1. CASE failed' = failed /\ UNCHANGED <<request, datum>>
    BY <1>1, <1>4, <2>1 DEF Profile!RunTask, Profile!writing
  <2>2. CASE /\ request' = "none"
             /\ failed' = [failed EXCEPT !["output"] = @ \/ request \in {"write", "written"}]
    <3>1. failed["output"] = TRUE \/ Writing => failed'["output"] = TRUE
      BY <1>1, <2>2, Zenon
    <3>2. QED
      BY <1>1, <1>4, <3>1, <2>2 DEF Profile!RunTask, Profile!writing
  <2>3. QED
    BY <1>4, <2>1, <2>2 DEF Profile!RunTask, Profile!Forget, Profile!asking
<1>5. CASE Profile!ServeSdo
  BY <1>1, <1>5 DEF Profile!ServeSdo, Profile!writing
<1>6. CASE Profile!EndSdo
  <2>1. CASE request = "answered"
    BY <1>1, <1>6, <2>1 DEF Profile!EndSdo, Profile!Forget
  <2>2. CASE request = "written"
    BY <1>1, <1>6, <2>2 DEF Profile!EndSdo, Profile!Forget, Profile!WriterGoes
  <2>3. QED
    BY <1>6, <2>1, <2>2 DEF Profile!EndSdo
<1>7. CASE Profile!FailSdo
  BY <1>1, <1>7 DEF Profile!FailSdo, Profile!Forget, Profile!WriterGoes
<1>8. CASE Profile!AskForInput
  BY <1>1, <1>8 DEF Profile!AskForInput, Profile!Ask, Profile!writing
<1>9. CASE Profile!GiveUpReading
  BY <1>1, <1>9 DEF Profile!GiveUpReading, Profile!asking, Profile!writing
<1>10. CASE Profile!OnDigitalOutput
  BY <1>1, <1>10 DEF Profile!OnDigitalOutput, Profile!NewValue, Profile!Goes, Profile!asking
<1>11. CASE Profile!SetValue
  BY <1>1, <1>2, <1>11 DEF Profile!SetValue, Profile!Goes, Profile!asking
<1>12. CASE Profile!Transmit
  BY <1>1, <1>12 DEF Profile!Transmit, Profile!NewValue, Profile!Goes, Profile!asking
<1>13. ASSUME NEW w \in Profile!Writers, Profile!StoreInDictionary(w) PROVE WritersFit'
  BY <1>1, <1>13 DEF Profile!StoreInDictionary, Profile!Goes, Profile!asking
<1>14. CASE Profile!StoreMapped
  BY <1>1, <1>14 DEF Profile!StoreMapped, Profile!Goes, Profile!asking
<1>15. ASSUME NEW w \in Profile!Writers, Profile!WriteEvent(w) PROVE WritersFit'
  <2>1. /\ UNCHANGED <<conf, tpdo_mapped, value, failed, request, datum>> /\ writer[w] = "event"
        /\ writer' = [writer EXCEPT ![w] = "idle"]
        /\ device' = IF "output" \in conf.rpdos THEN [device EXCEPT !["output"] = tpdo_mapped]
                     ELSE device
    BY <1>1, <1>15 DEF Profile!WriteEvent, Profile!Goes, Profile!asking
  <2>2. CASE "output" \in conf.rpdos
    BY <1>1, <2>1, <2>2
  <2>3. CASE "output" \notin conf.rpdos
    BY <1>1, <2>1, <2>3
  <2>4. QED
    BY <2>2, <2>3
<1>16. CASE Profile!WriteSdo
  BY <1>1, <1>16 DEF Profile!WriteSdo, Profile!Goes, Profile!Ask, Profile!asking
<1>17. CASE Profile!GiveUpWriting
  BY <1>1, <1>17 DEF Profile!GiveUpWriting, Profile!Goes, Profile!asking
<1>18. CASE UNCHANGED <<conf, device, request, datum, writer, value, tpdo_mapped, failed>>
  BY <1>18
<1>19. QED
  BY <1>3, <1>4, <1>5, <1>6, <1>7, <1>8, <1>9, <1>10, <1>11, <1>12, <1>13, <1>14, <1>15, <1>16,
     <1>17, <1>18
  DEF Profile!Next, Profile!Loop, Profile!PollCallback, Profile!WriteStep, Profile!AddToMaster,
      Profile!Activated, Profile!Deactivate, Profile!OnRpdoWrite, Profile!StartPoll,
      Profile!ReadValue, Profile!ReadDictionary, Profile!Publish, Profile!vars, Profile!writing,
      Profile!asking

\* When universal_set_value() and tpdo_transmit() have come back the device has what was
\* stored last (by PDO) or asked for last (by SDO, unless that request failed), for any number
\* of values of both writers, of requests that are given up, and of activations.
THEOREM OutputAlwaysArrives == ASSUME ProfileFits PROVE Profile!Spec => []Profile!OutputArrives
<1> DEFINE Inv == ProfileTypes /\ WritersFit
<1>1. Profile!Init => Inv
  <2>1. Profile!Init => WritersFit
    BY DEF Profile!Init, WritersFit, Writing, Profile!Objects, Profile!Writers
  <2>2. QED
    BY <2>1, ProfileTypesInit
<1>2. Inv /\ [Profile!Next]_(Profile!vars) => Inv'
  BY ProfileTypesNext, WritersFitNext
<1>3. Inv => Profile!OutputArrives
  BY MappingFits DEF WritersFit, Writing, ByPdo, Profile!OutputArrives, Profile!Writers
<1> HIDE DEF Inv
<1>4. QED
  BY <1>1, <1>2, <1>3, PTL DEF Profile!Spec

-----------------------------------------------------------------------------
(***************************************************************************)
(* The way of the input.                                                   *)
(***************************************************************************)
\* The dictionary has what came last, or the value of the EDS file.
Stored == dictionary["input"]

\* What is on the bus is newer than what is stored, and in the order it was sent.
BusFits ==
  /\ Stored <= device["input"]
  /\ bus # << >> => "input" \in conf.tpdos
  /\ \A k \in 1 .. Len(bus) : Stored <= bus[k] /\ bus[k] <= device["input"]
  /\ \A k, l \in 1 .. Len(bus) : k <= l => bus[k] <= bus[l]

\* So is the answer to a request, whoever still waits for it ...
AnswerFits ==
  /\ request = "answered" => Stored <= datum /\ datum <= device["input"]
  /\ polling \in {"sdo", "waiting"} \/ request \in {"read", "answered"} =>
       "input" \notin conf.tpdos /\ "input" \notin conf.absent

\* ... and what is stored is newer than what has been read, and that than what is published,
\* unless it was read before the last deactivation: then the wrapper takes it no more.
TopicFits ==
  /\ polling = "dictionary" => "input" \notin conf.absent
  /\ "input" \in conf.absent => Stored = 0
  /\ published <= Stored
  /\ polling = "read" /\ ~old => published <= read /\ read <= Stored
  /\ ~active /\ polling # "idle" => old

ReadingFits == BusFits /\ AnswerFits /\ TopicFits /\ Living

\* The values of the input are numbers.
InputNumbers ==
  /\ device["input"] \in Nat /\ Stored \in Nat /\ datum \in Nat
  /\ read \in Nat /\ published \in Nat
  /\ bus \in Seq(Nat) /\ Len(bus) \in Nat /\ \A k \in 1 .. Len(bus) : bus[k] \in Nat

LEMMA InputNumbersFit ==
  ASSUME ProfileTypes
  PROVE  InputNumbers
<1> USE DEF InputNumbers, Stored
<1>1. bus \in Seq(0 .. conf.changes) /\ conf.changes \in Nat
  BY DEF ProfileTypes, ConfFits, InputTypes
<1>2. \A k \in 1 .. Len(bus) : bus[k] \in 0 .. conf.changes
  BY <1>1
<1>3. bus \in Seq(Nat) /\ Len(bus) \in Nat /\ \A k \in 1 .. Len(bus) : bus[k] \in Nat
  BY <1>1, <1>2
<1>4. QED
  BY <1>1, <1>3 DEF ProfileTypes, ConfFits, InputTypes, Profile!Objects

\* A newer value of the device goes to the end of the bus.
LEMMA SendingFits ==
  ASSUME InputNumbers, BusFits, conf' = conf, Stored' = Stored,
         device["input"]' \in Nat, device["input"] <= device["input"]',
         \/ bus' = bus
         \/ bus' = Append(bus, device["input"]') /\ "input" \in conf.tpdos
  PROVE  BusFits'
<1> USE DEF BusFits, InputNumbers
<1>1. CASE bus' = bus
  <2>1. \A k \in 1 .. Len(bus') : Stored' <= bus'[k] /\ bus'[k] <= device["input"]'
    <3> TAKE k \in 1 .. Len(bus')
    <3>1. bus'[k] = bus[k] /\ bus[k] \in Nat /\ Stored <= bus[k] /\ bus[k] <= device["input"]
      BY <1>1
    <3>2. QED
      BY <3>1
  <2>2. QED
    BY <1>1, <2>1
<1>2. CASE bus' = Append(bus, device["input"]') /\ "input" \in conf.tpdos
  <2>1. /\ Len(bus') = Len(bus) + 1 /\ bus'[Len(bus) + 1] = device["input"]'
        /\ \A k \in 1 .. Len(bus) : bus'[k] = bus[k]
    BY <1>2
  <2>2. \A k \in 1 .. Len(bus') : k \in 1 .. Len(bus) \/ k = Len(bus) + 1
    BY <2>1
  <2>3. \A k \in 1 .. Len(bus') : Stored <= bus'[k] /\ bus'[k] <= device["input"]'
    <3> TAKE k \in 1 .. Len(bus')
    <3>1. CASE k \in 1 .. Len(bus)
      <4>1. /\ bus'[k] = bus[k] /\ bus[k] \in Nat
            /\ Stored <= bus[k] /\ bus[k] <= device["input"]
        BY <2>1, <3>1
      <4>2. QED
        BY <4>1
    <3>2. CASE k = Len(bus) + 1
      BY <2>1, <3>2
    <3>3. QED
      BY <2>2, <3>1, <3>2
  <2>4. \A k, l \in 1 .. Len(bus') : k <= l => bus'[k] <= bus'[l]
    <3> SUFFICES ASSUME NEW k \in 1 .. Len(bus'), NEW l \in 1 .. Len(bus'), k <= l
                 PROVE  bus'[k] <= bus'[l]
      OBVIOUS
    <3>1. CASE l \in 1 .. Len(bus)
      <4>1. k \in 1 .. Len(bus)
        BY <2>2, <3>1
      <4>2. QED
        BY <2>1, <3>1, <4>1
    <3>2. CASE l = Len(bus) + 1
      BY <2>1, <2>3, <3>2
    <3>3. QED
      BY <2>2, <3>1, <3>2
  <2>5. bus' # << >>
    BY <2>1
  <2>6. Stored <= device["input"]'
    OBVIOUS
  <2>7. QED
    BY <1>2, <2>3, <2>4, <2>6
<1>3. QED
  BY <1>1, <1>2

\* The oldest value on the bus is stored, or dropped.
LEMMA ReceivingFits ==
  ASSUME InputNumbers, BusFits, conf' = conf, device["input"]' = device["input"],
         bus # << >>, bus' = Tail(bus), Stored' \in {Stored, bus[1]}
  PROVE  BusFits' /\ Stored <= Stored'
<1> USE DEF BusFits, InputNumbers
<1>1. /\ Len(bus) >= 1 /\ Len(bus') = Len(bus) - 1
      /\ \A k \in 1 .. Len(bus') : bus'[k] = bus[k + 1] /\ k + 1 \in 1 .. Len(bus)
  OBVIOUS
<1>2. /\ Stored' \in Nat /\ bus[1] \in Nat /\ bus[1] <= device["input"]
      /\ Stored <= Stored' /\ Stored' <= bus[1]
  BY <1>1
<1>3. \A k \in 1 .. Len(bus') : Stored' <= bus'[k] /\ bus'[k] <= device["input"]
  <2> TAKE k \in 1 .. Len(bus')
  <2>1. bus[1] <= bus[k + 1] /\ bus[k + 1] \in Nat
    BY <1>1
  <2>2. QED
    BY <1>1, <1>2, <2>1
<1>4. \A k, l \in 1 .. Len(bus') : k <= l => bus'[k] <= bus'[l]
  <2> SUFFICES ASSUME NEW k \in 1 .. Len(bus'), NEW l \in 1 .. Len(bus'), k <= l
               PROVE  bus'[k] <= bus'[l]
    OBVIOUS
  <2>1. k + 1 <= l + 1
    BY <1>1
  <2>2. bus[k + 1] <= bus[l + 1]
    BY <1>1, <2>1
  <2>3. QED
    BY <1>1, <2>2
<1>5. Stored' <= device["input"]'
  BY <1>2
<1>6. QED
  BY <1>2, <1>3, <1>4, <1>5

\* A PDO or an answer brings a value no older than the one before, so publish() shows none
\* that is older.
LEMMA ReadingFitsNext ==
  ASSUME ProfileTypes, ReadingFits, [Profile!Next]_(Profile!vars)
  PROVE  ReadingFits' /\ (published' >= published \/ posted' # posted)
<1> DEFINE Newer == published' >= published \/ posted' # posted
           Goal == BusFits' /\ AnswerFits' /\ TopicFits' /\ Newer
<1> SUFFICES Goal
  BY LivingNext DEF ReadingFits
<1>1. InputNumbers /\ BusFits /\ AnswerFits /\ TopicFits /\ Living
  BY InputNumbersFit DEF ReadingFits
<1>2. /\ conf' = conf
      /\ device \in [Profile!Objects -> Nat] /\ dictionary \in [Profile!Objects -> Nat]
      /\ polling \in Profile!PollSteps /\ old \in BOOLEAN /\ active \in BOOLEAN
  BY ConfFitsNext DEF ProfileTypes, InputTypes, NodeTypes
<1>3. /\ device["input"] \in Nat /\ Stored \in Nat /\ datum \in Nat
      /\ read \in Nat /\ published \in Nat
  BY <1>1 DEF InputNumbers
<1> USE DEF AnswerFits, TopicFits, Profile!Objects, Profile!PollSteps
<1>4. CASE Profile!Change
  <2>1. /\ device'["input"] = device["input"] + 1
        /\ \/ bus' = bus
           \/ bus' = Append(bus, device'["input"]) /\ "input" \in conf.tpdos
        /\ UNCHANGED <<dictionary, request, datum, polling, read, published, old, active>>
    BY <1>2, <1>4 DEF Profile!Change, Profile!storing, Profile!reading, Profile!living,
       Profile!asking
  <2>2. BusFits'
    BY <1>1, <1>2, <1>3, <2>1, SendingFits DEF Stored
  <2>3. QED
    BY <1>1, <1>2, <1>3, <2>1, <2>2 DEF Stored
<1>5. CASE Profile!Activated
  <2>1. /\ UNCHANGED <<device, dictionary, request, datum, polling, read, published, old>>
        /\ active' = TRUE /\ ~active
        /\ \/ bus' = bus
           \/ bus' = Append(bus, device["input"]) /\ "input" \in conf.tpdos
    BY <1>1, <1>5 DEF Profile!Activated, Profile!storing, Profile!reading, Profile!asking, Living
  <2>2. BusFits'
    BY <1>1, <1>2, <1>3, <2>1, SendingFits DEF Stored
  <2>3. QED
    BY <1>1, <1>2, <1>3, <2>1, <2>2 DEF Stored
<1>6. CASE Profile!Deactivate
  <2>1. polling # "idle" => old'
    BY <1>6, Zenon DEF Profile!Deactivate
  <2>2. /\ UNCHANGED <<device, bus, dictionary, request, datum, polling, read, published>>
        /\ active' = FALSE /\ active = TRUE
    BY <1>2, <1>6 DEF Profile!Deactivate, Profile!storing, Profile!asking
  <2>3. BusFits'
    BY <1>1, <1>2, <2>2 DEF BusFits, Stored
  <2>4. old' = TRUE \/ polling = "idle" \/ polling # "read"
    BY <2>1, Zenon
  <2>5. TopicFits'
    BY <1>1, <1>2, <1>3, <2>1, <2>2, <2>4 DEF Stored
  <2>6. QED
    BY <1>1, <1>2, <1>3, <2>2, <2>3, <2>5 DEF Stored
<1>7. CASE Profile!RunTask
  <2>1. ~active /\ UNCHANGED <<device, bus, polling, read, old, active>>
    BY <1>1, <1>7 DEF Profile!RunTask, Living, Profile!reading
  <2>2. posted' # posted
    <3>1. posted \in Seq({"add", "reset"}) /\ posted # << >> /\ posted' = Tail(posted)
      BY <1>7 DEF Profile!RunTask, ProfileTypes, NodeTypes
    <3>2. Len(posted') = Len(posted) - 1 /\ Len(posted) \in Nat
      BY <3>1
    <3>3. QED
      BY <3>2
  <2>3. CASE /\ dictionary' = [o \in Profile!Objects |-> 0] /\ published' = 0
             /\ UNCHANGED <<request, datum>>
    <3>1. Stored' = 0
      BY <2>3 DEF Stored
    <3>2. BusFits'
      BY <1>1, <1>2, <1>3, <2>1, <3>1 DEF BusFits, InputNumbers
    <3>3. QED
      BY <1>1, <1>2, <1>3, <2>1, <2>2, <2>3, <3>1, <3>2
  <2>4. CASE request' = "none" /\ UNCHANGED <<dictionary, published>>
    <3>1. BusFits'
      BY <1>1, <1>2, <1>3, <2>1, <2>4 DEF BusFits, Stored
    <3>2. QED
      BY <1>1, <1>2, <1>3, <2>1, <2>2, <2>4, <3>1 DEF Stored
  <2>5. QED
    BY <1>7, <2>3, <2>4 DEF Profile!RunTask, Profile!Forget, Profile!asking
<1>8. CASE Profile!ServeSdo
  <2>1. /\ UNCHANGED <<bus, dictionary, polling, read, published, old, active>>
        /\ device'["input"] = device["input"]
        /\ \/ request = "read" /\ request' = "answered" /\ datum' = device["input"]
           \/ request' = "written"
    BY <1>2, <1>8 DEF Profile!ServeSdo, Profile!storing, Profile!reading, Profile!living
  <2>2. BusFits'
    BY <1>1, <1>2, <1>3, <2>1 DEF BusFits, Stored
  <2>3. Stored <= device["input"]
    BY <1>1 DEF BusFits
  <2>4. QED
    BY <1>1, <1>2, <1>3, <2>1, <2>2, <2>3 DEF Stored
<1>9. CASE Profile!EndSdo
  <2>1. CASE request = "answered"
    <3>1. /\ UNCHANGED <<device, bus, published, old, active>> /\ request' = "none"
          /\ dictionary' = [dictionary EXCEPT !["input"] = datum]
          /\ polling' = IF polling = "waiting" THEN "read" ELSE polling
          /\ read' = IF polling = "waiting" THEN datum ELSE read
      BY <1>9, <2>1 DEF Profile!EndSdo, Profile!Forget, Profile!ReaderGoes, Profile!living
    <3>2. Stored' = datum
      BY <1>2, <3>1 DEF Stored
    <3>3. bus = << >> /\ Stored <= datum /\ datum <= device["input"]
      BY <1>1, <2>1 DEF BusFits
    <3>4. BusFits'
      BY <1>1, <3>1, <3>2, <3>3 DEF BusFits
    <3>5. published <= datum
      BY <1>1, <1>3, <3>3
    <3>6. CASE polling = "waiting"
      BY <1>1, <1>2, <1>3, <2>1, <3>1, <3>2, <3>3, <3>4, <3>5, <3>6
    <3>7. CASE polling # "waiting"
      BY <1>1, <1>2, <1>3, <2>1, <3>1, <3>2, <3>3, <3>4, <3>5, <3>7
    <3>8. QED
      BY <3>6, <3>7
  <2>2. CASE request = "written"
    <3>1. /\ UNCHANGED <<device, bus, polling, read, published, old, active>>
          /\ request' = "none" /\ dictionary'["input"] = dictionary["input"]
      BY <1>2, <1>9, <2>2 DEF Profile!EndSdo, Profile!Forget, Profile!living
    <3>2. QED
      BY <1>1, <1>2, <1>3, <3>1 DEF BusFits, Stored
  <2>3. QED
    BY <1>9, <2>1, <2>2 DEF Profile!EndSdo
<1>10. CASE Profile!FailSdo
  <2>1. /\ UNCHANGED <<device, bus, dictionary, read, published, old, active>>
        /\ request' = "none"
        /\ polling' = polling \/ (polling = "waiting" /\ polling' = "dictionary")
    BY <1>10 DEF Profile!FailSdo, Profile!Forget, Profile!ReaderGoes, Profile!storing,
       Profile!living
  <2>2. BusFits'
    BY <1>1, <1>2, <1>3, <2>1 DEF BusFits, Stored
  <2>3. QED
    BY <1>1, <1>2, <1>3, <2>1, <2>2 DEF Stored
<1>11. CASE Profile!OnRpdoWrite
  <2>1. /\ bus # << >> /\ bus' = Tail(bus) /\ Stored' \in {Stored, bus[1]}
        /\ ("input" \in conf.absent => Stored' = Stored)
        /\ UNCHANGED <<device, request, datum, polling, read, published, old, active>>
    BY <1>2, <1>11 DEF Profile!OnRpdoWrite, Profile!asking, Profile!reading, Profile!living, Stored
  <2>2. BusFits' /\ Stored <= Stored'
    BY <1>1, <1>2, <1>3, <2>1, ReceivingFits
  <2>3. request \notin {"read", "answered"}
    BY <1>1, <2>1 DEF BusFits
  <2>4. Stored \in Nat /\ Stored' \in Nat
    <3>1. bus[1] \in Nat
      BY <1>1, <2>1 DEF InputNumbers
    <3>2. QED
      BY <1>3, <2>1, <3>1
  <2>5. QED
    BY <1>1, <1>2, <1>3, <2>1, <2>2, <2>3, <2>4
<1>12. CASE Profile!StartPoll
  BY <1>1, <1>2, <1>3, <1>12 DEF Profile!StartPoll, Profile!storing, Profile!asking, Profile!living,
     BusFits, Stored
<1>13. CASE Profile!ReadValue
  <2>1. /\ UNCHANGED <<device, bus, dictionary, request, datum, published, old, active>>
        /\ polling = "started"
        /\ \/ "input" \in conf.absent /\ polling' = "read" /\ read' = 0
           \/ /\ "input" \notin conf.absent
              /\ polling' = "dictionary" \/ ("input" \notin conf.tpdos /\ polling' = "sdo")
    BY <1>13, MappingFits DEF Profile!ReadValue, Profile!storing, Profile!asking, Profile!living
  <2>2. BusFits'
    BY <1>1, <1>2, <1>3, <2>1 DEF BusFits, Stored
  <2>3. QED
    BY <1>1, <1>2, <1>3, <2>1, <2>2 DEF Stored
<1>14. CASE Profile!AskForInput
  BY <1>1, <1>2, <1>3, <1>14 DEF Profile!AskForInput, Profile!Ask, Profile!storing, Profile!living,
     BusFits, Stored
<1>15. CASE Profile!GiveUpReading
  BY <1>1, <1>2, <1>3, <1>15 DEF Profile!GiveUpReading, Profile!storing, Profile!asking,
     Profile!living, BusFits, Stored
<1>16. CASE Profile!ReadDictionary
  BY <1>1, <1>2, <1>3, <1>16 DEF Profile!ReadDictionary, Profile!storing, Profile!asking,
     Profile!living, BusFits, Stored
<1>17. CASE Profile!Publish
  BY <1>1, <1>2, <1>3, <1>17 DEF Profile!Publish, Profile!storing, Profile!asking, Profile!living,
     BusFits, Stored
<1>18. ASSUME NEW w \in Profile!Writers,
              Profile!StoreInDictionary(w) \/ Profile!WriteEvent(w)
       PROVE Goal
  <2>1. /\ dictionary'["input"] = dictionary["input"] /\ device'["input"] = device["input"]
        /\ UNCHANGED <<bus, request, datum, polling, read, published, old, active>>
    BY <1>2, <1>18 DEF Profile!StoreInDictionary, Profile!WriteEvent, Profile!reading,
       Profile!asking, Profile!living
  <2>2. QED
    BY <1>1, <1>2, <1>3, <2>1 DEF BusFits, Stored
<1>19. CASE Profile!WriteSdo
  <2>1. /\ UNCHANGED <<device, dictionary, bus, polling, read, published, old, active>>
        /\ request' \in {request, "write"} /\ (request' = request => datum' = datum)
    BY <1>19 DEF Profile!WriteSdo, Profile!Ask, Profile!storing, Profile!reading,
       Profile!living, Profile!asking
  <2>2. QED
    BY <1>1, <1>2, <1>3, <2>1 DEF BusFits, Stored
<1>20. CASE UNCHANGED <<conf, device, dictionary, bus, request, datum, polling, read, published,
                        old, active>>
  BY <1>1, <1>2, <1>3, <1>20 DEF BusFits, Stored
<1>21. QED
  <2> HIDE DEF Goal
  <2>1. QED
    BY <1>4, <1>5, <1>6, <1>7, <1>8, <1>9, <1>10, <1>11, <1>12, <1>13, <1>14, <1>15, <1>16,
       <1>17, <1>18, <1>19, <1>20
    DEF Profile!Next, Profile!Loop, Profile!PollCallback, Profile!WriteStep,
        Profile!AddToMaster, Profile!OnDigitalOutput, Profile!SetValue, Profile!Transmit,
        Profile!StoreMapped, Profile!GiveUpWriting, Profile!vars, Profile!storing,
        Profile!reading, Profile!asking, Profile!living

\* publish() never goes back to an older value of the device until the driver is added again,
\* for any number of changes, activations, PDOs on the bus and failed requests.
THEOREM TopicNeverGoesBack == ASSUME ProfileFits PROVE Profile!Spec => Profile!NeverOlder
<1> DEFINE Inv == ProfileTypes /\ ReadingFits
           Newer == published' >= published \/ posted' # posted
<1>1. Profile!Init => Inv
  <2>1. Profile!Init => ReadingFits
    <3> SUFFICES ASSUME Profile!Init PROVE ReadingFits
      OBVIOUS
    <3>1. Stored = 0 /\ device["input"] = 0 /\ bus = << >>
      BY DEF Profile!Init, Stored, Profile!Objects
    <3>2. Len(bus) = 0
      BY <3>1
    <3>3. BusFits
      BY <3>1, <3>2 DEF BusFits
    <3>4. Living
      BY DEF Profile!Init, Living
    <3>5. polling = "idle" /\ request = "none" /\ published = 0
      BY DEF Profile!Init
    <3>6. AnswerFits /\ TopicFits
      BY <3>1, <3>5 DEF AnswerFits, TopicFits
    <3>7. QED
      BY <3>3, <3>4, <3>6 DEF ReadingFits
  <2>2. QED
    BY <2>1, ProfileTypesInit
<1>2. Inv /\ [Profile!Next]_(Profile!vars) => Inv' /\ Newer
  BY ProfileTypesNext, ReadingFitsNext
<1> HIDE DEF Inv, Newer
<1>3. Profile!Spec => [][Newer]_(Profile!vars)
  BY <1>1, <1>2, PTL DEF Profile!Spec
<1>4. QED
  BY <1>3 DEF Newer, Profile!NeverOlder

=============================================================================
