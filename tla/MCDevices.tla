----------------------------- MODULE MCDevices -----------------------------
(***************************************************************************)
(* Instances of DeviceContainer, ProfileDrivers and ValveDriver for TLC.   *)
(* The three have nothing in common: a behaviour is one of a container, or *)
(* one of the values of a driver, or one of a valve.                       *)
(***************************************************************************)
EXTENDS DeviceContainer, Integers

Device(name, id, component) ==
  [name |-> name, id |-> id, complete |-> TRUE, component |-> component]

Options == Device("options", 0, "plain")

\* the master first, second or last; two drivers, with ids of their own or not; a
\* component of every kind
BusConfigurations ==
  LET drivers == {Device("driver", i, c) : i \in 1 .. 3, c \in {"plain", "lifecycle"}}
      masters == {Device("master", 1, "plain"), Device("master", 1, "lifecycle")} IN
  {<<Options, m, d, e>> : m \in masters, d \in drivers, e \in drivers}
  \cup {<<d, m, Device("mastered", 1, "missing"), Device("optional", 2, "throws")>> :
          d \in drivers, m \in masters}
  \cup {<<Device("driver", 2, c), m>> : c \in {"missing", "throws"}, m \in masters}
  \cup {<<[d EXCEPT !.complete = FALSE], Device("master", 1, "plain")>> : d \in drivers}
  \cup {<<Device("mastered", 4, "plain"), d, Device("master", 1, "plain")>> : d \in drivers}
  \cup {<<d>> : d \in drivers}

-----------------------------------------------------------------------------
\* the variables of ProfileDrivers; "pconf" is its "conf"
VARIABLES
  part, pconf, device, bus, dictionary, holder, request, datum, tpdo_mapped, writer, value,
  wrote, active, adding, wrapper, posted, activations, polling, read, published, old, failed,
  crash

values == <<pconf, device, bus, dictionary, holder, request, datum, tpdo_mapped, writer, value,
            wrote, active, adding, wrapper, posted, activations, polling, read, published, old,
            failed, crash>>

\* an input by TPDO and an output by RPDO
Mapped ==
  [rpdos |-> {"output"}, tpdos |-> {"input"}, absent |-> {}, fails |-> FALSE, changes |-> 2,
   writes |-> 2, activations |-> 1]

\* No PDO maps them; requests may fail, and the dictionary may lack the objects.
Unmapped(fails, absent) ==
  [Mapped EXCEPT !.rpdos = {}, !.tpdos = {}, !.absent = absent, !.fails = fails]

\* the driver is activated twice, and one value written
Twice(c) == [c EXCEPT !.activations = 2, !.writes = 1]

\* A TPDO maps the output too; the dictionary lacks the input.
ValueConfigurations ==
  {Mapped, Twice(Mapped),
   [Mapped EXCEPT !.tpdos = {"input", "output"}], [Mapped EXCEPT !.absent = {"input"}]}
  \cup UNION {{Unmapped(f, a), Twice(Unmapped(f, a))} : f \in BOOLEAN, a \in {{}, {"input", "output"}}}

Profile == INSTANCE ProfileDrivers WITH conf <- pconf, Configurations <- ValueConfigurations

-----------------------------------------------------------------------------
\* the constants and the variables of ValveDriver
CONSTANTS Dwell, Full, MaxCalls, MaxFaults, MaxLosses

ASSUME ValveAssumption ==
  /\ Dwell \in Nat \ {0} /\ Full \in Nat \ {0}
  /\ MaxCalls \in Nat /\ MaxFaults \in Nat /\ MaxLosses \in Nat

VARIABLES node, phase, ticks, word, enabled, setpoint, poll, raw, calls, valve, faults, losses,
          stopped, upset, since

hydraulics == <<node, phase, ticks, word, enabled, setpoint, poll, raw, calls, valve, faults,
                losses, stopped, upset, since>>

\* With a full stroke of 2 the sentinel for "float" is 3, and an int16_t holds -4 .. 3: half
\* and full stroke, floating, and three times the full stroke.
Demands == {-3, 1, 3, 6}

Valve == INSTANCE ValveDriver

-----------------------------------------------------------------------------
\* a part that a behaviour is not about does nothing
MCInit ==
  /\ part \in {"container", "values", "valve"}
  /\ Init /\ (part # "container" => conf = CHOOSE c \in Configurations : TRUE)
  /\ Profile!Init /\ (part # "values" => pconf = Mapped)
  /\ Valve!Init

MCNext ==
  \/ part = "container" /\ Next /\ UNCHANGED <<part, values, hydraulics>>
  \/ part = "values" /\ Profile!Next /\ UNCHANGED <<part, vars, hydraulics>>
  \/ part = "valve" /\ Valve!Next /\ UNCHANGED <<part, vars, values>>

\* Each part under its own fairness: a thread of one is a thread of all.
InitOrLoopOrPoll ==
  \/ part = "container" /\ InitThread /\ ended = "no" /\ UNCHANGED <<part, values, hydraulics>>
  \/ part = "values" /\ Profile!Loop /\ ~crash /\ UNCHANGED <<part, vars, hydraulics>>
  \/ part = "valve" /\ Valve!Poll /\ UNCHANGED <<part, vars, values>>

ClosingOrCallback ==
  \/ part = "container" /\ Closing /\ ended = "no" /\ UNCHANGED <<part, values, hydraulics>>
  \/ part = "values" /\ Profile!PollCallback /\ ~crash /\ UNCHANGED <<part, vars, hydraulics>>

Write == part = "values" /\ Profile!WriteStep /\ ~crash /\ UNCHANGED <<part, vars, hydraulics>>

mcvars == <<part, vars, values, hydraulics>>

MCSpec ==
  /\ MCInit /\ [][MCNext]_mcvars
  /\ WF_mcvars(InitOrLoopOrPoll) /\ WF_mcvars(ClosingOrCallback) /\ WF_mcvars(Write)

\* InitEnds of the container: init() ends, and so does a process that is interrupted, unless
\* the interrupt came while a driver waited for init_driver.
InitEndsHere == <>[](part # "container" \/ Over)

\* The value of an input that the topic shows never goes back and becomes the newest one, and
\* the device has the value of an output that was written last (ProfileDrivers).
ValuesArrive == Profile!ValuesArrive

\* The valve does what the services of its axis ask for: it is active while the axis says that
\* it is enabled, stays stopped, and starts its spool where it was asked to (ValveDriver).
ValveObeys == Valve!ValveObeys
=============================================================================
