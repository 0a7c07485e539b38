--------------------------- MODULE ProfileDrivers ---------------------------
(***************************************************************************)
(* The way of a value through a driver of the CiA 401, 408 and 410          *)
(* families: from the device to a topic (an input byte, a slope, a spool    *)
(* position), and from a topic or a service to the device (an output byte,  *)
(* a preset, a set point), by PDO through the local dictionary of the       *)
(* bridge, or by SDO if no PDO maps the object.                             *)
(*                                                                         *)
(* Threads: the poll timer reads and publishes; "node" (the node's default  *)
(* callback group) and "system" (write() of a ros2_control system) write;   *)
(* the loop of the master receives PDOs and runs posted tasks.  SdoGate     *)
(* shows how SDO calls wait for each other and find their answers; here they *)
(* are served one after another.  (An SDO call that throws at once, and     *)
(* leaves the gate shut, is in SdoGate too.)                                *)
(*                                                                         *)
(* The values of the input are numbered as the device takes them; so are    *)
(* those of the output as they are asked for, over all writers.             *)
(***************************************************************************)
EXTENDS Naturals, Sequences

CONSTANT Configurations   \* what a behaviour may begin with

VARIABLES
  conf,
  device,       \* the values the device has
  bus,          \* PDOs on their way to the master
  dictionary,   \* the local dictionary of the bridge, and the thread that holds its mutex
  holder,
  request,      \* the SDO request under way, and the value it brings
  datum,
  tpdo_mapped,  \* the output in the data of the master's PDO
  writer,       \* what each writer does next, and the value it writes
  value,
  wrote,        \* how many values have been asked for
  active,       \* is the driver activated, or is it being added?
  adding,
  wrapper,      \* is remote_, inclinometer_ or axis_ set?
  posted,       \* tasks of the loop
  activations,
  polling,      \* where the poll callback is
  read,         \* the value it read
  published,    \* the last value on the topic since the driver was added
  old,          \* history: did the callback begin before the last deactivation?
  failed,       \* history: did the last read, the last write fail?
  crash

asking == <<request, datum>>
writing == <<tpdo_mapped, writer, value, wrote>>
reading == <<polling, read, published, old>>
living == <<active, adding, wrapper, posted, activations>>
storing == <<dictionary, holder>>
vars == <<conf, device, bus, storing, asking, writing, reading, living, failed, crash>>

Objects == {"input", "output"}
Writers == {"node", "system"}

\* fetchRPDO() and fetchTPDO(): of two mappings of an object, that of the TPDO stays.
Mapping(o) ==
  CASE o \in conf.tpdos -> "tpdo"
    [] o \in conf.rpdos \ conf.tpdos -> "rpdo"
    [] OTHER -> "none"

\* A configuration: the objects that RPDOs and TPDOs of the device map, is an input or an
\* output not in the dictionary, may an SDO request fail; how often the device changes
\* its input, values are written, and the driver is activated.
Configuration ==
  [rpdos : SUBSET Objects, tpdos : SUBSET Objects, absent : SUBSET Objects, fails : BOOLEAN,
   changes : Nat, writes : Nat, activations : Nat]

PollSteps == {"idle", "started", "sdo", "waiting", "dictionary", "read"}
WriteSteps == {"idle", "tested", "dictionary", "mapped", "event", "sdo", "waiting"}

TypeOK ==
  /\ conf \in Configurations \cap Configuration
  /\ device \in [Objects -> Nat] /\ dictionary \in [Objects -> Nat]
  /\ bus \in Seq(0 .. conf.changes)
  /\ holder \in Writers \cup {"none"}
  /\ request \in {"none", "read", "write", "answered", "written"} /\ datum \in Nat
  /\ tpdo_mapped \in 0 .. conf.writes /\ wrote \in 0 .. conf.writes
  /\ writer \in [Writers -> WriteSteps]
  /\ value \in [Writers -> 0 .. conf.writes]
  /\ active \in BOOLEAN /\ adding \in BOOLEAN /\ wrapper \in BOOLEAN
  /\ posted \in Seq({"add", "reset"})
  /\ activations \in 0 .. conf.activations
  /\ polling \in PollSteps
  /\ {read, published} \subseteq 0 .. conf.changes
  /\ old \in BOOLEAN /\ failed \in [Objects -> BOOLEAN] /\ crash \in BOOLEAN

Init ==
  /\ conf \in Configurations
  /\ device = [o \in Objects |-> 0] /\ dictionary = [o \in Objects |-> 0]
  /\ bus = << >> /\ holder = "none"
  /\ request = "none" /\ datum = 0
  /\ tpdo_mapped = 0 /\ wrote = 0
  /\ writer = [w \in Writers |-> "idle"] /\ value = [w \in Writers |-> 0]
  /\ active = FALSE /\ adding = FALSE /\ wrapper = FALSE /\ posted = << >> /\ activations = 0
  /\ polling = "idle" /\ read = 0 /\ published = 0 /\ old = FALSE
  /\ failed = [o \in Objects |-> FALSE] /\ crash = FALSE

-----------------------------------------------------------------------------
(***************************************************************************)
(* The node: what makes the bridge and the wrapper, and takes them away.   *)
(***************************************************************************)

\* add_to_master() of the base driver posts a task and waits for it ...
AddToMaster ==
  /\ ~active /\ ~adding /\ writer["node"] = "idle"
  /\ activations < conf.activations
  /\ activations' = activations + 1
  /\ adding' = TRUE
  /\ posted' = Append(posted, "add")
  /\ UNCHANGED <<conf, device, bus, storing, asking, writing, reading, active, wrapper, failed,
                 crash>>

\* ... and for the device to boot, which sends its TPDO as it becomes operational; then the
\* driver makes the wrapper, and activate() starts the poll timer.
Activated ==
  /\ adding /\ posted = << >>
  /\ adding' = FALSE /\ wrapper' = TRUE /\ active' = TRUE
  /\ bus' = IF "input" \in conf.tpdos THEN Append(bus, device["input"]) ELSE bus
  /\ UNCHANGED <<conf, device, storing, asking, writing, reading, posted, activations, failed,
                 crash>>

\* deactivate() stops the timer, and posts a task that takes the wrapper away.
Deactivate ==
  /\ active /\ writer["node"] = "idle"
  /\ active' = FALSE
  /\ posted' = Append(posted, "reset")
  /\ old' = (polling # "idle")
  /\ UNCHANGED <<conf, device, bus, storing, asking, writing, polling, read, published, adding,
                 wrapper, activations, failed, crash>>

Forget == request' = "none" /\ datum' = 0

InUse == request # "none" \/ polling # "idle" \/ \E w \in Writers : writer[w] # "idle"

\* The wrapper is the last to hold the bridge: whoever still uses that may crash.  A new
\* bridge has a dictionary of its own, with the values of the EDS file.
RunTask ==
  /\ posted # << >>
  /\ posted' = Tail(posted)
  /\ \/ /\ Head(posted) = "add"
        /\ dictionary' = [o \in Objects |-> 0] /\ published' = 0
        /\ UNCHANGED <<asking, wrapper, failed, crash>>
     \/ /\ Head(posted) = "reset"
        /\ wrapper' = FALSE /\ Forget
        /\ failed' = [failed EXCEPT !["output"] = @ \/ request \in {"write", "written"}]
        /\ crash' = FALSE \/ (InUse /\ crash' = TRUE)
        /\ UNCHANGED <<dictionary, published>>
  /\ UNCHANGED <<conf, device, bus, holder, writing, polling, read, old, active, adding,
                 activations>>

-----------------------------------------------------------------------------
(***************************************************************************)
(* SDO requests.                                                           *)
(***************************************************************************)

Ask(kind, v) == request = "none" /\ request' = kind /\ datum' = v

\* The device answers with its input, or takes the output.
ServeSdo ==
  /\ \/ request = "read" /\ request' = "answered" /\ datum' = device["input"] /\ UNCHANGED device
     \/ /\ request = "write" /\ request' = "written"
        /\ device' = [device EXCEPT !["output"] = datum] /\ UNCHANGED datum
  /\ UNCHANGED <<conf, bus, storing, writing, reading, living, failed, crash>>

\* Whoever asked goes on, unless it has given up.
ReaderGoes(step) == polling' = IF polling = "waiting" THEN step ELSE polling

WriterGoes == writer' = [writer EXCEPT !["node"] = IF @ = "waiting" THEN "idle" ELSE @]

\* Mutant of EndSdo: the value of a read is handed over, and not stored.
EndSdoUnstored ==
  /\ holder = "none"
  /\ Forget
  /\ \/ /\ request = "answered"
        /\ ReaderGoes("read")
        /\ read' = IF polling = "waiting" THEN datum ELSE read
        /\ failed' = [failed EXCEPT !["input"] = @ /\ polling # "waiting"]
        /\ UNCHANGED writer
     \/ /\ request = "written"
        /\ WriterGoes
        /\ failed' = [failed EXCEPT !["output"] = FALSE]
        /\ UNCHANGED <<polling, read>>
  /\ UNCHANGED <<conf, device, bus, dictionary, holder, tpdo_mapped, value, wrote, published, old,
                 living, crash>>

\* A request that succeeds stores its value in the dictionary, also if nobody waits for it
\* any more.
EndSdo ==
  /\ holder = "none"
  /\ Forget
  /\ \/ /\ request = "answered"
        /\ dictionary' = [dictionary EXCEPT !["input"] = datum]
        /\ ReaderGoes("read")
        /\ read' = IF polling = "waiting" THEN datum ELSE read
        /\ failed' = [failed EXCEPT !["input"] = @ /\ polling # "waiting"]
        /\ UNCHANGED writer
     \/ /\ request = "written"
        /\ dictionary' = [dictionary EXCEPT !["output"] = datum]
        /\ WriterGoes
        /\ failed' = [failed EXCEPT !["output"] = FALSE]
        /\ UNCHANGED <<polling, read>>
  /\ UNCHANGED <<conf, device, bus, holder, tpdo_mapped, value, wrote, published, old, living,
                 crash>>

\* One that fails, before or after the device has served it, stores nothing.
FailSdo ==
  /\ conf.fails
  /\ Forget
  /\ \/ /\ request \in {"read", "answered"}
        /\ ReaderGoes("dictionary")
        /\ failed' = [failed EXCEPT !["input"] = TRUE]
        /\ UNCHANGED writer
     \/ /\ request \in {"write", "written"}
        /\ WriterGoes
        /\ failed' = [failed EXCEPT !["output"] = TRUE]
        /\ UNCHANGED polling
  /\ UNCHANGED <<conf, device, bus, storing, tpdo_mapped, value, wrote, read, published, old,
                 living, crash>>

-----------------------------------------------------------------------------
(***************************************************************************)
(* From the device to the topic.                                           *)
(***************************************************************************)

\* The device changes its input, and sends its TPDO.
Change ==
  /\ device["input"] < conf.changes
  /\ device' = [device EXCEPT !["input"] = @ + 1]
  /\ bus' = IF "input" \in conf.tpdos THEN Append(bus, device'["input"]) ELSE bus
  /\ UNCHANGED <<conf, storing, asking, writing, reading, living, failed, crash>>

\* There is a bridge from the task of add_to_master() to that of deactivate().
Bridge == wrapper \/ (adding /\ posted = << >>)

\* OnRpdoWrite() stores what has come; an object the dictionary lacks is dropped, and so is
\* what comes while there is no bridge.
OnRpdoWrite ==
  /\ bus # << >> /\ holder = "none"
  /\ dictionary' = IF "input" \in conf.absent \/ ~Bridge THEN dictionary
                   ELSE [dictionary EXCEPT !["input"] = Head(bus)]
  /\ bus' = Tail(bus)
  /\ UNCHANGED <<conf, device, holder, asking, writing, reading, living, failed, crash>>

\* poll_timer_callback() and publish(): nothing without the wrapper.
StartPoll ==
  /\ active /\ polling = "idle"
  /\ polling' = IF wrapper THEN "started" ELSE "idle"
  /\ old' = FALSE
  /\ UNCHANGED <<conf, device, bus, storing, asking, writing, read, published, living, failed,
                 crash>>

\* read_u8(), read_slope_rad(), get_spool_position(): through the wrapper, which may be
\* gone by now.  An object the dictionary lacks reads as 0.
ReadValue ==
  /\ polling = "started"
  /\ crash' = ~wrapper
  /\ \/ /\ "input" \in conf.absent
        /\ polling' = "read" /\ read' = 0
     \/ /\ "input" \notin conf.absent
        /\ polling' = (IF Mapping("input") = "tpdo" THEN "dictionary" ELSE "sdo")
        /\ UNCHANGED read
  /\ UNCHANGED <<conf, device, bus, storing, asking, writing, published, old, living, failed>>

\* universal_get_value(): what no TPDO maps is asked of the device ...
AskForInput ==
  /\ polling = "sdo"
  /\ Ask("read", 0)
  /\ polling' = "waiting"
  /\ UNCHANGED <<conf, device, bus, storing, writing, read, published, old, living, failed,
                 crash>>

\* ... whose answer is not waited for longer than sdo_timeout, ...
GiveUpReading ==
  /\ polling = "waiting" /\ (conf.fails \/ request = "none")
  /\ polling' = "dictionary"
  /\ failed' = [failed EXCEPT !["input"] = TRUE]
  /\ UNCHANGED <<conf, device, bus, storing, asking, writing, read, published, old, living,
                 crash>>

\* ... and what a TPDO maps, or could not be read, is looked up in the dictionary.
ReadDictionary ==
  /\ polling = "dictionary" /\ holder = "none"
  /\ polling' = "read"
  /\ read' = dictionary["input"]
  /\ UNCHANGED <<conf, device, bus, storing, asking, writing, published, old, living, failed,
                 crash>>

\* publish() uses the wrapper once more.
Publish ==
  /\ polling = "read"
  /\ crash' = ~wrapper
  /\ published' = IF wrapper /\ ~old THEN read ELSE published
  /\ polling' = "idle"
  /\ UNCHANGED <<conf, device, bus, storing, asking, writing, read, old, living, failed>>

-----------------------------------------------------------------------------
(***************************************************************************)
(* From a topic or a service to the device.                                *)
(***************************************************************************)

NewValue(w) ==
  /\ writer[w] = "idle"
  /\ wrote < conf.writes
  /\ wrote' = wrote + 1
  /\ value' = [value EXCEPT ![w] = wrote']

Goes(w, step) == writer' = [writer EXCEPT ![w] = step]

\* on_digital_output(), and a service: nothing without the wrapper.
OnDigitalOutput ==
  /\ ~adding /\ wrapper
  /\ NewValue("node")
  /\ Goes("node", "tested")
  /\ UNCHANGED <<conf, device, bus, storing, asking, tpdo_mapped, reading, living, failed, crash>>

\* universal_set_value(), through the wrapper, which may be gone by now: by PDO if an RPDO
\* maps the object and no TPDO does, else by SDO.
SetValue ==
  /\ writer["node"] = "tested"
  /\ crash' = ~wrapper
  /\ IF Mapping("output") = "rpdo"
     THEN /\ holder = "none" /\ holder' = "node"
          /\ Goes("node", "dictionary")
     ELSE Goes("node", "sdo") /\ UNCHANGED holder
  /\ UNCHANGED <<conf, device, bus, dictionary, asking, tpdo_mapped, value, wrote, reading,
                 living, failed>>

\* tpdo_transmit(), for a ros2_control system: it stores the data before it locks the
\* dictionary; an object the dictionary lacks is dropped.
Transmit ==
  /\ active
  /\ NewValue("system")
  /\ IF "output" \in conf.absent
     THEN UNCHANGED <<tpdo_mapped, writer>>
     ELSE tpdo_mapped' = wrote' /\ Goes("system", "dictionary")
  /\ UNCHANGED <<conf, device, bus, storing, asking, reading, living, failed, crash>>

StoreInDictionary(w) ==
  /\ writer[w] = "dictionary"
  /\ holder \in IF w = "node" THEN {w} ELSE {"none"}
  /\ dictionary' = IF "output" \in conf.absent THEN dictionary
                   ELSE [dictionary EXCEPT !["output"] = value[w]]
  /\ Goes(w, IF w = "node" THEN "mapped" ELSE "event")
  /\ UNCHANGED <<conf, device, bus, holder, asking, tpdo_mapped, value, wrote, reading, living,
                 failed, crash>>

StoreMapped ==
  /\ writer["node"] = "mapped"
  /\ tpdo_mapped' = value["node"]
  /\ Goes("node", "event")
  /\ UNCHANGED <<conf, device, bus, storing, asking, value, wrote, reading, living, failed, crash>>

\* Mutant of WriteEvent: the PDO carries what its writer stored, which may be older.
WriteEventOwn(w) ==
  /\ writer[w] = "event"
  /\ device' = [device EXCEPT !["output"] = value[w]]
  /\ holder' = IF w = "node" THEN "none" ELSE holder
  /\ Goes(w, "idle")
  /\ UNCHANGED <<conf, bus, dictionary, asking, tpdo_mapped, value, wrote, reading, living,
                 failed, crash>>

\* WriteEvent() sends the PDO with the data it has now.
WriteEvent(w) ==
  /\ writer[w] = "event"
  /\ device' = IF "output" \in conf.rpdos THEN [device EXCEPT !["output"] = tpdo_mapped]
               ELSE device
  /\ holder' = IF w = "node" THEN "none" ELSE holder
  /\ Goes(w, "idle")
  /\ UNCHANGED <<conf, bus, dictionary, asking, tpdo_mapped, value, wrote, reading, living,
                 failed, crash>>

\* By SDO, in its turn; an object the dictionary lacks is refused at once.
WriteSdo ==
  /\ writer["node"] = "sdo"
  /\ IF "output" \in conf.absent
     THEN Goes("node", "idle") /\ request = "none" /\ UNCHANGED asking
     ELSE Goes("node", "waiting") /\ Ask("write", value["node"])
  /\ UNCHANGED <<conf, device, bus, storing, tpdo_mapped, value, wrote, reading, living, failed,
                 crash>>

\* The end of the request is not waited for longer than sdo_timeout, and nobody looks at it.
GiveUpWriting ==
  /\ writer["node"] = "waiting" /\ (conf.fails \/ request = "none")
  /\ Goes("node", "idle")
  /\ UNCHANGED <<conf, device, bus, storing, asking, tpdo_mapped, value, wrote, reading, living,
                 failed, crash>>

-----------------------------------------------------------------------------
Loop == RunTask \/ OnRpdoWrite \/ ServeSdo \/ EndSdo \/ FailSdo

PollCallback ==
  StartPoll \/ ReadValue \/ AskForInput \/ GiveUpReading \/ ReadDictionary \/ Publish

WriteStep ==
  \/ \E w \in Writers : StoreInDictionary(w) \/ WriteEvent(w)
  \/ SetValue \/ StoreMapped \/ WriteSdo \/ GiveUpWriting

Next ==
  /\ ~crash
  /\ \/ AddToMaster \/ Activated \/ Deactivate
     \/ Change \/ Loop \/ PollCallback
     \/ OnDigitalOutput \/ Transmit \/ WriteStep

Spec == Init /\ [][Next]_vars

\* The loop, with the device, and the poll timer go on, and so does a call that has begun.
Fairness == WF_vars(~crash /\ Loop) /\ WF_vars(~crash /\ PollCallback) /\ WF_vars(~crash /\ WriteStep)

FairSpec == Spec /\ Fairness

-----------------------------------------------------------------------------
(***************************************************************************)
(* Properties.                                                             *)
(***************************************************************************)

\* The topic never goes back to an older value of the device, whatever fails: a read that
\* failed shows the last value that was stored, by a PDO or by a read, if only one that was
\* given up.  Only a driver that is added again begins again, with the values of the EDS file.
NeverOlder == [][published' >= published \/ posted' # posted]_vars

\* It ends with the newest, unless from some time on every read fails, the dictionary lacks
\* the object, or the driver is deactivated (or has crashed over that).
NewestShown ==
  (device["input"] = conf.changes /\ active)
    ~> (published = conf.changes \/ ~active \/ crash \/ "input" \in conf.absent
          \/ [](failed["input"]))

\* When no write is under way the device has the value that was stored last for its PDO, or,
\* by SDO, the value that was asked for last, unless that request failed: one that was given
\* up does not come after it.  Two writers of one object by PDO leave no older value behind.
OutputArrives ==
  (\A w \in Writers : writer[w] = "idle") /\ "output" \notin conf.absent =>
    /\ Mapping("output") = "rpdo" => device["output"] = tpdo_mapped
    /\ conf.rpdos = {} /\ request \notin {"write", "written"} =>
         device["output"] = value["node"] \/ failed["output"]

\* A callback or a service meets no null pointer unless the driver is being deactivated: also
\* when the driver is activated again at once, the old task does not take the new wrapper away.
WrapperStands == (active => wrapper) /\ (crash => ~active)

ValuesArrive == NeverOlder /\ NewestShown /\ [](OutputArrives /\ WrapperStands)
=============================================================================
