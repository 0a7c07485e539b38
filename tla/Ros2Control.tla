----------------------------- MODULE Ros2Control -----------------------------
(***************************************************************************)
(* The hand-over between a controller of canopen_ros2_controllers and a     *)
(* hardware system of canopen_ros2_control: doubles that both sides share   *)
(* without a lock.  Not-a-number means "no command" or "no answer".         *)
(*                                                                         *)
(* Three threads meet here.  The control loop runs update() of the          *)
(* controller, write() of the system, and the controller's transitions.     *)
(* The controller's node has one callback group, so that its services and   *)
(* its subscription take turns on one thread.  The drivers call the rpdo    *)
(* and NMT callbacks from a thread of theirs.                               *)
(*                                                                         *)
(* A message is a number (its index and subindex, in the order of arrival)  *)
(* and its data, an unsigned number below 2 * Half; Half stands for 2^31.   *)
(***************************************************************************)
EXTENDS Naturals, Sequences

CONSTANTS
  Configurations,  \* what a behaviour may begin with (see below)
  Handlers,        \* the triggers of Cia402System, in the order write() handles them
  Half

\* The triggers have names of their own, and there are negative numbers.
ASSUME HandlersAssumption == Handlers \in Seq(STRING \ {"reset", "start", "tpdo"})
ASSUME HalfAssumption == Half \in Nat \ {0}

\* The NMT states as update() names them; "ERROR" is any number that is not a state.
NmtNames == {"BOOTUP", "PREOP", "RESET_COMM", "RESET_NODE", "START", "STOP", "TOGGLE", "ERROR"}

\* A configuration: the system; the services that are called, and how often; TPDO and
\* RPDO messages and activations of the controller; the NMT states that come, and the one
\* that the uninitialised double nmt_state.state reads as before; the data of messages;
\* whether a publication may fail because the publisher is busy.
ASSUME ConfigurationsAssumption ==
  \A c \in Configurations :
    c \in [system : {"CanopenSystem", "Cia402System"},
           services : SUBSET ({"reset", "start"} \cup {Handlers[i] : i \in DOMAIN Handlers}),
           calls : Nat, tpdos : Nat, rpdos : Nat, activations : Nat,
           states : Seq(NmtNames), memory : NmtNames,
           data : SUBSET (0 .. 2 * Half - 1), busy : BOOLEAN]

VARIABLES
  conf,
  claimed,    \* does the controller hold its interfaces?
  activations,
  cmd,        \* the one-shot commands that are not NaN
  fbk,        \* the feedback of each command: "nan", "ok" or "fail"
  loop,       \* what the control loop does next
  at,         \* ... and the command it is at, while it is in write()
  seen,       \* what it found in that command, the call it is from, the driver's result
  owner,
  result,
  service,    \* the controller's service: "idle", or what it does next
  name,       \* its command
  answer,     \* response->success
  calls,
  input,      \* input_cmd_: both sides of the RealtimeBuffer, and its flag
  posted,     \* history: the data of the TPDO messages that arrived
  tpdo,       \* tpdo_data: index and data
  sent,       \* the TPDO the driver transmitted last
  rpdo,       \* rpdo_data: index and data
  received,   \* history: the data of the RPDO messages that arrived
  can,        \* the drivers' thread is idle, or in the middle of the RPDO callback
  read_rpdo,  \* what update() has read of rpdo
  published,  \* the RPDO the controller published last
  nmt,        \* nmt_state.state: how many states have come
  nmt_actual, \* ... what the controller knows of it, and has published
  nmt_published,
  ran,        \* history: the driver's results for the call under way
  mishap,     \* history: was its command overwritten or wiped by a deactivation?
  crash

controller == <<claimed, activations>>
commands == <<cmd, fbk>>
control == <<loop, at, seen, owner, result>>
serving == <<service, name, answer, calls>>
history == <<ran, mishap>>
tpdos == <<input, posted, tpdo, sent>>
rpdos == <<rpdo, received, can>>
reports == <<read_rpdo, published, nmt_actual, nmt_published>>
vars == <<conf, controller, commands, control, serving, history, tpdos, rpdos, reports,
          nmt, crash>>

NoMessage == [n |-> 0, data |-> 0]
Messages == [n : Nat, data : 0 .. 2 * Half - 1]
NmtName(i) == IF i = 0 THEN conf.memory ELSE conf.states[i]

\* write() handles the commands of the node first, then the triggers of its motor.
Order ==
  <<"reset", "start", "tpdo">> \o IF conf.system = "Cia402System" THEN Handlers ELSE << >>
Commands == {Order[i] : i \in DOMAIN Order}
Services == Commands \cap conf.services

TypeOK ==
  /\ conf \in Configurations
  /\ claimed \in BOOLEAN /\ activations \in 0 .. conf.activations
  /\ cmd \subseteq Commands
  /\ fbk \in [Commands -> {"nan", "ok", "fail"}]
  /\ loop \in {"switch", "release", "drop", "nmt", "rpdo", "rpdo_data", "publish", "tpdo",
               "null", "test", "clear", "act", "store"}
  /\ at \in DOMAIN Order
  /\ seen \in BOOLEAN /\ owner \in 0 .. conf.calls /\ result \in {"ok", "fail"}
  /\ service \in {"idle", "wait", "look", "clear_fbk", "clear_cmd"}
  /\ name \in Commands
  /\ answer \in {"ok", "fail"}
  /\ calls \in 0 .. conf.calls
  /\ input \in [rt : 0 .. conf.tpdos, non_rt : 0 .. conf.tpdos, new : BOOLEAN]
  /\ posted \in Seq(conf.data) /\ Len(posted) <= conf.tpdos
  /\ received \in Seq(conf.data) /\ Len(received) <= conf.rpdos
  /\ {tpdo, sent, rpdo, published, read_rpdo} \subseteq Messages
  /\ can \in {"idle", "data"}
  /\ nmt \in 0 .. Len(conf.states)
  /\ nmt_actual \in NmtNames /\ nmt_published \in NmtNames \cup {"nothing"}
  /\ ran \in Seq({"ok", "fail"}) /\ Len(ran) <= 1
  /\ mishap \in BOOLEAN /\ crash \in BOOLEAN

Init ==
  /\ conf \in Configurations
  /\ claimed = FALSE /\ activations = 0
  /\ cmd = {} /\ fbk = [c \in Commands |-> "nan"]
  /\ loop = "switch" /\ at = 1 /\ seen = FALSE /\ owner = 0 /\ result = "ok"
  /\ service = "idle" /\ name = "reset" /\ answer = "fail" /\ calls = 0
  /\ input = [rt |-> 0, non_rt |-> 0, new |-> FALSE] /\ posted = << >>
  /\ tpdo = NoMessage /\ sent = NoMessage
  /\ rpdo = NoMessage /\ received = << >> /\ can = "idle"
  /\ read_rpdo = NoMessage /\ published = NoMessage
  /\ nmt = 0 /\ nmt_actual = "BOOTUP" /\ nmt_published = "nothing"
  /\ ran = << >> /\ mishap = FALSE
  /\ crash = FALSE

-----------------------------------------------------------------------------
(***************************************************************************)
(* The services and the subscription of the controller.                    *)
(***************************************************************************)

\* A service that uses the interfaces of a controller that does not hold them reads
\* past the end of an empty vector: the process ends here.
Uses(step) ==
  IF claimed
  THEN step /\ UNCHANGED crash
  ELSE crash' = TRUE /\ UNCHANGED <<service, name, answer, calls, commands, history>>

Call(c) ==
  /\ service = "idle"
  /\ calls < conf.calls
  /\ Uses(/\ calls' = calls + 1
          /\ cmd' = cmd \cup {c}
          /\ service' = "wait"
          /\ name' = c
          /\ answer' = "fail"
          /\ ran' = << >>
          /\ mishap' = FALSE
          /\ UNCHANGED fbk)
  /\ UNCHANGED <<conf, controller, control, tpdos, rpdos, reports, nmt>>

\* The reset service waits until its command is gone, the others for their feedback.
Await ==
  /\ service = "wait"
  /\ claimed => IF name = "reset" THEN name \notin cmd ELSE fbk[name] # "nan"
  /\ Uses(/\ service' = "look"
          /\ UNCHANGED <<name, answer, calls, commands, history>>)
  /\ UNCHANGED <<conf, controller, control, tpdos, rpdos, reports, nmt>>

Look ==
  /\ service = "look"
  /\ Uses(/\ answer' = IF fbk[name] = "ok" THEN "ok" ELSE "fail"
          /\ service' = "clear_fbk"
          /\ UNCHANGED <<name, calls, commands, history>>)
  /\ UNCHANGED <<conf, controller, control, tpdos, rpdos, reports, nmt>>

\* Mutant of ClearFeedback: the feedback is left for the next call.
ClearFeedbackNever ==
  /\ service = "clear_fbk"
  /\ Uses(/\ service' = IF name \in {"reset", "start"} THEN "idle" ELSE "clear_cmd"
          /\ UNCHANGED <<name, answer, calls, commands, history>>)
  /\ UNCHANGED <<conf, controller, control, tpdos, rpdos, reports, nmt>>

ClearFeedback ==
  /\ service = "clear_fbk"
  /\ Uses(/\ fbk' = [fbk EXCEPT ![name] = "nan"]
          /\ service' = IF name \in {"reset", "start"} THEN "idle" ELSE "clear_cmd"
          /\ UNCHANGED <<name, answer, calls, cmd, history>>)
  /\ UNCHANGED <<conf, controller, control, tpdos, rpdos, reports, nmt>>

\* The triggers of the CiA 402 controller also clear their command.
ClearCommand ==
  /\ service = "clear_cmd"
  /\ Uses(/\ cmd' = cmd \ {name}
          /\ service' = "idle"
          /\ UNCHANGED <<name, answer, calls, fbk, history>>)
  /\ UNCHANGED <<conf, controller, control, tpdos, rpdos, reports, nmt>>

\* The subscription: writeFromNonRT().
Subscribe ==
  /\ service = "idle"
  /\ Len(posted) < conf.tpdos
  /\ \E d \in conf.data : posted' = Append(posted, d)
  /\ input' = [input EXCEPT !.non_rt = Len(posted'), !.new = TRUE]
  /\ UNCHANGED <<conf, controller, commands, control, serving, history, tpdo, sent, rpdos,
                 reports, nmt, crash>>

-----------------------------------------------------------------------------
(***************************************************************************)
(* The callbacks of the drivers.  CanopenSystem stores an RPDO in the       *)
(* doubles of the interfaces, one after the other; Cia402System does not.   *)
(***************************************************************************)

\* The bits of an int32_t as a double, and the double as an uint32_t: a negative one is
\* undefined, and wraps or saturates.
AsPublished(d) == IF d < Half THEN {d} ELSE {d, 0}

OnRpdo ==
  /\ can = "idle"
  /\ Len(received) < conf.rpdos
  /\ \E d \in conf.data : received' = Append(received, d)
  /\ IF conf.system = "CanopenSystem"
     THEN rpdo' = [rpdo EXCEPT !.n = Len(received')] /\ can' = "data"
     ELSE UNCHANGED <<rpdo, can>>
  /\ UNCHANGED <<conf, controller, commands, control, serving, history, tpdos, reports,
                 nmt, crash>>

\* Mutant of OnRpdoData: the data is not stored.
OnRpdoDataKept ==
  /\ can = "data"
  /\ can' = "idle"
  /\ UNCHANGED <<conf, controller, commands, control, serving, history, tpdos, rpdo,
                 received, reports, nmt, crash>>

OnRpdoData ==
  /\ can = "data"
  /\ can' = "idle"
  /\ rpdo' = [rpdo EXCEPT !.data = received[Len(received)]]
  /\ UNCHANGED <<conf, controller, commands, control, serving, history, tpdos, received,
                 reports, nmt, crash>>

OnNmt ==
  /\ can = "idle"
  /\ nmt < Len(conf.states)
  /\ nmt' = nmt + 1
  /\ UNCHANGED <<conf, controller, commands, control, serving, history, tpdos, rpdos,
                 reports, crash>>

-----------------------------------------------------------------------------
(***************************************************************************)
(* The control loop: the transitions of the controller.                    *)
(***************************************************************************)

\* Mutant of ReadFromRT: the new message is marked as read, and not taken.
ReadFromRTNothing == [input EXCEPT !.new = FALSE]

\* readFromRT(): the buffer with what arrived last on the side of the loop.
ReadFromRT ==
  IF input.new
  THEN [rt |-> input.non_rt, non_rt |-> input.rt, new |-> FALSE]
  ELSE input

Activate ==
  /\ loop = "switch"
  /\ ~claimed /\ activations < conf.activations
  /\ claimed' = TRUE
  /\ activations' = activations + 1
  /\ loop' = "drop"
  /\ UNCHANGED <<conf, commands, at, seen, owner, result, serving, history, tpdos, rpdos, reports,
                 nmt, crash>>

\* on_activate() drops the message it finds.
Drop ==
  /\ loop = "drop"
  /\ input' = [ReadFromRT EXCEPT !.rt = 0]
  /\ loop' = "switch"
  /\ UNCHANGED <<conf, controller, commands, at, seen, owner, result, serving, history, posted,
                 tpdo, sent, rpdos, reports, nmt, crash>>

\* on_deactivate() makes every command interface NaN, also the feedback ...
Deactivate ==
  /\ loop = "switch"
  /\ claimed
  /\ cmd' = {}
  /\ fbk' = [c \in Commands |-> "nan"]
  /\ mishap' = (service # "idle")
  /\ loop' = "release"
  /\ UNCHANGED <<conf, controller, at, seen, owner, result, serving, ran, tpdos, rpdos, reports,
                 nmt, crash>>

\* ... and the controller manager takes the interfaces away.
Release ==
  /\ loop = "release"
  /\ claimed' = FALSE
  /\ loop' = "switch"
  /\ UNCHANGED <<conf, activations, commands, at, seen, owner, result, serving, history, tpdos,
                 rpdos, reports, nmt, crash>>

\* The cycle goes on: update() of an active controller, and write().
Cycle ==
  /\ loop = "switch"
  /\ loop' = IF claimed THEN "nmt" ELSE "test"
  /\ at' = 1
  /\ UNCHANGED <<conf, controller, commands, seen, owner, result, serving, history, tpdos, rpdos,
                 reports, nmt, crash>>

-----------------------------------------------------------------------------
(***************************************************************************)
(* update() of the controller.                                             *)
(***************************************************************************)

\* Publish the NMT state when its name has changed; a busy publisher does not get it.
UpdateNmt ==
  /\ loop = "nmt"
  /\ loop' = "rpdo"
  /\ nmt_actual' = NmtName(nmt)
  /\ nmt_published' \in IF nmt_actual' = nmt_actual THEN {nmt_published}
                        ELSE {nmt_actual'} \cup IF conf.busy THEN {nmt_published} ELSE {}
  /\ UNCHANGED <<conf, controller, commands, at, seen, owner, result, serving, history, tpdos,
                 rpdos, read_rpdo, published, nmt, crash>>

ReadRpdo ==
  /\ \/ /\ loop = "rpdo" /\ loop' = "rpdo_data"
        /\ read_rpdo' = [read_rpdo EXCEPT !.n = rpdo.n]
     \/ /\ loop = "rpdo_data" /\ loop' = "publish"
        /\ \E d \in AsPublished(rpdo.data) : read_rpdo' = [read_rpdo EXCEPT !.data = d]
  /\ UNCHANGED <<conf, controller, commands, at, seen, owner, result, serving, history, tpdos,
                 rpdos, published, nmt_actual, nmt_published, nmt, crash>>

\* Every cycle publishes what it has read, or nothing if the publisher is busy.
PublishRpdo ==
  /\ loop = "publish"
  /\ published' = read_rpdo
  /\ loop' = "tpdo"
  /\ UNCHANGED <<conf, controller, commands, at, seen, owner, result, serving, history, tpdos,
                 rpdos, read_rpdo, nmt_actual, nmt_published, nmt, crash>>

PublisherBusy ==
  /\ loop = "publish"
  /\ conf.busy
  /\ loop' = "tpdo"
  /\ UNCHANGED <<conf, controller, commands, at, seen, owner, result, serving, history, tpdos,
                 rpdos, reports, nmt, crash>>

\* Take the latest message: index, subindex and data, then the one-shot command.
UpdateTpdo ==
  /\ loop = "tpdo"
  /\ input' = ReadFromRT
  /\ IF input'.rt = 0
     THEN loop' = "test" /\ UNCHANGED <<tpdo, cmd>>
     ELSE /\ tpdo' = [n |-> input'.rt, data |-> posted[input'.rt]]
          /\ cmd' = cmd \cup {"tpdo"}
          /\ loop' = "null"
  /\ UNCHANGED <<conf, controller, fbk, at, seen, owner, result, serving, history, posted, sent,
                 rpdos, reports, nmt, crash>>

\* Mutant of NullInput: the message stays in the buffer.
NullInputNot ==
  /\ loop = "null"
  /\ input' = ReadFromRT
  /\ loop' = "test"
  /\ UNCHANGED <<conf, controller, commands, at, seen, owner, result, serving, history, posted,
                 tpdo, sent, rpdos, reports, nmt, crash>>

\* Empty the buffer; what is in it was read again, and may be a newer message.
NullInput ==
  /\ loop = "null"
  /\ input' = [ReadFromRT EXCEPT !.rt = 0]
  /\ loop' = "test"
  /\ UNCHANGED <<conf, controller, commands, at, seen, owner, result, serving, history, posted,
                 tpdo, sent, rpdos, reports, nmt, crash>>

-----------------------------------------------------------------------------
(***************************************************************************)
(* write() of the system.                                                  *)
(***************************************************************************)

NextCommand ==
  IF at < Len(Order)
  THEN loop' = "test" /\ at' = at + 1
  ELSE loop' = "switch" /\ at' = 1

\* reset_command(), start_command(), write_command() and is_commanded() look at the
\* double ...
TestCommand ==
  /\ loop = "test"
  /\ seen' = (Order[at] \in cmd)
  /\ owner' = calls
  /\ loop' = "clear"
  /\ UNCHANGED <<conf, controller, commands, at, result, serving, history, tpdos, rpdos,
                 reports, nmt, crash>>

\* Mutant of ClearCommanded: the command stays set while the driver works on it.
ClearCommandedLate ==
  /\ loop = "clear"
  /\ IF seen THEN loop' = "act" /\ UNCHANGED at ELSE NextCommand
  /\ UNCHANGED <<conf, controller, cmd, fbk, seen, owner, result, serving, ran, mishap, tpdos,
                 rpdos, reports, nmt, crash>>

\* ... and make it NaN whatever they have found.
ClearCommanded ==
  /\ loop = "clear"
  /\ cmd' = cmd \ {Order[at]}
  /\ mishap' = (mishap \/ (~seen /\ Order[at] \in cmd))
  /\ IF seen THEN loop' = "act" /\ UNCHANGED at ELSE NextCommand
  /\ UNCHANGED <<conf, controller, fbk, seen, owner, result, serving, ran, tpdos, rpdos, reports,
                 nmt, crash>>

\* The double as an int32_t: one that is too large is undefined, and becomes the lowest
\* number or the highest.
AsSent(d) == IF d < Half THEN {d} ELSE {Half, Half - 1}

\* prepare_data() and tpdo_transmit().
TransmitTpdo ==
  /\ loop = "act"
  /\ Order[at] = "tpdo"
  /\ \E d \in AsSent(tpdo.data) : sent' = [n |-> tpdo.n, data |-> d]
  /\ NextCommand
  /\ UNCHANGED <<conf, controller, commands, seen, owner, result, serving, history, input, posted,
                 tpdo, rpdos, reports, nmt, crash>>

\* The driver carries the command out.  Cia402System drops the result of NMT commands.
Act ==
  /\ loop = "act"
  /\ Order[at] # "tpdo"
  /\ result' \in {"ok", "fail"}
  /\ ran' = IF owner = calls /\ name = Order[at] THEN Append(ran, result') ELSE ran
  /\ IF conf.system = "Cia402System" /\ Order[at] \in {"reset", "start"}
     THEN NextCommand
     ELSE loop' = "store" /\ UNCHANGED at
  /\ UNCHANGED <<conf, controller, commands, seen, owner, serving, mishap, tpdos, rpdos, reports,
                 nmt, crash>>

\* Mutant of StoreFeedback: a failure leaves no feedback.
StoreFeedbackOnSuccess ==
  /\ loop = "store"
  /\ fbk' = IF result = "ok" THEN [fbk EXCEPT ![Order[at]] = "ok"] ELSE fbk
  /\ NextCommand
  /\ UNCHANGED <<conf, controller, cmd, seen, owner, result, serving, history, tpdos, rpdos,
                 reports, nmt, crash>>

StoreFeedback ==
  /\ loop = "store"
  /\ fbk' = [fbk EXCEPT ![Order[at]] = result]
  /\ NextCommand
  /\ UNCHANGED <<conf, controller, cmd, seen, owner, result, serving, history, tpdos, rpdos,
                 reports, nmt, crash>>

-----------------------------------------------------------------------------
Service == Await \/ Look \/ ClearFeedback \/ ClearCommand

Update == UpdateNmt \/ ReadRpdo \/ PublishRpdo \/ PublisherBusy \/ UpdateTpdo \/ NullInput

Write == TestCommand \/ ClearCommanded \/ TransmitTpdo \/ Act \/ StoreFeedback

Switch == Drop \/ Release \/ Cycle

Next ==
  /\ ~crash
  /\ \/ \E c \in Services : Call(c)
     \/ Service \/ Subscribe
     \/ OnRpdo \/ OnRpdoData \/ OnNmt
     \/ Activate \/ Deactivate \/ Switch
     \/ Update \/ Write

\* The loop and a service that has begun go on; a publisher is not busy whenever the
\* loop comes to it.
Fairness ==
  /\ WF_vars(~crash /\ (Switch \/ Update \/ Write))
  /\ WF_vars(~crash /\ Service)
  /\ WF_vars(OnRpdoData)
  /\ SF_vars(~crash /\ PublishRpdo)

Spec == Init /\ [][Next]_vars

FairSpec == Spec /\ Fairness

-----------------------------------------------------------------------------
(***************************************************************************)
(* Properties.                                                             *)
(***************************************************************************)

Deactivating == loop = "release" \/ mishap

\* What the start service and the triggers answer is the result of their own operation,
\* which the driver has carried out once; nothing is left of it for the next call.  A
\* deactivation may turn the answer to "no".  (The reset service: see ResetReports.)
AnswersOwn ==
  /\ Len(ran) <= 1
  /\ service = "clear_fbk" /\ name # "reset" =>
       ran = <<answer>> \/ (Deactivating /\ answer = "fail")

\* A call comes back, unless its command was set between write()'s test and its reset of
\* the double, or the controller was deactivated meanwhile, or it is the start service
\* of a Cia402System, which stores no feedback.
CallsReturn ==
  service # "idle" ~>
    \/ service = "idle" \/ crash \/ mishap
    \/ conf.system = "Cia402System" /\ name = "start"

\* A message is transmitted at most once, in its order and with its own data (if its
\* data is below 2^31), however messages, cycles and activations interleave.
SentWhole ==
  [][TransmitTpdo \/ sent' # sent =>
       /\ sent'.n > sent.n
       /\ posted[sent'.n] < Half => sent'.data = posted[sent'.n]]_vars

\* A message that is the newest when update() looks for one is transmitted, if the driver
\* takes what write() gives it.  (One that comes between update()'s two readFromRT() is
\* dropped.)
LatestSent ==
  \A n \in UNION {1 .. c.tpdos : c \in Configurations} :
    input.new /\ input.non_rt = n /\ claimed /\ loop \notin {"null", "drop"} ~>
      sent.n >= n \/ ~claimed \/ crash

\* The last RPDO of a CanopenSystem is published whole in the end, with the data it has
\* below 2^31, whatever mixtures of two messages came before.  (Cia402System hands no RPDO
\* on, so that its RPDOs are never published.)  So is the last NMT state, if no publication
\* met a busy publisher; but BOOTUP is not while nothing else has been published: it is
\* what the controller believes from the start.
LastPublished ==
  /\ Len(received) = conf.rpdos /\ can = "idle" /\ claimed /\ conf.system = "CanopenSystem" ~>
       \/ ~claimed \/ crash \/ loop = "release"
       \/ published.n = Len(received)
          /\ (published.n > 0 /\ received[published.n] < Half
                => published.data = received[published.n])
  /\ nmt = Len(conf.states) /\ claimed ~>
       \/ nmt_published = NmtName(nmt) \/ conf.busy \/ ~claimed \/ crash
       \/ NmtName(nmt) = "BOOTUP" /\ nmt_published = "nothing"

\* "providing feedback (indicated by 'fbk') from the device to the control system after
\* the execution of a command" (how-to-create-a-cia301-system.rst): the reset service
\* reports success if and only if the driver has carried out its reset.
ResetReports ==
  service = "clear_fbk" /\ name = "reset" => (answer = "ok") = (ran = <<"ok">>)
=============================================================================
