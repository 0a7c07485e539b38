--------------------------- MODULE Ros2ControlProof ---------------------------
(***************************************************************************)
(* Theorems about Ros2Control, for every set of configurations, every list *)
(* of triggers and every Half.                                             *)
(***************************************************************************)
EXTENDS Ros2Control, SequenceTheorems, TLAPS

-----------------------------------------------------------------------------
(***************************************************************************)
(* The inductive invariant, part one: whose command and whose feedback.    *)
(***************************************************************************)

\* A command that is set is that of the call that waits, which the driver has not
\* carried out.  (The command of the TPDO is update()'s.)
CommandsOwn ==
  \A c \in cmd \ {"tpdo"} : service = "wait" /\ name = c /\ ran = << >>

\* A feedback that is set is that of the call under way, and the result of its operation.
\* (The feedback of a reset can be left from an earlier call.)
FeedbackOwn ==
  \A c \in Commands \ {"reset"} :
    fbk[c] # "nan" =>
      /\ name = c
      /\ service \in {"wait", "look", "clear_fbk"}
      /\ ran = <<fbk[c]>>

\* What write() has found in a double is still there when it makes the double NaN, and
\* no other call has come meanwhile.
SeenHolds ==
  loop = "clear" /\ seen => Order[at] \in cmd /\ (Order[at] # "tpdo" => owner = calls)

\* While the driver carries out a command, and until its result is stored, the call it
\* is from waits.
WorkOwn ==
  loop \in {"act", "store"} /\ Order[at] \notin {"reset", "tpdo"} =>
    /\ service = "wait" /\ name = Order[at] /\ owner = calls
    /\ Order[at] \notin cmd /\ fbk[Order[at]] = "nan"
    /\ ran = IF loop = "act" THEN << >> ELSE <<result>>

\* A reset that a call has asked for is carried out once, also after the call has
\* returned.
ResetOnce ==
  loop = "act" /\ Order[at] = "reset" /\ owner = calls /\ name = "reset" =>
    ran = << >> /\ "reset" \notin cmd

\* The driver works for a call that has been made.
OwnerFits == owner <= calls

\* What a service has found, and what it answers.
LookFits == service = "look" /\ name # "reset" => fbk[name] # "nan" \/ mishap

\* A call that has looked at its feedback answers with what the driver returned.
AnswerFits ==
  service = "clear_fbk" /\ name # "reset" =>
    ran = <<answer>> \/ (mishap /\ answer = "fail")

\* The driver carries out the command of a call at most once.
OneResult == Len(ran) <= 1

\* The command of the TPDO is not a service, and stores no feedback.
TpdoApart == name # "tpdo" /\ (loop = "store" => Order[at] # "tpdo")

\* The first part of the inductive invariant.
CallsFit ==
  /\ CommandsOwn /\ FeedbackOwn /\ SeenHolds /\ WorkOwn /\ ResetOnce /\ OwnerFits
  /\ LookFits /\ AnswerFits /\ TpdoApart

-----------------------------------------------------------------------------
(***************************************************************************)
(* Part two: the way of a TPDO message.                                    *)
(***************************************************************************)

\* The side of the loop is empty except between update()'s two looks; on the other side
\* is the newest message, which update() has not seen.
InputFits ==
  /\ loop # "null" => input.rt = 0
  /\ input.new => input.non_rt = Len(posted) /\ tpdo.n < input.non_rt

\* The doubles hold one message, whole.
TpdoWhole ==
  /\ tpdo.n <= Len(posted)
  /\ tpdo.n > 0 => tpdo.data = posted[tpdo.n]

\* A message whose command is set, or which the driver is at, is not transmitted yet.
PendingFits ==
  /\ sent.n <= tpdo.n
  /\ "tpdo" \in cmd => sent.n < tpdo.n
  /\ loop = "act" /\ Order[at] = "tpdo" => sent.n < tpdo.n /\ "tpdo" \notin cmd

\* The RPDO callback is between its two doubles only after an RPDO.
CanFits == can = "data" => received # << >>

\* The second part, ...
Passing == InputFits /\ TpdoWhole /\ PendingFits /\ CanFits

\* ... and the whole.
IInv == TypeOK /\ CallsFit /\ Passing

\* The facts about a configuration that the proofs use.
LEMMA ConfFacts ==
  ASSUME conf \in Configurations
  PROVE  /\ conf.calls \in Nat /\ conf.tpdos \in Nat /\ conf.rpdos \in Nat
         /\ conf.states \in Seq(NmtNames) /\ conf.memory \in NmtNames
         /\ conf.activations \in Nat
         /\ conf.data \subseteq 0 .. 2 * Half - 1
         /\ conf.services \subseteq {"reset", "start"} \cup {Handlers[i] : i \in DOMAIN Handlers}
BY ConfigurationsAssumption

\* What write() handles: never nothing, and each command is the command of its place.
LEMMA OrderFacts ==
  /\ Len(Order) \in Nat \ {0} /\ DOMAIN Order = 1 .. Len(Order)
  /\ {"reset", "start", "tpdo"} \subseteq Commands
  /\ \A i \in DOMAIN Order : Order[i] \in Commands
<1> DEFINE names == {"reset", "start", "tpdo"} \cup (STRING \ {"reset", "start", "tpdo"})
<1>1. <<"reset", "start", "tpdo">> \in Seq(names)
  OBVIOUS
<1>2. << >> \in Seq(names) /\ Handlers \in Seq(names)
  BY HandlersAssumption
<1> HIDE DEF names
<1>3. PICK more \in Seq(names) : Order = <<"reset", "start", "tpdo">> \o more
  BY <1>2 DEF Order
<1>4. /\ Order \in Seq(names) /\ Len(Order) = 3 + Len(more)
      /\ Order[1] = "reset" /\ Order[2] = "start" /\ Order[3] = "tpdo"
  BY <1>1, <1>3, ConcatProperties
<1>5. Len(more) \in Nat /\ DOMAIN Order = 1 .. Len(Order)
  BY <1>4, LenProperties
<1>6. QED
  BY <1>4, <1>5 DEF Commands

\* The services are named after commands, and none after that of the TPDO.
LEMMA ServiceFacts ==
  ASSUME conf \in Configurations, NEW c \in Services
  PROVE  c \in Commands /\ c # "tpdo"
BY ConfFacts, HandlersAssumption DEF Services

\* A step changes neither the configuration nor what write() handles.
LEMMA OrderStays ==
  ASSUME Next
  PROVE  conf' = conf /\ Order' = Order /\ Commands' = Commands
<1>1. conf' = conf
  BY DEF Next, Service, Switch, Update, Write, Call, Await, Look, ClearFeedback, ClearCommand,
     Subscribe, OnRpdo, OnRpdoData, OnNmt, Activate, Deactivate, Drop, Release, Cycle,
     UpdateNmt, ReadRpdo, PublishRpdo, PublisherBusy, UpdateTpdo, NullInput, TestCommand,
     ClearCommanded, TransmitTpdo, Act, StoreFeedback
<1>2. QED
  BY <1>1 DEF Order, Commands

\* write() goes on to the next command, or ends.
LEMMA NextPlace ==
  ASSUME at \in DOMAIN Order, NextCommand
  PROVE  at' \in DOMAIN Order /\ loop' \in {"test", "switch"}
BY OrderFacts DEF NextCommand

-----------------------------------------------------------------------------
(***************************************************************************)
(* Type correctness, in four parts.                                        *)
(***************************************************************************)

\* The flags, ...
Flags == claimed \in BOOLEAN /\ seen \in BOOLEAN /\ mishap \in BOOLEAN /\ crash \in BOOLEAN

\* ... the program counters and the numbers, ...
Values ==
  /\ conf \in Configurations
  /\ activations \in 0 .. conf.activations
  /\ loop \in {"switch", "release", "drop", "nmt", "rpdo", "rpdo_data", "publish", "tpdo",
               "null", "test", "clear", "act", "store"}
  /\ at \in DOMAIN Order
  /\ owner \in 0 .. conf.calls /\ result \in {"ok", "fail"}
  /\ service \in {"idle", "wait", "look", "clear_fbk", "clear_cmd"}
  /\ name \in Commands
  /\ answer \in {"ok", "fail"}
  /\ calls \in 0 .. conf.calls
  /\ can \in {"idle", "data"}
  /\ nmt \in 0 .. Len(conf.states)
  /\ nmt_actual \in NmtNames /\ nmt_published \in NmtNames \cup {"nothing"}

\* ... the doubles of the commands, ...
Doubles ==
  /\ cmd \subseteq Commands
  /\ fbk \in [Commands -> {"nan", "ok", "fail"}]
  /\ ran \in Seq({"ok", "fail"})

\* ... what the threads of the TPDO exchange, ...
Inputs == [rt : 0 .. conf.tpdos, non_rt : 0 .. conf.tpdos, new : BOOLEAN]

\* ... and the messages.
Traffic ==
  /\ input \in Inputs
  /\ posted \in Seq(conf.data) /\ Len(posted) <= conf.tpdos
  /\ received \in Seq(conf.data) /\ Len(received) <= conf.rpdos
  /\ tpdo \in Messages /\ sent \in Messages
  /\ rpdo \in Messages /\ published \in Messages /\ read_rpdo \in Messages

\* The type invariant is the four parts, and that a call has one result.
LEMMA TypeParts == TypeOK <=> Flags /\ Values /\ Doubles /\ Traffic /\ OneResult
BY DEF TypeOK, Flags, Values, Doubles, Traffic, Inputs, OneResult

\* ... also after a step.
LEMMA TypePartsNext ==
  ASSUME Flags', Values', Doubles', Traffic', OneResult'
  PROVE  TypeOK'
BY DEF TypeOK, Flags, Values, Doubles, Traffic, Inputs, OneResult

\* Every step keeps each part: the flags, ...
LEMMA FlagsNext ==
  ASSUME Flags, Next
  PROVE  Flags'
<1> USE DEF Flags, controller, commands, control, serving, history, tpdos, rpdos, reports
<1>1. ASSUME NEW c \in Services, Call(c) PROVE Flags'
  BY <1>1 DEF Call, Uses
<1>2. CASE Await \/ Look \/ ClearFeedback \/ ClearCommand
  BY <1>2 DEF Await, Uses, Look, ClearFeedback, ClearCommand
<1>3. CASE Activate
  BY <1>3 DEF Activate
<1>4. CASE Deactivate
  BY <1>4 DEF Deactivate
<1>5. CASE Release
  BY <1>5 DEF Release
<1>6. CASE TestCommand
  BY <1>6 DEF TestCommand
<1>7. CASE ClearCommanded
  BY <1>7 DEF ClearCommanded, NextCommand
<1>8. CASE Subscribe \/ OnRpdo \/ OnRpdoData \/ OnNmt \/ Drop \/ Cycle \/ UpdateNmt \/
     ReadRpdo \/ PublishRpdo \/ PublisherBusy \/ UpdateTpdo \/ NullInput \/
     TransmitTpdo \/ Act \/ StoreFeedback
  <2>1. UNCHANGED <<claimed, seen, mishap, crash>>
    BY <1>8 DEF Subscribe, OnRpdo, OnRpdoData, OnNmt, Drop, ReadFromRT, Cycle, UpdateNmt,
       ReadRpdo, PublishRpdo, PublisherBusy, UpdateTpdo, NullInput, TransmitTpdo,
       NextCommand, Act, StoreFeedback
  <2>2. QED
    BY <2>1
<1>9. QED
  BY <1>1, <1>2, <1>3, <1>4, <1>5, <1>6, <1>7, <1>8 DEF Next, Service, Switch, Update, Write

\* ... the program counters and numbers, ...
LEMMA ValuesNext ==
  ASSUME Values, Next
  PROVE  Values'
<1>1. /\ conf' = conf /\ Order' = Order /\ Commands' = Commands
      /\ conf.calls \in Nat /\ conf.activations \in Nat
      /\ conf.states \in Seq(NmtNames) /\ conf.memory \in NmtNames
      /\ Len(conf.states) \in Nat /\ \A i \in 1 .. Len(conf.states) : conf.states[i] \in NmtNames
  BY OrderStays, ConfFacts DEF Values
<1> USE DEF Values, controller, commands, control, serving, history, tpdos,
     rpdos, reports
<1>2. ASSUME NEW c \in Services, Call(c) PROVE Values'
  BY <1>2, <1>1, ServiceFacts DEF Call, Uses
<1>3. CASE Await
  BY <1>3, <1>1 DEF Await, Uses
<1>4. CASE Look
  BY <1>4, <1>1 DEF Look, Uses
<1>5. CASE ClearFeedback
  BY <1>5, <1>1 DEF ClearFeedback, Uses
<1>6. CASE ClearCommand
  BY <1>6, <1>1 DEF ClearCommand, Uses
<1>7. CASE OnRpdo
  BY <1>7, <1>1 DEF OnRpdo
<1>8. CASE OnRpdoData
  BY <1>8, <1>1 DEF OnRpdoData
<1>9. CASE OnNmt
  BY <1>9, <1>1 DEF OnNmt
<1>10. CASE Activate
  BY <1>10, <1>1 DEF Activate
<1>11. CASE Deactivate
  BY <1>11, <1>1 DEF Deactivate
<1>12. CASE Drop
  BY <1>12, <1>1 DEF Drop, ReadFromRT
<1>13. CASE Release
  BY <1>13, <1>1 DEF Release
<1>14. CASE Cycle
  BY <1>14, <1>1, OrderFacts DEF Cycle
<1>15. CASE UpdateNmt
  <2>1. nmt_actual' \in NmtNames
    BY <1>15, <1>1 DEF UpdateNmt, NmtName
  <2>2. nmt_published' \in {nmt_published, nmt_actual'}
    BY <1>15 DEF UpdateNmt
  <2>3. QED
    BY <1>15, <1>1, <2>1, <2>2 DEF UpdateNmt
<1>16. CASE ReadRpdo
  BY <1>16, <1>1 DEF ReadRpdo
<1>17. CASE PublishRpdo
  BY <1>17, <1>1 DEF PublishRpdo
<1>18. CASE PublisherBusy
  BY <1>18, <1>1 DEF PublisherBusy
<1>19. CASE UpdateTpdo
  BY <1>19, <1>1 DEF UpdateTpdo, ReadFromRT
<1>20. CASE NullInput
  BY <1>20, <1>1 DEF NullInput, ReadFromRT
<1>21. CASE TestCommand
  BY <1>21, <1>1 DEF TestCommand
<1>22. CASE ClearCommanded
  <2>1. at' \in DOMAIN Order /\ loop' \in {"test", "switch", "act", "store"}
    BY <1>22, NextPlace DEF ClearCommanded, Values
  <2>2. UNCHANGED <<conf, activations, owner, service, name, answer, calls, can, nmt>>
        /\ UNCHANGED <<nmt_actual, nmt_published>> /\ result' \in {"ok", "fail"}
    BY <1>22 DEF ClearCommanded, Values
  <2>3. QED
    BY <1>1, <2>1, <2>2 DEF Values
<1>23. CASE TransmitTpdo
  <2>1. at' \in DOMAIN Order /\ loop' \in {"test", "switch", "act", "store"}
    BY <1>23, NextPlace DEF TransmitTpdo, Values
  <2>2. UNCHANGED <<conf, activations, owner, service, name, answer, calls, can, nmt>>
        /\ UNCHANGED <<nmt_actual, nmt_published>> /\ result' \in {"ok", "fail"}
    BY <1>23 DEF TransmitTpdo, Values
  <2>3. QED
    BY <1>1, <2>1, <2>2 DEF Values
<1>24. CASE Act
  <2>1. at' \in DOMAIN Order /\ loop' \in {"test", "switch", "act", "store"}
    BY <1>24, NextPlace DEF Act, Values
  <2>2. UNCHANGED <<conf, activations, owner, service, name, answer, calls, can, nmt>>
        /\ UNCHANGED <<nmt_actual, nmt_published>> /\ result' \in {"ok", "fail"}
    BY <1>24 DEF Act, Values
  <2>3. QED
    BY <1>1, <2>1, <2>2 DEF Values
<1>25. CASE StoreFeedback
  <2>1. at' \in DOMAIN Order /\ loop' \in {"test", "switch", "act", "store"}
    BY <1>25, NextPlace DEF StoreFeedback, Values
  <2>2. UNCHANGED <<conf, activations, owner, service, name, answer, calls, can, nmt>>
        /\ UNCHANGED <<nmt_actual, nmt_published>> /\ result' \in {"ok", "fail"}
    BY <1>25 DEF StoreFeedback, Values
  <2>3. QED
    BY <1>1, <2>1, <2>2 DEF Values
<1>26. CASE Subscribe
  <2>1. UNCHANGED <<activations, loop, at, owner, result, service, name, answer, calls, can, nmt, nmt_actual, nmt_published>>
    BY <1>26 DEF Subscribe
  <2>2. QED
    BY <2>1, <1>1
<1>27. QED
  BY <1>2, <1>3, <1>4, <1>5, <1>6, <1>7, <1>8, <1>9, <1>10, <1>11, <1>12, <1>13, <1>14,
     <1>15, <1>16, <1>17, <1>18, <1>19, <1>20, <1>21, <1>22, <1>23, <1>24, <1>25, <1>26 DEF Next, Service, Switch, Update, Write

\* ... the doubles of the commands, ...
LEMMA DoublesNext ==
  ASSUME Values, Doubles, Next
  PROVE  Doubles'
<1>1. conf' = conf /\ Order' = Order /\ Commands' = Commands
  BY OrderStays
<1> USE DEF Doubles, controller, commands, control, serving, history, tpdos, rpdos,
     reports
<1>2. ASSUME NEW c \in Services, Call(c) PROVE Doubles'
  <2>1. cmd' \in {cmd, cmd \cup {c}} /\ fbk' = fbk /\ ran' \in {ran, << >>}
    BY <1>2, Zenon DEF Call, Uses
  <2>2. c \in Commands /\ << >> \in Seq({"ok", "fail"})
    BY ServiceFacts DEF Values
  <2>3. QED
    BY <1>1, <2>1, <2>2
<1>3. CASE ClearFeedback
  BY <1>3, <1>1 DEF ClearFeedback, Uses
<1>4. CASE ClearCommand
  BY <1>4, <1>1 DEF ClearCommand, Uses
<1>5. CASE Deactivate
  BY <1>5, <1>1 DEF Deactivate
<1>6. CASE UpdateTpdo
  BY <1>6, <1>1, OrderFacts DEF UpdateTpdo, ReadFromRT
<1>7. CASE ClearCommanded
  BY <1>7, <1>1 DEF ClearCommanded, NextCommand
<1>8. CASE Act
  <2>1. UNCHANGED commands /\ result' \in {"ok", "fail"} /\ ran' \in {ran, Append(ran, result')}
    BY <1>8, Zenon DEF Act
  <2>2. QED
    BY <1>1, <2>1, AppendProperties
<1>9. CASE StoreFeedback
  <2>1. result \in {"ok", "fail"}
    BY DEF Values
  <2>2. QED
    BY <1>9, <1>1, <2>1 DEF StoreFeedback
<1>10. CASE Await \/ Look \/ Subscribe \/ OnRpdo \/ OnRpdoData \/ OnNmt \/ Activate \/
     Drop \/ Release \/ Cycle \/ UpdateNmt \/ ReadRpdo \/ PublishRpdo \/ PublisherBusy \/
     NullInput \/ TestCommand \/ TransmitTpdo
  <2>1. UNCHANGED <<cmd, fbk, ran>>
    BY <1>10 DEF Await, Uses, Look, Subscribe, OnRpdo, OnRpdoData, OnNmt, Activate, Drop,
       ReadFromRT, Release, Cycle, UpdateNmt, ReadRpdo, PublishRpdo, PublisherBusy,
       NullInput, TestCommand, TransmitTpdo, NextCommand
  <2>2. QED
    BY <2>1, <1>1
<1>11. QED
  BY <1>2, <1>3, <1>4, <1>5, <1>6, <1>7, <1>8, <1>9, <1>10 DEF Next, Service, Switch, Update, Write

\* Emptying the side of the loop leaves the other side and the flag.
LEMMA EmptyType ==
  ASSUME conf.tpdos \in Nat, NEW r \in Inputs
  PROVE  /\ [r EXCEPT !.rt = 0] \in Inputs
         /\ [r EXCEPT !.rt = 0].rt = 0 /\ [r EXCEPT !.rt = 0].new = r.new
BY DEF Inputs

\* readFromRT() takes the newest message or nothing, and leaves the flag down.
LEMMA ReadType ==
  ASSUME input \in Inputs
  PROVE  /\ ReadFromRT \in Inputs
         /\ ReadFromRT.rt = IF input.new THEN input.non_rt ELSE input.rt
         /\ ~ReadFromRT.new
<1>1. CASE input.new
  <2>1. ReadFromRT = [rt |-> input.non_rt, non_rt |-> input.rt, new |-> FALSE]
    BY <1>1 DEF ReadFromRT
  <2>2. input.rt \in 0 .. conf.tpdos /\ input.non_rt \in 0 .. conf.tpdos
    BY DEF Inputs
  <2>3. ReadFromRT \in Inputs
    BY <2>1, <2>2 DEF Inputs
  <2>4. ReadFromRT.rt = input.non_rt /\ ReadFromRT.new = FALSE
    BY <2>1
  <2>5. QED
    BY <1>1, <2>3, <2>4
<1>2. CASE ~input.new
  BY <1>2 DEF ReadFromRT, Inputs
<1>3. QED
  BY <1>1, <1>2

\* ... and the messages, which are taken from the sequences within their bounds.
LEMMA TrafficNext ==
  ASSUME Values, Traffic, InputFits, CanFits, Next
  PROVE  Traffic'
<1>1. /\ conf' = conf /\ conf.tpdos \in Nat /\ conf.rpdos \in Nat
      /\ conf.data \subseteq 0 .. 2 * Half - 1 /\ Half \in Nat \ {0}
      /\ Len(posted) \in Nat /\ Len(received) \in Nat
      /\ Inputs' = Inputs
  BY OrderStays, ConfFacts, HalfAssumption, LenProperties DEF Values, Traffic, Inputs
<1> USE DEF controller, commands, control, serving, history, tpdos, rpdos, reports
<1>2. ASSUME NEW c \in Services, Call(c) PROVE Traffic'
  BY <1>2, <1>1 DEF Call, Uses, Traffic
<1>3. CASE Subscribe
  <2>1. PICK d \in conf.data : posted' = Append(posted, d)
    BY <1>3 DEF Subscribe
  <2>2. posted' \in Seq(conf.data) /\ Len(posted') = Len(posted) + 1
    BY <2>1, AppendProperties DEF Traffic
  <2>3. Len(posted) < conf.tpdos
    BY <1>3 DEF Subscribe
  <2>4. /\ input' = [rt |-> input.rt, non_rt |-> Len(posted'), new |-> TRUE]
        /\ input.rt \in 0 .. conf.tpdos
    BY <1>3 DEF Subscribe, Traffic, Inputs
  <2>5. input' \in Inputs
    BY <1>1, <2>2, <2>3, <2>4 DEF Traffic, Inputs
  <2>6. UNCHANGED <<received, tpdo, sent, rpdo, published, read_rpdo>>
    BY <1>3 DEF Subscribe
  <2>7. QED
    BY <1>1, <2>2, <2>3, <2>5, <2>6 DEF Traffic, Messages
<1>4. CASE OnRpdo
  <2>1. PICK d \in conf.data : received' = Append(received, d)
    BY <1>4 DEF OnRpdo
  <2>2. received' \in Seq(conf.data) /\ Len(received') = Len(received) + 1
    BY <2>1, AppendProperties DEF Traffic
  <2>3. Len(received) < conf.rpdos /\ rpdo' \in {rpdo, [rpdo EXCEPT !.n = Len(received')]}
    BY <1>4 DEF OnRpdo
  <2>4. rpdo' \in Messages
    BY <1>1, <2>2, <2>3 DEF Traffic, Messages
  <2>5. UNCHANGED <<input, posted, tpdo, sent, published, read_rpdo>>
    BY <1>4 DEF OnRpdo
  <2>6. QED
    BY <1>1, <2>2, <2>3, <2>4, <2>5 DEF Traffic
<1>5. CASE OnRpdoData
  <2>1. received[Len(received)] \in conf.data
    BY <1>5, <1>1, EmptySeq DEF OnRpdoData, CanFits, Traffic
  <2>2. rpdo' \in Messages
    BY <1>5, <1>1, <2>1 DEF OnRpdoData, Traffic, Messages
  <2>3. UNCHANGED <<input, posted, received, tpdo, sent, published, read_rpdo>>
    BY <1>5 DEF OnRpdoData
  <2>4. QED
    BY <1>1, <2>2, <2>3 DEF Traffic
<1>6. CASE Drop
  <2>1. input' = [ReadFromRT EXCEPT !.rt = 0]
    BY <1>6 DEF Drop
  <2>2. input' \in Inputs
    BY <1>1, <2>1, ReadType, EmptyType DEF Traffic
  <2>3. UNCHANGED <<received, posted, tpdo, sent, rpdo, published, read_rpdo>>
    BY <1>6 DEF Drop
  <2>4. QED
    BY <1>1, <2>2, <2>3 DEF Traffic
<1>7. CASE ReadRpdo
  <2>1. PICK d \in AsPublished(rpdo.data) :
          read_rpdo' \in {[read_rpdo EXCEPT !.n = rpdo.n], [read_rpdo EXCEPT !.data = d]}
    BY <1>7 DEF ReadRpdo, AsPublished
  <2>2. rpdo.data \in 0 .. 2 * Half - 1 /\ rpdo.n \in Nat /\ d \in 0 .. 2 * Half - 1
    BY <1>1 DEF AsPublished, Traffic, Messages
  <2>3. read_rpdo' \in Messages
    BY <2>1, <2>2 DEF Traffic, Messages
  <2>4. UNCHANGED <<input, posted, received, tpdo, sent, rpdo, published>>
    BY <1>7 DEF ReadRpdo
  <2>5. QED
    BY <1>1, <2>3, <2>4 DEF Traffic
<1>8. CASE PublishRpdo
  BY <1>8, <1>1 DEF PublishRpdo, Traffic
<1>9. CASE UpdateTpdo
  <2>1. input' \in Inputs
        /\ input'.rt \in {0, Len(posted)}
    BY <1>9, <1>1, ReadType DEF UpdateTpdo, Traffic, InputFits
  <2>2. tpdo' = tpdo \/ (input'.rt # 0 /\ tpdo' = [n |-> input'.rt, data |-> posted[input'.rt]])
    BY <1>9, Zenon DEF UpdateTpdo
  <2>3. input'.rt # 0 => posted[input'.rt] \in conf.data
    BY <1>1, <2>1 DEF Traffic
  <2>4. tpdo' \in Messages
    BY <1>1, <2>1, <2>2, <2>3 DEF Traffic, Messages
  <2>5. UNCHANGED <<posted, received, sent, rpdo, published, read_rpdo>>
    BY <1>9 DEF UpdateTpdo
  <2>6. QED
    BY <1>1, <2>1, <2>4, <2>5 DEF Traffic
<1>10. CASE NullInput
  <2>1. input' = [ReadFromRT EXCEPT !.rt = 0]
    BY <1>10 DEF NullInput
  <2>2. input' \in Inputs
    BY <1>1, <2>1, ReadType, EmptyType DEF Traffic
  <2>3. UNCHANGED <<received, posted, tpdo, sent, rpdo, published, read_rpdo>>
    BY <1>10 DEF NullInput
  <2>4. QED
    BY <1>1, <2>2, <2>3 DEF Traffic
<1>11. CASE TransmitTpdo
  <2>1. PICK d \in AsSent(tpdo.data) : sent' = [n |-> tpdo.n, data |-> d]
    BY <1>11 DEF TransmitTpdo
  <2>2. sent' \in Messages
    BY <1>1, <2>1 DEF AsSent, Traffic, Messages
  <2>3. UNCHANGED <<input, posted, received, tpdo, rpdo, published, read_rpdo>>
    BY <1>11 DEF TransmitTpdo
  <2>4. QED
    BY <1>1, <2>2, <2>3 DEF Traffic
<1>12. CASE Await \/ Look \/ ClearFeedback \/ ClearCommand \/ OnNmt \/ Activate \/
     Deactivate \/ Release \/ Cycle \/ UpdateNmt \/ PublisherBusy \/ TestCommand \/
     ClearCommanded \/ Act \/ StoreFeedback
  <2>1. UNCHANGED <<input, posted, tpdo, sent, rpdo, received, read_rpdo, published>>
    BY <1>12 DEF Await, Uses, Look, ClearFeedback, ClearCommand, OnNmt, Activate,
       Deactivate, Release, Cycle, UpdateNmt, PublisherBusy, TestCommand, ClearCommanded,
       NextCommand, Act, StoreFeedback
  <2>2. QED
    BY <2>1, <1>1 DEF Traffic
<1>13. QED
  BY <1>2, <1>3, <1>4, <1>5, <1>6, <1>7, <1>8, <1>9, <1>10, <1>11, <1>12 DEF Next, Service, Switch, Update, Write

-----------------------------------------------------------------------------
(***************************************************************************)
(* The calls and their results: the conjuncts of CallsFit, one by one.      *)
(***************************************************************************)

\* Once its result is there, no command of a call is set.
LEMMA NoCommandLeft ==
  ASSUME CommandsOwn, service # "wait" \/ ran # << >>
  PROVE  cmd \subseteq {"tpdo"}
BY DEF CommandsOwn

\* The result that the driver's work adds is the first one of its call.
LEMMA FirstResult ==
  ASSUME WorkOwn, ResetOnce, loop = "act", Order[at] # "tpdo", owner = calls, name = Order[at]
  PROVE  ran = << >> /\ name \notin cmd
<1>1. CASE Order[at] = "reset"
  BY <1>1 DEF ResetOnce
<1>2. CASE Order[at] # "reset"
  BY <1>2 DEF WorkOwn
<1>3. QED
  BY <1>1, <1>2

\* A service leaves its wait only when its command is gone.
LEMMA CommandsOwnNext ==
  ASSUME CommandsOwn, FeedbackOwn, WorkOwn, ResetOnce, Values, Next
  PROVE  CommandsOwn'
<1>1. conf' = conf /\ Order' = Order /\ Commands' = Commands
  BY OrderStays
<1> USE DEF CommandsOwn, controller, commands, control, serving, history, tpdos, rpdos,
     reports
<1>2. ASSUME NEW c \in Services, Call(c) PROVE CommandsOwn'
  BY <1>2, <1>1, ServiceFacts DEF Call, Uses, Values
<1>3. CASE Await
  <2>1. UNCHANGED <<cmd, name, ran>>
    BY <1>3 DEF Await, Uses
  <2>2. CASE service' = service
    BY <2>1, <2>2
  <2>3. CASE service' # service
    <3>1. claimed
      BY <1>3, <2>3 DEF Await, Uses
    <3>2. IF name = "reset" THEN name \notin cmd ELSE fbk[name] # "nan"
      BY <1>3, <3>1, Zenon DEF Await
    <3>3. name # "reset" => ran = <<fbk[name]>>
      BY <3>2 DEF FeedbackOwn, Values
    <3>4. name # "reset" => ran # << >>
      BY <3>3
    <3>5. cmd \subseteq {"tpdo"}
      BY <3>2, <3>4, NoCommandLeft
    <3>6. QED
      BY <2>1, <3>5
  <2>4. QED
    BY <2>2, <2>3
<1>4. CASE Look
  BY <1>4, <1>1 DEF Look, Uses
<1>5. CASE ClearFeedback
  BY <1>5, <1>1 DEF ClearFeedback, Uses
<1>6. CASE ClearCommand
  BY <1>6, <1>1 DEF ClearCommand, Uses
<1>7. CASE Deactivate
  BY <1>7, <1>1 DEF Deactivate
<1>8. CASE UpdateTpdo
  BY <1>8, <1>1 DEF UpdateTpdo, ReadFromRT
<1>9. CASE ClearCommanded
  BY <1>9, <1>1 DEF ClearCommanded, NextCommand
<1>10. CASE Act
  <2>1. loop = "act" /\ Order[at] # "tpdo" /\ UNCHANGED <<cmd, fbk, service, name, answer>>
    BY <1>10 DEF Act
  <2>2. CASE owner = calls /\ name = Order[at]
    <3>1. ran = << >> /\ name \notin cmd
      BY <2>1, <2>2, FirstResult
    <3>2. QED
      BY <1>1, <2>1, <2>2, <3>1 DEF CommandsOwn
  <2>3. CASE ~(owner = calls /\ name = Order[at])
    <3>1. ran' = ran
      BY <1>10, <2>3 DEF Act
    <3>2. QED
      BY <1>1, <2>1, <3>1 DEF CommandsOwn
  <2>4. QED
    BY <2>2, <2>3
<1>11. CASE Subscribe \/ OnRpdo \/ OnRpdoData \/ OnNmt \/ Activate \/ Drop \/ Release \/
     Cycle \/ UpdateNmt \/ ReadRpdo \/ PublishRpdo \/ PublisherBusy \/ NullInput \/
     TestCommand \/ TransmitTpdo \/ StoreFeedback
  <2>1. UNCHANGED <<cmd, service, name, ran>>
    BY <1>11 DEF Subscribe, OnRpdo, OnRpdoData, OnNmt, Activate, Drop, ReadFromRT,
       Release, Cycle, UpdateNmt, ReadRpdo, PublishRpdo, PublisherBusy, NullInput,
       TestCommand, TransmitTpdo, NextCommand, StoreFeedback
  <2>2. QED
    BY <2>1, <1>1
<1>12. QED
  BY <1>2, <1>3, <1>4, <1>5, <1>6, <1>7, <1>8, <1>9, <1>10, <1>11 DEF Next, Service, Switch, Update, Write

\* write() stores a feedback only for the call that waits for it.
LEMMA FeedbackOwnNext ==
  ASSUME FeedbackOwn, WorkOwn, ResetOnce, TpdoApart, Values, Doubles, Next
  PROVE  FeedbackOwn'
<1>1. conf' = conf /\ Order' = Order /\ Commands' = Commands
  BY OrderStays
<1> USE DEF FeedbackOwn, controller, commands, control, serving, history, tpdos, rpdos,
     reports
<1>2. ASSUME NEW c \in Services, Call(c) PROVE FeedbackOwn'
  BY <1>2, <1>1 DEF Call, Uses
<1>3. CASE Await
  BY <1>3, <1>1 DEF Await, Uses
<1>4. CASE Look
  BY <1>4, <1>1 DEF Look, Uses
<1>5. CASE ClearFeedback
  BY <1>5, <1>1 DEF ClearFeedback, Uses, Doubles
<1>6. CASE ClearCommand
  BY <1>6, <1>1 DEF ClearCommand, Uses
<1>7. CASE Deactivate
  BY <1>7, <1>1 DEF Deactivate
<1>8. CASE Act
  <2>1. loop = "act" /\ Order[at] # "tpdo" /\ UNCHANGED <<cmd, fbk, service, name, answer>>
    BY <1>8 DEF Act
  <2>2. CASE owner = calls /\ name = Order[at]
    <3>1. ran = << >> /\ name \notin cmd
      BY <2>1, <2>2, FirstResult
    <3>2. QED
      BY <1>1, <2>1, <2>2, <3>1 DEF FeedbackOwn, WorkOwn
  <2>3. CASE ~(owner = calls /\ name = Order[at])
    <3>1. ran' = ran
      BY <1>8, <2>3 DEF Act
    <3>2. QED
      BY <1>1, <2>1, <3>1 DEF FeedbackOwn
  <2>4. QED
    BY <2>2, <2>3
<1>9. CASE StoreFeedback
  <2>1. /\ loop = "store" /\ fbk' = [fbk EXCEPT ![Order[at]] = result]
        /\ UNCHANGED <<name, service, ran>>
    BY <1>9 DEF StoreFeedback
  <2>2. ASSUME NEW c \in Commands \ {"reset"}, fbk'[c] # "nan"
        PROVE  name = c /\ service \in {"wait", "look", "clear_fbk"} /\ ran = <<fbk'[c]>>
    <3>1. CASE c = Order[at]
      <4>1. fbk'[c] = result
        BY <2>1, <3>1 DEF Doubles
      <4>2. service = "wait" /\ name = Order[at] /\ ran = <<result>>
        BY <2>1, <2>2, <3>1 DEF WorkOwn, TpdoApart
      <4>3. QED
        BY <3>1, <4>1, <4>2
    <3>2. CASE c # Order[at]
      <4>1. fbk'[c] = fbk[c]
        BY <2>1, <3>2 DEF Doubles
      <4>2. QED
        BY <2>2, <4>1
    <3>3. QED
      BY <3>1, <3>2
  <2>3. QED
    BY <1>1, <2>1, <2>2
<1>10. CASE Subscribe \/ OnRpdo \/ OnRpdoData \/ OnNmt \/ Activate \/ Drop \/ Release \/
     Cycle \/ UpdateNmt \/ ReadRpdo \/ PublishRpdo \/ PublisherBusy \/ UpdateTpdo \/
     NullInput \/ TestCommand \/ ClearCommanded \/ TransmitTpdo
  <2>1. UNCHANGED <<fbk, service, name, ran>>
    BY <1>10 DEF Subscribe, OnRpdo, OnRpdoData, OnNmt, Activate, Drop, ReadFromRT, Release,
       Cycle, UpdateNmt, ReadRpdo, PublishRpdo, PublisherBusy, UpdateTpdo, NullInput,
       TestCommand, ClearCommanded, NextCommand, TransmitTpdo
  <2>2. QED
    BY <2>1, <1>1
<1>11. QED
  BY <1>2, <1>3, <1>4, <1>5, <1>6, <1>7, <1>8, <1>9, <1>10 DEF Next, Service, Switch, Update, Write

\* No service clears a command between write()'s look and its reset of the double.
LEMMA SeenHoldsNext ==
  ASSUME SeenHolds, CommandsOwn, TpdoApart, Values, Next
  PROVE  SeenHolds'
<1>1. conf' = conf /\ Order' = Order /\ Commands' = Commands
  BY OrderStays
<1> USE DEF SeenHolds, controller, commands, control, serving, history, tpdos, rpdos,
     reports
<1>2. ASSUME NEW c \in Services, Call(c) PROVE SeenHolds'
  BY <1>2, <1>1 DEF Call, Uses, CommandsOwn
<1>3. CASE ClearCommand
  BY <1>3, <1>1 DEF ClearCommand, Uses, CommandsOwn, TpdoApart
<1>4. CASE Activate \/ Drop \/ Release \/ Cycle
  BY <1>4, <1>1 DEF Activate, Drop, ReadFromRT, Release, Cycle
<1>5. CASE Deactivate
  BY <1>5, <1>1 DEF Deactivate
<1>6. CASE UpdateNmt \/ ReadRpdo \/ PublishRpdo \/ PublisherBusy \/ NullInput
  BY <1>6, <1>1 DEF UpdateNmt, ReadRpdo, PublishRpdo, PublisherBusy, NullInput, ReadFromRT
<1>7. CASE UpdateTpdo
  BY <1>7, <1>1 DEF UpdateTpdo, ReadFromRT
<1>8. CASE TestCommand
  BY <1>8, <1>1 DEF TestCommand
<1>9. CASE ClearCommanded
  BY <1>9, <1>1 DEF ClearCommanded, NextCommand
<1>10. CASE TransmitTpdo
  BY <1>10, <1>1 DEF TransmitTpdo, NextCommand
<1>11. CASE Act
  BY <1>11, <1>1 DEF Act, NextCommand
<1>12. CASE StoreFeedback
  BY <1>12, <1>1 DEF StoreFeedback, NextCommand
<1>13. CASE Await \/ Look \/ ClearFeedback \/ Subscribe \/ OnRpdo \/ OnRpdoData \/ OnNmt
  <2>1. UNCHANGED <<cmd, loop, at, seen, owner, calls>>
    BY <1>13 DEF Await, Uses, Look, ClearFeedback, Subscribe, OnRpdo, OnRpdoData, OnNmt
  <2>2. QED
    BY <2>1, <1>1
<1>14. QED
  BY <1>2, <1>3, <1>4, <1>5, <1>6, <1>7, <1>8, <1>9, <1>10, <1>11, <1>12, <1>13 DEF Next, Service, Switch, Update, Write

\* What the driver works on is what the waiting call has asked for.
LEMMA WorkOwnNext ==
  ASSUME WorkOwn, SeenHolds, CommandsOwn, FeedbackOwn, TpdoApart, Values, Doubles, Next
  PROVE  WorkOwn'
<1>1. conf' = conf /\ Order' = Order /\ Commands' = Commands
  BY OrderStays
<1> USE DEF WorkOwn, controller, commands, control, serving, history, tpdos, rpdos,
     reports
<1>2. ASSUME NEW c \in Services, Call(c) PROVE WorkOwn'
  BY <1>2, <1>1 DEF Call, Uses
<1>3. CASE Await
  <2>1. UNCHANGED <<name, owner, calls, cmd, fbk, ran, result, loop, at>>
    BY <1>3 DEF Await, Uses
  <2>2. CASE service' = service
    BY <1>1, <2>1, <2>2
  <2>3. CASE service' # service
    <3>1. claimed
      BY <1>3, <2>3 DEF Await, Uses
    <3>2. IF name = "reset" THEN name \notin cmd ELSE fbk[name] # "nan"
      BY <1>3, <3>1, Zenon DEF Await
    <3>3. QED
      BY <1>1, <2>1, <3>2
  <2>4. QED
    BY <2>2, <2>3
<1>4. CASE Look
  BY <1>4, <1>1 DEF Look, Uses
<1>5. CASE ClearFeedback
  BY <1>5, <1>1 DEF ClearFeedback, Uses
<1>6. CASE ClearCommand
  BY <1>6, <1>1 DEF ClearCommand, Uses
<1>7. CASE Activate \/ Drop \/ Release \/ Cycle \/ Deactivate
  BY <1>7, <1>1 DEF Activate, Drop, ReadFromRT, Release, Cycle, Deactivate
<1>8. CASE UpdateNmt \/ ReadRpdo \/ PublishRpdo \/ PublisherBusy \/ UpdateTpdo \/
     NullInput \/ TestCommand
  BY <1>8, <1>1 DEF UpdateNmt, ReadRpdo, PublishRpdo, PublisherBusy, UpdateTpdo,
     ReadFromRT, NullInput, TestCommand
<1>9. CASE ClearCommanded
  <2>1. CASE ~seen
    <3>1. loop' \in {"test", "switch"}
      BY <1>9, <2>1, NextPlace DEF ClearCommanded, Values
    <3>2. QED
      BY <3>1
  <2>2. CASE seen
    <3>1. /\ loop' = "act" /\ at' = at /\ cmd' = cmd \ {Order[at]} /\ Order[at] \in cmd
          /\ UNCHANGED <<service, name, owner, calls, fbk, ran>>
          /\ Order[at] # "tpdo" => owner = calls
      BY <1>9, <2>2 DEF ClearCommanded, SeenHolds
    <3>2. CASE Order[at] \in {"reset", "tpdo"}
      BY <1>1, <3>1, <3>2
    <3>3. CASE Order[at] \notin {"reset", "tpdo"}
      <4>1. service = "wait" /\ name = Order[at] /\ ran = << >>
        BY <3>1, <3>3 DEF CommandsOwn
      <4>2. fbk[Order[at]] = "nan"
        <5>1. SUFFICES ASSUME fbk[Order[at]] # "nan" PROVE FALSE
          OBVIOUS
        <5>2. ran = <<fbk[Order[at]]>>
          BY <3>1, <3>3, <5>1 DEF FeedbackOwn, Doubles
        <5>3. QED
          BY <4>1, <5>2
      <4>3. QED
        BY <1>1, <3>1, <4>1, <4>2
    <3>4. QED
      BY <3>2, <3>3
  <2>3. QED
    BY <2>1, <2>2
<1>10. CASE TransmitTpdo
  <2>1. loop' \in {"test", "switch"}
    BY <1>10, NextPlace DEF TransmitTpdo, Values
  <2>2. QED
    BY <2>1
<1>11. CASE Act
  <2>1. CASE loop' # "store"
    <3>1. loop' \in {"test", "switch"}
      BY <1>11, <2>1, NextPlace DEF Act, Values
    <3>2. QED
      BY <3>1
  <2>2. CASE loop' = "store" /\ at' # at
    <3>1. loop' \in {"test", "switch"}
      BY <1>11, <2>2, NextPlace DEF Act, Values
    <3>2. QED
      BY <2>2, <3>1
  <2>3. CASE loop' = "store" /\ at' = at
    <3>1. /\ loop = "act" /\ Order[at] # "tpdo" /\ result' \in {"ok", "fail"}
          /\ UNCHANGED <<service, name, owner, calls, cmd, fbk>>
          /\ owner = calls /\ name = Order[at] => ran' = Append(ran, result')
      BY <1>11 DEF Act
    <3>2. CASE Order[at] = "reset"
      BY <1>1, <2>3, <3>2
    <3>3. CASE Order[at] # "reset"
      <4>1. ran' = Append(<< >>, result')
        BY <3>1, <3>3
      <4>2. ran' = <<result'>>
        BY <4>1
      <4>3. QED
        BY <1>1, <2>3, <3>1, <3>3, <4>2
    <3>4. QED
      BY <3>2, <3>3
  <2>4. QED
    BY <2>1, <2>2, <2>3
<1>12. CASE StoreFeedback
  <2>1. loop' \in {"test", "switch"}
    BY <1>12, NextPlace DEF StoreFeedback, Values
  <2>2. QED
    BY <2>1
<1>13. CASE Subscribe \/ OnRpdo \/ OnRpdoData \/ OnNmt
  <2>1. UNCHANGED <<cmd, fbk, loop, at, owner, result, service, name, calls, ran>>
    BY <1>13 DEF Subscribe, OnRpdo, OnRpdoData, OnNmt
  <2>2. QED
    BY <2>1, <1>1
<1>14. QED
  BY <1>2, <1>3, <1>4, <1>5, <1>6, <1>7, <1>8, <1>9, <1>10, <1>11, <1>12, <1>13 DEF Next, Service, Switch, Update, Write

\* A reset is not carried out twice for one call.
LEMMA ResetOnceNext ==
  ASSUME ResetOnce, SeenHolds, CommandsOwn, OwnerFits, Values, Next
  PROVE  ResetOnce'
<1>1. conf' = conf /\ Order' = Order /\ Commands' = Commands
  BY OrderStays
<1> USE DEF ResetOnce, controller, commands, control, serving, history, tpdos, rpdos,
     reports
<1>2. ASSUME NEW c \in Services, Call(c) PROVE ResetOnce'
  <2>1. CASE calls' = calls + 1
    <3>1. UNCHANGED <<loop, at, owner>>
      BY <1>2 DEF Call
    <3>2. owner' # calls'
      BY <1>1, <2>1, <3>1, ConfFacts DEF OwnerFits, Values
    <3>3. QED
      BY <3>2
  <2>2. CASE calls' # calls + 1
    <3>1. UNCHANGED <<loop, at, owner, calls, name, ran, cmd>>
      BY <1>2, <2>2, Zenon DEF Call, Uses
    <3>2. QED
      BY <1>1, <3>1
  <2>3. QED
    BY <2>1, <2>2
<1>3. CASE ClearCommand
  BY <1>3, <1>1 DEF ClearCommand, Uses
<1>4. CASE Activate \/ Drop \/ Release \/ Cycle \/ Deactivate
  BY <1>4, <1>1 DEF Activate, Drop, ReadFromRT, Release, Cycle, Deactivate
<1>5. CASE UpdateNmt \/ ReadRpdo \/ PublishRpdo \/ PublisherBusy \/ UpdateTpdo \/
     NullInput \/ TestCommand
  BY <1>5, <1>1 DEF UpdateNmt, ReadRpdo, PublishRpdo, PublisherBusy, UpdateTpdo,
     ReadFromRT, NullInput, TestCommand
<1>6. CASE ClearCommanded
  <2>1. CASE ~seen
    <3>1. loop' \in {"test", "switch"}
      BY <1>6, <2>1, NextPlace DEF ClearCommanded, Values
    <3>2. QED
      BY <3>1
  <2>2. CASE seen
    <3>1. /\ loop' = "act" /\ at' = at /\ cmd' = cmd \ {Order[at]} /\ Order[at] \in cmd
          /\ UNCHANGED <<name, owner, calls, ran>>
      BY <1>6, <2>2 DEF ClearCommanded, SeenHolds
    <3>2. QED
      BY <1>1, <3>1 DEF CommandsOwn
  <2>3. QED
    BY <2>1, <2>2
<1>7. CASE TransmitTpdo
  <2>1. loop' \in {"test", "switch", "store"}
    BY <1>7, NextPlace DEF TransmitTpdo, Values
  <2>2. QED
    BY <2>1
<1>8. CASE Act
  <2>1. loop' \in {"test", "switch", "store"}
    BY <1>8, NextPlace DEF Act, Values
  <2>2. QED
    BY <2>1
<1>9. CASE StoreFeedback
  <2>1. loop' \in {"test", "switch", "store"}
    BY <1>9, NextPlace DEF StoreFeedback, Values
  <2>2. QED
    BY <2>1
<1>10. CASE Await \/ Look \/ ClearFeedback \/ Subscribe \/ OnRpdo \/ OnRpdoData \/ OnNmt
  <2>1. UNCHANGED <<cmd, loop, at, owner, name, calls, ran>>
    BY <1>10 DEF Await, Uses, Look, ClearFeedback, Subscribe, OnRpdo, OnRpdoData, OnNmt
  <2>2. QED
    BY <2>1, <1>1
<1>11. QED
  BY <1>2, <1>3, <1>4, <1>5, <1>6, <1>7, <1>8, <1>9, <1>10 DEF Next, Service, Switch, Update, Write

\* write() never works for a call that has not come.
LEMMA OwnerFitsNext ==
  ASSUME OwnerFits, Values, Next
  PROVE  OwnerFits'
<1>1. conf.calls \in Nat /\ owner \in Nat /\ calls \in Nat
  BY ConfFacts DEF Values
<1> USE DEF OwnerFits, controller, commands, control, serving, history, tpdos, rpdos,
     reports
<1>2. ASSUME NEW c \in Services, Call(c) PROVE OwnerFits'
  <2>1. owner' = owner /\ calls' \in {calls, calls + 1}
    BY <1>2, Zenon DEF Call, Uses
  <2>2. QED
    BY <1>1, <2>1
<1>3. CASE TestCommand
  BY <1>3, <1>1 DEF TestCommand
<1>4. CASE Await \/ Look \/ ClearFeedback \/ ClearCommand \/ Subscribe \/ OnRpdo \/
     OnRpdoData \/ OnNmt \/ Activate \/ Deactivate \/ Drop \/ Release \/ Cycle \/
     UpdateNmt \/ ReadRpdo \/ PublishRpdo \/ PublisherBusy \/ UpdateTpdo \/ NullInput \/
     ClearCommanded \/ TransmitTpdo \/ Act \/ StoreFeedback
  <2>1. UNCHANGED <<owner, calls>>
    BY <1>4 DEF Await, Uses, Look, ClearFeedback, ClearCommand, Subscribe, OnRpdo,
       OnRpdoData, OnNmt, Activate, Deactivate, Drop, ReadFromRT, Release, Cycle,
       UpdateNmt, ReadRpdo, PublishRpdo, PublisherBusy, UpdateTpdo, NullInput,
       ClearCommanded, NextCommand, TransmitTpdo, Act, StoreFeedback
  <2>2. QED
    BY <2>1, <1>1
<1>5. QED
  BY <1>2, <1>3, <1>4 DEF Next, Service, Switch, Update, Write

\* No service has the command of the TPDO.
LEMMA TpdoApartNext ==
  ASSUME TpdoApart, Values, Next
  PROVE  TpdoApart'
<1>1. conf' = conf /\ Order' = Order /\ Commands' = Commands
  BY OrderStays
<1> USE DEF TpdoApart, controller, commands, control, serving, history, tpdos, rpdos,
     reports
<1>2. ASSUME NEW c \in Services, Call(c) PROVE TpdoApart'
  <2>1. name' \in {name, c} /\ loop' = loop /\ at' = at
    BY <1>2, Zenon DEF Call, Uses
  <2>2. QED
    BY <1>1, <2>1, ServiceFacts DEF Values
<1>3. CASE Activate \/ Drop \/ Release \/ Cycle \/ Deactivate
  BY <1>3, <1>1 DEF Activate, Drop, ReadFromRT, Release, Cycle, Deactivate
<1>4. CASE UpdateNmt \/ ReadRpdo \/ PublishRpdo \/ PublisherBusy \/ UpdateTpdo \/
     NullInput \/ TestCommand
  BY <1>4, <1>1 DEF UpdateNmt, ReadRpdo, PublishRpdo, PublisherBusy, UpdateTpdo,
     ReadFromRT, NullInput, TestCommand
<1>5. CASE ClearCommanded
  <2>1. name' = name /\ loop' \in {"test", "switch", "act"}
    BY <1>5, NextPlace DEF ClearCommanded, Values
  <2>2. QED
    BY <2>1
<1>6. CASE TransmitTpdo
  <2>1. name' = name /\ loop' \in {"test", "switch", "act"}
    BY <1>6, NextPlace DEF TransmitTpdo, Values
  <2>2. QED
    BY <2>1
<1>7. CASE Act
  <2>1. name' = name /\ Order[at] # "tpdo"
    BY <1>7 DEF Act
  <2>2. loop' \in {"test", "switch"} \/ at' = at
    BY <1>7, NextPlace DEF Act, Values
  <2>3. QED
    BY <1>1, <2>1, <2>2
<1>8. CASE StoreFeedback
  <2>1. name' = name /\ loop' \in {"test", "switch", "act"}
    BY <1>8, NextPlace DEF StoreFeedback, Values
  <2>2. QED
    BY <2>1
<1>9. CASE Await \/ Look \/ ClearFeedback \/ ClearCommand \/ Subscribe \/ OnRpdo \/
     OnRpdoData \/ OnNmt
  <2>1. UNCHANGED <<loop, at, name>>
    BY <1>9 DEF Await, Uses, Look, ClearFeedback, ClearCommand, Subscribe, OnRpdo,
       OnRpdoData, OnNmt
  <2>2. QED
    BY <2>1, <1>1
<1>10. QED
  BY <1>2, <1>3, <1>4, <1>5, <1>6, <1>7, <1>8, <1>9 DEF Next, Service, Switch, Update, Write

\* A service looks at its feedback when there is one, unless it was wiped.
LEMMA LookFitsNext ==
  ASSUME LookFits, WorkOwn, TpdoApart, Values, Doubles, Flags, Next
  PROVE  LookFits'
<1>1. conf' = conf /\ Order' = Order /\ Commands' = Commands
  BY OrderStays
<1> USE DEF LookFits, controller, commands, control, serving, history, tpdos, rpdos,
     reports
<1>2. ASSUME NEW c \in Services, Call(c) PROVE LookFits'
  <2>1. service' = "wait" \/ UNCHANGED <<service, name, fbk, mishap>>
    BY <1>2, Zenon DEF Call, Uses
  <2>2. QED
    BY <2>1
<1>3. CASE Await
  <2>1. UNCHANGED <<name, fbk, mishap>>
    BY <1>3 DEF Await, Uses
  <2>2. CASE service' = service
    BY <2>1, <2>2
  <2>3. CASE service' # service
    <3>1. claimed
      BY <1>3, <2>3 DEF Await, Uses
    <3>2. IF name = "reset" THEN name \notin cmd ELSE fbk[name] # "nan"
      BY <1>3, <3>1, Zenon DEF Await
    <3>3. QED
      BY <2>1, <3>2
  <2>4. QED
    BY <2>2, <2>3
<1>4. CASE Look
  BY <1>4, <1>1 DEF Look, Uses, Flags
<1>5. CASE ClearFeedback
  BY <1>5, <1>1 DEF ClearFeedback, Uses, Flags
<1>6. CASE ClearCommand
  BY <1>6, <1>1 DEF ClearCommand, Uses, Flags
<1>7. CASE Deactivate
  <2>1. service' = service /\ (service = "look" => mishap')
    BY <1>7 DEF Deactivate
  <2>2. QED
    BY <2>1
<1>8. CASE ClearCommanded
  <2>1. UNCHANGED <<service, name, fbk>> /\ (mishap => mishap')
    BY <1>8 DEF ClearCommanded
  <2>2. QED
    BY <2>1
<1>9. CASE StoreFeedback
  <2>1. UNCHANGED <<service, name, mishap>> /\ result # "nan"
        /\ fbk' = [fbk EXCEPT ![Order[at]] = result]
    BY <1>9 DEF StoreFeedback, Values
  <2>2. fbk'[name] \in {fbk[name], result}
    BY <2>1 DEF Doubles, Values
  <2>3. QED
    BY <2>1, <2>2
<1>10. CASE Subscribe \/ OnRpdo \/ OnRpdoData \/ OnNmt \/ Activate \/ Drop \/ Release \/
     Cycle \/ UpdateNmt \/ ReadRpdo \/ PublishRpdo \/ PublisherBusy \/ UpdateTpdo \/
     NullInput \/ TestCommand \/ TransmitTpdo \/ Act
  <2>1. UNCHANGED <<fbk, service, name, mishap>>
    BY <1>10 DEF Subscribe, OnRpdo, OnRpdoData, OnNmt, Activate, Drop, ReadFromRT, Release,
       Cycle, UpdateNmt, ReadRpdo, PublishRpdo, PublisherBusy, UpdateTpdo, NullInput,
       TestCommand, TransmitTpdo, NextCommand, Act
  <2>2. QED
    BY <2>1, <1>1 DEF Flags
<1>11. QED
  BY <1>2, <1>3, <1>4, <1>5, <1>6, <1>7, <1>8, <1>9, <1>10 DEF Next, Service, Switch, Update, Write

\* The answer of a service is the result of its operation.
LEMMA AnswerFitsNext ==
  ASSUME AnswerFits, LookFits, FeedbackOwn, WorkOwn, Values, Doubles, Flags, Next
  PROVE  AnswerFits'
<1>1. conf' = conf /\ Order' = Order /\ Commands' = Commands
  BY OrderStays
<1> USE DEF AnswerFits, controller, commands, control, serving, history, tpdos, rpdos,
     reports
<1>2. ASSUME NEW c \in Services, Call(c) PROVE AnswerFits'
  <2>1. service' = "wait" \/ UNCHANGED <<service, name, ran, answer, mishap>>
    BY <1>2, Zenon DEF Call, Uses
  <2>2. QED
    BY <2>1
<1>3. CASE Await
  BY <1>3, <1>1 DEF Await, Uses, Flags
<1>4. CASE Look
  <2>1. UNCHANGED <<name, ran, mishap>>
    BY <1>4 DEF Look, Uses
  <2>2. CASE service' = "clear_fbk" /\ name # "reset"
    <3>1. service = "look" /\ answer' = IF fbk[name] = "ok" THEN "ok" ELSE "fail"
      BY <1>4, <2>2 DEF Look, Uses
    <3>2. fbk[name] # "nan" \/ mishap
      BY <2>2, <3>1 DEF LookFits
    <3>3. fbk[name] # "nan" => ran = <<fbk[name]>> /\ fbk[name] \in {"ok", "fail"}
      BY <2>2 DEF FeedbackOwn, Values, Doubles
    <3>4. CASE fbk[name] = "nan"
      BY <2>1, <3>1, <3>2, <3>4
    <3>5. CASE fbk[name] # "nan"
      <4>1. answer' = fbk[name]
        BY <3>1, <3>3, <3>5
      <4>2. QED
        BY <2>1, <3>3, <3>5, <4>1
    <3>6. QED
      BY <3>4, <3>5
  <2>3. CASE ~(service' = "clear_fbk" /\ name # "reset")
    BY <2>1, <2>3
  <2>4. QED
    BY <2>2, <2>3
<1>5. CASE ClearFeedback
  BY <1>5, <1>1 DEF ClearFeedback, Uses, Flags
<1>6. CASE ClearCommand
  BY <1>6, <1>1 DEF ClearCommand, Uses, Flags
<1>7. CASE Deactivate
  <2>1. UNCHANGED <<service, name, ran, answer>> /\ (service = "clear_fbk" => mishap')
    BY <1>7 DEF Deactivate
  <2>2. QED
    BY <2>1
<1>8. CASE ClearCommanded
  <2>1. UNCHANGED <<service, name, ran, answer>> /\ (mishap => mishap')
    BY <1>8 DEF ClearCommanded
  <2>2. QED
    BY <2>1
<1>9. CASE Act
  <2>1. UNCHANGED <<service, name, answer, mishap>> /\ loop = "act" /\ Order[at] # "tpdo"
    BY <1>9 DEF Act
  <2>2. CASE service = "clear_fbk" /\ name # "reset"
    <3>1. ~(owner = calls /\ name = Order[at])
      BY <2>1, <2>2 DEF WorkOwn
    <3>2. ran' = ran
      BY <1>9, <3>1 DEF Act
    <3>3. QED
      BY <2>1, <3>2
  <2>3. CASE ~(service = "clear_fbk" /\ name # "reset")
    BY <2>1, <2>3
  <2>4. QED
    BY <2>2, <2>3
<1>10. CASE Subscribe \/ OnRpdo \/ OnRpdoData \/ OnNmt \/ Activate \/ Drop \/ Release \/
     Cycle \/ UpdateNmt \/ ReadRpdo \/ PublishRpdo \/ PublisherBusy \/ UpdateTpdo \/
     NullInput \/ TestCommand \/ TransmitTpdo \/ StoreFeedback
  <2>1. UNCHANGED <<service, name, answer, ran, mishap>>
    BY <1>10 DEF Subscribe, OnRpdo, OnRpdoData, OnNmt, Activate, Drop, ReadFromRT, Release,
       Cycle, UpdateNmt, ReadRpdo, PublishRpdo, PublisherBusy, UpdateTpdo, NullInput,
       TestCommand, TransmitTpdo, NextCommand, StoreFeedback
  <2>2. QED
    BY <2>1, <1>1 DEF Flags
<1>11. QED
  BY <1>2, <1>3, <1>4, <1>5, <1>6, <1>7, <1>8, <1>9, <1>10 DEF Next, Service, Switch, Update, Write

\* The driver carries the operation of a call out once.
LEMMA OneResultNext ==
  ASSUME OneResult, WorkOwn, ResetOnce, Values, Doubles, Next
  PROVE  OneResult'
<1> USE DEF OneResult, controller, commands, control, serving, history, tpdos, rpdos,
     reports
<1>1. ASSUME NEW c \in Services, Call(c) PROVE OneResult'
  <2>1. ran' \in {ran, << >>}
    BY <1>1, Zenon DEF Call, Uses
  <2>2. QED
    BY <2>1
<1>2. CASE Act
  <2>1. CASE owner = calls /\ name = Order[at]
    <3>1. ran = << >> /\ ran' = Append(ran, result')
      BY <1>2, <2>1, FirstResult DEF Act
    <3>2. ran' = <<result'>>
      BY <3>1
    <3>3. QED
      BY <3>2
  <2>2. CASE ~(owner = calls /\ name = Order[at])
    BY <1>2, <2>2 DEF Act
  <2>3. QED
    BY <2>1, <2>2
<1>3. CASE Await \/ Look \/ ClearFeedback \/ ClearCommand \/ Subscribe \/ OnRpdo \/
     OnRpdoData \/ OnNmt \/ Activate \/ Deactivate \/ Drop \/ Release \/ Cycle \/
     UpdateNmt \/ ReadRpdo \/ PublishRpdo \/ PublisherBusy \/ UpdateTpdo \/ NullInput \/
     TestCommand \/ ClearCommanded \/ TransmitTpdo \/ StoreFeedback
  <2>1. UNCHANGED <<ran>>
    BY <1>3 DEF Await, Uses, Look, ClearFeedback, ClearCommand, Subscribe, OnRpdo,
       OnRpdoData, OnNmt, Activate, Deactivate, Drop, ReadFromRT, Release, Cycle,
       UpdateNmt, ReadRpdo, PublishRpdo, PublisherBusy, UpdateTpdo, NullInput,
       TestCommand, ClearCommanded, NextCommand, TransmitTpdo, StoreFeedback
  <2>2. QED
    BY <2>1
<1>4. QED
  BY <1>1, <1>2, <1>3 DEF Next, Service, Switch, Update, Write

-----------------------------------------------------------------------------
(***************************************************************************)
(* The messages: the conjuncts of Passing, one by one.                     *)
(***************************************************************************)

\* The next message is one more, and leaves the ones before it as they are.
LEMMA PostedGrows ==
  ASSUME posted \in Seq(conf.data), NEW d \in conf.data, posted' = Append(posted, d)
  PROVE  /\ Len(posted) \in Nat /\ Len(posted') = Len(posted) + 1
         /\ \A i \in 1 .. Len(posted) : posted'[i] = posted[i]
BY AppendProperties, LenProperties

\* What update() has not seen is the newest message.
LEMMA InputFitsNext ==
  ASSUME InputFits, TpdoWhole, Values, Traffic, Next
  PROVE  InputFits'
<1>1. /\ conf' = conf /\ conf.tpdos \in Nat /\ input \in Inputs /\ Inputs' = Inputs
      /\ Len(posted) \in Nat /\ tpdo.n \in Nat /\ sent.n \in Nat
  BY OrderStays, ConfFacts, LenProperties DEF Values, Traffic, Inputs, Messages
<1> USE DEF InputFits, controller, commands, control, serving, history, tpdos, rpdos,
     reports
<1>2. ASSUME NEW c \in Services, Call(c) PROVE InputFits'
  BY <1>2, <1>1 DEF Call, Uses
<1>3. CASE Subscribe
  <2>1. PICK d \in conf.data : posted' = Append(posted, d)
    BY <1>3 DEF Subscribe
  <2>2. Len(posted') = Len(posted) + 1
    BY <2>1, PostedGrows DEF Traffic
  <2>3. input' = [input EXCEPT !.non_rt = Len(posted'), !.new = TRUE]
    BY <1>3 DEF Subscribe
  <2>4. input'.rt = input.rt /\ input'.non_rt = Len(posted')
    BY <1>1, <2>3 DEF Inputs
  <2>5. tpdo.n < Len(posted') /\ loop' = loop /\ tpdo' = tpdo
    BY <1>3, <1>1, <2>2 DEF Subscribe, TpdoWhole
  <2>6. QED
    BY <2>4, <2>5
<1>4. CASE Activate \/ Deactivate \/ Release \/ Cycle
  BY <1>4, <1>1 DEF Activate, Deactivate, Release, Cycle
<1>5. CASE Drop
  <2>1. input' = [ReadFromRT EXCEPT !.rt = 0] /\ UNCHANGED <<posted, tpdo>>
    BY <1>5 DEF Drop
  <2>2. input'.rt = 0 /\ ~input'.new
    BY <1>1, <2>1, ReadType, EmptyType
  <2>3. QED
    BY <2>1, <2>2
<1>6. CASE UpdateNmt \/ ReadRpdo \/ PublishRpdo \/ PublisherBusy \/ TestCommand
  BY <1>6, <1>1 DEF UpdateNmt, ReadRpdo, PublishRpdo, PublisherBusy, TestCommand
<1>7. CASE UpdateTpdo
  <2>1. input' = ReadFromRT /\ (loop' = "null" \/ input'.rt = 0)
    BY <1>7 DEF UpdateTpdo
  <2>2. ~input'.new
    BY <1>1, <2>1, ReadType
  <2>3. QED
    BY <2>1, <2>2
<1>8. CASE NullInput
  <2>1. input' = [ReadFromRT EXCEPT !.rt = 0] /\ UNCHANGED <<posted, tpdo>>
    BY <1>8 DEF NullInput
  <2>2. input'.rt = 0 /\ ~input'.new
    BY <1>1, <2>1, ReadType, EmptyType
  <2>3. QED
    BY <2>1, <2>2
<1>9. CASE ClearCommanded
  <2>1. loop' \in {"test", "switch", "act"} /\ loop # "null" /\ UNCHANGED <<input, posted, tpdo>>
    BY <1>9, NextPlace DEF ClearCommanded, Values
  <2>2. QED
    BY <2>1
<1>10. CASE TransmitTpdo
  <2>1. loop' \in {"test", "switch"} /\ loop # "null" /\ UNCHANGED <<input, posted, tpdo>>
    BY <1>10, NextPlace DEF TransmitTpdo, Values
  <2>2. QED
    BY <2>1
<1>11. CASE Act
  <2>1. loop' \in {"test", "switch", "store"} /\ loop # "null" /\ UNCHANGED <<input, posted, tpdo>>
    BY <1>11, NextPlace DEF Act, Values
  <2>2. QED
    BY <2>1
<1>12. CASE StoreFeedback
  <2>1. loop' \in {"test", "switch"} /\ loop # "null" /\ UNCHANGED <<input, posted, tpdo>>
    BY <1>12, NextPlace DEF StoreFeedback, Values
  <2>2. QED
    BY <2>1
<1>13. CASE Await \/ Look \/ ClearFeedback \/ ClearCommand \/ OnRpdo \/ OnRpdoData \/
     OnNmt
  <2>1. UNCHANGED <<loop, input, posted, tpdo>>
    BY <1>13 DEF Await, Uses, Look, ClearFeedback, ClearCommand, OnRpdo, OnRpdoData, OnNmt
  <2>2. QED
    BY <2>1, <1>1
<1>14. QED
  BY <1>2, <1>3, <1>4, <1>5, <1>6, <1>7, <1>8, <1>9, <1>10, <1>11, <1>12, <1>13 DEF Next, Service, Switch, Update, Write

\* update() takes the newest message whole, if there is one it has not seen.
LEMMA TakesNewest ==
  ASSUME Values, Traffic, InputFits, UpdateTpdo
  PROVE  \/ tpdo' = tpdo /\ cmd' = cmd
         \/ /\ tpdo' = [n |-> Len(posted), data |-> posted[Len(posted)]]
            /\ tpdo.n < Len(posted)
            /\ cmd' = cmd \cup {"tpdo"}
<1>1. input \in Inputs /\ loop = "tpdo" /\ input' = ReadFromRT
  BY DEF Traffic, UpdateTpdo
<1>2. CASE input'.rt = 0
  BY <1>2 DEF UpdateTpdo
<1>3. CASE input'.rt # 0
  <2>1. input.new /\ input'.rt = Len(posted) /\ tpdo.n < Len(posted)
    BY <1>1, <1>3, ReadType DEF InputFits
  <2>2. QED
    BY <1>3, <2>1 DEF UpdateTpdo
<1>4. QED
  BY <1>2, <1>3

\* The doubles of the TPDO change together.
LEMMA TpdoWholeNext ==
  ASSUME TpdoWhole, InputFits, Values, Traffic, Next
  PROVE  TpdoWhole'
<1>1. /\ conf' = conf /\ conf.tpdos \in Nat /\ input \in Inputs /\ Inputs' = Inputs
      /\ Len(posted) \in Nat /\ tpdo.n \in Nat /\ sent.n \in Nat
  BY OrderStays, ConfFacts, LenProperties DEF Values, Traffic, Inputs, Messages
<1> USE DEF TpdoWhole, controller, commands, control, serving, history, tpdos, rpdos,
     reports
<1>2. ASSUME NEW c \in Services, Call(c) PROVE TpdoWhole'
  BY <1>2, <1>1 DEF Call, Uses
<1>3. CASE Subscribe
  <2>1. PICK d \in conf.data : posted' = Append(posted, d)
    BY <1>3 DEF Subscribe
  <2>2. Len(posted') = Len(posted) + 1 /\ \A i \in 1 .. Len(posted) : posted'[i] = posted[i]
    BY <2>1, PostedGrows DEF Traffic
  <2>3. tpdo' = tpdo
    BY <1>3 DEF Subscribe
  <2>4. QED
    BY <1>1, <2>2, <2>3
<1>4. CASE UpdateTpdo
  <2>1. \/ tpdo' = tpdo /\ cmd' = cmd
        \/ /\ tpdo' = [n |-> Len(posted), data |-> posted[Len(posted)]]
           /\ tpdo.n < Len(posted)
           /\ cmd' = cmd \cup {"tpdo"}
    BY <1>4, TakesNewest
  <2>2. UNCHANGED <<posted, sent>> /\ loop' # "act"
    BY <1>4 DEF UpdateTpdo
  <2>3. QED
    BY <1>1, <2>1, <2>2
<1>5. CASE Await \/ Look \/ ClearFeedback \/ ClearCommand \/ OnRpdo \/ OnRpdoData \/
     OnNmt \/ Activate \/ Deactivate \/ Drop \/ Release \/ Cycle \/ UpdateNmt \/
     ReadRpdo \/ PublishRpdo \/ PublisherBusy \/ NullInput \/ TestCommand \/
     ClearCommanded \/ TransmitTpdo \/ Act \/ StoreFeedback
  <2>1. UNCHANGED <<posted, tpdo>>
    BY <1>5 DEF Await, Uses, Look, ClearFeedback, ClearCommand, OnRpdo, OnRpdoData, OnNmt,
       Activate, Deactivate, Drop, ReadFromRT, Release, Cycle, UpdateNmt, ReadRpdo,
       PublishRpdo, PublisherBusy, NullInput, TestCommand, ClearCommanded, NextCommand,
       TransmitTpdo, Act, StoreFeedback
  <2>2. QED
    BY <2>1, <1>1
<1>6. QED
  BY <1>2, <1>3, <1>4, <1>5 DEF Next, Service, Switch, Update, Write

\* A message that was transmitted is not commanded again.
LEMMA PendingFitsNext ==
  ASSUME PendingFits, SeenHolds, TpdoWhole, InputFits, TpdoApart, Values, Traffic, Next
  PROVE  PendingFits'
<1>1. /\ conf' = conf /\ Order' = Order /\ conf.tpdos \in Nat /\ input \in Inputs /\ Inputs' = Inputs
      /\ Len(posted) \in Nat /\ tpdo.n \in Nat /\ sent.n \in Nat
  BY OrderStays, ConfFacts, LenProperties DEF Values, Traffic, Inputs, Messages
<1> USE DEF PendingFits, controller, commands, control, serving, history, tpdos, rpdos,
     reports
<1>2. ASSUME NEW c \in Services, Call(c) PROVE PendingFits'
  <2>1. cmd' \in {cmd, cmd \cup {c}} /\ UNCHANGED <<sent, tpdo, loop, at>>
    BY <1>2, Zenon DEF Call, Uses
  <2>2. QED
    BY <1>1, <2>1, ServiceFacts DEF Values
<1>3. CASE ClearCommand
  BY <1>3, <1>1 DEF ClearCommand, Uses
<1>4. CASE Activate \/ Drop \/ Release \/ Cycle \/ Deactivate
  BY <1>4, <1>1 DEF Activate, Drop, ReadFromRT, Release, Cycle, Deactivate
<1>5. CASE UpdateNmt \/ ReadRpdo \/ PublishRpdo \/ PublisherBusy \/ NullInput \/
     TestCommand
  BY <1>5, <1>1 DEF UpdateNmt, ReadRpdo, PublishRpdo, PublisherBusy, NullInput,
     ReadFromRT, TestCommand
<1>6. CASE UpdateTpdo
  <2>1. \/ tpdo' = tpdo /\ cmd' = cmd
        \/ /\ tpdo' = [n |-> Len(posted), data |-> posted[Len(posted)]]
           /\ tpdo.n < Len(posted)
           /\ cmd' = cmd \cup {"tpdo"}
    BY <1>6, TakesNewest
  <2>2. UNCHANGED <<posted, sent>> /\ loop' # "act"
    BY <1>6 DEF UpdateTpdo
  <2>3. QED
    BY <1>1, <2>1, <2>2
<1>7. CASE ClearCommanded
  <2>1. UNCHANGED <<sent, tpdo>> /\ cmd' = cmd \ {Order[at]}
    BY <1>7 DEF ClearCommanded
  <2>2. CASE ~seen
    <3>1. loop' \in {"test", "switch"}
      BY <1>7, <2>2, NextPlace DEF ClearCommanded, Values
    <3>2. QED
      BY <1>1, <2>1, <3>1
  <2>3. CASE seen
    <3>1. at' = at /\ Order[at] \in cmd
      BY <1>7, <2>3 DEF ClearCommanded, SeenHolds
    <3>2. QED
      BY <1>1, <2>1, <3>1
  <2>4. QED
    BY <2>2, <2>3
<1>8. CASE TransmitTpdo
  <2>1. loop' \in {"test", "switch"} /\ UNCHANGED <<tpdo, cmd>>
    BY <1>8, NextPlace DEF TransmitTpdo, Values
  <2>2. sent'.n = tpdo.n
    BY <1>8 DEF TransmitTpdo
  <2>3. "tpdo" \notin cmd
    BY <1>8 DEF TransmitTpdo, PendingFits
  <2>4. QED
    BY <1>1, <2>1, <2>2, <2>3
<1>9. CASE Act
  <2>1. loop' \in {"test", "switch", "store"} /\ UNCHANGED <<sent, tpdo, cmd>>
    BY <1>9, NextPlace DEF Act, Values
  <2>2. QED
    BY <2>1
<1>10. CASE StoreFeedback
  <2>1. loop' \in {"test", "switch"} /\ UNCHANGED <<sent, tpdo, cmd>>
    BY <1>10, NextPlace DEF StoreFeedback, Values
  <2>2. QED
    BY <2>1
<1>11. CASE Await \/ Look \/ ClearFeedback \/ Subscribe \/ OnRpdo \/ OnRpdoData \/ OnNmt
  <2>1. UNCHANGED <<cmd, loop, at, tpdo, sent>>
    BY <1>11 DEF Await, Uses, Look, ClearFeedback, Subscribe, OnRpdo, OnRpdoData, OnNmt
  <2>2. QED
    BY <2>1, <1>1
<1>12. QED
  BY <1>2, <1>3, <1>4, <1>5, <1>6, <1>7, <1>8, <1>9, <1>10, <1>11 DEF Next, Service, Switch, Update, Write

\* The second half of the RPDO callback follows the first.
LEMMA CanFitsNext ==
  ASSUME CanFits, Values, Traffic, Next
  PROVE  CanFits'
<1> USE DEF CanFits, controller, commands, control, serving, history, tpdos, rpdos,
     reports
<1>1. ASSUME NEW c \in Services, Call(c) PROVE CanFits'
  BY <1>1 DEF Call, Uses
<1>2. CASE OnRpdo
  <2>1. PICK d \in conf.data : received' = Append(received, d)
    BY <1>2 DEF OnRpdo
  <2>2. received' # << >>
    BY <2>1, AppendProperties DEF Traffic
  <2>3. QED
    BY <2>2
<1>3. CASE OnRpdoData
  BY <1>3 DEF OnRpdoData
<1>4. CASE Await \/ Look \/ ClearFeedback \/ ClearCommand \/ Subscribe \/ OnNmt \/
     Activate \/ Deactivate \/ Drop \/ Release \/ Cycle \/ UpdateNmt \/ ReadRpdo \/
     PublishRpdo \/ PublisherBusy \/ UpdateTpdo \/ NullInput \/ TestCommand \/
     ClearCommanded \/ TransmitTpdo \/ Act \/ StoreFeedback
  <2>1. UNCHANGED <<received, can>>
    BY <1>4 DEF Await, Uses, Look, ClearFeedback, ClearCommand, Subscribe, OnNmt,
       Activate, Deactivate, Drop, ReadFromRT, Release, Cycle, UpdateNmt, ReadRpdo,
       PublishRpdo, PublisherBusy, UpdateTpdo, NullInput, TestCommand, ClearCommanded,
       NextCommand, TransmitTpdo, Act, StoreFeedback
  <2>2. QED
    BY <2>1
<1>5. QED
  BY <1>1, <1>2, <1>3, <1>4 DEF Next, Service, Switch, Update, Write

-----------------------------------------------------------------------------
(***************************************************************************)
(* The theorems.                                                           *)
(***************************************************************************)

\* The inductive invariant holds at the start, ...
LEMMA InitIInv == Init => IInv
<1> SUFFICES ASSUME Init PROVE IInv
  OBVIOUS
<1>1. conf \in Configurations
  BY DEF Init
<1>2. /\ conf.calls \in Nat /\ conf.tpdos \in Nat /\ conf.rpdos \in Nat
      /\ conf.activations \in Nat /\ conf.memory \in NmtNames /\ Len(conf.states) \in Nat
  BY <1>1, ConfFacts
<1>3. Flags
  BY DEF Init, Flags
<1>4. Values
  BY <1>1, <1>2, OrderFacts DEF Init, Values, NmtNames
<1>5. Doubles
  BY DEF Init, Doubles
<1>6. Traffic
  <2>1. input \in Inputs
    BY <1>2 DEF Init, Inputs
  <2>2. NoMessage \in Messages
    BY HalfAssumption DEF NoMessage, Messages
  <2>3. << >> \in Seq(conf.data) /\ Len(<< >>) = 0
    OBVIOUS
  <2>4. QED
    BY <1>2, <2>1, <2>2, <2>3 DEF Init, Traffic
<1>7. OneResult
  BY DEF Init, OneResult
<1>8. CallsFit
  BY DEF Init, CallsFit, CommandsOwn, FeedbackOwn, SeenHolds, WorkOwn, ResetOnce, OwnerFits,
     LookFits, AnswerFits, TpdoApart
<1>9. Passing
  BY DEF Init, Passing, InputFits, TpdoWhole, PendingFits, CanFits, NoMessage
<1>10. QED
  BY <1>3, <1>4, <1>5, <1>6, <1>7, <1>8, <1>9, TypeParts DEF IInv

\* ... and every step keeps it.
LEMMA NextIInv ==
  ASSUME IInv, [Next]_vars
  PROVE  IInv'
<1>1. Flags /\ Values /\ Doubles /\ Traffic /\ OneResult /\ CallsFit /\ Passing
  BY TypeParts DEF IInv
<1>2. CASE Next
  <2>1. Flags' /\ Values' /\ Doubles' /\ Traffic'
    BY <1>1, <1>2, FlagsNext, ValuesNext, DoublesNext, TrafficNext DEF Passing
  <2>2. OneResult'
    BY <1>1, <1>2, OneResultNext DEF CallsFit
  <2>3. CallsFit'
    <3>1. CommandsOwn' /\ FeedbackOwn' /\ SeenHolds'
      BY <1>1, <1>2, CommandsOwnNext, FeedbackOwnNext, SeenHoldsNext DEF CallsFit
    <3>2. WorkOwn' /\ ResetOnce' /\ OwnerFits'
      BY <1>1, <1>2, WorkOwnNext, ResetOnceNext, OwnerFitsNext DEF CallsFit
    <3>3. LookFits' /\ AnswerFits' /\ TpdoApart'
      BY <1>1, <1>2, LookFitsNext, AnswerFitsNext, TpdoApartNext DEF CallsFit
    <3>4. QED
      BY <3>1, <3>2, <3>3 DEF CallsFit
  <2>4. Passing'
    <3>1. InputFits' /\ TpdoWhole' /\ CanFits'
      BY <1>1, <1>2, InputFitsNext, TpdoWholeNext, CanFitsNext DEF Passing
    <3>2. PendingFits'
      BY <1>1, <1>2, PendingFitsNext DEF Passing, CallsFit
    <3>3. QED
      BY <3>1, <3>2 DEF Passing
  <2>5. TypeOK'
    BY <2>1, <2>2, TypePartsNext
  <2>6. QED
    BY <2>3, <2>4, <2>5 DEF IInv
<1>3. CASE UNCHANGED vars
  <2>1. UNCHANGED <<conf, crash, nmt>> /\ UNCHANGED controller /\ UNCHANGED commands
        /\ UNCHANGED control /\ UNCHANGED serving /\ UNCHANGED history /\ UNCHANGED tpdos
        /\ UNCHANGED rpdos /\ UNCHANGED reports
    BY <1>3 DEF vars
  <2>2. Order' = Order /\ Commands' = Commands /\ Inputs' = Inputs
    BY <2>1 DEF Order, Commands, Inputs
  <2>3. Flags'
    BY <1>1, <2>1 DEF Flags, controller, control, history
  <2>4. Values'
    BY <1>1, <2>1, <2>2 DEF Values, controller, control, serving, rpdos, reports
  <2>5. Doubles'
    BY <1>1, <2>1, <2>2 DEF Doubles, commands, history
  <2>6. Traffic'
    BY <1>1, <2>1, <2>2 DEF Traffic, tpdos, rpdos, reports
  <2>7. OneResult'
    BY <1>1, <2>1 DEF OneResult, history
  <2>8. CallsFit'
    BY <1>1, <2>1, <2>2 DEF CallsFit, CommandsOwn, FeedbackOwn, SeenHolds, WorkOwn, ResetOnce,
       OwnerFits, LookFits, AnswerFits, TpdoApart, commands, control, serving, history
  <2>9. Passing'
    BY <1>1, <2>1, <2>2 DEF Passing, InputFits, TpdoWhole, PendingFits, CanFits, commands,
       control, tpdos, rpdos
  <2>10. QED
    BY <2>3, <2>4, <2>5, <2>6, <2>7, <2>8, <2>9, TypePartsNext DEF IInv
<1>4. QED
  BY <1>2, <1>3

\* The inductive invariant holds in every state of every behaviour.
THEOREM InvHolds == Spec => []IInv
<1>1. Init => IInv
  BY InitIInv
<1>2. IInv /\ [Next]_vars => IInv'
  BY NextIInv
<1>3. QED
  BY <1>1, <1>2, PTL DEF Spec

\* The type invariant.
THEOREM TypeCorrect == Spec => []TypeOK
<1>1. IInv => TypeOK
  BY DEF IInv
<1>2. QED
  BY <1>1, InvHolds, PTL

\* The start service and the triggers answer the result of their own operation, however
\* calls, cycles of the loop, activations and deactivations interleave.
THEOREM ServicesAnswerTheirOwn == Spec => []AnswersOwn
<1>1. IInv => AnswersOwn
  BY TypeParts DEF IInv, CallsFit, AnswerFits, OneResult, AnswersOwn, Deactivating
<1>2. QED
  BY <1>1, InvHolds, PTL

\* A TPDO message is transmitted at most once, in its order and with its own data.
THEOREM MessagesSentWhole == Spec => SentWhole
<1>1. ASSUME IInv, [Next]_vars, TransmitTpdo \/ sent' # sent
      PROVE  sent'.n > sent.n /\ (posted[sent'.n] < Half => sent'.data = posted[sent'.n])
  <2>1. TransmitTpdo
    BY <1>1 DEF Next, Service, Switch, Update, Write, Call, Await, Look, ClearFeedback,
       ClearCommand, Uses, Subscribe, OnRpdo, OnRpdoData, OnNmt, Activate, Deactivate, Drop,
       Release, Cycle, UpdateNmt, ReadRpdo, PublishRpdo, PublisherBusy, UpdateTpdo, NullInput,
       TestCommand, ClearCommanded, Act, StoreFeedback, vars, tpdos
  <2>2. tpdo.n \in Nat /\ sent.n \in Nat
    BY <1>1, TypeParts DEF IInv, Traffic, Messages
  <2>3. sent.n < tpdo.n
    BY <1>1, <2>1 DEF TransmitTpdo, IInv, Passing, PendingFits
  <2>4. tpdo.data = posted[tpdo.n]
    BY <1>1, <2>2, <2>3 DEF IInv, Passing, TpdoWhole
  <2>5. PICK d \in AsSent(tpdo.data) : sent' = [n |-> tpdo.n, data |-> d]
    BY <2>1 DEF TransmitTpdo
  <2>6. tpdo.data < Half => d = tpdo.data
    BY DEF AsSent
  <2>7. QED
    BY <2>2, <2>3, <2>4, <2>5, <2>6
<1>2. IInv /\ [Next]_vars =>
        [TransmitTpdo \/ sent' # sent =>
           sent'.n > sent.n /\ (posted[sent'.n] < Half => sent'.data = posted[sent'.n])]_vars
  BY <1>1
<1>3. QED
  BY <1>2, InvHolds, PTL DEF Spec, SentWhole

=============================================================================
