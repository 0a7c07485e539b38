-------------------------- MODULE BaseDriverProof --------------------------
(***************************************************************************)
(* Theorems about BaseDriver.                                              *)
(***************************************************************************)
EXTENDS BaseDriver, SequenceTheorems, TLAPS

\* What the thread of the services posts to the loop.
Orders == {"add", "remove"}

\* Where that thread is between adding the driver and waiting for its boot, ...
BootSteps == {"check", "test", "block", "waiting", "added"}
UpSteps == BootSteps \cup {"queues", "flag", "active"}

\* The bridge has allocated all its queues.
AllQueues == \A k \in Kinds : queue_ptr[k]

\* At most one order to the loop is on its way, and the thread that posted it waits for it
\* or has given up.
TasksFit ==
  /\ \A i, j \in 1 .. Len(tasks) : tasks[i] \in Orders /\ tasks[j] \in Orders => i = j
  /\ \A i \in 1 .. Len(tasks) :
       /\ tasks[i] = "add" => pc \in {"adding", "failed"} /\ listener = "none"
       /\ tasks[i] = "remove" => pc \in {"remove", "failed"}

\* The flag and the pointer follow the thread.
PointerFits ==
  /\ activated <=> pc = "active"
  /\ pc \in UpSteps => lely_driver

\* The surroundings in which a wait for the boot can be trusted: the memory of a new
\* bridge is zero, and no wakeup is spurious.
Zeroed == conf.garbage = {FALSE}
Calm == "spurious" \notin conf.faults

\* Whatever says that the device has booted says it of a boot that succeeded.
ResultsFit == \A i \in 1 .. Len(tasks) : tasks[i] \in {"ok", "L"} => evidence

\* ... also of a boot that the thread has waited for.
BootsFit ==
  /\ ready => evidence
  /\ Calm /\ Zeroed /\ booted => evidence
  /\ loop \in {"ok", "L"} => evidence
  /\ pc = "waiting" /\ notified => boot_status = "error" \/ evidence
  /\ pc = "added" /\ Calm /\ Zeroed => evidence

\* The promise is unsatisfied unless nmt_state_is_set says so, and holds the state the
\* listener has fetched.
NmtFits ==
  /\ registered /\ ~nmt_is_set => promise = NoState
  /\ listener \in {"got", "use"} => promise \in 1 .. conf.states
  /\ pc \in BootSteps \cup {"idle", "adding", "cancel", "reset_emcy", "reset_rpdo"}
       => listener = "none"

\* In the first activation nothing is left running from an earlier one.
FirstIsClean ==
  /\ activations = 0 => pc = "idle"
  /\ activations = 0 \/ (activations = 1 /\ pc \in BootSteps \cup {"adding", "queues"})
       => ~armed /\ poll = "idle" /\ user = "idle"
  /\ activations = 0 \/ (activations = 1 /\ pc = "adding") => ~registered
  /\ activations = 1 /\ pc \in {"flag", "active"} => AllQueues

\* A bridge that no motor keeps is gone when the loop has run the order to remove it, ...
Registers ==
  ~conf.motors =>
    /\ ~motor
    /\ pc \in {"idle", "adding", "join", "cancel", "reset_emcy", "reset_rpdo"} => ~registered
    /\ registered => lely_driver

\* ... so that the master has none for the node when the next one is made, ...
AddsToNone ==
  \A i \in 1 .. Len(tasks) : tasks[i] = "add" /\ ~conf.motors => ~registered

\* ... and what the loop polls in event mode is there.
LoopFits ==
  ~conf.motors /\ ~conf.polling =>
    /\ poll # "idle" => loop = "sync"
    /\ loop = "sync" => registered /\ AllQueues
    /\ armed /\ registered => AllQueues

\* A queue holds the last messages that arrived, ...
QueuesFit ==
  \A k \in Kinds :
    /\ Len(queue[k]) <= arrived[k]
    /\ \A i \in 1 .. Len(queue[k]) : queue[k][i] = (arrived[k] - Len(queue[k])) + i

\* ... and what was handed on is the one that came before them.
HandedFit ==
  /\ handed["emcy"] # 0 => handed["emcy"] = arrived["emcy"] - Len(queue["emcy"])
  /\ pc = "active" /\ handed["rpdo"] # 0 =>
       handed["rpdo"] = arrived["rpdo"] - Len(queue["rpdo"])
  /\ pc \in BootSteps \cup {"queues", "flag"} => handed["rpdo"] = 0

\* The inductive invariant.
IInv ==
  /\ TypeOK
  /\ TasksFit
  /\ PointerFits
  /\ ResultsFit
  /\ BootsFit
  /\ NmtFits
  /\ FirstIsClean
  /\ SafeInOperation
  /\ Registers
  /\ AddsToNone
  /\ LoopFits
  /\ LoopIsSafe
  /\ QueuesFit
  /\ HandedFit

-----------------------------------------------------------------------------
(***************************************************************************)
(* Type correctness.                                                       *)
(***************************************************************************)

\* What the assumption says of the configuration of a behaviour.
LEMMA ConfFacts ==
  ASSUME conf \in Configurations
  PROVE  /\ conf.garbage \subseteq BOOLEAN /\ conf.motors \in BOOLEAN
         /\ conf.polling \in BOOLEAN
         /\ conf.activations \in Nat /\ conf.boots \in Nat
         /\ conf.states \in Nat /\ conf.messages \in Nat
BY ConfigurationsAssumption

\* What taking the first task leaves.
LEMMA TaskType ==
  ASSUME tasks \in Seq({"add", "remove"} \cup Outcomes), NEW t, NextTask(t)
  PROVE  /\ tasks' \in Seq({"add", "remove"} \cup Outcomes)
         /\ Len(tasks) \in Nat \ {0} /\ Len(tasks') = Len(tasks) - 1
         /\ tasks[1] = t
         /\ \A i \in 1 .. Len(tasks') : tasks'[i] = tasks[i + 1]
<1>1. tasks # << >> /\ tasks' = Tail(tasks) /\ Head(tasks) = t
  BY DEF NextTask
<1>2. QED
  BY <1>1, HeadTailProperties, LenProperties, EmptySeq

\* What posting a task adds.
LEMMA PostType ==
  ASSUME tasks \in Seq({"add", "remove"} \cup Outcomes),
         NEW t \in {"add", "remove"} \cup Outcomes, tasks' = Append(tasks, t)
  PROVE  /\ tasks' \in Seq({"add", "remove"} \cup Outcomes)
         /\ Len(tasks) \in Nat /\ Len(tasks') = Len(tasks) + 1
         /\ tasks'[Len(tasks) + 1] = t
         /\ \A i \in 1 .. Len(tasks) : tasks'[i] = tasks[i]
BY AppendProperties, LenProperties

\* The flags apart, as the provers keep arithmetic and Boolean values apart.
Flags ==
  /\ activated \in BOOLEAN /\ lely_driver \in BOOLEAN
  /\ motor \in BOOLEAN /\ registered \in BOOLEAN
  /\ booted \in BOOLEAN /\ notified \in BOOLEAN
  /\ booting \in BOOLEAN /\ ready \in BOOLEAN
  /\ nmt_is_set \in BOOLEAN /\ armed \in BOOLEAN /\ evidence \in BOOLEAN

\* Its plain values ...
Values ==
  /\ conf \in Configurations
  /\ pc \in {"idle", "adding", "check", "test", "block", "waiting", "added", "queues",
             "flag", "active", "remove", "join", "cancel", "reset_emcy", "reset_rpdo", "failed"}
  /\ activations \in 0 .. conf.activations
  /\ attempt \in 0 .. BootAttempts
  /\ tasks \in Seq({"add", "remove"} \cup Outcomes)
  /\ loop \in {"idle", "sync"} \cup Outcomes
  /\ boot_status \in Outcomes
  /\ boots \in 0 .. conf.boots
  /\ state \in 0 .. conf.states
  /\ promise \in 0 .. Broken
  /\ listener \in {"none", "request", "unlock", "wait", "got", "use", "ended"}
  /\ published \in 0 .. conf.states
  /\ poll \in Kinds \cup {"idle"}
  /\ taken \in 0 .. Batch
  /\ user \in {"idle", "use"}
  /\ crash \in {"none", "loop", "listener", "poll", "user"}

\* ... and the queues of the messages.
Stores ==
  /\ arrived \in [Kinds -> 0 .. conf.messages]
  /\ queue \in [Kinds -> Seq(1 .. conf.messages)]
  /\ handed \in [Kinds -> 0 .. conf.messages]
  /\ queue_ptr \in [Kinds -> BOOLEAN]

\* The type invariant in its three parts.
LEMMA TypeParts == TypeOK <=> Flags /\ Values /\ Stores
BY DEF TypeOK, Flags, Values, Stores

\* The types hold at the start.
LEMMA TypeInit == Init => TypeOK
<1>1. Init => Flags
  BY ConfigurationsAssumption DEF Init, Flags
<1>2. Init => Values
  BY ConfigurationsAssumption, BoundsAssumption
     DEF Init, Values, Outcomes, NoState, Broken
<1>3. Init => Stores
  BY ConfigurationsAssumption DEF Init, Stores
<1>4. QED
  BY <1>1, <1>2, <1>3, TypeParts

\* One step of the program keeps each part of the type invariant, ...
LEMMA FlagsNext ==
  ASSUME Flags, Values, Next
  PROVE  Flags'
<1> USE DEF Flags, thread, bridge, bootVars, device, nmt, messages, polling, boot, looping,
        actors
<1>1. conf.garbage \subseteq BOOLEAN /\ conf.motors \in BOOLEAN
  BY ConfFacts DEF Values
<1>2. CASE DeviceStarts
  BY <1>2 DEF DeviceStarts
<1>3. CASE BootEnds
  BY <1>3 DEF BootEnds
<1>4. CASE Activate
  BY <1>4 DEF Activate
<1>5. CASE AddingTimesOut
  BY <1>5 DEF AddingTimesOut
<1>6. CASE CheckReady
  BY <1>6 DEF CheckReady
<1>7. CASE TestBooted
  BY <1>7 DEF TestBooted
<1>8. CASE Block
  BY <1>8 DEF Block
<1>9. CASE Awake
  BY <1>9 DEF Awake, AttemptFails
<1>10. CASE BootTimesOut
  BY <1>10 DEF BootTimesOut, AttemptFails
<1>11. CASE StartListener
  BY <1>11, <1>1 DEF StartListener
<1>12. CASE TakeQueues
  BY <1>12 DEF TakeQueues
<1>13. CASE SetActivated
  BY <1>13 DEF SetActivated
<1>14. CASE Deactivate
  BY <1>14 DEF Deactivate
<1>15. CASE RemovingTimesOut
  BY <1>15 DEF RemovingTimesOut
<1>16. CASE JoinListener
  BY <1>16 DEF JoinListener
<1>17. CASE CancelTimer
  BY <1>17 DEF CancelTimer
<1>18. CASE ResetQueue
  BY <1>18 DEF ResetQueue
<1>19. CASE AddTask
  BY <1>19, <1>1 DEF AddTask
<1>20. CASE RemoveTask
  BY <1>20 DEF RemoveTask
<1>21. CASE OnBoot
  BY <1>21 DEF OnBoot
<1>22. CASE OnBootNotify
  BY <1>22 DEF OnBootNotify
<1>23. CASE OnState
  BY <1>23 DEF OnState
<1>24. ASSUME NEW k \in Kinds, OnMessage(k) PROVE Flags'
  BY <1>24 DEF OnMessage
<1>25. CASE StartPoll
  BY <1>25 DEF StartPoll
<1>26. CASE PollStep
  BY <1>26 DEF PollStep, TakeMessage
<1>27. CASE RequestNmt
  BY <1>27 DEF RequestNmt
<1>28. CASE UnlockNmt
  BY <1>28 DEF UnlockNmt
<1>29. CASE NmtTimesOut
  BY <1>29 DEF NmtTimesOut
<1>30. CASE GetNmt
  BY <1>30 DEF GetNmt
<1>31. CASE HandleNmt
  BY <1>31 DEF HandleNmt
<1>32. CASE PublishNmt
  BY <1>32 DEF PublishNmt
<1>33. CASE UserCalls
  BY <1>33 DEF UserCalls
<1>34. CASE UserUses
  BY <1>34 DEF UserUses
<1>35. QED
  BY <1>2, <1>3, <1>4, <1>5, <1>6, <1>7, <1>8, <1>9, <1>10, <1>11, <1>12, <1>13, <1>14,
     <1>15, <1>16, <1>17, <1>18, <1>19, <1>20, <1>21, <1>22, <1>23, <1>24, <1>25, <1>26,
     <1>27, <1>28, <1>29, <1>30, <1>31, <1>32, <1>33, <1>34
     DEF Next, Thread, Adding, Activating, Removing, Tasks, Listener

\* ... where a published state is one the bridge was told, ...
LEMMA ValuesNext ==
  ASSUME Values, NmtFits, Next
  PROVE  Values'
<1>1. /\ conf.activations \in Nat /\ conf.boots \in Nat
      /\ conf.states \in Nat /\ conf.messages \in Nat
  BY ConfFacts DEF Values
<1> USE <1>1, BoundsAssumption
    DEF Values, thread, bridge, bootVars, device, nmt, messages, polling, boot, looping,
        actors, NoState, Broken
<1>2. CASE DeviceStarts
  BY <1>2 DEF DeviceStarts
<1>3. CASE BootEnds
  BY <1>3, AppendProperties DEF BootEnds, Outcomes
<1>4. CASE Activate
  BY <1>4, AppendProperties DEF Activate
<1>5. CASE AddingTimesOut
  BY <1>5 DEF AddingTimesOut
<1>6. CASE CheckReady
  BY <1>6 DEF CheckReady
<1>7. CASE TestBooted
  BY <1>7 DEF TestBooted
<1>8. CASE Block
  BY <1>8 DEF Block
<1>9. CASE Awake
  <2>1. \/ pc' = "test" /\ attempt < BootAttempts /\ attempt' = attempt + 1
        \/ pc' \in {"failed", "added"} /\ attempt' = attempt
    BY <1>9, Zenon DEF Awake, AttemptFails
  <2>2. /\ UNCHANGED <<conf, activations, tasks, loop, boot_status, boots>>
        /\ UNCHANGED <<state, promise, published, listener, poll, taken, user, crash>>
    BY <1>9 DEF Awake
  <2>3. QED
    BY <2>1, <2>2
<1>10. CASE BootTimesOut
  <2>1. \/ pc' = "test" /\ attempt < BootAttempts /\ attempt' = attempt + 1
        \/ pc' \in {"failed", "added"} /\ attempt' = attempt
    BY <1>10, Zenon DEF BootTimesOut, AttemptFails
  <2>2. /\ UNCHANGED <<conf, activations, tasks, loop, boot_status, boots>>
        /\ UNCHANGED <<state, promise, published, listener, poll, taken, user, crash>>
    BY <1>10 DEF BootTimesOut
  <2>3. QED
    BY <2>1, <2>2
<1>11. CASE StartListener
  BY <1>11 DEF StartListener
<1>12. CASE TakeQueues
  BY <1>12 DEF TakeQueues
<1>13. CASE SetActivated
  BY <1>13 DEF SetActivated
<1>14. CASE Deactivate
  BY <1>14, AppendProperties DEF Deactivate
<1>15. CASE RemovingTimesOut
  BY <1>15 DEF RemovingTimesOut
<1>16. CASE JoinListener
  BY <1>16 DEF JoinListener
<1>17. CASE CancelTimer
  BY <1>17 DEF CancelTimer
<1>18. CASE ResetQueue
  BY <1>18 DEF ResetQueue
<1>19. CASE AddTask
  <2>1. tasks' \in Seq({"add", "remove"} \cup Outcomes)
    BY <1>19, TaskType DEF AddTask
  <2>2. /\ pc' \in {"check", pc} /\ boot_status' \in {"ok", boot_status}
        /\ state' \in {0, state} /\ promise' \in {0, promise}
        /\ published' \in {0, published} /\ crash' \in {"loop", crash}
    BY <1>19 DEF AddTask
  <2>3. /\ UNCHANGED <<conf, activations, attempt, loop, boots, listener, poll, taken>>
        /\ user' = user
    BY <1>19 DEF AddTask
  <2>4. QED
    BY <2>1, <2>2, <2>3 DEF Outcomes
<1>20. CASE RemoveTask
  BY <1>20, TaskType DEF RemoveTask
<1>21. CASE OnBoot
  <2>1. tasks' \in Seq({"add", "remove"} \cup Outcomes)
    BY <1>21, TaskType DEF OnBoot
  <2>2. loop' \in {loop} \cup Outcomes
    BY <1>21 DEF OnBoot
  <2>3. UNCHANGED <<thread, boot_status, device, actors>>
    BY <1>21 DEF OnBoot
  <2>4. QED
    BY <2>1, <2>2, <2>3
<1>22. CASE OnBootNotify
  BY <1>22 DEF OnBootNotify
<1>23. CASE OnState
  <2>1. state' = state + 1 /\ state < conf.states /\ conf' = conf
    BY <1>23 DEF OnState
  <2>2. promise' \in {promise, state'} /\ crash' \in {crash, "loop"}
    BY <1>23 DEF OnState
  <2>3. UNCHANGED <<thread, looping, boot, published, listener, polling, user>>
    BY <1>23 DEF OnState
  <2>4. QED
    BY <2>1, <2>2, <2>3
<1>24. ASSUME NEW k \in Kinds, OnMessage(k) PROVE Values'
  BY <1>24 DEF OnMessage
<1>25. CASE StartPoll
  BY <1>25 DEF StartPoll, Kinds
<1>26. CASE PollStep
  <2>1. /\ poll' \in {poll, "rpdo", "idle"} /\ loop' \in {loop, "idle"}
        /\ crash' \in {crash, "poll"}
    BY <1>26, Zenon DEF PollStep, LeaveQueue
  <2>2. taken' = taken \/ taken' = 0 \/ (taken < Batch /\ taken' = taken + 1)
    BY <1>26, Zenon DEF PollStep, LeaveQueue
  <2>3. UNCHANGED <<thread, tasks, boot, nmt, listener, user>>
    BY <1>26 DEF PollStep
  <2>4. QED
    BY <2>1, <2>2, <2>3 DEF Kinds
<1>27. CASE RequestNmt
  BY <1>27 DEF RequestNmt
<1>28. CASE UnlockNmt
  BY <1>28 DEF UnlockNmt
<1>29. CASE NmtTimesOut
  BY <1>29 DEF NmtTimesOut
<1>30. CASE GetNmt
  BY <1>30 DEF GetNmt
<1>31. CASE HandleNmt
  BY <1>31 DEF HandleNmt
<1>32. CASE PublishNmt
  <2>1. published' \in {published, promise} /\ crash' \in {crash, "listener"}
    BY <1>32 DEF PublishNmt
  <2>2. promise \in 0 .. conf.states /\ listener' = "request"
    BY <1>32 DEF PublishNmt, NmtFits
  <2>3. UNCHANGED <<thread, looping, boot, state, promise, polling, user>>
    BY <1>32 DEF PublishNmt
  <2>4. QED
    BY <2>1, <2>2, <2>3
<1>33. CASE UserCalls
  BY <1>33 DEF UserCalls
<1>34. CASE UserUses
  BY <1>34 DEF UserUses
<1>35. QED
  BY <1>2, <1>3, <1>4, <1>5, <1>6, <1>7, <1>8, <1>9, <1>10, <1>11, <1>12, <1>13, <1>14,
     <1>15, <1>16, <1>17, <1>18, <1>19, <1>20, <1>21, <1>22, <1>23, <1>24, <1>25, <1>26,
     <1>27, <1>28, <1>29, <1>30, <1>31, <1>32, <1>33, <1>34
     DEF Next, Thread, Adding, Activating, Removing, Tasks, Listener

\* ... and the queues hold numbers of messages.
LEMMA StoresNext ==
  ASSUME Values, Stores, Next
  PROVE  Stores'
<1>1. conf.messages \in Nat
  BY ConfFacts DEF Values
<1> USE <1>1
    DEF Stores, thread, bridge, bootVars, device, nmt, messages, polling, boot, looping, actors
<1>2. CASE DeviceStarts \/ BootEnds \/ Activate \/ Deactivate
  BY <1>2 DEF DeviceStarts, BootEnds, Activate, Deactivate
<1>3. CASE AddingTimesOut \/ CheckReady \/ TestBooted \/ Block \/ Awake \/ BootTimesOut
  BY <1>3 DEF AddingTimesOut, CheckReady, TestBooted, Block, Awake, AttemptFails,
     BootTimesOut
<1>4. CASE StartListener \/ SetActivated \/ RemovingTimesOut \/ JoinListener \/
     CancelTimer
  BY <1>4 DEF StartListener, SetActivated, RemovingTimesOut, JoinListener, CancelTimer
<1>5. CASE TakeQueues
  BY <1>5 DEF TakeQueues
<1>6. CASE ResetQueue
  BY <1>6 DEF ResetQueue
<1>7. CASE AddTask
  <2>1. CASE UNCHANGED <<arrived, queue, handed>>
    BY <1>7, <2>1 DEF AddTask
  <2>2. CASE /\ arrived' = [k \in Kinds |-> 0] /\ handed' = [k \in Kinds |-> 0]
             /\ queue' = [k \in Kinds |-> << >>]
    BY <1>7, <2>2 DEF AddTask
  <2>3. QED
    BY <1>7, <2>1, <2>2 DEF AddTask
<1>8. CASE RemoveTask \/ OnBoot \/ OnBootNotify \/ OnState
  BY <1>8 DEF RemoveTask, OnBoot, OnBootNotify, OnState
<1>9. ASSUME NEW k \in Kinds, OnMessage(k) PROVE Stores'
  <2>1. /\ conf' = conf /\ arrived' = [arrived EXCEPT ![k] = @ + 1]
        /\ arrived[k] + 1 \in 1 .. conf.messages
        /\ queue' = [queue EXCEPT ![k] = Append(@, arrived[k] + 1)]
        /\ UNCHANGED <<handed, queue_ptr>>
    BY <1>9 DEF OnMessage
  <2>2. arrived' \in [Kinds -> 0 .. conf.messages]
    BY <2>1
  <2>3. queue' \in [Kinds -> Seq(1 .. conf.messages)]
    BY <2>1, AppendProperties
  <2>4. QED
    BY <2>1, <2>2, <2>3
<1>10. CASE StartPoll \/ UserCalls \/ UserUses
  BY <1>10 DEF StartPoll, UserCalls, UserUses
<1>11. CASE PollStep
  <2>1. conf' = conf /\ UNCHANGED <<arrived, queue_ptr>>
    BY <1>11 DEF PollStep
  <2>2. CASE UNCHANGED <<handed, queue>>
    BY <2>1, <2>2
  <2>3. CASE queue[poll] # << >> /\ TakeMessage(poll)
    <3>1. poll \in Kinds
      BY <1>11 DEF PollStep, Values
    <3>2. /\ Head(queue[poll]) \in 1 .. conf.messages
          /\ Tail(queue[poll]) \in Seq(1 .. conf.messages)
      BY <2>3, <3>1, HeadTailProperties
    <3>3. queue' = [queue EXCEPT ![poll] = Tail(queue[poll])]
      BY <2>3, <3>1 DEF TakeMessage
    <3>4. handed' = handed \/ handed' = [handed EXCEPT ![poll] = Head(queue[poll])]
      BY <2>3, <3>1 DEF TakeMessage
    <3>5. queue' \in [Kinds -> Seq(1 .. conf.messages)]
      BY <3>1, <3>2, <3>3
    <3>6. Head(queue[poll]) \in 0 .. conf.messages
      BY <3>2
    <3>7. handed' \in [Kinds -> 0 .. conf.messages]
      BY <3>1, <3>4, <3>6
    <3>8. QED
      BY <2>1, <3>5, <3>7
  <2>4. QED
    BY <1>11, <2>2, <2>3, Zenon DEF PollStep
<1>12. CASE RequestNmt \/ UnlockNmt \/ NmtTimesOut \/ GetNmt \/ HandleNmt \/ PublishNmt
  BY <1>12 DEF RequestNmt, UnlockNmt, NmtTimesOut, GetNmt, HandleNmt, PublishNmt
<1>13. QED
  BY <1>2, <1>3, <1>4, <1>5, <1>6, <1>7, <1>8, <1>9, <1>10, <1>11, <1>12
     DEF Next, Thread, Adding, Activating, Removing, Tasks, Listener

-----------------------------------------------------------------------------
(***************************************************************************)
(* The conjuncts of the inductive invariant, one by one.                   *)
(***************************************************************************)

\* An order is posted only when none is on its way.
LEMMA TasksNext ==
  ASSUME Values, TasksFit, NmtFits, Next
  PROVE  TasksFit'
<1> USE DEF TasksFit, Orders, thread, bridge, bootVars, device, nmt, messages, polling, boot,
        looping, actors
<1>1. tasks \in Seq({"add", "remove"} \cup Outcomes) /\ Len(tasks) \in Nat
  BY LenProperties DEF Values
<1>2. CASE DeviceStarts
  BY <1>2 DEF DeviceStarts
<1>3. CASE BootEnds
  <2>1. CASE UNCHANGED tasks
    BY <1>3, <2>1 DEF BootEnds
  <2>2. ASSUME NEW es \in Outcomes, tasks' = Append(tasks, es) PROVE TasksFit'
    <3>1. /\ Len(tasks') = Len(tasks) + 1 /\ tasks'[Len(tasks) + 1] \notin Orders
          /\ \A i \in 1 .. Len(tasks) : tasks'[i] = tasks[i]
      BY <1>1, <2>2, PostType DEF Outcomes
    <3>2. pc' = pc /\ listener' = listener
      BY <1>3 DEF BootEnds
    <3>3. QED
      BY <1>1, <3>1, <3>2
  <2>3. QED
    BY <1>3, <2>1, <2>2, Zenon DEF BootEnds
<1>4. CASE Activate
  <2>1. /\ Len(tasks') = Len(tasks) + 1 /\ tasks'[Len(tasks) + 1] = "add"
        /\ \A i \in 1 .. Len(tasks) : tasks'[i] = tasks[i]
    BY <1>4, <1>1, PostType DEF Activate
  <2>2. listener = "none" /\ pc = "idle" /\ pc' = "adding" /\ listener' = listener
    BY <1>4 DEF Activate, NmtFits
  <2>3. QED
    BY <1>1, <2>1, <2>2
<1>5. CASE AddingTimesOut \/ CheckReady \/ TestBooted \/ Block
  BY <1>5 DEF AddingTimesOut, CheckReady, TestBooted, Block
<1>6. CASE Awake \/ BootTimesOut
  BY <1>6 DEF Awake, AttemptFails, BootTimesOut
<1>7. CASE StartListener \/ TakeQueues \/ SetActivated
  BY <1>7 DEF StartListener, TakeQueues, SetActivated
<1>8. CASE Deactivate
  <2>1. /\ Len(tasks') = Len(tasks) + 1 /\ tasks'[Len(tasks) + 1] = "remove"
        /\ \A i \in 1 .. Len(tasks) : tasks'[i] = tasks[i]
    BY <1>8, <1>1, PostType DEF Deactivate
  <2>2. pc = "active" /\ pc' = "remove" /\ listener' = listener
    BY <1>8 DEF Deactivate
  <2>3. QED
    BY <1>1, <2>1, <2>2
<1>9. CASE RemovingTimesOut \/ JoinListener \/ CancelTimer \/ ResetQueue
  BY <1>9 DEF RemovingTimesOut, JoinListener, CancelTimer, ResetQueue
<1>10. CASE AddTask
  <2>1. /\ Len(tasks) \in Nat \ {0} /\ Len(tasks') = Len(tasks) - 1 /\ tasks[1] = "add"
        /\ \A i \in 1 .. Len(tasks') : tasks'[i] = tasks[i + 1]
    BY <1>10, <1>1, TaskType DEF AddTask
  <2>2. QED
    BY <2>1
<1>11. CASE RemoveTask
  <2>1. /\ Len(tasks) \in Nat \ {0} /\ Len(tasks') = Len(tasks) - 1 /\ tasks[1] = "remove"
        /\ \A i \in 1 .. Len(tasks') : tasks'[i] = tasks[i + 1]
    BY <1>11, <1>1, TaskType DEF RemoveTask
  <2>2. QED
    BY <2>1
<1>12. CASE OnBoot
  <2>1. /\ Len(tasks) \in Nat \ {0} /\ Len(tasks') = Len(tasks) - 1
        /\ \A i \in 1 .. Len(tasks') : tasks'[i] = tasks[i + 1]
    BY <1>12, <1>1, TaskType DEF OnBoot
  <2>2. pc' = pc /\ listener' = listener
    BY <1>12 DEF OnBoot
  <2>3. QED
    BY <2>1, <2>2
<1>13. CASE OnBootNotify \/ OnState
  BY <1>13 DEF OnBootNotify, OnState
<1>14. ASSUME NEW k \in Kinds, OnMessage(k) PROVE TasksFit'
  BY <1>14 DEF OnMessage
<1>15. CASE StartPoll \/ PollStep \/ UserCalls \/ UserUses
  BY <1>15 DEF StartPoll, PollStep, TakeMessage, UserCalls, UserUses
<1>16. CASE RequestNmt \/ UnlockNmt \/ NmtTimesOut \/ GetNmt \/ HandleNmt \/ PublishNmt
  BY <1>16 DEF RequestNmt, UnlockNmt, NmtTimesOut, GetNmt, HandleNmt, PublishNmt
<1>17. QED
  BY <1>2, <1>3, <1>4, <1>5, <1>6, <1>7, <1>8, <1>9, <1>10, <1>11, <1>12, <1>13, <1>14,
     <1>15, <1>16
     DEF Next, Thread, Adding, Activating, Removing, Tasks, Listener

\* What running an order says of the thread that posted it.
LEMMA LastOrder ==
  ASSUME Values, TasksFit
  PROVE  /\ NextTask("add") => pc \in {"adding", "failed"} /\ listener = "none"
         /\ NextTask("remove") => pc \in {"remove", "failed"}
BY TaskType DEF Values, TasksFit

\* No step changes the configuration.
LEMMA ConfStays == Next => conf' = conf
BY DEF Next, DeviceStarts, BootEnds, Activate, Deactivate, Thread, Adding, AddingTimesOut,
   CheckReady, TestBooted, Block, Awake, BootTimesOut, Activating, StartListener, TakeQueues,
   SetActivated, Removing, RemovingTimesOut, JoinListener, CancelTimer, ResetQueue, Tasks,
   AddTask, RemoveTask, OnBoot, OnBootNotify, OnState, OnMessage, StartPoll, PollStep,
   Listener, RequestNmt, UnlockNmt, NmtTimesOut, GetNmt, HandleNmt, PublishNmt, UserCalls,
   UserUses, thread

\* The pointer is set before the thread goes on, and reset only when it removes the driver.
LEMMA PointerNext ==
  ASSUME Values, TasksFit, PointerFits, Next
  PROVE  PointerFits'
<1> USE DEF PointerFits, UpSteps, BootSteps, thread, bridge, bootVars, device, nmt, messages,
        polling, boot, looping, actors
<1>1. /\ NextTask("add") => pc \in {"adding", "failed"} /\ listener = "none"
      /\ NextTask("remove") => pc \in {"remove", "failed"}
  BY LastOrder
<1>2. CASE DeviceStarts \/ BootEnds \/ Activate \/ Deactivate
  BY <1>2 DEF DeviceStarts, BootEnds, Activate, Deactivate
<1>3. CASE AddingTimesOut \/ CheckReady \/ TestBooted \/ Block
  BY <1>3 DEF AddingTimesOut, CheckReady, TestBooted, Block
<1>4. CASE Awake \/ BootTimesOut
  BY <1>4 DEF Awake, AttemptFails, BootTimesOut
<1>5. CASE StartListener \/ TakeQueues \/ SetActivated
  BY <1>5 DEF StartListener, TakeQueues, SetActivated
<1>6. CASE RemovingTimesOut \/ JoinListener \/ CancelTimer \/ ResetQueue
  BY <1>6 DEF RemovingTimesOut, JoinListener, CancelTimer, ResetQueue
<1>7. CASE AddTask
  BY <1>7, <1>1 DEF AddTask
<1>8. CASE RemoveTask
  BY <1>8, <1>1 DEF RemoveTask
<1>9. CASE OnBoot \/ OnBootNotify \/ OnState
  BY <1>9 DEF OnBoot, OnBootNotify, OnState
<1>10. ASSUME NEW k \in Kinds, OnMessage(k) PROVE PointerFits'
  BY <1>10 DEF OnMessage
<1>11. CASE StartPoll \/ PollStep \/ UserCalls \/ UserUses
  BY <1>11 DEF StartPoll, PollStep, TakeMessage, UserCalls, UserUses
<1>12. CASE RequestNmt \/ UnlockNmt \/ NmtTimesOut \/ GetNmt \/ HandleNmt \/ PublishNmt
  BY <1>12 DEF RequestNmt, UnlockNmt, NmtTimesOut, GetNmt, HandleNmt, PublishNmt
<1>13. QED
  BY <1>2, <1>3, <1>4, <1>5, <1>6, <1>7, <1>8, <1>9, <1>10, <1>11, <1>12
     DEF Next, Thread, Adding, Activating, Removing, Tasks, Listener

\* A result is posted when its boot has ended.
LEMMA ResultsNext ==
  ASSUME Values, ResultsFit, Next
  PROVE  ResultsFit'
<1> USE DEF thread, bridge, bootVars, device, nmt, messages, polling, boot, looping, actors
<1>1. tasks \in Seq({"add", "remove"} \cup Outcomes) /\ Len(tasks) \in Nat
  BY LenProperties DEF Values
<1>2. CASE DeviceStarts
  BY <1>2 DEF DeviceStarts, ResultsFit
<1>3. CASE BootEnds
  <2>1. PICK es \in Outcomes :
          /\ evidence' = (evidence \/ es # "error")
          /\ tasks' = tasks \/ tasks' = Append(tasks, es)
    BY <1>3 DEF BootEnds
  <2>2. CASE tasks' = tasks
    BY <2>1, <2>2 DEF ResultsFit
  <2>3. CASE tasks' = Append(tasks, es)
    <3>1. /\ Len(tasks') = Len(tasks) + 1 /\ tasks'[Len(tasks) + 1] = es
          /\ \A i \in 1 .. Len(tasks) : tasks'[i] = tasks[i]
      BY <1>1, <2>3, PostType
    <3>2. es \in {"ok", "L"} \/ evidence => evidence'
      BY <2>1
    <3>3. \A i \in 1 .. Len(tasks') : i = Len(tasks) + 1 \/ i \in 1 .. Len(tasks)
      BY <1>1, <3>1
    <3>4. QED
      BY <3>1, <3>2, <3>3 DEF ResultsFit
  <2>4. QED
    BY <2>1, <2>2, <2>3
<1>4. CASE Activate
  <2>1. /\ Len(tasks') = Len(tasks) + 1 /\ tasks'[Len(tasks) + 1] = "add"
        /\ \A i \in 1 .. Len(tasks) : tasks'[i] = tasks[i]
    BY <1>4, <1>1, PostType DEF Activate
  <2>2. evidence' = evidence
    BY <1>4 DEF Activate
  <2>3. QED
    BY <1>1, <2>1, <2>2 DEF ResultsFit
<1>5. CASE AddingTimesOut \/ CheckReady \/ TestBooted \/ Block \/ Awake \/ BootTimesOut
  BY <1>5 DEF AddingTimesOut, CheckReady, TestBooted, Block, Awake, BootTimesOut,
     AttemptFails, ResultsFit
<1>6. CASE StartListener \/ TakeQueues \/ SetActivated
  BY <1>6 DEF StartListener, TakeQueues, SetActivated, ResultsFit
<1>7. CASE Deactivate
  <2>1. /\ Len(tasks') = Len(tasks) + 1 /\ tasks'[Len(tasks) + 1] = "remove"
        /\ \A i \in 1 .. Len(tasks) : tasks'[i] = tasks[i]
    BY <1>7, <1>1, PostType DEF Deactivate
  <2>2. evidence' = evidence
    BY <1>7 DEF Deactivate
  <2>3. QED
    BY <1>1, <2>1, <2>2 DEF ResultsFit
<1>8. CASE RemovingTimesOut \/ JoinListener \/ CancelTimer \/ ResetQueue
  BY <1>8 DEF RemovingTimesOut, JoinListener, CancelTimer, ResetQueue, ResultsFit
<1>9. CASE AddTask
  <2>1. /\ Len(tasks) \in Nat \ {0} /\ Len(tasks') = Len(tasks) - 1
        /\ \A i \in 1 .. Len(tasks') : tasks'[i] = tasks[i + 1]
    BY <1>9, <1>1, TaskType DEF AddTask
  <2>2. evidence' = evidence
    BY <1>9 DEF AddTask
  <2>3. QED
    BY <2>1, <2>2 DEF ResultsFit
<1>10. CASE RemoveTask
  <2>1. /\ Len(tasks) \in Nat \ {0} /\ Len(tasks') = Len(tasks) - 1
        /\ \A i \in 1 .. Len(tasks') : tasks'[i] = tasks[i + 1]
    BY <1>10, <1>1, TaskType DEF RemoveTask
  <2>2. evidence' = evidence
    BY <1>10 DEF RemoveTask
  <2>3. QED
    BY <2>1, <2>2 DEF ResultsFit
<1>11. CASE OnBoot
  <2>1. /\ Len(tasks) \in Nat \ {0} /\ Len(tasks') = Len(tasks) - 1
        /\ \A i \in 1 .. Len(tasks') : tasks'[i] = tasks[i + 1]
    BY <1>11, <1>1, TaskType DEF OnBoot
  <2>2. evidence' = evidence
    BY <1>11 DEF OnBoot
  <2>3. QED
    BY <2>1, <2>2 DEF ResultsFit
<1>12. CASE OnBootNotify \/ OnState
  BY <1>12 DEF OnBootNotify, OnState, ResultsFit
<1>13. ASSUME NEW k \in Kinds, OnMessage(k) PROVE ResultsFit'
  BY <1>13 DEF OnMessage, ResultsFit
<1>14. CASE StartPoll \/ PollStep \/ UserCalls \/ UserUses
  BY <1>14 DEF StartPoll, PollStep, TakeMessage, UserCalls, UserUses, ResultsFit
<1>15. CASE RequestNmt \/ UnlockNmt \/ NmtTimesOut \/ GetNmt \/ HandleNmt \/ PublishNmt
  BY <1>15 DEF RequestNmt, UnlockNmt, NmtTimesOut, GetNmt, HandleNmt, PublishNmt, ResultsFit
<1>16. QED
  BY <1>2, <1>3, <1>4, <1>5, <1>6, <1>7, <1>8, <1>9, <1>10, <1>11, <1>12, <1>13, <1>14,
     <1>15
     DEF Next, Thread, Adding, Activating, Removing, Tasks, Listener

\* OnBoot, IsReady() and the waits agree with the boots there were.
LEMMA BootsNext ==
  ASSUME Values, TasksFit, ResultsFit, BootsFit, Next
  PROVE  BootsFit'
<1>1. /\ conf' = conf /\ Zeroed' = Zeroed /\ Calm' = Calm
  BY ConfStays DEF Zeroed, Calm
<1> USE <1>1
    DEF BootsFit, thread, bridge, bootVars, device, nmt, messages, polling, boot, looping, actors
<1>2. CASE DeviceStarts
  BY <1>2 DEF DeviceStarts
<1>3. CASE BootEnds
  BY <1>3 DEF BootEnds
<1>4. CASE Activate \/ Deactivate
  BY <1>4 DEF Activate, Deactivate
<1>5. CASE AddingTimesOut \/ CheckReady \/ TestBooted \/ Block
  BY <1>5 DEF AddingTimesOut, CheckReady, TestBooted, Block
<1>6. CASE Awake
  <2>1. CASE boot_status = "error"
    BY <1>6, <2>1 DEF Awake, AttemptFails
  <2>2. CASE boot_status # "error"
    <3>1. Calm => evidence
      BY <1>6, <2>2 DEF Awake, Calm
    <3>2. /\ pc' = "added" /\ boot_status' = boot_status /\ loop' = loop /\ ready' = ready
          /\ evidence' = evidence
      BY <1>6, <2>2 DEF Awake
    <3>3. QED
      BY <3>1, <3>2
  <2>3. QED
    BY <2>1, <2>2
<1>7. CASE BootTimesOut
  BY <1>7 DEF BootTimesOut, AttemptFails
<1>8. CASE StartListener \/ TakeQueues \/ SetActivated
  BY <1>8 DEF StartListener, TakeQueues, SetActivated
<1>9. CASE RemovingTimesOut \/ JoinListener \/ CancelTimer \/ ResetQueue
  BY <1>9 DEF RemovingTimesOut, JoinListener, CancelTimer, ResetQueue
<1>10. CASE AddTask
  <2>1. pc \in {"adding", "failed"} /\ pc' \in {pc, "check"}
    BY <1>10, LastOrder DEF AddTask
  <2>2. booted' = booted \/ (Zeroed => booted' = FALSE)
    BY <1>10 DEF AddTask, Zeroed
  <2>3. evidence' = evidence /\ ready' = ready /\ loop' = "idle" /\ loop = "idle"
    BY <1>10 DEF AddTask, NextTask
  <2>4. QED
    BY <2>1, <2>2, <2>3
<1>11. CASE RemoveTask
  BY <1>11 DEF RemoveTask
<1>12. CASE OnBoot
  <2>1. PICK es \in Outcomes :
          /\ NextTask(es)
          /\ IF registered
             THEN booted' = (booted \/ es = "ok") /\ loop' = es
             ELSE UNCHANGED <<booted, loop>>
    BY <1>12 DEF OnBoot
  <2>2. es = "error" \/ evidence
    BY <2>1, TaskType DEF Outcomes, ResultsFit, Values
  <2>3. /\ pc' = pc /\ evidence' = evidence /\ notified' = notified /\ ready' = ready
        /\ boot_status' = boot_status
    BY <1>12 DEF OnBoot
  <2>4. QED
    BY <2>1, <2>2, <2>3
<1>13. CASE OnBootNotify
  BY <1>13 DEF OnBootNotify, Outcomes
<1>14. CASE OnState
  BY <1>14 DEF OnState
<1>15. ASSUME NEW k \in Kinds, OnMessage(k) PROVE BootsFit'
  BY <1>15 DEF OnMessage
<1>16. CASE StartPoll \/ PollStep \/ UserCalls \/ UserUses
  BY <1>16 DEF StartPoll, PollStep, LeaveQueue, TakeMessage, UserCalls, UserUses
<1>17. CASE RequestNmt \/ UnlockNmt \/ NmtTimesOut \/ GetNmt \/ HandleNmt \/ PublishNmt
  BY <1>17 DEF RequestNmt, UnlockNmt, NmtTimesOut, GetNmt, HandleNmt, PublishNmt
<1>18. QED
  BY <1>2, <1>3, <1>4, <1>5, <1>6, <1>7, <1>8, <1>9, <1>10, <1>11, <1>12, <1>13, <1>14,
     <1>15, <1>16, <1>17
     DEF Next, Thread, Adding, Activating, Removing, Tasks, Listener

\* OnState satisfies an empty promise, and only the listener empties it.
LEMMA NmtNext ==
  ASSUME Values, TasksFit, NmtFits, Next
  PROVE  NmtFits'
<1>1. /\ NextTask("add") => listener = "none"
      /\ conf.states \in Nat /\ promise \in 0 .. conf.states + 1 /\ state \in Nat
  BY LastOrder, ConfFacts DEF Values, Broken
<1> USE <1>1
    DEF NmtFits, BootSteps, NoState, thread, bridge, bootVars, device, nmt, messages, polling,
        boot, looping, actors
<1>2. CASE DeviceStarts \/ BootEnds \/ Activate \/ Deactivate
  BY <1>2 DEF DeviceStarts, BootEnds, Activate, Deactivate
<1>3. CASE AddingTimesOut \/ CheckReady \/ TestBooted \/ Block
  BY <1>3 DEF AddingTimesOut, CheckReady, TestBooted, Block
<1>4. CASE Awake \/ BootTimesOut
  BY <1>4 DEF Awake, AttemptFails, BootTimesOut
<1>5. CASE StartListener \/ TakeQueues \/ SetActivated
  BY <1>5 DEF StartListener, TakeQueues, SetActivated
<1>6. CASE RemovingTimesOut \/ JoinListener \/ CancelTimer \/ ResetQueue
  BY <1>6 DEF RemovingTimesOut, JoinListener, CancelTimer, ResetQueue
<1>7. CASE AddTask
  <2>1. listener = "none" /\ listener' = listener
    BY <1>7 DEF AddTask
  <2>2. CASE UNCHANGED <<registered, nmt_is_set, promise>>
    BY <1>7, <2>1, <2>2 DEF AddTask
  <2>3. CASE promise' = NoState
    BY <2>1, <2>3
  <2>4. QED
    BY <1>7, <2>2, <2>3 DEF AddTask
<1>8. CASE RemoveTask
  <2>1. CASE promise = NoState /\ ~motor
    <3>1. listener \notin {"got", "use"}
      BY <2>1
    <3>2. listener' = listener /\ pc' \in {pc, "join"}
      BY <1>8 DEF RemoveTask
    <3>3. ~registered'
      BY <1>8, <2>1, Zenon DEF RemoveTask
    <3>4. QED
      BY <3>1, <3>2, <3>3
  <2>2. CASE ~(promise = NoState /\ ~motor)
    <3>1. promise' = promise /\ nmt_is_set' = nmt_is_set /\ listener' = listener
          /\ (registered' => registered) /\ pc' \in {pc, "join"} /\ conf' = conf
      BY <1>8, <2>2 DEF RemoveTask
    <3>2. QED
      BY <3>1
  <2>3. QED
    BY <2>1, <2>2
<1>9. CASE OnBoot \/ OnBootNotify
  BY <1>9 DEF OnBoot, OnBootNotify
<1>10. CASE OnState
  BY <1>10 DEF OnState
<1>11. ASSUME NEW k \in Kinds, OnMessage(k) PROVE NmtFits'
  BY <1>11 DEF OnMessage
<1>12. CASE StartPoll \/ PollStep \/ UserCalls \/ UserUses
  BY <1>12 DEF StartPoll, PollStep, TakeMessage, UserCalls, UserUses
<1>13. CASE RequestNmt
  BY <1>13 DEF RequestNmt
<1>14. CASE UnlockNmt
  BY <1>14 DEF UnlockNmt
<1>15. CASE NmtTimesOut
  BY <1>15 DEF NmtTimesOut
<1>16. CASE GetNmt
  BY <1>16 DEF GetNmt, Broken
<1>17. CASE HandleNmt
  BY <1>17 DEF HandleNmt
<1>18. CASE PublishNmt
  BY <1>18 DEF PublishNmt
<1>19. QED
  BY <1>2, <1>3, <1>4, <1>5, <1>6, <1>7, <1>8, <1>9, <1>10, <1>11, <1>12, <1>13, <1>14,
     <1>15, <1>16, <1>17, <1>18
     DEF Next, Thread, Adding, Activating, Removing, Tasks, Listener

\* Timer, poll and callbacks begin only when the first activation has set the queues.
LEMMA CleanNext ==
  ASSUME Values, TasksFit, PointerFits, FirstIsClean, Next
  PROVE  FirstIsClean'
<1>1. /\ NextTask("add") => pc \in {"adding", "failed"}
      /\ NextTask("remove") => pc \in {"remove", "failed"}
      /\ activations \in Nat
      /\ activated => pc = "active"
  BY LastOrder, ConfFacts DEF Values, PointerFits
<1> USE <1>1
    DEF FirstIsClean, BootSteps, AllQueues, thread, bridge, bootVars, device, nmt, messages,
        polling, boot, looping, actors
<1>2. CASE DeviceStarts \/ BootEnds
  BY <1>2 DEF DeviceStarts, BootEnds
<1>3. CASE Activate
  BY <1>3 DEF Activate
<1>4. CASE AddingTimesOut \/ CheckReady \/ TestBooted \/ Block
  BY <1>4 DEF AddingTimesOut, CheckReady, TestBooted, Block
<1>5. CASE Awake \/ BootTimesOut
  BY <1>5 DEF Awake, AttemptFails, BootTimesOut
<1>6. CASE StartListener \/ SetActivated
  BY <1>6 DEF StartListener, SetActivated
<1>7. CASE TakeQueues
  BY <1>7 DEF TakeQueues
<1>8. CASE Deactivate
  BY <1>8 DEF Deactivate
<1>9. CASE RemovingTimesOut \/ JoinListener \/ CancelTimer
  BY <1>9 DEF RemovingTimesOut, JoinListener, CancelTimer
<1>10. CASE ResetQueue
  BY <1>10 DEF ResetQueue
<1>11. CASE AddTask
  BY <1>11 DEF AddTask
<1>12. CASE RemoveTask
  BY <1>12 DEF RemoveTask
<1>13. CASE OnBoot \/ OnBootNotify \/ OnState
  BY <1>13 DEF OnBoot, OnBootNotify, OnState
<1>14. ASSUME NEW k \in Kinds, OnMessage(k) PROVE FirstIsClean'
  BY <1>14 DEF OnMessage
<1>15. CASE StartPoll
  BY <1>15 DEF StartPoll
<1>16. CASE PollStep
  BY <1>16 DEF PollStep, TakeMessage
<1>17. CASE RequestNmt \/ UnlockNmt \/ NmtTimesOut \/ GetNmt \/ HandleNmt \/ PublishNmt
  BY <1>17 DEF RequestNmt, UnlockNmt, NmtTimesOut, GetNmt, HandleNmt, PublishNmt
<1>18. CASE UserCalls \/ UserUses
  BY <1>18 DEF UserCalls, UserUses
<1>19. QED
  BY <1>2, <1>3, <1>4, <1>5, <1>6, <1>7, <1>8, <1>9, <1>10, <1>11, <1>12, <1>13, <1>14,
     <1>15, <1>16, <1>17, <1>18
     DEF Next, Thread, Adding, Activating, Removing, Tasks, Listener

\* Every crash is met after deactivate() has begun, or in a later activation.
LEMMA SafeNext ==
  ASSUME Values, TasksFit, PointerFits, NmtFits, FirstIsClean, Next
  PROVE  SafeInOperation'
<1>1. /\ NextTask("add") => pc \in {"adding", "failed"}
      /\ activations \in Nat /\ crash = "none"
  BY LastOrder, ConfFacts DEF Values, Next
\* where a crash would not be excused
<1>2. activations <= 1 /\ pc \in UpSteps \cup {"adding"} =>
         /\ activations = 1
         /\ pc = "adding" => poll = "idle" /\ user = "idle" /\ listener = "none" /\ ~registered
         /\ pc # "adding" => lely_driver
         /\ poll # "idle" => AllQueues
  BY <1>1 DEF FirstIsClean, PointerFits, NmtFits, UpSteps, BootSteps
<1>3. pc \in {"remove", "join", "cancel", "reset_emcy", "reset_rpdo", "idle", "failed"}
          \/ pc \in UpSteps \cup {"adding"}
  BY DEF Values, UpSteps, BootSteps
<1> USE <1>1, <1>2
    DEF SafeInOperation, thread, bridge, bootVars, device, nmt, messages,
        polling, boot, looping, actors
<1>4. CASE DeviceStarts \/ BootEnds \/ Activate \/ Deactivate
  BY <1>4 DEF DeviceStarts, BootEnds, Activate, Deactivate
<1>5. CASE AddingTimesOut \/ CheckReady \/ TestBooted \/ Block
  BY <1>5 DEF AddingTimesOut, CheckReady, TestBooted, Block
<1>6. CASE Awake \/ BootTimesOut
  BY <1>6 DEF Awake, AttemptFails, BootTimesOut
<1>7. CASE StartListener \/ TakeQueues \/ SetActivated
  BY <1>7 DEF StartListener, TakeQueues, SetActivated
<1>8. CASE RemovingTimesOut \/ JoinListener \/ CancelTimer \/ ResetQueue
  BY <1>8 DEF RemovingTimesOut, JoinListener, CancelTimer, ResetQueue
<1>9. CASE AddTask
  <2>1. crash' # "none" => registered /\ pc' = pc
    BY <1>9 DEF AddTask
  <2>2. activations' = activations
    BY <1>9 DEF AddTask
  <2>3. QED
    BY <1>9, <2>1, <2>2 DEF AddTask
<1>10. CASE RemoveTask \/ OnBoot \/ OnBootNotify
  BY <1>10 DEF RemoveTask, OnBoot, OnBootNotify
<1>11. CASE OnState
  <2>1. crash' = "none"
    BY <1>11 DEF OnState, NmtFits
  <2>2. QED
    BY <2>1
<1>12. ASSUME NEW k \in Kinds, OnMessage(k) PROVE SafeInOperation'
  BY <1>12 DEF OnMessage
<1>13. CASE StartPoll \/ UserCalls
  BY <1>13 DEF StartPoll, UserCalls
<1>14. CASE PollStep
  <2>1. crash' # "none" => (~lely_driver \/ ~AllQueues) /\ poll # "idle"
    BY <1>14 DEF PollStep, AllQueues, Values
  <2>2. pc' = pc /\ activations' = activations
    BY <1>14 DEF PollStep
  <2>3. QED
    BY <1>3, <2>1, <2>2
<1>15. CASE RequestNmt
  <2>1. crash' # "none" => ~lely_driver /\ listener # "none"
    BY <1>15 DEF RequestNmt
  <2>2. pc' = pc /\ activations' = activations
    BY <1>15 DEF RequestNmt
  <2>3. QED
    BY <1>3, <2>1, <2>2
<1>16. CASE UnlockNmt \/ NmtTimesOut \/ GetNmt
  BY <1>16 DEF UnlockNmt, NmtTimesOut, GetNmt
<1>17. CASE HandleNmt
  <2>1. crash' # "none" => ~lely_driver /\ listener # "none"
    BY <1>17 DEF HandleNmt
  <2>2. pc' = pc /\ activations' = activations
    BY <1>17 DEF HandleNmt
  <2>3. QED
    BY <1>3, <2>1, <2>2
<1>18. CASE PublishNmt
  <2>1. crash' # "none" => ~lely_driver /\ listener # "none"
    BY <1>18 DEF PublishNmt
  <2>2. pc' = pc /\ activations' = activations
    BY <1>18 DEF PublishNmt
  <2>3. QED
    BY <1>3, <2>1, <2>2
<1>19. CASE UserUses
  <2>1. crash' # "none" => ~lely_driver /\ user # "idle"
    BY <1>19 DEF UserUses
  <2>2. pc' = pc /\ activations' = activations
    BY <1>19 DEF UserUses
  <2>3. QED
    BY <1>3, <2>1, <2>2
<1>20. QED
  BY <1>4, <1>5, <1>6, <1>7, <1>8, <1>9, <1>10, <1>11, <1>12, <1>13, <1>14, <1>15, <1>16,
     <1>17, <1>18, <1>19
     DEF Next, Thread, Adding, Activating, Removing, Tasks, Listener

\* The loop registers a bridge for the thread that waits, and removes it for the same.
LEMMA RegistersNext ==
  ASSUME Values, TasksFit, Registers, AddsToNone, Next
  PROVE  Registers'
<1>1. /\ conf.motors \in BOOLEAN /\ conf' = conf
      /\ NextTask("add") => pc \in {"adding", "failed"} /\ (~conf.motors => ~registered)
      /\ NextTask("remove") => pc \in {"remove", "failed"}
      /\ (pc = "adding" \/ pc = "idle") /\ ~conf.motors => ~registered
  BY LastOrder, ConfFacts, ConfStays, TaskType DEF Values, Registers, AddsToNone
<1> USE <1>1
    DEF Registers, thread, bridge, bootVars, device, nmt, messages, polling, boot, looping,
        actors
<1>2. CASE DeviceStarts \/ BootEnds \/ Activate \/ Deactivate
  BY <1>2 DEF DeviceStarts, BootEnds, Activate, Deactivate
<1>3. CASE AddingTimesOut \/ CheckReady \/ TestBooted \/ Block
  BY <1>3 DEF AddingTimesOut, CheckReady, TestBooted, Block
<1>4. CASE Awake \/ BootTimesOut
  BY <1>4 DEF Awake, AttemptFails, BootTimesOut
<1>5. CASE StartListener
  BY <1>5 DEF StartListener
<1>6. CASE TakeQueues \/ SetActivated
  BY <1>6 DEF TakeQueues, SetActivated
<1>7. CASE RemovingTimesOut \/ JoinListener \/ CancelTimer \/ ResetQueue
  BY <1>7 DEF RemovingTimesOut, JoinListener, CancelTimer, ResetQueue
<1>8. CASE AddTask
  BY <1>8 DEF AddTask
<1>9. CASE RemoveTask
  BY <1>9 DEF RemoveTask
<1>10. CASE OnBoot \/ OnBootNotify \/ OnState
  BY <1>10 DEF OnBoot, OnBootNotify, OnState
<1>11. ASSUME NEW k \in Kinds, OnMessage(k) PROVE Registers'
  BY <1>11 DEF OnMessage
<1>12. CASE StartPoll \/ PollStep \/ UserCalls \/ UserUses
  BY <1>12 DEF StartPoll, PollStep, TakeMessage, UserCalls, UserUses
<1>13. CASE RequestNmt \/ UnlockNmt \/ NmtTimesOut \/ GetNmt \/ HandleNmt \/ PublishNmt
  BY <1>13 DEF RequestNmt, UnlockNmt, NmtTimesOut, GetNmt, HandleNmt, PublishNmt
<1>14. QED
  BY <1>2, <1>3, <1>4, <1>5, <1>6, <1>7, <1>8, <1>9, <1>10, <1>11, <1>12, <1>13
     DEF Next, Thread, Adding, Activating, Removing, Tasks, Listener

\* An order to add waits only while no bridge is registered.
LEMMA AddsNext ==
  ASSUME Values, TasksFit, Registers, AddsToNone, Next
  PROVE  AddsToNone'
<1> USE DEF AddsToNone, thread, bridge, bootVars, device, nmt, messages, polling, boot, looping,
        actors
<1>1. /\ tasks \in Seq({"add", "remove"} \cup Outcomes) /\ Len(tasks) \in Nat /\ conf' = conf
  BY LenProperties, ConfStays DEF Values
<1>2. CASE DeviceStarts
  BY <1>2 DEF DeviceStarts
<1>3. CASE BootEnds
  <2>1. registered' = registered
    BY <1>3 DEF BootEnds
  <2>2. CASE UNCHANGED tasks
    BY <1>1, <2>1, <2>2
  <2>3. ASSUME NEW es \in Outcomes, tasks' = Append(tasks, es) PROVE AddsToNone'
    <3>1. /\ Len(tasks') = Len(tasks) + 1 /\ tasks'[Len(tasks) + 1] # "add"
          /\ \A i \in 1 .. Len(tasks) : tasks'[i] = tasks[i]
      BY <1>1, <2>3, PostType DEF Outcomes
    <3>2. QED
      BY <1>1, <2>1, <3>1
  <2>4. QED
    BY <1>3, <2>2, <2>3, Zenon DEF BootEnds
<1>4. CASE Activate
  <2>1. ~conf.motors => ~registered'
    BY <1>4 DEF Activate, Registers
  <2>2. QED
    BY <1>1, <2>1
<1>5. CASE AddingTimesOut \/ CheckReady \/ TestBooted \/ Block
  BY <1>5 DEF AddingTimesOut, CheckReady, TestBooted, Block
<1>6. CASE Awake \/ BootTimesOut
  BY <1>6 DEF Awake, AttemptFails, BootTimesOut
<1>7. CASE StartListener \/ TakeQueues \/ SetActivated
  BY <1>7 DEF StartListener, TakeQueues, SetActivated
<1>8. CASE Deactivate
  <2>1. /\ Len(tasks') = Len(tasks) + 1 /\ tasks'[Len(tasks) + 1] = "remove"
        /\ \A i \in 1 .. Len(tasks) : tasks'[i] = tasks[i]
    BY <1>8, <1>1, PostType DEF Deactivate
  <2>2. registered' = registered
    BY <1>8 DEF Deactivate
  <2>3. QED
    BY <1>1, <2>1, <2>2
<1>9. CASE RemovingTimesOut \/ JoinListener \/ CancelTimer \/ ResetQueue
  BY <1>9 DEF RemovingTimesOut, JoinListener, CancelTimer, ResetQueue
<1>10. CASE AddTask
  <2>1. /\ Len(tasks) \in Nat \ {0} /\ Len(tasks') = Len(tasks) - 1 /\ tasks[1] = "add"
        /\ \A i \in 1 .. Len(tasks') : tasks'[i] = tasks[i + 1]
    BY <1>10, <1>1, TaskType DEF AddTask
  <2>2. \A i \in 1 .. Len(tasks') : tasks'[i] # "add"
    BY <2>1 DEF TasksFit, Orders
  <2>3. QED
    BY <2>2
<1>11. CASE RemoveTask
  <2>1. /\ Len(tasks) \in Nat \ {0} /\ Len(tasks') = Len(tasks) - 1
        /\ \A i \in 1 .. Len(tasks') : tasks'[i] = tasks[i + 1]
    BY <1>11, <1>1, TaskType DEF RemoveTask
  <2>2. ~conf.motors => ~registered'
    BY <1>11 DEF RemoveTask, Registers
  <2>3. QED
    BY <1>1, <2>1, <2>2
<1>12. CASE OnBoot
  <2>1. /\ Len(tasks) \in Nat \ {0} /\ Len(tasks') = Len(tasks) - 1
        /\ \A i \in 1 .. Len(tasks') : tasks'[i] = tasks[i + 1]
    BY <1>12, <1>1, TaskType DEF OnBoot
  <2>2. registered' = registered
    BY <1>12 DEF OnBoot, Registers
  <2>3. QED
    BY <1>1, <2>1, <2>2
<1>13. CASE OnBootNotify \/ OnState
  BY <1>13 DEF OnBootNotify, OnState
<1>14. ASSUME NEW k \in Kinds, OnMessage(k) PROVE AddsToNone'
  BY <1>14 DEF OnMessage
<1>15. CASE StartPoll \/ PollStep \/ UserCalls \/ UserUses
  BY <1>15 DEF StartPoll, PollStep, TakeMessage, UserCalls, UserUses
<1>16. CASE RequestNmt \/ UnlockNmt \/ NmtTimesOut \/ GetNmt \/ HandleNmt \/ PublishNmt
  BY <1>16 DEF RequestNmt, UnlockNmt, NmtTimesOut, GetNmt, HandleNmt, PublishNmt
<1>17. QED
  BY <1>2, <1>3, <1>4, <1>5, <1>6, <1>7, <1>8, <1>9, <1>10, <1>11, <1>12, <1>13, <1>14,
     <1>15, <1>16
     DEF Next, Thread, Adding, Activating, Removing, Tasks, Listener

\* The queues are reset when the bridge, and with it the sync function, is gone.
LEMMA LoopNext ==
  ASSUME Values, Registers, LoopFits, Next
  PROVE  LoopFits'
<1>1. /\ conf.motors \in BOOLEAN /\ conf.polling \in BOOLEAN /\ conf' = conf
      /\ ~conf.motors => ~motor
      /\ pc \in {"reset_emcy", "reset_rpdo"} /\ ~conf.motors => ~registered
      /\ poll \in Kinds \cup {"idle"}
  BY ConfFacts, ConfStays DEF Values, Registers
<1> USE <1>1
    DEF LoopFits, AllQueues, thread, bridge, bootVars, device, nmt, messages, polling, boot,
        looping, actors
<1>2. CASE DeviceStarts \/ BootEnds \/ Activate \/ Deactivate
  BY <1>2 DEF DeviceStarts, BootEnds, Activate, Deactivate
<1>3. CASE AddingTimesOut \/ CheckReady \/ TestBooted \/ Block
  BY <1>3 DEF AddingTimesOut, CheckReady, TestBooted, Block
<1>4. CASE Awake \/ BootTimesOut
  BY <1>4 DEF Awake, AttemptFails, BootTimesOut
<1>5. CASE StartListener \/ SetActivated
  BY <1>5 DEF StartListener, SetActivated
<1>6. CASE TakeQueues
  BY <1>6 DEF TakeQueues
<1>7. CASE RemovingTimesOut \/ JoinListener
  BY <1>7 DEF RemovingTimesOut, JoinListener
<1>8. CASE CancelTimer
  BY <1>8 DEF CancelTimer
<1>9. CASE ResetQueue
  <2>1. ~conf.motors => ~registered'
    BY <1>9 DEF ResetQueue
  <2>2. UNCHANGED <<loop, poll, armed, registered>>
    BY <1>9 DEF ResetQueue
  <2>3. QED
    BY <2>1, <2>2
<1>10. CASE AddTask
  <2>1. loop = "idle" /\ loop' = loop /\ poll' = poll
    BY <1>10 DEF AddTask, NextTask
  <2>2. CASE UNCHANGED <<registered, armed, queue_ptr>>
    BY <2>1, <2>2
  <2>3. CASE ~armed'
    BY <2>1, <2>3
  <2>4. QED
    BY <1>10, <2>2, <2>3 DEF AddTask
<1>11. CASE RemoveTask
  <2>1. loop = "idle" /\ loop' = loop /\ poll' = poll /\ queue_ptr' = queue_ptr
    BY <1>11 DEF RemoveTask, NextTask
  <2>2. registered' => registered
    BY <1>11 DEF RemoveTask
  <2>3. armed' => armed
    BY <1>11 DEF RemoveTask
  <2>4. QED
    BY <2>1, <2>2, <2>3
<1>12. CASE OnBoot
  <2>1. loop = "idle" /\ loop' # "sync"
    BY <1>12 DEF OnBoot, NextTask, Outcomes
  <2>2. UNCHANGED <<poll, armed, registered, queue_ptr>>
    BY <1>12 DEF OnBoot
  <2>3. QED
    BY <2>1, <2>2
<1>13. CASE OnBootNotify \/ OnState
  BY <1>13 DEF OnBootNotify, OnState, Outcomes
<1>14. ASSUME NEW k \in Kinds, OnMessage(k) PROVE LoopFits'
  BY <1>14 DEF OnMessage
<1>15. CASE StartPoll
  BY <1>15 DEF StartPoll
<1>16. CASE PollStep
  BY <1>16 DEF PollStep, LeaveQueue, TakeMessage, Kinds
<1>17. CASE RequestNmt \/ UnlockNmt \/ NmtTimesOut \/ GetNmt \/ HandleNmt \/ PublishNmt
  BY <1>17 DEF RequestNmt, UnlockNmt, NmtTimesOut, GetNmt, HandleNmt, PublishNmt
<1>18. CASE UserCalls \/ UserUses
  BY <1>18 DEF UserCalls, UserUses
<1>19. QED
  BY <1>2, <1>3, <1>4, <1>5, <1>6, <1>7, <1>8, <1>9, <1>10, <1>11, <1>12, <1>13, <1>14,
     <1>15, <1>16, <1>17, <1>18
     DEF Next, Thread, Adding, Activating, Removing, Tasks, Listener

\* So the loop meets neither a second driver nor a null pointer.
LEMMA LoopSafeNext ==
  ASSUME Values, NmtFits, Registers, AddsToNone, LoopFits, Next
  PROVE  LoopIsSafe'
<1>1. conf' = conf /\ crash = "none" /\ (NextTask("add") /\ ~conf.motors => ~registered)
  BY ConfStays, TaskType DEF Next, AddsToNone, Values
<1> USE <1>1
    DEF LoopIsSafe, thread, bridge, bootVars, device, nmt, messages, polling, boot, looping,
        actors
<1>2. CASE DeviceStarts \/ BootEnds \/ Activate \/ Deactivate
  BY <1>2 DEF DeviceStarts, BootEnds, Activate, Deactivate
<1>3. CASE AddingTimesOut \/ CheckReady \/ TestBooted \/ Block
  BY <1>3 DEF AddingTimesOut, CheckReady, TestBooted, Block
<1>4. CASE Awake \/ BootTimesOut
  BY <1>4 DEF Awake, AttemptFails, BootTimesOut
<1>5. CASE StartListener \/ TakeQueues \/ SetActivated
  BY <1>5 DEF StartListener, TakeQueues, SetActivated
<1>6. CASE RemovingTimesOut \/ JoinListener \/ CancelTimer \/ ResetQueue
  BY <1>6 DEF RemovingTimesOut, JoinListener, CancelTimer, ResetQueue
<1>7. CASE AddTask
  <2>1. CASE ~conf.motors
    <3>1. crash' = "none"
      BY <1>7, <2>1 DEF AddTask
    <3>2. QED
      BY <3>1
  <2>2. QED
    BY <2>1
<1>8. CASE RemoveTask \/ OnBoot \/ OnBootNotify
  BY <1>8 DEF RemoveTask, OnBoot, OnBootNotify
<1>9. CASE OnState
  <2>1. crash' = "none"
    BY <1>9 DEF OnState, NmtFits
  <2>2. QED
    BY <2>1
<1>10. ASSUME NEW k \in Kinds, OnMessage(k) PROVE LoopIsSafe'
  BY <1>10 DEF OnMessage
<1>11. CASE StartPoll \/ UserCalls
  BY <1>11 DEF StartPoll, UserCalls
<1>12. CASE PollStep
  <2>1. crash' \in {"none", "poll"} /\ (crash' = "poll" => ~lely_driver \/ ~AllQueues)
    BY <1>12 DEF PollStep, AllQueues, Values
  <2>2. ~conf.motors /\ ~conf.polling => lely_driver /\ AllQueues
    BY <1>12 DEF PollStep, LoopFits, Registers
  <2>3. QED
    BY <2>1, <2>2
<1>13. CASE RequestNmt
  <2>1. crash' \in {"none", "listener"}
    BY <1>13 DEF RequestNmt
  <2>2. QED
    BY <2>1
<1>14. CASE UnlockNmt \/ NmtTimesOut \/ GetNmt
  BY <1>14 DEF UnlockNmt, NmtTimesOut, GetNmt
<1>15. CASE HandleNmt
  <2>1. crash' \in {"none", "listener"}
    BY <1>15 DEF HandleNmt
  <2>2. QED
    BY <2>1
<1>16. CASE PublishNmt
  <2>1. crash' \in {"none", "listener"}
    BY <1>16 DEF PublishNmt
  <2>2. QED
    BY <2>1
<1>17. CASE UserUses
  <2>1. crash' \in {"none", "user"}
    BY <1>17 DEF UserUses
  <2>2. QED
    BY <2>1
<1>18. QED
  BY <1>2, <1>3, <1>4, <1>5, <1>6, <1>7, <1>8, <1>9, <1>10, <1>11, <1>12, <1>13, <1>14,
     <1>15, <1>16, <1>17
     DEF Next, Thread, Adding, Activating, Removing, Tasks, Listener

\* ... and the poll takes the first of a queue and hands it on.
LEMMA TakeFacts ==
  ASSUME Values, Stores, QueuesFit, NEW k \in Kinds, queue[k] # << >>, TakeMessage(k)
  PROVE  /\ queue'[k] \in Seq(1 .. conf.messages) /\ Len(queue'[k]) = Len(queue[k]) - 1
         /\ Len(queue[k]) \in Nat \ {0} /\ arrived[k] \in Nat /\ handed[k] \in Nat
         /\ \A i \in 1 .. Len(queue'[k]) : queue'[k][i] = queue[k][i + 1]
         /\ \A j \in Kinds \ {k} : queue'[j] = queue[j] /\ handed'[j] = handed[j]
         /\ k = "emcy" \/ activated => handed'[k] = arrived[k] - Len(queue[k]) + 1
         /\ ~(k = "emcy" \/ activated) => handed'[k] = handed[k]
<1>1. /\ queue[k] \in Seq(1 .. conf.messages) /\ queue[k] # << >>
      /\ arrived[k] \in Nat /\ handed[k] \in Nat /\ conf.messages \in Nat
  BY ConfFacts DEF Stores, Values
<1>2. queue' = [queue EXCEPT ![k] = Tail(queue[k])]
  BY DEF TakeMessage, Stores
<1>3. queue'[k] = Tail(queue[k]) /\ \A j \in Kinds \ {k} : queue'[j] = queue[j]
  BY <1>2 DEF Stores
<1>4. /\ Tail(queue[k]) \in Seq(1 .. conf.messages) /\ Len(Tail(queue[k])) = Len(queue[k]) - 1
      /\ \A i \in 1 .. Len(Tail(queue[k])) : Tail(queue[k])[i] = queue[k][i + 1]
      /\ Len(queue[k]) \in Nat \ {0}
  BY <1>1, HeadTailProperties, LenProperties, EmptySeq
<1>5. Head(queue[k]) = queue[k][1]
  BY <1>1, <1>4
<1>6. Head(queue[k]) = arrived[k] - Len(queue[k]) + 1
  BY <1>1, <1>4, <1>5 DEF QueuesFit
<1>7. /\ k = "emcy" \/ activated => handed'[k] = Head(queue[k])
      /\ ~(k = "emcy" \/ activated) => handed'[k] = handed[k]
      /\ \A j \in Kinds \ {k} : handed'[j] = handed[j]
  BY DEF TakeMessage, Stores
<1>8. QED
  BY <1>1, <1>3, <1>4, <1>6, <1>7

\* A message goes to the end of its queue, ...
LEMMA ArriveFacts ==
  ASSUME Values, Stores, NEW k \in Kinds, OnMessage(k)
  PROVE  /\ Len(queue'[k]) = Len(queue[k]) + 1 /\ Len(queue[k]) \in Nat
         /\ arrived'[k] = arrived[k] + 1 /\ arrived[k] \in Nat
         /\ queue'[k][Len(queue[k]) + 1] = arrived[k] + 1
         /\ \A i \in 1 .. Len(queue[k]) : queue'[k][i] = queue[k][i]
         /\ \A j \in Kinds \ {k} : arrived'[j] = arrived[j] /\ queue'[j] = queue[j]
<1>1. conf.messages \in Nat
  BY ConfFacts DEF Values
<1>2. /\ queue[k] \in Seq(1 .. conf.messages) /\ arrived[k] \in 0 .. conf.messages
      /\ arrived[k] < conf.messages
  BY DEF OnMessage, Stores
<1>3. /\ arrived'[k] = arrived[k] + 1 /\ queue'[k] = Append(queue[k], arrived[k] + 1)
      /\ \A j \in Kinds \ {k} : arrived'[j] = arrived[j] /\ queue'[j] = queue[j]
  BY DEF OnMessage, Stores
<1>4. arrived[k] \in Nat /\ arrived[k] + 1 \in 1 .. conf.messages
  BY <1>1, <1>2
<1>5. QED
  BY <1>2, <1>3, <1>4, AppendProperties, LenProperties

\* No step but these two changes a queue.
LEMMA QueuesNext ==
  ASSUME Values, Stores, QueuesFit, Next
  PROVE  QueuesFit'
<1> USE DEF thread, bridge, bootVars, device, nmt, messages, polling, boot, looping, actors
<1>1. CASE DeviceStarts \/ BootEnds \/ Activate \/ Deactivate
  BY <1>1 DEF DeviceStarts, BootEnds, Activate, Deactivate, QueuesFit
<1>2. CASE AddingTimesOut \/ CheckReady \/ TestBooted \/ Block
  BY <1>2 DEF AddingTimesOut, CheckReady, TestBooted, Block, QueuesFit
<1>3. CASE Awake \/ BootTimesOut
  BY <1>3 DEF Awake, AttemptFails, BootTimesOut, QueuesFit
<1>4. CASE StartListener \/ TakeQueues \/ SetActivated
  BY <1>4 DEF StartListener, TakeQueues, SetActivated, QueuesFit
<1>5. CASE RemovingTimesOut \/ JoinListener \/ CancelTimer \/ ResetQueue
  BY <1>5 DEF RemovingTimesOut, JoinListener, CancelTimer, ResetQueue, QueuesFit
<1>6. CASE AddTask
  <2>1. CASE UNCHANGED <<arrived, queue>>
    BY <2>1 DEF QueuesFit
  <2>2. CASE arrived' = [k \in Kinds |-> 0] /\ queue' = [k \in Kinds |-> << >>]
    <3>1. \A k \in Kinds : arrived'[k] = 0 /\ queue'[k] = << >> /\ Len(queue'[k]) = 0
      BY <2>2
    <3>2. QED
      BY <3>1 DEF QueuesFit
  <2>3. QED
    BY <1>6, <2>1, <2>2 DEF AddTask
<1>7. CASE RemoveTask \/ OnBoot \/ OnBootNotify \/ OnState
  BY <1>7 DEF RemoveTask, OnBoot, OnBootNotify, OnState, QueuesFit
<1>8. ASSUME NEW k \in Kinds, OnMessage(k) PROVE QueuesFit'
  <2>1. /\ Len(queue'[k]) = Len(queue[k]) + 1 /\ Len(queue[k]) \in Nat
        /\ arrived'[k] = arrived[k] + 1 /\ arrived[k] \in Nat
    BY <1>8, ArriveFacts
  <2>2. arrived'[k] - Len(queue'[k]) = arrived[k] - Len(queue[k])
    BY <2>1
  <2>3. /\ Len(queue'[k]) <= arrived'[k] /\ Len(queue[k]) \in Nat /\ arrived[k] \in Nat
        /\ Len(queue'[k]) = Len(queue[k]) + 1
    BY <1>8, ArriveFacts DEF QueuesFit
  <2>4. ASSUME NEW i \in 1 .. Len(queue'[k])
        PROVE  queue'[k][i] = (arrived'[k] - Len(queue'[k])) + i
    <3>1. CASE i = Len(queue[k]) + 1
      BY <1>8, <2>2, <2>3, <3>1, ArriveFacts
    <3>2. CASE i \in 1 .. Len(queue[k])
      BY <1>8, <2>2, <2>3, <3>2, ArriveFacts DEF QueuesFit
    <3>3. QED
      BY <2>3, <3>1, <3>2
  <2>5. \A j \in Kinds \ {k} : arrived'[j] = arrived[j] /\ queue'[j] = queue[j]
    BY <1>8, ArriveFacts
  <2>6. QED
    BY <2>3, <2>4, <2>5 DEF QueuesFit
<1>9. CASE StartPoll \/ UserCalls \/ UserUses
  BY <1>9 DEF StartPoll, UserCalls, UserUses, QueuesFit
<1>10. CASE PollStep
  <2>1. arrived' = arrived
    BY <1>10 DEF PollStep
  <2>2. CASE UNCHANGED queue
    BY <2>1, <2>2 DEF QueuesFit
  <2>3. CASE queue[poll] # << >> /\ TakeMessage(poll)
    <3>1. poll \in Kinds
      BY <1>10 DEF PollStep, Values
    <3>2. /\ Len(queue[poll]) <= arrived[poll] /\ Len(queue[poll]) \in Nat \ {0}
          /\ Len(queue'[poll]) = Len(queue[poll]) - 1 /\ arrived[poll] \in Nat
      BY <2>3, <3>1, TakeFacts DEF QueuesFit
    <3>3. ASSUME NEW i \in 1 .. Len(queue'[poll])
          PROVE  queue'[poll][i] = (arrived[poll] - Len(queue'[poll])) + i
      <4>1. queue'[poll][i] = queue[poll][i + 1]
        BY <2>3, <3>1, TakeFacts
      <4>2. queue[poll][i + 1] = (arrived[poll] - Len(queue[poll])) + (i + 1)
        BY <3>1, <3>2 DEF QueuesFit
      <4>3. i \in Int
        BY <3>2
      <4>4. \A a, n, j \in Int : (a - (n - 1)) + j = (a - n) + (j + 1)
        OBVIOUS
      <4>5. Len(queue[poll]) \in Int /\ arrived[poll] \in Int
        BY <3>2
      <4>6. (arrived[poll] - (Len(queue[poll]) - 1)) + i
              = (arrived[poll] - Len(queue[poll])) + (i + 1)
        BY <4>3, <4>4, <4>5
      <4>7. QED
        BY <3>2, <4>1, <4>2, <4>6
    <3>4. \A j \in Kinds \ {poll} : queue'[j] = queue[j]
      BY <2>3, <3>1, TakeFacts
    <3>5. Len(queue'[poll]) <= arrived[poll]
      BY <3>2
    <3>6. QED
      BY <2>1, <3>5, <3>4, <3>3 DEF QueuesFit
  <2>4. QED
    BY <1>10, <2>2, <2>3, Zenon DEF PollStep
<1>11. CASE RequestNmt \/ UnlockNmt \/ NmtTimesOut \/ GetNmt \/ HandleNmt \/ PublishNmt
  BY <1>11 DEF RequestNmt, UnlockNmt, NmtTimesOut, GetNmt, HandleNmt, PublishNmt, QueuesFit
<1>12. QED
  BY <1>1, <1>2, <1>3, <1>4, <1>5, <1>6, <1>7, <1>8, <1>9, <1>10, <1>11
     DEF Next, Thread, Adding, Activating, Removing, Tasks, Listener

\* What was handed on last is always the one before the first in the queue.
LEMMA HandedNext ==
  ASSUME Values, Stores, PointerFits, QueuesFit, HandedFit, Next
  PROVE  HandedFit'
<1> USE DEF thread, bridge, bootVars, device, nmt, messages, polling, boot, looping, actors
<1>1. CASE DeviceStarts \/ BootEnds \/ Activate \/ Deactivate
  BY <1>1 DEF DeviceStarts, BootEnds, Activate, Deactivate, HandedFit, BootSteps
<1>2. CASE AddingTimesOut \/ CheckReady \/ TestBooted \/ Block
  BY <1>2 DEF AddingTimesOut, CheckReady, TestBooted, Block, HandedFit, BootSteps
<1>3. CASE Awake \/ BootTimesOut
  BY <1>3 DEF Awake, AttemptFails, BootTimesOut, HandedFit, BootSteps
<1>4. CASE StartListener \/ TakeQueues
  BY <1>4 DEF StartListener, TakeQueues, HandedFit, BootSteps
<1>5. CASE SetActivated
  BY <1>5 DEF SetActivated, HandedFit, BootSteps
<1>6. CASE RemovingTimesOut \/ JoinListener \/ CancelTimer \/ ResetQueue
  BY <1>6 DEF RemovingTimesOut, JoinListener, CancelTimer, ResetQueue, HandedFit, BootSteps
<1>7. CASE AddTask
  <2>1. CASE UNCHANGED <<arrived, queue, handed, pc>>
    BY <2>1 DEF HandedFit
  <2>2. CASE handed' = [k \in Kinds |-> 0]
    BY <2>2 DEF HandedFit, Kinds
  <2>3. QED
    BY <1>7, <2>1, <2>2 DEF AddTask
<1>8. CASE RemoveTask \/ OnBoot \/ OnBootNotify \/ OnState
  BY <1>8 DEF RemoveTask, OnBoot, OnBootNotify, OnState, HandedFit, BootSteps
<1>9. ASSUME NEW k \in Kinds, OnMessage(k) PROVE HandedFit'
  <2>1. /\ Len(queue'[k]) = Len(queue[k]) + 1 /\ Len(queue[k]) \in Nat
        /\ arrived'[k] = arrived[k] + 1 /\ arrived[k] \in Nat
    BY <1>9, ArriveFacts
  <2>2. arrived'[k] - Len(queue'[k]) = arrived[k] - Len(queue[k])
    BY <2>1
  <2>3. \A j \in Kinds : arrived'[j] - Len(queue'[j]) = arrived[j] - Len(queue[j])
    BY <1>9, <2>2, ArriveFacts
  <2>4. handed' = handed /\ pc' = pc
    BY <1>9 DEF OnMessage
  <2>5. QED
    BY <2>3, <2>4 DEF HandedFit, Kinds
<1>10. CASE StartPoll \/ UserCalls \/ UserUses
  BY <1>10 DEF StartPoll, UserCalls, UserUses, HandedFit, BootSteps
<1>11. CASE PollStep
  <2>1. arrived' = arrived /\ pc' = pc /\ (activated <=> pc = "active")
    BY <1>11 DEF PollStep, PointerFits
  <2>2. CASE UNCHANGED <<queue, handed>>
    BY <2>1, <2>2 DEF HandedFit
  <2>3. CASE queue[poll] # << >> /\ TakeMessage(poll)
    <3>1. poll \in Kinds
      BY <1>11 DEF PollStep, Values
    <3>2. \A j \in Kinds \ {poll} : queue'[j] = queue[j] /\ handed'[j] = handed[j]
      BY <2>3, <3>1, TakeFacts
    <3>3. /\ poll = "emcy" \/ activated => handed'[poll] = arrived[poll] - Len(queue'[poll])
          /\ ~(poll = "emcy" \/ activated) => handed'[poll] = handed[poll]
      BY <2>3, <3>1, TakeFacts
    <3>4. CASE poll = "emcy"
      BY <2>1, <3>2, <3>3, <3>4 DEF HandedFit, Kinds
    <3>5. CASE poll = "rpdo"
      BY <2>1, <3>2, <3>3, <3>5 DEF HandedFit, Kinds, BootSteps
    <3>6. QED
      BY <3>1, <3>4, <3>5 DEF Kinds
  <2>4. QED
    BY <1>11, <2>2, <2>3, Zenon DEF PollStep
<1>12. CASE RequestNmt \/ UnlockNmt \/ NmtTimesOut \/ GetNmt \/ HandleNmt \/ PublishNmt
  BY <1>12 DEF RequestNmt, UnlockNmt, NmtTimesOut, GetNmt, HandleNmt, PublishNmt, HandedFit,
     BootSteps
<1>13. QED
  BY <1>1, <1>2, <1>3, <1>4, <1>5, <1>6, <1>7, <1>8, <1>9, <1>10, <1>11, <1>12
     DEF Next, Thread, Adding, Activating, Removing, Tasks, Listener

-----------------------------------------------------------------------------
(***************************************************************************)
(* The theorems.                                                           *)
(***************************************************************************)

\* The invariant is inductive.
LEMMA InvInit == Init => IInv
<1> SUFFICES ASSUME Init PROVE IInv
  OBVIOUS
<1>1. TypeOK
  BY TypeInit
<1>2. TasksFit /\ ResultsFit /\ AddsToNone
  <2>1. Len(tasks) = 0
    BY EmptySeq DEF Init
  <2>2. QED
    BY <2>1 DEF TasksFit, ResultsFit, AddsToNone
<1>3. PointerFits /\ NmtFits /\ FirstIsClean /\ SafeInOperation
  BY DEF Init, PointerFits, NmtFits, FirstIsClean, SafeInOperation, UpSteps, BootSteps
<1>4. BootsFit
  BY DEF Init, BootsFit
<1>5. Registers /\ LoopFits /\ LoopIsSafe
  BY DEF Init, Registers, LoopFits, LoopIsSafe
<1>6. QueuesFit /\ HandedFit
  <2>1. \A k \in Kinds : /\ arrived[k] = 0 /\ handed[k] = 0
                         /\ queue[k] = << >> /\ Len(queue[k]) = 0
    BY DEF Init
  <2>2. QED
    BY <2>1 DEF QueuesFit, HandedFit, Kinds
<1>7. QED
  BY <1>1, <1>2, <1>3, <1>4, <1>5, <1>6 DEF IInv

\* Every step keeps the inductive invariant.
LEMMA InvNext ==
  ASSUME IInv, [Next]_vars
  PROVE  IInv'
<1>1. CASE Next
  <2>1. Flags /\ Values /\ Stores
    BY TypeParts DEF IInv
  <2>2. TypeOK'
    <3>1. Flags' /\ Values' /\ Stores'
      BY <1>1, <2>1, FlagsNext, ValuesNext, StoresNext DEF IInv
    <3>2. QED
      BY <3>1 DEF TypeOK, Flags, Values, Stores
  <2>3. TasksFit' /\ PointerFits' /\ ResultsFit' /\ BootsFit' /\ NmtFits'
    BY <1>1, <2>1, TasksNext, PointerNext, ResultsNext, BootsNext, NmtNext DEF IInv
  <2>4. FirstIsClean' /\ SafeInOperation'
    BY <1>1, <2>1, CleanNext, SafeNext DEF IInv
  <2>5. Registers' /\ AddsToNone' /\ LoopFits' /\ LoopIsSafe'
    BY <1>1, <2>1, RegistersNext, AddsNext, LoopNext, LoopSafeNext DEF IInv
  <2>6. QueuesFit' /\ HandedFit'
    BY <1>1, <2>1, QueuesNext, HandedNext DEF IInv
  <2>7. QED
    BY <2>2, <2>3, <2>4, <2>5, <2>6 DEF IInv
<1>2. CASE UNCHANGED vars
  <2> USE DEF vars, thread, bridge, bootVars, device, nmt, messages, polling
  <2>1. TypeOK'
    BY <1>2 DEF IInv, TypeOK, Broken
  <2>2. TasksFit' /\ PointerFits' /\ ResultsFit' /\ BootsFit' /\ NmtFits'
    BY <1>2 DEF IInv, TasksFit, PointerFits, ResultsFit, BootsFit, NmtFits, Zeroed, Calm
  <2>3. FirstIsClean' /\ SafeInOperation'
    BY <1>2 DEF IInv, FirstIsClean, SafeInOperation, AllQueues
  <2>4. Registers' /\ AddsToNone' /\ LoopFits' /\ LoopIsSafe'
    BY <1>2 DEF IInv, Registers, AddsToNone, LoopFits, LoopIsSafe, AllQueues
  <2>5. QueuesFit' /\ HandedFit'
    BY <1>2 DEF IInv, QueuesFit, HandedFit
  <2>6. QED
    BY <2>1, <2>2, <2>3, <2>4, <2>5 DEF IInv
<1>3. QED
  BY <1>1, <1>2

\* The inductive invariant holds of every behaviour.
THEOREM InvHolds == Spec => []IInv
<1>1. Init => IInv
  BY InvInit
<1>2. IInv /\ [Next]_vars => IInv'
  BY InvNext
<1>3. QED
  BY <1>1, <1>2, PTL DEF Spec

\* Every variable keeps its type, whatever the drivers and surroundings.
THEOREM TypeCorrect == Spec => []TypeOK
<1>1. IInv => TypeOK
  BY DEF IInv
<1>2. QED
  BY <1>1, InvHolds, PTL

\* add_to_master() returns only when a boot of the device has succeeded.
THEOREM AddsOnlyBooted == Spec => []BootedWhenAdded
<1>1. IInv => BootedWhenAdded
  BY DEF IInv, BootsFit, BootedWhenAdded, Calm, Zeroed
<1>2. QED
  BY <1>1, InvHolds, PTL

\* No thread meets a null pointer while the driver comes up and works for the first time.
THEOREM OperationIsSafe == Spec => []SafeInOperation
<1>1. IInv => SafeInOperation
  BY DEF IInv
<1>2. QED
  BY <1>1, InvHolds, PTL

\* What runs on the loop is safe at any time, unless a motor keeps the bridge.
THEOREM LoopStaysSafe == Spec => []LoopIsSafe
<1>1. IInv => LoopIsSafe
  BY DEF IInv
<1>2. QED
  BY <1>1, InvHolds, PTL

\* Only a poll hands a message on, and the next one of its queue.
LEMMA NextInOrder ==
  ASSUME IInv, Next, NEW k \in Kinds, handed'[k] # handed[k], handed[k] # 0, handed'[k] # 0
  PROVE  handed'[k] = handed[k] + 1
<1>1. Values /\ Stores /\ PointerFits /\ QueuesFit /\ HandedFit
  BY TypeParts DEF IInv
<1> USE DEF thread, bridge, bootVars, device, nmt, messages, polling, boot, looping, actors
<1>2. CASE PollStep
  <2>1. PICK j \in Kinds : j = poll
    BY <1>1, <1>2 DEF PollStep, Values
  <2>2. queue[j] # << >> /\ TakeMessage(j)
    BY <1>2, <2>1, Zenon DEF PollStep
  <2>3. j = k
    BY <1>1, <2>2, TakeFacts
  <2>4. /\ k = "emcy" \/ activated
        /\ handed'[k] = arrived[k] - Len(queue[k]) + 1
        /\ arrived[k] \in Nat /\ Len(queue[k]) \in Nat
    BY <1>1, <2>2, <2>3, TakeFacts
  <2>5. handed[k] = arrived[k] - Len(queue[k])
    BY <1>1, <2>4 DEF HandedFit, PointerFits, Kinds
  <2>6. QED
    BY <2>4, <2>5
<1>3. CASE AddTask
  <2>1. handed' = handed \/ handed' = [n \in Kinds |-> 0]
    BY <1>3 DEF AddTask
  <2>2. QED
    BY <2>1
<1>4. CASE ~PollStep /\ ~AddTask
  <2>1. handed' = handed
    BY <1>4 DEF Next, DeviceStarts, BootEnds, Activate, Deactivate, Thread, Adding,
       AddingTimesOut, CheckReady, TestBooted, Block, Awake, BootTimesOut, Activating,
       StartListener, TakeQueues, SetActivated, Removing, RemovingTimesOut, JoinListener,
       CancelTimer, ResetQueue, Tasks, RemoveTask, OnBoot, OnBootNotify, OnState, OnMessage,
       StartPoll, Listener, RequestNmt, UnlockNmt, NmtTimesOut, GetNmt, HandleNmt,
       PublishNmt, UserCalls, UserUses
  <2>2. QED
    BY <2>1
<1>5. QED
  BY <1>2, <1>3, <1>4

\* The messages of a bridge are handed on in their order and without a gap.
THEOREM MessagesInOrder == Spec => NoMessageLost
<1>1. IInv /\ [Next]_vars =>
        [\A k \in Kinds : handed'[k] # handed[k] /\ handed[k] # 0 /\ handed'[k] # 0
           => handed'[k] = handed[k] + 1]_vars
  BY NextInOrder
<1>2. QED
  BY <1>1, InvHolds, PTL DEF Spec, NoMessageLost

=============================================================================
