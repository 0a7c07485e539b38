------------------------------- MODULE SdoGate -------------------------------
(***************************************************************************)
(* The SDO gate of LelyDriverBridge and its callers.                       *)
(*                                                                         *)
(* ROS threads hand SDO requests to the CANopen loop through the bridge:   *)
(* the flag running, the mutex sdo_mutex and the condition variable        *)
(* sdo_cond are meant to let one request through at a time.  The untyped   *)
(* calls (async_sdo_read, async_sdo_write) keep their promise in a member  *)
(* of the bridge, the typed ones (async_sdo_read_typed and _write_typed)   *)
(* in the completion callback.  The proxy driver's services use the        *)
(* untyped calls under a mutex of their own, sdo_mtex; motors and the other *)
(* profile drivers use the typed calls with no lock and give up after      *)
(* sdo_timeout.                                                            *)
(*                                                                         *)
(* Everything done under sdo_mutex is one action: only the wait on         *)
(* sdo_cond releases that mutex.  Whether the device answers with data or  *)
(* with an abort code makes no difference to the gate, so both are one     *)
(* reply.  An exception that leaves a ROS callback or a lely task ends the *)
(* process; some callers of the typed calls catch it and go on.            *)
(***************************************************************************)
EXTENDS Naturals, Sequences, FiniteSets

CONSTANTS
  ProxyCallers,  \* threads in the sdo_read/sdo_write services of the proxy driver
  TypedCallers,  \* threads in a typed call: the timers and services of motors
  ProxyObjects,  \* what the dictionary knows of the objects services ask for
  TypedObjects,  \* the same for the objects of typed calls
  SubmitThrows,  \* may lely refuse a request (no client SDO during a boot)?
  SpuriousWakeups, \* may sdo_cond.wait() return without a notification?
  MaxCalls,      \* bound on the number of calls
  Nobody         \* no thread holds sdo_mtex

Callers == ProxyCallers \cup TypedCallers

ASSUME CallersAssumption ==
  /\ ProxyCallers \cap TypedCallers = {}
  /\ Nobody \notin Callers

ASSUME ObjectsAssumption ==
  /\ ProxyObjects \subseteq {"supported", "unsupported", "absent"}
  /\ TypedObjects \subseteq {"supported", "absent"}
  /\ SubmitThrows \in BOOLEAN
  /\ SpuriousWakeups \in BOOLEAN

ASSUME MaxCallsAssumption == MaxCalls \in Nat

CallIds == 1 .. MaxCalls

VARIABLES
  running,            \* the flag of the bridge
  deserted,           \* history: running was set by a call that left no request behind
  pc,                 \* where each caller is
  call,               \* the call each caller makes
  calls,              \* number of calls made so far; a call's number is its id
  promise,            \* state of the promise of each call
  reply,              \* the call whose reply a promise was given, 0 for none
  sdo_read_promise,   \* call whose promise the member holds, 0 for a null pointer
  sdo_write_promise,
  sdo_mtex,           \* the proxy caller that holds it, or Nobody
  requests,           \* requests handed to lely and not yet answered
  loop,               \* the CANopen loop: between the two steps of a completion?
  alive               \* FALSE once an exception ended the process

vars == <<running, deserted, pc, call, calls, promise, reply, sdo_read_promise,
          sdo_write_promise, sdo_mtex, requests, loop, alive>>

Locations == {"idle", "lock", "enter", "waiting", "woken", "future"}
Apis == {"typed", "read", "write"}
NoCall == [id |-> 0, api |-> "typed", object |-> "none"]
Call == [id : 0 .. MaxCalls, api : Apis, object : ProxyObjects \cup TypedObjects \cup {"none"}]

TypeOK ==
  /\ running \in BOOLEAN
  /\ deserted \in BOOLEAN
  /\ pc \in [Callers -> Locations]
  /\ call \in [Callers -> Call]
  /\ calls \in 0 .. MaxCalls
  /\ promise \in [CallIds -> {"unmade", "pending", "value", "refused", "broken"}]
  /\ reply \in [CallIds -> 0 .. MaxCalls]
  /\ sdo_read_promise \in 0 .. MaxCalls
  /\ sdo_write_promise \in 0 .. MaxCalls
  /\ sdo_mtex \in ProxyCallers \cup {Nobody}
  /\ requests \in Seq([id : CallIds, api : Apis])
  /\ loop \in {"free", "replied"}
  /\ alive \in BOOLEAN

Init ==
  /\ running = FALSE
  /\ deserted = FALSE
  /\ pc = [c \in Callers |-> "idle"]
  /\ call = [c \in Callers |-> NoCall]
  /\ calls = 0
  /\ promise = [p \in CallIds |-> "unmade"]
  /\ reply = [p \in CallIds |-> 0]
  /\ sdo_read_promise = 0
  /\ sdo_write_promise = 0
  /\ sdo_mtex = Nobody
  /\ requests = << >>
  /\ loop = "free"
  /\ alive = TRUE

-----------------------------------------------------------------------------
(***************************************************************************)
(* Starting a call.                                                        *)
(***************************************************************************)

NewCall(c, api, object) ==
  /\ alive
  /\ pc[c] = "idle"
  /\ calls < MaxCalls
  /\ calls' = calls + 1
  /\ call' = [call EXCEPT ![c] = [id |-> calls + 1, api |-> api, object |-> object]]

\* A service call reaches the proxy driver, which must lock sdo_mtex first.
ProxyCall(c) ==
  /\ \E api \in {"read", "write"}, object \in ProxyObjects : NewCall(c, api, object)
  /\ pc' = [pc EXCEPT ![c] = "lock"]
  /\ UNCHANGED <<running, deserted, promise, reply, sdo_read_promise, sdo_write_promise,
                 sdo_mtex, requests, loop, alive>>

\* A motor calls sync_sdo_read_typed or sync_sdo_write_typed.
TypedCall(c) ==
  /\ \E object \in TypedObjects : NewCall(c, "typed", object)
  /\ pc' = [pc EXCEPT ![c] = "enter"]
  /\ UNCHANGED <<running, deserted, promise, reply, sdo_read_promise, sdo_write_promise,
                 sdo_mtex, requests, loop, alive>>

\* Mutant of LockProxy: the services do not wait for each other.
LockProxyWithoutMutex(c) ==
  /\ alive
  /\ pc[c] = "lock"
  /\ sdo_mtex' = c
  /\ pc' = [pc EXCEPT ![c] = "enter"]
  /\ UNCHANGED <<running, deserted, call, calls, promise, reply, sdo_read_promise,
                 sdo_write_promise, requests, loop, alive>>

LockProxy(c) ==
  /\ alive
  /\ pc[c] = "lock"
  /\ sdo_mtex = Nobody
  /\ sdo_mtex' = c
  /\ pc' = [pc EXCEPT ![c] = "enter"]
  /\ UNCHANGED <<running, deserted, call, calls, promise, reply, sdo_read_promise,
                 sdo_write_promise, requests, loop, alive>>

-----------------------------------------------------------------------------
(***************************************************************************)
(* Passing the gate.  `if (running) sdo_cond.wait(lck); running = true;'   *)
(* tests the flag once: a caller that wakes up goes ahead, whatever the    *)
(* flag says by then.                                                      *)
(***************************************************************************)

\* The values pc may take after sdo_cond.notify_one() in locations f.
NotifyOne(f) ==
  LET waiters == {c \in Callers : f[c] = "waiting"}
  IN  IF waiters = {} THEN {f} ELSE {[f EXCEPT ![w] = "woken"] : w \in waiters}

Typed(c) == call[c].api = "typed"

\* The promise the member held before the call of c replaces it.
Replaced(c) ==
  CASE call[c].api = "read"  -> sdo_read_promise
    [] call[c].api = "write" -> sdo_write_promise
    [] OTHER                 -> 0

\* make_shared: the new promise takes the member, and the future of an
\* unsatisfied promise it replaces gets broken_promise.
MakePromise(c, state) ==
  /\ promise' = [p \in CallIds |->
                  IF p = call[c].id THEN state
                  ELSE IF p = Replaced(c) /\ promise[p] = "pending" THEN "broken"
                  ELSE promise[p]]
  /\ sdo_read_promise'  = IF call[c].api = "read" THEN call[c].id ELSE sdo_read_promise
  /\ sdo_write_promise' = IF call[c].api = "write" THEN call[c].id ELSE sdo_write_promise

ToFuture(c) == [pc EXCEPT ![c] = "future"]

\* The dictionary has no such object.  The typed calls notify, the others do not.
Refuse(c) ==
  /\ call[c].object = "absent"
  /\ MakePromise(c, "refused")
  /\ running' = FALSE
  /\ deserted' = FALSE
  /\ IF Typed(c) THEN pc' \in NotifyOne(ToFuture(c)) ELSE pc' = ToFuture(c)
  /\ UNCHANGED <<sdo_mtex, requests, alive>>

\* Mutant of Submit: the promise is looked up before it is made.
SubmitBeforeMaking(c) ==
  /\ call[c].object = "supported"
  /\ MakePromise(c, "pending")
  /\ requests' = Append(requests, [id |-> Replaced(c), api |-> call[c].api])
  /\ running' = TRUE
  /\ deserted' = FALSE
  /\ pc' = ToFuture(c)
  /\ UNCHANGED <<sdo_mtex, alive>>

\* lely takes the request.
Submit(c) ==
  /\ call[c].object = "supported"
  /\ MakePromise(c, "pending")
  /\ requests' = Append(requests, [id |-> call[c].id, api |-> call[c].api])
  /\ running' = TRUE
  /\ deserted' = FALSE
  /\ pc' = ToFuture(c)
  /\ UNCHANGED <<sdo_mtex, alive>>

\* running stays set without a request; only one that lely still has can clear it.
LeaveShut ==
  /\ running' = TRUE
  /\ deserted' = (requests = << >> /\ loop = "free")

\* The default label of the type switch: nothing is submitted, running stays set
\* and the future is returned unsatisfied.
Strand(c) ==
  /\ call[c].object = "unsupported"
  /\ MakePromise(c, "pending")
  /\ LeaveShut
  /\ pc' = ToFuture(c)
  /\ UNCHANGED <<sdo_mtex, requests, alive>>

\* lely throws SdoError at async_sdo_read: the error is stored and the gate opened.
ReadThrows(c) ==
  /\ SubmitThrows
  /\ call[c].object = "supported"
  /\ call[c].api = "read"
  /\ MakePromise(c, "refused")
  /\ running' = FALSE
  /\ deserted' = FALSE
  /\ pc' \in NotifyOne(ToFuture(c))
  /\ UNCHANGED <<sdo_mtex, requests, alive>>

\* The handler of async_sdo_write stores the error in the read promise.  If that is
\* null or satisfied already the process ends; if not, a read gets the error, and the
\* future of this write is never satisfied.
WriteThrows(c) ==
  /\ SubmitThrows
  /\ call[c].object = "supported"
  /\ call[c].api = "write"
  /\ sdo_write_promise' = call[c].id
  /\ IF sdo_read_promise # 0 /\ promise[sdo_read_promise] = "pending"
     THEN /\ promise' = [promise EXCEPT ![call[c].id] = "pending",
                                        ![sdo_read_promise] = "refused"]
          /\ running' = FALSE
          /\ deserted' = FALSE
          /\ pc' \in NotifyOne(ToFuture(c))
          /\ UNCHANGED alive
     ELSE /\ promise' = [promise EXCEPT ![call[c].id] = "pending"]
          /\ running' = TRUE
          /\ pc' = ToFuture(c)
          /\ alive' = FALSE
          /\ UNCHANGED deserted
  /\ UNCHANGED <<sdo_read_promise, sdo_mtex, requests>>

\* The typed calls catch nothing: the exception leaves the callback of a timer or service
\* and ends the process, or a caller catches it (write_output_byte of the M880, the
\* inclinometer, OnSync) and returns, with running still set.
TypedThrows(c) ==
  /\ SubmitThrows
  /\ call[c].object = "supported"
  /\ Typed(c)
  /\ MakePromise(c, "broken")
  /\ LeaveShut
  /\ pc' = ToFuture(c)
  /\ alive' \in BOOLEAN
  /\ UNCHANGED <<sdo_mtex, requests>>

\* The rest of the call, from `running = true' to `return get_future()'.
PassGate(c) ==
  /\ \/ Refuse(c)
     \/ Submit(c)
     \/ Strand(c)
     \/ ReadThrows(c)
     \/ WriteThrows(c)
     \/ TypedThrows(c)
  /\ UNCHANGED <<call, calls, reply, loop>>

Enter(c) ==
  /\ alive
  /\ pc[c] = "enter"
  /\ ~running
  /\ PassGate(c)

EnterWait(c) ==
  /\ alive
  /\ pc[c] = "enter"
  /\ running
  /\ pc' = [pc EXCEPT ![c] = "waiting"]
  /\ UNCHANGED <<running, deserted, call, calls, promise, reply, sdo_read_promise,
                 sdo_write_promise, sdo_mtex, requests, loop, alive>>

\* wait() may return without a notification.
SpuriousWakeup(c) ==
  /\ SpuriousWakeups
  /\ alive
  /\ pc[c] = "waiting"
  /\ pc' = [pc EXCEPT ![c] = "woken"]
  /\ UNCHANGED <<running, deserted, call, calls, promise, reply, sdo_read_promise,
                 sdo_write_promise, sdo_mtex, requests, loop, alive>>

\* A woken caller has sdo_mutex again.
Resume(c) ==
  /\ alive
  /\ pc[c] = "woken"
  /\ PassGate(c)

-----------------------------------------------------------------------------
(***************************************************************************)
(* The end of a call.                                                      *)
(***************************************************************************)

Return(c) ==
  /\ pc' = [pc EXCEPT ![c] = "idle"]
  /\ call' = [call EXCEPT ![c] = NoCall]
  /\ sdo_mtex' = IF sdo_mtex = c THEN Nobody ELSE sdo_mtex
  /\ UNCHANGED <<running, deserted, calls, promise, reply, sdo_read_promise,
                 sdo_write_promise, requests, loop, alive>>

\* The future is ready.
GetResult(c) ==
  /\ alive
  /\ pc[c] = "future"
  /\ promise[call[c].id] # "pending"
  /\ Return(c)

\* wait_for(timeout) of a typed call; lely still has the request.
GiveUp(c) ==
  /\ alive
  /\ pc[c] = "future"
  /\ Typed(c)
  /\ promise[call[c].id] = "pending"
  /\ Return(c)

-----------------------------------------------------------------------------
(***************************************************************************)
(* The completion callback, on the thread of the CANopen loop: it sets the *)
(* promise first, then takes sdo_mutex to clear running and notify.        *)
(***************************************************************************)

\* Mutant of Target: the typed callback uses the member as well.
TargetMember(r) == IF r.api = "write" THEN sdo_write_promise ELSE sdo_read_promise

\* The promise the callback of request r satisfies.
Target(r) ==
  CASE r.api = "read"  -> sdo_read_promise
    [] r.api = "write" -> sdo_write_promise
    [] OTHER           -> r.id

\* lely answers its oldest request, with data, an abort code or its own timeout.
Reply ==
  /\ alive
  /\ loop = "free"
  /\ requests # << >>
  /\ LET r == Head(requests)
         p == Target(r)
     IN  IF p # 0 /\ promise[p] = "pending"
         THEN /\ promise' = [promise EXCEPT ![p] = "value"]
              /\ reply' = [reply EXCEPT ![p] = r.id]
              /\ loop' = "replied"
              /\ UNCHANGED alive
         ELSE /\ alive' = FALSE   \* promise_already_satisfied in a lely task
              /\ UNCHANGED <<promise, reply, loop>>
  /\ requests' = Tail(requests)
  /\ UNCHANGED <<running, deserted, pc, call, calls, sdo_read_promise, sdo_write_promise, sdo_mtex>>

\* Mutant of OpenGate: nobody is notified.
OpenGateSilently ==
  /\ alive
  /\ loop = "replied"
  /\ loop' = "free"
  /\ running' = FALSE
  /\ deserted' = FALSE
  /\ UNCHANGED <<pc, call, calls, promise, reply, sdo_read_promise, sdo_write_promise,
                 sdo_mtex, requests, alive>>

OpenGate ==
  /\ alive
  /\ loop = "replied"
  /\ loop' = "free"
  /\ running' = FALSE
  /\ deserted' = FALSE
  /\ pc' \in NotifyOne(pc)
  /\ UNCHANGED <<call, calls, promise, reply, sdo_read_promise, sdo_write_promise,
                 sdo_mtex, requests, alive>>

-----------------------------------------------------------------------------
ProxyStep(c) == ProxyCall(c) \/ LockProxy(c)

GateStep(c) == Enter(c) \/ EnterWait(c) \/ SpuriousWakeup(c) \/ Resume(c)
               \/ GetResult(c) \/ GiveUp(c)

Next ==
  \/ \E c \in ProxyCallers : ProxyStep(c)
  \/ \E c \in TypedCallers : TypedCall(c)
  \/ \E c \in Callers : GateStep(c)
  \/ Reply
  \/ OpenGate

Spec == Init /\ [][Next]_vars

\* A thread that can run runs, and lely ends every request, if only by its timeout.
\* Nothing is assumed of spurious wakeups, and no new call has to be made.
Fairness ==
  /\ \A c \in ProxyCallers : WF_vars(LockProxy(c))
  /\ \A c \in Callers : WF_vars(Enter(c) \/ EnterWait(c))
                        /\ WF_vars(Resume(c)) /\ WF_vars(GetResult(c))
  /\ WF_vars(Reply)
  /\ WF_vars(OpenGate)

FairSpec == Spec /\ Fairness

-----------------------------------------------------------------------------
(***************************************************************************)
(* Properties.                                                             *)
(***************************************************************************)

Untyped(i) == requests[i].api # "typed"

\* "Only allow one SDO request concurrently" (comment in sdo_read and sdo_write of the
\* proxy driver): lely never holds two requests.  sdo_mtex grants it while services
\* are the only callers; the gate alone does not, because a caller that wakes up does
\* not look at running again.
OneRequestAtATime == Len(requests) <= 1

\* What sdo_mtex does grant, also next to typed calls: lely never holds the requests
\* of two services.
ServicesOneAtATime ==
  \A i, j \in DOMAIN requests : ~(Untyped(i) /\ Untyped(j) /\ i # j)

\* A caller never reads the reply to another request from its future, although
\* the untyped calls share one promise member and calls that gave up leave their
\* request behind: a promise holds the reply to the request it was made for.
OwnReply == \A p \in CallIds : promise[p] = "value" => reply[p] = p

\* No caller is left in sdo_cond.wait() with nobody to wake it: while one waits, lely has
\* a request, or its completion is about to notify, or another caller is on its way out
\* of the wait.  The exception is a gate that a call has deserted: one for an object of an
\* unknown type, or a typed call whose exception was caught, set running and left no
\* request, and whoever comes after it waits until some completion clears the flag.
NoLostWakeup ==
  alive /\ (\E c \in Callers : pc[c] = "waiting") =>
    \/ requests # << >>
    \/ loop = "replied"
    \/ \E c \in Callers : pc[c] = "woken"
    \/ deserted

\* A completion callback always finds an unsatisfied promise: none is satisfied twice,
\* which would throw promise_already_satisfied on the CANopen thread.
CompletionsDeliver == [][Reply => alive']_vars

\* A call for an object of a type the switch does not know never gets its answer.
Stranded == \E c \in ProxyCallers : pc[c] = "future" /\ call[c].object = "unsupported"

\* "Returns an std::future<bool> that is fulfilled when the write request was done"
\* (doc comment of async_sdo_write): every call that enters the gate comes back, unless
\* the process ends, a call is stranded, or the gate stays deserted for ever: running
\* was left set without a request by a stranded call or by a typed call whose exception
\* was caught, and nothing clears it any more.
CallsReturn ==
  \A c \in Callers :
    (pc[c] # "idle") ~> (pc[c] = "idle" \/ ~alive \/ Stranded \/ []deserted)

=============================================================================
