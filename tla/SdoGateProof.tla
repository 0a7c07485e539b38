---------------------------- MODULE SdoGateProof ----------------------------
(***************************************************************************)
(* Theorems about SdoGate, for every set of callers and every number of    *)
(* calls.                                                                  *)
(***************************************************************************)
EXTENDS SdoGate, TLAPS

-----------------------------------------------------------------------------
(***************************************************************************)
(* The inductive invariant.                                                *)
(***************************************************************************)

Busy(c) == pc[c] # "idle"
BeforeGate == {"lock", "enter", "waiting", "woken"}

\* Calls in progress have distinct numbers, and the api their caller uses.
Numbered ==
  /\ \A c \in Callers : Busy(c) => call[c].id \in 1 .. calls
  /\ \A c, d \in Callers : Busy(c) /\ Busy(d) /\ call[c].id = call[d].id => c = d
  /\ \A c \in Callers : Busy(c) => (c \in ProxyCallers <=> call[c].api # "typed")

\* Only the holder of sdo_mtex is past LockProxy.
Holder == \A c \in ProxyCallers : pc[c] \notin {"idle", "lock"} => sdo_mtex = c

\* A call has no promise before it is through the gate.
Unmade ==
  /\ \A p \in CallIds : p > calls => promise[p] = "unmade"
  /\ \A c \in Callers : pc[c] \in BeforeGate => promise[call[c].id] = "unmade"
  /\ sdo_read_promise # 0 => promise[sdo_read_promise] # "unmade"
  /\ sdo_write_promise # 0 => promise[sdo_write_promise] # "unmade"

\* The promise of every request lely holds is unsatisfied, and the callback will find
\* it: an untyped request is that of a service still waiting for its future, and the
\* member still holds its promise.
Queued ==
  /\ \A i \in 1 .. Len(requests) : promise[requests[i].id] = "pending"
  /\ \A i \in 1 .. Len(requests) : Target(requests[i]) = requests[i].id
  /\ \A i \in 1 .. Len(requests) : requests[i].api = "typed" =>
       requests[i].id \notin {sdo_read_promise, sdo_write_promise}
  /\ \A i \in 1 .. Len(requests) : requests[i].api # "typed" =>
       \E c \in ProxyCallers : pc[c] = "future" /\ call[c].id = requests[i].id
  /\ \A i, j \in 1 .. Len(requests) : requests[i].id = requests[j].id => i = j

\* Only typed callers make typed requests.
Origin == \A i \in 1 .. Len(requests) : requests[i].api = "typed" => TypedCallers # {}

IInv == TypeOK /\ Numbered /\ Holder /\ Unmade /\ Queued /\ Origin /\ OwnReply

-----------------------------------------------------------------------------
(***************************************************************************)
(* Type correctness.                                                       *)
(***************************************************************************)

\* sdo_cond.notify_one() moves at most one caller, from the wait to its way out.
LEMMA NotifyOneMoves ==
  ASSUME NEW f \in [Callers -> Locations], NEW g \in NotifyOne(f)
  PROVE  /\ g \in [Callers -> Locations]
         /\ \A c \in Callers : g[c] = f[c] \/ (f[c] = "waiting" /\ g[c] = "woken")
BY DEF NotifyOne, Locations

\* The initial state satisfies the type invariant.
LEMMA InitTypeOK == Init => TypeOK
<1> SUFFICES ASSUME Init PROVE TypeOK
  OBVIOUS
<1>1. NoCall \in Call
  BY MaxCallsAssumption DEF NoCall, Call, Apis
<1>2. requests \in Seq([id : CallIds, api : Apis])
  BY DEF Init
<1>3. pc \in [Callers -> Locations] /\ call \in [Callers -> Call]
  BY <1>1 DEF Init, Locations
<1>4. /\ promise \in [CallIds -> {"unmade", "pending", "value", "refused", "broken"}]
      /\ reply \in [CallIds -> 0 .. MaxCalls]
  BY MaxCallsAssumption DEF Init
<1>5. 0 \in 0 .. MaxCalls
  BY MaxCallsAssumption
<1> QED BY <1>2, <1>3, <1>4, <1>5 DEF Init, TypeOK

\* A caller that passes the gate leaves the state well typed.
LEMMA PassGateTypeOK ==
  ASSUME TypeOK, NEW c \in Callers, Busy(c), call[c].id \in 1 .. calls, PassGate(c)
  PROVE  TypeOK'
<1>1. call[c].id \in CallIds /\ call[c].api \in Apis
  BY MaxCallsAssumption DEF TypeOK, Call, CallIds
<1>2. ToFuture(c) \in [Callers -> Locations]
  BY DEF TypeOK, ToFuture, Locations
<1>3. pc' = ToFuture(c) \/ pc' \in NotifyOne(ToFuture(c))
  BY DEF PassGate, Refuse, Submit, Strand, ReadThrows, WriteThrows, TypedThrows
<1>4. pc' \in [Callers -> Locations]
  BY <1>2, <1>3, NotifyOneMoves
<1>5. ASSUME NEW s \in {"pending", "refused", "broken"}, MakePromise(c, s)
      PROVE  /\ promise' \in [CallIds -> {"unmade", "pending", "value", "refused", "broken"}]
             /\ sdo_read_promise' \in 0 .. MaxCalls
             /\ sdo_write_promise' \in 0 .. MaxCalls
  BY <1>1, <1>5 DEF MakePromise, TypeOK, CallIds
<1>6. CASE Refuse(c)
  BY <1>4, <1>5, <1>6 DEF Refuse, PassGate, TypeOK
<1>7. CASE Submit(c)
  <2>1. [id |-> call[c].id, api |-> call[c].api] \in [id : CallIds, api : Apis]
    BY <1>1
  <2>2. requests' \in Seq([id : CallIds, api : Apis])
    BY <1>7, <2>1 DEF Submit, TypeOK
  <2> QED BY <1>4, <1>5, <1>7, <2>2 DEF Submit, PassGate, TypeOK
<1>8. CASE Strand(c)
  BY <1>4, <1>5, <1>8 DEF Strand, LeaveShut, PassGate, TypeOK
<1>9. CASE ReadThrows(c)
  BY <1>4, <1>5, <1>9 DEF ReadThrows, PassGate, TypeOK
<1>10. CASE WriteThrows(c)
  <2>1. promise' \in [CallIds -> {"unmade", "pending", "value", "refused", "broken"}]
    BY <1>1, <1>10 DEF WriteThrows, TypeOK
  <2>2. sdo_write_promise' \in 0 .. MaxCalls
    BY <1>1, <1>10 DEF WriteThrows, CallIds
  <2>a. running' \in BOOLEAN /\ deserted' \in BOOLEAN /\ alive' \in BOOLEAN
    BY <1>10 DEF WriteThrows, TypeOK
  <2>3. UNCHANGED <<sdo_read_promise, sdo_mtex, requests, call, calls, reply, loop>>
    BY <1>10 DEF WriteThrows, PassGate
  <2> QED BY <1>4, <2>1, <2>2, <2>a, <2>3 DEF TypeOK
<1>11. CASE TypedThrows(c)
  BY <1>4, <1>5, <1>11 DEF TypedThrows, LeaveShut, PassGate, TypeOK
<1> QED BY <1>6, <1>7, <1>8, <1>9, <1>10, <1>11 DEF PassGate

-----------------------------------------------------------------------------
(***************************************************************************)
(* The inductive step, action by action.                                   *)
(***************************************************************************)

\* What a call does to promises, members and locations when it passes the gate.
LEMMA PassGateEffect ==
  ASSUME IInv, NEW c \in Callers, pc[c] \in {"enter", "woken"}, PassGate(c)
  PROVE  /\ pc'[c] = "future"
         /\ \A d \in Callers : d # c => pc'[d] = pc[d] \/ (pc[d] = "waiting" /\ pc'[d] = "woken")
         /\ promise'[call[c].id] \in {"pending", "refused", "broken"}
         /\ \A p \in CallIds : p # call[c].id =>
              \/ promise'[p] = promise[p]
              \/ /\ ~Typed(c)
                 /\ p \in {sdo_read_promise, sdo_write_promise}
                 /\ promise[p] = "pending"
                 /\ promise'[p] \in {"refused", "broken"}
         /\ sdo_read_promise' = IF call[c].api = "read" THEN call[c].id ELSE sdo_read_promise
         /\ sdo_write_promise' = IF call[c].api = "write" THEN call[c].id ELSE sdo_write_promise
         /\ \/ requests' = requests
            \/ /\ requests' = Append(requests, [id |-> call[c].id, api |-> call[c].api])
               /\ promise'[call[c].id] = "pending"
<1> DEFINE id == call[c].id
<1>1. id \in CallIds /\ promise[id] = "unmade" /\ call[c].api \in Apis /\ TypeOK
  BY DEF IInv, Numbered, Unmade, BeforeGate, Busy, TypeOK, CallIds, Call
<1>2. ToFuture(c) \in [Callers -> Locations] /\ ToFuture(c)[c] = "future"
      /\ \A d \in Callers : d # c => ToFuture(c)[d] = pc[d]
  BY <1>1 DEF TypeOK, ToFuture, Locations
<1>3. pc' = ToFuture(c) \/ pc' \in NotifyOne(ToFuture(c))
  BY DEF PassGate, Refuse, Submit, Strand, ReadThrows, WriteThrows, TypedThrows
<1>4. /\ pc'[c] = "future"
      /\ \A d \in Callers : d # c => pc'[d] = pc[d] \/ (pc[d] = "waiting" /\ pc'[d] = "woken")
  <2>1. CASE pc' = ToFuture(c)
    BY <1>2, <2>1
  <2>2. CASE pc' \in NotifyOne(ToFuture(c))
    <3>1. \A d \in Callers : pc'[d] = ToFuture(c)[d]
                             \/ (ToFuture(c)[d] = "waiting" /\ pc'[d] = "woken")
      BY <1>2, <2>2, NotifyOneMoves
    <3> QED BY <1>2, <3>1
  <2> QED BY <1>3, <2>1, <2>2
<1> DEFINE Promises ==
      /\ promise'[id] \in {"pending", "refused", "broken"}
      /\ \A p \in CallIds : p # id =>
           \/ promise'[p] = promise[p]
           \/ /\ ~Typed(c)
              /\ p \in {sdo_read_promise, sdo_write_promise}
              /\ promise[p] = "pending"
              /\ promise'[p] \in {"refused", "broken"}
      /\ sdo_read_promise' = IF call[c].api = "read" THEN id ELSE sdo_read_promise
      /\ sdo_write_promise' = IF call[c].api = "write" THEN id ELSE sdo_write_promise
<1>5. ASSUME NEW s \in {"pending", "refused", "broken"}, MakePromise(c, s)
      PROVE  Promises /\ promise'[id] = s
  <2>1. Replaced(c) \in CallIds =>
          Replaced(c) \in {sdo_read_promise, sdo_write_promise} /\ ~Typed(c)
    BY <1>1 DEF Replaced, Typed, Apis, CallIds
  <2> QED BY <1>1, <1>5, <2>1 DEF MakePromise
<1>6. Promises
  <2>1. CASE WriteThrows(c)
    <3>1. ~Typed(c) /\ call[c].api = "write"
      BY <2>1 DEF WriteThrows, Typed
    <3>2. CASE sdo_read_promise # 0 /\ promise[sdo_read_promise] = "pending"
      <4>1. sdo_read_promise \in CallIds
        BY <1>1, <3>2 DEF TypeOK, CallIds
      <4> QED BY <1>1, <2>1, <3>1, <3>2, <4>1 DEF WriteThrows, TypeOK
    <3>3. CASE ~(sdo_read_promise # 0 /\ promise[sdo_read_promise] = "pending")
      BY <1>1, <2>1, <3>1, <3>3 DEF WriteThrows, TypeOK
    <3> QED BY <3>2, <3>3
  <2> QED BY <1>5, <2>1 DEF PassGate, Refuse, Submit, Strand, ReadThrows, TypedThrows
<1>7. \/ requests' = requests
      \/ /\ requests' = Append(requests, [id |-> id, api |-> call[c].api])
         /\ promise'[id] = "pending"
  BY <1>5 DEF PassGate, Refuse, Submit, Strand, ReadThrows, WriteThrows, TypedThrows
<1> QED BY <1>4, <1>6, <1>7

\* Passing the gate preserves the invariant.
LEMMA PassGateIInv ==
  ASSUME IInv, NEW c \in Callers, pc[c] \in {"enter", "woken"}, PassGate(c)
  PROVE  IInv'
<1> DEFINE id == call[c].id
           N == Len(requests)
<1>1. id \in CallIds /\ id \in 1 .. calls /\ promise[id] = "unmade" /\ call[c].api \in Apis /\ TypeOK
  BY DEF IInv, Numbered, Unmade, BeforeGate, Busy, TypeOK, CallIds, Call
<1>2. /\ pc'[c] = "future"
      /\ \A d \in Callers : d # c => pc'[d] = pc[d] \/ (pc[d] = "waiting" /\ pc'[d] = "woken")
      /\ promise'[id] \in {"pending", "refused", "broken"}
      /\ \A p \in CallIds : p # id =>
           \/ promise'[p] = promise[p]
           \/ /\ ~Typed(c)
              /\ p \in {sdo_read_promise, sdo_write_promise}
              /\ promise[p] = "pending"
              /\ promise'[p] \in {"refused", "broken"}
      /\ sdo_read_promise' = IF call[c].api = "read" THEN id ELSE sdo_read_promise
      /\ sdo_write_promise' = IF call[c].api = "write" THEN id ELSE sdo_write_promise
      /\ \/ requests' = requests
         \/ /\ requests' = Append(requests, [id |-> id, api |-> call[c].api])
            /\ promise'[id] = "pending"
  BY PassGateEffect
<1>3. UNCHANGED <<call, calls, reply, loop, sdo_mtex>>
  BY DEF PassGate, Refuse, Submit, Strand, ReadThrows, WriteThrows, TypedThrows
<1> DEFINE Request == [id : CallIds, api : Apis]
<1>4. /\ requests \in Seq(Request)
      /\ N \in Nat
      /\ \A i \in 1 .. N : requests[i] \in Request
      /\ \A e \in Request : /\ Len(Append(requests, e)) = N + 1
                            /\ Append(requests, e)[N + 1] = e
                            /\ \A i \in 1 .. N : Append(requests, e)[i] = requests[i]
  <2>1. requests \in Seq(Request)
    BY <1>1 DEF TypeOK
  <2> HIDE DEF Request
  <2> QED BY <2>1
<1>5. ~Typed(c) => c \in ProxyCallers
  BY DEF IInv, Numbered, Busy, Typed
\* While a service is in the gate, lely holds no request of another service.
<1>6. ~Typed(c) => \A i \in 1 .. N : requests[i].api = "typed"
  <2> SUFFICES ASSUME ~Typed(c), NEW i \in 1 .. N, requests[i].api # "typed"
               PROVE  FALSE
    OBVIOUS
  <2>1. PICK d \in ProxyCallers : pc[d] = "future"
    BY DEF IInv, Queued
  <2>2. sdo_mtex = c /\ sdo_mtex = d
    BY <1>5, <2>1 DEF IInv, Holder
  <2> QED BY <2>1, <2>2
<1>7. \A i \in 1 .. N : requests[i].id # id /\ promise'[requests[i].id] = "pending"
  <2> TAKE i \in 1 .. N
  <2>1. promise[requests[i].id] = "pending" /\ requests[i].id \in CallIds
    BY <1>4 DEF IInv, Queued
  <2>2. requests[i].id # id
    BY <1>1, <2>1
  <2>3. ~Typed(c) => requests[i].id \notin {sdo_read_promise, sdo_write_promise}
    BY <1>6 DEF IInv, Queued
  <2> QED BY <1>2, <2>1, <2>2, <2>3
<1>8. TypeOK'
  BY <1>1, PassGateTypeOK DEF Busy
<1>9. Numbered'
  <2>1. \A d \in Callers : Busy(d)' => Busy(d)
    BY <1>2 DEF Busy
  <2> QED BY <1>3, <2>1 DEF IInv, Numbered
<1>10. Holder'
  <2> SUFFICES ASSUME NEW d \in ProxyCallers, pc'[d] \notin {"idle", "lock"}
               PROVE  sdo_mtex' = d
    BY DEF Holder
  <2>1. d \in Callers /\ pc[d] \notin {"idle", "lock"}
    BY <1>2 DEF Callers
  <2> QED BY <1>3, <2>1 DEF IInv, Holder
<1>11. Unmade'
  <2>1. \A p \in CallIds : p > calls => promise'[p] = "unmade"
    <3> SUFFICES ASSUME NEW p \in CallIds, p > calls PROVE promise'[p] = "unmade"
      OBVIOUS
    <3>1. p # id /\ promise[p] = "unmade"
      BY <1>1 DEF IInv, Unmade, CallIds, TypeOK
    <3> QED BY <1>2, <3>1
  <2>2. \A d \in Callers : pc'[d] \in BeforeGate => promise'[call[d].id] = "unmade"
    <3> SUFFICES ASSUME NEW d \in Callers, pc'[d] \in BeforeGate
                 PROVE  promise'[call[d].id] = "unmade"
      OBVIOUS
    <3>1. d # c /\ pc[d] \in BeforeGate
      BY <1>2 DEF BeforeGate
    <3>2. Busy(c) /\ Busy(d)
      BY <3>1 DEF Busy, BeforeGate
    <3>3. call[d].id # id /\ call[d].id \in 1 .. calls
      BY <3>1, <3>2 DEF IInv, Numbered
    <3>4. promise[call[d].id] = "unmade"
      BY <3>1 DEF IInv, Unmade
    <3>5. call[d].id \in CallIds
      BY <1>1, <3>3, MaxCallsAssumption DEF CallIds, TypeOK
    <3> QED BY <1>2, <3>3, <3>4, <3>5
  <2>3. ASSUME NEW m \in CallIds, promise[m] # "unmade"
        PROVE  promise'[m] # "unmade"
    BY <1>1, <1>2, <2>3
  <2>4. /\ sdo_read_promise # 0 => sdo_read_promise \in CallIds /\ promise[sdo_read_promise] # "unmade"
        /\ sdo_write_promise # 0 => sdo_write_promise \in CallIds /\ promise[sdo_write_promise] # "unmade"
    BY <1>1 DEF IInv, Unmade, TypeOK, CallIds
  <2> QED BY <1>2, <1>3, <2>1, <2>2, <2>3, <2>4 DEF Unmade
<1>12. Queued'
  <2> DEFINE old(i) == i \in 1 .. N /\ requests'[i] = requests[i]
             new(i) == /\ i = N + 1
                       /\ requests'[i] = [id |-> id, api |-> call[c].api]
                       /\ promise'[id] = "pending"
  <2>1. \A i \in 1 .. Len(requests') : old(i) \/ new(i)
    <3>1. CASE requests' = requests
      BY <1>4, <3>1
    <3>2. CASE /\ requests' = Append(requests, [id |-> id, api |-> call[c].api])
               /\ promise'[id] = "pending"
      <4>1. [id |-> id, api |-> call[c].api] \in Request
        BY <1>1
      <4> HIDE DEF Request
      <4> QED BY <1>4, <3>2, <4>1
    <3> QED BY <1>2, <3>1, <3>2
  <2>2. \A i \in 1 .. Len(requests') : promise'[requests'[i].id] = "pending"
    BY <1>7, <2>1
  <2>3. \A i \in 1 .. Len(requests') : Target(requests[i])' = requests'[i].id
    <3> TAKE i \in 1 .. Len(requests')
    <3>1. CASE old(i)
      <4>1. Target(requests[i]) = requests[i].id /\ requests[i].api \in Apis
        BY <1>4, <3>1 DEF IInv, Queued
      <4>2. CASE Typed(c)
        BY <1>2, <3>1, <4>1, <4>2 DEF Target, Typed
      <4>3. CASE ~Typed(c)
        BY <1>6, <3>1, <4>1, <4>3 DEF Target
      <4> QED BY <4>2, <4>3
    <3>2. CASE new(i)
      BY <1>1, <1>2, <3>2 DEF Target, Apis
    <3> QED BY <2>1, <3>1, <3>2
  <2>4. \A i \in 1 .. Len(requests') : requests'[i].api = "typed" =>
          requests'[i].id \notin {sdo_read_promise', sdo_write_promise'}
    <3> SUFFICES ASSUME NEW i \in 1 .. Len(requests'), requests'[i].api = "typed"
                 PROVE  requests'[i].id \notin {sdo_read_promise', sdo_write_promise'}
      OBVIOUS
    <3>1. CASE old(i)
      BY <1>2, <1>7, <3>1 DEF IInv, Queued
    <3>2. CASE new(i)
      <4>1. id # sdo_read_promise /\ id # sdo_write_promise
        BY <1>1 DEF IInv, Unmade, CallIds
      <4> QED BY <1>2, <3>2, <4>1
    <3> QED BY <2>1, <3>1, <3>2
  <2>5. \A i \in 1 .. Len(requests') : requests'[i].api # "typed" =>
          \E d \in ProxyCallers : pc'[d] = "future" /\ call[d].id = requests'[i].id
    <3> SUFFICES ASSUME NEW i \in 1 .. Len(requests'), requests'[i].api # "typed"
                 PROVE  \E d \in ProxyCallers : pc'[d] = "future" /\ call[d].id = requests'[i].id
      OBVIOUS
    <3>1. CASE old(i)
      <4>1. PICK d \in ProxyCallers : pc[d] = "future" /\ call[d].id = requests[i].id
        BY <3>1 DEF IInv, Queued
      <4>2. pc'[d] = "future"
        BY <1>2, <4>1 DEF Callers
      <4> QED BY <3>1, <4>1, <4>2
    <3>2. CASE new(i)
      BY <1>2, <1>5, <3>2 DEF Typed
    <3> QED BY <2>1, <3>1, <3>2
  <2>6. \A i, j \in 1 .. Len(requests') : requests'[i].id = requests'[j].id => i = j
    <3> SUFFICES ASSUME NEW i \in 1 .. Len(requests'), NEW j \in 1 .. Len(requests'),
                        requests'[i].id = requests'[j].id
                 PROVE  i = j
      OBVIOUS
    <3>1. CASE old(i) /\ old(j)
      BY <3>1 DEF IInv, Queued
    <3>2. CASE ~(old(i) /\ old(j))
      BY <1>7, <2>1, <3>2
    <3> QED BY <3>1, <3>2
  <2> QED BY <1>3, <2>2, <2>3, <2>4, <2>5, <2>6 DEF Queued
<1>14. Origin'
  <2>1. Typed(c) => c \in TypedCallers
    BY DEF IInv, Numbered, Busy, Typed, Callers
  <2>2. \A i \in 1 .. Len(requests') :
          \/ i \in 1 .. N /\ requests'[i] = requests[i]
          \/ requests'[i] = [id |-> id, api |-> call[c].api]
    <3>1. CASE requests' = requests
      BY <1>4, <3>1
    <3>2. CASE requests' = Append(requests, [id |-> id, api |-> call[c].api])
      <4>1. [id |-> id, api |-> call[c].api] \in Request
        BY <1>1
      <4> HIDE DEF Request
      <4> QED BY <1>4, <3>2, <4>1
    <3> QED BY <1>2, <3>1, <3>2
  <2> QED BY <2>1, <2>2 DEF IInv, Origin, Typed
<1>13. OwnReply'
  <2> SUFFICES ASSUME NEW p \in CallIds, promise'[p] = "value" PROVE reply[p] = p
    BY <1>3 DEF OwnReply
  <2>1. promise[p] = "value"
    BY <1>2
  <2> QED BY <2>1 DEF IInv, OwnReply
<1> QED BY <1>8, <1>9, <1>10, <1>11, <1>12, <1>13, <1>14 DEF IInv

\* A new call preserves the invariant: its number is fresh.
LEMMA NewCallIInv ==
  ASSUME IInv, NEW c \in Callers,
         NEW api \in Apis, NEW object \in ProxyObjects \cup TypedObjects,
         NewCall(c, api, object),
         c \in ProxyCallers <=> api # "typed",
         pc' = [pc EXCEPT ![c] = IF api = "typed" THEN "enter" ELSE "lock"],
         UNCHANGED <<running, deserted, promise, reply, sdo_read_promise, sdo_write_promise,
                     sdo_mtex, requests, loop, alive>>
  PROVE  IInv'
<1>1. TypeOK /\ calls + 1 \in CallIds /\ calls \in Nat
  BY MaxCallsAssumption DEF IInv, TypeOK, NewCall, CallIds
<1>2. call'[c].id = calls + 1 /\ call'[c].api = api /\ \A d \in Callers : d # c => call'[d] = call[d]
  BY <1>1 DEF NewCall, TypeOK
<1>3. /\ pc'[c] = (IF api = "typed" THEN "enter" ELSE "lock")
      /\ \A d \in Callers : d # c => pc'[d] = pc[d]
  BY <1>1 DEF TypeOK
<1>4. TypeOK'
  <2>1. [id |-> calls + 1, api |-> api, object |-> object] \in Call
    BY <1>1 DEF Call, CallIds
  <2>2. call' \in [Callers -> Call]
    BY <1>1, <2>1 DEF NewCall, TypeOK
  <2>3. pc' \in [Callers -> Locations]
    BY <1>1 DEF TypeOK, Locations
  <2>4. calls' \in 0 .. MaxCalls
    BY <1>1 DEF NewCall, CallIds
  <2> QED BY <1>1, <2>2, <2>3, <2>4 DEF TypeOK
<1>5. promise[calls + 1] = "unmade"
  BY <1>1 DEF IInv, Unmade, CallIds
<1>6. Numbered'
  <2>1. \A d \in Callers : Busy(d)' /\ d # c => Busy(d) /\ call'[d] = call[d]
    BY <1>2, <1>3 DEF Busy
  <2>2. calls' = calls + 1
    BY DEF NewCall
  <2>3. \A d \in Callers : Busy(d)' => call'[d].id \in 1 .. calls'
    BY <1>1, <1>2, <2>1, <2>2 DEF IInv, Numbered
  <2>4. \A d \in Callers : Busy(d)' /\ d # c => call'[d].id # call'[c].id
    BY <1>1, <1>2, <2>1 DEF IInv, Numbered
  <2>5. \A d, e \in Callers : Busy(d)' /\ Busy(e)' /\ call'[d].id = call'[e].id => d = e
    BY <2>1, <2>4 DEF IInv, Numbered
  <2>6. \A d \in Callers : Busy(d)' => (d \in ProxyCallers <=> call'[d].api # "typed")
    BY <1>2, <2>1 DEF IInv, Numbered
  <2> QED BY <2>3, <2>5, <2>6 DEF Numbered
<1>7. Holder'
  <2> SUFFICES ASSUME NEW d \in ProxyCallers, pc'[d] \notin {"idle", "lock"}
               PROVE  sdo_mtex = d
    BY DEF Holder
  <2>1. d \in Callers /\ d # c
    BY <1>3 DEF Callers
  <2> QED BY <1>3, <2>1 DEF IInv, Holder
<1>8. Unmade'
  <2>1. \A p \in CallIds : p > calls' => promise[p] = "unmade"
    BY <1>1 DEF IInv, Unmade, NewCall, CallIds
  <2>2. \A d \in Callers : pc'[d] \in BeforeGate => promise[call'[d].id] = "unmade"
    BY <1>2, <1>3, <1>5 DEF IInv, Unmade
  <2>3. /\ sdo_read_promise # 0 => promise[sdo_read_promise] # "unmade"
        /\ sdo_write_promise # 0 => promise[sdo_write_promise] # "unmade"
    BY DEF IInv, Unmade
  <2> QED BY <2>1, <2>2, <2>3 DEF Unmade
<1>9. Queued'
  <2>1. \A d \in ProxyCallers : pc[d] = "future" => pc'[d] = "future" /\ call'[d] = call[d]
    BY <1>2, <1>3 DEF Callers, NewCall
  <2>2. \A i \in 1 .. Len(requests) : requests[i].api # "typed" =>
          \E d \in ProxyCallers : pc'[d] = "future" /\ call'[d].id = requests[i].id
    BY <2>1 DEF IInv, Queued
  <2>3. \A i \in 1 .. Len(requests) : Target(requests[i])' = requests[i].id
    BY DEF IInv, Queued, Target
  <2> QED BY <2>2, <2>3 DEF IInv, Queued
<1>10. OwnReply' /\ Origin'
  BY DEF IInv, OwnReply, Origin
<1> QED BY <1>4, <1>6, <1>7, <1>8, <1>9, <1>10 DEF IInv

\* Steps of callers outside the gate, and the callback's release of the gate: they touch
\* locations only, and move nobody past LockProxy without sdo_mtex or out of a future.
LEMMA MoveIInv ==
  ASSUME IInv, TypeOK',
         \A c \in Callers : pc'[c] # "idle" => pc[c] # "idle" /\ call'[c] = call[c],
         \A c \in Callers : pc'[c] \in BeforeGate => pc[c] \in BeforeGate,
         \A c \in ProxyCallers :
           pc[c] = "future" /\ promise[call[c].id] = "pending" => pc'[c] = "future",
         Holder',
         UNCHANGED <<calls, promise, reply, sdo_read_promise, sdo_write_promise, requests>>
  PROVE  IInv'
<1>1. Numbered'
  BY DEF IInv, Numbered, Busy
<1>2. Unmade'
  <2>1. \A c \in Callers : pc'[c] \in BeforeGate => promise[call'[c].id] = "unmade"
    BY DEF IInv, Unmade, BeforeGate
  <2> QED BY <2>1 DEF IInv, Unmade
<1>3. Queued'
  <2>1. \A i \in 1 .. Len(requests) : requests[i].api # "typed" =>
          \E d \in ProxyCallers : pc'[d] = "future" /\ call'[d].id = requests[i].id
    <3> SUFFICES ASSUME NEW i \in 1 .. Len(requests), requests[i].api # "typed"
                 PROVE  \E d \in ProxyCallers : pc'[d] = "future" /\ call'[d].id = requests[i].id
      OBVIOUS
    <3>1. PICK d \in ProxyCallers : pc[d] = "future" /\ call[d].id = requests[i].id
      BY DEF IInv, Queued
    <3>2. pc'[d] = "future"
      BY <3>1 DEF IInv, Queued
    <3>3. call'[d] = call[d]
      BY <3>2 DEF Callers
    <3> QED BY <3>1, <3>2, <3>3
  <2>2. \A i \in 1 .. Len(requests) : Target(requests[i])' = requests[i].id
    BY DEF IInv, Queued, Target
  <2> QED BY <2>1, <2>2 DEF IInv, Queued
<1>4. OwnReply' /\ Origin'
  BY DEF IInv, OwnReply, Origin
<1> QED BY <1>1, <1>2, <1>3, <1>4 DEF IInv

\* The reply to the oldest request reaches the promise made for it.
LEMMA ReplyIInv ==
  ASSUME IInv, Reply
  PROVE  IInv' /\ alive'
<1> DEFINE Request == [id : CallIds, api : Apis]
           N == Len(requests)
           r == Head(requests)
<1>1. TypeOK /\ requests # << >>
  BY DEF IInv, Reply
<1>2. /\ N \in Nat \ {0}
      /\ r = requests[1]
      /\ requests' \in Seq(Request)
      /\ Len(requests') = N - 1
      /\ \A i \in 1 .. N : requests[i] \in Request
      /\ \A i \in 1 .. N - 1 : requests'[i] = requests[i + 1]
  <2>1. requests \in Seq(Request) /\ requests' = Tail(requests)
    BY <1>1 DEF TypeOK, Reply
  <2> HIDE DEF Request
  <2> QED BY <1>1, <2>1
<1>3. Target(r) = r.id /\ promise[r.id] = "pending" /\ r.id \in CallIds
  BY <1>2 DEF IInv, Queued
<1>4. /\ promise' = [promise EXCEPT ![r.id] = "value"]
      /\ reply' = [reply EXCEPT ![r.id] = r.id]
      /\ loop' = "replied"
      /\ alive' = alive
      /\ UNCHANGED <<running, deserted, pc, call, calls, sdo_read_promise, sdo_write_promise,
                     sdo_mtex>>
  <2>1. Target(r) # 0 /\ promise[Target(r)] = "pending"
    BY <1>3 DEF CallIds
  <2> QED BY <1>3, <2>1, Zenon DEF Reply
<1>5. TypeOK'
  BY <1>1, <1>2, <1>3, <1>4 DEF TypeOK, CallIds
<1>6. Numbered' /\ Holder'
  BY <1>4 DEF IInv, Numbered, Holder, Busy
<1>7. Unmade'
  <2>1. \A p \in CallIds : promise'[p] = "unmade" <=> promise[p] = "unmade"
    BY <1>1, <1>3, <1>4 DEF TypeOK
  <2>2. \A c \in Callers : pc[c] \in BeforeGate => call[c].id \in CallIds
    BY <1>1, MaxCallsAssumption DEF IInv, Numbered, Busy, BeforeGate, CallIds, TypeOK
  <2>3. sdo_read_promise \in CallIds \cup {0} /\ sdo_write_promise \in CallIds \cup {0}
    BY <1>1 DEF TypeOK, CallIds
  <2> QED BY <1>4, <2>1, <2>2, <2>3 DEF IInv, Unmade
<1>8. Queued'
  <2>1. \A i \in 1 .. N - 1 : i + 1 \in 1 .. N /\ requests[i + 1].id # r.id
    BY <1>2 DEF IInv, Queued
  <2>2. \A i \in 1 .. Len(requests') : promise'[requests'[i].id] = "pending"
    <3> SUFFICES ASSUME NEW i \in 1 .. N - 1 PROVE promise'[requests[i + 1].id] = "pending"
      BY <1>2
    <3>1. i + 1 \in 1 .. N /\ requests[i + 1].id # r.id /\ requests[i + 1].id \in CallIds
      BY <1>2, <2>1
    <3> QED BY <1>1, <1>4, <3>1 DEF IInv, Queued, TypeOK
  <2>3. \A i \in 1 .. Len(requests') : Target(requests[i])' = requests'[i].id
    <3> SUFFICES ASSUME NEW i \in 1 .. N - 1
                 PROVE  Target(requests[i])' = requests[i + 1].id
      BY <1>2
    <3>1. requests'[i] = requests[i + 1] /\ Target(requests[i + 1]) = requests[i + 1].id
      BY <1>2, <2>1 DEF IInv, Queued
    <3> QED BY <1>4, <3>1 DEF Target
  <2>4. \A i \in 1 .. Len(requests') : requests'[i].api = "typed" =>
          requests'[i].id \notin {sdo_read_promise', sdo_write_promise'}
    <3> SUFFICES ASSUME NEW i \in 1 .. N - 1, requests[i + 1].api = "typed"
                 PROVE  requests[i + 1].id \notin {sdo_read_promise, sdo_write_promise}
      BY <1>2, <1>4
    <3> QED BY <2>1 DEF IInv, Queued
  <2>5. \A i \in 1 .. Len(requests') : requests'[i].api # "typed" =>
          \E d \in ProxyCallers : pc'[d] = "future" /\ call'[d].id = requests'[i].id
    <3> SUFFICES ASSUME NEW i \in 1 .. N - 1, requests[i + 1].api # "typed"
                 PROVE  \E d \in ProxyCallers : pc[d] = "future" /\ call[d].id = requests[i + 1].id
      BY <1>2, <1>4
    <3> QED BY <2>1 DEF IInv, Queued
  <2>6. \A i, j \in 1 .. Len(requests') : requests'[i].id = requests'[j].id => i = j
    <3> SUFFICES ASSUME NEW i \in 1 .. N - 1, NEW j \in 1 .. N - 1,
                        requests[i + 1].id = requests[j + 1].id
                 PROVE  i = j
      BY <1>2
    <3>1. i + 1 = j + 1
      BY <2>1 DEF IInv, Queued
    <3> QED BY <1>2, <3>1
  <2> QED BY <2>2, <2>3, <2>4, <2>5, <2>6 DEF Queued
<1>9. OwnReply'
  BY <1>1, <1>3, <1>4 DEF IInv, OwnReply, TypeOK
<1>10. alive'
  BY <1>4 DEF Reply
<1>11. Origin'
  <2>1. \A i \in 1 .. Len(requests') : i + 1 \in 1 .. N /\ requests'[i] = requests[i + 1]
    BY <1>2
  <2> QED BY <2>1 DEF IInv, Origin
<1> QED BY <1>5, <1>6, <1>7, <1>8, <1>9, <1>10, <1>11 DEF IInv

\* Every step preserves the invariant.
LEMMA StepIInv == IInv /\ [Next]_vars => IInv'
<1> SUFFICES ASSUME IInv, [Next]_vars PROVE IInv'
  OBVIOUS
<1>1. TypeOK
  BY DEF IInv
<1>2. ASSUME NEW c \in ProxyCallers, ProxyCall(c) PROVE IInv'
  <2>1. PICK api \in {"read", "write"}, object \in ProxyObjects : NewCall(c, api, object)
    BY <1>2 DEF ProxyCall
  <2>2. /\ c \in Callers /\ api \in Apis /\ object \in ProxyObjects \cup TypedObjects
        /\ c \in ProxyCallers <=> api # "typed"
        /\ pc' = [pc EXCEPT ![c] = IF api = "typed" THEN "enter" ELSE "lock"]
    BY <1>2 DEF ProxyCall, Callers, Apis
  <2> QED BY <1>2, <2>1, <2>2, NewCallIInv DEF ProxyCall
<1>3. ASSUME NEW c \in TypedCallers, TypedCall(c) PROVE IInv'
  <2>1. PICK object \in TypedObjects : NewCall(c, "typed", object)
    BY <1>3 DEF TypedCall
  <2>2. /\ c \in Callers /\ "typed" \in Apis /\ object \in ProxyObjects \cup TypedObjects
        /\ c \notin ProxyCallers
        /\ pc' = [pc EXCEPT ![c] = IF "typed" = "typed" THEN "enter" ELSE "lock"]
    BY <1>3, CallersAssumption DEF TypedCall, Callers, Apis
  <2> QED BY <1>3, <2>1, <2>2, NewCallIInv DEF TypedCall
<1>4. ASSUME NEW c \in ProxyCallers, LockProxy(c) PROVE IInv'
  <2>1. c \in Callers /\ Nobody \notin ProxyCallers
    BY CallersAssumption DEF Callers
  <2>2. TypeOK'
    BY <1>1, <1>4, <2>1 DEF LockProxy, TypeOK, Locations
  <2>3. Holder'
    BY <1>1, <1>4, <2>1 DEF IInv, Holder, LockProxy, TypeOK, Callers
  <2> QED BY <1>1, <1>4, <2>1, <2>2, <2>3, MoveIInv DEF LockProxy, TypeOK, BeforeGate, Callers
<1>5. ASSUME NEW c \in Callers, Enter(c) PROVE IInv'
  BY <1>5, PassGateIInv DEF Enter
<1>6. ASSUME NEW c \in Callers, Resume(c) PROVE IInv'
  BY <1>6, PassGateIInv DEF Resume
<1>7. ASSUME NEW c \in Callers, EnterWait(c) \/ SpuriousWakeup(c) PROVE IInv'
  <2>1. /\ pc[c] \in {"enter", "waiting"}
        /\ pc' = [pc EXCEPT ![c] = "waiting"] \/ pc' = [pc EXCEPT ![c] = "woken"]
        /\ UNCHANGED <<running, deserted, call, calls, promise, reply, sdo_read_promise,
                       sdo_write_promise, sdo_mtex, requests, loop, alive>>
    BY <1>7 DEF EnterWait, SpuriousWakeup
  <2>2. TypeOK'
    BY <1>1, <2>1 DEF TypeOK, Locations
  <2>3. Holder'
    BY <1>1, <2>1 DEF IInv, Holder, TypeOK, Callers
  <2> QED BY <1>1, <2>1, <2>2, <2>3, MoveIInv DEF TypeOK, BeforeGate, Callers
<1>8. ASSUME NEW c \in Callers, GetResult(c) \/ GiveUp(c) PROVE IInv'
  <2>1. Return(c) /\ pc[c] = "future" /\ (promise[call[c].id] # "pending" \/ Typed(c))
    BY <1>8 DEF GetResult, GiveUp
  <2>2. c \in ProxyCallers => ~Typed(c)
    BY <2>1 DEF IInv, Numbered, Busy, Typed
  <2>3. /\ pc'[c] = "idle" /\ \A d \in Callers : d # c => pc'[d] = pc[d]
        /\ \A d \in Callers : d # c => call'[d] = call[d]
    BY <1>1, <2>1 DEF Return, TypeOK
  <2>4. TypeOK'
    <3>1. NoCall \in Call
      BY MaxCallsAssumption DEF NoCall, Call, Apis
    <3> QED BY <1>1, <2>1, <3>1 DEF Return, TypeOK, Locations
  <2>5. Holder'
    <3> SUFFICES ASSUME NEW d \in ProxyCallers, pc'[d] \notin {"idle", "lock"}
                 PROVE  sdo_mtex' = d
      BY DEF Holder
    <3>1. d # c /\ sdo_mtex = d
      BY <2>3 DEF IInv, Holder, Callers
    <3> QED BY <2>1, <3>1 DEF Return
  <2> QED BY <2>1, <2>2, <2>3, <2>4, <2>5, MoveIInv DEF Return, BeforeGate, Callers
<1>9. CASE Reply
  BY <1>9, ReplyIInv
<1>10. CASE OpenGate
  <2>1. /\ pc' \in [Callers -> Locations]
        /\ \A c \in Callers : pc'[c] = pc[c] \/ (pc[c] = "waiting" /\ pc'[c] = "woken")
    BY <1>1, <1>10, NotifyOneMoves DEF OpenGate, TypeOK
  <2>2. TypeOK'
    BY <1>1, <1>10, <2>1 DEF OpenGate, TypeOK
  <2>3. Holder'
    BY <1>10, <2>1 DEF IInv, Holder, OpenGate, Callers
  <2> QED BY <1>10, <2>1, <2>2, <2>3, MoveIInv DEF OpenGate, BeforeGate, Callers
<1>11. CASE UNCHANGED vars
  BY <1>11 DEF vars, IInv, TypeOK, Numbered, Busy, Holder, Unmade, Queued, Target, Origin, OwnReply
<1> QED BY <1>2, <1>3, <1>4, <1>5, <1>6, <1>7, <1>8, <1>9, <1>10, <1>11
        DEF Next, ProxyStep, GateStep

\* The initial state satisfies the invariant.
LEMMA InitIInv == Init => IInv
<1> SUFFICES ASSUME Init PROVE IInv
  OBVIOUS
<1>1. TypeOK
  BY InitTypeOK
<1>2. Numbered /\ Holder /\ Unmade /\ OwnReply
  BY DEF Init, Numbered, Holder, Unmade, OwnReply, Busy, BeforeGate, Callers
<1>3. Len(requests) = 0
  BY DEF Init
<1>4. Queued
  BY <1>3 DEF Queued
<1>5. Origin
  BY <1>3 DEF Origin
<1> QED BY <1>1, <1>2, <1>4, <1>5 DEF IInv

-----------------------------------------------------------------------------
(***************************************************************************)
(* The theorems.                                                           *)
(***************************************************************************)

\* The inductive invariant holds in every reachable state of the gate.
THEOREM InvariantHolds == Spec => []IInv
<1> QED BY InitIInv, StepIInv, PTL DEF Spec

\* Every variable of the bridge and its callers keeps its type.
THEOREM TypeCorrect == Spec => []TypeOK
<1>1. IInv => TypeOK
  BY DEF IInv
<1> QED BY <1>1, InvariantHolds, PTL

\* Whatever the interleaving, no future of a motor or service ever holds the reply to
\* another request than the one it was returned for.
THEOREM OwnReplyAlways == Spec => []OwnReply
<1>1. IInv => OwnReply
  BY DEF IInv
<1> QED BY <1>1, InvariantHolds, PTL

\* No completion callback satisfies a promise twice.
THEOREM CompletionsAlwaysDeliver == Spec => CompletionsDeliver
<1>1. IInv /\ [Next]_vars => [Reply => alive']_vars
  BY ReplyIInv
<1> QED BY <1>1, InvariantHolds, PTL DEF Spec, CompletionsDeliver

\* Services with typed calls between them: each untyped request of lely's queue is that
\* of the service that holds sdo_mtex, so there is only one.
THEOREM ServicesTakeTurns == Spec => []ServicesOneAtATime
<1>1. IInv => ServicesOneAtATime
  <2> SUFFICES ASSUME IInv, NEW i \in DOMAIN requests, NEW j \in DOMAIN requests,
                      Untyped(i), Untyped(j)
               PROVE  i = j
    BY DEF ServicesOneAtATime
  <2>1. i \in 1 .. Len(requests) /\ j \in 1 .. Len(requests)
    BY DEF IInv, TypeOK
  <2>2. PICK c \in ProxyCallers : pc[c] = "future" /\ call[c].id = requests[i].id
    BY <2>1 DEF IInv, Queued, Untyped
  <2>3. PICK d \in ProxyCallers : pc[d] = "future" /\ call[d].id = requests[j].id
    BY <2>1 DEF IInv, Queued, Untyped
  <2>4. sdo_mtex = c /\ sdo_mtex = d
    BY <2>2, <2>3 DEF IInv, Holder
  <2> QED BY <2>1, <2>2, <2>3, <2>4 DEF IInv, Queued
<1> QED BY <1>1, InvariantHolds, PTL

\* With services as the only callers (the proxy driver on its own) lely holds one request
\* at a time: sdo_mtex, not the gate, is what ensures it.
THEOREM ServicesAlone ==
  ASSUME TypedCallers = {}
  PROVE  Spec => []OneRequestAtATime
<1>1. ASSUME IInv, NEW i \in 1 .. Len(requests)
      PROVE  \E c \in ProxyCallers : sdo_mtex = c /\ call[c].id = requests[i].id
  <2>1. requests[i].api # "typed"
    BY <1>1 DEF IInv, Origin
  <2>2. PICK c \in ProxyCallers : pc[c] = "future" /\ call[c].id = requests[i].id
    BY <1>1, <2>1 DEF IInv, Queued
  <2>3. sdo_mtex = c
    BY <1>1, <2>2 DEF IInv, Holder
  <2> QED BY <2>2, <2>3
<1>2. IInv => OneRequestAtATime
  <2> SUFFICES ASSUME IInv, ~(Len(requests) <= 1) PROVE FALSE
    BY DEF OneRequestAtATime
  <2>1. 1 \in 1 .. Len(requests) /\ 2 \in 1 .. Len(requests)
    <3>1. Len(requests) \in Nat
      BY DEF IInv, TypeOK
    <3> QED BY <3>1
  <2>2. requests[1].id = requests[2].id
    BY <1>1, <2>1
  <2> QED BY <2>1, <2>2 DEF IInv, Queued
<1> QED BY <1>2, InvariantHolds, PTL

\* After sdo_cond.notify_one(), a caller is on its way out of the wait if one still waits.
LEMMA NotifyOneWakes ==
  ASSUME NEW f \in [Callers -> Locations], NEW g \in NotifyOne(f),
         NEW c \in Callers, g[c] = "waiting"
  PROVE  \E d \in Callers : g[d] = "woken"
BY DEF NotifyOne, Locations

\* The objects services ask for, what stands behind a set flag, and the absence of lost
\* wakeups.
WInv ==
  /\ \A c \in Callers : Busy(c) /\ ~Typed(c) => call[c].object \in ProxyObjects
  /\ alive /\ running => requests # << >> \/ loop = "replied" \/ deserted
  /\ NoLostWakeup

\* If no service asks for an object the dictionary does not have, whoever waits has a
\* request to wait for, or another caller about to wake up, or the gate was deserted by
\* a call that set running and left no request: for any number of services, typed calls,
\* timeouts, late answers and spurious wakeups, the silent return of the untyped calls
\* for an absent object and the deserted gate are the only ways to lose a wakeup.
THEOREM WakeupsKept ==
  ASSUME "absent" \notin ProxyObjects
  PROVE  Spec => []NoLostWakeup
<1>1. Init => WInv
  BY DEF Init, WInv, NoLostWakeup, Busy
<1>2. ASSUME IInv, WInv, [Next]_vars PROVE WInv'
  <2>1. TypeOK
    BY <1>2 DEF IInv
  <2> DEFINE Quiet == /\ UNCHANGED <<running, deserted, requests, loop, alive>>
                      /\ \A c \in Callers : /\ pc'[c] = "waiting" => pc[c] = "waiting"
                                            /\ pc[c] = "woken" => pc'[c] = "woken"
             Backed == alive /\ running => requests # << >> \/ loop = "replied" \/ deserted
  <2>2. Quiet => Backed' /\ NoLostWakeup'
    BY <1>2 DEF WInv, NoLostWakeup
  <2>3. ASSUME \A c \in Callers : Busy(c)' => Busy(c) /\ call'[c] = call[c]
        PROVE  \A c \in Callers : Busy(c)' /\ ~Typed(c)' => call'[c].object \in ProxyObjects
    BY <1>2, <2>3 DEF WInv, Typed
  <2>4. ASSUME NEW c \in Callers, pc[c] \in {"enter", "woken"}, PassGate(c) PROVE WInv'
    <3>1. ToFuture(c) \in [Callers -> Locations]
      BY <2>1 DEF TypeOK, ToFuture, Locations
    <3>2. Refuse(c) => Typed(c)
      BY <1>2, <2>4 DEF WInv, Busy, Refuse
    <3>3. /\ Backed'
          /\ ~alive' \/ running' \/ pc' \in NotifyOne(ToFuture(c))
      <4>1. CASE Submit(c)
        <5> DEFINE Request == [id : CallIds, api : Apis]
                   request == [id |-> call[c].id, api |-> call[c].api]
        <5>1. requests' # << >>
          <6>1. requests \in Seq(Request) /\ requests' = Append(requests, request)
            BY <2>1, <4>1 DEF Submit, TypeOK
          <6> HIDE DEF Request, request
          <6>2. Len(Append(requests, request)) = Len(requests) + 1 /\ Len(requests) \in Nat
            BY <6>1
          <6> QED BY <6>1, <6>2
        <5> QED BY <4>1, <5>1 DEF Submit
      <4>2. CASE Refuse(c) \/ ReadThrows(c) \/ WriteThrows(c)
        BY <3>2, <4>2 DEF Refuse, ReadThrows, WriteThrows
      <4>3. CASE Strand(c) \/ TypedThrows(c)
        <5>1. requests' = requests /\ loop' = loop
          BY <2>4, <4>3 DEF PassGate, Strand, TypedThrows
        <5>2. loop # "free" => loop = "replied"
          BY <2>1 DEF TypeOK
        <5> QED BY <4>3, <5>1, <5>2 DEF Strand, TypedThrows, LeaveShut
      <4> QED BY <2>4, <4>1, <4>2, <4>3 DEF PassGate
    <3>4. NoLostWakeup'
      BY <3>1, <3>3, NotifyOneWakes DEF NoLostWakeup
    <3>5. \A d \in Callers : Busy(d)' => Busy(d) /\ call'[d] = call[d]
      <4>1. \A d \in Callers : d # c => pc'[d] = pc[d] \/ (pc[d] = "waiting" /\ pc'[d] = "woken")
        BY <1>2, <2>4, PassGateEffect
      <4>2. call' = call
        BY <2>4 DEF PassGate
      <4> QED BY <2>4, <4>1, <4>2 DEF Busy
    <3> QED BY <2>3, <3>3, <3>4, <3>5 DEF WInv
  <2>5. ASSUME NEW c \in Callers, NEW api \in Apis, NEW object, NewCall(c, api, object),
               api # "typed" => object \in ProxyObjects,
               pc' = [pc EXCEPT ![c] = IF api = "typed" THEN "enter" ELSE "lock"],
               UNCHANGED <<running, deserted, requests, loop, alive>>
        PROVE  WInv'
    <3>1. Quiet
      BY <2>1, <2>5 DEF TypeOK, NewCall
    <3>2. \A d \in Callers : Busy(d)' /\ ~Typed(d)' => call'[d].object \in ProxyObjects
      <4> SUFFICES ASSUME NEW d \in Callers, Busy(d)', ~Typed(d)'
                   PROVE  call'[d].object \in ProxyObjects
        OBVIOUS
      <4>1. CASE d = c
        BY <2>1, <2>5, <4>1 DEF NewCall, Typed, TypeOK
      <4>2. CASE d # c
        BY <1>2, <2>1, <2>5, <4>2 DEF NewCall, Typed, Busy, WInv, TypeOK
      <4> QED BY <4>1, <4>2
    <3> QED BY <2>2, <3>1, <3>2 DEF WInv
  <2>6. ASSUME NEW c \in ProxyCallers, ProxyCall(c) PROVE WInv'
    <3>1. PICK api \in {"read", "write"}, object \in ProxyObjects : NewCall(c, api, object)
      BY <2>6 DEF ProxyCall
    <3>2. /\ c \in Callers /\ api \in Apis
          /\ pc' = [pc EXCEPT ![c] = IF api = "typed" THEN "enter" ELSE "lock"]
          /\ UNCHANGED <<running, deserted, requests, loop, alive>>
      BY <2>6, <3>1 DEF ProxyCall, Callers, Apis
    <3> QED BY <2>5, <3>1, <3>2
  <2>7. ASSUME NEW c \in TypedCallers, TypedCall(c) PROVE WInv'
    <3>1. PICK object \in TypedObjects : NewCall(c, "typed", object)
      BY <2>7 DEF TypedCall
    <3>2. /\ c \in Callers /\ "typed" \in Apis
          /\ pc' = [pc EXCEPT ![c] = IF "typed" = "typed" THEN "enter" ELSE "lock"]
          /\ UNCHANGED <<running, deserted, requests, loop, alive>>
      BY <2>7, <3>1 DEF TypedCall, Callers, Apis
    <3> QED BY <2>5, <3>1, <3>2
  <2>8. ASSUME NEW c \in ProxyCallers, LockProxy(c) PROVE WInv'
    <3>1. Quiet
      BY <2>1, <2>8 DEF LockProxy, TypeOK, Callers
    <3>2. \A d \in Callers : Busy(d)' => Busy(d) /\ call'[d] = call[d]
      BY <2>1, <2>8 DEF LockProxy, TypeOK, Callers, Busy
    <3> QED BY <2>2, <2>3, <3>1, <3>2 DEF WInv
  <2>9. ASSUME NEW c \in Callers, EnterWait(c) \/ SpuriousWakeup(c) PROVE WInv'
    <3>1. \A d \in Callers : Busy(d)' => Busy(d) /\ call'[d] = call[d]
      BY <2>1, <2>9 DEF EnterWait, SpuriousWakeup, TypeOK, Busy
    <3>2. Backed' /\ NoLostWakeup'
      BY <1>2, <2>1, <2>9 DEF EnterWait, SpuriousWakeup, TypeOK, WInv, NoLostWakeup
    <3> QED BY <2>3, <3>1, <3>2 DEF WInv
  <2>10. ASSUME NEW c \in Callers, GetResult(c) \/ GiveUp(c) PROVE WInv'
    <3>1. Return(c) /\ pc[c] = "future"
      BY <2>10 DEF GetResult, GiveUp
    <3>2. Quiet
      BY <2>1, <3>1 DEF Return, TypeOK
    <3>3. \A d \in Callers : Busy(d)' => Busy(d) /\ call'[d] = call[d]
      BY <2>1, <3>1 DEF Return, TypeOK, Busy
    <3> QED BY <2>2, <2>3, <3>2, <3>3 DEF WInv
  <2>11. CASE Reply
    BY <1>2, <2>11 DEF Reply, WInv, NoLostWakeup, Busy, Typed
  <2>12. CASE OpenGate
    <3>1. \A d \in Callers : pc'[d] = pc[d] \/ (pc[d] = "waiting" /\ pc'[d] = "woken")
      BY <2>1, <2>12, NotifyOneMoves DEF OpenGate, TypeOK
    <3>2. \A d \in Callers : Busy(d)' => Busy(d) /\ call'[d] = call[d]
      BY <2>12, <3>1 DEF OpenGate, Busy
    <3>3. NoLostWakeup'
      BY <2>1, <2>12, NotifyOneWakes DEF OpenGate, NoLostWakeup, TypeOK
    <3>4. Backed'
      BY <2>12 DEF OpenGate
    <3> QED BY <2>3, <3>2, <3>3, <3>4 DEF WInv
  <2>13. CASE UNCHANGED vars
    BY <1>2, <2>13 DEF vars, WInv, NoLostWakeup, Busy, Typed
  <2> QED BY <1>2, <2>4, <2>6, <2>7, <2>8, <2>9, <2>10, <2>11, <2>12, <2>13
          DEF Next, ProxyStep, GateStep, Enter, Resume
<1>3. WInv => NoLostWakeup
  BY DEF WInv
<1> QED BY <1>1, <1>2, <1>3, InvariantHolds, PTL DEF Spec

=============================================================================
