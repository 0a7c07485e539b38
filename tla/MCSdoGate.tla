------------------------------ MODULE MCSdoGate ------------------------------
(***************************************************************************)
(* Instances of SdoGate for TLC.  A behaviour begins with the choice of    *)
(* who calls.  The calls are bounded by MaxCalls, so a behaviour ends when *)
(* all of them have been made and have come back; a behaviour that stops   *)
(* anywhere else is a deadlock.                                            *)
(***************************************************************************)
EXTENDS SdoGate

\* "services": only services call, for any object; "shared": typed calls come
\* between, and the services ask for objects the dictionary has; "any"
CONSTANT Mixes

VARIABLE mix

\* The calls of the mix.
Kept ==
  /\ mix = "services" => \A c \in TypedCallers : pc'[c] = "idle"
  /\ mix = "shared" => \A c \in ProxyCallers : call'[c].object \in {"supported", "none"}

\* All calls are over (the bound MaxCalls), or the process is, or the gate is shut for
\* good: a call for an object of an unknown type keeps sdo_mtex, or a deserted gate
\* keeps everybody who called.
Finished ==
  /\ \/ ~alive
     \/ calls = MaxCalls /\ \A c \in Callers : pc[c] = "idle"
     \/ \E c \in ProxyCallers : call[c].object = "unsupported"
     \/ deserted /\ \A c \in Callers : pc[c] \in {"idle", "lock", "waiting"}
  /\ requests = << >> \/ ~alive
  /\ UNCHANGED vars

MCInit == Init /\ mix \in Mixes

MCNext == (Next \/ Finished) /\ Kept /\ UNCHANGED mix

MCSpec == MCInit /\ [][MCNext]_<<vars, mix>> /\ Fairness
=============================================================================
