------------------------------ MODULE MasterUse ------------------------------
(***************************************************************************)
(* What a device container promises about the CANopen master, whatever     *)
(* fails and whoever times out: drivers come and go, the master comes up   *)
(* before the first takes hold of it and goes down only after the last has *)
(* let go, so no driver ever holds a master whose loop does not run.       *)
(***************************************************************************)
CONSTANT Drivers

VARIABLES
  up,       \* does the master's loop run?
  holders   \* the drivers that hold the master

vars == <<up, holders>>

Init ==
  /\ up = FALSE
  /\ holders = {}

Start ==
  /\ ~up
  /\ up' = TRUE
  /\ UNCHANGED holders

Hold(d) ==
  /\ up
  /\ holders' = holders \cup {d}
  /\ UNCHANGED up

Release(d) ==
  /\ up
  /\ holders' = holders \ {d}
  /\ UNCHANGED up

Stop ==
  /\ up
  /\ holders = {}
  /\ up' = FALSE
  /\ UNCHANGED holders

Next == Start \/ Stop \/ \E d \in Drivers : Hold(d) \/ Release(d)

Spec == Init /\ [][Next]_vars

=============================================================================
