---------------------------- MODULE MCBaseDriver ----------------------------
(***************************************************************************)
(* Instances of BaseDriver for TLC: each looks at one part of a driver's   *)
(* life, with as much of the rest as the part meets.                       *)
(***************************************************************************)
EXTENDS BaseDriver

\* a proxy driver whose device has booted
Proxy == [motors |-> FALSE, polling |-> TRUE, callbacks |-> FALSE, ready |-> TRUE,
          garbage |-> {FALSE}, faults |-> {"slow"},
          activations |-> 1, boots |-> 0, states |-> 0, messages |-> 0]

\* the boot of the device
Booting == [Proxy EXCEPT !.ready = FALSE, !.boots = 1]

\* the messages, read by a timer or at each SYNC
Messages(polls, calls) ==
  [Proxy EXCEPT !.polling = polls, !.callbacks = calls, !.messages = 2,
                !.faults = {"slow", "throw"}]

\* the NMT states
States(keeps, calls) == [Proxy EXCEPT !.motors = keeps, !.callbacks = calls, !.states = 2]

\* all of it, and the next activation
Cycle(polls, keeps) ==
  [Proxy EXCEPT !.polling = polls, !.motors = keeps, !.activations = 2,
                !.states = 1, !.messages = 1]

\* what the code allows besides: used memory and spurious wakeups, tasks that time out
Unlucky == [Booting EXCEPT !.garbage = BOOLEAN, !.faults = {"spurious"}]
Late == [Proxy EXCEPT !.faults = {"timeout"}, !.messages = 1]

AllConfigurations ==
  {Booting, Unlucky, Late, Messages(TRUE, FALSE), Messages(TRUE, TRUE), Messages(FALSE, TRUE),
   States(FALSE, FALSE), States(TRUE, TRUE)}
  \cup {Cycle(polls, keeps) : polls, keeps \in BOOLEAN}
=============================================================================
