------------------------------- MODULE Calls -------------------------------
(***************************************************************************)
(* What a caller of the plugin IPC relies on: a call is answered at most   *)
(* once, only with the answer to this very call, and only after the server *)
(* has handled it; or it fails, at any time, and then nothing that comes   *)
(* later is taken for the answer to a later call.                          *)
(***************************************************************************)
EXTENDS Naturals

CONSTANTS Caller, MaxCalls

VARIABLES
  call,    \* of each caller: how many calls it made, and the state of the last
  handled  \* calls the server has handled, as <<caller, number>>

vars == <<call, handled>>

Init == call = [c \in Caller |-> [no |-> 0, st |-> "idle"]] /\ handled = {}

Ask(c) ==
  /\ call[c].st # "waiting" /\ call[c].no < MaxCalls
  /\ call' = [call EXCEPT ![c] = [no |-> @.no + 1, st |-> "waiting"]]
  /\ UNCHANGED handled

Dispatch(c) ==
  /\ \E n \in 1 .. call[c].no : handled' = handled \cup {<<c, n>>}
  /\ UNCHANGED call

Answer(c) ==
  /\ call[c].st = "waiting" /\ <<c, call[c].no>> \in handled
  /\ call' = [call EXCEPT ![c].st = "answered"]
  /\ UNCHANGED handled

Fail(c) ==
  /\ call[c].st = "waiting"
  /\ call' = [call EXCEPT ![c].st = "failed"]
  /\ UNCHANGED handled

Next == \E c \in Caller : Ask(c) \/ Dispatch(c) \/ Answer(c) \/ Fail(c)

Spec == Init /\ [][Next]_vars
=============================================================================
