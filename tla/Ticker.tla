------------------------------- MODULE Ticker -------------------------------
(***************************************************************************)
(* What a periodic tick promises: after Begin and Start the ticks are due  *)
(* one period apart, the first one a period after an instant of the call   *)
(* that started them.  No tick is served before it is due, and one that is *)
(* served late is neither dropped nor does it move those after it.         *)
(***************************************************************************)
EXTENDS Integers

CONSTANTS Increment, Off

VARIABLES
  now,
  asked,   \* when the ticks were asked for, or Off
  due      \* when the next tick is due, or Off

vars == <<now, asked, due>>

Init == now = 0 /\ asked = Off /\ due = Off

Passes == now' = now + 1

Wait == Passes /\ UNCHANGED <<asked, due>>

Begin == Passes /\ asked = Off /\ asked' = now' /\ UNCHANGED due

Start ==
  /\ Passes
  /\ asked # Off /\ due = Off
  /\ \E t \in asked .. now : due' = t + Increment
  /\ UNCHANGED asked

Serve ==
  /\ Passes
  /\ due # Off /\ now >= due
  /\ due' = due + Increment
  /\ UNCHANGED asked

Reset == now' = 0 /\ asked' = Off /\ due' = Off

Next == Wait \/ Begin \/ Start \/ Serve \/ Reset

Spec == Init /\ [][Next]_vars
=============================================================================
