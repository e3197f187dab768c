------------------------------ MODULE MCSlaSweep ------------------------------
(* Two sweepers, two orders and one assignee; every order has four intervals. *)
EXTENDS SlaSweep, TLC

FourEach == [p \in Priorities |-> 4]
==============================================================================
