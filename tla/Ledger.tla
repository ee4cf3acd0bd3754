------------------------------- MODULE Ledger -------------------------------
(***************************************************************************)
(* What an envelope promises about its grants: each is an account that is  *)
(* charged one use at a time, that never goes back, and that is charged    *)
(* only while it has a use left.  A limit of zero is no limit.             *)
(***************************************************************************)
EXTENDS Naturals, Sequences

VARIABLES
  limits,  \* the limit of each grant
  uses     \* what has been charged to each

vars == <<limits, uses>>

Init ==
  /\ limits \in Seq(Nat)
  /\ uses = [i \in DOMAIN limits |-> 0]

Charge(i) ==
  /\ limits[i] = 0 \/ uses[i] < limits[i]
  /\ uses' = [uses EXCEPT ![i] = @ + 1]
  /\ UNCHANGED limits

Next == \E i \in DOMAIN limits : Charge(i)

Spec == Init /\ [][Next]_vars
=============================================================================
