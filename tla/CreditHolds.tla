---------------------------- MODULE CreditHolds ----------------------------
(***************************************************************************)
(* What the credit system promises a user, without ledger, statuses or     *)
(* executors: the balance changes by grants and deductions, a task may put *)
(* a hold on part of it, and a hold ends once, kept in full or returned in *)
(* full.                                                                   *)
(***************************************************************************)
EXTENDS Integers

CONSTANTS Users, Tasks, Owner

VARIABLES
    balance,    \* credits a user can spend
    hold        \* the hold of a task: its state and amount

Idle == [state |-> "none", amount |-> 0]

Init ==
    /\ balance = [u \in Users |-> 0]
    /\ hold = [t \in Tasks |-> Idle]

\* Bonus, redemption or administrator adjustment.
Move(u) ==
    /\ balance'[u] \in Nat
    /\ balance' = [balance EXCEPT ![u] = balance'[u]]
    /\ UNCHANGED hold

\* A hold takes its amount from the balance, to which the opening bonus may be
\* added in the same step.
Place(t) ==
    /\ hold[t] = Idle
    /\ hold'[t].state = "held" /\ hold'[t].amount \in Nat \ {0}
    /\ hold' = [hold EXCEPT ![t] = hold'[t]]
    /\ balance'[Owner[t]] \in Nat
    /\ balance'[Owner[t]] + hold'[t].amount >= balance[Owner[t]]
    /\ balance' = [balance EXCEPT ![Owner[t]] = balance'[Owner[t]]]

Keep(t) ==
    /\ hold[t].state = "held"
    /\ hold' = [hold EXCEPT ![t].state = "kept"]
    /\ UNCHANGED balance

Return(t) ==
    /\ hold[t].state = "held"
    /\ hold' = [hold EXCEPT ![t].state = "returned"]
    /\ balance' = [balance EXCEPT ![Owner[t]] = @ + hold[t].amount]

Next ==
    \/ \E u \in Users : Move(u)
    \/ \E t \in Tasks : Place(t) \/ Keep(t) \/ Return(t)

Spec == Init /\ [][Next]_<<balance, hold>>
=============================================================================
