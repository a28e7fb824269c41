-------------------------------- MODULE Bank --------------------------------
(***************************************************************************)
(* The bank of concurrency/bank-paper/Bank.i.dfy: balances that change     *)
(* only by transfers covered by the source account.                        *)
(***************************************************************************)
EXTENDS Integers, MathUtils

CONSTANTS NumberOfAccounts, FixedTotalMoney

VARIABLE account_balances

Account == 0 .. NumberOfAccounts - 1

Inv == Sum(account_balances, NumberOfAccounts) = FixedTotalMoney

Init ==
    /\ account_balances \in [Account -> Nat]
    /\ Inv

Transfer(source, dest, money) ==
    /\ source # dest
    /\ money \in Nat
    /\ money <= account_balances[source]
    /\ account_balances' = [account_balances EXCEPT ![source] = @ - money, ![dest] = @ + money]

\* The amount of a transfer is what the source loses.
Next ==
    \E source, dest \in Account :
        Transfer(source, dest, account_balances[source] - account_balances'[source])

Spec == Init /\ [][Next]_account_balances
=============================================================================
