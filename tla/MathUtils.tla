------------------------------ MODULE MathUtils ------------------------------
(* MathUtils of concurrency/bank-paper/Bank.i.dfy *)
EXTENDS Integers

\* The sum of numbers[0], ..., numbers[n - 1].
Sum(numbers, n) ==
    LET sum[k \in 0 .. n] == IF k = 0 THEN 0 ELSE sum[k - 1] + numbers[k - 1]
    IN  sum[n]
=============================================================================
