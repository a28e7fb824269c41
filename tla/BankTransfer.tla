---------------------------- MODULE BankTransfer ----------------------------
(***************************************************************************)
(* concurrency/bank-paper: accounts behind spinning mutexes, the method    *)
(* TryAccountTransfer, and the program of Bundle.i.cpp that calls it from  *)
(* several threads until a deadline and adds the balances up at the end.   *)
(*                                                                         *)
(* Atomic steps are the ones of framework/Mutex.i.dfy: a compare-and-set   *)
(* of the lock word, a read of the cell, a write of the cell, a store to   *)
(* the lock word.  A failed compare-and-set changes nothing: it is a       *)
(* stuttering step.                                                        *)
(***************************************************************************)
EXTENDS Integers, MathUtils

CONSTANTS
    NumThreads,         \* worker threads, numbered from 0
    NumberOfAccounts,   \* keyspace
    InitBalance,        \* of every account
    Amount,             \* amount of a transfer
    ChecksFunds,        \* TRUE: Impl.i.dfy; FALSE: Bundle.i.cpp, whose test reads "true || ..."
    Audits,             \* TRUE: threads also call AssertAccountIsNotTooRich
    MaxCalls            \* bound: calls a thread makes before its deadline

ASSUME TransferConstants ==
    /\ NumThreads \in Nat \ {0}
    /\ NumberOfAccounts \in Nat \ {0}
    /\ InitBalance \in Nat
    /\ Amount \in Nat
    /\ ChecksFunds \in BOOLEAN
    /\ Audits \in BOOLEAN
    /\ MaxCalls \in Nat

Thread == 0 .. NumThreads - 1
Account == 0 .. NumberOfAccounts - 1
FixedTotalMoney == Sum([a \in Account |-> InitBalance], NumberOfAccounts)

VARIABLES
    at,         \* lock word of each account's mutex
    cell,       \* balance in the cell behind it
    pc,         \* next step of each thread
    op,         \* the method the thread is in: "transfer" or "audit"
    source, dest,                   \* its account numbers
    sourceBalance, destBalance,     \* what it read, later what it will write
    calls,      \* how many calls it has made
    expired,    \* threads whose running time is over
    mainpc, i, tol                  \* main: join, then checkSum

locals == <<op, source, dest, sourceBalance, destBalance>>
main == <<mainpc, i, tol>>
vars == <<at, cell, pc, locals, calls, expired, main>>

PC == {"loop", "cas_source", "take_source", "cas_dest", "take_dest", "transfer",
       "give_source", "store_source", "give_dest", "store_dest", "done"}

TypeOK ==
    /\ at \in [Account -> BOOLEAN]
    /\ cell \in [Account -> Int]
    /\ pc \in [Thread -> PC]
    /\ op \in [Thread -> {"transfer", "audit"}]
    /\ source \in [Thread -> Account]
    /\ dest \in [Thread -> Account]
    /\ sourceBalance \in [Thread -> Int]
    /\ destBalance \in [Thread -> Int]
    /\ calls \in [Thread -> 0 .. MaxCalls]
    /\ expired \subseteq Thread
    /\ mainpc \in {"join", "sum", "exit"}
    /\ i \in Nat
    /\ tol \in Int

Init ==
    /\ at = [a \in Account |-> FALSE]
    /\ cell = [a \in Account |-> InitBalance]
    /\ pc = [t \in Thread |-> "loop"]
    /\ op = [t \in Thread |-> "transfer"]
    /\ source = [t \in Thread |-> 0]
    /\ dest = [t \in Thread |-> 0]
    /\ sourceBalance = [t \in Thread |-> 0]
    /\ destBalance = [t \in Thread |-> 0]
    /\ calls = [t \in Thread |-> 0]
    /\ expired = {}
    /\ mainpc = "join"
    /\ i = 0
    /\ tol = 0

Goto(t, from, to) == pc[t] = from /\ pc' = [pc EXCEPT ![t] = to]

-----------------------------------------------------------------------------
(* The worker's loop *)

\* The two accounts the loop settles on: drawn from the middle of the key space, a
\* repeated one moved up, then put in ascending order.
Distribution == 1 .. NumberOfAccounts - 2
Unordered(p, q) == <<p, q>>                                     \* Faulty variant: no swap
Ordered(p, q) == IF p > q THEN <<q, p>> ELSE <<p, q>>
ChosenPair(p, q) == Ordered(p, IF p = q THEN q + 1 ELSE q)

CallTransfer(t) ==
    /\ t \notin expired
    /\ calls[t] < MaxCalls
    /\ Goto(t, "loop", "cas_source")
    /\ \E p, q \in Distribution :
          /\ source' = [source EXCEPT ![t] = ChosenPair(p, q)[1]]
          /\ dest' = [dest EXCEPT ![t] = ChosenPair(p, q)[2]]
    /\ op' = [op EXCEPT ![t] = "transfer"]
    /\ calls' = [calls EXCEPT ![t] = @ + 1]
    /\ UNCHANGED <<at, cell, sourceBalance, destBalance, expired, main>>

\* AssertAccountIsNotTooRich takes and releases one mutex: it shares the steps on the
\* source account.
CallAudit(t) ==
    /\ Audits
    /\ t \notin expired
    /\ calls[t] < MaxCalls
    /\ Goto(t, "loop", "cas_source")
    /\ \E a \in Account : source' = [source EXCEPT ![t] = a]
    /\ op' = [op EXCEPT ![t] = "audit"]
    /\ calls' = [calls EXCEPT ![t] = @ + 1]
    /\ UNCHANGED <<at, cell, dest, sourceBalance, destBalance, expired, main>>

Expire(t) ==
    /\ t \notin expired
    /\ expired' = expired \cup {t}
    /\ UNCHANGED <<at, cell, pc, locals, calls, main>>

Break(t) ==
    /\ t \in expired
    /\ Goto(t, "loop", "done")
    /\ UNCHANGED <<at, cell, locals, calls, expired, main>>

-----------------------------------------------------------------------------
(* Mutex.acquire *)

SetAlways(a) == at' = [at EXCEPT ![a] = TRUE]                   \* Faulty variant: no comparison
CompareAndSet(a) == ~at[a] /\ at' = [at EXCEPT ![a] = TRUE]

CasSource(t) ==
    /\ Goto(t, "cas_source", "take_source")
    /\ CompareAndSet(source[t])
    /\ UNCHANGED <<cell, locals, calls, expired, main>>

TakeSource(t) ==
    /\ Goto(t, "take_source", IF op[t] = "audit" THEN "give_source" ELSE "cas_dest")
    /\ sourceBalance' = [sourceBalance EXCEPT ![t] = cell[source[t]]]
    /\ UNCHANGED <<at, cell, op, source, dest, destBalance, calls, expired, main>>

CasDest(t) ==
    /\ Goto(t, "cas_dest", "take_dest")
    /\ CompareAndSet(dest[t])
    /\ UNCHANGED <<cell, locals, calls, expired, main>>

TakeDest(t) ==
    /\ Goto(t, "take_dest", "transfer")
    /\ destBalance' = [destBalance EXCEPT ![t] = cell[dest[t]]]
    /\ UNCHANGED <<at, cell, op, source, dest, sourceBalance, calls, expired, main>>

-----------------------------------------------------------------------------
(* The body of TryAccountTransfer between acquiring and releasing *)

CoveredButOne(t) == Amount <= sourceBalance[t] + 1              \* Faulty variant: off by one
Covered(t) == ~ChecksFunds \/ Amount <= sourceBalance[t]

DoTransfer(t) ==
    /\ Goto(t, "transfer", "give_source")
    /\ Covered(t)
    /\ sourceBalance' = [sourceBalance EXCEPT ![t] = @ - Amount]
    /\ destBalance' = [destBalance EXCEPT ![t] = @ + Amount]
    /\ UNCHANGED <<at, cell, op, source, dest, calls, expired, main>>

RefuseTransfer(t) ==
    /\ Goto(t, "transfer", "give_source")
    /\ ~Covered(t)
    /\ UNCHANGED <<at, cell, locals, calls, expired, main>>

-----------------------------------------------------------------------------
(* Mutex.release: first the cell, then the lock word *)

GiveCell(a, balance) == cell' = [cell EXCEPT ![a] = balance]
StoreFalse(a) == at' = [at EXCEPT ![a] = FALSE]

GiveSource(t) ==
    /\ Goto(t, "give_source", "store_source")
    /\ GiveCell(source[t], sourceBalance[t])
    /\ UNCHANGED <<at, locals, calls, expired, main>>

StoreSource(t) ==
    /\ Goto(t, "store_source", IF op[t] = "audit" THEN "loop" ELSE "give_dest")
    /\ StoreFalse(source[t])
    /\ UNCHANGED <<cell, locals, calls, expired, main>>

GiveDest(t) ==
    /\ Goto(t, "give_dest", "store_dest")
    /\ GiveCell(dest[t], destBalance[t])
    /\ UNCHANGED <<at, locals, calls, expired, main>>

StoreDest(t) ==
    /\ Goto(t, "store_dest", "loop")
    /\ StoreFalse(dest[t])
    /\ UNCHANGED <<cell, locals, calls, expired, main>>

-----------------------------------------------------------------------------
(* main: join the workers in order, then checkSum reads every cell without its lock *)

\* Faulty variant: only the first worker is joined
JoinFirst ==
    /\ mainpc = "join"
    /\ pc[i] = "done"
    /\ i' = 0 /\ mainpc' = "sum"
    /\ UNCHANGED <<at, cell, pc, locals, calls, expired, tol>>

Join ==
    /\ mainpc = "join"
    /\ pc[i] = "done"
    /\ IF i + 1 < NumThreads
         THEN i' = i + 1 /\ mainpc' = "join"
         ELSE i' = 0 /\ mainpc' = "sum"
    /\ UNCHANGED <<at, cell, pc, locals, calls, expired, tol>>

CheckSum ==
    /\ mainpc = "sum"
    /\ tol' = tol + cell[i]
    /\ i' = i + 1
    /\ mainpc' = IF i + 1 < NumberOfAccounts THEN "sum" ELSE "exit"
    /\ UNCHANGED <<at, cell, pc, locals, calls, expired>>

-----------------------------------------------------------------------------
Step(t) ==
    \/ CallTransfer(t) \/ CallAudit(t) \/ Break(t)
    \/ CasSource(t) \/ TakeSource(t) \/ CasDest(t) \/ TakeDest(t)
    \/ DoTransfer(t) \/ RefuseTransfer(t)
    \/ GiveSource(t) \/ StoreSource(t) \/ GiveDest(t) \/ StoreDest(t)

Next ==
    \/ \E t \in Thread : Step(t) \/ Expire(t)
    \/ Join
    \/ CheckSum

\* Every thread keeps being scheduled and its clock advances.  Nothing is assumed about
\* who wins a contended compare-and-set.
Fairness ==
    /\ \A t \in Thread : WF_vars(Step(t)) /\ WF_vars(Expire(t))
    /\ WF_vars(Join \/ CheckSum)

Spec == Init /\ [][Next]_vars /\ Fairness
-----------------------------------------------------------------------------
(* Properties *)

\* The thread has the MutexHandle of its source, of its destination, of account a.
HoldsSource(t) ==
    pc[t] \in {"take_source", "cas_dest", "take_dest", "transfer", "give_source", "store_source"}
HoldsDest(t) ==
    /\ pc[t] \in {"take_dest", "transfer", "give_source", "store_source", "give_dest", "store_dest"}
    /\ op[t] = "transfer"
Holds(t, a) == (HoldsSource(t) /\ source[t] = a) \/ (HoldsDest(t) /\ dest[t] = a)

\* Mutex.AtInv: a lock word is TRUE exactly while one thread holds the handle, and no
\* account has two handles out, whatever order the four atomic steps of the threads are in.
HandlesUnique ==
    \A a \in Account :
        /\ at[a] <=> \E t \in Thread : Holds(t, a)
        /\ \A t, u \in Thread : Holds(t, a) /\ Holds(u, a) => t = u

\* Where the entry of an account is: with a thread from the read of the cell to the write.
SourceCarriers == [a \in Account |->
    {t \in Thread : pc[t] \in {"cas_dest", "take_dest", "transfer", "give_source"} /\ source[t] = a}]
DestCarriers == [a \in Account |->
    {t \in Thread : /\ pc[t] \in {"transfer", "give_source", "store_source", "give_dest"}
                    /\ op[t] = "transfer"
                    /\ dest[t] = a}]

BankView == [a \in Account |->
    CASE SourceCarriers[a] # {} -> sourceBalance[CHOOSE t \in SourceCarriers[a] : TRUE]
      [] SourceCarriers[a] = {} /\ DestCarriers[a] # {} ->
            destBalance[CHOOSE t \in DestCarriers[a] : TRUE]
      [] OTHER -> cell[a]]

AbstractBank == INSTANCE Bank WITH account_balances <- BankView

\* The bank of Bank.i.dfy is implemented: seen through the entries that threads carry, the
\* balances change only by covered transfers between two accounts, at the step of the ghost
\* call do_transfer, and the two cells of a transfer are never seen half changed.
RefinesBank == AbstractBank!Spec

\* No money appears or disappears, also in the middle of transfers (Bank.i.dfy, Inv).
MoneyConserved == AbstractBank!Inv

\* What get_bound promises of any entry under its lock, and AssertAccountIsNotTooRich asserts:
\* it never exceeds all the money there is, whichever transfers are under way.
NotTooRich ==
    \A a \in Account :
        /\ \A t \in SourceCarriers[a] : sourceBalance[t] <= FixedTotalMoney
        /\ \A t \in DestCarriers[a] : destBalance[t] <= FixedTotalMoney

\* The sum that main prints after joining the workers is the initial total, although it
\* reads the cells one by one without their locks.
ChecksumExact == mainpc = "exit" => tol = FixedTotalMoney

\* No money appears or disappears: not in the cells and the hands of the threads, not in
\* what an audit sees of one account, and not in the sum that main prints.
MoneyExact == MoneyConserved /\ NotTooRich /\ ChecksumExact

\* Every worker stops and main exits: taking the two locks in ascending order rules out
\* a cycle of waiting threads, and the spinning ends once the others have stopped.
Termination == <>(mainpc = "exit")
=============================================================================
