------------------------- MODULE ConcurrencyProofs -------------------------
(***************************************************************************)
(* Threads and processes beside the store: the two programs of concurrency/*)
(* that are modelled step by step, and make with its parallel checks.      *)
(*                                                                         *)
(* The bank: for any number of threads and accounts, the mutexes of        *)
(* BankTransfer exclude each other, and TryAccountTransfer as written in   *)
(* Impl.i.dfy implements the transfers of Bank; the money in cells and     *)
(* hands always adds up, and so does the sum that main computes without    *)
(* the locks.                                                              *)
(*                                                                         *)
(* The queue: the two threads of SpscQueue never work on the same cell,    *)
(* and the queue implements a bounded first-in-first-out buffer, for       *)
(* every size of the ring and every set of items.                          *)
(*                                                                         *)
(* The status page: make finds every report that is out of date unless its *)
(* file was edited during its own check, or an include line was added      *)
(* while veridepend.py was running; the page tells the truth but for that  *)
(* and for counts of time-outs that end in zero.  This holds for any       *)
(* source tree, edits and number of parallel checks.                       *)
(***************************************************************************)
EXTENDS BankTransfer, SpscQueue, BuildStatus, TLAPS, WellFoundedInduction

\* A thread inside a transfer has two different accounts, in ascending order; main
\* indexes threads while it joins and accounts while it adds.
PairOrdered ==
    \A t \in Thread : op[t] = "transfer" /\ pc[t] \notin {"loop", "done"} => source[t] < dest[t]

\* Only a transfer takes a second lock: an audit takes one.
AuditTakesOne ==
    \A t \in Thread : pc[t] \in {"cas_dest", "take_dest", "transfer", "give_dest", "store_dest"}
                        => op[t] = "transfer"

\* Where the main thread is.
MainIndex ==
    /\ mainpc = "join" => i \in Thread
    /\ mainpc = "sum" => i \in Account

\* What is preserved of the locks.
LockInv == TypeOK /\ PairOrdered /\ AuditTakesOne /\ MainIndex /\ HandlesUnique

\* The loop always settles on two accounts in ascending order.
LEMMA ChosenPairOrdered ==
    ASSUME NEW p \in Distribution, NEW q \in Distribution
    PROVE  /\ ChosenPair(p, q)[1] \in Account
           /\ ChosenPair(p, q)[2] \in Account
           /\ ChosenPair(p, q)[1] < ChosenPair(p, q)[2]
  BY TransferConstants DEF Distribution, ChosenPair, Ordered, Account

\* Initially no lock is taken and no thread holds one.
LEMMA LockInvInit == Init => LockInv
  BY TransferConstants DEF Init, LockInv, TypeOK, PairOrdered, AuditTakesOne, MainIndex,
     HandlesUnique, Holds, HoldsSource, HoldsDest, Thread, Account, PC

\* Every step keeps the types and the order of the pair.
LEMMA TypesStep ==
    ASSUME LockInv, [Next]_vars
    PROVE  TypeOK' /\ PairOrdered' /\ AuditTakesOne' /\ MainIndex'
PROOF
<1> USE TransferConstants DEF LockInv, PC
<1>1. ASSUME NEW t \in Thread, CallTransfer(t) PROVE TypeOK' /\ PairOrdered' /\ AuditTakesOne' /\ MainIndex'
  <2>1. PICK p \in Distribution, q \in Distribution :
           /\ source' = [source EXCEPT ![t] = ChosenPair(p, q)[1]]
           /\ dest' = [dest EXCEPT ![t] = ChosenPair(p, q)[2]]
    BY <1>1 DEF CallTransfer
  <2> DEFINE s == ChosenPair(p, q)[1]
             d == ChosenPair(p, q)[2]
  <2>2. s \in Account /\ d \in Account /\ s < d
    BY ChosenPairOrdered
  <2> HIDE DEF s, d
  <2>3. source' = [source EXCEPT ![t] = s] /\ dest' = [dest EXCEPT ![t] = d]
    BY <2>1 DEF s, d
  <2>4. TypeOK'
    BY <1>1, <2>2, <2>3 DEF CallTransfer, Goto, TypeOK, main
  <2>5. PairOrdered'
    BY <1>1, <2>2, <2>3 DEF CallTransfer, Goto, TypeOK, PairOrdered
  <2>6. AuditTakesOne' /\ MainIndex'
    BY <1>1 DEF CallTransfer, Goto, TypeOK, AuditTakesOne, MainIndex, main
  <2> QED BY <2>4, <2>5, <2>6
<1>2. ASSUME NEW t \in Thread, CallAudit(t) PROVE TypeOK' /\ PairOrdered' /\ AuditTakesOne' /\ MainIndex'
  BY <1>2 DEF CallAudit, Goto, TypeOK, PairOrdered, AuditTakesOne, MainIndex, main
<1>3. ASSUME NEW t \in Thread, Expire(t) PROVE TypeOK' /\ PairOrdered' /\ AuditTakesOne' /\ MainIndex'
  BY <1>3 DEF Expire, TypeOK, PairOrdered, AuditTakesOne, MainIndex, main, locals
<1>4. ASSUME NEW t \in Thread, Break(t) PROVE TypeOK' /\ PairOrdered' /\ AuditTakesOne' /\ MainIndex'
  BY <1>4 DEF Break, Goto, TypeOK, PairOrdered, AuditTakesOne, MainIndex, main, locals
<1>5. ASSUME NEW t \in Thread, CasSource(t) \/ CasDest(t)
      PROVE TypeOK' /\ PairOrdered' /\ AuditTakesOne' /\ MainIndex'
  BY <1>5 DEF CasSource, CasDest, CompareAndSet, Goto, TypeOK, PairOrdered, AuditTakesOne, MainIndex, main, locals
<1>6. ASSUME NEW t \in Thread, TakeSource(t) \/ TakeDest(t)
      PROVE TypeOK' /\ PairOrdered' /\ AuditTakesOne' /\ MainIndex'
  BY <1>6 DEF TakeSource, TakeDest, Goto, TypeOK, PairOrdered, AuditTakesOne, MainIndex, main
<1>7. ASSUME NEW t \in Thread, DoTransfer(t) \/ RefuseTransfer(t)
      PROVE TypeOK' /\ PairOrdered' /\ AuditTakesOne' /\ MainIndex'
  BY <1>7 DEF DoTransfer, RefuseTransfer, Goto, TypeOK, PairOrdered, AuditTakesOne, MainIndex, main, locals
<1>8. ASSUME NEW t \in Thread, GiveSource(t) \/ GiveDest(t)
      PROVE TypeOK' /\ PairOrdered' /\ AuditTakesOne' /\ MainIndex'
  BY <1>8, SMTT(30) DEF GiveSource, GiveDest, GiveCell, Goto, TypeOK, PairOrdered, AuditTakesOne, MainIndex, main, locals
<1>9. ASSUME NEW t \in Thread, StoreSource(t) \/ StoreDest(t)
      PROVE TypeOK' /\ PairOrdered' /\ AuditTakesOne' /\ MainIndex'
  BY <1>9 DEF StoreSource, StoreDest, StoreFalse, Goto, TypeOK, PairOrdered, AuditTakesOne, MainIndex, main, locals
<1>10. ASSUME Join PROVE TypeOK' /\ PairOrdered' /\ AuditTakesOne' /\ MainIndex'
  <2>1. i \in Nat /\ 0 \in Account /\ (i + 1 < NumThreads => i + 1 \in Thread)
    BY DEF TypeOK, Thread, Account
  <2>2. TypeOK' /\ MainIndex'
    BY <1>10, <2>1 DEF Join, TypeOK, MainIndex, locals
  <2>3. PairOrdered' /\ AuditTakesOne'
    BY <1>10 DEF Join, PairOrdered, AuditTakesOne, locals
  <2> QED BY <2>2, <2>3
<1>11. ASSUME CheckSum PROVE TypeOK' /\ PairOrdered' /\ AuditTakesOne' /\ MainIndex'
  <2>1. i \in Account /\ i \in Nat /\ (i + 1 < NumberOfAccounts => i + 1 \in Account)
    BY <1>11 DEF CheckSum, TypeOK, MainIndex, Account
  <2>2. TypeOK' /\ MainIndex'
    BY <1>11, <2>1 DEF CheckSum, TypeOK, MainIndex, locals
  <2>3. PairOrdered' /\ AuditTakesOne'
    BY <1>11 DEF CheckSum, PairOrdered, AuditTakesOne, locals
  <2> QED BY <2>2, <2>3
<1>12. ASSUME UNCHANGED vars PROVE TypeOK' /\ PairOrdered' /\ AuditTakesOne' /\ MainIndex'
  BY <1>12 DEF vars, TypeOK, PairOrdered, AuditTakesOne, MainIndex, locals, main
<1> QED
  BY <1>1, <1>2, <1>3, <1>4, <1>5, <1>6, <1>7, <1>8, <1>9, <1>10, <1>11, <1>12 DEF Next, Step

\* Every step keeps the lock words and the handles in agreement.
LEMMA HandlesStep ==
    ASSUME LockInv, [Next]_vars
    PROVE  HandlesUnique'
PROOF
<1> USE TransferConstants DEF LockInv, PC, Holds, HoldsSource, HoldsDest
<1>1. ASSUME NEW t \in Thread, CallTransfer(t) PROVE HandlesUnique'
  <2>1. PICK s, d : source' = [source EXCEPT ![t] = s] /\ dest' = [dest EXCEPT ![t] = d]
    BY <1>1 DEF CallTransfer
  <2> QED BY <1>1, <2>1, SMTT(30) DEF CallTransfer, Goto, TypeOK, HandlesUnique
<1>2. ASSUME NEW t \in Thread, CallAudit(t) PROVE HandlesUnique'
  <2>1. PICK s : source' = [source EXCEPT ![t] = s]
    BY <1>2 DEF CallAudit
  <2>2. \A u \in Thread, a \in Account : Holds(u, a)' <=> Holds(u, a)
    BY <1>2, <2>1 DEF CallAudit, Goto, TypeOK
  <2> QED BY <1>2, <2>2 DEF CallAudit, HandlesUnique
<1>3. ASSUME NEW t \in Thread, Expire(t) PROVE HandlesUnique'
  BY <1>3 DEF Expire, HandlesUnique, locals
<1>4. ASSUME NEW t \in Thread, Break(t) PROVE HandlesUnique'
  BY <1>4, SMTT(30) DEF Break, Goto, TypeOK, HandlesUnique, locals
<1>5. ASSUME NEW t \in Thread, CasSource(t) PROVE HandlesUnique'
  <2>1. \A u \in Thread, a \in Account : Holds(u, a)' <=> Holds(u, a) \/ (u = t /\ a = source[t])
    BY <1>5 DEF CasSource, Goto, TypeOK, locals
  <2>2. ~at[source[t]] /\ at' = [at EXCEPT ![source[t]] = TRUE] /\ source[t] \in Account
    BY <1>5 DEF CasSource, CompareAndSet, TypeOK
  <2> QED BY <2>1, <2>2 DEF HandlesUnique, TypeOK
<1>6. ASSUME NEW t \in Thread, CasDest(t) PROVE HandlesUnique'
  BY <1>6 DEF CasDest, CompareAndSet, Goto, TypeOK, HandlesUnique, AuditTakesOne, locals
<1>7. ASSUME NEW t \in Thread, TakeSource(t) PROVE HandlesUnique'
  BY <1>7 DEF TakeSource, Goto, TypeOK, HandlesUnique
<1>8. ASSUME NEW t \in Thread, TakeDest(t) PROVE HandlesUnique'
  BY <1>8 DEF TakeDest, Goto, TypeOK, HandlesUnique
<1>9. ASSUME NEW t \in Thread, DoTransfer(t) \/ RefuseTransfer(t) PROVE HandlesUnique'
  BY <1>9 DEF DoTransfer, RefuseTransfer, Goto, TypeOK, HandlesUnique, locals
<1>10. ASSUME NEW t \in Thread, GiveSource(t) \/ GiveDest(t) PROVE HandlesUnique'
  BY <1>10 DEF GiveSource, GiveDest, GiveCell, Goto, TypeOK, HandlesUnique, locals
<1>11. ASSUME NEW t \in Thread, StoreSource(t) PROVE HandlesUnique'
  <2>1. pc[t] = "store_source" /\ source[t] \in Int /\ dest[t] \in Int
    BY <1>11 DEF StoreSource, Goto, TypeOK, Account
  <2>2. op[t] = "transfer" => source[t] # dest[t]
    BY <2>1 DEF PairOrdered
  <2>3. ASSUME NEW u \in Thread, NEW a \in Account
        PROVE  Holds(u, a)' <=> Holds(u, a) /\ ~(u = t /\ a = source[t])
    <3>1. CASE u = t
      BY <1>11, <2>2, <3>1 DEF StoreSource, Goto, TypeOK, locals
    <3>2. CASE u # t
      BY <1>11, <3>2 DEF StoreSource, Goto, TypeOK, locals
    <3> QED BY <3>1, <3>2
  <2>4. at' = [at EXCEPT ![source[t]] = FALSE] /\ source[t] \in Account /\ Holds(t, source[t])
    BY <1>11 DEF StoreSource, StoreFalse, Goto, TypeOK
  <2> QED BY <2>3, <2>4 DEF HandlesUnique, TypeOK
<1>12. ASSUME NEW t \in Thread, StoreDest(t) PROVE HandlesUnique'
  BY <1>12 DEF StoreDest, StoreFalse, Goto, TypeOK, AuditTakesOne, HandlesUnique, locals
<1>13. ASSUME Join \/ CheckSum PROVE HandlesUnique'
  BY <1>13 DEF Join, CheckSum, HandlesUnique, locals
<1>14. ASSUME UNCHANGED vars PROVE HandlesUnique'
  BY <1>14 DEF vars, HandlesUnique, locals
<1> QED
  BY <1>1, <1>2, <1>3, <1>4, <1>5, <1>6, <1>7, <1>8, <1>9, <1>10, <1>11, <1>12, <1>13, <1>14
  DEF Next, Step

\* For any number of threads and accounts, a lock word of BankTransfer is set exactly while
\* one thread is between the compare-and-set of acquire and the store of release.
THEOREM MutualExclusion == Spec => []HandlesUnique
PROOF
<1>1. Init => LockInv
  BY LockInvInit
<1>2. LockInv /\ [Next]_vars => LockInv'
  BY TypesStep, HandlesStep DEF LockInv
<1>3. LockInv => HandlesUnique
  BY DEF LockInv
<1> QED
  BY <1>1, <1>2, <1>3, PTL DEF Spec

-----------------------------------------------------------------------------
(* Where the entry of an account is, in terms of one thread *)

\* A thread that carries an entry holds its lock.
LEMMA CarrierHolds ==
    ASSUME LockInv, NEW t \in Thread, NEW a \in Account
    PROVE  t \in SourceCarriers[a] \/ t \in DestCarriers[a] => Holds(t, a)
  BY DEF SourceCarriers, DestCarriers, Holds, HoldsSource, HoldsDest

\* An entry is carried by at most one thread and in one role.
LEMMA OneCarrier ==
    ASSUME LockInv, NEW t \in Thread, NEW u \in Thread, NEW a \in Account
    PROVE  /\ t \in SourceCarriers[a] /\ u \in SourceCarriers[a] => t = u
           /\ t \in DestCarriers[a] /\ u \in DestCarriers[a] => t = u
           /\ ~(t \in SourceCarriers[a] /\ u \in DestCarriers[a])
PROOF
<1>1. /\ t \in SourceCarriers[a] \/ t \in DestCarriers[a] => Holds(t, a)
      /\ u \in SourceCarriers[a] \/ u \in DestCarriers[a] => Holds(u, a)
  BY CarrierHolds
<1>2. Holds(t, a) /\ Holds(u, a) => t = u
  BY DEF LockInv, HandlesUnique
<1>3. ~(t \in SourceCarriers[a] /\ t \in DestCarriers[a])
  <2>1. source[t] \in Int /\ dest[t] \in Int
    BY TransferConstants DEF LockInv, TypeOK, Account
  <2> QED BY <2>1 DEF LockInv, PairOrdered, SourceCarriers, DestCarriers
<1> QED BY <1>1, <1>2, <1>3

\* Carriers are threads.
LEMMA CarriersAreThreads ==
    \A a \in Account : SourceCarriers[a] \subseteq Thread /\ DestCarriers[a] \subseteq Thread
  BY DEF SourceCarriers, DestCarriers

\* ... after a step, too.
LEMMA CarriersAreThreadsNext ==
    \A a \in Account : SourceCarriers[a]' \subseteq Thread /\ DestCarriers[a]' \subseteq Thread
  BY DEF SourceCarriers, DestCarriers

\* The view of an account that a thread carries as its source.
LEMMA ViewOfSource ==
    ASSUME LockInv, NEW t \in Thread, NEW a \in Account, t \in SourceCarriers[a]
    PROVE  BankView[a] = sourceBalance[t]
PROOF
<1> DEFINE c == CHOOSE u \in SourceCarriers[a] : TRUE
<1>1. c \in SourceCarriers[a] /\ c \in Thread
  <2>1. c \in SourceCarriers[a]
    BY Zenon
  <2> QED BY <2>1, CarriersAreThreads
<1>2. c = t
  BY <1>1, OneCarrier
<1>3. DestCarriers[a] = {}
  BY OneCarrier, CarriersAreThreads
<1>4. BankView[a] = sourceBalance[c]
  BY <1>3 DEF BankView
<1> QED BY <1>2, <1>4

\* The view of an account that a thread carries as its destination.
LEMMA ViewOfDest ==
    ASSUME LockInv, NEW t \in Thread, NEW a \in Account, t \in DestCarriers[a]
    PROVE  BankView[a] = destBalance[t]
PROOF
<1> DEFINE c == CHOOSE u \in DestCarriers[a] : TRUE
<1>1. c \in DestCarriers[a] /\ c \in Thread
  <2>1. c \in DestCarriers[a]
    BY Zenon
  <2> QED BY <2>1, CarriersAreThreads
<1>2. c = t
  BY <1>1, OneCarrier
<1>3. SourceCarriers[a] = {}
  BY OneCarrier, CarriersAreThreads
<1>4. BankView[a] = destBalance[c]
  BY <1>3 DEF BankView
<1> QED BY <1>2, <1>4

\* The view of an account that nobody carries.
LEMMA ViewOfCell ==
    ASSUME NEW a \in Account,
           SourceCarriers[a] = {}, DestCarriers[a] = {}
    PROVE  BankView[a] = cell[a]
  BY DEF BankView

\* The three cases together, as a fact about one state and about the next.
ViewOK ==
    \A a \in Account :
        /\ \A t \in SourceCarriers[a] : BankView[a] = sourceBalance[t]
        /\ \A t \in DestCarriers[a] : BankView[a] = destBalance[t]
        /\ SourceCarriers[a] = {} /\ DestCarriers[a] = {} => BankView[a] = cell[a]

\* The view is where the carriers say it is.
LEMMA ViewCases == LockInv => ViewOK
  BY ViewOfSource, ViewOfDest, ViewOfCell, CarriersAreThreads DEF ViewOK

\* ... after a step, too.
LEMMA ViewCasesNext == LockInv' => ViewOK'
  BY ViewCases, PTL

\* Two views that agree on every account are equal.
LEMMA ViewExtensional ==
    ASSUME \A a \in Account : BankView[a]' = BankView[a]
    PROVE  BankView' = BankView
PROOF
<1>1. BankView = [a \in Account |-> BankView[a]]
  BY DEF BankView
<1>2. BankView' = [a \in Account |-> BankView[a]']
  BY DEF BankView
<1> HIDE DEF BankView
<1> QED BY <1>1, <1>2

-----------------------------------------------------------------------------
(* Every step is a transfer of Bank or leaves the view alone *)

\* Steps that move no entry between a cell and a thread keep the view.
LEMMA QuietStep ==
    ASSUME LockInv, NEW t \in Thread,
           \/ CallTransfer(t) \/ CallAudit(t) \/ Break(t) \/ Expire(t)
           \/ CasSource(t) \/ CasDest(t) \/ RefuseTransfer(t)
           \/ StoreSource(t) \/ StoreDest(t)
    PROVE  BankView' = BankView
PROOF
<1>1. UNCHANGED <<cell, sourceBalance, destBalance>>
  BY DEF CallTransfer, CallAudit, Break, Expire, CasSource, CasDest, RefuseTransfer,
         StoreSource, StoreDest, locals
<1>2. ASSUME NEW u \in Thread, NEW a \in Account
      PROVE  /\ u \in SourceCarriers[a]' <=> u \in SourceCarriers[a]
             /\ u \in DestCarriers[a]' <=> u \in DestCarriers[a]
  <2>1. CASE u # t
    BY <2>1 DEF CallTransfer, CallAudit, Break, Expire, CasSource, CasDest, RefuseTransfer,
         StoreSource, StoreDest, Goto, locals, SourceCarriers, DestCarriers, LockInv, TypeOK
  <2>2. CASE u = t
    <3>1. CASE CallTransfer(t) \/ CallAudit(t)
      BY <2>2, <3>1 DEF CallTransfer, CallAudit, Goto, SourceCarriers, DestCarriers, LockInv, TypeOK
    <3>2. CASE Break(t) \/ Expire(t) \/ RefuseTransfer(t)
      BY <2>2, <3>2 DEF Break, Expire, RefuseTransfer, Goto, locals, SourceCarriers, DestCarriers, LockInv, TypeOK
    <3>3. CASE CasSource(t) \/ CasDest(t)
      BY <2>2, <3>3 DEF CasSource, CasDest, Goto, locals, SourceCarriers, DestCarriers, LockInv, TypeOK
    <3>4. CASE StoreSource(t) \/ StoreDest(t)
      BY <2>2, <3>4 DEF StoreSource, StoreDest, Goto, locals, SourceCarriers, DestCarriers, LockInv, TypeOK
    <3> QED BY <3>1, <3>2, <3>3, <3>4
  <2> QED BY <2>1, <2>2
<1>3. SourceCarriers' = SourceCarriers /\ DestCarriers' = DestCarriers
  BY <1>2 DEF SourceCarriers, DestCarriers
<1> QED BY <1>1, <1>3 DEF BankView

\* main reads cells and nothing else.
LEMMA MainStep ==
    ASSUME Join \/ CheckSum \/ UNCHANGED vars
    PROVE  BankView' = BankView
PROOF
<1>1. UNCHANGED <<cell, pc, op, source, dest, sourceBalance, destBalance>>
  BY DEF Join, CheckSum, vars, locals
<1>2. SourceCarriers' = SourceCarriers /\ DestCarriers' = DestCarriers
  BY <1>1 DEF SourceCarriers, DestCarriers
<1> QED BY <1>1, <1>2 DEF BankView

\* Reading the cell of the source moves its entry to the thread, writing it moves it back.
LEMMA SourceMoves ==
    ASSUME LockInv, LockInv', NEW t \in Thread, TakeSource(t) \/ GiveSource(t)
    PROVE  BankView' = BankView
PROOF
<1>0. PICK s \in Account : s = source[t]
  BY DEF LockInv, TypeOK
<1>1. s \in Account /\ ViewOK /\ ViewOK'
  BY ViewCases, ViewCasesNext
<1>2. /\ UNCHANGED <<op, source, dest, destBalance>>
      /\ \A u \in Thread \ {t} : pc'[u] = pc[u] /\ sourceBalance'[u] = sourceBalance[u]
  BY DEF TakeSource, GiveSource, Goto, locals, LockInv, TypeOK
<1>3. \A a \in Account \ {s} : cell'[a] = cell[a]
  BY <1>0 DEF TakeSource, GiveSource, GiveCell, LockInv, TypeOK
<1>4. \A u \in Thread, a \in Account : u \in DestCarriers[a]' <=> u \in DestCarriers[a]
  BY <1>2 DEF DestCarriers, TakeSource, GiveSource, Goto, LockInv, TypeOK, AuditTakesOne
<1>5. \A u \in Thread, a \in Account :
         u # t \/ a # s => (u \in SourceCarriers[a]' <=> u \in SourceCarriers[a])
  BY <1>0, <1>2 DEF SourceCarriers
<1>6. DestCarriers' = DestCarriers
  BY <1>4 DEF DestCarriers
<1>7. ASSUME NEW a \in Account \ {s} PROVE BankView[a]' = BankView[a]
  <2>1. SourceCarriers[a]' = SourceCarriers[a] /\ t \notin SourceCarriers[a]
    BY <1>0, <1>5 DEF SourceCarriers
  <2>2. CASE SourceCarriers[a] # {}
    <3>1. PICK u \in SourceCarriers[a] : u \in Thread \ {t}
      BY <2>1, <2>2, CarriersAreThreads
    <3> QED BY <3>1, <2>1, <1>1, <1>2 DEF ViewOK
  <2>3. CASE SourceCarriers[a] = {}
    BY <2>1, <2>3, <1>2, <1>3, <1>6 DEF BankView
  <2> QED BY <2>2, <2>3
<1>8. BankView[s]' = BankView[s]
  <2>1. CASE TakeSource(t)
    <3>1. t \in SourceCarriers[s]'
      BY <2>1, <1>0 DEF TakeSource, Goto, SourceCarriers, LockInv, TypeOK
    <3>2. SourceCarriers[s] = {} /\ DestCarriers[s] = {}
      <4>1. Holds(t, s) /\ t \notin SourceCarriers[s] /\ t \notin DestCarriers[s]
        BY <2>1, <1>0 DEF TakeSource, Goto, Holds, HoldsSource, SourceCarriers, DestCarriers
      <4>2. \A u \in Thread : Holds(u, s) => u = t
        BY <4>1, <1>1 DEF LockInv, HandlesUnique
      <4> QED BY <4>1, <4>2, <1>1, CarrierHolds, CarriersAreThreads
    <3>3. sourceBalance'[t] = cell[s]
      BY <2>1, <1>0 DEF TakeSource, LockInv, TypeOK
    <3>4. BankView[s]' = sourceBalance'[t]
      BY <3>1, <1>1, <1>2 DEF ViewOK
    <3>5. BankView[s] = cell[s]
      BY <3>2, <1>1 DEF ViewOK
    <3> QED BY <3>3, <3>4, <3>5
  <2>2. CASE GiveSource(t)
    <3>1. t \in SourceCarriers[s] /\ t \notin SourceCarriers[s]'
      BY <2>2, <1>0 DEF GiveSource, Goto, SourceCarriers, LockInv, TypeOK
    <3>2. SourceCarriers[s]' = {}
      BY <3>1, <1>5, OneCarrier, CarriersAreThreads, CarriersAreThreadsNext
    <3>3. DestCarriers[s]' = {}
      BY <3>1, <1>6, OneCarrier, CarriersAreThreads
    <3>4. cell'[s] = sourceBalance[t]
      BY <2>2, <1>0 DEF GiveSource, GiveCell, LockInv, TypeOK
    <3>5. BankView[s]' = cell'[s]
      BY <3>2, <3>3, <1>1, <1>2 DEF ViewOK
    <3>6. BankView[s] = sourceBalance[t]
      BY <3>1, <1>1 DEF ViewOK
    <3> QED BY <3>4, <3>5, <3>6
  <2> QED BY <2>1, <2>2
<1> QED BY <1>7, <1>8, ViewExtensional

\* The same for the destination.
LEMMA DestMoves ==
    ASSUME LockInv, LockInv', NEW t \in Thread, TakeDest(t) \/ GiveDest(t)
    PROVE  BankView' = BankView
PROOF
<1>0. PICK d \in Account : d = dest[t]
  BY DEF LockInv, TypeOK
<1>1. d \in Account /\ ViewOK /\ ViewOK'
  BY ViewCases, ViewCasesNext
<1>2. /\ UNCHANGED <<op, source, dest, sourceBalance>>
      /\ \A u \in Thread \ {t} : pc'[u] = pc[u] /\ destBalance'[u] = destBalance[u]
      /\ op[t] = "transfer"
  BY DEF TakeDest, GiveDest, Goto, locals, LockInv, TypeOK, AuditTakesOne
<1>3. \A a \in Account \ {d} : cell'[a] = cell[a]
  BY <1>0 DEF TakeDest, GiveDest, GiveCell, LockInv, TypeOK
<1>4. \A u \in Thread, a \in Account : u \in SourceCarriers[a]' <=> u \in SourceCarriers[a]
  BY <1>2 DEF SourceCarriers, TakeDest, GiveDest, Goto, LockInv, TypeOK
<1>5. \A u \in Thread, a \in Account :
         u # t \/ a # d => (u \in DestCarriers[a]' <=> u \in DestCarriers[a])
  BY <1>0, <1>2 DEF DestCarriers
<1>6. SourceCarriers' = SourceCarriers
  BY <1>4 DEF SourceCarriers
<1>7. ASSUME NEW a \in Account \ {d} PROVE BankView[a]' = BankView[a]
  <2>1. DestCarriers[a]' = DestCarriers[a] /\ t \notin DestCarriers[a]
    BY <1>0, <1>5 DEF DestCarriers
  <2>2. CASE DestCarriers[a] # {}
    <3>1. PICK u \in DestCarriers[a] : u \in Thread \ {t}
      BY <2>1, <2>2, CarriersAreThreads
    <3> QED BY <3>1, <2>1, <1>1, <1>2 DEF ViewOK
  <2>3. CASE DestCarriers[a] = {}
    BY <2>1, <2>3, <1>2, <1>3, <1>6 DEF BankView
  <2> QED BY <2>2, <2>3
<1>8. BankView[d]' = BankView[d]
  <2>1. CASE TakeDest(t)
    <3>1. t \in DestCarriers[d]'
      BY <2>1, <1>0, <1>2 DEF TakeDest, Goto, DestCarriers, LockInv, TypeOK
    <3>2. SourceCarriers[d] = {} /\ DestCarriers[d] = {}
      <4>1. Holds(t, d) /\ t \notin SourceCarriers[d] /\ t \notin DestCarriers[d]
        <5>1. source[t] # dest[t]
          <6>1. source[t] \in Int /\ dest[t] \in Int
            BY TransferConstants DEF LockInv, TypeOK, Account
          <6> QED BY <6>1, <2>1, <1>2 DEF TakeDest, Goto, LockInv, PairOrdered
        <5> QED BY <5>1, <2>1, <1>0, <1>2 DEF TakeDest, Goto, Holds, HoldsDest, SourceCarriers, DestCarriers
      <4>2. \A u \in Thread : Holds(u, d) => u = t
        BY <4>1 DEF LockInv, HandlesUnique
      <4> QED BY <4>1, <4>2, CarrierHolds, CarriersAreThreads
    <3>3. destBalance'[t] = cell[d]
      BY <2>1, <1>0 DEF TakeDest, LockInv, TypeOK
    <3>4. BankView[d]' = destBalance'[t]
      BY <3>1, <1>1 DEF ViewOK
    <3>5. BankView[d] = cell[d]
      BY <3>2, <1>1 DEF ViewOK
    <3> QED BY <3>3, <3>4, <3>5
  <2>2. CASE GiveDest(t)
    <3>1. t \in DestCarriers[d] /\ t \notin DestCarriers[d]'
      BY <2>2, <1>0, <1>2 DEF GiveDest, Goto, DestCarriers, LockInv, TypeOK
    <3>2. DestCarriers[d]' = {}
      BY <3>1, <1>5, OneCarrier, CarriersAreThreads, CarriersAreThreadsNext
    <3>3. SourceCarriers[d]' = {}
      BY <3>1, <1>6, OneCarrier, CarriersAreThreads
    <3>4. cell'[d] = destBalance[t]
      BY <2>2, <1>0 DEF GiveDest, GiveCell, LockInv, TypeOK
    <3>5. BankView[d]' = cell'[d]
      BY <3>2, <3>3, <1>1 DEF ViewOK
    <3>6. BankView[d] = destBalance[t]
      BY <3>1, <1>1 DEF ViewOK
    <3> QED BY <3>4, <3>5, <3>6
  <2> QED BY <2>1, <2>2
<1> QED BY <1>7, <1>8, ViewExtensional

\* The step of the ghost call do_transfer moves the amount from one account to another.
LEMMA TransferMoves ==
    ASSUME LockInv, LockInv', NEW t \in Thread, DoTransfer(t)
    PROVE  \E s, d \in Account :
              /\ s # d
              /\ BankView[s] = sourceBalance[t]
              /\ BankView' = [BankView EXCEPT ![s] = @ - Amount, ![d] = @ + Amount]
PROOF
<1>1. PICK s \in Account, d \in Account : s = source[t] /\ d = dest[t]
  BY DEF LockInv, TypeOK
<1>2. ViewOK /\ ViewOK'
  BY ViewCases, ViewCasesNext
<1>3. /\ pc[t] = "transfer" /\ pc'[t] = "give_source" /\ op[t] = "transfer"
      /\ UNCHANGED <<cell, op, source, dest>>
      /\ \A u \in Thread \ {t} : pc'[u] = pc[u]
      /\ sourceBalance' = [sourceBalance EXCEPT ![t] = @ - Amount]
      /\ destBalance' = [destBalance EXCEPT ![t] = @ + Amount]
  BY DEF DoTransfer, Goto, LockInv, TypeOK, AuditTakesOne
<1>4. SourceCarriers' = SourceCarriers /\ DestCarriers' = DestCarriers
  BY <1>3 DEF SourceCarriers, DestCarriers
<1>5. t \in SourceCarriers[s] /\ t \in DestCarriers[d]
  BY <1>1, <1>3 DEF SourceCarriers, DestCarriers
<1>6. s # d
  <2>1. s \in Int /\ d \in Int
    BY TransferConstants DEF Account
  <2> QED BY <2>1, <1>1, <1>3 DEF LockInv, PairOrdered
<1>7. sourceBalance[t] \in Int /\ destBalance[t] \in Int /\ Amount \in Nat
  BY TransferConstants DEF LockInv, TypeOK
<1>8. BankView[s] = sourceBalance[t] /\ BankView[d] = destBalance[t]
  BY <1>2, <1>5 DEF ViewOK
<1>9. BankView[s]' = sourceBalance[t] - Amount /\ BankView[d]' = destBalance[t] + Amount
  <2>1. sourceBalance'[t] = sourceBalance[t] - Amount /\ destBalance'[t] = destBalance[t] + Amount
    BY <1>3 DEF LockInv, TypeOK
  <2> QED BY <2>1, <1>2, <1>4, <1>5 DEF ViewOK
<1>10. ASSUME NEW a \in Account, a # s, a # d PROVE BankView[a]' = BankView[a]
  <2>1. t \notin SourceCarriers[a] /\ t \notin DestCarriers[a]
    BY <1>1, <1>10 DEF SourceCarriers, DestCarriers
  <2>2. \A u \in Thread \ {t} : sourceBalance'[u] = sourceBalance[u] /\ destBalance'[u] = destBalance[u]
    BY <1>3 DEF LockInv, TypeOK
  <2>3. CASE SourceCarriers[a] # {}
    BY <2>1, <2>2, <2>3, <1>2, <1>4, CarriersAreThreads DEF ViewOK
  <2>4. CASE SourceCarriers[a] = {} /\ DestCarriers[a] # {}
    BY <2>1, <2>2, <2>4, <1>2, <1>4, CarriersAreThreads DEF ViewOK
  <2>5. CASE SourceCarriers[a] = {} /\ DestCarriers[a] = {}
    BY <2>5, <1>2, <1>3, <1>4 DEF ViewOK
  <2> QED BY <2>3, <2>4, <2>5
<1>11. BankView' = [BankView EXCEPT ![s] = @ - Amount, ![d] = @ + Amount]
  <2>1. BankView' = [a \in Account |-> BankView[a]']
    BY DEF BankView
  <2>2. BankView = [a \in Account |-> BankView[a]]
    BY DEF BankView
  <2> HIDE DEF BankView
  <2> QED BY <2>1, <2>2, <1>6, <1>8, <1>9, <1>10
<1> QED BY <1>1, <1>6, <1>8, <1>11

\* Every account has a balance.
LEMMA ViewType == LockInv => BankView \in [Account -> Int]
PROOF
<1> SUFFICES ASSUME LockInv, NEW a \in Account PROVE BankView[a] \in Int
  BY DEF BankView
<1>1. ViewOK
  BY ViewCases
<1>2. CASE SourceCarriers[a] # {}
  BY <1>1, <1>2, CarriersAreThreads DEF ViewOK, LockInv, TypeOK
<1>3. CASE DestCarriers[a] # {}
  BY <1>1, <1>3, CarriersAreThreads DEF ViewOK, LockInv, TypeOK
<1>4. CASE SourceCarriers[a] = {} /\ DestCarriers[a] = {}
  BY <1>1, <1>4 DEF ViewOK, LockInv, TypeOK
<1> QED BY <1>2, <1>3, <1>4

\* With the test for funds the step is the transfer of Bank.
LEMMA TransferStep ==
    ASSUME ChecksFunds, LockInv, LockInv', NEW t \in Thread, DoTransfer(t)
    PROVE  AbstractBank!Next
PROOF
<1>1. PICK s \in Account, d \in Account :
        /\ s # d
        /\ BankView[s] = sourceBalance[t]
        /\ BankView' = [BankView EXCEPT ![s] = @ - Amount, ![d] = @ + Amount]
  BY TransferMoves
<1>2. BankView \in [Account -> Int] /\ Amount \in Nat
  BY ViewType, TransferConstants
<1>3. Amount <= BankView[s]
  BY <1>1 DEF DoTransfer, Covered
<1>4. BankView'[s] = BankView[s] - Amount
  BY <1>1, <1>2
<1>5. BankView[s] - BankView'[s] = Amount
  BY <1>2, <1>4
<1>6. AbstractBank!Transfer(s, d, BankView[s] - BankView'[s])
  BY <1>1, <1>2, <1>3, <1>5 DEF AbstractBank!Transfer
<1> QED BY <1>6 DEF AbstractBank!Next, AbstractBank!Account, Account

\* With the test for funds in place, as in Impl.i.dfy, the threads and their mutexes
\* implement the bank: every transfer takes effect at once, is covered, and no step of any
\* thread shows another one half of a transfer.
THEOREM TransfersRefineBank ==
    ASSUME ChecksFunds
    PROVE  Spec => RefinesBank
PROOF
<1>1. Init => AbstractBank!Init
  <2> SUFFICES ASSUME Init PROVE AbstractBank!Init
    OBVIOUS
  <2>1. BankView = [a \in Account |-> InitBalance]
    BY DEF Init, BankView, SourceCarriers, DestCarriers
  <2>2. BankView \in [Account -> Nat]
    BY <2>1, TransferConstants
  <2>3. AbstractBank!Inv
    BY <2>1 DEF AbstractBank!Inv, FixedTotalMoney, AbstractBank!Sum, Sum
  <2> QED BY <2>2, <2>3 DEF AbstractBank!Init, AbstractBank!Account, Account
<1>2. ASSUME LockInv, LockInv', [Next]_vars
      PROVE  [AbstractBank!Next]_BankView
  BY <1>2, QuietStep, MainStep, SourceMoves, DestMoves, TransferStep DEF Next, Step
<1>3. Init => LockInv
  BY LockInvInit
<1>4. LockInv /\ [Next]_vars => LockInv'
  BY TypesStep, HandlesStep DEF LockInv
<1> QED
  BY <1>1, <1>2, <1>3, <1>4, PTL DEF Spec, RefinesBank, AbstractBank!Spec
-----------------------------------------------------------------------------
(* What Sum computes *)

\* Induction over the natural numbers, for the set of numbers with a property.
LEMMA SetInduction ==
    ASSUME NEW S, 0 \in S, \A n \in Nat : n \in S => n + 1 \in S
    PROVE  Nat \subseteq S
<1> SUFFICES ASSUME Nat \ S # {} PROVE FALSE
  OBVIOUS
<1>1. PICK x \in Nat \ S : \A y \in Nat \ S : ~ (<<y, x>> \in OpToRel(<, Nat))
  BY NatLessThanWellFounded, WFMin
<1>2. \A y \in Nat \ S : ~ (y < x)
  BY <1>1 DEF OpToRel
<1>3. x # 0 /\ x - 1 \in Nat /\ x - 1 < x
  OBVIOUS
<1>4. x - 1 \in S
  BY <1>2, <1>3
<1>5. (x - 1) + 1 \in S
  BY <1>3, <1>4
<1> QED
  BY <1>5

\* The recursive function inside Sum.
IsSum(g, numbers, n) == g = [k \in 0 .. n |-> IF k = 0 THEN 0 ELSE g[k - 1] + numbers[k - 1]]

\* There is such a function for every n.
LEMMA SumExists ==
    ASSUME NEW numbers, NEW n \in Nat
    PROVE  \E g : IsSum(g, numbers, n)
<1> DEFINE S == {m \in Nat : \E g : IsSum(g, numbers, m)}
<1>1. 0 \in S
  <2> DEFINE g == [k \in 0 .. 0 |-> 0]
  <2>1. IsSum(g, numbers, 0)
    BY DEF IsSum
  <2> QED
    BY <2>1
<1>2. ASSUME NEW m \in Nat, m \in S
      PROVE  m + 1 \in S
  <2>1. PICK g : IsSum(g, numbers, m)
    BY <1>2
  <2> DEFINE h == [k \in 0 .. m + 1 |-> IF k = m + 1 THEN g[m] + numbers[m] ELSE g[k]]
  <2>2. IsSum(h, numbers, m + 1)
    <3>1. \A k \in 0 .. m : g[k] = IF k = 0 THEN 0 ELSE g[k - 1] + numbers[k - 1]
      BY <2>1 DEF IsSum
    <3>2. ASSUME NEW k \in 0 .. m + 1
          PROVE  h[k] = IF k = 0 THEN 0 ELSE h[k - 1] + numbers[k - 1]
      <4>1. CASE k = m + 1
        <5>1. k - 1 = m /\ k # 0
          BY <4>1
        <5> QED
          BY <4>1, <5>1
      <4>2. CASE k \in 1 .. m
        BY <3>1, <4>2
      <4>3. CASE k = 0
        BY <3>1, <4>3
      <4> QED
        BY <4>1, <4>2, <4>3
    <3> HIDE DEF h
    <3>3. h = [k \in 0 .. m + 1 |-> h[k]]
      BY DEF h
    <3> QED
      BY <3>2, <3>3 DEF IsSum
  <2> QED
    BY <2>2
<1> HIDE DEF S
<1>3. Nat \subseteq S
  BY <1>1, <1>2, SetInduction
<1> QED
  BY <1>3 DEF S

\* All such functions agree where they are both defined.
LEMMA SumUnique ==
    ASSUME NEW numbers, NEW n \in Nat, NEW m \in Nat, NEW g, NEW h,
           IsSum(g, numbers, n), IsSum(h, numbers, m)
    PROVE  \A k \in Nat : k <= n /\ k <= m => g[k] = h[k]
<1> DEFINE S == {k \in Nat : k <= n /\ k <= m => g[k] = h[k]}
<1>1. /\ \A k \in 0 .. n : g[k] = IF k = 0 THEN 0 ELSE g[k - 1] + numbers[k - 1]
      /\ \A k \in 0 .. m : h[k] = IF k = 0 THEN 0 ELSE h[k - 1] + numbers[k - 1]
  BY DEF IsSum
<1>2. 0 \in S
  BY <1>1
<1>3. ASSUME NEW k \in Nat, k \in S PROVE k + 1 \in S
  <2> SUFFICES ASSUME k + 1 <= n, k + 1 <= m PROVE g[k + 1] = h[k + 1]
    OBVIOUS
  <2>1. g[k] = h[k] /\ k + 1 \in 0 .. n /\ k + 1 \in 0 .. m /\ k + 1 # 0 /\ (k + 1) - 1 = k
    BY <1>3
  <2> QED
    BY <1>1, <2>1
<1> HIDE DEF S
<1>4. Nat \subseteq S
  BY <1>2, <1>3, SetInduction
<1> QED
  BY <1>4 DEF S

\* What Sum computes: nothing for no numbers, and one number more at each step.
LEMMA SumRecursion ==
    ASSUME NEW numbers, NEW n \in Nat
    PROVE  /\ Sum(numbers, 0) = 0
           /\ Sum(numbers, n + 1) = Sum(numbers, n) + numbers[n]
<1> DEFINE F(m) == CHOOSE g : IsSum(g, numbers, m)
<1>1. \A m \in Nat : IsSum(F(m), numbers, m)
  BY SumExists
<1>2. \A m \in Nat : Sum(numbers, m) = F(m)[m]
  BY DEF Sum, IsSum
<1> HIDE DEF F
<1>3. F(0)[0] = 0
  BY <1>1 DEF IsSum
<1>4. F(n + 1)[n + 1] = F(n + 1)[n] + numbers[n]
  <2>1. IsSum(F(n + 1), numbers, n + 1) /\ n + 1 \in 0 .. n + 1 /\ n + 1 # 0 /\ (n + 1) - 1 = n
    BY <1>1
  <2> QED
    BY <2>1 DEF IsSum
<1>5. F(n + 1)[n] = F(n)[n]
  BY <1>1, SumUnique
<1> QED
  BY <1>2, <1>3, <1>4, <1>5
\* A sum of integers is an integer.
LEMMA SumType ==
    ASSUME NEW N \in Nat, NEW f \in [0 .. N - 1 -> Int]
    PROVE  \A n \in 0 .. N : Sum(f, n) \in Int
<1> DEFINE S == {n \in Nat : n <= N => Sum(f, n) \in Int}
<1>1. 0 \in S
  BY SumRecursion
<1>2. ASSUME NEW n \in Nat, n \in S PROVE n + 1 \in S
  <2> SUFFICES ASSUME n + 1 <= N PROVE Sum(f, n + 1) \in Int
    OBVIOUS
  <2>1. f[n] \in Int /\ Sum(f, n) \in Int
    BY <1>2
  <2>2. Sum(f, n + 1) = Sum(f, n) + f[n]
    BY SumRecursion
  <2> QED
    BY <2>1, <2>2
<1> HIDE DEF S
<1>3. Nat \subseteq S
  BY <1>1, <1>2, SetInduction
<1> QED
  BY <1>3 DEF S

\* A sum of natural numbers is at least as large as each of them.
LEMMA SumBound ==
    ASSUME NEW N \in Nat, NEW f \in [0 .. N - 1 -> Nat]
    PROVE  \A n \in 0 .. N : Sum(f, n) \in Nat /\ \A a \in 0 .. n - 1 : f[a] <= Sum(f, n)
<1> DEFINE S == {n \in Nat : n <= N => Sum(f, n) \in Nat /\ \A a \in 0 .. n - 1 : f[a] <= Sum(f, n)}
<1>1. 0 \in S
  BY SumRecursion
<1>2. ASSUME NEW n \in Nat, n \in S PROVE n + 1 \in S
  <2> SUFFICES ASSUME n + 1 <= N
               PROVE  /\ Sum(f, n + 1) \in Nat
                      /\ \A a \in 0 .. (n + 1) - 1 : f[a] <= Sum(f, n + 1)
    OBVIOUS
  <2>1. f[n] \in Nat /\ Sum(f, n) \in Nat /\ Sum(f, n + 1) = Sum(f, n) + f[n]
    BY <1>2, SumRecursion
  <2>2. \A a \in 0 .. n - 1 : f[a] \in Nat /\ f[a] <= Sum(f, n)
    BY <1>2
  <2> QED
    BY <2>1, <2>2
<1> HIDE DEF S
<1>3. Nat \subseteq S
  BY <1>1, <1>2, SetInduction
<1> QED
  BY <1>3 DEF S

\* Changing one number changes the sum by the difference.
LEMMA SumUpdate ==
    ASSUME NEW N \in Nat, NEW f \in [0 .. N - 1 -> Int], NEW s \in 0 .. N - 1, NEW v \in Int
    PROVE  Sum([f EXCEPT ![s] = v], N) = Sum(f, N) - f[s] + v
<1> DEFINE g == [f EXCEPT ![s] = v]
           S == {n \in Nat : n <= N => Sum(g, n) = IF s < n THEN Sum(f, n) - f[s] + v ELSE Sum(f, n)}
<1>0. g \in [0 .. N - 1 -> Int] /\ g[s] = v /\ \A a \in 0 .. N - 1 : a # s => g[a] = f[a]
  OBVIOUS
<1> HIDE DEF g
<1>1. 0 \in S
  BY SumRecursion
<1>2. ASSUME NEW n \in Nat, n \in S PROVE n + 1 \in S
  <2> SUFFICES ASSUME n + 1 <= N
               PROVE  Sum(g, n + 1) = IF s < n + 1 THEN Sum(f, n + 1) - f[s] + v ELSE Sum(f, n + 1)
    OBVIOUS
  <2>1. Sum(g, n + 1) = Sum(g, n) + g[n] /\ Sum(f, n + 1) = Sum(f, n) + f[n]
    BY SumRecursion
  <2>2. Sum(g, n) = IF s < n THEN Sum(f, n) - f[s] + v ELSE Sum(f, n)
    BY <1>2
  <2>3. Sum(f, n) \in Int /\ f[n] \in Int /\ f[s] \in Int /\ n \in 0 .. N - 1
    BY SumType
  <2> QED
    BY <1>0, <2>1, <2>2, <2>3
<1> HIDE DEF S
<1>3. Nat \subseteq S
  BY <1>1, <1>2, SetInduction
<1>4. Sum(g, N) = IF s < N THEN Sum(f, N) - f[s] + v ELSE Sum(f, N)
  BY <1>3 DEF S
<1> QED
  BY <1>4 DEF g
-----------------------------------------------------------------------------
(* No money appears or disappears *)

\* main joins the workers in order, and adds up what does not change any more.
MainInv ==
    /\ mainpc = "join" => tol = 0 /\ \A t \in Thread : t < i => pc[t] = "done"
    /\ mainpc # "join" => /\ \A t \in Thread : pc[t] = "done"
                          /\ i <= NumberOfAccounts
                          /\ tol = Sum(cell, i)
    /\ mainpc = "exit" => i = NumberOfAccounts

\* The balances add up, and with the test for funds in place none is negative.
TotalInv ==
    /\ Sum(BankView, NumberOfAccounts) = FixedTotalMoney
    /\ ChecksFunds => BankView \in [Account -> Nat]

\* What is preserved of the money.
MoneyInv == LockInv /\ MainInv /\ TotalInv

\* Initially every account has its first balance and main waits for worker 0.
LEMMA MoneyInvInit == Init => MoneyInv
PROOF
<1> SUFFICES ASSUME Init PROVE MoneyInv
  OBVIOUS
<1>1. BankView = [a \in Account |-> InitBalance]
  BY DEF Init, BankView, SourceCarriers, DestCarriers
<1>2. TotalInv
  BY <1>1, TransferConstants DEF TotalInv, FixedTotalMoney
<1>3. MainInv
  BY DEF Init, MainInv, Thread
<1> QED BY <1>2, <1>3, LockInvInit DEF MoneyInv

\* A worker that has stopped takes no step; main reads cells only when all have stopped.
LEMMA MainInvStep ==
    ASSUME LockInv, MainInv, [Next]_vars
    PROVE  MainInv'
PROOF
<1>0. i \in Nat /\ tol \in Int /\ NumberOfAccounts \in Nat \ {0} /\ NumThreads \in Nat \ {0}
  BY TransferConstants DEF LockInv, TypeOK
<1>1. ASSUME NEW t \in Thread, Step(t) \/ Expire(t) PROVE MainInv'
  <2>1. UNCHANGED main
    BY <1>1 DEF Step, Expire, CallTransfer, CallAudit, Break, CasSource, TakeSource, CasDest,
       TakeDest, DoTransfer, RefuseTransfer, GiveSource, StoreSource, GiveDest, StoreDest
  <2>2. CASE Step(t)
    <3>1. pc[t] # "done" /\ \A u \in Thread : pc[u] = "done" => pc'[u] = "done"
      BY <2>2 DEF Step, CallTransfer, CallAudit, Break, CasSource, TakeSource, CasDest, TakeDest,
         DoTransfer, RefuseTransfer, GiveSource, StoreSource, GiveDest, StoreDest, Goto, LockInv, TypeOK
    <3>2. mainpc = "join"
      BY <3>1 DEF MainInv
    <3> QED BY <2>1, <3>1, <3>2 DEF MainInv, main
  <2>3. CASE Expire(t)
    BY <2>1, <2>3 DEF Expire, MainInv, main
  <2> QED BY <1>1, <2>2, <2>3
<1>2. ASSUME Join PROVE MainInv'
  <2>1. mainpc = "join" /\ pc[i] = "done" /\ i \in Thread /\ tol = 0
        /\ UNCHANGED <<cell, pc, tol>>
        /\ \A t \in Thread : t < i + 1 => pc[t] = "done"
    BY <1>0, <1>2 DEF Join, LockInv, MainIndex, MainInv, Thread
  <2>2. CASE i + 1 < NumThreads
    BY <1>2, <2>1, <2>2 DEF Join, MainInv
  <2>3. CASE ~(i + 1 < NumThreads)
    <3>1. \A t \in Thread : pc[t] = "done"
      BY <1>0, <2>1, <2>3 DEF Thread
    <3>2. Sum(cell', 0) = 0
      BY SumRecursion
    <3> QED BY <1>0, <1>2, <2>1, <2>3, <3>1, <3>2 DEF Join, MainInv
  <2> QED BY <2>2, <2>3
<1>3. ASSUME CheckSum PROVE MainInv'
  <2>1. mainpc = "sum" /\ i \in Account /\ tol = Sum(cell, i) /\ UNCHANGED <<cell, pc>>
        /\ tol' = tol + cell[i] /\ i' = i + 1
        /\ mainpc' = IF i + 1 < NumberOfAccounts THEN "sum" ELSE "exit"
    BY <1>3 DEF CheckSum, LockInv, MainIndex, MainInv
  <2>2. Sum(cell, i + 1) = Sum(cell, i) + cell[i]
    BY <1>0, SumRecursion
  <2>3. tol' = Sum(cell', i')
    BY <2>1, <2>2
  <2>4. i + 1 <= NumberOfAccounts /\ (~(i + 1 < NumberOfAccounts) => i + 1 = NumberOfAccounts)
    BY <1>0, <2>1 DEF Account
  <2> QED BY <2>1, <2>3, <2>4 DEF MainInv
<1>4. ASSUME UNCHANGED vars PROVE MainInv'
  BY <1>4 DEF vars, MainInv, main
<1> QED BY <1>1, <1>2, <1>3, <1>4 DEF Next

\* A transfer takes from one account what it adds to another; every other step keeps the view.
LEMMA TotalInvStep ==
    ASSUME LockInv, LockInv', TotalInv, [Next]_vars
    PROVE  TotalInv'
PROOF
<1>1. CASE BankView' = BankView
  BY <1>1 DEF TotalInv
<1>2. ASSUME NEW t \in Thread, DoTransfer(t) PROVE TotalInv'
  <2>1. PICK s \in Account, d \in Account :
          /\ s # d
          /\ BankView[s] = sourceBalance[t]
          /\ BankView' = [BankView EXCEPT ![s] = @ - Amount, ![d] = @ + Amount]
    BY <1>2, TransferMoves
  <2>2. BankView \in [Account -> Int] /\ Amount \in Nat /\ NumberOfAccounts \in Nat
    BY ViewType, TransferConstants
  <2> DEFINE V == BankView
             W == [V EXCEPT ![s] = V[s] - Amount]
             X == [W EXCEPT ![d] = V[d] + Amount]
             N == NumberOfAccounts
  <2>3. V \in [0 .. N - 1 -> Int] /\ s \in 0 .. N - 1 /\ d \in 0 .. N - 1
        /\ V[s] - Amount \in Int /\ V[d] + Amount \in Int
    BY <2>2 DEF Account
  <2>4. W \in [0 .. N - 1 -> Int] /\ W[d] = V[d]
    BY <2>1, <2>3
  <2>5. BankView' = X
    BY <2>1, <2>2
  <2>6. N \in Nat
    BY <2>2
  <2> HIDE DEF V, W, X, N
  <2>7. Sum([V EXCEPT ![s] = V[s] - Amount], N) = Sum(V, N) - V[s] + (V[s] - Amount)
    BY <2>3, <2>6, SumUpdate
  <2>8. Sum([W EXCEPT ![d] = V[d] + Amount], N) = Sum(W, N) - W[d] + (V[d] + Amount)
    BY <2>3, <2>4, <2>6, SumUpdate
  <2>9. Sum(V, N) \in Int /\ V[s] \in Int /\ V[d] \in Int
    BY <2>3, <2>6, SumType
  <2>10. Sum(X, N) = Sum(V, N)
    BY <2>2, <2>4, <2>7, <2>8, <2>9 DEF W, X
  <2>11. ASSUME ChecksFunds PROVE X \in [Account -> Nat]
    <3>1. Amount <= V[s] /\ V \in [Account -> Nat]
      BY <1>2, <2>1, <2>11 DEF DoTransfer, Covered, TotalInv, V
    <3> QED BY <2>1, <2>2, <3>1 DEF W, X
  <2> QED BY <2>5, <2>10, <2>11 DEF TotalInv, V, N
<1> QED BY <1>1, <1>2, QuietStep, MainStep, SourceMoves, DestMoves DEF Next, Step

\* The inductive invariant holds from step to step.
LEMMA MoneyInvStep == MoneyInv /\ [Next]_vars => MoneyInv'
PROOF
<1> SUFFICES ASSUME MoneyInv, [Next]_vars PROVE MoneyInv'
  OBVIOUS
<1>1. LockInv'
  BY TypesStep, HandlesStep DEF MoneyInv, LockInv
<1> QED BY <1>1, MainInvStep, TotalInvStep DEF MoneyInv

\* When the workers have stopped nobody carries an entry.
LEMMA StoppedView ==
    ASSUME \A t \in Thread : pc[t] = "done", NEW a \in Account
    PROVE  BankView[a] = cell[a]
  BY ViewOfCell DEF SourceCarriers, DestCarriers

\* The sum that main computes is the total, with or without the test for funds.
LEMMA MoneyInvExact == MoneyInv => MoneyConserved /\ ChecksumExact
PROOF
<1> SUFFICES ASSUME MoneyInv PROVE MoneyConserved /\ ChecksumExact
  OBVIOUS
<1>1. MoneyConserved
  BY DEF MoneyInv, TotalInv, MoneyConserved, AbstractBank!Inv, AbstractBank!Sum, Sum
<1>2. ASSUME mainpc = "exit" PROVE tol = FixedTotalMoney
  <2>1. tol = Sum(cell, NumberOfAccounts) /\ \A t \in Thread : pc[t] = "done"
    BY <1>2 DEF MoneyInv, MainInv
  <2>2. \A a \in Account : BankView[a] = cell[a]
    BY <2>1, StoppedView
  <2>3. BankView = cell
    <3>1. BankView = [a \in Account |-> BankView[a]]
      BY DEF BankView
    <3>2. cell = [a \in Account |-> cell[a]]
      BY DEF MoneyInv, LockInv, TypeOK
    <3> HIDE DEF BankView
    <3> QED BY <2>2, <3>1, <3>2
  <2> QED BY <2>1, <2>3 DEF MoneyInv, TotalInv
<1> QED BY <1>1, <1>2 DEF ChecksumExact

\* No transfer creates or destroys money, and the sum that main prints after the join is the
\* initial total; this needs no test for funds, so it also holds of Bundle.i.cpp, which
\* leaves the test out.
THEOREM ChecksumAlwaysExact == Spec => [](MoneyConserved /\ ChecksumExact)
  BY MoneyInvInit, MoneyInvStep, MoneyInvExact, PTL DEF Spec

\* With the test for funds, as in Impl.i.dfy, no thread ever holds an entry that exceeds all
\* the money there is, the sums are exact, and the assertion of AssertAccountIsNotTooRich
\* holds whatever transfers are under way.
THEOREM MoneyAlwaysExact ==
    ASSUME ChecksFunds
    PROVE  Spec => []MoneyExact
PROOF
<1>1. ASSUME MoneyInv PROVE NotTooRich
  <2>1. BankView \in [Account -> Nat] /\ Sum(BankView, NumberOfAccounts) = FixedTotalMoney
    BY <1>1 DEF MoneyInv, TotalInv
  <2>2. \A a \in Account : BankView[a] <= FixedTotalMoney
    <3> DEFINE V == BankView
               N == NumberOfAccounts
    <3>1. N \in Nat /\ V \in [0 .. N - 1 -> Nat] /\ N \in 0 .. N
      BY <2>1, TransferConstants DEF Account
    <3> HIDE DEF V, N
    <3>2. \A a \in 0 .. N - 1 : V[a] <= Sum(V, N)
      BY <3>1, SumBound
    <3> QED BY <2>1, <3>2 DEF V, N, Account
  <2>3. ViewOK
    BY <1>1, ViewCases DEF MoneyInv
  <2> QED BY <2>2, <2>3 DEF NotTooRich, ViewOK
<1>2. MoneyInv => MoneyExact
  BY <1>1, MoneyInvExact DEF MoneyExact
<1> QED BY <1>2, MoneyInvInit, MoneyInvStep, PTL DEF Spec

-----------------------------------------------------------------------------
(* The queue *)

\* What each side learnt from the index it loaded remains true while it works:
\* the other side may only have moved away since.
ProducerHasRoom == producer.pc # "idle" => Successor(head) # tail

\* A consumer at work has an item to take.
ConsumerHasItem == consumer.pc # "idle" => head # tail

\* What is preserved of the indices.
QueueInv == IndicesOK /\ ProducerHasRoom /\ ConsumerHasItem

\* The place after c in the ring, without the remainder.
LEMMA SuccessorValue ==
  ASSUME NEW c \in Index
  PROVE  Successor(c) = IF c + 1 = Size THEN 0 ELSE c + 1
<1>1. CASE c + 1 = Size
  <2>1. Size % Size = 0
    BY QueueConstants
  <2> QED
    BY <1>1, <2>1, QueueConstants DEF Successor, Index
<1>2. CASE c + 1 # Size
  <2>1. c + 1 \in Nat /\ c + 1 < Size /\ Size \in Nat \ {0}
    BY <1>2, QueueConstants DEF Index
  <2>2. (c + 1) % Size = c + 1
    BY <2>1
  <2> QED
    BY <1>2, <2>2 DEF Successor
<1> QED
  BY <1>1, <1>2

\* Different places have different successors, and a successor is a place.
LEMMA SuccessorInjective ==
  ASSUME NEW c \in Index, NEW j \in Index
  PROVE  /\ Successor(c) \in Index
         /\ Successor(c) = Successor(j) => c = j
BY SuccessorValue, QueueConstants DEF Index

\* What each side learnt remains true: initially and from step to step.
LEMMA QueueInductive ==
  /\ QInit => QueueInv
  /\ QueueInv /\ [QNext]_qvars => QueueInv'
<1>1. QInit => QueueInv
  BY QueueConstants DEF QInit, QueueInv, IndicesOK, ProducerHasRoom, ConsumerHasItem, NoCall, Index
<1>2. QueueInv /\ [QNext]_qvars => QueueInv'
  <2> SUFFICES ASSUME QueueInv, [QNext]_qvars
               PROVE  QueueInv'
    OBVIOUS
  <2> USE DEF QueueInv, IndicesOK, ProducerHasRoom, ConsumerHasItem
  <2>1. ASSUME NEW item \in Item, ProduceLoad(item)
        PROVE  QueueInv'
    BY <2>1 DEF ProduceLoad, HasRoom, Successor, Index
  <2>2. CASE ProduceWrite
    BY <2>2 DEF ProduceWrite, Successor, Index
  <2>3. CASE ProduceStore
    \* The new head is not the tail, because there was room.
    BY <2>3, SuccessorInjective DEF ProduceStore, NoCall, Index
  <2>4. CASE ConsumeLoad
    BY <2>4 DEF ConsumeLoad, HasItem, Successor, Index
  <2>5. CASE ConsumeRead
    BY <2>5 DEF ConsumeRead, Successor, Index
  <2>6. CASE ConsumeStore
    \* The new tail is not the place after the head, because tail was not head.
    <3>1. head # tail /\ Successor(head) # Successor(tail)
      BY <2>6, SuccessorInjective DEF ConsumeStore
    <3> QED
      BY <2>6, <3>1, SuccessorInjective DEF ConsumeStore, NoCall, Index, Successor
  <2>7. CASE UNCHANGED qvars
    BY <2>7 DEF qvars, Successor, Index
  <2> QED
    BY <2>1, <2>2, <2>3, <2>4, <2>5, <2>6, <2>7 DEF QNext
<1> QED
  BY <1>1, <1>2

\* The inductive invariant of the queue.
THEOREM QueueInvariant == QSpec => []QueueInv
  BY QueueInductive, PTL DEF QSpec

\* Producer and consumer never work on the same cell (QueueImpl.i.dfy:187, 342).
THEOREM QueueNeverRaces == QSpec => []NoRace
<1>1. QueueInv => NoRace
  BY DEF QueueInv, ConsumerHasItem, NoRace
<1> QED
  BY <1>1, QueueInvariant, PTL

--------------------------------------------------------------------------------
\* What a producing call has in hand: an item, and after the write the same item
\* in the cell at the head, which the consumer leaves alone.
ProducerCarries ==
  /\ producer.pc # "idle" => producer.item \in Item
  /\ producer.pc = "publish" => cells[head] = producer.item

\* The ring has a content in each cell.
RingOK == cells = [c \in Index |-> cells[c]]

\* What is preserved of the slots.
CarryInv == QueueInv /\ ProducerCarries /\ RingOK

\* How many items are queued, without the remainder.
Queued == IF head >= tail THEN head - tail ELSE head + Size - tail

\* The place k cells after the tail, without the remainder.
Place(k) == IF tail + k < Size THEN tail + k ELSE tail + k - Size

\* The item at a place: the consumer may have it in hand.
ItemAt(c) == IF c = tail /\ consumer.pc = "release" THEN consumer.item ELSE cells[c]

\* A remainder modulo Size of a number below 2 * Size.
LEMMA SmallRemainder ==
  ASSUME NEW n \in Nat, n < Size + Size
  PROVE  n % Size = IF n < Size THEN n ELSE n - Size
<1>1. CASE n < Size
  BY <1>1, QueueConstants
<1>2. CASE n >= Size
  <2>1. /\ n - Size \in 0 .. Size - 1 /\ n = 1 * Size + (n - Size)
        /\ Size \in Nat \ {0}
    BY <1>2, QueueConstants
  <2>2. n % Size = n - Size
    BY <2>1
  <2> QED
    BY <1>2, <2>2, QueueConstants
<1> QED
  BY <1>1, <1>2, QueueConstants

\* Contents, without remainders.
ContentsPlain ==
  /\ Queued \in 0 .. Size - 1
  /\ Contents = [k \in 1 .. Queued |-> ItemAt(Place(k - 1))]

\* The queued items are the ones between the indices.
LEMMA ContentsValue == IndicesOK => ContentsPlain
<1> SUFFICES ASSUME IndicesOK PROVE ContentsPlain
  OBVIOUS
<1>1. head \in 0 .. Size - 1 /\ tail \in 0 .. Size - 1 /\ Size \in Nat
  BY QueueConstants DEF IndicesOK, Index
<1>2. (head + Size - tail) % Size = Queued /\ Queued \in 0 .. Size - 1
  <2> DEFINE n == head + Size - tail
  <2>1. n \in Nat /\ n < Size + Size
    BY <1>1
  <2> HIDE DEF n
  <2>2. n % Size = IF n < Size THEN n ELSE n - Size
    BY <2>1, SmallRemainder
  <2> QED
    BY <1>1, <2>2 DEF Queued, n
<1>3. \A k \in 1 .. Queued : (tail + k - 1) % Size = Place(k - 1)
  <2> TAKE k \in 1 .. Queued
  <2> DEFINE n == tail + k - 1
  <2>1. n \in Nat /\ n < Size + Size
    BY <1>1, <1>2
  <2> HIDE DEF n
  <2>2. n % Size = IF n < Size THEN n ELSE n - Size
    BY <2>1, SmallRemainder
  <2> QED
    BY <1>1, <1>2, <2>2 DEF Place, n
<1> QED
  BY <1>2, <1>3 DEF Contents, ItemAt, ContentsPlain

\* ... after a step, too.
LEMMA ContentsValueNext ==
  IndicesOK' => ContentsPlain'
  BY ContentsValue, PTL

\* The invariant with what the producer carries.
LEMMA CarriesInvariant ==
  /\ QInit => CarryInv
  /\ CarryInv /\ [QNext]_qvars => CarryInv'
<1>1. QInit => CarryInv
  BY QueueInductive DEF QInit, CarryInv, ProducerCarries, RingOK, NoCall
<1>2. ASSUME CarryInv, [QNext]_qvars
      PROVE  CarryInv'
  <2>1. QueueInv' /\ QueueInv
    BY <1>2, QueueInductive DEF CarryInv
  <2>2. head \in Index /\ tail \in Index
    BY <2>1 DEF QueueInv, IndicesOK
  <2>3. ProducerCarries' /\ RingOK'
    <3> USE <2>1, <2>2 DEF CarryInv, ProducerCarries, RingOK
    <3>1. ASSUME NEW item \in Item, ProduceLoad(item)
          PROVE  ProducerCarries' /\ RingOK'
      BY <1>2, <3>1 DEF ProduceLoad
    <3>2. CASE ProduceWrite
      BY <1>2, <3>2 DEF ProduceWrite
    <3>3. CASE ProduceStore
      BY <1>2, <3>3 DEF ProduceStore, NoCall
    <3>4. CASE ConsumeLoad
      BY <1>2, <3>4 DEF ConsumeLoad
    <3>5. CASE ConsumeRead
      BY <1>2, <3>5 DEF ConsumeRead, QueueInv, ConsumerHasItem
    <3>6. CASE ConsumeStore
      BY <1>2, <3>6 DEF ConsumeStore
    <3>7. CASE UNCHANGED qvars
      BY <1>2, <3>7 DEF qvars
    <3> QED
      BY <1>2, <3>1, <3>2, <3>3, <3>4, <3>5, <3>6, <3>7 DEF QNext
  <2> QED
    BY <2>1, <2>3 DEF CarryInv
<1> QED
  BY <1>1, <1>2

\* Each step of a call is an operation of the buffer or leaves it alone.
LEMMA FifoStep ==
  ASSUME CarryInv, CarryInv', [QNext]_qvars
  PROVE  [Fifo!Next]_(Fifo!vars)
<1>0. /\ head \in 0 .. Size - 1 /\ tail \in 0 .. Size - 1 /\ Size \in Nat \ {0, 1}
      /\ IndicesOK /\ IndicesOK'
  BY QueueConstants DEF CarryInv, QueueInv, IndicesOK, Index
<1>1. /\ Queued \in 0 .. Size - 1
      /\ Contents = [k \in 1 .. Queued |-> ItemAt(Place(k - 1))]
  BY <1>0, ContentsValue DEF ContentsPlain
<1>2. /\ Queued' \in 0 .. Size - 1
      /\ Contents' = [k \in 1 .. Queued' |-> ItemAt(Place(k - 1))']
  BY <1>0, ContentsValueNext DEF ContentsPlain
<1>3. Len(Contents) = Queued /\ Len(Contents') = Queued'
  BY <1>1, <1>2
<1>4. ASSUME NEW item \in Item, ProduceLoad(item)
      PROVE  [Fifo!Next]_(Fifo!vars)
  <2>1. Contents' = Contents
    BY <1>4 DEF ProduceLoad, Contents
  <2>2. CASE HasRoom(tail)
    BY <1>4, <2>1, <2>2 DEF ProduceLoad, Fifo!vars
  <2>3. CASE ~HasRoom(tail)
    <3>1. Successor(head) = tail
      BY <2>3 DEF HasRoom
    <3>2. Queued = Size - 1
      BY <1>0, <3>1, SuccessorValue DEF Queued, Index
    <3>3. Fifo!Produce(item)
      BY <1>0, <1>3, <1>4, <2>1, <2>3, <3>2 DEF ProduceLoad, Fifo!Produce
    <3> QED
      BY <3>3 DEF Fifo!Next
  <2> QED
    BY <2>2, <2>3
<1>5. CASE ProduceWrite
  <2>1. /\ cells' = [cells EXCEPT ![head] = producer.item]
        /\ UNCHANGED <<head, tail, consumer, event>>
    BY <1>5 DEF ProduceWrite
  <2>2. Queued' = Queued /\ \A k \in 1 .. Queued : Place(k - 1)' = Place(k - 1)
    BY <2>1 DEF Queued, Place
  <2>3. \A k \in 1 .. Queued : Place(k - 1) # head
    BY <1>0 DEF Queued, Place
  <2>4. \A k \in 1 .. Queued : Place(k - 1) \in Index
    BY <1>0 DEF Queued, Place, Index
  <2>5. \A k \in 1 .. Queued : ItemAt(Place(k - 1))' = ItemAt(Place(k - 1))
    BY <2>1, <2>2, <2>3, <2>4 DEF ItemAt, CarryInv, RingOK
  <2> QED
    BY <1>1, <1>2, <2>1, <2>2, <2>5 DEF Fifo!vars
<1>6. CASE ProduceStore
  <2>1. /\ head' = Successor(head) /\ event' = <<"produced", producer.item>>
        /\ UNCHANGED <<cells, tail, consumer>> /\ producer.pc = "publish"
    BY <1>6 DEF ProduceStore
  <2>2. Successor(head) # tail /\ producer.item \in Item /\ cells[head] = producer.item
    BY <2>1 DEF CarryInv, QueueInv, ProducerHasRoom, ProducerCarries
  <2>3. Queued' = Queued + 1 /\ Queued < Size - 1
    BY <1>0, <2>1, <2>2, SuccessorValue DEF Queued, Index
  <2>4. \A k \in Nat : Place(k)' = Place(k) /\ ItemAt(Place(k))' = ItemAt(Place(k))
    BY <2>1 DEF Place, ItemAt
  <2>5. Place(Queued) = head
    BY <1>0 DEF Place, Queued
  <2>6. ItemAt(head) = producer.item
    BY <2>1, <2>2 DEF ItemAt, CarryInv, QueueInv, ConsumerHasItem
  <2>7. Contents' = Append(Contents, producer.item)
    <3>1. \A k \in 1 .. Queued + 1 : k - 1 \in Nat /\ (k # Queued + 1 => k \in 1 .. Queued)
      BY <1>1
    <3>2. Contents' = [k \in 1 .. Queued + 1 |-> ItemAt(Place(k - 1))]
      BY <1>2, <2>3, <2>4, <3>1
    <3>3. \A k \in 1 .. Queued + 1 :
             Contents'[k] = IF k = Queued + 1 THEN producer.item ELSE Contents[k]
      BY <1>1, <2>5, <2>6, <3>1, <3>2
    <3> QED
      BY <1>1, <1>3, <3>2, <3>3
  <2>8. Fifo!Produce(producer.item)
    BY <1>3, <2>1, <2>3, <2>7 DEF Fifo!Produce
  <2> QED
    BY <2>2, <2>8 DEF Fifo!Next
<1>7. CASE ConsumeLoad
  <2>1. Contents' = Contents
    BY <1>7 DEF ConsumeLoad, Contents
  <2>2. CASE HasItem(head)
    BY <1>7, <2>1, <2>2 DEF ConsumeLoad, Fifo!vars
  <2>3. CASE ~HasItem(head)
    <3>1. Contents = << >>
      BY <1>0, <1>1, <2>3 DEF HasItem, Queued
    <3> QED
      BY <1>7, <2>1, <2>3, <3>1 DEF ConsumeLoad, Fifo!Consume, Fifo!Next
  <2> QED
    BY <2>2, <2>3
<1>8. CASE ConsumeRead
  <2>1. /\ cells' = [cells EXCEPT ![tail] = None]
        /\ consumer' = [pc |-> "release", item |-> cells[tail]]
        /\ consumer.pc = "read"
        /\ UNCHANGED <<head, tail, event>>
    BY <1>8 DEF ConsumeRead
  <2>2. Queued' = Queued /\ \A k \in 1 .. Queued : Place(k - 1)' = Place(k - 1)
    BY <2>1 DEF Queued, Place
  <2>3. \A k \in 1 .. Queued : Place(k - 1) \in Index
    BY <1>0 DEF Queued, Place, Index
  <2>4. \A k \in 1 .. Queued : ItemAt(Place(k - 1))' = ItemAt(Place(k - 1))
    BY <2>1, <2>2, <2>3 DEF ItemAt, CarryInv, RingOK
  <2> QED
    BY <1>1, <1>2, <2>1, <2>2, <2>4 DEF Fifo!vars
<1>9. CASE ConsumeStore
  <2>1. /\ tail' = Successor(tail) /\ event' = <<"consumed", consumer.item>>
        /\ consumer' = NoCall /\ consumer.pc = "release"
        /\ UNCHANGED <<cells, head>>
    BY <1>9 DEF ConsumeStore
  <2>2. head # tail
    BY <2>1 DEF CarryInv, QueueInv, ConsumerHasItem
  <2>3. Queued' = Queued - 1 /\ Queued > 0
    BY <1>0, <2>1, <2>2, SuccessorValue DEF Queued, Index
  <2>4. \A k \in 1 .. Queued - 1 : Place(k - 1)' = Place(k) /\ Place(k) # tail
    <3> TAKE k \in 1 .. Queued - 1
    <3>1. k \in 1 .. Size - 2 /\ tail' = IF tail + 1 = Size THEN 0 ELSE tail + 1
      BY <1>0, <1>1, <2>1, SuccessorValue DEF Index
    <3> QED
      BY <1>0, <3>1 DEF Place
  <2>5. \A k \in 1 .. Queued - 1 : ItemAt(Place(k - 1))' = ItemAt(Place(k))
    BY <2>1, <2>4 DEF ItemAt, NoCall
  <2>6. Contents' = Tail(Contents)
    <3>1. Contents' = [k \in 1 .. Queued - 1 |-> ItemAt(Place(k))]
      BY <1>2, <2>3, <2>5
    <3>2. \A k \in 1 .. Queued - 1 : Contents[k + 1] = ItemAt(Place(k))
      BY <1>1
    <3> QED
      BY <1>1, <1>3, <2>3, <3>1, <3>2
  <2>7. Head(Contents) = consumer.item /\ Contents # << >>
    BY <1>0, <1>1, <1>3, <2>1, <2>3 DEF Place, ItemAt
  <2> QED
    BY <2>1, <2>6, <2>7 DEF Fifo!Consume, Fifo!Next
<1>10. CASE UNCHANGED qvars
  BY <1>10 DEF qvars, Contents, Fifo!vars
<1> QED
  BY <1>4, <1>5, <1>6, <1>7, <1>8, <1>9, <1>10 DEF QNext

\* The queue of QueueImpl.i.dfy is a bounded first-in-first-out buffer for every
\* size of the ring: its operations take effect at one step each, between the
\* loads and stores of two threads, and nothing is lost, repeated or reordered.
THEOREM QueueRefinesFifo == QSpec => RefinesFifo
<1>1. QInit => Fifo!Init
  <2> SUFFICES ASSUME QInit PROVE Fifo!Init
    OBVIOUS
  <2>1. IndicesOK /\ Queued = 0
    BY QueueConstants DEF QInit, IndicesOK, Queued, Index, NoCall
  <2>2. Contents = << >>
    BY <2>1, ContentsValue DEF ContentsPlain
  <2> QED
    BY <2>2 DEF QInit, Fifo!Init
<1> QED
  BY <1>1, CarriesInvariant, FifoStep, PTL DEF QSpec, RefinesFifo, Fifo!Spec
----------------------------------------------------------------------------
(* The status page *)

\* The groups of variables are always expanded.
USE DEF workTree, depsFile, veridepend, checks

\* What the rules find out of date, with the includes as they are now.
DummyStale(f) ==
    \/ Dummydep(f) \notin built
    \/ <<Dfy(f), Dummydep(f)>> \in newer
    \/ \E g \in src[f].inc : <<Dummydep(g), Dummydep(f)>> \in newer
CheckStale(f) ==
    \/ Chk(f) \notin built
    \/ <<Dfy(f), Chk(f)>> \in newer
    \/ \E g \in src[f].inc : <<Dummydep(g), Chk(f)>> \in newer
VerifiedStale(f) ==
    \/ Verified(f) \notin built
    \/ <<Chk(f), Verified(f)>> \in newer
    \/ \E g \in src[f].inc : <<Verified(g), Verified(f)>> \in newer

\* The report of f is out of date for make, with the includes of build/deps.
ChkNoticed(f) ==
    \/ Chk(f) \notin built
    \/ <<Dfy(f), Chk(f)>> \in newer
    \/ \E g \in deps[f] : <<Dummydep(g), Chk(f)>> \in newer

\* Nothing is noticed below f, and nothing about build/deps.
DummiesFresh(f) == \A g \in Reachable(Includes, f) \ {f} : ~DummyStale(g)
DepsFresh == \A f \in described : <<Dfy(f), Deps>> \notin newer

\* A report is about the present sources unless the rules notice or it was raced.
FreshReportInv ==
    \A f \in DfyFile :
        report[f] # NoFile /\ f \notin raced /\ ~CheckStale(f) /\ DummiesFresh(f)
            => report[f].reads = Sources(f)

\* The same for a check under way.
CheckInv ==
    \A f \in DfyFile :
        running[f] # NoFile /\ f \notin racing /\ DummiesFresh(f) => running[f] = Sources(f)

\* A check runs only after all .dummydep files, and stays out of date until it ends.
RunningInv ==
    \A f \in DfyFile : running[f] # NoFile =>
        /\ make \in {"build", "failed"}
        /\ make = "build" => /\ f \in Listed /\ Chk(f) \notin considered
                             /\ Dummies \subseteq considered
                             /\ ChkNoticed(f)
\* make is done with a target only after what it is made from.
OrderInv ==
    /\ make \in {"deps", "found", "gathered"} => considered = {}
    /\ make = "build" /\ (\E f \in DfyFile : Chk(f) \in considered) => Dummies \subseteq considered
    /\ make = "build" =>
          \A f \in Listed :
              /\ Dummydep(f) \in considered => \A g \in deps[f] : Dummydep(g) \in considered
              /\ Verified(f) \in considered =>
                    Chk(f) \in considered /\ \A g \in deps[f] : Verified(g) \in considered

\* build/deps tells the includes of the files that were not edited since
\* veridepend.py was started, and so does what veridepend.py has read.
DepsInv ==
    /\ deps # NoFile =>
          /\ Root \in described
          /\ \A f \in described \ missed : <<Dfy(f), Deps>> \notin newer =>
                deps[f] = src[f].inc /\ src[f].inc \subseteq described
    /\ make = "build" => deps # NoFile
    /\ make \in {"found", "gathered"} =>
          Root \in targetIrefs /\ \A f \in targetIrefs \ unseen : src[f].inc \subseteq targetIrefs
    /\ make = "gathered" => \A f \in targetIrefs \ unseen : output[f] = src[f].inc

\* A report that exists has a content, the one Dafny gave for the text it read.
BuiltInv ==
    \A f \in DfyFile : /\ Chk(f) \in built => report[f] # NoFile
                       /\ report[f] # NoFile => report[f].text = report[f].reads[f].text

\* The page as it was built, unless the rules notice.
PageFresh ==
    /\ Page \in built /\ <<Deps, Page>> \notin newer /\ <<Verified(Root), Page>> \notin newer
    /\ deps # NoFile /\ DepsFresh /\ ~IncludeMissed
    /\ \A f \in Shown : ~VerifiedStale(f)
PageInv == PageFresh => page = [f \in Shown |-> Summarize(f)]

\* A .verified file that says success is about a successful report.
VerifiedInv ==
    \A f \in DfyFile :
        verified[f] = "success" /\ <<Chk(f), Verified(f)>> \notin newer /\ <<Dfy(f), Chk(f)>> \notin newer
            => Summarize(f).is_success

\* While nothing is edited, what make is done with stays up to date.
QuietInv ==
    quiet =>
        /\ make \in {"build", "idle"}
        /\ make = "build" => DepsFresh
        /\ make = "build" /\ ~IncludeMissed =>
              \A f \in Listed :
                    /\ Dummydep(f) \in considered => ~DummyStale(f)
                    /\ Chk(f) \in considered => ~CheckStale(f)
                    /\ Verified(f) \in considered => ~VerifiedStale(f)
        /\ make = "idle" /\ ~IncludeMissed =>
              /\ \A f \in Shown : /\ ~CheckStale(f) /\ ~VerifiedStale(f)
                                  /\ f # Root => ~DummyStale(f)
              /\ page = [f \in Shown |-> Summarize(f)]

\* What edits, interrupts and steps of make preserve.
StatusInv ==
    /\ BuildTypeOK
    /\ FreshReportInv /\ CheckInv /\ RunningInv /\ OrderInv /\ DepsInv /\ BuiltInv
    /\ PageInv /\ VerifiedInv /\ QuietInv
----------------------------------------------------------------------------
\* Include graphs of the files, with lower numbers for what is included.
IncludeGraphs == {inc \in [DfyFile -> SUBSET DfyFile] : \A f \in DfyFile : inc[f] \subseteq Lower(f)}

\* The least set of files with f that is closed under inclusion.
ClosedUnder(inc, S) == \A g \in S : inc[g] \subseteq S
LeastClosed(inc, f) == {x \in DfyFile : \A S \in SUBSET DfyFile : f \in S /\ ClosedUnder(inc, S) => x \in S}

\* What the least closed set is.
LEMMA LeastClosedFacts ==
    ASSUME NEW inc \in IncludeGraphs, NEW f \in DfyFile
    PROVE  /\ LeastClosed(inc, f) \subseteq DfyFile
           /\ f \in LeastClosed(inc, f)
           /\ ClosedUnder(inc, LeastClosed(inc, f))
           /\ \A S \in SUBSET DfyFile : f \in S /\ ClosedUnder(inc, S) => LeastClosed(inc, f) \subseteq S
BY DEF IncludeGraphs, ClosedUnder, LeastClosed

\* The least closed sets solve the recursion of Reachable.
LEMMA LeastClosedSolves ==
    ASSUME NEW inc \in IncludeGraphs, NEW f \in DfyFile
    PROVE  LeastClosed(inc, f) = {f} \cup UNION {LeastClosed(inc, h) : h \in inc[f]}
<1> DEFINE U == {f} \cup UNION {LeastClosed(inc, h) : h \in inc[f]}
<1>1. inc[f] \subseteq DfyFile /\ \A g \in DfyFile : inc[g] \subseteq DfyFile
  BY DEF IncludeGraphs
<1>2. U \subseteq DfyFile /\ f \in U
  BY <1>1, LeastClosedFacts
<1>3. ClosedUnder(inc, U)
  <2>1. ASSUME NEW g \in U, NEW x \in inc[g] PROVE x \in U
    <3>1. CASE g = f
      BY <3>1, <1>1, <2>1, LeastClosedFacts
    <3>2. CASE g # f
      <4>1. PICK h \in inc[f] : g \in LeastClosed(inc, h)
        BY <3>2, <2>1
      <4>2. x \in LeastClosed(inc, h)
        BY <4>1, <2>1, <1>1, LeastClosedFacts DEF ClosedUnder
      <4> QED
        BY <4>2, <4>1
    <3> QED
      BY <3>1, <3>2
  <2> QED
    BY <2>1 DEF ClosedUnder
<1>4. LeastClosed(inc, f) \subseteq U
  <2> HIDE DEF U
  <2> QED
    BY <1>2, <1>3, LeastClosedFacts
<1>5. ASSUME NEW h \in inc[f] PROVE LeastClosed(inc, h) \subseteq LeastClosed(inc, f)
  <2>1. h \in LeastClosed(inc, f) /\ h \in DfyFile
    BY <1>1, LeastClosedFacts DEF ClosedUnder
  <2>2. LeastClosed(inc, f) \in SUBSET DfyFile /\ ClosedUnder(inc, LeastClosed(inc, f))
    BY LeastClosedFacts
  <2> QED
    BY <2>1, <2>2, LeastClosedFacts
<1>6. U \subseteq LeastClosed(inc, f)
  BY <1>5, LeastClosedFacts
<1> QED
  BY <1>4, <1>6

\* r solves the recursion of Reachable.
IsReach(inc, r) == r = [g \in DfyFile |-> {g} \cup UNION {r[h] : h \in inc[g]}]

\* Nothing else solves it: by induction over the numbers of the files.
LEMMA ReachUnique ==
    ASSUME NEW inc \in IncludeGraphs, NEW r, IsReach(inc, r)
    PROVE  \A g \in DfyFile : r[g] = LeastClosed(inc, g)
<1> DEFINE S == {n \in Nat : \A g \in DfyFile : g < n => r[g] = LeastClosed(inc, g)}
<1>0. DfyFile \subseteq Nat
  BY BuildConstants
<1>1. 0 \in S
  <2>1. \A g \in DfyFile : ~(g < 0)
    BY <1>0
  <2> QED
    BY <2>1
<1>2. ASSUME NEW n \in Nat, n \in S PROVE n + 1 \in S
  <2>1. ASSUME NEW g \in DfyFile, g < n + 1 PROVE r[g] = LeastClosed(inc, g)
    <3>1. ASSUME NEW h \in inc[g] PROVE r[h] = LeastClosed(inc, h)
      <4>1. h \in DfyFile /\ h < g
        BY DEF IncludeGraphs, Lower
      <4>2. h < n
        BY <4>1, <2>1, <1>0
      <4> QED
        BY <4>1, <4>2, <1>2
    <3>2. r[g] = {g} \cup UNION {r[h] : h \in inc[g]}
      BY DEF IsReach
    <3>3. {r[h] : h \in inc[g]} = {LeastClosed(inc, h) : h \in inc[g]}
      BY <3>1
    <3> QED
      BY <3>2, <3>3, LeastClosedSolves
  <2> QED
    BY <2>1
<1>3. Nat \subseteq S
  <2> HIDE DEF S
  <2> QED
    BY <1>1, <1>2, SetInduction
<1>4. ASSUME NEW g \in DfyFile PROVE r[g] = LeastClosed(inc, g)
  <2>1. g + 1 \in S /\ g \in Nat /\ g < g + 1
    BY <1>0, <1>3
  <2> QED
    BY <2>1
<1> QED
  BY <1>4

\* What Reachable computes.
LEMMA ReachableIsLeast ==
    ASSUME NEW inc \in IncludeGraphs, NEW f \in DfyFile
    PROVE  Reachable(inc, f) = LeastClosed(inc, f)
<1> DEFINE R == [g \in DfyFile |-> LeastClosed(inc, g)]
<1> DEFINE reach[g \in DfyFile] == {g} \cup UNION {reach[h] : h \in inc[g]}
<1>1. Reachable(inc, f) = reach[f]
  BY DEF Reachable
<1>2. IsReach(inc, R)
  <2>1. ASSUME NEW g \in DfyFile
        PROVE  LeastClosed(inc, g) = {g} \cup UNION {R[h] : h \in inc[g]}
    <3>1. inc[g] \subseteq DfyFile
      BY DEF IncludeGraphs
    <3>2. {R[h] : h \in inc[g]} = {LeastClosed(inc, h) : h \in inc[g]}
      BY <3>1
    <3> QED
      BY <3>2, LeastClosedSolves
  <2>2. R = [g \in DfyFile |-> {g} \cup UNION {R[h] : h \in inc[g]}]
    BY <2>1
  <2> QED
    BY <2>2 DEF IsReach
<1>3. reach = CHOOSE r : IsReach(inc, r)
  BY DEF IsReach
<1>4. IsReach(inc, reach)
  <2> HIDE DEF R, reach
  <2>1. \E r : IsReach(inc, r)
    BY <1>2
  <2>2. IsReach(inc, CHOOSE r : IsReach(inc, r))
    BY <2>1
  <2> QED
    BY <1>3, <2>2
<1> QED
  <2> HIDE DEF R, reach
  <2> QED
    BY <1>1, <1>4, ReachUnique

\* The files reachable from f: the least closed set with f, and no number above f's.
LEMMA ReachableFacts ==
    ASSUME NEW inc \in IncludeGraphs, NEW f \in DfyFile
    PROVE  /\ Reachable(inc, f) \subseteq DfyFile
           /\ f \in Reachable(inc, f)
           /\ \A g \in Reachable(inc, f) : inc[g] \subseteq Reachable(inc, f)
           /\ \A S \in SUBSET DfyFile : f \in S /\ ClosedUnder(inc, S) => Reachable(inc, f) \subseteq S
           /\ \A g \in Reachable(inc, f) : g = f \/ g < f
           /\ \A g \in Reachable(inc, f) : Reachable(inc, g) \subseteq Reachable(inc, f)
<1>1. \A g \in DfyFile : Reachable(inc, g) = LeastClosed(inc, g)
  BY ReachableIsLeast
<1>2. /\ Reachable(inc, f) \subseteq DfyFile
      /\ f \in Reachable(inc, f)
      /\ \A g \in Reachable(inc, f) : inc[g] \subseteq Reachable(inc, f)
      /\ \A S \in SUBSET DfyFile : f \in S /\ ClosedUnder(inc, S) => Reachable(inc, f) \subseteq S
  BY <1>1, LeastClosedFacts DEF ClosedUnder
<1>3. \A g \in Reachable(inc, f) : g = f \/ g < f
  <2> DEFINE S == {g \in DfyFile : g = f \/ g < f}
  <2>1. DfyFile \subseteq Nat
    BY BuildConstants
  <2>2. ASSUME NEW g \in S, NEW h \in inc[g] PROVE h \in S
    <3>1. h \in DfyFile /\ h < g
      BY DEF IncludeGraphs, Lower
    <3> QED
      BY <3>1, <2>1
  <2>3. ClosedUnder(inc, S)
    BY <2>2 DEF ClosedUnder
  <2>4. S \in SUBSET DfyFile /\ f \in S
    OBVIOUS
  <2>5. Reachable(inc, f) \subseteq S
    <3> HIDE DEF S
    <3> QED
      BY <2>3, <2>4, <1>2
  <2> QED
    BY <2>5
<1>4. ASSUME NEW g \in Reachable(inc, f) PROVE Reachable(inc, g) \subseteq Reachable(inc, f)
  <2>1. g \in DfyFile /\ Reachable(inc, f) \in SUBSET DfyFile /\ ClosedUnder(inc, Reachable(inc, f))
    BY <1>2 DEF ClosedUnder
  <2> QED
    BY <2>1, <1>1, LeastClosedFacts
<1> QED
  BY <1>2, <1>3, <1>4

\* A reachable file other than f is included by a reachable file.
LEMMA ReachablePredecessor ==
    ASSUME NEW inc \in IncludeGraphs, NEW f \in DfyFile, NEW d \in Reachable(inc, f), d # f
    PROVE  \E p \in Reachable(inc, f) : d \in inc[p]
<1> SUFFICES ASSUME \A p \in Reachable(inc, f) : d \notin inc[p] PROVE FALSE
  OBVIOUS
<1> DEFINE S == Reachable(inc, f) \ {d}
<1>1. S \in SUBSET DfyFile /\ f \in S
  BY ReachableFacts
<1>2. ClosedUnder(inc, S)
  BY ReachableFacts DEF ClosedUnder
<1>3. Reachable(inc, f) \subseteq S
  <2> HIDE DEF S
  <2> QED
    BY <1>1, <1>2, ReachableFacts
<1> QED
  BY <1>3

\* IncludeGraphs that agree on what one of them reaches reach the same.
LEMMA ReachableAgree ==
    ASSUME NEW inc \in IncludeGraphs, NEW inc2 \in IncludeGraphs, NEW f \in DfyFile,
           \A g \in Reachable(inc, f) : inc2[g] = inc[g]
    PROVE  Reachable(inc2, f) = Reachable(inc, f)
<1>1. ClosedUnder(inc2, Reachable(inc, f)) /\ Reachable(inc, f) \in SUBSET DfyFile /\ f \in Reachable(inc, f)
  BY ReachableFacts DEF ClosedUnder
<1>2. Reachable(inc2, f) \subseteq Reachable(inc, f)
  BY <1>1, ReachableFacts
<1>3. /\ ClosedUnder(inc, Reachable(inc2, f)) /\ Reachable(inc2, f) \in SUBSET DfyFile
      /\ f \in Reachable(inc2, f)
  BY <1>2, ReachableFacts DEF ClosedUnder
<1>4. Reachable(inc, f) \subseteq Reachable(inc2, f)
  BY <1>3, ReachableFacts
<1> QED
  BY <1>2, <1>4
----------------------------------------------------------------------------
\* Different targets have different names.
LEMMA TargetNames ==
    /\ \A f, g : Dfy(f) = Dfy(g) => f = g
    /\ \A f, g : Dummydep(f) = Dummydep(g) => f = g
    /\ \A f, g : Chk(f) = Chk(g) => f = g
    /\ \A f, g : Verified(f) = Verified(g) => f = g
    /\ \A f, g : /\ Dfy(f) # Dummydep(g) /\ Dfy(f) # Chk(g) /\ Dfy(f) # Verified(g)
                 /\ Dummydep(f) # Chk(g) /\ Dummydep(f) # Verified(g) /\ Chk(f) # Verified(g)
    /\ \A f : /\ Deps # Dfy(f) /\ Deps # Dummydep(f) /\ Deps # Chk(f) /\ Deps # Verified(f)
              /\ Page # Dfy(f) /\ Page # Dummydep(f) /\ Page # Chk(f) /\ Page # Verified(f)
    /\ Deps # Page
BY DEF Dfy, Dummydep, Chk, Verified, Deps, Page

\* What is newer than what after p was written.
LEMMA WrittenPair ==
    ASSUME NEW p
    PROVE  \A a, t : <<a, t>> \in Written(p) <=>
              \/ <<a, t>> \in newer /\ t # p
              \/ a = p /\ t \in Target /\ t # p /\ Related(p, t)
BY DEF Written

\* Which pairs of files the rules relate.
LEMMA RelatedPairs ==
    /\ \A f, g \in DfyFile :
          /\ Related(Dfy(f), Dummydep(g)) <=> f = g
          /\ Related(Dfy(f), Chk(g)) <=> f = g
          /\ ~Related(Dfy(f), Verified(g))
          /\ Related(Dummydep(f), Dummydep(g)) <=> f < g
          /\ Related(Dummydep(f), Chk(g)) <=> f < g
          /\ ~Related(Dummydep(f), Verified(g))
          /\ ~Related(Chk(f), Dummydep(g)) /\ ~Related(Chk(f), Chk(g))
          /\ Related(Chk(f), Verified(g)) <=> f <= g
          /\ ~Related(Verified(f), Dummydep(g)) /\ ~Related(Verified(f), Chk(g))
          /\ Related(Verified(f), Verified(g)) <=> f < g
    /\ \A f \in DfyFile :
          /\ Related(Dfy(f), Deps) /\ ~Related(Dummydep(f), Deps)
          /\ ~Related(Chk(f), Deps) /\ ~Related(Verified(f), Deps)
          /\ ~Related(Dummydep(f), Page) /\ ~Related(Chk(f), Page)
          /\ Related(Verified(f), Page) <=> f = Root
          /\ ~Related(Deps, Dummydep(f)) /\ ~Related(Deps, Chk(f)) /\ ~Related(Deps, Verified(f))
          /\ ~Related(Page, Dummydep(f)) /\ ~Related(Page, Chk(f)) /\ ~Related(Page, Verified(f))
    /\ Related(Deps, Page) /\ ~Related(Page, Deps)
<1> USE DEF Related, Dfy, Dummydep, Chk, Verified, Deps, Page
<1>1. \A f, g \in DfyFile :
          /\ Related(Dfy(f), Dummydep(g)) <=> f = g
          /\ Related(Dfy(f), Chk(g)) <=> f = g
          /\ ~Related(Dfy(f), Verified(g))
          /\ Related(Dummydep(f), Dummydep(g)) <=> f < g
          /\ Related(Dummydep(f), Chk(g)) <=> f < g
          /\ ~Related(Dummydep(f), Verified(g))
  OBVIOUS
<1>2. \A f, g \in DfyFile :
          /\ ~Related(Chk(f), Dummydep(g)) /\ ~Related(Chk(f), Chk(g))
          /\ Related(Chk(f), Verified(g)) <=> f <= g
          /\ ~Related(Verified(f), Dummydep(g)) /\ ~Related(Verified(f), Chk(g))
          /\ Related(Verified(f), Verified(g)) <=> f < g
  OBVIOUS
<1>3. \A f \in DfyFile :
          /\ Related(Dfy(f), Deps) /\ ~Related(Dummydep(f), Deps)
          /\ ~Related(Chk(f), Deps) /\ ~Related(Verified(f), Deps)
          /\ ~Related(Dummydep(f), Page) /\ ~Related(Chk(f), Page)
          /\ Related(Verified(f), Page) <=> f = Root
  OBVIOUS
<1>4. \A f \in DfyFile :
          /\ ~Related(Deps, Dummydep(f)) /\ ~Related(Deps, Chk(f)) /\ ~Related(Deps, Verified(f))
          /\ ~Related(Page, Dummydep(f)) /\ ~Related(Page, Chk(f)) /\ ~Related(Page, Verified(f))
  OBVIOUS
<1>5. Related(Deps, Page) /\ ~Related(Page, Deps)
  OBVIOUS
<1> QED
  <2> HIDE DEF Related, Dfy, Dummydep, Chk, Verified, Deps, Page
  <2> QED
    BY <1>1, <1>2, <1>3, <1>4, <1>5

\* The targets.
LEMMA TargetMembers ==
    /\ \A f \in DfyFile : Dummydep(f) \in Target /\ Chk(f) \in Target /\ Verified(f) \in Target
    /\ Deps \in Target /\ Page \in Target
BY DEF Target

\* An edit of f is newer than the targets made from f.
LEMMA WriteDfy ==
    ASSUME NEW f \in DfyFile, newer' = Written(Dfy(f))
    PROVE  /\ \A g \in DfyFile :
                 /\ (<<Dfy(g), Dummydep(g)>> \in newer') <=> (<<Dfy(g), Dummydep(g)>> \in newer \/ g = f)
                 /\ (<<Dfy(g), Chk(g)>> \in newer') <=> (<<Dfy(g), Chk(g)>> \in newer \/ g = f)
                 /\ (<<Dfy(g), Deps>> \in newer') <=> (<<Dfy(g), Deps>> \in newer \/ g = f)
                 /\ (<<Chk(g), Verified(g)>> \in newer') <=> (<<Chk(g), Verified(g)>> \in newer)
           /\ \A h, g \in DfyFile :
                 /\ (<<Dummydep(h), Dummydep(g)>> \in newer') <=> (<<Dummydep(h), Dummydep(g)>> \in newer)
                 /\ (<<Dummydep(h), Chk(g)>> \in newer') <=> (<<Dummydep(h), Chk(g)>> \in newer)
                 /\ (<<Verified(h), Verified(g)>> \in newer') <=> (<<Verified(h), Verified(g)>> \in newer)
           /\ (<<Deps, Page>> \in newer') <=> (<<Deps, Page>> \in newer)
           /\ (<<Verified(Root), Page>> \in newer') <=> (<<Verified(Root), Page>> \in newer)
BY WrittenPair, RelatedPairs, TargetNames, TargetMembers, BuildConstants

\* A touched .dummydep is newer than the targets of the files above.
LEMMA WriteDummydep ==
    ASSUME NEW f \in DfyFile, newer' = Written(Dummydep(f))
    PROVE  /\ \A g \in DfyFile :
                 /\ (<<Dfy(g), Dummydep(g)>> \in newer') <=> (<<Dfy(g), Dummydep(g)>> \in newer /\ g # f)
                 /\ (<<Dfy(g), Chk(g)>> \in newer') <=> (<<Dfy(g), Chk(g)>> \in newer)
                 /\ (<<Dfy(g), Deps>> \in newer') <=> (<<Dfy(g), Deps>> \in newer)
                 /\ (<<Chk(g), Verified(g)>> \in newer') <=> (<<Chk(g), Verified(g)>> \in newer)
           /\ \A h, g \in DfyFile :
                 /\ (<<Dummydep(h), Dummydep(g)>> \in newer') <=> ((<<Dummydep(h), Dummydep(g)>> \in newer /\ g # f) \/ (h = f /\ f < g))
                 /\ (<<Dummydep(h), Chk(g)>> \in newer') <=> (<<Dummydep(h), Chk(g)>> \in newer \/ (h = f /\ f < g))
                 /\ (<<Verified(h), Verified(g)>> \in newer') <=> (<<Verified(h), Verified(g)>> \in newer)
           /\ (<<Deps, Page>> \in newer') <=> (<<Deps, Page>> \in newer)
           /\ (<<Verified(Root), Page>> \in newer') <=> (<<Verified(Root), Page>> \in newer)
BY WrittenPair, RelatedPairs, TargetNames, TargetMembers, BuildConstants

\* A new report is newer than the .verified of its file.
LEMMA WriteChk ==
    ASSUME NEW f \in DfyFile, newer' = Written(Chk(f))
    PROVE  /\ \A g \in DfyFile :
                 /\ (<<Dfy(g), Dummydep(g)>> \in newer') <=> (<<Dfy(g), Dummydep(g)>> \in newer)
                 /\ (<<Dfy(g), Chk(g)>> \in newer') <=> (<<Dfy(g), Chk(g)>> \in newer /\ g # f)
                 /\ (<<Dfy(g), Deps>> \in newer') <=> (<<Dfy(g), Deps>> \in newer)
                 /\ (<<Chk(g), Verified(g)>> \in newer') <=> (<<Chk(g), Verified(g)>> \in newer \/ g = f)
           /\ \A h, g \in DfyFile :
                 /\ (<<Dummydep(h), Dummydep(g)>> \in newer') <=> (<<Dummydep(h), Dummydep(g)>> \in newer)
                 /\ (<<Dummydep(h), Chk(g)>> \in newer') <=> (<<Dummydep(h), Chk(g)>> \in newer /\ g # f)
                 /\ (<<Verified(h), Verified(g)>> \in newer') <=> (<<Verified(h), Verified(g)>> \in newer)
           /\ (<<Deps, Page>> \in newer') <=> (<<Deps, Page>> \in newer)
           /\ (<<Verified(Root), Page>> \in newer') <=> (<<Verified(Root), Page>> \in newer)
BY WrittenPair, RelatedPairs, TargetNames, TargetMembers, BuildConstants

\* A new .verified is newer than those above, and the root's than the page.
LEMMA WriteVerified ==
    ASSUME NEW f \in DfyFile, newer' = Written(Verified(f))
    PROVE  /\ \A g \in DfyFile :
                 /\ (<<Dfy(g), Dummydep(g)>> \in newer') <=> (<<Dfy(g), Dummydep(g)>> \in newer)
                 /\ (<<Dfy(g), Chk(g)>> \in newer') <=> (<<Dfy(g), Chk(g)>> \in newer)
                 /\ (<<Dfy(g), Deps>> \in newer') <=> (<<Dfy(g), Deps>> \in newer)
                 /\ (<<Chk(g), Verified(g)>> \in newer') <=> (<<Chk(g), Verified(g)>> \in newer /\ g # f)
           /\ \A h, g \in DfyFile :
                 /\ (<<Dummydep(h), Dummydep(g)>> \in newer') <=> (<<Dummydep(h), Dummydep(g)>> \in newer)
                 /\ (<<Dummydep(h), Chk(g)>> \in newer') <=> (<<Dummydep(h), Chk(g)>> \in newer)
                 /\ (<<Verified(h), Verified(g)>> \in newer') <=> ((<<Verified(h), Verified(g)>> \in newer /\ g # f) \/ (h = f /\ f < g))
           /\ (<<Deps, Page>> \in newer') <=> (<<Deps, Page>> \in newer)
           /\ (<<Verified(Root), Page>> \in newer') <=> (<<Verified(Root), Page>> \in newer \/ f = Root)
BY WrittenPair, RelatedPairs, TargetNames, TargetMembers, BuildConstants

\* A new build/deps is newer than the page and than the files listed.
LEMMA WriteDeps ==
    ASSUME newer' = Written(Deps)
    PROVE  /\ \A g \in DfyFile :
                 /\ (<<Dfy(g), Dummydep(g)>> \in newer') <=> (<<Dfy(g), Dummydep(g)>> \in newer)
                 /\ (<<Dfy(g), Chk(g)>> \in newer') <=> (<<Dfy(g), Chk(g)>> \in newer)
                 /\ <<Dfy(g), Deps>> \notin newer'
                 /\ (<<Chk(g), Verified(g)>> \in newer') <=> (<<Chk(g), Verified(g)>> \in newer)
           /\ \A h, g \in DfyFile :
                 /\ (<<Dummydep(h), Dummydep(g)>> \in newer') <=> (<<Dummydep(h), Dummydep(g)>> \in newer)
                 /\ (<<Dummydep(h), Chk(g)>> \in newer') <=> (<<Dummydep(h), Chk(g)>> \in newer)
                 /\ (<<Verified(h), Verified(g)>> \in newer') <=> (<<Verified(h), Verified(g)>> \in newer)
           /\ <<Deps, Page>> \in newer'
           /\ (<<Verified(Root), Page>> \in newer') <=> (<<Verified(Root), Page>> \in newer)
BY WrittenPair, RelatedPairs, TargetNames, TargetMembers, BuildConstants

\* A new page is newer than everything.
LEMMA WritePage ==
    ASSUME newer' = Written(Page)
    PROVE  /\ \A g \in DfyFile :
                 /\ (<<Dfy(g), Dummydep(g)>> \in newer') <=> (<<Dfy(g), Dummydep(g)>> \in newer)
                 /\ (<<Dfy(g), Chk(g)>> \in newer') <=> (<<Dfy(g), Chk(g)>> \in newer)
                 /\ (<<Dfy(g), Deps>> \in newer') <=> (<<Dfy(g), Deps>> \in newer)
                 /\ (<<Chk(g), Verified(g)>> \in newer') <=> (<<Chk(g), Verified(g)>> \in newer)
           /\ \A h, g \in DfyFile :
                 /\ (<<Dummydep(h), Dummydep(g)>> \in newer') <=> (<<Dummydep(h), Dummydep(g)>> \in newer)
                 /\ (<<Dummydep(h), Chk(g)>> \in newer') <=> (<<Dummydep(h), Chk(g)>> \in newer)
                 /\ (<<Verified(h), Verified(g)>> \in newer') <=> (<<Verified(h), Verified(g)>> \in newer)
           /\ <<Deps, Page>> \notin newer'
           /\ <<Verified(Root), Page>> \notin newer'
BY WrittenPair, RelatedPairs, TargetNames, TargetMembers, BuildConstants
----------------------------------------------------------------------------
\* The include graphs of the sources and of build/deps.
LEMMA GraphsTyped ==
    ASSUME BuildTypeOK
    PROVE  /\ Includes \in IncludeGraphs /\ \A f \in DfyFile : Includes[f] = src[f].inc
           /\ deps # NoFile => deps \in IncludeGraphs
           /\ Listed \subseteq DfyFile /\ Shown \subseteq DfyFile /\ Root \in DfyFile
           /\ \A f \in DfyFile : src[f].inc \subseteq DfyFile /\ \A g \in src[f].inc : g < f
<1>1. Includes \in IncludeGraphs /\ \A f \in DfyFile : Includes[f] = src[f].inc
  BY DEF BuildTypeOK, Includes, IncludeGraphs, FileStates
<1>2. deps # NoFile => deps \in IncludeGraphs
  BY DEF BuildTypeOK, IncludeGraphs
<1>3. Root \in DfyFile
  BY BuildConstants
<1>4. Listed \subseteq DfyFile /\ Shown \subseteq DfyFile
  BY <1>1, <1>2, <1>3, ReachableFacts DEF Listed, Shown
<1>5. \A f \in DfyFile : src[f].inc \subseteq DfyFile /\ \A g \in src[f].inc : g < f
  BY DEF BuildTypeOK, Lower
<1> QED
  BY <1>1, <1>2, <1>3, <1>4, <1>5

\* No file includes itself.
LEMMA NoSelfInclude ==
    ASSUME BuildTypeOK, NEW f \in DfyFile
    PROVE  f \notin src[f].inc
<1>1. f \in Nat /\ \A g \in src[f].inc : g < f
  BY GraphsTyped, BuildConstants
<1> QED
  BY <1>1

\* Where the sources stay, so does what they reach.
LEMMA SourceFrame ==
    ASSUME src' = src
    PROVE  /\ Includes' = Includes /\ Shown' = Shown
           /\ \A f : Sources(f)' = Sources(f)
           /\ \A f : Reachable(Includes, f)' = Reachable(Includes, f)
           /\ missed' = missed => (IncludeMissed' <=> IncludeMissed)
<1>1. Includes' = Includes
  BY DEF Includes
<1>2. \A f : Reachable(Includes, f)' = Reachable(Includes, f)
  BY <1>1
<1>3. \A f : Sources(f)' = Sources(f)
  BY <1>2 DEF Sources
<1>4. Shown' = Shown
  BY <1>2 DEF Shown
<1>5. missed' = missed => (IncludeMissed' <=> IncludeMissed)
  BY <1>4 DEF IncludeMissed
<1> QED
  BY <1>1, <1>2, <1>3, <1>4, <1>5

\* Where build/deps stays, so do the files it lists.
LEMMA DepsFrame ==
    ASSUME deps' = deps
    PROVE  Listed' = Listed /\ Dummies' = Dummies
<1>1. Listed' = Listed
  BY DEF Listed
<1> QED
  BY <1>1 DEF Dummies

\* What a step writes.
Wrote(t) == newer' = Written(t) /\ built' = built \cup {t}
WroteNothing == newer' = newer /\ built' = built

\* DafnyReports do not notice what is written after them.
LEMMA LaterWrites ==
    ASSUME BuildTypeOK, src' = src,
           \/ WroteNothing \/ Wrote(Deps) \/ Wrote(Page)
           \/ \E f \in DfyFile : Wrote(Verified(f))
    PROVE  \A g \in DfyFile : /\ DummyStale(g)' <=> DummyStale(g)
                              /\ CheckStale(g)' <=> CheckStale(g)
                              /\ DummiesFresh(g)' <=> DummiesFresh(g)
<1>1. \A g \in DfyFile : src[g].inc \subseteq DfyFile
  BY GraphsTyped
<1>2. \A g \in DfyFile : (DummyStale(g)' <=> DummyStale(g)) /\ (CheckStale(g)' <=> CheckStale(g))
  <2>1. CASE WroteNothing
    BY <2>1 DEF WroteNothing, DummyStale, CheckStale
  <2>2. CASE Wrote(Deps)
    BY <2>2, <1>1, WriteDeps, TargetNames DEF Wrote, DummyStale, CheckStale
  <2>3. CASE Wrote(Page)
    BY <2>3, <1>1, WritePage, TargetNames DEF Wrote, DummyStale, CheckStale
  <2>4. ASSUME NEW f \in DfyFile, Wrote(Verified(f))
        PROVE  \A g \in DfyFile : (DummyStale(g)' <=> DummyStale(g)) /\ (CheckStale(g)' <=> CheckStale(g))
    BY <2>4, <1>1, WriteVerified, TargetNames, ZenonT(60) DEF Wrote, DummyStale, CheckStale
  <2> QED
    BY <2>1, <2>2, <2>3, <2>4
<1>3. ASSUME NEW g \in DfyFile PROVE DummiesFresh(g)' <=> DummiesFresh(g)
  <2>1. Reachable(Includes, g)' = Reachable(Includes, g) /\ Reachable(Includes, g) \subseteq DfyFile
    BY SourceFrame, GraphsTyped, ReachableFacts
  <2> QED
    BY <1>2, <2>1 DEF DummiesFresh
<1> QED
  BY <1>2, <1>3

\* A new report makes only the report of f fresh.
LEMMA ReportWrites ==
    ASSUME BuildTypeOK, src' = src, NEW f \in DfyFile, Wrote(Chk(f))
    PROVE  \A g \in DfyFile : /\ DummyStale(g)' <=> DummyStale(g)
                              /\ CheckStale(g)' <=> (CheckStale(g) /\ g # f)
                              /\ DummiesFresh(g)' <=> DummiesFresh(g)
<1>1. \A g \in DfyFile : src[g].inc \subseteq DfyFile
  BY GraphsTyped
<1>2. \A g \in DfyFile : (DummyStale(g)' <=> DummyStale(g)) /\ (CheckStale(g)' <=> (CheckStale(g) /\ g # f))
  BY <1>1, WriteChk, TargetNames DEF Wrote, DummyStale, CheckStale
<1>3. ASSUME NEW g \in DfyFile PROVE DummiesFresh(g)' <=> DummiesFresh(g)
  <2>1. Reachable(Includes, g)' = Reachable(Includes, g) /\ Reachable(Includes, g) \subseteq DfyFile
    BY SourceFrame, GraphsTyped, ReachableFacts
  <2> QED
    BY <1>2, <2>1 DEF DummiesFresh
<1> QED
  BY <1>2, <1>3

\* Who reaches f includes a file that the new .dummydep of f makes stale.
LEMMA DummyWrites ==
    ASSUME BuildTypeOK, src' = src, NEW f \in DfyFile, Wrote(Dummydep(f))
    PROVE  /\ \A g \in DfyFile : CheckStale(g)' <=> (CheckStale(g) \/ f \in src[g].inc)
           /\ \A g \in DfyFile : DummyStale(g)' <=> ((DummyStale(g) /\ g # f) \/ f \in src[g].inc)
           /\ \A g \in DfyFile : DummiesFresh(g)' /\ ~CheckStale(g)' => DummiesFresh(g) /\ ~CheckStale(g)
<1>1. \A g \in DfyFile : src[g].inc \subseteq DfyFile /\ \A h \in src[g].inc : h < g
  BY GraphsTyped
<1>2. ASSUME NEW g \in DfyFile PROVE CheckStale(g)' <=> (CheckStale(g) \/ f \in src[g].inc)
  BY <1>1, WriteDummydep, TargetNames DEF Wrote, CheckStale
<1>3. ASSUME NEW g \in DfyFile PROVE DummyStale(g)' <=> ((DummyStale(g) /\ g # f) \/ f \in src[g].inc)
  <2>1. f \notin src[f].inc
    BY NoSelfInclude
  <2> QED
    BY <1>1, <2>1, WriteDummydep, TargetNames, ZenonT(60) DEF Wrote, DummyStale
<1>4. ASSUME NEW g \in DfyFile, DummiesFresh(g)', ~CheckStale(g)' PROVE DummiesFresh(g) /\ ~CheckStale(g)
  <2>1. /\ Reachable(Includes, g)' = Reachable(Includes, g) /\ Reachable(Includes, g) \subseteq DfyFile
        /\ Includes \in IncludeGraphs /\ \A h \in DfyFile : Includes[h] = src[h].inc
    BY SourceFrame, GraphsTyped, ReachableFacts
  <2>2. ~CheckStale(g) /\ f \notin src[g].inc
    BY <1>4, <1>2
  <2>3. \A h \in Reachable(Includes, g) \ {g} : ~((DummyStale(h) /\ h # f) \/ f \in src[h].inc)
    BY <1>4, <1>3, <2>1 DEF DummiesFresh
  <2>4. f \notin Reachable(Includes, g) \ {g}
    <3>1. SUFFICES ASSUME f \in Reachable(Includes, g), f # g PROVE FALSE
      OBVIOUS
    <3>2. PICK p \in Reachable(Includes, g) : f \in Includes[p]
      BY <3>1, <2>1, ReachablePredecessor
    <3> QED
      BY <3>2, <2>1, <2>2, <2>3
  <2> QED
    BY <2>2, <2>3, <2>4 DEF DummiesFresh
<1> QED
  BY <1>2, <1>3, <1>4
----------------------------------------------------------------------------
\* Conditions are a success from level 5 on.
LEMMA ConditionLevels ==
    /\ \A c \in Conditions : c.level \in 0 .. 7 /\ (c.is_success <=> c.level >= 5)
    /\ Raises.is_success = FALSE /\ Raises.level = -1
BY DEF Conditions, Raises, DafnyCondition, DafnyParseError, DafnyTypeError, DafnyVerificationError,
       DafnyAssumeError, DafnyTimeoutError, DafnyDynamicFrames, DafnyVerified, DafnySyntaxOK

\* The worst of some conditions is a success only if they all are.
LEMMA WorstSuccess ==
    ASSUME NEW S \in SUBSET Conditions, S # {}
    PROVE  /\ Worst(S) \in S
           /\ Worst(S).is_success => \A c \in S : c.is_success
<1> DEFINE L == {c.level : c \in S}
<1>1. L \subseteq Nat /\ L # {}
  BY ConditionLevels
<1>2. PICK n \in L : \A m \in L : ~(<<m, n>> \in OpToRel(<, Nat))
  BY <1>1, NatLessThanWellFounded, WFMin
<1>3. \A m \in L : n <= m
  <2> HIDE DEF L
  <2>1. \A m \in L : ~(m < n)
    BY <1>1, <1>2 DEF OpToRel
  <2> QED
    BY <1>1, <2>1
<1>4. \E c \in S : \A d \in S : c.level <= d.level
  BY <1>3
<1>5. Worst(S) \in S /\ \A d \in S : Worst(S).level <= d.level
  BY <1>4 DEF Worst
<1>6. ASSUME Worst(S).is_success, NEW c \in S PROVE c.is_success
  <2>1. Worst(S).level >= 5 /\ Worst(S).level \in 0 .. 7 /\ c.level \in 0 .. 7
    BY <1>5, <1>6, ConditionLevels
  <2>2. c.level >= 5
    BY <1>5, <1>6, <2>1
  <2> QED
    BY <2>2, ConditionLevels
<1> QED
  BY <1>5, <1>6

\* What a report and a text amount to.
LEMMA ExtractedCondition ==
    ASSUME NEW type \in {VERCHK, SYNCHK}, NEW f, NEW content \in SourceTexts,
           NEW r \in DafnyReports({"parse", "type", "finished", "none"}),
           type = SYNCHK => r \in DafnyReports({"parse", "type", "none"})
    PROVE  /\ ExtractCondition(type, f \in TrustedFiles, r, content) \in Conditions \cup {Raises}
           /\ ExtractCondition(type, f \in TrustedFiles, r, content).is_success =>
                 /\ ~HasDisallowedAssumptions(f \in TrustedFiles, content)
                 /\ r.summary = IF type = VERCHK THEN "finished" ELSE "none"
                 /\ r.errors = 0 /\ r.timeouts % 10 = 0
<1> DEFINE c == ExtractCondition(type, f \in TrustedFiles, r, content)
<1> DEFINE bad == HasDisallowedAssumptions(f \in TrustedFiles, content)
<1>1. /\ r.errors \in Nat /\ r.timeouts \in Nat /\ r.summary \in {"parse", "type", "finished", "none"}
      /\ r.summary # "finished" => r.errors = 0 /\ r.timeouts % 10 = 0
      /\ type = SYNCHK => r.summary # "finished"
  BY DEF DafnyReports
<1>2. bad \in BOOLEAN /\ HasDynamicFrames(content) \in BOOLEAN
  BY DEF SourceTexts, HasDisallowedAssumptions, HasDynamicFrames
<1>3. VERCHK # SYNCHK
  BY DEF VERCHK, SYNCHK
<1>4. /\ ~DafnyParseError.is_success /\ ~DafnyTypeError.is_success /\ ~DafnyVerificationError.is_success
      /\ ~DafnyAssumeError.is_success /\ ~DafnyTimeoutError.is_success /\ ~Raises.is_success
  BY DEF Raises, DafnyCondition, DafnyParseError, DafnyTypeError, DafnyVerificationError,
         DafnyAssumeError, DafnyTimeoutError
<1>5. CASE r.summary = "parse"
  BY <1>5, <1>4 DEF ExtractCondition, Conditions
<1>6. CASE r.summary = "type"
  BY <1>6, <1>4 DEF ExtractCondition, Conditions
<1>7. CASE r.summary = "finished"
  <2>1. c = FinishedCondition(f \in TrustedFiles, r, content) /\ type = VERCHK
    BY <1>7, <1>1 DEF ExtractCondition
  <2>2. \/ c = DafnyVerificationError
        \/ c = DafnyAssumeError
        \/ c = DafnyTimeoutError
        \/ c = DafnyVerified /\ r.errors = 0 /\ ~bad /\ ~(r.timeouts % 10 > 0)
    <3> HIDE DEF c
    <3>1. CASE r.errors > 0
      BY <3>1, <2>1 DEF FinishedCondition
    <3>2. CASE r.errors = 0
      BY <3>2, <2>1 DEF FinishedCondition, TimeoutCount
    <3> QED
      BY <3>1, <3>2, <1>1
  <2>3. ~(r.timeouts % 10 > 0) => r.timeouts % 10 = 0
    BY <1>1
  <2> HIDE DEF c, bad
  <2>4. c \in Conditions
    BY <2>2 DEF Conditions
  <2>5. c.is_success => c = DafnyVerified /\ r.errors = 0 /\ ~bad /\ ~(r.timeouts % 10 > 0)
    BY <2>2, <1>4
  <2> QED
    BY <2>1, <2>3, <2>4, <2>5, <1>7 DEF c, bad
<1>8. CASE r.summary = "none"
  <2>1. CASE type = VERCHK
    BY <2>1, <1>8, <1>3, <1>4 DEF ExtractCondition
  <2>2. CASE type = SYNCHK
    <3>1. c = SyntaxCondition(f \in TrustedFiles, content)
      BY <2>2, <1>8, <1>3 DEF ExtractCondition
    <3>2. c \in Conditions /\ (c.is_success => ~bad)
      BY <3>1, <1>2, <1>4 DEF SyntaxCondition, Conditions
    <3> QED
      BY <3>2, <2>2, <1>8, <1>1, <1>3
  <2> QED
    BY <2>1, <2>2
<1> QED
  BY <1>1, <1>5, <1>6, <1>7, <1>8

\* The prerequisites of a target.
LEMMA PrereqsOf ==
    /\ \A f : /\ Prereqs(Dummydep(f)) = {Dfy(f)} \cup {Dummydep(g) : g \in deps[f]}
              /\ Prereqs(Chk(f)) = {Dfy(f)} \cup {Dummydep(g) : g \in deps[f]}
              /\ Prereqs(Verified(f)) = {Chk(f)} \cup UNION {{Verified(g), Chk(g)} : g \in deps[f]}
    /\ Prereqs(Page) = {Dfy(Root), Verified(Root), Deps}
BY DEF Prereqs, DummyPrereqs, VerifiedPrereqs, PagePrereqs, Dummydep, Chk, Verified, Page

\* The kinds of files.
LEMMA TargetKinds ==
    /\ \A f : /\ Dfy(f)[1] = "dfy" /\ Dummydep(f)[1] = "dummydep" /\ Chk(f)[1] = "chk"
              /\ Verified(f)[1] = "verified"
              /\ Dfy(f)[2] = f /\ Dummydep(f)[2] = f /\ Chk(f)[2] = f /\ Verified(f)[2] = f
    /\ Deps[1] = "deps" /\ Page[1] = "page"
BY DEF Dfy, Dummydep, Chk, Verified, Deps, Page
----------------------------------------------------------------------------
\* What the sources of f are.
LEMMA SourcesSnapshot ==
    ASSUME BuildTypeOK, NEW f \in DfyFile
    PROVE  /\ IsSnapshot(Sources(f), f)
           /\ Sources(f)[f] = src[f]
<1>1. Reachable(Includes, f) \subseteq DfyFile /\ f \in Reachable(Includes, f)
  BY GraphsTyped, ReachableFacts
<1>2. src \in [DfyFile -> FileStates]
  BY DEF BuildTypeOK
<1> QED
  BY <1>1, <1>2 DEF IsSnapshot, Sources

\* What a report is.
LEMMA ReportTexts ==
    ASSUME BuildTypeOK, BuiltInv, NEW f \in DfyFile
    PROVE  /\ src[f].text \in SourceTexts
           /\ report[f] # NoFile => report[f].text \in SourceTexts /\ report[f].reads[f].text = report[f].text
<1>1. src[f].text \in SourceTexts
  BY DEF BuildTypeOK, FileStates
<1>2. ASSUME report[f] # NoFile PROVE report[f].text \in SourceTexts /\ report[f].reads[f].text = report[f].text
  <2>1. IsSnapshot(report[f].reads, f)
    BY <1>2 DEF BuildTypeOK
  <2>2. report[f].reads[f] \in FileStates
    BY <2>1 DEF IsSnapshot
  <2>3. report[f].text = report[f].reads[f].text
    BY <1>2 DEF BuiltInv
  <2> QED
    BY <2>2, <2>3 DEF FileStates
<1> QED
  BY <1>1, <1>2

\* The report of a text about which a page is made.
LEMMA TextReport ==
    ASSUME NEW content \in SourceTexts, NEW type \in {VERCHK, SYNCHK}
    PROVE  /\ content.report[type] \in DafnyReports({"parse", "type", "finished", "none"})
           /\ type = SYNCHK => content.report[type] \in DafnyReports({"parse", "type", "none"})
<1>1. /\ content.report["verchk"] \in DafnyReports({"parse", "type", "finished", "none"})
      /\ content.report["synchk"] \in DafnyReports({"parse", "type", "none"})
  BY DEF SourceTexts
<1>2. DafnyReports({"parse", "type", "none"}) \subseteq DafnyReports({"parse", "type", "finished", "none"})
  BY DEF DafnyReports
<1> QED
  BY <1>1, <1>2 DEF VERCHK, SYNCHK

\* What summarize returns, or the exception.
LEMMA SummarizeType ==
    ASSUME BuildTypeOK, BuiltInv, NEW f \in DfyFile
    PROVE  Summarize(f) \in Conditions \cup {Raises}
<1>1. CASE report[f] = NoFile
  BY <1>1 DEF Summarize
<1>2. CASE report[f] # NoFile
  <2>1. reportType \in {VERCHK, SYNCHK} /\ src[f].text \in SourceTexts /\ report[f].text \in SourceTexts
    BY <1>2, ReportTexts DEF BuildTypeOK
  <2>3. /\ report[f].text.report[reportType] \in DafnyReports({"parse", "type", "finished", "none"})
        /\ reportType = SYNCHK => report[f].text.report[reportType] \in DafnyReports({"parse", "type", "none"})
    BY <2>1, TextReport
  <2>4. ASSUME NEW type, type = reportType, NEW r, r = report[f].text.report[reportType],
               NEW content, content = src[f].text
        PROVE  ExtractCondition(type, f \in TrustedFiles, r, content) \in Conditions \cup {Raises}
    <3>1. /\ type \in {VERCHK, SYNCHK} /\ content \in SourceTexts
          /\ r \in DafnyReports({"parse", "type", "finished", "none"})
          /\ type = SYNCHK => r \in DafnyReports({"parse", "type", "none"})
      BY <2>1, <2>3, <2>4
    <3> QED
      BY ONLY <3>1, ExtractedCondition
  <2> QED
    BY <1>2, <2>4 DEF Summarize
<1> QED
  BY <1>1, <1>2

\* What aggregate-verchk.py sees includes the report of the file itself.
LEMMA SummarizedFacts ==
    ASSUME BuildTypeOK, BuiltInv, NEW f \in Listed
    PROVE  /\ Summarize(f) \in Summarized(f)
           /\ Summarized(f) \subseteq Conditions \cup {Raises}
<1>1. f \in DfyFile /\ deps # NoFile /\ deps[f] \subseteq DfyFile
  BY GraphsTyped DEF Listed, IncludeGraphs
<1>2. Prereqs(Verified(f)) = {Chk(f)} \cup UNION {{Verified(g), Chk(g)} : g \in deps[f]}
  BY PrereqsOf
<1>3. \A p \in Prereqs(Verified(f)) : p[2] \in DfyFile
  BY <1>1, <1>2, TargetKinds
<1>4. Chk(f) \in Prereqs(Verified(f)) /\ Chk(f)[1] = "chk" /\ Chk(f)[2] = f
  BY <1>2, TargetKinds
<1> QED
  BY <1>3, <1>4, SummarizeType DEF Summarized

\* Only files that some rule relates are compared.
LEMMA WrittenTyped ==
    ASSUME BuildTypeOK, NEW p
    PROVE  \A q \in Written(p) : q[2] \in Target /\ Related(q[1], q[2])
BY DEF BuildTypeOK, Written

\* The type invariant holds at first.
LEMMA BuildInitType == BuildInit => BuildTypeOK
<1> SUFFICES ASSUME BuildInit PROVE BuildTypeOK
  OBVIOUS
<1>1. PICK s \in Scenarios : /\ reportType = s.reportType
                             /\ src = [f \in DfyFile |-> [inc |-> s.inc[f], text |-> s.text[f]]]
                             /\ disturbances = s.disturbances
  BY DEF BuildInit
<1>2. /\ s.reportType \in {VERCHK, SYNCHK} /\ s.disturbances \in Nat
      /\ \A f \in DfyFile : s.inc[f] \subseteq Lower(f) /\ s.text[f] \in SourceTexts
  BY BuildConstants
<1>3. \A f \in DfyFile : s.inc[f] \subseteq DfyFile
  BY <1>2 DEF Lower
<1>4. src \in [DfyFile -> FileStates] /\ \A f \in DfyFile : src[f].inc \subseteq Lower(f)
  BY <1>1, <1>2, <1>3 DEF FileStates
<1> QED
  BY <1>1, <1>2, <1>4 DEF BuildInit, BuildTypeOK

\* Writing a target keeps the types.
LEMMA WroteTyped ==
    ASSUME BuildTypeOK, NEW t \in Target, Wrote(t)
    PROVE  /\ built' \subseteq Target
           /\ \A q \in newer' : q[2] \in Target /\ Related(q[1], q[2])
BY WrittenTyped DEF BuildTypeOK, Wrote

\* Every action, and standing still.
LEMMA BuildSteps ==
    ASSUME [BuildNext]_buildVars,
           NEW ACTION P,
           (UNCHANGED buildVars) => P,
           \A f \in DfyFile : Edit(f) => P,
           \A f \in DfyFile : FinishCheck(f) => P,
           StartMake => P, Interrupt => P, FindTargets => P, GatherDeps => P, WriteDepsFile => P, StartBuild => P, Stop => P,
           \A f \in Listed \ {Root} : TouchDummydep(f) => P,
           \A f \in Listed \ {Root} : UpToDate(Dummydep(f)) => P,
           \A f \in Listed : StartCheck(f) => P,
           \A f \in Listed : UpToDate(Chk(f)) => P,
           \A f \in Listed : UpToDate(Verified(f)) => P,
           \A f \in Listed : Aggregate(f) => P,
           \A f \in Listed : AggregateRaises(f) => P,
           BuildPage => P, PageRaises => P, PageUpToDate => P
    PROVE  P
BY DEF BuildNext, MakeStep

\* Every step keeps the type invariant.
LEMMA BuildTypeStep ==
    ASSUME BuildTypeOK, BuiltInv, [BuildNext]_buildVars
    PROVE  BuildTypeOK'
<1>0. Listed \subseteq DfyFile /\ Shown \subseteq DfyFile
  BY GraphsTyped
<1>1. (UNCHANGED buildVars) => BuildTypeOK'
  BY DEF buildVars, BuildTypeOK
<1>2. ASSUME NEW f \in DfyFile, Edit(f) PROVE BuildTypeOK'
  <2>1. PICK inc \in SUBSET Lower(f), content \in EditTexts : src' = [src EXCEPT ![f] = [inc |-> inc, text |-> content]]
    BY <1>2 DEF Edit
  <2>2. [inc |-> inc, text |-> content] \in FileStates /\ [inc |-> inc, text |-> content].inc \subseteq Lower(f)
    BY BuildConstants DEF FileStates, Lower
  <2>3. src' \in [DfyFile -> FileStates] /\ \A g \in DfyFile : src'[g].inc \subseteq Lower(g)
    BY <2>1, <2>2 DEF BuildTypeOK
  <2>4. \A q \in newer' : q[2] \in Target /\ Related(q[1], q[2])
    BY <1>2, WrittenTyped DEF Edit
  <2>5. disturbances' \in Nat /\ racing' \subseteq DfyFile /\ unseen' \subseteq DfyFile
    BY <1>2 DEF Edit, BuildTypeOK
  <2> QED
    BY <1>2, <2>3, <2>4, <2>5 DEF Edit, BuildTypeOK
<1>3. ASSUME NEW f \in DfyFile, FinishCheck(f) PROVE BuildTypeOK'
  <2>1. Wrote(Chk(f)) /\ Chk(f) \in Target
    BY <1>3, TargetMembers DEF FinishCheck, Wrote
  <2>2. /\ built' \subseteq Target
        /\ \A q \in newer' : q[2] \in Target /\ Related(q[1], q[2])
    BY <2>1, WroteTyped
  <2>3. considered' \subseteq Target
    BY <1>3, <2>1 DEF FinishCheck, Considered, BuildTypeOK
  <2>4. IsSnapshot(running[f], f)
    BY <1>3 DEF FinishCheck, BuildTypeOK
  <2>5. /\ DOMAIN report' = DfyFile /\ DOMAIN running' = DfyFile
        /\ \A g \in DfyFile : /\ report'[g] # NoFile => IsSnapshot(report'[g].reads, g)
                              /\ running'[g] # NoFile => IsSnapshot(running'[g], g)
    BY <1>3, <2>4 DEF FinishCheck, BuildTypeOK
  <2>6. raced' \subseteq DfyFile /\ racing' \subseteq DfyFile
    BY <1>3 DEF FinishCheck, BuildTypeOK
  <2> QED
    BY <1>3, <2>2, <2>3, <2>5, <2>6 DEF FinishCheck, BuildTypeOK, IsSnapshot
<1>4. ASSUME StartMake \/ StartBuild \/ Stop \/ PageRaises \/ PageUpToDate PROVE BuildTypeOK'
  <2>1. /\ UNCHANGED <<reportType, src, deps, built, newer, report, verified, page, running, racing, raced, disturbances,
                       described, missed, targetIrefs, output, unseen>>
        /\ considered' \in {considered, {}} /\ make' \in {"idle", "deps", "build"} /\ quiet' \in {quiet, TRUE, FALSE}
    BY <1>4 DEF StartMake, StartBuild, Stop, PageRaises, PageUpToDate
  <2> QED
    BY <2>1 DEF BuildTypeOK, IsSnapshot
<1>5. ASSUME Interrupt PROVE BuildTypeOK'
  <2>1. disturbances' \in Nat
    BY <1>5 DEF Interrupt, BuildTypeOK
  <2>2. DOMAIN running' = DfyFile /\ \A f \in DfyFile : running'[f] = NoFile
    BY <1>5 DEF Interrupt
  <2>3. /\ UNCHANGED <<reportType, src, deps, built, newer, report, verified, page, considered, raced, described, missed>>
        /\ targetIrefs' = {} /\ output' = NoFile /\ unseen' = {} /\ racing' = {} /\ make' = "idle" /\ quiet' = FALSE
    BY <1>5 DEF Interrupt
  <2> QED
    BY <2>1, <2>2, <2>3 DEF BuildTypeOK, IsSnapshot
<1>6. ASSUME WriteDepsFile PROVE BuildTypeOK'
  <2>1. Wrote(Deps) /\ Deps \in Target
    BY <1>6, TargetMembers DEF WriteDepsFile, Wrote
  <2>2. /\ built' \subseteq Target
        /\ \A q \in newer' : q[2] \in Target /\ Related(q[1], q[2])
    BY <2>1, WroteTyped
  <2> QED
    BY <1>6, <2>2 DEF WriteDepsFile, BuildTypeOK, IsSnapshot
<1>12. ASSUME FindTargets PROVE BuildTypeOK'
  <2>1. Reachable(Includes, Root) \subseteq DfyFile
    BY <1>0 DEF Shown
  <2> QED
    BY <1>12, <2>1 DEF FindTargets, BuildTypeOK, IsSnapshot
<1>13. ASSUME GatherDeps PROVE BuildTypeOK'
  <2>1. output' \in [DfyFile -> SUBSET DfyFile] /\ \A f \in DfyFile : output'[f] \subseteq Lower(f)
    BY <1>13 DEF GatherDeps, BuildTypeOK, Lower
  <2> QED
    BY <1>13, <2>1 DEF GatherDeps, BuildTypeOK, IsSnapshot
<1>7. ASSUME NEW f \in DfyFile, TouchDummydep(f) PROVE BuildTypeOK'
  <2>1. Wrote(Dummydep(f)) /\ Dummydep(f) \in Target
    BY <1>7, TargetMembers DEF TouchDummydep, Build, Wrote
  <2>2. /\ built' \subseteq Target
        /\ \A q \in newer' : q[2] \in Target /\ Related(q[1], q[2])
    BY <2>1, WroteTyped
  <2> QED
    BY <1>7, <2>1, <2>2 DEF TouchDummydep, Build, Considered, BuildTypeOK, IsSnapshot
<1>8. ASSUME NEW t \in Target, UpToDate(t) PROVE BuildTypeOK'
  BY <1>8 DEF UpToDate, Considered, BuildTypeOK, IsSnapshot
<1>9. ASSUME NEW f \in DfyFile, StartCheck(f) PROVE BuildTypeOK'
  <2>1. IsSnapshot(Sources(f), f)
    BY SourcesSnapshot
  <2>2. /\ DOMAIN running' = DfyFile /\ racing' \subseteq DfyFile
        /\ \A g \in DfyFile : running'[g] # NoFile => IsSnapshot(running'[g], g)
    BY <1>9, <2>1 DEF StartCheck, BuildTypeOK
  <2> QED
    BY <1>9, <2>2 DEF StartCheck, BuildTypeOK, IsSnapshot
<1>10. ASSUME NEW f \in DfyFile, Aggregate(f) \/ AggregateRaises(f) PROVE BuildTypeOK'
  <2>1. Wrote(Verified(f)) /\ Verified(f) \in Target
    BY <1>10, TargetMembers DEF Aggregate, AggregateRaises, Build, Wrote
  <2>2. /\ built' \subseteq Target
        /\ \A q \in newer' : q[2] \in Target /\ Related(q[1], q[2])
    BY <2>1, WroteTyped
  <2>3. verified' \in [DfyFile -> {"missing", "success", "failure", "empty"}]
    BY <1>10 DEF Aggregate, AggregateRaises, BuildTypeOK
  <2>4. UNCHANGED <<workTree, depsFile, veridepend, checks, page, disturbances>>
    BY <1>10 DEF Aggregate, AggregateRaises
  <2>5. make' \in {make, "failed"} /\ quiet' \in BOOLEAN
    BY <1>10 DEF Aggregate, AggregateRaises, BuildTypeOK
  <2>6. considered' \subseteq Target
    BY <1>10, <2>1 DEF Aggregate, AggregateRaises, Build, Considered, BuildTypeOK
  <2>7. /\ make' \in {"idle", "deps", "found", "gathered", "build", "failed"}
        /\ \A g \in DfyFile : /\ report'[g] # NoFile => IsSnapshot(report'[g].reads, g)
                             /\ running'[g] # NoFile => IsSnapshot(running'[g], g)
    BY <2>4, <2>5 DEF BuildTypeOK, checks
  <2> QED
    BY <2>2, <2>3, <2>4, <2>5, <2>6, <2>7 DEF BuildTypeOK, workTree, depsFile, veridepend, checks
<1>11. ASSUME BuildPage PROVE BuildTypeOK'
  <2>1. Wrote(Page) /\ Page \in Target
    BY <1>11, TargetMembers DEF BuildPage, Wrote
  <2>2. /\ built' \subseteq Target
        /\ \A q \in newer' : q[2] \in Target /\ Related(q[1], q[2])
    BY <2>1, WroteTyped
  <2>3. \A f \in Shown : Summarize(f) \in Conditions
    BY <1>11, <1>0, SummarizeType DEF BuildPage, CanShow
  <2>4. \A f \in DOMAIN page' : page'[f] \in Conditions
    BY <1>11, <2>3 DEF BuildPage
  <2> QED
    BY <1>11, <2>2, <2>4 DEF BuildPage, BuildTypeOK, IsSnapshot
<1> QED
  BY <1>0, <1>1, <1>2, <1>3, <1>4, <1>5, <1>6, <1>7, <1>8, <1>9, <1>10, <1>11, <1>12, <1>13, TargetMembers, BuildSteps
----------------------------------------------------------------------------
\* What depends on an edited file is noticed, the rest is not touched.
LEMMA EditNoticed ==
    ASSUME BuildTypeOK, BuildTypeOK', NEW f \in DfyFile, Edit(f)
    PROVE  /\ DummyStale(f)' /\ CheckStale(f)'
           /\ \A g \in DfyFile \ {f} : /\ src'[g] = src[g]
                                       /\ DummyStale(g)' <=> DummyStale(g)
                                       /\ CheckStale(g)' <=> CheckStale(g)
           /\ \A g \in DfyFile \ {f} : f \in Reachable(Includes, g)' => ~DummiesFresh(g)'
           /\ \A g \in DfyFile : f \notin Reachable(Includes, g)' =>
                 /\ Reachable(Includes, g)' = Reachable(Includes, g)
                 /\ Sources(g)' = Sources(g)
                 /\ DummiesFresh(g)' => DummiesFresh(g)
<1>1. newer' = Written(Dfy(f)) /\ built' = built /\ \A g \in DfyFile \ {f} : src'[g] = src[g]
  BY DEF Edit, BuildTypeOK
<1>2. \A g \in DfyFile : src[g].inc \subseteq DfyFile
  BY GraphsTyped
<1>3. DummyStale(f)' /\ CheckStale(f)'
  BY <1>1, WriteDfy DEF DummyStale, CheckStale
<1>4. \A g \in DfyFile \ {f} : (DummyStale(g)' <=> DummyStale(g)) /\ (CheckStale(g)' <=> CheckStale(g))
  BY <1>1, <1>2, WriteDfy DEF DummyStale, CheckStale
<1>5. ASSUME NEW g \in DfyFile \ {f}, f \in Reachable(Includes, g)' PROVE ~DummiesFresh(g)'
  BY <1>3, <1>5 DEF DummiesFresh
<1>6. /\ Includes \in IncludeGraphs /\ Includes' \in IncludeGraphs
      /\ \A g \in DfyFile : Includes[g] = src[g].inc /\ Includes'[g] = src'[g].inc
  BY DEF BuildTypeOK, Includes, IncludeGraphs, FileStates
<1>7. ASSUME NEW g \in DfyFile, f \notin Reachable(Includes, g)'
      PROVE  /\ Reachable(Includes, g)' = Reachable(Includes, g)
             /\ Sources(g)' = Sources(g)
             /\ DummiesFresh(g)' => DummiesFresh(g)
  <2>1. f \notin Reachable(Includes', g) /\ Reachable(Includes', g) \subseteq DfyFile
    BY <1>6, <1>7, ReachableFacts
  <2>2. \A h \in Reachable(Includes', g) : Includes[h] = Includes'[h]
    BY <2>1, <1>1, <1>6
  <2>3. Reachable(Includes, g) = Reachable(Includes', g)
    BY <2>2, <1>6, ReachableAgree
  <2>4. \A h \in Reachable(Includes, g) : src'[h] = src[h]
    BY <2>1, <2>3, <1>1
  <2>5. Sources(g)' = Sources(g)
    BY <2>3, <2>4 DEF Sources
  <2>6. DummiesFresh(g)' => DummiesFresh(g)
    BY <2>1, <2>3, <1>4 DEF DummiesFresh
  <2> QED
    BY <2>3, <2>5, <2>6
<1> QED
  BY <1>1, <1>3, <1>4, <1>5, <1>7

\* The actions by what they write: nothing, or something that reports do not depend on.
LEMMA OtherWrites ==
    ASSUME BuildTypeOK,
           \/ StartMake \/ Interrupt \/ FindTargets \/ GatherDeps \/ WriteDepsFile \/ StartBuild \/ Stop
           \/ \E t : UpToDate(t)
           \/ \E f \in DfyFile : StartCheck(f) \/ Aggregate(f) \/ AggregateRaises(f)
           \/ BuildPage \/ PageRaises \/ PageUpToDate
           \/ UNCHANGED buildVars
    PROVE  /\ src' = src
           /\ \/ WroteNothing \/ Wrote(Deps) \/ Wrote(Page)
              \/ \E f \in DfyFile : Wrote(Verified(f))
<1>1. ASSUME \/ StartMake \/ Interrupt \/ FindTargets \/ GatherDeps \/ StartBuild \/ Stop \/ PageRaises \/ PageUpToDate
             \/ UNCHANGED buildVars
      PROVE  src' = src /\ WroteNothing
  BY <1>1 DEF StartMake, Interrupt, FindTargets, GatherDeps, StartBuild, Stop, PageRaises, PageUpToDate, buildVars, WroteNothing
<1>2. ASSUME NEW t, UpToDate(t) PROVE src' = src /\ WroteNothing
  BY <1>2 DEF UpToDate, WroteNothing
<1>3. ASSUME NEW f \in DfyFile, StartCheck(f) PROVE src' = src /\ WroteNothing
  BY <1>3 DEF StartCheck, WroteNothing
<1>4. ASSUME NEW f \in DfyFile, Aggregate(f) \/ AggregateRaises(f) PROVE src' = src /\ Wrote(Verified(f))
  BY <1>4 DEF Aggregate, AggregateRaises, Build, Wrote
<1>5. ASSUME WriteDepsFile PROVE src' = src /\ Wrote(Deps)
  BY <1>5 DEF WriteDepsFile, Wrote
<1>6. ASSUME BuildPage PROVE src' = src /\ Wrote(Page)
  BY <1>6 DEF BuildPage, Wrote
<1> QED
  BY <1>1, <1>2, <1>3, <1>4, <1>5, <1>6

\* Every step keeps a report fresh, or the rules notice, or it is raced.
LEMMA ReportStep ==
    ASSUME StatusInv, BuildTypeOK', [BuildNext]_buildVars
    PROVE  FreshReportInv'
<1> USE DEF StatusInv
<1>0. Listed \subseteq DfyFile
  BY GraphsTyped
<1>1. ASSUME NEW f \in DfyFile, Edit(f) PROVE FreshReportInv'
  <2>1. report' = report /\ raced' = raced
    BY <1>1 DEF Edit
  <2>2. ASSUME NEW g \in DfyFile, report[g] # NoFile, g \notin raced', ~CheckStale(g)', DummiesFresh(g)'
        PROVE  report[g].reads = Sources(g)'
    <3>1. g # f
      BY <1>1, <2>2, EditNoticed
    <3>2. f \notin Reachable(Includes, g)' /\ ~CheckStale(g)
      BY <3>1, <1>1, <2>2, EditNoticed
    <3>3. Sources(g)' = Sources(g) /\ DummiesFresh(g)
      BY <3>2, <1>1, <2>2, EditNoticed
    <3> QED
      BY <3>2, <3>3, <2>1, <2>2 DEF FreshReportInv
  <2> QED
    BY <2>1, <2>2 DEF FreshReportInv
<1>2. ASSUME NEW f \in DfyFile, FinishCheck(f) PROVE FreshReportInv'
  <2>1. /\ Wrote(Chk(f)) /\ src' = src
        /\ \A g \in DfyFile \ {f} : g \notin raced' => g \notin raced
        /\ f \notin raced' => f \notin racing
    BY <1>2 DEF FinishCheck, Wrote
  <2>2. /\ \A g \in DfyFile \ {f} : report'[g] = report[g]
        /\ report'[f].reads = running[f] /\ running[f] # NoFile
    BY <1>2 DEF FinishCheck, BuildTypeOK
  <2>3. ASSUME NEW g \in DfyFile, report'[g] # NoFile, g \notin raced', ~CheckStale(g)', DummiesFresh(g)'
        PROVE  report'[g].reads = Sources(g)'
    <3>1. Sources(g)' = Sources(g) /\ DummiesFresh(g)
      BY <2>1, <2>3, ReportWrites, SourceFrame
    <3>2. CASE g = f
      BY <3>1, <3>2, <2>1, <2>2, <2>3 DEF CheckInv
    <3>3. CASE g # f
      <4>1. ~CheckStale(g)
        BY <3>3, <2>1, <2>3, ReportWrites
      <4> QED
        BY <4>1, <3>1, <3>3, <2>1, <2>2, <2>3 DEF FreshReportInv
    <3> QED
      BY <3>2, <3>3
  <2> QED
    BY <2>1, <2>3 DEF FreshReportInv
<1>3. ASSUME NEW f \in DfyFile, TouchDummydep(f) PROVE FreshReportInv'
  <2>1. Wrote(Dummydep(f)) /\ src' = src /\ raced' = raced /\ report' = report
    BY <1>3 DEF TouchDummydep, Build, Wrote
  <2>2. ASSUME NEW g \in DfyFile, report[g] # NoFile, g \notin raced, ~CheckStale(g)', DummiesFresh(g)'
        PROVE  report[g].reads = Sources(g)'
    <3>1. Sources(g)' = Sources(g) /\ DummiesFresh(g) /\ ~CheckStale(g)
      BY <2>1, <2>2, DummyWrites, SourceFrame
    <3> QED
      BY <3>1, <2>2 DEF FreshReportInv
  <2> QED
    BY <2>1, <2>2 DEF FreshReportInv
<1>5. ASSUME \/ StartMake \/ Interrupt \/ FindTargets \/ GatherDeps \/ WriteDepsFile \/ StartBuild \/ Stop
             \/ \E t : UpToDate(t)
             \/ \E f \in DfyFile : StartCheck(f) \/ Aggregate(f) \/ AggregateRaises(f)
             \/ BuildPage \/ PageRaises \/ PageUpToDate
             \/ UNCHANGED buildVars
      PROVE  FreshReportInv'
  <2>1. report' = report /\ raced' = raced
    BY <1>5 DEF StartMake, Interrupt, FindTargets, GatherDeps, WriteDepsFile, StartBuild, Stop, UpToDate, StartCheck, Aggregate, AggregateRaises,
                BuildPage, PageRaises, PageUpToDate, buildVars
  <2>2. /\ src' = src
        /\ \/ WroteNothing \/ Wrote(Deps) \/ Wrote(Page)
           \/ \E f \in DfyFile : Wrote(Verified(f))
    BY <1>5, OtherWrites
  <2>3. \A g \in DfyFile : /\ CheckStale(g)' <=> CheckStale(g)
                           /\ DummiesFresh(g)' <=> DummiesFresh(g)
                           /\ Sources(g)' = Sources(g)
    BY <2>2, LaterWrites, SourceFrame
  <2> QED
    BY <2>1, <2>3 DEF FreshReportInv
<1> QED
  BY <1>0, <1>1, <1>2, <1>3, <1>5, BuildSteps

\* Every step keeps a check under way fresh, or the rules notice, or it is raced.
LEMMA CheckStep ==
    ASSUME StatusInv, BuildTypeOK', [BuildNext]_buildVars
    PROVE  CheckInv'
<1> USE DEF StatusInv
<1>0. Listed \subseteq DfyFile
  BY GraphsTyped
<1>1. ASSUME NEW f \in DfyFile, Edit(f) PROVE CheckInv'
  <2>1. running' = running /\ racing \subseteq racing' /\ (running[f] # NoFile => f \in racing')
    BY <1>1 DEF Edit
  <2>2. ASSUME NEW g \in DfyFile, running[g] # NoFile, g \notin racing', DummiesFresh(g)'
        PROVE  running[g] = Sources(g)'
    <3>1. g # f
      BY <2>1, <2>2
    <3>2. f \notin Reachable(Includes, g)'
      BY <3>1, <1>1, <2>2, EditNoticed
    <3>3. Sources(g)' = Sources(g) /\ DummiesFresh(g)
      BY <3>2, <1>1, <2>2, EditNoticed
    <3> QED
      BY <3>2, <3>3, <2>1, <2>2 DEF CheckInv
  <2> QED
    BY <2>1, <2>2 DEF CheckInv
<1>2. ASSUME NEW f \in DfyFile, FinishCheck(f) PROVE CheckInv'
  <2>1. Wrote(Chk(f)) /\ src' = src /\ racing' = racing \ {f} /\ running'[f] = NoFile
    BY <1>2 DEF FinishCheck, Wrote, BuildTypeOK
  <2>2. \A g \in DfyFile : running'[g] # NoFile => running'[g] = running[g]
    BY <1>2 DEF FinishCheck, BuildTypeOK
  <2>3. \A g \in DfyFile : Sources(g)' = Sources(g) /\ (DummiesFresh(g)' <=> DummiesFresh(g))
    BY <2>1, ReportWrites, SourceFrame
  <2> QED
    BY <2>1, <2>2, <2>3 DEF CheckInv
<1>3. ASSUME NEW f \in Listed \ {Root}, TouchDummydep(f) PROVE CheckInv'
  <2>1. running' = running
    BY <1>3 DEF TouchDummydep
  <2>2. make = "build" /\ Dummydep(f) \notin considered /\ Dummydep(f) \in Dummies
    BY <1>3 DEF TouchDummydep, Build, MayConsider, Dummies
  <2>3. \A g \in DfyFile : running[g] = NoFile
    BY <2>2 DEF RunningInv
  <2> QED
    BY <2>1, <2>3 DEF CheckInv
<1>4. ASSUME NEW f \in DfyFile, StartCheck(f) PROVE CheckInv'
  <2>1. src' = src /\ WroteNothing /\ racing' = racing \ {f}
    BY <1>4 DEF StartCheck, WroteNothing
  <2>2. /\ running'[f] = Sources(f)
        /\ \A g \in DfyFile \ {f} : running'[g] = running[g]
    BY <1>4 DEF StartCheck, BuildTypeOK
  <2>3. \A g \in DfyFile : /\ DummiesFresh(g)' <=> DummiesFresh(g)
                           /\ Sources(g)' = Sources(g)
    BY <2>1, LaterWrites, SourceFrame
  <2> QED
    BY <2>1, <2>2, <2>3 DEF CheckInv
<1>5. ASSUME Interrupt PROVE CheckInv'
  BY <1>5 DEF Interrupt, CheckInv
<1>6. ASSUME \/ StartMake \/ FindTargets \/ GatherDeps \/ WriteDepsFile \/ StartBuild \/ Stop
             \/ \E t : UpToDate(t)
             \/ \E f \in DfyFile : Aggregate(f) \/ AggregateRaises(f)
             \/ BuildPage \/ PageRaises \/ PageUpToDate
             \/ UNCHANGED buildVars
      PROVE  CheckInv'
  <2>1. running' = running /\ racing' = racing
    BY <1>6 DEF StartMake, FindTargets, GatherDeps, WriteDepsFile, StartBuild, Stop, UpToDate, Aggregate, AggregateRaises,
                BuildPage, PageRaises, PageUpToDate, buildVars
  <2>2. /\ src' = src
        /\ \/ WroteNothing \/ Wrote(Deps) \/ Wrote(Page)
           \/ \E f \in DfyFile : Wrote(Verified(f))
    BY <1>6, OtherWrites
  <2>3. \A g \in DfyFile : /\ DummiesFresh(g)' <=> DummiesFresh(g)
                           /\ Sources(g)' = Sources(g)
    BY <2>2, LaterWrites, SourceFrame
  <2> QED
    BY <2>1, <2>3 DEF CheckInv
<1> QED
  BY <1>0, <1>1, <1>2, <1>3, <1>4, <1>5, <1>6, BuildSteps

\* When make turns to the page it is done with everything else.
LEMMA PageIsLast ==
    ASSUME BuildTypeOK, OrderInv, DepsInv, MayConsider(Page)
    PROVE  /\ make = "build" /\ deps # NoFile /\ Dummies \subseteq considered
           /\ \A f \in Listed : Verified(f) \in considered /\ Chk(f) \in considered
<1>1. make = "build" /\ deps # NoFile
  BY DEF MayConsider, DepsInv
<1>2. Verified(Root) \in considered
  BY PrereqsOf, TargetKinds DEF MayConsider
<1>3. Dummies \subseteq considered
  BY TargetKinds DEF MayConsider
<1> DEFINE S == {f \in Listed : Verified(f) \in considered}
<1>4. deps \in IncludeGraphs /\ Root \in DfyFile /\ Listed = Reachable(deps, Root)
  BY <1>1, GraphsTyped DEF Listed
<1>5. Root \in S /\ S \in SUBSET DfyFile
  BY <1>2, <1>4, ReachableFacts
<1>6. ClosedUnder(deps, S)
  BY <1>1, <1>4, ReachableFacts DEF ClosedUnder, OrderInv
<1>7. Listed \subseteq S
  <2> HIDE DEF S
  <2> QED
    BY <1>4, <1>5, <1>6, ReachableFacts
<1> QED
  BY <1>1, <1>3, <1>7 DEF OrderInv

\* A check waits for all .dummydep files.
LEMMA ChecksWait ==
    ASSUME NEW t, MayConsider(t), t[1] # "dummydep"
    PROVE  Dummies \subseteq considered
BY DEF MayConsider

\* When make finds a report out of date.
LEMMA ChkOutOfDate ==
    ASSUME NEW f
    PROVE  OutOfDate(Chk(f)) <=> ChkNoticed(f)
<1>1. Prereqs(Chk(f)) = {Dfy(f)} \cup {Dummydep(g) : g \in deps[f]}
  BY PrereqsOf
<1>2. (\E p \in Prereqs(Chk(f)) : <<p, Chk(f)>> \in newer) <=>
        (<<Dfy(f), Chk(f)>> \in newer \/ \E g \in deps[f] : <<Dummydep(g), Chk(f)>> \in newer)
  BY <1>1
<1> QED
  BY <1>2 DEF OutOfDate, ChkNoticed

\* Every step keeps the order of checks and .dummydep files.
LEMMA RunningStep ==
    ASSUME StatusInv, BuildTypeOK', [BuildNext]_buildVars
    PROVE  RunningInv'
<1> USE DEF StatusInv
<1>0. Listed \subseteq DfyFile
  BY GraphsTyped
<1>1. \A f \in Listed : deps[f] \subseteq DfyFile
  BY <1>0, GraphsTyped DEF Listed, IncludeGraphs
<1>2. ASSUME NEW f \in DfyFile, Edit(f) PROVE RunningInv'
  <2>1. newer' = Written(Dfy(f)) /\ built' = built /\ UNCHANGED <<running, make, considered, deps>>
    BY <1>2 DEF Edit
  <2>2. Listed' = Listed /\ Dummies' = Dummies
    BY <2>1, DepsFrame
  <2>3. ASSUME NEW g \in Listed, ChkNoticed(g) PROVE ChkNoticed(g)'
    BY <2>1, <2>3, <1>0, <1>1, WriteDfy DEF ChkNoticed
  <2> QED
    BY <2>1, <2>2, <2>3 DEF RunningInv
<1>3. ASSUME NEW f \in DfyFile, FinishCheck(f) PROVE RunningInv'
  <2>1. Wrote(Chk(f)) /\ make' = make /\ deps' = deps
    BY <1>3 DEF FinishCheck, Wrote
  <2>2. /\ considered \subseteq considered' /\ considered' \subseteq considered \cup {Chk(f)}
        /\ running'[f] = NoFile /\ \A g \in DfyFile \ {f} : running'[g] = running[g]
    BY <1>3 DEF FinishCheck, Considered, BuildTypeOK
  <2>3. Listed' = Listed /\ Dummies' = Dummies
    BY <2>1, DepsFrame
  <2>4. ASSUME NEW g \in Listed \ {f}, ChkNoticed(g) PROVE ChkNoticed(g)'
    BY <2>1, <2>4, <1>0, <1>1, WriteChk, TargetNames DEF ChkNoticed, Wrote
  <2>5. ASSUME NEW g \in DfyFile, running'[g] # NoFile
        PROVE  /\ make' \in {"build", "failed"}
               /\ make' = "build" => /\ g \in Listed' /\ Chk(g) \notin considered'
                                     /\ Dummies' \subseteq considered'
                                     /\ ChkNoticed(g)'
    <3>1. g # f /\ running[g] # NoFile
      BY <2>2, <2>5
    <3> QED
      BY <3>1, <2>1, <2>2, <2>3, <2>4, TargetNames DEF RunningInv
  <2> QED
    BY <2>5 DEF RunningInv
<1>4. ASSUME NEW f \in Listed \ {Root}, TouchDummydep(f) PROVE RunningInv'
  <2>1. running' = running
    BY <1>4 DEF TouchDummydep
  <2>2. make = "build" /\ Dummydep(f) \notin considered /\ Dummydep(f) \in Dummies
    BY <1>4 DEF TouchDummydep, Build, MayConsider, Dummies
  <2>3. \A g \in DfyFile : running[g] = NoFile
    BY <2>2 DEF RunningInv
  <2> QED
    BY <2>1, <2>3 DEF RunningInv
<1>5. ASSUME NEW f \in Listed, StartCheck(f) PROVE RunningInv'
  <2>1. UNCHANGED <<make, deps, considered, newer, built>>
    BY <1>5 DEF StartCheck
  <2>2. \A g \in DfyFile \ {f} : running'[g] = running[g]
    BY <1>5 DEF StartCheck, BuildTypeOK
  <2>3. Listed' = Listed /\ Dummies' = Dummies /\ \A g : ChkNoticed(g)' <=> ChkNoticed(g)
    BY <2>1, DepsFrame DEF ChkNoticed
  <2>4. make = "build" /\ Chk(f) \notin considered /\ ChkNoticed(f)
    BY <1>5, ChkOutOfDate DEF StartCheck, MayConsider
  <2>5. Dummies \subseteq considered
    BY <1>5, ChecksWait, TargetKinds DEF StartCheck
  <2> QED
    BY <2>1, <2>2, <2>3, <2>4, <2>5 DEF RunningInv
<1>6. ASSUME NEW t, UpToDate(t) PROVE RunningInv'
  <2>1. UNCHANGED <<make, deps, newer, built, running>> /\ considered' = considered \cup {t} /\ ~OutOfDate(t)
    BY <1>6 DEF UpToDate, Considered
  <2>2. Listed' = Listed /\ Dummies' = Dummies /\ \A g : ChkNoticed(g)' <=> ChkNoticed(g)
    BY <2>1, DepsFrame DEF ChkNoticed
  <2>3. \A g : t = Chk(g) => ~ChkNoticed(g)
    BY <2>1, ChkOutOfDate
  <2> QED
    BY <2>1, <2>2, <2>3 DEF RunningInv
<1>7. ASSUME NEW f \in DfyFile, Aggregate(f) PROVE RunningInv'
  <2>1. UNCHANGED <<make, deps, running>> /\ considered' = considered \cup {Verified(f)} /\ Wrote(Verified(f))
    BY <1>7 DEF Aggregate, Build, Considered, Wrote
  <2>2. Listed' = Listed /\ Dummies' = Dummies
    BY <2>1, DepsFrame
  <2>3. ASSUME NEW g \in Listed, ChkNoticed(g) PROVE ChkNoticed(g)'
    BY <2>1, <2>3, <1>0, <1>1, WriteVerified, TargetNames DEF ChkNoticed, Wrote
  <2> QED
    BY <2>1, <2>2, <2>3, TargetNames DEF RunningInv
<1>8. ASSUME NEW f \in DfyFile, AggregateRaises(f) PROVE RunningInv'
  BY <1>8 DEF AggregateRaises, RunningInv
<1>9. ASSUME StartMake \/ FindTargets \/ GatherDeps \/ WriteDepsFile \/ StartBuild PROVE RunningInv'
  <2>1. running' = running /\ make \in {"idle", "deps", "found", "gathered"}
    BY <1>9 DEF StartMake, FindTargets, GatherDeps, WriteDepsFile, StartBuild
  <2> QED
    BY <2>1 DEF RunningInv
<1>10. ASSUME Stop \/ Interrupt PROVE RunningInv'
  BY <1>10 DEF Stop, Interrupt, RunningInv
<1>11. ASSUME BuildPage \/ PageRaises \/ PageUpToDate PROVE RunningInv'
  <2>1. MayConsider(Page) /\ running' = running
    BY <1>11 DEF BuildPage, PageRaises, PageUpToDate
  <2>2. make = "build" /\ \A f \in Listed : Chk(f) \in considered
    BY <2>1, PageIsLast
  <2> QED
    BY <2>1, <2>2 DEF RunningInv
<1>12. ASSUME UNCHANGED buildVars PROVE RunningInv'
  <2>1. UNCHANGED <<make, deps, considered, newer, built, running>>
    BY <1>12 DEF buildVars
  <2>2. Listed' = Listed /\ Dummies' = Dummies /\ \A g : ChkNoticed(g)' <=> ChkNoticed(g)
    BY <2>1, DepsFrame DEF ChkNoticed
  <2> QED
    BY <2>1, <2>2 DEF RunningInv
<1> QED
  BY <1>0, <1>2, <1>3, <1>4, <1>5, <1>6, <1>7, <1>8, <1>9, <1>10, <1>11, <1>12, BuildSteps

\* make is done with a target after the prerequisites.
LEMMA OrderKept ==
    ASSUME BuildTypeOK, OrderInv, DepsInv, NEW f \in Listed, NEW t \in {Dummydep(f), Chk(f), Verified(f)},
           MayConsider(t), deps' = deps, make' = make, considered' = considered \cup {t}
    PROVE  OrderInv'
<1>1. make = "build" /\ \A p \in Prereqs(t) : p[1] \notin {"dfy", "deps"} => p \in considered
  BY DEF MayConsider
<1>2. Listed' = Listed /\ Dummies' = Dummies
  BY DepsFrame
<1>3. ASSUME NEW g \in DfyFile, Chk(g) \in considered' PROVE Dummies \subseteq considered
  <2>1. CASE t = Chk(f)
    BY <2>1, ChecksWait, TargetKinds
  <2>2. CASE t # Chk(f)
    BY <2>2, <1>1, <1>3, TargetNames DEF OrderInv
  <2> QED
    BY <2>1, <2>2
<1>4. ASSUME NEW g \in Listed, Dummydep(g) \in considered', NEW h \in deps[g] PROVE Dummydep(h) \in considered
  <2>1. CASE Dummydep(g) \in considered
    BY <2>1, <1>1, <1>4 DEF OrderInv
  <2>2. CASE Dummydep(g) = t
    <3>1. g = f /\ Dummydep(h) \in Prereqs(t) /\ Dummydep(h)[1] = "dummydep"
      BY <2>2, <1>4, TargetNames, PrereqsOf, TargetKinds
    <3> QED
      BY <3>1, <1>1
  <2> QED
    BY <2>1, <2>2, <1>4
<1>5. ASSUME NEW g \in Listed, Verified(g) \in considered'
      PROVE  Chk(g) \in considered /\ \A h \in deps[g] : Verified(h) \in considered
  <2>1. CASE Verified(g) \in considered
    BY <2>1, <1>1 DEF OrderInv
  <2>2. CASE Verified(g) = t
    <3>1. g = f /\ Chk(g) \in Prereqs(t) /\ \A h \in deps[g] : Verified(h) \in Prereqs(t)
      BY <2>2, TargetNames, PrereqsOf
    <3> QED
      BY <3>1, <1>1, TargetKinds
  <2> QED
    BY <2>1, <2>2, <1>5
<1> QED
  BY <1>1, <1>2, <1>3, <1>4, <1>5 DEF OrderInv

\* Every step keeps the order of the targets.
LEMMA OrderStep ==
    ASSUME StatusInv, BuildTypeOK', [BuildNext]_buildVars
    PROVE  OrderInv'
<1> USE DEF StatusInv
<1>0. Listed \subseteq DfyFile
  BY GraphsTyped
<1>1. ASSUME UNCHANGED <<make, considered, deps>> PROVE OrderInv'
  BY <1>1, DepsFrame DEF OrderInv
<1>2. ASSUME NEW f \in DfyFile, Edit(f) PROVE OrderInv'
  BY <1>1, <1>2 DEF Edit
<1>3. ASSUME NEW f \in DfyFile, FinishCheck(f) PROVE OrderInv'
  <2>1. UNCHANGED <<make, deps>>
    BY <1>3 DEF FinishCheck
  <2>2. Listed' = Listed /\ Dummies' = Dummies
    BY <2>1, DepsFrame
  <2>3. CASE make = "build"
    <3>1. considered' = considered \cup {Chk(f)} /\ Dummies \subseteq considered
      BY <1>3, <2>3 DEF FinishCheck, Considered, RunningInv
    <3> QED
      BY <3>1, <2>1, <2>2, <2>3, TargetNames DEF OrderInv
  <2>4. CASE make # "build"
    BY <1>1, <1>3, <2>1, <2>4 DEF FinishCheck
  <2> QED
    BY <2>3, <2>4
<1>4. ASSUME StartMake PROVE OrderInv'
  BY <1>4 DEF StartMake, OrderInv
<1>5. ASSUME StartBuild PROVE OrderInv'
  BY <1>5 DEF StartBuild, OrderInv
<1>6. ASSUME FindTargets \/ GatherDeps \/ WriteDepsFile PROVE OrderInv'
  BY <1>6 DEF FindTargets, GatherDeps, WriteDepsFile, OrderInv
<1>7. ASSUME Stop \/ Interrupt \/ BuildPage \/ PageRaises \/ PageUpToDate PROVE OrderInv'
  BY <1>7 DEF Stop, Interrupt, BuildPage, PageRaises, PageUpToDate, OrderInv
<1>8. ASSUME NEW f \in Listed, TouchDummydep(f) PROVE OrderInv'
  <2>1. /\ MayConsider(Dummydep(f)) /\ deps' = deps /\ make' = make
        /\ considered' = considered \cup {Dummydep(f)}
    BY <1>8 DEF TouchDummydep, Build, Considered
  <2> QED
    BY <2>1, OrderKept
<1>9. ASSUME NEW f \in Listed, NEW t \in {Dummydep(f), Chk(f), Verified(f)}, UpToDate(t) PROVE OrderInv'
  <2>1. /\ MayConsider(t) /\ deps' = deps /\ make' = make /\ considered' = considered \cup {t}
    BY <1>9 DEF UpToDate, Considered
  <2> QED
    BY <2>1, OrderKept
<1>10. ASSUME NEW f \in Listed, Aggregate(f) PROVE OrderInv'
  <2>1. /\ MayConsider(Verified(f)) /\ deps' = deps /\ make' = make
        /\ considered' = considered \cup {Verified(f)}
    BY <1>10 DEF Aggregate, Build, Considered
  <2> QED
    BY <2>1, OrderKept
<1>11. ASSUME NEW f \in Listed, AggregateRaises(f) PROVE OrderInv'
  BY <1>11 DEF AggregateRaises, OrderInv
<1>12. ASSUME NEW f \in Listed, StartCheck(f) PROVE OrderInv'
  BY <1>1, <1>12 DEF StartCheck
<1>13. ASSUME UNCHANGED buildVars PROVE OrderInv'
  BY <1>1, <1>13 DEF buildVars
<1> QED
  BY <1>2, <1>3, <1>4, <1>5, <1>6, <1>7, <1>8, <1>9, <1>10, <1>11, <1>12, <1>13, BuildSteps

\* When build/deps is up to date and no include was missed it lists what is shown.
LEMMA ListedIsShown ==
    ASSUME BuildTypeOK, DepsInv, deps # NoFile, DepsFresh, ~IncludeMissed
    PROVE  Listed = Shown /\ Shown \subseteq described /\ \A f \in Listed : deps[f] = src[f].inc
<1>1. \A f \in described \cap Shown : deps[f] = src[f].inc /\ src[f].inc \subseteq described
  BY DEF DepsInv, DepsFresh, IncludeMissed
<1>2. /\ deps \in IncludeGraphs /\ Includes \in IncludeGraphs /\ Root \in DfyFile /\ Listed = Reachable(deps, Root)
      /\ Shown \subseteq DfyFile /\ Shown = Reachable(Includes, Root) /\ \A f \in DfyFile : Includes[f] = src[f].inc
  BY GraphsTyped DEF Listed, Shown
<1> DEFINE S == described \cap Shown
<1>3. Root \in S /\ S \in SUBSET DfyFile
  BY <1>2, ReachableFacts DEF DepsInv
<1>4. ClosedUnder(Includes, S)
  BY <1>1, <1>2, ReachableFacts DEF ClosedUnder
<1>5. Shown \subseteq described
  <2>1. Shown \subseteq S
    <3> HIDE DEF S
    <3> QED
      BY <1>2, <1>3, <1>4, ReachableFacts
  <2> QED
    BY <2>1
<1>6. \A f \in Reachable(Includes, Root) : deps[f] = Includes[f]
  BY <1>1, <1>2, <1>5
<1>7. Reachable(deps, Root) = Reachable(Includes, Root)
  BY <1>2, <1>6, ReachableAgree
<1> QED
  BY <1>1, <1>2, <1>5, <1>7

\* The same after a step.
LEMMA ListedIsShownNext ==
    ASSUME BuildTypeOK', DepsInv', (deps # NoFile)', DepsFresh', ~IncludeMissed'
    PROVE  (Shown \subseteq described)'
BY ListedIsShown, PTL

\* Every step keeps build/deps right, or make notices.
LEMMA DepsStep ==
    ASSUME StatusInv, BuildTypeOK', [BuildNext]_buildVars
    PROVE  DepsInv'
<1> USE DEF StatusInv
<1>0. Listed \subseteq DfyFile /\ described \subseteq DfyFile /\ targetIrefs \subseteq DfyFile
  BY GraphsTyped DEF BuildTypeOK
<1>1. ASSUME UNCHANGED <<deps, described, missed, src, targetIrefs, output, unseen>>,
             \A f \in DfyFile : <<Dfy(f), Deps>> \in newer' <=> <<Dfy(f), Deps>> \in newer,
             make' = "build" => make = "build",
             make' \in {"found", "gathered"} => make' = make
      PROVE  DepsInv'
  BY <1>0, <1>1 DEF DepsInv
<1>2. ASSUME NEW f \in DfyFile, Edit(f) PROVE DepsInv'
  <2>1. newer' = Written(Dfy(f)) /\ UNCHANGED <<make, deps, described, missed, targetIrefs, output>>
    BY <1>2 DEF Edit
  <2>2. \A g \in DfyFile \ {f} : src'[g] = src[g]
    BY <1>2 DEF Edit, BuildTypeOK
  <2>3. /\ unseen \subseteq unseen'
        /\ make \in {"found", "gathered"} /\ f \notin unseen' => src'[f].inc = src[f].inc
    BY <1>2 DEF Edit, BuildTypeOK
  <2>4. ASSUME NEW g \in targetIrefs \ unseen', make \in {"found", "gathered"}
        PROVE  src'[g].inc = src[g].inc /\ g \notin unseen
    BY <1>0, <2>2, <2>3, <2>4
  <2>5. ASSUME NEW g \in described \ missed, <<Dfy(g), Deps>> \notin newer'
        PROVE  src'[g] = src[g] /\ <<Dfy(g), Deps>> \notin newer
    BY <1>0, <2>1, <2>2, <2>5, WriteDfy
  <2> QED
    BY <2>1, <2>4, <2>5 DEF DepsInv
<1>3. ASSUME NEW f \in DfyFile, FinishCheck(f) PROVE DepsInv'
  <2>1. UNCHANGED <<deps, described, missed, src, targetIrefs, output, unseen, make>> /\ newer' = Written(Chk(f))
    BY <1>3 DEF FinishCheck
  <2>2. \A g \in DfyFile : <<Dfy(g), Deps>> \in newer' <=> <<Dfy(g), Deps>> \in newer
    BY <2>1, WriteChk
  <2> QED
    BY <1>1, <2>1, <2>2
<1>4. ASSUME StartBuild PROVE DepsInv'
  <2>1. /\ UNCHANGED <<deps, described, missed, src, newer>>
        /\ deps # NoFile /\ make' = "build"
    BY <1>4 DEF StartBuild, DepsOutOfDate
  <2> QED
    BY <2>1 DEF DepsInv
<1>5. ASSUME FindTargets PROVE DepsInv'
  <2>1. /\ UNCHANGED <<deps, described, missed, src, newer>>
        /\ targetIrefs' = Reachable(Includes, Root) /\ make' = "found"
    BY <1>5 DEF FindTargets
  <2>2. /\ Root \in Reachable(Includes, Root)
        /\ \A f \in Reachable(Includes, Root) : src[f].inc \subseteq Reachable(Includes, Root)
    BY GraphsTyped, ReachableFacts
  <2> QED
    BY <2>1, <2>2 DEF DepsInv
<1>6. ASSUME GatherDeps PROVE DepsInv'
  <2>1. /\ UNCHANGED <<deps, described, missed, src, newer, targetIrefs, unseen>>
        /\ make = "found" /\ make' = "gathered"
    BY <1>6 DEF GatherDeps
  <2>2. \A f \in targetIrefs : output'[f] = src[f].inc
    BY <1>0, <1>6 DEF GatherDeps
  <2> QED
    BY <2>1, <2>2 DEF DepsInv
<1>7. ASSUME WriteDepsFile PROVE DepsInv'
  <2>1. /\ src' = src /\ make = "gathered" /\ make' = "deps"
        /\ deps' = output /\ described' = targetIrefs /\ missed' = unseen
    BY <1>7 DEF WriteDepsFile
  <2> QED
    BY <2>1 DEF DepsInv
<1>8. ASSUME NEW f \in DfyFile, TouchDummydep(f) PROVE DepsInv'
  <2>1. UNCHANGED <<deps, described, missed, src, targetIrefs, output, unseen, make>> /\ newer' = Written(Dummydep(f))
    BY <1>8 DEF TouchDummydep, Build
  <2>2. \A g \in DfyFile : <<Dfy(g), Deps>> \in newer' <=> <<Dfy(g), Deps>> \in newer
    BY <2>1, WriteDummydep
  <2> QED
    BY <1>1, <2>1, <2>2
<1>9. ASSUME NEW f \in DfyFile, Aggregate(f) \/ AggregateRaises(f) PROVE DepsInv'
  <2>1. /\ UNCHANGED <<deps, described, missed, src, targetIrefs, output, unseen>> /\ newer' = Written(Verified(f))
        /\ make' = make \/ make' = "failed"
    BY <1>9 DEF Aggregate, AggregateRaises, Build
  <2>2. \A g \in DfyFile : <<Dfy(g), Deps>> \in newer' <=> <<Dfy(g), Deps>> \in newer
    BY <2>1, WriteVerified
  <2> QED
    BY <1>1, <2>1, <2>2
<1>10. ASSUME BuildPage PROVE DepsInv'
  <2>1. UNCHANGED <<deps, described, missed, src, targetIrefs, output, unseen>> /\ newer' = Written(Page) /\ make' = "idle"
    BY <1>10 DEF BuildPage
  <2>2. \A g \in DfyFile : <<Dfy(g), Deps>> \in newer' <=> <<Dfy(g), Deps>> \in newer
    BY <2>1, WritePage
  <2> QED
    BY <1>1, <2>1, <2>2
<1>11. ASSUME Interrupt PROVE DepsInv'
  <2>1. UNCHANGED <<deps, described, missed, src, newer>> /\ make' = "idle"
    BY <1>11 DEF Interrupt
  <2> QED
    BY <2>1 DEF DepsInv
<1>12. ASSUME \/ StartMake \/ Stop \/ PageRaises \/ PageUpToDate
              \/ \E t : UpToDate(t)
              \/ \E f \in DfyFile : StartCheck(f)
              \/ UNCHANGED buildVars
      PROVE  DepsInv'
  <2>1. /\ UNCHANGED <<deps, described, missed, src, targetIrefs, output, unseen, newer>>
        /\ make' = make \/ make' \in {"deps", "idle"}
    BY <1>12 DEF StartMake, Stop, PageRaises, PageUpToDate, UpToDate, StartCheck, buildVars
  <2> QED
    BY <1>1, <2>1
<1> QED
  BY <1>0, <1>2, <1>3, <1>4, <1>5, <1>6, <1>7, <1>8, <1>9, <1>10, <1>11, <1>12, BuildSteps

\* Every step keeps the reports in place.
LEMMA BuiltStep ==
    ASSUME StatusInv, BuildTypeOK', [BuildNext]_buildVars
    PROVE  BuiltInv'
<1> USE DEF StatusInv
<1>0. Listed \subseteq DfyFile
  BY GraphsTyped
<1>1. ASSUME report' = report, \A g \in DfyFile : Chk(g) \in built' => Chk(g) \in built PROVE BuiltInv'
  BY <1>1 DEF BuiltInv
<1>2. ASSUME NEW f \in DfyFile, FinishCheck(f) PROVE BuiltInv'
  <2>1. IsSnapshot(running[f], f)
    BY <1>2 DEF FinishCheck, BuildTypeOK
  <2>2. running[f] \in Snapshots /\ running[f][f].text \in SourceTexts
    BY <2>1 DEF IsSnapshot, Snapshots, FileStates
  <2> DEFINE r == [reads |-> running[f], text |-> running[f][f].text]
  <2>3. r # NoFile /\ r.text = r.reads[f].text
    BY <2>2, BuildConstants
  <2>4. /\ report'[f] = r /\ \A g \in DfyFile \ {f} : report'[g] = report[g]
        /\ built' = built \cup {Chk(f)}
    BY <1>2 DEF FinishCheck, BuildTypeOK
  <2> HIDE DEF r
  <2> QED
    BY <2>3, <2>4, TargetNames DEF BuiltInv
<1>3. ASSUME NEW f \in DfyFile, TouchDummydep(f) \/ Aggregate(f) \/ AggregateRaises(f) PROVE BuiltInv'
  <2>1. report' = report /\ \E t \in {Dummydep(f), Verified(f)} : built' = built \cup {t}
    BY <1>3 DEF TouchDummydep, Aggregate, AggregateRaises, Build
  <2> QED
    BY <1>1, <2>1, TargetNames
<1>4. ASSUME WriteDepsFile \/ BuildPage PROVE BuiltInv'
  <2>1. report' = report /\ \E t \in {Deps, Page} : built' = built \cup {t}
    BY <1>4 DEF WriteDepsFile, BuildPage
  <2> QED
    BY <1>1, <2>1, TargetNames
<1>5. ASSUME \/ \E f \in DfyFile : Edit(f) \/ StartCheck(f)
             \/ \E t : UpToDate(t)
             \/ StartMake \/ Interrupt \/ FindTargets \/ GatherDeps \/ StartBuild \/ Stop \/ PageRaises \/ PageUpToDate
             \/ UNCHANGED buildVars
      PROVE  BuiltInv'
  <2>1. report' = report /\ built' = built
    BY <1>5 DEF Edit, StartCheck, UpToDate, StartMake, Interrupt, FindTargets, GatherDeps, StartBuild, Stop, PageRaises, PageUpToDate, buildVars
  <2> QED
    BY <1>1, <2>1
<1> QED
  BY <1>0, <1>2, <1>3, <1>4, <1>5, BuildSteps

\* Every step keeps a .verified about the report, or make notices.
LEMMA VerifiedStep ==
    ASSUME StatusInv, BuildTypeOK', [BuildNext]_buildVars
    PROVE  VerifiedInv'
<1> USE DEF StatusInv
<1>0. Listed \subseteq DfyFile
  BY GraphsTyped
<1>1. ASSUME UNCHANGED <<verified, report, src, reportType>>,
             \A g \in DfyFile : /\ <<Chk(g), Verified(g)>> \in newer' <=> <<Chk(g), Verified(g)>> \in newer
                                /\ <<Dfy(g), Chk(g)>> \in newer' <=> <<Dfy(g), Chk(g)>> \in newer
      PROVE  VerifiedInv'
  <2>1. \A g : Summarize(g)' = Summarize(g)
    BY <1>1 DEF Summarize
  <2> QED
    BY <1>1, <2>1 DEF VerifiedInv
<1>2. ASSUME NEW f \in DfyFile, Edit(f) PROVE VerifiedInv'
  <2>1. UNCHANGED <<verified, report, reportType>> /\ newer' = Written(Dfy(f))
    BY <1>2 DEF Edit
  <2>2. \A g \in DfyFile \ {f} : src'[g] = src[g]
    BY <1>2 DEF Edit, BuildTypeOK
  <2>3. \A g \in DfyFile \ {f} : Summarize(g)' = Summarize(g)
    BY <2>1, <2>2 DEF Summarize
  <2> QED
    BY <2>1, <2>3, WriteDfy DEF VerifiedInv
<1>3. ASSUME NEW f \in DfyFile, FinishCheck(f) PROVE VerifiedInv'
  <2>1. UNCHANGED <<verified, src, reportType>> /\ newer' = Written(Chk(f))
    BY <1>3 DEF FinishCheck
  <2>2. \A g \in DfyFile \ {f} : report'[g] = report[g]
    BY <1>3 DEF FinishCheck, BuildTypeOK
  <2>3. \A g \in DfyFile \ {f} : Summarize(g)' = Summarize(g)
    BY <2>1, <2>2 DEF Summarize
  <2> QED
    <3>1. <<Chk(f), Verified(f)>> \in newer'
      BY <2>1, WriteChk
    <3>2. ASSUME NEW g \in DfyFile \ {f}, verified[g] = "success",
                 <<Chk(g), Verified(g)>> \notin newer', <<Dfy(g), Chk(g)>> \notin newer'
          PROVE  Summarize(g)'.is_success
      <4>1. <<Chk(g), Verified(g)>> \notin newer /\ <<Dfy(g), Chk(g)>> \notin newer
        BY <2>1, <3>2, WriteChk
      <4>2. Summarize(g).is_success
        BY <4>1, <3>2 DEF VerifiedInv
      <4> QED
        BY <4>2, <2>3
    <3> QED
      BY <2>1, <3>1, <3>2 DEF VerifiedInv
<1>4. ASSUME NEW f \in Listed, Aggregate(f) PROVE VerifiedInv'
  <2>1. UNCHANGED <<report, src, reportType>> /\ newer' = Written(Verified(f)) /\ Raises \notin Summarized(f)
    BY <1>4 DEF Aggregate, Build
  <2>2. /\ \A g \in DfyFile \ {f} : verified'[g] = verified[g]
        /\ verified'[f] = IF Worst(Summarized(f)).is_success THEN "success" ELSE "failure"
    BY <1>0, <1>4 DEF Aggregate, BuildTypeOK
  <2>3. \A g : Summarize(g)' = Summarize(g)
    BY <2>1 DEF Summarize
  <2>4. Summarized(f) \in SUBSET Conditions /\ Summarize(f) \in Summarized(f)
    BY <2>1, SummarizedFacts
  <2>5. Worst(Summarized(f)).is_success => Summarize(f).is_success
    BY <2>4, WorstSuccess
  <2> QED
    <3>1. verified'[f] = "success" => Summarize(f).is_success
      BY <2>2, <2>5
    <3>2. ASSUME NEW g \in DfyFile \ {f}, verified'[g] = "success",
                 <<Chk(g), Verified(g)>> \notin newer', <<Dfy(g), Chk(g)>> \notin newer'
          PROVE  Summarize(g).is_success
      <4>1. <<Chk(g), Verified(g)>> \notin newer /\ <<Dfy(g), Chk(g)>> \notin newer
        BY <1>0, <2>1, <3>2, WriteVerified
      <4> QED
        BY <4>1, <2>2, <3>2 DEF VerifiedInv
    <3>3. ASSUME NEW g \in DfyFile, verified'[g] = "success",
                 <<Chk(g), Verified(g)>> \notin newer', <<Dfy(g), Chk(g)>> \notin newer'
          PROVE  Summarize(g)'.is_success
      <4>1. Summarize(g).is_success
        BY <3>1, <3>2, <3>3
      <4> QED
        BY <4>1, <2>3
    <3> QED
      BY <3>3 DEF VerifiedInv
<1>5. ASSUME NEW f \in DfyFile, AggregateRaises(f) PROVE VerifiedInv'
  <2>1. UNCHANGED <<report, src, reportType>> /\ newer' = Written(Verified(f))
    BY <1>5 DEF AggregateRaises
  <2>2. verified'[f] = "empty" /\ \A g \in DfyFile \ {f} : verified'[g] = verified[g]
    BY <1>5 DEF AggregateRaises, BuildTypeOK
  <2>3. \A g : Summarize(g)' = Summarize(g)
    BY <2>1 DEF Summarize
  <2> QED
    BY <2>1, <2>2, <2>3, WriteVerified DEF VerifiedInv
<1>6. ASSUME NEW f \in DfyFile, TouchDummydep(f) PROVE VerifiedInv'
  <2>1. UNCHANGED <<verified, report, src, reportType>> /\ newer' = Written(Dummydep(f))
    BY <1>6 DEF TouchDummydep, Build
  <2> QED
    BY <1>1, <2>1, WriteDummydep
<1>7. ASSUME WriteDepsFile PROVE VerifiedInv'
  <2>1. UNCHANGED <<verified, report, src, reportType>> /\ newer' = Written(Deps)
    BY <1>7 DEF WriteDepsFile
  <2> QED
    BY <1>1, <2>1, WriteDeps
<1>8. ASSUME BuildPage PROVE VerifiedInv'
  <2>1. UNCHANGED <<verified, report, src, reportType>> /\ newer' = Written(Page)
    BY <1>8 DEF BuildPage
  <2> QED
    BY <1>1, <2>1, WritePage
<1>9. ASSUME \/ \E f \in DfyFile : StartCheck(f)
             \/ \E t : UpToDate(t)
             \/ StartMake \/ Interrupt \/ FindTargets \/ GatherDeps \/ StartBuild \/ Stop \/ PageRaises \/ PageUpToDate
             \/ UNCHANGED buildVars
      PROVE  VerifiedInv'
  <2>1. UNCHANGED <<verified, report, src, reportType, newer>>
    BY <1>9 DEF StartCheck, UpToDate, StartMake, Interrupt, FindTargets, GatherDeps, StartBuild, Stop, PageRaises, PageUpToDate, buildVars
  <2> QED
    BY <1>1, <2>1
<1> QED
  BY <1>0, <1>2, <1>3, <1>4, <1>5, <1>6, <1>7, <1>8, <1>9, BuildSteps

\* What the .verified files depend on.
LEMMA VerifiedFrame ==
    ASSUME BuildTypeOK, src' = src,
           \/ WroteNothing \/ Wrote(Deps) \/ Wrote(Page)
           \/ \E f \in DfyFile : Wrote(Dummydep(f))
    PROVE  \A g \in DfyFile : VerifiedStale(g)' <=> VerifiedStale(g)
<1>1. \A g \in DfyFile : src[g].inc \subseteq DfyFile
  BY GraphsTyped
<1>2. CASE WroteNothing
  BY <1>2 DEF WroteNothing, VerifiedStale
<1>3. CASE Wrote(Deps)
  BY <1>3, <1>1, WriteDeps, TargetNames DEF Wrote, VerifiedStale
<1>4. CASE Wrote(Page)
  BY <1>4, <1>1, WritePage, TargetNames DEF Wrote, VerifiedStale
<1>5. ASSUME NEW f \in DfyFile, Wrote(Dummydep(f))
      PROVE  \A g \in DfyFile : VerifiedStale(g)' <=> VerifiedStale(g)
  BY <1>5, <1>1, WriteDummydep, TargetNames, ZenonT(60) DEF Wrote, VerifiedStale
<1> QED
  BY <1>2, <1>3, <1>4, <1>5

\* A new .verified of f makes stale exactly those of the files that include f.
LEMMA VerifiedWrites ==
    ASSUME BuildTypeOK, src' = src, NEW f \in DfyFile, Wrote(Verified(f))
    PROVE  \A g \in DfyFile : VerifiedStale(g)' <=> ((VerifiedStale(g) /\ g # f) \/ f \in src[g].inc)
<1>1. \A g \in DfyFile : src[g].inc \subseteq DfyFile /\ \A h \in src[g].inc : h < g
  BY GraphsTyped
<1>2. f \notin src[f].inc
  BY NoSelfInclude
<1> QED
  BY <1>1, <1>2, WriteVerified, TargetNames DEF Wrote, VerifiedStale

\* A new report of f makes the .verified of f stale.
LEMMA VerifiedAfterReport ==
    ASSUME BuildTypeOK, src' = src, NEW f \in DfyFile, Wrote(Chk(f))
    PROVE  \A g \in DfyFile : VerifiedStale(g)' <=> (VerifiedStale(g) \/ g = f)
<1>1. \A g \in DfyFile : src[g].inc \subseteq DfyFile
  BY GraphsTyped
<1> QED
  BY <1>1, WriteChk, TargetNames DEF Wrote, VerifiedStale

\* Every step keeps the page as it was built, or make notices.
LEMMA PageStep ==
    ASSUME StatusInv, BuildTypeOK', DepsInv', [BuildNext]_buildVars
    PROVE  PageInv'
<1> USE DEF StatusInv
<1>0. Listed \subseteq DfyFile /\ Shown \subseteq DfyFile /\ described \subseteq DfyFile
  BY GraphsTyped DEF BuildTypeOK
<1>1. ASSUME UNCHANGED <<src, reportType, report, deps, described, missed, page>>,
             Page \in built' => Page \in built,
             \A g \in DfyFile : /\ VerifiedStale(g)' <=> VerifiedStale(g)
                                /\ <<Dfy(g), Deps>> \in newer' <=> <<Dfy(g), Deps>> \in newer,
             <<Deps, Page>> \in newer' <=> <<Deps, Page>> \in newer,
             <<Verified(Root), Page>> \in newer' <=> <<Verified(Root), Page>> \in newer
      PROVE  PageInv'
  <2>1. Shown' = Shown /\ (IncludeMissed' <=> IncludeMissed) /\ \A g : Summarize(g)' = Summarize(g)
    BY <1>1, SourceFrame DEF Summarize
  <2>2. PageFresh' => PageFresh
    BY <1>0, <1>1, <2>1 DEF PageFresh, DepsFresh
  <2>3. page = [f \in Shown |-> Summarize(f)] => page' = [f \in Shown |-> Summarize(f)]'
    BY <1>1, <2>1
  <2> QED
    BY <2>2, <2>3 DEF PageInv
<1>2. ASSUME NEW f \in DfyFile, Edit(f) PROVE PageInv'
  <2> SUFFICES ASSUME PageFresh' PROVE page' = [g \in Shown |-> Summarize(g)]'
    BY DEF PageInv
  <2>1. UNCHANGED <<reportType, report, deps, described, missed, page, built>> /\ newer' = Written(Dfy(f))
    BY <1>2 DEF Edit
  <2>2. \A g \in DfyFile \ {f} : src'[g] = src[g]
    BY <1>2, EditNoticed
  <2>3. f \notin described /\ DepsFresh /\ deps # NoFile
    BY <1>0, <2>1, WriteDfy DEF PageFresh, DepsFresh
  <2>4. Shown' \subseteq described
    <3>1. (deps # NoFile)' /\ DepsFresh' /\ ~IncludeMissed'
      BY DEF PageFresh
    <3>2. (Shown \subseteq described)'
      BY <3>1, ListedIsShownNext
    <3> QED
      BY <3>2, <2>1
  <2>6. Shown' = Shown
    <3>1. /\ Includes \in IncludeGraphs /\ Includes' \in IncludeGraphs /\ Root \in DfyFile
          /\ \A g \in DfyFile : Includes[g] = src[g].inc /\ Includes'[g] = src'[g].inc
      BY BuildConstants DEF BuildTypeOK, Includes, IncludeGraphs, FileStates
    <3>2. Reachable(Includes', Root) \subseteq described
      BY <2>4 DEF Shown
    <3>3. \A g \in Reachable(Includes', Root) : Includes[g] = Includes'[g]
      BY <3>1, <3>2, <1>0, <2>2, <2>3
    <3>4. Reachable(Includes, Root) = Reachable(Includes', Root)
      BY <3>1, <3>3, ReachableAgree
    <3> QED
      BY <3>4 DEF Shown
  <2>5. f \notin Shown
    BY <2>3, <2>4, <2>6
  <2>7. \A g \in Shown : Summarize(g)' = Summarize(g) /\ (VerifiedStale(g)' <=> VerifiedStale(g))
    <3>1. \A g \in DfyFile : src[g].inc \subseteq DfyFile
      BY GraphsTyped
    <3>2. \A g \in Shown : g \in DfyFile \ {f}
      BY <1>0, <2>5
    <3>3. \A g \in Shown : Summarize(g)' = Summarize(g)
      BY <3>2, <2>1, <2>2 DEF Summarize
    <3>4. \A g \in Shown : VerifiedStale(g)' <=> VerifiedStale(g)
      BY <3>1, <3>2, <2>1, <2>2, WriteDfy DEF VerifiedStale
    <3> QED
      BY <3>3, <3>4
  <2>8. PageFresh
    BY <2>1, <2>3, <2>6, <2>7, WriteDfy DEF PageFresh, IncludeMissed
  <2>9. page = [g \in Shown |-> Summarize(g)]
    BY <2>8 DEF PageInv
  <2> QED
    BY <2>1, <2>6, <2>7, <2>9
<1>3. ASSUME NEW f \in DfyFile, FinishCheck(f) PROVE PageInv'
  <2> SUFFICES ASSUME PageFresh' PROVE page' = [g \in Shown |-> Summarize(g)]'
    BY DEF PageInv
  <2>1. UNCHANGED <<src, reportType, deps, described, missed, page>> /\ Wrote(Chk(f)) /\ newer' = Written(Chk(f))
    BY <1>3 DEF FinishCheck, Wrote
  <2>2. \A g \in DfyFile \ {f} : report'[g] = report[g]
    BY <1>3 DEF FinishCheck, BuildTypeOK
  <2>3. Shown' = Shown /\ (IncludeMissed' <=> IncludeMissed)
    BY <2>1, SourceFrame
  <2>4. f \notin Shown /\ \A g \in Shown : ~VerifiedStale(g)
    BY <1>0, <2>1, <2>3, VerifiedAfterReport DEF PageFresh
  <2>5. \A g \in Shown : Summarize(g)' = Summarize(g)
    BY <1>0, <2>1, <2>2, <2>4 DEF Summarize
  <2>6. PageFresh
    BY <1>0, <2>1, <2>3, <2>4, WriteChk, TargetNames DEF PageFresh, DepsFresh, Wrote
  <2>7. page = [g \in Shown |-> Summarize(g)]
    BY <2>6 DEF PageInv
  <2> QED
    BY <2>1, <2>3, <2>5, <2>7
<1>4. ASSUME NEW f \in DfyFile, Aggregate(f) \/ AggregateRaises(f) PROVE PageInv'
  <2> SUFFICES ASSUME PageFresh' PROVE page' = [g \in Shown |-> Summarize(g)]'
    BY DEF PageInv
  <2>1. /\ UNCHANGED <<src, reportType, report, deps, described, missed, page>>
        /\ Wrote(Verified(f)) /\ newer' = Written(Verified(f))
    BY <1>4 DEF Aggregate, AggregateRaises, Build, Wrote
  <2>2. Shown' = Shown /\ (IncludeMissed' <=> IncludeMissed) /\ \A g : Summarize(g)' = Summarize(g)
    BY <2>1, SourceFrame DEF Summarize
  <2>3. f # Root
    BY <2>1, WriteVerified DEF PageFresh
  <2>4. \A g \in Shown : f \notin src[g].inc /\ (g = f \/ ~VerifiedStale(g))
    BY <1>0, <2>1, <2>2, VerifiedWrites DEF PageFresh
  <2>5. f \notin Shown
    <3> SUFFICES ASSUME f \in Reachable(Includes, Root) PROVE FALSE
      BY DEF Shown
    <3>1. Includes \in IncludeGraphs /\ Root \in DfyFile /\ \A g \in DfyFile : Includes[g] = src[g].inc
      BY GraphsTyped
    <3>2. PICK p \in Reachable(Includes, Root) : f \in Includes[p]
      BY <3>1, <2>3, ReachablePredecessor
    <3> QED
      BY <1>0, <3>1, <3>2, <2>4 DEF Shown
  <2>6. PageFresh
    BY <1>0, <2>1, <2>2, <2>4, <2>5, WriteVerified, TargetNames, ZenonT(60) DEF PageFresh, DepsFresh, Wrote
  <2>7. page = [g \in Shown |-> Summarize(g)]
    BY <2>6 DEF PageInv
  <2> QED
    BY <2>1, <2>2, <2>7
<1>5. ASSUME WriteDepsFile PROVE PageInv'
  <2>1. newer' = Written(Deps)
    BY <1>5 DEF WriteDepsFile
  <2> QED
    BY <2>1, WriteDeps DEF PageInv, PageFresh
<1>6. ASSUME BuildPage PROVE PageInv'
  <2>1. UNCHANGED <<src, reportType, report>> /\ page' = [g \in Shown |-> Summarize(g)]
    BY <1>6 DEF BuildPage
  <2>2. Shown' = Shown /\ \A g : Summarize(g)' = Summarize(g)
    BY <2>1, SourceFrame DEF Summarize
  <2> QED
    BY <2>1, <2>2 DEF PageInv
<1>7. ASSUME NEW f \in DfyFile, TouchDummydep(f) PROVE PageInv'
  <2>1. /\ UNCHANGED <<src, reportType, report, deps, described, missed, page>>
        /\ Wrote(Dummydep(f)) /\ newer' = Written(Dummydep(f)) /\ built' = built \cup {Dummydep(f)}
    BY <1>7 DEF TouchDummydep, Build, Wrote
  <2>2. \A g \in DfyFile : VerifiedStale(g)' <=> VerifiedStale(g)
    BY <2>1, VerifiedFrame
  <2> QED
    BY <1>1, <2>1, <2>2, WriteDummydep, TargetNames
<1>8. ASSUME \/ \E f \in DfyFile : StartCheck(f)
             \/ \E t : UpToDate(t)
             \/ StartMake \/ Interrupt \/ FindTargets \/ GatherDeps \/ StartBuild \/ Stop \/ PageRaises \/ PageUpToDate
             \/ UNCHANGED buildVars
      PROVE  PageInv'
  <2>1. UNCHANGED <<src, reportType, report, deps, described, missed, page, newer, built>>
    BY <1>8 DEF StartCheck, UpToDate, StartMake, Interrupt, FindTargets, GatherDeps, StartBuild, Stop, PageRaises, PageUpToDate, buildVars
  <2>2. \A g \in DfyFile : VerifiedStale(g)' <=> VerifiedStale(g)
    BY <2>1 DEF VerifiedStale
  <2> QED
    BY <1>1, <2>1, <2>2
<1> QED
  BY <1>0, <1>2, <1>3, <1>4, <1>5, <1>6, <1>7, <1>8, BuildSteps

\* While build/deps is right, what make finds up to date is.
LEMMA UpToDateIsFresh ==
    ASSUME BuildTypeOK, DepsInv, deps # NoFile, DepsFresh, ~IncludeMissed, NEW f \in Listed
    PROVE  /\ ~OutOfDate(Dummydep(f)) => ~DummyStale(f)
           /\ ~OutOfDate(Chk(f)) => ~CheckStale(f)
           /\ ~OutOfDate(Verified(f)) => ~VerifiedStale(f)
<1>1. deps[f] = src[f].inc
  BY ListedIsShown
<1>2. Prereqs(Dummydep(f)) = {Dfy(f)} \cup {Dummydep(g) : g \in src[f].inc}
  BY <1>1, PrereqsOf
<1>3. Prereqs(Chk(f)) = {Dfy(f)} \cup {Dummydep(g) : g \in src[f].inc}
  BY <1>1, PrereqsOf
<1>4. /\ Chk(f) \in Prereqs(Verified(f))
      /\ \A g \in src[f].inc : Verified(g) \in Prereqs(Verified(f))
  BY <1>1, PrereqsOf
<1>5. ~OutOfDate(Dummydep(f)) => ~DummyStale(f)
  BY <1>2 DEF OutOfDate, DummyStale
<1>6. ~OutOfDate(Chk(f)) => ~CheckStale(f)
  BY <1>3 DEF OutOfDate, CheckStale
<1>7. ~OutOfDate(Verified(f)) => ~VerifiedStale(f)
  BY <1>4 DEF OutOfDate, VerifiedStale
<1> QED
  BY <1>5, <1>6, <1>7

\* At the end of a quiet run everything that is shown is fresh.
LEMMA QuietEnd ==
    ASSUME StatusInv, quiet, MayConsider(Page), ~IncludeMissed
    PROVE  /\ deps # NoFile /\ DepsFresh
           /\ \A f \in Shown : /\ ~CheckStale(f) /\ ~VerifiedStale(f)
                               /\ f # Root => ~DummyStale(f)
<1> USE DEF StatusInv
<1>1. /\ make = "build" /\ deps # NoFile /\ Dummies \subseteq considered
      /\ \A f \in Listed : Verified(f) \in considered /\ Chk(f) \in considered
  BY PageIsLast
<1>2. DepsFresh
  BY <1>1 DEF QuietInv
<1>3. Listed = Shown
  BY <1>1, <1>2, ListedIsShown
<1>4. \A f \in Listed : f # Root => Dummydep(f) \in considered
  BY <1>1 DEF Dummies
<1> QED
  BY <1>1, <1>2, <1>3, <1>4 DEF QuietInv

\* Every step of a quiet run keeps what make is done with up to date.
LEMMA StepKeepsQuiet ==
    ASSUME StatusInv, BuildTypeOK', [BuildNext]_buildVars
    PROVE  QuietInv'
<1> USE DEF StatusInv
<1>0. Listed \subseteq DfyFile /\ Shown \subseteq DfyFile /\ described \subseteq DfyFile
  BY GraphsTyped DEF BuildTypeOK
<1>1. ASSUME \/ \E f \in DfyFile : Edit(f) \/ AggregateRaises(f)
             \/ StartMake \/ Interrupt \/ PageRaises
      PROVE  QuietInv'
  BY <1>1 DEF Edit, AggregateRaises, StartMake, Interrupt, PageRaises, QuietInv
<1>2. ASSUME FindTargets \/ GatherDeps \/ WriteDepsFile \/ Stop PROVE QuietInv'
  BY <1>2 DEF FindTargets, GatherDeps, WriteDepsFile, Stop, QuietInv
<1>3. ASSUME StartBuild PROVE QuietInv'
  <2>1. UNCHANGED <<deps, described, newer>> /\ make' = "build" /\ considered' = {} /\ ~DepsOutOfDate
    BY <1>3 DEF StartBuild, OrderInv
  <2>2. DepsFresh'
    BY <2>1 DEF DepsFresh, DepsOutOfDate, DepsPrereqs
  <2> QED
    BY <2>1, <2>2 DEF QuietInv
<1>4. ASSUME NEW f \in Listed \ {Root}, TouchDummydep(f) PROVE QuietInv'
  <2> SUFFICES ASSUME quiet' PROVE QuietInv'
    BY DEF QuietInv
  <2>1. /\ UNCHANGED <<src, deps, described, missed, make, quiet>> /\ Wrote(Dummydep(f)) /\ newer' = Written(Dummydep(f))
        /\ considered' = considered \cup {Dummydep(f)}
        /\ make = "build" /\ Dummydep(f) \notin considered
    BY <1>4 DEF TouchDummydep, Build, Considered, MayConsider, Wrote
  <2>2. Listed' = Listed /\ DepsFresh /\ deps # NoFile /\ (IncludeMissed' <=> IncludeMissed)
    BY <2>1, DepsFrame, SourceFrame DEF QuietInv, DepsInv
  <2>3. DepsFresh'
    BY <1>0, <2>1, <2>2, WriteDummydep DEF DepsFresh
  <2>4. ~IncludeMissed => \A g \in Listed : deps[g] = src[g].inc
    BY <2>2, ListedIsShown
  <2>5. \A g \in Listed : Chk(g) \notin considered'
    <3>1. Dummydep(f) \in Dummies
      BY DEF Dummies
    <3> QED
      BY <1>0, <3>1, <2>1, TargetNames DEF OrderInv
  <2>6. ASSUME ~IncludeMissed, NEW g \in Listed, Dummydep(g) \in considered' PROVE ~DummyStale(g)'
    <3>1. f \notin src[g].inc
      <4>1. CASE Dummydep(g) \in considered
        BY <4>1, <2>1, <2>4, <2>6 DEF OrderInv
      <4>2. CASE g = f
        BY <4>2, <1>0, NoSelfInclude
      <4> QED
        BY <4>1, <4>2, <2>1, <2>6, TargetNames
    <3>2. g = f \/ ~DummyStale(g)
      BY <2>1, <2>6, TargetNames DEF QuietInv
    <3> QED
      BY <1>0, <3>1, <3>2, <2>1, DummyWrites
  <2>7. ASSUME ~IncludeMissed, NEW g \in Listed, Verified(g) \in considered' PROVE ~VerifiedStale(g)'
    <3>1. ~VerifiedStale(g)
      BY <2>1, <2>7, TargetNames DEF QuietInv
    <3> QED
      BY <1>0, <3>1, <2>1, VerifiedFrame
  <2> QED
    BY <2>1, <2>2, <2>3, <2>5, <2>6, <2>7 DEF QuietInv
<1>5. ASSUME NEW f \in DfyFile, FinishCheck(f) PROVE QuietInv'
  <2> SUFFICES ASSUME quiet' PROVE QuietInv'
    BY DEF QuietInv
  <2>1. UNCHANGED <<src, deps, described, missed, make, quiet>> /\ Wrote(Chk(f)) /\ newer' = Written(Chk(f)) /\ running[f] # NoFile
    BY <1>5 DEF FinishCheck, Wrote
  <2>2. make = "build" /\ Chk(f) \notin considered
    BY <2>1 DEF QuietInv, RunningInv
  <2>3. considered' = considered \cup {Chk(f)}
    BY <1>5, <2>2 DEF FinishCheck, Considered
  <2>4. Listed' = Listed /\ DepsFresh /\ (IncludeMissed' <=> IncludeMissed)
    BY <2>1, <2>2, DepsFrame, SourceFrame DEF QuietInv
  <2>5. DepsFresh'
    BY <1>0, <2>1, <2>4, WriteChk DEF DepsFresh
  <2>6. ASSUME ~IncludeMissed, NEW g \in Listed, Dummydep(g) \in considered' PROVE ~DummyStale(g)'
    <3>1. ~DummyStale(g)
      BY <2>1, <2>2, <2>3, <2>6, TargetNames DEF QuietInv
    <3> QED
      BY <1>0, <3>1, <2>1, ReportWrites
  <2>7. ASSUME ~IncludeMissed, NEW g \in Listed, Chk(g) \in considered' PROVE ~CheckStale(g)'
    <3>1. g = f \/ ~CheckStale(g)
      BY <2>1, <2>2, <2>3, <2>7, TargetNames DEF QuietInv
    <3> QED
      BY <1>0, <3>1, <2>1, ReportWrites
  <2>8. ASSUME ~IncludeMissed, NEW g \in Listed, Verified(g) \in considered' PROVE ~VerifiedStale(g)'
    <3>1. Verified(g) \in considered
      BY <2>3, <2>8, TargetNames
    <3>2. ~VerifiedStale(g) /\ g # f
      BY <3>1, <2>1, <2>2, <2>8 DEF QuietInv, OrderInv
    <3> QED
      BY <1>0, <3>2, <2>1, VerifiedAfterReport
  <2> QED
    BY <2>1, <2>2, <2>4, <2>5, <2>6, <2>7, <2>8 DEF QuietInv
<1>6. ASSUME NEW f \in Listed, Aggregate(f) PROVE QuietInv'
  <2> SUFFICES ASSUME quiet' PROVE QuietInv'
    BY DEF QuietInv
  <2>1. /\ UNCHANGED <<src, deps, described, missed, make, quiet>> /\ Wrote(Verified(f)) /\ newer' = Written(Verified(f))
        /\ considered' = considered \cup {Verified(f)}
        /\ make = "build" /\ Verified(f) \notin considered
    BY <1>6 DEF Aggregate, Build, Considered, MayConsider, Wrote
  <2>2. Listed' = Listed /\ DepsFresh /\ deps # NoFile /\ (IncludeMissed' <=> IncludeMissed)
    BY <2>1, DepsFrame, SourceFrame DEF QuietInv, DepsInv
  <2>3. DepsFresh'
    BY <1>0, <2>1, <2>2, WriteVerified DEF DepsFresh
  <2>4. ~IncludeMissed => \A g \in Listed : deps[g] = src[g].inc
    BY <2>2, ListedIsShown
  <2>5. \A g \in DfyFile : (DummyStale(g)' <=> DummyStale(g)) /\ (CheckStale(g)' <=> CheckStale(g))
    BY <1>0, <2>1, LaterWrites
  <2>6. ASSUME ~IncludeMissed, NEW g \in Listed, Dummydep(g) \in considered' PROVE ~DummyStale(g)'
    BY <1>0, <2>1, <2>5, <2>6, TargetNames DEF QuietInv
  <2>7. ASSUME ~IncludeMissed, NEW g \in Listed, Chk(g) \in considered' PROVE ~CheckStale(g)'
    BY <1>0, <2>1, <2>5, <2>7, TargetNames DEF QuietInv
  <2>8. ASSUME ~IncludeMissed, NEW g \in Listed, Verified(g) \in considered' PROVE ~VerifiedStale(g)'
    <3>1. f \notin src[g].inc
      <4>1. CASE Verified(g) \in considered
        BY <4>1, <2>1, <2>4, <2>8 DEF OrderInv
      <4>2. CASE g = f
        BY <4>2, <1>0, NoSelfInclude
      <4> QED
        BY <4>1, <4>2, <2>1, <2>8, TargetNames
    <3>2. g = f \/ ~VerifiedStale(g)
      BY <2>1, <2>8, TargetNames DEF QuietInv
    <3> QED
      BY <1>0, <3>1, <3>2, <2>1, VerifiedWrites
  <2> QED
    BY <2>1, <2>2, <2>3, <2>6, <2>7, <2>8 DEF QuietInv
<1>7. ASSUME NEW f \in Listed, NEW t \in {Dummydep(f), Chk(f), Verified(f)}, UpToDate(t) PROVE QuietInv'
  <2> SUFFICES ASSUME quiet' PROVE QuietInv'
    BY DEF QuietInv
  <2>1. /\ UNCHANGED <<src, deps, described, missed, make, quiet, newer, built>> /\ make = "build" /\ ~OutOfDate(t)
        /\ considered' = considered \cup {t}
    BY <1>7 DEF UpToDate, MayConsider, Considered
  <2>2. Listed' = Listed /\ DepsFresh /\ deps # NoFile /\ (IncludeMissed' <=> IncludeMissed)
    BY <2>1, DepsFrame, SourceFrame DEF QuietInv, DepsInv
  <2>3. /\ DepsFresh'
        /\ \A g : /\ DummyStale(g)' <=> DummyStale(g)
                  /\ CheckStale(g)' <=> CheckStale(g)
                  /\ VerifiedStale(g)' <=> VerifiedStale(g)
    BY <2>1, <2>2 DEF DepsFresh, DummyStale, CheckStale, VerifiedStale
  <2>4. ~IncludeMissed =>
          /\ t = Dummydep(f) => ~DummyStale(f)
          /\ t = Chk(f) => ~CheckStale(f)
          /\ t = Verified(f) => ~VerifiedStale(f)
    BY <2>1, <2>2, UpToDateIsFresh
  <2>5. ASSUME ~IncludeMissed, NEW g \in Listed, Dummydep(g) \in considered' PROVE ~DummyStale(g)
    BY <2>1, <2>4, <2>5, TargetNames DEF QuietInv
  <2>6. ASSUME ~IncludeMissed, NEW g \in Listed, Chk(g) \in considered' PROVE ~CheckStale(g)
    BY <2>1, <2>4, <2>6, TargetNames DEF QuietInv
  <2>7. ASSUME ~IncludeMissed, NEW g \in Listed, Verified(g) \in considered' PROVE ~VerifiedStale(g)
    BY <2>1, <2>4, <2>7, TargetNames DEF QuietInv
  <2> QED
    BY <2>1, <2>2, <2>3, <2>5, <2>6, <2>7 DEF QuietInv
<1>8. ASSUME BuildPage PROVE QuietInv'
  <2> SUFFICES ASSUME quiet' PROVE QuietInv'
    BY DEF QuietInv
  <2>1. /\ UNCHANGED <<src, missed, reportType, report, quiet>> /\ Wrote(Page) /\ make' = "idle" /\ MayConsider(Page)
        /\ page' = [g \in Shown |-> Summarize(g)]
    BY <1>8 DEF BuildPage, Wrote
  <2>2. Shown' = Shown /\ (IncludeMissed' <=> IncludeMissed) /\ \A g : Summarize(g)' = Summarize(g)
    BY <2>1, SourceFrame DEF Summarize
  <2>3. \A g \in DfyFile : /\ DummyStale(g)' <=> DummyStale(g)
                           /\ CheckStale(g)' <=> CheckStale(g)
                           /\ VerifiedStale(g)' <=> VerifiedStale(g)
    BY <2>1, LaterWrites, VerifiedFrame
  <2>4. ~IncludeMissed => \A g \in Shown : /\ ~CheckStale(g) /\ ~VerifiedStale(g)
                                           /\ g # Root => ~DummyStale(g)
    BY <2>1, QuietEnd
  <2>5. page' = [g \in Shown |-> Summarize(g)]'
    BY <2>1, <2>2
  <2> QED
    BY <1>0, <2>1, <2>2, <2>3, <2>4, <2>5 DEF QuietInv
<1>9. ASSUME PageUpToDate PROVE QuietInv'
  <2> SUFFICES ASSUME quiet' PROVE QuietInv'
    BY DEF QuietInv
  <2>1. /\ UNCHANGED <<src, missed, reportType, report, quiet, newer, built, page>> /\ make' = "idle"
        /\ MayConsider(Page) /\ ~OutOfDate(Page)
    BY <1>9 DEF PageUpToDate
  <2>2. Shown' = Shown /\ (IncludeMissed' <=> IncludeMissed) /\ \A g : Summarize(g)' = Summarize(g)
    BY <2>1, SourceFrame DEF Summarize
  <2>3. \A g : /\ DummyStale(g)' <=> DummyStale(g)
               /\ CheckStale(g)' <=> CheckStale(g)
               /\ VerifiedStale(g)' <=> VerifiedStale(g)
    BY <2>1 DEF DummyStale, CheckStale, VerifiedStale
  <2>4. ~IncludeMissed =>
          /\ deps # NoFile /\ DepsFresh
          /\ \A g \in Shown : /\ ~CheckStale(g) /\ ~VerifiedStale(g)
                              /\ g # Root => ~DummyStale(g)
    BY <2>1, QuietEnd
  <2>5. Page \in built /\ <<Deps, Page>> \notin newer /\ <<Verified(Root), Page>> \notin newer
    BY <2>1, PrereqsOf DEF OutOfDate
  <2>6. ~IncludeMissed => page = [g \in Shown |-> Summarize(g)]
    BY <2>4, <2>5 DEF PageInv, PageFresh
  <2>7. ~IncludeMissed => page' = [g \in Shown |-> Summarize(g)]'
    BY <2>1, <2>2, <2>6
  <2> QED
    BY <2>1, <2>2, <2>3, <2>4, <2>7 DEF QuietInv
<1>10. ASSUME (\E f \in DfyFile : StartCheck(f)) \/ UNCHANGED buildVars PROVE QuietInv'
  <2>1. UNCHANGED <<src, reportType, report, deps, described, missed, newer, built, page, make, considered, quiet>>
    BY <1>10 DEF StartCheck, buildVars
  <2>2. /\ Shown' = Shown /\ Listed' = Listed /\ (IncludeMissed' <=> IncludeMissed)
        /\ \A g : Summarize(g)' = Summarize(g)
    BY <2>1, SourceFrame, DepsFrame DEF Summarize
  <2>3. /\ DepsFresh' <=> DepsFresh
        /\ \A g : /\ DummyStale(g)' <=> DummyStale(g)
                  /\ CheckStale(g)' <=> CheckStale(g)
                  /\ VerifiedStale(g)' <=> VerifiedStale(g)
    BY <2>1, <2>2 DEF DepsFresh, DummyStale, CheckStale, VerifiedStale
  <2>4. page = [g \in Shown |-> Summarize(g)] => page' = [g \in Shown |-> Summarize(g)]'
    BY <2>1, <2>2
  <2> QED
    BY <2>1, <2>2, <2>3, <2>4 DEF QuietInv
<1> QED
  BY <1>0, <1>1, <1>2, <1>3, <1>4, <1>5, <1>6, <1>7, <1>8, <1>9, <1>10, BuildSteps

\* The invariant holds at first.
LEMMA BuildInitInv ==
    BuildInit => StatusInv
<1> SUFFICES ASSUME BuildInit PROVE StatusInv
  OBVIOUS
<1>1. BuildTypeOK
  BY BuildInitType
<1>2. /\ built = {} /\ considered = {} /\ make = "idle" /\ quiet = FALSE /\ deps = NoFile
      /\ \A f \in DfyFile : report[f] = NoFile /\ running[f] = NoFile /\ verified[f] = "missing"
  BY DEF BuildInit
<1>3. FreshReportInv /\ CheckInv /\ RunningInv /\ BuiltInv
  BY <1>2 DEF FreshReportInv, CheckInv, RunningInv, BuiltInv
<1>4. OrderInv /\ DepsInv /\ QuietInv
  BY <1>2 DEF OrderInv, DepsInv, QuietInv
<1>5. PageInv /\ VerifiedInv
  BY <1>2 DEF PageInv, PageFresh, VerifiedInv
<1> QED
  BY <1>1, <1>3, <1>4, <1>5 DEF StatusInv

\* Every step keeps the invariant.
LEMMA BuildNextInv ==
    StatusInv /\ [BuildNext]_buildVars => StatusInv'
<1> SUFFICES ASSUME StatusInv, [BuildNext]_buildVars PROVE StatusInv'
  OBVIOUS
<1>1. BuildTypeOK'
  BY BuildTypeStep DEF StatusInv
<1> QED
  BY <1>1, DepsStep, ReportStep, CheckStep, RunningStep, OrderStep, BuiltStep, PageStep, VerifiedStep, StepKeepsQuiet
     DEF StatusInv

\* A quiet run leaves a report about the present sources, or a race.
LEMMA QuietReports ==
    ASSUME StatusInv, AfterQuietMake, ~IncludeMissed, NEW f \in Shown
    PROVE  /\ f \in DfyFile /\ report[f] # NoFile
           /\ f \notin raced => report[f].reads = Sources(f)
           /\ ~CheckStale(f) /\ ~VerifiedStale(f)
           /\ page = [g \in Shown |-> Summarize(g)]
<1> USE DEF StatusInv
<1>1. \A g \in Shown : ~CheckStale(g) /\ ~VerifiedStale(g) /\ (g # Root => ~DummyStale(g))
  BY DEF QuietInv, AfterQuietMake
<1>6. page = [g \in Shown |-> Summarize(g)]
  BY DEF QuietInv, AfterQuietMake
<1>2. Includes \in IncludeGraphs /\ Root \in DfyFile /\ f \in DfyFile /\ Shown = Reachable(Includes, Root)
  BY GraphsTyped DEF Shown
<1>3. report[f] # NoFile
  BY <1>1, <1>2 DEF BuiltInv, CheckStale
<1>4. DummiesFresh(f)
  <2>1. ASSUME NEW g \in Reachable(Includes, f) \ {f} PROVE g \in Shown /\ g # Root
    <3>1. g \in Shown /\ g < f /\ (f = Root \/ f < Root)
      BY <1>2, ReachableFacts
    <3>2. g \in Nat /\ f \in Nat /\ Root \in Nat
      BY <3>1, <1>2, GraphsTyped, BuildConstants
    <3> QED
      BY <3>1, <3>2
  <2> QED
    BY <2>1, <1>1 DEF DummiesFresh
<1>5. f \notin raced => report[f].reads = Sources(f)
  BY <1>1, <1>2, <1>3, <1>4 DEF FreshReportInv
<1> QED
  BY <1>1, <1>2, <1>3, <1>5, <1>6

(***************************************************************************)
(* For every set of files, every include graph and any interleaving of     *)
(* edits, interrupts, failures and parallel checks: after a run of make    *)
(* without edits, the report of every reachable file is about the present  *)
(* sources of all it includes, unless the file was edited during its own   *)
(* check or an include line while veridepend.py ran.  The rules of         *)
(* veridepend.py and the Makefile lose no other edit.                      *)
(***************************************************************************)
THEOREM StaleAlwaysRaced == BuildSpec => []StaleOnlyIfRaced
<1>1. StatusInv => StaleOnlyIfRaced
  BY QuietReports DEF StaleOnlyIfRaced
<1> QED
  BY <1>1, BuildInitInv, BuildNextInv, PTL DEF BuildSpec

\* A file that is shown as a success is one.
LEMMA ShownIsSound ==
    ASSUME StatusInv, AfterQuietMake, ~IncludeMissed, NEW f \in Shown \ raced, page[f].is_success
    PROVE  Sound(f)
<1> USE DEF StatusInv
<1>1. /\ f \in DfyFile /\ report[f] # NoFile /\ report[f].reads = Sources(f)
      /\ page = [g \in Shown |-> Summarize(g)]
  BY QuietReports
<1>2. report[f].text = src[f].text /\ src[f].text \in SourceTexts /\ reportType \in {VERCHK, SYNCHK}
  BY <1>1, SourcesSnapshot, ReportTexts DEF BuildTypeOK
<1>3. Summarize(f).is_success
  BY <1>1
<1>4. ExtractCondition(reportType, f \in TrustedFiles, src[f].text.report[reportType], src[f].text).is_success
  BY <1>1, <1>2, <1>3 DEF Summarize
<1>5. ASSUME NEW type, type = reportType, NEW content, content = src[f].text, NEW r, r = content.report[type],
             ExtractCondition(type, f \in TrustedFiles, r, content).is_success
      PROVE  /\ ~HasDisallowedAssumptions(f \in TrustedFiles, content)
             /\ r.summary = IF type = VERCHK THEN "finished" ELSE "none"
             /\ r.errors = 0 /\ r.timeouts % 10 = 0
  <2>1. /\ type \in {VERCHK, SYNCHK} /\ content \in SourceTexts
        /\ r \in DafnyReports({"parse", "type", "finished", "none"})
        /\ type = SYNCHK => r \in DafnyReports({"parse", "type", "none"})
    BY <1>2, <1>5, TextReport
  <2>2. ExtractCondition(type, f \in TrustedFiles, r, content).is_success =>
                 /\ ~HasDisallowedAssumptions(f \in TrustedFiles, content)
                 /\ r.summary = IF type = VERCHK THEN "finished" ELSE "none"
                 /\ r.errors = 0 /\ r.timeouts % 10 = 0
    BY ONLY <2>1, ExtractedCondition
  <2> QED
    BY <2>2, <1>5
<1> QED
  BY <1>4, <1>5 DEF Sound

(***************************************************************************)
(* The page after a quiet run shows exactly the reachable files, none as a *)
(* success that is not one, and all as successes if their .verified files  *)
(* say so, for any number of time outs.  What is left out is what          *)
(* PageTruthful names: a file edited during its own check, an include line *)
(* that veridepend.py missed, and a number of time outs that ends in zero. *)
(***************************************************************************)
THEOREM PageAlwaysTruthful == BuildSpec => []PageTruthful
<1>1. StatusInv => PageTruthful
  <2> SUFFICES ASSUME StatusInv PROVE PageTruthful
    OBVIOUS
  <2>1. BuildTypeOK
    BY DEF StatusInv
  <2>2. PageShowsFailures
    <3> SUFFICES ASSUME AfterQuietMake, ~IncludeMissed
                 PROVE  DOMAIN page = Shown /\ \A f \in Shown \ raced : page[f].is_success => Sound(f)
      BY DEF PageShowsFailures
    <3>1. Root \in Shown
      BY <2>1, GraphsTyped, ReachableFacts DEF Shown
    <3>2. DOMAIN page = Shown
      BY <3>1, QuietReports
    <3> QED
      BY <3>2, ShownIsSound
  <2>3. AllVerifiedMeansAllGreen
    <3> SUFFICES ASSUME AfterQuietMake, ~IncludeMissed, \A f \in Shown : verified[f] = "success", NEW f \in Shown
                 PROVE  page[f].is_success
      BY DEF AllVerifiedMeansAllGreen
    <3>1. f \in DfyFile /\ page[f] = Summarize(f) /\ ~CheckStale(f) /\ ~VerifiedStale(f)
      BY QuietReports
    <3> QED
      BY <3>1 DEF StatusInv, VerifiedInv, CheckStale, VerifiedStale
  <2> QED
    BY <2>1, <2>2, <2>3 DEF PageTruthful
<1> QED
  BY <1>1, BuildInitInv, BuildNextInv, PTL DEF BuildSpec
=============================================================================
