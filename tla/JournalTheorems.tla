-------------------------- MODULE JournalTheorems --------------------------
(***************************************************************************)
(* What replaying a journal computes: the facts about ApplySeq and about   *)
(* suffixes of journals that the refinement proofs rest on.                *)
(***************************************************************************)
EXTENDS Journal, TLAPS, WellFoundedInduction, SequenceTheorems

\* A nonempty set of natural numbers with an upper bound has a largest element.
LEMMA BoundedSetHasMax ==
    ASSUME NEW n \in Nat, NEW E, E \subseteq 1..n, E # {}
    PROVE  \E i \in E : \A j \in E : j <= i
<1> DEFINE T == {m \in Nat : \E i \in E : m = n - i}
<1>1. T \subseteq Nat /\ T # {}
  <2>1. PICK i \in E : TRUE
    OBVIOUS
  <2>2. n - i \in T
    BY <2>1
  <2> QED
    BY <2>2
<1>2. PICK x \in T : \A y \in T : ~ (<<y, x>> \in OpToRel(<, Nat))
  <2> HIDE DEF T
  <2> QED
    BY <1>1, NatLessThanWellFounded, WFMin
<1>3. \A y \in T : ~ (y < x)
  BY <1>2 DEF OpToRel
<1>4. PICK i \in E : x = n - i
  BY <1>2
<1>5. \A j \in E : j <= i
  <2> TAKE j \in E
  <2>1. n - j \in T
    OBVIOUS
  <2> QED
    BY <1>3, <1>4, <2>1
<1> QED
  BY <1>5

\* LastEntryFor picks the position of the last entry for k, if there is one.
LEMMA LastEntryForIsLast ==
    ASSUME NEW jes \in Seq(JournalEntry), NEW k \in Key, EntriesFor(jes, k) # {}
    PROVE  /\ LastEntryFor(jes, k) \in EntriesFor(jes, k)
           /\ \A j \in EntriesFor(jes, k) : j <= LastEntryFor(jes, k)
<1>1. EntriesFor(jes, k) \subseteq 1..Len(jes) /\ Len(jes) \in Nat
  BY DEF EntriesFor
<1> HIDE DEF EntriesFor
<1>2. \E i \in EntriesFor(jes, k) : \A j \in EntriesFor(jes, k) : j <= i
  BY <1>1, BoundedSetHasMax
<1> QED
  BY <1>2 DEF LastEntryFor

\* There is only one position that is the last entry for k.
LEMMA LastEntryForUnique ==
    ASSUME NEW jes \in Seq(JournalEntry), NEW k \in Key,
           NEW i \in EntriesFor(jes, k), \A j \in EntriesFor(jes, k) : j <= i
    PROVE  LastEntryFor(jes, k) = i
<1>1. LastEntryFor(jes, k) \in EntriesFor(jes, k) /\ i <= LastEntryFor(jes, k)
  BY LastEntryForIsLast
<1>2. LastEntryFor(jes, k) <= i
  BY <1>1
<1> QED
  BY <1>1, <1>2 DEF EntriesFor

\* Replaying a journal takes a dictionary to a dictionary.
LEMMA ApplySeqType ==
    ASSUME NEW m \in State, NEW jes \in Seq(JournalEntry)
    PROVE  ApplySeq(m, jes) \in State
<1> SUFFICES ASSUME NEW k \in Key
             PROVE  ApplySeq(m, jes)[k] \in Value
  BY DEF ApplySeq, State
<1>1. CASE EntriesFor(jes, k) = {}
  BY <1>1 DEF ApplySeq, State
<1>2. CASE EntriesFor(jes, k) # {}
  <2>1. LastEntryFor(jes, k) \in 1..Len(jes)
    BY <1>2, LastEntryForIsLast DEF EntriesFor
  <2>2. jes[LastEntryFor(jes, k)] \in JournalEntry
    BY <2>1
  <2> QED
    BY <1>2, <2>2 DEF ApplySeq, JournalEntry, JournalInsert
<1> QED
  BY <1>1, <1>2

\* Replaying nothing changes nothing.
LEMMA ApplySeqEmpty ==
    ASSUME NEW m \in State
    PROVE  ApplySeq(m, << >>) = m
<1>1. \A k \in Key : EntriesFor(<< >>, k) = {}
  BY DEF EntriesFor
<1> QED
  BY <1>1 DEF ApplySeq, State

\* Replaying two journals one after the other is replaying their
\* concatenation (ApplySeqAdditive of the code).
LEMMA ApplySeqAdditive ==
    ASSUME NEW m \in State,
           NEW a \in Seq(JournalEntry), NEW b \in Seq(JournalEntry)
    PROVE  ApplySeq(m, a \o b) = ApplySeq(ApplySeq(m, a), b)
<1> DEFINE c == a \o b
<1>0. /\ c \in Seq(JournalEntry)
      /\ Len(c) = Len(a) + Len(b)
      /\ \A i \in 1..Len(a) : c[i] = a[i]
      /\ \A i \in 1..Len(b) : c[Len(a) + i] = b[i]
      /\ Len(a) \in Nat /\ Len(b) \in Nat
  OBVIOUS
<1> HIDE DEF c
<1> SUFFICES ASSUME NEW k \in Key
             PROVE  ApplySeq(m, c)[k] = ApplySeq(ApplySeq(m, a), b)[k]
  BY DEF ApplySeq, c
<1>1. \A i \in 1..Len(a) : i \in EntriesFor(c, k) <=> i \in EntriesFor(a, k)
  BY <1>0 DEF EntriesFor
<1>2. \A i \in 1..Len(b) : Len(a) + i \in EntriesFor(c, k) <=> i \in EntriesFor(b, k)
  BY <1>0 DEF EntriesFor
<1>3. \A i \in EntriesFor(c, k) : i \in 1..Len(a) \/ (i - Len(a) \in 1..Len(b) /\ i - Len(a) \in EntriesFor(b, k))
  BY <1>0 DEF EntriesFor
<1>4. CASE EntriesFor(b, k) # {}
  <2> DEFINE i == LastEntryFor(b, k)
  <2>1. /\ i \in EntriesFor(b, k) /\ i \in 1..Len(b)
        /\ \A j \in EntriesFor(b, k) : j <= i
    BY <1>4, LastEntryForIsLast DEF EntriesFor
  <2> HIDE DEF i
  <2>2. Len(a) + i \in EntriesFor(c, k)
    BY <2>1, <1>2
  <2>3. \A j \in EntriesFor(c, k) : j <= Len(a) + i
    <3> TAKE j \in EntriesFor(c, k)
    <3>1. CASE j \in 1..Len(a)
      BY <3>1, <2>1, <1>0
    <3>2. CASE j - Len(a) \in 1..Len(b) /\ j - Len(a) \in EntriesFor(b, k)
      <4>1. j - Len(a) <= i
        BY <3>2, <2>1
      <4>2. j \in Int
        BY DEF EntriesFor
      <4> QED
        BY <4>1, <4>2, <2>1, <1>0
    <3> QED
      BY <1>3, <3>1, <3>2
  <2>4. LastEntryFor(c, k) = Len(a) + i
    BY <2>2, <2>3, <1>0, LastEntryForUnique
  <2>5. ApplySeq(m, c)[k] = b[i].value
    BY <2>2, <2>4, <2>1, <1>0 DEF ApplySeq
  <2> QED
    BY <2>5, <1>4 DEF ApplySeq, i
<1>5. CASE EntriesFor(b, k) = {}
  <2>1. EntriesFor(c, k) = EntriesFor(a, k)
    <3>1. EntriesFor(a, k) \subseteq 1..Len(a)
      BY DEF EntriesFor
    <3> QED
      BY <1>1, <1>3, <1>5, <3>1
  <2>2. ApplySeq(ApplySeq(m, a), b)[k] = ApplySeq(m, a)[k]
    BY <1>5 DEF ApplySeq
  <2>3. CASE EntriesFor(a, k) = {}
    BY <2>1, <2>2, <2>3 DEF ApplySeq
  <2>4. CASE EntriesFor(a, k) # {}
    <3>1. LastEntryFor(c, k) = LastEntryFor(a, k)
      BY <2>1 DEF LastEntryFor
    <3>2. LastEntryFor(a, k) \in 1..Len(a)
      BY <2>4, LastEntryForIsLast DEF EntriesFor
    <3>3. ApplySeq(m, c)[k] = c[LastEntryFor(c, k)].value
      BY <2>1, <2>4 DEF ApplySeq
    <3>4. ApplySeq(m, a)[k] = a[LastEntryFor(a, k)].value
      BY <2>4 DEF ApplySeq
    <3> QED
      BY <3>1, <3>2, <3>3, <3>4, <2>2, <1>0
  <2> QED
    BY <2>3, <2>4
<1> QED
  BY <1>4, <1>5

\* Induction over the natural numbers, for the set of numbers with a property.
LEMMA SetInduction ==
    ASSUME NEW S, 0 \in S, \A n \in Nat : n \in S => n + 1 \in S
    PROVE  Nat \subseteq S
<1> SUFFICES ASSUME Nat \ S # {} PROVE FALSE
  OBVIOUS
<1>1. PICK x \in Nat \ S : \A y \in Nat \ S : ~ (<<y, x>> \in OpToRel(<, Nat))
  BY NatLessThanWellFounded, WFMin
<1>2. \A y \in Nat \ S : ~ (y < x)
  BY <1>1 DEF OpToRel
<1>3. x # 0 /\ x - 1 \in Nat /\ x - 1 < x
  OBVIOUS
<1>4. x - 1 \in S
  BY <1>2, <1>3
<1>5. (x - 1) + 1 \in S
  BY <1>3, <1>4
<1> QED
  BY <1>5

\* Replaying a single entry.
LEMMA ApplySeqOne ==
    ASSUME NEW m \in State, NEW je \in JournalEntry
    PROVE  ApplySeq(m, <<je>>) = Apply(m, je)
<1>1. <<je>> \in Seq(JournalEntry) /\ Len(<<je>>) = 1 /\ <<je>>[1] = je
  OBVIOUS
<1>2. PICK k \in Key, v \in Value : je = JournalInsert(k, v)
  BY DEF JournalEntry
<1>3. je.key = k /\ je.value = v
  BY <1>2 DEF JournalInsert
<1>4. EntriesFor(<<je>>, k) = {1}
  BY <1>1, <1>3 DEF EntriesFor
<1>5. LastEntryFor(<<je>>, k) = 1
  BY <1>1, <1>4, LastEntryForIsLast
<1>6. \A q \in Key : q # k => EntriesFor(<<je>>, q) = {}
  BY <1>1, <1>3 DEF EntriesFor
<1> QED
  BY <1>1, <1>3, <1>4, <1>5, <1>6 DEF ApplySeq, State, Apply

\* Replaying one entry more, at the end.
LEMMA ApplySeqStep ==
    ASSUME NEW m \in State, NEW jes \in Seq(JournalEntry), NEW n \in 1..Len(jes)
    PROVE  ApplySeq(m, SubSeq(jes, 1, n)) = Apply(ApplySeq(m, SubSeq(jes, 1, n - 1)), jes[n])
<1> DEFINE p == SubSeq(jes, 1, n - 1)
           e == jes[n]
<1>1. p \in Seq(JournalEntry) /\ e \in JournalEntry /\ SubSeq(jes, 1, n) = p \o <<e>>
  <2>1. SubSeq(jes, 1, n) \in Seq(JournalEntry) /\ Len(SubSeq(jes, 1, n)) = n
    OBVIOUS
  <2>2. p \in Seq(JournalEntry) /\ Len(p) = n - 1 /\ \A i \in 1..n - 1 : p[i] = jes[i]
    OBVIOUS
  <2>3. e \in JournalEntry
    OBVIOUS
  <2> DEFINE q == p \o <<e>>
  <2> HIDE DEF p, e
  <2>4. q \in Seq(JournalEntry) /\ Len(q) = n /\ \A i \in 1..n : q[i] = IF i = n THEN e ELSE p[i]
    BY <2>2, <2>3
  <2> HIDE DEF q
  <2>5. ASSUME NEW i \in 1..n PROVE SubSeq(jes, 1, n)[i] = q[i]
    <3>1. SubSeq(jes, 1, n)[i] = jes[i]
      OBVIOUS
    <3>2. CASE i = n
      BY <2>4, <3>1, <3>2 DEF e
    <3>3. CASE i # n
      BY <2>2, <2>4, <3>1, <3>3
    <3> QED
      BY <3>2, <3>3
  <2>6. SubSeq(jes, 1, n) = q
    BY <2>1, <2>4, <2>5, SeqEqual
  <2> QED
    BY <2>2, <2>3, <2>6 DEF q
<1> HIDE DEF p, e
<1>2. ApplySeq(m, p) \in State /\ <<e>> \in Seq(JournalEntry)
  BY <1>1, ApplySeqType
<1>3. ApplySeq(m, p \o <<e>>) = ApplySeq(ApplySeq(m, p), <<e>>)
  BY <1>1, <1>2, ApplySeqAdditive
<1>4. ApplySeq(ApplySeq(m, p), <<e>>) = Apply(ApplySeq(m, p), e)
  BY <1>1, <1>2, ApplySeqOne
<1> QED
  BY <1>1, <1>3, <1>4 DEF p, e

\* The recursion of the code, which replays all but the last entry and then the
\* last, computes the closed form, for journals of any length.
LEMMA ApplySeqRecursion ==
    ASSUME NEW m \in State, NEW jes \in Seq(JournalEntry)
    PROVE  IApplySeq(m, jes) = ApplySeq(m, jes)
<1> DEFINE Rec(g) == g = [n \in 0..Len(jes) |-> IF n = 0 THEN m ELSE Apply(g[n - 1], jes[n])]
           replayed == [n \in 0..Len(jes) |-> ApplySeq(m, SubSeq(jes, 1, n))]
           upTo == CHOOSE g : Rec(g)
<1>0. Len(jes) \in Nat /\ SubSeq(jes, 1, 0) = << >>
  OBVIOUS
<1>1. replayed[0] = m
  <2>1. 0 \in 0..Len(jes)
    BY <1>0
  <2>2. replayed[0] = ApplySeq(m, SubSeq(jes, 1, 0))
    BY <2>1
  <2> HIDE DEF replayed
  <2> QED
    BY <1>0, <2>2, ApplySeqEmpty, Zenon
<1>2. \A n \in 1..Len(jes) : replayed[n] = Apply(replayed[n - 1], jes[n])
  <2> TAKE n \in 1..Len(jes)
  <2>1. n \in 0..Len(jes) /\ n - 1 \in 0..Len(jes)
    BY <1>0
  <2>2. replayed[n] = ApplySeq(m, SubSeq(jes, 1, n))
    BY <2>1
  <2>3. replayed[n - 1] = ApplySeq(m, SubSeq(jes, 1, n - 1))
    BY <2>1
  <2> HIDE DEF replayed
  <2> QED
    BY <2>2, <2>3, ApplySeqStep
<1>3. Rec(replayed)
  <2>1. replayed = [n \in 0..Len(jes) |-> replayed[n]]
    OBVIOUS
  <2> HIDE DEF replayed
  <2>2. \A n \in 0..Len(jes) :
           replayed[n] = IF n = 0 THEN m ELSE Apply(replayed[n - 1], jes[n])
    BY <1>0, <1>1, <1>2
  <2> QED
    BY <2>1, <2>2
<1> HIDE DEF replayed
<1>4. Rec(upTo)
  BY <1>3
<1> HIDE DEF upTo
<1>5. /\ upTo[0] = m
      /\ \A n \in 1..Len(jes) : upTo[n] = Apply(upTo[n - 1], jes[n])
  BY <1>0, <1>4
<1> DEFINE S == {n \in Nat : n <= Len(jes) => upTo[n] = replayed[n]}
<1>6. 0 \in S
  BY <1>1, <1>5
<1>7. ASSUME NEW n \in Nat, n \in S PROVE n + 1 \in S
  <2> SUFFICES ASSUME n + 1 <= Len(jes) PROVE upTo[n + 1] = replayed[n + 1]
    OBVIOUS
  <2>1. n + 1 \in 1..Len(jes) /\ (n + 1) - 1 = n /\ upTo[n] = replayed[n]
    BY <1>0, <1>7
  <2> QED
    BY <1>2, <1>5, <2>1
<1> HIDE DEF S
<1>8. Nat \subseteq S
  BY <1>6, <1>7, SetInduction
<1>9. upTo[Len(jes)] = replayed[Len(jes)]
  BY <1>0, <1>8 DEF S
<1>10. replayed[Len(jes)] = ApplySeq(m, jes)
  <2>1. Len(jes) \in 0..Len(jes)
    BY <1>0
  <2>2. replayed[Len(jes)] = ApplySeq(m, SubSeq(jes, 1, Len(jes)))
    BY <2>1 DEF replayed
  <2>3. SubSeq(jes, 1, Len(jes)) = jes
    BY SubSeqFull
  <2> QED
    BY <2>2, <2>3, Zenon
<1>11. IApplySeq(m, jes) = upTo[Len(jes)]
  BY DEF IApplySeq, upTo
<1> QED
  BY <1>9, <1>10, <1>11

\* Concatenation of journals is associative.
LEMMA JournalConcatAssociative ==
    ASSUME NEW a \in Seq(JournalEntry), NEW b \in Seq(JournalEntry),
           NEW c \in Seq(JournalEntry)
    PROVE  (a \o b) \o c = a \o (b \o c)
  BY ConcatAssociative

\* A suffix splits a journal into what comes before it and itself.
LEMMA SuffixSplit ==
    ASSUME NEW E, NEW s \in Seq(E), NEW t \in Seq(E), IsSuffix(s, t)
    PROVE  SeqSub(s, t) \in Seq(E) /\ s = SeqSub(s, t) \o t
<1>1. /\ Len(t) <= Len(s) /\ Len(t) \in Nat /\ Len(s) \in Nat
      /\ SubSeq(s, Len(s) - Len(t) + 1, Len(s)) = t
  BY DEF IsSuffix
<1>2. SeqSub(s, t) \in Seq(E)
  BY <1>1, SubSeqProperties DEF SeqSub
<1>3. SubSeq(s, 1, Len(s) - Len(t)) \o SubSeq(s, Len(s) - Len(t) + 1, Len(s))
        = SubSeq(s, 1, Len(s))
  <2> DEFINE n == Len(s)
             k == Len(s) - Len(t)
  <2>1. 1 \in 1..Len(s) + 1 /\ k \in 1 - 1..Len(s) /\ n \in k..Len(s)
    BY <1>1
  <2> HIDE DEF n, k
  <2>2. SubSeq(s, 1, k) \o SubSeq(s, k + 1, n) = SubSeq(s, 1, n)
    BY <2>1, ConcatAdjacentSubSeq
  <2> QED
    BY <2>2 DEF n, k
<1> QED
  BY <1>1, <1>2, <1>3, SubSeqFull DEF SeqSub

\* The second part of a concatenation is a suffix, the first what it leaves.
LEMMA ConcatSuffix ==
    ASSUME NEW E, NEW u \in Seq(E), NEW t \in Seq(E)
    PROVE  IsSuffix(u \o t, t) /\ SeqSub(u \o t, t) = u
<1> DEFINE s == u \o t
<1>1. /\ s \in Seq(E) /\ Len(s) = Len(u) + Len(t) /\ Len(u) \in Nat /\ Len(t) \in Nat
      /\ \A i \in 1..Len(u) : s[i] = u[i]
      /\ \A i \in 1..Len(t) : s[Len(u) + i] = t[i]
  OBVIOUS
<1> HIDE DEF s
<1>2. SubSeq(s, Len(s) - Len(t) + 1, Len(s)) = t
  BY <1>1
<1>3. SubSeq(s, 1, Len(s) - Len(t)) = u
  BY <1>1
<1> QED
  BY <1>1, <1>2, <1>3 DEF IsSuffix, SeqSub, s

\* Advances, restated with the replayed part u named.
LEMMA AdvancesElim ==
    ASSUME NEW s \in State, NEW from \in Seq(JournalEntry),
           NEW t \in State, NEW to \in Seq(JournalEntry),
           Advances(s, from, t, to)
    PROVE  /\ SeqSub(from, to) \in Seq(JournalEntry)
           /\ from = SeqSub(from, to) \o to
           /\ t = ApplySeq(s, SeqSub(from, to))
  BY SuffixSplit DEF Advances

\* How to show that one state and journal advance to another.
LEMMA AdvancesIntro ==
    ASSUME NEW s \in State, NEW u \in Seq(JournalEntry), NEW to \in Seq(JournalEntry)
    PROVE  Advances(s, u \o to, ApplySeq(s, u), to)
  BY ConcatSuffix DEF Advances

\* With an empty replayed part: the same dictionary and the same journal.
LEMMA AdvancesRefl ==
    ASSUME NEW s \in State, NEW j \in Seq(JournalEntry)
    PROVE  Advances(s, j, s, j)
<1>1. << >> \in Seq(JournalEntry) /\ << >> \o j = j
  OBVIOUS
<1> QED
  BY <1>1, AdvancesIntro, ApplySeqEmpty

\* What remains to be replayed leads from both ends to the same dictionary.
LEMMA AdvancesSameEnd ==
    ASSUME NEW s \in State, NEW from \in Seq(JournalEntry),
           NEW t \in State, NEW to \in Seq(JournalEntry),
           Advances(s, from, t, to)
    PROVE  ApplySeq(s, from) = ApplySeq(t, to)
<1>1. PICK u \in Seq(JournalEntry) : from = u \o to /\ t = ApplySeq(s, u)
  BY AdvancesElim, SMTT(30)
<1> QED
  BY <1>1, ApplySeqAdditive

\* A user operation does to a dictionary what its journal entries do.
LEMMA MapStepIsApplySeq ==
    ASSUME NEW s \in State, NEW op \in MapOps(s)
    PROVE  /\ JournalEntriesForUIOp(op) \in Seq(JournalEntry)
           /\ MapStep(s, op) = ApplySeq(s, JournalEntriesForUIOp(op))
           /\ MapStep(s, op) \in State
<1>1. CASE op \in Write
  <2>1. PICK k \in Key, v \in Value : op = PutOp(k, v)
    BY <1>1 DEF Write
  <2>2. op.type = "PutOp" /\ op.key = k /\ op.value = v
    BY <2>1 DEF PutOp
  <2> DEFINE je == JournalInsert(k, v)
  <2>3. je \in JournalEntry /\ je.key = k /\ je.value = v
    BY DEF JournalEntry, JournalInsert
  <2>4. JournalEntriesForUIOp(op) = <<je>>
    BY <2>2 DEF JournalEntriesForUIOp
  <2>5. MapStep(s, op) = [s EXCEPT ![k] = v]
    BY <2>2 DEF MapStep
  <2> HIDE DEF je
  <2>6. <<je>> \in Seq(JournalEntry) /\ Len(<<je>>) = 1 /\ <<je>>[1] = je
    BY <2>3
  <2>7. EntriesFor(<<je>>, k) = {1}
    BY <2>3, <2>6 DEF EntriesFor
  <2>8. LastEntryFor(<<je>>, k) = 1
    BY <2>6, <2>7, LastEntryForIsLast
  <2>9. \A q \in Key : q # k => EntriesFor(<<je>>, q) = {}
    BY <2>3, <2>6 DEF EntriesFor
  <2>10. ApplySeq(s, <<je>>) = [s EXCEPT ![k] = v]
    BY <2>3, <2>6, <2>7, <2>8, <2>9 DEF ApplySeq, State
  <2> QED
    BY <2>4, <2>5, <2>6, <2>10, ApplySeqType
<1>2. CASE op \notin Write
  <2>1. op.type # "PutOp"
    BY <1>2 DEF MapOps, Query, Succ, GetOp, SuccOp, NoOp
  <2>2. JournalEntriesForUIOp(op) = << >> /\ MapStep(s, op) = s
    BY <2>1 DEF JournalEntriesForUIOp, MapStep
  <2> QED
    BY <2>2, ApplySeqEmpty
<1> QED
  BY <1>1, <1>2
=============================================================================
