--------------------------- MODULE FlowTable_proofs ---------------------------
(***************************************************************************)
(* Proofs about FlowTable, for any number of records, any times and any    *)
(* capacities: sorting and cutting a buffer after each arrival leaves it   *)
(* with the newest records, whatever the order of the arrivals; the rows   *)
(* that the table carries over come before them, and none comes twice.     *)
(***************************************************************************)
EXTENDS FlowTable, FiniteSetTheorems, SequenceTheorems, TLAPS

-----------------------------------------------------------------------------
(* The order of the records in a capture of kind c, when they got their     *)
(* Index from `order`: Before, without the state.                           *)

Precedes(c, f, g, order) ==
  \/ Time[f] < Time[g]
  \/ c # "Flow" /\ Time[f] = Time[g] /\ Index(f, order) < Index(g, order)

Sorted(c, s, order) == \A i, j \in DOMAIN s : i < j => ~Precedes(c, s[j], s[i], order)

\* The orders in which records may have been appended.
Orders == { order \in Seq(Flows) : IsInjective(order) }

\* The buffer L, of capacity k, holds the newest of the records put in it, sorted.
Keeps(c, L, put, k, order) ==
  /\ L \in Seq(Flows) /\ IsInjective(L) /\ Sorted(c, L, order)
  /\ ToSet(L) \subseteq put
  /\ Len(L) <= k
  /\ Len(L) < k => ToSet(L) = put
  /\ \A f \in put \ ToSet(L) : ~Precedes(c, L[1], f, order)

-----------------------------------------------------------------------------
(* Orders and indices.                                                      *)

\* A record that was appended has one index.
LEMMA IndexOf ==
  ASSUME NEW order \in Orders, NEW g \in ToSet(order)
  PROVE  Index(g, order) \in 1..Len(order) /\ order[Index(g, order)] = g
<1>1. \E i \in DOMAIN order : order[i] = g
  BY DEF ToSet
<1>2. Index(g, order) \in DOMAIN order /\ order[Index(g, order)] = g
  BY <1>1 DEF Index
<1> QED
  BY <1>2, LenProperties DEF Orders

\* Appending a record gives it an index and leaves the others theirs.
LEMMA OneMore ==
  ASSUME NEW order \in Orders, NEW f \in Flows \ ToSet(order)
  PROVE  /\ Append(order, f) \in Orders
         /\ ToSet(Append(order, f)) = ToSet(order) \cup {f}
         /\ \A g \in ToSet(order) : Index(g, Append(order, f)) = Index(g, order)
<1> DEFINE more == Append(order, f)
<1>1. /\ order \in Seq(Flows) /\ IsInjective(order)
      /\ Len(order) \in Nat /\ DOMAIN order = 1..Len(order)
  BY LenProperties DEF Orders
<1>2. /\ more \in Seq(Flows) /\ Len(more) = Len(order) + 1
      /\ \A i \in 1..Len(order) : more[i] = order[i]
      /\ more[Len(order) + 1] = f
  BY <1>1, AppendProperties
<1>3. DOMAIN more = 1..(Len(order) + 1)
  BY <1>2, LenProperties
<1>4. \A i \in 1..Len(order) : order[i] \in ToSet(order)
  BY <1>1 DEF ToSet
<1> HIDE DEF more
<1>5. IsInjective(more)
  <2> SUFFICES ASSUME NEW i \in DOMAIN more, NEW j \in DOMAIN more, more[i] = more[j]
               PROVE  i = j
    BY DEF IsInjective
  <2>1. i \in 1..Len(order) \/ i = Len(order) + 1
    BY <1>1, <1>3
  <2>2. j \in 1..Len(order) \/ j = Len(order) + 1
    BY <1>1, <1>3
  <2>3. CASE i \in 1..Len(order) /\ j \in 1..Len(order)
    BY <1>1, <1>2, <2>3 DEF IsInjective
  <2>4. CASE i \in 1..Len(order) /\ j = Len(order) + 1
    BY <1>2, <1>4, <2>4
  <2>5. CASE i = Len(order) + 1 /\ j \in 1..Len(order)
    BY <1>2, <1>4, <2>5
  <2> QED
    BY <2>1, <2>2, <2>3, <2>4, <2>5
<1>6. ToSet(more) = ToSet(order) \cup {f}
  <2>1. \A x \in ToSet(more) : x \in ToSet(order) \cup {f}
    <3> SUFFICES ASSUME NEW i \in DOMAIN more PROVE more[i] \in ToSet(order) \cup {f}
      BY DEF ToSet
    <3>1. i \in 1..Len(order) \/ i = Len(order) + 1
      BY <1>1, <1>3
    <3> QED
      BY <1>2, <1>4, <3>1
  <2>2. f \in ToSet(more)
    <3>1. Len(order) + 1 \in DOMAIN more
      BY <1>1, <1>3
    <3> QED
      BY <1>2, <3>1 DEF ToSet
  <2>3. \A x \in ToSet(order) : x \in ToSet(more)
    <3> SUFFICES ASSUME NEW i \in DOMAIN order PROVE order[i] \in ToSet(more)
      BY DEF ToSet
    <3>1. i \in DOMAIN more /\ more[i] = order[i]
      BY <1>1, <1>2, <1>3
    <3> QED
      BY <3>1 DEF ToSet
  <2> QED
    BY <2>1, <2>2, <2>3
<1>7. more \in Orders
  BY <1>2, <1>5 DEF Orders
<1>8. ASSUME NEW g \in ToSet(order)
      PROVE  Index(g, more) = Index(g, order)
  <2>1. /\ Index(g, more) \in DOMAIN more /\ more[Index(g, more)] = g
    BY <1>3, <1>6, <1>7, <1>2, IndexOf
  <2>2. /\ Index(g, order) \in 1..Len(order) /\ order[Index(g, order)] = g
    BY IndexOf
  <2>3. Index(g, order) \in DOMAIN more /\ more[Index(g, order)] = g
    BY <1>1, <1>2, <1>3, <2>2
  <2> QED
    BY <1>5, <2>1, <2>3 DEF IsInjective
<1> QED
  BY <1>6, <1>7, <1>8 DEF more

\* The order of the records that have an index does not change with the next one.
LEMMA OrderStays ==
  ASSUME NEW c, NEW order \in Orders, NEW f \in Flows \ ToSet(order),
         NEW g \in ToSet(order), NEW h \in ToSet(order)
  PROVE  Precedes(c, g, h, Append(order, f)) <=> Precedes(c, g, h, order)
BY OneMore DEF Precedes

\* A record precedes neither itself nor, when it does not precede one that does not
\* precede a third, the third.
LEMMA NotBefore ==
  ASSUME NEW c, NEW order \in Orders,
         NEW f \in ToSet(order), NEW g \in ToSet(order), NEW h \in ToSet(order)
  PROVE  /\ ~Precedes(c, f, f, order)
         /\ ~Precedes(c, f, g, order) /\ ~Precedes(c, g, h, order)
            => ~Precedes(c, f, h, order)
<1>1. f \in Flows /\ g \in Flows /\ h \in Flows
  <2>1. \A i \in DOMAIN order : order[i] \in Flows
    BY ElementOfSeq, LenProperties DEF Orders
  <2> QED
    BY <2>1 DEF ToSet
<1>2. Time[f] \in Nat /\ Time[g] \in Nat /\ Time[h] \in Nat
  BY <1>1, TableAssumption
<1>3. Index(f, order) \in Int /\ Index(g, order) \in Int /\ Index(h, order) \in Int
  BY IndexOf
<1> QED
  BY <1>2, <1>3 DEF Precedes

-----------------------------------------------------------------------------
(* Sequences without repetition.                                            *)

\* A sequence without repetition is as long as the set of its elements.
LEMMA ElementsCounted ==
  ASSUME NEW S, NEW s \in Seq(S), IsInjective(s)
  PROVE  IsFiniteSet(ToSet(s)) /\ Cardinality(ToSet(s)) = Len(s)
<1>1. Len(s) \in Nat /\ DOMAIN s = 1..Len(s) /\ s = [i \in 1..Len(s) |-> s[i]]
  BY LenProperties
<1>2. s \in [1..Len(s) -> ToSet(s)]
  BY <1>1 DEF ToSet
<1>3. s \in Injection(1..Len(s), ToSet(s))
  BY <1>1, <1>2 DEF Injection, IsInjective
<1>4. s \in Surjection(1..Len(s), ToSet(s))
  BY <1>1, <1>2 DEF Surjection, ToSet
<1>5. IsFiniteSet(1..Len(s)) /\ Cardinality(1..Len(s)) = Len(s)
  <2>1. /\ IsFiniteSet(1..Len(s))
        /\ Cardinality(1..Len(s)) = IF 1 > Len(s) THEN 0 ELSE Len(s) - 1 + 1
    <3>1. 1 \in Int /\ Len(s) \in Int
      BY <1>1
    <3> QED
      BY <3>1, FS_Interval
  <2> QED
    BY <1>1, <2>1
<1> QED
  BY <1>3, <1>4, <1>5, FS_Surjection

\* A way of listing a finite set lists every element once.
LEMMA Listing ==
  ASSUME NEW S \in SUBSET Flows, IsFiniteSet(S), NEW s \in SetToSeqs(S)
  PROVE  s \in Seq(Flows) /\ IsInjective(s) /\ Len(s) = Cardinality(S) /\ ToSet(s) = S
<1> DEFINE n == Cardinality(S)
<1>1. n \in Nat
  BY FS_CardinalityType
<1>2. s \in [1..n -> S] /\ \A i, j \in 1..n : i # j => s[i] # s[j]
  BY DEF SetToSeqs
<1> HIDE DEF n
<1>3. s \in Seq(S) /\ Len(s) = n /\ DOMAIN s = 1..n
  BY <1>1, <1>2
<1>4. s \in Seq(Flows)
  BY <1>1, <1>2
<1>5. IsInjective(s)
  BY <1>2, <1>3 DEF IsInjective
<1>6. ToSet(s) \in SUBSET S
  BY <1>2, <1>3 DEF ToSet
<1>7. Cardinality(ToSet(s)) = n
  BY <1>3, <1>5, ElementsCounted
<1>8. ToSet(s) = S
  BY <1>6, <1>7, FS_Subset DEF n
<1> QED
  BY <1>3, <1>4, <1>5, <1>8 DEF n

-----------------------------------------------------------------------------
(* One arrival.                                                             *)

\* Putting a record in a buffer, sorting it and cutting it leaves it with the newest
\* of the records put in it so far.
THEOREM TrimKeepsNewest ==
  ASSUME NEW c, NEW k \in Nat \ {0}, NEW order \in Orders, NEW f \in Flows \ ToSet(order),
         NEW put \in SUBSET ToSet(order), NEW L, Keeps(c, L, put, k, order),
         NEW s \in SetToSeqs(ToSet(L) \cup {f}), Sorted(c, s, Append(order, f))
  PROVE  Keeps(c, Trim(s, k), put \cup {f}, k, Append(order, f))
<1> DEFINE more == Append(order, f)
           S    == ToSet(L) \cup {f}
<1>1. /\ L \in Seq(Flows) /\ IsInjective(L) /\ Sorted(c, L, order) /\ ToSet(L) \subseteq put
      /\ Len(L) <= k
      /\ Len(L) < k => ToSet(L) = put
      /\ \A g \in put \ ToSet(L) : ~Precedes(c, L[1], g, order)
  BY DEF Keeps
<1>2. Len(L) \in Nat /\ DOMAIN L = 1..Len(L)
  BY <1>1, LenProperties
<1>3. ToSet(L) \subseteq ToSet(order) /\ f \notin ToSet(L) /\ f \notin put
  BY <1>1
<1>4. S \in SUBSET Flows
  <2>1. \A i \in 1..Len(L) : L[i] \in Flows
    BY <1>1, ElementOfSeq
  <2> QED
    BY <1>2, <2>1 DEF ToSet
<1>5. IsFiniteSet(S) /\ Cardinality(S) = Len(L) + 1
  <2>1. IsFiniteSet(ToSet(L)) /\ Cardinality(ToSet(L)) = Len(L)
    BY <1>1, ElementsCounted
  <2>2. /\ IsFiniteSet(S)
        /\ Cardinality(S) = IF f \in ToSet(L) THEN Cardinality(ToSet(L))
                            ELSE Cardinality(ToSet(L)) + 1
    BY <2>1, FS_AddElement
  <2> QED
    BY <1>3, <2>1, <2>2
<1>6. s \in Seq(Flows) /\ IsInjective(s) /\ Len(s) = Len(L) + 1 /\ ToSet(s) = S
  BY <1>4, <1>5, Listing
<1>7. DOMAIN s = 1..(Len(L) + 1)
  BY <1>6, LenProperties
<1>8. more \in Orders /\ ToSet(more) = ToSet(order) \cup {f}
  BY OneMore
<1>9. \A g, h \in ToSet(order) : Precedes(c, g, h, more) <=> Precedes(c, g, h, order)
  BY OrderStays
<1>10. S \subseteq ToSet(more) /\ put \subseteq ToSet(more)
  BY <1>3, <1>8
<1>11. \A i \in DOMAIN s : s[i] \in S
  BY <1>6 DEF ToSet
<1>12. Sorted(c, s, more)
  OBVIOUS
<1> HIDE DEF more, S
<1>13. CASE Len(s) <= k
  <2>1. Trim(s, k) = s
    BY <1>13 DEF Trim
  <2>2. ToSet(L) = put
    BY <1>1, <1>2, <1>6, <1>13
  <2>3. ToSet(s) = put \cup {f}
    BY <1>6, <2>2 DEF S
  <2> QED
    BY <1>6, <1>12, <1>13, <2>1, <2>3 DEF Keeps, more
<1>14. CASE Len(s) > k
  <2> DEFINE t == SubSeq(s, 2, k + 1)
  <2>1. Len(L) = k /\ Len(s) = k + 1
    <3>1. Len(L) <= k /\ Len(L) \in Nat /\ Len(s) = Len(L) + 1 /\ Len(s) > k
      BY <1>1, <1>2, <1>6, <1>14
    <3> QED
      BY <3>1
  <2>2. Trim(s, k) = t
    <3>1. ~(Len(s) <= k)
      BY <1>2, <1>6, <1>14
    <3>2. Len(s) - k + 1 = 2
      BY <2>1
    <3> QED
      BY <2>1, <3>1, <3>2 DEF Trim, KeepLast
  <2>3. t \in Seq(Flows) /\ Len(t) = k /\ \A i \in 1..k : t[i] = s[i + 1]
    <3>1. \A i \in 2..(k + 1) : s[i] \in Flows
      BY <1>6, <2>1, ElementOfSeq
    <3>2. 2 \in Int /\ k + 1 \in Int
      OBVIOUS
    <3>3. /\ t \in Seq(Flows) /\ Len(t) = IF 2 <= k + 1 THEN (k + 1) - 2 + 1 ELSE 0
          /\ \A i \in 1..((k + 1) - 2 + 1) : t[i] = s[2 + i - 1]
      BY <3>1, <3>2, SubSeqProperties
    <3>4. (k + 1) - 2 + 1 = k /\ 2 <= k + 1 /\ \A i \in 1..k : 2 + i - 1 = i + 1
      OBVIOUS
    <3> QED
      BY <3>3, <3>4
  <2>4. DOMAIN t = 1..k
    BY <2>3, LenProperties
  <2> HIDE DEF t
  <2>5. \A i \in 1..k : i + 1 \in DOMAIN s
    <3>1. DOMAIN s = 1..(k + 1)
      BY <1>7, <2>1
    <3> QED
      BY <3>1
  <2>6. IsInjective(t)
    <3> SUFFICES ASSUME NEW i \in 1..k, NEW j \in 1..k, t[i] = t[j] PROVE i = j
      BY <2>4 DEF IsInjective
    <3>1. i + 1 \in DOMAIN s /\ j + 1 \in DOMAIN s /\ s[i + 1] = s[j + 1]
      BY <2>3, <2>5
    <3>2. i + 1 = j + 1
      BY <1>6, <3>1 DEF IsInjective
    <3> QED
      BY <3>2
  <2>7. Sorted(c, t, more)
    BY <1>12, <2>3, <2>4, <2>5 DEF Sorted
  <2>8. 1 \in DOMAIN s /\ 2 \in DOMAIN s /\ t[1] = s[2]
    BY <1>7, <2>1, <2>3
  <2>9. S = ToSet(t) \cup {s[1]}
    <3>1. \A x \in S : x \in ToSet(t) \cup {s[1]}
      <4> SUFFICES ASSUME NEW i \in DOMAIN s PROVE s[i] \in ToSet(t) \cup {s[1]}
        BY <1>6 DEF ToSet
      <4>1. i = 1 \/ i - 1 \in 1..k
        BY <1>7, <2>1
      <4>2. CASE i - 1 \in 1..k
        <5>1. t[i - 1] = s[i]
          BY <1>7, <2>3, <4>2
        <5> QED
          BY <2>4, <4>2, <5>1 DEF ToSet
      <4> QED
        BY <4>1, <4>2
    <3>2. ToSet(t) \subseteq S
      BY <1>11, <2>3, <2>4, <2>5 DEF ToSet
    <3> QED
      BY <1>11, <2>8, <3>1, <3>2
  <2>10. ToSet(t) \subseteq put \cup {f}
    BY <1>1, <2>9 DEF S
  <2>11. ~Precedes(c, s[2], s[1], more)
    BY <1>12, <2>8 DEF Sorted
  <2>12. L[1] \in ToSet(L)
    BY <1>2, <2>1 DEF ToSet
  <2>13. \A x \in ToSet(L) : ~Precedes(c, x, L[1], more)
    <3> SUFFICES ASSUME NEW i \in DOMAIN L PROVE ~Precedes(c, L[i], L[1], more)
      BY DEF ToSet
    <3>1. L[i] \in ToSet(L)
      BY DEF ToSet
    <3>2. i = 1 \/ (1 \in DOMAIN L /\ 1 < i)
      BY <1>2, <2>1
    <3>3. CASE i = 1
      BY <1>8, <1>10, <3>1, <3>3, NotBefore DEF S
    <3>4. CASE 1 \in DOMAIN L /\ 1 < i
      BY <1>1, <1>3, <1>9, <2>12, <3>1, <3>4 DEF Sorted
    <3> QED
      BY <3>2, <3>3, <3>4
  <2>14. ~Precedes(c, s[2], L[1], more)
    <3>1. CASE s[2] \in ToSet(L)
      BY <2>13, <3>1
    <3>2. CASE s[2] = f
      <4>1. s[1] # s[2]
        BY <1>6, <2>8 DEF IsInjective
      <4>2. s[1] \in ToSet(L)
        BY <1>11, <2>8, <3>2, <4>1 DEF S
      <4>3. ~Precedes(c, s[1], L[1], more)
        BY <2>13, <4>2
      <4>4. s[1] \in ToSet(more) /\ s[2] \in ToSet(more) /\ L[1] \in ToSet(more)
        BY <1>10, <1>11, <2>8, <2>12 DEF S
      <4> QED
        BY <1>8, <2>11, <4>3, <4>4, NotBefore
    <3> QED
      BY <1>11, <2>8, <3>1, <3>2 DEF S
  <2>15. ASSUME NEW g \in (put \cup {f}) \ ToSet(t)
         PROVE  ~Precedes(c, t[1], g, more)
    <3>1. CASE g = s[1]
      BY <2>8, <2>11, <3>1
    <3>2. CASE g # s[1]
      <4>1. g \in put \ ToSet(L)
        BY <2>9, <2>15, <3>2 DEF S
      <4>2. ~Precedes(c, L[1], g, more)
        BY <1>1, <1>3, <1>9, <2>12, <4>1
      <4>3. s[2] \in ToSet(more) /\ L[1] \in ToSet(more) /\ g \in ToSet(more)
        BY <1>10, <1>11, <2>8, <2>12, <4>1 DEF S
      <4>4. ~Precedes(c, s[2], g, more)
        BY <1>8, <2>14, <4>2, <4>3, NotBefore
      <4> QED
        BY <2>8, <4>4
    <3> QED
      BY <3>1, <3>2
  <2> QED
    BY <2>2, <2>3, <2>6, <2>7, <2>10, <2>15 DEF Keeps, more
<1> QED
  <2>1. Len(s) \in Nat
    BY <1>2, <1>6
  <2> QED
    BY <1>13, <1>14, <2>1

\* Nothing changes for the other buffers.
LEMMA OthersKeep ==
  ASSUME NEW c, NEW k \in Nat \ {0}, NEW order \in Orders, NEW f \in Flows \ ToSet(order),
         NEW put \in SUBSET ToSet(order), NEW L, Keeps(c, L, put, k, order)
  PROVE  Keeps(c, L, put, k, Append(order, f))
<1>1. \A g, h \in ToSet(order) : Precedes(c, g, h, Append(order, f)) <=> Precedes(c, g, h, order)
  BY OrderStays
<1>2. /\ L \in Seq(Flows) /\ Sorted(c, L, order) /\ ToSet(L) \subseteq put
      /\ Len(L) < k => ToSet(L) = put
      /\ \A g \in put \ ToSet(L) : ~Precedes(c, L[1], g, order)
  BY DEF Keeps
<1>3. Len(L) \in Nat /\ DOMAIN L = 1..Len(L)
  BY <1>2, LenProperties
<1>4. \A i \in DOMAIN L : L[i] \in ToSet(order)
  BY <1>2 DEF ToSet
<1>5. Sorted(c, L, Append(order, f))
  BY <1>1, <1>2, <1>4 DEF Sorted
<1>6. ASSUME NEW g \in put \ ToSet(L)
      PROVE  ~Precedes(c, L[1], g, Append(order, f))
  <2>1. ~(Len(L) < k)
    BY <1>2
  <2>2. 1 \in DOMAIN L
    BY <1>3, <2>1
  <2> QED
    BY <1>1, <1>2, <1>4, <2>2
<1> QED
  BY <1>5, <1>6 DEF Keeps

-----------------------------------------------------------------------------
(* The table.                                                               *)

Put(b) == { f \in ToSet(appended) : BufferOf(f) = b }

\* Why NewestKept is inductive: every record has one Index, one that still arrives
\* has none, and each buffer is sorted as well as complete.
TableInv ==
  /\ appended \in Orders
  /\ arriving \subseteq Flows \ ToSet(appended)
  /\ last \in [DOMAIN KeepCount -> Seq(Flows)]
  /\ \A b \in DOMAIN KeepCount : Keeps(capture, last[b], Put(b), KeepCount[b], appended)

LEMMA Buffers ==
  /\ \A f \in Flows : BufferOf(f) \in DOMAIN KeepCount
  /\ \A b \in DOMAIN KeepCount : KeepCount[b] \in Nat \ {0}
<1>1. DOMAIN KeepCount = {"flows", "wire", "plaintext"}
  BY TableAssumption
<1>2. \A f \in Flows : Kind[f] \in {"wire", "plaintext", "bare"}
  BY TableAssumption
<1>3. \A b \in DOMAIN KeepCount : KeepCount[b] \in Nat \ {0}
  BY TableAssumption
<1> QED
  BY <1>1, <1>2, <1>3 DEF BufferOf

LEMMA TableInit == Init => TableInv
<1> SUFFICES ASSUME Init PROVE TableInv
  OBVIOUS
<1>1. appended = <<>> /\ arriving = {} /\ last = [b \in DOMAIN KeepCount |-> <<>>]
  BY DEF Init
<1>2. /\ <<>> \in Seq(Flows) /\ DOMAIN <<>> = {} /\ Len(<<>>) = 0
  BY EmptySeq
<1>3. ToSet(<<>>) = {} /\ IsInjective(<<>>)
  BY <1>2 DEF ToSet, IsInjective
<1>4. <<>> \in Orders
  BY <1>2, <1>3 DEF Orders
<1>5. last \in [DOMAIN KeepCount -> Seq(Flows)]
  BY <1>1, <1>2
<1>6. ASSUME NEW b \in DOMAIN KeepCount
      PROVE  Keeps(capture, last[b], Put(b), KeepCount[b], appended)
  <2>1. last[b] = <<>> /\ Put(b) = {}
    BY <1>1, <1>3 DEF Put
  <2>2. Sorted(capture, <<>>, appended)
    BY <1>2 DEF Sorted
  <2>3. KeepCount[b] \in Nat \ {0}
    BY Buffers
  <2> QED
    BY <1>2, <1>3, <2>1, <2>2, <2>3 DEF Keeps
<1> QED
  BY <1>1, <1>4, <1>5, <1>6 DEF TableInv

\* A step that leaves the buffers alone, and starts at most goroutines of records that
\* have no Index.
LEMMA TableStays ==
  ASSUME TableInv, UNCHANGED <<capture, buffer>>,
         arriving' \subseteq Flows \ ToSet(appended)
  PROVE  TableInv'
<1>1. capture' = capture /\ appended' = appended /\ last' = last
  BY DEF buffer
<1>2. \A b \in DOMAIN KeepCount : Put(b)' = Put(b)
  BY <1>1 DEF Put, BufferOf
<1> QED
  BY <1>1, <1>2 DEF TableInv

LEMMA AppendStep ==
  ASSUME TableInv, NEW f \in Flows, AppendFlow(f)
  PROVE  TableInv'
<1>1. /\ f \in arriving /\ arriving' = arriving \ {f} /\ capture' = capture
  BY DEF AppendFlow
<1>2. appended \in Orders /\ arriving \subseteq Flows \ ToSet(appended)
      /\ last \in [DOMAIN KeepCount -> Seq(Flows)]
  BY DEF TableInv
<1>3. CASE paused
  <2>1. UNCHANGED <<capture, buffer>>
    BY <1>1, <1>3 DEF AppendFlow
  <2> QED
    BY <1>1, <1>2, <2>1, TableStays
<1>4. CASE ~paused
  <2> DEFINE b == BufferOf(f)
  <2>1. b \in DOMAIN KeepCount
    BY Buffers
  <2>2. PICK s \in SetToSeqs(ToSet(last[b]) \cup {f}) :
          /\ appended' = Append(appended, f) /\ InOrder(s, appended')
          /\ last' = [last EXCEPT ![b] = Trim(s, KeepCount[b])]
    BY <1>4 DEF AppendFlow
  <2>3. Sorted(capture, s, Append(appended, f))
    BY <2>2 DEF Sorted, InOrder, Before, Precedes, IsPacket
  <2>4. f \in Flows \ ToSet(appended)
    BY <1>1, <1>2
  <2>5. /\ Append(appended, f) \in Orders
        /\ ToSet(Append(appended, f)) = ToSet(appended) \cup {f}
    BY <1>2, <2>4, OneMore
  <2>6. \A d \in DOMAIN KeepCount :
          /\ Put(d) \in SUBSET ToSet(appended)
          /\ Put(d)' = IF d = b THEN Put(d) \cup {f} ELSE Put(d)
    <3> SUFFICES ASSUME NEW d \in DOMAIN KeepCount
                 PROVE  /\ Put(d) \in SUBSET ToSet(appended)
                        /\ Put(d)' = IF d = b THEN Put(d) \cup {f} ELSE Put(d)
      OBVIOUS
    <3>1. Put(d)' = { g \in ToSet(appended) \cup {f} : BufferOf(g) = d }
      BY <1>1, <2>2, <2>5 DEF Put, BufferOf
    <3> HIDE DEF b
    <3>2. BufferOf(f) = b
      BY DEF b
    <3> QED
      BY <3>1, <3>2 DEF Put
  <2> HIDE DEF b
  <2>7. ASSUME NEW d \in DOMAIN KeepCount
        PROVE  Keeps(capture, last'[d], Put(d)', KeepCount[d], Append(appended, f))
    <3>1. /\ Keeps(capture, last[d], Put(d), KeepCount[d], appended)
          /\ KeepCount[d] \in Nat \ {0}
      BY Buffers DEF TableInv
    <3>2. CASE d = b
      <4>1. last'[d] = Trim(s, KeepCount[d]) /\ Put(d)' = Put(d) \cup {f}
        BY <1>2, <2>2, <2>6, <3>2
      <4>2. Keeps(capture, Trim(s, KeepCount[d]), Put(d) \cup {f}, KeepCount[d],
                  Append(appended, f))
        BY <1>2, <2>2, <2>3, <2>4, <2>6, <3>1, <3>2, TrimKeepsNewest
      <4> QED
        BY <4>1, <4>2
    <3>3. CASE d # b
      <4>1. last'[d] = last[d] /\ Put(d)' = Put(d)
        BY <1>2, <2>2, <2>6, <3>3
      <4>2. Keeps(capture, last[d], Put(d), KeepCount[d], Append(appended, f))
        BY <1>2, <2>4, <2>6, <3>1, OthersKeep
      <4> QED
        BY <4>1, <4>2
    <3> QED
      BY <3>2, <3>3
  <2>8. last' \in [DOMAIN KeepCount -> Seq(Flows)]
    <3>1. last' = [d \in DOMAIN KeepCount |-> last'[d]]
      BY <1>2, <2>2
    <3>2. \A d \in DOMAIN KeepCount : last'[d] \in Seq(Flows)
      BY <2>7 DEF Keeps
    <3> QED
      BY <3>1, <3>2
  <2>9. arriving' \subseteq Flows \ ToSet(appended')
    BY <1>1, <1>2, <2>2, <2>5
  <2> QED
    BY <1>1, <2>2, <2>5, <2>7, <2>8, <2>9 DEF TableInv
<1> QED
  BY <1>3, <1>4

LEMMA TableStep == TableInv /\ [Next]_vars => TableInv'
<1> SUFFICES ASSUME TableInv, [Next]_vars PROVE TableInv'
  OBVIOUS
<1>1. arriving \subseteq Flows \ ToSet(appended)
  BY DEF TableInv
<1>2. ASSUME NEW f \in Flows, Receive(f) PROVE TableInv'
  <2>1. UNCHANGED <<capture, buffer>> /\ f \notin ToSet(appended) /\ arriving' = arriving \cup {f}
    BY <1>2 DEF Receive
  <2> QED
    BY <1>1, <2>1, TableStays
<1>3. ASSUME NEW f \in Flows, AppendFlow(f) PROVE TableInv'
  BY <1>3, AppendStep
<1>4. CASE Heartbeat
  <2>1. UNCHANGED <<capture, arriving, buffer>>
    BY <1>4 DEF Heartbeat, TakeSnapshot, Refresh
  <2> QED
    BY <1>1, <2>1, TableStays
<1>5. CASE User
  <2>1. UNCHANGED <<capture, arriving, buffer>>
    BY <1>5 DEF User, Pause, ResetSelection, ReadRow, Panic, ShowLess, ShowMore, SelectRow,
                AddRegex, RemoveRegex
  <2> QED
    BY <1>1, <2>1, TableStays
<1>6. CASE UNCHANGED vars
  <2>1. UNCHANGED <<capture, arriving, buffer>>
    BY <1>6 DEF vars
  <2> QED
    BY <1>1, <2>1, TableStays
<1> QED
  BY <1>2, <1>3, <1>4, <1>5, <1>6 DEF Next, Collector

\* The buffers hold the newest of the records that arrived, as many as they keep.
THEOREM BuffersInvariance == Spec => []NewestKept
<1>1. TableInv => NewestKept
  <2> SUFFICES ASSUME TableInv, NEW b \in DOMAIN KeepCount
               PROVE  /\ Len(last[b]) = Min({Cardinality(Put(b)), KeepCount[b]})
                      /\ \A f \in Put(b) \ ToSet(last[b]) : ~Before(last[b][1], f, appended)
    BY DEF NewestKept, Put
  <2> DEFINE L == last[b]
             k == KeepCount[b]
             n == Cardinality(Put(b))
  <2>1. Keeps(capture, L, Put(b), k, appended) /\ k \in Nat
    BY Buffers DEF TableInv
  <2>2. /\ L \in Seq(Flows) /\ IsInjective(L) /\ ToSet(L) \subseteq Put(b) /\ Len(L) <= k
        /\ Len(L) < k => ToSet(L) = Put(b)
        /\ \A f \in Put(b) \ ToSet(L) : ~Precedes(capture, L[1], f, appended)
    BY <2>1 DEF Keeps
  <2>3. Len(L) \in Nat /\ Cardinality(ToSet(L)) = Len(L)
    BY <2>2, LenProperties, ElementsCounted
  <2>4. IsFiniteSet(Put(b))
    <3>1. IsFiniteSet(ToSet(appended))
      BY ElementsCounted DEF TableInv, Orders
    <3>2. Put(b) \in SUBSET ToSet(appended)
      BY DEF Put
    <3> QED
      BY <3>1, <3>2, FS_Subset
  <2>5. n \in Nat /\ Len(L) <= n
    <3>1. n \in Nat
      BY <2>4, FS_CardinalityType
    <3>2. ToSet(L) \in SUBSET Put(b)
      BY <2>2
    <3>3. Cardinality(ToSet(L)) <= n
      BY <2>4, <3>2, FS_Subset
    <3> QED
      BY <2>3, <3>1, <3>3
  <2>6. Len(L) < k => n = Len(L)
    BY <2>2, <2>3
  <2> HIDE DEF L, k, n
  <2>7. Len(L) \in {n, k} /\ \A x \in {n, k} : Len(L) <= x
    BY <2>1, <2>2, <2>3, <2>5, <2>6
  <2>8. Min({n, k}) = Len(L)
    <3>1. /\ Min({n, k}) \in {n, k} /\ \A x \in {n, k} : Min({n, k}) <= x
      BY <2>7 DEF Min
    <3> QED
      BY <2>1, <2>3, <2>5, <2>7, <3>1
  <2>9. \A f \in Put(b) \ ToSet(L) : ~Before(L[1], f, appended)
    BY <2>2 DEF Before, Precedes, IsPacket
  <2> QED
    BY <2>8, <2>9 DEF L, k, n
<1> QED
  BY <1>1, TableInit, TableStep, PTL DEF Spec

-----------------------------------------------------------------------------
(* Selections.                                                              *)

\* t is a selection from s that keeps the order.
Embeds(t, s) ==
  \E p \in [DOMAIN t -> DOMAIN s] : Ascending(p) /\ \A i \in DOMAIN t : t[i] = s[p[i]]

\* Such a selection repeats nothing, and is sorted, if s is.
LEMMA EmbeddedKeeps ==
  ASSUME NEW c, NEW order, NEW s \in Seq(Flows), IsInjective(s), Sorted(c, s, order),
         NEW t \in Seq(Flows), Embeds(t, s)
  PROVE  IsInjective(t) /\ Sorted(c, t, order) /\ ToSet(t) \subseteq ToSet(s)
<1>1. PICK p \in [DOMAIN t -> DOMAIN s] :
        Ascending(p) /\ \A i \in DOMAIN t : t[i] = s[p[i]]
  BY DEF Embeds
<1>2. /\ DOMAIN t = 1..Len(t) /\ Len(t) \in Nat
      /\ DOMAIN s = 1..Len(s) /\ Len(s) \in Nat
  BY LenProperties
<1>3. \A i, j \in DOMAIN t : i < j => p[i] < p[j]
  BY <1>1 DEF Ascending
<1>4. \A i \in DOMAIN t : p[i] \in DOMAIN s
  BY <1>1
<1>5. IsInjective(t)
  <2> SUFFICES ASSUME NEW i \in DOMAIN t, NEW j \in DOMAIN t, t[i] = t[j] PROVE i = j
    BY DEF IsInjective
  <2>1. p[i] = p[j]
    BY <1>1, <1>4 DEF IsInjective
  <2>2. i \in Int /\ j \in Int /\ p[i] \in Int /\ p[j] \in Int
    BY <1>2, <1>4
  <2>3. ~(i < j) /\ ~(j < i)
    BY <1>3, <2>1, <2>2
  <2> QED
    BY <2>2, <2>3
<1>6. Sorted(c, t, order)
  BY <1>1, <1>3, <1>4 DEF Sorted
<1>7. ToSet(t) \subseteq ToSet(s)
  BY <1>1, <1>4 DEF ToSet
<1> QED
  BY <1>5, <1>6, <1>7

\* What a filtering loop leaves is a selection.
LEMMA SelectionEmbeds ==
  ASSUME NEW s \in Seq(Flows), NEW T, NEW t \in Selection(s, T)
  PROVE  t \in Seq(Flows) /\ Embeds(t, s) /\ ToSet(t) = ToSet(s) \cap T
<1> DEFINE S == { i \in DOMAIN s : s[i] \in T }
           n == Cardinality(S)
<1>1. PICK p \in SetToSeqs(S) : Ascending(p) /\ t = [i \in DOMAIN p |-> s[p[i]]]
  BY DEF Selection
<1>2. DOMAIN s = 1..Len(s) /\ Len(s) \in Nat /\ \A i \in DOMAIN s : s[i] \in Flows
  BY LenProperties, ElementOfSeq
<1>3. IsFiniteSet(S)
  <2>1. IsFiniteSet(1..Len(s))
    <3>1. 1 \in Int /\ Len(s) \in Int
      BY <1>2
    <3> QED
      BY <3>1, FS_Interval
  <2>2. S \in SUBSET (1..Len(s))
    BY <1>2
  <2> QED
    BY <2>1, <2>2, FS_Subset
<1>4. n \in Nat
  BY <1>3, FS_CardinalityType
<1>5. p \in [1..n -> S]
  BY <1>1 DEF SetToSeqs
<1>6. \A i \in S : \E j \in 1..n : p[j] = i
  <2>1. p \in [1..n -> S] /\ \A i, j \in 1..n : i # j => p[i] # p[j]
    BY <1>1 DEF SetToSeqs
  <2>2. p \in Injection(1..n, S)
    BY <2>1 DEF Injection, IsInjective
  <2>3. Cardinality(1..n) = n
    <3>1. 1 \in Int /\ n \in Int
      BY <1>4
    <3>2. Cardinality(1..n) = IF 1 > n THEN 0 ELSE n - 1 + 1
      BY <3>1, FS_Interval
    <3> HIDE DEF n
    <3> QED
      BY <1>4, <3>2
  <2>4. p \in Surjection(1..n, S)
    BY <1>3, <2>2, <2>3, FS_Injection
  <2> QED
    BY <2>4 DEF Surjection
<1> HIDE DEF n
<1>7. DOMAIN p = 1..n /\ DOMAIN t = 1..n /\ \A i \in 1..n : p[i] \in S /\ t[i] = s[p[i]]
  BY <1>1, <1>5
<1>8. t \in Seq(Flows)
  <2>1. t = [i \in 1..n |-> s[p[i]]] /\ \A i \in 1..n : s[p[i]] \in Flows
    BY <1>1, <1>2, <1>5
  <2> QED
    BY <1>4, <2>1
<1>9. Embeds(t, s)
  <2>1. p \in [DOMAIN t -> DOMAIN s]
    BY <1>5, <1>7
  <2> QED
    BY <1>1, <1>7, <2>1 DEF Embeds
<1>10. ToSet(t) = ToSet(s) \cap T
  <2>1. \A i \in DOMAIN t : t[i] \in ToSet(s) \cap T
    BY <1>7 DEF ToSet
  <2>2. \A i \in DOMAIN s : s[i] \in T => s[i] \in ToSet(t)
    <3> SUFFICES ASSUME NEW i \in DOMAIN s, s[i] \in T PROVE s[i] \in ToSet(t)
      OBVIOUS
    <3>1. PICK j \in 1..n : p[j] = i
      BY <1>6
    <3> QED
      BY <1>7, <3>1 DEF ToSet
  <2> HIDE DEF S
  <2> QED
    BY <2>1, <2>2 DEF ToSet
<1> QED
  BY <1>8, <1>9, <1>10

\* How long a cut leaves it.
LEMMA CutLength ==
  ASSUME NEW m \in Nat, NEW e \in Nat, NEW j \in Nat, e + j = m
  PROVE  m - (e + 1) + 1 = j /\ (e + 1 <= m \/ j = 0)
OBVIOUS

\* So is what a cut leaves.
LEMMA TrimEmbeds ==
  ASSUME NEW s \in Seq(Flows), NEW k \in Nat
  PROVE  Trim(s, k) \in Seq(Flows) /\ Embeds(Trim(s, k), s)
<1>1. DOMAIN s = 1..Len(s) /\ Len(s) \in Nat /\ \A i \in 1..Len(s) : s[i] \in Flows
  BY LenProperties, ElementOfSeq
<1>2. CASE Len(s) <= k
  <2>1. Trim(s, k) = s
    BY <1>2 DEF Trim
  <2> DEFINE p == [i \in DOMAIN s |-> i]
  <2>2. p \in [DOMAIN s -> DOMAIN s] /\ Ascending(p) /\ \A i \in DOMAIN s : s[i] = s[p[i]]
    BY <1>1 DEF Ascending
  <2>3. Embeds(s, s)
    BY <2>2 DEF Embeds
  <2> QED
    BY <2>1, <2>3
<1>3. CASE ~(Len(s) <= k)
  <2> DEFINE d == Len(s) - k
             t == SubSeq(s, d + 1, Len(s))
             p == [i \in DOMAIN t |-> i + d]
  <2>1. d \in Nat /\ d + k = Len(s) /\ Len(s) - d = k
    BY <1>1, <1>3
  <2>2. Trim(s, k) = t
    BY <1>3 DEF Trim, KeepLast
  <2> HIDE DEF d
  <2>3. t \in Seq(Flows) /\ Len(t) = k /\ \A i \in 1..k : t[i] = s[i + d]
    <3>1. \A i \in (d + 1)..Len(s) : s[i] \in Flows
      BY <1>1, <2>1
    <3>2. d + 1 \in Int /\ Len(s) \in Int
      BY <1>1, <2>1
    <3>3. /\ t \in Seq(Flows)
          /\ Len(t) = IF d + 1 <= Len(s) THEN Len(s) - (d + 1) + 1 ELSE 0
          /\ \A i \in 1..(Len(s) - (d + 1) + 1) : t[i] = s[(d + 1) + i - 1]
      BY <3>1, <3>2, SubSeqProperties
    <3> HIDE DEF t
    <3>4. Len(s) - (d + 1) + 1 = k /\ (d + 1 <= Len(s) \/ k = 0)
      <4> DEFINE m == Len(s)
      <4>1. m \in Nat /\ d \in Nat /\ d + k = m
        BY <1>1, <2>1
      <4> HIDE DEF m
      <4>2. m - (d + 1) + 1 = k /\ (d + 1 <= m \/ k = 0)
        BY <4>1, CutLength
      <4> QED
        BY <4>2 DEF m
    <3>5. \A i \in 1..k : (d + 1) + i - 1 = i + d
      BY <2>1
    <3>6. Len(t) = k
      BY <2>1, <3>3, <3>4
    <3> QED
      BY <3>3, <3>4, <3>5, <3>6
  <2>4. DOMAIN t = 1..k
    BY <2>3, LenProperties
  <2> HIDE DEF t
  <2>5. \A i \in 1..k : i + d \in DOMAIN s
    BY <1>1, <2>1
  <2>6. p \in [DOMAIN t -> DOMAIN s] /\ \A i \in DOMAIN t : t[i] = s[p[i]]
    BY <2>3, <2>4, <2>5
  <2>7. Ascending(p)
    BY <2>1, <2>4 DEF Ascending
  <2>8. Embeds(t, s)
    BY <2>6, <2>7 DEF Embeds
  <2> QED
    BY <2>2, <2>3, <2>8
<1> QED
  BY <1>2, <1>3

-----------------------------------------------------------------------------
(* The rows.                                                                *)

\* Some of the records that were appended, once each and sorted.
RowsOK(c, s, order) ==
  s \in Seq(Flows) /\ IsInjective(s) /\ Sorted(c, s, order) /\ ToSet(s) \subseteq ToSet(order)

\* A selection of rows are rows.
LEMMA SomeRows ==
  ASSUME NEW c, NEW order, NEW s, RowsOK(c, s, order), NEW t \in Seq(Flows), Embeds(t, s)
  PROVE  RowsOK(c, t, order)
BY EmbeddedKeeps DEF RowsOK

\* Rows stay rows when a record is appended.
LEMMA RowsStay ==
  ASSUME NEW c, NEW order \in Orders, NEW f \in Flows \ ToSet(order),
         NEW s, RowsOK(c, s, order)
  PROVE  RowsOK(c, s, Append(order, f))
<1>1. \A g, h \in ToSet(order) : Precedes(c, g, h, Append(order, f)) <=> Precedes(c, g, h, order)
  BY OrderStays
<1>2. \A i \in DOMAIN s : s[i] \in ToSet(order)
  BY DEF RowsOK, ToSet
<1>3. Sorted(c, s, Append(order, f))
  BY <1>1, <1>2 DEF RowsOK, Sorted
<1>4. ToSet(s) \subseteq ToSet(Append(order, f))
  BY OneMore DEF RowsOK
<1> QED
  BY <1>3, <1>4 DEF RowsOK

\* Rows followed by others that precede none of them are rows.
LEMMA JoinedRows ==
  ASSUME NEW c, NEW order, NEW a, RowsOK(c, a, order), NEW b, RowsOK(c, b, order),
         ToSet(a) \cap ToSet(b) = {},
         \A x \in ToSet(a), y \in ToSet(b) : ~Precedes(c, y, x, order)
  PROVE  RowsOK(c, a \o b, order)
<1> DEFINE ab == a \o b
           m  == Len(a)
           n  == Len(b)
<1>1. /\ a \in Seq(Flows) /\ b \in Seq(Flows) /\ IsInjective(a) /\ IsInjective(b)
      /\ Sorted(c, a, order) /\ Sorted(c, b, order)
      /\ ToSet(a) \subseteq ToSet(order) /\ ToSet(b) \subseteq ToSet(order)
  BY DEF RowsOK
<1>2. m \in Nat /\ n \in Nat /\ DOMAIN a = 1..m /\ DOMAIN b = 1..n
  BY <1>1, LenProperties
<1>3. /\ ab \in Seq(Flows) /\ Len(ab) = m + n
      /\ \A i \in 1..(m + n) : ab[i] = IF i <= m THEN a[i] ELSE b[i - m]
  BY <1>1, ConcatProperties
<1>4. DOMAIN ab = 1..(m + n)
  BY <1>3, LenProperties
<1> HIDE DEF ab, m, n
<1>5. \A i \in 1..(m + n) : i \in 1..m \/ (i > m /\ i - m \in 1..n)
  BY <1>2
<1>6. \A i \in 1..m : ab[i] = a[i] /\ ab[i] \in ToSet(a)
  <2> SUFFICES ASSUME NEW i \in 1..m PROVE ab[i] = a[i] /\ ab[i] \in ToSet(a)
    OBVIOUS
  <2>1. i \in 1..(m + n) /\ i <= m
    BY <1>2
  <2> QED
    BY <1>2, <1>3, <2>1 DEF ToSet
<1>7. \A i \in 1..(m + n) : i > m /\ i - m \in 1..n => ab[i] = b[i - m] /\ ab[i] \in ToSet(b)
  <2> SUFFICES ASSUME NEW i \in 1..(m + n), i > m, i - m \in 1..n
               PROVE  ab[i] = b[i - m] /\ ab[i] \in ToSet(b)
    OBVIOUS
  <2>1. ~(i <= m)
    BY <1>2
  <2> QED
    BY <1>2, <1>3, <2>1 DEF ToSet
<1>8. IsInjective(ab)
  <2> SUFFICES ASSUME NEW i \in 1..(m + n), NEW j \in 1..(m + n), ab[i] = ab[j] PROVE i = j
    BY <1>4 DEF IsInjective
  <2>1. CASE i \in 1..m /\ j \in 1..m
    BY <1>1, <1>2, <1>6, <2>1 DEF IsInjective
  <2>2. CASE i > m /\ i - m \in 1..n /\ j > m /\ j - m \in 1..n
    <3>1. i - m = j - m
      BY <1>1, <1>2, <1>7, <2>2 DEF IsInjective
    <3> QED
      BY <1>2, <3>1
  <2>3. CASE i \in 1..m /\ j > m /\ j - m \in 1..n
    BY <1>6, <1>7, <2>3
  <2>4. CASE j \in 1..m /\ i > m /\ i - m \in 1..n
    BY <1>6, <1>7, <2>4
  <2> QED
    BY <1>5, <2>1, <2>2, <2>3, <2>4
<1>9. Sorted(c, ab, order)
  <2> SUFFICES ASSUME NEW i \in 1..(m + n), NEW j \in 1..(m + n), i < j
               PROVE  ~Precedes(c, ab[j], ab[i], order)
    BY <1>4 DEF Sorted
  <2>1. CASE i \in 1..m /\ j \in 1..m
    BY <1>1, <1>2, <1>6, <2>1 DEF Sorted
  <2>2. CASE i > m /\ i - m \in 1..n /\ j > m /\ j - m \in 1..n
    <3>1. i - m < j - m
      BY <1>2
    <3> QED
      BY <1>1, <1>2, <1>7, <2>2, <3>1 DEF Sorted
  <2>3. CASE i \in 1..m /\ j > m /\ j - m \in 1..n
    BY <1>6, <1>7, <2>3
  <2>4. CASE j \in 1..m /\ i > m
    BY <1>2, <2>4
  <2> QED
    BY <1>5, <2>1, <2>2, <2>3, <2>4
<1>10. ToSet(ab) \subseteq ToSet(order)
  <2>1. \A i \in 1..(m + n) : ab[i] \in ToSet(a) \cup ToSet(b)
    BY <1>5, <1>6, <1>7
  <2>2. ToSet(ab) = { ab[i] : i \in 1..(m + n) }
    BY <1>4 DEF ToSet
  <2> QED
    BY <1>1, <2>1, <2>2
<1> QED
  BY <1>3, <1>8, <1>9, <1>10 DEF RowsOK, ab

\* Why RowsOnce and RowsInOrder are inductive: a row that is not in the heartbeat's copy
\* of the buffer was cut from the buffer, so nothing in the copy precedes it.
RowsInv ==
  /\ capture \in {"Flow", "Packet", "TLS"} /\ showCount \in MinShow..MaxShow
  /\ RowsOK(capture, flows, appended) /\ RowsOK(capture, snapshot, appended)
  /\ heartbeat = "refreshing" /\ capture = "Flow" =>
       \A f \in ToSet(flows) \ ToSet(snapshot), g \in ToSet(snapshot) :
         ~Precedes(capture, g, f, appended)

LEMMA NoRows == \A c, order : RowsOK(c, <<>>, order)
<1>1. <<>> \in Seq(Flows) /\ DOMAIN <<>> = {}
  BY EmptySeq
<1>2. ToSet(<<>>) = {} /\ IsInjective(<<>>)
  BY <1>1 DEF ToSet, IsInjective
<1>3. \A c, order : Sorted(c, <<>>, order)
  BY <1>1 DEF Sorted
<1> QED
  BY <1>1, <1>2, <1>3 DEF RowsOK

LEMMA RowsInit == Init => RowsInv
BY NoRows DEF Init, RowsInv

\* A step that changes neither the buffers nor the rows.
LEMMA RowsUntouched ==
  ASSUME RowsInv, UNCHANGED <<capture, appended, table>>, showCount' \in MinShow..MaxShow
  PROVE  RowsInv'
BY DEF RowsInv, table

LEMMA RowsAppend ==
  ASSUME TableInv, RowsInv, NEW f \in Flows, AppendFlow(f)
  PROVE  RowsInv'
<1>1. UNCHANGED <<capture, table, showCount>>
  BY DEF AppendFlow, controls
<1>2. CASE paused
  <2>1. appended' = appended
    BY <1>2 DEF AppendFlow, buffer
  <2> QED
    BY <1>1, <2>1, RowsUntouched DEF RowsInv
<1>3. CASE ~paused
  <2>1. appended' = Append(appended, f)
    BY <1>3 DEF AppendFlow
  <2>2. appended \in Orders /\ f \in Flows \ ToSet(appended)
    BY DEF TableInv, AppendFlow
  <2>3. /\ RowsOK(capture, flows, Append(appended, f))
        /\ RowsOK(capture, snapshot, Append(appended, f))
    BY <2>2, RowsStay DEF RowsInv
  <2>4. ASSUME heartbeat = "refreshing", capture = "Flow",
               NEW r \in ToSet(flows) \ ToSet(snapshot), NEW g \in ToSet(snapshot)
        PROVE  ~Precedes(capture, g, r, Append(appended, f))
    <3>1. ~Precedes(capture, g, r, appended)
      BY <2>4 DEF RowsInv
    <3>2. r \in ToSet(appended) /\ g \in ToSet(appended)
      BY DEF RowsInv, RowsOK
    <3> QED
      BY <2>2, <3>1, <3>2, OrderStays
  <2> QED
    BY <1>1, <2>1, <2>3, <2>4 DEF RowsInv, table
<1> QED
  BY <1>2, <1>3

\* Every buffer holds rows.
LEMMA BufferRows ==
  ASSUME TableInv, NEW b \in DOMAIN KeepCount
  PROVE  RowsOK(capture, last[b], appended)
<1>1. Keeps(capture, last[b], Put(b), KeepCount[b], appended)
  BY DEF TableInv
<1>2. Put(b) \subseteq ToSet(appended)
  BY DEF Put
<1> QED
  BY <1>1, <1>2 DEF Keeps, RowsOK

\* So does the heartbeat's copy of them.
LEMMA SnapshotRows ==
  ASSUME TableInv, NEW s \in packetCaptureFlowSnapshot
  PROVE  RowsOK(capture, s, appended)
<1>1. {"flows", "wire", "plaintext"} = DOMAIN KeepCount
  BY TableAssumption
<1>2. CASE capture # "TLS"
  <2>1. s = last["flows"]
    BY <1>2 DEF packetCaptureFlowSnapshot
  <2> QED
    BY <1>1, <2>1, BufferRows
<1>3. CASE capture = "TLS"
  <2> DEFINE W == ToSet(last["wire"])
             P == ToSet(last["plaintext"])
  <2>1. s \in SetToSeqs(W \cup P) /\ InOrder(s, appended)
    BY <1>3 DEF packetCaptureFlowSnapshot
  <2>2. /\ RowsOK(capture, last["wire"], appended)
        /\ RowsOK(capture, last["plaintext"], appended)
    BY <1>1, BufferRows
  <2>3. IsFiniteSet(W) /\ IsFiniteSet(P)
    BY <2>2, ElementsCounted DEF RowsOK
  <2>4. W \cup P \subseteq ToSet(appended)
    BY <2>2 DEF RowsOK
  <2>5. ToSet(appended) \subseteq Flows
    <3>1. \A i \in DOMAIN appended : appended[i] \in Flows
      BY ElementOfSeq, LenProperties DEF TableInv, Orders
    <3> QED
      BY <3>1 DEF ToSet
  <2> HIDE DEF W, P
  <2>6. IsFiniteSet(W \cup P)
    BY <2>3, FS_Union
  <2>7. s \in Seq(Flows) /\ IsInjective(s) /\ ToSet(s) = W \cup P
    BY <2>1, <2>4, <2>5, <2>6, Listing
  <2>8. Sorted(capture, s, appended)
    BY <2>1 DEF Sorted, InOrder, Before, Precedes, IsPacket
  <2> QED
    BY <2>4, <2>7, <2>8 DEF RowsOK
<1> QED
  BY <1>2, <1>3

\* The heartbeat copies the buffers: a flow with a row that is not in the copy was cut.
LEMMA RowsSnapshot ==
  ASSUME TableInv, RowsInv, TakeSnapshot
  PROVE  RowsInv'
<1>1. /\ UNCHANGED <<capture, appended, flows, showCount>>
      /\ snapshot' \in packetCaptureFlowSnapshot
  BY DEF TakeSnapshot, buffer, controls
<1>2. RowsOK(capture, snapshot', appended)
  BY <1>1, SnapshotRows
<1>3. ASSUME capture = "Flow",
             NEW f \in ToSet(flows) \ ToSet(snapshot'), NEW g \in ToSet(snapshot')
      PROVE  ~Precedes(capture, g, f, appended)
  <2> DEFINE L == last["flows"]
  <2>1. snapshot' = L
    BY <1>1, <1>3 DEF packetCaptureFlowSnapshot
  <2>2. "flows" \in DOMAIN KeepCount
    BY TableAssumption
  <2>3. Keeps(capture, L, Put("flows"), KeepCount["flows"], appended)
    BY <2>2 DEF TableInv
  <2>4. f \in ToSet(appended)
    BY DEF RowsInv, RowsOK
  <2>5. f \in Put("flows") \ ToSet(L)
    BY <1>3, <2>1, <2>4 DEF Put, BufferOf
  <2>6. ~Precedes(capture, L[1], f, appended) /\ L \in Seq(Flows) /\ Sorted(capture, L, appended)
    BY <2>3, <2>5 DEF Keeps
  <2>7. DOMAIN L = 1..Len(L) /\ Len(L) \in Nat
    BY <2>6, LenProperties
  <2>8. ToSet(L) \subseteq ToSet(appended)
    BY <1>2, <2>1 DEF RowsOK
  <2>9. g \in ToSet(L)
    BY <2>1
  <2>10. appended \in Orders
    BY DEF TableInv
  <2> HIDE DEF L
  <2>11. PICK i \in DOMAIN L : L[i] = g
    BY <2>9 DEF ToSet
  <2>12. 1 \in DOMAIN L /\ L[1] \in ToSet(L)
    <3>1. 1 \in DOMAIN L
      BY <2>7, <2>11
    <3> QED
      BY <3>1 DEF ToSet
  <2>13. ~Precedes(capture, g, L[1], appended)
    <3>1. CASE i = 1
      BY <2>8, <2>10, <2>11, <2>12, <3>1, NotBefore
    <3>2. CASE i # 1
      <4>1. 1 < i
        BY <2>7, <2>11, <3>2
      <4> QED
        BY <2>6, <2>11, <2>12, <4>1 DEF Sorted
    <3> QED
      BY <3>1, <3>2
  <2>14. g \in ToSet(appended) /\ L[1] \in ToSet(appended)
    BY <2>8, <2>9, <2>12
  <2> QED
    BY <2>4, <2>6, <2>10, <2>13, <2>14, NotBefore
<1> QED
  BY <1>1, <1>2, <1>3 DEF RowsInv

\* The heartbeat merges, filters and cuts.
LEMMA RowsRefresh ==
  ASSUME RowsInv, Refresh
  PROVE  RowsInv'
<1>1. /\ UNCHANGED <<capture, appended, showCount>>
      /\ heartbeat = "refreshing" /\ heartbeat' = "waiting" /\ snapshot' = <<>>
  BY DEF Refresh, buffer, controls
<1>2. PICK missing \in Selection(flows, Flows \ ToSet(snapshot)) :
        \E rows \in Filtered(Merged(missing)) : flows' = Visible(rows)
  BY DEF Refresh
<1>3. PICK rows \in Filtered(Merged(missing)) : flows' = Visible(rows)
  BY <1>2
<1>4. RowsOK(capture, flows, appended) /\ RowsOK(capture, snapshot, appended)
  BY DEF RowsInv
<1>5. /\ missing \in Seq(Flows) /\ Embeds(missing, flows)
      /\ ToSet(missing) = ToSet(flows) \cap (Flows \ ToSet(snapshot))
  BY <1>4, SelectionEmbeds DEF RowsOK
<1>6. RowsOK(capture, missing, appended)
  BY <1>4, <1>5, SomeRows
<1>7. RowsOK(capture, Merged(missing), appended)
  <2>1. CASE capture # "Flow"
    BY <1>4, <2>1 DEF Merged, IsPacket
  <2>2. CASE capture = "Flow"
    <3>1. \A x \in ToSet(missing), y \in ToSet(snapshot) : ~Precedes(capture, y, x, appended)
      BY <1>1, <1>5, <2>2 DEF RowsInv
    <3>2. ToSet(missing) \cap ToSet(snapshot) = {}
      BY <1>5
    <3>3. Merged(missing) = missing \o snapshot
      BY <2>2 DEF Merged, IsPacket
    <3>4. RowsOK(capture, missing \o snapshot, appended)
      BY <1>4, <1>6, <3>1, <3>2, JoinedRows
    <3> QED
      BY <3>3, <3>4
  <2> QED
    BY <2>1, <2>2
<1>8. RowsOK(capture, rows, appended)
  <2> DEFINE T == { f \in Flows : PassesFilters(f) }
  <2>1. rows = Merged(missing) \/ rows \in Selection(Merged(missing), T)
    BY <1>3 DEF Filtered
  <2>2. CASE rows \in Selection(Merged(missing), T)
    <3> HIDE DEF T
    <3>1. rows \in Seq(Flows) /\ Embeds(rows, Merged(missing))
      BY <1>7, <2>2, SelectionEmbeds DEF RowsOK
    <3> QED
      BY <1>7, <3>1, SomeRows
  <2> QED
    BY <1>7, <2>1, <2>2
<1>9. RowsOK(capture, flows', appended)
  <2>1. showCount \in Nat
    BY TableAssumption DEF RowsInv
  <2>2. flows' = Trim(rows, showCount)
    BY <1>3 DEF Visible
  <2>3. Trim(rows, showCount) \in Seq(Flows) /\ Embeds(Trim(rows, showCount), rows)
    BY <1>8, <2>1, TrimEmbeds DEF RowsOK
  <2> QED
    BY <1>8, <2>2, <2>3, SomeRows
<1>10. RowsOK(capture, snapshot', appended)
  BY <1>1, NoRows
<1> QED
  BY <1>1, <1>9, <1>10 DEF RowsInv

LEMMA RowsStep == TableInv /\ RowsInv /\ [Next]_vars => RowsInv'
<1> SUFFICES ASSUME TableInv, RowsInv, [Next]_vars PROVE RowsInv'
  OBVIOUS
<1>1. showCount \in MinShow..MaxShow
  BY DEF RowsInv
<1>2. ASSUME NEW f \in Flows, Receive(f) PROVE RowsInv'
  <2>1. UNCHANGED <<capture, appended, table, showCount>>
    BY <1>2 DEF Receive, buffer, controls
  <2> QED
    BY <1>1, <2>1, RowsUntouched
<1>3. ASSUME NEW f \in Flows, AppendFlow(f) PROVE RowsInv'
  BY <1>3, RowsAppend
<1>4. CASE TakeSnapshot
  BY <1>4, RowsSnapshot
<1>5. CASE Refresh
  BY <1>5, RowsRefresh
<1>6. CASE User
  <2>1. UNCHANGED <<capture, appended, table>>
    BY <1>6 DEF User, Pause, ResetSelection, ReadRow, Panic, ShowLess, ShowMore, SelectRow,
                AddRegex, RemoveRegex, buffer
  <2>2. showCount' \in MinShow..MaxShow
    <3>1. CASE ShowLess
      BY <1>1, <3>1, TableAssumption DEF ShowLess
    <3>2. CASE ShowMore
      BY <1>1, <3>2, TableAssumption DEF ShowMore
    <3>3. CASE ~ShowLess /\ ~ShowMore
      <4>1. showCount' = showCount
        BY <1>6, <3>3 DEF User, Pause, ResetSelection, ReadRow, Panic, SelectRow,
                          AddRegex, RemoveRegex, controls
      <4> QED
        BY <1>1, <4>1
    <3> QED
      BY <3>1, <3>2, <3>3
  <2> QED
    BY <2>1, <2>2, RowsUntouched
<1>7. CASE UNCHANGED vars
  <2>1. UNCHANGED <<capture, appended, table, showCount>>
    BY <1>7 DEF vars, buffer, controls
  <2> QED
    BY <1>1, <2>1, RowsUntouched
<1> QED
  BY <1>2, <1>3, <1>4, <1>5, <1>6, <1>7 DEF Next, Collector, Heartbeat

\* No record has two rows.
THEOREM OnceInvariance == Spec => []RowsOnce
<1>1. RowsInv => RowsOnce
  BY DEF RowsInv, RowsOK, RowsOnce
<1> QED
  BY <1>1, TableInit, TableStep, RowsInit, RowsStep, PTL DEF Spec

\* The rows are sorted by time, those that left the buffer included.
THEOREM OrderInvariance == Spec => []RowsInOrder
<1>1. RowsInv => RowsInOrder
  BY DEF RowsInv, RowsOK, RowsInOrder, InOrder, Sorted, Before, Precedes, IsPacket
<1> QED
  BY <1>1, TableInit, TableStep, RowsInit, RowsStep, PTL DEF Spec

-----------------------------------------------------------------------------
(* Types.                                                                   *)

\* The lengths of what is before and behind place i of m places.
LEMMA PartLengths ==
  ASSUME NEW m \in Nat, NEW i \in 1..m
  PROVE  /\ 1 \in Int /\ i - 1 \in Int /\ i + 1 \in Int /\ m \in Int
         /\ (IF 1 <= i - 1 THEN i - 1 - 1 + 1 ELSE 0) = i - 1
         /\ (IF i + 1 <= m THEN m - (i + 1) + 1 ELSE 0) = m - i
         /\ (i - 1) + (m - i) = m - 1
OBVIOUS

LEMMA RemoveAtShortens ==
  ASSUME NEW S, NEW q \in Seq(S), NEW i \in DOMAIN q
  PROVE  RemoveAt(q, i) \in Seq(S) /\ Len(RemoveAt(q, i)) = Len(q) - 1
<1> DEFINE m == Len(q)
           a == SubSeq(q, 1, i - 1)
           b == SubSeq(q, i + 1, m)
<1>1. m \in Nat /\ i \in 1..m /\ \A j \in 1..m : q[j] \in S
  BY LenProperties, ElementOfSeq
<1>2. \A j \in 1..(i - 1) : q[j] \in S
  BY <1>1
<1>3. \A j \in (i + 1)..m : q[j] \in S
  BY <1>1
<1> HIDE DEF m
<1>4. /\ 1 \in Int /\ i - 1 \in Int /\ i + 1 \in Int /\ m \in Int
      /\ (IF 1 <= i - 1 THEN i - 1 - 1 + 1 ELSE 0) = i - 1
      /\ (IF i + 1 <= m THEN m - (i + 1) + 1 ELSE 0) = m - i
      /\ (i - 1) + (m - i) = m - 1
  BY <1>1, PartLengths
<1>5. a \in Seq(S) /\ Len(a) = IF 1 <= i - 1 THEN i - 1 - 1 + 1 ELSE 0
  BY <1>2, <1>4, SubSeqProperties
<1>6. b \in Seq(S) /\ Len(b) = IF i + 1 <= m THEN m - (i + 1) + 1 ELSE 0
  BY <1>3, <1>4, SubSeqProperties
<1> HIDE DEF a, b
<1>7. a \o b \in Seq(S) /\ Len(a \o b) = Len(a) + Len(b)
  BY <1>5, <1>6, ConcatProperties
<1>8. Len(a \o b) = m - 1
  BY <1>4, <1>5, <1>6, <1>7
<1>9. RemoveAt(q, i) = a \o b
  BY DEF RemoveAt, a, b, m
<1> QED
  BY <1>7, <1>8, <1>9 DEF m

\* What the goroutine of the UI shares with the heartbeat.
UserTypes ==
  /\ paused \in BOOLEAN /\ panicked \in BOOLEAN /\ heartbeat \in {"waiting", "refreshing"}
  /\ regexes \in Seq(Regexes) /\ Len(regexes) <= MaxRegexes
  /\ selected \in Flows \cup {NoFlow} /\ row \in 0..MaxShow

LEMMA UserTypesInit == Init => UserTypes
<1>1. <<>> \in Seq(Regexes) /\ Len(<<>>) = 0
  BY EmptySeq
<1>2. MaxRegexes \in Nat /\ 0 \in 0..MaxShow
  BY TableAssumption
<1> SUFFICES ASSUME Init PROVE UserTypes
  OBVIOUS
<1>3. regexes = <<>> /\ row = 0 /\ heartbeat = "waiting" /\ selected = NoFlow
  BY DEF Init
<1>4. Len(<<>>) <= MaxRegexes
  BY <1>1, <1>2
<1>5. paused \in BOOLEAN /\ panicked \in BOOLEAN
  BY DEF Init
<1> QED
  BY <1>1, <1>2, <1>3, <1>4, <1>5 DEF UserTypes

LEMMA UserTypesStep == RowsInv /\ UserTypes /\ [Next]_vars => UserTypes'
<1> SUFFICES ASSUME RowsInv, UserTypes, [Next]_vars PROVE UserTypes'
  OBVIOUS
<1> USE DEF UserTypes
<1>1. ASSUME NEW f \in Flows, Receive(f) \/ AppendFlow(f) PROVE UserTypes'
  BY <1>1 DEF Receive, AppendFlow, table, controls, cursor
<1>2. CASE Heartbeat
  BY <1>2 DEF Heartbeat, TakeSnapshot, Refresh, controls, cursor
<1>3. CASE Pause \/ ResetSelection
  BY <1>3 DEF Pause, ResetSelection, table, controls
<1>4. CASE ReadRow
  <2>1. flows \in Seq(Flows) /\ row \in 1..Len(flows)
    BY <1>4 DEF ReadRow, RowsInv, RowsOK
  <2>2. flows[row] \in Flows
    BY <2>1, ElementOfSeq
  <2>3. 0 \in 0..MaxShow
    BY TableAssumption
  <2>4. paused' \in BOOLEAN
    BY <1>4 DEF ReadRow
  <2> QED
    BY <1>4, <2>2, <2>3, <2>4 DEF ReadRow, table, controls
<1>5. CASE Panic
  BY <1>5 DEF Panic, table, controls, cursor
<1>6. CASE ShowLess \/ ShowMore
  BY <1>6 DEF ShowLess, ShowMore, table, cursor
<1>7. ASSUME NEW r \in 1..MaxShow, SelectRow(r) PROVE UserTypes'
  <2>1. r \in 0..MaxShow
    BY TableAssumption
  <2> QED
    BY <1>7, <2>1 DEF SelectRow, table, controls
<1>8. ASSUME NEW r \in Regexes, AddRegex(r) PROVE UserTypes'
  <2>1. regexes' \in Seq(Regexes) /\ Len(regexes') = Len(regexes) + 1
    BY <1>8, AppendProperties DEF AddRegex
  <2>2. Len(regexes) < MaxRegexes /\ Len(regexes) \in Nat /\ MaxRegexes \in Nat
    BY <1>8, LenProperties, TableAssumption DEF AddRegex
  <2>3. Len(regexes') <= MaxRegexes
    BY <2>1, <2>2
  <2> QED
    BY <1>8, <2>1, <2>3 DEF AddRegex, table, cursor
<1>9. ASSUME NEW i \in DOMAIN regexes, RemoveRegex(i) PROVE UserTypes'
  <2>1. regexes' \in Seq(Regexes) /\ Len(regexes') = Len(regexes) - 1
    BY <1>9, RemoveAtShortens DEF RemoveRegex
  <2>2. Len(regexes) \in Nat /\ MaxRegexes \in Nat
    BY LenProperties, TableAssumption
  <2>3. Len(regexes') <= MaxRegexes
    BY <2>1, <2>2
  <2> QED
    BY <1>9, <2>1, <2>3 DEF RemoveRegex, table, cursor
<1>10. CASE UNCHANGED vars
  BY <1>10 DEF vars, table, controls, cursor
<1> QED
  BY <1>1, <1>2, <1>3, <1>4, <1>5, <1>6, <1>7, <1>8, <1>9, <1>10 DEF Next, Collector, User

\* Every variable has its type; in particular, each buffer holds records of its kind only.
THEOREM TableTypes == Spec => []TypeOK
<1>1. TableInv /\ RowsInv /\ UserTypes => TypeOK
  <2> SUFFICES ASSUME TableInv, RowsInv, UserTypes PROVE TypeOK
    OBVIOUS
  <2>1. ASSUME NEW b \in DOMAIN KeepCount
        PROVE  last[b] \in Seq({ f \in Flows : BufferOf(f) = b })
    <3> DEFINE S == { f \in Flows : BufferOf(f) = b }
    <3>1. last[b] \in Seq(Flows) /\ ToSet(last[b]) \subseteq Put(b)
      BY DEF TableInv, Keeps
    <3>2. /\ DOMAIN last[b] = 1..Len(last[b]) /\ Len(last[b]) \in Nat
          /\ last[b] = [i \in 1..Len(last[b]) |-> last[b][i]]
      BY <3>1, LenProperties
    <3>3. \A i \in 1..Len(last[b]) : last[b][i] \in Flows
      BY <3>1, ElementOfSeq
    <3>4. \A i \in 1..Len(last[b]) : last[b][i] \in Put(b)
      BY <3>1, <3>2 DEF ToSet
    <3>5. \A i \in 1..Len(last[b]) : last[b][i] \in S
      BY <3>3, <3>4 DEF Put
    <3> HIDE DEF S
    <3>6. last[b] \in [1..Len(last[b]) -> S]
      BY <3>2, <3>5
    <3>7. last[b] \in Seq(S)
      BY <3>2, <3>6, SeqDef
    <3> QED
      BY <3>7 DEF S
  <2>2. arriving \subseteq Flows /\ appended \in Seq(Flows)
    BY DEF TableInv, Orders
  <2>3. snapshot \in Seq(Flows) /\ flows \in Seq(Flows)
    BY DEF RowsInv, RowsOK
  <2> QED
    BY <2>1, <2>2, <2>3 DEF TypeOK, RowsInv, UserTypes
<1> QED
  BY <1>1, TableInit, TableStep, RowsInit, RowsStep, UserTypesInit, UserTypesStep, PTL DEF Spec
=============================================================================
