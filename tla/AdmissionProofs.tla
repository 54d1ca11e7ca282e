--------------------------- MODULE AdmissionProofs ---------------------------
(***************************************************************************)
(* Proofs about Admission: the bounds of its two tables, that the limit     *)
(* holds, that a session in use stays, and that stale keys go.              *)
(***************************************************************************)
EXTENDS Admission, FiniteSetTheorems, FunctionTheorems, WellFoundedInduction, TLAPS

-----------------------------------------------------------------------------
(* The inductive invariant behind the properties.                           *)

\* A request in progress has taken the first step of its route.
RequestOK(r) ==
    \/ request[r] = Idle
    \/ /\ request[r].todo \in {<<"upstream">>, <<"check", "get">>, <<"get">>, <<"delete">>}
       /\ request[r].key \in Ids
       /\ request[r].since <= time

Apart(list) == \A i, j \in DOMAIN list : list[i].id = list[j].id => i = j

\* The last entries of the list are those of the sessions in recent, in order.
EndsWith(list, recent) ==
    LET before == Len(list) - Len(recent) IN
    /\ before >= 0
    /\ \A i \in DOMAIN recent :
          /\ recent[i].id = list[before + i].id
          /\ recent[i].at <= list[before + i].seen + MaxLag

\* By the clock of no request these sessions have expired.
Recent(recent) ==
    \A i \in DOMAIN recent :
        /\ recent[i].at <= time /\ time - recent[i].at <= TTL - MaxLag
        /\ \A j \in i .. Len(recent) : recent[i].at <= recent[j].at

EventsOf(key) == IF key \in DOMAIN events THEN events[key] ELSE <<>>

\* The last of these instants are those of the admissions, by a clock read before.
Backs(instants, at) ==
    LET before == Len(instants) - Len(at) IN
    /\ before >= 0
    /\ \A i \in DOMAIN at : at[i] <= instants[before + i] + MaxLag

Lately(at) ==
    \A i \in DOMAIN at :
        /\ at[i] <= time /\ time - at[i] < Window - MaxLag
        /\ \A j \in i .. Len(at) : at[i] <= at[j]

SweptLately ==
    /\ lastSweep <= time
    /\ \A k \in DOMAIN events : lastSweep - Last(events[k]) < Window

AdmissionInv ==
    /\ AdmissionTypeOK
    /\ used \in Seq([id : Ids, at : 0 .. MaxTime])
    /\ admitted \in [Keys -> Seq(0 .. MaxTime)]
    /\ \A r \in Requests : RequestOK(r)
    /\ Apart(store)
    /\ EndsWith(store, used)
    /\ Len(used) <= MaxSessions - 1 /\ Recent(used)
    /\ \A k \in Keys : Backs(EventsOf(k), admitted[k]) /\ Lately(admitted[k])
    /\ SweptLately

-----------------------------------------------------------------------------
(* Lists: the least position, the end of a list, a list without some of its *)
(* entries.                                                                 *)

\* A set of numbers that is not empty has a least element.
LEMMA LeastOf ==
    ASSUME NEW S \in SUBSET Nat, S # {}
    PROVE  Min(S) \in S /\ \A n \in S : Min(S) <= n
<1>1. IsWellFoundedOn(OpToRel(<, Nat), Nat)
  BY NatLessThanWellFounded
<1>2. PICK m \in S : \A n \in S : ~(<<n, m>> \in OpToRel(<, Nat))
  BY <1>1, WFMin
<1>3. ASSUME NEW n \in S, n < m PROVE FALSE
  <2>1. <<n, m>> \in Nat \X Nat /\ <<n, m>>[1] < <<n, m>>[2]
    BY <1>3
  <2>2. <<n, m>> \in OpToRel(<, Nat)
    BY ONLY <2>1 DEF OpToRel
  <2> QED BY <1>2, <2>2
<1>4. \A n \in S : m <= n
  BY <1>3
<1> QED BY <1>4 DEF Min

\* v is an end of u.
IsEnd(v, u) ==
    Len(v) <= Len(u) /\ \A i \in 1 .. Len(v) : v[i] = u[Len(u) - Len(v) + i]

\* The end of s that starts at the first of these positions.
EndFrom(t, s, P) ==
    /\ IsEnd(t, s)
    /\ \A p \in P : p > Len(s) - Len(t)
    /\ t # <<>> => Len(s) - Len(t) + 1 \in P

\* FromFirst returns that end.
LEMMA FromFirstIsTheEnd ==
    ASSUME NEW R, NEW s \in Seq(R), NEW P \in SUBSET (1 .. Len(s)),
           NEW t, t = FromFirst(s, P)
    PROVE  t \in Seq(R) /\ EndFrom(t, s, P)
<1>1. CASE P = {}
  <2>1. t = <<>>
    BY <1>1 DEF FromFirst
  <2>2. Len(s) \in Nat /\ t \in Seq(R) /\ Len(t) = 0
    BY <2>1
  <2> QED BY <1>1, <2>1, <2>2 DEF EndFrom, IsEnd
<1>2. CASE P # {}
  <2>1. PICK m \in P : m = Min(P) /\ \A p \in P : m <= p
    <3>1. P \in SUBSET Nat
      OBVIOUS
    <3> QED BY <1>2, <3>1, LeastOf, ZenonT(30)
  <2>2. t = SubSeq(s, m, Len(s))
    BY <1>2, <2>1 DEF FromFirst
  <2>3. m \in 1 .. Len(s) /\ Len(s) \in Nat
    OBVIOUS
  <2>4. t \in Seq(R) /\ Len(t) = Len(s) - m + 1
    BY <2>2, <2>3
  <2>5. \A i \in 1 .. Len(t) : t[i] = s[m + i - 1]
    BY <2>2, <2>3, <2>4
  <2>6. Len(s) - Len(t) + 1 = m
    BY <2>3, <2>4
  <2>7. IsEnd(t, s)
    <3>1. \A i \in 1 .. Len(t) : m + i - 1 = Len(s) - Len(t) + i
      BY <2>3, <2>4, <2>6
    <3> QED BY <2>3, <2>4, <2>5, <3>1 DEF IsEnd
  <2> QED BY <2>1, <2>3, <2>4, <2>6, <2>7 DEF EndFrom
<1> QED BY <1>1, <1>2

\* How many of the positions are not behind i.
Rank(P, i) == Cardinality(P \cap 1 .. i)

\* A rank is a number between one and the size of the set.
LEMMA RankType ==
    ASSUME NEW L \in Nat, NEW P \in SUBSET (1 .. L)
    PROVE  /\ IsFiniteSet(P) /\ Cardinality(P) \in 0 .. L
           /\ \A i \in P : IsFiniteSet(P \cap 1 .. i) /\ Rank(P, i) \in 1 .. Cardinality(P)
<1>1. IsFiniteSet(1 .. L) /\ Cardinality(1 .. L) = L
  BY FS_Interval
<1>2. IsFiniteSet(P) /\ Cardinality(P) <= L
  BY <1>1, FS_Subset
<1>3. Cardinality(P) \in 0 .. L
  BY <1>2, FS_CardinalityType
<1>4. ASSUME NEW i \in P
      PROVE  IsFiniteSet(P \cap 1 .. i) /\ Rank(P, i) \in 1 .. Cardinality(P)
  <2>1. P \cap 1 .. i \in SUBSET P
    OBVIOUS
  <2>2. IsFiniteSet(P \cap 1 .. i) /\ Cardinality(P \cap 1 .. i) <= Cardinality(P)
    BY <1>2, <2>1, FS_Subset
  <2>3. Cardinality(P \cap 1 .. i) \in Nat
    BY <2>2, FS_CardinalityType
  <2>4. i \in P \cap 1 .. i
    OBVIOUS
  <2>5. Cardinality(P \cap 1 .. i) # 0
    BY <2>2, <2>4, FS_EmptySet
  <2> QED BY <1>3, <2>2, <2>3, <2>5 DEF Rank
<1> QED BY <1>2, <1>3, <1>4

\* No two positions have the same rank, and every rank is taken.
LEMMA RankIsABijection ==
    ASSUME NEW L \in Nat, NEW P \in SUBSET (1 .. L)
    PROVE  /\ \A i, j \in P : Rank(P, i) = Rank(P, j) => i = j
           /\ \A n \in 1 .. Cardinality(P) : \E i \in P : Rank(P, i) = n
<1>1. ASSUME NEW i \in P, NEW j \in P, i < j
      PROVE  Rank(P, i) # Rank(P, j)
  <2>1. IsFiniteSet(P \cap 1 .. j) /\ P \cap 1 .. i \in SUBSET (P \cap 1 .. j)
    BY <1>1, RankType
  <2>2. j \in P \cap 1 .. j /\ j \notin P \cap 1 .. i
    BY <1>1
  <2> QED BY <2>1, <2>2, FS_Subset DEF Rank
<1>2. ASSUME NEW i \in P, NEW j \in P, Rank(P, i) = Rank(P, j)
      PROVE  i = j
  <2>1. i \in Int /\ j \in Int
    OBVIOUS
  <2> QED BY <1>1, <1>2, <2>1
<1> DEFINE N == Cardinality(P)
           rank == [i \in P |-> Rank(P, i)]
<1>3. N \in Nat /\ IsFiniteSet(P) /\ IsFiniteSet(1 .. N) /\ Cardinality(1 .. N) = N
  <2>1. N \in Nat /\ IsFiniteSet(P)
    BY RankType
  <2> QED BY <2>1, FS_Interval
<1>4. rank \in [P -> 1 .. N]
  BY RankType
<1>5. rank \in Injection(P, 1 .. N)
  BY <1>2, <1>4, Fun_IsInj
<1>6. rank \in Surjection(P, 1 .. N)
  BY <1>3, <1>5, FS_Injection
<1>7. ASSUME NEW n \in 1 .. N PROVE \E i \in P : Rank(P, i) = n
  BY <1>6, <1>7 DEF Surjection
<1> QED BY <1>2, <1>7

\* The last positions, if all are there, have the last ranks.
LEMMA RankFromTheEnd ==
    ASSUME NEW L \in Nat, NEW P \in SUBSET (1 .. L), NEW k \in 0 .. L,
           (k + 1) .. L \subseteq P
    PROVE  /\ Cardinality(P) >= L - k
           /\ \A i \in (k + 1) .. L : Rank(P, i) = Cardinality(P) - (L - i)
<1>1. IsFiniteSet((k + 1) .. L) /\ Cardinality((k + 1) .. L) = L - k
  <2>1. PICK m : m = k + 1 /\ m \in Int /\ L \in Int
    OBVIOUS
  <2>2. IsFiniteSet(m .. L) /\ Cardinality(m .. L) = IF m > L THEN 0 ELSE L - m + 1
    BY <2>1, FS_Interval
  <2> QED BY <2>1, <2>2
<1>2. Cardinality(P) >= L - k
  BY <1>1, RankType, FS_Subset
<1>3. ASSUME NEW i \in (k + 1) .. L
      PROVE  Rank(P, i) = Cardinality(P) - (L - i)
  <2> DEFINE low == P \cap 1 .. i
             high == (i + 1) .. L
  <2>1. i \in P /\ P = low \cup high /\ low \cap high = {}
    <3>1. i \in Nat /\ i \in P
      OBVIOUS
    <3>2. high \subseteq P
      OBVIOUS
    <3>3. \A p \in P : p \in low \/ p \in high
      OBVIOUS
    <3>4. \A p \in low : p \notin high
      OBVIOUS
    <3> QED BY <3>1, <3>2, <3>3, <3>4
  <2>2. IsFiniteSet(low) /\ Cardinality(low) \in Nat
    BY <2>1, RankType, FS_CardinalityType
  <2>3. IsFiniteSet(high) /\ Cardinality(high) = L - i
    BY FS_Interval
  <2>4. Cardinality(low \cap high) = 0
    BY <2>1, FS_EmptySet
  <2>5. Cardinality(low \cup high) =
            Cardinality(low) + Cardinality(high) - Cardinality(low \cap high)
    BY <2>2, <2>3, FS_Union
  <2>6. Cardinality(P) = Cardinality(low) + (L - i)
    <3> HIDE DEF high, low
    <3> QED BY <2>1, <2>2, <2>3, <2>4, <2>5
  <2> QED BY <2>2, <2>6 DEF Rank
<1> QED BY <1>2, <1>3

\* Entries of the list s, each once, and at the end the last ones of s if all of
\* their positions are in P.
Selection(t, s, P) ==
    /\ \E e \in [1 .. Len(t) -> 1 .. Len(s)] :
          /\ \A m, n \in 1 .. Len(t) : e[m] = e[n] => m = n
          /\ \A n \in 1 .. Len(t) : t[n] = s[e[n]]
    /\ \A k \in 0 .. Len(s) :
          (k + 1) .. Len(s) \subseteq P =>
              /\ Len(t) >= Len(s) - k
              /\ \A i \in (k + 1) .. Len(s) : t[Len(t) - (Len(s) - i)] = s[i]

\* Keep returns such a selection.
LEMMA KeepSelects ==
    ASSUME NEW R, NEW s \in Seq(R), NEW P \in SUBSET (1 .. Len(s)),
           NEW t, t = Keep(s, P)
    PROVE  t \in Seq(R) /\ Selection(t, s, P)
<1> DEFINE L == Len(s)
           N == Cardinality(P)
           e == [n \in 1 .. N |-> CHOOSE i \in P : Rank(P, i) = n]
<1>1. L \in Nat /\ N \in 0 .. L
  BY RankType
<1>2. ASSUME NEW n \in 1 .. N
      PROVE  e[n] \in P /\ e[n] \in 1 .. L /\ Rank(P, e[n]) = n
  <2>1. \E i \in P : Rank(P, i) = n
    <3>1. L \in Nat /\ P \in SUBSET (1 .. L)
      BY <1>1
    <3> HIDE DEF e, L
    <3>2. \A m \in 1 .. N : \E i \in P : Rank(P, i) = m
      BY <3>1, RankIsABijection
    <3> QED BY <1>2, <3>2
  <2> QED BY <2>1
<1>3. t = [n \in 1 .. N |-> s[e[n]]]
  BY DEF Keep, Rank
<1> HIDE DEF e
<1>4. \A n \in 1 .. N : s[e[n]] \in R
  BY <1>2
<1>5. t \in Seq(R) /\ Len(t) = N
  BY <1>1, <1>3, <1>4
<1>6. \A n \in 1 .. N : t[n] = s[e[n]]
  BY <1>3
<1>7. e \in [1 .. N -> 1 .. L]
  BY <1>2 DEF e
<1>8. \A m, n \in 1 .. N : e[m] = e[n] => m = n
  BY <1>2
<1>9. ASSUME NEW k \in 0 .. L, (k + 1) .. L \subseteq P
      PROVE  /\ N >= L - k
             /\ \A i \in (k + 1) .. L : t[N - (L - i)] = s[i]
  <2>1. N >= L - k /\ \A i \in (k + 1) .. L : Rank(P, i) = N - (L - i)
    BY <1>1, <1>9, RankFromTheEnd
  <2>2. ASSUME NEW i \in (k + 1) .. L PROVE t[N - (L - i)] = s[i]
    <3>1. PICK n : n = N - (L - i)
      OBVIOUS
    <3>2. n \in 1 .. N
      BY <1>1, <2>1, <3>1
    <3>3. Rank(P, e[n]) = Rank(P, i) /\ e[n] \in P /\ i \in P
      BY <1>2, <1>9, <2>1, <3>1, <3>2
    <3>4. e[n] = i
      BY <1>1, <3>3, RankIsABijection
    <3> QED BY <1>6, <3>1, <3>2, <3>4
  <2> QED BY <2>1, <2>2
<1>10. \E f \in [1 .. N -> 1 .. L] :
          /\ \A m, n \in 1 .. N : f[m] = f[n] => m = n
          /\ \A n \in 1 .. N : t[n] = s[f[n]]
  BY <1>6, <1>7, <1>8
<1>11. \A k \in 0 .. L :
          (k + 1) .. L \subseteq P =>
              /\ N >= L - k
              /\ \A i \in (k + 1) .. L : t[N - (L - i)] = s[i]
  BY <1>9
<1>12. L = Len(s) /\ Len(t) = N
  BY <1>5
<1>13. t \in Seq(R) /\ Len(t) <= Len(s)
  BY <1>1, <1>5
<1> HIDE DEF L, N
<1>14. \E f \in [1 .. Len(t) -> 1 .. Len(s)] :
          /\ \A m, n \in 1 .. Len(t) : f[m] = f[n] => m = n
          /\ \A n \in 1 .. Len(t) : t[n] = s[f[n]]
  BY <1>10, <1>12
<1>15. \A k \in 0 .. Len(s) :
          (k + 1) .. Len(s) \subseteq P =>
              /\ Len(t) >= Len(s) - k
              /\ \A i \in (k + 1) .. Len(s) : t[Len(t) - (Len(s) - i)] = s[i]
  BY <1>11, <1>12
<1> QED BY <1>13, <1>14, <1>15 DEF Selection

\* What Without returns: the list as it was, or without one entry of id.
LEMMA WithoutRemoves ==
    ASSUME NEW R, NEW s \in Seq(R), NEW id, NEW t, t = Without(s, id)
    PROVE  /\ t \in Seq(R)
           /\ \/ t = s /\ ~HasEntry(s, id)
              \/ \E p \in 1 .. Len(s) :
                    /\ s[p].id = id
                    /\ Len(t) = Len(s) - 1
                    /\ \A i \in 1 .. Len(t) : t[i] = IF i < p THEN s[i] ELSE s[i + 1]
<1>1. CASE ~\E i \in 1 .. Len(s) : s[i].id = id
  BY <1>1 DEF Without, RemoveFirstMatch, HasEntry
<1>2. CASE \E i \in 1 .. Len(s) : s[i].id = id
  <2> DEFINE P == {i \in 1 .. Len(s) : s[i].id = id}
  <2>1. P # {} /\ P \in SUBSET Nat
    BY <1>2
  <2>2. PICK p : p = Min(P)
    OBVIOUS
  <2>3. p \in P
    <3> HIDE DEF P
    <3> QED BY <2>1, <2>2, LeastOf
  <2>4. t = RemoveAt(s, p)
    BY <1>2, <2>1, <2>2 DEF Without, RemoveFirstMatch, SelectInSeq
  <2>5. p \in 1 .. Len(s) /\ s[p].id = id /\ Len(s) \in Nat
    BY <2>3
  <2>6. PICK a, b : a = SubSeq(s, 1, p - 1) /\ b = SubSeq(s, p + 1, Len(s))
    OBVIOUS
  <2>7. a \in Seq(R) /\ Len(a) = p - 1 /\ \A i \in 1 .. p - 1 : a[i] = s[i]
    BY <2>5, <2>6
  <2>8. /\ b \in Seq(R) /\ Len(b) = Len(s) - p
        /\ \A i \in 1 .. Len(s) - p : b[i] = s[p + i]
    BY <2>5, <2>6
  <2>9. t = a \o b
    BY <2>4, <2>6 DEF RemoveAt
  <2>10. t \in Seq(R) /\ Len(t) = Len(s) - 1
    BY <2>5, <2>7, <2>8, <2>9
  <2>11. ASSUME NEW i \in 1 .. Len(t)
         PROVE  t[i] = IF i < p THEN s[i] ELSE s[i + 1]
    <3>1. CASE i < p
      BY <2>5, <2>7, <2>8, <2>9, <2>10, <3>1
    <3>2. CASE i >= p
      <4>1. i \in 1 .. (Len(a) + Len(b)) /\ i > Len(a) /\ Len(a) \in Nat /\ i - Len(a) = i - (p - 1)
        BY <2>5, <2>7, <2>8, <2>10, <3>2
      <4>2. t[i] = b[i - Len(a)]
        BY <2>7, <2>8, <2>9, <4>1
      <4>3. PICK k : k = i - Len(a)
        OBVIOUS
      <4>4. k \in 1 .. Len(s) - p /\ p + k = i + 1
        BY <2>5, <2>7, <2>8, <4>1, <4>3
      <4>5. t[i] = s[i + 1]
        BY <2>8, <4>2, <4>3, <4>4
      <4> QED BY <2>5, <3>2, <4>5
    <3> QED BY <2>5, <3>1, <3>2
  <2> QED BY <2>5, <2>10, <2>11
<1> QED BY <1>1, <1>2

-----------------------------------------------------------------------------
(* The store and the sessions used last: what each operation leaves of it   *)
(* that the first ends with the second.                                     *)

Entry == [id : Ids, seen : 0 .. MaxTime]
Usage == [id : Ids, at : 0 .. MaxTime]

\* If the store ends with the sessions used last, so with the last of these.
LEMMA EndsWithAnEnd ==
    ASSUME NEW s \in Seq(Entry), NEW u \in Seq(Usage), NEW v \in Seq(Usage),
           IsEnd(v, u), EndsWith(s, u)
    PROVE  EndsWith(s, v)
<1>1. Len(u) \in Nat /\ Len(v) \in Nat /\ Len(s) \in Nat /\ Len(v) <= Len(u)
  BY DEF IsEnd
<1>2. Len(s) - Len(v) >= 0
  BY <1>1 DEF EndsWith
<1>3. ASSUME NEW i \in 1 .. Len(v)
      PROVE  /\ v[i].id = s[Len(s) - Len(v) + i].id
             /\ v[i].at <= s[Len(s) - Len(v) + i].seen + MaxLag
  <2>1. PICK j : j = Len(u) - Len(v) + i
    OBVIOUS
  <2>2. j \in 1 .. Len(u) /\ v[i] = u[j] /\ Len(s) - Len(u) + j = Len(s) - Len(v) + i
    BY <1>1, <2>1 DEF IsEnd
  <2>3. u[j].id = s[Len(s) - Len(u) + j].id /\ u[j].at <= s[Len(s) - Len(u) + j].seen + MaxLag
    BY <2>2 DEF EndsWith
  <2> QED BY <2>2, <2>3
<1>4. DOMAIN v = 1 .. Len(v)
  OBVIOUS
<1> QED BY <1>2, <1>3, <1>4 DEF EndsWith

\* The last of some recent uses are recent.
LEMMA RecentEnd ==
    ASSUME NEW u \in Seq(Usage), NEW v \in Seq(Usage), IsEnd(v, u), Recent(u)
    PROVE  Recent(v)
<1>1. Len(u) \in Nat /\ Len(v) \in Nat /\ Len(v) <= Len(u)
  BY DEF IsEnd
<1>2. ASSUME NEW i \in 1 .. Len(v)
      PROVE  /\ v[i].at <= time /\ time - v[i].at <= TTL - MaxLag
             /\ \A j \in i .. Len(v) : v[i].at <= v[j].at
  <2>1. PICK k : k = Len(u) - Len(v) + i
    OBVIOUS
  <2>2. k \in 1 .. Len(u) /\ v[i] = u[k]
    BY <1>1, <2>1 DEF IsEnd
  <2>3. v[i].at <= time /\ time - v[i].at <= TTL - MaxLag
    BY <2>2 DEF Recent
  <2>4. ASSUME NEW j \in i .. Len(v) PROVE v[i].at <= v[j].at
    <3>1. PICK l : l = Len(u) - Len(v) + j
      OBVIOUS
    <3>2. l \in k .. Len(u) /\ v[j] = u[l]
      BY <1>1, <2>1, <2>2, <3>1 DEF IsEnd
    <3> QED BY <2>2, <3>2 DEF Recent
  <2> QED BY <2>3, <2>4
<1> QED BY <1>2 DEF Recent

\* Positions of a list after one of its entries has gone.
Behind(p, i) == IF i < p THEN i ELSE i + 1

\* A list of which each identifier has one entry has none of it without it.
LEMMA ApartWithout ==
    ASSUME NEW s \in Seq(Entry), NEW id, NEW t, t = Without(s, id), Apart(s)
    PROVE  /\ t \in Seq(Entry) /\ Apart(t) /\ Len(t) <= Len(s)
           /\ ~HasEntry(t, id)
           /\ HasEntry(s, id) => Len(t) = Len(s) - 1
<1>1. t \in Seq(Entry) /\ Len(s) \in Nat /\ Len(t) \in Nat
  BY WithoutRemoves
<1>2. CASE t = s /\ ~HasEntry(s, id)
  BY <1>1, <1>2
<1>3. ASSUME NEW p \in 1 .. Len(s), s[p].id = id, Len(t) = Len(s) - 1,
             \A i \in 1 .. Len(t) : t[i] = IF i < p THEN s[i] ELSE s[i + 1]
      PROVE  Apart(t) /\ ~HasEntry(t, id)
  <2>1. ASSUME NEW i \in 1 .. Len(t)
        PROVE  /\ t[i] = s[Behind(p, i)]
               /\ Behind(p, i) \in 1 .. Len(s) /\ Behind(p, i) # p
    BY <1>1, <1>3 DEF Behind
  <2>2. ASSUME NEW i \in 1 .. Len(t), NEW j \in 1 .. Len(t), t[i].id = t[j].id
        PROVE  i = j
    <3>1. Behind(p, i) = Behind(p, j)
      BY <2>1, <2>2 DEF Apart
    <3> QED BY <3>1 DEF Behind
  <2>3. ASSUME NEW i \in 1 .. Len(t), t[i].id = id PROVE FALSE
    <3>1. s[Behind(p, i)].id = s[p].id
      BY <1>3, <2>1, <2>3
    <3> QED BY <2>1, <3>1 DEF Apart
  <2>4. DOMAIN t = 1 .. Len(t)
    BY <1>1
  <2> QED BY <2>2, <2>3, <2>4 DEF Apart, HasEntry
<1>4. \/ t = s /\ ~HasEntry(s, id)
      \/ \E p \in 1 .. Len(s) :
            /\ s[p].id = id
            /\ Len(t) = Len(s) - 1
            /\ \A i \in 1 .. Len(t) : t[i] = IF i < p THEN s[i] ELSE s[i + 1]
  BY WithoutRemoves
<1> QED BY <1>1, <1>2, <1>3, <1>4

\* A session taken out of both leaves the one an end of the other.
LEMMA EndsWithWithout ==
    ASSUME NEW s \in Seq(Entry), NEW u \in Seq(Usage), NEW id,
           NEW t, t = Without(s, id), NEW v, v = Without(u, id),
           Apart(s), EndsWith(s, u)
    PROVE  v \in Seq(Usage) /\ Len(v) <= Len(u) /\ EndsWith(t, v)
<1>1. /\ Len(s) \in Nat /\ Len(u) \in Nat /\ Len(s) >= Len(u)
      /\ v \in Seq(Usage) /\ Len(v) \in Nat /\ DOMAIN v = 1 .. Len(v)
  BY WithoutRemoves DEF EndsWith
<1> DEFINE before == Len(s) - Len(u)
<1>2. \A i \in 1 .. Len(u) :
          /\ before + i \in 1 .. Len(s)
          /\ u[i].id = s[before + i].id
          /\ u[i].at <= s[before + i].seen + MaxLag
  BY <1>1 DEF EndsWith
<1>3. \/ v = u /\ ~HasEntry(u, id)
      \/ \E q \in 1 .. Len(u) :
            /\ u[q].id = id
            /\ Len(v) = Len(u) - 1
            /\ \A i \in 1 .. Len(v) : v[i] = IF i < q THEN u[i] ELSE u[i + 1]
  BY WithoutRemoves
<1>4. \/ t = s /\ ~HasEntry(s, id)
      \/ \E p \in 1 .. Len(s) :
            /\ s[p].id = id
            /\ Len(t) = Len(s) - 1
            /\ \A i \in 1 .. Len(t) : t[i] = IF i < p THEN s[i] ELSE s[i + 1]
  BY WithoutRemoves
<1>5. CASE t = s /\ ~HasEntry(s, id)
  <2>1. v = u
    <3>1. \A i \in 1 .. Len(s) : s[i].id # id
      BY <1>5 DEF HasEntry
    <3> QED BY <1>2, <1>3, <3>1
  <2> QED BY <1>1, <1>5, <2>1
<1>6. ASSUME NEW p \in 1 .. Len(s), s[p].id = id, Len(t) = Len(s) - 1,
             \A i \in 1 .. Len(t) : t[i] = IF i < p THEN s[i] ELSE s[i + 1]
      PROVE  Len(v) <= Len(u) /\ EndsWith(t, v)
  <2>1. \A i \in 1 .. Len(u) : u[i].id = id => before + i = p
    <3>1. \A i \in 1 .. Len(s) : s[i].id = id => i = p
      BY <1>6 DEF Apart
    <3> QED BY <1>2, <3>1
  <2>2. CASE p <= before
    <3>1. v = u
      <4>1. \A i \in 1 .. Len(u) : u[i].id # id
        BY <1>1, <2>1, <2>2
      <4> QED BY <1>3, <4>1
    <3>2. Len(t) - Len(v) = before - 1 /\ before - 1 >= 0
      BY <1>1, <1>6, <2>2, <3>1
    <3>3. ASSUME NEW i \in 1 .. Len(v) PROVE t[before - 1 + i] = s[before + i]
      <4>1. before - 1 + i \in 1 .. Len(t) /\ ~(before - 1 + i < p)
        BY <1>1, <1>6, <2>2, <3>1, <3>2
      <4>2. before - 1 + i + 1 = before + i
        BY <1>1
      <4> QED BY <1>6, <4>1, <4>2
    <3>4. ASSUME NEW i \in 1 .. Len(v)
          PROVE  /\ v[i].id = t[Len(t) - Len(v) + i].id
                 /\ v[i].at <= t[Len(t) - Len(v) + i].seen + MaxLag
      BY <1>2, <3>1, <3>2, <3>3
    <3> QED BY <1>1, <3>1, <3>2, <3>4 DEF EndsWith
  <2>3. CASE p > before
    <3>1. PICK q : q = p - before
      OBVIOUS
    <3>2. q \in 1 .. Len(u) /\ before + q = p
      BY <1>1, <2>3, <3>1
    <3>3. u[q].id = id
      BY <1>2, <1>6, <3>2
    <3>4. /\ Len(v) = Len(u) - 1
          /\ \A i \in 1 .. Len(v) : v[i] = IF i < q THEN u[i] ELSE u[i + 1]
      <4>1. HasEntry(u, id)
        BY <3>2, <3>3 DEF HasEntry
      <4>2. PICK k \in 1 .. Len(u) :
               /\ u[k].id = id
               /\ Len(v) = Len(u) - 1
               /\ \A i \in 1 .. Len(v) : v[i] = IF i < k THEN u[i] ELSE u[i + 1]
        BY <1>3, <4>1
      <4>3. k = q
        BY <1>1, <2>1, <3>2, <4>2
      <4> QED BY <4>2, <4>3
    <3>5. Len(t) - Len(v) = before /\ before >= 0
      BY <1>1, <1>6, <3>4
    <3>6. ASSUME NEW i \in 1 .. Len(v)
          PROVE  \E k \in 1 .. Len(u) : v[i] = u[k] /\ t[before + i] = s[before + k]
      <4>1. before + i \in 1 .. Len(t) /\ i \in 1 .. Len(u) /\ i + 1 \in 1 .. Len(u)
        BY <1>1, <1>6, <3>4
      <4>2. CASE i < q
        <5>1. before + i < p
          BY <1>1, <3>2, <4>2
        <5> QED BY <1>6, <3>4, <4>1, <4>2, <5>1
      <4>3. CASE ~(i < q)
        <5>1. ~(before + i < p) /\ before + i + 1 = before + (i + 1)
          BY <1>1, <3>2, <4>3
        <5> QED BY <1>6, <3>4, <4>1, <4>3, <5>1
      <4> QED BY <4>2, <4>3
    <3>7. ASSUME NEW i \in 1 .. Len(v)
          PROVE  /\ v[i].id = t[Len(t) - Len(v) + i].id
                 /\ v[i].at <= t[Len(t) - Len(v) + i].seen + MaxLag
      BY <1>2, <3>5, <3>6
    <3>8. Len(v) <= Len(u) /\ Len(t) - Len(v) >= 0
      BY <1>1, <3>4, <3>5
    <3> QED BY <1>1, <3>7, <3>8 DEF EndsWith
  <2> QED BY <1>1, <1>3, <2>2, <2>3
<1> QED BY <1>1, <1>3, <1>4, <1>5, <1>6

\* Recent uses without those of one session are recent.
LEMMA RecentWithout ==
    ASSUME NEW u \in Seq(Usage), NEW id, NEW v, v = Without(u, id), Recent(u)
    PROVE  Recent(v)
<1>1. v \in Seq(Usage) /\ Len(u) \in Nat /\ Len(v) \in Nat /\ DOMAIN v = 1 .. Len(v)
  BY WithoutRemoves
<1>2. \/ v = u
      \/ \E p \in 1 .. Len(u) :
            /\ Len(v) = Len(u) - 1
            /\ \A i \in 1 .. Len(v) : v[i] = IF i < p THEN u[i] ELSE u[i + 1]
  BY WithoutRemoves
<1>3. ASSUME NEW p \in 1 .. Len(u), Len(v) = Len(u) - 1,
             \A i \in 1 .. Len(v) : v[i] = IF i < p THEN u[i] ELSE u[i + 1]
      PROVE  Recent(v)
  <2>1. ASSUME NEW i \in 1 .. Len(v)
        PROVE  v[i] = u[Behind(p, i)] /\ Behind(p, i) \in 1 .. Len(u)
    BY <1>1, <1>3 DEF Behind
  <2>2. ASSUME NEW i \in 1 .. Len(v)
        PROVE  v[i].at <= time /\ time - v[i].at <= TTL - MaxLag
    BY <2>1 DEF Recent
  <2>3. ASSUME NEW i \in 1 .. Len(v), NEW j \in i .. Len(v)
        PROVE  v[i].at <= v[j].at
    <3>1. j \in 1 .. Len(v) /\ Behind(p, j) \in Behind(p, i) .. Len(u)
      BY <1>1, <1>3 DEF Behind
    <3> QED BY <2>1, <3>1 DEF Recent
  <2> QED BY <1>1, <2>2, <2>3 DEF Recent
<1> QED BY <1>2, <1>3

\* A session moved to the end of both.
LEMMA EndsWithAppended ==
    ASSUME NEW s \in Seq(Entry), NEW u \in Seq(Usage),
           NEW e \in Entry, NEW f \in Usage,
           e.id = f.id, f.at <= e.seen + MaxLag,
           NEW t, t = Append(s, e), NEW v, v = Append(u, f),
           Apart(s), ~HasEntry(s, e.id), EndsWith(s, u)
    PROVE  t \in Seq(Entry) /\ v \in Seq(Usage) /\ Apart(t) /\ EndsWith(t, v)
<1>1. /\ Len(s) \in Nat /\ Len(u) \in Nat /\ Len(s) >= Len(u)
      /\ t \in Seq(Entry) /\ v \in Seq(Usage)
      /\ Len(t) = Len(s) + 1 /\ Len(v) = Len(u) + 1
      /\ DOMAIN t = 1 .. Len(t) /\ DOMAIN v = 1 .. Len(v)
  BY DEF EndsWith
<1>2. \A i \in 1 .. Len(t) : t[i] = IF i = Len(t) THEN e ELSE s[i]
  BY <1>1
<1>3. \A i \in 1 .. Len(v) : v[i] = IF i = Len(v) THEN f ELSE u[i]
  BY <1>1
<1>4. Apart(t)
  <2>1. \A i \in 1 .. Len(s) : s[i].id # e.id
    BY DEF HasEntry
  <2>2. ASSUME NEW i \in 1 .. Len(t), NEW j \in 1 .. Len(t), t[i].id = t[j].id
        PROVE  i = j
    <3>1. CASE i = Len(t)
      BY <1>1, <1>2, <2>1, <2>2, <3>1
    <3>2. CASE j = Len(t)
      BY <1>1, <1>2, <2>1, <2>2, <3>2
    <3>3. CASE i # Len(t) /\ j # Len(t)
      <4>1. i \in 1 .. Len(s) /\ j \in 1 .. Len(s) /\ s[i].id = s[j].id
        BY <1>1, <1>2, <2>2, <3>3
      <4> QED BY <4>1 DEF Apart
    <3> QED BY <3>1, <3>2, <3>3
  <2> QED BY <1>1, <2>2 DEF Apart
<1>5. ASSUME NEW i \in 1 .. Len(v)
      PROVE  /\ v[i].id = t[Len(t) - Len(v) + i].id
             /\ v[i].at <= t[Len(t) - Len(v) + i].seen + MaxLag
  <2>1. PICK k : k = Len(s) - Len(u) + i
    OBVIOUS
  <2>2. Len(t) - Len(v) + i = k /\ k \in 1 .. Len(t)
    BY <1>1, <2>1
  <2>3. CASE i = Len(v)
    <3>1. k = Len(t)
      BY <1>1, <2>1, <2>3
    <3> QED BY <1>1, <1>2, <1>3, <2>2, <2>3, <3>1
  <2>4. CASE i # Len(v)
    <3>1. k # Len(t) /\ i \in 1 .. Len(u)
      BY <1>1, <2>1, <2>4
    <3>2. u[i].id = s[k].id /\ u[i].at <= s[k].seen + MaxLag
      BY <2>1, <3>1 DEF EndsWith
    <3>3. v[i] = u[i] /\ t[k] = s[k]
      BY <1>2, <1>3, <2>2, <2>4, <3>1
    <3> QED BY <2>2, <3>2, <3>3
  <2> QED BY <2>3, <2>4
<1>6. Len(t) - Len(v) >= 0
  BY <1>1
<1> QED BY <1>1, <1>4, <1>5, <1>6 DEF EndsWith

\* A use now is recent, and the last.
LEMMA RecentAppended ==
    ASSUME NEW u \in Seq(Usage), NEW f \in Usage, f.at = time,
           NEW v, v = Append(u, f), Recent(u)
    PROVE  Recent(v)
<1>1. /\ v \in Seq(Usage) /\ Len(u) \in Nat /\ Len(v) = Len(u) + 1
      /\ DOMAIN v = 1 .. Len(v)
      /\ \A i \in 1 .. Len(v) : v[i] = IF i = Len(v) THEN f ELSE u[i]
  OBVIOUS
<1>2. time \in Nat /\ TTL - MaxLag >= 0
  <2>1. f.at \in 0 .. MaxTime
    BY DEF Usage
  <2> QED BY <2>1, AdmissionAssumption, StoreAssumption
<1>3. ASSUME NEW i \in 1 .. Len(v)
      PROVE  v[i].at <= time /\ time - v[i].at <= TTL - MaxLag
  BY <1>1, <1>2 DEF Recent
<1>4. ASSUME NEW i \in 1 .. Len(v), NEW j \in i .. Len(v)
      PROVE  v[i].at <= v[j].at
  <2>1. CASE j = Len(v)
    BY <1>1, <1>3, <2>1
  <2>2. CASE j # Len(v)
    <3>1. i \in 1 .. Len(u) /\ j \in i .. Len(u) /\ i # Len(v) /\ j \in 1 .. Len(v)
      BY <1>1, <2>2
    <3> QED BY <1>1, <2>2, <3>1 DEF Recent
  <2> QED BY <2>1, <2>2
<1> QED BY <1>1, <1>3, <1>4 DEF Recent

\* Pruning loses no session of used: none has expired, and there is room for
\* them all.
LEMMA PrunedEndsWithUsed ==
    ASSUME AdmissionInv, NEW now \in 0 .. MaxTime, now <= time,
           NEW t, t = Pruned(now)
    PROVE  /\ t \in Seq(Entry) /\ Len(t) <= MaxSessions - 1 /\ Apart(t)
           /\ EndsWith(t, used)
           /\ \A id : HasEntry(t, id) => HasEntry(store, id)
<1> DEFINE P == {i \in DOMAIN store : now - store[i].seen <= TTL}
<1>1. /\ store \in Seq(Entry) /\ Apart(store) /\ used \in Seq(Usage)
      /\ EndsWith(store, used) /\ Recent(used) /\ Len(used) <= MaxSessions - 1
      /\ time \in 0 .. MaxTime
  BY DEF AdmissionInv, AdmissionTypeOK, Entry, Usage
<1>2. MaxSessions \in Nat \ {0} /\ TTL \in Nat /\ MaxLag \in Nat /\ MaxTime \in Nat
  BY AdmissionAssumption, StoreAssumption
<1>3. PICK s, u : s = store /\ u = used
  OBVIOUS
<1>4. s \in Seq(Entry) /\ u \in Seq(Usage) /\ Len(s) \in Nat /\ Len(u) \in Nat
  BY <1>1, <1>3
<1>5. PICK k : k = Len(s) - Len(u)
  OBVIOUS
<1>6. k \in 0 .. Len(s)
  BY <1>1, <1>3, <1>4, <1>5 DEF EndsWith
<1>7. P \in SUBSET (1 .. Len(s))
  BY <1>3, <1>4
<1>8. (k + 1) .. Len(s) \subseteq P
  <2>1. ASSUME NEW i \in (k + 1) .. Len(s) PROVE now - s[i].seen <= TTL
    <3>1. PICK j : j = i - k
      OBVIOUS
    <3>2. j \in 1 .. Len(u) /\ k + j = i /\ i \in 1 .. Len(s)
      BY <1>4, <1>5, <1>6, <3>1
    <3>3. u[j].at <= s[i].seen + MaxLag
      BY <1>1, <1>3, <1>4, <1>5, <3>2 DEF EndsWith
    <3>4. time - u[j].at <= TTL - MaxLag
      BY <1>1, <1>3, <1>4, <3>2 DEF Recent
    <3>5. s[i] \in Entry /\ u[j] \in Usage
      BY <1>4, <3>2
    <3>6. PICK seen, at : seen = s[i].seen /\ at = u[j].at
      OBVIOUS
    <3>7. seen \in Nat /\ at \in Nat /\ now \in Nat /\ time \in Nat
      BY <1>1, <1>2, <3>5, <3>6 DEF Entry, Usage
    <3>8. at <= seen + MaxLag /\ time - at <= TTL - MaxLag
      BY <3>3, <3>4, <3>6
    <3>9. now - seen <= TTL
      BY <1>2, <3>7, <3>8
    <3> QED BY <3>6, <3>9
  <2> QED BY <1>3, <1>4, <1>6, <2>1
<1>9. PICK a, keep : a = Keep(s, keep) /\ keep = P
  OBVIOUS
<1>10. keep \in SUBSET (1 .. Len(s)) /\ (k + 1) .. Len(s) \subseteq keep
  BY <1>7, <1>8, <1>9
<1> HIDE DEF P
<1>11. a \in Seq(Entry) /\ Selection(a, s, keep)
  BY <1>4, <1>9, <1>10, KeepSelects
<1>12. /\ a \in Seq(Entry) /\ Len(a) \in Nat
       /\ \E e \in [1 .. Len(a) -> 1 .. Len(s)] :
             /\ \A m, n \in 1 .. Len(a) : e[m] = e[n] => m = n
             /\ \A n \in 1 .. Len(a) : a[n] = s[e[n]]
  BY <1>11 DEF Selection
<1>13. /\ Len(a) >= Len(s) - k
       /\ \A i \in (k + 1) .. Len(s) : a[Len(a) - (Len(s) - i)] = s[i]
  BY <1>6, <1>10, <1>11 DEF Selection
<1>14. Apart(a) /\ \A i \in 1 .. Len(a) : \E j \in 1 .. Len(s) : a[i] = s[j]
  <2>1. PICK e \in [1 .. Len(a) -> 1 .. Len(s)] :
             /\ \A m, n \in 1 .. Len(a) : e[m] = e[n] => m = n
             /\ \A n \in 1 .. Len(a) : a[n] = s[e[n]]
    BY <1>12
  <2>2. ASSUME NEW m \in 1 .. Len(a), NEW n \in 1 .. Len(a), a[m].id = a[n].id
        PROVE  m = n
    <3>1. e[m] \in 1 .. Len(s) /\ e[n] \in 1 .. Len(s) /\ s[e[m]].id = s[e[n]].id
      BY <2>1, <2>2
    <3>2. e[m] = e[n]
      BY <1>1, <1>3, <1>4, <3>1 DEF Apart
    <3> QED BY <2>1, <3>2
  <2>3. DOMAIN a = 1 .. Len(a)
    BY <1>12
  <2> QED BY <2>1, <2>2, <2>3 DEF Apart
<1>15. \A i \in 1 .. Len(u) :
          /\ u[i].id = a[Len(a) - Len(u) + i].id
          /\ u[i].at <= a[Len(a) - Len(u) + i].seen + MaxLag
  <2>1. TAKE i \in 1 .. Len(u)
  <2>2. PICK j : j = k + i
    OBVIOUS
  <2>3. j \in (k + 1) .. Len(s) /\ Len(a) - (Len(s) - j) = Len(a) - Len(u) + i
    BY <1>4, <1>5, <1>6, <1>12, <2>2
  <2>4. u[i].id = s[j].id /\ u[i].at <= s[j].seen + MaxLag
    <3>1. Len(s) - Len(u) + i = j /\ DOMAIN u = 1 .. Len(u) /\ EndsWith(s, u)
      BY <1>1, <1>3, <1>4, <1>5, <2>2
    <3> QED BY <3>1 DEF EndsWith
  <2> QED BY <1>13, <2>3, <2>4
<1>16. Len(a) >= Len(u)
  BY <1>4, <1>5, <1>13
<1>17. PICK extra : extra = Len(a) - (MaxSessions - 1)
  OBVIOUS
<1>18. t = IF extra > 0 THEN SubSeq(a, extra + 1, Len(a)) ELSE a
  BY <1>3, <1>9, <1>17 DEF Pruned, P
<1>19. PICK gap : /\ gap = Len(a) - Len(t)
                  /\ t \in Seq(Entry) /\ Len(t) \in Nat /\ gap \in Nat
                  /\ Len(t) <= MaxSessions - 1 /\ Len(t) >= Len(u)
                  /\ \A i \in 1 .. Len(t) : t[i] = a[gap + i]
  <2>1. CASE extra > 0
    <3>1. extra \in 1 .. Len(a)
      BY <1>2, <1>12, <1>17, <2>1
    <3>2. t = SubSeq(a, extra + 1, Len(a))
      BY <1>18, <2>1
    <3>3. t \in Seq(Entry) /\ Len(t) = Len(a) - extra
      BY <1>12, <3>1, <3>2
    <3>4. \A i \in 1 .. Len(t) : t[i] = a[extra + i]
      BY <1>12, <3>1, <3>2, <3>3
    <3>5. Len(t) = MaxSessions - 1 /\ Len(a) - Len(t) = extra
      BY <1>2, <1>12, <1>17, <3>1, <3>3
    <3> QED BY <1>1, <1>2, <1>3, <1>4, <3>1, <3>3, <3>4, <3>5
  <2>2. CASE ~(extra > 0)
    <3>1. t = a /\ Len(a) <= MaxSessions - 1
      BY <1>2, <1>12, <1>17, <1>18, <2>2
    <3> QED BY <1>12, <1>16, <3>1
  <2> QED BY <2>1, <2>2
<1>20. \A i \in 1 .. Len(t) : gap + i \in 1 .. Len(a)
  BY <1>12, <1>19
<1>21. Apart(t)
  <2>1. ASSUME NEW m \in 1 .. Len(t), NEW n \in 1 .. Len(t), t[m].id = t[n].id
        PROVE  m = n
    <3>1. a[gap + m].id = a[gap + n].id
      BY <1>19, <2>1
    <3>2. gap + m = gap + n
      BY <1>12, <1>14, <1>20, <3>1 DEF Apart
    <3> QED BY <1>19, <3>2
  <2>2. DOMAIN t = 1 .. Len(t)
    BY <1>19
  <2> QED BY <2>1, <2>2 DEF Apart
<1>22. EndsWith(t, u)
  <2>1. ASSUME NEW i \in 1 .. Len(u)
        PROVE  /\ u[i].id = t[Len(t) - Len(u) + i].id
               /\ u[i].at <= t[Len(t) - Len(u) + i].seen + MaxLag
    <3>1. PICK j : j = Len(t) - Len(u) + i
      OBVIOUS
    <3>2. j \in 1 .. Len(t) /\ gap + j = Len(a) - Len(u) + i
      BY <1>4, <1>12, <1>19, <3>1
    <3> QED BY <1>15, <1>19, <3>1, <3>2
  <2>2. Len(t) - Len(u) >= 0
    BY <1>4, <1>19
  <2> QED BY <1>4, <2>1, <2>2 DEF EndsWith
<1>23. ASSUME NEW id, HasEntry(t, id) PROVE HasEntry(store, id)
  <2>1. PICK i \in 1 .. Len(t) : t[i].id = id
    BY <1>19, <1>23 DEF HasEntry
  <2>2. PICK j \in 1 .. Len(s) : a[gap + i] = s[j]
    BY <1>14, <1>20
  <2>3. s[j].id = id
    BY <1>19, <2>1, <2>2
  <2> QED BY <1>3, <1>4, <2>3 DEF HasEntry
<1> QED BY <1>3, <1>19, <1>21, <1>22, <1>23

\* The larger of two integers.
LEMMA MaxOfTwo ==
    ASSUME NEW a \in Int, NEW b \in Int
    PROVE  Max({a, b}) = IF a >= b THEN a ELSE b
<1>1. PICK m \in {a, b} : \A y \in {a, b} : m >= y
  OBVIOUS
<1>2. Max({a, b}) \in {a, b} /\ \A y \in {a, b} : Max({a, b}) >= y
  BY <1>1 DEF Max
<1> QED BY <1>2

\* What the store and the history of it have to be.
StoreOK(s, u) ==
    /\ s \in Seq(Entry) /\ Len(s) <= MaxSessions /\ Apart(s)
    /\ u \in Seq(Usage) /\ Len(u) <= MaxSessions - 1 /\ Recent(u)
    /\ EndsWith(s, u)

\* The invariant says so of the store as it is.
LEMMA InvStoreOK ==
    ASSUME AdmissionInv
    PROVE  StoreOK(store, used) /\ time \in 0 .. MaxTime
  BY DEF AdmissionInv, AdmissionTypeOK, StoreOK, Entry, Usage

\* A session that is used goes to the end of both, and at most MaxSessions - 1
\* are remembered as used.
LEMMA UseKeeps ==
    ASSUME NEW s \in Seq(Entry), Len(s) <= MaxSessions - 1, Apart(s),
           NEW u \in Seq(Usage), Recent(u), EndsWith(s, u),
           NEW id \in Ids, NEW now \in 0 .. MaxTime, now >= time - MaxLag,
           time \in 0 .. MaxTime, NEW v,
           Use(id), used = u, used' = v,
           NEW t, t = Append(Without(s, id), [id |-> id, seen |-> now])
    PROVE  StoreOK(t, v)
<1>1. PICK w, x, f, all :
         /\ w = Without(s, id) /\ x = Without(u, id)
         /\ f = [id |-> id, at |-> time] /\ all = Append(x, f)
  OBVIOUS
<1>2. PICK e : e = [id |-> id, seen |-> now]
  OBVIOUS
<1>3. e \in Entry /\ f \in Usage /\ e.id = f.id /\ f.at <= e.seen + MaxLag /\ f.at = time
  BY <1>1, <1>2, AdmissionAssumption DEF Entry, Usage
<1>4. /\ w \in Seq(Entry) /\ Apart(w) /\ ~HasEntry(w, id) /\ Len(w) <= Len(s)
      /\ x \in Seq(Usage) /\ EndsWith(w, x) /\ Recent(x)
  BY <1>1, ApartWithout, EndsWithWithout, RecentWithout
<1>5. t = Append(w, e) /\ e.id = id
  BY <1>1, <1>2
<1>6. t \in Seq(Entry) /\ all \in Seq(Usage) /\ Apart(t) /\ EndsWith(t, all)
  <2>1. ~HasEntry(w, e.id)
    BY <1>4, <1>5
  <2>2. w \in Seq(Entry) /\ x \in Seq(Usage) /\ Apart(w) /\ EndsWith(w, x)
    BY <1>4
  <2>3. all = Append(x, f)
    BY <1>1
  <2> QED BY <1>3, <1>5, <2>1, <2>2, <2>3, EndsWithAppended
<1>7. Recent(all)
  BY <1>1, <1>3, <1>4, RecentAppended
<1>8. PICK m : m = Max({1, Len(all) - MaxSessions + 2})
  OBVIOUS
<1>9. Len(all) \in Nat /\ Len(all) >= 1 /\ MaxSessions \in Nat \ {0}
  <2>1. Len(all) = Len(x) + 1 /\ Len(x) \in Nat
    BY <1>1, <1>4
  <2> QED BY <2>1, <1>6, StoreAssumption
<1>10. m = IF 1 >= Len(all) - MaxSessions + 2 THEN 1 ELSE Len(all) - MaxSessions + 2
  <2>1. Len(all) - MaxSessions + 2 \in Int
    BY <1>9
  <2> QED BY <1>8, <2>1, MaxOfTwo
<1>11. v = SubSeq(all, m, Len(all))
  BY <1>1, <1>8 DEF Use
<1>12. m \in 1 .. (Len(all) + 1)
  BY <1>9, <1>10
<1>13. /\ v \in Seq(Usage) /\ Len(v) = Len(all) - m + 1
       /\ \A i \in 1 .. Len(v) : v[i] = all[m - 1 + i]
  <2>1. CASE m = Len(all) + 1
    <3>1. v = <<>>
      BY <1>6, <1>9, <1>11, <2>1
    <3> QED BY <1>9, <2>1, <3>1
  <2>2. CASE m \in 1 .. Len(all)
    BY <1>6, <1>9, <1>11, <2>2
  <2> QED BY <1>9, <1>12, <2>1, <2>2
<1>14. IsEnd(v, all) /\ Len(v) <= MaxSessions - 1
  BY <1>9, <1>10, <1>12, <1>13 DEF IsEnd
<1>15. EndsWith(t, v) /\ Recent(v)
  BY <1>6, <1>7, <1>13, <1>14, EndsWithAnEnd, RecentEnd
<1>16. Len(t) <= MaxSessions
  <2>1. Len(t) = Len(w) + 1 /\ Len(w) \in Nat /\ Len(s) \in Nat
    BY <1>3, <1>4, <1>5
  <2> QED BY <1>4, <1>9, <2>1
<1> QED BY <1>6, <1>13, <1>14, <1>15, <1>16 DEF StoreOK

\* A session taken out of both leaves what has to be.
LEMMA WithoutKeeps ==
    ASSUME NEW s, NEW u, StoreOK(s, u), NEW id
    PROVE  StoreOK(Without(s, id), Without(u, id))
<1>1. PICK t, v : t = Without(s, id) /\ v = Without(u, id)
  OBVIOUS
<1>2. s \in Seq(Entry) /\ u \in Seq(Usage) /\ Apart(s) /\ EndsWith(s, u) /\ Recent(u)
  BY DEF StoreOK
<1>3. t \in Seq(Entry) /\ Apart(t) /\ Len(t) <= Len(s)
  BY <1>1, <1>2, ApartWithout
<1>4. v \in Seq(Usage) /\ Len(v) <= Len(u) /\ EndsWith(t, v)
  BY <1>1, <1>2, EndsWithWithout
<1>5. Recent(v)
  BY <1>1, <1>2, RecentWithout
<1>6. Len(t) <= MaxSessions /\ Len(v) <= MaxSessions - 1
  <2>1. Len(t) \in Nat /\ Len(s) \in Nat /\ Len(u) \in Nat /\ Len(v) \in Nat
    BY <1>2, <1>3, <1>4
  <2> QED BY <1>3, <1>4, <2>1, StoreAssumption DEF StoreOK
<1> QED BY <1>1, <1>3, <1>4, <1>5, <1>6 DEF StoreOK

\* No two entries are of one session, so there are as many sessions as entries.
LEMMA CountOfApart ==
    ASSUME NEW s \in Seq(Entry), Apart(s)
    PROVE  Cardinality({s[i].id : i \in DOMAIN s}) = Len(s)
<1> DEFINE S == {s[i].id : i \in DOMAIN s}
           f == [i \in 1 .. Len(s) |-> s[i].id]
<1>1. Len(s) \in Nat /\ DOMAIN s = 1 .. Len(s)
  OBVIOUS
<1>2. f \in [1 .. Len(s) -> S]
  BY <1>1
<1>3. \A a, b \in 1 .. Len(s) : f[a] = f[b] => a = b
  BY <1>1 DEF Apart
<1>4. \A x \in S : \E i \in 1 .. Len(s) : f[i] = x
  BY <1>1
<1>5. f \in Bijection(1 .. Len(s), S)
  <2> HIDE DEF f, S
  <2> QED BY <1>2, <1>3, <1>4, Fun_IsBij
<1>6. ExistsBijection(1 .. Len(s), S)
  BY <1>5 DEF ExistsBijection
<1> HIDE DEF S
<1>7. Cardinality(S) = Len(s)
  BY <1>1, <1>6, FS_CountingElements
<1> QED BY <1>7 DEF S

-----------------------------------------------------------------------------
(* Requests: what a route has left to do.                                   *)

Begun == {<<"upstream">>, <<"check", "get">>, <<"get">>, <<"delete">>}

\* These are among the rests of routes that the type invariant names.
LEMMA BegunIsARest ==
    ASSUME NEW todo \in Begun
    PROVE  todo \in {<<>>} \cup UNION {Rests(p) : p \in Plans}
<1>1. <<"upstream">> = SubSeq(Opening, 2, 2) /\ Len(Opening) = 2
  BY DEF Opening
<1>2. <<"check", "get">> = SubSeq(Tool, 2, 3) /\ Len(Tool) = 3
  BY DEF Tool
<1>3. <<"get">> = SubSeq(Tool, 3, 3)
  BY DEF Tool
<1>4. <<"delete">> = SubSeq(Ending, 2, 2) /\ Len(Ending) = 2
  BY DEF Ending
<1>5. <<"upstream">> \in Rests(Opening)
  BY <1>1 DEF Rests
<1>6. <<"check", "get">> \in Rests(Tool) /\ <<"get">> \in Rests(Tool)
  BY <1>2, <1>3 DEF Rests
<1>7. <<"delete">> \in Rests(Ending)
  BY <1>4 DEF Rests
<1> QED BY <1>5, <1>6, <1>7 DEF Begun, Plans

\* The request that takes a step: one that is under way or that has just arrived.
Todos ==
    {Opening, Tool, Listening, Ending, Limited} \cup Begun

\* What is left of a route after one step is one of these.
LEMMA TailsAreBegun ==
    ASSUME NEW todo \in Todos, Len(todo) > 1
    PROVE  Tail(todo) \in Begun /\ todo # Limited
<1>1. CASE todo = Opening
  <2>1. Tail(todo) = <<"upstream">> /\ todo # Limited
    BY <1>1 DEF Opening, Limited
  <2> QED BY <2>1 DEF Begun
<1>2. CASE todo = Tool
  <2>1. Tail(todo) = <<"check", "get">> /\ todo # Limited
    BY <1>2 DEF Tool, Limited
  <2> QED BY <2>1 DEF Begun
<1>3. CASE todo = Listening \/ todo = <<"check", "get">>
  <2>1. CASE todo = Listening
    <3>1. Tail(todo) = <<"get">> /\ todo # Limited
      BY <2>1 DEF Listening, Limited
    <3> QED BY <3>1 DEF Begun
  <2>2. CASE todo = <<"check", "get">>
    <3>1. Tail(todo) = <<"get">> /\ Len(todo) = 2 /\ Len(Limited) = 1
      BY <2>2 DEF Limited
    <3> QED BY <3>1 DEF Begun
  <2> QED BY <1>3, <2>1, <2>2
<1>4. CASE todo = Ending
  <2>1. Tail(todo) = <<"delete">> /\ todo # Limited
    BY <1>4 DEF Ending, Limited
  <2> QED BY <2>1 DEF Begun
<1>5. CASE todo \in {Limited, <<"upstream">>, <<"get">>, <<"delete">>}
  <2>1. Len(todo) = 1
    BY <1>5 DEF Limited
  <2> QED BY <2>1
<1> QED BY <1>1, <1>2, <1>3, <1>4, <1>5 DEF Todos, Begun

\* What the type and the invariant say of a request that takes a step.
LEMMA TakingIs ==
    ASSUME AdmissionInv, NEW r \in Requests, NEW step, NEW q \in Taking(r, step)
    PROVE  /\ q \in [todo : Todos, key : Keys, since : 0 .. MaxTime]
           /\ q.todo \in Todos /\ Head(q.todo) = step
           /\ q.key \in Keys /\ (q.todo # Limited => q.key \in Ids)
           /\ q.since \in 0 .. MaxTime /\ q.since <= time
           /\ q.todo = Opening => q.key \in Fresh
<1>1. /\ request \in [Requests -> Request] /\ RequestOK(r) /\ issued \subseteq Ids
      /\ time \in 0 .. MaxTime
  BY DEF AdmissionInv, AdmissionTypeOK
<1>2. Ids \subseteq Keys /\ Callers \subseteq Keys /\ MaxTime \in Nat
  BY AdmissionAssumption
<1>3. Head(q.todo) = step
  BY DEF Taking
<1>4. CASE q \in Arriving
  BY <1>1, <1>2, <1>3, <1>4 DEF Arriving, Todos, Fresh, Begun, Opening, Tool, Listening, Ending, Limited
<1>5. CASE q = request[r] /\ q # Idle
  <2>1. q \in Request
    BY <1>1, <1>5
  <2>2. q.todo \in Begun /\ q.key \in Ids /\ q.since <= time
    BY <1>1, <1>5 DEF RequestOK, Begun
  <2>3. q \in [todo : Todos, key : Keys, since : 0 .. MaxTime] /\ q.since \in 0 .. MaxTime
    <3>1. PICK T, K : q \in [todo : T, key : K, since : 0 .. MaxTime]
      BY <2>1, Zenon DEF Request
    <3>2. q.todo \in Todos /\ q.key \in Keys
      BY <1>2, <2>2 DEF Todos
    <3> QED BY <3>1, <3>2
  <2>4. q.todo # Opening
    BY <2>2 DEF Begun, Opening
  <2> QED BY <1>2, <1>3, <2>2, <2>3, <2>4 DEF Todos
<1> QED BY <1>4, <1>5 DEF Taking

\* What is left of a request after a step is a request in progress.
LEMMA ContinueKeeps ==
    ASSUME AdmissionInv, NEW r \in Requests, NEW step, NEW q \in Taking(r, step),
           NEW ok \in BOOLEAN, Continue(r, q, ok), UNCHANGED time
    PROVE  /\ request' \in [Requests -> Request]
           /\ \A p \in Requests : RequestOK(p)'
           /\ arrived' \in 0 .. MaxRequests
<1>1. /\ request \in [Requests -> Request] /\ \A p \in Requests : RequestOK(p)
      /\ time \in 0 .. MaxTime /\ arrived \in 0 .. MaxRequests
  BY DEF AdmissionInv, AdmissionTypeOK
<1>2. MaxTime \in Nat /\ MaxRequests \in Nat /\ Ids \subseteq Keys
  BY AdmissionAssumption
<1>3. /\ q \in [todo : Todos, key : Keys, since : 0 .. MaxTime]
      /\ q.todo \in Todos /\ (q.todo # Limited => q.key \in Ids)
  BY TakingIs
<1>4. arrived' \in 0 .. MaxRequests
  BY <1>1, <1>2 DEF Continue
<1>6. Len(q.todo) > 1 => Tail(q.todo) \in Begun /\ q.todo # Limited
  BY <1>3, TailsAreBegun
<1> DEFINE Todo == {<<>>} \cup UNION {Rests(p) : p \in Plans}
<1>5. PICK f : /\ request' = [request EXCEPT ![r] = f]
               /\ f \in Request
               /\ f = Idle \/ (f.todo \in Begun /\ f.key \in Ids /\ f.since <= time)
  <2>1. CASE ok /\ Len(q.todo) > 1
    <3>1. PICK since \in {0, time} :
             request' = [request EXCEPT ![r] = [q EXCEPT !.todo = Tail(@), !.since = since]]
      BY <2>1 DEF Continue
    <3>2. PICK rest, g : rest = Tail(q.todo) /\ g = [q EXCEPT !.todo = rest, !.since = since]
      OBVIOUS
    <3>3. rest \in Begun /\ q.key \in Ids
      BY <1>3, <1>6, <2>1, <3>2
    <3>4. rest \in Todo
      BY <3>3, BegunIsARest
    <3>5. since \in 0 .. MaxTime /\ since <= time
      BY <1>1, <1>2
    <3>6. g.todo = rest /\ g.key = q.key /\ g.since = since
      BY <1>3, <3>2
    <3> HIDE DEF Todo
    <3>7. g \in [todo : Todo, key : Keys, since : 0 .. MaxTime]
      BY <1>3, <3>2, <3>4, <3>5
    <3>8. g \in Request
      BY <3>7 DEF Request, Todo
    <3> QED BY <3>1, <3>2, <3>3, <3>5, <3>6, <3>8
  <2>2. CASE ~(ok /\ Len(q.todo) > 1)
    <3>1. request' = [request EXCEPT ![r] = Idle]
      BY <2>2 DEF Continue
    <3>2. Idle \in Request
      BY <1>2 DEF Idle, Request
    <3> QED BY <3>1, <3>2
  <2> QED BY <2>1, <2>2
<1>9. request' \in [Requests -> Request]
  BY <1>1, <1>5
<1>10. ASSUME NEW p \in Requests PROVE RequestOK(p)'
  <2>1. CASE p = r
    <3>1. request'[p] = f
      BY <1>1, <1>5, <2>1
    <3> QED BY <1>5, <3>1 DEF RequestOK, Begun
  <2>2. CASE p # r
    <3>1. request'[p] = request[p]
      BY <1>1, <1>5, <2>2
    <3> QED BY <1>1, <3>1 DEF RequestOK
  <2> QED BY <2>1, <2>2
<1> QED BY <1>4, <1>9, <1>10

\* The instant a request has read lies between the delay of the lock and now.
LEMMA InstantsAre ==
    ASSUME AdmissionInv, NEW r \in Requests, NEW step, NEW q \in Taking(r, step),
           NEW now \in Instants(q)
    PROVE  now \in 0 .. MaxTime /\ now <= time /\ now >= time - MaxLag
<1>1. q.since \in 0 .. MaxTime /\ time \in 0 .. MaxTime /\ MaxLag \in Nat /\ MaxTime \in Nat
  BY TakingIs, AdmissionAssumption DEF AdmissionInv, AdmissionTypeOK
<1>2. PICK a, b : a = q.since /\ b = time - MaxLag
  OBVIOUS
<1>3. a \in Int /\ b \in Int
  BY <1>1, <1>2
<1>4. Max({a, b}) = IF a >= b THEN a ELSE b
  BY <1>3, MaxOfTwo
<1>5. now \in Max({a, b}) .. time
  BY <1>2 DEF Instants
<1> QED BY <1>1, <1>2, <1>3, <1>4, <1>5

-----------------------------------------------------------------------------
(* The steps of the store.                                                  *)

\* What a step leaves alone if only the store and its history may change.
LEMMA StoreStep ==
    ASSUME AdmissionInv, StoreOK(store, used)',
           UNCHANGED <<limiterVars, time, admitted>>,
           issued' \subseteq Ids,
           request' \in [Requests -> Request],
           \A p \in Requests : RequestOK(p)',
           arrived' \in 0 .. MaxRequests
    PROVE  AdmissionInv'
<1>1. PICK s, u : s = store' /\ u = used'
  OBVIOUS
<1>2. s \in Seq(Entry) /\ Len(s) <= MaxSessions /\ Apart(s)
  BY <1>1 DEF StoreOK
<1>3. Cardinality({s[i].id : i \in DOMAIN s}) = Len(s)
  BY <1>2, CountOfApart
<1>4. Cardinality(Stored') = Len(store')
  BY <1>1, <1>3 DEF Stored
<1>5. AdmissionTypeOK'
  BY <1>1, <1>2, <1>4 DEF AdmissionInv, AdmissionTypeOK, Entry, limiterVars
<1>6. /\ used' \in Seq([id : Ids, at : 0 .. MaxTime])
      /\ Apart(store') /\ EndsWith(store, used)' /\ Len(used') <= MaxSessions - 1 /\ Recent(used)'
  BY DEF StoreOK, Usage
<1>7. /\ \A k \in Keys : Backs(EventsOf(k), admitted[k])' /\ Lately(admitted[k])'
      /\ SweptLately' /\ admitted' \in [Keys -> Seq(0 .. MaxTime)]
  BY DEF AdmissionInv, limiterVars, EventsOf, Backs, Lately, SweptLately
<1> QED BY <1>5, <1>6, <1>7 DEF AdmissionInv, Apart

\* CreateSession keeps the invariant: the fresh session becomes the last of both.
LEMMA CreateKeeps ==
    ASSUME AdmissionInv, NEW r \in Requests, CreateSession(r)
    PROVE  AdmissionInv'
<1>1. PICK q \in Taking(r, "create") :
          /\ \E now \in Instants(q) : Create(q.key, now)
          /\ Use(q.key)
          /\ Continue(r, q, TRUE)
          /\ UNCHANGED <<limiterVars, time, issued, admitted>>
  BY DEF CreateSession
<1>2. PICK now \in Instants(q) : Create(q.key, now)
  BY <1>1
<1>3. now \in 0 .. MaxTime /\ now <= time /\ now >= time - MaxLag
  BY InstantsAre
<1>4. q.key \in Fresh
  <2>1. q.todo \in Todos /\ Head(q.todo) = "create"
    BY TakingIs
  <2>2. q.todo = Opening
    BY <2>1 DEF Todos, Begun, Opening, Tool, Listening, Ending, Limited
  <2> QED BY <2>2, TakingIs
<1>5. PICK id, s, u, t, v : /\ id = q.key /\ s = Pruned(now) /\ u = used
                            /\ t = store' /\ v = used'
  OBVIOUS
<1>6. id \in Ids /\ ~HasEntry(store, id)
  BY <1>4, <1>5 DEF Fresh, Stored, HasEntry
<1>7. /\ s \in Seq(Entry) /\ Len(s) <= MaxSessions - 1 /\ Apart(s)
      /\ EndsWith(s, u) /\ ~HasEntry(s, id)
  BY <1>3, <1>5, <1>6, PrunedEndsWithUsed
<1>8. u \in Seq(Usage) /\ Recent(u) /\ time \in 0 .. MaxTime
  BY <1>5, InvStoreOK DEF StoreOK
<1>9. Without(s, id) = s
  BY <1>7, WithoutRemoves DEF HasEntry
<1>10. t = Append(Without(s, id), [id |-> id, seen |-> now])
  BY <1>2, <1>5, <1>9 DEF Create
<1>11. Use(id)
  BY <1>1, <1>5
<1>12. StoreOK(t, v)
  BY <1>3, <1>5, <1>6, <1>7, <1>8, <1>10, <1>11, UseKeeps
<1>13. StoreOK(store, used)'
  BY <1>1, <1>5, <1>12 DEF StoreOK, Recent
<1>14. /\ request' \in [Requests -> Request]
       /\ \A p \in Requests : RequestOK(p)'
       /\ arrived' \in 0 .. MaxRequests
  BY <1>1, ContinueKeeps
<1> QED BY <1>1, <1>13, <1>14, StoreStep DEF AdmissionInv, AdmissionTypeOK

\* GetSession keeps it: a session that is found moves to the end of both.
LEMMA GetKeeps ==
    ASSUME AdmissionInv, NEW r \in Requests, GetSession(r)
    PROVE  AdmissionInv'
<1>1. PICK q \in Taking(r, "get") : \E now \in Instants(q) :
          /\ Get(q.key, now)
          /\ IF Finds(q.key, now) THEN Use(q.key) ELSE UNCHANGED used
          /\ \E owned \in BOOLEAN : Continue(r, q, Finds(q.key, now) /\ owned)
          /\ UNCHANGED <<limiterVars, time, issued, admitted>>
  BY DEF GetSession
<1>2. PICK now \in Instants(q) :
          /\ Get(q.key, now)
          /\ IF Finds(q.key, now) THEN Use(q.key) ELSE UNCHANGED used
          /\ \E owned \in BOOLEAN : Continue(r, q, Finds(q.key, now) /\ owned)
          /\ UNCHANGED <<limiterVars, time, issued, admitted>>
  BY <1>1
<1>3. now \in 0 .. MaxTime /\ now <= time /\ now >= time - MaxLag
  BY InstantsAre
<1>4. q.key \in Ids
  <2>1. q.todo \in Todos /\ Head(q.todo) = "get"
    BY TakingIs
  <2>2. q.todo # Limited
    BY <2>1 DEF Limited
  <2> QED BY <2>2, TakingIs
<1>5. PICK id, s, u, t, v : /\ id = q.key /\ s = Pruned(now) /\ u = used
                            /\ t = store' /\ v = used'
  OBVIOUS
<1>6. /\ s \in Seq(Entry) /\ Len(s) <= MaxSessions - 1 /\ Apart(s)
      /\ EndsWith(s, u)
  BY <1>3, <1>5, PrunedEndsWithUsed
<1>7. /\ u \in Seq(Usage) /\ Recent(u) /\ time \in 0 .. MaxTime
      /\ Len(u) <= MaxSessions - 1
  BY <1>5, InvStoreOK DEF StoreOK
<1>8. StoreOK(t, v)
  <2>1. CASE HasEntry(s, id)
    <3>1. t = Append(Without(s, id), [id |-> id, seen |-> now])
      BY <1>2, <1>5, <2>1 DEF Get
    <3>2. Use(id) /\ id \in Ids
      BY <1>2, <1>4, <1>5, <2>1 DEF Finds
    <3> QED BY <1>3, <1>5, <1>6, <1>7, <3>1, <3>2, UseKeeps
  <2>2. CASE ~HasEntry(s, id)
    <3>1. t = s /\ v = u
      BY <1>2, <1>5, <2>2 DEF Get, Finds
    <3>2. Len(s) <= MaxSessions
      <4>1. Len(s) \in Nat
        BY <1>6
      <4> QED BY <1>6, <4>1, StoreAssumption
    <3> QED BY <1>6, <1>7, <3>1, <3>2 DEF StoreOK
  <2> QED BY <2>1, <2>2
<1>9. StoreOK(store, used)'
  BY <1>2, <1>5, <1>8 DEF StoreOK, Recent
<1>10. /\ request' \in [Requests -> Request]
       /\ \A p \in Requests : RequestOK(p)'
       /\ arrived' \in 0 .. MaxRequests
  <2>1. PICK ok \in BOOLEAN : Continue(r, q, ok)
    <3>1. PICK owned \in BOOLEAN : Continue(r, q, Finds(q.key, now) /\ owned)
      BY <1>2
    <3>2. (Finds(q.key, now) /\ owned) \in BOOLEAN
      OBVIOUS
    <3> QED BY <3>1, <3>2
  <2> QED BY <1>2, <2>1, ContinueKeeps
<1> QED BY <1>2, <1>9, <1>10, StoreStep DEF AdmissionInv, AdmissionTypeOK

\* Upstream keeps it: the session is taken back from both, or given out.
LEMMA UpstreamKeeps ==
    ASSUME AdmissionInv, NEW r \in Requests, Upstream(r)
    PROVE  AdmissionInv'
<1>1. PICK q \in Taking(r, "upstream") :
          /\ \/ Delete(q.key) /\ Forget(q.key) /\ UNCHANGED issued
             \/ issued' = issued \cup {q.key} /\ UNCHANGED <<store, used>>
          /\ Continue(r, q, TRUE)
          /\ UNCHANGED <<limiterVars, time, admitted>>
  BY DEF Upstream
<1>2. q.key \in Ids
  <2>1. q.todo \in Todos /\ Head(q.todo) = "upstream"
    BY TakingIs
  <2>2. q.todo # Limited
    BY <2>1 DEF Limited
  <2> QED BY <2>2, TakingIs
<1>3. issued' \subseteq Ids
  BY <1>1, <1>2 DEF AdmissionInv, AdmissionTypeOK
<1>4. StoreOK(store, used)'
  <2>1. PICK id, s, u : id = q.key /\ s = store /\ u = used
    OBVIOUS
  <2>2. StoreOK(s, u) /\ StoreOK(Without(s, id), Without(u, id))
    BY <2>1, InvStoreOK, WithoutKeeps
  <2>3. \/ store' = Without(s, id) /\ used' = Without(u, id)
        \/ store' = s /\ used' = u
    BY <1>1, <2>1 DEF Delete, Forget
  <2> QED BY <1>1, <2>2, <2>3 DEF StoreOK, Recent
<1>5. /\ request' \in [Requests -> Request]
      /\ \A p \in Requests : RequestOK(p)'
      /\ arrived' \in 0 .. MaxRequests
  BY <1>1, ContinueKeeps
<1> QED BY <1>1, <1>3, <1>4, <1>5, StoreStep

\* EndSession keeps it: the session leaves both.
LEMMA EndKeeps ==
    ASSUME AdmissionInv, NEW r \in Requests, EndSession(r)
    PROVE  AdmissionInv'
<1>1. PICK q \in Taking(r, "delete") :
          /\ Delete(q.key) /\ Forget(q.key)
          /\ Continue(r, q, TRUE)
          /\ UNCHANGED <<limiterVars, time, issued, admitted>>
  BY DEF EndSession
<1>2. StoreOK(store, used)'
  <2>1. PICK id, s, u : id = q.key /\ s = store /\ u = used
    OBVIOUS
  <2>2. StoreOK(Without(s, id), Without(u, id))
    BY <2>1, InvStoreOK, WithoutKeeps
  <2>3. store' = Without(s, id) /\ used' = Without(u, id)
    BY <1>1, <2>1 DEF Delete, Forget
  <2> QED BY <1>1, <2>2, <2>3 DEF StoreOK, Recent
<1>3. /\ request' \in [Requests -> Request]
      /\ \A p \in Requests : RequestOK(p)'
      /\ arrived' \in 0 .. MaxRequests
  BY <1>1, ContinueKeeps
<1> QED BY <1>1, <1>2, <1>3, StoreStep DEF AdmissionInv, AdmissionTypeOK

-----------------------------------------------------------------------------
(* The steps of the limiter.                                                *)

Instant == 0 .. MaxTime

\* The type of what a clock shows.
LEMMA InstantsAreNumbers == Instant \subseteq Nat /\ 0 .. MaxTime = Instant
  BY AdmissionAssumption DEF Instant

\* An instant that backs an admission has not expired by the clock of any request.
LEMMA BackedIsFresh ==
    ASSUME NEW queue \in Seq(Instant), NEW at \in Seq(Instant),
           Backs(queue, at), Lately(at), time \in 0 .. MaxTime,
           NEW now \in 0 .. MaxTime, now <= time, NEW i \in 1 .. Len(at)
    PROVE  /\ Len(queue) - Len(at) + i \in 1 .. Len(queue)
           /\ now - queue[Len(queue) - Len(at) + i] < Window
<1>1. Len(queue) \in Nat /\ Len(at) \in Nat /\ Len(queue) >= Len(at)
  BY DEF Backs
<1>2. PICK j, x, y : j = Len(queue) - Len(at) + i /\ x = queue[j] /\ y = at[i]
  OBVIOUS
<1>3. j \in 1 .. Len(queue)
  BY <1>1, <1>2
<1>4. x \in Nat /\ y \in Nat
  <2>1. queue[j] \in Instant
    BY <1>3
  <2>2. at[i] \in Instant
    OBVIOUS
  <2> QED BY <1>2, <2>1, <2>2, InstantsAreNumbers
<1>5. y <= x + MaxLag /\ y <= time /\ time - y < Window - MaxLag
  BY <1>2 DEF Backs, Lately
<1>6. MaxLag \in Nat /\ Window \in Nat /\ MaxTime \in Nat
  BY AdmissionAssumption, LimiterAssumption
<1>7. now - x < Window
  BY <1>4, <1>5, <1>6
<1> QED BY <1>2, <1>3, <1>7

\* Taking the expired instants from the front takes none that backs an admission.
LEMMA CurrentIsBacking ==
    ASSUME NEW queue \in Seq(Instant), NEW at \in Seq(Instant),
           Backs(queue, at), Lately(at), time \in 0 .. MaxTime,
           NEW now \in 0 .. MaxTime, now <= time,
           NEW current,
           current = FromFirst(queue, {i \in DOMAIN queue : now - queue[i] < Window})
    PROVE  /\ current \in Seq(Instant) /\ Len(current) <= Len(queue)
           /\ Backs(current, at)
           /\ current # <<>> => Last(current) = Last(queue)
<1> DEFINE Unexpired == {i \in DOMAIN queue : now - queue[i] < Window}
<1>1. Len(queue) \in Nat /\ Len(at) \in Nat /\ Len(queue) >= Len(at)
  BY DEF Backs
<1>2. Unexpired \in SUBSET (1 .. Len(queue))
  OBVIOUS
<1>3. /\ current \in Seq(Instant) /\ Len(current) <= Len(queue)
      /\ \A i \in 1 .. Len(current) : current[i] = queue[Len(queue) - Len(current) + i]
      /\ \A p \in Unexpired : p > Len(queue) - Len(current)
  <2>1. PICK P : P = Unexpired
    OBVIOUS
  <2>2. P \in SUBSET (1 .. Len(queue)) /\ current = FromFirst(queue, P)
    BY <1>2, <2>1
  <2>3. /\ current \in Seq(Instant) /\ Len(current) <= Len(queue)
        /\ \A i \in 1 .. Len(current) : current[i] = queue[Len(queue) - Len(current) + i]
        /\ \A p \in P : p > Len(queue) - Len(current)
    <3>1. PICK R : R = Instant
      OBVIOUS
    <3>2. queue \in Seq(R)
      BY <3>1
    <3>3. current \in Seq(R) /\ EndFrom(current, queue, P)
      BY <2>2, <3>2, FromFirstIsTheEnd
    <3> QED BY <3>1, <3>3 DEF EndFrom, IsEnd
  <2> HIDE DEF Unexpired
  <2> QED BY <2>1, <2>3
<1>4. Len(current) \in Nat
  BY <1>3
<1>5. Len(current) >= Len(at)
  <2>1. CASE Len(at) = 0
    BY <1>4, <2>1
  <2>2. CASE Len(at) # 0
    <3>1. 1 \in 1 .. Len(at)
      BY <1>1, <2>2
    <3>2. PICK j : j = Len(queue) - Len(at) + 1
      OBVIOUS
    <3>3. j \in 1 .. Len(queue) /\ now - queue[j] < Window
      BY <3>1, <3>2, BackedIsFresh
    <3>4. j \in Unexpired
      BY <3>3
    <3> QED BY <1>1, <1>3, <1>4, <3>2, <3>4
  <2> QED BY <2>1, <2>2
<1>6. ASSUME NEW i \in 1 .. Len(at)
      PROVE  at[i] <= current[Len(current) - Len(at) + i] + MaxLag
  <2>1. PICK j : j = Len(current) - Len(at) + i
    OBVIOUS
  <2>2. j \in 1 .. Len(current) /\ Len(queue) - Len(current) + j = Len(queue) - Len(at) + i
    BY <1>1, <1>4, <1>5, <2>1
  <2>3. current[j] = queue[Len(queue) - Len(at) + i]
    BY <1>3, <2>2
  <2>4. at[i] <= queue[Len(queue) - Len(at) + i] + MaxLag
    BY DEF Backs
  <2> QED BY <2>1, <2>3, <2>4
<1>7. Backs(current, at)
  <2>1. DOMAIN at = 1 .. Len(at) /\ Len(current) - Len(at) >= 0
    BY <1>1, <1>4, <1>5
  <2> QED BY <1>6, <2>1 DEF Backs
<1>8. ASSUME current # <<>> PROVE Last(current) = Last(queue)
  <2>1. Len(current) \in 1 .. Len(current)
    BY <1>3, <1>4, <1>8
  <2>2. current[Len(current)] = queue[Len(queue) - Len(current) + Len(current)]
    BY <1>3, <2>1
  <2>3. Len(queue) - Len(current) + Len(current) = Len(queue)
    BY <1>1, <1>4
  <2> QED BY <2>2, <2>3 DEF Last
<1> QED BY <1>3, <1>7, <1>8

\* An admission and the instant it is remembered by.
LEMMA BacksAppended ==
    ASSUME NEW queue \in Seq(Instant), NEW at \in Seq(Instant),
           Backs(queue, at), Lately(at), time \in 0 .. MaxTime,
           NEW now \in 0 .. MaxTime, now >= time - MaxLag,
           NEW s, s = Append(queue, now), NEW v, v = Append(at, time)
    PROVE  s \in Seq(Instant) /\ v \in Seq(Instant) /\ Backs(s, v) /\ Lately(v)
<1>1. PICK t : t = time
  OBVIOUS
<1>2. t \in Instant /\ now \in Instant /\ v = Append(at, t)
  BY <1>1, InstantsAreNumbers
<1>3. /\ Len(queue) \in Nat /\ Len(at) \in Nat /\ Len(queue) >= Len(at)
      /\ s \in Seq(Instant) /\ v \in Seq(Instant)
      /\ Len(s) = Len(queue) + 1 /\ Len(v) = Len(at) + 1
      /\ DOMAIN v = 1 .. Len(v) /\ DOMAIN at = 1 .. Len(at)
  BY <1>2 DEF Backs
<1>4. /\ \A i \in 1 .. Len(s) : s[i] = IF i = Len(s) THEN now ELSE queue[i]
      /\ \A i \in 1 .. Len(v) : v[i] = IF i = Len(v) THEN t ELSE at[i]
  BY <1>2, <1>3
<1>5. MaxLag \in Nat /\ Window \in Nat /\ MaxTime \in Nat /\ MaxLag < Window
  BY AdmissionAssumption, LimiterAssumption
<1>6. ASSUME NEW i \in 1 .. Len(v)
      PROVE  v[i] <= s[Len(s) - Len(v) + i] + MaxLag /\ v[i] <= t /\ t - v[i] < Window - MaxLag
  <2>1. PICK j : j = Len(queue) - Len(at) + i
    OBVIOUS
  <2>2. Len(s) - Len(v) + i = j /\ j \in 1 .. Len(s)
    BY <1>3, <2>1
  <2>3. CASE i = Len(v)
    <3>1. j = Len(s)
      BY <1>3, <2>1, <2>3
    <3> QED BY <1>1, <1>2, <1>4, <1>5, <2>2, <2>3, <3>1
  <2>4. CASE i # Len(v)
    <3>1. j # Len(s) /\ i \in 1 .. Len(at)
      BY <1>3, <2>1, <2>4
    <3>2. at[i] <= queue[j] + MaxLag
      BY <1>3, <2>1, <3>1 DEF Backs
    <3>3. at[i] <= t /\ t - at[i] < Window - MaxLag
      BY <1>1, <1>3, <3>1 DEF Lately
    <3> QED BY <1>4, <2>2, <2>4, <3>1, <3>2, <3>3
  <2> QED BY <2>3, <2>4
<1>7. ASSUME NEW i \in 1 .. Len(v), NEW j \in i .. Len(v) PROVE v[i] <= v[j]
  <2>1. CASE j = Len(v)
    BY <1>3, <1>4, <1>6, <2>1
  <2>2. CASE j # Len(v)
    <3>1. i \in 1 .. Len(at) /\ j \in i .. Len(at) /\ i # Len(v) /\ j \in 1 .. Len(v)
      BY <1>3, <2>2
    <3> QED BY <1>4, <2>2, <3>1 DEF Lately
  <2> QED BY <2>1, <2>2
<1>8. Len(s) - Len(v) >= 0
  BY <1>3
<1> QED BY <1>1, <1>3, <1>6, <1>7, <1>8 DEF Backs, Lately

\* What the limiter remembers of the keys when it looks at this one.
Queue(key, now) == IF key \in DOMAIN Swept(now) THEN Swept(now)[key] ELSE <<>>

\* The sweep takes no key that was admitted lately, and no event of another key.
LEMMA SweptKeeps ==
    ASSUME AdmissionInv, NEW now \in 0 .. MaxTime, now <= time
    PROVE  /\ DOMAIN Swept(now) \subseteq DOMAIN events
           /\ \A k \in DOMAIN Swept(now) :
                 /\ Swept(now)[k] = events[k]
                 /\ SweepDue(now) => now - Last(events[k]) < Window
           /\ \A k \in Keys : admitted[k] # <<>> => k \in DOMAIN Swept(now)
<1>1. /\ events \in [DOMAIN events -> Seq(Instant)]
      /\ admitted \in [Keys -> Seq(Instant)] /\ time \in 0 .. MaxTime
      /\ \A k \in DOMAIN events : k \in Keys /\ Len(events[k]) \in 1 .. LimitOf[k]
      /\ \A k \in Keys : Backs(EventsOf(k), admitted[k]) /\ Lately(admitted[k])
  BY DEF AdmissionInv, AdmissionTypeOK, Instant
<1>2. ASSUME NEW k \in Keys, admitted[k] # <<>>
      PROVE  k \in DOMAIN events /\ now - Last(events[k]) < Window
  <2>1. PICK at : at = admitted[k]
    OBVIOUS
  <2>2. PICK queue : queue = EventsOf(k)
    OBVIOUS
  <2>3. at \in Seq(Instant) /\ Len(at) \in Nat /\ Len(at) # 0
    BY <1>1, <1>2, <2>1
  <2>4. Backs(queue, at) /\ Lately(at)
    BY <1>1, <2>1, <2>2
  <2>5. k \in DOMAIN events
    <3>1. CASE k \notin DOMAIN events
      <4>1. queue = <<>> /\ Len(queue) = 0
        BY <2>2, <3>1 DEF EventsOf
      <4>2. Len(queue) - Len(at) >= 0
        BY <2>4 DEF Backs
      <4> QED BY <2>3, <4>1, <4>2
    <3> QED BY <3>1
  <2>6. queue = events[k] /\ queue \in Seq(Instant) /\ Len(queue) \in Nat
    BY <1>1, <2>2, <2>5 DEF EventsOf
  <2>7. PICK i : i = Len(at)
    OBVIOUS
  <2>8. i \in 1 .. Len(at)
    BY <2>3, <2>7
  <2>9. now - queue[Len(queue) - Len(at) + i] < Window
    BY <1>1, <2>3, <2>4, <2>6, <2>8, BackedIsFresh
  <2>10. Len(queue) - Len(at) + i = Len(queue)
    BY <2>3, <2>6, <2>7
  <2> QED BY <2>5, <2>6, <2>9, <2>10 DEF Last
<1>3. CASE SweepDue(now)
  <2>1. Swept(now) = [k \in DOMAIN events \ Stale(now) |-> events[k]]
    BY <1>3 DEF Swept, Restrict
  <2>2. \A k \in DOMAIN events \ Stale(now) : ~(now - Last(events[k]) >= Window)
    BY DEF Stale
  <2>3. ASSUME NEW k \in DOMAIN events PROVE Last(events[k]) \in Int
    <3>1. PICK queue : queue = events[k]
      OBVIOUS
    <3>2. queue \in Seq(Instant) /\ Len(queue) \in 1 .. Len(queue)
      BY <1>1, <3>1
    <3>3. queue[Len(queue)] \in Instant
      BY <3>2
    <3>4. Last(events[k]) = queue[Len(queue)]
      BY <3>1 DEF Last
    <3>5. Last(events[k]) \in Instant
      BY <3>3, <3>4
    <3>6. Last(events[k]) \in Nat
      BY <3>5, InstantsAreNumbers, Zenon
    <3> QED BY <3>6
  <2>4. now \in Int /\ Window \in Int
    BY LimiterAssumption
  <2>5. \A k \in DOMAIN events \ Stale(now) : now - Last(events[k]) < Window
    BY <2>2, <2>3, <2>4
  <2>6. \A k \in DOMAIN events : now - Last(events[k]) < Window => k \notin Stale(now)
    BY <2>3, <2>4 DEF Stale
  <2> QED BY <1>2, <2>1, <2>5, <2>6
<1>4. CASE ~SweepDue(now)
  BY <1>2, <1>4 DEF Swept
<1> QED BY <1>3, <1>4

\* What is remembered of a key when the limiter looks at it.
LEMMA QueueIs ==
    ASSUME AdmissionInv, NEW now \in 0 .. MaxTime, now <= time, NEW key \in Keys,
           NEW queue, queue = Queue(key, now)
    PROVE  /\ queue \in Seq(Instant) /\ Len(queue) <= LimitOf[key]
           /\ Backs(queue, admitted[key])
           /\ queue # <<>> => /\ lastSweep - Last(queue) < Window
                              /\ SweepDue(now) => now - Last(queue) < Window
<1>1. /\ events \in [DOMAIN events -> Seq(Instant)]
      /\ admitted \in [Keys -> Seq(Instant)]
      /\ \A k \in DOMAIN events : k \in Keys /\ Len(events[k]) \in 1 .. LimitOf[k]
      /\ \A k \in Keys : Backs(EventsOf(k), admitted[k])
      /\ \A k \in DOMAIN events : lastSweep - Last(events[k]) < Window
  BY DEF AdmissionInv, AdmissionTypeOK, SweptLately, Instant
<1>2. LimitOf[key] \in Nat
  BY LimiterAssumption
<1>3. CASE key \in DOMAIN Swept(now)
  <2>1. key \in DOMAIN events /\ queue = events[key] /\ EventsOf(key) = events[key]
    BY <1>3, SweptKeeps DEF Queue, EventsOf
  <2>2. SweepDue(now) => now - Last(events[key]) < Window
    BY <1>3, SweptKeeps
  <2>3. queue \in Seq(Instant) /\ Len(queue) <= LimitOf[key]
    BY <1>1, <1>2, <2>1
  <2> QED BY <1>1, <2>1, <2>2, <2>3
<1>4. CASE key \notin DOMAIN Swept(now)
  <2>1. queue = <<>> /\ admitted[key] = <<>>
    BY <1>4, SweptKeeps DEF Queue
  <2>2. Len(<<>>) = 0 /\ <<>> \in Seq(Instant) /\ DOMAIN <<>> = {}
    OBVIOUS
  <2>3. Backs(<<>>, <<>>)
    BY <2>2 DEF Backs
  <2> QED BY <1>2, <2>1, <2>2, <2>3
<1> QED BY <1>3, <1>4

\* What the critical section of the limiter leaves: at least one event and at most
\* the limit for the key it looked at, and what was there for those it did not sweep.
Leaves(key, now, current, left) ==
    /\ current \in Seq(Instant) /\ Backs(current, admitted[key])
    /\ left \in Seq(Instant) /\ Len(left) \in 1 .. LimitOf[key]
    /\ lastSweep' - Last(left) < Window
    /\ DOMAIN events' = DOMAIN Swept(now) \cup {key}
    /\ events'[key] = left
    /\ \A k \in DOMAIN events' \ {key} : events'[k] = events[k]

\* The critical section does so for every request and instant.
LEMMA CheckLeaves ==
    ASSUME AdmissionInv, NEW now \in 0 .. MaxTime, now <= time, now >= time - MaxLag,
           NEW key \in Keys, Check(key, now),
           NEW current, current = Current(key, now),
           NEW left, left = IF Admits(key, now) THEN Append(current, now) ELSE current
    PROVE  Leaves(key, now, current, left)
<1>1. PICK queue : queue = Queue(key, now)
  OBVIOUS
<1>2. /\ queue \in Seq(Instant) /\ Len(queue) <= LimitOf[key]
      /\ Backs(queue, admitted[key])
      /\ queue # <<>> => /\ lastSweep - Last(queue) < Window
                         /\ SweepDue(now) => now - Last(queue) < Window
  BY <1>1, QueueIs
<1>3. /\ admitted[key] \in Seq(Instant) /\ Lately(admitted[key])
      /\ time \in 0 .. MaxTime /\ lastSweep \in 0 .. MaxTime /\ lastSweep <= time
  BY DEF AdmissionInv, AdmissionTypeOK, SweptLately, Instant
<1>4. current = FromFirst(queue, {i \in DOMAIN queue : now - queue[i] < Window})
  BY <1>1 DEF Current, Queue
<1>5. PICK at : at = admitted[key]
  OBVIOUS
<1>6. /\ current \in Seq(Instant) /\ Len(current) <= Len(queue)
      /\ Backs(current, at)
      /\ current # <<>> => Last(current) = Last(queue)
  BY <1>2, <1>3, <1>4, <1>5, CurrentIsBacking
<1>7. /\ LimitOf[key] \in Nat \ {0} /\ Window \in Nat \ {0} /\ MaxTime \in Nat
      /\ MaxLag \in Nat /\ MaxLag < Window
      /\ Len(current) \in Nat /\ Len(queue) \in Nat
  BY <1>2, <1>6, LimiterAssumption, AdmissionAssumption
<1>8. /\ events' = [k \in DOMAIN Swept(now) \cup {key} |->
                      IF k = key THEN left ELSE Swept(now)[k]]
      /\ lastSweep' = IF SweepDue(now) THEN now ELSE lastSweep
  BY DEF Check
<1>9. /\ DOMAIN events' = DOMAIN Swept(now) \cup {key}
      /\ events'[key] = left
      /\ \A k \in DOMAIN events' \ {key} : events'[k] = Swept(now)[k]
  BY <1>8
<1>10. /\ left \in Seq(Instant) /\ Len(left) \in 1 .. LimitOf[key]
       /\ lastSweep' - Last(left) < Window
  <2>1. CASE Admits(key, now)
    <3>1. left = Append(current, now) /\ Len(current) < LimitOf[key]
      BY <2>1 DEF Admits
    <3>2. left \in Seq(Instant) /\ Len(left) = Len(current) + 1 /\ left[Len(left)] = now
      <4>1. now \in Instant
        BY DEF Instant
      <4> QED BY <1>6, <3>1, <4>1
    <3>3. Len(left) \in 1 .. LimitOf[key] /\ Last(left) = now
      BY <1>7, <3>1, <3>2 DEF Last
    <3>4. lastSweep' - now < Window
      BY <1>3, <1>7, <1>8
    <3> QED BY <3>2, <3>3, <3>4
  <2>2. CASE ~Admits(key, now)
    <3>1. left = current /\ ~(Len(current) < LimitOf[key])
      BY <2>2 DEF Admits
    <3>2. Len(left) \in 1 .. LimitOf[key] /\ left # <<>> /\ queue # <<>>
      <4>1. Len(left) \in 1 .. LimitOf[key] /\ Len(queue) # 0
        BY <1>2, <1>6, <1>7, <3>1
      <4>2. Len(<<>>) = 0
        OBVIOUS
      <4> QED BY <4>1, <4>2
    <3>3. lastSweep' - Last(queue) < Window
      BY <1>2, <1>8, <3>2
    <3> QED BY <1>6, <3>1, <3>2, <3>3
  <2> QED BY <2>1, <2>2
<1>11. \A k \in DOMAIN events' \ {key} : events'[k] = events[k]
  BY <1>9, SweptKeeps
<1> QED BY <1>5, <1>6, <1>9, <1>10, <1>11 DEF Leaves

\* CheckLimit keeps the invariant: what it forgets backs no recent admission.
LEMMA CheckKeeps ==
    ASSUME AdmissionInv, NEW r \in Requests, CheckLimit(r)
    PROVE  AdmissionInv'
<1>1. PICK q \in Taking(r, "check") : \E now \in Instants(q) :
          /\ Check(q.key, now)
          /\ Continue(r, q, Admits(q.key, now))
          /\ admitted' = IF Admits(q.key, now)
                         THEN [admitted EXCEPT ![q.key] = Append(@, time)]
                         ELSE admitted
          /\ UNCHANGED <<store, time, issued, used>>
  BY DEF CheckLimit
<1>2. PICK now \in Instants(q) :
          /\ Check(q.key, now)
          /\ Continue(r, q, Admits(q.key, now))
          /\ admitted' = IF Admits(q.key, now)
                         THEN [admitted EXCEPT ![q.key] = Append(@, time)]
                         ELSE admitted
          /\ UNCHANGED <<store, time, issued, used>>
  BY <1>1
<1>3. now \in 0 .. MaxTime /\ now <= time /\ now >= time - MaxLag
  BY InstantsAre
<1>4. PICK key, current, left :
          /\ key = q.key /\ current = Current(q.key, now)
          /\ left = IF Admits(q.key, now) THEN Append(current, now) ELSE current
  OBVIOUS
<1>5. key \in Keys
  BY <1>4, TakingIs
<1>6. /\ current \in Seq(Instant) /\ Backs(current, admitted[key])
      /\ left \in Seq(Instant) /\ Len(left) \in 1 .. LimitOf[key]
      /\ lastSweep' - Last(left) < Window
      /\ DOMAIN events' = DOMAIN Swept(now) \cup {key}
      /\ events'[key] = left
      /\ \A k \in DOMAIN events' \ {key} : events'[k] = events[k]
  <2>1. /\ Check(key, now) /\ current = Current(key, now)
        /\ left = IF Admits(key, now) THEN Append(current, now) ELSE current
    BY <1>2, <1>4
  <2>2. Leaves(key, now, current, left)
    BY <1>3, <1>5, <2>1, CheckLeaves
  <2> QED BY <2>2 DEF Leaves
<1>7. /\ events \in [DOMAIN events -> Seq(Instant)]
      /\ \A k \in DOMAIN events : k \in Keys /\ Len(events[k]) \in 1 .. LimitOf[k]
      /\ admitted \in [Keys -> Seq(Instant)]
      /\ time \in 0 .. MaxTime /\ lastSweep \in 0 .. MaxTime /\ lastSweep <= time
      /\ \A k \in Keys : Backs(EventsOf(k), admitted[k]) /\ Lately(admitted[k])
  BY DEF AdmissionInv, AdmissionTypeOK, SweptLately, Instant
<1>8. /\ DOMAIN Swept(now) \subseteq DOMAIN events
      /\ \A k \in DOMAIN Swept(now) : SweepDue(now) => now - Last(events[k]) < Window
      /\ \A k \in Keys : admitted[k] # <<>> => k \in DOMAIN Swept(now)
  BY <1>3, SweptKeeps
<1>9. lastSweep' = IF SweepDue(now) THEN now ELSE lastSweep
  BY <1>2 DEF Check
<1>10. events' \in [DOMAIN events' -> Seq(Instant)]
  <2>1. \A k \in DOMAIN events' : events'[k] \in Seq(Instant)
    BY <1>6, <1>7, <1>8
  <2>2. events' = [k \in DOMAIN events' |-> events'[k]]
    BY <1>2 DEF Check
  <2> QED BY <2>1, <2>2
<1>11. \A k \in DOMAIN events' : k \in Keys /\ Len(events'[k]) \in 1 .. LimitOf[k]
  BY <1>5, <1>6, <1>7, <1>8
<1>12. lastSweep' \in 0 .. MaxTime /\ lastSweep' <= time'
  BY <1>2, <1>3, <1>7, <1>9
<1>13. SweptLately'
  <2>1. ASSUME NEW k \in DOMAIN events' PROVE lastSweep' - Last(events'[k]) < Window
    <3>1. CASE k = key
      BY <1>6, <3>1
    <3>2. CASE k # key
      <4>1. k \in DOMAIN Swept(now) /\ k \in DOMAIN events /\ events'[k] = events[k]
        BY <1>6, <1>8, <3>2
      <4>2. lastSweep - Last(events[k]) < Window
        BY <4>1 DEF AdmissionInv, SweptLately, Instant
      <4> QED BY <1>8, <1>9, <4>1, <4>2
    <3> QED BY <3>1, <3>2
  <2> QED BY <1>12, <2>1 DEF SweptLately
<1>14. ASSUME NEW k \in Keys
       PROVE  /\ admitted'[k] \in Seq(Instant)
              /\ Backs(EventsOf(k), admitted[k])' /\ Lately(admitted[k])'
  <2>1. CASE k = key
    <3>1. PICK at, v : at = admitted[k] /\ v = admitted'[k]
      OBVIOUS
    <3>2. at \in Seq(Instant) /\ Backs(current, at) /\ Lately(at)
      BY <1>6, <1>7, <2>1, <3>1
    <3>3. EventsOf(k)' = left
      BY <1>6, <2>1 DEF EventsOf
    <3>4. v \in Seq(Instant) /\ Backs(left, v) /\ Lately(v)
      <4>1. CASE Admits(q.key, now)
        <5>1. left = Append(current, now) /\ v = Append(at, time)
          BY <1>2, <1>4, <1>7, <2>1, <3>1, <4>1
        <5> QED BY <1>3, <1>6, <1>7, <3>2, <5>1, BacksAppended
      <4>2. CASE ~Admits(q.key, now)
        BY <1>2, <1>4, <3>1, <3>2, <4>2
      <4> QED BY <4>1, <4>2
    <3>5. Backs(left, v)' /\ Lately(v)'
      BY <1>2, <3>4 DEF Backs, Lately
    <3> QED BY <3>1, <3>3, <3>4, <3>5 DEF Backs, Lately
  <2>2. CASE k # key
    <3>1. admitted'[k] = admitted[k]
      BY <1>2, <1>4, <1>7, <2>2
    <3>2. PICK at : at = admitted[k]
      OBVIOUS
    <3>3. at \in Seq(Instant) /\ Backs(EventsOf(k), at) /\ Lately(at)
      BY <1>7, <3>2
    <3>4. Lately(at)'
      BY <1>2, <3>3 DEF Lately
    <3>5. Backs(EventsOf(k)', at)
      <4>1. CASE k \in DOMAIN Swept(now)
        <5>1. EventsOf(k)' = EventsOf(k)
          BY <1>6, <1>8, <2>2, <4>1 DEF EventsOf
        <5> QED BY <3>3, <5>1
      <4>2. CASE k \notin DOMAIN Swept(now)
        <5>1. at = <<>> /\ EventsOf(k)' = <<>>
          BY <1>6, <1>8, <2>2, <3>2, <4>2 DEF EventsOf
        <5>2. Len(<<>>) = 0 /\ DOMAIN <<>> = {}
          OBVIOUS
        <5>3. Backs(<<>>, <<>>)
          BY <5>2 DEF Backs
        <5> QED BY <5>1, <5>3
      <4> QED BY <4>1, <4>2
    <3> QED BY <3>1, <3>2, <3>3, <3>4, <3>5 DEF Backs, Lately
  <2> QED BY <2>1, <2>2
<1>15. admitted' \in [Keys -> Seq(Instant)]
  BY <1>2, <1>7, <1>14
<1>16. /\ request' \in [Requests -> Request]
       /\ \A p \in Requests : RequestOK(p)'
       /\ arrived' \in 0 .. MaxRequests
  <2>1. PICK ok \in BOOLEAN : Continue(r, q, ok)
    <3>1. Admits(q.key, now) \in BOOLEAN
      BY DEF Admits
    <3> QED BY <1>2, <3>1
  <2> QED BY <1>2, <2>1, ContinueKeeps
<1>17. AdmissionTypeOK'
  <2>1. events' \in [DOMAIN events' -> Seq(0 .. MaxTime)]
    BY <1>10 DEF Instant
  <2> QED BY <1>2, <1>11, <1>12, <1>16, <2>1 DEF AdmissionInv, AdmissionTypeOK, Stored
<1>18. /\ used' \in Seq([id : Ids, at : 0 .. MaxTime])
       /\ Apart(store)' /\ EndsWith(store, used)' /\ Len(used') <= MaxSessions - 1
       /\ Recent(used)'
  BY <1>2 DEF AdmissionInv, Apart, EndsWith, Recent, Instant
<1> QED BY <1>13, <1>14, <1>15, <1>16, <1>17, <1>18 DEF AdmissionInv, Instant

-----------------------------------------------------------------------------
(* The clock.                                                               *)

\* A history without its oldest instants still backs what the limiter remembers.
LEMMA BacksAnEnd ==
    ASSUME NEW queue \in Seq(Instant), NEW at \in Seq(Instant),
           NEW t \in Seq(Instant), IsEnd(t, at), Backs(queue, at)
    PROVE  Backs(queue, t)
<1>1. /\ Len(queue) \in Nat /\ Len(at) \in Nat /\ Len(t) \in Nat /\ Len(t) <= Len(at)
      /\ Len(at) <= Len(queue) /\ DOMAIN t = 1 .. Len(t)
  BY DEF IsEnd, Backs
<1>2. ASSUME NEW i \in 1 .. Len(t)
      PROVE  t[i] <= queue[Len(queue) - Len(t) + i] + MaxLag
  <2>1. PICK j : j = Len(at) - Len(t) + i
    OBVIOUS
  <2>2. /\ j \in 1 .. Len(at) /\ t[i] = at[j]
        /\ Len(queue) - Len(at) + j = Len(queue) - Len(t) + i
    BY <1>1, <2>1 DEF IsEnd
  <2>3. at[j] <= queue[Len(queue) - Len(at) + j] + MaxLag
    BY <2>2 DEF Backs
  <2> QED BY <2>2, <2>3
<1>3. Len(queue) - Len(t) >= 0
  BY <1>1
<1> QED BY <1>1, <1>2, <1>3 DEF Backs

\* A tick leaves the end of a history that is still recent after it: as it is in
\* order, all from the first recent instant on.
LEMMA TickLeavesLately ==
    ASSUME NEW at \in Seq(Instant), Lately(at),
           time \in 0 .. MaxTime, time' = time + 1,
           NEW t, t = FromFirst(at, {i \in DOMAIN at : time' - at[i] < Window - MaxLag})
    PROVE  t \in Seq(Instant) /\ IsEnd(t, at) /\ Lately(t)'
<1>1. PICK P, R, now : /\ P = {i \in DOMAIN at : time' - at[i] < Window - MaxLag}
                       /\ R = Instant /\ now = time'
  OBVIOUS
<1>2. P \in SUBSET (1 .. Len(at)) /\ t = FromFirst(at, P) /\ at \in Seq(R)
  BY <1>1
<1>3. /\ t \in Seq(R) /\ Len(t) <= Len(at)
      /\ \A i \in 1 .. Len(t) : t[i] = at[Len(at) - Len(t) + i]
      /\ t # <<>> => Len(at) - Len(t) + 1 \in P
  <2>1. t \in Seq(R) /\ EndFrom(t, at, P)
    BY <1>2, FromFirstIsTheEnd
  <2> QED BY <2>1 DEF EndFrom, IsEnd
<1>4. /\ Len(at) \in Nat /\ Len(t) \in Nat /\ DOMAIN t = 1 .. Len(t)
      /\ Window \in Nat /\ MaxLag \in Nat /\ MaxTime \in Nat /\ now \in Nat
      /\ now = time + 1
  BY <1>1, <1>3, LimiterAssumption, AdmissionAssumption
<1>5. ASSUME NEW i \in 1 .. Len(t)
      PROVE  /\ t[i] <= now /\ now - t[i] < Window - MaxLag
             /\ \A j \in i .. Len(t) : t[i] <= t[j]
  <2>1. PICK first, k : first = Len(at) - Len(t) + 1 /\ k = Len(at) - Len(t) + i
    OBVIOUS
  <2>2. first \in 1 .. Len(at) /\ k \in first .. Len(at) /\ t[i] = at[k]
    BY <1>3, <1>4, <2>1
  <2>3. t # <<>>
    BY <1>4
  <2>4. now - at[first] < Window - MaxLag
    BY <1>1, <1>3, <2>1, <2>3
  <2>5. at[first] \in Nat /\ at[k] \in Nat
    <3>1. first \in 1 .. Len(at) /\ k \in 1 .. Len(at)
      BY <1>4, <2>2
    <3>2. at[first] \in Instant /\ at[k] \in Instant
      BY <3>1
    <3> QED BY <3>2, InstantsAreNumbers
  <2>6. at[first] <= at[k] /\ at[k] <= time
    BY <2>2 DEF Lately
  <2>7. t[i] <= now /\ now - t[i] < Window - MaxLag
    BY <1>4, <2>2, <2>4, <2>5, <2>6
  <2>8. ASSUME NEW j \in i .. Len(t) PROVE t[i] <= t[j]
    <3>1. PICK l : l = Len(at) - Len(t) + j
      OBVIOUS
    <3>2. l \in k .. Len(at) /\ k \in 1 .. Len(at) /\ t[j] = at[l]
      BY <1>3, <1>4, <2>1, <3>1
    <3> QED BY <2>2, <3>2 DEF Lately
  <2> QED BY <2>7, <2>8
<1>6. IsEnd(t, at)
  BY <1>3 DEF IsEnd
<1> QED BY <1>1, <1>3, <1>4, <1>5, <1>6 DEF Lately

\* The same of the sessions used last.
LEMMA TickLeavesRecent ==
    ASSUME NEW u \in Seq(Usage), Recent(u),
           time \in 0 .. MaxTime, time' = time + 1,
           NEW t, t = FromFirst(u, {i \in DOMAIN u : time' - u[i].at <= TTL - MaxLag})
    PROVE  t \in Seq(Usage) /\ IsEnd(t, u) /\ Recent(t)'
<1>1. PICK P, now : /\ P = {i \in DOMAIN u : time' - u[i].at <= TTL - MaxLag}
                    /\ now = time'
  OBVIOUS
<1>2. P \in SUBSET (1 .. Len(u)) /\ t = FromFirst(u, P)
  BY <1>1
<1>3. /\ t \in Seq(Usage) /\ Len(t) <= Len(u)
      /\ \A i \in 1 .. Len(t) : t[i] = u[Len(u) - Len(t) + i]
      /\ t # <<>> => Len(u) - Len(t) + 1 \in P
  <2>1. t \in Seq(Usage) /\ EndFrom(t, u, P)
    BY <1>2, FromFirstIsTheEnd
  <2> QED BY <2>1 DEF EndFrom, IsEnd
<1>4. /\ Len(u) \in Nat /\ Len(t) \in Nat /\ DOMAIN t = 1 .. Len(t)
      /\ TTL \in Nat /\ MaxLag \in Nat /\ MaxTime \in Nat /\ now \in Nat
      /\ now = time + 1
  BY <1>1, <1>3, StoreAssumption, AdmissionAssumption
<1>5. ASSUME NEW i \in 1 .. Len(t)
      PROVE  /\ t[i].at <= now /\ now - t[i].at <= TTL - MaxLag
             /\ \A j \in i .. Len(t) : t[i].at <= t[j].at
  <2>1. PICK first, k : first = Len(u) - Len(t) + 1 /\ k = Len(u) - Len(t) + i
    OBVIOUS
  <2>2. first \in 1 .. Len(u) /\ k \in first .. Len(u) /\ t[i] = u[k]
    BY <1>3, <1>4, <2>1
  <2>3. t # <<>>
    BY <1>4
  <2>4. now - u[first].at <= TTL - MaxLag
    BY <1>1, <1>3, <2>1, <2>3
  <2>5. u[first].at \in 0 .. MaxTime /\ u[k].at \in 0 .. MaxTime
    <3>1. u[first] \in Usage /\ u[k] \in Usage
      BY <2>2
    <3> QED BY <3>1 DEF Usage
  <2>6. u[first].at <= u[k].at /\ u[k].at <= time
    BY <2>2 DEF Recent
  <2>7. t[i].at <= now /\ now - t[i].at <= TTL - MaxLag
    BY <1>4, <2>2, <2>4, <2>5, <2>6
  <2>8. ASSUME NEW j \in i .. Len(t) PROVE t[i].at <= t[j].at
    <3>1. PICK l : l = Len(u) - Len(t) + j
      OBVIOUS
    <3>2. l \in k .. Len(u) /\ k \in 1 .. Len(u) /\ t[j] = u[l]
      BY <1>3, <1>4, <2>1, <3>1
    <3> QED BY <2>2, <3>2 DEF Recent
  <2> QED BY <2>7, <2>8
<1>6. IsEnd(t, u)
  BY <1>3 DEF IsEnd
<1> QED BY <1>1, <1>3, <1>4, <1>5, <1>6 DEF Recent

\* Tick keeps the invariant: both histories lose their oldest entries only.
LEMMA TickKeeps ==
    ASSUME AdmissionInv, Tick
    PROVE  AdmissionInv'
<1>1. /\ time \in 0 .. MaxTime /\ time < MaxTime /\ time' = time + 1
      /\ UNCHANGED <<events, lastSweep, store, issued, arrived>>
      /\ MaxTime \in Nat /\ MaxLag \in Nat
  BY AdmissionAssumption DEF AdmissionInv, AdmissionTypeOK, Tick, limiterVars, Instant
<1>2. /\ admitted \in [Keys -> Seq(Instant)]
      /\ events \in [DOMAIN events -> Seq(Instant)]
      /\ \A k \in Keys : Backs(EventsOf(k), admitted[k]) /\ Lately(admitted[k])
      /\ request \in [Requests -> Request] /\ \A r \in Requests : RequestOK(r)
      /\ lastSweep \in 0 .. MaxTime
  BY DEF AdmissionInv, AdmissionTypeOK, Instant
<1>3. ASSUME NEW k \in Keys
      PROVE  /\ admitted'[k] \in Seq(Instant)
             /\ Backs(EventsOf(k), admitted[k])' /\ Lately(admitted[k])'
  <2>1. PICK queue, at, t : queue = EventsOf(k) /\ at = admitted[k] /\ t = admitted'[k]
    OBVIOUS
  <2>2. t = FromFirst(at, {i \in DOMAIN at : time' - at[i] < Window - MaxLag})
    BY <2>1 DEF Tick
  <2>3. /\ at \in Seq(Instant) /\ queue \in Seq(Instant)
        /\ Lately(at) /\ Backs(queue, at)
    BY <1>2, <2>1 DEF EventsOf
  <2>4. t \in Seq(Instant) /\ IsEnd(t, at) /\ Lately(t)'
    BY <1>1, <2>2, <2>3, TickLeavesLately
  <2>5. Backs(queue, t)
    BY <2>3, <2>4, BacksAnEnd
  <2>6. EventsOf(k)' = queue
    BY <1>1, <2>1 DEF EventsOf
  <2> QED BY <2>1, <2>4, <2>5, <2>6 DEF Backs, Lately
<1>4. admitted' \in [Keys -> Seq(Instant)]
  <2>1. admitted' = [k \in Keys |-> admitted'[k]]
    BY DEF Tick
  <2> QED BY <1>3, <2>1
<1>5. StoreOK(store, used)'
  <2>1. PICK s, u, t : s = store /\ u = used /\ t = used'
    OBVIOUS
  <2>2. StoreOK(s, u)
    BY <2>1, InvStoreOK
  <2>3. t = FromFirst(u, {i \in DOMAIN u : time' - u[i].at <= TTL - MaxLag})
    BY <2>1 DEF Tick
  <2>4. t \in Seq(Usage) /\ IsEnd(t, u) /\ Recent(t)'
    BY <1>1, <2>2, <2>3, TickLeavesRecent DEF StoreOK
  <2>5. EndsWith(s, t)
    BY <2>2, <2>4, EndsWithAnEnd DEF StoreOK
  <2>6. Len(t) <= MaxSessions - 1
    <3>1. Len(t) \in Nat /\ Len(u) \in Nat /\ MaxSessions \in Nat
      BY <2>2, <2>4, StoreAssumption DEF StoreOK
    <3> QED BY <2>2, <2>4, <3>1 DEF StoreOK, IsEnd
  <2> QED BY <1>1, <2>1, <2>2, <2>4, <2>5, <2>6 DEF StoreOK, Recent
<1>6. ASSUME NEW r \in Requests PROVE request'[r] \in Request /\ RequestOK(r)'
  <2>1. PICK q, f : q = request[r] /\ f = request'[r]
    OBVIOUS
  <2>2. f = [q EXCEPT !.since = IF @ <= time' - MaxLag THEN 0 ELSE @]
    BY <2>1 DEF Tick
  <2>3. q \in Request /\ RequestOK(r)
    BY <1>2, <2>1
  <2>4. f \in Request /\ f.todo = q.todo /\ f.key = q.key /\ f.since \in {0, q.since}
    BY <1>1, <2>2, <2>3 DEF Request
  <2>5. CASE q = Idle
    <3>1. f = Idle
      <4>1. f.since = 0
        BY <2>4, <2>5 DEF Idle
      <4> QED BY <2>3, <2>4, <2>5, <4>1 DEF Request, Idle
    <3> QED BY <2>1, <2>4, <3>1 DEF RequestOK
  <2>6. CASE q # Idle
    <3>1. q.todo \in Begun /\ q.key \in Ids /\ q.since <= time
      BY <2>1, <2>3, <2>6 DEF RequestOK, Begun
    <3>2. q.since \in 0 .. MaxTime
      BY <2>3 DEF Request
    <3>3. f.todo \in Begun /\ f.key \in Ids /\ f.since <= time'
      BY <1>1, <2>4, <3>1, <3>2
    <3> QED BY <2>1, <2>4, <3>3 DEF RequestOK, Begun
  <2> QED BY <2>5, <2>6
<1>7. request' \in [Requests -> Request]
  <2>1. request' = [r \in Requests |-> request'[r]]
    BY DEF Tick
  <2> QED BY <1>6, <2>1
<1>8. AdmissionTypeOK'
  BY <1>1, <1>7 DEF AdmissionInv, AdmissionTypeOK, Stored, Instant
<1>9. SweptLately'
  BY <1>1, <1>2 DEF AdmissionInv, SweptLately, Instant
<1>10. /\ used' \in Seq([id : Ids, at : 0 .. MaxTime])
       /\ Apart(store)' /\ EndsWith(store, used)' /\ Len(used') <= MaxSessions - 1
       /\ Recent(used)'
  BY <1>5 DEF StoreOK, Usage, Apart
<1> QED BY <1>3, <1>4, <1>6, <1>8, <1>9, <1>10 DEF AdmissionInv, Instant

-----------------------------------------------------------------------------
(* The invariant and what follows from it.                                  *)

\* The invariant holds when the process starts, with both tables empty.
LEMMA AdmissionStarts == Init => AdmissionInv
<1> SUFFICES ASSUME Init PROVE AdmissionInv
  OBVIOUS
<1>1. /\ events = <<>> /\ lastSweep = 0 /\ store = <<>> /\ time = 0 /\ issued = {}
      /\ arrived = 0 /\ request = [r \in Requests |-> Idle]
      /\ admitted = [k \in Keys |-> <<>>] /\ used = <<>>
  BY DEF Init, LimiterInit, StoreInit
<1>2. Len(<<>>) = 0 /\ DOMAIN <<>> = {} /\ \A R : <<>> \in Seq(R)
  OBVIOUS
<1>3. /\ MaxTime \in Nat /\ MaxRequests \in Nat /\ Window \in Nat \ {0}
      /\ MaxSessions \in Nat \ {0}
  BY AdmissionAssumption, LimiterAssumption, StoreAssumption
<1>4. Idle \in Request
  BY <1>3 DEF Idle, Request
<1>5. Cardinality(Stored) = Len(store)
  <2>1. Stored = {}
    BY <1>1, <1>2 DEF Stored
  <2> QED BY <1>1, <1>2, <2>1, FS_EmptySet
<1>6. /\ \A R : events \in [DOMAIN events -> R]
      /\ DOMAIN events = {}
  BY <1>1, <1>2
<1>7. AdmissionTypeOK
  BY <1>1, <1>2, <1>3, <1>4, <1>5, <1>6 DEF AdmissionTypeOK, Instant
<1>8. \A k \in Keys : Backs(EventsOf(k), admitted[k]) /\ Lately(admitted[k])
  <2>1. ASSUME NEW k \in Keys PROVE EventsOf(k) = <<>> /\ admitted[k] = <<>>
    BY <1>1, <1>6 DEF EventsOf
  <2>2. Backs(<<>>, <<>>) /\ Lately(<<>>)
    BY <1>2 DEF Backs, Lately
  <2> QED BY <2>1, <2>2
<1>9. \A r \in Requests : RequestOK(r)
  BY <1>1 DEF RequestOK
<1>10. Apart(store) /\ EndsWith(store, used) /\ Recent(used)
  BY <1>1, <1>2 DEF Apart, EndsWith, Recent
<1>11. SweptLately
  BY <1>1, <1>6 DEF SweptLately
<1>12. Len(used) <= MaxSessions - 1
  BY <1>1, <1>2, <1>3
<1>13. used \in Seq([id : Ids, at : 0 .. MaxTime])
  BY <1>1, <1>2
<1>14. admitted \in [Keys -> Seq(Instant)]
  BY <1>1, <1>2
<1> QED BY <1>7, <1>8, <1>9, <1>10, <1>11, <1>12, <1>13, <1>14 DEF AdmissionInv, Instant

\* The invariant depends on the variables only.
LEMMA AdmissionStutters ==
    ASSUME AdmissionInv, UNCHANGED admissionVars
    PROVE  AdmissionInv'
<1>1. UNCHANGED <<events, lastSweep, store, time, issued, arrived, request, admitted, used>>
  BY DEF admissionVars, limiterVars, history
<1>2. AdmissionTypeOK'
  BY <1>1 DEF AdmissionInv, AdmissionTypeOK, Stored, Instant
<1>3. \A r \in Requests : RequestOK(r)'
  BY <1>1 DEF AdmissionInv, RequestOK, Instant
<1>4. \A k \in Keys : Backs(EventsOf(k), admitted[k])' /\ Lately(admitted[k])'
  BY <1>1 DEF AdmissionInv, EventsOf, Backs, Lately, Instant
<1>5. /\ Apart(store)' /\ EndsWith(store, used)' /\ Recent(used)' /\ SweptLately'
      /\ used' \in Seq([id : Ids, at : 0 .. MaxTime])
      /\ admitted' \in [Keys -> Seq(Instant)]
      /\ Len(used') <= MaxSessions - 1
  BY <1>1 DEF AdmissionInv, Apart, EndsWith, Recent, SweptLately, Instant
<1> QED BY <1>2, <1>3, <1>4, <1>5 DEF AdmissionInv, Instant

\* Every step keeps the invariant.
LEMMA AdmissionStep ==
    ASSUME AdmissionInv, [Next]_admissionVars
    PROVE  AdmissionInv'
<1>1. ASSUME NEW r \in Requests, CreateSession(r) PROVE AdmissionInv'
  BY <1>1, CreateKeeps
<1>2. ASSUME NEW r \in Requests, Upstream(r) PROVE AdmissionInv'
  BY <1>2, UpstreamKeeps
<1>3. ASSUME NEW r \in Requests, GetSession(r) PROVE AdmissionInv'
  BY <1>3, GetKeeps
<1>4. ASSUME NEW r \in Requests, EndSession(r) PROVE AdmissionInv'
  BY <1>4, EndKeeps
<1>5. ASSUME NEW r \in Requests, CheckLimit(r) PROVE AdmissionInv'
  BY <1>5, CheckKeeps
<1>6. ASSUME Tick PROVE AdmissionInv'
  BY <1>6, TickKeeps
<1>7. ASSUME UNCHANGED admissionVars PROVE AdmissionInv'
  BY <1>7, AdmissionStutters
<1> QED BY <1>1, <1>2, <1>3, <1>4, <1>5, <1>6, <1>7 DEF Next

\* The invariant holds: what the code keeps of the past is enough to answer for it.
THEOREM AdmissionInvariance == Spec => []AdmissionInv
<1>1. Init => AdmissionInv
  BY AdmissionStarts
<1>2. AdmissionInv /\ [Next]_admissionVars => AdmissionInv'
  BY AdmissionStep
<1> QED BY <1>1, <1>2, PTL DEF Spec

\* Neither table outgrows its bound, whatever the number of requests, of keys and
\* of sessions: RealtimeSessionStore keeps max_sessions sessions at most, each
\* once, and SlidingWindowLimiter between one event and the limit for each key.
THEOREM AdmissionTypeCorrect == Spec => []AdmissionTypeOK
<1>1. AdmissionInv => AdmissionTypeOK
  BY DEF AdmissionInv, Instant
<1> QED BY <1>1, AdmissionInvariance, PTL

\* check of SlidingWindowLimiter serves no key more often than its limit within a
\* window, although the instants reach it out of order and its sweep forgets keys.
THEOREM LimitAlwaysHolds == Spec => []WindowLimit
<1>1. ASSUME AdmissionInv PROVE WindowLimit
  <2>1. ASSUME NEW k \in Keys PROVE Len(admitted[k]) <= LimitOf[k]
    <3>1. PICK queue, at : queue = EventsOf(k) /\ at = admitted[k]
      OBVIOUS
    <3>2. Backs(queue, at) /\ at \in Seq(Instant) /\ LimitOf[k] \in Nat \ {0}
      BY <1>1, <3>1, LimiterAssumption DEF AdmissionInv, Instant
    <3>3. queue \in Seq(Instant) /\ Len(queue) <= LimitOf[k]
      <4>1. CASE k \in DOMAIN events
        BY <1>1, <3>1, <3>2, <4>1 DEF AdmissionInv, AdmissionTypeOK, EventsOf, Instant
      <4>2. CASE k \notin DOMAIN events
        <5>1. queue = <<>> /\ Len(<<>>) = 0 /\ <<>> \in Seq(Instant)
          BY <3>1, <4>2 DEF EventsOf
        <5> QED BY <3>2, <5>1
      <4> QED BY <4>1, <4>2
    <3>4. Len(queue) - Len(at) >= 0
      BY <3>2 DEF Backs
    <3>5. Len(queue) \in Nat /\ Len(at) \in Nat
      BY <3>2, <3>3
    <3> QED BY <3>1, <3>2, <3>3, <3>4, <3>5
  <2> QED BY <2>1 DEF WindowLimit
<1> QED BY <1>1, AdmissionInvariance, PTL

\* get and create of RealtimeSessionStore take no session among the last used
\* before its time to live has passed.
THEOREM RecentSessionsAlwaysSurvive == Spec => []RecentSessionsSurvive
<1>1. ASSUME AdmissionInv PROVE RecentSessionsSurvive
  <2>1. ASSUME NEW i \in DOMAIN used PROVE used[i].id \in Stored
    <3>1. PICK s, u, j : s = store /\ u = used /\ j = Len(s) - Len(u) + i
      OBVIOUS
    <3>2. s \in Seq(Entry) /\ u \in Seq(Usage) /\ EndsWith(s, u)
      BY <1>1, <3>1, InvStoreOK DEF StoreOK
    <3>3. Len(s) \in Nat /\ Len(u) \in Nat /\ Len(s) - Len(u) >= 0 /\ i \in 1 .. Len(u)
      BY <2>1, <3>1, <3>2 DEF EndsWith
    <3>4. j \in DOMAIN s /\ u[i].id = s[j].id
      BY <3>1, <3>2, <3>3 DEF EndsWith
    <3> QED BY <3>1, <3>4 DEF Stored
  <2> QED BY <2>1 DEF RecentSessionsSurvive
<1> QED BY <1>1, AdmissionInvariance, PTL

\* The sweep inside check forgets every key whose newest event has expired.
THEOREM StaleKeysAlwaysGo == Spec => StaleKeysGo
<1>1. ASSUME AdmissionInv, AdmissionInv', [Next]_admissionVars, events' # events
      PROVE  /\ time - lastSweep' < SweepInterval + MaxLag
             /\ \A k \in DOMAIN events' : lastSweep' - Last(events'[k]) < Window
  <2>1. PICK r \in Requests : CheckLimit(r)
    BY <1>1 DEF Next, CreateSession, Upstream, GetSession, EndSession, Tick,
                admissionVars, limiterVars
  <2>2. PICK q \in Taking(r, "check") : \E now \in Instants(q) : Check(q.key, now)
    BY <2>1 DEF CheckLimit
  <2>3. PICK now \in Instants(q) : Check(q.key, now)
    BY <2>2
  <2>4. now \in 0 .. MaxTime /\ now <= time /\ now >= time - MaxLag
    BY <1>1, InstantsAre
  <2>5. lastSweep' = IF SweepDue(now) THEN now ELSE lastSweep
    BY <2>3 DEF Check
  <2>6. /\ time \in 0 .. MaxTime /\ lastSweep \in 0 .. MaxTime
        /\ SweepInterval \in Nat \ {0} /\ MaxLag \in Nat /\ MaxTime \in Nat
    BY <1>1, LimiterAssumption, AdmissionAssumption DEF AdmissionInv, AdmissionTypeOK, Instant
  <2>7. time - lastSweep' < SweepInterval + MaxLag
    BY <2>4, <2>5, <2>6 DEF SweepDue
  <2> QED BY <1>1, <2>7 DEF AdmissionInv, SweptLately, Instant
<1>2. AdmissionInv /\ AdmissionInv' /\ [Next]_admissionVars
          => [events' # events =>
                /\ time - lastSweep' < SweepInterval + MaxLag
                /\ \A k \in DOMAIN events' : lastSweep' - Last(events'[k]) < Window]_admissionVars
  BY <1>1
<1> QED BY <1>2, AdmissionInvariance, PTL DEF Spec, StaleKeysGo
===============================================================================
