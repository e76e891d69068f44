---------------------------- MODULE SumTheorems ----------------------------
(* Facts about MapThenSumSet, for every finite set and every summand. The  *)
(* sum is taken over a table of partial sums, so each fact is proved for a *)
(* smallest set that would break it.                                       *)
EXTENDS Integers, FiniteSets, FiniteSetsExt, FiniteSetTheorems, WellFoundedInduction, TLAPS

SumOf(f, S) == MapThenSumSet(LAMBDA x : f[x], S)

AnyOf(s) == CHOOSE x \in s : TRUE

(* it is the table of the sums of f over the subsets of S.                 *)
IsTable(it, f, S) == it = [s \in SUBSET S |-> IF s = {} THEN 0 ELSE f[AnyOf(s)] + it[s \ {AnyOf(s)}]]

-----------------------------------------------------------------------------
(* Of the sets in B there is one that contains no other.                   *)
LEMMA SmallestSubset ==
    ASSUME NEW S, IsFiniteSet(S), NEW B, B \subseteq SUBSET S, B # {}
    PROVE  \E s \in B : \A t \in B : t \subseteq s => t = s
<1>1. IsWellFoundedOn(StrictSubsetOrdering(S), SUBSET S)
  BY FS_StrictSubsetOrderingWellFounded, FS_FiniteSubsetsOfFinite
<1>2. \E s \in B : \A t \in B : <<t, s>> \notin StrictSubsetOrdering(S)
  BY <1>1, WFMin
<1> QED
  BY <1>2 DEF StrictSubsetOrdering

(* A set that is not empty has the element that is summed first.           *)
LEMMA AnyIsIn ==
    ASSUME NEW s, s # {}
    PROVE  AnyOf(s) \in s
BY DEF AnyOf

(* What a table says of one set.                                           *)
LEMMA TableEntry ==
    ASSUME NEW it, NEW f, NEW S, IsTable(it, f, S), NEW s \in SUBSET S
    PROVE  it[s] = IF s = {} THEN 0 ELSE f[AnyOf(s)] + it[s \ {AnyOf(s)}]
BY DEF IsTable

(* Tables of functions that agree agree.                                   *)
LEMMA TablesAgree ==
    ASSUME NEW S, NEW T, NEW f, NEW g, NEW it, NEW jt, IsTable(it, f, S), IsTable(jt, g, T),
           NEW s, s \subseteq S, s \subseteq T, IsFiniteSet(s), \A x \in s : f[x] = g[x]
    PROVE  it[s] = jt[s]
<1> DEFINE B == {t \in SUBSET s : it[t] # jt[t]}
<1> SUFFICES ASSUME B # {} PROVE FALSE
  OBVIOUS
<1>1. \E t \in B : \A u \in B : u \subseteq t => u = t
  <2>1. B \subseteq SUBSET s
    OBVIOUS
  <2> HIDE DEF B
  <2> QED
    BY <2>1, SmallestSubset
<1>2. PICK t \in B : \A u \in B : u \subseteq t => u = t
  BY <1>1
<1>3. t \in SUBSET S /\ t \in SUBSET T
  OBVIOUS
<1>4. /\ it[t] = IF t = {} THEN 0 ELSE f[AnyOf(t)] + it[t \ {AnyOf(t)}]
      /\ jt[t] = IF t = {} THEN 0 ELSE g[AnyOf(t)] + jt[t \ {AnyOf(t)}]
  <2> HIDE DEF B
  <2>1. it[t] = IF t = {} THEN 0 ELSE f[AnyOf(t)] + it[t \ {AnyOf(t)}]
    BY <1>3, TableEntry
  <2>2. jt[t] = IF t = {} THEN 0 ELSE g[AnyOf(t)] + jt[t \ {AnyOf(t)}]
    BY <1>3, TableEntry
  <2> QED
    BY <2>1, <2>2
<1>5. t # {} => AnyOf(t) \in t
  BY AnyIsIn
<1> QED
  BY <1>2, <1>4, <1>5

(* A table filled from the sums r of what remains is a table.               *)
LEMMA TableFilled ==
    ASSUME NEW S, NEW f, NEW r, NEW h,
           h = [t \in SUBSET S |-> IF t = {} THEN 0 ELSE f[AnyOf(t)] + r[t]],
           \A t \in SUBSET S : t # {} => h[t \ {AnyOf(t)}] = r[t]
    PROVE  IsTable(h, f, S)
<1> DEFINE j == [t \in SUBSET S |-> IF t = {} THEN 0 ELSE f[AnyOf(t)] + h[t \ {AnyOf(t)}]]
<1>1. \A t \in SUBSET S : h[t] = j[t]
  OBVIOUS
<1>2. h = j
  BY <1>1
<1> QED
  BY <1>2 DEF IsTable

(* Every finite set has a table.                                           *)
LEMMA TableExists ==
    ASSUME NEW S, IsFiniteSet(S), NEW f
    PROVE  \E it : IsTable(it, f, S)
<1> DEFINE B == {s \in SUBSET S : ~ \E it : IsTable(it, f, s)}
<1> SUFFICES ASSUME B # {} PROVE FALSE
  OBVIOUS
<1>0. \E s \in B : \A t \in B : t \subseteq s => t = s
  <2>1. B \subseteq SUBSET S
    OBVIOUS
  <2> HIDE DEF B
  <2> QED
    BY <2>1, SmallestSubset
<1>1. PICK s \in B : \A t \in B : t \subseteq s => t = s
  BY <1>0
<1> DEFINE Of(t) == CHOOSE it : IsTable(it, f, t)
           r == [t \in SUBSET s |-> Of(t \ {AnyOf(t)})[t \ {AnyOf(t)}]]
           new == [t \in SUBSET s |-> IF t = {} THEN 0 ELSE f[AnyOf(t)] + r[t]]
<1>2. \A t \in SUBSET s : t # s => IsTable(Of(t), f, t)
  BY <1>1
<1>3. ASSUME NEW t \in SUBSET s, t # {}
      PROVE  new[t \ {AnyOf(t)}] = r[t]
  <2> DEFINE u == t \ {AnyOf(t)}
  <2>1. u \in SUBSET s /\ u # s
    BY <1>3, AnyIsIn
  <2>2. IsTable(Of(u), f, u)
    BY <2>1, <1>2
  <2>3. CASE u = {}
    BY <2>1, <2>2, <2>3, TableEntry
  <2>4. CASE u # {}
    <3> DEFINE v == u \ {AnyOf(u)}
    <3>1. AnyOf(u) \in u
      BY <2>4, AnyIsIn
    <3>2. v \in SUBSET s /\ v # s /\ v \subseteq u
      BY <2>1, <3>1
    <3>3. IsTable(Of(v), f, v)
      BY <3>2, <1>2
    <3>4. IsFiniteSet(v)
      BY <3>2, FS_Subset
    <3>5. Of(v)[v] = Of(u)[v]
      BY <2>2, <3>2, <3>3, <3>4, TablesAgree
    <3>6. Of(u)[u] = f[AnyOf(u)] + Of(u)[v]
      <4> HIDE DEF Of, u
      <4> QED
        BY <2>2, <2>4, TableEntry
    <3>7. new[u] = f[AnyOf(u)] + Of(v)[v]
      BY <2>1, <2>4
    <3> QED
      BY <3>5, <3>6, <3>7
  <2>5. new[u] = Of(u)[u] /\ r[t] = Of(u)[u]
    BY <2>3, <2>4
  <2> HIDE DEF new, r, Of
  <2> QED
    BY <2>5
<1>4. IsTable(new, f, s)
  <2>1. \A t \in SUBSET s : t # {} => new[t \ {AnyOf(t)}] = r[t]
    <3> HIDE DEF new, r
    <3> QED
      BY <1>3
  <2> HIDE DEF r
  <2> QED
    BY <2>1, TableFilled
<1> QED
  BY <1>4

(* Sums of integers are integers.                                          *)
LEMMA TableOfIntegers ==
    ASSUME NEW S, IsFiniteSet(S), NEW f, NEW it, IsTable(it, f, S), \A x \in S : f[x] \in Int,
           NEW s, s \subseteq S
    PROVE  it[s] \in Int
<1> DEFINE B == {t \in SUBSET S : it[t] \notin Int}
<1> SUFFICES ASSUME B # {} PROVE FALSE
  OBVIOUS
<1>1. \E t \in B : \A u \in B : u \subseteq t => u = t
  <2>1. B \subseteq SUBSET S
    OBVIOUS
  <2> HIDE DEF B
  <2> QED
    BY <2>1, SmallestSubset
<1>2. PICK t \in B : \A u \in B : u \subseteq t => u = t
  BY <1>1
<1>3. /\ t = {} => it[t] = 0
      /\ t # {} => it[t] = f[AnyOf(t)] + it[t \ {AnyOf(t)}]
  <2>1. t \in SUBSET S
    OBVIOUS
  <2> HIDE DEF B
  <2>2. t = {} => it[t] = 0
    BY <2>1, TableEntry, Zenon
  <2>3. ASSUME t # {}
        PROVE  it[t] = f[AnyOf(t)] + it[t \ {AnyOf(t)}]
    BY <2>1, <2>3, TableEntry
  <2> QED
    BY <2>2, <2>3
<1>4. t # {} => AnyOf(t) \in t
  BY AnyIsIn
<1> QED
  BY <1>2, <1>3, <1>4

(* The order of the summands does not matter.                              *)
LEMMA TableWithout ==
    ASSUME NEW S, IsFiniteSet(S), NEW f, NEW it, IsTable(it, f, S), \A x \in S : f[x] \in Int,
           NEW s, s \subseteq S, NEW a \in s
    PROVE  it[s] = f[a] + it[s \ {a}]
<1> DEFINE Wrong(t) == \E x \in t : it[t] # f[x] + it[t \ {x}]
           B == {t \in SUBSET S : Wrong(t)}
<1> SUFFICES ASSUME B # {} PROVE FALSE
  OBVIOUS
<1>1. \E t \in B : \A u \in B : u \subseteq t => u = t
  <2>1. B \subseteq SUBSET S
    OBVIOUS
  <2> HIDE DEF B
  <2> QED
    BY <2>1, SmallestSubset
<1>2. PICK t \in B : \A u \in B : u \subseteq t => u = t
  BY <1>1
<1>3. PICK x \in t : it[t] # f[x] + it[t \ {x}]
  BY <1>2
<1> DEFINE b == AnyOf(t)
<1>4. b \in t /\ it[t] = f[b] + it[t \ {b}]
  <2>1. t # {} /\ t \in SUBSET S
    BY <1>2, <1>3
  <2> HIDE DEF B
  <2>2. it[t] = IF t = {} THEN 0 ELSE f[AnyOf(t)] + it[t \ {AnyOf(t)}]
    BY <2>1, TableEntry
  <2> QED
    BY <2>1, <2>2, AnyIsIn
<1>5. b # x
  BY <1>3, <1>4
<1>6. t \ {b} \notin B /\ t \ {x} \notin B
  BY <1>2, <1>3, <1>4
<1> DEFINE c == it[(t \ {b}) \ {x}]
<1>7. it[t \ {b}] = f[x] + c
  BY <1>3, <1>5, <1>6
<1>8. it[t \ {x}] = f[b] + c
  <2>1. (t \ {x}) \ {b} = (t \ {b}) \ {x}
    OBVIOUS
  <2>2. it[t \ {x}] = f[b] + it[(t \ {x}) \ {b}]
    BY <1>4, <1>5, <1>6
  <2> QED
    BY <2>1, <2>2
<1>9. f[b] \in Int /\ f[x] \in Int /\ c \in Int
  BY <1>3, <1>4, TableOfIntegers
<1> HIDE DEF b, c, B
<1>10. it[t] = f[x] + it[t \ {x}]
  BY <1>4, <1>7, <1>8, <1>9
<1> QED
  BY <1>3, <1>10

-----------------------------------------------------------------------------
(* A sum is the last entry of a table.                                     *)
LEMMA SumIsTable ==
    ASSUME NEW S, IsFiniteSet(S), NEW f
    PROVE  \E it : IsTable(it, f, S) /\ SumOf(f, S) = it[S]
<1> DEFINE it == CHOOSE jt : IsTable(jt, f, S)
<1>1. IsTable(it, f, S)
  BY TableExists
<1>2. SumOf(f, S) = it[S]
  BY DEF SumOf, MapThenSumSet, MapThenFoldSet, IsTable, AnyOf
<1> QED
  BY <1>1, <1>2

(* Nothing adds up to nothing.                                             *)
LEMMA SumOfNothing ==
    ASSUME NEW f
    PROVE  SumOf(f, {}) = 0
BY SumIsTable, TableEntry, FS_EmptySet

(* Sums of integers are integers.                                          *)
LEMMA SumOfIntegers ==
    ASSUME NEW S, IsFiniteSet(S), NEW f, \A x \in S : f[x] \in Int
    PROVE  SumOf(f, S) \in Int
BY SumIsTable, TableOfIntegers

(* Equal summands, equal sums.                                             *)
LEMMA SumOfSame ==
    ASSUME NEW S, IsFiniteSet(S), NEW f, NEW g, \A x \in S : f[x] = g[x]
    PROVE  SumOf(f, S) = SumOf(g, S)
BY SumIsTable, TablesAgree

(* Any element may be summed first.                                          *)
LEMMA SumWithout ==
    ASSUME NEW S, IsFiniteSet(S), NEW f, \A x \in S : f[x] \in Int, NEW a \in S
    PROVE  SumOf(f, S) = f[a] + SumOf(f, S \ {a})
<1>1. IsFiniteSet(S \ {a})
  BY FS_RemoveElement
<1>2. PICK it : IsTable(it, f, S) /\ SumOf(f, S) = it[S]
  BY SumIsTable
<1>3. PICK jt : IsTable(jt, f, S \ {a}) /\ SumOf(f, S \ {a}) = jt[S \ {a}]
  BY <1>1, SumIsTable
<1>4. it[S \ {a}] = jt[S \ {a}]
  BY <1>1, <1>2, <1>3, TablesAgree
<1> QED
  BY <1>2, <1>3, <1>4, TableWithout

(* A further summand.                                                      *)
LEMMA SumWith ==
    ASSUME NEW S, IsFiniteSet(S), NEW f, NEW a, a \notin S, \A x \in S \cup {a} : f[x] \in Int
    PROVE  SumOf(f, S \cup {a}) = f[a] + SumOf(f, S)
<1>1. IsFiniteSet(S \cup {a}) /\ (S \cup {a}) \ {a} = S
  BY FS_AddElement
<1> QED
  BY <1>1, SumWithout

(* One summand that changes.                                               *)
LEMMA SumChanged ==
    ASSUME NEW S, IsFiniteSet(S), NEW f, NEW g, NEW a \in S,
           \A x \in S : f[x] \in Int /\ g[x] \in Int, \A x \in S \ {a} : f[x] = g[x]
    PROVE  SumOf(g, S) = SumOf(f, S) - f[a] + g[a]
<1>1. IsFiniteSet(S \ {a})
  BY FS_RemoveElement
<1>2. SumOf(f, S \ {a}) = SumOf(g, S \ {a}) /\ SumOf(f, S \ {a}) \in Int
  BY <1>1, SumOfSame, SumOfIntegers
<1>3. SumOf(f, S) = f[a] + SumOf(f, S \ {a}) /\ SumOf(g, S) = g[a] + SumOf(g, S \ {a})
  BY SumWithout
<1> QED
  BY <1>2, <1>3

(* Sums of naturals are naturals,                                          *)
LEMMA SumOfNaturals ==
    ASSUME NEW S, IsFiniteSet(S), NEW f, \A x \in S : f[x] \in Nat
    PROVE  SumOf(f, S) \in Nat
<1> DEFINE B == {t \in SUBSET S : SumOf(f, t) \notin Nat}
<1> SUFFICES ASSUME B # {} PROVE FALSE
  OBVIOUS
<1>1. \E t \in B : \A u \in B : u \subseteq t => u = t
  <2>1. B \subseteq SUBSET S
    OBVIOUS
  <2> HIDE DEF B
  <2> QED
    BY <2>1, SmallestSubset
<1>2. PICK t \in B : \A u \in B : u \subseteq t => u = t
  BY <1>1
<1>3. t # {}
  <2>1. SumOf(f, t) \notin Nat
    BY <1>2
  <2>2. SumOf(f, {}) = 0
    BY SumOfNothing
  <2> HIDE DEF B
  <2> QED
    BY <2>1, <2>2
<1>0. PICK a \in t : TRUE
  BY <1>3
<1>4. SumOf(f, t \ {a}) \in Nat
  BY <1>2
<1>5. IsFiniteSet(t)
  BY FS_Subset
<1>6. SumOf(f, t) = f[a] + SumOf(f, t \ {a})
  BY <1>5, SumWithout
<1> QED
  BY <1>2, <1>4, <1>6

(* and a part of them is no more than the whole.                           *)
LEMMA SumOfPart ==
    ASSUME NEW S, IsFiniteSet(S), NEW f, \A x \in S : f[x] \in Nat, NEW T, T \subseteq S
    PROVE  SumOf(f, T) <= SumOf(f, S)
<1> DEFINE B == {t \in SUBSET S : T \subseteq t /\ ~(SumOf(f, T) <= SumOf(f, t))}
<1> SUFFICES ASSUME B # {} PROVE FALSE
  OBVIOUS
<1>1. \E t \in B : \A u \in B : u \subseteq t => u = t
  <2>1. B \subseteq SUBSET S
    OBVIOUS
  <2> HIDE DEF B
  <2> QED
    BY <2>1, SmallestSubset
<1>2. PICK t \in B : \A u \in B : u \subseteq t => u = t
  BY <1>1
<1>3. IsFiniteSet(t) /\ IsFiniteSet(T)
  BY FS_Subset
<1>4. SumOf(f, T) \in Nat
  BY <1>3, SumOfNaturals
<1>a. t # T /\ T \subseteq t
  BY <1>2, <1>4
<1>5. PICK a \in t : a \notin T
  BY <1>a
<1>6. SumOf(f, T) <= SumOf(f, t \ {a})
  BY <1>2, <1>5
<1>7. SumOf(f, t) = f[a] + SumOf(f, t \ {a})
  BY <1>3, SumWithout
<1>8. SumOf(f, t \ {a}) \in Nat
  <2>1. IsFiniteSet(t \ {a}) /\ \A x \in t \ {a} : f[x] \in Nat
    BY <1>3, FS_RemoveElement
  <2> QED
    BY <2>1, SumOfNaturals
<1> QED
  BY <1>2, <1>4, <1>6, <1>7, <1>8

(* Zeros add up to zero.                                                   *)
LEMMA SumOfZeros ==
    ASSUME NEW S, IsFiniteSet(S), NEW f, \A x \in S : f[x] = 0
    PROVE  SumOf(f, S) = 0
<1> DEFINE B == {t \in SUBSET S : SumOf(f, t) # 0}
<1> SUFFICES ASSUME B # {} PROVE FALSE
  OBVIOUS
<1>1. \E t \in B : \A u \in B : u \subseteq t => u = t
  <2>1. B \subseteq SUBSET S
    OBVIOUS
  <2> HIDE DEF B
  <2> QED
    BY <2>1, SmallestSubset
<1>2. PICK t \in B : \A u \in B : u \subseteq t => u = t
  BY <1>1
<1>3. t # {}
  <2>1. SumOf(f, t) # 0
    BY <1>2
  <2>2. SumOf(f, {}) = 0
    BY SumOfNothing
  <2> HIDE DEF B
  <2> QED
    BY <2>1, <2>2
<1>4. PICK a \in t : TRUE
  BY <1>3
<1>5. SumOf(f, t \ {a}) = 0
  BY <1>2
<1>6. IsFiniteSet(t) /\ \A x \in t : f[x] \in Int
  BY FS_Subset
<1>7. SumOf(f, t) = f[a] + SumOf(f, t \ {a})
  BY <1>6, SumWithout
<1> QED
  BY <1>2, <1>5, <1>7
=============================================================================
