-------------------------------- MODULE Sums --------------------------------
(***************************************************************************)
(* Facts about the sum of a function over a finite set, on which the       *)
(* quotas and disk promises rest. Inductions are by a smallest             *)
(* counterexample among the subsets.                                       *)
(***************************************************************************)
EXTENDS Integers, Functions, FiniteSetTheorems, TLAPS

Sum(f, S) == SumFunctionOnSet(f, S)

\* h sums f over every subset of S, picking the elements in the fold's order.
Pick(s) == CHOOSE x \in s : TRUE
SumsUp(f, S, h) ==
    h = [s \in SUBSET S |->
           IF s = {} THEN 0 ELSE f[Pick(s)] + h[s \ {Pick(s)}]]
SumTable(f, S) == CHOOSE h : SumsUp(f, S, h)

\* The sum of the community modules is read off such a table.
LEMMA SumIsTable ==
    ASSUME NEW f, NEW S
    PROVE  Sum(f, S) = SumTable(f, S)[S]
  BY DEF Sum, SumFunctionOnSet, FoldFunctionOnSet, MapThenFoldSet, SumTable, SumsUp, Pick

\* Among finite sets that are wrong there is one all of whose parts are right.
LEMMA SmallestWrong ==
    ASSUME NEW S, IsFiniteSet(S), NEW Wrong \in SUBSET (SUBSET S), Wrong # {}
    PROVE  \E T \in Wrong : \A U \in SUBSET T : U # T => U \notin Wrong
  <1>1. IsWellFoundedOn(StrictSubsetOrdering(S), SUBSET S)
    BY FS_StrictSubsetOrderingWellFounded, FS_FiniteSubsetsOfFinite
  <1>2. PICK T \in Wrong : \A U \in Wrong : <<U, T>> \notin StrictSubsetOrdering(S)
    BY <1>1, WFMin
  <1>3. ASSUME NEW U \in SUBSET T, U # T, U \in Wrong PROVE FALSE
    BY <1>2, <1>3 DEF StrictSubsetOrdering
  <1>4. QED
    BY <1>2, <1>3

\* Picking from a non-empty set gives one of its elements.
LEMMA PickIn ==
    ASSUME NEW s, s # {}
    PROVE  Pick(s) \in s
  BY DEF Pick

\* What a table says of each of its entries.
LEMMA TableEntry ==
    ASSUME NEW f, NEW S, NEW h, SumsUp(f, S, h), NEW s \in SUBSET S
    PROVE  h[s] = IF s = {} THEN 0 ELSE f[Pick(s)] + h[s \ {Pick(s)}]
  BY DEF SumsUp

\* Two tables agree wherever both have an entry.
LEMMA TablesAgree ==
    ASSUME NEW f, NEW S, IsFiniteSet(S), NEW T, NEW g, NEW h,
           SumsUp(f, S, g), SumsUp(f, T, h), NEW s \in SUBSET S, s \in SUBSET T
    PROVE  g[s] = h[s]
  <1> DEFINE Wrong == {u \in SUBSET S : u \in SUBSET T /\ g[u] # h[u]}
  <1> SUFFICES ASSUME Wrong # {} PROVE FALSE
    OBVIOUS
  <1>1. PICK u \in Wrong : \A w \in SUBSET u : w # u => w \notin Wrong
    BY SmallestWrong
  <1>2. u # {}
    <2>1. g[{}] = 0 /\ h[{}] = 0
      BY TableEntry
    <2>2. QED
      BY <1>1, <2>1
  <1>3. Pick(u) \in u
    BY <1>2, PickIn
  <1>4. u \ {Pick(u)} \in SUBSET u /\ u \ {Pick(u)} # u
    BY <1>3
  <1>5. u \ {Pick(u)} \notin Wrong
    BY <1>1, <1>4
  <1>6. g[u \ {Pick(u)}] = h[u \ {Pick(u)}]
    BY <1>5, <1>1
  <1>7. /\ g[u] = f[Pick(u)] + g[u \ {Pick(u)}]
        /\ h[u] = f[Pick(u)] + h[u \ {Pick(u)}]
    BY <1>1, <1>2, TableEntry
  <1>8. QED
    BY <1>1, <1>6, <1>7

\* There is a table for every finite set.
LEMMA TableExists ==
    ASSUME NEW f, NEW S, IsFiniteSet(S)
    PROVE  SumsUp(f, S, SumTable(f, S))
  <1> DEFINE Wrong == {u \in SUBSET S : ~SumsUp(f, u, SumTable(f, u))}
  <1> SUFFICES ASSUME Wrong # {} PROVE FALSE
    OBVIOUS
  <1>1. PICK T \in Wrong : \A w \in SUBSET T : w # T => w \notin Wrong
    <2>1. Wrong \in SUBSET (SUBSET S)
      OBVIOUS
    <2> HIDE DEF Wrong
    <2>2. QED
      BY <2>1, SmallestWrong
  <1>2. \A w \in SUBSET T : w # T => SumsUp(f, w, SumTable(f, w))
    BY <1>1
  <1> DEFINE Below(s) == s \ {Pick(s)}
             h == [s \in SUBSET T |->
                     IF s = {} THEN 0 ELSE f[Pick(s)] + SumTable(f, Below(s))[Below(s)]]
  <1>3. ASSUME NEW s \in SUBSET T, s # {}
        PROVE  SumTable(f, Below(s))[Below(s)] = h[Below(s)]
    <2>1. Pick(s) \in s
      BY <1>3, PickIn
    <2> DEFINE u == Below(s)
    <2>2. u \in SUBSET T /\ u # T /\ IsFiniteSet(u)
      BY <2>1, <1>1, FS_Subset
    <2>3. SumsUp(f, u, SumTable(f, u))
      BY <2>2, <1>2
    <2>4. CASE u = {}
      BY <2>2, <2>3, <2>4, TableEntry
    <2>5. CASE u # {}
      <3>1. Pick(u) \in u
        BY <2>5, PickIn
      <3>2. Below(u) \in SUBSET u /\ Below(u) \in SUBSET T /\ Below(u) # T
        BY <3>1, <2>2
      <3>3. SumsUp(f, Below(u), SumTable(f, Below(u)))
        BY <3>2, <1>2
      <3> HIDE DEF u
      <3>4. SumTable(f, u)[Below(u)] = SumTable(f, Below(u))[Below(u)]
        BY <3>2, <3>3, <2>2, <2>3, TablesAgree
      <3>5. SumTable(f, u)[u] = f[Pick(u)] + SumTable(f, u)[Below(u)]
        BY <2>3, <2>5, TableEntry
      <3>6. h[u] = f[Pick(u)] + SumTable(f, Below(u))[Below(u)]
        BY <2>2, <2>5
      <3>7. QED
        BY <3>4, <3>5, <3>6 DEF u
    <2>6. QED
      BY <2>4, <2>5
  <1>4. SumsUp(f, T, h)
    BY <1>3 DEF SumsUp
  <1>5. SumsUp(f, T, SumTable(f, T))
    <2> HIDE DEF h
    <2>1. QED
      BY <1>4 DEF SumTable
  <1>6. QED
    BY <1>1, <1>5

-----------------------------------------------------------------------------
(* The equations of a sum.                                                 *)

\* Nothing sums to zero.
LEMMA SumEmpty ==
    ASSUME NEW f
    PROVE  Sum(f, {}) = 0
  <1>1. SumsUp(f, {}, SumTable(f, {}))
    BY TableExists, FS_EmptySet
  <1>2. QED
    BY <1>1, SumIsTable, TableEntry

\* A sum is its picked element and the sum of the rest.
LEMMA SumPicks ==
    ASSUME NEW f, NEW S, IsFiniteSet(S), S # {}
    PROVE  Sum(f, S) = f[Pick(S)] + Sum(f, S \ {Pick(S)})
  <1> DEFINE T == S \ {Pick(S)}
  <1>1. T \in SUBSET S /\ IsFiniteSet(T)
    BY FS_Subset
  <1>2. SumsUp(f, S, SumTable(f, S)) /\ SumsUp(f, T, SumTable(f, T))
    BY <1>1, TableExists
  <1>3. SumTable(f, S)[T] = SumTable(f, T)[T]
    BY <1>1, <1>2, TablesAgree
  <1>4. SumTable(f, S)[S] = f[Pick(S)] + SumTable(f, S)[T]
    BY <1>2, TableEntry
  <1> HIDE DEF T
  <1>5. Sum(f, S) = f[Pick(S)] + Sum(f, T)
    BY <1>3, <1>4, SumIsTable
  <1>6. QED
    BY <1>5 DEF T

\* Natural numbers sum to a natural number.
LEMMA SumNat ==
    ASSUME NEW f, NEW S, IsFiniteSet(S), \A x \in S : f[x] \in Nat
    PROVE  Sum(f, S) \in Nat
  <1> DEFINE Wrong == {u \in SUBSET S : Sum(f, u) \notin Nat}
  <1> SUFFICES ASSUME Wrong # {} PROVE FALSE
    OBVIOUS
  <1>1. PICK T \in Wrong : \A w \in SUBSET T : w # T => w \notin Wrong
    <2>1. Wrong \in SUBSET (SUBSET S)
      OBVIOUS
    <2> HIDE DEF Wrong
    <2>2. QED
      BY <2>1, SmallestWrong
  <1>2. T # {} /\ IsFiniteSet(T)
    <2>1. IsFiniteSet(T) /\ Sum(f, T) \notin Nat
      BY <1>1, FS_Subset
    <2>2. QED
      BY <2>1, SumEmpty
  <1>3. Pick(T) \in T
    BY <1>2, PickIn
  <1>4. Sum(f, T \ {Pick(T)}) \in Nat
    BY <1>1, <1>3
  <1>5. Sum(f, T) = f[Pick(T)] + Sum(f, T \ {Pick(T)})
    BY <1>2, SumPicks
  <1>6. QED
    BY <1>1, <1>3, <1>4, <1>5

\* A sum is any of its elements and the sum of the rest.
LEMMA SumSplits ==
    ASSUME NEW f, NEW S, IsFiniteSet(S), \A y \in S : f[y] \in Nat
    PROVE  \A x \in S : Sum(f, S) = f[x] + Sum(f, S \ {x})
  <1> DEFINE Wrong == {u \in SUBSET S : \E x \in u : Sum(f, u) # f[x] + Sum(f, u \ {x})}
  <1> SUFFICES ASSUME Wrong # {} PROVE FALSE
    OBVIOUS
  <1>1. PICK T \in Wrong : \A w \in SUBSET T : w # T => w \notin Wrong
    <2>1. Wrong \in SUBSET (SUBSET S)
      OBVIOUS
    <2> HIDE DEF Wrong
    <2>2. QED
      BY <2>1, SmallestWrong
  <1>2. PICK x \in T : Sum(f, T) # f[x] + Sum(f, T \ {x})
    OBVIOUS
  <1> DEFINE p == Pick(T)
  <1>3. T # {} /\ IsFiniteSet(T) /\ T \in SUBSET S
    BY FS_Subset
  <1>4. p \in T /\ Sum(f, T) = f[p] + Sum(f, T \ {p})
    BY <1>3, PickIn, SumPicks
  <1> HIDE DEF p
  <1>5. x # p
    BY <1>2, <1>4
  <1>6. Sum(f, T \ {p}) = f[x] + Sum(f, (T \ {p}) \ {x})
    BY <1>1, <1>3, <1>4, <1>5
  <1>7. Sum(f, T \ {x}) = f[p] + Sum(f, (T \ {x}) \ {p})
    BY <1>1, <1>3, <1>4, <1>5
  <1>8. (T \ {p}) \ {x} = (T \ {x}) \ {p} /\ f[x] \in Nat /\ f[p] \in Nat
    BY <1>3, <1>4
  <1> DEFINE rest == (T \ {x}) \ {p}
  <1>9. Sum(f, (T \ {x}) \ {p}) \in Nat
    BY <1>3, FS_Subset, SumNat
  <1>10. Sum(f, T \ {p}) = f[x] + Sum(f, rest) /\ Sum(f, T \ {x}) = f[p] + Sum(f, rest)
    BY <1>6, <1>7, <1>8
  <1> HIDE DEF rest
  <1>11. Sum(f, rest) \in Nat
    BY <1>9 DEF rest
  <1>12. QED
    BY <1>2, <1>4, <1>8, <1>10, <1>11

\* Functions that agree on a set have the same sum over it.
LEMMA SumSame ==
    ASSUME NEW f, NEW g, NEW S, IsFiniteSet(S), \A x \in S : f[x] = g[x]
    PROVE  Sum(f, S) = Sum(g, S)
  <1> DEFINE Wrong == {u \in SUBSET S : Sum(f, u) # Sum(g, u)}
  <1> SUFFICES ASSUME Wrong # {} PROVE FALSE
    OBVIOUS
  <1>1. PICK T \in Wrong : \A w \in SUBSET T : w # T => w \notin Wrong
    <2>1. Wrong \in SUBSET (SUBSET S)
      OBVIOUS
    <2> HIDE DEF Wrong
    <2>2. QED
      BY <2>1, SmallestWrong
  <1>2. T # {} /\ IsFiniteSet(T)
    <2>1. IsFiniteSet(T) /\ Sum(f, T) # Sum(g, T)
      BY <1>1, FS_Subset
    <2>2. QED
      BY <2>1, SumEmpty
  <1>3. Pick(T) \in T
    BY <1>2, PickIn
  <1>4. Sum(f, T \ {Pick(T)}) = Sum(g, T \ {Pick(T)})
    BY <1>1, <1>3
  <1>5. /\ Sum(f, T) = f[Pick(T)] + Sum(f, T \ {Pick(T)})
        /\ Sum(g, T) = g[Pick(T)] + Sum(g, T \ {Pick(T)})
    BY <1>2, SumPicks
  <1>6. QED
    BY <1>1, <1>3, <1>4, <1>5

-----------------------------------------------------------------------------
(* What the models do with sums.                                           *)

\* A new element adds its value.
LEMMA SumAdds ==
    ASSUME NEW f, NEW S, IsFiniteSet(S), NEW x, x \notin S,
           \A y \in S \cup {x} : f[y] \in Nat
    PROVE  Sum(f, S \cup {x}) = Sum(f, S) + f[x] /\ Sum(f, S) \in Nat
  <1>1. IsFiniteSet(S \cup {x}) /\ (S \cup {x}) \ {x} = S
    BY FS_AddElement
  <1>2. Sum(f, S) \in Nat
    BY SumNat
  <1>3. Sum(f, S \cup {x}) = f[x] + Sum(f, (S \cup {x}) \ {x})
    BY <1>1, SumSplits
  <1>4. Sum(f, S \cup {x}) = f[x] + Sum(f, S)
    BY <1>1, <1>3
  <1>5. f[x] \in Nat
    OBVIOUS
  <1>6. QED
    BY <1>2, <1>4, <1>5

\* The sum over a part is at most the sum over the whole.
LEMMA SumPart ==
    ASSUME NEW f, NEW S, IsFiniteSet(S), \A y \in S : f[y] \in Nat,
           NEW T \in SUBSET S
    PROVE  Sum(f, T) <= Sum(f, S)
  <1> DEFINE Wrong == {u \in SUBSET S : T \subseteq u /\ ~(Sum(f, T) <= Sum(f, u))}
  <1> SUFFICES ASSUME Wrong # {} PROVE FALSE
    OBVIOUS
  <1>1. PICK U \in Wrong : \A w \in SUBSET U : w # U => w \notin Wrong
    <2>1. Wrong \in SUBSET (SUBSET S)
      OBVIOUS
    <2> HIDE DEF Wrong
    <2>2. QED
      BY <2>1, SmallestWrong
  <1>2. /\ U \in SUBSET S /\ T \subseteq U /\ IsFiniteSet(U) /\ IsFiniteSet(T)
        /\ Sum(f, T) \in Nat /\ ~(Sum(f, T) <= Sum(f, U))
    BY FS_Subset, SumNat
  <1>3. PICK x \in U : x \notin T
    BY <1>2
  <1>4. U \ {x} \notin Wrong /\ IsFiniteSet(U \ {x})
    BY <1>1, <1>2, <1>3, FS_Subset
  <1>5. Sum(f, T) <= Sum(f, U \ {x})
    BY <1>2, <1>3, <1>4
  <1>6. Sum(f, U) = f[x] + Sum(f, U \ {x})
    BY <1>2, <1>3, SumSplits
  <1>7. f[x] \in Nat /\ Sum(f, U \ {x}) \in Nat
    BY <1>2, <1>3, <1>4, SumNat
  <1>8. QED
    BY <1>2, <1>5, <1>6, <1>7

\* Where only the value at x differs, the sums differ by that much.
LEMMA SumChanges ==
    ASSUME NEW f, NEW g, NEW S, IsFiniteSet(S), NEW x \in S,
           \A y \in S : f[y] \in Nat /\ g[y] \in Nat,
           \A y \in S \ {x} : f[y] = g[y]
    PROVE  Sum(g, S) + f[x] = Sum(f, S) + g[x]
  <1>1. IsFiniteSet(S \ {x})
    BY FS_RemoveElement
  <1>2. Sum(f, S \ {x}) = Sum(g, S \ {x}) /\ Sum(f, S \ {x}) \in Nat
    BY <1>1, SumSame, SumNat
  <1>3. Sum(f, S) = f[x] + Sum(f, S \ {x}) /\ Sum(g, S) = g[x] + Sum(g, S \ {x})
    BY SumSplits
  <1>4. QED
    BY <1>2, <1>3

\* Nothing sums to nothing.
LEMMA SumZero ==
    ASSUME NEW f, NEW S, IsFiniteSet(S), \A x \in S : f[x] = 0
    PROVE  Sum(f, S) = 0
  <1> DEFINE Wrong == {u \in SUBSET S : Sum(f, u) # 0}
  <1> SUFFICES ASSUME Wrong # {} PROVE FALSE
    OBVIOUS
  <1>1. PICK T \in Wrong : \A w \in SUBSET T : w # T => w \notin Wrong
    <2>1. Wrong \in SUBSET (SUBSET S)
      OBVIOUS
    <2> HIDE DEF Wrong
    <2>2. QED
      BY <2>1, SmallestWrong
  <1>2. T # {} /\ IsFiniteSet(T)
    <2>1. IsFiniteSet(T) /\ Sum(f, T) # 0
      BY <1>1, FS_Subset
    <2>2. QED
      BY <2>1, SumEmpty
  <1>3. Pick(T) \in T
    BY <1>2, PickIn
  <1>4. Sum(f, T \ {Pick(T)}) = 0
    BY <1>1, <1>3
  <1>5. Sum(f, T) = f[Pick(T)] + Sum(f, T \ {Pick(T)})
    BY <1>2, SumPicks
  <1>6. QED
    BY <1>1, <1>3, <1>4, <1>5
=============================================================================
