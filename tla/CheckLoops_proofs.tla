--------------------------- MODULE CheckLoops_proofs ---------------------------
(***************************************************************************)
(* The loops of checks.ts and of the coordinator's dispatch compute the     *)
(* closed forms of CheckLedger for every plan, plan order, dependency map   *)
(* and ledger: LoopsMatchClosedForms.                                       *)
(*                                                                          *)
(* What loops and other recursions come to is shown by induction over data, *)
(* for which the first part lays the ground.                                *)
(***************************************************************************)
EXTENDS CheckLoops, FiniteSetTheorems, WellFoundedInduction, TLAPS

---------------------------------------------------------------------------
(* Induction.  The library's induction theorems take the statement as an    *)
(* operator; here it is a set of numbers, and the numbers outside of it     *)
(* would have a least one.                                                  *)

\* The order of the numbers has no infinite descent.
LEMMA NumbersDescend == IsWellFoundedOn({p \in Nat \X Nat : p[1] < p[2]}, Nat)
BY NatLessThanWellFounded DEF OpToRel

\* A set that has 0 and the successors of its numbers has every number.
LEMMA NumbersInduction ==
    ASSUME NEW S, 0 \in S, \A n \in S \cap Nat : n + 1 \in S
    PROVE  Nat \subseteq S
<1> DEFINE less == {p \in Nat \X Nat : p[1] < p[2]}
           rest == Nat \ S
<1>1. SUFFICES ASSUME rest # {} PROVE FALSE
    OBVIOUS
<1>2. PICK x \in rest : \A y \in rest : ~(<<y, x>> \in less)
    <2>1. rest \subseteq Nat
        OBVIOUS
    <2>2. IsWellFoundedOn(less, Nat)
        BY NumbersDescend
    <2> HIDE DEF rest, less
    <2> QED BY <1>1, <2>1, <2>2, WFMin
<1>3. x \in Nat \ {0}
    OBVIOUS
<1>4. x - 1 \in Nat /\ x - 1 \notin S
    BY <1>3
<1>5. <<x - 1, x>> \in less
    BY <1>3, <1>4
<1> QED BY <1>2, <1>4, <1>5

\* The values from b on, by steps of G.
Recursive(V, b, G, n) ==
    \E f \in [0..n -> V] : f[0] = b /\ \A i \in 1..n : f[i] = G[<<i, f[i - 1]>>]

\* A recursion over the numbers up to n has a value at each of them.
LEMMA RecursionExists ==
    ASSUME NEW V, NEW b \in V, NEW G \in [Nat \X V -> V], NEW n \in Nat
    PROVE  Recursive(V, b, G, n)
<1> DEFINE Reaches(k, f) == f[0] = b /\ \A i \in 1..k : f[i] = G[<<i, f[i - 1]>>]
           S == {k \in Nat : \E f \in [0..k -> V] : Reaches(k, f)}
<1>1. 0 \in S
    <2>1. [i \in 0..0 |-> b] \in [0..0 -> V] /\ Reaches(0, [i \in 0..0 |-> b])
        OBVIOUS
    <2> QED BY <2>1
<1>2. ASSUME NEW k \in S \cap Nat PROVE k + 1 \in S
    <2>1. PICK f \in [0..k -> V] : Reaches(k, f)
        BY <1>2
    <2> DEFINE g == [i \in 0..(k + 1) |-> IF i <= k THEN f[i] ELSE G[<<k + 1, f[k]>>]]
    <2>2. g \in [0..(k + 1) -> V]
        OBVIOUS
    <2>3. Reaches(k + 1, g)
        <3>1. g[0] = b
            BY <2>1
        <3>2. ASSUME NEW i \in 1..(k + 1) PROVE g[i] = G[<<i, g[i - 1]>>]
            <4>1. k \in Nat /\ i \in Nat /\ i - 1 \in 0..k /\ g[i - 1] = f[i - 1]
                BY <1>2
            <4>2. CASE i <= k
                <5>1. g[i] = f[i] /\ f[i] = G[<<i, f[i - 1]>>]
                    BY <2>1, <4>1, <4>2
                <5> QED BY <4>1, <5>1
            <4>3. CASE i = k + 1
                <5>1. g[i] = G[<<k + 1, f[k]>>] /\ i - 1 = k
                    BY <4>1, <4>3
                <5> QED BY <4>1, <4>3, <5>1
            <4> QED BY <4>1, <4>2, <4>3
        <3> QED BY <3>1, <3>2
    <2> HIDE DEF g, Reaches
    <2>4. k + 1 \in Nat
        OBVIOUS
    <2> QED BY <2>2, <2>3, <2>4
<1>3. n \in S
    <2> HIDE DEF S
    <2> QED BY <1>1, <1>2, NumbersInduction
<1> QED BY <1>3 DEF Recursive

---------------------------------------------------------------------------
(* Folds *)

\* The values of a fold over the subsets of S, each from the subset without the
\* element ch takes first.
OverSubsets(S, V, b, ch, G) ==
    \E it \in [SUBSET S -> V] :
        it[{}] = b /\ \A s \in (SUBSET S) \ {{}} : it[s] = G[<<ch[s], it[s \ {ch[s]}]>>]

\* A fold over a finite set has a value at each of its subsets.
LEMMA FoldExists ==
    ASSUME NEW S, IsFiniteSet(S), NEW V, NEW b \in V,
           NEW ch \in [(SUBSET S) \ {{}} -> S], \A s \in (SUBSET S) \ {{}} : ch[s] \in s,
           NEW G \in [S \X V -> V]
    PROVE  OverSubsets(S, V, b, ch, G)
<1> DEFINE Small(k) == {s \in SUBSET S : Cardinality(s) <= k}
           Goes(k, it) == /\ it[{}] = b
                          /\ \A s \in Small(k) \ {{}} : it[s] = G[<<ch[s], it[s \ {ch[s]}]>>]
           N == {k \in Nat : \E it \in [Small(k) -> V] : Goes(k, it)}
<1>1. \A s \in SUBSET S : IsFiniteSet(s) /\ Cardinality(s) \in Nat /\ Cardinality(s) <= Cardinality(S)
    BY FS_Subset, FS_CardinalityType
<1>2. \A s \in SUBSET S : Cardinality(s) = 0 <=> s = {}
    BY <1>1, FS_EmptySet
<1>3. \A k \in Nat : {} \in Small(k)
    BY <1>2
<1>4. 0 \in N
    <2> DEFINE it == [s \in Small(0) |-> b]
    <2>1. \A s \in Small(0) : s = {}
        BY <1>1, <1>2
    <2>2. it \in [Small(0) -> V] /\ Goes(0, it)
        <3>1. it[{}] = b
            BY <1>3
        <3> QED BY <2>1, <3>1
    <2> HIDE DEF it, Goes, Small
    <2> QED BY <2>2
<1>5. ASSUME NEW k \in N \cap Nat PROVE k + 1 \in N
    <2>1. PICK it \in [Small(k) -> V] : Goes(k, it)
        BY <1>5
    <2> DEFINE g == [s \in Small(k + 1) |-> IF s = {} THEN b ELSE G[<<ch[s], it[s \ {ch[s]}]>>]]
    <2>2. ASSUME NEW s \in Small(k + 1) \ {{}} PROVE ch[s] \in S /\ s \ {ch[s]} \in Small(k)
        <3>1. s \in (SUBSET S) \ {{}} /\ ch[s] \in s /\ Cardinality(s) <= k + 1
            OBVIOUS
        <3>2. Cardinality(s \ {ch[s]}) = Cardinality(s) - 1
            BY <1>1, <3>1, FS_RemoveElement
        <3> QED BY <1>1, <3>1, <3>2
    <2>3. ASSUME NEW s \in Small(k) PROVE g[s] = it[s] /\ s \in Small(k + 1)
        <3>1. s \in Small(k + 1)
            BY <1>1
        <3> HIDE DEF Small
        <3> QED BY <2>1, <3>1
    <2>4. g \in [Small(k + 1) -> V]
        <3>1. ASSUME NEW s \in Small(k + 1) PROVE g[s] \in V
            <4> HIDE DEF Small
            <4>1. CASE s = {}
                BY <4>1
            <4>2. CASE s # {}
                BY <2>2, <4>2
            <4> QED BY <4>1, <4>2
        <3> HIDE DEF Small
        <3> QED BY <3>1
    <2>5. Goes(k + 1, g)
        <3>1. g[{}] = b
            <4>1. {} \in Small(k + 1)
                BY <1>3
            <4> HIDE DEF Small
            <4> QED BY <4>1
        <3>2. ASSUME NEW s \in Small(k + 1) \ {{}} PROVE g[s] = G[<<ch[s], g[s \ {ch[s]}]>>]
            <4>1. g[s] = G[<<ch[s], it[s \ {ch[s]}]>>]
                OBVIOUS
            <4> HIDE DEF Small, g
            <4> QED BY <2>2, <2>3, <4>1
        <3> HIDE DEF g, Small
        <3> QED BY <3>1, <3>2
    <2> HIDE DEF g, Goes, Small
    <2> QED BY <2>4, <2>5
<1>6. Nat \subseteq N
    <2> HIDE DEF N
    <2> QED BY <1>4, <1>5, NumbersInduction
<1>7. Small(Cardinality(S)) = SUBSET S /\ Cardinality(S) \in Nat
    BY <1>1
<1>8. PICK it \in [Small(Cardinality(S)) -> V] : Goes(Cardinality(S), it)
    <2> HIDE DEF Goes, Small
    <2> QED BY <1>6, <1>7
<1> QED BY <1>7, <1>8 DEF OverSubsets

---------------------------------------------------------------------------
(* Numbers and orders *)

\* What holds at 0 and on from every number below n holds up to n.
LEMMA UpTo ==
    ASSUME NEW n \in Nat, NEW S, 0 \in S, \A k \in 0..n : (k < n /\ k \in S) => k + 1 \in S
    PROVE  \A k \in 0..n : k \in S
<1> DEFINE T == {k \in Nat : k <= n => k \in S}
<1>1. 0 \in T
    OBVIOUS
<1>2. ASSUME NEW k \in T \cap Nat PROVE k + 1 \in T
    OBVIOUS
<1>3. Nat \subseteq T
    <2> HIDE DEF T
    <2> QED BY <1>1, <1>2, NumbersInduction
<1> QED BY <1>3

\* Finitely many numbers have a least one.
LEMMA LeastExists ==
    ASSUME NEW S, S \subseteq Int, IsFiniteSet(S), S # {}
    PROVE  \E x \in S : \A y \in S : x <= y
<1> DEFINE N == {k \in Nat : \A T \in SUBSET S :
                    (T # {} /\ Cardinality(T) <= k) => \E x \in T : \A y \in T : x <= y}
<1>1. \A T \in SUBSET S : IsFiniteSet(T) /\ Cardinality(T) \in Nat /\ (Cardinality(T) = 0 <=> T = {})
    BY FS_Subset, FS_CardinalityType, FS_EmptySet
<1>2. 0 \in N
    <2>1. \A T \in SUBSET S : Cardinality(T) <= 0 => T = {}
        BY <1>1
    <2> QED BY <2>1
<1>3. ASSUME NEW k \in N \cap Nat PROVE k + 1 \in N
    <2>1. ASSUME NEW T \in SUBSET S, T # {}, Cardinality(T) <= k + 1
          PROVE  \E x \in T : \A y \in T : x <= y
        <3>1. PICK a \in T : TRUE
            BY <2>1
        <3>2. Cardinality(T \ {a}) <= k
            BY <1>1, <2>1, FS_RemoveElement
        <3>3. CASE T \ {a} = {}
            BY <3>3
        <3>4. CASE T \ {a} # {}
            <4>1. PICK x \in T \ {a} : \A y \in T \ {a} : x <= y
                BY <3>2, <3>4
            <4>2. a \in Int /\ x \in Int /\ \A y \in T : y \in Int
                OBVIOUS
            <4>3. CASE x <= a
                BY <4>1, <4>2, <4>3
            <4>4. CASE ~(x <= a)
                <5>1. \A y \in T : a <= y
                    BY <4>1, <4>2, <4>4
                <5> QED BY <5>1
            <4> QED BY <4>3, <4>4
        <3> QED BY <3>3, <3>4
    <2> QED BY <2>1
<1>4. Nat \subseteq N
    <2> HIDE DEF N
    <2> QED BY <1>2, <1>3, NumbersInduction
<1>5. S \in SUBSET S /\ Cardinality(S) \in N
    <2>1. Cardinality(S) \in Nat
        BY <1>1
    <2> HIDE DEF N
    <2> QED BY <1>4, <2>1
<1> QED BY <1>5

\* Nothing of any part of S is before some element of it.
HasFirsts(S, before) ==
    \A T \in (SUBSET S) \ {{}} : \E m \in T : \A t \in T : <<t, m>> \notin before

\* Each element once, none after one it is before.
IsOrder(s, S, before) ==
    /\ s \in [1..Cardinality(S) -> S]
    /\ IsInjective(s)
    /\ Range(s) = S
    /\ \A i, j \in DOMAIN s : i < j => <<s[j], s[i]>> \notin before

\* A finite set whose subsets have firsts can be put in order.
LEMMA OrderExists ==
    ASSUME NEW S, IsFiniteSet(S), NEW before, HasFirsts(S, before)
    PROVE  \E s : IsOrder(s, S, before)
<1> DEFINE N == {k \in Nat : \A T \in SUBSET S : Cardinality(T) = k => \E s : IsOrder(s, T, before)}
<1>1. \A T \in SUBSET S : IsFiniteSet(T) /\ Cardinality(T) \in Nat /\ (Cardinality(T) = 0 <=> T = {})
    BY FS_Subset, FS_CardinalityType, FS_EmptySet
<1>2. 0 \in N
    <2>1. ASSUME NEW T \in SUBSET S, Cardinality(T) = 0 PROVE IsOrder(<<>>, T, before)
        <3>1. T = {} /\ 1..Cardinality(T) = {}
            BY <1>1, <2>1
        <3> QED BY <3>1 DEF IsOrder, IsInjective, Range
    <2> QED BY <2>1
<1>3. ASSUME NEW k \in N \cap Nat PROVE k + 1 \in N
    <2>1. ASSUME NEW T \in SUBSET S, Cardinality(T) = k + 1 PROVE \E s : IsOrder(s, T, before)
        <3>1. T # {} /\ k \in Nat
            BY <1>1, <2>1
        <3>2. PICK m \in T : \A t \in T : <<t, m>> \notin before
            BY <3>1 DEF HasFirsts
        <3>3. T \ {m} \in SUBSET S /\ Cardinality(T \ {m}) = k
            <4> HIDE DEF N
            <4>1. IsFiniteSet(T) /\ m \in T
                BY <1>1
            <4>2. Cardinality(T \ {m}) = Cardinality(T) - 1
                BY <4>1, FS_RemoveElement
            <4>3. Cardinality(T \ {m}) = (k + 1) - 1
                BY <2>1, <4>2
            <4> QED BY <3>1, <4>3
        <3>4. PICK r : IsOrder(r, T \ {m}, before)
            BY <3>3
        <3> DEFINE s == [i \in 1..(k + 1) |-> IF i = 1 THEN m ELSE r[i - 1]]
        <3>5. \A i \in 1..(k + 1) : i # 1 => i - 1 \in 1..k /\ s[i] = r[i - 1]
            BY <3>1
        <3>6. /\ r \in [1..k -> T \ {m}] /\ IsInjective(r) /\ Range(r) = T \ {m}
              /\ \A i, j \in 1..k : i < j => <<r[j], r[i]>> \notin before
            BY <3>3, <3>4 DEF IsOrder
        <3>7. s \in [1..(k + 1) -> T]
            BY <3>5, <3>6
        <3>8. s[1] = m /\ 1 \in 1..(k + 1)
            BY <3>1
        <3> HIDE DEF s
        <3>9. IsInjective(s)
            <4>1. ASSUME NEW i \in 1..(k + 1), NEW j \in 1..(k + 1), s[i] = s[j] PROVE i = j
                <5>1. CASE i # 1 /\ j # 1
                    <6>1. i - 1 = j - 1
                        BY <3>5, <3>6, <4>1, <5>1 DEF IsInjective
                    <6> QED BY <6>1
                <5>2. CASE i = 1 \/ j = 1
                    BY <3>5, <3>6, <3>8, <4>1, <5>2
                <5> QED BY <5>1, <5>2
            <4> QED BY <3>7, <4>1 DEF IsInjective
        <3>10. Range(s) = T
            <4>1. ASSUME NEW t \in T PROVE \E i \in 1..(k + 1) : s[i] = t
                <5>1. CASE t = m
                    BY <3>8, <5>1
                <5>2. CASE t # m
                    <6>1. PICK i \in 1..k : r[i] = t
                        BY <3>6, <5>2 DEF Range
                    <6>2. i + 1 \in 1..(k + 1) /\ s[i + 1] = r[i]
                        BY <3>1, <3>5
                    <6> QED BY <6>1, <6>2
                <5> QED BY <5>1, <5>2
            <4> QED BY <3>7, <4>1 DEF Range
        <3>11. ASSUME NEW i \in 1..(k + 1), NEW j \in 1..(k + 1), i < j
               PROVE  <<s[j], s[i]>> \notin before
            <4>1. CASE i = 1
                BY <3>2, <3>7, <3>8, <4>1
            <4>2. CASE i # 1
                <5>1. i - 1 \in 1..k /\ j - 1 \in 1..k /\ i - 1 < j - 1 /\ s[i] = r[i - 1] /\ s[j] = r[j - 1]
                    BY <3>5, <3>11, <4>2
                <5> QED BY <3>6, <5>1
            <4> QED BY <4>1, <4>2
        <3>12. IsOrder(s, T, before)
            BY <2>1, <3>7, <3>9, <3>10, <3>11 DEF IsOrder
        <3> QED BY <3>12
    <2> QED BY <2>1, <1>3
<1>4. Nat \subseteq N
    <2> HIDE DEF N
    <2> QED BY <1>2, <1>3, NumbersInduction
<1>5. S \in SUBSET S /\ Cardinality(S) \in N
    <2>1. Cardinality(S) \in Nat
        BY <1>1
    <2> HIDE DEF N
    <2> QED BY <1>4, <2>1
<1> QED BY <1>5

---------------------------------------------------------------------------
(* The check loops.  A pass of a loop takes each check in plan order and    *)
(* adds it if the rule of the loop yields it from what was there; the loop  *)
(* goes on until a pass adds nothing.  The result is the least set that the *)
(* rule adds nothing to, whatever the plan order.                           *)

\* What a loop may add to a set; it yields no less from more.
RulesOfLoops ==
    {R \in [SUBSET Checks -> SUBSET Checks] :
        \A S, T \in SUBSET Checks : S \subseteq T => R[S] \subseteq R[T]}

\* The sets of one pass of a loop.
PassSteps(w, R) ==
    \A i \in 1..Size :
        w[i] = IF PlanOrder[i] \in R[w[i - 1]] THEN w[i - 1] \cup {PlanOrder[i]} ELSE w[i - 1]

\* A pass from X leads to Z.
PassLeads(X, Z, R) ==
    \E w \in [0..Size -> SUBSET Checks] : w[0] = X /\ w[Size] = Z /\ PassSteps(w, R)

\* The sets after each pass of a loop.
LoopGoes(Y, R) ==
    /\ Y \in [0..(Size + 1) -> SUBSET Checks]
    /\ Y[0] = {}
    /\ \A n \in 1..(Size + 1) : PassLeads(Y[n - 1], Y[n], R)

\* The least set that the rule adds nothing to.
LeastClosed(Z, R) ==
    /\ Z \in SUBSET Checks
    /\ R[Z] \subseteq Z
    /\ \A T \in SUBSET Checks : R[T] \subseteq T => Z \subseteq T

\* Size passes are enough, and the first idle one has reached the least set.
LoopSettles(Y, R) ==
    /\ \E n \in 0..Size : Y[n + 1] = Y[n]
    /\ \A n \in 0..Size : Y[n + 1] = Y[n] => LeastClosed(Y[n], R)

\* A set of checks has a first one.
LEMMA FirstPlanned ==
    ASSUME NEW T \in SUBSET Checks, T # {}
    PROVE  \E m \in T : \A t \in T : ~(PlanIndex[t] < PlanIndex[m])
<1> DEFINE N == {PlanIndex[t] : t \in T}
           at == [t \in T |-> PlanIndex[t]]
<1>1. /\ IsFiniteSet(T) /\ at \in Surjection(T, N) /\ \A t \in T : PlanIndex[t] \in Nat
    BY CheckAssumption, FS_Subset DEF Surjection
<1>2. IsFiniteSet(N) /\ N \subseteq Int /\ N # {}
    <2>1. IsFiniteSet(N)
        <3> HIDE DEF N, at
        <3> QED BY <1>1, FS_Surjection
    <2>2. N \subseteq Int /\ N # {}
        BY <1>1
    <2> QED BY <2>1, <2>2
<1>3. PICK x \in N : \A y \in N : x <= y
    <2> HIDE DEF N
    <2> QED BY <1>2, LeastExists
<1>4. PICK m \in T : x = PlanIndex[m]
    OBVIOUS
<1>5. ASSUME NEW t \in T PROVE ~(PlanIndex[t] < PlanIndex[m])
    <2>1. PlanIndex[m] <= PlanIndex[t] /\ PlanIndex[t] \in Nat /\ PlanIndex[m] \in Nat
        BY <1>1, <1>3, <1>4
    <2> QED BY <2>1
<1> QED BY <1>5

\* The plan order visits every check, by rising index.
LEMMA PlanOrderVisits ==
    /\ Size \in Nat
    /\ PlanOrder \in [1..Size -> Checks]
    /\ \A i, j \in 1..Size : i < j => PlanIndex[PlanOrder[i]] < PlanIndex[PlanOrder[j]]
    /\ \A c \in Checks : \E i \in 1..Size : PlanOrder[i] = c
<1> DEFINE before == {p \in Checks \X Checks : PlanIndex[p[1]] < PlanIndex[p[2]]}
<1>1. /\ IsFiniteSet(Checks) /\ Size \in Nat
      /\ \A c \in Checks : PlanIndex[c] \in Nat
      /\ \A c, d \in Checks : PlanIndex[c] = PlanIndex[d] => c = d
    BY CheckAssumption, FS_CardinalityType DEF Size
<1>2. HasFirsts(Checks, before)
    <2>1. ASSUME NEW T \in (SUBSET Checks) \ {{}}
          PROVE  \E m \in T : \A t \in T : <<t, m>> \notin before
        <3>1. PICK m \in T : \A t \in T : ~(PlanIndex[t] < PlanIndex[m])
            BY FirstPlanned
        <3> QED BY <3>1
    <2> HIDE DEF before
    <2> QED BY <2>1 DEF HasFirsts
<1>3. PICK s : IsOrder(s, Checks, before)
    <2> HIDE DEF before
    <2> QED BY <1>1, <1>2, OrderExists
<1>4. /\ s \in [1..Size -> Checks] /\ IsInjective(s)
      /\ \A i, j \in 1..Size : i < j => <<s[j], s[i]>> \notin before
    BY <1>3 DEF IsOrder, Size
<1>5. ASSUME NEW i \in 1..Size, NEW j \in 1..Size, i < j
      PROVE  PlanIndex[s[i]] < PlanIndex[s[j]]
    <2>1. s[i] \in Checks /\ s[j] \in Checks /\ i # j
        BY <1>1, <1>4, <1>5
    <2>2. s[i] # s[j]
        BY <1>4, <2>1 DEF IsInjective
    <2>3. ~(PlanIndex[s[j]] < PlanIndex[s[i]])
        BY <1>4, <1>5, <2>1
    <2> QED BY <1>1, <2>1, <2>2, <2>3
<1>6. /\ PlanOrder \in [1..Size -> Checks]
      /\ \A i, j \in 1..Size : i < j => PlanIndex[PlanOrder[i]] < PlanIndex[PlanOrder[j]]
    <2> DEFINE Is(u) == u \in [1..Size -> Checks]
                          /\ \A i, j \in 1..Size : i < j => PlanIndex[u[i]] < PlanIndex[u[j]]
    <2>1. Is(s)
        BY <1>4, <1>5
    <2>2. Is(PlanOrder)
        BY <2>1 DEF PlanOrder
    <2> QED BY <2>2
<1>7. PlanOrder \in Injection(1..Size, Checks)
    <2>1. ASSUME NEW i \in 1..Size, NEW j \in 1..Size, PlanOrder[i] = PlanOrder[j] PROVE i = j
        <3>1. PlanIndex[PlanOrder[i]] \in Nat /\ PlanIndex[PlanOrder[j]] \in Nat
            BY <1>1, <1>6
        <3>2. ~(i < j) /\ ~(j < i)
            BY <1>6, <2>1, <3>1
        <3> QED BY <1>1, <3>2
    <2> QED BY <1>6, <2>1 DEF Injection, IsInjective
<1>8. PlanOrder \in Surjection(1..Size, Checks)
    <2>1. Cardinality(1..Size) = Cardinality(Checks)
        <3> DEFINE n == Cardinality(Checks)
        <3>1. n \in Nat /\ Size = n
            BY <1>1 DEF Size
        <3> HIDE DEF n
        <3>2. Cardinality(1..n) = n
            BY <3>1, FS_Interval
        <3> QED BY <3>1, <3>2 DEF n
    <2> QED BY <1>1, <1>7, <2>1, FS_Injection
<1> QED BY <1>1, <1>6, <1>8 DEF Surjection

\* A pass can be made from any set.
LEMMA PassExists ==
    ASSUME NEW R \in RulesOfLoops, NEW X \in SUBSET Checks
    PROVE  \E Z \in SUBSET Checks : PassLeads(X, Z, R)
<1> DEFINE n == Size
           V == SUBSET Checks
           Step(i, v) == IF PlanOrder[i] \in R[v] THEN v \cup {PlanOrder[i]} ELSE v
           G == [p \in Nat \X V |-> IF p[1] \in 1..n THEN Step(p[1], p[2]) ELSE p[2]]
<1>1. n \in Nat /\ \A i \in 1..n : PlanOrder[i] \in Checks
    BY PlanOrderVisits
<1>2. G \in [Nat \X V -> V]
    <2>1. \A i \in 1..n, v \in V : Step(i, v) \in V
        BY <1>1
    <2> HIDE DEF Step, V, n
    <2> QED BY <2>1
<1>3. PICK w \in [0..n -> V] : w[0] = X /\ \A i \in 1..n : w[i] = G[<<i, w[i - 1]>>]
    <2>1. X \in V
        OBVIOUS
    <2> HIDE DEF G, n, V
    <2>2. Recursive(V, X, G, n)
        BY <1>1, <1>2, <2>1, RecursionExists
    <2> QED BY <2>2 DEF Recursive
<1>4. ASSUME NEW i \in 1..n PROVE w[i] = Step(i, w[i - 1])
    <2>1. i \in Nat /\ i - 1 \in 0..n
        BY <1>1
    <2>2. w[i] = G[<<i, w[i - 1]>>] /\ w[i - 1] \in V
        <3> HIDE DEF G, n, V
        <3> QED BY <1>3, <2>1
    <2> HIDE DEF Step, V, n
    <2> QED BY <2>1, <2>2
<1>5. PassLeads(X, w[n], R)
    BY <1>3, <1>4 DEF PassLeads, PassSteps
<1>6. w[n] \in SUBSET Checks
    BY <1>1, <1>3
<1> QED BY <1>5, <1>6

\* A pass adds to the set, stays within every set that the rule adds nothing to,
\* and when it adds nothing the rule does not either.
LEMMA PassAdds ==
    ASSUME NEW R \in RulesOfLoops, NEW X \in SUBSET Checks, NEW Z \in SUBSET Checks,
           PassLeads(X, Z, R)
    PROVE  /\ X \subseteq Z
           /\ \A T \in SUBSET Checks : R[T] \subseteq T /\ X \subseteq T => Z \subseteq T
           /\ Z = X => R[X] \subseteq X
<1>1. PICK w \in [0..Size -> SUBSET Checks] : w[0] = X /\ w[Size] = Z /\ PassSteps(w, R)
    BY DEF PassLeads
<1>2. /\ Size \in Nat /\ \A i \in 1..Size : PlanOrder[i] \in Checks
      /\ \A c \in Checks : \E i \in 1..Size : PlanOrder[i] = c
    BY PlanOrderVisits
<1>3. ASSUME NEW i \in 0..Size, i < Size
      PROVE  /\ i + 1 \in 0..Size /\ PlanOrder[i + 1] \in Checks
             /\ w[i + 1] = IF PlanOrder[i + 1] \in R[w[i]] THEN w[i] \cup {PlanOrder[i + 1]} ELSE w[i]
    <2>1. i + 1 \in 0..Size /\ i + 1 \in 1..Size /\ (i + 1) - 1 = i
        BY <1>2, <1>3
    <2>2. w[i + 1] = IF PlanOrder[i + 1] \in R[w[(i + 1) - 1]]
                        THEN w[(i + 1) - 1] \cup {PlanOrder[i + 1]} ELSE w[(i + 1) - 1]
        BY <1>1, <2>1 DEF PassSteps
    <2> QED BY <1>2, <2>1, <2>2
<1>4. 0 \in 0..Size /\ Size \in 0..Size
    BY <1>2
<1>5. \A i \in 0..Size : X \subseteq w[i]
    <2> DEFINE S == {i \in 0..Size : X \subseteq w[i]}
    <2>1. 0 \in S
        BY <1>1, <1>4
    <2>2. ASSUME NEW i \in 0..Size, i < Size, i \in S PROVE i + 1 \in S
        BY <1>3, <2>2
    <2>3. \A i \in 0..Size : i \in S
        <3> HIDE DEF S
        <3> QED BY <1>2, <2>1, <2>2, UpTo
    <2> QED BY <2>3
<1>6. ASSUME NEW T \in SUBSET Checks, R[T] \subseteq T, X \subseteq T PROVE Z \subseteq T
    <2> DEFINE S == {i \in 0..Size : w[i] \subseteq T}
    <2>1. ASSUME NEW i \in 0..Size, i < Size, i \in S PROVE i + 1 \in S
        <3>1. w[i] \in SUBSET Checks /\ w[i] \subseteq T
            BY <1>1, <2>1
        <3>2. R[w[i]] \subseteq T
            BY <1>6, <3>1 DEF RulesOfLoops
        <3>3. /\ i + 1 \in 0..Size
              /\ w[i + 1] = IF PlanOrder[i + 1] \in R[w[i]] THEN w[i] \cup {PlanOrder[i + 1]} ELSE w[i]
            BY <1>3, <2>1
        <3>4. w[i + 1] \subseteq T
            BY <3>1, <3>2, <3>3
        <3> QED BY <3>3, <3>4
    <2>2. 0 \in S
        BY <1>1, <1>4, <1>6
    <2>3. \A i \in 0..Size : i \in S
        <3> HIDE DEF S
        <3> QED BY <1>2, <2>1, <2>2, UpTo
    <2> QED BY <1>1, <1>4, <2>3
<1>7. ASSUME Z = X PROVE R[X] \subseteq X
    <2>1. \A i \in 0..Size : w[i] \subseteq Z
        <3> DEFINE S == {i \in 0..Size : w[Size - i] \subseteq Z}
        <3>1. 0 \in S
            BY <1>1, <1>2, <1>4
        <3>2. ASSUME NEW i \in 0..Size, i < Size, i \in S PROVE i + 1 \in S
            <4>1. /\ Size - (i + 1) \in 0..Size /\ Size - (i + 1) < Size
                  /\ Size - (i + 1) + 1 = Size - i /\ i + 1 \in 0..Size
                BY <1>2, <3>2
            <4>2. w[Size - (i + 1)] \subseteq w[Size - i]
                BY <1>3, <4>1
            <4> QED BY <3>2, <4>1, <4>2
        <3>3. \A i \in 0..Size : i \in S
            <4> HIDE DEF S
            <4> QED BY <1>2, <3>1, <3>2, UpTo
        <3>4. ASSUME NEW i \in 0..Size PROVE w[i] \subseteq Z
            <4>1. Size - i \in 0..Size /\ Size - (Size - i) = i
                BY <1>2
            <4> QED BY <3>3, <4>1
        <3> QED BY <3>4
    <2>2. ASSUME NEW c \in R[X] PROVE c \in X
        <3>1. R[X] \subseteq Checks
            BY DEF RulesOfLoops
        <3>2. PICK i \in 1..Size : PlanOrder[i] = c
            BY <1>2, <2>2, <3>1
        <3>3. i - 1 \in 0..Size /\ i \in 0..Size
            BY <1>2
        <3>4. w[i - 1] = X /\ w[i] = X
            BY <1>5, <1>7, <2>1, <3>3
        <3>5. w[i] = IF c \in R[w[i - 1]] THEN w[i - 1] \cup {c} ELSE w[i - 1]
            BY <1>1, <3>2 DEF PassSteps
        <3> QED BY <2>2, <3>4, <3>5
    <2> QED BY <2>2
<1>8. X \subseteq Z
    BY <1>1, <1>4, <1>5
<1> QED BY <1>6, <1>7, <1>8

\* The passes of a loop can be made.
LEMMA LoopExists ==
    ASSUME NEW R \in RulesOfLoops
    PROVE  \E Y : LoopGoes(Y, R)
<1> DEFINE V == SUBSET Checks
           n == Size + 1
           next(X) == CHOOSE Z \in V : PassLeads(X, Z, R)
           G == [p \in Nat \X V |-> next(p[2])]
<1>1. n \in Nat
    BY PlanOrderVisits
<1>2. \A X \in V : next(X) \in V /\ PassLeads(X, next(X), R)
    BY PassExists
<1>3. G \in [Nat \X V -> V]
    <2> HIDE DEF next, V
    <2> QED BY <1>2
<1>4. PICK Y \in [0..n -> V] : Y[0] = {} /\ \A i \in 1..n : Y[i] = G[<<i, Y[i - 1]>>]
    <2> DEFINE b == {}
    <2>1. b \in V
        OBVIOUS
    <2> HIDE DEF G, n, V, b
    <2>2. Recursive(V, b, G, n)
        BY <1>1, <1>3, <2>1, RecursionExists
    <2> QED BY <2>2 DEF Recursive, b
<1>5. ASSUME NEW i \in 1..n PROVE PassLeads(Y[i - 1], Y[i], R)
    <2>1. i \in Nat /\ i - 1 \in 0..n
        BY <1>1
    <2> HIDE DEF n, V, next
    <2>2. Y[i - 1] \in V
        BY <1>4, <2>1
    <2>3. Y[i] = next(Y[i - 1])
        BY <1>4, <2>1, <2>2
    <2> QED BY <1>2, <2>2, <2>3
<1> QED BY <1>4, <1>5 DEF LoopGoes

\* A loop settles on the least set that its rule adds nothing to.
LEMMA LoopReachesLeast ==
    ASSUME NEW R \in RulesOfLoops, NEW Y, LoopGoes(Y, R)
    PROVE  LoopSettles(Y, R)
<1>1. /\ Size \in Nat /\ Y \in [0..(Size + 1) -> SUBSET Checks] /\ Y[0] = {}
      /\ \A n \in 0..Size : PassLeads(Y[n], Y[n + 1], R)
    <2>1. Size \in Nat
        BY PlanOrderVisits
    <2>2. \A n \in 0..Size : n + 1 \in 1..(Size + 1) /\ (n + 1) - 1 = n
        BY <2>1
    <2> QED BY <2>1, <2>2 DEF LoopGoes
<1>2. \A n \in 0..Size : Y[n] \in SUBSET Checks /\ Y[n + 1] \in SUBSET Checks
    <2>1. \A n \in 0..Size : n \in 0..(Size + 1) /\ n + 1 \in 0..(Size + 1)
        BY <1>1
    <2> QED BY <1>1, <2>1
<1>3. \A n \in 0..Size :
        /\ Y[n] \subseteq Y[n + 1]
        /\ \A T \in SUBSET Checks : R[T] \subseteq T /\ Y[n] \subseteq T => Y[n + 1] \subseteq T
        /\ Y[n + 1] = Y[n] => R[Y[n]] \subseteq Y[n]
    <2>1. ASSUME NEW n \in 0..Size
          PROVE  /\ Y[n] \subseteq Y[n + 1]
                 /\ \A T \in SUBSET Checks : R[T] \subseteq T /\ Y[n] \subseteq T => Y[n + 1] \subseteq T
                 /\ Y[n + 1] = Y[n] => R[Y[n]] \subseteq Y[n]
        <3> DEFINE X == Y[n]
                   Z == Y[n + 1]
        <3>1. X \in SUBSET Checks /\ Z \in SUBSET Checks /\ PassLeads(X, Z, R)
            BY <1>1, <1>2
        <3> HIDE DEF X, Z
        <3>2. /\ X \subseteq Z
              /\ \A T \in SUBSET Checks : R[T] \subseteq T /\ X \subseteq T => Z \subseteq T
              /\ Z = X => R[X] \subseteq X
            BY <3>1, PassAdds
        <3> QED BY <3>2 DEF X, Z
    <2> QED BY <2>1
<1>4. \E n \in 0..Size : Y[n + 1] = Y[n]
    <2> SUFFICES ASSUME \A n \in 0..Size : Y[n + 1] # Y[n] PROVE FALSE
        OBVIOUS
    <2> DEFINE m == Size + 1
               S == {n \in 0..m : Cardinality(Y[n]) >= n}
    <2>1. /\ m \in Nat /\ m \in 0..m /\ 0 \in 0..m
          /\ \A n \in 0..m : n < m => n \in 0..Size /\ n + 1 \in 0..m
        BY <1>1
    <2>2. \A n \in 0..m : IsFiniteSet(Y[n]) /\ Cardinality(Y[n]) \in Nat /\ Cardinality(Y[n]) <= Size
        <3>1. ASSUME NEW n \in 0..m
              PROVE  IsFiniteSet(Y[n]) /\ Cardinality(Y[n]) \in Nat /\ Cardinality(Y[n]) <= Size
            <4>1. Y[n] \in SUBSET Checks /\ IsFiniteSet(Checks)
                BY <1>1, CheckAssumption
            <4> QED BY <4>1, FS_Subset, FS_CardinalityType DEF Size
        <3> QED BY <3>1
    <2>3. 0 \in S
        BY <2>1, <2>2
    <2>4. ASSUME NEW n \in 0..m, n < m, n \in S PROVE n + 1 \in S
        <3>1. n \in 0..Size /\ n + 1 \in 0..m /\ Cardinality(Y[n]) >= n /\ n \in Nat
            BY <2>1, <2>4
        <3>2. Y[n] \in SUBSET Y[n + 1] /\ Y[n] # Y[n + 1]
            BY <1>3, <3>1
        <3> DEFINE a == Cardinality(Y[n])
                   b == Cardinality(Y[n + 1])
        <3>3. a <= b /\ a # b
            BY <2>2, <3>1, <3>2, FS_Subset
        <3>4. a \in Nat /\ b \in Nat /\ a >= n
            BY <2>2, <3>1
        <3>5. b >= n + 1
            <4> HIDE DEF a, b
            <4> QED BY <3>1, <3>3, <3>4
        <3> QED BY <3>1, <3>5
    <2>5. m \in S
        <3> HIDE DEF S, m
        <3> QED BY <2>1, <2>3, <2>4, UpTo
    <2> QED BY <1>1, <2>1, <2>2, <2>5
<1>5. ASSUME NEW n \in 0..Size, Y[n + 1] = Y[n] PROVE LeastClosed(Y[n], R)
    <2>1. ASSUME NEW T \in SUBSET Checks, R[T] \subseteq T PROVE Y[n] \subseteq T
        <3> DEFINE S == {k \in 0..Size : Y[k] \subseteq T}
        <3>1. 0 \in S
            BY <1>1
        <3>2. ASSUME NEW k \in 0..Size, k < Size, k \in S PROVE k + 1 \in S
            <4>1. k + 1 \in 0..Size
                BY <1>1, <3>2
            <4> QED BY <1>3, <2>1, <3>2, <4>1
        <3>3. \A k \in 0..Size : k \in S
            <4> HIDE DEF S
            <4> QED BY <1>1, <3>1, <3>2, UpTo
        <3> QED BY <3>3
    <2> QED BY <1>2, <1>3, <1>5, <2>1 DEF LeastClosed
<1> QED BY <1>4, <1>5 DEF LoopSettles

\* The checks with all prerequisites settled.
SettleRule == [S \in SUBSET Checks |-> {c \in DOMAIN depMap : depMap[c] \subseteq S}]

LEMMA SettleRuleFits ==
    ASSUME depMap \in DepMaps
    PROVE  SettleRule \in RulesOfLoops /\ DOMAIN depMap \in SUBSET Checks
<1>1. PICK D \in SUBSET Checks : depMap \in [D -> SUBSET Checks]
    BY DEF DepMaps
<1>2. DOMAIN depMap = D
    BY <1>1
<1> QED BY <1>2 DEF SettleRule, RulesOfLoops

\* A pass of the settling loop in the code.
LEMMA SettlePassLeads ==
    ASSUME depMap \in DepMaps, NEW X \in SUBSET Checks, NEW Z \in SUBSET Checks,
           PassLeads(X, Z, SettleRule)
    PROVE  SettlePass(X) = Z
<1> DEFINE Is(u) == u = [i \in 0..Size |->
                            IF i = 0 THEN X
                            ELSE IF PlanOrder[i] \in DOMAIN depMap /\ depMap[PlanOrder[i]] \subseteq u[i - 1]
                                    THEN u[i - 1] \cup {PlanOrder[i]} ELSE u[i - 1]]
           it == CHOOSE u : Is(u)
<1>1. PICK w \in [0..Size -> SUBSET Checks] : w[0] = X /\ w[Size] = Z /\ PassSteps(w, SettleRule)
    BY DEF PassLeads
<1>2. Size \in Nat
    BY PlanOrderVisits
<1>3. ASSUME NEW i \in 1..Size
      PROVE  w[i] = IF PlanOrder[i] \in DOMAIN depMap /\ depMap[PlanOrder[i]] \subseteq w[i - 1]
                        THEN w[i - 1] \cup {PlanOrder[i]} ELSE w[i - 1]
    <2>1. i - 1 \in 0..Size
        BY <1>2
    <2>2. w[i - 1] \in SUBSET Checks
        BY <1>1, <2>1
    <2>3. w[i] = IF PlanOrder[i] \in SettleRule[w[i - 1]] THEN w[i - 1] \cup {PlanOrder[i]} ELSE w[i - 1]
        BY <1>1 DEF PassSteps
    <2>4. SettleRule[w[i - 1]] = {c \in DOMAIN depMap : depMap[c] \subseteq w[i - 1]}
        BY <2>2 DEF SettleRule
    <2> QED BY <2>3, <2>4
<1>4. Is(w)
    <2>1. \A i \in 0..Size : i = 0 \/ i \in 1..Size
        BY <1>2
    <2> QED BY <1>1, <1>3, <2>1
<1>5. Is(it)
    <2> HIDE DEF Is
    <2> QED BY <1>4
<1>6. SettlePass(X) = it[Size]
    BY DEF SettlePass
<1> HIDE DEF it
<1>7. Size \in 0..Size /\ 0 \in 0..Size
    BY <1>2
<1> DEFINE S == {i \in 0..Size : it[i] = w[i]}
<1>8. 0 \in S
    BY <1>1, <1>5, <1>7
<1>9. ASSUME NEW i \in 0..Size, i < Size, i \in S PROVE i + 1 \in S
    <2>1. i + 1 \in 0..Size /\ i + 1 \in 1..Size /\ i + 1 # 0 /\ (i + 1) - 1 = i
        BY <1>2, <1>9
    <2>2. it[i + 1] = IF PlanOrder[i + 1] \in DOMAIN depMap /\ depMap[PlanOrder[i + 1]] \subseteq it[(i + 1) - 1]
                        THEN it[(i + 1) - 1] \cup {PlanOrder[i + 1]} ELSE it[(i + 1) - 1]
        BY <1>5, <2>1
    <2>3. w[i + 1] = IF PlanOrder[i + 1] \in DOMAIN depMap /\ depMap[PlanOrder[i + 1]] \subseteq w[(i + 1) - 1]
                        THEN w[(i + 1) - 1] \cup {PlanOrder[i + 1]} ELSE w[(i + 1) - 1]
        BY <1>3, <2>1
    <2>4. it[i] = w[i]
        BY <1>9
    <2> QED BY <2>1, <2>2, <2>3, <2>4
<1>10. Size \in S
    <2> HIDE DEF S
    <2> QED BY <1>2, <1>7, <1>8, <1>9, UpTo
<1> QED BY <1>1, <1>6, <1>10

\* The settling loop of the code ends on the least set.
LEMMA SettleLoopIsLeast ==
    ASSUME depMap \in DepMaps
    PROVE  LeastClosed(SettleLoop, SettleRule)
<1> DEFINE Is(u) == u = [n \in 0..(Size + 1) |-> IF n = 0 THEN {} ELSE SettlePass(u[n - 1])]
           it == CHOOSE u : Is(u)
           m == CHOOSE n \in 0..Size : it[n + 1] = it[n]
<1>1. SettleRule \in RulesOfLoops
    BY SettleRuleFits
<1>2. PICK Y : LoopGoes(Y, SettleRule)
    BY <1>1, LoopExists
<1>3. LoopSettles(Y, SettleRule)
    BY <1>1, <1>2, LoopReachesLeast
<1>4. /\ Size \in Nat /\ Y \in [0..(Size + 1) -> SUBSET Checks] /\ Y[0] = {}
    BY <1>2, PlanOrderVisits DEF LoopGoes
<1>5. ASSUME NEW n \in 1..(Size + 1) PROVE Y[n] = SettlePass(Y[n - 1])
    <2>1. n \in 0..(Size + 1) /\ n - 1 \in 0..(Size + 1)
        BY <1>4
    <2>2. Y[n] \in SUBSET Checks /\ Y[n - 1] \in SUBSET Checks /\ PassLeads(Y[n - 1], Y[n], SettleRule)
        BY <1>2, <1>4, <2>1 DEF LoopGoes
    <2> QED BY <2>2, SettlePassLeads
<1>6. Is(Y)
    <2>1. \A n \in 0..(Size + 1) : n = 0 \/ n \in 1..(Size + 1)
        BY <1>4
    <2> QED BY <1>4, <1>5, <2>1
<1>7. Is(it)
    <2> HIDE DEF Is
    <2> QED BY <1>6
<1>8. SettleLoop = it[m]
    BY DEF SettleLoop, AfterLast
<1> HIDE DEF it
<1>9. \A n \in 0..(Size + 1) : it[n] = Y[n]
    <2> DEFINE k == Size + 1
               S == {n \in 0..k : it[n] = Y[n]}
    <2>1. k \in Nat /\ 0 \in 0..k
        BY <1>4
    <2>2. 0 \in S
        BY <1>4, <1>7, <2>1
    <2>3. ASSUME NEW n \in 0..k, n < k, n \in S PROVE n + 1 \in S
        <3>1. n + 1 \in 0..k /\ n + 1 \in 1..k /\ n + 1 # 0 /\ (n + 1) - 1 = n
            BY <2>1, <2>3
        <3>2. it[n + 1] = SettlePass(it[(n + 1) - 1]) /\ Y[n + 1] = SettlePass(Y[(n + 1) - 1])
            BY <1>5, <1>7, <3>1
        <3>3. it[n] = Y[n]
            BY <2>3
        <3> QED BY <3>1, <3>2, <3>3
    <2>4. \A n \in 0..k : n \in S
        <3> HIDE DEF S, k
        <3> QED BY <2>1, <2>2, <2>3, UpTo
    <2> QED BY <2>4
<1>10. \A n \in 0..Size : it[n] = Y[n] /\ it[n + 1] = Y[n + 1]
    <2>1. \A n \in 0..Size : n \in 0..(Size + 1) /\ n + 1 \in 0..(Size + 1)
        BY <1>4
    <2> QED BY <1>9, <2>1
<1>11. m \in 0..Size /\ Y[m + 1] = Y[m] /\ it[m] = Y[m]
    <2>1. \E n \in 0..Size : it[n + 1] = it[n]
        BY <1>3, <1>10 DEF LoopSettles
    <2>2. m \in 0..Size /\ it[m + 1] = it[m]
        BY <2>1
    <2> HIDE DEF m
    <2> QED BY <1>10, <2>2
<1> HIDE DEF m
<1> QED BY <1>3, <1>8, <1>11 DEF LoopSettles

\* The settling loop of the code computes SettledEntries.
LEMMA SettleLoopMatches ==
    ASSUME depMap \in DepMaps
    PROVE  SettleLoop = SettledEntries(depMap)
<1> DEFINE Z == SettleLoop
           D == DOMAIN depMap
<1>1. D \in SUBSET Checks
    BY SettleRuleFits
<1>2. /\ Z \in SUBSET Checks /\ SettleRule[Z] \subseteq Z
      /\ \A T \in SUBSET Checks : SettleRule[T] \subseteq T => Z \subseteq T
    BY SettleLoopIsLeast DEF LeastClosed
<1> HIDE DEF Z
<1>3. \A T \in SUBSET Checks : SettleRule[T] = {c \in D : depMap[c] \subseteq T}
    BY DEF SettleRule
<1>4. Z \in SUBSET D
    BY <1>1, <1>2, <1>3
<1>5. \A S \in SUBSET D : (\A d \in D : depMap[d] \subseteq S => d \in S) <=> SettleRule[S] \subseteq S
    BY <1>1, <1>3
<1>6. \A c \in D : (\A S \in SUBSET D : (\A d \in D : depMap[d] \subseteq S => d \in S) => c \in S) <=> c \in Z
    <2>1. ASSUME NEW c \in D, \A S \in SUBSET D : (\A d \in D : depMap[d] \subseteq S => d \in S) => c \in S
          PROVE  c \in Z
        <3>1. \A d \in D : depMap[d] \subseteq Z => d \in Z
            BY <1>2, <1>4, <1>5
        <3> QED BY <1>4, <2>1, <3>1
    <2>2. ASSUME NEW c \in Z, NEW S \in SUBSET D, \A d \in D : depMap[d] \subseteq S => d \in S
          PROVE  c \in S
        <3>1. SettleRule[S] \subseteq S /\ S \in SUBSET Checks
            BY <1>1, <1>5, <2>2
        <3> QED BY <1>2, <2>2, <3>1
    <2> QED BY <2>1, <2>2
<1>7. Z = SettledEntries(depMap)
    BY <1>4, <1>6 DEF SettledEntries
<1> QED BY <1>7 DEF Z

\* A map that is accepted has no set of checks waiting for each other: the
\* settled checks outside of such a set would be a smaller settled set.
LEMMA AcceptedIsAcyclic ==
    ASSUME depMap \in DepMaps, ValidateDependencies(depMap, Checks)
    PROVE  Acyclic(depMap, Checks)
<1> DEFINE D == DOMAIN depMap
<1>1. SUFFICES ASSUME NEW S \in SUBSET Checks, S # {}, \A c \in S : Needs(depMap, c) \cap S # {}
               PROVE  FALSE
    BY DEF Acyclic
<1>2. \A c \in S : c \in D /\ depMap[c] \cap S # {}
    <2>1. \A c \in S : Needs(depMap, c) # {}
        BY <1>1
    <2> QED BY <1>1, <2>1 DEF Needs
<1>3. Checks \subseteq SettledEntries(depMap) \cup {c \in Checks : Needs(depMap, c) = {}}
    BY DEF ValidateDependencies
<1>4. D \ S \in SUBSET D /\ \A d \in D : depMap[d] \subseteq D \ S => d \in D \ S
    BY <1>2
<1>5. \A c \in SettledEntries(depMap) : c \in D \ S
    BY <1>4 DEF SettledEntries
<1>6. PICK c \in S : TRUE
    BY <1>1
<1>7. c \in SettledEntries(depMap)
    BY <1>1, <1>3, <1>6
<1> QED BY <1>5, <1>6, <1>7

\* The records a ledger of the loops holds.
CheckEntries ==
    [phase : Phases, status : TerminalStatuses \cup {"none"},
     reason : {"none", "dependency_unmet"}, job : Nat, attempts : Nat,
     retained : {<<>>}, bytes : {0}, unacked : {0}]

\* The checks that ended without completing.
NotCompleted(ck) == Terminal(ck) \ Completed(ck)

\* The checks to skip once those of a set have been skipped.
SkipRule(ck) == [S \in SUBSET Checks |-> Blocked(ck, depMap, NotCompleted(ck) \cup S)]

\* A ledger with the checks of a set skipped.
AfterSkips(ck, X) ==
    [c \in Checks |-> IF c \in X THEN Terminalize(ck[c], "skipped", "dependency_unmet") ELSE ck[c]]

LEMMA NeedsArePlanned ==
    ASSUME depMap \in DepMaps
    PROVE  \A c \in Checks : Needs(depMap, c) \in SUBSET Checks
<1>1. PICK D \in SUBSET Checks : depMap \in [D -> SUBSET Checks]
    BY DEF DepMaps
<1> QED BY <1>1 DEF Needs

LEMMA SkipRuleFits ==
    ASSUME NEW ck, DOMAIN ck = Checks
    PROVE  SkipRule(ck) \in RulesOfLoops /\ Queued(ck) \in SUBSET Checks
BY DEF SkipRule, RulesOfLoops, Blocked, Queued

\* A skipped check is a terminal one with an attempt more if it had a job.
LEMMA SkippedEntry ==
    ASSUME NEW r \in CheckEntries
    PROVE  LET t == Terminalize(r, "skipped", "dependency_unmet")
           IN  t \in CheckEntries /\ t.phase = "terminal" /\ t.status = "skipped"
<1> DEFINE n == IF r.job # NoJob THEN r.attempts + 1 ELSE r.attempts
           t == Terminalize(r, "skipped", "dependency_unmet")
<1>1. t = [r EXCEPT !.phase = "terminal", !.status = "skipped", !.reason = "dependency_unmet",
                    !.attempts = n, !.job = NoJob]
    BY DEF Terminalize, CheckEntries
<1>2. n \in Nat /\ NoJob \in Nat
    BY DEF CheckEntries, NoJob
<1> HIDE DEF n, t
<1>3. t \in CheckEntries /\ t.phase = "terminal" /\ t.status = "skipped"
    BY <1>1, <1>2 DEF CheckEntries, Phases, TerminalStatuses
<1> QED BY <1>3 DEF t

\* What a ledger shows of the checks skipped in it.
LEMMA AfterSkipsShows ==
    ASSUME NEW ck \in [Checks -> CheckEntries], NEW X \in SUBSET Queued(ck)
    PROVE  /\ AfterSkips(ck, X) \in [Checks -> CheckEntries]
           /\ \A c \in Checks :
                /\ AfterSkips(ck, X)[c].phase = "queued" <=> c \in Queued(ck) \ X
                /\ AfterSkips(ck, X)[c].phase = "terminal" /\ AfterSkips(ck, X)[c].status # "completed"
                      <=> c \in NotCompleted(ck) \cup X
<1> DEFINE l == AfterSkips(ck, X)
<1>1. ASSUME NEW c \in Checks
      PROVE  /\ l[c] \in CheckEntries
             /\ l[c].phase = "queued" <=> c \in Queued(ck) \ X
             /\ l[c].phase = "terminal" /\ l[c].status # "completed" <=> c \in NotCompleted(ck) \cup X
    <2>1. CASE c \in X
        <3>1. l[c] = Terminalize(ck[c], "skipped", "dependency_unmet")
            BY <2>1 DEF AfterSkips
        <3>2. l[c] \in CheckEntries /\ l[c].phase = "terminal" /\ l[c].status = "skipped"
            BY <3>1, SkippedEntry
        <3> QED BY <2>1, <3>2
    <2>2. CASE c \notin X
        <3>1. l[c] = ck[c] /\ ck[c] \in CheckEntries
            BY <2>2 DEF AfterSkips
        <3> HIDE DEF l
        <3> QED BY <2>2, <3>1 DEF Queued, NotCompleted, Terminal, Completed
    <2> QED BY <2>1, <2>2
<1>2. l \in [Checks -> CheckEntries]
    <2>1. l = [c \in Checks |-> l[c]]
        BY DEF AfterSkips
    <2> HIDE DEF l
    <2> QED BY <1>1, <2>1
<1> QED BY <1>1, <1>2

\* What one turn of the skipping loop does to a ledger.
SkipTurn(now, id) ==
    IF /\ now[id].phase = "queued"
       /\ \E d \in Needs(depMap, id) : now[d].phase = "terminal" /\ now[d].status # "completed"
        THEN [now EXCEPT ![id] = Terminalize(now[id], "skipped", "dependency_unmet")]
        ELSE now

LEMMA SkipTurnAdds ==
    ASSUME depMap \in DepMaps, NEW ck \in [Checks -> CheckEntries],
           NEW X \in SUBSET Queued(ck), NEW id \in Checks
    PROVE  SkipTurn(AfterSkips(ck, X), id)
            = AfterSkips(ck, IF id \in SkipRule(ck)[X] THEN X \cup {id} ELSE X)
<1> DEFINE l == AfterSkips(ck, X)
           U == {d \in Checks : d \in NotCompleted(ck) \cup X}
<1>1. /\ l \in [Checks -> CheckEntries]
      /\ l[id].phase = "queued" <=> id \in Queued(ck) \ X
      /\ \A d \in Checks : l[d].phase = "terminal" /\ l[d].status # "completed"
                              <=> d \in NotCompleted(ck) \cup X
    BY AfterSkipsShows
<1>2. Needs(depMap, id) \in SUBSET Checks /\ X \in SUBSET Checks
    BY NeedsArePlanned DEF Queued
<1>3. id \in SkipRule(ck)[X] <=>
        id \in Queued(ck) /\ \E d \in Needs(depMap, id) : d \in NotCompleted(ck) \cup X
    BY <1>2 DEF SkipRule, Blocked
<1>4. \A c \in Checks :
        l[c] = IF c \in X THEN Terminalize(ck[c], "skipped", "dependency_unmet") ELSE ck[c]
    BY DEF AfterSkips
<1>5. (\E d \in Needs(depMap, id) : l[d].phase = "terminal" /\ l[d].status # "completed")
        <=> \E d \in Needs(depMap, id) : d \in NotCompleted(ck) \cup X
    BY <1>1, <1>2
<1>6. CASE id \in SkipRule(ck)[X] /\ id \notin X
    <2>1. SkipTurn(l, id) = [l EXCEPT ![id] = Terminalize(l[id], "skipped", "dependency_unmet")]
        BY <1>1, <1>3, <1>5, <1>6 DEF SkipTurn
    <2>2. l[id] = ck[id]
        BY <1>4, <1>6
    <2> DEFINE m == AfterSkips(ck, X \cup {id})
    <2>3. DOMAIN l = Checks
        BY <1>1
    <2>4. m = [c \in Checks |-> IF c \in X \cup {id} THEN Terminalize(ck[c], "skipped", "dependency_unmet") ELSE ck[c]]
        BY DEF AfterSkips
    <2> HIDE DEF l, m
    <2>5. [l EXCEPT ![id] = Terminalize(l[id], "skipped", "dependency_unmet")]
            = [c \in Checks |-> IF c = id THEN Terminalize(l[id], "skipped", "dependency_unmet") ELSE l[c]]
        BY <2>3
    <2>6. ASSUME NEW c \in Checks
          PROVE  (IF c = id THEN Terminalize(l[id], "skipped", "dependency_unmet") ELSE l[c])
                  = IF c \in X \cup {id} THEN Terminalize(ck[c], "skipped", "dependency_unmet") ELSE ck[c]
        BY <1>4, <2>2, <2>6
    <2>7. SkipTurn(l, id) = m
        BY <2>1, <2>4, <2>5, <2>6
    <2> QED BY <1>6, <2>7 DEF l, m
<1>7. CASE id \in SkipRule(ck)[X] /\ id \in X
    <2>1. X \cup {id} = X /\ l[id].phase # "queued"
        BY <1>1, <1>7
    <2>2. SkipTurn(l, id) = l
        BY <2>1 DEF SkipTurn
    <2> QED BY <1>7, <2>1, <2>2
<1>8. CASE id \notin SkipRule(ck)[X]
    <2>1. SkipTurn(l, id) = l
        BY <1>1, <1>3, <1>5, <1>8 DEF SkipTurn
    <2> QED BY <1>8, <2>1
<1> QED BY <1>6, <1>7, <1>8

\* A pass of the skipping loop in the code.
LEMMA SkipPassLeads ==
    ASSUME depMap \in DepMaps, NEW ck \in [Checks -> CheckEntries],
           NEW X \in SUBSET Queued(ck), NEW Z \in SUBSET Checks, PassLeads(X, Z, SkipRule(ck))
    PROVE  Z \in SUBSET Queued(ck) /\ SkipPass(AfterSkips(ck, X)) = AfterSkips(ck, Z)
<1> DEFINE b == AfterSkips(ck, X)
           Is(u) == u = [i \in 0..Size |-> IF i = 0 THEN b ELSE SkipTurn(u[i - 1], PlanOrder[i])]
           it == CHOOSE u : Is(u)
<1>1. PICK w \in [0..Size -> SUBSET Checks] : w[0] = X /\ w[Size] = Z /\ PassSteps(w, SkipRule(ck))
    BY DEF PassLeads
<1>2. /\ Size \in Nat /\ 0 \in 0..Size /\ Size \in 0..Size
      /\ \A i \in 1..Size : PlanOrder[i] \in Checks /\ i - 1 \in 0..Size /\ i \in 0..Size
    BY PlanOrderVisits
<1>3. \A T \in SUBSET Checks : SkipRule(ck)[T] \subseteq Queued(ck)
    BY DEF SkipRule, Blocked
<1>4. \A i \in 0..Size : w[i] \in SUBSET Queued(ck)
    <2> DEFINE S == {i \in 0..Size : w[i] \in SUBSET Queued(ck)}
    <2>1. 0 \in S
        BY <1>1, <1>2
    <2>2. ASSUME NEW i \in 0..Size, i < Size, i \in S PROVE i + 1 \in S
        <3>1. i + 1 \in 0..Size /\ i + 1 \in 1..Size /\ (i + 1) - 1 = i
            BY <1>2, <2>2
        <3>2. w[i + 1] = IF PlanOrder[i + 1] \in SkipRule(ck)[w[(i + 1) - 1]]
                            THEN w[(i + 1) - 1] \cup {PlanOrder[i + 1]} ELSE w[(i + 1) - 1]
            BY <1>1, <3>1 DEF PassSteps
        <3>3. w[i] \in SUBSET Queued(ck) /\ SkipRule(ck)[w[i]] \subseteq Queued(ck)
            BY <1>1, <1>3, <2>2
        <3>4. w[i + 1] \in SUBSET Queued(ck)
            BY <3>1, <3>2, <3>3
        <3> QED BY <3>1, <3>4
    <2>3. \A i \in 0..Size : i \in S
        <3> HIDE DEF S
        <3> QED BY <1>2, <2>1, <2>2, UpTo
    <2> QED BY <2>3
<1> DEFINE f == [i \in 0..Size |-> AfterSkips(ck, w[i])]
<1>5. ASSUME NEW i \in 1..Size PROVE f[i] = SkipTurn(f[i - 1], PlanOrder[i])
    <2>1. w[i - 1] \in SUBSET Queued(ck) /\ PlanOrder[i] \in Checks
        BY <1>2, <1>4
    <2>2. w[i] = IF PlanOrder[i] \in SkipRule(ck)[w[i - 1]] THEN w[i - 1] \cup {PlanOrder[i]} ELSE w[i - 1]
        BY <1>1 DEF PassSteps
    <2>3. SkipTurn(AfterSkips(ck, w[i - 1]), PlanOrder[i]) = AfterSkips(ck, w[i])
        <3> DEFINE V == w[i - 1]
                   id == PlanOrder[i]
        <3>1. V \in SUBSET Queued(ck) /\ id \in Checks
            BY <2>1
        <3> HIDE DEF V, id
        <3>2. SkipTurn(AfterSkips(ck, V), id)
                = AfterSkips(ck, IF id \in SkipRule(ck)[V] THEN V \cup {id} ELSE V)
            BY <3>1, SkipTurnAdds
        <3> QED BY <2>2, <3>2 DEF V, id
    <2> QED BY <1>2, <2>3
<1>6. f[0] = b /\ f[Size] = AfterSkips(ck, Z)
    BY <1>1, <1>2
<1>7. Is(f)
    <2>1. \A i \in 0..Size : i = 0 \/ i \in 1..Size
        BY <1>2
    <2>2. f = [i \in 0..Size |-> f[i]]
        OBVIOUS
    <2> HIDE DEF f, b
    <2> QED BY <1>5, <1>6, <2>1, <2>2
<1>8. Is(it)
    <2> HIDE DEF Is
    <2> QED BY <1>7
<1>9. SkipPass(b) = it[Size]
    BY DEF SkipPass, SkipTurn
<1> HIDE DEF it, f, b
<1> DEFINE S == {i \in 0..Size : it[i] = f[i]}
<1>10. 0 \in S
    BY <1>2, <1>6, <1>8
<1>11. ASSUME NEW i \in 0..Size, i < Size, i \in S PROVE i + 1 \in S
    <2>1. i + 1 \in 0..Size /\ i + 1 \in 1..Size /\ i + 1 # 0 /\ (i + 1) - 1 = i
        BY <1>2, <1>11
    <2>2. /\ it[i + 1] = SkipTurn(it[(i + 1) - 1], PlanOrder[i + 1])
          /\ f[i + 1] = SkipTurn(f[(i + 1) - 1], PlanOrder[i + 1])
        BY <1>5, <1>8, <2>1
    <2>3. it[i] = f[i]
        BY <1>11
    <2> QED BY <2>1, <2>2, <2>3
<1>12. Size \in S
    <2> HIDE DEF S
    <2> QED BY <1>2, <1>10, <1>11, UpTo
<1> QED BY <1>1, <1>2, <1>4, <1>6, <1>9, <1>12 DEF b

\* Different checks skipped, different ledgers.
LEMMA SkipsDiffer ==
    ASSUME NEW ck \in [Checks -> CheckEntries], NEW X \in SUBSET Queued(ck),
           NEW Z \in SUBSET Queued(ck), AfterSkips(ck, X) = AfterSkips(ck, Z)
    PROVE  X = Z
<1>1. \A c \in Checks : c \in Queued(ck) \ X <=> c \in Queued(ck) \ Z
    <2> DEFINE l == AfterSkips(ck, X)
    <2>1. \A c \in Checks : l[c].phase = "queued" <=> c \in Queued(ck) \ X
        BY AfterSkipsShows
    <2>2. \A c \in Checks : AfterSkips(ck, Z)[c].phase = "queued" <=> c \in Queued(ck) \ Z
        BY AfterSkipsShows
    <2> QED BY <2>1, <2>2
<1>2. Queued(ck) \subseteq Checks
    BY DEF Queued
<1> QED BY <1>1, <1>2

\* The skipping loop of the code ends on the least set.
LEMMA SkipLoopIsLeast ==
    ASSUME depMap \in DepMaps, NEW ck \in [Checks -> CheckEntries]
    PROVE  \E Z : LeastClosed(Z, SkipRule(ck)) /\ SkipLoop(ck) = AfterSkips(ck, Z)
<1> DEFINE R == SkipRule(ck)
           Is(u) == u = [n \in 0..(Size + 1) |-> IF n = 0 THEN ck ELSE SkipPass(u[n - 1])]
           it == CHOOSE u : Is(u)
           m == CHOOSE n \in 0..Size : it[n + 1] = it[n]
<1>1. R \in RulesOfLoops
    BY SkipRuleFits
<1> HIDE DEF R
<1>2. PICK Y : LoopGoes(Y, R)
    BY <1>1, LoopExists
<1>3. LoopSettles(Y, R)
    BY <1>1, <1>2, LoopReachesLeast
<1> DEFINE k == Size + 1
<1>4. /\ Size \in Nat /\ k \in Nat /\ 0 \in 0..k
      /\ Y \in [0..k -> SUBSET Checks] /\ Y[0] = {}
      /\ \A n \in 0..k : n < k => n + 1 \in 0..k /\ PassLeads(Y[n], Y[n + 1], R)
    <2>1. Size \in Nat /\ Y \in [0..k -> SUBSET Checks] /\ Y[0] = {}
        BY <1>2, PlanOrderVisits DEF LoopGoes
    <2>2. ASSUME NEW n \in 0..k, n < k PROVE n + 1 \in 0..k /\ PassLeads(Y[n], Y[n + 1], R)
        <3>1. n + 1 \in 1..(Size + 1) /\ n + 1 \in 0..k /\ (n + 1) - 1 = n
            BY <2>1, <2>2
        <3>2. PassLeads(Y[(n + 1) - 1], Y[n + 1], R)
            BY <1>2, <3>1 DEF LoopGoes
        <3> QED BY <3>1, <3>2
    <2>3. k \in Nat /\ 0 \in 0..k
        BY <2>1
    <2> QED BY <2>1, <2>2, <2>3
<1>5. ASSUME NEW n \in 0..k, n < k, Y[n] \in SUBSET Queued(ck)
      PROVE  Y[n + 1] \in SUBSET Queued(ck) /\ SkipPass(AfterSkips(ck, Y[n])) = AfterSkips(ck, Y[n + 1])
    <2> DEFINE X == Y[n]
               Z == Y[n + 1]
    <2>1. X \in SUBSET Queued(ck) /\ Z \in SUBSET Checks /\ PassLeads(X, Z, SkipRule(ck))
        BY <1>4, <1>5 DEF R
    <2> HIDE DEF X, Z
    <2>2. Z \in SUBSET Queued(ck) /\ SkipPass(AfterSkips(ck, X)) = AfterSkips(ck, Z)
        BY <2>1, SkipPassLeads
    <2> QED BY <2>2 DEF X, Z
<1>6. \A n \in 0..k : Y[n] \in SUBSET Queued(ck)
    <2> DEFINE S == {n \in 0..k : Y[n] \in SUBSET Queued(ck)}
    <2> HIDE DEF k
    <2>1. 0 \in S /\ \A n \in 0..k : (n < k /\ n \in S) => n + 1 \in S
        BY <1>4, <1>5
    <2>2. \A n \in 0..k : n \in S
        <3> HIDE DEF S
        <3> QED BY <1>4, <2>1, UpTo
    <2> QED BY <2>2
<1> DEFINE f == [n \in 0..k |-> AfterSkips(ck, Y[n])]
<1>7. f[0] = ck
    <2>1. AfterSkips(ck, {}) = ck
        BY DEF AfterSkips
    <2> QED BY <1>4, <2>1
<1>8. ASSUME NEW n \in 0..k, n < k PROVE f[n + 1] = SkipPass(f[n])
    <2> HIDE DEF k
    <2> QED BY <1>4, <1>5, <1>6, <1>8
<1>9. Is(f)
    <2>1. ASSUME NEW n \in 0..k, n # 0 PROVE f[n] = SkipPass(f[n - 1])
        <3>1. n - 1 \in 0..k /\ n - 1 < k /\ (n - 1) + 1 = n
            BY <1>4, <2>1
        <3>2. f[(n - 1) + 1] = SkipPass(f[n - 1])
            BY <1>8, <3>1
        <3> QED BY <3>1, <3>2
    <2>2. f = [n \in 0..k |-> f[n]]
        OBVIOUS
    <2> HIDE DEF f
    <2> QED BY <1>7, <2>1, <2>2
<1>10. Is(it)
    <2> HIDE DEF Is
    <2> QED BY <1>9
<1>11. SkipLoop(ck) = it[m]
    BY DEF SkipLoop, AfterLast
<1> HIDE DEF it, f
<1>12. \A n \in 0..k : it[n] = f[n]
    <2> DEFINE S == {n \in 0..k : it[n] = f[n]}
    <2>1. 0 \in S
        BY <1>4, <1>7, <1>10
    <2>2. ASSUME NEW n \in 0..k, n < k, n \in S PROVE n + 1 \in S
        <3>1. n + 1 \in 0..k /\ n + 1 # 0 /\ (n + 1) - 1 = n
            BY <1>4, <2>2
        <3>2. it[n + 1] = SkipPass(it[(n + 1) - 1])
            BY <1>10, <3>1
        <3>3. f[n + 1] = SkipPass(f[n]) /\ it[n] = f[n]
            BY <1>8, <2>2
        <3> QED BY <3>1, <3>2, <3>3
    <2>3. \A n \in 0..k : n \in S
        <3> HIDE DEF S, k
        <3> QED BY <1>4, <2>1, <2>2, UpTo
    <2> QED BY <2>3
<1>13. \A n \in 0..Size : /\ it[n] = AfterSkips(ck, Y[n]) /\ Y[n] \in SUBSET Queued(ck)
                          /\ it[n + 1] = AfterSkips(ck, Y[n + 1]) /\ Y[n + 1] \in SUBSET Queued(ck)
    <2>1. \A n \in 0..Size : n \in 0..k /\ n + 1 \in 0..k
        BY <1>4
    <2>2. \A n \in 0..k : f[n] = AfterSkips(ck, Y[n])
        BY DEF f
    <2> HIDE DEF k
    <2> QED BY <1>6, <1>12, <2>1, <2>2
<1>14. m \in 0..Size /\ it[m + 1] = it[m]
    <2>1. \E n \in 0..Size : it[n + 1] = it[n]
        <3>1. PICK n \in 0..Size : Y[n + 1] = Y[n]
            BY <1>3 DEF LoopSettles
        <3> QED BY <1>13, <3>1
    <2> QED BY <2>1
<1> HIDE DEF m
<1>15. Y[m + 1] = Y[m]
    <2> DEFINE X == Y[m + 1]
               Z == Y[m]
    <2>1. X \in SUBSET Queued(ck) /\ Z \in SUBSET Queued(ck) /\ AfterSkips(ck, X) = AfterSkips(ck, Z)
        BY <1>13, <1>14
    <2> HIDE DEF X, Z
    <2>2. X = Z
        BY <2>1, SkipsDiffer
    <2> QED BY <2>2 DEF X, Z
<1>16. LeastClosed(Y[m], R) /\ SkipLoop(ck) = AfterSkips(ck, Y[m])
    BY <1>3, <1>11, <1>13, <1>14, <1>15 DEF LoopSettles
<1> QED BY <1>16 DEF R

\* The skipping loop of the code computes PropagateSkips.
LEMMA SkipLoopMatches ==
    ASSUME depMap \in DepMaps, NEW ck \in [Checks -> CheckEntries]
    PROVE  SkipLoop(ck) = PropagateSkips(ck, depMap) /\ SkipLoop(ck) \in [Checks -> CheckEntries]
<1> DEFINE ended == NotCompleted(ck)
           Q == Queued(ck)
           closed == {S \in SUBSET Q : Blocked(ck, depMap, ended \cup S) \subseteq S}
<1>1. PICK Z : LeastClosed(Z, SkipRule(ck)) /\ SkipLoop(ck) = AfterSkips(ck, Z)
    BY SkipLoopIsLeast
<1>2. /\ Z \in SUBSET Checks /\ SkipRule(ck)[Z] \subseteq Z
      /\ \A T \in SUBSET Checks : SkipRule(ck)[T] \subseteq T => Z \subseteq T
    BY <1>1 DEF LeastClosed
<1>3. Q \in SUBSET Checks /\ \A T \in SUBSET Checks : SkipRule(ck)[T] = Blocked(ck, depMap, ended \cup T)
    BY DEF SkipRule, Queued
<1>4. \A T \in SUBSET Checks : SkipRule(ck)[T] \subseteq Q
    BY DEF SkipRule, Blocked
<1>5. Z \in SUBSET Q
    BY <1>2, <1>3, <1>4
<1>6. Z \in closed /\ \A S \in closed : Z \subseteq S
    BY <1>2, <1>3, <1>5
<1>7. {c \in Q : \A S \in closed : c \in S} = Z
    <2> HIDE DEF closed, Q
    <2> QED BY <1>5, <1>6
<1>8. Skips(ck, depMap) = Z
    BY <1>7 DEF Skips, NotCompleted
<1>9. PropagateSkips(ck, depMap) = AfterSkips(ck, Z)
    <2>1. DOMAIN ck = Checks
        OBVIOUS
    <2> QED BY <1>8, <2>1 DEF PropagateSkips, AfterSkips
<1>10. AfterSkips(ck, Z) \in [Checks -> CheckEntries]
    BY <1>5, AfterSkipsShows
<1> QED BY <1>1, <1>9, <1>10

\* The checks of a set that a walk of i checks in plan order has come to.
Visited(S, i) == {c \in S : \E k \in 1..i : PlanOrder[k] = c}

\* What a walk has come to before its next check is what has a lower index.
LEMMA VisitedBefore ==
    ASSUME NEW S \in SUBSET Checks, NEW i \in 0..Size, i < Size
    PROVE  /\ PlanOrder[i + 1] \in Checks /\ PlanOrder[i + 1] \notin Visited(S, i)
           /\ Visited(S, i) = {c \in S : PlanIndex[c] < PlanIndex[PlanOrder[i + 1]]}
           /\ Visited(S, i + 1) = IF PlanOrder[i + 1] \in S
                                    THEN Visited(S, i) \cup {PlanOrder[i + 1]} ELSE Visited(S, i)
<1> DEFINE id == PlanOrder[i + 1]
<1>1. /\ Size \in Nat /\ PlanOrder \in [1..Size -> Checks]
      /\ \A j, k \in 1..Size : j < k => PlanIndex[PlanOrder[j]] < PlanIndex[PlanOrder[k]]
      /\ \A c \in Checks : \E k \in 1..Size : PlanOrder[k] = c
    BY PlanOrderVisits
<1>2. i \in Nat /\ i + 1 \in 1..Size /\ \A k \in 1..i : k \in 1..Size /\ k < i + 1
    BY <1>1
<1>3. id \in Checks /\ \A c \in Checks : PlanIndex[c] \in Nat
    BY <1>1, <1>2, CheckAssumption
<1>4. ASSUME NEW c \in Checks
      PROVE  (\E k \in 1..i : PlanOrder[k] = c) <=> PlanIndex[c] < PlanIndex[id]
    <2>1. ASSUME NEW k \in 1..i, PlanOrder[k] = c PROVE PlanIndex[c] < PlanIndex[id]
        BY <1>1, <1>2, <2>1
    <2>2. ASSUME PlanIndex[c] < PlanIndex[id] PROVE \E k \in 1..i : PlanOrder[k] = c
        <3>1. PICK k \in 1..Size : PlanOrder[k] = c
            BY <1>1
        <3>2. k # i + 1
            BY <1>3, <2>2, <3>1
        <3>3. ~(i + 1 < k)
            <4>1. ASSUME i + 1 < k PROVE PlanIndex[id] < PlanIndex[c]
                BY <1>1, <1>2, <3>1, <4>1
            <4> QED BY <1>3, <2>2, <4>1
        <3>4. k \in 1..i
            BY <1>1, <1>2, <3>2, <3>3
        <3> QED BY <3>1, <3>4
    <2> QED BY <2>1, <2>2
<1>5. Visited(S, i) = {c \in S : PlanIndex[c] < PlanIndex[id]}
    BY <1>4 DEF Visited
<1>6. \A c \in Checks :
        (\E k \in 1..(i + 1) : PlanOrder[k] = c) <=> (\E k \in 1..i : PlanOrder[k] = c) \/ c = id
    <2>1. \A k \in 1..(i + 1) : k \in 1..i \/ k = i + 1
        BY <1>2
    <2>2. i + 1 \in 1..(i + 1) /\ \A k \in 1..i : k \in 1..(i + 1)
        BY <1>2
    <2> QED BY <2>1, <2>2
<1> HIDE DEF id
<1>7. Visited(S, i + 1) = IF id \in S THEN Visited(S, i) \cup {id} ELSE Visited(S, i)
    BY <1>3, <1>6 DEF Visited
<1>8. id \notin Visited(S, i)
    BY <1>3, <1>5
<1> QED BY <1>3, <1>5, <1>7, <1>8 DEF id

\* A walk starts with nothing and comes to every check.
LEMMA VisitedEnds ==
    ASSUME NEW S \in SUBSET Checks
    PROVE  Visited(S, 0) = {} /\ Visited(S, Size) = S
BY PlanOrderVisits DEF Visited

\* What one turn of the dispatch walk does.
DispatchTurn(ready, now, id) ==
    IF /\ id \in ready
       /\ Capability[id] \in Bounded =>
            Cardinality({c \in Running(now.ledger) : Capability[c] = Capability[id]})
                < CapabilityLimit(Capability[id])
        THEN [ledger |-> [now.ledger EXCEPT ![id] = Begun(now.ledger[id], now.counter + 1)],
              counter |-> now.counter + 1]
        ELSE now

\* A ledger with the checks of a set started, and the last job number.
AfterStarts(ck, A, n) == [ledger |-> Start(ck, A, n), counter |-> n + Cardinality(A)]

\* A started check runs under the number of its turn.
LEMMA StartsShow ==
    ASSUME NEW ck \in [Checks -> CheckEntries], NEW A \in SUBSET Queued(ck), NEW n \in Nat
    PROVE  /\ Start(ck, A, n) \in [Checks -> CheckEntries]
           /\ Running(Start(ck, A, n)) = Running(ck) \cup A
           /\ IsFiniteSet(A) /\ Cardinality(A) \in Nat
<1> DEFINE l == Start(ck, A, n)
           job(c) == JobOf(c, A, n)
<1>1. A \in SUBSET Checks /\ DOMAIN ck = Checks
    BY DEF Queued
<1>2. IsFiniteSet(A) /\ Cardinality(A) \in Nat
    BY <1>1, CheckAssumption, FS_Subset, FS_CardinalityType
<1>3. \A c \in Checks : job(c) \in Nat
    <2>1. ASSUME NEW c \in Checks PROVE job(c) \in Nat
        <3> DEFINE T == {d \in A : PlanIndex[d] <= PlanIndex[c]}
        <3>1. T \in SUBSET A
            OBVIOUS
        <3>2. Cardinality(T) \in Nat
            <4> HIDE DEF T
            <4> QED BY <1>2, <3>1, FS_Subset, FS_CardinalityType
        <3>3. job(c) = n + Cardinality(T)
            BY DEF JobOf
        <3> HIDE DEF T, job
        <3> QED BY <3>2, <3>3
    <2> QED BY <2>1
<1> HIDE DEF job
<1>4. l = [c \in Checks |-> IF c \in A THEN [ck[c] EXCEPT !.phase = "running", !.job = job(c)] ELSE ck[c]]
    BY <1>1 DEF Start, job
<1>5. ASSUME NEW c \in Checks
      PROVE  l[c] \in CheckEntries /\ (l[c].phase = "running" <=> ck[c].phase = "running" \/ c \in A)
    <2>1. CASE c \in A
        <3>1. l[c] = [ck[c] EXCEPT !.phase = "running", !.job = job(c)]
            BY <1>4, <2>1
        <3> HIDE DEF l
        <3>2. ck[c] \in CheckEntries /\ job(c) \in Nat
            BY <1>3
        <3>3. l[c] \in CheckEntries /\ l[c].phase = "running"
            BY <3>1, <3>2 DEF CheckEntries, Phases
        <3> QED BY <2>1, <3>3
    <2>2. CASE c \notin A
        <3>1. l[c] = ck[c]
            BY <1>4, <2>2
        <3> QED BY <2>2, <3>1
    <2> QED BY <2>1, <2>2
<1>6. l \in [Checks -> CheckEntries]
    <2>1. l = [c \in Checks |-> l[c]]
        BY <1>4
    <2> HIDE DEF l
    <2> QED BY <1>5, <2>1
<1> HIDE DEF l
<1>7. Running(l) = Running(ck) \cup A
    BY <1>1, <1>5, <1>6 DEF Running
<1> QED BY <1>2, <1>6, <1>7 DEF l

\* In its turn a check has room exactly if it is startable: either all ready
\* checks ahead of it were started, or the first that was not found no room.
LEMMA RoomInTurn ==
    ASSUME NEW ck \in [Checks -> CheckEntries], NEW i \in 0..Size, i < Size, NEW n \in Nat,
           PlanOrder[i + 1] \in Runnable(ck, depMap), Capability[PlanOrder[i + 1]] \in Bounded
    PROVE  LET id == PlanOrder[i + 1]
               A == Visited(Startable(ck, depMap), i)
           IN  Cardinality({c \in Running(Start(ck, A, n)) : Capability[c] = Capability[id]})
                    < CapabilityLimit(Capability[id])
                <=> id \in Startable(ck, depMap)
<1> DEFINE id == PlanOrder[i + 1]
           cap == Capability[id]
           ready == Runnable(ck, depMap)
           started == Startable(ck, depMap)
           A == Visited(started, i)
           busy == ActiveByCapability(ck, cap)
           begun == {c \in A : Capability[c] = cap}
           ahead == Ahead(ready, id)
           limit == CapabilityLimit(cap)
           a == Cardinality(busy)
           t == Cardinality(begun)
           r == Cardinality(ahead)
<1>1. /\ ready \in SUBSET Queued(ck) /\ Queued(ck) \in SUBSET Checks
      /\ started \in SUBSET ready /\ busy \in SUBSET Checks /\ busy \cap Queued(ck) = {}
    BY DEF Runnable, Queued, Startable, ActiveByCapability, Running
<1>2. /\ id \in ready /\ cap \in Bounded /\ started \in SUBSET Checks /\ A \in SUBSET started
    BY <1>1 DEF Visited
<1>3. \A c \in ready : Capability[c] = cap => (c \in started <=> a + Cardinality(Ahead(ready, c)) < limit)
    BY <1>2 DEF Startable
<1>4. limit \in Nat
    BY CheckAssumption DEF CapabilityLimit
<1>5. A = {c \in started : PlanIndex[c] < PlanIndex[id]}
    <2> HIDE DEF started
    <2> QED BY <1>2, VisitedBefore
<1> HIDE DEF started, A, ready
<1>6. begun = {c \in ahead : c \in started}
    BY <1>1, <1>5 DEF Ahead
<1>7. \A T \in SUBSET Checks : IsFiniteSet(T) /\ Cardinality(T) \in Nat
    BY CheckAssumption, FS_Subset, FS_CardinalityType
<1>8. ahead \in SUBSET ready /\ begun \in SUBSET ahead /\ begun \in SUBSET Checks /\ ahead \in SUBSET Checks
    BY <1>1, <1>6 DEF Ahead
<1>9. a \in Nat /\ t \in Nat /\ r \in Nat /\ t <= r
    <2> HIDE DEF busy, begun, ahead
    <2> QED BY <1>1, <1>7, <1>8, FS_Subset
<1>10. Cardinality({c \in Running(Start(ck, A, n)) : Capability[c] = cap}) = a + t
    <2> DEFINE both == {c \in Running(Start(ck, A, n)) : Capability[c] = cap}
    <2>1. A \in SUBSET Queued(ck)
        BY <1>1, <1>2
    <2>2. Running(Start(ck, A, n)) = Running(ck) \cup A
        BY <2>1, StartsShow
    <2>3. both = busy \cup begun /\ busy \cap begun = {}
        BY <1>1, <2>1, <2>2 DEF ActiveByCapability
    <2> HIDE DEF both, busy, begun
    <2>4. IsFiniteSet(busy) /\ IsFiniteSet(begun) /\ Cardinality(busy \cap begun) = 0
        BY <1>1, <1>7, <1>8, <2>3, FS_EmptySet
    <2>5. Cardinality(both) = a + t - Cardinality(busy \cap begun)
        BY <2>3, <2>4, FS_Union
    <2>6. Cardinality(both) = a + t
        <3> HIDE DEF a, t
        <3> QED BY <1>9, <2>4, <2>5
    <2> QED BY <2>6 DEF both
<1>11. a + t < limit <=> a + r < limit
    <2>1. a + r < limit => a + t < limit
        <3> HIDE DEF a, t, r, limit
        <3> QED BY <1>4, <1>9
    <2>2. CASE begun = ahead
        BY <2>2
    <2>3. CASE begun # ahead
        <3> DEFINE W == ahead \ begun
        <3>1. W \in SUBSET Checks /\ W # {}
            BY <1>8, <2>3
        <3>2. PICK m \in W : \A x \in W : ~(PlanIndex[x] < PlanIndex[m])
            <4> HIDE DEF W
            <4> QED BY <3>1, FirstPlanned
        <3>3. m \in ready /\ Capability[m] = cap /\ PlanIndex[m] < PlanIndex[id] /\ m \notin started
            BY <1>6, <3>2 DEF Ahead
        <3>4. \A c \in Checks : PlanIndex[c] \in Nat
            BY CheckAssumption
        <3>5. ASSUME NEW d \in Ahead(ready, m) PROVE d \in begun
            <4>1. d \in ready /\ Capability[d] = cap /\ PlanIndex[d] < PlanIndex[m]
                BY <3>3 DEF Ahead
            <4>2. d \in Checks /\ m \in Checks /\ id \in Checks
                BY <1>1, <1>2, <3>3, <4>1
            <4>3. PlanIndex[d] < PlanIndex[id]
                BY <3>3, <3>4, <4>1, <4>2
            <4>4. d \in ahead /\ d \notin W
                BY <3>2, <4>1, <4>3 DEF Ahead
            <4> QED BY <4>4
        <3> DEFINE q == Cardinality(Ahead(ready, m))
        <3>6. q \in Nat /\ q <= t
            <4> HIDE DEF begun
            <4>1. Ahead(ready, m) \in SUBSET begun
                BY <3>5
            <4> QED BY <1>7, <1>8, <4>1, FS_Subset, FS_CardinalityType
        <3>7. ~(a + q < limit)
            BY <1>3, <3>3
        <3>8. ~(a + t < limit)
            <4> HIDE DEF a, q, t, limit
            <4> QED BY <1>4, <1>9, <3>6, <3>7
        <3> QED BY <2>1, <3>8
    <2> QED BY <2>2, <2>3
<1>12. id \in started <=> a + r < limit
    BY <1>2, <1>3
<1>13. Cardinality({c \in Running(Start(ck, A, n)) : Capability[c] = cap}) < limit <=> id \in started
    <2> HIDE DEF a, t, r, limit
    <2> QED BY <1>10, <1>11, <1>12
<1> QED BY <1>13 DEF started, A

\* A turn starts the next check if it is startable.
LEMMA DispatchTurnStarts ==
    ASSUME NEW ck \in [Checks -> CheckEntries], NEW i \in 0..Size, i < Size, NEW n \in Nat
    PROVE  LET S == Startable(ck, depMap)
           IN  DispatchTurn(Runnable(ck, depMap), AfterStarts(ck, Visited(S, i), n), PlanOrder[i + 1])
                = AfterStarts(ck, Visited(S, i + 1), n)
<1> DEFINE id == PlanOrder[i + 1]
           ready == Runnable(ck, depMap)
           S == Startable(ck, depMap)
           A == Visited(S, i)
           B == Visited(S, i + 1)
           now == AfterStarts(ck, A, n)
<1>1. S \in SUBSET ready /\ ready \in SUBSET Queued(ck) /\ Queued(ck) \in SUBSET Checks /\ DOMAIN ck = Checks
    BY DEF Runnable, Queued, Startable
<1> HIDE DEF S, ready
<1>2. S \in SUBSET Checks
    BY <1>1
<1>3. /\ id \in Checks /\ id \notin A
      /\ A = {c \in S : PlanIndex[c] < PlanIndex[id]}
      /\ B = IF id \in S THEN A \cup {id} ELSE A
    BY <1>2, VisitedBefore
<1> HIDE DEF A, B
<1>4. A \in SUBSET Queued(ck) /\ IsFiniteSet(A) /\ Cardinality(A) \in Nat
    <2>1. A \in SUBSET Queued(ck)
        BY <1>1, <1>3
    <2> QED BY <2>1, StartsShow
<1>5. now.ledger = Start(ck, A, n) /\ now.counter = n + Cardinality(A)
    BY DEF AfterStarts
<1> HIDE DEF id
<1>6. (id \in ready /\ (Capability[id] \in Bounded =>
                Cardinality({c \in Running(now.ledger) : Capability[c] = Capability[id]})
                    < CapabilityLimit(Capability[id])))
        <=> id \in S
    <2>1. CASE id \in ready /\ Capability[id] \in Bounded
        <3>1. Cardinality({c \in Running(Start(ck, A, n)) : Capability[c] = Capability[id]})
                    < CapabilityLimit(Capability[id])
                <=> id \in S
            BY <2>1, RoomInTurn DEF A, S, id, ready
        <3> QED BY <1>5, <2>1, <3>1
    <2>2. CASE id \in ready /\ Capability[id] \notin Bounded
        <3>1. id \in S
            BY <2>2 DEF S, ready, Startable
        <3> QED BY <2>2, <3>1
    <2>3. CASE id \notin ready
        BY <1>1, <2>3
    <2> QED BY <2>1, <2>2, <2>3
<1>7. CASE id \notin S
    <2>1. DispatchTurn(ready, now, id) = now
        BY <1>6, <1>7 DEF DispatchTurn
    <2> QED BY <1>3, <1>7, <2>1 DEF A, B, S, id, ready
<1>8. CASE id \in S
    <2> DEFINE j == n + Cardinality(A) + 1
               l == Start(ck, A, n)
               m == Start(ck, B, n)
    <2>1. DispatchTurn(ready, now, id) = [ledger |-> [l EXCEPT ![id] = Begun(l[id], j)], counter |-> j]
        BY <1>5, <1>6, <1>8 DEF DispatchTurn
    <2>2. B = A \cup {id} /\ Cardinality(B) = Cardinality(A) + 1
        BY <1>3, <1>4, <1>8, FS_AddElement
    <2>3. \A c \in Checks : PlanIndex[c] \in Nat
        BY CheckAssumption
    <2>4. ASSUME NEW c \in A PROVE JobOf(c, B, n) = JobOf(c, A, n)
        <3>1. PlanIndex[c] < PlanIndex[id] /\ c \in Checks
            BY <1>2, <1>3
        <3>2. ~(PlanIndex[id] <= PlanIndex[c])
            BY <1>3, <2>3, <3>1
        <3>3. {d \in B : PlanIndex[d] <= PlanIndex[c]} = {d \in A : PlanIndex[d] <= PlanIndex[c]}
            BY <2>2, <3>2
        <3> QED BY <3>3 DEF JobOf
    <2>5. JobOf(id, B, n) = j
        <3>1. \A d \in B : PlanIndex[d] <= PlanIndex[id]
            <4>1. \A d \in A : d \in Checks /\ PlanIndex[d] < PlanIndex[id]
                BY <1>2, <1>3
            <4> QED BY <1>3, <2>2, <2>3, <4>1
        <3>2. {d \in B : PlanIndex[d] <= PlanIndex[id]} = B
            BY <3>1
        <3> DEFINE k == Cardinality(A)
        <3>3. JobOf(id, B, n) = n + (k + 1)
            BY <2>2, <3>2 DEF JobOf
        <3>4. k \in Nat
            BY <1>4
        <3> HIDE DEF k
        <3>5. n + (k + 1) = n + k + 1
            BY <3>4
        <3> QED BY <3>3, <3>5 DEF k
    <2>6. /\ l = [c \in Checks |-> IF c \in A THEN Begun(ck[c], JobOf(c, A, n)) ELSE ck[c]]
          /\ m = [c \in Checks |-> IF c \in B THEN Begun(ck[c], JobOf(c, B, n)) ELSE ck[c]]
        BY <1>1 DEF Start, Begun
    <2>7. l[id] = ck[id] /\ DOMAIN l = Checks
        BY <1>3, <2>6
    <2> HIDE DEF l, m, j
    <2>8. ASSUME NEW c \in Checks
          PROVE  (IF c = id THEN Begun(l[id], j) ELSE l[c])
                  = IF c \in B THEN Begun(ck[c], JobOf(c, B, n)) ELSE ck[c]
        <3>1. CASE c = id
            BY <2>2, <2>5, <2>7, <3>1
        <3>2. CASE c # id /\ c \in A
            BY <2>2, <2>4, <2>6, <3>2
        <3>3. CASE c # id /\ c \notin A
            BY <2>2, <2>6, <3>3
        <3> QED BY <3>1, <3>2, <3>3
    <2>9. [l EXCEPT ![id] = Begun(l[id], j)] = [c \in Checks |-> IF c = id THEN Begun(l[id], j) ELSE l[c]]
        BY <2>7
    <2>10. [l EXCEPT ![id] = Begun(l[id], j)] = m
        BY <2>6, <2>8, <2>9
    <2>11. j = n + Cardinality(B)
        <3> DEFINE k == Cardinality(A)
        <3>1. k \in Nat /\ j = n + k + 1 /\ Cardinality(B) = k + 1
            BY <1>4, <2>2 DEF j
        <3> HIDE DEF k
        <3> QED BY <3>1
    <2>12. DispatchTurn(ready, now, id) = AfterStarts(ck, B, n)
        BY <2>1, <2>10, <2>11 DEF AfterStarts, m
    <2> QED BY <2>12 DEF A, B, S, id, ready
<1> QED BY <1>7, <1>8

\* The dispatch walk of the code starts the startable checks.
LEMMA DispatchMatches ==
    ASSUME NEW ck \in [Checks -> CheckEntries], NEW n \in Nat
    PROVE  Dispatched(ck, n) = AfterStarts(ck, Startable(ck, depMap), n)
<1> DEFINE S == Startable(ck, depMap)
           ready == Runnable(ck, depMap)
           b == [ledger |-> ck, counter |-> n]
           Is(u) == u = [i \in 0..Size |-> IF i = 0 THEN b ELSE DispatchTurn(ready, u[i - 1], PlanOrder[i])]
           it == CHOOSE u : Is(u)
           f == [i \in 0..Size |-> AfterStarts(ck, Visited(S, i), n)]
<1>1. Size \in Nat /\ 0 \in 0..Size /\ Size \in 0..Size
    BY PlanOrderVisits
<1>2. S \in SUBSET Checks
    BY DEF Startable, Runnable, Queued
<1> HIDE DEF S
<1>3. f[0] = b /\ f[Size] = AfterStarts(ck, S, n)
    <2>1. Visited(S, 0) = {} /\ Visited(S, Size) = S
        BY <1>2, VisitedEnds
    <2>2. Start(ck, {}, n) = ck /\ Cardinality({}) = 0
        BY FS_EmptySet DEF Start
    <2>3. AfterStarts(ck, {}, n) = b
        BY <2>2 DEF AfterStarts
    <2> QED BY <1>1, <2>1, <2>3
<1>4. ASSUME NEW i \in 0..Size, i < Size
      PROVE  i + 1 \in 0..Size /\ f[i + 1] = DispatchTurn(ready, f[i], PlanOrder[i + 1])
    <2>1. i + 1 \in 0..Size
        BY <1>1, <1>4
    <2>2. DispatchTurn(ready, AfterStarts(ck, Visited(S, i), n), PlanOrder[i + 1])
            = AfterStarts(ck, Visited(S, i + 1), n)
        BY <1>4, DispatchTurnStarts DEF S
    <2> QED BY <2>1, <2>2
<1>5. Dispatched(ck, n) = it[Size]
    BY DEF Dispatched, DispatchTurn
<1> HIDE DEF ready
<1>6. Is(f)
    <2>1. ASSUME NEW i \in 0..Size, i # 0 PROVE f[i] = DispatchTurn(ready, f[i - 1], PlanOrder[i])
        <3>1. i - 1 \in 0..Size /\ i - 1 < Size /\ (i - 1) + 1 = i
            BY <1>1, <2>1
        <3>2. f[(i - 1) + 1] = DispatchTurn(ready, f[i - 1], PlanOrder[(i - 1) + 1])
            BY <1>4, <3>1
        <3> QED BY <3>1, <3>2
    <2>2. f = [i \in 0..Size |-> f[i]]
        OBVIOUS
    <2> HIDE DEF f, b
    <2> QED BY <1>3, <2>1, <2>2
<1>7. Is(it)
    <2> HIDE DEF Is
    <2> QED BY <1>6
<1> HIDE DEF it, f, b
<1> DEFINE T == {i \in 0..Size : it[i] = f[i]}
<1>8. 0 \in T
    BY <1>1, <1>3, <1>7
<1>9. ASSUME NEW i \in 0..Size, i < Size, i \in T PROVE i + 1 \in T
    <2>1. i + 1 \in 0..Size /\ i + 1 # 0 /\ (i + 1) - 1 = i
        BY <1>1, <1>9
    <2>2. it[i + 1] = DispatchTurn(ready, it[(i + 1) - 1], PlanOrder[i + 1])
        BY <1>7, <2>1
    <2>3. f[i + 1] = DispatchTurn(ready, f[i], PlanOrder[i + 1]) /\ it[i] = f[i]
        BY <1>4, <1>9
    <2> QED BY <2>1, <2>2, <2>3
<1>10. Size \in T
    <2> HIDE DEF T
    <2> QED BY <1>1, <1>8, <1>9, UpTo
<1> QED BY <1>3, <1>5, <1>10 DEF S

---------------------------------------------------------------------------
(* The loops and their closed forms *)

LoopInvariant ==
    /\ ledger \in [Checks -> CheckEntries]
    /\ depMap \in DepMaps
    /\ counter \in Nat

\* The ledgers the loops start from hold such records.
LEMMA StandingFits ==
    ASSUME NEW c \in Checks
    PROVE  Standing(c) \subseteq CheckEntries
<1>1. PlanIndex[c] \in Nat /\ NoJob = 0 /\ 0 \in Nat /\ 1 \in Nat
    BY CheckAssumption DEF NoJob
<1>2. NewRecord \in CheckEntries
    BY <1>1 DEF NewRecord, CheckEntries, Phases
<1>3. \A r \in CheckEntries, p \in Phases, s \in TerminalStatuses \cup {"none"}, j \in Nat, a \in Nat :
        /\ [r EXCEPT !.phase = p, !.job = j] \in CheckEntries
        /\ [r EXCEPT !.phase = p, !.status = s, !.attempts = a] \in CheckEntries
    BY DEF CheckEntries
<1>4. /\ [NewRecord EXCEPT !.phase = "running", !.job = PlanIndex[c]] \in CheckEntries
      /\ [NewRecord EXCEPT !.phase = "terminal", !.status = "completed", !.attempts = 1] \in CheckEntries
      /\ [NewRecord EXCEPT !.phase = "terminal", !.status = "failed", !.attempts = 1] \in CheckEntries
    <2>1. "running" \in Phases /\ "terminal" \in Phases /\ "completed" \in TerminalStatuses /\ "failed" \in TerminalStatuses
        BY DEF Phases, TerminalStatuses
    <2> HIDE DEF CheckEntries
    <2> QED BY <1>1, <1>2, <1>3, <2>1
<1> QED BY <1>2, <1>4 DEF Standing

LEMMA LoopInit == Init => LoopInvariant
<1> SUFFICES ASSUME Init PROVE LoopInvariant
    OBVIOUS
<1>1. ASSUME NEW c \in Checks PROVE ledger[c] \in CheckEntries
    <2>1. ledger[c] \in Standing(c)
        BY DEF Init, Ledgers
    <2> QED BY <2>1, StandingFits
<1>2. ledger \in [Checks -> CheckEntries]
    BY <1>1 DEF Init, Ledgers
<1>3. Size \in Nat
    BY PlanOrderVisits
<1> QED BY <1>2, <1>3 DEF Init, LoopInvariant

\* What a cascade leaves.
LEMMA CascadeLeaves ==
    ASSUME LoopInvariant
    PROVE  /\ Dispatched(SkipLoop(ledger), counter).ledger \in [Checks -> CheckEntries]
           /\ Dispatched(SkipLoop(ledger), counter).counter \in Nat
<1> DEFINE ck == SkipLoop(ledger)
           S == Startable(ck, depMap)
<1>1. ck \in [Checks -> CheckEntries] /\ counter \in Nat
    BY SkipLoopMatches DEF LoopInvariant
<1> HIDE DEF ck
<1>2. Dispatched(ck, counter) = AfterStarts(ck, S, counter)
    BY <1>1, DispatchMatches
<1>3. S \in SUBSET Queued(ck)
    BY DEF Startable, Runnable
<1> HIDE DEF S
<1>4. Start(ck, S, counter) \in [Checks -> CheckEntries] /\ Cardinality(S) \in Nat
    BY <1>1, <1>3, StartsShow
<1> QED BY <1>1, <1>2, <1>4 DEF AfterStarts, ck

LEMMA LoopStep == LoopInvariant /\ [Cascade]_loopVars => LoopInvariant'
<1> SUFFICES ASSUME LoopInvariant, [Cascade]_loopVars PROVE LoopInvariant'
    OBVIOUS
<1>1. CASE Cascade
    <2>1. /\ ledger' = Dispatched(SkipLoop(ledger), counter).ledger
          /\ counter' = Dispatched(SkipLoop(ledger), counter).counter /\ depMap' = depMap
        BY <1>1 DEF Cascade
    <2>2. /\ ledger' \in [Checks -> CheckEntries] /\ counter' \in Nat
        BY <2>1, CascadeLeaves
    <2>3. depMap' \in DepMaps
        BY <2>1 DEF LoopInvariant, DepMaps
    <2> QED BY <2>2, <2>3 DEF LoopInvariant, CheckEntries
<1>2. CASE UNCHANGED loopVars
    BY <1>2 DEF loopVars, LoopInvariant, DepMaps, CheckEntries
<1> QED BY <1>1, <1>2

\* The loops compute their closed forms on every ledger of the invariant.
LEMMA LoopInvariantMatches == LoopInvariant => LoopsMatchClosedForms
<1> SUFFICES ASSUME LoopInvariant PROVE LoopsMatchClosedForms
    OBVIOUS
<1>1. ledger \in [Checks -> CheckEntries] /\ depMap \in DepMaps /\ counter \in Nat
    BY DEF LoopInvariant
<1>2. SkipLoop(ledger) = PropagateSkips(ledger, depMap)
    BY <1>1, SkipLoopMatches
<1>3. Dispatched(ledger, counter)
        = [ledger |-> Start(ledger, Startable(ledger, depMap), counter),
           counter |-> counter + Cardinality(Startable(ledger, depMap))]
    BY <1>1, DispatchMatches DEF AfterStarts
<1>4. SettleLoop = SettledEntries(depMap)
    BY <1>1, SettleLoopMatches
<1>5. ValidateDependencies(depMap, Checks) => Acyclic(depMap, Checks)
    BY <1>1, AcceptedIsAcyclic
<1> QED BY <1>2, <1>3, <1>4, <1>5 DEF LoopsMatchClosedForms

(***************************************************************************)
(* The loops of the code compute their closed forms on every ledger that   *)
(* cascades lead to, for every plan, map of prerequisites and limit, and   *)
(* no map is accepted that leaves a set of checks waiting for each other   *)
(* (checks.ts validateDependencies and propagateSkips, coordinator.ts      *)
(* dispatchRunnable).                                                      *)
(***************************************************************************)
THEOREM LoopsAlwaysMatch == LoopSpec => []LoopsMatchClosedForms
<1>1. Init => LoopInvariant
    BY LoopInit
<1>2. LoopInvariant /\ [Cascade]_loopVars => LoopInvariant'
    BY LoopStep
<1>3. LoopInvariant => LoopsMatchClosedForms
    BY LoopInvariantMatches
<1> QED BY <1>1, <1>2, <1>3, PTL DEF LoopSpec
================================================================================
