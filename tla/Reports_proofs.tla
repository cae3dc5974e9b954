---------------------------- MODULE Reports_proofs ----------------------------
(***************************************************************************)
(* Theorems about the reports of the web workspace: what a projection of a  *)
(* report keeps, what can be downloaded from the export panel, and what the *)
(* alignment of a page and the assembly of a run's report come to.          *)
(* The induction over data they need is that of CheckLoops_proofs.          *)
(***************************************************************************)
EXTENDS ExportPanel, ReportAssembly, CheckLoops_proofs, SequenceTheorems

---------------------------------------------------------------------------
(* The sizes and the readings of a report *)

\* The sizes of finitely many assets have a sum.
LEMMA SizeIsNumber ==
    ASSUME NEW r, IsFiniteSet(Ids(r.assets)), \A a \in Ids(r.assets) : r.assets[a].size \in Nat
    PROVE  SizeOf(r) \in Nat
<1> DEFINE S == DOMAIN r.assets
           ch == [s \in (SUBSET S) \ {{}} |-> CHOOSE x \in s : TRUE]
           G == [p \in S \X Nat |-> r.assets[p[1]].size + p[2]]
           Is(it) == it = [s \in SUBSET S |->
                              IF s = {} THEN 0
                              ELSE r.assets[CHOOSE x \in s : TRUE].size
                                    + it[s \ {CHOOSE x \in s : TRUE}]]
           fold == CHOOSE it : Is(it)
<1>1. SizeOf(r) = fold[S]
    BY DEF SizeOf, FoldFunction, FoldFunctionOnSet, MapThenFoldSet
<1>2. /\ IsFiniteSet(S) /\ \A a \in S : r.assets[a].size \in Nat
      /\ \A s \in (SUBSET S) \ {{}} : (CHOOSE x \in s : TRUE) \in s
    BY DEF Ids
<1>3. /\ ch \in [(SUBSET S) \ {{}} -> S] /\ \A s \in (SUBSET S) \ {{}} : ch[s] \in s
      /\ G \in [S \X Nat -> Nat]
    <2> HIDE DEF S
    <2> QED BY <1>2
<1>4. OverSubsets(S, Nat, 0, ch, G)
    <2> HIDE DEF S, ch, G
    <2> QED BY <1>2, <1>3, FoldExists
<1>5. PICK it \in [SUBSET S -> Nat] :
        it[{}] = 0 /\ \A s \in (SUBSET S) \ {{}} : it[s] = G[<<ch[s], it[s \ {ch[s]}]>>]
    BY <1>4 DEF OverSubsets
<1>6. Is(it)
    <2>1. ASSUME NEW s \in (SUBSET S) \ {{}}
          PROVE  it[s] = r.assets[CHOOSE x \in s : TRUE].size + it[s \ {CHOOSE x \in s : TRUE}]
        <3> DEFINE x == CHOOSE x \in s : TRUE
        <3>1. x \in s /\ x \in S /\ ch[s] = x
            BY <1>2
        <3> HIDE DEF x, S
        <3>2. it[s] = G[<<x, it[s \ {x}]>>] /\ it[s \ {x}] \in Nat
            BY <1>5, <3>1
        <3>3. G[<<x, it[s \ {x}]>>] = r.assets[x].size + it[s \ {x}]
            BY <3>1, <3>2
        <3> QED BY <3>2, <3>3 DEF x
    <2> HIDE DEF S
    <2> QED BY <1>5, <2>1
<1>7. Is(fold)
    <2> HIDE DEF Is
    <2> QED BY <1>6
<1> DEFINE N == {k \in Nat : \A s \in SUBSET S : Cardinality(s) <= k => fold[s] \in Nat}
<1>8. /\ \A s \in SUBSET S : IsFiniteSet(s) /\ Cardinality(s) \in Nat
      /\ \A s \in SUBSET S : Cardinality(s) = 0 <=> s = {}
    <2> HIDE DEF S
    <2> QED BY <1>2, FS_Subset, FS_CardinalityType, FS_EmptySet
<1>9. /\ fold[{}] = 0
      /\ \A s \in (SUBSET S) \ {{}} :
            fold[s] = r.assets[CHOOSE x \in s : TRUE].size + fold[s \ {CHOOSE x \in s : TRUE}]
    <2> HIDE DEF S, fold
    <2> QED BY <1>7
<1>10. 0 \in N
    <2> HIDE DEF fold, S
    <2>1. ASSUME NEW s \in SUBSET S, Cardinality(s) <= 0 PROVE fold[s] \in Nat
        <3>1. s = {}
            BY <1>8, <2>1
        <3> QED BY <1>9, <3>1
    <2> QED BY <2>1
<1>11. ASSUME NEW k \in N \cap Nat PROVE k + 1 \in N
    <2> HIDE DEF S, fold
    <2>1. ASSUME NEW s \in SUBSET S, Cardinality(s) <= k + 1 PROVE fold[s] \in Nat
        <3>1. CASE s = {}
            BY <1>9, <3>1
        <3>2. CASE s # {}
            <4> DEFINE x == CHOOSE x \in s : TRUE
            <4>1. x \in s /\ x \in S
                BY <1>2, <3>2
            <4> HIDE DEF x
            <4>2. Cardinality(s \ {x}) <= k
                BY <1>8, <2>1, <4>1, FS_RemoveElement
            <4>3. fold[s \ {x}] \in Nat
                BY <4>2
            <4>4. fold[s] = r.assets[x].size + fold[s \ {x}]
                BY <1>9, <3>2 DEF x
            <4> QED BY <1>2, <4>1, <4>3, <4>4
        <3> QED BY <3>1, <3>2
    <2> QED BY <2>1
<1>12. Nat \subseteq N
    <2> HIDE DEF N
    <2> QED BY <1>10, <1>11, NumbersInduction
<1>13. fold[S] \in Nat
    <2>1. Cardinality(S) \in Nat /\ Cardinality(S) <= Cardinality(S)
        BY <1>8
    <2> HIDE DEF S, fold
    <2> QED BY <1>12, <2>1
<1> HIDE DEF fold
<1> QED BY <1>1, <1>13

\* How RetainedOf goes through a sequence.
Walk(u, s, K) ==
    /\ DOMAIN u = 0..Len(s)
    /\ u[0] = <<>>
    /\ \A i \in 1..Len(s) : u[i] = IF s[i] \in K THEN Append(u[i - 1], s[i]) ELSE u[i - 1]

\* RetainedOf is the end of such a walk over sequences of the same elements.
LEMMA RetainedIsWalked ==
    ASSUME NEW X, NEW s \in Seq(X), NEW K
    PROVE  \E u \in [0..Len(s) -> Seq(X)] : Walk(u, s, K) /\ RetainedOf(s, K) = u[Len(s)]
<1> DEFINE n == Len(s)
           Step(i, v) == IF s[i] \in K THEN Append(v, s[i]) ELSE v
           G == [p \in Nat \X Seq(X) |-> IF p[1] \in 1..n THEN Step(p[1], p[2]) ELSE p[2]]
           Is(u) == u = [i \in 0..n |->
                            IF i = 0 THEN <<>>
                            ELSE IF s[i] \in K THEN Append(u[i - 1], s[i]) ELSE u[i - 1]]
           it == CHOOSE u : Is(u)
<1>0. n \in Nat /\ \A i \in 1..n : s[i] \in X
    OBVIOUS
<1>1. \A i \in 1..n, v \in Seq(X) : Step(i, v) \in Seq(X)
    BY <1>0
<1>2. G \in [Nat \X Seq(X) -> Seq(X)]
    BY <1>1
<1>3. PICK f \in [0..n -> Seq(X)] : f[0] = <<>> /\ \A i \in 1..n : f[i] = G[<<i, f[i - 1]>>]
    <2>1. <<>> \in Seq(X)
        OBVIOUS
    <2> HIDE DEF G, n
    <2> DEFINE V == Seq(X)
               b == <<>>
    <2>2. b \in V /\ G \in [Nat \X V -> V] /\ n \in Nat
        BY <1>0, <1>2, <2>1
    <2>3. Recursive(V, b, G, n)
        <3> HIDE DEF V, b
        <3> QED BY <2>2, RecursionExists
    <2> QED BY <2>3 DEF Recursive
<1>4. Is(f)
    <2>1. ASSUME NEW i \in 1..n PROVE f[i] = Step(i, f[i - 1])
        <3>1. f[i] = G[<<i, f[i - 1]>>]
            BY <1>3
        <3>2. f[i - 1] \in Seq(X) /\ i \in Nat
            <4> HIDE DEF G
            <4>1. i - 1 \in 0..n
                BY <1>0
            <4> QED BY <1>0, <4>1
        <3>3. G[<<i, f[i - 1]>>] = Step(i, f[i - 1])
            <4> HIDE DEF Step
            <4> QED BY <3>2
        <3> QED BY <3>1, <3>3
    <2>2. ASSUME NEW i \in 0..n
          PROVE  f[i] = IF i = 0 THEN <<>>
                        ELSE IF s[i] \in K THEN Append(f[i - 1], s[i]) ELSE f[i - 1]
        <3>1. CASE i = 0
            BY <1>3, <3>1
        <3>2. CASE i # 0
            <4>1. i \in 1..n
                BY <1>0, <3>2
            <4> QED BY <2>1, <3>2, <4>1
        <3> QED BY <3>1, <3>2
    <2> HIDE DEF n
    <2> QED BY <2>2
<1>5. Is(it)
    <2> HIDE DEF Is
    <2> QED BY <1>4
<1>6. RetainedOf(s, K) = it[n]
    BY DEF RetainedOf
<1>7. Walk(it, s, K)
    <2> HIDE DEF it
    <2>1. it = [i \in 0..n |-> IF i = 0 THEN <<>>
                               ELSE IF s[i] \in K THEN Append(it[i - 1], s[i]) ELSE it[i - 1]]
        BY <1>5
    <2>2. DOMAIN it = 0..n
        BY <2>1, Zenon
    <2>3. \A i \in 0..n : it[i] = IF i = 0 THEN <<>>
                               ELSE IF s[i] \in K THEN Append(it[i - 1], s[i]) ELSE it[i - 1]
        BY <2>1, Zenon
    <2>4. 0 \in 0..n /\ \A i \in 1..n : i \in 0..n /\ i # 0
        BY <1>0
    <2> QED BY <2>2, <2>3, <2>4, Zenon DEF Walk
<1>8. it \in [0..n -> Seq(X)]
    <2> DEFINE S == {i \in Nat : i \in 0..n => it[i] \in Seq(X)}
    <2>1. 0 \in S
        <3>1. it[0] = <<>> /\ <<>> \in Seq(X)
            <4> HIDE DEF it
            <4> QED BY <1>7 DEF Walk
        <3> HIDE DEF it
        <3> QED BY <3>1
    <2>2. ASSUME NEW i \in S \cap Nat PROVE i + 1 \in S
        <3> HIDE DEF it
        <3>1. CASE i + 1 \in 0..n
            <4>1. it[i + 1] = IF s[i + 1] \in K THEN Append(it[i], s[i + 1]) ELSE it[i]
                <5>1. i + 1 \in 1..n /\ (i + 1) - 1 = i
                    BY <1>0, <3>1
                <5>2. it[i + 1] = IF s[i + 1] \in K THEN Append(it[(i + 1) - 1], s[i + 1]) ELSE it[(i + 1) - 1]
                    BY <1>7, <5>1 DEF Walk
                <5> QED BY <5>1, <5>2
            <4>2. i + 1 \in 1..n /\ i \in 0..n
                BY <1>0, <3>1
            <4>3. it[i] \in Seq(X) /\ s[i + 1] \in X
                BY <1>0, <4>2, <2>2
            <4>4. it[i + 1] \in Seq(X)
                BY <4>1, <4>3
            <4> QED BY <4>4
        <3> QED BY <3>1
    <2>3. Nat \subseteq S
        <3> HIDE DEF S
        <3> QED BY <2>1, <2>2, NumbersInduction
    <2>4. it = [i \in 0..n |-> it[i]]
        <3> HIDE DEF it
        <3> QED BY <1>5, Zenon
    <2> HIDE DEF it
    <2>5. \A i \in 0..n : it[i] \in Seq(X)
        <3>1. \A i \in 0..n : i \in Nat
            BY <1>0
        <3> QED BY <2>3, <3>1
    <2> HIDE DEF S, n
    <2> QED BY <2>4, <2>5
<1> HIDE DEF it, n
<1> QED BY <1>6, <1>7, <1>8 DEF n

\* The next index of a sequence.
LEMMA NextIndex ==
    ASSUME NEW n \in Nat, NEW i \in Nat, i + 1 \in 0..n
    PROVE  i \in 0..n /\ i + 1 \in 1..n /\ (i + 1) - 1 = i
OBVIOUS

\* RetainedOf keeps the elements of the sequence that are wanted, in a sequence
\* that is no longer and has no repetition of its own.
LEMMA RetainedKeeps ==
    ASSUME NEW X, NEW s \in Seq(X), NEW K
    PROVE  /\ RetainedOf(s, K) \in Seq(X)
           /\ Len(RetainedOf(s, K)) <= Len(s)
           /\ Range(RetainedOf(s, K)) = Range(s) \cap K
           /\ IsInjective(s) => IsInjective(RetainedOf(s, K))
<1>1. PICK u \in [0..Len(s) -> Seq(X)] : Walk(u, s, K) /\ RetainedOf(s, K) = u[Len(s)]
    BY RetainedIsWalked
<1> DEFINE n == Len(s)
           Kept(i) == /\ Len(u[i]) <= i
                      /\ {u[i][j] : j \in 1..Len(u[i])} = {s[j] : j \in 1..i} \cap K
                      /\ IsInjective(s) => IsInjective(u[i])
           S == {i \in Nat : i \in 0..n => Kept(i)}
<1>2. n \in Nat /\ DOMAIN s = 1..n /\ \A i \in 0..n : u[i] \in Seq(X)
    OBVIOUS
<1>3. 0 \in S
    <2>1. u[0] = <<>>
        BY <1>1 DEF Walk
    <2> QED BY <2>1 DEF IsInjective
<1>4. ASSUME NEW i \in S \cap Nat, i + 1 \in 0..n PROVE Kept(i + 1)
    <2>1. i \in 0..n /\ i + 1 \in 1..n /\ Kept(i) /\ (i + 1) - 1 = i
        <3>0. i \in Nat /\ n \in Nat /\ i + 1 \in 0..n
            <4> HIDE DEF S, n
            <4> QED BY <1>2, <1>4
        <3>1. i \in 0..n /\ i + 1 \in 1..n /\ (i + 1) - 1 = i
            <4> HIDE DEF S, n
            <4> QED BY <3>0, NextIndex
        <3> HIDE DEF Kept
        <3> QED BY <1>4, <3>1
    <2> DEFINE v == u[i]
               w == u[i + 1]
               x == s[i + 1]
    <2>2. v \in Seq(X) /\ w \in Seq(X) /\ x \in X
        BY <1>2, <2>1
    <2>3. w = IF x \in K THEN Append(v, x) ELSE v
        <3>1. u[i + 1] = IF s[i + 1] \in K THEN Append(u[(i + 1) - 1], s[i + 1]) ELSE u[(i + 1) - 1]
            BY <1>1, <2>1 DEF Walk
        <3> QED BY <2>1, <3>1
    <2>4. {s[j] : j \in 1..(i + 1)} = {s[j] : j \in 1..i} \cup {x}
        BY <2>1
    <2>5. /\ Len(v) <= i
          /\ {v[j] : j \in 1..Len(v)} = {s[j] : j \in 1..i} \cap K
          /\ IsInjective(s) => IsInjective(v)
        BY <2>1
    <2>6. CASE x \notin K
        <3>1. w = v
            BY <2>3, <2>6
        <3> HIDE DEF v, w, x
        <3>2. Len(w) <= i + 1
            BY <2>2, <2>5, <3>1, <2>1
        <3>3. {w[j] : j \in 1..Len(w)} = {s[j] : j \in 1..(i + 1)} \cap K
            BY <2>4, <2>5, <2>6, <3>1
        <3> QED BY <2>5, <3>1, <3>2, <3>3 DEF w
    <2>7. CASE x \in K
        <3>1. w = Append(v, x)
            BY <2>3, <2>7
        <3> HIDE DEF v, w, x
        <3>2. Len(w) = Len(v) + 1 /\ Len(v) \in Nat
            BY <2>2, <3>1
        <3>3. \A j \in 1..Len(w) : w[j] = IF j = Len(v) + 1 THEN x ELSE v[j]
            BY <2>2, <3>1, <3>2
        <3>4. {w[j] : j \in 1..Len(w)} = {v[j] : j \in 1..Len(v)} \cup {x}
            <4>1. ASSUME NEW y \in {w[j] : j \in 1..Len(w)} PROVE y \in {v[j] : j \in 1..Len(v)} \cup {x}
                <5>1. PICK j \in 1..Len(w) : y = w[j]
                    BY <4>1
                <5>2. CASE j = Len(v) + 1
                    BY <3>3, <5>1, <5>2
                <5>3. CASE j # Len(v) + 1
                    <6>1. j \in 1..Len(v)
                        BY <3>2, <5>3
                    <6> QED BY <3>3, <5>1, <5>3, <6>1
                <5> QED BY <5>2, <5>3
            <4>2. ASSUME NEW y \in {v[j] : j \in 1..Len(v)} PROVE y \in {w[j] : j \in 1..Len(w)}
                <5>1. PICK j \in 1..Len(v) : y = v[j]
                    BY <4>2
                <5>2. j \in 1..Len(w) /\ j # Len(v) + 1
                    BY <3>2
                <5> QED BY <3>3, <5>1, <5>2
            <4>3. x \in {w[j] : j \in 1..Len(w)}
                <5>1. Len(v) + 1 \in 1..Len(w)
                    BY <3>2
                <5> QED BY <3>3, <5>1
            <4> QED BY <4>1, <4>2, <4>3
        <3>5. Len(w) <= i + 1
            BY <2>5, <3>2, <2>1
        <3>6. {w[j] : j \in 1..Len(w)} = {s[j] : j \in 1..(i + 1)} \cap K
            BY <2>4, <2>5, <2>7, <3>4
        <3>7. ASSUME IsInjective(s) PROVE IsInjective(w)
            <4>1. x \notin {v[j] : j \in 1..Len(v)}
                <5>1. ASSUME NEW j \in 1..i PROVE s[j] # x
                    <6>1. j \in 1..n /\ j # i + 1
                        BY <1>2, <2>1
                    <6>2. i + 1 \in DOMAIN s /\ j \in DOMAIN s
                        BY <1>2, <2>1, <6>1
                    <6> QED BY <3>7, <6>1, <6>2 DEF IsInjective, x
                <5> QED BY <2>5, <5>1
            <4>2. DOMAIN w = 1..Len(w) /\ DOMAIN v = 1..Len(v)
                BY <2>2
            <4>3. ASSUME NEW a \in 1..Len(w), NEW c \in 1..Len(w), w[a] = w[c] PROVE a = c
                <5>1. \A j \in 1..Len(w) : j # Len(v) + 1 => j \in 1..Len(v)
                    BY <3>2
                <5>2. CASE a = Len(v) + 1 \/ c = Len(v) + 1
                    BY <3>3, <4>1, <4>3, <5>1, <5>2
                <5>3. CASE a # Len(v) + 1 /\ c # Len(v) + 1
                    <6>1. a \in 1..Len(v) /\ c \in 1..Len(v) /\ v[a] = v[c]
                        BY <3>3, <4>3, <5>1, <5>3
                    <6> QED BY <2>5, <3>7, <4>2, <6>1 DEF IsInjective
                <5> QED BY <5>2, <5>3
            <4> QED BY <4>2, <4>3 DEF IsInjective
        <3> QED BY <3>5, <3>6, <3>7 DEF w
    <2> QED BY <2>6, <2>7
<1>5. Nat \subseteq S
    <2>1. \A i \in S \cap Nat : i + 1 \in S
        <3> HIDE DEF Kept
        <3> QED BY <1>4
    <2> HIDE DEF S
    <2> QED BY <1>3, <2>1, NumbersInduction
<1>6. Kept(n)
    <2> HIDE DEF Kept, n
    <2> QED BY <1>2, <1>5
<1>7. /\ Range(u[n]) = {u[n][j] : j \in 1..Len(u[n])}
      /\ Range(s) = {s[j] : j \in 1..n}
    <2>1. u[n] \in Seq(X)
        BY <1>2
    <2> HIDE DEF n
    <2>2. DOMAIN u[n] = 1..Len(u[n])
        BY <2>1
    <2> QED BY <1>2, <2>2 DEF Range
<1>8. n \in 0..n
    BY <1>2
<1>9. u[n] \in Seq(X)
    BY <1>2, <1>8
<1>10. /\ Len(u[n]) <= n
       /\ {u[n][j] : j \in 1..Len(u[n])} = {s[j] : j \in 1..n} \cap K
       /\ IsInjective(s) => IsInjective(u[n])
    BY <1>6
<1>11. RetainedOf(s, K) = u[n]
    BY <1>1
<1> HIDE DEF n, Kept, S
<1> QED BY <1>7, <1>9, <1>10, <1>11 DEF n

\* A sequence of wanted elements only is kept as it is.
LEMMA RetainedAll ==
    ASSUME NEW X, NEW s \in Seq(X), NEW K, Range(s) \subseteq K
    PROVE  RetainedOf(s, K) = s
<1>1. PICK u \in [0..Len(s) -> Seq(X)] : Walk(u, s, K) /\ RetainedOf(s, K) = u[Len(s)]
    BY RetainedIsWalked
<1> DEFINE n == Len(s)
           Kept(i) == Len(u[i]) = i /\ \A j \in 1..i : u[i][j] = s[j]
           S == {i \in Nat : i \in 0..n => Kept(i)}
<1>2. n \in Nat /\ DOMAIN s = 1..n /\ \A i \in 0..n : u[i] \in Seq(X)
    OBVIOUS
<1>3. 0 \in S
    <2>1. u[0] = <<>>
        BY <1>1 DEF Walk
    <2> QED BY <2>1
<1>4. ASSUME NEW i \in S \cap Nat, i + 1 \in 0..n PROVE Kept(i + 1)
    <2>1. i \in 0..n /\ i + 1 \in 1..n /\ Kept(i) /\ (i + 1) - 1 = i
        BY <1>2, <1>4
    <2>2. s[i + 1] \in K
        BY <1>2, <2>1 DEF Range
    <2>3. u[i + 1] = Append(u[i], s[i + 1])
        <3>1. u[i + 1] = IF s[i + 1] \in K THEN Append(u[(i + 1) - 1], s[i + 1]) ELSE u[(i + 1) - 1]
            BY <1>1, <2>1 DEF Walk
        <3> QED BY <2>1, <2>2, <3>1
    <2>4. u[i] \in Seq(X) /\ s[i + 1] \in X
        BY <1>2, <2>1
    <2> DEFINE v == u[i]
    <2>5. v \in Seq(X) /\ u[i + 1] = Append(v, s[i + 1]) /\ Len(v) = i /\ \A j \in 1..i : v[j] = s[j]
        BY <2>1, <2>3, <2>4
    <2> HIDE DEF v
    <2>6. Len(u[i + 1]) = i + 1
        BY <2>5
    <2>7. ASSUME NEW j \in 1..(i + 1) PROVE u[i + 1][j] = s[j]
        <3>1. CASE j = i + 1
            BY <2>5, <3>1
        <3>2. CASE j # i + 1
            <4>1. j \in 1..i
                BY <3>2, <2>1
            <4> QED BY <2>5, <4>1
        <3> QED BY <3>1, <3>2
    <2> QED BY <2>6, <2>7
<1>5. Nat \subseteq S
    <2>1. \A i \in S \cap Nat : i + 1 \in S
        <3> HIDE DEF Kept
        <3> QED BY <1>4
    <2> HIDE DEF S
    <2> QED BY <1>3, <2>1, NumbersInduction
<1>6. Kept(n)
    <2> HIDE DEF Kept, n
    <2> QED BY <1>2, <1>5
<1>7. u[n] \in Seq(X) /\ Len(u[n]) = Len(s) /\ \A j \in 1..Len(s) : u[n][j] = s[j]
    BY <1>2, <1>6
<1> HIDE DEF n
<1>8. u[n] = s
    BY <1>7
<1> QED BY <1>1, <1>8 DEF n

---------------------------------------------------------------------------
(* What a projection keeps *)

\* A report with the notes of the user: all the contract asks but the bytes.
SourceOk(src) ==
    /\ IsReport(src) /\ WordsFit(src)
    /\ PagesAgree(src) /\ PlanAgrees(src) /\ OccurrencesAgree(src) /\ ChecksAgree(src)
    /\ FindingsAgree(src) /\ NotesAgree(src) /\ StatusAgrees(src)
    /\ \A a \in Ids(src.assets) :
        /\ src.assets[a].purpose \in {"crop", "page_render"} => src.assets[a].page \in src.pages
        /\ Cites(src, src.assets[a].transforms, src.assets[a].page)

\* The projection of a request that is not refused.
Export(src, req) == Sealed(Projected(src, req))

\* The parts of a projection.
LEMMA PartsOfExport ==
    ASSUME NEW src, NEW req
    PROVE  LET r == Export(src, req)
           IN  /\ r.pages = KeptPages(src, req) /\ r.selected = src.selected
               /\ r.readers = src.readers /\ r.plan = src.plan
               /\ r.transforms = Restrict(src.transforms, KeptTransforms(src, req))
               /\ r.regions = Restrict(src.regions, KeptRegions(src, req))
               /\ r.checks = Projected(src, req).checks
               /\ r.occurrences = Projected(src, req).occurrences
               /\ r.findings = Restrict(src.findings, Supported(src, req))
               /\ r.notes = Restrict(src.notes, KeptNotes(src, req))
               /\ r.assets = KeptAssets(src, req)
               /\ r.source = (IF SourceAsset(src, req) = None THEN None ELSE SourceId(src, req))
               /\ r.length = src.length /\ r.filename = (src.filename /\ req.filename)
               /\ r.status = src.status /\ r.mode = Mode(src, req) /\ r.replay = Replay(src, req)
               /\ r.included = Included(Projected(src, req))
BY DEF Export, Sealed, Projected

\* The checks of a projection.
LEMMA ChecksEdited ==
    ASSUME NEW src, NEW req, IsReport(src), NEW c \in Ids(src.checks)
    PROVE  /\ DOMAIN src.checks[c] = {"status", "reason", "produced", "retained"}
           /\ Export(src, req).checks[c] = [src.checks[c] EXCEPT !.retained =
                            RetainedOf(src.checks[c].retained, KeptOccurrences(src, req))]
<1>1. DOMAIN src.checks[c] = {"status", "reason", "produced", "retained"}
    BY DEF IsReport
<1> DEFINE checks == [d \in Ids(src.checks) |->
            [src.checks[d] EXCEPT !.retained = RetainedOf(@, KeptOccurrences(src, req))]]
<1>2. Export(src, req).checks = Projected(src, req).checks
    BY PartsOfExport
<1>3. Projected(src, req).checks = checks
    BY DEF Projected
<1>4. checks[c] = [src.checks[c] EXCEPT !.retained =
                            RetainedOf(src.checks[c].retained, KeptOccurrences(src, req))]
    OBVIOUS
<1> QED BY <1>1, <1>2, <1>3, <1>4

\* The checks of an export, one by one.
LEMMA ChecksOfExport ==
    ASSUME NEW src, NEW req, IsReport(src)
    PROVE  /\ Ids(Export(src, req).checks) = Ids(src.checks)
           /\ \A c \in Ids(src.checks) :
                    /\ Export(src, req).checks[c].status = src.checks[c].status
                    /\ Export(src, req).checks[c].reason = src.checks[c].reason
                    /\ Export(src, req).checks[c].produced = src.checks[c].produced
                    /\ Export(src, req).checks[c].retained =
                            RetainedOf(src.checks[c].retained, KeptOccurrences(src, req))
<1>1. Ids(Export(src, req).checks) = Ids(src.checks)
    <2>1. Export(src, req).checks = Projected(src, req).checks
        BY PartsOfExport
    <2> QED BY <2>1 DEF Projected, Ids
<1>2. ASSUME NEW c \in Ids(src.checks)
      PROVE  /\ Export(src, req).checks[c].status = src.checks[c].status
             /\ Export(src, req).checks[c].reason = src.checks[c].reason
             /\ Export(src, req).checks[c].produced = src.checks[c].produced
             /\ Export(src, req).checks[c].retained =
                        RetainedOf(src.checks[c].retained, KeptOccurrences(src, req))
    <2> DEFINE new == RetainedOf(src.checks[c].retained, KeptOccurrences(src, req))
    <2>1. /\ DOMAIN src.checks[c] = {"status", "reason", "produced", "retained"}
          /\ Export(src, req).checks[c] = [src.checks[c] EXCEPT !.retained = new]
        BY ChecksEdited
    <2> HIDE DEF new
    <2> QED BY <2>1 DEF new
<1> QED BY <1>1, <1>2

\* The readings of a projection.
LEMMA OccurrencesEdited ==
    ASSUME NEW src, NEW req, IsReport(src), KeptOccurrences(src, req) \subseteq Ids(src.occurrences),
           NEW o \in KeptOccurrences(src, req)
    PROVE  /\ DOMAIN src.occurrences[o] = {"reader", "page", "asset", "polygon", "transforms"}
           /\ Export(src, req).occurrences[o] = [src.occurrences[o] EXCEPT !.asset =
                    IF o \in Unlinked(src, req) THEN None ELSE src.occurrences[o].asset]
<1>1. DOMAIN src.occurrences[o] = {"reader", "page", "asset", "polygon", "transforms"}
    <2>1. o \in Ids(src.occurrences)
        OBVIOUS
    <2> QED BY <2>1 DEF IsReport
<1> DEFINE occurrences == [p \in KeptOccurrences(src, req) |->
        [src.occurrences[p] EXCEPT !.asset = IF p \in Unlinked(src, req) THEN None ELSE @]]
<1>2. Export(src, req).occurrences = Projected(src, req).occurrences
    BY PartsOfExport
<1>3. Projected(src, req).occurrences = occurrences
    BY DEF Projected
<1>4. occurrences[o] = [src.occurrences[o] EXCEPT !.asset =
                    IF o \in Unlinked(src, req) THEN None ELSE src.occurrences[o].asset]
    OBVIOUS
<1> QED BY <1>1, <1>2, <1>3, <1>4

\* The occurrences of an export, one by one.
LEMMA OccurrencesOfExport ==
    ASSUME NEW src, NEW req, IsReport(src), KeptOccurrences(src, req) \subseteq Ids(src.occurrences)
    PROVE  /\ Ids(Export(src, req).occurrences) = KeptOccurrences(src, req)
           /\ \A o \in KeptOccurrences(src, req) :
                    /\ Export(src, req).occurrences[o].reader = src.occurrences[o].reader
                    /\ Export(src, req).occurrences[o].page = src.occurrences[o].page
                    /\ Export(src, req).occurrences[o].polygon = src.occurrences[o].polygon
                    /\ Export(src, req).occurrences[o].transforms = src.occurrences[o].transforms
                    /\ Export(src, req).occurrences[o].asset =
                        (IF o \in Unlinked(src, req) THEN None ELSE src.occurrences[o].asset)
<1>1. Ids(Export(src, req).occurrences) = KeptOccurrences(src, req)
    <2>1. Export(src, req).occurrences = Projected(src, req).occurrences
        BY PartsOfExport
    <2> QED BY <2>1 DEF Projected, Ids
<1>2. ASSUME NEW o \in KeptOccurrences(src, req)
      PROVE  /\ Export(src, req).occurrences[o].reader = src.occurrences[o].reader
             /\ Export(src, req).occurrences[o].page = src.occurrences[o].page
             /\ Export(src, req).occurrences[o].polygon = src.occurrences[o].polygon
             /\ Export(src, req).occurrences[o].transforms = src.occurrences[o].transforms
             /\ Export(src, req).occurrences[o].asset =
                        (IF o \in Unlinked(src, req) THEN None ELSE src.occurrences[o].asset)
    <2> DEFINE link == IF o \in Unlinked(src, req) THEN None ELSE src.occurrences[o].asset
    <2>1. /\ DOMAIN src.occurrences[o] = {"reader", "page", "asset", "polygon", "transforms"}
          /\ Export(src, req).occurrences[o] = [src.occurrences[o] EXCEPT !.asset = link]
        BY OccurrencesEdited
    <2> HIDE DEF link
    <2>2. /\ Export(src, req).occurrences[o].reader = src.occurrences[o].reader
          /\ Export(src, req).occurrences[o].page = src.occurrences[o].page
          /\ Export(src, req).occurrences[o].polygon = src.occurrences[o].polygon
          /\ Export(src, req).occurrences[o].transforms = src.occurrences[o].transforms
          /\ Export(src, req).occurrences[o].asset = link
        BY <2>1
    <2> QED BY <2>2 DEF link
<1> QED BY <1>1, <1>2

\* What is kept is the report's own.
LEMMA KeptIsKnown ==
    ASSUME NEW src, NEW req, SourceOk(src), ~Refused(src, req)
    PROVE  /\ Chosen(src, req) \subseteq Ids(src.findings)
           /\ Supported(src, req) \subseteq Ids(src.findings)
           /\ KeptOccurrences(src, req) \subseteq Ids(src.occurrences)
           /\ KeptNotes(src, req) \subseteq Ids(src.notes)
           /\ KeptRegions(src, req) \subseteq Ids(src.regions)
           /\ KeptImages(src, req) \subseteq Ids(src.assets)
<1>1. Chosen(src, req) \subseteq Ids(src.findings)
    BY DEF Refused, Resolves, Chosen, ResolveIds
<1>2. ASSUME NEW f \in Chosen(src, req) PROVE src.findings[f].occurrences \subseteq Ids(src.occurrences)
    BY <1>1 DEF SourceOk, FindingsAgree
<1>3. UNION {src.findings[f].occurrences : f \in Chosen(src, req)} \subseteq Ids(src.occurrences)
    BY <1>2
<1>4. KeptOccurrences(src, req) \subseteq Ids(src.occurrences)
    <2>1. CASE req.occurrences = Cited
        BY <1>3, <2>1 DEF KeptOccurrences
    <2>2. CASE req.occurrences # Cited
        BY <1>3, <2>2 DEF KeptOccurrences, Refused, Resolves, ResolveIds
    <2> QED BY <2>1, <2>2
<1>5. Supported(src, req) \subseteq Ids(src.findings)
    BY <1>1 DEF Supported
<1>6. KeptNotes(src, req) \subseteq Ids(src.notes) /\ KeptRegions(src, req) \subseteq Ids(src.regions)
    BY DEF KeptNotes, KeptRegions
<1>7. KeptImages(src, req) \subseteq Ids(src.assets)
    BY DEF KeptImages, Usable
<1> QED BY <1>1, <1>4, <1>5, <1>6, <1>7

\* The images of a projection.
LEMMA ImagesKept ==
    ASSUME NEW src, NEW req, SourceOk(src), NEW a \in KeptImages(src, req)
    PROVE  /\ a \in Ids(src.assets) /\ src.assets[a].usable
           /\ src.assets[a].purpose \in {"crop", "page_render"}
           /\ src.assets[a].page \in src.pages
           /\ Cites(src, src.assets[a].transforms, src.assets[a].page)
<1>1. a \in Ids(src.assets) /\ src.assets[a].usable
    BY DEF KeptImages, Usable
<1>2. src.assets[a].purpose \in {"crop", "page_render"}
    BY DEF KeptImages, Wanted, Required, OfPurpose
<1> QED BY <1>1, <1>2 DEF SourceOk

\* The original of a projection.
LEMMA OriginalKept ==
    ASSUME NEW src, NEW req, SourceOk(src), SourceAsset(src, req) # None
    PROVE  /\ SourceId(src, req) # None
           /\ SourceAsset(src, req).usable
           /\ SourceAsset(src, req).purpose = "source_pdf"
           /\ Cites(src, SourceAsset(src, req).transforms, SourceAsset(src, req).page)
<1>1. CASE req.source = Original
    <2>1. SourceAsset(src, req) = [purpose |-> "source_pdf", usable |-> TRUE, bound |-> TRUE,
                                   size |-> src.length, page |-> None, transforms |-> {}]
        BY <1>1 DEF SourceAsset
    <2>2. SourceId(src, req) = "a_source"
        BY <1>1 DEF SourceId
    <2>4. "a_source" # None
        BY DEF SourceOk, WordsFit
    <2>5. Cites(src, {}, None)
        BY DEF Cites
    <2> QED BY <2>1, <2>2, <2>4, <2>5
<1>2. CASE req.source # Original
    <2> DEFINE a == CHOOSE a \in Carried(src) : TRUE
    <2>1. Carried(src) # {} /\ SourceAsset(src, req) = src.assets[a] /\ SourceId(src, req) = a
        BY <1>2 DEF SourceAsset, SourceId
    <2>2. a \in Carried(src)
        BY <2>1
    <2> HIDE DEF a
    <2>3. a \in Ids(src.assets) /\ src.assets[a].usable /\ src.assets[a].purpose = "source_pdf"
        BY <2>2 DEF Carried, OfPurpose, Usable
    <2>5. a # None
        BY <2>3 DEF SourceOk, WordsFit
    <2>6. Cites(src, src.assets[a].transforms, src.assets[a].page)
        BY <2>3 DEF SourceOk
    <2> QED BY <2>1, <2>3, <2>5, <2>6
<1> QED BY <1>1, <1>2

\* Every asset of a projection.
LEMMA AssetsKept ==
    ASSUME NEW src, NEW req, SourceOk(src), NEW a \in KeptAssetIds(src, req)
    PROVE  LET x == KeptAssets(src, req)[a]
           IN  /\ a \in KeptImages(src, req) => x = src.assets[a]
               /\ a \notin KeptImages(src, req) =>
                    /\ SourceAsset(src, req) # None /\ a = SourceId(src, req)
                    /\ x = SourceAsset(src, req)
               /\ x.usable
               /\ x.purpose \in {"crop", "page_render"} => a \in KeptImages(src, req) /\ x.page \in src.pages
               /\ Cites(src, x.transforms, x.page)
<1>1. CASE a \in KeptImages(src, req)
    <2>1. KeptAssets(src, req)[a] = src.assets[a]
        BY <1>1 DEF KeptAssets
    <2> QED BY <1>1, <2>1, ImagesKept
<1>2. CASE a \notin KeptImages(src, req)
    <2>1. SourceAsset(src, req) # None /\ a = SourceId(src, req)
        BY <1>2 DEF KeptAssetIds
    <2>2. KeptAssets(src, req)[a] = SourceAsset(src, req)
        BY <1>2 DEF KeptAssets
    <2> QED BY <1>2, <2>1, <2>2, OriginalKept
<1> QED BY <1>1, <1>2

\* The pages of what is kept are kept.
LEMMA PagesOfKept ==
    ASSUME NEW src, NEW req, SourceOk(src), ~Refused(src, req)
    PROVE  /\ KeptPages(src, req) \subseteq src.pages
           /\ src.selected \subseteq KeptPages(src, req)
           /\ \A o \in KeptOccurrences(src, req) : src.occurrences[o].page \in KeptPages(src, req)
           /\ \A f \in Supported(src, req) : src.findings[f].page \in KeptPages(src, req)
           /\ \A n \in KeptNotes(src, req) : src.notes[n].page \in KeptPages(src, req)
           /\ \A g \in KeptRegions(src, req) : src.regions[g].page \in KeptPages(src, req)
           /\ \A a \in KeptAssetIds(src, req) :
                KeptAssets(src, req)[a].page \in src.pages => KeptAssets(src, req)[a].page \in KeptPages(src, req)
<1>1. KeptPages(src, req) \subseteq src.pages
    BY DEF KeptPages
<1>2. src.selected \subseteq src.pages
    BY DEF SourceOk, PagesAgree
<1>3. \A p \in EvidencePages(src, req) \cap src.pages : p \in KeptPages(src, req)
    BY DEF KeptPages
<1>4. src.selected \subseteq KeptPages(src, req)
    BY <1>2, <1>3 DEF EvidencePages
<1>5. ASSUME NEW o \in KeptOccurrences(src, req) PROVE src.occurrences[o].page \in KeptPages(src, req)
    <2>1. src.occurrences[o].page \in src.pages
        BY KeptIsKnown DEF SourceOk, OccurrencesAgree
    <2>2. src.occurrences[o].page \in EvidencePages(src, req)
        BY DEF EvidencePages
    <2> QED BY <1>3, <2>1, <2>2
<1>6. ASSUME NEW f \in Supported(src, req) PROVE src.findings[f].page \in KeptPages(src, req)
    <2>1. src.findings[f].page \in src.pages
        BY KeptIsKnown DEF SourceOk, FindingsAgree
    <2>2. src.findings[f].page \in EvidencePages(src, req)
        BY DEF EvidencePages
    <2> QED BY <1>3, <2>1, <2>2
<1>7. ASSUME NEW n \in KeptNotes(src, req) PROVE src.notes[n].page \in KeptPages(src, req)
    <2>1. src.notes[n].page \in src.pages
        BY KeptIsKnown DEF SourceOk, NotesAgree
    <2>2. src.notes[n].page \in EvidencePages(src, req)
        BY DEF EvidencePages
    <2> QED BY <1>3, <2>1, <2>2
<1>8. ASSUME NEW g \in KeptRegions(src, req) PROVE src.regions[g].page \in KeptPages(src, req)
    <2>1. src.regions[g].page \in src.pages
        BY KeptIsKnown DEF SourceOk, PagesAgree
    <2>2. src.regions[g].page \in EvidencePages(src, req)
        BY DEF EvidencePages
    <2> QED BY <1>3, <2>1, <2>2
<1>9. ASSUME NEW a \in KeptAssetIds(src, req), KeptAssets(src, req)[a].page \in src.pages
      PROVE  KeptAssets(src, req)[a].page \in KeptPages(src, req)
    BY <1>9 DEF KeptPages
<1> QED BY <1>1, <1>4, <1>5, <1>6, <1>7, <1>8, <1>9

\* The transforms of what is kept are kept, and no transform of another page.
LEMMA TransformsOfKept ==
    ASSUME NEW src, NEW req, SourceOk(src), ~Refused(src, req)
    PROVE  /\ KeptTransforms(src, req) \subseteq Ids(src.transforms)
           /\ \A p \in KeptPages(src, req) : /\ <<"page", p>> \in KeptTransforms(src, req)
                                            /\ src.transforms[<<"page", p>>] = p
           /\ \A o \in KeptOccurrences(src, req) : src.occurrences[o].transforms \subseteq KeptTransforms(src, req)
           /\ \A g \in KeptRegions(src, req) : src.regions[g].transforms \subseteq KeptTransforms(src, req)
           /\ \A a \in KeptAssetIds(src, req) :
                    KeptAssets(src, req)[a].transforms \subseteq KeptTransforms(src, req)
           /\ \A t \in KeptTransforms(src, req) : src.transforms[t] \in KeptPages(src, req)
<1> DEFINE own == {<<"page", p>> : p \in KeptPages(src, req)}
           ofReadings == UNION {src.occurrences[o].transforms : o \in KeptOccurrences(src, req)}
           ofRegions == UNION {src.regions[g].transforms : g \in KeptRegions(src, req)}
           ofAssets == UNION {KeptAssets(src, req)[a].transforms : a \in KeptAssetIds(src, req)}
<1>1. KeptTransforms(src, req) = Ids(src.transforms) \cap (own \cup ofReadings \cup ofRegions \cup ofAssets)
    BY DEF KeptTransforms
<1>2. ASSUME NEW p \in KeptPages(src, req)
      PROVE  /\ <<"page", p>> \in own
             /\ <<"page", p>> \in Ids(src.transforms) /\ src.transforms[<<"page", p>>] = p
    <2>1. p \in src.pages
        BY PagesOfKept
    <2> QED BY <2>1 DEF SourceOk, PagesAgree
<1>3. ASSUME NEW o \in KeptOccurrences(src, req), NEW t \in src.occurrences[o].transforms
      PROVE  t \in ofReadings /\ t \in Ids(src.transforms) /\ src.transforms[t] \in KeptPages(src, req)
    <2>1. Cites(src, src.occurrences[o].transforms, src.occurrences[o].page)
        BY KeptIsKnown DEF SourceOk, OccurrencesAgree
    <2>2. src.occurrences[o].page \in KeptPages(src, req)
        BY PagesOfKept
    <2> QED BY <2>1, <2>2 DEF Cites
<1>4. ASSUME NEW g \in KeptRegions(src, req), NEW t \in src.regions[g].transforms
      PROVE  t \in ofRegions /\ t \in Ids(src.transforms) /\ src.transforms[t] \in KeptPages(src, req)
    <2>1. Cites(src, src.regions[g].transforms, src.regions[g].page)
        BY KeptIsKnown DEF SourceOk, PagesAgree
    <2>2. src.regions[g].page \in KeptPages(src, req)
        BY PagesOfKept
    <2> QED BY <2>1, <2>2 DEF Cites
<1>5. ASSUME NEW a \in KeptAssetIds(src, req), NEW t \in KeptAssets(src, req)[a].transforms
      PROVE  t \in ofAssets /\ t \in Ids(src.transforms) /\ src.transforms[t] \in KeptPages(src, req)
    <2> DEFINE x == KeptAssets(src, req)[a]
    <2>1. Cites(src, x.transforms, x.page)
        BY AssetsKept
    <2>2. t \in Ids(src.transforms) /\ src.transforms[t] = x.page
        BY <2>1 DEF Cites
    <2>3. x.page \in src.pages
        BY <2>2 DEF SourceOk, PagesAgree
    <2>4. x.page \in KeptPages(src, req)
        BY <2>3, PagesOfKept
    <2> QED BY <2>2, <2>4
<1> HIDE DEF own
<1>6. ASSUME NEW t \in KeptTransforms(src, req) PROVE src.transforms[t] \in KeptPages(src, req)
    <2>1. CASE t \in own
        BY <1>2, <2>1 DEF own
    <2>2. CASE t \in ofReadings
        BY <1>3, <2>2
    <2>3. CASE t \in ofRegions
        BY <1>4, <2>3
    <2>4. CASE t \in ofAssets
        BY <1>5, <2>4
    <2> HIDE DEF ofReadings, ofRegions, ofAssets
    <2> QED BY <1>1, <2>1, <2>2, <2>3, <2>4
<1> HIDE DEF ofReadings, ofRegions, ofAssets
<1> QED BY <1>1, <1>2, <1>3, <1>4, <1>5, <1>6

\* Pages and regions of a projection.
LEMMA ExportPagesAgree ==
    ASSUME NEW src, NEW req, SourceOk(src), ~Refused(src, req)
    PROVE  PagesAgree(Export(src, req))
<1> DEFINE r == Export(src, req)
<1>1. /\ r.pages = KeptPages(src, req) /\ r.selected = src.selected
      /\ r.transforms = Restrict(src.transforms, KeptTransforms(src, req))
      /\ r.regions = Restrict(src.regions, KeptRegions(src, req))
    BY PartsOfExport
<1> HIDE DEF r
<1>2. /\ Ids(r.transforms) = KeptTransforms(src, req) /\ Ids(r.regions) = KeptRegions(src, req)
      /\ \A t \in KeptTransforms(src, req) : r.transforms[t] = src.transforms[t]
      /\ \A g \in KeptRegions(src, req) : r.regions[g] = src.regions[g]
    BY <1>1 DEF Restrict, Ids
<1>3. r.selected \subseteq r.pages
    BY <1>1, PagesOfKept
<1>4. \A p \in r.pages : <<"page", p>> \in Ids(r.transforms) /\ r.transforms[<<"page", p>>] = p
    <2>1. \A p \in KeptPages(src, req) : /\ <<"page", p>> \in KeptTransforms(src, req)
                                         /\ src.transforms[<<"page", p>>] = p
        BY TransformsOfKept
    <2> QED BY <1>1, <1>2, <2>1
<1>5. \A t \in Ids(r.transforms) : r.transforms[t] \in r.pages
    BY <1>1, <1>2, TransformsOfKept
<1>6. ASSUME NEW g \in Ids(r.regions)
      PROVE  r.regions[g].page \in r.pages /\ Cites(r, r.regions[g].transforms, r.regions[g].page)
    <2>1. g \in KeptRegions(src, req) /\ r.regions[g] = src.regions[g]
        BY <1>2, <1>6
    <2>2. src.regions[g].page \in r.pages
        BY <1>1, <2>1, PagesOfKept
    <2>3. Cites(src, src.regions[g].transforms, src.regions[g].page)
        BY <2>1, KeptIsKnown DEF SourceOk, PagesAgree
    <2>4. src.regions[g].transforms \subseteq KeptTransforms(src, req)
        BY <2>1, TransformsOfKept
    <2> QED BY <1>2, <2>1, <2>2, <2>3, <2>4 DEF Cites
<1> QED BY <1>3, <1>4, <1>5, <1>6 DEF PagesAgree, r

\* The plan of a projection, with the regions it draws.
LEMMA ExportPlanAgrees ==
    ASSUME NEW src, NEW req, SourceOk(src), ~Refused(src, req)
    PROVE  PlanAgrees(Export(src, req))
<1> DEFINE r == Export(src, req)
<1>1. /\ r.plan = src.plan /\ r.selected = src.selected /\ r.readers = src.readers
      /\ r.regions = Restrict(src.regions, KeptRegions(src, req))
    BY PartsOfExport
<1>2. Ids(r.checks) = Ids(src.checks)
    BY ChecksOfExport DEF SourceOk
<1> HIDE DEF r
<1>3. PlanAgrees(src)
    BY DEF SourceOk
<1>4. ASSUME NEW c \in Ids(src.plan) PROVE RegionOn(r, src.plan[c].region, src.plan[c].page)
    <2> DEFINE g == src.plan[c].region
    <2>1. SUFFICES ASSUME g # None PROVE g \in Ids(r.regions) /\ r.regions[g].page = src.plan[c].page
        BY DEF RegionOn
    <2>2. g \in Ids(src.regions) /\ src.regions[g].page = src.plan[c].page
        BY <1>3, <2>1 DEF PlanAgrees, RegionOn
    <2>3. g \in KeptRegions(src, req)
        BY <2>2 DEF KeptRegions
    <2> HIDE DEF g
    <2> QED BY <1>1, <2>2, <2>3 DEF Restrict, Ids
<1> QED BY <1>1, <1>2, <1>3, <1>4 DEF PlanAgrees, r

\* The readings of a projection cite what is there.
LEMMA ExportOccurrencesAgree ==
    ASSUME NEW src, NEW req, SourceOk(src), ~Refused(src, req)
    PROVE  OccurrencesAgree(Export(src, req))
<1> DEFINE r == Export(src, req)
           kept == KeptOccurrences(src, req)
<1>1. /\ r.readers = src.readers /\ r.pages = KeptPages(src, req)
      /\ r.transforms = Restrict(src.transforms, KeptTransforms(src, req))
      /\ r.assets = KeptAssets(src, req)
    BY PartsOfExport
<1>2. /\ Ids(r.occurrences) = kept
      /\ \A o \in kept : /\ r.occurrences[o].reader = src.occurrences[o].reader
                         /\ r.occurrences[o].page = src.occurrences[o].page
                         /\ r.occurrences[o].transforms = src.occurrences[o].transforms
                         /\ r.occurrences[o].asset =
                                (IF o \in Unlinked(src, req) THEN None ELSE src.occurrences[o].asset)
    <2>1. IsReport(src) /\ KeptOccurrences(src, req) \subseteq Ids(src.occurrences)
        BY KeptIsKnown DEF SourceOk
    <2> QED BY <2>1, OccurrencesOfExport
<1> HIDE DEF r
<1>3. ASSUME NEW o \in kept
      PROVE  LET x == r.occurrences[o]
             IN  /\ x.reader \in r.readers /\ x.page \in r.pages
                 /\ Cites(r, x.transforms, x.page)
                 /\ x.asset # None => x.asset \in Ids(r.assets)
    <2>1. /\ src.occurrences[o].reader \in src.readers
          /\ Cites(src, src.occurrences[o].transforms, src.occurrences[o].page)
        BY KeptIsKnown DEF SourceOk, OccurrencesAgree
    <2>2. src.occurrences[o].page \in r.pages
        BY <1>1, PagesOfKept
    <2>3. Cites(r, src.occurrences[o].transforms, src.occurrences[o].page)
        <3>1. src.occurrences[o].transforms \subseteq KeptTransforms(src, req)
            BY TransformsOfKept
        <3> QED BY <1>1, <2>1, <3>1 DEF Cites, Restrict, Ids
    <2>4. r.occurrences[o].asset # None => r.occurrences[o].asset \in Ids(r.assets)
        <3>1. Ids(r.assets) = KeptAssetIds(src, req)
            BY <1>1 DEF KeptAssets, Ids
        <3> QED BY <1>2, <3>1 DEF Unlinked
    <2> QED BY <1>1, <1>2, <2>1, <2>2, <2>3, <2>4
<1> QED BY <1>2, <1>3 DEF OccurrencesAgree, r

\* A sequence is without repetition when it is as long as the set it lists.
LEMMA EachOnce ==
    ASSUME NEW X, NEW s \in Seq(X)
    PROVE  Len(s) = Cardinality(Elements(s)) <=> IsInjective(s)
<1>1. DOMAIN s = 1..Len(s) /\ Len(s) \in Nat
    OBVIOUS
<1>2. s \in Surjection(1..Len(s), Elements(s))
    BY <1>1 DEF Surjection, Elements, Range
<1>3. IsFiniteSet(1..Len(s)) /\ Cardinality(1..Len(s)) = Len(s)
    BY <1>1, FS_Interval
<1>4. Cardinality(Elements(s)) = Len(s) <=> s \in Injection(1..Len(s), Elements(s))
    BY <1>2, <1>3, FS_Surjection
<1>5. s \in [1..Len(s) -> Elements(s)]
    BY <1>1 DEF Elements, Range
<1> QED BY <1>4, <1>5 DEF Injection

\* The checks of a projection keep the readings that are kept.
LEMMA RetainedOfExport ==
    ASSUME NEW src, NEW req, SourceOk(src), ~Refused(src, req), NEW c \in Ids(src.checks)
    PROVE  LET old == src.checks[c].retained
               new == Export(src, req).checks[c].retained
           IN  /\ Elements(new) = Elements(old) \cap KeptOccurrences(src, req)
               /\ Len(new) = Cardinality(Elements(new)) /\ Len(new) <= Len(old)
               /\ Len(new) \in Nat /\ Len(old) \in Nat
<1> DEFINE old == src.checks[c].retained
           kept == KeptOccurrences(src, req)
           new == RetainedOf(old, kept)
<1>1. Export(src, req).checks[c].retained = new
    <2>1. IsReport(src)
        BY DEF SourceOk
    <2> QED BY <2>1, ChecksOfExport
<1>2. old \in Seq(Ids(src.occurrences))
    BY DEF SourceOk, IsReport
<1>3. Len(old) = Cardinality(Elements(old))
    BY DEF SourceOk, ChecksAgree
<1> HIDE DEF old, kept, new
<1>4. /\ new \in Seq(Ids(src.occurrences)) /\ Len(new) <= Len(old)
      /\ Range(new) = Range(old) \cap kept
      /\ IsInjective(old) => IsInjective(new)
    BY <1>2, RetainedKeeps DEF new
<1>5. IsInjective(old) /\ (Len(new) = Cardinality(Elements(new)) <=> IsInjective(new))
    BY <1>2, <1>3, <1>4, EachOnce
<1>6. Len(new) \in Nat /\ Len(old) \in Nat
    BY <1>2, <1>4
<1> QED BY <1>1, <1>4, <1>5, <1>6 DEF Elements, old, kept

\* The checks of a projection agree with its readings.
LEMMA ExportChecksAgree ==
    ASSUME NEW src, NEW req, SourceOk(src), ~Refused(src, req)
    PROVE  ChecksAgree(Export(src, req))
<1> DEFINE r == Export(src, req)
           kept == KeptOccurrences(src, req)
<1>1. r.plan = src.plan
    BY PartsOfExport
<1>2. Ids(r.checks) = Ids(src.checks)
    BY ChecksOfExport DEF SourceOk
<1>3. /\ Ids(r.occurrences) = kept
      /\ \A o \in kept : /\ r.occurrences[o].reader = src.occurrences[o].reader
                         /\ r.occurrences[o].page = src.occurrences[o].page
    <2>1. IsReport(src) /\ KeptOccurrences(src, req) \subseteq Ids(src.occurrences)
        BY KeptIsKnown DEF SourceOk
    <2> QED BY <2>1, OccurrencesOfExport
<1>4. ASSUME NEW c \in Ids(src.checks)
      PROVE  LET x == r.checks[c]
             IN  /\ Elements(x.retained) \subseteq Ids(r.occurrences)
                 /\ Len(x.retained) = Cardinality(Elements(x.retained))
                 /\ x.produced >= Len(x.retained)
                 /\ x.status # "completed" => x.reason
                 /\ \A o \in Elements(x.retained) :
                        /\ r.occurrences[o].reader \in r.plan[c].readers
                        /\ r.occurrences[o].page = r.plan[c].page
    <2> DEFINE old == src.checks[c].retained
               new == r.checks[c].retained
    <2>1. /\ r.checks[c].status = src.checks[c].status /\ r.checks[c].reason = src.checks[c].reason
          /\ r.checks[c].produced = src.checks[c].produced
        <3>1. IsReport(src)
            BY DEF SourceOk
        <3> QED BY <3>1, ChecksOfExport
    <2>2. /\ Elements(new) = Elements(old) \cap kept
          /\ Len(new) = Cardinality(Elements(new)) /\ Len(new) <= Len(old)
          /\ Len(new) \in Nat /\ Len(old) \in Nat
        BY RetainedOfExport
    <2>3. /\ src.checks[c].produced >= Len(old)
          /\ src.checks[c].status # "completed" => src.checks[c].reason
          /\ \A o \in Elements(old) : /\ src.occurrences[o].reader \in src.plan[c].readers
                                      /\ src.occurrences[o].page = src.plan[c].page
        BY DEF SourceOk, ChecksAgree
    <2>4. src.checks[c].produced \in Nat
        BY DEF SourceOk, IsReport
    <2> HIDE DEF r, kept, old
    <2>5. new = r.checks[c].retained
        OBVIOUS
    <2> HIDE DEF new
    <2>6. r.checks[c].produced >= Len(new)
        <3>1. src.checks[c].produced >= Len(new)
            BY <2>2, <2>3, <2>4
        <3> QED BY <2>1, <3>1
    <2> QED BY <1>1, <1>3, <2>1, <2>2, <2>3, <2>5, <2>6
<1> QED BY <1>2, <1>4 DEF ChecksAgree

\* The findings of a projection keep their evidence.
LEMMA ExportFindingsAgree ==
    ASSUME NEW src, NEW req, SourceOk(src), ~Refused(src, req)
    PROVE  FindingsAgree(Export(src, req))
<1> DEFINE r == Export(src, req)
           kept == KeptOccurrences(src, req)
<1>1. /\ r.findings = Restrict(src.findings, Supported(src, req))
      /\ r.regions = Restrict(src.regions, KeptRegions(src, req))
      /\ r.pages = KeptPages(src, req)
    BY PartsOfExport
<1>2. /\ Ids(r.checks) = Ids(src.checks)
      /\ \A c \in Ids(src.checks) : r.checks[c].status = src.checks[c].status
    BY ChecksOfExport DEF SourceOk
<1>3. \A c \in Ids(src.checks) :
        Elements(r.checks[c].retained) = Elements(src.checks[c].retained) \cap kept
    BY RetainedOfExport
<1>4. /\ Ids(r.occurrences) = kept
      /\ \A o \in kept : /\ r.occurrences[o].reader = src.occurrences[o].reader
                         /\ r.occurrences[o].page = src.occurrences[o].page
                         /\ r.occurrences[o].polygon = src.occurrences[o].polygon
    <2>1. IsReport(src) /\ KeptOccurrences(src, req) \subseteq Ids(src.occurrences)
        BY KeptIsKnown DEF SourceOk
    <2> QED BY <2>1, OccurrencesOfExport
<1> HIDE DEF r
<1>5. ASSUME NEW n \in Supported(src, req)
      PROVE  LET f == src.findings[n]
             IN  /\ f.page \in r.pages
                 /\ f.occurrences \subseteq Ids(r.occurrences) /\ f.checks \subseteq Ids(r.checks)
                 /\ RegionOn(r, f.region, f.page)
                 /\ \A o \in f.occurrences : r.occurrences[o].page = f.page
                 /\ EvidenceHolds(r, f)
    <2> DEFINE f == src.findings[n]
    <2>1. n \in Ids(src.findings)
        BY KeptIsKnown
    <2>2. /\ f.checks \subseteq Ids(src.checks) /\ RegionOn(src, f.region, f.page)
          /\ \A o \in f.occurrences : src.occurrences[o].page = f.page
          /\ EvidenceHolds(src, f)
        BY <2>1 DEF SourceOk, FindingsAgree
    <2>3. f.occurrences \subseteq kept
        BY DEF Supported
    <2>4. f.page \in r.pages
        BY <1>1, PagesOfKept
    <2>5. f.region \in Ids(src.regions) => f.region \in KeptRegions(src, req)
        BY DEF KeptRegions
    <2> HIDE DEF f, kept
    <2>6. RegionOn(r, f.region, f.page)
        BY <1>1, <2>2, <2>5 DEF RegionOn, Restrict, Ids
    <2>7. {r.occurrences[o].reader : o \in f.occurrences} = {src.occurrences[o].reader : o \in f.occurrences}
        BY <1>4, <2>3
    <2>8. ASSUME f.occurrences \subseteq UNION {Elements(src.checks[c].retained) : c \in f.checks}
          PROVE  f.occurrences \subseteq UNION {Elements(r.checks[c].retained) : c \in f.checks}
        <3>1. SUFFICES ASSUME NEW o \in f.occurrences
                       PROVE  \E c \in f.checks : o \in Elements(r.checks[c].retained)
            OBVIOUS
        <3>2. PICK c \in f.checks : o \in Elements(src.checks[c].retained)
            BY <2>8
        <3> QED BY <1>3, <2>2, <2>3, <3>2
    <2>9. EvidenceHolds(r, f)
        <3>1. \A c \in f.checks : r.checks[c].status = src.checks[c].status
            BY <1>2, <2>2
        <3>2. \A o \in f.occurrences : r.occurrences[o].polygon = src.occurrences[o].polygon
            BY <1>4, <2>3
        <3> QED BY <2>2, <2>7, <2>8, <3>1, <3>2 DEF EvidenceHolds
    <2>10. \A o \in f.occurrences : r.occurrences[o].page = f.page
        BY <1>4, <2>2, <2>3
    <2> QED BY <1>2, <1>4, <2>2, <2>3, <2>4, <2>6, <2>9, <2>10 DEF f
<1>6. /\ Ids(r.findings) = Supported(src, req)
      /\ \A n \in Supported(src, req) : r.findings[n] = src.findings[n]
    <2>1. Supported(src, req) \subseteq DOMAIN src.findings
        BY KeptIsKnown DEF Ids
    <2> QED BY <1>1, <2>1 DEF Restrict, Ids
<1> QED BY <1>5, <1>6 DEF FindingsAgree, r

\* The notes of a projection are about what is in it.
LEMMA ExportNotesAgree ==
    ASSUME NEW src, NEW req, SourceOk(src), ~Refused(src, req)
    PROVE  NotesAgree(Export(src, req))
<1> DEFINE r == Export(src, req)
<1>1. /\ r.findings = Restrict(src.findings, Supported(src, req))
      /\ r.notes = Restrict(src.notes, KeptNotes(src, req))
      /\ r.pages = KeptPages(src, req)
    BY PartsOfExport
<1> HIDE DEF r
<1>2. /\ Ids(r.findings) = Supported(src, req) /\ Ids(r.notes) = KeptNotes(src, req)
      /\ \A n \in Supported(src, req) : r.findings[n] = src.findings[n]
      /\ \A n \in KeptNotes(src, req) : r.notes[n] = src.notes[n]
    <2>1. Supported(src, req) \subseteq DOMAIN src.findings /\ KeptNotes(src, req) \subseteq DOMAIN src.notes
        BY KeptIsKnown DEF Ids
    <2> QED BY <1>1, <2>1 DEF Restrict, Ids
<1>3. ASSUME NEW n \in KeptNotes(src, req)
      PROVE  /\ src.notes[n].page \in r.pages
             /\ src.notes[n].finding # None =>
                    /\ src.notes[n].finding \in Supported(src, req)
                    /\ src.findings[src.notes[n].finding].page = src.notes[n].page
    <2>1. n \in Ids(src.notes) /\ src.notes[n].finding \in Supported(src, req) \cup {None}
        BY DEF KeptNotes
    <2>2. src.notes[n].page \in r.pages
        BY <1>1, PagesOfKept
    <2> QED BY <2>1, <2>2 DEF SourceOk, NotesAgree
<1> QED BY <1>2, <1>3 DEF NotesAgree, r

\* The status of a projection is that of its checks.
LEMMA ExportStatusAgrees ==
    ASSUME NEW src, NEW req, SourceOk(src)
    PROVE  StatusAgrees(Export(src, req))
<1> DEFINE r == Export(src, req)
<1>1. r.status = src.status
    BY PartsOfExport
<1>2. /\ Ids(r.checks) = Ids(src.checks)
      /\ \A c \in Ids(src.checks) : r.checks[c].status = src.checks[c].status
    BY ChecksOfExport DEF SourceOk
<1> HIDE DEF r
<1>3. Incomplete(r) = Incomplete(src)
    BY <1>2 DEF Incomplete
<1>4. StatusAgrees(src)
    BY DEF SourceOk
<1> QED BY <1>1, <1>2, <1>3, <1>4 DEF StatusAgrees, r

\* The assets of a projection are usable and of its pages.
LEMMA ExportAssetsAgree ==
    ASSUME NEW src, NEW req, SourceOk(src), ~Refused(src, req),
           SizeOf(Export(src, req)) <= MaxAssetTotal
    PROVE  AssetsAgree(Export(src, req))
<1> DEFINE r == Export(src, req)
<1>1. /\ r.pages = KeptPages(src, req) /\ r.assets = KeptAssets(src, req)
      /\ r.transforms = Restrict(src.transforms, KeptTransforms(src, req))
    BY PartsOfExport
<1>2. Ids(KeptAssets(src, req)) = KeptAssetIds(src, req)
    BY DEF KeptAssets, Ids
<1> HIDE DEF r
<1>3. ASSUME NEW a \in KeptAssetIds(src, req)
      PROVE  LET x == KeptAssets(src, req)[a]
             IN  /\ x.usable
                 /\ x.purpose \in {"crop", "page_render"} => x.page \in r.pages
                 /\ Cites(r, x.transforms, x.page)
    <2> DEFINE x == KeptAssets(src, req)[a]
    <2>1. /\ x.usable /\ Cites(src, x.transforms, x.page)
          /\ x.purpose \in {"crop", "page_render"} => x.page \in src.pages
        BY AssetsKept
    <2>2. x.page \in src.pages => x.page \in r.pages
        BY <1>1, PagesOfKept
    <2>3. x.transforms \subseteq KeptTransforms(src, req)
        BY TransformsOfKept
    <2> HIDE DEF x
    <2>4. Cites(r, x.transforms, x.page)
        <3>1. KeptTransforms(src, req) \subseteq DOMAIN src.transforms
            BY DEF KeptTransforms, Ids
        <3> QED BY <1>1, <2>1, <2>3, <3>1 DEF Cites, Restrict, Ids
    <2> QED BY <2>1, <2>2, <2>4 DEF x
<1>4. SizeOf(r) <= MaxAssetTotal
    BY DEF r
<1> QED BY <1>1, <1>2, <1>3, <1>4 DEF AssetsAgree, r

\* The disclosure of a projection is of what is in it.
LEMMA ExportDisclosureAgrees ==
    ASSUME NEW src, NEW req, SourceOk(src), ~Refused(src, req), ~Clashes(src, req)
    PROVE  DisclosureAgrees(Export(src, req))
<1> DEFINE r == Export(src, req)
           p == Projected(src, req)
<1>1. /\ r.occurrences = p.occurrences /\ r.notes = p.notes /\ r.assets = p.assets
      /\ r.filename = p.filename /\ r.included = Included(p)
      /\ r.assets = KeptAssets(src, req)
      /\ r.source = (IF SourceAsset(src, req) = None THEN None ELSE SourceId(src, req))
      /\ r.mode = Mode(src, req) /\ r.replay = Replay(src, req)
    BY DEF Export, Sealed, Projected
<1> HIDE DEF r, p
<1>2. Purposes(r) = Purposes(p)
    BY <1>1 DEF Purposes
<1>3. /\ {"document_hash", "settings", "coverage"} \subseteq r.included
      /\ Ids(r.occurrences) # {} => "selected_text" \in r.included
      /\ Ids(r.notes) # {} => "annotations" \in r.included
      /\ "page_render" \in Purposes(r) => "page_renders" \in r.included
      /\ "crop" \in Purposes(r) => "crops" \in r.included
      /\ "source_pdf" \in Purposes(r) => "source_pdf" \in r.included
      /\ r.filename <=> "filename" \in r.included
    BY <1>1, <1>2 DEF Included
<1>4. ASSUME r.source # None
      PROVE  /\ SourceAsset(src, req) # None
             /\ r.source \in Ids(r.assets) /\ r.assets[r.source].bound
             /\ r.assets[r.source].purpose = "source_pdf"
    <2>1. SourceAsset(src, req) # None /\ r.source = SourceId(src, req)
        BY <1>1, <1>4
    <2>2. SourceId(src, req) \notin KeptImages(src, req) /\ SourceAsset(src, req).purpose = "source_pdf"
        BY <2>1, OriginalKept DEF Clashes
    <2>3. SourceId(src, req) \in KeptAssetIds(src, req)
        BY <2>1 DEF KeptAssetIds
    <2>4. r.source \in Ids(r.assets) /\ r.assets[r.source] = SourceAsset(src, req)
        BY <1>1, <2>1, <2>2, <2>3 DEF KeptAssets, Ids
    <2>5. SourceAsset(src, req).bound
        BY <2>1 DEF Refused
    <2> QED BY <2>1, <2>2, <2>4, <2>5
<1>5. r.source # None => "source_pdf" \in r.included
    <2>1. r.source # None => "source_pdf" \in Purposes(r)
        BY <1>4 DEF Purposes
    <2> QED BY <1>3, <2>1
<1>6. SourceAsset(src, req) # None => r.source # None
    <2>1. SourceAsset(src, req) # None => SourceId(src, req) # None
        BY OriginalKept
    <2> QED BY <1>1, <2>1
<1>7. r.mode = "replayable" =>
        r.source # None /\ r.replay = "source_included_environment_required"
    BY <1>1, <1>6 DEF Mode, Replay
<1>8. r.replay = "source_included_environment_required" => r.source # None
    BY <1>1, <1>6 DEF Replay
<1> QED BY <1>3, <1>4, <1>5, <1>7, <1>8 DEF DisclosureAgrees, r

\* A projection that is not refused satisfies the contract, or its assets are
\* too large.
LEMMA ExportIsValid ==
    ASSUME NEW src, NEW req, SourceOk(src), ~Refused(src, req), ~Clashes(src, req)
    PROVE  Valid(Export(src, req)) \/ SizeOf(Projected(src, req)) > MaxAssetTotal
<1>1. SizeOf(Export(src, req)) = SizeOf(Projected(src, req))
    <2>1. Export(src, req).assets = Projected(src, req).assets
        BY DEF Export, Sealed, Projected
    <2> QED BY <2>1 DEF SizeOf
<1>2. SizeOf(Projected(src, req)) \in Nat
    <2>1. IsFiniteSet(KeptAssetIds(src, req))
        <3>1. IsFiniteSet(Ids(src.assets))
            BY DEF SourceOk, IsReport
        <3>2. KeptAssetIds(src, req) \subseteq Ids(src.assets) \cup {SourceId(src, req)}
            BY DEF KeptAssetIds, KeptImages, Usable
        <3> QED BY <3>1, <3>2, FS_AddElement, FS_Subset
    <2>2. \A a \in Ids(src.assets) : src.assets[a].size \in Nat
        BY DEF SourceOk, IsReport, Assets
    <2>3. SourceAsset(src, req) # None => SourceAsset(src, req).size \in Nat
        <3>1. CASE req.source = Original
            BY <3>1 DEF SourceAsset, SourceOk, IsReport
        <3>2. CASE req.source # Original
            <4> DEFINE a == CHOOSE a \in Carried(src) : TRUE
            <4>1. SourceAsset(src, req) # None => Carried(src) # {} /\ SourceAsset(src, req) = src.assets[a]
                BY <3>2 DEF SourceAsset
            <4>2. Carried(src) # {} => a \in Ids(src.assets)
                BY DEF Carried, Usable
            <4> HIDE DEF a
            <4> QED BY <2>2, <4>1, <4>2
        <3> QED BY <3>1, <3>2
    <2>4. \A a \in KeptAssetIds(src, req) : KeptAssets(src, req)[a].size \in Nat
        BY <2>2, <2>3, AssetsKept, KeptIsKnown
    <2>5. Projected(src, req).assets = KeptAssets(src, req)
        BY DEF Projected
    <2>6. Ids(KeptAssets(src, req)) = KeptAssetIds(src, req)
        BY DEF KeptAssets, Ids
    <2> QED BY <2>1, <2>4, <2>5, <2>6, SizeIsNumber
<1> QED BY <1>1, <1>2, SizesAssumption, ExportPagesAgree, ExportPlanAgrees, ExportOccurrencesAgree,
           ExportChecksAgree, ExportFindingsAgree, ExportNotesAgree, ExportStatusAgrees,
           ExportAssetsAgree, ExportDisclosureAgrees DEF Valid, SizesAssumption

---------------------------------------------------------------------------
(* The reports the panel projects *)

\* The findings of a report are about its readings, checks, pages and regions.
LEMMA FindingsOfSame ==
    ASSUME NEW r, NEW s, FindingsAgree(r), s.occurrences = r.occurrences, s.checks = r.checks,
           s.findings = r.findings, s.pages = r.pages, s.regions = r.regions
    PROVE  FindingsAgree(s)
<1>1. ASSUME NEW n \in Ids(r.findings)
      PROVE  EvidenceHolds(s, r.findings[n]) /\ RegionOn(s, r.findings[n].region, r.findings[n].page)
    <2> DEFINE f == r.findings[n]
    <2>1. EvidenceHolds(r, f) /\ RegionOn(r, f.region, f.page)
        BY DEF FindingsAgree
    <2> HIDE DEF f
    <2>2. {s.occurrences[o].reader : o \in f.occurrences} = {r.occurrences[o].reader : o \in f.occurrences}
        OBVIOUS
    <2>3. UNION {Elements(s.checks[c].retained) : c \in f.checks}
            = UNION {Elements(r.checks[c].retained) : c \in f.checks}
        OBVIOUS
    <2>4. EvidenceHolds(s, f)
        BY <2>1, <2>2, <2>3 DEF EvidenceHolds
    <2>5. RegionOn(s, f.region, f.page)
        BY <2>1 DEF RegionOn
    <2> QED BY <2>4, <2>5 DEF f
<1> QED BY <1>1 DEF FindingsAgree

\* A report is valid without its notes and the bytes of its images.
LEMMA ReportIsSourceOk ==
    ASSUME NEW r \in Reports
    PROVE  SourceOk(r) /\ NotesAgree(r)
<1> DEFINE w == WithBytes(r)
<1>1. IsReport(r) /\ Valid(w) /\ WordsFit(r)
    BY ReportsAssumption, WordsAssumption DEF ReportsAssumption, WordsAssumption
<1>2. /\ w.pages = r.pages /\ w.selected = r.selected /\ w.readers = r.readers
      /\ w.transforms = r.transforms /\ w.regions = r.regions /\ w.plan = r.plan
      /\ w.checks = r.checks /\ w.occurrences = r.occurrences /\ w.findings = r.findings
      /\ w.notes = r.notes /\ w.status = r.status
      /\ w.assets = [a \in DOMAIN r.assets |-> [r.assets[a] EXCEPT !.usable = TRUE]]
    BY <1>1 DEF IsReport, WithBytes
<1>3. /\ DOMAIN w.assets = DOMAIN r.assets
      /\ \A a \in DOMAIN r.assets : /\ w.assets[a].purpose = r.assets[a].purpose
                                    /\ w.assets[a].page = r.assets[a].page
                                    /\ w.assets[a].transforms = r.assets[a].transforms
    <2>1. \A a \in DOMAIN r.assets :
            r.assets[a] \in [purpose : {"crop", "page_render", "source_pdf"}, usable : BOOLEAN, bound : BOOLEAN,
                             size : Nat, page : r.pages \cup {None}, transforms : SUBSET Ids(r.transforms)]
        BY <1>1 DEF IsReport, Assets, Ids
    <2> HIDE DEF w
    <2>2. DOMAIN w.assets = DOMAIN r.assets
        BY <1>2
    <2>3. ASSUME NEW a \in DOMAIN r.assets
          PROVE  /\ w.assets[a].purpose = r.assets[a].purpose
                 /\ w.assets[a].page = r.assets[a].page
                 /\ w.assets[a].transforms = r.assets[a].transforms
        <3>1. w.assets[a] = [r.assets[a] EXCEPT !.usable = TRUE]
            BY <1>2
        <3> QED BY <2>1, <3>1
    <2> QED BY <2>2, <2>3
<1> HIDE DEF w
<1>4. \A transforms, pg : Cites(w, transforms, pg) <=> Cites(r, transforms, pg)
    BY <1>2 DEF Cites, Ids
<1>5. \A region, pg : RegionOn(w, region, pg) <=> RegionOn(r, region, pg)
    BY <1>2 DEF RegionOn, Ids
<1>6. PagesAgree(r) /\ PlanAgrees(r)
    BY <1>1, <1>2, <1>4, <1>5 DEF Valid, PagesAgree, PlanAgrees, Ids
<1>7. OccurrencesAgree(r)
    BY <1>1, <1>2, <1>3, <1>4 DEF Valid, OccurrencesAgree, Ids
<1>8. ChecksAgree(r) /\ NotesAgree(r)
    BY <1>1, <1>2 DEF Valid, ChecksAgree, NotesAgree, Ids
<1>9. FindingsAgree(r)
    BY <1>1, <1>2, FindingsOfSame DEF Valid
<1>10. StatusAgrees(r)
    BY <1>1, <1>2 DEF Valid, StatusAgrees, Incomplete, Ids
<1>11. ASSUME NEW a \in Ids(r.assets)
       PROVE  /\ r.assets[a].purpose \in {"crop", "page_render"} => r.assets[a].page \in r.pages
              /\ Cites(r, r.assets[a].transforms, r.assets[a].page)
    BY <1>1, <1>2, <1>3, <1>4 DEF Valid, AssetsAgree, Ids
<1> QED BY <1>1, <1>6, <1>7, <1>8, <1>9, <1>10, <1>11 DEF SourceOk

\* The notes of the user that agree with the open report.
NotesFit(opened, notes) ==
    /\ NotesAgree([opened EXCEPT !.notes = notes])
    /\ DOMAIN notes \cap DOMAIN opened.notes = {}

\* The source of the panel is such a report.
LEMMA SourceIsOk ==
    ASSUME NEW opened \in Reports, NEW notes, NotesFit(opened, notes)
    PROVE  /\ SourceOk(Source(opened, notes))
           /\ \A x \in {"pages", "selected", "readers", "transforms", "regions", "plan", "checks",
                   "occurrences", "findings", "assets", "source", "length", "filename",
                   "status", "mode", "replay", "included"} : Source(opened, notes)[x] = opened[x]
           /\ Source(opened, notes).notes = Joined(opened.notes, notes)
<1> DEFINE s == Source(opened, notes)
           j == Joined(opened.notes, notes)
           k == [opened EXCEPT !.notes = notes]
<1>1. SourceOk(opened) /\ NotesAgree(opened)
    BY ReportIsSourceOk
<1>2. DOMAIN opened = {"pages", "selected", "readers", "transforms", "regions", "plan", "checks",
                   "occurrences", "findings", "notes", "assets", "source", "length", "filename",
                   "status", "mode", "replay", "included"}
    BY <1>1 DEF SourceOk, IsReport
<1>3. s = [opened EXCEPT !.notes = j]
    BY DEF Source
<1> HIDE DEF s, j
<1>4. /\ s.pages = opened.pages /\ s.selected = opened.selected /\ s.readers = opened.readers
      /\ s.transforms = opened.transforms /\ s.regions = opened.regions /\ s.plan = opened.plan
      /\ s.checks = opened.checks /\ s.occurrences = opened.occurrences /\ s.findings = opened.findings
      /\ s.status = opened.status /\ s.assets = opened.assets
      /\ s.length = opened.length /\ s.filename = opened.filename
      /\ s.notes = j /\ DOMAIN s = DOMAIN opened
    BY <1>2, <1>3
<1>5. /\ k.pages = opened.pages /\ k.findings = opened.findings /\ k.notes = notes
    BY <1>2
<1> HIDE DEF k
<1>6. NotesAgree(k)
    BY DEF NotesFit, k
<1>7. /\ DOMAIN j = DOMAIN opened.notes \cup DOMAIN notes
      /\ \A n \in DOMAIN opened.notes : j[n] = opened.notes[n]
      /\ \A n \in DOMAIN notes : n \notin DOMAIN opened.notes => j[n] = notes[n]
    BY DEF Joined, j
<1>8. NotesAgree(s)
    BY <1>1, <1>4, <1>5, <1>6, <1>7 DEF NotesAgree, Ids
<1>9. IsReport(s)
    BY <1>1, <1>4 DEF SourceOk, IsReport, Ids
<1>10. WordsFit(s)
    BY <1>1, <1>4 DEF SourceOk, WordsFit, Ids
<1>11. \A transforms, pg : Cites(s, transforms, pg) <=> Cites(opened, transforms, pg)
    BY <1>4 DEF Cites, Ids
<1>12. \A region, pg : RegionOn(s, region, pg) <=> RegionOn(opened, region, pg)
    BY <1>4 DEF RegionOn, Ids
<1>13. PagesAgree(s) /\ PlanAgrees(s) /\ OccurrencesAgree(s)
    BY <1>1, <1>4, <1>11, <1>12 DEF SourceOk, PagesAgree, PlanAgrees, OccurrencesAgree, Ids
<1>14. ChecksAgree(s)
    BY <1>1, <1>4 DEF SourceOk, ChecksAgree, Ids
<1>15. FindingsAgree(s)
    BY <1>1, <1>4, FindingsOfSame DEF SourceOk
<1>16. StatusAgrees(s)
    BY <1>1, <1>4 DEF SourceOk, StatusAgrees, Incomplete, Ids
<1>17. ASSUME NEW a \in Ids(s.assets)
       PROVE  /\ s.assets[a].purpose \in {"crop", "page_render"} => s.assets[a].page \in s.pages
              /\ Cites(s, s.assets[a].transforms, s.assets[a].page)
    BY <1>1, <1>4, <1>11 DEF SourceOk
<1>18. SourceOk(s)
    BY <1>8, <1>9, <1>10, <1>13, <1>14, <1>15, <1>16, <1>17 DEF SourceOk
<1>19. \A x \in DOMAIN opened \ {"notes"} : s[x] = opened[x]
    BY <1>3
<1> QED BY <1>2, <1>4, <1>18, <1>19 DEF s, j

---------------------------------------------------------------------------
(* What the panel shows *)

\* What is missing from a projection is told with it.
LEMMA DropsTold ==
    ASSUME NEW src, NEW req, SourceOk(src), ~Refused(src, req)
    PROVE  LET r == Export(src, req)
               told == Omissions(src, req)
               gone(purpose) ==
                    {a \in OfPurpose(src, purpose) \ Ids(r.assets) : src.assets[a].usable}
           IN  /\ Ids(src.findings) # Ids(r.findings) =>
                        "findings deselected" \in told \/ "findings unsupported" \in told
               /\ Ids(src.occurrences) # Ids(r.occurrences) => "occurrences" \in told
               /\ Ids(src.notes) # {} /\ Ids(r.notes) = {} => "notes" \in told
               /\ src.filename # r.filename => "filename" \in told
               /\ r.source = None => "source" \in told /\ SourceAsset(src, req) = None
               /\ gone("crop") # {} => "crops" \in told
               /\ gone("page_render") # {} => "page renders" \in told
               /\ (\E a \in Ids(src.assets) : ~src.assets[a].usable) => "missing bytes" \in told
               /\ (\E o \in Ids(r.occurrences) : src.occurrences[o].asset # r.occurrences[o].asset) =>
                        "unlinked" \in told
<1> DEFINE r == Export(src, req)
           told == Omissions(src, req)
           gone(purpose) == {a \in OfPurpose(src, purpose) \ Ids(r.assets) : src.assets[a].usable}
<1>1. /\ r.findings = Restrict(src.findings, Supported(src, req))
      /\ r.notes = Restrict(src.notes, KeptNotes(src, req))
      /\ r.assets = KeptAssets(src, req)
      /\ r.filename = (src.filename /\ req.filename)
      /\ r.source = (IF SourceAsset(src, req) = None THEN None ELSE SourceId(src, req))
    BY PartsOfExport
<1>2. /\ Ids(r.occurrences) = KeptOccurrences(src, req)
      /\ \A o \in KeptOccurrences(src, req) :
            r.occurrences[o].asset = (IF o \in Unlinked(src, req) THEN None ELSE src.occurrences[o].asset)
    <2>1. IsReport(src) /\ KeptOccurrences(src, req) \subseteq Ids(src.occurrences)
        BY KeptIsKnown DEF SourceOk
    <2> QED BY <2>1, OccurrencesOfExport
<1> HIDE DEF r, told
<1>3. Ids(r.findings) = Supported(src, req) /\ Ids(r.notes) = KeptNotes(src, req)
    <2>1. Supported(src, req) \subseteq DOMAIN src.findings /\ KeptNotes(src, req) \subseteq DOMAIN src.notes
        BY KeptIsKnown DEF Ids
    <2> QED BY <1>1, <2>1 DEF Restrict, Ids
<1>4. Ids(src.findings) # Ids(r.findings) =>
            "findings deselected" \in told \/ "findings unsupported" \in told
    <2>1. /\ Chosen(src, req) # Supported(src, req) => "findings unsupported" \in told
          /\ Ids(src.findings) # Chosen(src, req) => "findings deselected" \in told
        BY DEF Omissions, told
    <2> QED BY <1>3, <2>1
<1>5. Ids(src.occurrences) # Ids(r.occurrences) => "occurrences" \in told
    BY <1>2 DEF Omissions, told
<1>6. Ids(src.notes) # {} /\ Ids(r.notes) = {} => "notes" \in told
    BY <1>3 DEF Omissions, told
<1>7. src.filename # r.filename => "filename" \in told
    <2>1. ~(req.filename /\ src.filename) => "filename" \in told
        BY DEF Omissions, told
    <2>2. src.filename \in BOOLEAN
        BY DEF SourceOk, IsReport
    <2> QED BY <1>1, <2>1, <2>2
<1>8. r.source = None => "source" \in told /\ SourceAsset(src, req) = None
    <2>1. SourceAsset(src, req) = None => "source" \in told
        BY DEF Omissions, told
    <2>2. SourceAsset(src, req) # None => SourceId(src, req) # None
        BY OriginalKept
    <2> QED BY <1>1, <2>1, <2>2
<1>9. ASSUME NEW purpose, gone(purpose) # {} PROVE Excluded(src, req, purpose)
    <2>1. PICK a \in OfPurpose(src, purpose) \ Ids(r.assets) : src.assets[a].usable
        BY <1>9
    <2>2. KeptImages(src, req) \subseteq Ids(r.assets)
        BY <1>1 DEF KeptAssets, KeptAssetIds, Ids
    <2>3. a \in OfPurpose(src, purpose) \cap Usable(src) /\ a \notin KeptImages(src, req)
        BY <2>1, <2>2 DEF OfPurpose, Usable
    <2> QED BY <2>3 DEF Excluded
<1>10. /\ Excluded(src, req, "crop") => "crops" \in told
       /\ Excluded(src, req, "page_render") => "page renders" \in told
    BY DEF Omissions, told
<1>11. (\E a \in Ids(src.assets) : ~src.assets[a].usable) => "missing bytes" \in told
    <2>1. Usable(src) # Ids(src.assets) => "missing bytes" \in told
        BY DEF Omissions, told
    <2> QED BY <2>1 DEF Usable
<1>12. (\E o \in Ids(r.occurrences) : src.occurrences[o].asset # r.occurrences[o].asset) =>
                        "unlinked" \in told
    <2>1. Unlinked(src, req) # {} => "unlinked" \in told
        BY DEF Omissions, told
    <2> QED BY <1>2, <2>1
<1>13. (gone("crop") # {} => "crops" \in told) /\ (gone("page_render") # {} => "page renders" \in told)
    BY <1>9, <1>10
<1> QED BY <1>4, <1>5, <1>6, <1>7, <1>8, <1>11, <1>12, <1>13 DEF r, told

---------------------------------------------------------------------------
(* Exporting an export *)

\* A request of the panel for a report, and the same request with the original.
Asks(src, req) ==
    req \in [findings : {All} \cup SUBSET Ids(src.findings), occurrences : {Cited}, crops : {All},
             renders : {All, None}, annotations : BOOLEAN, filename : BOOLEAN, source : {None, Carry}]

\* A projection that can be projected again: q is what req became.
Again(src, req, q) ==
    /\ SourceOk(src) /\ ~Refused(src, q) /\ ~Clashes(src, q) /\ Asks(src, req)
    /\ q.findings = req.findings /\ q.occurrences = Cited /\ q.crops = All
    /\ q.renders = req.renders /\ q.annotations = req.annotations /\ q.filename = req.filename
    /\ q.source = req.source \/ (req.source = Carry /\ q.source = Original)

\* The same findings and readings are chosen.
LEMMA ChosenAgain ==
    ASSUME NEW src, NEW req, NEW q, Again(src, req, q)
    PROVE  LET r == Export(src, q)
           IN  /\ Supported(src, q) = Chosen(src, q)
               /\ Chosen(r, req) = Chosen(src, q) /\ Ids(r.findings) = Chosen(src, q)
               /\ KeptOccurrences(r, req) = KeptOccurrences(src, q)
               /\ Supported(r, req) = Chosen(src, q)
               /\ \A f \in Chosen(src, q) : r.findings[f] = src.findings[f]
               /\ Resolves(req.findings, Ids(r.findings))
<1> DEFINE r == Export(src, q)
           chosen == Chosen(src, q)
           cited == UNION {src.findings[f].occurrences : f \in chosen}
<1>1. KeptOccurrences(src, q) = cited
    BY DEF Again, KeptOccurrences
<1>2. Supported(src, q) = chosen
    BY <1>1 DEF Supported
<1>3. r.findings = Restrict(src.findings, Supported(src, q))
    BY PartsOfExport
<1>4. chosen \subseteq DOMAIN src.findings
    BY KeptIsKnown DEF Again, Ids
<1>5. chosen = ResolveIds(req.findings, Ids(src.findings))
    BY DEF Again, Chosen
<1> HIDE DEF r, chosen, cited
<1>6. Ids(r.findings) = chosen /\ \A f \in chosen : r.findings[f] = src.findings[f]
    BY <1>2, <1>3, <1>4 DEF Restrict, Ids
<1>7. /\ req.findings = All \/ req.findings \in SUBSET Ids(src.findings)
      /\ All # None /\ \A ids \in SUBSET Ids(src.findings) : ids # All /\ ids # None
    BY WordsAssumption DEF Again, Asks, SourceOk, WordsFit, WordsAssumption
<1>8. ResolveIds(req.findings, chosen) = chosen /\ Resolves(req.findings, chosen)
    BY <1>5, <1>7 DEF ResolveIds, Resolves
<1>9. Chosen(r, req) = chosen
    BY <1>6, <1>8 DEF Chosen
<1>10. KeptOccurrences(r, req) = UNION {r.findings[f].occurrences : f \in chosen}
    BY <1>9 DEF Again, Asks, KeptOccurrences
<1>11. UNION {r.findings[f].occurrences : f \in chosen} = cited
    BY <1>6 DEF cited
<1>12. Supported(r, req) = chosen
    <2>1. \A f \in chosen : r.findings[f].occurrences \subseteq cited
        BY <1>6 DEF cited
    <2> QED BY <1>9, <1>10, <1>11, <2>1 DEF Supported
<1> QED BY <1>1, <1>2, <1>6, <1>8, <1>9, <1>10, <1>11, <1>12 DEF r, chosen

\* The original of an export is the one it has.
LEMMA OriginalAgain ==
    ASSUME NEW src, NEW req, NEW q, Again(src, req, q)
    PROVE  LET r == Export(src, q)
           IN  /\ SourceAsset(r, req) = SourceAsset(src, q)
               /\ SourceAsset(r, req) # None => SourceId(r, req) = SourceId(src, q)
<1> DEFINE r == Export(src, q)
           x == SourceAsset(src, q)
           id == SourceId(src, q)
<1>1. r.assets = KeptAssets(src, q)
    BY PartsOfExport
<1>2. req.source # Original /\ (req.source = Carry \/ req.source = None) /\ None # Carry /\ None # Original
    BY WordsAssumption DEF Again, Asks, WordsAssumption
<1>3. Ids(r.assets) = KeptAssetIds(src, q) /\ \A a \in KeptAssetIds(src, q) : r.assets[a] = KeptAssets(src, q)[a]
    BY <1>1 DEF KeptAssets, Ids
<1>4. SourceOk(src)
    BY DEF Again
<1> HIDE DEF r
<1>5. ASSUME NEW a \in Carried(r) PROVE x # None /\ a = id /\ r.assets[a] = x
    <2>1. a \in Ids(r.assets) /\ r.assets[a].purpose = "source_pdf"
        BY DEF Carried, OfPurpose
    <2>2. a \in KeptAssetIds(src, q) /\ r.assets[a] = KeptAssets(src, q)[a]
        BY <1>3, <2>1
    <2>3. a \notin KeptImages(src, q)
        <3>1. a \in KeptImages(src, q) =>
                /\ KeptAssets(src, q)[a] = src.assets[a]
                /\ src.assets[a].purpose \in {"crop", "page_render"}
            BY <1>4, <2>2, AssetsKept, ImagesKept
        <3> QED BY <2>1, <2>2, <3>1
    <2> QED BY <1>4, <2>2, <2>3, AssetsKept
<1>6. ASSUME x # None PROVE Carried(r) = {id} /\ r.assets[id] = x
    <2>1. id \notin KeptImages(src, q) /\ x.usable /\ x.purpose = "source_pdf"
        BY <1>4, <1>6, OriginalKept DEF Again, Clashes
    <2>2. id \in KeptAssetIds(src, q)
        BY <1>6 DEF KeptAssetIds
    <2>3. r.assets[id] = x
        BY <1>3, <1>4, <2>1, <2>2, AssetsKept
    <2>4. id \in Carried(r)
        BY <1>3, <2>1, <2>2, <2>3 DEF Carried, OfPurpose, Usable
    <2> HIDE DEF id, x
    <2> QED BY <1>5, <2>3, <2>4
<1>7. CASE req.source = Carry
    <2>1. CASE x # None
        <3>1. Carried(r) = {id} /\ r.assets[id] = x
            BY <1>6, <2>1
        <3> HIDE DEF id, x
        <3>2. (CHOOSE a \in Carried(r) : TRUE) = id
            BY <3>1
        <3> QED BY <1>2, <1>7, <3>1, <3>2 DEF SourceAsset, SourceId, r, x, id
    <2>2. CASE x = None
        <3>1. Carried(r) = {}
            BY <1>5, <2>2
        <3>2. SourceAsset(r, req) = None
            BY <1>2, <3>1 DEF SourceAsset
        <3> QED BY <2>2, <3>2 DEF r
    <2> QED BY <2>1, <2>2
<1>8. CASE req.source = None
    <2>1. q.source = None
        BY <1>2, <1>8 DEF Again
    <2>2. x = None /\ SourceAsset(r, req) = None
        BY <1>2, <1>8, <2>1 DEF SourceAsset
    <2> QED BY <2>2 DEF r
<1> QED BY <1>2, <1>7, <1>8

\* The same notes, regions and pages are shown.
LEMMA EvidenceAgain ==
    ASSUME NEW src, NEW req, NEW q, Again(src, req, q)
    PROVE  LET r == Export(src, q)
           IN  /\ KeptNotes(r, req) = KeptNotes(src, q) /\ KeptNotes(src, q) = Ids(r.notes)
               /\ KeptRegions(r, req) = KeptRegions(src, q) /\ KeptRegions(src, q) = Ids(r.regions)
               /\ EvidencePages(r, req) = EvidencePages(src, q)
               /\ \A g \in KeptRegions(src, q) : r.regions[g] = src.regions[g]
<1> DEFINE r == Export(src, q)
           chosen == Chosen(src, q)
           kept == KeptOccurrences(src, q)
<1>1. /\ r.notes = Restrict(src.notes, KeptNotes(src, q))
      /\ r.regions = Restrict(src.regions, KeptRegions(src, q))
      /\ r.plan = src.plan /\ r.selected = src.selected
    BY PartsOfExport
<1>2. /\ Supported(src, q) = chosen /\ Supported(r, req) = chosen
      /\ KeptOccurrences(r, req) = kept
      /\ \A f \in chosen : r.findings[f] = src.findings[f]
    BY ChosenAgain
<1>3. \A o \in kept : r.occurrences[o].page = src.occurrences[o].page
    <2>1. IsReport(src) /\ KeptOccurrences(src, q) \subseteq Ids(src.occurrences)
        BY KeptIsKnown DEF Again, SourceOk
    <2> QED BY <2>1, OccurrencesOfExport
<1> HIDE DEF r, chosen, kept
<1>4. /\ Ids(r.notes) = KeptNotes(src, q) /\ \A n \in KeptNotes(src, q) : r.notes[n] = src.notes[n]
      /\ Ids(r.regions) = KeptRegions(src, q) /\ \A g \in KeptRegions(src, q) : r.regions[g] = src.regions[g]
    <2>1. KeptNotes(src, q) \subseteq DOMAIN src.notes /\ KeptRegions(src, q) \subseteq DOMAIN src.regions
        BY DEF KeptNotes, KeptRegions, Ids
    <2> QED BY <1>1, <2>1 DEF Restrict, Ids
<1>5. q.annotations = req.annotations
    BY DEF Again
<1>6. KeptNotes(r, req) = KeptNotes(src, q)
    <2>1. CASE req.annotations
        <3>1. \A n \in KeptNotes(src, q) : src.notes[n].finding \in chosen \cup {None}
            BY <1>2 DEF KeptNotes
        <3>2. KeptNotes(r, req) = {n \in Ids(r.notes) : r.notes[n].finding \in chosen \cup {None}}
            BY <1>2, <2>1 DEF KeptNotes
        <3> QED BY <1>4, <3>1, <3>2
    <2>2. CASE ~req.annotations
        BY <1>5, <2>2 DEF KeptNotes
    <2> QED BY <2>1, <2>2
<1>7. {r.findings[f].region : f \in chosen} = {src.findings[f].region : f \in chosen}
    BY <1>2
<1>8. KeptRegions(r, req) = KeptRegions(src, q)
    <2>1. KeptRegions(r, req) = Ids(r.regions) \cap ({src.plan[c].region : c \in Ids(src.plan)}
                                    \cup {src.findings[f].region : f \in chosen})
        BY <1>1, <1>2, <1>7 DEF KeptRegions
    <2>2. KeptRegions(src, q) = Ids(src.regions) \cap ({src.plan[c].region : c \in Ids(src.plan)}
                                    \cup {src.findings[f].region : f \in chosen})
        BY <1>2 DEF KeptRegions
    <2> QED BY <1>4, <2>1, <2>2
<1>9. /\ {r.occurrences[o].page : o \in kept} = {src.occurrences[o].page : o \in kept}
      /\ {r.findings[f].page : f \in chosen} = {src.findings[f].page : f \in chosen}
      /\ {r.notes[n].page : n \in KeptNotes(src, q)} = {src.notes[n].page : n \in KeptNotes(src, q)}
      /\ {r.regions[g].page : g \in KeptRegions(src, q)} = {src.regions[g].page : g \in KeptRegions(src, q)}
    BY <1>2, <1>3, <1>4
<1>10. EvidencePages(r, req) = EvidencePages(src, q)
    <2>1. EvidencePages(r, req) = src.selected \cup {r.occurrences[o].page : o \in kept}
            \cup {r.findings[f].page : f \in chosen}
            \cup {r.notes[n].page : n \in KeptNotes(src, q)}
            \cup {r.regions[g].page : g \in KeptRegions(src, q)}
        BY <1>1, <1>2, <1>6, <1>8 DEF EvidencePages
    <2>2. EvidencePages(src, q) = src.selected \cup {src.occurrences[o].page : o \in kept}
            \cup {src.findings[f].page : f \in chosen}
            \cup {src.notes[n].page : n \in KeptNotes(src, q)}
            \cup {src.regions[g].page : g \in KeptRegions(src, q)}
        BY <1>2 DEF EvidencePages, kept
    <2> QED BY <1>9, <2>1, <2>2
<1> QED BY <1>4, <1>6, <1>8, <1>10 DEF r

\* The same images are kept, and every link a reading has.
LEMMA ImagesAgain ==
    ASSUME NEW src, NEW req, NEW q, Again(src, req, q)
    PROVE  LET r == Export(src, q)
           IN  /\ KeptImages(r, req) = KeptImages(src, q)
               /\ KeptAssets(r, req) = r.assets /\ KeptAssetIds(r, req) = KeptAssetIds(src, q)
               /\ Unlinked(r, req) = {}
<1> DEFINE r == Export(src, q)
           kept == KeptOccurrences(src, q)
           images == KeptImages(src, q)
           shown == EvidencePages(src, q)
<1>1. /\ r.assets = KeptAssets(src, q) /\ KeptOccurrences(r, req) = kept
      /\ EvidencePages(r, req) = shown
    BY PartsOfExport, ChosenAgain, EvidenceAgain
<1>2. Ids(r.assets) = KeptAssetIds(src, q) /\ \A a \in KeptAssetIds(src, q) : r.assets[a] = KeptAssets(src, q)[a]
    BY <1>1 DEF KeptAssets, Ids
<1>3. \A o \in kept :
        r.occurrences[o].asset = (IF o \in Unlinked(src, q) THEN None ELSE src.occurrences[o].asset)
    <2>1. IsReport(src) /\ KeptOccurrences(src, q) \subseteq Ids(src.occurrences)
        BY KeptIsKnown DEF Again, SourceOk
    <2> QED BY <2>1, OccurrencesOfExport
<1>4. SourceOk(src)
    BY DEF Again
<1>5. /\ SourceAsset(r, req) = SourceAsset(src, q)
      /\ SourceAsset(r, req) # None => SourceId(r, req) = SourceId(src, q)
    BY OriginalAgain
<1> HIDE DEF r, kept, images, shown
<1>6. ASSUME NEW a \in images
      PROVE  /\ a \in Ids(r.assets) /\ r.assets[a] = src.assets[a] /\ a \in Ids(src.assets)
             /\ src.assets[a].usable /\ src.assets[a].purpose \in {"crop", "page_render"}
    <2>1. a \in KeptAssetIds(src, q)
        BY DEF KeptAssetIds, images
    <2>2. KeptAssets(src, q)[a] = src.assets[a]
        BY <2>1, <1>4, AssetsKept DEF images
    <2>3. /\ a \in Ids(src.assets) /\ src.assets[a].usable
          /\ src.assets[a].purpose \in {"crop", "page_render"}
        BY <1>4, ImagesKept DEF images
    <2> QED BY <1>2, <2>1, <2>2, <2>3
<1>7. ASSUME NEW a \in Ids(r.assets), r.assets[a].purpose \in {"crop", "page_render"}
      PROVE  a \in images
    BY <1>2, <1>4, <1>7, AssetsKept DEF images
<1>8. KeptImages(r, req) \subseteq images
    BY <1>7 DEF KeptImages, Wanted, Required, OfPurpose
<1>9. ASSUME NEW a \in images PROVE a \in KeptImages(r, req)
    <2>1. a \in Usable(r)
        BY <1>6 DEF Usable
    <2>2. a \in Wanted(src, q) \/ a \in Required(src, q)
        BY DEF KeptImages, images
    <2>3. CASE a \in Wanted(src, q)
        <3>1. /\ req.crops = All /\ q.crops = All /\ q.renders = req.renders
            BY DEF Again, Asks
        <3>2. a \in OfPurpose(r, src.assets[a].purpose)
            BY <1>6 DEF OfPurpose
        <3>3. a \in Wanted(r, req)
            BY <1>1, <1>6, <2>3, <3>1, <3>2 DEF Wanted, OfPurpose, shown
        <3> QED BY <2>1, <3>3 DEF KeptImages
    <2>4. CASE a \in Required(src, q)
        <3>1. PICK o \in kept : a = src.occurrences[o].asset
            BY <2>4 DEF Required, kept
        <3>2. o \notin Unlinked(src, q)
            BY <1>2, <1>6, <3>1 DEF Unlinked
        <3>3. r.occurrences[o].asset = a
            BY <1>3, <3>1, <3>2
        <3>4. a \in OfPurpose(r, "crop") \cup OfPurpose(r, "page_render")
            BY <1>6 DEF OfPurpose
        <3>5. a \in Required(r, req)
            BY <1>1, <3>3, <3>4 DEF Required
        <3> QED BY <2>1, <3>5 DEF KeptImages
    <2> QED BY <2>2, <2>3, <2>4
<1>10. KeptImages(r, req) = images
    BY <1>8, <1>9
<1>11. KeptAssetIds(r, req) = KeptAssetIds(src, q)
    BY <1>5, <1>10 DEF KeptAssetIds, images
<1>12. KeptAssets(r, req) = r.assets
    <2>1. ASSUME NEW a \in KeptAssetIds(src, q)
          PROVE  (IF a \in images THEN r.assets[a] ELSE SourceAsset(src, q)) = r.assets[a]
        BY <1>2, <1>4, AssetsKept DEF images
    <2>2. KeptAssets(r, req) = [a \in KeptAssetIds(src, q) |->
                IF a \in images THEN r.assets[a] ELSE SourceAsset(src, q)]
        BY <1>5, <1>10, <1>11 DEF KeptAssets
    <2>3. r.assets = [a \in KeptAssetIds(src, q) |-> r.assets[a]]
        BY <1>1 DEF KeptAssets
    <2> QED BY <2>1, <2>2, <2>3
<1>13. Unlinked(r, req) = {}
    <2>1. \A o \in kept : r.occurrences[o].asset \in {None} \cup KeptAssetIds(src, q)
        BY <1>3 DEF Unlinked, kept
    <2> QED BY <1>1, <1>11, <2>1 DEF Unlinked
<1> QED BY <1>10, <1>11, <1>12, <1>13 DEF r, images

\* The same pages and transforms are kept.
LEMMA GeometryAgain ==
    ASSUME NEW src, NEW req, NEW q, Again(src, req, q)
    PROVE  LET r == Export(src, q)
           IN  KeptPages(r, req) = r.pages /\ KeptTransforms(r, req) = Ids(r.transforms)
<1> DEFINE r == Export(src, q)
           kept == KeptOccurrences(src, q)
           assets == KeptAssetIds(src, q)
<1>1. /\ r.pages = KeptPages(src, q) /\ r.assets = KeptAssets(src, q)
      /\ r.transforms = Restrict(src.transforms, KeptTransforms(src, q))
    BY PartsOfExport
<1>2. KeptOccurrences(r, req) = kept /\ EvidencePages(r, req) = EvidencePages(src, q)
    BY ChosenAgain, EvidenceAgain
<1>3. /\ KeptRegions(r, req) = KeptRegions(src, q)
      /\ \A g \in KeptRegions(src, q) : r.regions[g] = src.regions[g]
    BY EvidenceAgain
<1>4. KeptAssets(r, req) = KeptAssets(src, q) /\ KeptAssetIds(r, req) = assets
    BY <1>1, ImagesAgain
<1>5. \A o \in kept : r.occurrences[o].transforms = src.occurrences[o].transforms
    <2>1. IsReport(src) /\ KeptOccurrences(src, q) \subseteq Ids(src.occurrences)
        BY KeptIsKnown DEF Again, SourceOk
    <2> QED BY <2>1, OccurrencesOfExport
<1> HIDE DEF r, kept, assets
<1>6. KeptPages(r, req) = r.pages
    <2> DEFINE seen == EvidencePages(src, q) \cup {KeptAssets(src, q)[a].page : a \in assets}
    <2>1. KeptPages(r, req) = r.pages \cap seen
        BY <1>2, <1>4 DEF KeptPages
    <2>2. r.pages = src.pages \cap seen
        BY <1>1 DEF KeptPages, assets
    <2> HIDE DEF seen
    <2> QED BY <2>1, <2>2
<1>7. Ids(r.transforms) = KeptTransforms(src, q)
    <2>1. KeptTransforms(src, q) \subseteq DOMAIN src.transforms
        BY DEF KeptTransforms, Ids
    <2> QED BY <1>1, <2>1 DEF Restrict, Ids
<1>8. KeptTransforms(r, req) = Ids(r.transforms)
    <2> DEFINE own == {<<"page", p>> : p \in r.pages}
               ofReadings == UNION {src.occurrences[o].transforms : o \in kept}
               ofRegions == UNION {src.regions[g].transforms : g \in KeptRegions(src, q)}
               ofAssets == UNION {KeptAssets(src, q)[a].transforms : a \in assets}
    <2>1. UNION {r.occurrences[o].transforms : o \in kept} = ofReadings
        BY <1>5
    <2>2. UNION {r.regions[g].transforms : g \in KeptRegions(src, q)} = ofRegions
        BY <1>3
    <2>3. KeptTransforms(r, req) = Ids(r.transforms) \cap (own \cup ofReadings \cup ofRegions \cup ofAssets)
        BY <1>2, <1>3, <1>4, <1>6, <2>1, <2>2 DEF KeptTransforms
    <2>4. Ids(r.transforms) = Ids(src.transforms) \cap (own \cup ofReadings \cup ofRegions \cup ofAssets)
        BY <1>1, <1>7 DEF KeptTransforms, kept, assets
    <2> HIDE DEF own, ofReadings, ofRegions, ofAssets
    <2> QED BY <2>3, <2>4
<1> QED BY <1>6, <1>8 DEF r

\* The readings of the checks are all kept.
LEMMA ChecksAgain ==
    ASSUME NEW src, NEW req, NEW q, Again(src, req, q)
    PROVE  Projected(Export(src, q), req).checks = Export(src, q).checks
<1> DEFINE r == Export(src, q)
           kept == KeptOccurrences(src, q)
           again(c) == [r.checks[c] EXCEPT !.retained = RetainedOf(@, kept)]
<1>1. KeptOccurrences(r, req) = kept
    BY ChosenAgain
<1>2. IsReport(src) /\ SourceOk(src) /\ ~Refused(src, q)
    BY DEF Again, SourceOk
<1>3. r.checks = [c \in Ids(src.checks) |->
        [src.checks[c] EXCEPT !.retained = RetainedOf(@, kept)]]
    <2>1. r.checks = Projected(src, q).checks
        BY PartsOfExport
    <2> QED BY <2>1 DEF Projected
<1>4. ASSUME NEW c \in Ids(src.checks) PROVE again(c) = r.checks[c]
    <2> DEFINE x == r.checks[c]
               new == RetainedOf(src.checks[c].retained, kept)
    <2>1. /\ DOMAIN src.checks[c] = {"status", "reason", "produced", "retained"}
          /\ x = [src.checks[c] EXCEPT !.retained = new]
        BY <1>2, ChecksEdited
    <2>2. src.checks[c].retained \in Seq(Ids(src.occurrences))
        BY <1>2 DEF IsReport
    <2>3. /\ new \in Seq(Ids(src.occurrences)) /\ Range(new) = Range(src.checks[c].retained) \cap kept
        BY <2>2, RetainedKeeps
    <2>4. RetainedOf(new, kept) = new
        <3> HIDE DEF new
        <3>1. Range(new) \subseteq kept
            BY <2>3
        <3> QED BY <2>3, <3>1, RetainedAll
    <2>5. x.retained = new
        <3> HIDE DEF x, new
        <3> QED BY <2>1
    <2>6. again(c) = [x EXCEPT !.retained = RetainedOf(x.retained, kept)]
        OBVIOUS
    <2>7. RetainedOf(x.retained, kept) = new
        BY <2>4, <2>5
    <2> HIDE DEF x, new, again
    <2>8. [x EXCEPT !.retained = new] = x
        BY <2>1
    <2> QED BY <2>6, <2>7, <2>8 DEF x
<1>5. Projected(r, req).checks = [c \in Ids(r.checks) |-> again(c)]
    <2> HIDE DEF r, kept
    <2> QED BY <1>1 DEF Projected
<1> HIDE DEF r, again
<1>6. Ids(r.checks) = Ids(src.checks)
    BY <1>3 DEF Ids
<1>7. r.checks = [c \in Ids(src.checks) |-> r.checks[c]]
    BY <1>3
<1>8. [c \in Ids(src.checks) |-> again(c)] = [c \in Ids(src.checks) |-> r.checks[c]]
    BY <1>4
<1> QED BY <1>5, <1>6, <1>7, <1>8 DEF r

\* Every reading is kept with the link it has.
LEMMA OccurrencesAgain ==
    ASSUME NEW src, NEW req, NEW q, Again(src, req, q)
    PROVE  Projected(Export(src, q), req).occurrences = Export(src, q).occurrences
<1> DEFINE r == Export(src, q)
           kept == KeptOccurrences(src, q)
           again(o) == [r.occurrences[o] EXCEPT !.asset = IF o \in Unlinked(r, req) THEN None ELSE @]
<1>1. KeptOccurrences(r, req) = kept /\ Unlinked(r, req) = {}
    BY ChosenAgain, ImagesAgain
<1>2. IsReport(src) /\ KeptOccurrences(src, q) \subseteq Ids(src.occurrences)
    BY KeptIsKnown DEF Again, SourceOk
<1>3. r.occurrences = [o \in kept |->
        [src.occurrences[o] EXCEPT !.asset = IF o \in Unlinked(src, q) THEN None ELSE @]]
    <2>1. r.occurrences = Projected(src, q).occurrences
        BY PartsOfExport
    <2> QED BY <2>1 DEF Projected
<1>4. ASSUME NEW o \in kept PROVE again(o) = r.occurrences[o]
    <2> DEFINE x == r.occurrences[o]
               link == IF o \in Unlinked(src, q) THEN None ELSE src.occurrences[o].asset
    <2>1. /\ DOMAIN src.occurrences[o] = {"reader", "page", "asset", "polygon", "transforms"}
          /\ x = [src.occurrences[o] EXCEPT !.asset = link]
        BY <1>2, OccurrencesEdited
    <2>2. again(o) = [x EXCEPT !.asset = x.asset]
        BY <1>1
    <2> HIDE DEF x, link, again
    <2>3. [x EXCEPT !.asset = x.asset] = x
        BY <2>1
    <2> QED BY <2>2, <2>3 DEF x
<1>5. Projected(r, req).occurrences = [o \in kept |-> again(o)]
    <2> HIDE DEF r, kept
    <2> QED BY <1>1 DEF Projected
<1> HIDE DEF r, again, kept
<1>6. r.occurrences = [o \in kept |-> r.occurrences[o]]
    BY <1>3
<1>7. [o \in kept |-> again(o)] = [o \in kept |-> r.occurrences[o]]
    BY <1>4
<1> QED BY <1>5, <1>6, <1>7 DEF r

\* What is restricted to all it has is itself.
LEMMA RestrictAll ==
    ASSUME NEW f, NEW S, S \subseteq DOMAIN f
    PROVE  Restrict(Restrict(f, S), S) = Restrict(f, S)
BY DEF Restrict

\* A projection of a projection is the same projection.
LEMMA ProjectedAgain ==
    ASSUME NEW src, NEW req, NEW q, Again(src, req, q)
    PROVE  Export(Export(src, q), req) = Export(src, q)
<1> DEFINE r == Export(src, q)
           p == Projected(src, q)
           again == Projected(r, req)
<1>1. /\ r.selected = src.selected /\ r.readers = src.readers /\ r.plan = src.plan
      /\ r.transforms = Restrict(src.transforms, KeptTransforms(src, q))
      /\ r.regions = Restrict(src.regions, KeptRegions(src, q))
      /\ r.findings = Restrict(src.findings, Supported(src, q))
      /\ r.notes = Restrict(src.notes, KeptNotes(src, q))
      /\ r.assets = KeptAssets(src, q)
      /\ r.source = (IF SourceAsset(src, q) = None THEN None ELSE SourceId(src, q))
      /\ r.length = src.length /\ r.filename = (src.filename /\ q.filename)
      /\ r.status = src.status /\ r.mode = Mode(src, q) /\ r.replay = Replay(src, q)
    BY PartsOfExport
<1>2. /\ KeptPages(r, req) = r.pages /\ KeptTransforms(r, req) = Ids(r.transforms)
      /\ KeptRegions(r, req) = KeptRegions(src, q) /\ KeptNotes(r, req) = KeptNotes(src, q)
      /\ Supported(r, req) = Supported(src, q) /\ KeptOccurrences(r, req) = KeptOccurrences(src, q)
      /\ KeptAssets(r, req) = r.assets /\ KeptImages(r, req) = KeptImages(src, q)
      /\ SourceAsset(r, req) = SourceAsset(src, q)
      /\ SourceAsset(r, req) # None => SourceId(r, req) = SourceId(src, q)
    BY GeometryAgain, EvidenceAgain, ChosenAgain, ImagesAgain, OriginalAgain
<1>3. again.checks = r.checks /\ again.occurrences = r.occurrences
    BY ChecksAgain, OccurrencesAgain
<1>4. Mode(r, req) = Mode(src, q) /\ Replay(r, req) = Replay(src, q)
    <2> HIDE DEF r
    <2>1. Mode(r, req) = Mode(src, q)
        BY <1>2 DEF Mode
    <2> QED BY <1>2, <2>1 DEF Replay
<1>5. (r.filename /\ req.filename) = r.filename
    <2>1. q.filename = req.filename /\ req.filename \in BOOLEAN /\ src.filename \in BOOLEAN
        BY DEF Again, Asks, SourceOk, IsReport
    <2> HIDE DEF r
    <2> QED BY <1>1, <2>1
<1>6. /\ r.pages = p.pages /\ r.selected = p.selected /\ r.readers = p.readers
      /\ r.transforms = p.transforms /\ r.regions = p.regions /\ r.plan = p.plan
      /\ r.checks = p.checks /\ r.occurrences = p.occurrences /\ r.findings = p.findings
      /\ r.notes = p.notes /\ r.assets = p.assets /\ r.source = p.source /\ r.length = p.length
      /\ r.filename = p.filename /\ r.status = p.status /\ r.mode = p.mode /\ r.replay = p.replay
    BY DEF Export, Sealed, Projected
<1>7. /\ again.pages = KeptPages(r, req) /\ again.selected = r.selected /\ again.readers = r.readers
      /\ again.transforms = Restrict(r.transforms, KeptTransforms(r, req))
      /\ again.regions = Restrict(r.regions, KeptRegions(r, req))
      /\ again.plan = r.plan
      /\ again.findings = Restrict(r.findings, Supported(r, req))
      /\ again.notes = Restrict(r.notes, KeptNotes(r, req))
      /\ again.assets = KeptAssets(r, req)
      /\ again.source = (IF SourceAsset(r, req) = None THEN None ELSE SourceId(r, req))
      /\ again.length = r.length /\ again.filename = (r.filename /\ req.filename)
      /\ again.status = r.status /\ again.mode = Mode(r, req) /\ again.replay = Replay(r, req)
    <2> HIDE DEF r
    <2> QED BY DEF Projected
<1>8. /\ again.transforms = r.transforms /\ again.regions = r.regions
      /\ again.findings = r.findings /\ again.notes = r.notes
    <2>1. /\ KeptTransforms(src, q) \subseteq DOMAIN src.transforms
          /\ KeptRegions(src, q) \subseteq DOMAIN src.regions
          /\ KeptNotes(src, q) \subseteq DOMAIN src.notes
        BY DEF KeptTransforms, KeptRegions, KeptNotes, Ids
    <2>2. Supported(src, q) \subseteq DOMAIN src.findings
        BY KeptIsKnown DEF Again, Ids
    <2> HIDE DEF r, again
    <2>3. Ids(r.transforms) = KeptTransforms(src, q)
        BY <1>1, <2>1 DEF Restrict, Ids
    <2> QED BY <1>1, <1>2, <1>7, <2>1, <2>2, <2>3, RestrictAll
<1>9. /\ again.source = r.source /\ again.filename = r.filename
      /\ again.pages = r.pages /\ again.assets = r.assets
    <2> HIDE DEF r, again
    <2> QED BY <1>1, <1>2, <1>5, <1>7
<1>10. again = [pages |-> r.pages, selected |-> r.selected, readers |-> r.readers,
                transforms |-> r.transforms, regions |-> r.regions, plan |-> r.plan,
                checks |-> r.checks, occurrences |-> r.occurrences, findings |-> r.findings,
                notes |-> r.notes, assets |-> r.assets, source |-> r.source, length |-> r.length,
                filename |-> r.filename, status |-> r.status, mode |-> r.mode, replay |-> r.replay,
                included |-> {}]
    <2>1. again = [pages |-> again.pages, selected |-> again.selected, readers |-> again.readers,
                transforms |-> again.transforms, regions |-> again.regions, plan |-> again.plan,
                checks |-> again.checks, occurrences |-> again.occurrences, findings |-> again.findings,
                notes |-> again.notes, assets |-> again.assets, source |-> again.source,
                length |-> again.length, filename |-> again.filename, status |-> again.status,
                mode |-> again.mode, replay |-> again.replay, included |-> {}]
        <3> HIDE DEF r
        <3> QED BY Zenon DEF Projected
    <2> HIDE DEF r, again
    <2>2. again.mode = r.mode /\ again.replay = r.replay
        BY <1>1, <1>4, <1>7
    <2> QED BY <1>3, <1>7, <1>8, <1>9, <2>1, <2>2
<1>11. p = [pages |-> p.pages, selected |-> p.selected, readers |-> p.readers,
            transforms |-> p.transforms, regions |-> p.regions, plan |-> p.plan,
            checks |-> p.checks, occurrences |-> p.occurrences, findings |-> p.findings,
            notes |-> p.notes, assets |-> p.assets, source |-> p.source, length |-> p.length,
            filename |-> p.filename, status |-> p.status, mode |-> p.mode, replay |-> p.replay,
            included |-> {}]
    BY Zenon DEF Projected
<1> HIDE DEF r, p, again
<1>12. again = p
    BY <1>6, <1>10, <1>11
<1> QED BY <1>12 DEF Export, r, p, again

\* A valid projection is projected to itself.
LEMMA ReexportSame ==
    ASSUME NEW src, NEW req, NEW q, Again(src, req, q), Valid(Export(src, q))
    PROVE  ProjectReport(Export(src, q), req).report = Export(src, q)
<1> DEFINE r == Export(src, q)
<1>1. ~Refused(r, req)
    <2>1. /\ req.occurrences = Cited /\ req.crops = All /\ req.renders \in {All, None}
          /\ req.source # Foreign
        BY WordsAssumption DEF Again, Asks, WordsAssumption
    <2>2. Resolves(req.findings, Ids(r.findings))
        BY ChosenAgain
    <2>3. SourceAsset(r, req) = SourceAsset(src, q)
        BY OriginalAgain
    <2>4. SourceAsset(src, q) # None =>
            SourceAsset(src, q).bound /\ ~(SourceAsset(src, q).size > MaxAssetTotal)
        BY DEF Again, Refused
    <2> HIDE DEF r
    <2> QED BY <2>1, <2>2, <2>3, <2>4 DEF Refused, Resolves
<1>2. Export(r, req) = r /\ ~Clashes(r, req)
    <2>1. /\ SourceAsset(r, req) = SourceAsset(src, q)
          /\ SourceAsset(r, req) # None => SourceId(r, req) = SourceId(src, q)
        BY OriginalAgain
    <2>2. KeptImages(r, req) = KeptImages(src, q)
        BY ImagesAgain
    <2> HIDE DEF r
    <2>3. ~Clashes(r, req)
        BY <2>1, <2>2 DEF Again, Clashes
    <2> QED BY <2>3, ProjectedAgain DEF r
<1> HIDE DEF r
<1>3. ProjectReport(r, req) = [error |-> None, report |-> r, omissions |-> Omissions(r, req)]
    <2>1. Sealed(Projected(r, req)) = r
        BY <1>2 DEF Export
    <2>2. Valid(r)
        BY DEF r
    <2> QED BY <1>1, <1>2, <2>1, <2>2 DEF ProjectReport
<1> QED BY <1>3 DEF r

---------------------------------------------------------------------------
(* The panel *)

\* What is exported is a projection of the open report with the user's notes,
\* for the request of the controller, with the original's bytes or without.
Recomputed == \E bytes \in BOOLEAN : exported = Recompute(sealedReport, userNotes, bytes, request)

\* The request asks for no more than was clicked, and leaves out the findings
\* that were deselected.
RequestIsWished ==
    /\ ResolveIds(request.findings, Ids(sealedReport.findings))
            = Ids(sealedReport.findings) \ wishes.deselected
    /\ request.annotations => wishes.annotations
    /\ request.filename => wishes.filename
    /\ request.renders = All => wishes.renders
    /\ request.source = Carry => wishes.source

Wishes(known) ==
    [annotations : BOOLEAN, filename : BOOLEAN, renders : BOOLEAN, source : BOOLEAN,
     deselected : SUBSET known]

\* The state of the panel between two steps.
PanelInvariant ==
    /\ sealedReport \in Reports /\ NotesFit(sealedReport, userNotes) /\ retained \in BOOLEAN
    /\ Asks(sealedReport, request)
    /\ wishes \in Wishes(Ids(sealedReport.findings))
    /\ RequestIsWished
    /\ Recomputed

\* A note fits a report by its page and its finding.
NoteFits(opened, note) ==
    /\ note.page \in opened.pages
    /\ note.finding # None =>
            /\ note.finding \in Ids(opened.findings)
            /\ opened.findings[note.finding].page = note.page

\* Notes are good when each of them is.
LEMMA NotesOneByOne ==
    ASSUME NEW opened \in Reports, NEW notes
    PROVE  NotesAgree([opened EXCEPT !.notes = notes]) <=>
                \A n \in DOMAIN notes : NoteFits(opened, notes[n])
<1> DEFINE k == [opened EXCEPT !.notes = notes]
<1>1. "notes" \in DOMAIN opened
    BY ReportIsSourceOk DEF SourceOk, IsReport
<1>2. k.pages = opened.pages /\ k.findings = opened.findings /\ k.notes = notes
    BY <1>1
<1> HIDE DEF k
<1>3. NotesAgree(k) <=> \A n \in DOMAIN notes : NoteFits(opened, notes[n])
    BY <1>2 DEF NotesAgree, NoteFits, Ids
<1> QED BY <1>3 DEF k

\* No notes fit every report.
LEMMA NoNotesFit ==
    ASSUME NEW opened \in Reports
    PROVE  NotesFit(opened, <<>>)
<1>1. DOMAIN <<>> = {}
    OBVIOUS
<1>2. NotesAgree([opened EXCEPT !.notes = <<>>])
    BY <1>1, NotesOneByOne
<1> QED BY <1>1, <1>2 DEF NotesFit

\* Notes that fit and one more.
LEMMA OneMoreNoteFits ==
    ASSUME NEW opened \in Reports, NEW notes, NEW note, NotesFit(opened, notes),
           NotesAgree([opened EXCEPT !.notes = note]),
           DOMAIN note \cap DOMAIN Source(opened, notes).notes = {}
    PROVE  NotesFit(opened, Joined(notes, note))
<1>1. Source(opened, notes).notes = Joined(opened.notes, notes)
    BY SourceIsOk
<1>2. DOMAIN note \cap DOMAIN opened.notes = {}
    BY <1>1 DEF Joined
<1>3. /\ \A n \in DOMAIN notes : NoteFits(opened, notes[n])
      /\ \A n \in DOMAIN note : NoteFits(opened, note[n])
    BY NotesOneByOne DEF NotesFit
<1> DEFINE j == Joined(notes, note)
<1>4. /\ DOMAIN j = DOMAIN notes \cup DOMAIN note
      /\ \A n \in DOMAIN j : j[n] = IF n \in DOMAIN notes THEN notes[n] ELSE note[n]
    BY DEF Joined
<1> HIDE DEF j
<1>5. \A n \in DOMAIN j : NoteFits(opened, j[n])
    BY <1>3, <1>4
<1>6. NotesAgree([opened EXCEPT !.notes = j])
    BY <1>5, NotesOneByOne
<1>7. DOMAIN j \cap DOMAIN opened.notes = {}
    BY <1>2, <1>4 DEF NotesFit
<1> QED BY <1>6, <1>7 DEF NotesFit, j

\* Notes that fit and one less.
LEMMA OneLessNoteFits ==
    ASSUME NEW opened \in Reports, NEW notes, NEW n, NotesFit(opened, notes)
    PROVE  NotesFit(opened, Restrict(notes, DOMAIN notes \ {n}))
<1> DEFINE less == Restrict(notes, DOMAIN notes \ {n})
<1>1. /\ DOMAIN less = DOMAIN notes \ {n}
      /\ \A m \in DOMAIN less : less[m] = notes[m]
    BY DEF Restrict
<1> HIDE DEF less
<1>2. \A m \in DOMAIN notes : NoteFits(opened, notes[m])
    BY NotesOneByOne DEF NotesFit
<1>3. \A m \in DOMAIN less : NoteFits(opened, less[m])
    BY <1>1, <1>2
<1>4. NotesAgree([opened EXCEPT !.notes = less])
    BY <1>3, NotesOneByOne
<1> QED BY <1>1, <1>4 DEF NotesFit, less

\* The request with the original or without.
LEMMA ResolvedParts ==
    ASSUME NEW src, NEW req, NEW bytes \in BOOLEAN, Asks(src, req)
    PROVE  LET q == Resolved(req, bytes)
           IN  /\ q.findings = req.findings /\ q.occurrences = Cited /\ q.crops = All
               /\ q.renders = req.renders /\ q.annotations = req.annotations
               /\ q.filename = req.filename
               /\ q.source = IF req.source = Carry /\ bytes THEN Original ELSE req.source
<1>1. /\ DOMAIN req = {"findings", "occurrences", "crops", "renders", "annotations", "filename", "source"}
      /\ req.occurrences = Cited /\ req.crops = All
    BY DEF Asks
<1>2. CASE req.source = Carry /\ bytes
    <2>1. Resolved(req, bytes) = [req EXCEPT !.source = Original]
        BY <1>2 DEF Resolved
    <2> QED BY <1>1, <1>2, <2>1
<1>3. CASE ~(req.source = Carry /\ bytes)
    <2>1. Resolved(req, bytes) = req
        BY <1>3 DEF Resolved
    <2> QED BY <1>1, <1>3, <2>1
<1> QED BY <1>2, <1>3

\* What a projection is that is not refused.
LEMMA ProjectionCases ==
    ASSUME NEW src, NEW q, NEW x, x = ProjectReport(src, q)
    PROVE  /\ x.report # None =>
                /\ ~Refused(src, q) /\ ~Clashes(src, q) /\ Valid(Export(src, q))
                /\ x.report = Export(src, q) /\ x.omissions = Omissions(src, q)
           /\ x.error = "invalid" =>
                ~Refused(src, q) /\ (Clashes(src, q) \/ ~Valid(Export(src, q)))
<1>1. CASE Refused(src, q)
    <2>1. x = [error |-> "refused", report |-> None, omissions |-> {}]
        BY <1>1 DEF ProjectReport
    <2> QED BY <2>1
<1>2. CASE ~Refused(src, q) /\ (Clashes(src, q) \/ ~Valid(Export(src, q)))
    <2>1. x = [error |-> "invalid", report |-> None, omissions |-> {}]
        BY <1>2 DEF ProjectReport, Export
    <2> QED BY <1>2, <2>1
<1>3. CASE ~Refused(src, q) /\ ~Clashes(src, q) /\ Valid(Export(src, q))
    <2>1. x = [error |-> None, report |-> Export(src, q), omissions |-> Omissions(src, q)]
        BY <1>3 DEF ProjectReport, Export
    <2>2. None # "invalid"
        BY WordsAssumption DEF WordsAssumption
    <2> QED BY <1>3, <2>1, <2>2
<1> QED BY <1>1, <1>2, <1>3

\* The source and the request of what is exported.
LEMMA ExportedFrom ==
    ASSUME PanelInvariant
    PROVE  \E bytes \in BOOLEAN :
            LET src == Source(sealedReport, userNotes)
                q == Resolved(request, bytes)
            IN  /\ exported = ProjectReport(src, q) /\ SourceOk(src)
                /\ ~Refused(src, q) /\ ~Clashes(src, q) => Again(src, request, q)
<1>1. PICK bytes \in BOOLEAN : exported = Recompute(sealedReport, userNotes, bytes, request)
    BY DEF PanelInvariant, Recomputed
<1> DEFINE src == Source(sealedReport, userNotes)
           q == Resolved(request, bytes)
<1>2. SourceOk(src) /\ src.findings = sealedReport.findings
    BY SourceIsOk DEF PanelInvariant
<1>3. Asks(sealedReport, request)
    BY DEF PanelInvariant
<1>4. /\ q.findings = request.findings /\ q.occurrences = Cited /\ q.crops = All
      /\ q.renders = request.renders /\ q.annotations = request.annotations
      /\ q.filename = request.filename
      /\ q.source = IF request.source = Carry /\ bytes THEN Original ELSE request.source
    BY <1>3, ResolvedParts
<1>5. exported = ProjectReport(src, q)
    BY <1>1 DEF Recompute
<1> HIDE DEF src, q
<1>6. Asks(src, request)
    BY <1>2, <1>3 DEF Asks
<1>7. ~Refused(src, q) /\ ~Clashes(src, q) => Again(src, request, q)
    BY <1>2, <1>4, <1>6 DEF Again
<1> QED BY <1>2, <1>5, <1>7 DEF src, q

\* What is left out of a report leaves it valid, and is told.
LEMMA InvariantMakesSound ==
    ASSUME PanelInvariant
    PROVE  ProjectionIsSound
<1> DEFINE src == Source(sealedReport, userNotes)
<1>1. PICK bytes \in BOOLEAN :
        /\ exported = ProjectReport(src, Resolved(request, bytes)) /\ SourceOk(src)
        /\ ~Refused(src, Resolved(request, bytes)) /\ ~Clashes(src, Resolved(request, bytes)) =>
                Again(src, request, Resolved(request, bytes))
    BY ExportedFrom
<1> DEFINE q == Resolved(request, bytes)
<1>2. /\ exported.report # None =>
            /\ ~Refused(src, q) /\ ~Clashes(src, q) /\ Valid(Export(src, q))
            /\ exported.report = Export(src, q) /\ exported.omissions = Omissions(src, q)
      /\ exported.error = "invalid" =>
            ~Refused(src, q) /\ (Clashes(src, q) \/ ~Valid(Export(src, q)))
    <2> HIDE DEF src, q
    <2>1. exported = ProjectReport(src, q)
        BY <1>1 DEF q
    <2> QED BY <2>1, ProjectionCases
<1>3. ProjectionIsValid
    <2>1. exported.error = "invalid" =>
            SizeOf(Projected(src, q)) > MaxAssetTotal \/ Clashes(src, q)
        <3> HIDE DEF src, q
        <3> QED BY <1>1, <1>2, ExportIsValid
    <2> QED BY <2>1 DEF ProjectionIsValid
<1>4. ASSUME exported.report # None
      PROVE  request.source = Carry /\ exported.report.source = None => "source missing" \in exported.omissions
    <2>1. /\ Again(src, request, q) /\ exported.report = Export(src, q)
          /\ exported.omissions = Omissions(src, q)
        BY <1>1, <1>2, <1>4
    <2>2. q.source = IF request.source = Carry /\ bytes THEN Original ELSE request.source
        BY ResolvedParts DEF PanelInvariant
    <2> HIDE DEF src, q
    <2>3. Export(src, q).source = None => SourceAsset(src, q) = None
        BY <1>2, <1>4, <2>1, DropsTold DEF Again
    <2>4. q.source = Original => SourceAsset(src, q) # None
        <3>1. [purpose |-> "source_pdf", usable |-> TRUE, bound |-> TRUE, size |-> src.length,
               page |-> None, transforms |-> {}] \in Assets(src.pages, Ids(src.transforms))
            BY <2>1 DEF Again, SourceOk, IsReport, Assets
        <3>2. None \notin Assets(src.pages, Ids(src.transforms))
            BY <2>1 DEF Again, SourceOk, WordsFit
        <3> QED BY <3>1, <3>2 DEF SourceAsset
    <2>5. SourceMissing(src, q) => "source missing" \in Omissions(src, q)
        BY DEF Omissions
    <2> QED BY <2>1, <2>2, <2>3, <2>4, <2>5 DEF SourceMissing
<1>5. DropsAreTold
    <2>1. SUFFICES ASSUME exported.report # None
          PROVE  LET r == exported.report
                     told(lines) == exported.omissions \cap lines # {}
                     gone(purpose) ==
                        {a \in OfPurpose(src, purpose) \ Ids(r.assets) : src.assets[a].usable}
                 IN  /\ Ids(src.findings) # Ids(r.findings) =>
                            told({"findings deselected", "findings unsupported"})
                     /\ Ids(src.occurrences) # Ids(r.occurrences) => told({"occurrences"})
                     /\ Ids(src.notes) # {} /\ Ids(r.notes) = {} => told({"notes"})
                     /\ src.filename # r.filename => told({"filename"})
                     /\ r.source = None => told({"source"})
                     /\ request.source = Carry /\ r.source = None => told({"source missing"})
                     /\ gone("crop") # {} => told({"crops"})
                     /\ gone("page_render") # {} => told({"page renders"})
                     /\ (\E a \in Ids(src.assets) : ~src.assets[a].usable) => told({"missing bytes"})
                     /\ (\E o \in Ids(r.occurrences) : src.occurrences[o].asset # r.occurrences[o].asset) =>
                            told({"unlinked"})
        BY DEF DropsAreTold
    <2>2. ~Refused(src, q) /\ exported.report = Export(src, q) /\ exported.omissions = Omissions(src, q)
        BY <1>2, <2>1
    <2> DEFINE r == Export(src, q)
               told == Omissions(src, q)
               gone(purpose) ==
                    {a \in OfPurpose(src, purpose) \ Ids(r.assets) : src.assets[a].usable}
    <2>3. /\ Ids(src.findings) # Ids(r.findings) =>
                    "findings deselected" \in told \/ "findings unsupported" \in told
          /\ Ids(src.occurrences) # Ids(r.occurrences) => "occurrences" \in told
          /\ Ids(src.notes) # {} /\ Ids(r.notes) = {} => "notes" \in told
          /\ src.filename # r.filename => "filename" \in told
          /\ r.source = None => "source" \in told
          /\ gone("crop") # {} => "crops" \in told
          /\ gone("page_render") # {} => "page renders" \in told
          /\ (\E a \in Ids(src.assets) : ~src.assets[a].usable) => "missing bytes" \in told
          /\ (\E o \in Ids(r.occurrences) : src.occurrences[o].asset # r.occurrences[o].asset) =>
                    "unlinked" \in told
        <3> HIDE DEF src, q
        <3> QED BY <1>1, <2>2, DropsTold
    <2>4. request.source = Carry /\ r.source = None => "source missing" \in told
        BY <1>4, <2>1, <2>2
    <2>5. exported.report = r /\ exported.omissions = told
        BY <2>2
    <2> HIDE DEF src, q, r, told
    <2> QED BY <2>3, <2>4, <2>5
<1> QED BY <1>3, <1>5 DEF ProjectionIsSound

\* An opened export is exported again as it is.
LEMMA InvariantKeepsReexport ==
    ASSUME PanelInvariant
    PROVE  ReexportKeeps
<1> DEFINE src == Source(sealedReport, userNotes)
<1>1. PICK bytes \in BOOLEAN :
        /\ exported = ProjectReport(src, Resolved(request, bytes)) /\ SourceOk(src)
        /\ ~Refused(src, Resolved(request, bytes)) /\ ~Clashes(src, Resolved(request, bytes)) =>
                Again(src, request, Resolved(request, bytes))
    BY ExportedFrom
<1> DEFINE q == Resolved(request, bytes)
<1>2. exported.report # None =>
            /\ ~Refused(src, q) /\ ~Clashes(src, q)
            /\ Valid(Export(src, q)) /\ exported.report = Export(src, q)
    <2> HIDE DEF src, q
    <2>1. exported = ProjectReport(src, q)
        BY <1>1 DEF q
    <2> QED BY <2>1, ProjectionCases
<1>3. ASSUME exported.report # None
      PROVE  ProjectReport(exported.report, request).report = exported.report
    <2>1. Again(src, request, q)
        BY <1>1, <1>2, <1>3
    <2> HIDE DEF src, q
    <2>2. ProjectReport(Export(src, q), request).report = Export(src, q)
        BY <1>2, <1>3, <2>1, ReexportSame
    <2> QED BY <1>2, <1>3, <2>2
<1> QED BY <1>3 DEF ReexportKeeps

\* What can be downloaded is what was chosen.
LEMMA InvariantKeepsChoice ==
    ASSUME PanelInvariant
    PROVE  DownloadIsChosen
<1> DEFINE src == Source(sealedReport, userNotes)
<1>1. PICK bytes \in BOOLEAN :
        /\ exported = ProjectReport(src, Resolved(request, bytes)) /\ SourceOk(src)
        /\ ~Refused(src, Resolved(request, bytes)) /\ ~Clashes(src, Resolved(request, bytes)) =>
                Again(src, request, Resolved(request, bytes))
    BY ExportedFrom
<1> DEFINE q == Resolved(request, bytes)
<1>2. exported.report # None =>
            ~Refused(src, q) /\ ~Clashes(src, q) /\ exported.report = Export(src, q)
    <2> HIDE DEF src, q
    <2>1. exported = ProjectReport(src, q)
        BY <1>1 DEF q
    <2> QED BY <2>1, ProjectionCases
<1>3. /\ q.findings = request.findings /\ q.renders = request.renders
      /\ q.annotations = request.annotations /\ q.filename = request.filename
      /\ q.source = IF request.source = Carry /\ bytes THEN Original ELSE request.source
      /\ request.source \in {None, Carry} /\ request.renders \in {All, None}
    BY ResolvedParts DEF PanelInvariant, Asks
<1>4. src.findings = sealedReport.findings
    BY SourceIsOk DEF PanelInvariant
<1>5. RequestIsWished
    BY DEF PanelInvariant
<1>6. ASSUME exported.report # None
      PROVE  LET r == exported.report
             IN  /\ Ids(r.findings) = Ids(sealedReport.findings) \ wishes.deselected
                 /\ Ids(r.notes) # {} => wishes.annotations
                 /\ r.filename => wishes.filename
                 /\ r.source # None => wishes.source
                 /\ \A a \in OfPurpose(r, "page_render") :
                        wishes.renders \/ \E o \in Ids(r.occurrences) : r.occurrences[o].asset = a
    <2> DEFINE r == Export(src, q)
    <2>1. Again(src, request, q) /\ exported.report = r /\ SourceOk(src) /\ ~Refused(src, q)
        BY <1>1, <1>2, <1>6
    <2> HIDE DEF src, q
    <2>2. /\ r.notes = Restrict(src.notes, KeptNotes(src, q)) /\ r.filename = (src.filename /\ q.filename)
          /\ r.assets = KeptAssets(src, q)
          /\ r.source = (IF SourceAsset(src, q) = None THEN None ELSE SourceId(src, q))
        BY PartsOfExport
    <2>3. Ids(r.findings) = Chosen(src, q)
        BY <2>1, ChosenAgain
    <2>4. /\ Ids(r.occurrences) = KeptOccurrences(src, q)
          /\ \A o \in KeptOccurrences(src, q) :
                r.occurrences[o].asset = (IF o \in Unlinked(src, q) THEN None ELSE src.occurrences[o].asset)
        <3>1. IsReport(src) /\ KeptOccurrences(src, q) \subseteq Ids(src.occurrences)
            BY <2>1, KeptIsKnown DEF SourceOk
        <3> QED BY <3>1, OccurrencesOfExport
    <2> HIDE DEF r
    <2>5. Ids(r.findings) = Ids(sealedReport.findings) \ wishes.deselected
        BY <1>3, <1>4, <1>5, <2>3 DEF Chosen, RequestIsWished
    <2>6. Ids(r.notes) # {} => wishes.annotations
        <3>1. Ids(r.notes) # {} => KeptNotes(src, q) # {}
            BY <2>2 DEF Restrict, Ids
        <3>2. KeptNotes(src, q) # {} => q.annotations
            BY DEF KeptNotes
        <3> QED BY <1>3, <1>5, <3>1, <3>2 DEF RequestIsWished
    <2>7. r.filename => wishes.filename
        BY <1>3, <1>5, <2>2 DEF RequestIsWished
    <2>8. r.source # None => wishes.source
        <3>1. r.source # None => q.source = Original \/ q.source = Carry
            BY <2>2 DEF SourceAsset
        <3>2. None # Original /\ None # Carry
            BY WordsAssumption DEF WordsAssumption
        <3> QED BY <1>3, <1>5, <3>1, <3>2 DEF RequestIsWished
    <2>9. ASSUME NEW a \in OfPurpose(r, "page_render"), request.renders # All
          PROVE  \E o \in Ids(r.occurrences) : r.occurrences[o].asset = a
        <3>1. Ids(r.assets) = KeptAssetIds(src, q) /\ \A b \in KeptAssetIds(src, q) : r.assets[b] = KeptAssets(src, q)[b]
            BY <2>2 DEF KeptAssets, Ids
        <3>2. a \in KeptAssetIds(src, q) /\ KeptAssets(src, q)[a].purpose = "page_render"
            BY <3>1 DEF OfPurpose
        <3>3. a \in KeptImages(src, q) /\ src.assets[a].purpose = "page_render"
            BY <2>1, <3>2, AssetsKept
        <3>4. a \notin Wanted(src, q)
            BY <1>3, <2>9, <3>3 DEF Wanted, OfPurpose, ResolveIds
        <3>5. PICK o \in KeptOccurrences(src, q) : src.occurrences[o].asset = a
            BY <3>3, <3>4 DEF KeptImages, Required
        <3>6. o \notin Unlinked(src, q)
            BY <3>2, <3>5 DEF Unlinked
        <3> QED BY <2>4, <3>5, <3>6
    <2> QED BY <1>5, <2>1, <2>5, <2>6, <2>7, <2>8, <2>9 DEF r, RequestIsWished
<1> QED BY <1>6 DEF DownloadIsChosen

\* A panel opens with a request nobody has changed yet.
LEMMA DefaultsFit ==
    ASSUME NEW opened \in Reports
    PROVE  /\ NotesFit(opened, <<>>) /\ Asks(opened, DefaultRequest)
           /\ NoWishes \in Wishes(Ids(opened.findings))
           /\ ResolveIds(DefaultRequest.findings, Ids(opened.findings))
                    = Ids(opened.findings) \ NoWishes.deselected
           /\ ~DefaultRequest.annotations /\ ~DefaultRequest.filename
           /\ DefaultRequest.renders # All /\ DefaultRequest.source # Carry
<1>1. Asks(opened, DefaultRequest)
    BY DEF Asks, DefaultRequest
<1>2. NoWishes \in Wishes(Ids(opened.findings))
    BY DEF NoWishes, Wishes
<1>3. /\ DefaultRequest.findings = All /\ DefaultRequest.annotations = FALSE
      /\ DefaultRequest.filename = FALSE /\ DefaultRequest.renders = None
      /\ DefaultRequest.source = None /\ NoWishes.deselected = {}
    BY DEF DefaultRequest, NoWishes
<1>4. All # None /\ Carry # None
    BY WordsAssumption DEF WordsAssumption
<1> QED BY <1>1, <1>2, <1>3, <1>4, NoNotesFit DEF ResolveIds

\* A request and wishes that go together.
GoTogether(known, req, wish) ==
    /\ wish \in Wishes(known)
    /\ ResolveIds(req.findings, known) = known \ wish.deselected
    /\ req.annotations => wish.annotations
    /\ req.filename => wish.filename
    /\ req.renders = All => wish.renders
    /\ req.source = Carry => wish.source

\* Asking for what goes together keeps the invariant.
LEMMA AskingKeeps ==
    ASSUME PanelInvariant, NEW req, NEW wish, Ask(req, wish), Asks(sealedReport, req),
           GoTogether(Ids(sealedReport.findings), req, wish)
    PROVE  PanelInvariant'
<1>1. /\ request' = req /\ wishes' = wish /\ sealedReport' = sealedReport /\ userNotes' = userNotes
      /\ retained' = retained /\ exported' = Recompute(sealedReport, userNotes, retained, req)
    BY DEF Ask
<1>2. /\ sealedReport \in Reports /\ NotesFit(sealedReport, userNotes) /\ retained \in BOOLEAN
    BY DEF PanelInvariant
<1>3. RequestIsWished'
    BY <1>1 DEF RequestIsWished, GoTogether
<1>4. Recomputed'
    BY <1>1, <1>2 DEF Recomputed
<1> QED BY <1>1, <1>2, <1>3, <1>4 DEF PanelInvariant, GoTogether

\* What a new controller takes over is still wished.
LEMMA RebuildingKeeps ==
    ASSUME PanelInvariant, NEW notes, NEW bytes \in BOOLEAN, Rebuilt(notes, bytes),
           NotesFit(sealedReport, notes)
    PROVE  PanelInvariant'
<1> DEFINE req == RestoreRequest(sealedReport, notes, request)
           known == Ids(sealedReport.findings)
           src == Source(sealedReport, notes)
<1>1. /\ request' = req /\ wishes' = wishes /\ sealedReport' = sealedReport /\ userNotes' = notes
      /\ retained' = bytes /\ exported' = Recompute(sealedReport, notes, bytes, req)
    BY DEF Rebuilt
<1>2. sealedReport \in Reports /\ Asks(sealedReport, request) /\ RequestIsWished
    BY DEF PanelInvariant
<1>3. src.findings = sealedReport.findings /\ src.filename \in BOOLEAN
    <2>1. SourceOk(src) /\ src.findings = sealedReport.findings
        BY <1>2, SourceIsOk
    <2> QED BY <2>1 DEF SourceOk, IsReport
<1>4. /\ request.findings \in {All} \cup SUBSET known
      /\ request.renders \in {All, None} /\ request.annotations \in BOOLEAN
      /\ request.filename \in BOOLEAN /\ request.source \in {None, Carry}
      /\ request.occurrences = Cited /\ request.crops = All
      /\ DOMAIN request = {"findings", "occurrences", "crops", "renders", "annotations", "filename", "source"}
    BY <1>2 DEF Asks
<1>5. All # None /\ \A ids \in SUBSET known : ids # All /\ ids # None
    BY <1>2, WordsAssumption DEF WordsAssumption, WordsFit
<1> DEFINE offered == IF request.findings = All THEN known ELSE request.findings \cap known
           findings == IF offered = known THEN All ELSE offered
           annotations == request.annotations /\ Ids(src.notes) # {}
           filename == request.filename /\ src.filename
           renders == IF OfPurpose(src, "page_render") = {} THEN None ELSE request.renders
<1>6. req = [request EXCEPT !.findings = findings, !.annotations = annotations,
                            !.filename = filename, !.renders = renders]
    BY <1>3 DEF RestoreRequest
<1>7. /\ findings \in {All} \cup SUBSET known
      /\ ResolveIds(findings, known) = ResolveIds(request.findings, known)
    <2>1. CASE request.findings = All
        BY <2>1 DEF ResolveIds
    <2>2. CASE request.findings # All
        <3>1. request.findings \in SUBSET known /\ request.findings # None
            BY <1>4, <1>5, <2>2
        <3>2. offered = request.findings
            BY <2>2, <3>1
        <3> HIDE DEF offered, known
        <3> QED BY <1>5, <2>2, <3>1, <3>2 DEF ResolveIds
    <2> QED BY <2>1, <2>2
<1>8. annotations \in BOOLEAN /\ filename \in BOOLEAN /\ renders \in {All, None}
    <2>1. renders \in {All, None}
        BY <1>4
    <2>2. annotations \in BOOLEAN /\ filename \in BOOLEAN
        BY <1>3, <1>4
    <2> QED BY <2>1, <2>2
<1>9. /\ annotations => request.annotations
      /\ filename => request.filename
      /\ renders = All => request.renders = All
    BY <1>5
<1> HIDE DEF req, findings, annotations, filename, renders
<1>10. /\ req.findings = findings /\ req.annotations = annotations /\ req.filename = filename
       /\ req.renders = renders /\ req.source = request.source /\ req.occurrences = Cited
       /\ req.crops = All /\ DOMAIN req = DOMAIN request
    BY <1>4, <1>6
<1>11. req = [findings |-> findings, occurrences |-> Cited, crops |-> All, renders |-> renders,
              annotations |-> annotations, filename |-> filename, source |-> request.source]
    BY <1>4, <1>6
<1>12. Asks(sealedReport, req)
    BY <1>4, <1>7, <1>8, <1>11 DEF Asks
<1>13. RequestIsWished'
    BY <1>1, <1>2, <1>7, <1>9, <1>10 DEF RequestIsWished
<1>14. Recomputed'
    BY <1>1 DEF Recomputed
<1>15. wishes' \in Wishes(known)
    BY <1>1 DEF PanelInvariant
<1> HIDE DEF known, src
<1> QED BY <1>1, <1>2, <1>12, <1>13, <1>14, <1>15 DEF PanelInvariant

\* Every step of the panel keeps it.
LEMMA PanelStepKeeps ==
    ASSUME PanelInvariant, [PanelNext]_panelVars
    PROVE  PanelInvariant'
<1> DEFINE known == Ids(sealedReport.findings)
<1>1. /\ sealedReport \in Reports /\ Asks(sealedReport, request) /\ RequestIsWished
      /\ NotesFit(sealedReport, userNotes) /\ retained \in BOOLEAN
    BY DEF PanelInvariant
<1>2. /\ request.findings \in {All} \cup SUBSET known
      /\ request.renders \in {All, None} /\ request.annotations \in BOOLEAN
      /\ request.filename \in BOOLEAN /\ request.source \in {None, Carry}
      /\ request.occurrences = Cited /\ request.crops = All
      /\ DOMAIN request = {"findings", "occurrences", "crops", "renders", "annotations", "filename", "source"}
    BY <1>1 DEF Asks
<1>3. /\ All # None /\ \A ids \in SUBSET known : ids # All /\ ids # None
      /\ Carry # None
    BY <1>1, WordsAssumption DEF WordsAssumption, WordsFit
<1>4. /\ ResolveIds(request.findings, known) = known \ wishes.deselected
      /\ request.annotations => wishes.annotations
      /\ request.filename => wishes.filename
      /\ request.renders = All => wishes.renders
      /\ request.source = Carry => wishes.source
    BY <1>1 DEF RequestIsWished
<1>15. /\ wishes \in Wishes(known)
       /\ wishes.annotations \in BOOLEAN /\ wishes.filename \in BOOLEAN
       /\ wishes.renders \in BOOLEAN /\ wishes.source \in BOOLEAN
       /\ wishes.deselected \in SUBSET known
       /\ DOMAIN wishes = {"annotations", "filename", "renders", "source", "deselected"}
    BY DEF PanelInvariant, Wishes
<1>5. ASSUME NEW on \in BOOLEAN, SetNotes(on) PROVE PanelInvariant'
    <2> DEFINE req == [request EXCEPT !.annotations = on]
               wish == [wishes EXCEPT !.annotations = on]
    <2>1. Ask(req, wish)
        BY <1>5 DEF SetNotes
    <2>2. /\ req = [findings |-> request.findings, occurrences |-> Cited, crops |-> All,
                    renders |-> request.renders, annotations |-> on, filename |-> request.filename,
                    source |-> request.source]
          /\ wish = [annotations |-> on, filename |-> wishes.filename, renders |-> wishes.renders,
                     source |-> wishes.source, deselected |-> wishes.deselected]
        BY <1>2, <1>15
    <2> HIDE DEF req, wish
    <2>3. Asks(sealedReport, req)
        BY <1>2, <2>2 DEF Asks
    <2>4. GoTogether(known, req, wish)
        <3>1. /\ req.findings = request.findings /\ req.renders = request.renders
              /\ req.annotations = on /\ req.filename = request.filename
              /\ req.source = request.source
            BY <2>2
        <3>2. /\ wish.annotations = on /\ wish.filename = wishes.filename /\ wish.renders = wishes.renders
              /\ wish.source = wishes.source /\ wish.deselected = wishes.deselected
            BY <2>2
        <3>3. ResolveIds(req.findings, known) = known \ wish.deselected
            BY <1>2, <1>15, <1>4, <3>1, <3>2
        <3>4. req.annotations => wish.annotations
            BY <1>2, <1>15, <1>4, <3>1, <3>2
        <3>5. req.filename => wish.filename
            BY <1>2, <1>15, <1>4, <3>1, <3>2
        <3>6. (req.renders = All => wish.renders) /\ (req.source = Carry => wish.source)
            BY <1>2, <1>15, <1>4, <3>1, <3>2
        <3>7. wish \in Wishes(known)
            BY <1>15, <2>2 DEF Wishes
        <3> QED BY <3>3, <3>4, <3>5, <3>6, <3>7 DEF GoTogether
    <2> HIDE DEF known
    <2> QED BY <2>1, <2>3, <2>4, AskingKeeps DEF known
<1>6. ASSUME NEW on \in BOOLEAN, SetFilename(on) PROVE PanelInvariant'
    <2> DEFINE req == [request EXCEPT !.filename = on]
               wish == [wishes EXCEPT !.filename = on]
    <2>1. Ask(req, wish)
        BY <1>6 DEF SetFilename
    <2>2. /\ req = [findings |-> request.findings, occurrences |-> Cited, crops |-> All,
                    renders |-> request.renders, annotations |-> request.annotations, filename |-> on,
                    source |-> request.source]
          /\ wish = [annotations |-> wishes.annotations, filename |-> on, renders |-> wishes.renders,
                     source |-> wishes.source, deselected |-> wishes.deselected]
        BY <1>2, <1>15
    <2> HIDE DEF req, wish
    <2>3. Asks(sealedReport, req)
        BY <1>2, <2>2 DEF Asks
    <2>4. GoTogether(known, req, wish)
        <3>1. /\ req.findings = request.findings /\ req.renders = request.renders
              /\ req.annotations = request.annotations /\ req.filename = on
              /\ req.source = request.source
            BY <2>2
        <3>2. /\ wish.annotations = wishes.annotations /\ wish.filename = on /\ wish.renders = wishes.renders
              /\ wish.source = wishes.source /\ wish.deselected = wishes.deselected
            BY <2>2
        <3>3. ResolveIds(req.findings, known) = known \ wish.deselected
            BY <1>2, <1>15, <1>4, <3>1, <3>2
        <3>4. req.annotations => wish.annotations
            BY <1>2, <1>15, <1>4, <3>1, <3>2
        <3>5. req.filename => wish.filename
            BY <1>2, <1>15, <1>4, <3>1, <3>2
        <3>6. (req.renders = All => wish.renders) /\ (req.source = Carry => wish.source)
            BY <1>2, <1>15, <1>4, <3>1, <3>2
        <3>7. wish \in Wishes(known)
            BY <1>15, <2>2 DEF Wishes
        <3> QED BY <3>3, <3>4, <3>5, <3>6, <3>7 DEF GoTogether
    <2> HIDE DEF known
    <2> QED BY <2>1, <2>3, <2>4, AskingKeeps DEF known
<1>7. ASSUME NEW on \in BOOLEAN, SetPageRenders(on) PROVE PanelInvariant'
    <2> DEFINE renders == IF on THEN All ELSE None
               req == [request EXCEPT !.renders = renders]
               wish == [wishes EXCEPT !.renders = on]
    <2>1. Ask(req, wish)
        BY <1>7 DEF SetPageRenders
    <2>2. renders \in {All, None} /\ (renders = All => on)
        BY <1>3
    <2> HIDE DEF renders
    <2>3. /\ req = [findings |-> request.findings, occurrences |-> Cited, crops |-> All,
                    renders |-> renders, annotations |-> request.annotations,
                    filename |-> request.filename, source |-> request.source]
          /\ wish = [annotations |-> wishes.annotations, filename |-> wishes.filename, renders |-> on,
                     source |-> wishes.source, deselected |-> wishes.deselected]
        BY <1>2, <1>15
    <2> HIDE DEF req, wish
    <2>4. Asks(sealedReport, req)
        BY <1>2, <2>2, <2>3 DEF Asks
    <2>5. GoTogether(known, req, wish)
        <3>1. /\ req.findings = request.findings /\ req.renders = renders
              /\ req.annotations = request.annotations /\ req.filename = request.filename
              /\ req.source = request.source
            BY <2>3
        <3>2. /\ wish.annotations = wishes.annotations /\ wish.filename = wishes.filename /\ wish.renders = on
              /\ wish.source = wishes.source /\ wish.deselected = wishes.deselected
            BY <2>3
        <3>3. ResolveIds(req.findings, known) = known \ wish.deselected
            BY <1>2, <1>15, <1>4, <2>2, <3>1, <3>2
        <3>4. req.annotations => wish.annotations
            BY <1>2, <1>15, <1>4, <2>2, <3>1, <3>2
        <3>5. req.filename => wish.filename
            BY <1>2, <1>15, <1>4, <2>2, <3>1, <3>2
        <3>6. (req.renders = All => wish.renders) /\ (req.source = Carry => wish.source)
            BY <1>2, <1>15, <1>4, <2>2, <3>1, <3>2
        <3>7. wish \in Wishes(known)
            BY <1>15, <2>3 DEF Wishes
        <3> QED BY <3>3, <3>4, <3>5, <3>6, <3>7 DEF GoTogether
    <2> HIDE DEF known
    <2> QED BY <2>1, <2>4, <2>5, AskingKeeps DEF known
<1>8. ASSUME NEW on \in BOOLEAN, SetSourcePdfWanted(on) PROVE PanelInvariant'
    <2> DEFINE source == IF on THEN Carry ELSE None
               req == [request EXCEPT !.source = source]
               wish == [wishes EXCEPT !.source = on]
    <2>1. Ask(req, wish)
        BY <1>8 DEF SetSourcePdfWanted
    <2>2. source \in {None, Carry} /\ (source = Carry => on)
        BY <1>3
    <2> HIDE DEF source
    <2>3. /\ req = [findings |-> request.findings, occurrences |-> Cited, crops |-> All,
                    renders |-> request.renders, annotations |-> request.annotations,
                    filename |-> request.filename, source |-> source]
          /\ wish = [annotations |-> wishes.annotations, filename |-> wishes.filename,
                     renders |-> wishes.renders, source |-> on, deselected |-> wishes.deselected]
        BY <1>2, <1>15
    <2> HIDE DEF req, wish
    <2>4. Asks(sealedReport, req)
        BY <1>2, <2>2, <2>3 DEF Asks
    <2>5. GoTogether(known, req, wish)
        <3>1. /\ req.findings = request.findings /\ req.renders = request.renders
              /\ req.annotations = request.annotations /\ req.filename = request.filename
              /\ req.source = source
            BY <2>3
        <3>2. /\ wish.annotations = wishes.annotations /\ wish.filename = wishes.filename /\ wish.renders = wishes.renders
              /\ wish.source = on /\ wish.deselected = wishes.deselected
            BY <2>3
        <3>3. ResolveIds(req.findings, known) = known \ wish.deselected
            BY <1>2, <1>15, <1>4, <2>2, <3>1, <3>2
        <3>4. req.annotations => wish.annotations
            BY <1>2, <1>15, <1>4, <2>2, <3>1, <3>2
        <3>5. req.filename => wish.filename
            BY <1>2, <1>15, <1>4, <2>2, <3>1, <3>2
        <3>6. (req.renders = All => wish.renders) /\ (req.source = Carry => wish.source)
            BY <1>2, <1>15, <1>4, <2>2, <3>1, <3>2
        <3>7. wish \in Wishes(known)
            BY <1>15, <2>3 DEF Wishes
        <3> QED BY <3>3, <3>4, <3>5, <3>6, <3>7 DEF GoTogether
    <2> HIDE DEF known
    <2> QED BY <2>1, <2>4, <2>5, AskingKeeps DEF known
<1>9. ASSUME NEW f \in known, ToggleFinding(f) PROVE PanelInvariant'
    <2> DEFINE selected == IF request.findings = All THEN known ELSE request.findings
               next == IF f \in selected THEN selected \ {f} ELSE selected \cup {f}
               findings == IF next = known THEN All ELSE next
               gone == known \ next
               req == [request EXCEPT !.findings = findings]
               wish == [wishes EXCEPT !.deselected = gone]
    <2>1. Ask(req, wish)
        BY <1>9 DEF ToggleFinding
    <2>2. selected \in SUBSET known
        BY <1>2
    <2>3. next \in SUBSET known
        <3> HIDE DEF selected, known
        <3> QED BY <2>2
    <2>4. findings \in {All} \cup SUBSET known /\ ResolveIds(findings, known) = known \ gone
        <3> HIDE DEF next, known
        <3> QED BY <1>3, <2>3 DEF ResolveIds
    <2> HIDE DEF findings, gone
    <2>5. /\ req = [findings |-> findings, occurrences |-> Cited, crops |-> All,
                    renders |-> request.renders, annotations |-> request.annotations,
                    filename |-> request.filename, source |-> request.source]
          /\ wish = [annotations |-> wishes.annotations, filename |-> wishes.filename,
                     renders |-> wishes.renders, source |-> wishes.source, deselected |-> gone]
        BY <1>2, <1>15
    <2> HIDE DEF req, wish
    <2>6. Asks(sealedReport, req)
        BY <1>2, <2>4, <2>5 DEF Asks
    <2>7. GoTogether(known, req, wish)
        <3>1. /\ req.findings = findings /\ req.renders = request.renders
              /\ req.annotations = request.annotations /\ req.filename = request.filename
              /\ req.source = request.source
            BY <2>5
        <3>2. /\ wish.annotations = wishes.annotations /\ wish.filename = wishes.filename /\ wish.renders = wishes.renders
              /\ wish.source = wishes.source /\ wish.deselected = gone
            BY <2>5
        <3>3. ResolveIds(req.findings, known) = known \ wish.deselected
            BY <1>2, <1>15, <1>4, <2>4, <3>1, <3>2
        <3>4. req.annotations => wish.annotations
            BY <1>2, <1>15, <1>4, <2>4, <3>1, <3>2
        <3>5. req.filename => wish.filename
            BY <1>2, <1>15, <1>4, <2>4, <3>1, <3>2
        <3>6. (req.renders = All => wish.renders) /\ (req.source = Carry => wish.source)
            BY <1>2, <1>15, <1>4, <2>4, <3>1, <3>2
        <3>7. wish \in Wishes(known)
            BY <1>15, <2>5 DEF Wishes, gone
        <3> QED BY <3>3, <3>4, <3>5, <3>6, <3>7 DEF GoTogether
    <2> HIDE DEF known
    <2> QED BY <2>1, <2>6, <2>7, AskingKeeps DEF known
<1>10. ASSUME NEW note \in UserNotes, AddNote(note) PROVE PanelInvariant'
    <2>1. Rebuilt(Joined(userNotes, note), retained) /\ NotesFit(sealedReport, Joined(userNotes, note))
        BY <1>1, <1>10, OneMoreNoteFits DEF AddNote
    <2> QED BY <1>1, <2>1, RebuildingKeeps
<1>11. ASSUME NEW n \in DOMAIN userNotes, RemoveNote(n) PROVE PanelInvariant'
    <2>1. /\ Rebuilt(Restrict(userNotes, DOMAIN userNotes \ {n}), retained)
          /\ NotesFit(sealedReport, Restrict(userNotes, DOMAIN userNotes \ {n}))
        BY <1>1, <1>11, OneLessNoteFits DEF RemoveNote
    <2> QED BY <1>1, <2>1, RebuildingKeeps
<1>12. ASSUME RetainSource PROVE PanelInvariant'
    <2>1. CASE userNotes = <<>>
        <3>1. /\ retained' = ~retained
              /\ UNCHANGED <<sealedReport, userNotes, request, exported, wishes>>
            BY <1>12, <2>1 DEF RetainSource
        <3>2. Recomputed' /\ RequestIsWished'
            BY <1>1, <3>1 DEF PanelInvariant, Recomputed, RequestIsWished
        <3> QED BY <1>1, <3>1, <3>2 DEF PanelInvariant
    <2>2. CASE userNotes # <<>>
        <3>1. Rebuilt(userNotes, ~retained)
            BY <1>12, <2>2 DEF RetainSource
        <3> QED BY <1>1, <3>1, RebuildingKeeps
    <2> QED BY <2>1, <2>2
<1>13. ASSUME NEW opened \in Reports, OpenReport(opened) PROVE PanelInvariant'
    <2>1. /\ sealedReport' = opened /\ userNotes' = <<>> /\ retained' = FALSE
          /\ request' = DefaultRequest /\ wishes' = NoWishes
          /\ exported' = Recompute(opened, <<>>, FALSE, DefaultRequest)
        BY <1>13 DEF OpenReport
    <2>2. RequestIsWished'
        BY <2>1, DefaultsFit DEF RequestIsWished
    <2>3. Recomputed'
        BY <2>1 DEF Recomputed
    <2> QED BY <2>1, <2>2, <2>3, DefaultsFit DEF PanelInvariant
<1>14. CASE UNCHANGED panelVars
    BY <1>1, <1>14 DEF PanelInvariant, panelVars, Recomputed, RequestIsWished
<1> QED BY <1>5, <1>6, <1>7, <1>8, <1>9, <1>10, <1>11, <1>12, <1>13, <1>14 DEF PanelNext

\* What the panel exports is always computed from the open report, the user's
\* notes and the request, and the request never asks for more than was clicked.
THEOREM PanelStaysInvariant == PanelSpec => []PanelInvariant
<1>1. ASSUME PanelInit PROVE PanelInvariant
    <2>1. /\ sealedReport \in Reports /\ userNotes = <<>> /\ retained \in BOOLEAN
          /\ request = DefaultRequest /\ wishes = NoWishes
          /\ exported = Recompute(sealedReport, userNotes, retained, request)
        BY <1>1 DEF PanelInit
    <2>2. RequestIsWished
        BY <2>1, DefaultsFit DEF RequestIsWished
    <2>3. Recomputed
        BY <2>1 DEF Recomputed
    <2> QED BY <2>1, <2>2, <2>3, DefaultsFit DEF PanelInvariant
<1>2. PanelInvariant /\ [PanelNext]_panelVars => PanelInvariant'
    BY PanelStepKeeps
<1> QED BY <1>1, <1>2, PTL DEF PanelSpec

\* Of any report and for any choice of the panel: what leaves the machine
\* satisfies the contract, unless its images are too large together or one has
\* the attached original's name, and it tells what was left out.
THEOREM PanelProjectionIsSound == PanelSpec => []ProjectionIsSound
<1>1. PanelInvariant => ProjectionIsSound
    BY InvariantMakesSound
<1> QED BY <1>1, PanelStaysInvariant, PTL

\* An export that is opened and exported with the same choices is itself again.
THEOREM PanelReexportKeeps == PanelSpec => []ReexportKeeps
<1>1. PanelInvariant => ReexportKeeps
    BY InvariantKeepsReexport
<1> QED BY <1>1, PanelStaysInvariant, PTL

\* Through every rebuild of the source object, what can be downloaded is what
\* the user chose.
THEOREM PanelDownloadIsChosen == PanelSpec => []DownloadIsChosen
<1>1. PanelInvariant => DownloadIsChosen
    BY InvariantKeepsChoice
<1> QED BY <1>1, PanelStaysInvariant, PTL

\* The least of finitely many numbers.
LEMMA MinIsLeast ==
    ASSUME NEW S, S \subseteq Int, IsFiniteSet(S), S # {}
    PROVE  Min(S) \in S /\ \A y \in S : Min(S) <= y
BY LeastExists DEF Min

\* The greatest of finitely many numbers.
LEMMA MaxIsGreatest ==
    ASSUME NEW S, S \subseteq Int, IsFiniteSet(S), S # {}
    PROVE  Max(S) \in S /\ \A y \in S : Max(S) >= y
<1> DEFINE neg == [x \in S |-> -x]
           T == {neg[x] : x \in S}
<1>1. neg \in Surjection(S, T)
    BY DEF Surjection
<1>2. T \subseteq Int /\ IsFiniteSet(T) /\ T # {}
    <2>1. IsFiniteSet(T)
        <3> HIDE DEF T, neg
        <3> QED BY <1>1, FS_Surjection
    <2>2. \A x \in S : neg[x] \in Int
        OBVIOUS
    <2>3. \E x \in S : neg[x] \in T
        OBVIOUS
    <2> HIDE DEF neg
    <2> QED BY <2>1, <2>2, <2>3
<1>3. PICK t \in T : \A u \in T : t <= u
    <2> HIDE DEF T
    <2> QED BY <1>2, LeastExists
<1>4. PICK x \in S : t = -x
    OBVIOUS
<1>5. \A y \in S : x >= y
    <2>1. ASSUME NEW y \in S PROVE x >= y
        <3>1. -y \in T /\ x \in Int /\ y \in Int
            OBVIOUS
        <3>2. t <= -y
            BY <1>3, <3>1
        <3> QED BY <1>4, <3>1, <3>2
    <2> QED BY <2>1
<1> QED BY <1>5 DEF Max

---------------------------------------------------------------------------
(* Orders *)

\* What Ordered puts in order.
LEMMA OrderedIsOrder ==
    ASSUME NEW S, IsFiniteSet(S), NEW before, HasFirsts(S, before)
    PROVE  IsOrder(Ordered(S, before), S, before)
<1>1. PICK r : IsOrder(r, S, before)
    BY OrderExists
<1> DEFINE s == Ordered(S, before)
<1>2. /\ s \in [1..Cardinality(S) -> S] /\ IsInjective(s)
      /\ \A i, j \in DOMAIN s : i < j => <<s[j], s[i]>> \notin before
    BY <1>1 DEF Ordered, IsOrder
<1> HIDE DEF s
<1>3. Range(s) = S
    <2>1. Cardinality(S) \in Nat
        BY FS_CardinalityType
    <2>2. IsFiniteSet(1..Cardinality(S)) /\ Cardinality(1..Cardinality(S)) = Cardinality(S)
        BY <2>1, FS_Interval
    <2>3. s \in Injection(1..Cardinality(S), S)
        BY <1>2 DEF Injection
    <2>4. s \in Surjection(1..Cardinality(S), S)
        BY <2>2, <2>3, FS_Injection
    <2> QED BY <2>4 DEF Surjection, Range
<1> QED BY <1>2, <1>3 DEF IsOrder, s

---------------------------------------------------------------------------
(* What is connected *)

\* The components of a set share nothing, are left by no link and hold it all.
LEMMA ComponentClosed ==
    ASSUME NEW S, NEW links \in SUBSET (S \X S), NEW a \in S
    PROVE  LET C == Component(S, links, a)
           IN  C \subseteq S /\ a \in C /\ Closed(C, links)
<1> DEFINE C == Component(S, links, a)
<1>1. C \subseteq S /\ a \in C
    BY DEF Component
<1>2. ASSUME NEW l \in links PROVE l[1] \in C <=> l[2] \in C
    <2>1. l[1] \in S /\ l[2] \in S
        OBVIOUS
    <2> QED BY <2>1 DEF Component, Closed
<1> QED BY <1>1, <1>2 DEF Closed

\* A component is within every closed set that holds its element.
LEMMA ComponentLeast ==
    ASSUME NEW S, NEW links, NEW a \in S, NEW D \in SUBSET S, a \in D, Closed(D, links)
    PROVE  Component(S, links, a) \subseteq D
BY DEF Component

\* Two components are the same or share nothing.
LEMMA ComponentsApart ==
    ASSUME NEW S, NEW links \in SUBSET (S \X S),
           NEW C \in Components(S, links), NEW D \in Components(S, links), NEW x, x \in C, x \in D
    PROVE  C = D
<1>1. PICK a \in S, b \in S : C = Component(S, links, a) /\ D = Component(S, links, b)
    BY DEF Components
<1>2. /\ C \subseteq S /\ a \in C /\ Closed(C, links)
      /\ D \subseteq S /\ b \in D /\ Closed(D, links)
    BY <1>1, ComponentClosed
<1>3. Closed(S \ C, links) /\ Closed(S \ D, links)
    <2>1. \A l \in links : l[1] \in S /\ l[2] \in S
        OBVIOUS
    <2> QED BY <1>2, <2>1 DEF Closed
<1>4. a \in D
    <2>1. a \notin D => C \subseteq S \ D
        BY <1>1, <1>3, ComponentLeast
    <2> QED BY <2>1
<1>5. b \in C
    <2>1. b \notin C => D \subseteq S \ C
        BY <1>1, <1>3, ComponentLeast
    <2> QED BY <2>1
<1>6. C \subseteq D /\ D \subseteq C
    BY <1>1, <1>2, <1>4, <1>5, ComponentLeast
<1> QED BY <1>6

---------------------------------------------------------------------------
(* Boxes and fragments *)

Side == {"left", "right"}

\* The fragments of a side are a finite set of places with boxes.
LEMMA FragmentsFit ==
    ASSUME IsPage(page), NEW side \in Side
    PROVE  /\ Fragments(side) \subseteq Nat /\ IsFiniteSet(Fragments(side))
           /\ Fragments(side) \subseteq DOMAIN page[side]
           /\ DOMAIN page[side] \subseteq Nat /\ IsFiniteSet(DOMAIN page[side])
           /\ \A i \in Fragments(side) : BoxOf(side, i) \in Boxes
<1>1. /\ page[side] \in Seq(Range(page[side]))
      /\ \A i \in DOMAIN page[side] : page[side][i].box \in Boxes
    BY DEF IsPage, Side
<1>2. Len(page[side]) \in Nat /\ DOMAIN page[side] = 1..Len(page[side])
    BY <1>1
<1>3. IsFiniteSet(DOMAIN page[side]) /\ DOMAIN page[side] \subseteq Nat
    BY <1>2, FS_Interval
<1>4. Fragments(side) \subseteq DOMAIN page[side]
    BY DEF Fragments
<1>5. IsFiniteSet(Fragments(side))
    BY <1>3, <1>4, FS_Subset
<1> QED BY <1>1, <1>3, <1>4, <1>5 DEF BoxOf

\* Each coordinate of finitely many boxes has its bounds.
LEMMA BoundsFit ==
    ASSUME IsPage(page), NEW side \in Side, NEW f \in SUBSET Fragments(side), f # {}
    PROVE  Bounds(side, f) \in Boxes
<1>1. IsFiniteSet(f) /\ \A i \in f : BoxOf(side, i) \in Boxes
    BY FragmentsFit, FS_Subset
<1> DEFINE x0 == [i \in f |-> BoxOf(side, i).x0]
           y0 == [i \in f |-> BoxOf(side, i).y0]
           x1 == [i \in f |-> BoxOf(side, i).x1]
           y1 == [i \in f |-> BoxOf(side, i).y1]
<1>2. ASSUME NEW g \in [f -> Int]
      PROVE  Range(g) \subseteq Int /\ IsFiniteSet(Range(g)) /\ Range(g) # {}
    <2>1. g \in Surjection(f, Range(g))
        BY DEF Surjection, Range
    <2>2. IsFiniteSet(Range(g))
        BY <1>1, <2>1, FS_Surjection
    <2> QED BY <2>2 DEF Range
<1>3. /\ x0 \in [f -> Int] /\ y0 \in [f -> Int] /\ x1 \in [f -> Int] /\ y1 \in [f -> Int]
      /\ Range(x0) = {BoxOf(side, i).x0 : i \in f} /\ Range(y0) = {BoxOf(side, i).y0 : i \in f}
      /\ Range(x1) = {BoxOf(side, i).x1 : i \in f} /\ Range(y1) = {BoxOf(side, i).y1 : i \in f}
    <2>1. x0 \in [f -> Int] /\ Range(x0) = {BoxOf(side, i).x0 : i \in f}
        BY <1>1 DEF Boxes, Range
    <2>2. y0 \in [f -> Int] /\ Range(y0) = {BoxOf(side, i).y0 : i \in f}
        BY <1>1 DEF Boxes, Range
    <2>3. x1 \in [f -> Int] /\ Range(x1) = {BoxOf(side, i).x1 : i \in f}
        BY <1>1 DEF Boxes, Range
    <2>4. y1 \in [f -> Int] /\ Range(y1) = {BoxOf(side, i).y1 : i \in f}
        BY <1>1 DEF Boxes, Range
    <2> QED BY <2>1, <2>2, <2>3, <2>4
<1> HIDE DEF x0, y0, x1, y1
<1>4. Min(Range(x0)) \in Int /\ Min(Range(y0)) \in Int
    BY <1>2, <1>3, MinIsLeast
<1>5. Max(Range(x1)) \in Int /\ Max(Range(y1)) \in Int
    BY <1>2, <1>3, MaxIsGreatest
<1> QED BY <1>3, <1>4, <1>5 DEF Bounds, Boxes

\* An order by three numbers has firsts.
LEMMA FirstsBy ==
    ASSUME NEW S, IsFiniteSet(S), NEW u \in [S -> Int], NEW v \in [S -> Int], NEW w \in [S -> Int],
           NEW before,
           \A x, y \in S : <<x, y>> \in before =>
                \/ u[x] < u[y]
                \/ u[x] = u[y] /\ v[x] < v[y]
                \/ u[x] = u[y] /\ v[x] = v[y] /\ w[x] < w[y]
    PROVE  HasFirsts(S, before)
<1>1. ASSUME NEW T \in SUBSET S, T # {}, NEW g \in [S -> Int]
      PROVE  \E m \in T : \A t \in T : g[m] <= g[t]
    <2> DEFINE r == [t \in T |-> g[t]]
    <2>1. r \in Surjection(T, Range(r)) /\ Range(r) \subseteq Int /\ Range(r) # {}
        BY <1>1 DEF Surjection, Range
    <2>2. IsFiniteSet(T)
        BY FS_Subset
    <2>3. IsFiniteSet(Range(r))
        <3> HIDE DEF r
        <3> QED BY <2>1, <2>2, FS_Surjection
    <2>4. PICK n \in Range(r) : \A k \in Range(r) : n <= k
        <3> HIDE DEF r
        <3> QED BY <2>1, <2>3, LeastExists
    <2>5. PICK m \in T : g[m] = n
        BY DEF Range
    <2>6. \A t \in T : g[t] \in Range(r)
        BY DEF Range
    <2> QED BY <2>4, <2>5, <2>6
<1>2. ASSUME NEW T \in SUBSET S, T # {}
      PROVE  \E m \in T : \A t \in T : <<t, m>> \notin before
    <2>1. PICK a \in T : \A t \in T : u[a] <= u[t]
        BY <1>1, <1>2
    <2> DEFINE T1 == {t \in T : u[t] = u[a]}
    <2>2. PICK b \in T1 : \A t \in T1 : v[b] <= v[t]
        <3>1. T1 \in SUBSET S /\ T1 # {}
            OBVIOUS
        <3> HIDE DEF T1
        <3> QED BY <1>1, <3>1
    <2> DEFINE T2 == {t \in T1 : v[t] = v[b]}
    <2>3. PICK c \in T2 : \A t \in T2 : w[c] <= w[t]
        <3>1. T2 \in SUBSET S /\ T2 # {}
            BY <2>2
        <3> HIDE DEF T2
        <3> QED BY <1>1, <3>1
    <2>4. ASSUME NEW t \in T PROVE <<t, c>> \notin before
        <3>1. /\ c \in S /\ t \in S /\ a \in S /\ b \in S
              /\ u[c] = u[a] /\ v[c] = v[b]
            OBVIOUS
        <3>2. /\ u[a] \in Int /\ u[t] \in Int /\ u[c] \in Int /\ v[b] \in Int /\ v[t] \in Int
              /\ v[c] \in Int /\ w[c] \in Int /\ w[t] \in Int
            BY <3>1
        <3>3. u[a] <= u[t] /\ (u[t] = u[a] => v[b] <= v[t])
              /\ (u[t] = u[a] /\ v[t] = v[b] => w[c] <= w[t])
            BY <2>1, <2>2, <2>3
        <3> QED BY <3>1, <3>2, <3>3
    <2> QED BY <2>4
<1> QED BY <1>2 DEF HasFirsts

---------------------------------------------------------------------------
(* Line runs *)

\* Non-empty runs of different elements, together those of X.
RunsOver(runs, X) ==
    /\ runs \in Seq(Seq(X) \ {<<>>})
    /\ \A i \in DOMAIN runs : IsInjective(runs[i])
    /\ \A i, j \in DOMAIN runs : i # j => Range(runs[i]) \cap Range(runs[j]) = {}
    /\ \A x \in X : \E i \in DOMAIN runs : x \in Range(runs[i])

\* What a longer sequence ranges over.
LEMMA RangeAppend ==
    ASSUME NEW X, NEW s \in Seq(X), NEW x \in X
    PROVE  Range(Append(s, x)) = Range(s) \cup {x}
<1>1. DOMAIN s = 1..Len(s) /\ Len(s) \in Nat /\ DOMAIN Append(s, x) = 1..(Len(s) + 1)
      /\ \A i \in 1..Len(s) : Append(s, x)[i] = s[i]
      /\ Append(s, x)[Len(s) + 1] = x
    OBVIOUS
<1> QED BY <1>1 DEF Range

\* A new element joins the last run or begins one.
LEMMA FlushedRuns ==
    ASSUME NEW side, NEW X, NEW runs, RunsOver(runs, X), NEW i, i \notin X
    PROVE  RunsOver(Flushed(side, runs, i), X \cup {i})
<1> DEFINE Y == X \cup {i}
           n == Len(runs)
<1>1. /\ n \in Nat /\ DOMAIN runs = 1..n
      /\ \A k \in 1..n : runs[k] \in Seq(X) /\ runs[k] # <<>> /\ IsInjective(runs[k])
      /\ \A j, k \in 1..n : j # k => Range(runs[j]) \cap Range(runs[k]) = {}
      /\ \A x \in X : \E k \in 1..n : x \in Range(runs[k])
    <2> DEFINE W == Seq(X) \ {<<>>}
    <2>1. runs \in Seq(W)
        BY DEF RunsOver
    <2>2. n \in Nat /\ DOMAIN runs = 1..n /\ \A k \in 1..n : runs[k] \in W
        <3> HIDE DEF W
        <3> QED BY <2>1
    <2> QED BY <2>2 DEF RunsOver
<1>2. \A k \in 1..n : runs[k] \in Seq(Y) /\ Range(runs[k]) \subseteq X /\ i \notin Range(runs[k])
    <2>1. ASSUME NEW k \in 1..n
          PROVE  runs[k] \in Seq(Y) /\ Range(runs[k]) \subseteq X /\ i \notin Range(runs[k])
        <3>1. runs[k] \in Seq(X)
            BY <1>1
        <3>2. Range(runs[k]) \subseteq X
            BY <3>1 DEF Range
        <3>3. runs[k] \in Seq(Y)
            BY <3>1, SeqMonotonic
        <3> QED BY <3>2, <3>3
    <2> QED BY <2>1
<1> HIDE DEF n
<1>3. CASE /\ runs # <<>>
           /\ Gap(Bounds(side, Range(Last(runs))), BoxOf(side, i)) <= GapTolerance
    <2>1. n >= 1 /\ Last(runs) = runs[n]
        BY <1>1, <1>3 DEF Last, n, RunsOver
    <2> DEFINE grown == Append(runs[n], i)
               out == Append(Front(runs), grown)
    <2>2. /\ grown \in Seq(Y) /\ grown # <<>> /\ IsInjective(grown)
          /\ Range(grown) = Range(runs[n]) \cup {i}
        <3>1. runs[n] \in Seq(Y) /\ IsInjective(runs[n]) /\ i \notin Range(runs[n])
            BY <1>1, <1>2, <2>1
        <3>2. i \in Y
            OBVIOUS
        <3> HIDE DEF Y
        <3>3. /\ grown \in Seq(Y) /\ grown # <<>>
              /\ DOMAIN runs[n] = 1..Len(runs[n]) /\ Len(runs[n]) \in Nat
              /\ DOMAIN grown = 1..(Len(runs[n]) + 1)
              /\ \A k \in 1..Len(runs[n]) : grown[k] = runs[n][k] /\ runs[n][k] # i
              /\ grown[Len(runs[n]) + 1] = i
            BY <3>1, <3>2 DEF Range
        <3>4. IsInjective(grown)
            <4> HIDE DEF grown
            <4> QED BY <3>1, <3>3 DEF IsInjective
        <3>5. Range(grown) = Range(runs[n]) \cup {i}
            BY <3>1, <3>2, RangeAppend
        <3> QED BY <3>3, <3>4, <3>5
    <2>3. /\ Len(Front(runs)) = n - 1 /\ Front(runs) \in Seq(Seq(Y) \ {<<>>})
          /\ \A k \in 1..(n - 1) : Front(runs)[k] = runs[k]
        <3>1. runs \in Seq(Seq(Y) \ {<<>>})
            <4>1. \A k \in 1..n : runs[k] \in Seq(Y) \ {<<>>}
                BY <1>1, <1>2
            <4> QED BY <1>1, <4>1 DEF n, RunsOver
        <3>2. Front(runs) = SubSeq(runs, 1, n - 1)
            BY DEF Front, n
        <3> DEFINE W == Seq(Y) \ {<<>>}
        <3>3. runs \in Seq(W) /\ n = Len(runs) /\ n \in Nat /\ n >= 1
            BY <1>1, <2>1, <3>1 DEF n
        <3> HIDE DEF Y, W, n
        <3>4. /\ SubSeq(runs, 1, n - 1) \in Seq(W) /\ Len(SubSeq(runs, 1, n - 1)) = n - 1
              /\ \A k \in 1..(n - 1) : SubSeq(runs, 1, n - 1)[k] = runs[k]
            BY <3>3
        <3> QED BY <3>2, <3>4 DEF W
    <2> HIDE DEF grown
    <2>4. /\ out \in Seq(Seq(Y) \ {<<>>}) /\ DOMAIN out = 1..n
          /\ \A k \in 1..(n - 1) : out[k] = runs[k]
          /\ out[n] = grown
        <3>1. grown \in Seq(Y) \ {<<>>}
            BY <2>2
        <3> HIDE DEF Y
        <3> DEFINE W == Seq(Y) \ {<<>>}
                   fr == Front(runs)
        <3>2. fr \in Seq(W) /\ grown \in W /\ Len(fr) = n - 1 /\ n \in Nat /\ n >= 1
              /\ \A k \in 1..(n - 1) : fr[k] = runs[k]
            BY <1>1, <2>1, <2>3, <3>1
        <3> HIDE DEF W, fr
        <3>3. Append(fr, grown) \in Seq(W) /\ DOMAIN Append(fr, grown) = 1..n
              /\ (\A k \in 1..(n - 1) : Append(fr, grown)[k] = fr[k])
              /\ Append(fr, grown)[n] = grown
            BY <3>2
        <3> QED BY <3>2, <3>3 DEF W, fr
    <2>5. Flushed(side, runs, i) = out
        BY <1>3, <2>1 DEF Flushed, grown
    <2> HIDE DEF out
    <2>0. \A k \in 1..n : k = n \/ k \in 1..(n - 1)
        BY <1>1, <2>1
    <2>6. \A k \in 1..n : IsInjective(out[k])
        BY <1>1, <2>0, <2>2, <2>4
    <2>7. ASSUME NEW j \in 1..n, NEW k \in 1..n, j # k PROVE Range(out[j]) \cap Range(out[k]) = {}
        <3>1. CASE j = n
            <4>1. out[j] = grown /\ out[k] = runs[k] /\ k \in 1..n /\ n \in 1..n /\ k # n
                BY <1>1, <2>0, <2>1, <2>4, <2>7, <3>1
            <4>2. Range(runs[n]) \cap Range(runs[k]) = {} /\ i \notin Range(runs[k])
                BY <1>1, <1>2, <4>1
            <4> QED BY <2>2, <4>1, <4>2
        <3>2. CASE k = n
            <4>1. out[k] = grown /\ out[j] = runs[j] /\ j \in 1..n /\ n \in 1..n /\ j # n
                BY <1>1, <2>0, <2>1, <2>4, <2>7, <3>2
            <4>2. Range(runs[n]) \cap Range(runs[j]) = {} /\ i \notin Range(runs[j])
                BY <1>1, <1>2, <4>1
            <4> QED BY <2>2, <4>1, <4>2
        <3>3. CASE j # n /\ k # n
            <4>1. out[k] = runs[k] /\ out[j] = runs[j]
                BY <2>0, <2>4, <2>7, <3>3
            <4> QED BY <1>1, <2>7, <4>1
        <3> QED BY <3>1, <3>2, <3>3
    <2>8. ASSUME NEW x \in Y PROVE \E k \in 1..n : x \in Range(out[k])
        <3>1. CASE x = i
            BY <1>1, <2>1, <2>2, <2>4, <3>1
        <3>2. CASE x # i
            <4>1. PICK k \in 1..n : x \in Range(runs[k])
                BY <1>1, <3>2
            <4>2. CASE k = n
                BY <2>2, <2>4, <4>1, <4>2
            <4>3. CASE k # n
                BY <2>0, <2>4, <4>1, <4>3
            <4> QED BY <4>2, <4>3
        <3> QED BY <3>1, <3>2
    <2> QED BY <2>4, <2>5, <2>6, <2>7, <2>8 DEF RunsOver
<1>4. CASE ~(/\ runs # <<>>
             /\ Gap(Bounds(side, Range(Last(runs))), BoxOf(side, i)) <= GapTolerance)
    <2> DEFINE out == Append(runs, <<i>>)
    <2>1. Flushed(side, runs, i) = out
        BY <1>4 DEF Flushed
    <2>2. /\ <<i>> \in Seq(Y) \ {<<>>} /\ IsInjective(<<i>>) /\ Range(<<i>>) = {i}
        <3>1. <<i>> \in Seq(Y) /\ <<i>> # <<>>
            OBVIOUS
        <3>2. DOMAIN <<i>> = {1} /\ <<i>>[1] = i
            OBVIOUS
        <3> QED BY <3>1, <3>2 DEF IsInjective, Range
    <2>3. runs \in Seq(Seq(Y) \ {<<>>})
        <3>1. \A k \in 1..n : runs[k] \in Seq(Y) \ {<<>>}
            BY <1>1, <1>2
        <3> QED BY <1>1, <3>1 DEF n, RunsOver
    <2>4. /\ out \in Seq(Seq(Y) \ {<<>>}) /\ DOMAIN out = 1..(n + 1)
          /\ \A k \in 1..n : out[k] = runs[k]
          /\ out[n + 1] = <<i>>
        <3> DEFINE W == Seq(Y) \ {<<>>}
                   one == <<i>>
        <3>1. runs \in Seq(W) /\ one \in W /\ n = Len(runs)
            BY <2>2, <2>3 DEF n
        <3> HIDE DEF W, one
        <3>2. Append(runs, one) \in Seq(W) /\ DOMAIN Append(runs, one) = 1..(n + 1)
              /\ (\A k \in 1..n : Append(runs, one)[k] = runs[k])
              /\ Append(runs, one)[n + 1] = one
            BY <3>1
        <3> QED BY <3>2 DEF W, one
    <2> HIDE DEF out
    <2>0. \A k \in 1..(n + 1) : k = n + 1 \/ k \in 1..n
        BY <1>1
    <2>5. \A k \in 1..(n + 1) : IsInjective(out[k])
        BY <1>1, <2>0, <2>2, <2>4
    <2>6. ASSUME NEW j \in 1..(n + 1), NEW k \in 1..(n + 1), j # k
          PROVE  Range(out[j]) \cap Range(out[k]) = {}
        <3>1. CASE j = n + 1
            <4>1. out[j] = <<i>> /\ k \in 1..n /\ out[k] = runs[k]
                BY <2>0, <2>4, <2>6, <3>1
            <4> QED BY <1>2, <2>2, <4>1
        <3>2. CASE k = n + 1
            <4>1. out[k] = <<i>> /\ j \in 1..n /\ out[j] = runs[j]
                BY <2>0, <2>4, <2>6, <3>2
            <4> QED BY <1>2, <2>2, <4>1
        <3>3. CASE j # n + 1 /\ k # n + 1
            <4>1. j \in 1..n /\ k \in 1..n
                BY <2>0, <3>3
            <4> QED BY <1>1, <2>4, <2>6, <4>1
        <3> QED BY <3>1, <3>2, <3>3
    <2>7. ASSUME NEW x \in Y PROVE \E k \in 1..(n + 1) : x \in Range(out[k])
        <3>1. CASE x = i
            <4>1. n + 1 \in 1..(n + 1)
                BY <1>1
            <4>2. i \in Range(out[n + 1])
                BY <2>2, <2>4
            <4> QED BY <3>1, <4>1, <4>2
        <3>2. CASE x # i
            <4>1. PICK k \in 1..n : x \in Range(runs[k])
                BY <1>1, <3>2
            <4>2. k \in 1..(n + 1) /\ out[k] = runs[k]
                BY <1>1, <2>4
            <4> QED BY <4>1, <4>2
        <3> QED BY <3>1, <3>2
    <2> QED BY <2>1, <2>4, <2>5, <2>6, <2>7 DEF RunsOver
<1> QED BY <1>3, <1>4

\* The runs of a band have its fragments between them, each once.
LEMMA SplitBandRuns ==
    ASSUME IsPage(page), NEW side \in Side, NEW band \in SUBSET Fragments(side)
    PROVE  RunsOver(SplitBand(side, band), band)
<1> DEFINE n == Cardinality(band)
           byX == ByX(side, band)
           upTo(k) == {byX[m] : m \in 1..k}
           V == Seq(Seq(band))
           Step(k, v) == Flushed(side, v, byX[k])
           G == [p \in Nat \X V |-> IF p[1] \in 1..n THEN Step(p[1], p[2]) ELSE p[2]]
           Is(u) == u = [k \in 0..n |-> IF k = 0 THEN <<>> ELSE Step(k, u[k - 1])]
           it == CHOOSE u : Is(u)
<1>1. IsFiniteSet(band) /\ n \in Nat /\ \A i \in band : i \in Nat /\ BoxOf(side, i) \in Boxes
    BY FragmentsFit, FS_Subset, FS_CardinalityType
<1>2. /\ byX \in [1..n -> band] /\ IsInjective(byX) /\ Range(byX) = band
    <2> DEFINE u == [i \in band |-> BoxOf(side, i).x0]
               w == [i \in band |-> i]
               before == {p \in band \X band :
                            \/ BoxOf(side, p[1]).x0 < BoxOf(side, p[2]).x0
                            \/ BoxOf(side, p[1]).x0 = BoxOf(side, p[2]).x0 /\ p[1] < p[2]}
    <2>1. u \in [band -> Int] /\ w \in [band -> Int]
        BY <1>1 DEF Boxes
    <2>2. \A x, y \in band : <<x, y>> \in before =>
                \/ u[x] < u[y]
                \/ u[x] = u[y] /\ u[x] < u[y]
                \/ u[x] = u[y] /\ u[x] = u[y] /\ w[x] < w[y]
        OBVIOUS
    <2>3. HasFirsts(band, before)
        <3> HIDE DEF u, w, before
        <3> QED BY <1>1, <2>1, <2>2, FirstsBy
    <2>4. IsOrder(Ordered(band, before), band, before)
        <3> HIDE DEF before
        <3> QED BY <1>1, <2>3, OrderedIsOrder
    <2>5. byX = Ordered(band, before)
        BY DEF ByX
    <2> HIDE DEF byX, before
    <2> QED BY <2>4, <2>5 DEF IsOrder
<1> HIDE DEF byX
<1>3. \A k \in 1..n, v \in V : Step(k, v) \in V
    <2>1. ASSUME NEW k \in 1..n, NEW v \in V PROVE Flushed(side, v, byX[k]) \in V
        <3>1. byX[k] \in band
            BY <1>2
        <3> DEFINE i == byX[k]
                   W == Seq(band)
        <3>2. i \in band /\ v \in Seq(W)
            BY <3>1
        <3>3. <<i>> \in W
            BY <3>2
        <3>4. v # <<>> => Front(v) \in Seq(W) /\ Append(Last(v), i) \in W
            <4>1. ASSUME v # <<>> PROVE Front(v) \in Seq(W) /\ Append(Last(v), i) \in W
                <5> HIDE DEF i
                <5>1. Last(v) \in W /\ Front(v) \in Seq(W)
                    <6> HIDE DEF W
                    <6> QED BY <3>2, <4>1 DEF Last, Front
                <5> QED BY <3>2, <5>1
            <4> QED BY <4>1
        <3> DEFINE one == <<i>>
                   more == Append(Last(v), i)
        <3>5. Flushed(side, v, i) \in {Append(v, one), Append(Front(v), more)}
              /\ (Flushed(side, v, i) = Append(v, one) \/ v # <<>>)
            <4> HIDE DEF i
            <4> QED BY DEF Flushed
        <3> HIDE DEF W, i, one, more
        <3>6. Flushed(side, v, i) \in Seq(W)
            <4>1. v \in Seq(W) /\ one \in W /\ (v # <<>> => Front(v) \in Seq(W) /\ more \in W)
                BY <3>2, <3>3, <3>4 DEF one, more
            <4>2. Append(v, one) \in Seq(W)
                BY <4>1
            <4>3. v # <<>> => Append(Front(v), more) \in Seq(W)
                <5> DEFINE fr == Front(v)
                <5>1. v # <<>> => fr \in Seq(W) /\ more \in W
                    BY <4>1
                <5> HIDE DEF fr
                <5>2. v # <<>> => Append(fr, more) \in Seq(W)
                    BY <5>1
                <5> QED BY <5>2 DEF fr
            <4> QED BY <3>5, <4>2, <4>3
        <3> QED BY <3>6 DEF W, i
    <2> QED BY <2>1
<1>4. G \in [Nat \X V -> V]
    <2> HIDE DEF V, n, Step
    <2> QED BY <1>3
<1>5. PICK f \in [0..n -> V] : f[0] = <<>> /\ \A k \in 1..n : f[k] = G[<<k, f[k - 1]>>]
    <2>1. <<>> \in V
        OBVIOUS
    <2> DEFINE b == <<>>
    <2>2. b \in V
        BY <2>1
    <2> HIDE DEF G, n, V, b
    <2>3. Recursive(V, b, G, n)
        BY <1>1, <1>4, <2>2, RecursionExists
    <2> QED BY <2>3 DEF Recursive, b
<1>6. Is(f)
    <2> HIDE DEF V, Step
    <2>1. ASSUME NEW k \in 1..n PROVE f[k] = Step(k, f[k - 1])
        <3>1. f[k] = G[<<k, f[k - 1]>>] /\ f[k - 1] \in V /\ k \in Nat
            <4>1. k - 1 \in 0..n /\ k \in Nat
                BY <1>1
            <4> HIDE DEF G, n
            <4> QED BY <1>5, <4>1
        <3> HIDE DEF n
        <3> QED BY <3>1
    <2>2. \A k \in 0..n : k = 0 \/ k \in 1..n
        BY <1>1
    <2> HIDE DEF G, n
    <2> QED BY <1>5, <2>1, <2>2
<1>7. Is(it)
    <2> HIDE DEF Is
    <2> QED BY <1>6
<1>8. SplitBand(side, band) = it[n]
    BY DEF SplitBand, byX
<1> HIDE DEF it, G, V
<1>9. it[0] = <<>> /\ \A k \in 1..n : it[k] = Step(k, it[k - 1])
    <2>1. 0 \in 0..n /\ \A k \in 1..n : k \in 0..n /\ k # 0
        BY <1>1
    <2> HIDE DEF Step, n
    <2> QED BY <1>7, <2>1
<1>10. \A k \in 0..n : RunsOver(it[k], upTo(k))
    <2> DEFINE S == {k \in 0..n : RunsOver(it[k], upTo(k))}
    <2>1. 0 \in S
        <3>1. RunsOver(<<>>, {})
            BY DEF RunsOver
        <3>2. upTo(0) = {}
            OBVIOUS
        <3>3. 0 \in 0..n
            BY <1>1
        <3>4. RunsOver(it[0], upTo(0))
            BY <1>9, <3>1, <3>2
        <3> HIDE DEF n, upTo
        <3> QED BY <3>3, <3>4
    <2>2. ASSUME NEW k \in 0..n, k < n, k \in S PROVE k + 1 \in S
        <3>1. k + 1 \in 1..n /\ (k + 1) - 1 = k /\ k \in Nat
            BY <1>1, <2>2
        <3>2. it[k + 1] = Flushed(side, it[k], byX[k + 1])
            BY <1>9, <3>1
        <3>3. upTo(k + 1) = upTo(k) \cup {byX[k + 1]}
            <4>1. \A m \in 1..(k + 1) : m = k + 1 \/ m \in 1..k
                BY <3>1
            <4>2. \A m \in 1..k : m \in 1..(k + 1)
                BY <3>1
            <4>3. k + 1 \in 1..(k + 1)
                BY <3>1
            <4> QED BY <4>1, <4>2, <4>3
        <3>4. byX[k + 1] \notin upTo(k)
            <4>1. \A m \in 1..k : m \in 1..n /\ m # k + 1
                BY <1>1, <3>1
            <4>2. DOMAIN byX = 1..n
                BY <1>2
            <4> HIDE DEF n
            <4> QED BY <1>2, <3>1, <4>1, <4>2 DEF IsInjective
        <3>5. RunsOver(it[k], upTo(k))
            BY <2>2
        <3> HIDE DEF upTo, n
        <3>6. RunsOver(it[k + 1], upTo(k + 1))
            BY <3>2, <3>3, <3>4, <3>5, FlushedRuns
        <3>7. k + 1 \in 0..n
            BY <3>1
        <3> QED BY <3>6, <3>7
    <2> HIDE DEF S, n
    <2>3. \A k \in 0..n : k \in S
        BY <1>1, <2>1, <2>2, UpTo
    <2> QED BY <2>3 DEF S
<1>11. upTo(n) = band
    <2> HIDE DEF n
    <2> QED BY <1>2 DEF Range
<1>12. n \in 0..n
    BY <1>1
<1> HIDE DEF n, upTo
<1> QED BY <1>8, <1>10, <1>11, <1>12

---------------------------------------------------------------------------
(* Sequences of sequences *)

\* How FlattenSeq goes through its sequences.
LEMMA FlattenIsWalked ==
    ASSUME NEW X, NEW ss \in Seq(Seq(X)), ss # <<>>
    PROVE  \E u \in [1..Len(ss) -> Seq(X)] :
                /\ u[1] = ss[1]
                /\ \A i \in 2..Len(ss) : u[i] = u[i - 1] \o ss[i]
                /\ FlattenSeq(ss) = u[Len(ss)]
<1> DEFINE n == Len(ss)
           V == Seq(X)
           Step(i, v) == v \o ss[i]
           G == [p \in Nat \X V |-> IF p[1] \in 1..(n - 1) THEN Step(p[1] + 1, p[2]) ELSE p[2]]
           Is(u) == u = [i \in 1..n |-> IF i = 1 THEN ss[i] ELSE Step(i, u[i - 1])]
           it == CHOOSE u : Is(u)
<1>1. n \in Nat /\ n >= 1 /\ n - 1 \in Nat /\ \A i \in 1..n : ss[i] \in V
    OBVIOUS
<1>2. \A i \in 1..n, v \in V : Step(i, v) \in V
    BY <1>1
<1>3. G \in [Nat \X V -> V]
    <2>1. \A i \in 1..(n - 1) : i + 1 \in 1..n
        BY <1>1
    <2> HIDE DEF V, n, Step
    <2> QED BY <1>2, <2>1
<1>4. PICK f \in [0..(n - 1) -> V] : f[0] = ss[1] /\ \A i \in 1..(n - 1) : f[i] = G[<<i, f[i - 1]>>]
    <2> DEFINE b == ss[1]
               k == n - 1
    <2>1. b \in V /\ k \in Nat
        BY <1>1
    <2> HIDE DEF G, V, b, k
    <2>2. Recursive(V, b, G, k)
        BY <1>3, <2>1, RecursionExists
    <2> QED BY <2>2 DEF Recursive, b, k
<1> DEFINE g == [i \in 1..n |-> f[i - 1]]
<1>5. g \in [1..n -> V] /\ g[1] = ss[1] /\ \A i \in 2..n : g[i] = Step(i, g[i - 1])
    <2>1. \A i \in 1..n : i - 1 \in 0..(n - 1)
        BY <1>1
    <2>2. g \in [1..n -> V]
        <3> HIDE DEF n, V
        <3> QED BY <1>4, <2>1
    <2>3. g[1] = ss[1]
        BY <1>1, <1>4
    <2>4. ASSUME NEW i \in 2..n PROVE g[i] = Step(i, g[i - 1])
        <3>1. /\ i \in Nat /\ i - 1 \in 1..(n - 1) /\ i - 1 \in 1..n /\ i \in 1..n
              /\ (i - 1) - 1 \in 0..(n - 1) /\ (i - 1) + 1 = i
            BY <1>1
        <3>2. g[i] = f[i - 1] /\ g[i - 1] = f[(i - 1) - 1]
            BY <3>1
        <3> HIDE DEF g, Step, V, n, G
        <3>3. f[i - 1] = G[<<i - 1, f[(i - 1) - 1]>>] /\ f[(i - 1) - 1] \in V /\ i - 1 \in Nat
            <4>1. i - 1 \in Nat
                BY <1>1, <3>1
            <4> QED BY <1>4, <3>1, <4>1
        <3>4. G[<<i - 1, f[(i - 1) - 1]>>] = Step(i, f[(i - 1) - 1])
            BY <3>1, <3>3 DEF G
        <3> QED BY <3>2, <3>3, <3>4
    <2> QED BY <2>2, <2>3, <2>4
<1>6. Is(g)
    <2>1. \A i \in 1..n : i = 1 \/ i \in 2..n
        BY <1>1
    <2>2. \A i \in 1..n : g[i] = IF i = 1 THEN ss[i] ELSE Step(i, g[i - 1])
        <3> HIDE DEF g, Step, n
        <3> QED BY <1>5, <2>1
    <2>3. g = [i \in 1..n |-> g[i]]
        OBVIOUS
    <2> HIDE DEF g, Step, n
    <2> QED BY <2>2, <2>3
<1>7. Is(it)
    <2> HIDE DEF Is
    <2> QED BY <1>6
<1>8. FlattenSeq(ss) = it[n]
    BY <1>1 DEF FlattenSeq
<1> HIDE DEF it, G, g
<1>9. it[1] = ss[1] /\ \A i \in 2..n : it[i] = it[i - 1] \o ss[i]
    <2>1. 1 \in 1..n /\ \A i \in 2..n : i \in 1..n /\ i # 1
        BY <1>1
    <2> HIDE DEF n
    <2> QED BY <1>7, <2>1
<1>10. \A i \in 1..n : it[i] \in V
    <2> DEFINE S == {k \in 0..n : k = 0 \/ it[k] \in V}
    <2>1. 0 \in S
        BY <1>1
    <2>2. ASSUME NEW k \in 0..n, k < n, k \in S PROVE k + 1 \in S
        <3>1. CASE k = 0
            <4>1. it[1] \in V /\ 1 \in 0..n
                BY <1>1, <1>9
            <4> HIDE DEF V, n
            <4> QED BY <3>1, <4>1
        <3>2. CASE k # 0
            <4>1. k + 1 \in 2..n /\ (k + 1) - 1 = k /\ k + 1 \in 1..n /\ k + 1 \in 0..n
                BY <1>1, <2>2, <3>2
            <4>2. it[k + 1] = Step(k + 1, it[k]) /\ it[k] \in V
                BY <1>9, <2>2, <3>2, <4>1
            <4> HIDE DEF V, n, Step
            <4> QED BY <1>2, <4>1, <4>2
        <3> QED BY <3>1, <3>2
    <2>3. \A k \in 0..n : k \in S
        <3> HIDE DEF S, n
        <3> QED BY <1>1, <2>1, <2>2, UpTo
    <2>4. \A i \in 1..n : i \in 0..n /\ i # 0
        BY <1>1
    <2> HIDE DEF V, n
    <2> QED BY <2>3, <2>4
<1>11. it = [i \in 1..n |-> it[i]]
    <2> HIDE DEF V
    <2> QED BY <1>7, Zenon
<1> HIDE DEF V
<1>12. it \in [1..n -> V]
    <2> HIDE DEF n
    <2> QED BY <1>10, <1>11
<1> QED BY <1>8, <1>9, <1>12 DEF V

\* Concatenating sequences of different elements.
LEMMA ConcatApart ==
    ASSUME NEW X, NEW s \in Seq(X), NEW t \in Seq(X)
    PROVE  /\ s \o t \in Seq(X) /\ Range(s \o t) = Range(s) \cup Range(t)
           /\ (IsInjective(s) /\ IsInjective(t) /\ Range(s) \cap Range(t) = {})
                => IsInjective(s \o t)
<1> DEFINE u == s \o t
           m == Len(s)
           n == Len(t)
<1>1. /\ u \in Seq(X) /\ m \in Nat /\ n \in Nat /\ DOMAIN s = 1..m /\ DOMAIN t = 1..n
      /\ DOMAIN u = 1..(m + n)
      /\ \A i \in 1..m : u[i] = s[i]
      /\ \A i \in 1..n : u[m + i] = t[i]
    OBVIOUS
<1> HIDE DEF u, m, n
<1>2. \A i \in 1..(m + n) : i \in 1..m \/ (i - m \in 1..n /\ u[i] = t[i - m])
    <2>1. ASSUME NEW i \in 1..(m + n), i \notin 1..m PROVE i - m \in 1..n /\ u[i] = t[i - m]
        <3>1. i - m \in 1..n /\ m + (i - m) = i
            BY <1>1, <2>1
        <3>2. u[m + (i - m)] = t[i - m]
            BY <1>1, <3>1
        <3> QED BY <3>1, <3>2
    <2> QED BY <2>1
<1>3. \A i \in 1..m : i \in 1..(m + n)
    BY <1>1
<1>4. \A i \in 1..n : m + i \in 1..(m + n)
    BY <1>1
<1>5. Range(u) = Range(s) \cup Range(t)
    <2>1. Range(u) \subseteq Range(s) \cup Range(t)
        BY <1>1, <1>2 DEF Range
    <2>2. Range(s) \subseteq Range(u)
        BY <1>1, <1>3 DEF Range
    <2>3. Range(t) \subseteq Range(u)
        <3>1. ASSUME NEW i \in 1..n PROVE t[i] \in Range(u)
            <4>1. m + i \in DOMAIN u /\ u[m + i] = t[i]
                BY <1>1, <1>4
            <4> QED BY <4>1 DEF Range
        <3> QED BY <1>1, <3>1 DEF Range
    <2> QED BY <2>1, <2>2, <2>3
<1>6. ASSUME IsInjective(s), IsInjective(t), Range(s) \cap Range(t) = {} PROVE IsInjective(u)
    <2>1. ASSUME NEW i \in 1..(m + n), NEW j \in 1..(m + n), u[i] = u[j] PROVE i = j
        <3>1. CASE i \in 1..m /\ j \in 1..m
            BY <1>1, <1>6, <2>1, <3>1 DEF IsInjective
        <3>2. CASE i \in 1..m /\ j \notin 1..m
            BY <1>1, <1>2, <1>6, <2>1, <3>2 DEF Range
        <3>3. CASE i \notin 1..m /\ j \in 1..m
            BY <1>1, <1>2, <1>6, <2>1, <3>3 DEF Range
        <3>4. CASE i \notin 1..m /\ j \notin 1..m
            <4>1. i - m = j - m
                <5>1. /\ i - m \in 1..n /\ u[i] = t[i - m]
                      /\ j - m \in 1..n /\ u[j] = t[j - m]
                    BY <1>2, <3>4
                <5> QED BY <1>1, <1>6, <2>1, <5>1 DEF IsInjective
            <4> QED BY <1>1, <4>1
        <3> QED BY <3>1, <3>2, <3>3, <3>4
    <2> QED BY <1>1, <2>1 DEF IsInjective
<1> QED BY <1>1, <1>5, <1>6 DEF u

\* Flattening sequences that share no element repeats none.
LEMMA FlattenFits ==
    ASSUME NEW X, NEW ss \in Seq(Seq(X))
    PROVE  /\ FlattenSeq(ss) \in Seq(X)
           /\ Range(FlattenSeq(ss)) = UNION {Range(ss[i]) : i \in DOMAIN ss}
           /\ (/\ \A i \in DOMAIN ss : IsInjective(ss[i])
               /\ \A i, j \in DOMAIN ss : i # j => Range(ss[i]) \cap Range(ss[j]) = {})
                => IsInjective(FlattenSeq(ss))
<1> DEFINE n == Len(ss)
           Apart == /\ \A i \in DOMAIN ss : IsInjective(ss[i])
                    /\ \A i, j \in DOMAIN ss : i # j => Range(ss[i]) \cap Range(ss[j]) = {}
<1>1. n \in Nat /\ DOMAIN ss = 1..n /\ \A i \in 1..n : ss[i] \in Seq(X)
    OBVIOUS
<1>2. CASE ss = <<>>
    <2>1. FlattenSeq(ss) = <<>> /\ DOMAIN ss = {}
        BY <1>2 DEF FlattenSeq
    <2>2. <<>> \in Seq(X) /\ Range(<<>>) = {} /\ IsInjective(<<>>)
        BY DEF Range, IsInjective
    <2> QED BY <2>1, <2>2
<1>3. CASE ss # <<>>
    <2>1. PICK u \in [1..n -> Seq(X)] :
                /\ u[1] = ss[1]
                /\ \A i \in 2..n : u[i] = u[i - 1] \o ss[i]
                /\ FlattenSeq(ss) = u[n]
        BY <1>3, FlattenIsWalked
    <2>2. n >= 1
        BY <1>1, <1>3
    <2> DEFINE Upto(k) == UNION {Range(ss[i]) : i \in 1..k}
               S == {k \in 0..n : k = 0 \/ (Range(u[k]) = Upto(k) /\ (Apart => IsInjective(u[k])))}
    <2> HIDE DEF n
    <2>3. 0 \in S
        BY <1>1
    <2>4. ASSUME NEW k \in 0..n, k < n, k \in S PROVE k + 1 \in S
        <3>1. k + 1 \in 1..n /\ k \in Nat
            BY <1>1, <2>4
        <3>2. CASE k = 0
            <4>1. u[1] = ss[1] /\ 1 \in 1..n /\ 1..1 = {1}
                BY <1>1, <2>1, <2>2
            <4>2. Upto(1) = Range(ss[1])
                BY <4>1
            <4>3. Apart => IsInjective(u[1])
                BY <1>1, <4>1
            <4> HIDE DEF Upto, Apart
            <4>4. 1 \in 0..n /\ k + 1 = 1
                BY <3>1, <3>2
            <4> QED BY <4>1, <4>2, <4>3, <4>4
        <3>3. CASE k # 0
            <4>1. k + 1 \in 2..n /\ (k + 1) - 1 = k /\ k \in 1..n /\ k + 1 \in 0..n
                BY <1>1, <2>4, <3>1, <3>3
            <4>2. u[k + 1] = u[k] \o ss[k + 1] /\ u[k] \in Seq(X) /\ ss[k + 1] \in Seq(X)
                BY <1>1, <2>1, <3>1, <4>1
            <4>3. Range(u[k]) = Upto(k) /\ (Apart => IsInjective(u[k]))
                BY <2>4, <3>3
            <4>4. Upto(k + 1) = Upto(k) \cup Range(ss[k + 1])
                <5>1. \A i \in 1..(k + 1) : i \in 1..k \/ i = k + 1
                    BY <3>1
                <5>2. \A i \in 1..k : i \in 1..(k + 1)
                    BY <3>1
                <5>3. k + 1 \in 1..(k + 1)
                    BY <3>1
                <5> QED BY <5>1, <5>2, <5>3
            <4>5. Apart => Upto(k) \cap Range(ss[k + 1]) = {} /\ IsInjective(ss[k + 1])
                <5>1. \A i \in 1..k : i \in 1..n /\ i # k + 1
                    BY <1>1, <3>1
                <5> QED BY <1>1, <3>1, <5>1
            <4> HIDE DEF Upto, Apart
            <4> DEFINE s == u[k]
                       t == ss[k + 1]
            <4>6. s \in Seq(X) /\ t \in Seq(X)
                BY <4>2
            <4>7. /\ Range(s \o t) = Range(s) \cup Range(t)
                  /\ (IsInjective(s) /\ IsInjective(t) /\ Range(s) \cap Range(t) = {})
                        => IsInjective(s \o t)
                <5> HIDE DEF s, t
                <5> QED BY <4>6, ConcatApart
            <4>8. Range(u[k + 1]) = Upto(k + 1) /\ (Apart => IsInjective(u[k + 1]))
                BY <4>2, <4>3, <4>4, <4>5, <4>7
            <4> QED BY <4>1, <4>8
        <3> QED BY <3>2, <3>3
    <2>5. n \in S
        <3> HIDE DEF S
        <3>1. n \in 0..n
            BY <1>1
        <3> QED BY <1>1, <2>3, <2>4, <3>1, UpTo
    <2>6. Range(u[n]) = Upto(n) /\ (Apart => IsInjective(u[n])) /\ u[n] \in Seq(X)
        BY <1>1, <2>1, <2>2, <2>5
    <2> QED BY <1>1, <2>1, <2>6
<1> QED BY <1>2, <1>3

---------------------------------------------------------------------------
(* Runs and blocks of a page *)

\* The runs of the lines have all fragments of a side, each in one run.
LEMMA LineRunsFit ==
    ASSUME IsPage(page), NEW side \in Side
    PROVE  /\ IsFiniteSet(LineRuns(side))
           /\ \A r \in LineRuns(side) :
                /\ r \in Seq(Fragments(side)) /\ r # <<>> /\ IsInjective(r)
                /\ Range(r) \subseteq Fragments(side) /\ Range(r) # {}
           /\ \A r, s \in LineRuns(side) : r # s => Range(r) \cap Range(s) = {}
<1> DEFINE S == Fragments(side)
           bands == Components(S, Banded(side))
           runs(band) == SplitBand(side, band)
<1>1. Banded(side) \in SUBSET (S \X S) /\ IsFiniteSet(S)
    BY FragmentsFit DEF Banded
<1>2. \A band \in bands : band \in SUBSET S
    BY DEF Components, Component
<1>3. ASSUME NEW band \in bands
      PROVE  /\ RunsOver(runs(band), band) /\ IsFiniteSet(Range(runs(band)))
             /\ \A r \in Range(runs(band)) : r \in Seq(band) /\ r # <<>> /\ IsInjective(r)
             /\ \A r, s \in Range(runs(band)) : r # s => Range(r) \cap Range(s) = {}
    <2>1. RunsOver(runs(band), band)
        BY <1>2, <1>3, SplitBandRuns
    <2> DEFINE x == runs(band)
               W == Seq(band) \ {<<>>}
    <2> HIDE DEF x
    <2>2. /\ x \in Seq(W) /\ \A i \in DOMAIN x : IsInjective(x[i])
          /\ \A i, j \in DOMAIN x : i # j => Range(x[i]) \cap Range(x[j]) = {}
        BY <2>1 DEF RunsOver, x
    <2>3. DOMAIN x = 1..Len(x) /\ Len(x) \in Nat /\ \A i \in DOMAIN x : x[i] \in W
        <3> HIDE DEF W
        <3> QED BY <2>2
    <2>4. IsFiniteSet(Range(x))
        <3>1. IsFiniteSet(DOMAIN x)
            BY <2>3, FS_Interval
        <3>2. x \in Surjection(DOMAIN x, Range(x))
            <4>1. x = [i \in DOMAIN x |-> x[i]]
                <5> HIDE DEF W
                <5> QED BY <2>2
            <4> QED BY <4>1 DEF Surjection, Range
        <3> QED BY <3>1, <3>2, FS_Surjection
    <2>5. \A r \in Range(x) : r \in Seq(band) /\ r # <<>> /\ IsInjective(r)
        BY <2>2, <2>3 DEF Range
    <2>6. \A r, s \in Range(x) : r # s => Range(r) \cap Range(s) = {}
        <3>1. \A r \in Range(x) : \E i \in DOMAIN x : r = x[i]
            BY DEF Range
        <3> QED BY <2>2, <3>1
    <2> QED BY <2>1, <2>4, <2>5, <2>6 DEF x
<1>4. LineRuns(side) = UNION {Range(runs(band)) : band \in bands}
    BY DEF LineRuns
<1>5. IsFiniteSet(LineRuns(side))
    <2>1. IsFiniteSet(bands)
        <3>1. bands \subseteq SUBSET S
            BY <1>2
        <3> HIDE DEF bands, S
        <3> QED BY <1>1, <3>1, FS_SUBSET, FS_Subset
    <2> DEFINE f == [band \in bands |-> Range(runs(band))]
               T == {Range(runs(band)) : band \in bands}
    <2>2. f \in Surjection(bands, T)
        BY DEF Surjection
    <2>3. IsFiniteSet(T)
        <3> HIDE DEF f, T, bands
        <3> QED BY <2>1, <2>2, FS_Surjection
    <2>4. \A t \in T : IsFiniteSet(t)
        BY <1>3
    <2> HIDE DEF T
    <2>5. IsFiniteSet(UNION T)
        BY <2>3, <2>4, FS_UNION
    <2> QED BY <1>4, <2>5 DEF T
<1>6. ASSUME NEW r \in LineRuns(side)
      PROVE  /\ r \in Seq(S) /\ r # <<>> /\ IsInjective(r) /\ Range(r) \subseteq S /\ Range(r) # {}
             /\ \E band \in bands : r \in Range(runs(band)) /\ Range(r) \subseteq band
    <2>1. PICK band \in bands : r \in Range(runs(band))
        BY <1>4
    <2>2. r \in Seq(band) /\ r # <<>> /\ IsInjective(r) /\ band \subseteq S
        BY <1>2, <1>3, <2>1
    <2>3. r \in Seq(S)
        BY <2>2, SeqMonotonic
    <2>4. Range(r) \subseteq band
        BY <2>2 DEF Range
    <2>5. Range(r) # {}
        <3>1. 1 \in DOMAIN r
            BY <2>2
        <3> QED BY <3>1 DEF Range
    <2> QED BY <2>1, <2>2, <2>3, <2>4, <2>5
<1>7. ASSUME NEW r \in LineRuns(side), NEW s \in LineRuns(side), r # s
      PROVE  Range(r) \cap Range(s) = {}
    <2>1. PICK B \in bands : r \in Range(runs(B)) /\ Range(r) \subseteq B
        BY <1>6
    <2>2. PICK C \in bands : s \in Range(runs(C)) /\ Range(s) \subseteq C
        BY <1>6
    <2>3. CASE B = C
        BY <1>3, <1>7, <2>1, <2>2, <2>3
    <2>4. CASE B # C
        <3>1. B \cap C = {}
            BY <1>1, <2>4, ComponentsApart
        <3> QED BY <2>1, <2>2, <3>1
    <2> QED BY <2>3, <2>4
<1> QED BY <1>5, <1>6, <1>7

\* A node's runs in reading order, and their fragments in that order.
LEMMA RunsOfFit ==
    ASSUME IsPage(page), NEW side \in Side, NEW nodes \in SUBSET Nodes
    PROVE  LET runs == RunsOf(nodes, side)
               order == FlattenSeq(runs)
           IN  /\ runs \in Seq(LineRuns(side))
               /\ \A r : r \in Range(runs) <=> <<side, r>> \in nodes
               /\ order \in Seq(Fragments(side)) /\ IsInjective(order)
               /\ \A i : i \in Range(order) <=> \E r \in Range(runs) : i \in Range(r)
<1> DEFINE R == {n[2] : n \in {m \in nodes : m[1] = side}}
           before == {p \in R \X R : Above(side, p[1], p[2])}
           u == [r \in R |-> Bounds(side, Range(r)).y0]
           v == [r \in R |-> Bounds(side, Range(r)).x0]
           w == [r \in R |-> r[1]]
           runs == RunsOf(nodes, side)
<1>1. \A r : r \in R <=> <<side, r>> \in nodes
    <2>1. \A n \in nodes : n = <<n[1], n[2]>>
        BY DEF Nodes
    <2> QED BY <2>1
<1>2. R \subseteq LineRuns(side)
    <2>1. \A r \in R : <<side, r>> \in Nodes
        BY <1>1
    <2> QED BY <2>1 DEF Nodes
<1> HIDE DEF R
<1>3. IsFiniteSet(R)
    BY <1>2, LineRunsFit, FS_Subset
<1>4. \A r \in R : /\ Bounds(side, Range(r)) \in Boxes
                   /\ r[1] \in Nat
    <2>1. ASSUME NEW r \in R PROVE Bounds(side, Range(r)) \in Boxes /\ r[1] \in Nat
        <3>1. r \in Seq(Fragments(side)) /\ r # <<>> /\ Range(r) \in SUBSET Fragments(side) /\ Range(r) # {}
            BY <1>2, LineRunsFit
        <3>2. Bounds(side, Range(r)) \in Boxes
            BY <3>1, BoundsFit
        <3>3. r[1] \in Fragments(side)
            BY <3>1
        <3>4. Fragments(side) \subseteq Nat
            BY FragmentsFit
        <3> QED BY <3>2, <3>3, <3>4
    <2> QED BY <2>1
<1>5. u \in [R -> Int] /\ v \in [R -> Int] /\ w \in [R -> Int]
    BY <1>4 DEF Boxes
<1>6. \A r, s \in R : <<r, s>> \in before =>
            \/ u[r] < u[s]
            \/ u[r] = u[s] /\ v[r] < v[s]
            \/ u[r] = u[s] /\ v[r] = v[s] /\ w[r] < w[s]
    BY DEF Above
<1>7. IsOrder(Ordered(R, before), R, before)
    <2>1. HasFirsts(R, before)
        <3> HIDE DEF before, u, v, w
        <3> QED BY <1>3, <1>5, <1>6, FirstsBy
    <2> HIDE DEF before
    <2> QED BY <1>3, <2>1, OrderedIsOrder
<1>8. runs = Ordered(R, before)
    BY DEF RunsOf, ReadingOrder, R
<1> HIDE DEF runs, before, u, v, w
<1>9. runs \in [1..Cardinality(R) -> R] /\ IsInjective(runs) /\ Range(runs) = R /\ Cardinality(R) \in Nat
    BY <1>3, <1>7, <1>8, FS_CardinalityType DEF IsOrder
<1>10. runs \in Seq(LineRuns(side)) /\ runs \in Seq(Seq(Fragments(side))) /\ DOMAIN runs = 1..Cardinality(R)
    <2> DEFINE X == LineRuns(side)
               Y == Seq(Fragments(side))
    <2>1. R \subseteq X /\ R \subseteq Y
        BY <1>2, LineRunsFit
    <2> HIDE DEF X, Y
    <2>2. runs \in Seq(X) /\ runs \in Seq(Y)
        BY <1>9, <2>1
    <2> QED BY <1>9, <2>2 DEF X, Y
<1>11. \A i \in DOMAIN runs : IsInjective(runs[i])
    BY <1>2, <1>9, LineRunsFit
<1>12. \A i, j \in DOMAIN runs : i # j => Range(runs[i]) \cap Range(runs[j]) = {}
    <2>1. ASSUME NEW i \in DOMAIN runs, NEW j \in DOMAIN runs, i # j
          PROVE  Range(runs[i]) \cap Range(runs[j]) = {}
        <3>1. runs[i] # runs[j]
            BY <1>9, <2>1 DEF IsInjective
        <3>2. runs[i] \in LineRuns(side) /\ runs[j] \in LineRuns(side)
            BY <1>2, <1>9
        <3> QED BY <3>1, <3>2, LineRunsFit
    <2> QED BY <2>1
<1>13. /\ FlattenSeq(runs) \in Seq(Fragments(side)) /\ IsInjective(FlattenSeq(runs))
       /\ Range(FlattenSeq(runs)) = UNION {Range(runs[i]) : i \in DOMAIN runs}
    <2> DEFINE X == Fragments(side)
    <2>1. runs \in Seq(Seq(X))
        BY <1>10
    <2> HIDE DEF X
    <2>2. /\ FlattenSeq(runs) \in Seq(X) /\ IsInjective(FlattenSeq(runs))
          /\ Range(FlattenSeq(runs)) = UNION {Range(runs[i]) : i \in DOMAIN runs}
        BY <1>11, <1>12, <2>1, FlattenFits
    <2> QED BY <2>2 DEF X
<1>14. \A i : i \in Range(FlattenSeq(runs)) <=> \E r \in Range(runs) : i \in Range(r)
    <2>1. \A r \in Range(runs) : \E i \in DOMAIN runs : r = runs[i]
        BY DEF Range
    <2>2. \A i \in DOMAIN runs : runs[i] \in Range(runs)
        BY DEF Range
    <2> QED BY <1>13, <2>1, <2>2
<1> QED BY <1>1, <1>9, <1>10, <1>13, <1>14 DEF runs

\* A block orders different fragments of the page, and two blocks share none.
LEMMA BlocksFit ==
    ASSUME IsPage(page), NEW b \in Blocks, NEW side \in Side
    PROVE  /\ b.runs[side] \in Seq(LineRuns(side))
           /\ b.order[side] \in Seq(Fragments(side)) /\ IsInjective(b.order[side])
           /\ Range(b.order[side]) \subseteq Fragments(side)
           /\ \A i : i \in Range(b.order[side]) <=> \E r \in Range(b.runs[side]) : i \in Range(r)
<1>1. PICK nodes \in Components(Nodes, Links) : b = BlockOf(nodes)
    BY DEF Blocks
<1>2. nodes \in SUBSET Nodes
    BY DEF Components, Component
<1>3. b.runs[side] = RunsOf(nodes, side) /\ b.order[side] = FlattenSeq(RunsOf(nodes, side))
    BY <1>1 DEF BlockOf, Side
<1>4. Range(b.order[side]) \subseteq Fragments(side)
    BY <1>2, <1>3, RunsOfFit DEF Range
<1> QED BY <1>2, <1>3, <1>4, RunsOfFit

\* A fragment is in one block at most, and left of right of two blocks alike.
LEMMA BlocksApart ==
    ASSUME IsPage(page), NEW b \in Blocks, NEW c \in Blocks, NEW side \in Side,
           NEW i, i \in Range(b.order[side]), i \in Range(c.order[side])
    PROVE  b = c
<1>1. PICK B \in Components(Nodes, Links), C \in Components(Nodes, Links) :
            b = BlockOf(B) /\ c = BlockOf(C)
    BY DEF Blocks
<1>2. B \in SUBSET Nodes /\ C \in SUBSET Nodes
    BY DEF Components, Component
<1>3. b.runs[side] = RunsOf(B, side) /\ c.runs[side] = RunsOf(C, side)
    BY <1>1 DEF BlockOf, Side
<1>4. PICK r \in Range(b.runs[side]), s \in Range(c.runs[side]) : i \in Range(r) /\ i \in Range(s)
    BY BlocksFit
<1>5. <<side, r>> \in B /\ <<side, s>> \in C
    BY <1>2, <1>3, RunsOfFit
<1>6. r \in LineRuns(side) /\ s \in LineRuns(side)
    BY <1>2, <1>5 DEF Nodes
<1>7. r = s
    BY <1>4, <1>6, LineRunsFit
<1>8. Links \in SUBSET (Nodes \X Nodes)
    BY DEF Links
<1>9. B = C
    BY <1>5, <1>7, <1>8, ComponentsApart
<1> QED BY <1>1, <1>9

---------------------------------------------------------------------------
(* The bounded assignment *)

Cells(nLeft, nRight) == (0..nLeft) \X (0..nRight)
CellOf(cost) == [total : Int, pairs : SUBSET DOMAIN cost, rank : Nat]

\* The pairs that may end at i and j.
Ends(cost, i, j) ==
    {m \in (1..Least(i, MaxSpanFragments)) \X (1..Least(j, MaxSpanFragments)) :
        KeyAt(i, j, m) \in DOMAIN cost}

\* The last pair of a way to a cell is of spans that end there.
LEMMA EndsFit ==
    ASSUME NEW i \in Nat, NEW j \in Nat, NEW cost, NEW m \in Ends(cost, i, j)
    PROVE  /\ m = <<m[1], m[2]>> /\ m[1] \in 1..4 /\ m[2] \in 1..4
           /\ i - m[1] \in 0..(i - 1) /\ j - m[2] \in 0..(j - 1)
           /\ KeyAt(i, j, m) \in DOMAIN cost
<1>1. m[1] \in 1..Least(i, 4) /\ m[2] \in 1..Least(j, 4) /\ m = <<m[1], m[2]>>
      /\ KeyAt(i, j, m) \in DOMAIN cost
    BY DEF Ends, MaxSpanFragments
<1>2. \A k \in 1..Least(i, 4) : k \in 1..4 /\ i - k \in 0..(i - 1)
    BY DEF Least
<1>3. \A k \in 1..Least(j, 4) : k \in 1..4 /\ j - k \in 0..(j - 1)
    BY DEF Least
<1> QED BY <1>1, <1>2, <1>3

\* There are finitely many of them.
LEMMA EndsAreFinite ==
    ASSUME NEW i \in Nat, NEW j \in Nat, NEW cost
    PROVE  IsFiniteSet(Ends(cost, i, j))
<1>1. Ends(cost, i, j) \subseteq (1..4) \X (1..4)
    BY EndsFit
<1>2. IsFiniteSet((1..4) \X (1..4))
    <2>1. \A k \in Nat : IsFiniteSet(1..k)
        BY FS_Interval
    <2> QED BY <2>1, FS_Product
<1> QED BY <1>1, <1>2, FS_Subset

\* The ways to a cell are finitely many cells.
LEMMA WaysFit ==
    ASSUME NEW nLeft \in Nat, NEW nRight \in Nat, NEW K, NEW cost \in [K -> Int],
           NEW T \in [Cells(nLeft, nRight) -> CellOf(cost)],
           NEW i \in 0..nLeft, NEW j \in 0..nRight, i + j > 0
    PROVE  LET ways == WaysTo(T, cost, i, j)
           IN  ways \subseteq CellOf(cost) /\ IsFiniteSet(ways) /\ ways # {}
<1> DEFINE ms == Ends(cost, i, j)
           matches == {MatchMove(T, cost, i, j, m) : m \in ms}
           left == IF i > 0 THEN {SkipMove(T[<<i - 1, j>>], 100)} ELSE {}
           right == IF j > 0 THEN {SkipMove(T[<<i, j - 1>>], 101)} ELSE {}
           ways == WaysTo(T, cost, i, j)
<1>1. ways = matches \cup left \cup right
    BY DEF WaysTo, Ends
<1>2. i \in Nat /\ j \in Nat /\ DOMAIN cost = K
    OBVIOUS
<1>3. ASSUME NEW m \in ms PROVE MatchMove(T, cost, i, j, m) \in CellOf(cost)
    <2>1. /\ m[1] \in 1..4 /\ m[2] \in 1..4 /\ <<i - m[1], j - m[2]>> \in Cells(nLeft, nRight)
          /\ KeyAt(i, j, m) \in DOMAIN cost
        BY <1>2, EndsFit DEF Cells
    <2> DEFINE rest == T[<<i - m[1], j - m[2]>>]
               key == KeyAt(i, j, m)
    <2>2. rest \in CellOf(cost) /\ key \in DOMAIN cost /\ cost[key] \in Int
        BY <1>2, <2>1
    <2> HIDE DEF rest, key
    <2>3. /\ rest.total + cost[key] - PairPreference \in Int
          /\ rest.pairs \cup {key} \in SUBSET DOMAIN cost
          /\ 10 * m[1] + m[2] \in Nat
        BY <2>1, <2>2 DEF CellOf, PairPreference
    <2>4. MatchMove(T, cost, i, j, m) =
            [total |-> rest.total + cost[key] - PairPreference,
             pairs |-> rest.pairs \cup {key}, rank |-> 10 * m[1] + m[2]]
        BY DEF MatchMove, rest, key
    <2> QED BY <2>3, <2>4 DEF CellOf
<1>4. \A c \in CellOf(cost), k \in Nat : SkipMove(c, k) \in CellOf(cost)
    BY DEF CellOf, SkipMove, UnmatchedPenalty
<1>5. left \subseteq CellOf(cost) /\ IsFiniteSet(left)
    <2>1. i > 0 => <<i - 1, j>> \in Cells(nLeft, nRight)
        BY DEF Cells
    <2>2. i > 0 => SkipMove(T[<<i - 1, j>>], 100) \in CellOf(cost)
        BY <1>4, <2>1
    <2> QED BY <2>2, FS_EmptySet, FS_Singleton
<1>6. right \subseteq CellOf(cost) /\ IsFiniteSet(right)
    <2>1. j > 0 => <<i, j - 1>> \in Cells(nLeft, nRight)
        BY DEF Cells
    <2>2. j > 0 => SkipMove(T[<<i, j - 1>>], 101) \in CellOf(cost)
        BY <1>4, <2>1
    <2> QED BY <2>2, FS_EmptySet, FS_Singleton
<1>7. IsFiniteSet(matches)
    <2> DEFINE f == [m \in ms |-> MatchMove(T, cost, i, j, m)]
    <2>1. f \in Surjection(ms, matches)
        BY DEF Surjection
    <2>2. IsFiniteSet(ms)
        BY <1>2, EndsAreFinite
    <2> HIDE DEF f, ms, matches
    <2> QED BY <2>1, <2>2, FS_Surjection
<1>8. left # {} \/ right # {}
    <2>1. i > 0 \/ j > 0
        BY <1>2
    <2> QED BY <2>1
<1>9. matches \subseteq CellOf(cost)
    BY <1>3
<1> HIDE DEF matches, left, right, ways
<1>10. IsFiniteSet((matches \cup left) \cup right)
    BY <1>5, <1>6, <1>7, FS_Union
<1> QED BY <1>1, <1>5, <1>6, <1>8, <1>9, <1>10 DEF ways

\* Of finitely many moves one is best.
LEMMA BestMoveExists ==
    ASSUME NEW moves, IsFiniteSet(moves), moves # {},
           \A m \in moves : m.total \in Int /\ m.rank \in Int
    PROVE  /\ BestMove(moves) \in moves
           /\ \A m \in moves : BestMove(moves).total <= m.total
<1> DEFINE u == [m \in moves |-> m.total]
           v == [m \in moves |-> m.rank]
           before == {p \in moves \X moves :
                        p[1].total < p[2].total \/ (p[1].total = p[2].total /\ p[1].rank < p[2].rank)}
<1>1. HasFirsts(moves, before)
    <2>1. u \in [moves -> Int] /\ v \in [moves -> Int]
        OBVIOUS
    <2>2. \A x, y \in moves : <<x, y>> \in before =>
                \/ u[x] < u[y]
                \/ u[x] = u[y] /\ v[x] < v[y]
                \/ u[x] = u[y] /\ v[x] = v[y] /\ v[x] < v[y]
        OBVIOUS
    <2> HIDE DEF u, v, before
    <2> QED BY <2>1, <2>2, FirstsBy
<1>2. PICK m \in moves : \A n \in moves : <<n, m>> \notin before
    <2> HIDE DEF before
    <2>1. moves \in (SUBSET moves) \ {{}}
        OBVIOUS
    <2> QED BY <1>1, <2>1 DEF HasFirsts
<1>3. \A n \in moves : m.total < n.total \/ (m.total = n.total /\ m.rank <= n.rank)
    <2>1. ASSUME NEW n \in moves
          PROVE  m.total < n.total \/ (m.total = n.total /\ m.rank <= n.rank)
        <3>1. ~(n.total < m.total \/ (n.total = m.total /\ n.rank < m.rank))
            BY <1>2
        <3>2. m.total \in Int /\ n.total \in Int /\ m.rank \in Int /\ n.rank \in Int
            OBVIOUS
        <3> QED BY <3>1, <3>2
    <2> QED BY <2>1
<1> DEFINE best == BestMove(moves)
<1>4. best \in moves /\ \A n \in moves : best.total < n.total \/ (best.total = n.total /\ best.rank <= n.rank)
    BY <1>3 DEF BestMove
<1> HIDE DEF best
<1>5. \A n \in moves : best.total <= n.total
    BY <1>4
<1> QED BY <1>4, <1>5 DEF best

\* Two tables that are the same on the diagonals below k.
SameBelow(T, U, nLeft, nRight, k) ==
    \A c \in Cells(nLeft, nRight) : c[1] + c[2] < k => T[c] = U[c]

\* A cell is reached from cells of smaller i + j.
LEMMA WaysAgree ==
    ASSUME NEW nLeft \in Nat, NEW nRight \in Nat, NEW cost, NEW T, NEW U,
           NEW i \in 0..nLeft, NEW j \in 0..nRight,
           SameBelow(T, U, nLeft, nRight, i + j)
    PROVE  WaysTo(T, cost, i, j) = WaysTo(U, cost, i, j)
<1>1. i \in Nat /\ j \in Nat
    OBVIOUS
<1>2. ASSUME NEW m \in Ends(cost, i, j)
      PROVE  MatchMove(T, cost, i, j, m) = MatchMove(U, cost, i, j, m)
    <2>1. m[1] \in 1..4 /\ m[2] \in 1..4 /\ i - m[1] \in 0..(i - 1) /\ j - m[2] \in 0..(j - 1)
        BY <1>1, EndsFit
    <2>2. /\ <<i - m[1], j - m[2]>> \in Cells(nLeft, nRight)
          /\ (i - m[1]) + (j - m[2]) < i + j
        BY <2>1 DEF Cells
    <2>3. T[<<i - m[1], j - m[2]>>] = U[<<i - m[1], j - m[2]>>]
        BY <2>2 DEF SameBelow
    <2> QED BY <2>3 DEF MatchMove
<1>3. i > 0 => T[<<i - 1, j>>] = U[<<i - 1, j>>]
    BY <1>1 DEF Cells, SameBelow
<1>4. j > 0 => T[<<i, j - 1>>] = U[<<i, j - 1>>]
    BY <1>1 DEF Cells, SameBelow
<1>5. {MatchMove(T, cost, i, j, m) : m \in Ends(cost, i, j)}
        = {MatchMove(U, cost, i, j, m) : m \in Ends(cost, i, j)}
    BY <1>2
<1> QED BY <1>3, <1>4, <1>5 DEF WaysTo, Ends

\* A table whose every cell is the best way to it.
Filled(T, nLeft, nRight, cost) ==
    /\ T \in [Cells(nLeft, nRight) -> CellOf(cost)]
    /\ T[<<0, 0>>] = NoMove
    /\ \A i \in 0..nLeft, j \in 0..nRight :
            i + j > 0 => T[<<i, j>>] = BestMove(WaysTo(T, cost, i, j))

\* Solve is the last cell of such a table.
LEMMA SolveIsFilled ==
    ASSUME NEW nLeft \in Nat, NEW nRight \in Nat, NEW K, NEW cost \in [K -> Int]
    PROVE  \E T : /\ Filled(T, nLeft, nRight, cost)
                  /\ Solve(nLeft, nRight, cost) = T[<<nLeft, nRight>>]
<1> DEFINE cells == Cells(nLeft, nRight)
           n == nLeft + nRight
           V == [cells -> CellOf(cost)]
           Step(d, cell) ==
                [c \in cells |-> IF c[1] + c[2] = d THEN BestMove(WaysTo(cell, cost, c[1], c[2]))
                                                    ELSE cell[c]]
           G == [p \in Nat \X V |-> IF p[1] \in 1..n THEN Step(p[1], p[2]) ELSE p[2]]
           b == [c \in cells |-> NoMove]
           Is(u) == u = [d \in 0..n |-> IF d = 0 THEN b ELSE Step(d, u[d - 1])]
           it == CHOOSE u : Is(u)
<1>1. n \in Nat /\ \A c \in cells : c = <<c[1], c[2]>> /\ c[1] \in 0..nLeft /\ c[2] \in 0..nRight
    BY DEF Cells
<1>2. b \in V
    BY DEF NoMove, CellOf
<1>3. ASSUME NEW T \in V, NEW i \in 0..nLeft, NEW j \in 0..nRight, i + j > 0
      PROVE  BestMove(WaysTo(T, cost, i, j)) \in CellOf(cost)
    <2> DEFINE ways == WaysTo(T, cost, i, j)
    <2>1. ways \subseteq CellOf(cost) /\ IsFiniteSet(ways) /\ ways # {}
        BY <1>3, WaysFit
    <2> HIDE DEF ways
    <2>2. \A m \in ways : m.total \in Int /\ m.rank \in Int
        BY <2>1 DEF CellOf
    <2>3. BestMove(ways) \in ways
        BY <2>1, <2>2, BestMoveExists
    <2> QED BY <2>1, <2>3 DEF ways
<1>4. \A d \in 1..n, T \in V : Step(d, T) \in V
    <2>1. ASSUME NEW d \in 1..n, NEW T \in V, NEW c \in cells
          PROVE  (IF c[1] + c[2] = d THEN BestMove(WaysTo(T, cost, c[1], c[2])) ELSE T[c]) \in CellOf(cost)
        <3>1. CASE c[1] + c[2] = d
            <4>1. c[1] \in 0..nLeft /\ c[2] \in 0..nRight /\ c[1] + c[2] > 0
                BY <1>1, <3>1
            <4> HIDE DEF V
            <4> QED BY <1>3, <3>1, <4>1
        <3>2. CASE c[1] + c[2] # d
            BY <3>2
        <3> QED BY <3>1, <3>2
    <2> HIDE DEF n, cells
    <2> QED BY <2>1
<1>5. G \in [Nat \X V -> V]
    <2> HIDE DEF V, n, Step
    <2> QED BY <1>4
<1>6. PICK f \in [0..n -> V] : f[0] = b /\ \A d \in 1..n : f[d] = G[<<d, f[d - 1]>>]
    <2> HIDE DEF G, V, n, b
    <2>1. Recursive(V, b, G, n)
        BY <1>1, <1>2, <1>5, RecursionExists
    <2> QED BY <2>1 DEF Recursive
<1>7. \A d \in 1..n : f[d] = Step(d, f[d - 1]) /\ f[d - 1] \in V
    <2>1. ASSUME NEW d \in 1..n PROVE f[d] = Step(d, f[d - 1]) /\ f[d - 1] \in V
        <3>1. d - 1 \in 0..n /\ d \in Nat
            BY <1>1
        <3> HIDE DEF V, Step, n
        <3>2. f[d - 1] \in V /\ f[d] = G[<<d, f[d - 1]>>]
            <4> HIDE DEF G
            <4> QED BY <1>6, <3>1
        <3> QED BY <3>1, <3>2
    <2> HIDE DEF n, V, Step
    <2> QED BY <2>1
<1>8. Is(f)
    <2>1. \A d \in 0..n : d = 0 \/ d \in 1..n
        BY <1>1
    <2>2. f = [d \in 0..n |-> f[d]]
        <3> HIDE DEF n, V
        <3> QED BY <1>6
    <2>3. \A d \in 0..n : f[d] = IF d = 0 THEN b ELSE Step(d, f[d - 1])
        <3> HIDE DEF n, V, Step, b, G
        <3> QED BY <1>6, <1>7, <2>1
    <2> HIDE DEF n, V, Step, b, G
    <2> QED BY <2>2, <2>3
<1>9. Is(it)
    <2> HIDE DEF Is
    <2> QED BY <1>8
<1>10. Solve(nLeft, nRight, cost) = it[n][<<nLeft, nRight>>]
    BY DEF Solve, Cells
<1> HIDE DEF it, G
<1>11. it[0] = b /\ \A d \in 1..n : it[d] = Step(d, it[d - 1])
    <2>1. 0 \in 0..n /\ \A d \in 1..n : d \in 0..n /\ d # 0
        BY <1>1
    <2> HIDE DEF n, Step, b, V
    <2> QED BY <1>9, <2>1
<1>12. \A d \in 0..n : it[d] \in V
    <2> DEFINE S == {d \in 0..n : it[d] \in V}
    <2>1. 0 \in S
        <3>1. 0 \in 0..n
            BY <1>1
        <3> HIDE DEF n, V, b
        <3> QED BY <1>2, <1>11, <3>1
    <2>2. ASSUME NEW d \in 0..n, d < n, d \in S PROVE d + 1 \in S
        <3>1. d + 1 \in 1..n /\ (d + 1) - 1 = d /\ d + 1 \in 0..n
            BY <1>1, <2>2
        <3> HIDE DEF n, V, Step
        <3> QED BY <1>4, <1>11, <2>2, <3>1
    <2> HIDE DEF S, n
    <2>3. \A d \in 0..n : d \in S
        BY <1>1, <2>1, <2>2, UpTo
    <2> QED BY <2>3 DEF S
<1>13. \A d \in 1..n, c \in cells :
            it[d][c] = IF c[1] + c[2] = d THEN BestMove(WaysTo(it[d - 1], cost, c[1], c[2]))
                                          ELSE it[d - 1][c]
    <2>1. ASSUME NEW d \in 1..n, NEW c \in cells
          PROVE  it[d][c] = IF c[1] + c[2] = d THEN BestMove(WaysTo(it[d - 1], cost, c[1], c[2]))
                                               ELSE it[d - 1][c]
        <3>1. it[d] = Step(d, it[d - 1])
            <4> HIDE DEF n, cells, b, Step
            <4> QED BY <1>11
        <3> HIDE DEF cells
        <3> QED BY <3>1
    <2> HIDE DEF n, cells
    <2> QED BY <2>1
<1> DEFINE T == it[n]
\* Once filled a cell stays.
<1>14. \A c \in cells : \A d \in 0..n : c[1] + c[2] <= d => it[d][c] = it[c[1] + c[2]][c]
    <2>1. SUFFICES ASSUME NEW c \in cells
                   PROVE  \A d \in 0..n : c[1] + c[2] <= d => it[d][c] = it[c[1] + c[2]][c]
        OBVIOUS
    <2> DEFINE s == c[1] + c[2]
               S == {d \in 0..n : s <= d => it[d][c] = it[s][c]}
    <2>2. s \in 0..n
        BY <1>1
    <2> HIDE DEF s
    <2>3. 0 \in S
        BY <1>1, <2>2
    <2>4. ASSUME NEW d \in 0..n, d < n, d \in S PROVE d + 1 \in S
        <3>1. d + 1 \in 1..n /\ (d + 1) - 1 = d /\ d + 1 \in 0..n
            <4> HIDE DEF S, n
            <4> QED BY <1>1, <2>4
        <3>2. s # d + 1 => it[d + 1][c] = it[d][c]
            BY <1>13, <3>1 DEF s
        <3>3. s <= d + 1 => s = d + 1 \/ s <= d
            BY <1>1, <2>2
        <3> QED BY <2>4, <3>1, <3>2, <3>3
    <2>5. \A d \in 0..n : d \in S
        <3> HIDE DEF S, n
        <3> QED BY <1>1, <2>3, <2>4, UpTo
    <2> QED BY <2>5 DEF s
<1>15. \A c \in cells : c[1] + c[2] \in 0..n /\ n \in 0..n
    BY <1>1
<1>16. T \in V
    BY <1>12, <1>15, <1>1
<1>17. T[<<0, 0>>] = NoMove
    <2>1. <<0, 0>> \in cells
        BY DEF Cells
    <2>2. T[<<0, 0>>] = it[0][<<0, 0>>]
        BY <1>1, <1>14, <2>1
    <2> QED BY <1>11, <2>1, <2>2
<1>18. ASSUME NEW i \in 0..nLeft, NEW j \in 0..nRight, i + j > 0
       PROVE  T[<<i, j>>] = BestMove(WaysTo(T, cost, i, j))
    <2> DEFINE d == i + j
               c == <<i, j>>
    <2>1. c \in cells /\ c[1] = i /\ c[2] = j /\ d \in 1..n /\ d - 1 \in 0..n /\ n \in 0..n
        BY <1>18 DEF Cells
    <2>2. T[c] = it[d][c]
        <3>1. d <= n
            BY <2>1
        <3>2. c[1] + c[2] = d
            BY <2>1
        <3> HIDE DEF d, n, c, cells
        <3> QED BY <1>14, <2>1, <3>1, <3>2
    <2>3. it[d][c] = BestMove(WaysTo(it[d - 1], cost, i, j))
        BY <1>13, <2>1
    <2>4. ASSUME NEW e \in cells, e[1] + e[2] < d PROVE it[d - 1][e] = T[e]
        <3>1. e[1] + e[2] <= d - 1 /\ e[1] + e[2] <= n
            BY <1>1, <1>15, <2>1, <2>4
        <3> QED BY <1>14, <2>1, <3>1
    <2>5. WaysTo(it[d - 1], cost, i, j) = WaysTo(T, cost, i, j)
        <3> DEFINE U == it[d - 1]
        <3>1. \A e \in Cells(nLeft, nRight) : e[1] + e[2] < i + j => U[e] = T[e]
            BY <2>4
        <3>2. SameBelow(U, T, nLeft, nRight, i + j)
            <4> HIDE DEF U, T
            <4> QED BY <3>1 DEF SameBelow
        <3> HIDE DEF U, T
        <3>3. WaysTo(U, cost, i, j) = WaysTo(T, cost, i, j)
            BY <3>2, WaysAgree
        <3> QED BY <3>3 DEF U
    <2> QED BY <2>2, <2>3, <2>5
<1> HIDE DEF T
<1>19. Filled(T, nLeft, nRight, cost)
    BY <1>16, <1>17, <1>18 DEF Filled
<1> QED BY <1>10, <1>19 DEF T

---------------------------------------------------------------------------
(* Candidates *)

\* Spans with the same covers are the same span.
LEMMA SpansFit ==
    ASSUME IsPage(page), NEW b \in Blocks, NEW side \in Side, NEW s \in Spans(b, side)
    PROVE  /\ s = [from |-> s.from, len |-> s.len]
           /\ Len(b.order[side]) \in Nat /\ DOMAIN b.order[side] = 1..Len(b.order[side])
           /\ s.from \in 1..Len(b.order[side]) /\ s.len \in 1..4
           /\ s.from + s.len - 1 \in 1..Len(b.order[side])
           /\ Covers(b, side, s) \subseteq Range(b.order[side])
           /\ Covers(b, side, s) # {}
           /\ \A k \in s.from..(s.from + s.len - 1) : k \in 1..Len(b.order[side])
<1>1. b.order[side] \in Seq(Fragments(side))
    BY BlocksFit
<1>2. Len(b.order[side]) \in Nat /\ DOMAIN b.order[side] = 1..Len(b.order[side])
    BY <1>1
<1>3. /\ s = [from |-> s.from, len |-> s.len]
      /\ s.from \in 1..Len(b.order[side]) /\ s.len \in 1..4
      /\ s.from + s.len - 1 \in 1..Len(b.order[side])
    <2>1. /\ s \in [from : DOMAIN b.order[side], len : 1..MaxSpanFragments]
          /\ s.from + s.len - 1 \in DOMAIN b.order[side]
        BY DEF Spans
    <2> QED BY <1>2, <2>1 DEF MaxSpanFragments
<1>4. \A k \in s.from..(s.from + s.len - 1) : k \in 1..Len(b.order[side])
    BY <1>2, <1>3
<1>5. s.from \in s.from..(s.from + s.len - 1)
    BY <1>2, <1>3
<1> QED BY <1>2, <1>3, <1>4, <1>5 DEF Covers, Range

\* A candidate pairs spans of the block's fragments, at a cost.
LEMMA CandidatesFit ==
    ASSUME IsPage(page), NEW b \in Blocks, NEW p \in Candidates(b)
    PROVE  /\ p = Pairing(b, p.l, p.r)
           /\ p.l \in Spans(b, "left") /\ p.r \in Spans(b, "right")
           /\ p.left = Covers(b, "left", p.l) /\ p.right = Covers(b, "right", p.r)
           /\ p.left \subseteq Range(b.order.left) /\ p.right \subseteq Range(b.order.right)
           /\ p.left \subseteq Fragments("left") /\ p.right \subseteq Fragments("right")
           /\ p.left # {} /\ p.right # {} /\ IsFiniteSet(p.left) /\ IsFiniteSet(p.right)
           /\ CostOf(p) \in 0..100
<1>1. PICK l \in Spans(b, "left"), r \in Spans(b, "right") : p = Pairing(b, l, r)
    BY DEF Candidates
<1>2. p.l = l /\ p.r = r /\ p.left = Covers(b, "left", l) /\ p.right = Covers(b, "right", r)
    BY <1>1 DEF Pairing
<1>3. "left" \in Side /\ "right" \in Side
    BY DEF Side
<1>4. /\ p.left \subseteq Range(b.order["left"]) /\ p.left # {}
      /\ p.right \subseteq Range(b.order["right"]) /\ p.right # {}
    BY <1>2, <1>3, SpansFit
<1>5. /\ Range(b.order["left"]) \subseteq Fragments("left")
      /\ Range(b.order["right"]) \subseteq Fragments("right")
    BY <1>3, BlocksFit
<1>6. /\ IsFiniteSet(Fragments("left")) /\ Fragments("left") \subseteq DOMAIN page["left"]
      /\ IsFiniteSet(Fragments("right")) /\ Fragments("right") \subseteq DOMAIN page["right"]
    BY <1>3, FragmentsFit
<1>7. p.left \subseteq Fragments("left") /\ p.right \subseteq Fragments("right")
    BY <1>4, <1>5
<1>8. IsFiniteSet(p.left) /\ IsFiniteSet(p.right)
    BY <1>6, <1>7, FS_Subset
<1>9. CostOf(p) \in 0..100
    <2>1. p.left \in (SUBSET DOMAIN page.left) \ {{}} /\ p.right \in (SUBSET DOMAIN page.right) \ {{}}
        BY <1>4, <1>6, <1>7
    <2> QED BY <2>1 DEF IsPage, CostOf
<1> QED BY <1>1, <1>2, <1>4, <1>7, <1>8, <1>9

\* A candidate has one key, and a key one candidate.
LEMMA KeyIsOne ==
    ASSUME IsPage(page), NEW b \in Blocks, NEW p \in Candidates(b), NEW q \in Candidates(b),
           Key(p) = Key(q)
    PROVE  p = q
<1>1. /\ p.l.from = q.l.from /\ p.l.len = q.l.len
      /\ p.r.from = q.r.from /\ p.r.len = q.r.len
    BY DEF Key
<1>2. "left" \in Side /\ "right" \in Side
    BY DEF Side
<1>3. p.l \in Spans(b, "left") /\ q.l \in Spans(b, "left") /\ p.r \in Spans(b, "right") /\ q.r \in Spans(b, "right")
    BY CandidatesFit
<1>4. p.l = q.l /\ p.r = q.r
    BY <1>1, <1>2, <1>3, SpansFit
<1> QED BY <1>4, CandidatesFit

\* A block has finitely many candidates.
LEMMA CandidatesAreFinite ==
    ASSUME IsPage(page), NEW b \in Blocks
    PROVE  IsFiniteSet(Candidates(b))
<1> DEFINE C == Candidates(b)
           nl == Len(b.order.left)
           nr == Len(b.order.right)
           left == (1..nl) \X (1..4)
           right == (1..nr) \X (1..4)
           f == [p \in C |-> <<<<p.l.from, p.l.len>>, <<p.r.from, p.r.len>>>>]
<1>0. "left" \in Side /\ "right" \in Side
    BY DEF Side
<1>1. b.order["left"] \in Seq(Fragments("left")) /\ b.order["right"] \in Seq(Fragments("right"))
    BY <1>0, BlocksFit
<1>2. nl \in Nat /\ nr \in Nat
    BY <1>1
<1>3. IsFiniteSet(left \X right)
    <2>1. \A k \in Nat : IsFiniteSet(1..k)
        BY FS_Interval
    <2>2. IsFiniteSet(1..nl) /\ IsFiniteSet(1..nr) /\ IsFiniteSet(1..4)
        BY <1>2, <2>1
    <2>3. IsFiniteSet(left) /\ IsFiniteSet(right)
        BY <2>2, FS_Product
    <2> HIDE DEF left, right
    <2> QED BY <2>3, FS_Product
<1>4. ASSUME NEW p \in C PROVE <<<<p.l.from, p.l.len>>, <<p.r.from, p.r.len>>>> \in left \X right
    <2>1. p.l \in Spans(b, "left") /\ p.r \in Spans(b, "right")
        BY CandidatesFit
    <2>2. p.l.from \in 1..nl /\ p.l.len \in 1..4 /\ p.r.from \in 1..nr /\ p.r.len \in 1..4
        BY <1>0, <2>1, SpansFit
    <2> QED BY <2>2
<1>5. f \in Injection(C, left \X right)
    <2>1. f \in [C -> left \X right]
        <3> HIDE DEF C, left, right
        <3> QED BY <1>4
    <2>2. ASSUME NEW p \in C, NEW q \in C, f[p] = f[q] PROVE p = q
        <3>1. Key(p) = Key(q)
            BY <2>2 DEF Key
        <3> QED BY <3>1, KeyIsOne
    <2> HIDE DEF f, C, left, right
    <2> QED BY <2>1, <2>2 DEF Injection, IsInjective
<1> HIDE DEF f, C, left, right
<1> QED BY <1>3, <1>5, FS_Injection DEF C

---------------------------------------------------------------------------
(* The assignment of a block *)

\* Any of a block's candidates have keys of their own.
LEMMA CostsOfFit ==
    ASSUME IsPage(page), NEW b \in Blocks, NEW candidates \in SUBSET Candidates(b)
    PROVE  /\ CostsOf(candidates) \in [{Key(p) : p \in candidates} -> Int]
           /\ \A p \in candidates : /\ OfKey(candidates, Key(p)) = p
                                    /\ CostsOf(candidates)[Key(p)] = CostOf(p)
<1>1. ASSUME NEW p \in candidates PROVE OfKey(candidates, Key(p)) = p
    <2> DEFINE q == OfKey(candidates, Key(p))
    <2>1. q \in candidates /\ Key(q) = Key(p)
        BY DEF OfKey
    <2> HIDE DEF q
    <2>2. p \in Candidates(b) /\ q \in Candidates(b)
        BY <2>1
    <2>3. q = p
        BY <2>1, <2>2, KeyIsOne
    <2> QED BY <2>3 DEF q
<1>2. \A p \in candidates : CostOf(p) \in Int
    BY CandidatesFit
<1> DEFINE K == {Key(p) : p \in candidates}
<1>3. \A k \in K : CostOf(OfKey(candidates, k)) \in Int
    BY <1>1, <1>2
<1>4. CostsOf(candidates) = [k \in K |-> CostOf(OfKey(candidates, k))]
    BY DEF CostsOf
<1>5. \A p \in candidates : Key(p) \in K
    OBVIOUS
<1> HIDE DEF K
<1> QED BY <1>1, <1>3, <1>4, <1>5 DEF K

\* The assignment of a block is of its candidates, at a whole cost.
LEMMA SolveBlockFits ==
    ASSUME IsPage(page), NEW b \in Blocks, NEW candidates \in SUBSET Candidates(b)
    PROVE  LET solved == SolveBlock(b, candidates)
           IN  solved.pairs \subseteq candidates /\ solved.total \in Int
<1> DEFINE nl == Len(b.order.left)
           nr == Len(b.order.right)
           cost == CostsOf(candidates)
           K == {Key(p) : p \in candidates}
           end == Solve(nl, nr, cost)
<1>1. nl \in Nat /\ nr \in Nat
    <2>1. "left" \in Side /\ "right" \in Side
        BY DEF Side
    <2>2. b.order["left"] \in Seq(Fragments("left")) /\ b.order["right"] \in Seq(Fragments("right"))
        BY <2>1, BlocksFit
    <2> QED BY <2>2
<1>2. cost \in [K -> Int]
    BY CostsOfFit
<1>3. end \in CellOf(cost)
    <2> HIDE DEF nl, nr, cost, K
    <2>1. PICK T : Filled(T, nl, nr, cost) /\ end = T[<<nl, nr>>]
        BY <1>1, <1>2, SolveIsFilled
    <2>2. <<nl, nr>> \in Cells(nl, nr)
        BY <1>1 DEF Cells
    <2> HIDE DEF end
    <2> QED BY <2>1, <2>2 DEF Filled
<1>4. end.total \in Int /\ end.pairs \in SUBSET K
    <2>1. DOMAIN cost = K
        BY <1>2
    <2> HIDE DEF cost, K, end
    <2> QED BY <1>3, <2>1 DEF CellOf
<1>5. \A k \in K : OfKey(candidates, k) \in candidates
    BY CostsOfFit
<1>6. SolveBlock(b, candidates) =
        [total |-> end.total, pairs |-> {OfKey(candidates, k) : k \in end.pairs}]
    BY DEF SolveBlock
<1> HIDE DEF end, K
<1> QED BY <1>4, <1>5, <1>6

---------------------------------------------------------------------------
(* The alignment of a page *)

\* What a block comes to.
BlockOutcome(b) == IF TooLarge(b) THEN [matches |-> {}, ambiguous |-> {}] ELSE MatchBlock(b)

\* MatchBlock without its LET.
LEMMA MatchBlockIs ==
    ASSUME NEW b
    PROVE  LET candidates == Candidates(b)
               optimal == SolveBlock(b, candidates)
           IN  MatchBlock(b) = Outcome(candidates, optimal,
                                       [p \in optimal.pairs |-> Margin(b, candidates, optimal, p)])
BY DEF MatchBlock, Sole

\* An alignment is of the outcomes of its blocks.
LEMMA AlignPageIs == AlignPage = Alignments([b \in Blocks |-> BlockOutcome(b)])
BY DEF AlignPage, Sole, BlockOutcome

\* The outcome of a block is of its own candidates.
LEMMA BlockOutcomeFits ==
    ASSUME IsPage(page), NEW b \in Blocks
    PROVE  /\ BlockOutcome(b).matches \subseteq Candidates(b)
           /\ \A e \in BlockOutcome(b).ambiguous :
                e.unit \in Candidates(b) /\ e.candidates \subseteq Candidates(b)
<1> DEFINE candidates == Candidates(b)
           optimal == SolveBlock(b, candidates)
           margin == [p \in optimal.pairs |-> Margin(b, candidates, optimal, p)]
<1>1. optimal.pairs \subseteq candidates
    BY SolveBlockFits
<1>2. MatchBlock(b) = Outcome(candidates, optimal, margin)
    BY MatchBlockIs
<1>3. /\ Outcome(candidates, optimal, margin).matches \subseteq candidates
      /\ \A e \in Outcome(candidates, optimal, margin).ambiguous :
            e.unit \in candidates /\ e.candidates \subseteq candidates
    <2> HIDE DEF candidates, optimal, margin
    <2> QED BY <1>1 DEF Outcome
<1> HIDE DEF margin, optimal
<1> QED BY <1>2, <1>3 DEF BlockOutcome

\* The units of an entry of the alignment.
Mentioned(e) == {e.unit} \cup e.candidates

\* Matches and candidates are of one block; a fragment's status tells what
\* became of it.
LEMMA AlignPageFits ==
    ASSUME IsPage(page)
    PROVE  /\ \A p \in AlignPage.matches : \E b \in Blocks : p \in BlockOutcome(b).matches
           /\ \A b \in Blocks : BlockOutcome(b).matches \subseteq AlignPage.matches
           /\ \A e \in AlignPage.ambiguous : \E b \in Blocks : e \in BlockOutcome(b).ambiguous
           /\ \A b \in Blocks : BlockOutcome(b).ambiguous \subseteq AlignPage.ambiguous
           /\ AlignPage.orderDifferences \subseteq AlignPage.matches
<1> DEFINE outcome == [b \in Blocks |-> BlockOutcome(b)]
<1>1. /\ AlignPage.matches = UNION {BlockOutcome(b).matches : b \in Blocks}
      /\ AlignPage.ambiguous = UNION {BlockOutcome(b).ambiguous : b \in Blocks}
      /\ AlignPage.orderDifferences \subseteq AlignPage.matches
    <2>1. /\ Alignments(outcome).matches = UNION {outcome[b].matches : b \in DOMAIN outcome}
          /\ Alignments(outcome).ambiguous = UNION {outcome[b].ambiguous : b \in DOMAIN outcome}
          /\ Alignments(outcome).orderDifferences \subseteq Alignments(outcome).matches
        <3> HIDE DEF outcome
        <3> QED BY DEF Alignments
    <2> QED BY <2>1, AlignPageIs
<1> QED BY <1>1

\* The status of a fragment tells which part of the result it is in.
LEMMA StatusTells ==
    ASSUME IsPage(page), NEW side \in Side, NEW i \in DOMAIN page[side]
    PROVE  LET status == AlignPage.status[side][i]
           IN  /\ i \notin Fragments(side) => status = Classify(page[side][i])
               /\ i \in Fragments(side) =>
                    \/ status = "unique" /\ \E p \in AlignPage.matches : i \in p[side]
                    \/ /\ status = "ambiguous"
                       /\ \A p \in AlignPage.matches : i \notin p[side]
                       /\ \E e \in AlignPage.ambiguous : \E p \in Mentioned(e) : i \in p[side]
                    \/ /\ status = "abstained"
                       /\ \A p \in AlignPage.matches : i \notin p[side]
                       /\ \A e \in AlignPage.ambiguous : \A p \in Mentioned(e) : i \notin p[side]
                       /\ \E b \in Blocks : TooLarge(b) /\ i \in Range(b.order[side])
                    \/ /\ status = "unmatched"
                       /\ \A p \in AlignPage.matches : i \notin p[side]
                       /\ \A e \in AlignPage.ambiguous : \A p \in Mentioned(e) : i \notin p[side]
                       /\ \A b \in Blocks : TooLarge(b) => i \notin Range(b.order[side])
<1> DEFINE outcome == [b \in Blocks |-> BlockOutcome(b)]
           matches == Alignments(outcome).matches
           ambiguous == Alignments(outcome).ambiguous
<1>1. DOMAIN outcome = Blocks
    OBVIOUS
<1>2. Alignments(outcome).status[side][i] =
            IF i \notin Fragments(side) THEN Classify(page[side][i])
            ELSE IF \E p \in matches : i \in p[side] THEN "unique"
            ELSE IF \E e \in ambiguous : \E p \in Mentioned(e) : i \in p[side] THEN "ambiguous"
            ELSE IF \E b \in Blocks : TooLarge(b) /\ i \in Range(b.order[side]) THEN "abstained"
            ELSE "unmatched"
    <2> HIDE DEF outcome
    <2> QED BY <1>1 DEF Alignments, Mentioned, Side
<1>3. AlignPage = Alignments(outcome)
    BY AlignPageIs
<1> HIDE DEF outcome
<1> QED BY <1>2, <1>3

---------------------------------------------------------------------------
(* Sums *)

\* A part of S is in H if the parts that are one element smaller are.
Grows(S, H) == \A s \in SUBSET S : (\A x \in s : s \ {x} \in H) => s \in H

\* All parts of a finite set are then in H.
LEMMA PartsInduction ==
    ASSUME NEW S, IsFiniteSet(S), NEW H, Grows(S, H)
    PROVE  SUBSET S \subseteq H
<1> DEFINE N == {k \in Nat : \A s \in SUBSET S : Cardinality(s) <= k => s \in H}
<1>1. \A s \in SUBSET S : IsFiniteSet(s) /\ Cardinality(s) \in Nat
    BY FS_Subset, FS_CardinalityType
<1>2. 0 \in N
    <2>1. ASSUME NEW s \in SUBSET S, Cardinality(s) <= 0 PROVE s \in H
        <3>1. Cardinality(s) = 0
            BY <1>1, <2>1
        <3>2. s = {}
            BY <1>1, <3>1, FS_EmptySet
        <3> QED BY <3>2 DEF Grows
    <2> QED BY <2>1
<1>3. ASSUME NEW k \in N \cap Nat PROVE k + 1 \in N
    <2>1. ASSUME NEW s \in SUBSET S, Cardinality(s) <= k + 1 PROVE s \in H
        <3>1. ASSUME NEW x \in s PROVE s \ {x} \in H
            <4>1. Cardinality(s \ {x}) <= k
                BY <1>1, <2>1, FS_RemoveElement
            <4> QED BY <1>3, <4>1
        <3> QED BY <3>1 DEF Grows
    <2> QED BY <2>1
<1>4. Nat \subseteq N
    <2> HIDE DEF N
    <2> QED BY <1>2, <1>3, NumbersInduction
<1> QED BY <1>1, <1>4

\* The values of Total over the parts of its set.
Follows(it, S, f) ==
    /\ it \in [SUBSET S -> Int]
    /\ it[{}] = 0
    /\ \A s \in (SUBSET S) \ {{}} :
            it[s] = f[CHOOSE x \in s : TRUE] + it[s \ {CHOOSE x \in s : TRUE}]

\* Total takes the elements in the order of CHOOSE.
LEMMA TotalFollows ==
    ASSUME NEW f, IsFiniteSet(DOMAIN f), \A x \in DOMAIN f : f[x] \in Int
    PROVE  \E it : Follows(it, DOMAIN f, f) /\ Total(f) = it[DOMAIN f]
<1> DEFINE S == DOMAIN f
           ch == [s \in (SUBSET S) \ {{}} |-> CHOOSE x \in s : TRUE]
           G == [p \in S \X Int |-> f[p[1]] + p[2]]
           Is(it) == it = [s \in SUBSET S |->
                              IF s = {} THEN 0
                              ELSE f[CHOOSE x \in s : TRUE] + it[s \ {CHOOSE x \in s : TRUE}]]
           fold == CHOOSE it : Is(it)
<1>1. Total(f) = fold[S]
    BY DEF Total, FoldFunction, FoldFunctionOnSet, MapThenFoldSet
<1>2. \A s \in (SUBSET S) \ {{}} : (CHOOSE x \in s : TRUE) \in s
    OBVIOUS
<1>3. /\ ch \in [(SUBSET S) \ {{}} -> S] /\ \A s \in (SUBSET S) \ {{}} : ch[s] \in s
      /\ G \in [S \X Int -> Int]
    <2> HIDE DEF S
    <2>1. \A x \in S : f[x] \in Int
        BY DEF S
    <2> QED BY <1>2, <2>1
<1>4. OverSubsets(S, Int, 0, ch, G)
    <2>1. IsFiniteSet(S) /\ 0 \in Int
        OBVIOUS
    <2> DEFINE V == Int
    <2>2. 0 \in V /\ G \in [S \X V -> V]
        BY <1>3
    <2> HIDE DEF S, ch, G, V
    <2>3. OverSubsets(S, V, 0, ch, G)
        BY <1>3, <2>1, <2>2, FoldExists
    <2> QED BY <2>3 DEF V
<1>5. PICK it \in [SUBSET S -> Int] :
        it[{}] = 0 /\ \A s \in (SUBSET S) \ {{}} : it[s] = G[<<ch[s], it[s \ {ch[s]}]>>]
    BY <1>4 DEF OverSubsets
<1>6. ASSUME NEW s \in (SUBSET S) \ {{}}
      PROVE  it[s] = f[CHOOSE x \in s : TRUE] + it[s \ {CHOOSE x \in s : TRUE}]
    <2> DEFINE x == CHOOSE x \in s : TRUE
    <2>1. x \in s /\ x \in S /\ ch[s] = x
        BY <1>2
    <2> HIDE DEF x, S
    <2>2. it[s] = G[<<x, it[s \ {x}]>>] /\ it[s \ {x}] \in Int
        BY <1>5, <2>1
    <2>3. G[<<x, it[s \ {x}]>>] = f[x] + it[s \ {x}]
        BY <2>1, <2>2
    <2> QED BY <2>2, <2>3 DEF x
<1>7. Is(it)
    <2> HIDE DEF S
    <2> QED BY <1>5, <1>6
<1>8. Is(fold)
    <2> HIDE DEF Is
    <2> QED BY <1>7
<1>9. /\ fold = [s \in SUBSET S |-> fold[s]] /\ fold[{}] = 0
      /\ \A s \in (SUBSET S) \ {{}} :
            fold[s] = f[CHOOSE x \in s : TRUE] + fold[s \ {CHOOSE x \in s : TRUE}]
    <2> HIDE DEF S, fold
    <2> QED BY <1>8
<1> HIDE DEF fold
<1> DEFINE H == {s \in SUBSET S : fold[s] \in Int}
<1>10. ASSUME NEW s \in SUBSET S, \A x \in s : s \ {x} \in H PROVE s \in H
    <2>1. CASE s = {}
        BY <1>9, <2>1
    <2>2. CASE s # {}
        <3> DEFINE x == CHOOSE x \in s : TRUE
        <3>1. x \in s /\ fold[s] = f[x] + fold[s \ {x}]
            BY <1>2, <1>9, <2>2
        <3> HIDE DEF x
        <3>2. f[x] \in Int /\ fold[s \ {x}] \in Int
            BY <1>10, <3>1
        <3> QED BY <3>1, <3>2
    <2> QED BY <2>1, <2>2
<1>11. \A s \in SUBSET S : fold[s] \in Int
    <2>1. IsFiniteSet(S)
        OBVIOUS
    <2>2. SUBSET S \subseteq H
        <3> HIDE DEF H, S
        <3>1. Grows(S, H)
            BY <1>10 DEF Grows
        <3> QED BY <2>1, <3>1, PartsInduction
    <2> QED BY <2>2
<1>12. Follows(fold, S, f)
    <2>1. fold \in [SUBSET S -> Int]
        <3> HIDE DEF S
        <3> QED BY <1>9, <1>11
    <2> HIDE DEF S
    <2> QED BY <1>9, <2>1 DEF Follows
<1> QED BY <1>1, <1>12

\* A function on the parts of S that adds up f, in any order.
Adds(G, S, f) ==
    /\ G \in [SUBSET S -> Int]
    /\ G[{}] = 0
    /\ \A s \in SUBSET S : \A x \in s : G[s] = f[x] + G[s \ {x}]

\* The order in which Total takes the elements does not matter.
LEMMA FollowsAdds ==
    ASSUME NEW S, IsFiniteSet(S), NEW f, \A x \in S : f[x] \in Int, NEW it, Follows(it, S, f)
    PROVE  Adds(it, S, f)
<1> DEFINE H == {s \in SUBSET S : \A x \in s : it[s] = f[x] + it[s \ {x}]}
<1>1. ASSUME NEW s \in SUBSET S, \A x \in s : s \ {x} \in H, NEW x \in s
      PROVE  it[s] = f[x] + it[s \ {x}]
    <2> DEFINE c == CHOOSE y \in s : TRUE
    <2>1. c \in s /\ it[s] = f[c] + it[s \ {c}]
        BY <1>1 DEF Follows
    <2> HIDE DEF c
    <2>2. CASE x = c
        BY <2>1, <2>2
    <2>3. CASE x # c
        <3>1. s \ {c} \in H /\ s \ {x} \in H /\ x \in s \ {c} /\ c \in s \ {x}
            BY <1>1, <2>1, <2>3
        <3>2. it[s \ {c}] = f[x] + it[(s \ {c}) \ {x}] /\ it[s \ {x}] = f[c] + it[(s \ {x}) \ {c}]
            BY <3>1
        <3>3. (s \ {c}) \ {x} = (s \ {x}) \ {c}
            OBVIOUS
        <3> DEFINE rest == it[(s \ {x}) \ {c}]
        <3>4. f[x] \in Int /\ f[c] \in Int /\ rest \in Int
            BY <2>1 DEF Follows
        <3>5. it[s] = f[c] + (f[x] + rest) /\ it[s \ {x}] = f[c] + rest
            BY <2>1, <3>2, <3>3
        <3> HIDE DEF rest, H
        <3>6. f[c] + (f[x] + rest) = f[x] + (f[c] + rest)
            BY <3>4
        <3> QED BY <3>5, <3>6
    <2> QED BY <2>2, <2>3
<1>2. Grows(S, H)
    <2>1. ASSUME NEW s \in SUBSET S, \A x \in s : s \ {x} \in H PROVE s \in H
        BY <1>1, <2>1
    <2> HIDE DEF H
    <2> QED BY <2>1 DEF Grows
<1>3. SUBSET S \subseteq H
    <2> HIDE DEF H
    <2> QED BY <1>2, PartsInduction
<1> QED BY <1>3 DEF Adds, Follows

\* The totals of the parts of a function add up.
LEMMA TotalsAdd ==
    ASSUME NEW S, IsFiniteSet(S), NEW f \in [S -> Int]
    PROVE  \E G : Adds(G, S, f) /\ \A D \in SUBSET S : Total([x \in D |-> f[x]]) = G[D]
<1>1. DOMAIN f = S /\ \A x \in S : f[x] \in Int
    OBVIOUS
<1>2. PICK G : Follows(G, DOMAIN f, f)
    BY <1>1, TotalFollows
<1>3. Follows(G, S, f)
    BY <1>1, <1>2
<1>4. Adds(G, S, f)
    BY <1>1, <1>3, FollowsAdds
<1>5. ASSUME NEW D \in SUBSET S PROVE Total([x \in D |-> f[x]]) = G[D]
    <2> DEFINE g == [x \in D |-> f[x]]
    <2>1. IsFiniteSet(D) /\ DOMAIN g = D /\ \A x \in D : g[x] = f[x] /\ g[x] \in Int
        BY <1>1, FS_Subset
    <2> HIDE DEF g
    <2>2. PICK it : Follows(it, DOMAIN g, g) /\ Total(g) = it[DOMAIN g]
        BY <2>1, TotalFollows
    <2>3. Follows(it, D, g) /\ Total(g) = it[D]
        BY <2>1, <2>2
    <2> DEFINE H == {s \in SUBSET D : it[s] = G[s]}
    <2>4. ASSUME NEW s \in SUBSET D, \A x \in s : s \ {x} \in H PROVE s \in H
        <3>1. CASE s = {}
            BY <1>4, <2>3, <3>1 DEF Follows, Adds
        <3>2. CASE s # {}
            <4> DEFINE x == CHOOSE x \in s : TRUE
            <4>1. x \in s /\ it[s] = g[x] + it[s \ {x}]
                BY <2>3, <3>2 DEF Follows
            <4> HIDE DEF x
            <4>2. G[s] = f[x] + G[s \ {x}]
                BY <1>4, <4>1 DEF Adds
            <4>3. it[s \ {x}] = G[s \ {x}] /\ g[x] = f[x]
                BY <2>1, <2>4, <4>1
            <4> QED BY <4>1, <4>2, <4>3
        <3> QED BY <3>1, <3>2
    <2>5. SUBSET D \subseteq H
        <3> HIDE DEF H
        <3>1. Grows(D, H)
            BY <2>4 DEF Grows
        <3> QED BY <2>1, <3>1, PartsInduction
    <2>6. it[D] = G[D]
        BY <2>5
    <2> QED BY <2>3, <2>6 DEF g
<1> QED BY <1>4, <1>5

---------------------------------------------------------------------------
(* What candidates cover *)

\* A span covers as many fragments as it is long,
LEMMA CoversCount ==
    ASSUME IsPage(page), NEW b \in Blocks, NEW side \in Side, NEW s \in Spans(b, side)
    PROVE  IsFiniteSet(Covers(b, side, s)) /\ Cardinality(Covers(b, side, s)) = s.len
<1> DEFINE I == s.from..(s.from + s.len - 1)
           C == Covers(b, side, s)
           f == [k \in I |-> b.order[side][k]]
<1>1. s.from \in Int /\ s.from + s.len - 1 \in Int /\ s.len \in 1..4
    BY SpansFit
<1>2. IsInjective(b.order[side]) /\ \A k \in I : k \in DOMAIN b.order[side]
    BY BlocksFit, SpansFit
<1>3. IsFiniteSet(I) /\ Cardinality(I) = s.len
    <2>1. IsFiniteSet(I) /\ Cardinality(I) =
            IF s.from > s.from + s.len - 1 THEN 0 ELSE (s.from + s.len - 1) - s.from + 1
        BY <1>1, FS_Interval
    <2> QED BY <1>1, <2>1
<1>4. C = {b.order[side][k] : k \in I}
    BY DEF Covers
<1>5. ExistsBijection(I, C)
    <2> HIDE DEF I, C
    <2>1. f \in [I -> C] /\ \A j, k \in I : f[j] = f[k] => j = k
        BY <1>2, <1>4 DEF IsInjective
    <2>2. \A c \in C : \E k \in I : f[k] = c
        BY <1>4
    <2> HIDE DEF f
    <2>3. f \in Bijection(I, C)
        BY <2>1, <2>2 DEF Bijection, Injection, Surjection, IsInjective
    <2> QED BY <2>3 DEF ExistsBijection
<1> HIDE DEF I, C
<1> QED BY <1>3, <1>5, FS_Bijection DEF C

\* shares one with another span unless it ends before that begins,
LEMMA CoversMeet ==
    ASSUME IsPage(page), NEW b \in Blocks, NEW side \in Side,
           NEW s \in Spans(b, side), NEW t \in Spans(b, side)
    PROVE  Covers(b, side, s) \cap Covers(b, side, t) = {}
                <=> s.from + s.len <= t.from \/ t.from + t.len <= s.from
<1> DEFINE n == Len(b.order[side])
           order == b.order[side]
<1>1. /\ IsInjective(order) /\ DOMAIN order = 1..n
      /\ s.from \in Nat /\ s.len \in Nat /\ s.len >= 1
      /\ t.from \in Nat /\ t.len \in Nat /\ t.len >= 1
      /\ \A k \in s.from..(s.from + s.len - 1) : k \in DOMAIN order
      /\ \A k \in t.from..(t.from + t.len - 1) : k \in DOMAIN order
    <2>1. /\ s.from \in 1..n /\ s.len \in 1..4 /\ t.from \in 1..n /\ t.len \in 1..4
          /\ n \in Nat /\ DOMAIN order = 1..n
          /\ \A k \in s.from..(s.from + s.len - 1) : k \in 1..n
          /\ \A k \in t.from..(t.from + t.len - 1) : k \in 1..n
        BY SpansFit
    <2>2. IsInjective(order)
        BY BlocksFit
    <2> HIDE DEF order, n
    <2> QED BY <2>1, <2>2
<1>2. /\ Covers(b, side, s) = {order[k] : k \in s.from..(s.from + s.len - 1)}
      /\ Covers(b, side, t) = {order[k] : k \in t.from..(t.from + t.len - 1)}
    BY DEF Covers
<1> HIDE DEF order, n
<1>3. ASSUME NEW i, i \in Covers(b, side, s), i \in Covers(b, side, t)
      PROVE  ~(s.from + s.len <= t.from) /\ ~(t.from + t.len <= s.from)
    <2>1. PICK j \in s.from..(s.from + s.len - 1) : i = order[j]
        BY <1>2, <1>3
    <2>2. PICK k \in t.from..(t.from + t.len - 1) : i = order[k]
        BY <1>2, <1>3
    <2>3. j = k
        BY <1>1, <2>1, <2>2 DEF IsInjective
    <2> QED BY <1>1, <2>3
<1>4. ASSUME ~(s.from + s.len <= t.from), ~(t.from + t.len <= s.from)
      PROVE  \E i : i \in Covers(b, side, s) /\ i \in Covers(b, side, t)
    <2>1. CASE s.from <= t.from
        <3>1. t.from \in s.from..(s.from + s.len - 1) /\ t.from \in t.from..(t.from + t.len - 1)
            BY <1>1, <1>4, <2>1
        <3> QED BY <1>2, <3>1
    <2>2. CASE t.from <= s.from
        <3>1. s.from \in s.from..(s.from + s.len - 1) /\ s.from \in t.from..(t.from + t.len - 1)
            BY <1>1, <1>4, <2>2
        <3> QED BY <1>2, <3>1
    <2> QED BY <1>1, <2>1, <2>2
<1> QED BY <1>3, <1>4

\* and is told by what it covers.
LEMMA CoversTell ==
    ASSUME IsPage(page), NEW b \in Blocks, NEW side \in Side,
           NEW s \in Spans(b, side), NEW t \in Spans(b, side), Covers(b, side, s) = Covers(b, side, t)
    PROVE  s = t
<1> DEFINE order == b.order[side]
           first(x) == x.from
           last(x) == x.from + x.len - 1
<1>1. IsInjective(order)
    BY BlocksFit
<1>2. /\ s.from \in Nat /\ s.len \in Nat /\ s.len >= 1 /\ s = [from |-> s.from, len |-> s.len]
      /\ t.from \in Nat /\ t.len \in Nat /\ t.len >= 1 /\ t = [from |-> t.from, len |-> t.len]
      /\ \A k \in s.from..last(s) : k \in DOMAIN order
      /\ \A k \in t.from..last(t) : k \in DOMAIN order
    <2> DEFINE n == Len(b.order[side])
    <2>1. /\ s = [from |-> s.from, len |-> s.len] /\ s.from \in 1..n /\ s.len \in 1..4
          /\ t = [from |-> t.from, len |-> t.len] /\ t.from \in 1..n /\ t.len \in 1..4
          /\ n \in Nat /\ DOMAIN order = 1..n
          /\ \A k \in s.from..last(s) : k \in 1..n
          /\ \A k \in t.from..last(t) : k \in 1..n
        BY SpansFit
    <2> HIDE DEF order, n, last
    <2> QED BY <2>1
<1>3. /\ \A i : i \in Covers(b, side, s) <=> \E k \in s.from..last(s) : order[k] = i
      /\ \A i : i \in Covers(b, side, t) <=> \E k \in t.from..last(t) : order[k] = i
    BY DEF Covers
<1> HIDE DEF order
<1>4. \A k \in s.from..last(s) : k \in t.from..last(t)
    <2>1. ASSUME NEW k \in s.from..last(s) PROVE k \in t.from..last(t)
        <3> HIDE DEF last
        <3>0. order[k] \in Covers(b, side, t)
            BY <1>3
        <3>1. PICK j \in t.from..last(t) : order[j] = order[k]
            BY <1>3, <3>0
        <3>2. j = k
            BY <1>1, <1>2, <3>1 DEF IsInjective
        <3> QED BY <3>2
    <2> QED BY <2>1
<1>5. \A k \in t.from..last(t) : k \in s.from..last(s)
    <2>1. ASSUME NEW k \in t.from..last(t) PROVE k \in s.from..last(s)
        <3> HIDE DEF last
        <3>0. order[k] \in Covers(b, side, s)
            BY <1>3
        <3>1. PICK j \in s.from..last(s) : order[j] = order[k]
            BY <1>3, <3>0
        <3>2. j = k
            BY <1>1, <1>2, <3>1 DEF IsInjective
        <3> QED BY <3>2
    <2> QED BY <2>1
<1>6. /\ s.from \in s.from..last(s) /\ last(s) \in s.from..last(s)
      /\ t.from \in t.from..last(t) /\ last(t) \in t.from..last(t)
    BY <1>2
<1>7. s.from = t.from /\ last(s) = last(t)
    <2>1. /\ s.from \in t.from..last(t) /\ last(s) \in t.from..last(t)
          /\ t.from \in s.from..last(s) /\ last(t) \in s.from..last(s)
        BY <1>4, <1>5, <1>6
    <2> QED BY <1>2, <2>1
<1>8. s.len = t.len
    BY <1>2, <1>7
<1> QED BY <1>2, <1>7, <1>8

\* p ends before q begins, on both sides.
Precedes(p, q) ==
    /\ p.l.from + p.l.len <= q.l.from
    /\ p.r.from + p.r.len <= q.r.from

\* The spans of a candidate in numbers.
LEMMA CandidateIn ==
    ASSUME IsPage(page), NEW b \in Blocks, NEW p \in Candidates(b)
    PROVE  /\ p.l.from \in Nat /\ p.l.from >= 1 /\ p.l.len \in 1..4
           /\ p.l.from + p.l.len - 1 <= Len(b.order.left)
           /\ p.r.from \in Nat /\ p.r.from >= 1 /\ p.r.len \in 1..4
           /\ p.r.from + p.r.len - 1 <= Len(b.order.right)
           /\ Len(b.order.left) \in Nat /\ Len(b.order.right) \in Nat
           /\ IsFiniteSet(p.left) /\ Cardinality(p.left) = p.l.len
           /\ IsFiniteSet(p.right) /\ Cardinality(p.right) = p.r.len
<1>1. "left" \in Side /\ "right" \in Side
    BY DEF Side
<1>2. /\ p.l \in Spans(b, "left") /\ p.r \in Spans(b, "right")
      /\ p.left = Covers(b, "left", p.l) /\ p.right = Covers(b, "right", p.r)
    BY CandidatesFit
<1>3. /\ p.l.from \in 1..Len(b.order["left"]) /\ p.l.len \in 1..4
      /\ p.l.from + p.l.len - 1 \in 1..Len(b.order["left"]) /\ Len(b.order["left"]) \in Nat
      /\ IsFiniteSet(p.left) /\ Cardinality(p.left) = p.l.len
    BY <1>1, <1>2, SpansFit, CoversCount
<1>4. /\ p.r.from \in 1..Len(b.order["right"]) /\ p.r.len \in 1..4
      /\ p.r.from + p.r.len - 1 \in 1..Len(b.order["right"]) /\ Len(b.order["right"]) \in Nat
      /\ IsFiniteSet(p.right) /\ Cardinality(p.right) = p.r.len
    BY <1>1, <1>2, SpansFit, CoversCount
<1> QED BY <1>3, <1>4

\* Two numbers have a negative product when one is negative and one positive.
LEMMA NegativeProduct ==
    ASSUME NEW x \in Int, NEW y \in Int
    PROVE  x * y < 0 <=> (x < 0 /\ y > 0) \/ (x > 0 /\ y < 0)
OBVIOUS

\* Candidates that neither share a fragment nor cross come one after the other.
LEMMA PairsInOrder ==
    ASSUME IsPage(page), NEW b \in Blocks, NEW p \in Candidates(b), NEW q \in Candidates(b)
    PROVE  ~Shares(p, q) /\ ~Crossing(p, q) <=> Precedes(p, q) \/ Precedes(q, p)
<1>1. "left" \in Side /\ "right" \in Side
    BY DEF Side
<1>2. /\ p.l \in Spans(b, "left") /\ p.r \in Spans(b, "right")
      /\ p.left = Covers(b, "left", p.l) /\ p.right = Covers(b, "right", p.r)
      /\ q.l \in Spans(b, "left") /\ q.r \in Spans(b, "right")
      /\ q.left = Covers(b, "left", q.l) /\ q.right = Covers(b, "right", q.r)
    BY CandidatesFit
<1>3. /\ p.left \cap q.left = {} <=> p.l.from + p.l.len <= q.l.from \/ q.l.from + q.l.len <= p.l.from
      /\ p.right \cap q.right = {} <=> p.r.from + p.r.len <= q.r.from \/ q.r.from + q.r.len <= p.r.from
    BY <1>1, <1>2, CoversMeet
<1>4. Shares(p, q) <=> ~(/\ p.l.from + p.l.len <= q.l.from \/ q.l.from + q.l.len <= p.l.from
                         /\ p.r.from + p.r.len <= q.r.from \/ q.r.from + q.r.len <= p.r.from)
    BY <1>3 DEF Shares
<1> DEFINE x == p.l.from - q.l.from
           y == p.r.from - q.r.from
<1>5. /\ p.l.from \in Nat /\ p.l.len \in 1..4 /\ p.r.from \in Nat /\ p.r.len \in 1..4
      /\ q.l.from \in Nat /\ q.l.len \in 1..4 /\ q.r.from \in Nat /\ q.r.len \in 1..4
    BY CandidateIn
<1>6. x \in Int /\ y \in Int
    BY <1>5
<1>7. Crossing(p, q) <=> (x < 0 /\ y > 0) \/ (x > 0 /\ y < 0)
    <2>1. Crossing(p, q) <=> x * y < 0
        BY DEF Crossing
    <2> HIDE DEF x, y
    <2> QED BY <1>6, <2>1, NegativeProduct
<1> QED BY <1>4, <1>5, <1>7 DEF Precedes

---------------------------------------------------------------------------
(* The price of an assignment *)

\* What p adds to the price of an assignment that leaves its fragments free.
Worth(p) == CostOf(p) - PairPreference - UnmatchedPenalty * (p.l.len + p.r.len)

Worths(b) == [p \in Candidates(b) |-> Worth(p)]

\* A pair is always worth choosing.
LEMMA WorthFits ==
    ASSUME IsPage(page), NEW b \in Blocks
    PROVE  /\ Worths(b) \in [Candidates(b) -> Int]
           /\ \A p \in Candidates(b) : /\ CostOf(p) \in Int /\ Worth(p) \in Int
                                       /\ Worths(b)[p] = Worth(p) /\ Worth(p) < 0
                                       /\ Worth(p) = CostOf(p) - 20 - 50 * (p.l.len + p.r.len)
<1>1. ASSUME NEW p \in Candidates(b)
      PROVE  /\ CostOf(p) \in Int /\ Worth(p) \in Int /\ Worth(p) < 0
             /\ Worth(p) = CostOf(p) - 20 - 50 * (p.l.len + p.r.len)
    <2>1. CostOf(p) \in 0..100 /\ p.l.len \in 1..4 /\ p.r.len \in 1..4
        BY CandidatesFit, CandidateIn
    <2>2. Worth(p) = CostOf(p) - 20 - 50 * (p.l.len + p.r.len)
        BY DEF Worth, PairPreference, UnmatchedPenalty
    <2> QED BY <2>1, <2>2
<1> QED BY <1>1 DEF Worths

\* The fragments that a set of pairs uses.
Used(side, A) == UNION {p[side] : p \in A}

\* One pair more uses as many fragments more as it has.
LEMMA UsedGrows ==
    ASSUME IsPage(page), NEW b \in Blocks, NEW A \in Assignments(Candidates(b)), NEW x \in A
    PROVE  /\ A \ {x} \in Assignments(Candidates(b))
           /\ Cardinality(Used("left", A \ {x})) \in Nat
           /\ Cardinality(Used("right", A \ {x})) \in Nat
           /\ Cardinality(Used("left", A)) = Cardinality(Used("left", A \ {x})) + x.l.len
           /\ Cardinality(Used("right", A)) = Cardinality(Used("right", A \ {x})) + x.r.len
<1>1. /\ A \subseteq Candidates(b) /\ \A p, q \in A : p # q => ~Shares(p, q)
      /\ x \in Candidates(b)
    BY DEF Assignments
<1>2. A \ {x} \in Assignments(Candidates(b))
    BY <1>1 DEF Assignments
<1>3. /\ IsFiniteSet(x.left) /\ Cardinality(x.left) = x.l.len /\ x.l.len \in 1..4
      /\ IsFiniteSet(x.right) /\ Cardinality(x.right) = x.r.len /\ x.r.len \in 1..4
    BY <1>1, CandidateIn
<1>4. /\ Used("left", A) = Used("left", A \ {x}) \cup x.left
      /\ Used("right", A) = Used("right", A \ {x}) \cup x.right
    BY DEF Used
<1>5. /\ Used("left", A \ {x}) \cap x.left = {}
      /\ Used("right", A \ {x}) \cap x.right = {}
    BY <1>1 DEF Used, Shares
<1>6. IsFiniteSet(Used("left", A \ {x})) /\ IsFiniteSet(Used("right", A \ {x}))
    <2>1. /\ Used("left", A \ {x}) \subseteq Fragments("left")
          /\ Used("right", A \ {x}) \subseteq Fragments("right")
        <3>1. \A p \in A : p.left \subseteq Fragments("left") /\ p.right \subseteq Fragments("right")
            BY <1>1, CandidatesFit
        <3> QED BY <3>1 DEF Used
    <2>2. IsFiniteSet(Fragments("left")) /\ IsFiniteSet(Fragments("right"))
        BY FragmentsFit DEF Side
    <2> QED BY <2>1, <2>2, FS_Subset
<1>7. ASSUME NEW S, NEW T, NEW n \in Nat, IsFiniteSet(S), IsFiniteSet(T), S \cap T = {}, Cardinality(T) = n
      PROVE  Cardinality(S) \in Nat /\ Cardinality(S \cup T) = Cardinality(S) + n
    <2>1. Cardinality(S \cup T) = Cardinality(S) + Cardinality(T) - Cardinality(S \cap T)
        BY <1>7, FS_Union
    <2>2. Cardinality(S) \in Nat /\ Cardinality(S \cap T) = 0
        BY <1>7, FS_CardinalityType, FS_EmptySet
    <2> QED BY <1>7, <2>1, <2>2
<1>8. x.l.len \in Nat /\ x.r.len \in Nat
    BY <1>3
<1>9. /\ Cardinality(Used("left", A \ {x})) \in Nat
      /\ Cardinality(Used("left", A)) = Cardinality(Used("left", A \ {x})) + x.l.len
    BY <1>3, <1>4, <1>5, <1>6, <1>7, <1>8
<1>10. /\ Cardinality(Used("right", A \ {x})) \in Nat
       /\ Cardinality(Used("right", A)) = Cardinality(Used("right", A \ {x})) + x.r.len
    BY <1>3, <1>4, <1>5, <1>6, <1>7, <1>8
<1> QED BY <1>2, <1>9, <1>10

\* The price of an assignment is what leaving everything unmatched costs and
\* what its pairs add to that.
LEMMA PriceAdds ==
    ASSUME IsPage(page), NEW b \in Blocks
    PROVE  \E V : /\ Adds(V, Candidates(b), Worths(b))
                  /\ \A A \in Assignments(Candidates(b)) :
                        Price(b, A) = 50 * (Len(b.order.left) + Len(b.order.right)) + V[A]
<1> DEFINE C == Candidates(b)
           f == [p \in C |-> CostOf(p) - 20]
           nl == Len(b.order.left)
           nr == Len(b.order.right)
<1>1. IsFiniteSet(C)
    BY CandidatesAreFinite
<1>2. f \in [C -> Int] /\ \A p \in C : f[p] = CostOf(p) - 20 /\ f[p] \in Int
    BY WorthFits
<1>3. PICK W : Adds(W, C, f) /\ \A D \in SUBSET C : Total([p \in D |-> f[p]]) = W[D]
    <2> HIDE DEF C, f
    <2> QED BY <1>1, <1>2, TotalsAdd
<1>4. PICK V : Adds(V, C, Worths(b))
    <2>1. Worths(b) \in [C -> Int]
        BY WorthFits
    <2> HIDE DEF C
    <2> QED BY <1>1, <2>1, TotalsAdd
<1>5. nl \in Nat /\ nr \in Nat
    <2>1. "left" \in Side /\ "right" \in Side
        BY DEF Side
    <2>2. b.order["left"] \in Seq(Fragments("left")) /\ b.order["right"] \in Seq(Fragments("right"))
        BY <2>1, BlocksFit
    <2> QED BY <2>2
<1> HIDE DEF f
<1> DEFINE nL(A) == Cardinality(Used("left", A))
           nR(A) == Cardinality(Used("right", A))
           Agrees(A) == nL(A) \in Nat /\ nR(A) \in Nat /\ V[A] = W[A] - 50 * (nL(A) + nR(A))
           H == {A \in SUBSET C : A \in Assignments(C) => Agrees(A)}
<1>6. Agrees({})
    <2>1. Used("left", {}) = {} /\ Used("right", {}) = {}
        BY DEF Used
    <2>2. nL({}) = 0 /\ nR({}) = 0
        BY <2>1, FS_EmptySet
    <2> QED BY <1>3, <1>4, <2>2 DEF Adds
<1>7. ASSUME NEW A \in SUBSET C, \A x \in A : A \ {x} \in H, A \in Assignments(C) PROVE Agrees(A)
    <2>1. CASE A = {}
        BY <1>6, <2>1
    <2>2. CASE A # {}
        <3>1. PICK x \in A : TRUE
            BY <2>2
        <3>2. /\ A \ {x} \in Assignments(C) /\ x \in C
              /\ nL(A \ {x}) \in Nat /\ nR(A \ {x}) \in Nat
              /\ nL(A) = nL(A \ {x}) + x.l.len /\ nR(A) = nR(A \ {x}) + x.r.len
            BY <1>7, UsedGrows
        <3>3. Agrees(A \ {x})
            BY <1>7, <3>2
        <3>4. W[A] = f[x] + W[A \ {x}] /\ V[A] = Worths(b)[x] + V[A \ {x}]
            BY <1>3, <1>4, <3>1 DEF Adds
        <3>5. /\ f[x] = CostOf(x) - 20 /\ Worths(b)[x] = CostOf(x) - 20 - 50 * (x.l.len + x.r.len)
              /\ CostOf(x) \in Int /\ x.l.len \in Nat /\ x.r.len \in Nat
            <4>1. x.l.len \in 1..4 /\ x.r.len \in 1..4
                BY <3>2, CandidateIn
            <4>2. Worths(b)[x] = Worth(x) /\ Worth(x) = CostOf(x) - 20 - 50 * (x.l.len + x.r.len)
                  /\ CostOf(x) \in Int
                BY <3>2, WorthFits
            <4> QED BY <1>2, <3>2, <4>1, <4>2
        <3>6. W[A \ {x}] \in Int /\ V[A \ {x}] \in Int
            BY <1>3, <1>4 DEF Adds
        <3> HIDE DEF nL, nR, C, H
        <3> QED BY <3>2, <3>3, <3>4, <3>5, <3>6
    <2> QED BY <2>1, <2>2
<1>8. SUBSET C \subseteq H
    <2>1. Grows(C, H)
        <3>1. ASSUME NEW A \in SUBSET C, \A x \in A : A \ {x} \in H PROVE A \in H
            <4> HIDE DEF Agrees, C
            <4> QED BY <1>7, <3>1
        <3> HIDE DEF H, C
        <3> QED BY <3>1 DEF Grows
    <2> HIDE DEF H, C
    <2> QED BY <1>1, <2>1, PartsInduction
<1>9. ASSUME NEW A \in Assignments(C) PROVE Price(b, A) = 50 * (nl + nr) + V[A]
    <2>1. A \in SUBSET C
        BY DEF Assignments
    <2>2. Agrees(A)
        BY <1>8, <2>1
    <2>3. Total([p \in A |-> CostOf(p) - PairPreference]) = W[A]
        <3>1. [p \in A |-> CostOf(p) - PairPreference] = [p \in A |-> f[p]]
            BY <1>2, <2>1 DEF PairPreference
        <3> HIDE DEF C
        <3> QED BY <1>3, <2>1, <3>1
    <2>4. Price(b, A) = W[A] + 50 * (nl - nL(A) + nr - nR(A))
        BY <2>3 DEF Price, Used, UnmatchedPenalty
    <2>5. W[A] \in Int
        BY <1>3, <2>1 DEF Adds
    <2> HIDE DEF nl, nr, nL, nR, C
    <2> QED BY <1>5, <2>2, <2>4, <2>5
<1> QED BY <1>4, <1>9

---------------------------------------------------------------------------
(* The solver *)

\* A cell takes its total and its pairs from a cell before it.
Reached(T, cost, i, j) ==
    \/ \E m \in Ends(cost, i, j) :
            /\ T[<<i, j>>].total = T[<<i - m[1], j - m[2]>>].total + cost[KeyAt(i, j, m)] - 20
            /\ T[<<i, j>>].pairs = T[<<i - m[1], j - m[2]>>].pairs \cup {KeyAt(i, j, m)}
    \/ /\ i > 0 /\ T[<<i, j>>].total = T[<<i - 1, j>>].total + 50
       /\ T[<<i, j>>].pairs = T[<<i - 1, j>>].pairs
    \/ /\ j > 0 /\ T[<<i, j>>].total = T[<<i, j - 1>>].total + 50
       /\ T[<<i, j>>].pairs = T[<<i, j - 1>>].pairs

\* What a cell of the table knows of the cells before it.
LEMMA CellIsBest ==
    ASSUME NEW nLeft \in Nat, NEW nRight \in Nat, NEW K, NEW cost \in [K -> Int],
           NEW T, Filled(T, nLeft, nRight, cost), NEW i \in 0..nLeft, NEW j \in 0..nRight, i + j > 0
    PROVE  /\ \A m \in Ends(cost, i, j) :
                    T[<<i, j>>].total <= T[<<i - m[1], j - m[2]>>].total + cost[KeyAt(i, j, m)] - 20
           /\ i > 0 => T[<<i, j>>].total <= T[<<i - 1, j>>].total + 50
           /\ j > 0 => T[<<i, j>>].total <= T[<<i, j - 1>>].total + 50
           /\ Reached(T, cost, i, j)
<1> DEFINE ways == WaysTo(T, cost, i, j)
           best == T[<<i, j>>]
<1>1. T \in [Cells(nLeft, nRight) -> CellOf(cost)] /\ best = BestMove(ways)
    BY DEF Filled
<1>2. ways \subseteq CellOf(cost) /\ IsFiniteSet(ways) /\ ways # {}
    BY <1>1, WaysFit
<1>3. best \in ways /\ \A w \in ways : best.total <= w.total
    <2> HIDE DEF ways
    <2>1. \A w \in ways : w.total \in Int /\ w.rank \in Int
        BY <1>2 DEF CellOf
    <2> QED BY <1>1, <1>2, <2>1, BestMoveExists
<1>4. ways = {MatchMove(T, cost, i, j, m) : m \in Ends(cost, i, j)}
                \cup (IF i > 0 THEN {SkipMove(T[<<i - 1, j>>], 100)} ELSE {})
                \cup (IF j > 0 THEN {SkipMove(T[<<i, j - 1>>], 101)} ELSE {})
    BY DEF WaysTo, Ends
<1> HIDE DEF ways
<1>5. ASSUME NEW m
      PROVE  /\ MatchMove(T, cost, i, j, m).total
                    = T[<<i - m[1], j - m[2]>>].total + cost[KeyAt(i, j, m)] - 20
             /\ MatchMove(T, cost, i, j, m).pairs
                    = T[<<i - m[1], j - m[2]>>].pairs \cup {KeyAt(i, j, m)}
    BY DEF MatchMove, PairPreference
<1>6. ASSUME NEW cell, NEW rank
      PROVE  SkipMove(cell, rank).total = cell.total + 50 /\ SkipMove(cell, rank).pairs = cell.pairs
    BY DEF SkipMove, UnmatchedPenalty
<1> HIDE DEF best
<1>7. /\ \A m \in Ends(cost, i, j) : best.total <= MatchMove(T, cost, i, j, m).total
      /\ i > 0 => best.total <= SkipMove(T[<<i - 1, j>>], 100).total
      /\ j > 0 => best.total <= SkipMove(T[<<i, j - 1>>], 101).total
    BY <1>3, <1>4
<1>8. \/ \E m \in Ends(cost, i, j) : best = MatchMove(T, cost, i, j, m)
      \/ i > 0 /\ best = SkipMove(T[<<i - 1, j>>], 100)
      \/ j > 0 /\ best = SkipMove(T[<<i, j - 1>>], 101)
    BY <1>3, <1>4
<1>9. /\ \A m \in Ends(cost, i, j) :
            best.total <= T[<<i - m[1], j - m[2]>>].total + cost[KeyAt(i, j, m)] - 20
      /\ i > 0 => best.total <= T[<<i - 1, j>>].total + 50
      /\ j > 0 => best.total <= T[<<i, j - 1>>].total + 50
    <2>1. ASSUME NEW m \in Ends(cost, i, j)
          PROVE  best.total <= T[<<i - m[1], j - m[2]>>].total + cost[KeyAt(i, j, m)] - 20
        BY <1>5, <1>7
    <2>2. /\ i > 0 => best.total <= T[<<i - 1, j>>].total + 50
          /\ j > 0 => best.total <= T[<<i, j - 1>>].total + 50
        BY <1>6, <1>7
    <2> QED BY <2>1, <2>2
<1>10. ASSUME NEW m \in Ends(cost, i, j), best = MatchMove(T, cost, i, j, m)
       PROVE  /\ best.total = T[<<i - m[1], j - m[2]>>].total + cost[KeyAt(i, j, m)] - 20
              /\ best.pairs = T[<<i - m[1], j - m[2]>>].pairs \cup {KeyAt(i, j, m)}
    <2>1. /\ MatchMove(T, cost, i, j, m).total
                    = T[<<i - m[1], j - m[2]>>].total + cost[KeyAt(i, j, m)] - 20
          /\ MatchMove(T, cost, i, j, m).pairs
                    = T[<<i - m[1], j - m[2]>>].pairs \cup {KeyAt(i, j, m)}
        BY <1>5
    <2> QED BY <1>10, <2>1
<1>11. ASSUME NEW cell, NEW rank, best = SkipMove(cell, rank)
       PROVE  best.total = cell.total + 50 /\ best.pairs = cell.pairs
    BY <1>6, <1>11
<1>12. \/ \E m \in Ends(cost, i, j) :
            /\ best.total = T[<<i - m[1], j - m[2]>>].total + cost[KeyAt(i, j, m)] - 20
            /\ best.pairs = T[<<i - m[1], j - m[2]>>].pairs \cup {KeyAt(i, j, m)}
       \/ /\ i > 0 /\ best.total = T[<<i - 1, j>>].total + 50
          /\ best.pairs = T[<<i - 1, j>>].pairs
       \/ /\ j > 0 /\ best.total = T[<<i, j - 1>>].total + 50
          /\ best.pairs = T[<<i, j - 1>>].pairs
    <2>1. CASE \E m \in Ends(cost, i, j) : best = MatchMove(T, cost, i, j, m)
        BY <1>10, <2>1
    <2>2. CASE i > 0 /\ best = SkipMove(T[<<i - 1, j>>], 100)
        BY <1>11, <2>2
    <2>3. CASE j > 0 /\ best = SkipMove(T[<<i, j - 1>>], 101)
        BY <1>11, <2>3
    <2> QED BY <1>8, <2>1, <2>2, <2>3
<1>13. best = T[<<i, j>>]
    BY DEF best
<1>14. Reached(T, cost, i, j)
    BY <1>12, <1>13 DEF Reached
<1> QED BY <1>9, <1>13, <1>14

\* Pairs that can be put one after the other,
Chain(A) == \A p, q \in A : p # q => Precedes(p, q) \/ Precedes(q, p)

\* all within the first i and j fragments.
EndsBy(A, i, j) == \A p \in A : p.l.from + p.l.len <= i + 1 /\ p.r.from + p.r.len <= j + 1

\* The pair that ends at i and j comes after all others.
LEMMA LastOfChain ==
    ASSUME IsPage(page), NEW b \in Blocks, NEW A \in SUBSET Candidates(b), Chain(A),
           NEW i \in Nat, NEW j \in Nat, EndsBy(A, i, j),
           NEW p \in A, p.l.from + p.l.len = i + 1, p.r.from + p.r.len = j + 1
    PROVE  /\ <<p.l.len, p.r.len>> \in (1..Least(i, 4)) \X (1..Least(j, 4))
           /\ KeyAt(i, j, <<p.l.len, p.r.len>>) = Key(p)
           /\ i - p.l.len \in 0..(i - 1) /\ j - p.r.len \in 0..(j - 1)
           /\ Chain(A \ {p}) /\ EndsBy(A \ {p}, i - p.l.len, j - p.r.len)
<1>1. /\ p.l.from \in Nat /\ p.l.from >= 1 /\ p.l.len \in 1..4
      /\ p.r.from \in Nat /\ p.r.from >= 1 /\ p.r.len \in 1..4
    BY CandidateIn
<1>2. p.l.len \in 1..Least(i, 4) /\ p.r.len \in 1..Least(j, 4)
    BY <1>1 DEF Least
<1>3. KeyAt(i, j, <<p.l.len, p.r.len>>) = Key(p)
    <2>1. i - p.l.len + 1 = p.l.from /\ j - p.r.len + 1 = p.r.from
        BY <1>1
    <2> QED BY <2>1 DEF KeyAt, Key
<1>4. ASSUME NEW q \in A \ {p}
      PROVE  q.l.from + q.l.len <= (i - p.l.len) + 1 /\ q.r.from + q.r.len <= (j - p.r.len) + 1
    <2>1. /\ q.l.from \in Nat /\ q.l.len \in 1..4 /\ q.r.from \in Nat /\ q.r.len \in 1..4
          /\ q.l.from + q.l.len <= i + 1
        BY CandidateIn DEF EndsBy
    <2>2. Precedes(p, q) \/ Precedes(q, p)
        BY DEF Chain
    <2> QED BY <1>1, <2>1, <2>2 DEF Precedes
<1>5. i - p.l.len \in 0..(i - 1) /\ j - p.r.len \in 0..(j - 1)
    BY <1>1
<1> QED BY <1>2, <1>3, <1>4, <1>5 DEF Chain, EndsBy

\* Without such a pair the last fragment of one side is left out.
LEMMA LastIsFree ==
    ASSUME IsPage(page), NEW b \in Blocks, NEW A \in SUBSET Candidates(b), Chain(A),
           NEW i \in Nat, NEW j \in Nat, i + j > 0, EndsBy(A, i, j),
           \A p \in A : ~(p.l.from + p.l.len = i + 1 /\ p.r.from + p.r.len = j + 1)
    PROVE  \/ i > 0 /\ EndsBy(A, i - 1, j)
           \/ j > 0 /\ EndsBy(A, i, j - 1)
<1>1. \A p \in A : /\ p.l.from \in Nat /\ p.l.from >= 1 /\ p.l.len \in 1..4
                   /\ p.r.from \in Nat /\ p.r.from >= 1 /\ p.r.len \in 1..4
                   /\ p.l.from + p.l.len <= i + 1 /\ p.r.from + p.r.len <= j + 1
    BY CandidateIn DEF EndsBy
<1>2. CASE \E p \in A : p.l.from + p.l.len = i + 1
    <2>1. PICK p \in A : p.l.from + p.l.len = i + 1
        BY <1>2
    <2>2. ASSUME NEW q \in A PROVE q.r.from + q.r.len <= (j - 1) + 1
        <3>1. CASE q = p
            BY <1>1, <2>1, <3>1
        <3>2. CASE q # p
            <4>1. Precedes(p, q) \/ Precedes(q, p)
                BY <3>2 DEF Chain
            <4>2. ~Precedes(p, q)
                <5>1. q.l.from + q.l.len <= i + 1 /\ q.l.len \in 1..4 /\ q.l.from \in Nat
                    BY <1>1
                <5> QED BY <2>1, <5>1 DEF Precedes
            <4>3. q.r.from + q.r.len <= p.r.from /\ p.r.from + p.r.len <= j + 1 /\ p.r.len \in 1..4
                  /\ p.r.from \in Nat /\ q.r.from \in Nat /\ q.r.len \in 1..4
                BY <1>1, <4>1, <4>2 DEF Precedes
            <4> QED BY <4>3
        <3> QED BY <3>1, <3>2
    <2>3. j > 0
        BY <1>1, <2>1
    <2>4. \A q \in A : q.l.from + q.l.len <= i + 1
        BY <1>1
    <2> QED BY <2>2, <2>3, <2>4 DEF EndsBy
<1>3. CASE \A p \in A : p.l.from + p.l.len # i + 1
    <2>1. CASE i > 0
        <3>1. \A p \in A : p.l.from + p.l.len <= (i - 1) + 1 /\ p.r.from + p.r.len <= j + 1
            BY <1>1, <1>3
        <3> QED BY <2>1, <3>1 DEF EndsBy
    <2>2. CASE i = 0
        <3>1. A = {}
            BY <1>1, <2>2
        <3> QED BY <2>2, <3>1 DEF EndsBy
    <2> QED BY <2>1, <2>2
<1> QED BY <1>2, <1>3

\* T is the table the solver fills for the candidates K of a block.
TableOf(T, b, K) == Filled(T, Len(b.order.left), Len(b.order.right), CostsOf(K))

\* The costs the solver is given, and what its cells hold.
LEMMA TableFits ==
    ASSUME IsPage(page), NEW b \in Blocks, NEW K \in SUBSET Candidates(b), NEW T, TableOf(T, b, K),
           NEW V, Adds(V, Candidates(b), Worths(b))
    PROVE  /\ Len(b.order.left) \in Nat /\ Len(b.order.right) \in Nat
           /\ CostsOf(K) \in [{Key(p) : p \in K} -> Int]
           /\ T[<<0, 0>>].total = 0 /\ T[<<0, 0>>].pairs = {}
           /\ \A i \in 0..Len(b.order.left), j \in 0..Len(b.order.right) : T[<<i, j>>].total \in Int
           /\ \A A \in SUBSET K : V[A] \in Int
           /\ V[{}] = 0
           /\ \A p \in K : CostsOf(K)[Key(p)] = Worth(p) + 20 + 50 * (p.l.len + p.r.len)
<1>1. Len(b.order.left) \in Nat /\ Len(b.order.right) \in Nat
    <2>1. b.order["left"] \in Seq(Fragments("left")) /\ b.order["right"] \in Seq(Fragments("right"))
        BY BlocksFit DEF Side
    <2> QED BY <2>1
<1>2. CostsOf(K) \in [{Key(p) : p \in K} -> Int]
    BY CostsOfFit
<1>3. T[<<0, 0>>].total = 0 /\ T[<<0, 0>>].pairs = {}
    BY DEF TableOf, Filled, NoMove
<1>4. \A i \in 0..Len(b.order.left), j \in 0..Len(b.order.right) : T[<<i, j>>].total \in Int
    BY DEF TableOf, Filled, Cells, CellOf
<1>5. V[{}] = 0 /\ \A A \in SUBSET K : V[A] \in Int
    BY DEF Adds
<1>6. ASSUME NEW p \in K
      PROVE  CostsOf(K)[Key(p)] = Worth(p) + 20 + 50 * (p.l.len + p.r.len)
    <2>1. CostsOf(K)[Key(p)] = CostOf(p)
        BY CostsOfFit
    <2>2. /\ CostOf(p) \in Int /\ Worth(p) \in Int
          /\ Worth(p) = CostOf(p) - 20 - 50 * (p.l.len + p.r.len)
        BY WorthFits
    <2>3. p.l.len \in 1..4 /\ p.r.len \in 1..4
        BY CandidateIn
    <2> DEFINE c == CostsOf(K)[Key(p)]
               d == CostOf(p)
               w == Worth(p)
               l == p.l.len
               r == p.r.len
    <2> HIDE DEF c, d, w, l, r
    <2>4. c = d /\ d \in Int /\ w \in Int /\ w = d - 20 - 50 * (l + r) /\ l \in 1..4 /\ r \in 1..4
        BY <2>1, <2>2, <2>3 DEF c, d, w, l, r
    <2>5. c = w + 20 + 50 * (l + r)
        BY <2>4
    <2> QED BY <2>5 DEF c, w, l, r
<1> QED BY <1>1, <1>2, <1>3, <1>4, <1>5, <1>6

\* No chain within the first fragments is cheaper than their cell.
LEMMA NoChainIsCheaper ==
    ASSUME IsPage(page), NEW b \in Blocks, NEW K \in SUBSET Candidates(b), NEW T, TableOf(T, b, K),
           NEW V, Adds(V, Candidates(b), Worths(b))
    PROVE  \A i \in 0..Len(b.order.left), j \in 0..Len(b.order.right), A \in SUBSET K :
                Chain(A) /\ EndsBy(A, i, j) => T[<<i, j>>].total <= 50 * (i + j) + V[A]
<1> DEFINE nl == Len(b.order.left)
           nr == Len(b.order.right)
           cost == CostsOf(K)
           Fine(i, j) == \A A \in SUBSET K :
                Chain(A) /\ EndsBy(A, i, j) => T[<<i, j>>].total <= 50 * (i + j) + V[A]
           D == {d \in 0..(nl + nr) : \A i \in 0..nl, j \in 0..nr : i + j <= d => Fine(i, j)}
<1>1. /\ nl \in Nat /\ nr \in Nat /\ cost \in [{Key(p) : p \in K} -> Int]
      /\ T[<<0, 0>>].total = 0
      /\ \A i \in 0..nl, j \in 0..nr : T[<<i, j>>].total \in Int
      /\ \A A \in SUBSET K : V[A] \in Int
      /\ V[{}] = 0
      /\ \A p \in K : cost[Key(p)] = Worth(p) + 20 + 50 * (p.l.len + p.r.len)
      /\ \A A \in SUBSET K : \A p \in A : V[A] = Worth(p) + V[A \ {p}]
    <2> HIDE DEF Fine, D
    <2>1. nl \in Nat /\ nr \in Nat /\ cost \in [{Key(p) : p \in K} -> Int]
        BY TableFits
    <2>2. /\ T[<<0, 0>>].total = 0 /\ V[{}] = 0
          /\ \A i \in 0..nl, j \in 0..nr : T[<<i, j>>].total \in Int
        BY TableFits
    <2>3. \A A \in SUBSET K : V[A] \in Int
        BY TableFits
    <2>4. \A p \in K : cost[Key(p)] = Worth(p) + 20 + 50 * (p.l.len + p.r.len)
        BY TableFits
    <2>5. ASSUME NEW A \in SUBSET K, NEW p \in A PROVE V[A] = Worth(p) + V[A \ {p}]
        <3> HIDE DEF nl, nr, cost
        <3>1. V[A] = Worths(b)[p] + V[A \ {p}]
            BY DEF Adds
        <3>2. Worths(b)[p] = Worth(p)
            BY WorthFits
        <3> QED BY <3>1, <3>2
    <2> QED BY <2>1, <2>2, <2>3, <2>4, <2>5
<1>2. Filled(T, nl, nr, cost)
    BY DEF TableOf
<1> HIDE DEF nl, nr, cost
<1>3. Fine(0, 0)
    <2>1. ASSUME NEW A \in SUBSET K, EndsBy(A, 0, 0) PROVE A = {}
        <3>1. \A p \in A : p.l.from >= 1 /\ p.l.from \in Nat /\ p.l.len \in 1..4
            BY CandidateIn
        <3> QED BY <2>1, <3>1 DEF EndsBy
    <2>2. T[<<0, 0>>].total <= 50 * (0 + 0) + V[{}]
        BY <1>1
    <2> QED BY <2>1, <2>2
<1>4. ASSUME NEW i \in 0..nl, NEW j \in 0..nr, i + j > 0,
             \A g \in 0..nl, h \in 0..nr : g + h < i + j => Fine(g, h),
             NEW A \in SUBSET K, Chain(A), EndsBy(A, i, j)
      PROVE  T[<<i, j>>].total <= 50 * (i + j) + V[A]
    <2>1. /\ \A m \in Ends(cost, i, j) :
                T[<<i, j>>].total <= T[<<i - m[1], j - m[2]>>].total + cost[KeyAt(i, j, m)] - 20
          /\ i > 0 => T[<<i, j>>].total <= T[<<i - 1, j>>].total + 50
          /\ j > 0 => T[<<i, j>>].total <= T[<<i, j - 1>>].total + 50
        BY <1>1, <1>2, <1>4, CellIsBest
    <2>2. V[A] \in Int /\ T[<<i, j>>].total \in Int /\ A \in SUBSET Candidates(b) /\ i \in Nat /\ j \in Nat
        BY <1>1
    <2>3. CASE \E p \in A : p.l.from + p.l.len = i + 1 /\ p.r.from + p.r.len = j + 1
        <3>1. PICK p \in A : p.l.from + p.l.len = i + 1 /\ p.r.from + p.r.len = j + 1
            BY <2>3
        <3> DEFINE m == <<p.l.len, p.r.len>>
        <3>2. /\ m \in (1..Least(i, 4)) \X (1..Least(j, 4))
              /\ KeyAt(i, j, m) = Key(p)
              /\ i - p.l.len \in 0..(i - 1) /\ j - p.r.len \in 0..(j - 1)
              /\ Chain(A \ {p}) /\ EndsBy(A \ {p}, i - p.l.len, j - p.r.len)
            BY <1>4, <2>2, <3>1, LastOfChain
        <3>3. Key(p) \in DOMAIN cost
            BY <1>1
        <3>4. m \in Ends(cost, i, j)
            BY <3>2, <3>3 DEF Ends, MaxSpanFragments
        <3>5. m[1] = p.l.len /\ m[2] = p.r.len
            OBVIOUS
        <3> HIDE DEF m
        <3>6. T[<<i, j>>].total <= T[<<i - p.l.len, j - p.r.len>>].total + cost[Key(p)] - 20
            BY <2>1, <3>2, <3>4, <3>5
        <3> DEFINE g == i - p.l.len
                   h == j - p.r.len
                   c == cost[Key(p)]
        <3>7. g \in 0..nl /\ h \in 0..nr /\ g + h < i + j
            BY <1>1, <3>2
        <3>8. Fine(g, h)
            BY <1>4, <3>7
        <3>9. T[<<g, h>>].total <= 50 * (g + h) + V[A \ {p}]
            BY <3>2, <3>8
        <3>10. V[A] = Worth(p) + V[A \ {p}] /\ c = Worth(p) + 20 + 50 * (p.l.len + p.r.len)
            BY <1>1
        <3>11. /\ Worth(p) \in Int /\ V[A \ {p}] \in Int /\ p.l.len \in 1..4 /\ p.r.len \in 1..4
               /\ T[<<g, h>>].total \in Int
            BY <1>1, <2>2, <3>7, WorthFits, CandidateIn
        <3> DEFINE t == T[<<i, j>>].total
                   u == T[<<g, h>>].total
                   w == Worth(p)
                   v == V[A \ {p}]
                   l == p.l.len
                   r == p.r.len
        <3>12. /\ t <= u + c - 20 /\ u <= 50 * (g + h) + v /\ V[A] = w + v
               /\ c = w + 20 + 50 * (l + r) /\ g = i - l /\ h = j - r
               /\ t \in Int /\ u \in Int /\ w \in Int /\ v \in Int /\ l \in 1..4 /\ r \in 1..4
            BY <2>2, <3>6, <3>9, <3>10, <3>11
        <3> HIDE DEF t, u, w, v, l, r, c, g, h
        <3>13. t <= 50 * (i + j) + (w + v)
            BY <2>2, <3>12
        <3> QED BY <3>12, <3>13 DEF t
    <2>4. CASE ~(\E p \in A : p.l.from + p.l.len = i + 1 /\ p.r.from + p.r.len = j + 1)
        <3>1. \/ i > 0 /\ EndsBy(A, i - 1, j)
              \/ j > 0 /\ EndsBy(A, i, j - 1)
            BY <1>4, <2>2, <2>4, LastIsFree
        <3>2. CASE i > 0 /\ EndsBy(A, i - 1, j)
            <4> DEFINE g == i - 1
            <4>1. g \in 0..nl /\ g + j < i + j
                BY <1>1, <3>2
            <4>2. Fine(g, j)
                BY <1>4, <4>1
            <4>3. T[<<g, j>>].total <= 50 * (g + j) + V[A] /\ T[<<g, j>>].total \in Int
                BY <1>1, <1>4, <3>2, <4>1, <4>2
            <4>4. T[<<i, j>>].total <= T[<<g, j>>].total + 50
                BY <2>1, <3>2
            <4> QED BY <2>2, <4>3, <4>4
        <3>3. CASE j > 0 /\ EndsBy(A, i, j - 1)
            <4> DEFINE h == j - 1
            <4>1. h \in 0..nr /\ i + h < i + j
                BY <1>1, <3>3
            <4>2. Fine(i, h)
                BY <1>4, <4>1
            <4>3. T[<<i, h>>].total <= 50 * (i + h) + V[A] /\ T[<<i, h>>].total \in Int
                BY <1>1, <1>4, <3>3, <4>1, <4>2
            <4>4. T[<<i, j>>].total <= T[<<i, h>>].total + 50
                BY <2>1, <3>3
            <4> QED BY <2>2, <4>3, <4>4
        <3> QED BY <3>1, <3>2, <3>3
    <2> QED BY <2>3, <2>4
<1>5. ASSUME NEW i \in 0..nl, NEW j \in 0..nr, i + j > 0,
             \A g \in 0..nl, h \in 0..nr : g + h < i + j => Fine(g, h)
      PROVE  Fine(i, j)
    BY <1>4, <1>5
<1> HIDE DEF Fine
<1>6. 0 \in D
    <2>1. ASSUME NEW i \in 0..nl, NEW j \in 0..nr, i + j <= 0 PROVE i = 0 /\ j = 0
        BY <1>1, <2>1
    <2> QED BY <1>1, <1>3, <2>1
<1>7. ASSUME NEW k \in 0..(nl + nr), k < nl + nr, k \in D PROVE k + 1 \in D
    <2>1. ASSUME NEW i \in 0..nl, NEW j \in 0..nr, i + j <= k + 1 PROVE Fine(i, j)
        <3>1. CASE i + j <= k
            BY <1>7, <3>1
        <3>2. CASE i + j > k
            <4>1. i + j = k + 1
                BY <1>1, <2>1, <3>2
            <4>2. \A g \in 0..nl, h \in 0..nr : g + h < i + j => Fine(g, h)
                <5>1. ASSUME NEW g \in 0..nl, NEW h \in 0..nr, g + h < i + j PROVE g + h <= k
                    BY <1>1, <4>1, <5>1
                <5> QED BY <1>7, <5>1
            <4>3. i + j > 0
                BY <1>1, <4>1
            <4> QED BY <1>5, <4>2, <4>3
        <3> QED BY <1>1, <3>1, <3>2
    <2>2. k + 1 \in 0..(nl + nr)
        BY <1>1, <1>7
    <2> QED BY <2>1, <2>2
<1>8. nl + nr \in D
    <2>1. \A k \in 0..(nl + nr) : (k < nl + nr /\ k \in D) => k + 1 \in D
        BY <1>7
    <2> HIDE DEF D
    <2>2. nl + nr \in Nat /\ nl + nr \in 0..(nl + nr)
        BY <1>1
    <2>3. \A k \in 0..(nl + nr) : k \in D
        BY <1>6, <2>1, <2>2, UpTo
    <2> QED BY <2>2, <2>3
<1>9. \A i \in 0..nl, j \in 0..nr : Fine(i, j)
    <2>1. \A i \in 0..nl, j \in 0..nr : i + j <= nl + nr
        BY <1>1
    <2> QED BY <1>8, <2>1
<1> QED BY <1>9 DEF Fine, nl, nr

\* A chain followed by one more pair.
LEMMA ChainGrows ==
    ASSUME IsPage(page), NEW b \in Blocks, NEW A \in SUBSET Candidates(b), Chain(A),
           NEW p \in Candidates(b), NEW i \in Nat, NEW j \in Nat,
           p.l.from + p.l.len = i + 1, p.r.from + p.r.len = j + 1,
           EndsBy(A, i - p.l.len, j - p.r.len)
    PROVE  p \notin A /\ Chain(A \cup {p}) /\ EndsBy(A \cup {p}, i, j)
<1>1. \A q \in A : /\ q.l.from \in Nat /\ q.l.len \in 1..4 /\ q.r.from \in Nat /\ q.r.len \in 1..4
                   /\ q.l.from + q.l.len <= (i - p.l.len) + 1
                   /\ q.r.from + q.r.len <= (j - p.r.len) + 1
    BY CandidateIn DEF EndsBy
<1>2. p.l.from \in Nat /\ p.l.len \in 1..4 /\ p.r.from \in Nat /\ p.r.len \in 1..4
    BY CandidateIn
<1>3. \A q \in A : Precedes(q, p)
    BY <1>1, <1>2 DEF Precedes
<1>4. p \notin A
    BY <1>1, <1>2
<1>5. Chain(A \cup {p})
    BY <1>3 DEF Chain
<1>6. EndsBy(A \cup {p}, i, j)
    <2>1. ASSUME NEW q \in A PROVE q.l.from + q.l.len <= i + 1 /\ q.r.from + q.r.len <= j + 1
        BY <1>1, <1>2
    <2>2. p.l.from + p.l.len <= i + 1 /\ p.r.from + p.r.len <= j + 1
        OBVIOUS
    <2> QED BY <2>1, <2>2 DEF EndsBy
<1> QED BY <1>4, <1>5, <1>6

\* A chain of candidates in K whose pairs and price are those of a cell.
Attained(T, V, K, i, j) ==
    \E A \in SUBSET K :
        /\ T[<<i, j>>].pairs = {Key(p) : p \in A}
        /\ Chain(A) /\ EndsBy(A, i, j)
        /\ T[<<i, j>>].total = 50 * (i + j) + V[A]

\* The pairs of a cell are a chain that costs the cell's total.
LEMMA CellIsAttained ==
    ASSUME IsPage(page), NEW b \in Blocks, NEW K \in SUBSET Candidates(b), NEW T, TableOf(T, b, K),
           NEW V, Adds(V, Candidates(b), Worths(b))
    PROVE  \A i \in 0..Len(b.order.left), j \in 0..Len(b.order.right) : Attained(T, V, K, i, j)
<1> DEFINE nl == Len(b.order.left)
           nr == Len(b.order.right)
           cost == CostsOf(K)
           Fine(i, j) == \E A \in SUBSET K :
                /\ T[<<i, j>>].pairs = {Key(p) : p \in A}
                /\ Chain(A) /\ EndsBy(A, i, j)
                /\ T[<<i, j>>].total = 50 * (i + j) + V[A]
           D == {d \in 0..(nl + nr) : \A i \in 0..nl, j \in 0..nr : i + j <= d => Fine(i, j)}
<1>1. /\ nl \in Nat /\ nr \in Nat /\ cost \in [{Key(p) : p \in K} -> Int]
      /\ T[<<0, 0>>].total = 0 /\ T[<<0, 0>>].pairs = {}
      /\ \A i \in 0..nl, j \in 0..nr : T[<<i, j>>].total \in Int
      /\ \A A \in SUBSET K : V[A] \in Int
      /\ V[{}] = 0
      /\ \A p \in K : cost[Key(p)] = Worth(p) + 20 + 50 * (p.l.len + p.r.len)
    <2> HIDE DEF Fine, D
    <2>1. nl \in Nat /\ nr \in Nat /\ cost \in [{Key(p) : p \in K} -> Int]
        BY TableFits
    <2>2. /\ T[<<0, 0>>].total = 0 /\ T[<<0, 0>>].pairs = {} /\ V[{}] = 0
          /\ \A i \in 0..nl, j \in 0..nr : T[<<i, j>>].total \in Int
        BY TableFits
    <2>3. \A A \in SUBSET K : V[A] \in Int
        BY TableFits
    <2>4. \A p \in K : cost[Key(p)] = Worth(p) + 20 + 50 * (p.l.len + p.r.len)
        BY TableFits
    <2> QED BY <2>1, <2>2, <2>3, <2>4
<1>2. Filled(T, nl, nr, cost)
    BY DEF TableOf
<1> HIDE DEF nl, nr, cost
<1>3. Fine(0, 0)
    <2>1. Chain({}) /\ EndsBy({}, 0, 0) /\ {Key(p) : p \in {}} = {}
        BY DEF Chain, EndsBy
    <2>2. T[<<0, 0>>].total = 50 * (0 + 0) + V[{}]
        BY <1>1
    <2> QED BY <1>1, <2>1, <2>2
<1>4. ASSUME NEW i \in 0..nl, NEW j \in 0..nr, i + j > 0,
             \A g \in 0..nl, h \in 0..nr : g + h < i + j => Fine(g, h)
      PROVE  Fine(i, j)
    <2>1. \/ \E m \in Ends(cost, i, j) :
                /\ T[<<i, j>>].total = T[<<i - m[1], j - m[2]>>].total + cost[KeyAt(i, j, m)] - 20
                /\ T[<<i, j>>].pairs = T[<<i - m[1], j - m[2]>>].pairs \cup {KeyAt(i, j, m)}
          \/ /\ i > 0 /\ T[<<i, j>>].total = T[<<i - 1, j>>].total + 50
             /\ T[<<i, j>>].pairs = T[<<i - 1, j>>].pairs
          \/ /\ j > 0 /\ T[<<i, j>>].total = T[<<i, j - 1>>].total + 50
             /\ T[<<i, j>>].pairs = T[<<i, j - 1>>].pairs
        <3> DEFINE S == {Key(p) : p \in K}
        <3>1. cost \in [S -> Int] /\ nl \in Nat /\ nr \in Nat /\ i \in 0..nl /\ j \in 0..nr /\ i + j > 0
            BY <1>1, <1>4
        <3> HIDE DEF S, Fine, D
        <3>2. Reached(T, cost, i, j)
            BY <1>2, <3>1, CellIsBest
        <3> QED BY <3>2 DEF Reached
    <2>2. T[<<i, j>>].total \in Int /\ i \in Nat /\ j \in Nat
        BY <1>1
    <2>3. CASE \E m \in Ends(cost, i, j) :
                /\ T[<<i, j>>].total = T[<<i - m[1], j - m[2]>>].total + cost[KeyAt(i, j, m)] - 20
                /\ T[<<i, j>>].pairs = T[<<i - m[1], j - m[2]>>].pairs \cup {KeyAt(i, j, m)}
        <3>1. PICK m \in Ends(cost, i, j) :
                /\ T[<<i, j>>].total = T[<<i - m[1], j - m[2]>>].total + cost[KeyAt(i, j, m)] - 20
                /\ T[<<i, j>>].pairs = T[<<i - m[1], j - m[2]>>].pairs \cup {KeyAt(i, j, m)}
            BY <2>3
        <3>2. /\ m[1] \in 1..4 /\ m[2] \in 1..4
              /\ i - m[1] \in 0..(i - 1) /\ j - m[2] \in 0..(j - 1)
              /\ KeyAt(i, j, m) \in DOMAIN cost
            BY <2>2, EndsFit
        <3>3. PICK p \in K : Key(p) = KeyAt(i, j, m)
            <4>1. DOMAIN cost = {Key(p) : p \in K}
                BY <1>1
            <4> QED BY <3>2, <4>1
        <3>4. p.l.from = i - m[1] + 1 /\ p.l.len = m[1] /\ p.r.from = j - m[2] + 1 /\ p.r.len = m[2]
            BY <3>3 DEF Key, KeyAt
        <3> DEFINE g == i - p.l.len
                   h == j - p.r.len
        <3>5. g \in 0..nl /\ h \in 0..nr /\ g + h < i + j
            BY <1>1, <2>2, <3>2, <3>4
        <3>6. Fine(g, h)
            BY <1>4, <3>5
        <3>7. PICK A \in SUBSET K : /\ T[<<g, h>>].pairs = {Key(q) : q \in A}
                                    /\ Chain(A) /\ EndsBy(A, g, h)
                                    /\ T[<<g, h>>].total = 50 * (g + h) + V[A]
            BY <3>6
        <3> HIDE DEF Fine
        <3>8. p.l.from + p.l.len = i + 1 /\ p.r.from + p.r.len = j + 1
            BY <2>2, <3>2, <3>4
        <3>9. p \notin A /\ Chain(A \cup {p}) /\ EndsBy(A \cup {p}, i, j)
            BY <2>2, <3>7, <3>8, ChainGrows
        <3>10. (A \cup {p}) \ {p} = A /\ A \cup {p} \in SUBSET K /\ A \cup {p} \in SUBSET Candidates(b)
            BY <3>9
        <3>11. V[A \cup {p}] = Worth(p) + V[A]
            <4> DEFINE B == A \cup {p}
            <4>1. B \in SUBSET Candidates(b) /\ p \in B /\ B \ {p} = A
                BY <3>10
            <4> HIDE DEF B
            <4>2. V[B] = Worths(b)[p] + V[B \ {p}]
                BY <4>1 DEF Adds
            <4>3. Worths(b)[p] = Worth(p)
                BY WorthFits
            <4> QED BY <4>1, <4>2, <4>3 DEF B
        <3>12. T[<<i, j>>].pairs = {Key(q) : q \in A \cup {p}}
            BY <3>1, <3>3, <3>4, <3>7
        <3>13. T[<<i, j>>].total = T[<<g, h>>].total + cost[Key(p)] - 20
            BY <3>1, <3>3, <3>4
        <3> DEFINE t == T[<<i, j>>].total
                   u == T[<<g, h>>].total
                   w == Worth(p)
                   v == V[A]
                   l == p.l.len
                   r == p.r.len
                   c == cost[Key(p)]
        <3>14. /\ t = u + c - 20 /\ u = 50 * (g + h) + v
               /\ c = w + 20 + 50 * (l + r) /\ g = i - l /\ h = j - r
               /\ t \in Int /\ w \in Int /\ v \in Int /\ l \in 1..4 /\ r \in 1..4
            <4>1. w \in Int
                BY WorthFits
            <4> QED BY <1>1, <2>2, <3>2, <3>4, <3>7, <3>13, <4>1
        <3> HIDE DEF t, u, w, v, l, r, c, g, h
        <3>15. t = 50 * (i + j) + (w + v)
            BY <2>2, <3>14
        <3>16. T[<<i, j>>].total = 50 * (i + j) + V[A \cup {p}]
            BY <3>11, <3>15 DEF t, w, v
        <3> QED BY <3>9, <3>10, <3>12, <3>16 DEF Fine
    <2>4. CASE /\ i > 0 /\ T[<<i, j>>].total = T[<<i - 1, j>>].total + 50
               /\ T[<<i, j>>].pairs = T[<<i - 1, j>>].pairs
        <3> DEFINE g == i - 1
        <3>1. g \in 0..nl /\ g + j < i + j
            BY <1>1, <2>4
        <3>2. Fine(g, j)
            BY <1>4, <3>1
        <3>3. PICK A \in SUBSET K : /\ T[<<g, j>>].pairs = {Key(q) : q \in A}
                                    /\ Chain(A) /\ EndsBy(A, g, j)
                                    /\ T[<<g, j>>].total = 50 * (g + j) + V[A]
            BY <3>2
        <3>4. EndsBy(A, i, j)
            <4>1. ASSUME NEW p \in A PROVE p.l.from + p.l.len <= i + 1
                <5>1. p.l.from \in Nat /\ p.l.len \in 1..4 /\ p.l.from + p.l.len <= g + 1
                    BY <3>3, CandidateIn DEF EndsBy
                <5> QED BY <2>2, <5>1
            <4> QED BY <3>3, <4>1 DEF EndsBy
        <3>5. T[<<i, j>>].total = 50 * (i + j) + V[A]
            <4>1. V[A] \in Int
                BY <1>1
            <4> QED BY <2>2, <2>4, <3>3, <4>1
        <3> QED BY <2>4, <3>3, <3>4, <3>5
    <2>5. CASE /\ j > 0 /\ T[<<i, j>>].total = T[<<i, j - 1>>].total + 50
               /\ T[<<i, j>>].pairs = T[<<i, j - 1>>].pairs
        <3> DEFINE h == j - 1
        <3>1. h \in 0..nr /\ i + h < i + j
            BY <1>1, <2>5
        <3>2. Fine(i, h)
            BY <1>4, <3>1
        <3>3. PICK A \in SUBSET K : /\ T[<<i, h>>].pairs = {Key(q) : q \in A}
                                    /\ Chain(A) /\ EndsBy(A, i, h)
                                    /\ T[<<i, h>>].total = 50 * (i + h) + V[A]
            BY <3>2
        <3>4. EndsBy(A, i, j)
            <4>1. ASSUME NEW p \in A PROVE p.r.from + p.r.len <= j + 1
                <5>1. p.r.from \in Nat /\ p.r.len \in 1..4 /\ p.r.from + p.r.len <= h + 1
                    BY <3>3, CandidateIn DEF EndsBy
                <5> QED BY <2>2, <5>1
            <4> QED BY <3>3, <4>1 DEF EndsBy
        <3>5. T[<<i, j>>].total = 50 * (i + j) + V[A]
            <4>1. V[A] \in Int
                BY <1>1
            <4> QED BY <2>2, <2>5, <3>3, <4>1
        <3> QED BY <2>5, <3>3, <3>4, <3>5
    <2> QED BY <2>1, <2>3, <2>4, <2>5
<1> HIDE DEF Fine
<1>6. 0 \in D
    <2>1. ASSUME NEW i \in 0..nl, NEW j \in 0..nr, i + j <= 0 PROVE i = 0 /\ j = 0
        BY <1>1, <2>1
    <2> QED BY <1>1, <1>3, <2>1
<1>7. ASSUME NEW k \in 0..(nl + nr), k < nl + nr, k \in D PROVE k + 1 \in D
    <2>1. ASSUME NEW i \in 0..nl, NEW j \in 0..nr, i + j <= k + 1 PROVE Fine(i, j)
        <3>1. CASE i + j <= k
            BY <1>7, <3>1
        <3>2. CASE i + j > k
            <4>1. i + j = k + 1
                BY <1>1, <2>1, <3>2
            <4>2. \A g \in 0..nl, h \in 0..nr : g + h < i + j => Fine(g, h)
                <5>1. ASSUME NEW g \in 0..nl, NEW h \in 0..nr, g + h < i + j PROVE g + h <= k
                    BY <1>1, <4>1, <5>1
                <5> QED BY <1>7, <5>1
            <4>3. i + j > 0
                BY <1>1, <4>1
            <4> QED BY <1>4, <4>2, <4>3
        <3> QED BY <1>1, <3>1, <3>2
    <2>2. k + 1 \in 0..(nl + nr)
        BY <1>1, <1>7
    <2> QED BY <2>1, <2>2
<1>8. nl + nr \in D
    <2>1. \A k \in 0..(nl + nr) : (k < nl + nr /\ k \in D) => k + 1 \in D
        BY <1>7
    <2> HIDE DEF D
    <2>2. nl + nr \in Nat /\ nl + nr \in 0..(nl + nr)
        BY <1>1
    <2>3. \A k \in 0..(nl + nr) : k \in D
        BY <1>6, <2>1, <2>2, UpTo
    <2> QED BY <2>2, <2>3
<1>9. \A i \in 0..nl, j \in 0..nr : Fine(i, j)
    <2>1. \A i \in 0..nl, j \in 0..nr : i + j <= nl + nr
        BY <1>1
    <2> QED BY <1>8, <2>1
<1> QED BY <1>9 DEF Fine, nl, nr, Attained

\* Assignments that do not cross.
Uncrossed(K) == {A \in Assignments(K) : \A p, q \in A : ~Crossing(p, q)}

\* They are the chains.
LEMMA ChainsAreUncrossed ==
    ASSUME IsPage(page), NEW b \in Blocks, NEW K \in SUBSET Candidates(b), NEW A \in SUBSET K
    PROVE  Chain(A) <=> A \in Uncrossed(K)
<1>1. \A p, q \in A : ~Shares(p, q) /\ ~Crossing(p, q) <=> Precedes(p, q) \/ Precedes(q, p)
    BY PairsInOrder
<1>2. \A p \in A : ~Crossing(p, p)
    <2>1. ASSUME NEW p \in A PROVE ~Crossing(p, p)
        <3>1. p.l.from \in Nat /\ p.r.from \in Nat
            BY CandidateIn
        <3>2. p.l.from - p.l.from = 0 /\ p.r.from - p.r.from = 0
            BY <3>1
        <3>3. Crossing(p, p) <=> 0 * 0 < 0
            BY <3>2 DEF Crossing
        <3> QED BY <3>3
    <2> QED BY <2>1
<1>3. Chain(A) <=> \A p, q \in A : p # q => ~Shares(p, q) /\ ~Crossing(p, q)
    BY <1>1 DEF Chain
<1> QED BY <1>2, <1>3 DEF Uncrossed, Assignments

\* All candidates of a block are within its fragments.
LEMMA AllEndInBlock ==
    ASSUME IsPage(page), NEW b \in Blocks, NEW A \in SUBSET Candidates(b)
    PROVE  EndsBy(A, Len(b.order.left), Len(b.order.right))
<1> DEFINE nl == Len(b.order.left)
           nr == Len(b.order.right)
<1>1. ASSUME NEW p \in A PROVE p.l.from + p.l.len <= nl + 1 /\ p.r.from + p.r.len <= nr + 1
    <2>1. /\ p.l.from \in Nat /\ p.l.len \in 1..4 /\ p.l.from + p.l.len - 1 <= nl /\ nl \in Nat
          /\ p.r.from \in Nat /\ p.r.len \in 1..4 /\ p.r.from + p.r.len - 1 <= nr /\ nr \in Nat
        BY CandidateIn
    <2> HIDE DEF nl, nr
    <2> QED BY <2>1
<1> QED BY <1>1 DEF EndsBy

\* What the solver answers is an uncrossed assignment of its candidates, costs
\* what the solver says, and no uncrossed assignment of them is cheaper.
LEMMA SolverIsOptimal ==
    ASSUME IsPage(page), NEW b \in Blocks, NEW K \in SUBSET Candidates(b)
    PROVE  /\ SolveBlock(b, K).pairs \in Uncrossed(K)
           /\ SolveBlock(b, K).total \in Int
           /\ Price(b, SolveBlock(b, K).pairs) = SolveBlock(b, K).total
           /\ \A A \in Uncrossed(K) : Price(b, A) \in Int /\ SolveBlock(b, K).total <= Price(b, A)
<1> DEFINE nl == Len(b.order.left)
           nr == Len(b.order.right)
           solved == Solve(nl, nr, CostsOf(K))
           s == SolveBlock(b, K)
<1>1. nl \in Nat /\ nr \in Nat
    <2>1. b.order["left"] \in Seq(Fragments("left")) /\ b.order["right"] \in Seq(Fragments("right"))
        BY BlocksFit DEF Side
    <2> QED BY <2>1
<1>2. PICK T : TableOf(T, b, K) /\ solved = T[<<nl, nr>>]
    <2> DEFINE S == {Key(p) : p \in K}
               cost == CostsOf(K)
    <2>1. cost \in [S -> Int]
        BY CostsOfFit
    <2> HIDE DEF S, cost, nl, nr
    <2>2. \E T : Filled(T, nl, nr, cost) /\ Solve(nl, nr, cost) = T[<<nl, nr>>]
        BY <1>1, <2>1, SolveIsFilled
    <2> QED BY <2>2 DEF TableOf, cost, nl, nr
<1>3. PICK V : /\ Adds(V, Candidates(b), Worths(b))
               /\ \A A \in Assignments(Candidates(b)) : Price(b, A) = 50 * (nl + nr) + V[A]
    BY PriceAdds
<1>4. \A A \in SUBSET Candidates(b) : V[A] \in Int
    BY <1>3 DEF Adds
<1>5. s.total = solved.total /\ s.pairs = {OfKey(K, key) : key \in solved.pairs}
    BY DEF SolveBlock
<1>6. PICK B \in SUBSET K : /\ T[<<nl, nr>>].pairs = {Key(p) : p \in B}
                            /\ Chain(B)
                            /\ T[<<nl, nr>>].total = 50 * (nl + nr) + V[B]
    <2>1. nl \in 0..nl /\ nr \in 0..nr
        BY <1>1
    <2>2. \A i \in 0..nl, j \in 0..nr : Attained(T, V, K, i, j)
        BY <1>2, <1>3, CellIsAttained
    <2>3. Attained(T, V, K, nl, nr)
        BY <2>1, <2>2
    <2> QED BY <2>3 DEF Attained
<1>7. s.pairs = B
    <2>1. \A p \in B : OfKey(K, Key(p)) = p
        BY CostsOfFit
    <2> QED BY <1>2, <1>5, <1>6, <2>1
<1>8. s.total = 50 * (nl + nr) + V[B]
    BY <1>2, <1>5, <1>6
<1>9. ASSUME NEW A \in Uncrossed(K) PROVE A \in SUBSET K /\ Price(b, A) = 50 * (nl + nr) + V[A]
    <2>1. A \in Assignments(Candidates(b)) /\ A \in SUBSET K
        BY DEF Uncrossed, Assignments
    <2> QED BY <1>3, <2>1
<1>10. s.pairs \in Uncrossed(K)
    BY <1>6, <1>7, ChainsAreUncrossed
<1>11. s.total \in Int /\ Price(b, s.pairs) = s.total
    <2>1. V[B] \in Int
        BY <1>4
    <2>2. Price(b, s.pairs) = 50 * (nl + nr) + V[B]
        BY <1>7, <1>9, <1>10
    <2> HIDE DEF nl, nr, s
    <2> QED BY <1>1, <1>8, <2>1, <2>2
<1>12. ASSUME NEW A \in Uncrossed(K) PROVE Price(b, A) \in Int /\ s.total <= Price(b, A)
    <2>1. A \in SUBSET K /\ Price(b, A) = 50 * (nl + nr) + V[A] /\ V[A] \in Int
        BY <1>4, <1>9
    <2>2. Chain(A)
        BY <2>1, ChainsAreUncrossed
    <2>3. EndsBy(A, nl, nr)
        BY <2>1, AllEndInBlock
    <2>4. T[<<nl, nr>>].total <= 50 * (nl + nr) + V[A]
        <3>1. nl \in 0..nl /\ nr \in 0..nr
            BY <1>1
        <3> QED BY <1>2, <1>3, <2>1, <2>2, <2>3, <3>1, NoChainIsCheaper
    <2>5. s.total <= Price(b, A)
        BY <1>2, <1>5, <2>1, <2>4
    <2>6. Price(b, A) \in Int
        <3> HIDE DEF nl, nr
        <3> QED BY <1>1, <2>1
    <2> QED BY <2>5, <2>6
<1> QED BY <1>10, <1>11, <1>12

\* The solver's optimum is the cheapest, at every page aligned.
LEMMA OptimumAlwaysCheapest ==
    ASSUME IsPage(page)
    PROVE  OptimumIsCheapest
<1>1. ASSUME NEW b \in Blocks
      PROVE  LET candidates == Candidates(b)
                 optimal == SolveBlock(b, candidates)
             IN  /\ Price(b, optimal.pairs) = optimal.total
                 /\ \A A \in Assignments(candidates) :
                        (\A p, q \in A : ~Crossing(p, q)) => optimal.total <= Price(b, A)
    <2> DEFINE C == Candidates(b)
    <2>1. /\ Price(b, SolveBlock(b, C).pairs) = SolveBlock(b, C).total
          /\ \A A \in Uncrossed(C) : SolveBlock(b, C).total <= Price(b, A)
        BY SolverIsOptimal
    <2> QED BY <2>1 DEF Uncrossed
<1> QED BY <1>1 DEF OptimumIsCheapest

---------------------------------------------------------------------------
(* What is matched, and what is left *)

Optimum(b) == SolveBlock(b, Candidates(b))

\* A match is a pair of the optimum that nothing rivals; every other pair of the
\* optimum is reported as a unit.
LEMMA BlockOutcomeTells ==
    ASSUME IsPage(page), NEW b \in Blocks
    PROVE  /\ \A p \in BlockOutcome(b).matches :
                /\ ~TooLarge(b) /\ p \in Optimum(b).pairs
                /\ Margin(b, Candidates(b), Optimum(b), p) >= 12
           /\ ~TooLarge(b) =>
                \A p \in Optimum(b).pairs :
                    \/ p \in BlockOutcome(b).matches
                    \/ \E e \in BlockOutcome(b).ambiguous : e.unit = p
<1> DEFINE C == Candidates(b)
           opt == Optimum(b)
           margin == [p \in opt.pairs |-> Margin(b, C, opt, p)]
<1>1. CASE TooLarge(b)
    BY <1>1 DEF BlockOutcome
<1>2. CASE ~TooLarge(b)
    <2>1. BlockOutcome(b) = Outcome(C, opt, margin)
        BY <1>2, MatchBlockIs DEF BlockOutcome, Optimum
    <2>2. ASSUME NEW p \in Outcome(C, opt, margin).matches
          PROVE  p \in opt.pairs /\ margin[p] >= 12
        <3> HIDE DEF margin, C, opt
        <3> QED BY DEF Outcome, MinMargin
    <2>3. ASSUME NEW p \in opt.pairs
          PROVE  \/ p \in Outcome(C, opt, margin).matches
                 \/ \E e \in Outcome(C, opt, margin).ambiguous : e.unit = p
        <3> DEFINE out == Outcome(C, opt, margin)
                   \* The entry of a pair that is no match.
                   entry(r) == [unit |-> p, reason |-> r, candidates |-> {q \in C : Shares(p, q)}]
        <3>1. p \in out.matches \/ \E r : entry(r) \in out.ambiguous
            <4> HIDE DEF margin, C, opt
            <4> QED BY DEF Outcome
        <3>2. \A r : entry(r).unit = p
            OBVIOUS
        <3> HIDE DEF out, entry
        <3>3. p \in out.matches \/ \E e \in out.ambiguous : e.unit = p
            BY <3>1, <3>2
        <3> QED BY <3>3 DEF out
    <2>4. \A p \in opt.pairs : margin[p] = Margin(b, C, opt, p)
        OBVIOUS
    <2> HIDE DEF margin, C, opt
    <2>5. ASSUME NEW p \in BlockOutcome(b).matches
          PROVE  p \in opt.pairs /\ Margin(b, C, opt, p) >= 12
        <3>1. p \in opt.pairs /\ margin[p] >= 12
            BY <2>1, <2>2
        <3> QED BY <2>4, <3>1
    <2>6. ASSUME NEW p \in opt.pairs
          PROVE  \/ p \in BlockOutcome(b).matches
                 \/ \E e \in BlockOutcome(b).ambiguous : e.unit = p
        BY <2>1, <2>3
    <2> QED BY <1>2, <2>5, <2>6 DEF C, opt
<1> QED BY <1>1, <1>2

\* The pairs of the optimum are among what the answer chose.
ChosenPairs == AlignPage.matches \cup {e.unit : e \in AlignPage.ambiguous}

\* No pair of the optimum is lost on the way to the answer.
LEMMA OptimumIsChosen ==
    ASSUME IsPage(page), NEW b \in Blocks, ~TooLarge(b)
    PROVE  Optimum(b).pairs \subseteq ChosenPairs
<1>1. ASSUME NEW p \in Optimum(b).pairs PROVE p \in ChosenPairs
    <2>1. \/ p \in BlockOutcome(b).matches
          \/ \E e \in BlockOutcome(b).ambiguous : e.unit = p
        BY BlockOutcomeTells
    <2>2. BlockOutcome(b).matches \subseteq AlignPage.matches
        BY AlignPageFits
    <2>3. BlockOutcome(b).ambiguous \subseteq AlignPage.ambiguous
        BY AlignPageFits
    <2> QED BY <2>1, <2>2, <2>3 DEF ChosenPairs
<1> QED BY <1>1

\* A match of the page is a match of the block whose candidate it is.
LEMMA MatchOfBlock ==
    ASSUME IsPage(page), NEW p \in AlignPage.matches
    PROVE  /\ \E b \in Blocks : p \in BlockOutcome(b).matches /\ p \in Candidates(b)
           /\ \A b \in Blocks : p \in Candidates(b) => p \in BlockOutcome(b).matches
<1>1. PICK c \in Blocks : p \in BlockOutcome(c).matches
    BY AlignPageFits
<1>2. p \in Candidates(c)
    BY <1>1, BlockOutcomeFits
<1>3. ASSUME NEW b \in Blocks, p \in Candidates(b) PROVE b = c
    <2>1. p.left \subseteq Range(b.order["left"]) /\ p.left \subseteq Range(c.order["left"]) /\ p.left # {}
        BY <1>2, <1>3, CandidatesFit
    <2>2. PICK i : i \in p.left
        BY <2>1
    <2> QED BY <2>1, <2>2, BlocksApart DEF Side
<1> QED BY <1>1, <1>2, <1>3

\* Candidates of different blocks have nothing in common.
LEMMA CandidatesApart ==
    ASSUME IsPage(page), NEW b \in Blocks, NEW c \in Blocks,
           NEW p \in Candidates(b), NEW q \in Candidates(c), Shares(p, q)
    PROVE  b = c
<1>1. /\ p.left \subseteq Range(b.order["left"]) /\ q.left \subseteq Range(c.order["left"])
      /\ p.right \subseteq Range(b.order["right"]) /\ q.right \subseteq Range(c.order["right"])
    BY CandidatesFit
<1>2. "left" \in Side /\ "right" \in Side
    BY DEF Side
<1>3. CASE \E i : i \in p.left /\ i \in q.left
    BY <1>1, <1>2, <1>3, BlocksApart
<1>4. CASE \E i : i \in p.right /\ i \in q.right
    BY <1>1, <1>2, <1>4, BlocksApart
<1> QED BY <1>3, <1>4 DEF Shares

\* A candidate that the optimum leaves out would have shared with one of its
\* pairs or crossed one: adding it would have been cheaper.
LEMMA OptimumIsFull ==
    ASSUME IsPage(page), NEW b \in Blocks, NEW q \in Candidates(b)
    PROVE  \E p \in Optimum(b).pairs : Shares(p, q) \/ Crossing(p, q)
<1> DEFINE C == Candidates(b)
           opt == Optimum(b).pairs
           A == opt \cup {q}
<1>1. /\ opt \in Uncrossed(C) /\ Optimum(b).total \in Int
      /\ Price(b, opt) = Optimum(b).total
      /\ \A D \in Uncrossed(C) : Price(b, D) \in Int /\ Optimum(b).total <= Price(b, D)
    <2> HIDE DEF A
    <2>1. C \in SUBSET Candidates(b)
        OBVIOUS
    <2> QED BY <2>1, SolverIsOptimal DEF Optimum
<1>2. PICK V : /\ Adds(V, C, Worths(b))
               /\ \A D \in Assignments(C) :
                        Price(b, D) = 50 * (Len(b.order.left) + Len(b.order.right)) + V[D]
    BY PriceAdds
<1> DEFINE base == 50 * (Len(b.order.left) + Len(b.order.right))
<1>3. base \in Int
    <2>1. b.order["left"] \in Seq(Fragments("left")) /\ b.order["right"] \in Seq(Fragments("right"))
        BY BlocksFit DEF Side
    <2>2. Len(b.order.left) \in Nat /\ Len(b.order.right) \in Nat
        BY <2>1
    <2> QED BY <2>2
<1>4. opt \subseteq C /\ opt \in Assignments(C) /\ A \subseteq C
    BY <1>1 DEF Uncrossed, Assignments
<1> HIDE DEF base
<1>5. SUFFICES ASSUME \A p \in opt : ~Shares(p, q) /\ ~Crossing(p, q) PROVE FALSE
    OBVIOUS
<1>6. q \notin opt
    <2>1. Shares(q, q)
        <3>1. q.left # {}
            BY CandidatesFit
        <3> QED BY <3>1 DEF Shares
    <2> QED BY <1>5, <2>1
<1>7. A \in Uncrossed(C)
    <2>1. Chain(opt)
        BY <1>1, <1>4, ChainsAreUncrossed
    <2>2. \A p \in opt : Precedes(p, q) \/ Precedes(q, p)
        BY <1>4, <1>5, PairsInOrder
    <2>3. Chain(A)
        BY <2>1, <2>2 DEF Chain
    <2> HIDE DEF A, opt
    <2> QED BY <1>4, <2>3, ChainsAreUncrossed
<1>8. A \in Assignments(C)
    BY <1>7 DEF Uncrossed
<1>9. V[A] = Worth(q) + V[opt] /\ Worth(q) \in Int /\ Worth(q) < 0
    <2>1. A \ {q} = opt /\ q \in A
        BY <1>6
    <2> HIDE DEF A, opt
    <2>2. V[A] = Worths(b)[q] + V[A \ {q}]
        BY <1>2, <1>4, <2>1 DEF Adds
    <2>3. Worths(b)[q] = Worth(q) /\ Worth(q) \in Int /\ Worth(q) < 0
        BY WorthFits
    <2> QED BY <2>1, <2>2, <2>3
<1>10. V[opt] \in Int
    BY <1>2, <1>4 DEF Adds
<1>11. Price(b, A) = base + V[A] /\ Price(b, opt) = base + V[opt]
    BY <1>2, <1>4, <1>8 DEF base
<1>12. Price(b, opt) <= Price(b, A)
    BY <1>1, <1>7
<1> HIDE DEF A, opt
<1> QED BY <1>3, <1>9, <1>10, <1>11, <1>12

\* What the answer says is unmatched has no partner left.
LEMMA UnmatchedAlwaysWithout ==
    ASSUME IsPage(page), aligned = AlignPage
    PROVE  UnmatchedHasNoPartner
<1>1. ASSUME NEW p \in AlignPage.matches, NEW q \in AlignPage.matches, p # q
      PROVE  ~Shares(p, q)
    <2>1. PICK b \in Blocks : p \in BlockOutcome(b).matches /\ p \in Candidates(b)
        BY MatchOfBlock
    <2>2. PICK c \in Blocks : q \in BlockOutcome(c).matches /\ q \in Candidates(c)
        BY MatchOfBlock
    <2>3. CASE b = c
        <3>1. p \in Optimum(b).pairs /\ q \in Optimum(b).pairs
            BY <2>1, <2>2, <2>3, BlockOutcomeTells
        <3> DEFINE C == Candidates(b)
        <3>2. Optimum(b).pairs \in Uncrossed(C)
            <4>1. C \in SUBSET Candidates(b)
                OBVIOUS
            <4> QED BY <4>1, SolverIsOptimal DEF Optimum
        <3> QED BY <1>1, <3>1, <3>2 DEF Uncrossed, Assignments
    <2>4. CASE b # c
        BY <2>1, <2>2, <2>4, CandidatesApart
    <2> QED BY <2>3, <2>4
<1>2. ASSUME NEW p \in AlignPage.matches \cup UNION {e.candidates : e \in AlignPage.ambiguous}
      PROVE  p.left \subseteq Fragments("left") /\ p.right \subseteq Fragments("right")
    <2>1. \E b \in Blocks : p \in Candidates(b)
        <3>1. CASE p \in AlignPage.matches
            BY <3>1, MatchOfBlock
        <3>2. CASE \E e \in AlignPage.ambiguous : p \in e.candidates
            <4>1. PICK e \in AlignPage.ambiguous : p \in e.candidates
                BY <3>2
            <4>2. PICK b \in Blocks : e \in BlockOutcome(b).ambiguous
                BY AlignPageFits
            <4> QED BY <4>1, <4>2, BlockOutcomeFits
        <3> QED BY <1>2, <3>1, <3>2
    <2> QED BY <2>1, CandidatesFit
<1>3. ASSUME NEW b \in Blocks, ~TooLarge(b), NEW q \in Candidates(b)
      PROVE  \/ \E p \in ChosenPairs : Shares(p, q)
             \/ \E p \in ChosenPairs : p \in Candidates(b) /\ Crossing(p, q)
    <2>1. PICK p \in Optimum(b).pairs : Shares(p, q) \/ Crossing(p, q)
        BY OptimumIsFull
    <2>2. p \in ChosenPairs
        BY <1>3, OptimumIsChosen
    <2>3. p \in Candidates(b)
        <3> DEFINE C == Candidates(b)
        <3>1. C \in SUBSET Candidates(b)
            OBVIOUS
        <3>2. Optimum(b).pairs \subseteq C
            BY <3>1, SolveBlockFits DEF Optimum
        <3> QED BY <3>2
    <2> QED BY <2>1, <2>2, <2>3
<1> QED BY <1>1, <1>2, <1>3 DEF UnmatchedHasNoPartner, ChosenPairs

---------------------------------------------------------------------------
(* Margins *)

\* The total of a finite function is a number.
LEMMA TotalFits ==
    ASSUME NEW S, IsFiniteSet(S), NEW f \in [S -> Int]
    PROVE  Total(f) \in Int
<1>1. PICK G : Adds(G, S, f) /\ \A D \in SUBSET S : Total([x \in D |-> f[x]]) = G[D]
    BY TotalsAdd
<1>2. [x \in S |-> f[x]] = f
    OBVIOUS
<1>3. Total(f) = G[S]
    BY <1>1, <1>2
<1> QED BY <1>1, <1>3 DEF Adds

KeysAmong(b, left, right, inside) == {KeyAmong(b, left, right, p) : p \in inside}

\* What the local solver is given are costs.
LEMMA CostsAmongFit ==
    ASSUME IsPage(page), NEW b \in Blocks, NEW left, NEW right, NEW inside \in SUBSET Candidates(b)
    PROVE  CostsAmong(b, left, right, inside) \in [KeysAmong(b, left, right, inside) -> Int]
<1> DEFINE keys == {KeyAmong(b, left, right, p) : p \in inside}
           the(k) == CHOOSE p \in inside : KeyAmong(b, left, right, p) = k
<1>1. ASSUME NEW k \in keys PROVE CostOf(the(k)) \in Int
    <2>1. \E p \in inside : KeyAmong(b, left, right, p) = k
        BY <1>1
    <2>2. the(k) \in inside
        BY <2>1
    <2> HIDE DEF the
    <2> QED BY <2>2, WorthFits
<1>2. CostsAmong(b, left, right, inside) = [k \in keys |-> CostOf(the(k))]
    BY DEF CostsAmong
<1> HIDE DEF keys, the
<1> QED BY <1>1, <1>2 DEF keys, KeysAmong

\* What matching displaced fragments again costs.
LEMMA RescueFits ==
    ASSUME IsPage(page), NEW b \in Blocks, NEW left, IsFiniteSet(left), NEW right, IsFiniteSet(right)
    PROVE  LET inside == CandidatesAmong(Candidates(b), left, right)
               cost == CostsAmong(b, left, right, inside)
           IN  /\ Rescue(b, left, right, Candidates(b)) \in Int
               /\ Cardinality(left) \in Nat /\ Cardinality(right) \in Nat
               /\ \E T : /\ Filled(T, Cardinality(left), Cardinality(right), cost)
                         /\ Rescue(b, left, right, Candidates(b))
                                = T[<<Cardinality(left), Cardinality(right)>>].total
<1> DEFINE inside == CandidatesAmong(Candidates(b), left, right)
           cost == CostsAmong(b, left, right, inside)
           keys == KeysAmong(b, left, right, inside)
           n == Cardinality(left)
           m == Cardinality(right)
<1>1. n \in Nat /\ m \in Nat
    BY FS_CardinalityType
<1>2. cost \in [keys -> Int]
    <2>1. inside \in SUBSET Candidates(b)
        BY DEF CandidatesAmong
    <2> HIDE DEF inside
    <2> QED BY <2>1, CostsAmongFit
<1>3. Rescue(b, left, right, Candidates(b)) = Solve(n, m, cost).total
    BY DEF Rescue
<1> HIDE DEF inside, cost, keys, n, m
<1>4. PICK T : Filled(T, n, m, cost) /\ Solve(n, m, cost) = T[<<n, m>>]
    BY <1>1, <1>2, SolveIsFilled
<1>5. T[<<n, m>>].total \in Int
    <2>1. <<n, m>> \in Cells(n, m)
        BY <1>1 DEF Cells
    <2>2. T[<<n, m>>] \in CellOf(cost)
        BY <1>4, <2>1 DEF Filled
    <2> QED BY <2>2 DEF CellOf
<1>6. Rescue(b, left, right, Candidates(b)) = T[<<n, m>>].total
    BY <1>3, <1>4
<1> QED BY <1>1, <1>4, <1>5, <1>6 DEF inside, cost, n, m

\* What an exchange costs is a number.
LEMMA DeltaFits ==
    ASSUME IsPage(page), NEW b \in Blocks, NEW p \in Optimum(b).pairs, NEW q \in Candidates(b)
    PROVE  ExchangeDelta(b, Candidates(b), Optimum(b), p, q) \in Int
<1> DEFINE opt == Optimum(b)
           D == Displaced(opt, p, q)
           left == UNION {o.left : o \in D}
           right == UNION {o.right : o \in D}
           f == [o \in D |-> PairPreference - CostOf(o)]
           newly == Cardinality(q.left \ left) + Cardinality(q.right \ right)
           rescue == Rescue(b, left \ q.left, right \ q.right, Candidates(b))
<1>1. D \subseteq Candidates(b) /\ IsFiniteSet(D)
    <2> DEFINE C == Candidates(b)
    <2>1. C \in SUBSET Candidates(b)
        OBVIOUS
    <2>2. opt.pairs \subseteq C
        BY <2>1, SolveBlockFits DEF Optimum
    <2>3. D \subseteq Candidates(b)
        BY <2>2 DEF Displaced
    <2>4. IsFiniteSet(Candidates(b))
        BY CandidatesAreFinite
    <2> QED BY <2>3, <2>4, FS_Subset
<1> HIDE DEF D
<1>2. Total(f) \in Int
    <2>1. f \in [D -> Int]
        <3>1. \A o \in D : CostOf(o) \in Int
            BY <1>1, WorthFits
        <3> QED BY <3>1 DEF PairPreference
    <2> HIDE DEF f
    <2> QED BY <1>1, <2>1, TotalFits
<1>3. /\ IsFiniteSet(left \ q.left) /\ IsFiniteSet(right \ q.right)
      /\ IsFiniteSet(q.left \ left) /\ IsFiniteSet(q.right \ right)
    <2>1. \A o \in D : o.left \subseteq Fragments("left") /\ o.right \subseteq Fragments("right")
        BY <1>1, CandidatesFit
    <2>2. q.left \subseteq Fragments("left") /\ q.right \subseteq Fragments("right")
        BY CandidatesFit
    <2>3. IsFiniteSet(Fragments("left")) /\ IsFiniteSet(Fragments("right"))
        BY FragmentsFit DEF Side
    <2>4. /\ left \ q.left \subseteq Fragments("left") /\ q.left \ left \subseteq Fragments("left")
          /\ right \ q.right \subseteq Fragments("right") /\ q.right \ right \subseteq Fragments("right")
        BY <2>1, <2>2
    <2> QED BY <2>3, <2>4, FS_Subset
<1>4. newly \in Int
    BY <1>3, FS_CardinalityType
<1>5. rescue \in Int
    <2> HIDE DEF left, right
    <2> QED BY <1>3, RescueFits
<1>6. CostOf(q) \in Int
    BY WorthFits
<1>7. ExchangeDelta(b, Candidates(b), opt, p, q)
        = Total(f) + CostOf(q) - PairPreference - UnmatchedPenalty * newly + rescue
    BY DEF ExchangeDelta, D
<1> HIDE DEF f, newly, rescue, opt
<1>8. Total(f) + CostOf(q) - PairPreference - UnmatchedPenalty * newly + rescue \in Int
    BY <1>2, <1>4, <1>5, <1>6 DEF PairPreference, UnmatchedPenalty
<1> QED BY <1>7, <1>8 DEF opt

\* The margin of a pair is its least gap.
LEMMA MarginIsLeast ==
    ASSUME IsPage(page), NEW b \in Blocks, NEW p \in Optimum(b).pairs
    PROVE  /\ Margin(b, Candidates(b), Optimum(b), p) \in Int
           /\ \A g \in Gaps(b, Candidates(b), Optimum(b), p) :
                g \in Int /\ Margin(b, Candidates(b), Optimum(b), p) <= g
<1> DEFINE C == Candidates(b)
           opt == Optimum(b)
           gaps == Gaps(b, C, opt, p)
           rivals == Rivals(C, opt, p)
           first == SolveBlock(b, C \ {p}).total - opt.total
<1>1. first \in Int
    <2>1. SolveBlock(b, C).total \in Int
        <3>1. C \in SUBSET Candidates(b)
            OBVIOUS
        <3> QED BY <3>1, SolverIsOptimal
    <2>2. SolveBlock(b, C \ {p}).total \in Int
        <3>1. C \ {p} \in SUBSET Candidates(b)
            OBVIOUS
        <3> QED BY <3>1, SolverIsOptimal
    <2> QED BY <2>1, <2>2 DEF Optimum
<1>2. rivals \subseteq C /\ IsFiniteSet(rivals)
    <2>1. rivals \subseteq C
        BY DEF Rivals
    <2>2. IsFiniteSet(C)
        BY CandidatesAreFinite
    <2> HIDE DEF C, rivals
    <2> QED BY <2>1, <2>2, FS_Subset
<1> DEFINE delta(q) == ExchangeDelta(b, C, opt, p, q)
           deltas == {delta(q) : q \in rivals}
<1>3. gaps = {first} \cup deltas
    BY DEF Gaps
<1>4. \A q \in rivals : delta(q) \in Int
    BY <1>2, DeltaFits
<1> HIDE DEF rivals, delta, first
<1>5. IsFiniteSet(deltas)
    <2> DEFINE f == [q \in rivals |-> delta(q)]
    <2>1. f \in Surjection(rivals, deltas)
        BY DEF Surjection
    <2> HIDE DEF f, deltas
    <2> QED BY <1>2, <2>1, FS_Surjection
<1>6. gaps \subseteq Int /\ IsFiniteSet(gaps) /\ gaps # {}
    <2>1. IsFiniteSet({first})
        BY FS_Singleton
    <2>2. deltas \subseteq Int
        BY <1>4
    <2> HIDE DEF deltas, gaps
    <2>3. IsFiniteSet({first} \cup deltas)
        BY <1>5, <2>1, FS_Union
    <2> QED BY <1>1, <1>3, <2>2, <2>3
<1> HIDE DEF gaps
<1>7. \E g \in gaps : \A h \in gaps : g <= h
    BY <1>6, LeastExists
<1>8. Margin(b, C, opt, p) = CHOOSE g \in gaps : \A h \in gaps : g <= h
    BY DEF Margin, gaps
<1>9. Margin(b, C, opt, p) \in gaps /\ \A h \in gaps : Margin(b, C, opt, p) <= h
    BY <1>7, <1>8
<1> QED BY <1>6, <1>9 DEF gaps

---------------------------------------------------------------------------
(* Exchanges of partners *)

\* A candidate is told by the fragments it pairs.
LEMMA PairTells ==
    ASSUME IsPage(page), NEW b \in Blocks, NEW p \in Candidates(b), NEW q \in Candidates(b),
           p.left = q.left, p.right = q.right
    PROVE  p = q
<1>1. /\ p = Pairing(b, p.l, p.r) /\ q = Pairing(b, q.l, q.r)
      /\ p.l \in Spans(b, "left") /\ p.r \in Spans(b, "right")
      /\ q.l \in Spans(b, "left") /\ q.r \in Spans(b, "right")
      /\ p.left = Covers(b, "left", p.l) /\ p.right = Covers(b, "right", p.r)
      /\ q.left = Covers(b, "left", q.l) /\ q.right = Covers(b, "right", q.r)
    BY CandidatesFit
<1>2. p.l = q.l
    BY <1>1, CoversTell DEF Side
<1>3. p.r = q.r
    BY <1>1, CoversTell DEF Side
<1> QED BY <1>1, <1>2, <1>3

\* q1 and q2 pair what p and o pair, the other way round.
Exchanges(p, o, q1, q2) ==
    /\ q1.left = p.left /\ q1.right = o.right
    /\ q2.left = o.left /\ q2.right = p.right

\* Where both exchanged pairs are candidates, they are the two that Swapped holds.
LEMMA SwapIs ==
    ASSUME IsPage(page), NEW b \in Blocks, NEW p \in Candidates(b), NEW o \in Candidates(b),
           Cardinality(Swapped(Candidates(b), p, o)) = 2, ~Shares(p, o)
    PROVE  \E q1 \in Candidates(b) : \E q2 \in Candidates(b) :
                /\ Exchanges(p, o, q1, q2)
                /\ Swapped(Candidates(b), p, o) = {q1, q2}
<1> DEFINE S == Swapped(Candidates(b), p, o)
<1>1. /\ S \subseteq Candidates(b)
      /\ \A s \in S : \/ s.left = p.left /\ s.right = o.right
                      \/ s.left = o.left /\ s.right = p.right
    BY DEF Swapped
<1>2. IsFiniteSet(S)
    BY <1>1, CandidatesAreFinite, FS_Subset
<1> HIDE DEF S
<1>3. PICK x \in S, y \in S : x # y
    <2>1. S # {}
        <3>1. Cardinality({}) = 0
            BY FS_EmptySet
        <3>2. Cardinality(S) = 2
            BY DEF S
        <3> QED BY <3>1, <3>2
    <2>2. PICK x \in S : TRUE
        BY <2>1
    <2>3. Cardinality({x}) = 1
        BY FS_Singleton
    <2>4. S # {x}
        BY <2>3 DEF S
    <2> QED BY <2>2, <2>4
<1>4. ASSUME NEW s \in S, NEW t \in S, s.left = t.left, s.right = t.right PROVE s = t
    BY <1>1, <1>4, PairTells
<1>5. \/ x.left = p.left /\ x.right = o.right /\ y.left = o.left /\ y.right = p.right
      \/ y.left = p.left /\ y.right = o.right /\ x.left = o.left /\ x.right = p.right
    BY <1>1, <1>3, <1>4
<1>6. ASSUME NEW q1 \in S, NEW q2 \in S, Exchanges(p, o, q1, q2)
      PROVE  /\ q1 \in Candidates(b) /\ q2 \in Candidates(b) /\ S = {q1, q2}
    BY <1>1, <1>4, <1>6 DEF Exchanges
<1>7. CASE x.left = p.left /\ x.right = o.right /\ y.left = o.left /\ y.right = p.right
    <2>1. Exchanges(p, o, x, y)
        BY <1>7 DEF Exchanges
    <2> QED BY <1>6, <2>1 DEF S
<1>8. CASE y.left = p.left /\ y.right = o.right /\ x.left = o.left /\ x.right = p.right
    <2>1. Exchanges(p, o, y, x)
        BY <1>8 DEF Exchanges
    <2> QED BY <1>6, <2>1 DEF S
<1> QED BY <1>5, <1>7, <1>8

\* The first of some fragments of a block has place 1 among them.
LEMMA FirstPlace ==
    ASSUME IsPage(page), NEW b \in Blocks, NEW side \in Side,
           NEW S, S \subseteq Range(b.order[side]), S # {}
    PROVE  Min({Place(b, side, S, i) : i \in S}) = 1
<1> DEFINE order == b.order[side]
           upTo(i) == {j \in S : \E m, n \in DOMAIN order : m <= n /\ order[m] = j /\ order[n] = i}
           places == {Place(b, side, S, i) : i \in S}
<1>1. order \in Seq(Fragments(side)) /\ IsInjective(order)
    BY BlocksFit
<1>2. IsFiniteSet(S)
    <2>1. Range(order) \subseteq Fragments(side)
        BY BlocksFit
    <2>2. IsFiniteSet(Fragments(side))
        BY FragmentsFit
    <2> QED BY <2>1, <2>2, FS_Subset
<1>3. DOMAIN order \subseteq Nat /\ IsFiniteSet(DOMAIN order)
    <2>1. DOMAIN order = 1..Len(order) /\ Len(order) \in Nat
        BY <1>1
    <2>2. IsFiniteSet(1..Len(order))
        <3>1. \A k \in Nat : IsFiniteSet(1..k)
            BY FS_Interval
        <3> QED BY <2>1, <3>1
    <2> QED BY <2>1, <2>2
<1>4. \A i \in S : \E n \in DOMAIN order : order[n] = i
    BY DEF Range
<1>5. \A i : Place(b, side, S, i) = Cardinality(upTo(i))
    BY DEF Place
<1> HIDE DEF order
<1>6. ASSUME NEW i \in S PROVE Cardinality(upTo(i)) \in Nat /\ Cardinality(upTo(i)) >= 1
    <2>1. IsFiniteSet(upTo(i))
        BY <1>2, FS_Subset
    <2>2. i \in upTo(i)
        <3>1. PICK n \in DOMAIN order : order[n] = i
            BY <1>4
        <3>2. n <= n
            BY <1>3
        <3> QED BY <3>1, <3>2
    <2> HIDE DEF upTo
    <2>3. Cardinality(upTo(i)) \in Nat
        BY <2>1, FS_CardinalityType
    <2>4. Cardinality(upTo(i)) # 0
        BY <2>1, <2>2, FS_EmptySet
    <2> QED BY <2>3, <2>4
<1>7. PICK f \in S : upTo(f) = {f}
    <2> DEFINE N == {n \in DOMAIN order : order[n] \in S}
    <2>1. N \subseteq Int /\ IsFiniteSet(N) /\ N # {}
        <3>1. N \subseteq DOMAIN order
            OBVIOUS
        <3>2. IsFiniteSet(N)
            BY <1>3, <3>1, FS_Subset
        <3>3. N # {}
            BY <1>4
        <3> QED BY <1>3, <3>2, <3>3
    <2>2. PICK k \in N : \A n \in N : k <= n
        <3> HIDE DEF N
        <3> QED BY <2>1, LeastExists
    <2>3. ASSUME NEW j \in S, NEW m \in DOMAIN order, NEW n \in DOMAIN order,
                 m <= n, order[m] = j, order[n] = order[k]
          PROVE  j = order[k]
        <3>1. n = k
            BY <1>1, <2>2, <2>3 DEF IsInjective
        <3>2. k <= m
            BY <2>2, <2>3
        <3>3. m = k
            BY <1>3, <2>3, <3>1, <3>2
        <3> QED BY <2>3, <3>3
    <2>4. order[k] \in S /\ k <= k
        BY <1>3, <2>2
    <2>5. upTo(order[k]) = {order[k]}
        BY <2>2, <2>3, <2>4
    <2> QED BY <2>4, <2>5
<1> HIDE DEF upTo
<1>8. 1 \in places
    <2>1. Cardinality({f}) = 1
        BY FS_Singleton
    <2> QED BY <1>5, <1>7, <2>1
<1>9. places \subseteq Int /\ IsFiniteSet(places) /\ \A k \in places : k >= 1
    <2>1. places \subseteq Int /\ \A k \in places : k >= 1
        BY <1>5, <1>6
    <2>2. IsFiniteSet(places)
        <3> DEFINE g == [i \in S |-> Place(b, side, S, i)]
        <3>1. g \in Surjection(S, places)
            BY DEF Surjection
        <3> HIDE DEF g, places
        <3> QED BY <1>2, <3>1, FS_Surjection
    <2> QED BY <2>1, <2>2
<1> HIDE DEF places
<1>10. Min(places) \in places /\ \A k \in places : Min(places) <= k
    BY <1>8, <1>9, MinIsLeast
<1>11. Min(places) = 1
    <2> DEFINE least == Min(places)
    <2>1. least \in Int /\ least >= 1 /\ least <= 1
        BY <1>8, <1>9, <1>10
    <2> HIDE DEF least
    <2>2. least = 1
        BY <2>1
    <2> QED BY <2>2 DEF least
<1> QED BY <1>11 DEF places

\* The fragments of a candidate, matched among themselves, cost no more than it.
LEMMA RescueOfPair ==
    ASSUME IsPage(page), NEW b \in Blocks, NEW q \in Candidates(b)
    PROVE  Rescue(b, q.left, q.right, Candidates(b)) <= CostOf(q) - 20
<1> DEFINE C == Candidates(b)
           inside == CandidatesAmong(C, q.left, q.right)
           cost == CostsAmong(b, q.left, q.right, inside)
           keyOf(p) == KeyAmong(b, q.left, q.right, p)
           n == Cardinality(q.left)
           m == Cardinality(q.right)
           key == <<1, n, 1, m>>
<1>1. /\ IsFiniteSet(q.left) /\ IsFiniteSet(q.right) /\ n \in 1..4 /\ m \in 1..4
      /\ q.left \subseteq Range(b.order.left) /\ q.right \subseteq Range(b.order.right)
      /\ q.left # {} /\ q.right # {} /\ CostOf(q) \in 0..100
    <2>1. IsFiniteSet(q.left) /\ IsFiniteSet(q.right) /\ n \in 1..4 /\ m \in 1..4
        BY CandidateIn
    <2>2. /\ q.left \subseteq Range(b.order.left) /\ q.right \subseteq Range(b.order.right)
          /\ q.left # {} /\ q.right # {} /\ CostOf(q) \in 0..100
        BY CandidatesFit
    <2> QED BY <2>1, <2>2
<1>2. PICK T : /\ Filled(T, n, m, cost)
               /\ Rescue(b, q.left, q.right, C) = T[<<n, m>>].total
    <2> HIDE DEF cost, inside
    <2> QED BY <1>1, RescueFits DEF cost, inside
<1>3. keyOf(q) = key
    <2>1. "left" \in Side /\ "right" \in Side
        BY DEF Side
    <2>2. Min({Place(b, "left", q.left, i) : i \in q.left}) = 1
        BY <1>1, <2>1, FirstPlace
    <2>3. Min({Place(b, "right", q.right, i) : i \in q.right}) = 1
        BY <1>1, <2>1, FirstPlace
    <2> QED BY <2>2, <2>3 DEF KeyAmong
<1>4. q \in inside /\ inside \subseteq C
    BY DEF CandidatesAmong
<1>5. ASSUME NEW p \in inside, keyOf(p) = key PROVE p = q
    <2>1. Cardinality(p.left) = n /\ Cardinality(p.right) = m
        BY <1>5 DEF KeyAmong
    <2>2. p.left \subseteq q.left /\ p.right \subseteq q.right /\ p \in Candidates(b)
        BY DEF CandidatesAmong
    <2>3. p.left = q.left
        BY <1>1, <2>1, <2>2, FS_Subset
    <2>4. p.right = q.right
        BY <1>1, <2>1, <2>2, FS_Subset
    <2> QED BY <2>2, <2>3, <2>4, PairTells
<1>6. key \in DOMAIN cost /\ cost[key] = CostOf(q)
    <2>1. cost = [k \in {keyOf(p) : p \in inside} |-> CostOf(CHOOSE p \in inside : keyOf(p) = k)]
        BY DEF CostsAmong
    <2>2. key \in {keyOf(p) : p \in inside}
        BY <1>3, <1>4
    <2>3. (CHOOSE p \in inside : keyOf(p) = key) = q
        BY <1>3, <1>4, <1>5
    <2> HIDE DEF cost, key, keyOf, inside
    <2> QED BY <2>1, <2>2, <2>3
<1>7. cost \in [KeysAmong(b, q.left, q.right, inside) -> Int]
    <2> HIDE DEF inside
    <2> QED BY <1>4, CostsAmongFit
<1> DEFINE w == <<n, m>>
<1>8. KeyAt(n, m, w) = key
    <2>1. n - n + 1 = 1 /\ m - m + 1 = 1
        BY <1>1
    <2> QED BY <2>1 DEF KeyAt
<1>9. w \in Ends(cost, n, m)
    <2>1. n \in 1..Least(n, 4) /\ m \in 1..Least(m, 4)
        BY <1>1 DEF Least
    <2> HIDE DEF n, m, cost, key
    <2> QED BY <1>6, <1>8, <2>1 DEF Ends, MaxSpanFragments
<1>10. w[1] = n /\ w[2] = m
    OBVIOUS
<1> HIDE DEF n, m, cost, key, w, inside, C
<1> DEFINE ks == KeysAmong(b, q.left, q.right, inside)
<1>11. \A v \in Ends(cost, n, m) :
            T[<<n, m>>].total <= T[<<n - v[1], m - v[2]>>].total + cost[KeyAt(n, m, v)] - 20
    <2>1. n \in Nat /\ m \in Nat /\ n \in 0..n /\ m \in 0..m /\ n + m > 0
        BY <1>1
    <2>2. cost \in [ks -> Int]
        BY <1>7
    <2> HIDE DEF ks
    <2> QED BY <1>2, <2>1, <2>2, CellIsBest
<1>12. T[<<n, m>>].total <= T[<<n - n, m - m>>].total + cost[key] - 20
    BY <1>8, <1>9, <1>10, <1>11
<1>13. n - n = 0 /\ m - m = 0
    BY <1>1
<1>14. T[<<0, 0>>].total = 0
    BY <1>2 DEF Filled, NoMove
<1>15. T[<<n, m>>].total <= 0 + CostOf(q) - 20
    BY <1>6, <1>12, <1>13, <1>14
<1>16. 0 + CostOf(q) - 20 = CostOf(q) - 20
    BY <1>1
<1> QED BY <1>2, <1>15, <1>16 DEF C

\* Two pairs of an assignment have no fragment in common.
LEMMA PairsApart ==
    ASSUME IsPage(page), NEW b \in Blocks, NEW p \in Optimum(b).pairs, NEW o \in Optimum(b).pairs, p # o
    PROVE  ~Shares(p, o)
<1> DEFINE C == Candidates(b)
<1>1. C \in SUBSET Candidates(b)
    OBVIOUS
<1>2. Optimum(b).pairs \in Uncrossed(C)
    BY <1>1, SolverIsOptimal DEF Optimum
<1> QED BY <1>2 DEF Uncrossed, Assignments

\* What the solver answers for all candidates of a block.
LEMMA OptimumFits ==
    ASSUME IsPage(page), NEW b \in Blocks
    PROVE  /\ Optimum(b).pairs \subseteq Candidates(b)
           /\ Optimum(b).pairs \in Assignments(Candidates(b))
           /\ Optimum(b).total \in Int
           /\ Price(b, Optimum(b).pairs) = Optimum(b).total
<1> DEFINE C == Candidates(b)
<1>1. C \in SUBSET Candidates(b)
    OBVIOUS
<1>2. /\ Optimum(b).pairs \in Uncrossed(C) /\ Optimum(b).total \in Int
      /\ Price(b, Optimum(b).pairs) = Optimum(b).total
    BY <1>1, SolverIsOptimal DEF Optimum
<1> QED BY <1>2 DEF Uncrossed, Assignments

\* An exchange that uses only what p and o use displaces nothing else.
LEMMA SwapIsRival ==
    ASSUME IsPage(page), NEW b \in Blocks, NEW p \in Optimum(b).pairs, NEW o \in Optimum(b).pairs, p # o,
           NEW q \in Candidates(b), q.left = p.left, q.right = o.right
    PROVE  /\ Displaced(Optimum(b), p, q) = {p, o}
           /\ q \in Rivals(Candidates(b), Optimum(b), p)
<1>1. /\ p.left # {} /\ p.right # {} /\ o.left # {} /\ o.right # {}
      /\ p \in Candidates(b) /\ o \in Candidates(b)
    BY OptimumFits, CandidatesFit
<1>2. \A r \in Optimum(b).pairs : \A s \in Optimum(b).pairs : r # s => ~Shares(r, s)
    BY PairsApart
<1>3. Displaced(Optimum(b), p, q) = {p, o}
    <2>1. Shares(o, q)
        BY <1>1 DEF Shares
    <2>2. ASSUME NEW r \in Optimum(b).pairs, Shares(r, q) PROVE r = p \/ r = o
        <3>1. r.left \cap p.left # {} \/ r.right \cap o.right # {}
            BY <2>2 DEF Shares
        <3>2. CASE r.left \cap p.left # {}
            <4>1. Shares(r, p)
                BY <3>2 DEF Shares
            <4> QED BY <1>2, <4>1
        <3>3. CASE r.right \cap o.right # {}
            <4>1. Shares(r, o)
                BY <3>3 DEF Shares
            <4> QED BY <1>2, <4>1
        <3> QED BY <3>1, <3>2, <3>3
    <2> QED BY <2>1, <2>2 DEF Displaced
<1>4. Cardinality({p, o}) <= 3
    <2>1. IsFiniteSet({p}) /\ Cardinality({p}) = 1
        BY FS_Singleton
    <2>2. {p, o} = {p} \cup {o} /\ o \notin {p}
        OBVIOUS
    <2>3. Cardinality({p} \cup {o}) = 1 + 1
        BY <2>1, <2>2, FS_AddElement
    <2> QED BY <2>2, <2>3
<1>5. q # p
    <2>1. p.right \cap o.right = {}
        BY <1>2 DEF Shares
    <2> QED BY <1>1, <2>1
<1>6. Shares(p, q)
    BY <1>1 DEF Shares
<1> QED BY <1>3, <1>4, <1>5, <1>6 DEF Rivals

\* The total of what two elements are mapped to.
LEMMA TotalOfTwo ==
    ASSUME NEW p, NEW o, p # o, NEW f \in [{p, o} -> Int]
    PROVE  Total(f) = f[p] + f[o]
<1> DEFINE S == {p, o}
<1>1. IsFiniteSet(S)
    <2>1. IsFiniteSet({p})
        BY FS_Singleton
    <2>2. S = {p} \cup {o}
        OBVIOUS
    <2> HIDE DEF S
    <2> QED BY <2>1, <2>2, FS_AddElement
<1>2. PICK G : Adds(G, S, f) /\ \A D \in SUBSET S : Total([x \in D |-> f[x]]) = G[D]
    <2> HIDE DEF S
    <2>1. f \in [S -> Int]
        BY DEF S
    <2> QED BY <1>1, <2>1, TotalsAdd
<1>3. [x \in S |-> f[x]] = f /\ S \in SUBSET S
    OBVIOUS
<1>4. Total(f) = G[S]
    BY <1>2, <1>3
<1>5. S \ {p} = {o} /\ {o} \ {o} = {}
    OBVIOUS
<1>6. G[S] = f[p] + G[{o}]
    <2>1. G[S] = f[p] + G[S \ {p}]
        BY <1>2 DEF Adds
    <2> QED BY <1>5, <2>1
<1>7. G[{o}] = f[o] + G[{}]
    <2>1. {o} \in SUBSET S /\ o \in {o}
        OBVIOUS
    <2>2. G[{o}] = f[o] + G[{o} \ {o}]
        BY <1>2, <2>1 DEF Adds
    <2> QED BY <1>5, <2>2
<1>8. G[{}] = 0
    BY <1>2 DEF Adds
<1>9. f[p] \in Int /\ f[o] \in Int
    OBVIOUS
<1> HIDE DEF S
<1>10. G[S] = f[p] + (f[o] + 0)
    BY <1>6, <1>7, <1>8
<1> QED BY <1>4, <1>9, <1>10

\* What exchanging the partners of p and o is found to cost.
LEMMA SwapDelta ==
    ASSUME IsPage(page), NEW b \in Blocks, NEW p \in Optimum(b).pairs, NEW o \in Optimum(b).pairs, p # o,
           NEW q1 \in Candidates(b), NEW q2 \in Candidates(b), Exchanges(p, o, q1, q2)
    PROVE  ExchangeDelta(b, Candidates(b), Optimum(b), p, q1)
                <= CostOf(q1) + CostOf(q2) - CostOf(p) - CostOf(o)
<1> DEFINE opt == Optimum(b)
           C == Candidates(b)
           D == Displaced(opt, p, q1)
           left == UNION {r.left : r \in D}
           right == UNION {r.right : r \in D}
           f == [r \in D |-> PairPreference - CostOf(r)]
           newly == Cardinality(q1.left \ left) + Cardinality(q1.right \ right)
           rescue == Rescue(b, left \ q1.left, right \ q1.right, C)
<1>1. ExchangeDelta(b, C, opt, p, q1)
        = Total(f) + CostOf(q1) - PairPreference - UnmatchedPenalty * newly + rescue
    BY DEF ExchangeDelta
<1>2. q1.left = p.left /\ q1.right = o.right /\ q2.left = o.left /\ q2.right = p.right
    BY DEF Exchanges
<1>3. D = {p, o}
    BY <1>2, SwapIsRival
<1> HIDE DEF D
<1>4. left = p.left \cup o.left /\ right = p.right \cup o.right
    BY <1>3
<1>5. p.left \cap o.left = {} /\ p.right \cap o.right = {}
    BY PairsApart DEF Shares
<1>6. left \ q1.left = q2.left /\ right \ q1.right = q2.right
      /\ q1.left \ left = {} /\ q1.right \ right = {}
    BY <1>2, <1>4, <1>5
<1>7. p \in C /\ o \in C
    BY OptimumFits
<1>8. CostOf(p) \in Int /\ CostOf(o) \in Int /\ CostOf(q1) \in Int /\ CostOf(q2) \in Int
    BY <1>7, WorthFits
<1>9. Total(f) = (20 - CostOf(p)) + (20 - CostOf(o))
    <2>1. f = [r \in {p, o} |-> 20 - CostOf(r)]
        BY <1>3 DEF PairPreference
    <2>2. f \in [{p, o} -> Int]
        BY <1>8, <2>1
    <2>3. f[p] = 20 - CostOf(p) /\ f[o] = 20 - CostOf(o)
        BY <2>1
    <2> HIDE DEF f
    <2>4. Total(f) = f[p] + f[o]
        BY <2>2, TotalOfTwo
    <2> QED BY <2>3, <2>4
<1>10. newly = 0
    <2>1. Cardinality({}) = 0
        BY FS_EmptySet
    <2> HIDE DEF left, right
    <2>2. newly = 0 + 0
        BY <1>6, <2>1
    <2> HIDE DEF newly
    <2> QED BY <2>2
<1>11. rescue <= CostOf(q2) - 20
    <2>1. Rescue(b, q2.left, q2.right, C) <= CostOf(q2) - 20
        BY RescueOfPair
    <2> QED BY <1>6, <2>1
<1>12. rescue \in Int
    <2>1. IsFiniteSet(q2.left) /\ IsFiniteSet(q2.right)
        BY CandidatesFit
    <2>2. Rescue(b, q2.left, q2.right, C) \in Int
        BY <2>1, RescueFits
    <2> QED BY <1>6, <2>2
<1> DEFINE d == ExchangeDelta(b, C, opt, p, q1)
           cp == CostOf(p)
           co == CostOf(o)
           c1 == CostOf(q1)
           c2 == CostOf(q2)
<1>13. /\ d = ((20 - cp) + (20 - co)) + c1 - 20 - 50 * 0 + rescue
       /\ rescue <= c2 - 20
       /\ cp \in Int /\ co \in Int /\ c1 \in Int /\ c2 \in Int /\ rescue \in Int
    BY <1>1, <1>8, <1>9, <1>10, <1>11, <1>12 DEF PairPreference, UnmatchedPenalty
<1> HIDE DEF d, cp, co, c1, c2, rescue
<1>14. d <= c1 + c2 - cp - co
    BY <1>13
<1> QED BY <1>14 DEF d, cp, co, c1, c2

\* What the optimum costs with the partners of p and o exchanged.
LEMMA SwapPrice ==
    ASSUME IsPage(page), NEW b \in Blocks, NEW p \in Optimum(b).pairs, NEW o \in Optimum(b).pairs, p # o,
           NEW q1 \in Candidates(b), NEW q2 \in Candidates(b), Exchanges(p, o, q1, q2)
    PROVE  Price(b, (Optimum(b).pairs \ {p, o}) \cup {q1, q2})
                = Optimum(b).total + (CostOf(q1) + CostOf(q2) - CostOf(p) - CostOf(o))
<1> DEFINE opt == Optimum(b).pairs
           C == Candidates(b)
           R == opt \ {p, o}
           A == R \cup {q1, q2}
           base == 50 * (Len(b.order.left) + Len(b.order.right))
<1>1. /\ opt \subseteq C /\ opt \in Assignments(C)
      /\ Optimum(b).total \in Int /\ Price(b, opt) = Optimum(b).total
    BY OptimumFits
<1>2. PICK V : /\ Adds(V, C, Worths(b))
               /\ \A D \in Assignments(C) : Price(b, D) = base + V[D]
    BY PriceAdds
<1>3. base \in Int
    <2>1. b.order["left"] \in Seq(Fragments("left")) /\ b.order["right"] \in Seq(Fragments("right"))
        BY BlocksFit DEF Side
    <2>2. Len(b.order.left) \in Nat /\ Len(b.order.right) \in Nat
        BY <2>1
    <2> QED BY <2>2
<1> HIDE DEF base
<1>4. q1.left = p.left /\ q1.right = o.right /\ q2.left = o.left /\ q2.right = p.right
    BY DEF Exchanges
<1>5. \A r \in opt : \A s \in opt : r # s => r.left \cap s.left = {} /\ r.right \cap s.right = {}
    BY PairsApart DEF Shares
<1>6. /\ p.left # {} /\ p.right # {} /\ o.left # {} /\ o.right # {}
      /\ p \in C /\ o \in C
    BY <1>1, CandidatesFit
<1>7. ASSUME NEW r \in R
      PROVE  /\ r.left \cap q1.left = {} /\ r.right \cap q1.right = {}
             /\ r.left \cap q2.left = {} /\ r.right \cap q2.right = {}
    BY <1>4, <1>5
<1>8. q1.left \cap q2.left = {} /\ q1.right \cap q2.right = {}
    BY <1>4, <1>5
<1>9. A \in Assignments(C)
    <2>1. A \subseteq C
        BY <1>1
    <2>2. ASSUME NEW r \in A, NEW s \in A, r # s PROVE r.left \cap s.left = {} /\ r.right \cap s.right = {}
        <3>1. CASE r \in R /\ s \in R
            BY <1>5, <2>2, <3>1
        <3>2. CASE r \in R /\ s \in {q1, q2}
            BY <1>7, <3>2
        <3>3. CASE r \in {q1, q2} /\ s \in R
            BY <1>7, <3>3
        <3>4. CASE r \in {q1, q2} /\ s \in {q1, q2}
            BY <1>8, <2>2, <3>4
        <3> QED BY <3>1, <3>2, <3>3, <3>4
    <2>3. \A r, s \in A : r # s => ~Shares(r, s)
        BY <2>2 DEF Shares
    <2> HIDE DEF A
    <2> QED BY <2>1, <2>3 DEF Assignments
<1>10. q1 \notin R /\ q2 \notin R /\ q1 # q2
    BY <1>4, <1>5, <1>6, <1>7
<1>11. V[A] = Worth(q1) + (Worth(q2) + V[R])
    <2> DEFINE B == R \cup {q2}
    <2>1. /\ A \subseteq C /\ q1 \in A /\ A \ {q1} = B
          /\ B \subseteq C /\ q2 \in B /\ B \ {q2} = R
        BY <1>1, <1>10
    <2> HIDE DEF A, B, R
    <2>2. V[A] = Worths(b)[q1] + V[A \ {q1}]
        BY <1>2, <2>1 DEF Adds
    <2>3. V[B] = Worths(b)[q2] + V[B \ {q2}]
        BY <1>2, <2>1 DEF Adds
    <2>4. Worths(b)[q1] = Worth(q1) /\ Worths(b)[q2] = Worth(q2)
        BY WorthFits
    <2> QED BY <2>1, <2>2, <2>3, <2>4
<1>12. V[opt] = Worth(p) + (Worth(o) + V[R])
    <2> DEFINE B == opt \ {p}
    <2>1. B \subseteq C /\ o \in B /\ B \ {o} = R /\ p \in opt
        BY <1>1
    <2> HIDE DEF B, R
    <2>2. V[opt] = Worths(b)[p] + V[opt \ {p}]
        BY <1>1, <1>2, <2>1 DEF Adds
    <2>3. V[B] = Worths(b)[o] + V[B \ {o}]
        BY <1>2, <2>1 DEF Adds
    <2>4. Worths(b)[p] = Worth(p) /\ Worths(b)[o] = Worth(o)
        BY <1>6, WorthFits
    <2> QED BY <2>1, <2>2, <2>3, <2>4 DEF B
<1>13. V[R] \in Int
    <2>1. R \in SUBSET C
        BY <1>1
    <2> QED BY <1>2, <2>1 DEF Adds
<1>14. /\ q1.l.len = p.l.len /\ q1.r.len = o.r.len /\ q2.l.len = o.l.len /\ q2.r.len = p.r.len
       /\ p.l.len \in 1..4 /\ p.r.len \in 1..4 /\ o.l.len \in 1..4 /\ o.r.len \in 1..4
    <2>1. /\ Cardinality(p.left) = p.l.len /\ Cardinality(p.right) = p.r.len
          /\ p.l.len \in 1..4 /\ p.r.len \in 1..4
        BY <1>6, CandidateIn
    <2>2. /\ Cardinality(o.left) = o.l.len /\ Cardinality(o.right) = o.r.len
          /\ o.l.len \in 1..4 /\ o.r.len \in 1..4
        BY <1>6, CandidateIn
    <2>3. /\ Cardinality(q1.left) = q1.l.len /\ Cardinality(q1.right) = q1.r.len
          /\ Cardinality(q2.left) = q2.l.len /\ Cardinality(q2.right) = q2.r.len
        BY CandidateIn
    <2> QED BY <1>4, <2>1, <2>2, <2>3
<1> DEFINE cp == CostOf(p)
           co == CostOf(o)
           c1 == CostOf(q1)
           c2 == CostOf(q2)
           wp == Worth(p)
           wo == Worth(o)
           w1 == Worth(q1)
           w2 == Worth(q2)
           pl == p.l.len
           pr == p.r.len
           ol == o.l.len
           or == o.r.len
           rest == V[R]
           total == Optimum(b).total
           new == Price(b, A)
<1>15. /\ wp = cp - 20 - 50 * (pl + pr) /\ wo = co - 20 - 50 * (ol + or)
       /\ cp \in Int /\ co \in Int
    BY <1>6, WorthFits
<1>16. /\ w1 = c1 - 20 - 50 * (pl + or) /\ w2 = c2 - 20 - 50 * (ol + pr)
       /\ c1 \in Int /\ c2 \in Int
    <2>1. /\ w1 = c1 - 20 - 50 * (q1.l.len + q1.r.len)
          /\ w2 = c2 - 20 - 50 * (q2.l.len + q2.r.len)
          /\ c1 \in Int /\ c2 \in Int
        BY WorthFits
    <2> QED BY <1>14, <2>1
<1>17. /\ total = base + (wp + (wo + rest))
       /\ new = base + (w1 + (w2 + rest))
    <2>1. total = base + V[opt]
        BY <1>1, <1>2
    <2>2. new = base + V[A]
        BY <1>2, <1>9
    <2> QED BY <1>11, <1>12, <2>1, <2>2
<1>18. pl \in Int /\ pr \in Int /\ ol \in Int /\ or \in Int /\ rest \in Int
    BY <1>13, <1>14
<1>19. new = Price(b, (opt \ {p, o}) \cup {q1, q2})
    OBVIOUS
<1> HIDE DEF cp, co, c1, c2, wp, wo, w1, w2, pl, pr, ol, or, rest, total, new
<1>20. new = total + (c1 + c2 - cp - co)
    BY <1>3, <1>15, <1>16, <1>17, <1>18
<1> QED BY <1>19, <1>20 DEF total, c1, c2, cp, co

\* A match survives every rival the property names.
LEMMA UniqueAlwaysSurvives ==
    ASSUME IsPage(page), aligned = AlignPage
    PROVE  UniqueSurvivesRivals
<1>1. ASSUME NEW b \in Blocks, NEW p \in AlignPage.matches, p \in Candidates(b)
      PROVE  /\ p \in Optimum(b).pairs /\ Optimum(b).total \in Int
             /\ \A g \in Gaps(b, Candidates(b), Optimum(b), p) : g \in Int /\ g >= 12
    <2>1. p \in BlockOutcome(b).matches
        BY <1>1, MatchOfBlock
    <2>2. p \in Optimum(b).pairs /\ Margin(b, Candidates(b), Optimum(b), p) >= 12
        BY <2>1, BlockOutcomeTells
    <2>3. /\ Margin(b, Candidates(b), Optimum(b), p) \in Int
          /\ \A g \in Gaps(b, Candidates(b), Optimum(b), p) :
                g \in Int /\ Margin(b, Candidates(b), Optimum(b), p) <= g
        BY <2>2, MarginIsLeast
    <2>4. Optimum(b).total \in Int
        BY OptimumFits
    <2> DEFINE margin == Margin(b, Candidates(b), Optimum(b), p)
    <2> HIDE DEF margin
    <2>5. ASSUME NEW g \in Gaps(b, Candidates(b), Optimum(b), p) PROVE g \in Int /\ g >= 12
        <3>1. g \in Int /\ margin \in Int /\ margin <= g /\ margin >= 12
            BY <2>2, <2>3 DEF margin
        <3> QED BY <3>1
    <2> QED BY <2>2, <2>4, <2>5
<1>2. ASSUME NEW b \in Blocks, NEW p \in AlignPage.matches, p \in Candidates(b),
             NEW A \in Assignments(Candidates(b) \ {p}), \A q, r \in A : ~Crossing(q, r)
      PROVE  Price(b, A) >= Optimum(b).total + MinMargin
    <2> DEFINE K == Candidates(b) \ {p}
               total == Optimum(b).total
               next == SolveBlock(b, K).total
               price == Price(b, A)
    <2>1. A \in Uncrossed(K)
        BY <1>2 DEF Uncrossed
    <2>2. K \in SUBSET Candidates(b)
        OBVIOUS
    <2> HIDE DEF K
    <2>3. price \in Int /\ next <= price /\ next \in Int
        BY <2>1, <2>2, SolverIsOptimal
    <2>4. next - total \in Gaps(b, Candidates(b), Optimum(b), p)
        BY DEF Gaps, K
    <2>5. next - total >= 12 /\ total \in Int
        BY <1>1, <1>2, <2>4
    <2> HIDE DEF next, total, price
    <2>6. price >= total + 12
        BY <2>3, <2>5
    <2> QED BY <2>6 DEF price, total, MinMargin
<1>3. ASSUME NEW b \in Blocks, NEW p \in AlignPage.matches, p \in Candidates(b),
             NEW o \in Optimum(b).pairs \ {p}, Cardinality(Swapped(Candidates(b), p, o)) = 2
      PROVE  Price(b, (Optimum(b).pairs \ {p, o}) \cup Swapped(Candidates(b), p, o))
                >= Optimum(b).total + MinMargin
    <2>1. p \in Optimum(b).pairs /\ o \in Optimum(b).pairs /\ p # o /\ o \in Candidates(b)
        BY <1>1, <1>3, OptimumFits
    <2>2. ~Shares(p, o)
        BY <2>1, PairsApart
    <2>3. \E q1 \in Candidates(b) : \E q2 \in Candidates(b) :
                Exchanges(p, o, q1, q2) /\ Swapped(Candidates(b), p, o) = {q1, q2}
        BY <1>3, <2>1, <2>2, SwapIs
    <2>4. PICK q1 \in Candidates(b) : \E q2 \in Candidates(b) :
                Exchanges(p, o, q1, q2) /\ Swapped(Candidates(b), p, o) = {q1, q2}
        BY <2>3
    <2>5. PICK q2 \in Candidates(b) :
                Exchanges(p, o, q1, q2) /\ Swapped(Candidates(b), p, o) = {q1, q2}
        BY <2>4
    <2> DEFINE d == ExchangeDelta(b, Candidates(b), Optimum(b), p, q1)
               total == Optimum(b).total
               more == CostOf(q1) + CostOf(q2) - CostOf(p) - CostOf(o)
               price == Price(b, (Optimum(b).pairs \ {p, o}) \cup {q1, q2})
    <2>6. q1 \in Rivals(Candidates(b), Optimum(b), p)
        <3>1. q1.left = p.left /\ q1.right = o.right
            BY <2>5 DEF Exchanges
        <3> QED BY <2>1, <3>1, SwapIsRival
    <2>7. d \in Gaps(b, Candidates(b), Optimum(b), p)
        BY <2>6 DEF Gaps
    <2>8. d \in Int /\ d >= 12 /\ total \in Int
        BY <1>1, <1>3, <2>7
    <2>9. d <= more
        BY <2>1, <2>5, SwapDelta
    <2>10. price = total + more
        BY <2>1, <2>5, SwapPrice
    <2>11. more \in Int
        <3>1. CostOf(p) \in Int /\ CostOf(o) \in Int /\ CostOf(q1) \in Int /\ CostOf(q2) \in Int
            BY <1>3, <2>1, WorthFits
        <3> QED BY <3>1
    <2>12. price = Price(b, (Optimum(b).pairs \ {p, o}) \cup Swapped(Candidates(b), p, o))
        BY <2>5
    <2> HIDE DEF d, total, more, price
    <2>13. price >= total + 12
        BY <2>8, <2>9, <2>10, <2>11
    <2> QED BY <2>12, <2>13 DEF total, MinMargin
<1> QED BY <1>2, <1>3 DEF UniqueSurvivesRivals, Optimum

---------------------------------------------------------------------------
(* How a run ends *)

\* What the checks of a run can have come to.
LEMMA EndingFits ==
    ASSUME ended \in Endings
    PROVE  /\ Planned = {"text", "align"} \/ Planned = {"text", "render", "ocr", "align"}
           /\ DOMAIN ended.kept = Planned \cap {"text", "ocr"}
           /\ \A c \in Planned \cap {"text", "ocr"} : ended.status[c] = "completed" => ended.kept[c]
           /\ "ocr" \in Planned /\ ended.kept["ocr"] =>
                    "render" \in Planned /\ ended.status["render"] = "completed"
           /\ ended.stored \in BOOLEAN
           /\ ended.status["align"] = "completed"
                => \A c \in Planned \cap {"text", "ocr"} : ended.status[c] = "completed"
<1>0. PICK checks \in {{"text", "align"}, {"text", "render", "ocr", "align"}} :
            \E s \in Statuses(checks) : \E k \in [DOMAIN s \cap {"text", "ocr"} -> BOOLEAN] :
                \E b \in BOOLEAN :
                    /\ ended = [status |-> s, kept |-> k, stored |-> b]
                    /\ \A c \in DOMAIN k : k[c] \in MayKeep(c, s[c])
    <2> DEFINE Kept(s) == {f \in [DOMAIN s \cap {"text", "ocr"} -> BOOLEAN] :
                                \A c \in DOMAIN f : f[c] \in MayKeep(c, s[c])}
               Of(checks) == UNION {EndingsOf(s) : s \in Statuses(checks)}
    <2>1. Endings = UNION {Of(checks) : checks \in {{"text", "align"}, {"text", "render", "ocr", "align"}}}
        BY DEF Endings
    <2>2. PICK checks \in {{"text", "align"}, {"text", "render", "ocr", "align"}} : ended \in Of(checks)
        <3> HIDE DEF Of
        <3> QED BY <2>1
    <2>3. PICK s \in Statuses(checks) : ended \in EndingsOf(s)
        BY <2>2
    <2>4. EndingsOf(s) = {[status |-> s, kept |-> k, stored |-> b] : k \in Kept(s), b \in MayStore(s)}
        BY DEF EndingsOf
    <2>5. PICK k \in Kept(s) : \E b \in MayStore(s) : ended = [status |-> s, kept |-> k, stored |-> b]
        <3> HIDE DEF Kept
        <3> QED BY <2>3, <2>4
    <2>6. PICK b \in MayStore(s) : ended = [status |-> s, kept |-> k, stored |-> b]
        BY <2>5
    <2>7. b \in BOOLEAN
        BY DEF MayStore
    <2> QED BY <2>2, <2>3, <2>5, <2>6, <2>7
<1>1. PICK s \in Statuses(checks) : \E k \in [DOMAIN s \cap {"text", "ocr"} -> BOOLEAN] :
            \E b \in BOOLEAN :
                /\ ended = [status |-> s, kept |-> k, stored |-> b]
                /\ \A c \in DOMAIN k : k[c] \in MayKeep(c, s[c])
    BY <1>0
<1> DEFINE needs == [ocr |-> {"render"}, align |-> checks \cap {"text", "ocr"},
                     text |-> {}, render |-> {}]
           unmet(c) == {s[d] : d \in needs[c]} \ {"completed"}
<1>2. /\ DOMAIN s = checks
      /\ \A c \in checks :
                \/ unmet(c) = {} /\ s[c] # "skipped"
                \/ unmet(c) # {} /\ s[c] = "skipped"
                \/ unmet(c) = {"timeout"} /\ s[c] = "timeout"
    BY DEF Statuses
<1>3. ended.status = s /\ Planned = checks
    BY <1>1, <1>2 DEF Planned
<1>4. /\ DOMAIN ended.kept = checks \cap {"text", "ocr"}
      /\ \A c \in checks \cap {"text", "ocr"} :
            ended.kept[c] \in BOOLEAN /\ ended.kept[c] \in MayKeep(c, s[c])
    BY <1>1, <1>2
<1>5. ASSUME NEW c \in checks \cap {"text", "ocr"}, s[c] = "completed" PROVE ended.kept[c]
    <2>1. MayKeep(c, s[c]) = {TRUE}
        BY <1>5 DEF MayKeep
    <2> QED BY <1>4, <2>1
<1>6. ASSUME "ocr" \in checks, ended.kept["ocr"] PROVE s["ocr"] \in {"completed", "failed"}
    <2>1. s["ocr"] \notin {"completed", "failed"} => MayKeep("ocr", s["ocr"]) = {FALSE}
        BY DEF MayKeep
    <2>2. ended.kept["ocr"] \in MayKeep("ocr", s["ocr"])
        BY <1>4, <1>6
    <2> QED BY <1>6, <2>1, <2>2
<1>7. ASSUME "ocr" \in checks, s["ocr"] \in {"completed", "failed"}
      PROVE  "render" \in checks /\ s["render"] = "completed"
    <2>1. unmet("ocr") = {}
        BY <1>2, <1>7
    <2>2. "render" \in needs["ocr"]
        OBVIOUS
    <2> HIDE DEF needs
    <2> QED BY <1>1, <1>7, <2>1, <2>2
<1>8. ASSUME s["align"] = "completed", NEW c \in checks \cap {"text", "ocr"} PROVE s[c] = "completed"
    <2>1. unmet("align") = {}
        BY <1>1, <1>2, <1>8
    <2>2. c \in needs["align"]
        OBVIOUS
    <2> HIDE DEF needs
    <2> QED BY <2>1, <2>2
<1>9. ended.stored \in BOOLEAN
    BY <1>1
<1> QED BY <1>0, <1>1, <1>3, <1>4, <1>5, <1>6, <1>7, <1>8, <1>9

\* What a reader of the page keeps.
LEMMA RetainedFits ==
    ASSUME IsPage(page), ended \in Endings
    PROVE  /\ IsFiniteSet(Retained("text")) /\ IsFiniteSet(Retained("ocr"))
           /\ \A o \in Retained("text") : o = <<"left", o[2]>> /\ o[2] \in DOMAIN page.left
           /\ \A o \in Retained("ocr") : /\ o = <<"right", o[2]>> /\ o[2] \in DOMAIN page.right
                                         /\ "ocr" \in Planned
                                         /\ ended.status["render"] = "completed"
                                         /\ "render" \in Planned
<1>1. ASSUME NEW side \in Side PROVE IsFiniteSet({<<side, i>> : i \in DOMAIN page[side]})
    <2> DEFINE S == {<<side, i>> : i \in DOMAIN page[side]}
               f == [i \in DOMAIN page[side] |-> <<side, i>>]
    <2>1. IsFiniteSet(DOMAIN page[side])
        BY FragmentsFit
    <2>2. f \in Surjection(DOMAIN page[side], S)
        BY DEF Surjection
    <2> HIDE DEF f, S
    <2>3. IsFiniteSet(S)
        BY <2>1, <2>2, FS_Surjection
    <2> QED BY <2>3 DEF S
<1>2. IsFiniteSet(Retained("text")) /\ IsFiniteSet(Retained("ocr"))
    BY <1>1, FS_EmptySet DEF Retained, Sides, Side
<1>3. \A o \in Retained("text") : o = <<"left", o[2]>> /\ o[2] \in DOMAIN page.left
    BY DEF Retained, Sides
<1>4. \A o \in Retained("ocr") : /\ o = <<"right", o[2]>> /\ o[2] \in DOMAIN page.right
                                 /\ "ocr" \in Planned /\ ended.kept["ocr"]
    BY DEF Retained, Sides
<1> QED BY <1>2, <1>3, <1>4, EndingFits

\* A compared page: both readings are complete.
LEMMA ComparedFits ==
    ASSUME IsPage(page), ended \in Endings, "ocr" \in Planned \/ page.right = <<>>,
           ended.status.align = "completed"
    PROVE  /\ \A i \in DOMAIN page.left : <<"left", i>> \in Retained("text")
           /\ \A i \in DOMAIN page.right : <<"right", i>> \in Retained("ocr") /\ Compared = {"text", "ocr"}
           /\ \A c \in Compared : c \in Planned /\ ended.status[c] = "completed"
           /\ "text" \in Compared
<1>1. /\ "text" \in Planned
      /\ \A c \in Planned \cap {"text", "ocr"} : ended.status[c] = "completed" /\ ended.kept[c]
    BY EndingFits
<1>2. \A i \in DOMAIN page.left : <<"left", i>> \in Retained("text")
    BY <1>1 DEF Retained, Sides
<1>3. ASSUME NEW i \in DOMAIN page.right PROVE "ocr" \in Planned
    OBVIOUS
<1>4. \A i \in DOMAIN page.right : <<"right", i>> \in Retained("ocr")
    BY <1>1, <1>3 DEF Retained, Sides
<1> QED BY <1>1, <1>2, <1>3, <1>4 DEF Compared

---------------------------------------------------------------------------
(* The findings of a run *)

\* What the contract asks of a finding, of a run's report.
FindingFits(f) ==
    /\ f.page = 0
    /\ f.occurrences \subseteq Retained("text") \cup Retained("ocr")
    /\ f.checks \subseteq Planned
    /\ f.region \in {None, RegionId}
    /\ f.kind = "reading_difference" =>
        /\ f.checks = {"text", "ocr"}
        /\ \A c \in f.checks : ended.status[c] = "completed"
        /\ \E o \in f.occurrences : o[1] = "left"
        /\ \E o \in f.occurrences : o[1] = "right"
    /\ f.alignment = "unique" => f.region = RegionId /\ RegionId # None /\ Localized(f.occurrences)

\* The fields of a finding.
LEMMA FindingIs ==
    ASSUME NEW kind, NEW occurrences, NEW checks, NEW alignment, NEW region
    PROVE  LET f == Finding(kind, occurrences, checks, alignment, region)
           IN  /\ f.kind = kind /\ f.page = 0 /\ f.occurrences = occurrences /\ f.checks = checks
               /\ f.alignment = alignment /\ f.region = region
BY DEF Finding

\* A finding about readings of the place is well formed.
LEMMA PlacedFits ==
    ASSUME NEW kind, NEW occurrences, NEW checks,
           occurrences \subseteq Retained("text") \cup Retained("ocr"), checks \subseteq Planned,
           kind = "reading_difference" =>
                /\ checks = {"text", "ocr"}
                /\ \A c \in checks : ended.status[c] = "completed"
                /\ \E o \in occurrences : o[1] = "left"
                /\ \E o \in occurrences : o[1] = "right"
    PROVE  /\ FindingFits(Placed(kind, occurrences, checks))
           /\ Placed(kind, occurrences, checks).occurrences = occurrences
BY FindingIs DEF FindingFits, Placed

\* So is one about a check that did not complete,
LEMMA IncompleteFits ==
    ASSUME IsPage(page), ended \in Endings, NEW f \in IncompleteFindings
    PROVE  FindingFits(f)
<1>1. PICK c \in Planned :
            f = Finding("incomplete_check", IF c \in {"text", "ocr"} THEN Retained(c) ELSE {}, {c},
                        "not_applicable", IF c \in {"ocr", "align"} THEN RegionId ELSE None)
    BY DEF IncompleteFindings
<1>2. (IF c \in {"text", "ocr"} THEN Retained(c) ELSE {}) \subseteq Retained("text") \cup Retained("ocr")
    OBVIOUS
<1> QED BY <1>1, <1>2, FindingIs DEF FindingFits

\* and one about what a single reader found.
LEMMA OneSidedFits ==
    ASSUME IsPage(page), ended \in Endings, NEW f \in OneSidedFindings
    PROVE  FindingFits(f)
<1>1. \/ f = Finding("observed_structure", Retained("text"), {"text"}, "page_level", None) /\ "text" \in Planned
      \/ f = Placed("ocr_interpretation", Retained("ocr"), {"ocr"}) /\ "ocr" \in Planned
    BY DEF OneSidedFindings
<1>2. CASE f = Finding("observed_structure", Retained("text"), {"text"}, "page_level", None) /\ "text" \in Planned
    BY <1>2, FindingIs DEF FindingFits
<1>3. CASE f = Placed("ocr_interpretation", Retained("ocr"), {"ocr"}) /\ "ocr" \in Planned
    BY <1>3, PlacedFits
<1> QED BY <1>1, <1>2, <1>3

\* Units of the page are kept readings, of both sides.
LEMMA MembersFit ==
    ASSUME IsPage(page), ended \in Endings, "ocr" \in Planned \/ page.right = <<>>,
           ended.status.align = "completed", NEW b \in Blocks, NEW p \in Candidates(b)
    PROVE  /\ Members(p) \subseteq Retained("text") \cup Retained("ocr")
           /\ \E o \in Members(p) : o[1] = "left"
           /\ \E o \in Members(p) : o[1] = "right"
           /\ Compared = {"text", "ocr"}
<1>1. p.left \subseteq Fragments("left") /\ p.right \subseteq Fragments("right") /\ p.left # {} /\ p.right # {}
    BY CandidatesFit
<1>2. Fragments("left") \subseteq DOMAIN page["left"] /\ Fragments("right") \subseteq DOMAIN page["right"]
    BY FragmentsFit DEF Side
<1>3. /\ \A i \in p.left : <<"left", i>> \in Retained("text")
      /\ \A i \in p.right : <<"right", i>> \in Retained("ocr") /\ Compared = {"text", "ocr"}
    BY <1>1, <1>2, ComparedFits
<1>4. Members(p) \subseteq Retained("text") \cup Retained("ocr") /\ Compared = {"text", "ocr"}
    BY <1>1, <1>3 DEF Members
<1>5. PICK i \in p.left, j \in p.right : TRUE
    BY <1>1
<1>6. <<"left", i>> \in Members(p) /\ <<"right", j>> \in Members(p)
    BY <1>5 DEF Members
<1> QED BY <1>4, <1>6

\* The findings of a comparison are well formed.
LEMMA ComparisonFits ==
    ASSUME IsPage(page), ended \in Endings, "ocr" \in Planned \/ page.right = <<>>,
           ended.status.align = "completed", aligned = AlignPage,
           NEW f \in MatchFindings \cup OrderFindings \cup AmbiguousFindings \cup AbstentionFindings
                        \cup UnmatchedFindings \cup PageLevelFindings
    PROVE  FindingFits(f)
<1>1. \A c \in Compared : c \in Planned /\ ended.status[c] = "completed"
    BY ComparedFits
<1>2. /\ \A p \in aligned.matches : \E b \in Blocks : p \in Candidates(b)
      /\ \A p \in aligned.orderDifferences : \E b \in Blocks : p \in Candidates(b)
      /\ \A e \in aligned.ambiguous : \E b \in Blocks : e.unit \in Candidates(b) /\ e.candidates \subseteq Candidates(b)
    BY AlignPageFits, BlockOutcomeFits
<1>3. CASE f \in MatchFindings
    <2>1. PICK p \in aligned.matches : f = Placed("reading_difference", Members(p), Compared)
        BY <1>3 DEF MatchFindings
    <2>2. /\ Members(p) \subseteq Retained("text") \cup Retained("ocr")
          /\ \E o \in Members(p) : o[1] = "left"
          /\ \E o \in Members(p) : o[1] = "right"
          /\ Compared = {"text", "ocr"}
        BY <1>2, MembersFit
    <2> QED BY <1>1, <2>1, <2>2, PlacedFits
<1>4. CASE f \in OrderFindings
    <2>1. PICK p \in aligned.orderDifferences :
                f = Finding("observed_structure", Members(p), Compared, "not_applicable", RegionId)
        BY <1>4 DEF OrderFindings
    <2>2. Members(p) \subseteq Retained("text") \cup Retained("ocr")
        BY <1>2, MembersFit
    <2> QED BY <1>1, <2>1, <2>2, FindingIs DEF FindingFits
<1>5. CASE f \in AmbiguousFindings
    <2>1. PICK e \in aligned.ambiguous :
                f = Finding("reading_difference", Members(e.unit) \cup UNION {Members(q) : q \in e.candidates},
                            Compared, "ambiguous", RegionId)
        BY <1>5 DEF AmbiguousFindings
    <2>2. PICK b \in Blocks : e.unit \in Candidates(b) /\ e.candidates \subseteq Candidates(b)
        BY <1>2
    <2>3. /\ Members(e.unit) \subseteq Retained("text") \cup Retained("ocr")
          /\ \E o \in Members(e.unit) : o[1] = "left"
          /\ \E o \in Members(e.unit) : o[1] = "right"
          /\ Compared = {"text", "ocr"}
        BY <2>2, MembersFit
    <2>4. \A q \in e.candidates : Members(q) \subseteq Retained("text") \cup Retained("ocr")
        BY <2>2, MembersFit
    <2> DEFINE all == Members(e.unit) \cup UNION {Members(q) : q \in e.candidates}
    <2>5. /\ all \subseteq Retained("text") \cup Retained("ocr")
          /\ \E o \in all : o[1] = "left"
          /\ \E o \in all : o[1] = "right"
        BY <2>3, <2>4
    <2> HIDE DEF all
    <2>6. f = Finding("reading_difference", all, Compared, "ambiguous", RegionId)
        BY <2>1 DEF all
    <2> QED BY <1>1, <2>3, <2>5, <2>6, FindingIs DEF FindingFits
<1>6. CASE f \in AbstentionFindings
    <2>1. PICK b \in Blocks :
                f = Finding("incomplete_check",
                        {<<"left", i>> : i \in Range(b.order.left)} \cup {<<"right", i>> : i \in Range(b.order.right)},
                        Compared, "not_applicable", RegionId)
        BY <1>6 DEF AbstentionFindings
    <2>2. /\ Range(b.order["left"]) \subseteq Fragments("left") /\ Fragments("left") \subseteq DOMAIN page["left"]
          /\ Range(b.order["right"]) \subseteq Fragments("right") /\ Fragments("right") \subseteq DOMAIN page["right"]
        BY BlocksFit, FragmentsFit DEF Side
    <2>3. /\ \A i \in Range(b.order.left) : <<"left", i>> \in Retained("text")
          /\ \A i \in Range(b.order.right) : <<"right", i>> \in Retained("ocr")
        BY <2>2, ComparedFits
    <2> QED BY <1>1, <2>1, <2>3, FindingIs DEF FindingFits
<1>7. CASE f \in UnmatchedFindings
    <2>1. PICK c \in Compared : \E kind \in {"observed_structure", "ocr_interpretation"}, g \in {None, RegionId} :
                f = Finding(kind, OfStatus(c, "unmatched"), {c}, "unmatched", g)
        BY <1>7 DEF UnmatchedFindings
    <2>2. OfStatus(c, "unmatched") \subseteq Retained("text") \cup Retained("ocr")
        BY DEF OfStatus, Compared
    <2> QED BY <1>1, <2>1, <2>2, FindingIs DEF FindingFits
<1>8. CASE f \in PageLevelFindings
    <2> DEFINE left == OfStatus("text", "page_level")
               right == OfStatus("ocr", "page_level")
    <2>1. left # {} /\ right # {} /\ f = Finding("reading_difference", left \cup right, Compared, "page_level", None)
        BY <1>8 DEF PageLevelFindings
    <2>2. left \subseteq Retained("text") /\ right \subseteq Retained("ocr")
        BY DEF OfStatus
    <2> HIDE DEF left, right
    <2>3. /\ \E o \in left \cup right : o[1] = "left"
          /\ \E o \in left \cup right : o[1] = "right"
          /\ "ocr" \in Planned
        <3>1. PICK o \in left, u \in right : TRUE
            BY <2>1
        <3>2. o[1] = "left" /\ u[1] = "right" /\ "ocr" \in Planned
            BY <2>2, RetainedFits
        <3> QED BY <3>2
    <2>4. Compared = {"text", "ocr"}
        BY <2>3, ComparedFits DEF Compared
    <2> QED BY <1>1, <2>1, <2>2, <2>3, <2>4, FindingIs DEF FindingFits
<1> QED BY <1>3, <1>4, <1>5, <1>6, <1>7, <1>8

\* Every finding of a run is one the contract accepts.
LEMMA FindingsFit ==
    ASSUME IsPage(page), ended \in Endings, "ocr" \in Planned \/ page.right = <<>>,
           ended.status.align = "completed" => aligned = AlignPage,
           NEW f \in DeriveFindings
    PROVE  FindingFits(f)
BY IncompleteFits, OneSidedFits, ComparisonFits DEF DeriveFindings

---------------------------------------------------------------------------
(* The report of a run *)

\* A finite set is put in some sequence, each element once.
LEMMA SetToSeqFits ==
    ASSUME NEW S, IsFiniteSet(S)
    PROVE  /\ Range(SetToSeq(S)) = S
           /\ Len(SetToSeq(S)) = Cardinality(S) /\ Cardinality(S) \in Nat
<1> DEFINE n == Cardinality(S)
           s == SetToSeq(S)
<1>1. HasFirsts(S, {})
    BY DEF HasFirsts
<1>2. IsOrder(Ordered(S, {}), S, {})
    BY <1>1, OrderedIsOrder
<1>3. s \in [1..n -> S] /\ IsInjective(s)
    BY <1>2 DEF SetToSeq, IsOrder
<1>4. n \in Nat
    BY FS_CardinalityType
<1> HIDE DEF s
<1>5. Range(s) = S
    <2>1. IsFiniteSet(1..n) /\ Cardinality(1..n) = n
        BY <1>4, FS_Interval
    <2>2. s \in Injection(1..n, S)
        BY <1>3 DEF Injection
    <2> HIDE DEF n
    <2>3. s \in Surjection(1..n, S)
        BY <2>1, <2>2, FS_Injection DEF n
    <2> QED BY <2>3 DEF Surjection, Range
<1>6. Len(s) = n
    <2> HIDE DEF n
    <2> QED BY <1>3, <1>4
<1> QED BY <1>4, <1>5, <1>6 DEF s

\* No assets have no size.
LEMMA NoSizes ==
    ASSUME NEW r, r.assets = <<>>
    PROVE  SizeOf(r) = 0
<1> DEFINE S == DOMAIN r.assets
           Is(it) == it = [s \in SUBSET S |->
                              IF s = {} THEN 0
                              ELSE r.assets[CHOOSE x \in s : TRUE].size
                                    + it[s \ {CHOOSE x \in s : TRUE}]]
           fold == CHOOSE it : Is(it)
<1>1. SizeOf(r) = fold[S]
    BY DEF SizeOf, FoldFunction, FoldFunctionOnSet, MapThenFoldSet
<1>2. S = {} /\ SUBSET S = {{}}
    OBVIOUS
<1> DEFINE zero == [s \in SUBSET S |-> 0]
<1>3. Is(zero)
    BY <1>2
<1>4. Is(fold)
    <2> HIDE DEF Is
    <2> QED BY <1>3
<1> HIDE DEF fold, S
<1>5. fold[S] = 0
    <2>1. S \in SUBSET S /\ S = {}
        BY <1>2
    <2> QED BY <1>4, <2>1
<1> QED BY <1>1, <1>5

\* Each side has a reader of its own.
LEMMA ReadersOfSides ==
    /\ ReaderOf["left"] = "pdfjs-text" /\ ReaderOf["right"] = "tesseract"
    /\ Sides["text"] = "left" /\ Sides["ocr"] = "right"
BY DEF ReaderOf, Sides

\* The parts of the report.
LEMMA AssembledScope ==
    /\ AssembledReport.pages = {0, 1} /\ AssembledReport.selected = {0}
    /\ AssembledReport.readers = {"pdfjs-text", "pdfjs-render"}
                                    \cup (IF "ocr" \in Planned THEN {"tesseract"} ELSE {})
    /\ AssembledReport.transforms = KnownTransforms
BY DEF AssembledReport

\* Its regions,
LEMMA AssembledRegions ==
    AssembledReport.regions = [g \in {RegionId} \ {None} |-> [page |-> 0, transforms |-> {<<"page", 0>>}]]
BY DEF AssembledReport

\* its checks,
LEMMA AssembledChecks ==
    /\ AssembledReport.plan = [c \in Planned |-> PlanOf(c)]
    /\ AssembledReport.checks = [c \in Planned |-> ResultOf(c)]
BY DEF AssembledReport

\* its readings,
LEMMA AssembledOccurrences ==
    AssembledReport.occurrences = [o \in Retained("text") \cup Retained("ocr") |->
                                    [reader |-> ReaderOf[o[1]], page |-> 0, asset |-> None,
                                     polygon |-> page[o[1]][o[2]].geometry # "page_only",
                                     transforms |-> CitedBy(o[1])]]
BY DEF AssembledReport

\* its findings,
LEMMA AssembledFindings ==
    /\ DOMAIN AssembledReport.findings = DeriveFindings
    /\ \A f \in DeriveFindings : AssembledReport.findings[f] = f
BY DEF AssembledReport

\* and what else it says.
LEMMA AssembledRest ==
    /\ AssembledReport.notes = <<>> /\ AssembledReport.assets = <<>> /\ AssembledReport.source = None
    /\ AssembledReport.filename = TRUE /\ AssembledReport.status = RunStatus
    /\ AssembledReport.mode = "evidence" /\ AssembledReport.replay = "requires_original"
    /\ AssembledReport.included = {"selected_text", "document_hash", "filename", "settings", "coverage"}
BY DEF AssembledReport

\* The transforms the report declares.
LEMMA TransformsKnown ==
    /\ {<<"page", 0>>, <<"page", 1>>} \subseteq DOMAIN KnownTransforms
    /\ \A t \in DOMAIN KnownTransforms : KnownTransforms[t] = t[2] /\ t[2] \in {0, 1}
    /\ "render" \in Planned /\ ended.status["render"] = "completed" => <<"raster", 0>> \in DOMAIN KnownTransforms
    /\ <<"crop", 0>> \in DOMAIN KnownTransforms <=> ended.stored
BY DEF KnownTransforms

\* Its pages and transforms agree,
LEMMA AssembledPagesAgree ==
    ASSUME NEW r, r = AssembledReport
    PROVE  PagesAgree(r)
<1>1. \A p \in r.pages : <<"page", p>> \in Ids(r.transforms) /\ r.transforms[<<"page", p>>] = p
    BY AssembledScope, TransformsKnown DEF Ids
<1>2. \A t \in Ids(r.transforms) : r.transforms[t] \in r.pages
    BY AssembledScope, TransformsKnown DEF Ids
<1>3. ASSUME NEW g \in Ids(r.regions)
      PROVE  r.regions[g].page \in r.pages /\ Cites(r, r.regions[g].transforms, r.regions[g].page)
    <2>1. r.regions[g] = [page |-> 0, transforms |-> {<<"page", 0>>}]
        BY AssembledRegions DEF Ids
    <2>2. r.regions[g].page = 0 /\ r.regions[g].transforms = {<<"page", 0>>}
        BY <2>1
    <2>3. 0 \in r.pages
        BY AssembledScope
    <2> QED BY <1>1, <2>2, <2>3 DEF Cites
<1>4. r.selected \subseteq r.pages
    BY AssembledScope
<1> QED BY <1>1, <1>2, <1>3, <1>4 DEF PagesAgree

\* its region is on the page,
LEMMA AssembledRegionOn ==
    ASSUME NEW r, r = AssembledReport, NEW region \in {None, RegionId}
    PROVE  RegionOn(r, region, 0)
<1>1. region # None => region \in Ids(r.regions) /\ r.regions[region] = [page |-> 0, transforms |-> {<<"page", 0>>}]
    BY AssembledRegions DEF Ids
<1> QED BY <1>1 DEF RegionOn

\* The plan of a run names its checks and readers,
LEMMA PlanFits ==
    ASSUME ended \in Endings, NEW c \in Planned
    PROVE  /\ PlanOf(c).page = 0 /\ PlanOf(c).region \in {None, RegionId}
           /\ PlanOf(c).readers \subseteq {"pdfjs-text", "pdfjs-render"}
                                    \cup (IF "ocr" \in Planned THEN {"tesseract"} ELSE {})
           /\ c = "text" => "pdfjs-text" \in PlanOf(c).readers
           /\ c = "ocr" => "tesseract" \in PlanOf(c).readers
<1>1. c \in {"text", "render", "ocr", "align"}
    BY EndingFits
<1>2. PlanOf(c).page = 0 /\ PlanOf(c).region \in {None, RegionId}
    BY DEF PlanOf
<1>3. CASE c = "text"
    <2>1. PlanOf(c).readers = {"pdfjs-text"}
        BY <1>3 DEF PlanOf
    <2> QED BY <1>2, <1>3, <2>1
<1>4. CASE c = "render"
    <2>1. PlanOf(c).readers = {"pdfjs-render"}
        BY <1>4 DEF PlanOf
    <2> QED BY <1>2, <1>4, <2>1
<1>5. CASE c = "ocr"
    <2>1. PlanOf(c).readers = {"tesseract"}
        BY <1>5 DEF PlanOf
    <2> QED BY <1>2, <1>5, <2>1
<1>6. CASE c = "align"
    <2>1. PlanOf(c).readers = {ReaderOf[Sides[d]] : d \in Compared}
        BY <1>6 DEF PlanOf
    <2>2. \A d \in Compared : \/ d = "text" /\ ReaderOf[Sides[d]] = "pdfjs-text"
                              \/ d = "ocr" /\ "ocr" \in Planned /\ ReaderOf[Sides[d]] = "tesseract"
        BY ReadersOfSides DEF Compared
    <2> QED BY <1>2, <1>6, <2>1, <2>2
<1> QED BY <1>1, <1>3, <1>4, <1>5, <1>6

\* and the report has that plan.
LEMMA AssembledPlanAgrees ==
    ASSUME ended \in Endings, NEW r, r = AssembledReport
    PROVE  PlanAgrees(r)
<1>1. Ids(r.plan) = Planned /\ Ids(r.checks) = Planned
    BY AssembledChecks DEF Ids
<1>2. ASSUME NEW c \in Planned
      PROVE  /\ r.plan[c].page \in r.selected /\ r.plan[c].readers \subseteq r.readers
             /\ RegionOn(r, r.plan[c].region, r.plan[c].page)
    <2>1. r.plan[c] = PlanOf(c)
        BY AssembledChecks
    <2>2. r.selected = {0} /\ r.readers = {"pdfjs-text", "pdfjs-render"}
                                \cup (IF "ocr" \in Planned THEN {"tesseract"} ELSE {})
        BY AssembledScope
    <2> QED BY <2>1, <2>2, PlanFits, AssembledRegionOn
<1> QED BY <1>1, <1>2 DEF PlanAgrees

\* A reading of the report is of a side, and what it cites is there.
LEMMA ReadingFits ==
    ASSUME IsPage(page), ended \in Endings, NEW r, r = AssembledReport, NEW o \in Ids(r.occurrences)
    PROVE  /\ o \in Retained("text") \cup Retained("ocr")
           /\ r.occurrences[o].page = 0 /\ r.occurrences[o].asset = None
           /\ r.occurrences[o].polygon <=> page[o[1]][o[2]].geometry # "page_only"
           /\ \/ o[1] = "left" /\ o \in Retained("text") /\ r.occurrences[o].reader = "pdfjs-text"
              \/ /\ o[1] = "right" /\ o \in Retained("ocr") /\ r.occurrences[o].reader = "tesseract"
                 /\ "ocr" \in Planned
           /\ r.occurrences[o].transforms = CitedBy(o[1])
           /\ ~CropIsUnknown => Cites(r, r.occurrences[o].transforms, 0)
<1>1. o \in Retained("text") \cup Retained("ocr")
    BY AssembledOccurrences DEF Ids
<1>2. r.occurrences[o] = [reader |-> ReaderOf[o[1]], page |-> 0, asset |-> None,
                          polygon |-> page[o[1]][o[2]].geometry # "page_only",
                          transforms |-> CitedBy(o[1])]
    BY <1>1, AssembledOccurrences
<1>3. /\ r.occurrences[o].reader = ReaderOf[o[1]] /\ r.occurrences[o].page = 0
      /\ r.occurrences[o].asset = None /\ r.occurrences[o].transforms = CitedBy(o[1])
    BY <1>2
<1>3a. r.occurrences[o].polygon <=> page[o[1]][o[2]].geometry # "page_only"
    <2> DEFINE has == page[o[1]][o[2]].geometry # "page_only"
    <2>1. r.occurrences[o] = [reader |-> ReaderOf[o[1]], page |-> 0, asset |-> None,
                              polygon |-> has, transforms |-> CitedBy(o[1])]
        BY <1>2
    <2>2. r.occurrences[o].polygon = has
        <3> HIDE DEF has
        <3> QED BY <2>1
    <2> QED BY <2>2
<1>4. r.transforms = KnownTransforms
    BY AssembledScope
<1>5. CASE o \in Retained("text")
    <2>1. o[1] = "left"
        BY <1>5, RetainedFits
    <2>2. CitedBy(o[1]) = {<<"page", 0>>}
        BY <2>1 DEF CitedBy
    <2>3. Cites(r, {<<"page", 0>>}, 0)
        BY <1>4, TransformsKnown DEF Cites, Ids
    <2> QED BY <1>1, <1>3, <1>3a, <1>5, <2>1, <2>2, <2>3, ReadersOfSides
<1>6. CASE o \in Retained("ocr")
    <2>1. /\ o[1] = "right" /\ "ocr" \in Planned
          /\ "render" \in Planned /\ ended.status["render"] = "completed"
        BY <1>6, RetainedFits
    <2>2. CitedBy(o[1]) = {<<"page", 0>>, <<"raster", 0>>, <<"crop", 0>>}
        BY <2>1 DEF CitedBy
    <2>3b. SUFFICES ASSUME ~CropIsUnknown PROVE Cites(r, r.occurrences[o].transforms, 0)
        BY <1>1, <1>3, <1>3a, <1>6, <2>1, ReadersOfSides
    <2>3c. ended.stored
        BY <1>6, <2>3b DEF CropIsUnknown
    <2>3. /\ <<"page", 0>> \in DOMAIN KnownTransforms /\ <<"raster", 0>> \in DOMAIN KnownTransforms
          /\ <<"crop", 0>> \in DOMAIN KnownTransforms
        BY <2>1, <2>3c, TransformsKnown
    <2>4. /\ KnownTransforms[<<"page", 0>>] = 0 /\ KnownTransforms[<<"raster", 0>>] = 0
          /\ KnownTransforms[<<"crop", 0>>] = 0
        BY <2>3, TransformsKnown
    <2>5. Cites(r, {<<"page", 0>>, <<"raster", 0>>, <<"crop", 0>>}, 0)
        BY <1>4, <2>3, <2>4 DEF Cites, Ids
    <2> QED BY <1>3, <2>2, <2>5
<1> QED BY <1>1, <1>5, <1>6

\* The readings agree with the assets and the readers.
LEMMA AssembledOccurrencesAgree ==
    ASSUME IsPage(page), ended \in Endings, ~CropIsUnknown, NEW r, r = AssembledReport
    PROVE  OccurrencesAgree(r)
<1>1. ASSUME NEW o \in Ids(r.occurrences)
      PROVE  LET x == r.occurrences[o]
             IN  /\ x.reader \in r.readers /\ x.page \in r.pages
                 /\ Cites(r, x.transforms, x.page)
                 /\ x.asset # None => x.asset \in Ids(r.assets)
    <2> DEFINE x == r.occurrences[o]
    <2>1. /\ x.page = 0 /\ x.asset = None /\ Cites(r, x.transforms, 0)
          /\ x.reader = "pdfjs-text" \/ (x.reader = "tesseract" /\ "ocr" \in Planned)
        BY ReadingFits
    <2>2. r.pages = {0, 1} /\ r.readers = {"pdfjs-text", "pdfjs-render"}
                                \cup (IF "ocr" \in Planned THEN {"tesseract"} ELSE {})
        BY AssembledScope
    <2> HIDE DEF x
    <2> QED BY <2>1, <2>2 DEF x
<1> QED BY <1>1 DEF OccurrencesAgree

\* The checks agree with the plan and the readings.
LEMMA AssembledChecksAgree ==
    ASSUME IsPage(page), ended \in Endings, NEW r, r = AssembledReport
    PROVE  ChecksAgree(r)
<1>1. ASSUME NEW c \in Ids(r.checks)
      PROVE  LET x == r.checks[c]
             IN  /\ Elements(x.retained) \subseteq Ids(r.occurrences)
                 /\ Len(x.retained) = Cardinality(Elements(x.retained))
                 /\ x.produced >= Len(x.retained)
                 /\ x.status # "completed" => x.reason
                 /\ \A o \in Elements(x.retained) :
                        /\ r.occurrences[o].reader \in r.plan[c].readers
                        /\ r.occurrences[o].page = r.plan[c].page
    <2> DEFINE x == r.checks[c]
               kept == IF c \in {"text", "ocr"} THEN Retained(c) ELSE {}
    <2>1. c \in Planned /\ x = ResultOf(c) /\ r.plan[c] = PlanOf(c)
        BY AssembledChecks DEF Ids
    <2>2. /\ x.retained = SetToSeq(kept) /\ x.produced = Cardinality(kept)
          /\ x.status # "completed" => x.reason
        <3>1. x = [status |-> ended.status[c], reason |-> ended.status[c] # "completed",
                   produced |-> Cardinality(kept), retained |-> SetToSeq(kept)]
            BY <2>1 DEF ResultOf
        <3> HIDE DEF x, kept
        <3> QED BY <3>1
    <2>3. IsFiniteSet(kept)
        BY RetainedFits, FS_EmptySet
    <2>4. kept \subseteq Ids(r.occurrences)
        <3>1. kept \subseteq Retained("text") \cup Retained("ocr")
            OBVIOUS
        <3> QED BY <3>1, AssembledOccurrences DEF Ids
    <2>5. /\ Elements(x.retained) = kept /\ Len(x.retained) = Cardinality(kept)
          /\ Cardinality(kept) \in Nat
        <3> HIDE DEF x, kept
        <3> QED BY <2>2, <2>3, SetToSeqFits DEF Elements
    <2>6. ASSUME NEW o \in kept
          PROVE  /\ r.occurrences[o].reader \in r.plan[c].readers
                 /\ r.occurrences[o].page = r.plan[c].page
        <3>1. c \in {"text", "ocr"} /\ o \in Retained(c) /\ o \in Ids(r.occurrences)
            BY <2>4, <2>6
        <3>2. /\ r.occurrences[o].page = 0
              /\ \/ o[1] = "left" /\ r.occurrences[o].reader = "pdfjs-text"
                 \/ o[1] = "right" /\ r.occurrences[o].reader = "tesseract"
            BY <3>1, ReadingFits
        <3>3. (c = "text" => o[1] = "left") /\ (c = "ocr" => o[1] = "right")
            <4>1. \A p \in Retained("text") : p = <<"left", p[2]>>
                BY RetainedFits
            <4>2. \A p \in Retained("ocr") : p = <<"right", p[2]>>
                BY RetainedFits
            <4>3. c = "text" => o[1] = "left"
                BY <3>1, <4>1
            <4>4. c = "ocr" => o[1] = "right"
                BY <3>1, <4>2
            <4> QED BY <4>3, <4>4
        <3>4. /\ PlanOf(c).page = 0
              /\ c = "text" => "pdfjs-text" \in PlanOf(c).readers
              /\ c = "ocr" => "tesseract" \in PlanOf(c).readers
            BY <2>1, PlanFits
        <3> QED BY <2>1, <3>1, <3>2, <3>3, <3>4
    <2> HIDE DEF x, kept
    <2>7. x.produced >= Len(x.retained)
        BY <2>2, <2>5
    <2> QED BY <2>2, <2>4, <2>5, <2>6, <2>7 DEF x
<1> QED BY <1>1 DEF ChecksAgree

\* Of two readings by different readers there are two readers.
LEMMA TwoReaders ==
    ASSUME NEW S, IsFiniteSet(S), NEW a \in S, NEW b \in S, a # b
    PROVE  Cardinality(S) >= 2
<1>1. IsFiniteSet({a}) /\ Cardinality({a}) = 1
    BY FS_Singleton
<1>2. Cardinality({a} \cup {b}) = 2
    BY <1>1, FS_AddElement
<1>3. {a} \cup {b} \subseteq S
    OBVIOUS
<1>4. Cardinality({a} \cup {b}) <= Cardinality(S)
    BY <1>3, FS_Subset
<1> QED BY <1>2, <1>4, FS_CardinalityType

\* The findings agree with readings, checks and region.
LEMMA AssembledFindingsAgree ==
    ASSUME IsPage(page), ended \in Endings, "ocr" \in Planned \/ page.right = <<>>,
           ended.status.align = "completed" => aligned = AlignPage,
           NEW r, r = AssembledReport
    PROVE  FindingsAgree(r)
<1>1. ASSUME NEW f \in DeriveFindings
      PROVE  /\ f.page \in r.pages
             /\ f.occurrences \subseteq Ids(r.occurrences) /\ f.checks \subseteq Ids(r.checks)
             /\ RegionOn(r, f.region, f.page)
             /\ \A o \in f.occurrences : r.occurrences[o].page = f.page
             /\ EvidenceHolds(r, f)
    <2>1. FindingFits(f)
        BY FindingsFit
    <2>2. /\ f.page = 0 /\ f.occurrences \subseteq Retained("text") \cup Retained("ocr")
          /\ f.checks \subseteq Planned /\ f.region \in {None, RegionId}
        BY <2>1 DEF FindingFits
    <2>3. f.page \in r.pages
        BY <2>2, AssembledScope
    <2>4. f.occurrences \subseteq Ids(r.occurrences)
        BY <2>2, AssembledOccurrences DEF Ids
    <2>5. f.checks \subseteq Ids(r.checks)
        BY <2>2, AssembledChecks DEF Ids
    <2>6. RegionOn(r, f.region, f.page)
        BY <2>2, AssembledRegionOn
    <2>7. \A o \in f.occurrences : r.occurrences[o].page = f.page
        BY <2>2, <2>4, ReadingFits
    <2>8. ASSUME f.kind = "reading_difference"
          PROVE  /\ Cardinality({r.occurrences[o].reader : o \in f.occurrences}) >= 2
                 /\ \A c \in f.checks : r.checks[c].status = "completed"
                 /\ f.occurrences \subseteq UNION {Elements(r.checks[c].retained) : c \in f.checks}
        <3>1. PICK o \in f.occurrences, u \in f.occurrences : o[1] = "left" /\ u[1] = "right"
            BY <2>1, <2>8 DEF FindingFits
        <3>2. r.occurrences[o].reader = "pdfjs-text" /\ r.occurrences[u].reader = "tesseract"
            BY <2>4, <3>1, ReadingFits
        <3> DEFINE R == {r.occurrences[x].reader : x \in f.occurrences}
        <3>3. R \subseteq {"pdfjs-text", "tesseract"} /\ "pdfjs-text" \in R /\ "tesseract" \in R
            BY <2>4, <3>1, <3>2, ReadingFits
        <3>4. IsFiniteSet(R)
            <4>1. IsFiniteSet({"pdfjs-text"} \cup {"tesseract"})
                BY FS_Singleton, FS_AddElement
            <4>2. R \subseteq {"pdfjs-text"} \cup {"tesseract"}
                BY <3>3
            <4> HIDE DEF R
            <4> QED BY <4>1, <4>2, FS_Subset
        <3>5. Cardinality(R) >= 2
            <4> HIDE DEF R
            <4> QED BY <3>3, <3>4, TwoReaders
        <3>6. f.checks = {"text", "ocr"} /\ \A c \in f.checks : ended.status[c] = "completed"
            BY <2>1, <2>8 DEF FindingFits
        <3>7. \A c \in {"text", "ocr"} :
                /\ r.checks[c].status = ended.status[c]
                /\ Elements(r.checks[c].retained) = Retained(c)
            <4>1. ASSUME NEW c \in {"text", "ocr"}
                  PROVE  /\ r.checks[c].status = ended.status[c]
                         /\ Elements(r.checks[c].retained) = Retained(c)
                <5>1. r.checks[c] = ResultOf(c)
                    BY <2>2, <3>6, AssembledChecks
                <5>2. IsFiniteSet(Retained(c))
                    BY RetainedFits
                <5>3. ResultOf(c).status = ended.status[c] /\ ResultOf(c).retained = SetToSeq(Retained(c))
                    BY DEF ResultOf
                <5> QED BY <5>1, <5>2, <5>3, SetToSeqFits DEF Elements
            <4> QED BY <4>1
        <3> QED BY <2>2, <3>5, <3>6, <3>7
    <2>9. ASSUME f.alignment = "unique"
          PROVE  f.region # None /\ \A o \in f.occurrences : r.occurrences[o].polygon
        <3>1. f.region = RegionId /\ RegionId # None /\ Localized(f.occurrences)
            BY <2>1, <2>9 DEF FindingFits
        <3>2. \A o \in f.occurrences : r.occurrences[o].polygon <=> page[o[1]][o[2]].geometry # "page_only"
            BY <2>4, ReadingFits
        <3> QED BY <3>1, <3>2 DEF Localized
    <2>10. EvidenceHolds(r, f)
        BY <2>8, <2>9 DEF EvidenceHolds
    <2> QED BY <2>3, <2>4, <2>5, <2>6, <2>7, <2>10
<1>2. Ids(r.findings) = DeriveFindings /\ \A f \in DeriveFindings : r.findings[f] = f
    BY AssembledFindings DEF Ids
<1> QED BY <1>1, <1>2 DEF FindingsAgree

\* The status of the report is the one its checks give.
LEMMA AssembledStatusAgrees ==
    ASSUME ended \in Endings, NEW r, r = AssembledReport
    PROVE  StatusAgrees(r)
<1>1. Planned # {} /\ Planned = DOMAIN ended.status
    BY EndingFits DEF Planned
<1>2. Ids(r.checks) = Planned /\ \A c \in Planned : r.checks[c].status = ended.status[c]
    BY AssembledChecks DEF Ids, ResultOf
<1>3. Incomplete(r) = {c \in Planned : ended.status[c] # "completed"}
    BY <1>2 DEF Incomplete
<1> DEFINE statuses == Range(ended.status)
<1>4. /\ \A c \in Planned : ended.status[c] \in statuses
      /\ \A s \in statuses : \E c \in Planned : s = ended.status[c]
    BY <1>1 DEF Range
<1>5. r.status = RunStatus
    BY AssembledRest
<1>6. RunStatus = CASE statuses = {"completed"} -> "complete"
                    [] "completed" \notin statuses /\ statuses \cap {"failed", "timeout"} # {} -> "failed"
                    [] OTHER -> "partial"
    BY DEF RunStatus
<1> HIDE DEF statuses
<1>7. CASE statuses = {"completed"}
    BY <1>2, <1>3, <1>4, <1>5, <1>6, <1>7 DEF StatusAgrees
<1>8. CASE "completed" \notin statuses /\ statuses \cap {"failed", "timeout"} # {}
    <2>1. RunStatus = "failed"
        BY <1>6, <1>8
    <2>2. Incomplete(r) = Ids(r.checks)
        BY <1>2, <1>3, <1>4, <1>8
    <2>3. \E c \in Ids(r.checks) : r.checks[c].status \in {"failed", "timeout"}
        BY <1>2, <1>4, <1>8
    <2> QED BY <1>5, <2>1, <2>2, <2>3 DEF StatusAgrees
<1>9. CASE /\ statuses # {"completed"}
           /\ ~("completed" \notin statuses /\ statuses \cap {"failed", "timeout"} # {})
    <2>1. RunStatus = "partial"
        BY <1>6, <1>9
    <2>2. Incomplete(r) # {}
        BY <1>1, <1>3, <1>4, <1>9
    <2> QED BY <1>5, <2>1, <2>2 DEF StatusAgrees
<1> QED BY <1>7, <1>8, <1>9

\* A reading that cites an unknown crop costs the report.
LEMMA CropCosts ==
    ASSUME IsPage(page), ended \in Endings, CropIsUnknown, NEW r, r = AssembledReport
    PROVE  ~Valid(r)
<1>1. PICK o \in Retained("ocr") : ~ended.stored
    BY DEF CropIsUnknown
<1>2. o \in Ids(r.occurrences) /\ o[1] = "right"
    BY AssembledOccurrences, RetainedFits DEF Ids
<1>3. r.occurrences[o].transforms = CitedBy(o[1])
    BY <1>2, ReadingFits
<1>4. <<"crop", 0>> \in r.occurrences[o].transforms
    BY <1>2, <1>3 DEF CitedBy
<1>5. <<"crop", 0>> \notin Ids(r.transforms)
    BY <1>1, AssembledScope, TransformsKnown DEF Ids
<1> QED BY <1>2, <1>4, <1>5 DEF Valid, OccurrencesAgree, Cites

\* However else it ended, a run's report is one the contract accepts.
LEMMA AssembledValid ==
    ASSUME IsPage(page), ended \in Endings, "ocr" \in Planned \/ page.right = <<>>, ~CropIsUnknown,
           ended.status.align = "completed" => aligned = AlignPage,
           NEW r, r = AssembledReport
    PROVE  Valid(r)
<1>1. NotesAgree(r)
    BY AssembledRest DEF NotesAgree, Ids
<1>2. AssetsAgree(r)
    <2>1. Ids(r.assets) = {}
        BY AssembledRest DEF Ids
    <2>2. SizeOf(r) = 0
        BY AssembledRest, NoSizes
    <2> QED BY <2>1, <2>2, SizesAssumption DEF AssetsAgree
<1>3. DisclosureAgrees(r)
    <2>1. Ids(r.assets) = {} /\ Ids(r.notes) = {}
        BY AssembledRest DEF Ids
    <2>2. Purposes(r) = {}
        BY <2>1 DEF Purposes
    <2> QED BY <2>1, <2>2, AssembledRest DEF DisclosureAgrees
<1> QED BY <1>1, <1>2, <1>3, AssembledPagesAgree, AssembledPlanAgrees, AssembledOccurrencesAgree,
           AssembledChecksAgree, AssembledFindingsAgree, AssembledStatusAgrees DEF Valid

---------------------------------------------------------------------------
(* What the report tells *)

\* A kept reading of the selected place is named by a finding, or agrees with
\* its match or, without a place, with the other reader's.
Reported(r) ==
    ended.status.align = "completed" =>
        \A o \in Ids(r.occurrences) :
            \/ Classify(page[o[1]][o[2]]) = "out_of_scope"
            \/ Classify(page[o[1]][o[2]]) = "page_level" /\ PageLevelIsSilent
            \/ \E f \in Ids(r.findings) : o \in r.findings[f].occurrences
            \/ \E p \in aligned.matches : o \in Members(p) /\ SameText(p.left, p.right)

\* No reading of the selected place is left untold.
LEMMA PlacedReported ==
    ASSUME IsPage(page), ended \in Endings, "ocr" \in Planned \/ page.right = <<>>,
           ended.status.align = "completed" => aligned = AlignPage,
           NEW r, r = AssembledReport, ended.status.align = "completed",
           NEW o \in Ids(r.occurrences), Classify(page[o[1]][o[2]]) = "localized"
    PROVE  \/ \E f \in DeriveFindings : o \in f.occurrences
           \/ \E p \in aligned.matches : o \in Members(p) /\ SameText(p.left, p.right)
<1>1. /\ ended.status.align = "completed" /\ o \in Ids(r.occurrences)
      /\ Classify(page[o[1]][o[2]]) = "localized"
    OBVIOUS
<1> DEFINE side == o[1]
           i == o[2]
<1>2. /\ o = <<side, i>> /\ side \in Side /\ i \in DOMAIN page[side]
      /\ \/ side = "left" /\ o \in Retained("text")
         \/ side = "right" /\ o \in Retained("ocr")
    <2>1. o \in Retained("text") \/ o \in Retained("ocr")
        BY ReadingFits
    <2> QED BY <2>1, RetainedFits DEF Side
<1>3. i \in Fragments(side)
    BY <1>1, <1>2 DEF Fragments
<1>4. aligned = AlignPage
    BY <1>1
<1>5. \A f : f \in MatchFindings \cup AmbiguousFindings \cup AbstentionFindings \cup UnmatchedFindings
                => f \in DeriveFindings
    BY <1>1 DEF DeriveFindings
<1>6. \A p : i \in p[side] => o \in Members(p)
    BY <1>2 DEF Members, Side
<1> HIDE DEF side, i
<1>7. CASE \E p \in AlignPage.matches : i \in p[side]
    <2>1. PICK p \in aligned.matches : o \in Members(p)
        BY <1>4, <1>6, <1>7
    <2>2. CASE SameText(p.left, p.right)
        BY <2>1, <2>2
    <2>3. CASE ~SameText(p.left, p.right)
        <3> DEFINE f == Placed("reading_difference", Members(p), Compared)
        <3>1. f \in MatchFindings
            BY <2>1, <2>3 DEF MatchFindings
        <3>2. f.occurrences = Members(p)
            BY DEF Placed, Finding
        <3> HIDE DEF f
        <3> QED BY <1>5, <2>1, <3>1, <3>2
    <2> QED BY <2>2, <2>3
<1>8. CASE \E e \in AlignPage.ambiguous : \E p \in Mentioned(e) : i \in p[side]
    <2>1. PICK e \in aligned.ambiguous : \E p \in Mentioned(e) : i \in p[side]
        BY <1>4, <1>8
    <2> DEFINE all == Members(e.unit) \cup UNION {Members(q) : q \in e.candidates}
               f == Finding("reading_difference", all, Compared, "ambiguous", RegionId)
    <2>2. o \in all
        BY <1>6, <2>1 DEF Mentioned
    <2>3. f \in AmbiguousFindings
        BY <2>1 DEF AmbiguousFindings
    <2>4. f.occurrences = all
        BY FindingIs
    <2> HIDE DEF f, all
    <2> QED BY <1>5, <2>2, <2>3, <2>4
<1>9. CASE \E b \in Blocks : TooLarge(b) /\ i \in Range(b.order[side])
    <2>1. PICK b \in Blocks : TooLarge(b) /\ i \in Range(b.order[side])
        BY <1>9
    <2> DEFINE all == {<<"left", j>> : j \in Range(b.order.left)} \cup {<<"right", j>> : j \in Range(b.order.right)}
               f == Finding("incomplete_check", all, Compared, "not_applicable", RegionId)
    <2>2. o \in all
        BY <1>2, <2>1 DEF Side
    <2>3. f \in AbstentionFindings
        BY <2>1 DEF AbstentionFindings
    <2>4. f.occurrences = all
        BY FindingIs
    <2> HIDE DEF f, all
    <2> QED BY <1>5, <2>2, <2>3, <2>4
<1>10. CASE AlignPage.status[side][i] = "unmatched"
    <2>1. PICK c \in Compared : o \in OfStatus(c, "unmatched")
        <3>1. "text" \in Compared /\ (side = "right" => "ocr" \in Compared)
            <4>1. "text" \in Compared
                BY <1>1, ComparedFits
            <4>2. side = "right" => "ocr" \in Compared
                BY <1>2, RetainedFits DEF Compared
            <4> QED BY <4>1, <4>2
        <3>2. aligned.status[o[1]][o[2]] = "unmatched"
            BY <1>4, <1>10 DEF side, i
        <3> QED BY <1>2, <3>1, <3>2 DEF OfStatus, Side
    <2> DEFINE f == Finding(IF c = "text" THEN "observed_structure" ELSE "ocr_interpretation",
                            OfStatus(c, "unmatched"), {c}, "unmatched",
                            IF Localized(OfStatus(c, "unmatched")) THEN RegionId ELSE None)
    <2>2. f \in UnmatchedFindings
        BY <2>1 DEF UnmatchedFindings
    <2>3. f.occurrences = OfStatus(c, "unmatched")
        BY FindingIs
    <2> HIDE DEF f
    <2> QED BY <1>5, <2>1, <2>2, <2>3
<1> QED BY <1>2, <1>3, <1>7, <1>8, <1>9, <1>10, StatusTells

\* Nor is one without a place, unless the other reader has none or the same.
LEMMA UnplacedReported ==
    ASSUME IsPage(page), ended \in Endings, "ocr" \in Planned \/ page.right = <<>>,
           ended.status.align = "completed", aligned = AlignPage, ~PageLevelIsSilent,
           NEW r, r = AssembledReport,
           NEW o \in Ids(r.occurrences), Classify(page[o[1]][o[2]]) = "page_level"
    PROVE  \E f \in DeriveFindings : o \in f.occurrences
<1> DEFINE left == OfStatus("text", "page_level")
           right == OfStatus("ocr", "page_level")
           f == Finding("reading_difference", left \cup right, Compared, "page_level", None)
<1>1. /\ o = <<o[1], o[2]>> /\ o[1] \in Side /\ o[2] \in DOMAIN page[o[1]]
      /\ o \in Retained("text") \/ o \in Retained("ocr")
    <2>1. o \in Retained("text") \/ o \in Retained("ocr")
        BY ReadingFits
    <2> QED BY <2>1, RetainedFits DEF Side
<1>2. aligned.status[o[1]][o[2]] = "page_level"
    <2>1. o[2] \notin Fragments(o[1])
        BY DEF Fragments
    <2> QED BY <1>1, <2>1, StatusTells
<1>3. o \in left \cup right
    BY <1>1, <1>2 DEF OfStatus
<1>4. f \in PageLevelFindings
    BY DEF PageLevelFindings, PageLevelIsSilent
<1>5. f.occurrences = left \cup right
    BY FindingIs
<1>6. f \in DeriveFindings
    BY <1>4 DEF DeriveFindings
<1> HIDE DEF f, left, right
<1> QED BY <1>3, <1>5, <1>6

LEMMA AssembledReported ==
    ASSUME IsPage(page), ended \in Endings, "ocr" \in Planned \/ page.right = <<>>,
           ended.status.align = "completed" => aligned = AlignPage,
           NEW r, r = AssembledReport
    PROVE  Reported(r)
<1>1. SUFFICES ASSUME ended.status.align = "completed", NEW o \in Ids(r.occurrences),
                      Classify(page[o[1]][o[2]]) # "out_of_scope",
                      ~(Classify(page[o[1]][o[2]]) = "page_level" /\ PageLevelIsSilent)
               PROVE  \/ \E f \in DeriveFindings : o \in f.occurrences
                      \/ \E p \in aligned.matches : o \in Members(p) /\ SameText(p.left, p.right)
    BY AssembledFindings DEF Reported, Ids
<1>2. Classify(page[o[1]][o[2]]) \in {"localized", "page_level"}
    BY <1>1 DEF Classify
<1> QED BY <1>1, <1>2, PlacedReported, UnplacedReported

---------------------------------------------------------------------------
(* The invariant *)

\* The alignment is a matter of the page alone.
LEMMA SameAlignPage == ASSUME page' = page PROVE AlignPage' = AlignPage
<1>1. \A side, i : Classify(page[side][i])' = Classify(page[side][i])
    BY DEF Classify
<1>2. \A side : Fragments(side)' = Fragments(side)
    BY DEF Fragments, Classify
<1>3. \A side, f : Bounds(side, f)' = Bounds(side, f)
    BY DEF Bounds, BoxOf
<1>4. \A side : LineRuns(side)' = LineRuns(side)
    BY DEF LineRuns, SplitBand, Banded, Fragments, Classify, BoxOf, ByX, Flushed, Bounds
<1>5. Blocks' = Blocks
    <2>1. Nodes' = Nodes
        BY <1>4 DEF Nodes
    <2>2. \A l, r : Linked(l, r)' = Linked(l, r)
        BY DEF Linked, Bounds, BoxOf
    <2>3. Links' = Links
        BY <2>1, <2>2 DEF Links
    <2>4. \A side, runs : ReadingOrder(side, runs)' = ReadingOrder(side, runs)
        BY DEF ReadingOrder, Above, Bounds, BoxOf
    <2>5. \A nodes, side : RunsOf(nodes, side)' = RunsOf(nodes, side)
        BY <2>4 DEF RunsOf
    <2>6. \A nodes : BlockOf(nodes)' = BlockOf(nodes)
        BY <2>5 DEF BlockOf
    <2> QED BY <2>1, <2>3, <2>6 DEF Blocks
<1>6. \A b : Candidates(b)' = Candidates(b)
    BY DEF Candidates, PairAdmitted, Pairing, Covers, Spans, Bounds, BoxOf
<1>7. \A b, c : SolveBlock(b, c)' = SolveBlock(b, c)
    BY DEF SolveBlock, CostsOf, CostOf
<1>8. \A b, c, o, p : Margin(b, c, o, p)' = Margin(b, c, o, p)
    BY DEF Margin, Gaps, SolveBlock, CostsOf, CostOf, ExchangeDelta, Rescue, CostsAmong
<1>9. \A c, o, m : Outcome(c, o, m)' = Outcome(c, o, m)
    BY DEF Outcome, CostOf, Inverted, Ordinals
<1>10. \A b : MatchBlock(b)' = MatchBlock(b)
    <2>1. SUFFICES ASSUME NEW b PROVE MatchBlock(b)' = MatchBlock(b)
        OBVIOUS
    <2>2. Candidates(b)' = Candidates(b)
        BY <1>6
    <2>3. \A c : SolveBlock(b, c)' = SolveBlock(b, c)
        BY <1>7
    <2>4. \A c, o, p : Margin(b, c, o, p)' = Margin(b, c, o, p)
        BY <1>8
    <2>5. MatchBlock(b) = Outcome(Candidates(b), SolveBlock(b, Candidates(b)),
                [p \in SolveBlock(b, Candidates(b)).pairs |->
                    Margin(b, Candidates(b), SolveBlock(b, Candidates(b)), p)])
        BY DEF MatchBlock, Sole
    <2>6. MatchBlock(b)' = Outcome(Candidates(b), SolveBlock(b, Candidates(b)),
                [p \in SolveBlock(b, Candidates(b)).pairs |->
                    Margin(b, Candidates(b), SolveBlock(b, Candidates(b)), p)])'
        BY DEF MatchBlock, Sole
    <2> QED BY <2>2, <2>3, <2>4, <2>5, <2>6, <1>9
<1>11. \A o : Alignments(o)' = Alignments(o)
    BY DEF Alignments, Fragments, Classify
<1> QED BY <1>5, <1>10, <1>11 DEF AlignPage

\* A run that ended assembles what it kept; a compared page was aligned first.
AssemblyInvariant ==
    /\ page \in Pages /\ ended \in Endings
    /\ "ocr" \in Planned \/ page.right = <<>>
    /\ aligned \in {NotAligned, AlignPage}
    /\ (report # None /\ ended.status.align = "completed") => aligned # NotAligned
    /\ error \in BOOLEAN /\ (error => report = None)
    /\ error => CropIsUnknown
    /\ report # None => Valid(report) /\ ~CropIsUnknown /\ Reported(report)

\* Every step keeps the invariant,
LEMMA AssemblyStepKeeps ==
    ASSUME AssemblyInvariant, [AssemblyNext]_<<alignVars, assemblyVars>>
    PROVE  AssemblyInvariant'
<1>1. IsPage(page)
    BY PagesAssumption DEF AssemblyInvariant, PagesAssumption
<1>2. CASE AlignCheck
    <2>1. /\ page' = page /\ ended' = ended /\ report' = report /\ error' = error
          /\ aligned' = AlignPage /\ aligned = NotAligned /\ ended.status.align = "completed"
        BY <1>2 DEF AlignCheck, assemblyVars
    <2>2. AlignPage' = AlignPage
        BY <2>1, SameAlignPage
    <2>3. report = None
        BY <2>1 DEF AssemblyInvariant
    <2>4. Planned' = Planned /\ CropIsUnknown' = CropIsUnknown
        BY <2>1 DEF Planned, CropIsUnknown, Retained
    <2> QED BY <2>1, <2>2, <2>3, <2>4 DEF AssemblyInvariant
<1>3. ASSUME page' = page /\ aligned' = aligned /\ ended' = ended
      PROVE  /\ AlignPage' = AlignPage /\ Planned' = Planned /\ CropIsUnknown' = CropIsUnknown
             /\ \A r : Reported(r)' <=> Reported(r)
    <2>1. AlignPage' = AlignPage /\ Planned' = Planned /\ CropIsUnknown' = CropIsUnknown
        BY <1>3, SameAlignPage DEF Planned, CropIsUnknown, Retained
    <2>2. \A o : Classify(page[o[1]][o[2]])' = Classify(page[o[1]][o[2]])
        BY <1>3 DEF Classify
    <2>3. \A left, right : SameText(left, right)' = SameText(left, right)
        BY <1>3 DEF SameText, GroupText
    <2>4. \A c, status : OfStatus(c, status)' = OfStatus(c, status)
        BY <1>3 DEF OfStatus, Retained, Planned
    <2>5. PageLevelIsSilent' <=> PageLevelIsSilent
        BY <2>3, <2>4 DEF PageLevelIsSilent
    <2>6. \A r : Reported(r)' <=> Reported(r)
        BY <1>3, <2>2, <2>3, <2>5 DEF Reported
    <2> QED BY <2>1, <2>6
<1>4. CASE AssembleRunReport
    <2>1. /\ page' = page /\ aligned' = aligned /\ ended' = ended
          /\ ended.status.align = "completed" => aligned # NotAligned
          /\ report = None /\ ~error
          /\ \/ Valid(AssembledReport) /\ report' = AssembledReport /\ error' = error
             \/ ~Valid(AssembledReport) /\ error' = TRUE /\ report' = report
        BY <1>4 DEF AssembleRunReport, alignVars
    <2>2. /\ ended \in Endings
          /\ "ocr" \in Planned \/ page.right = <<>>
          /\ ended.status.align = "completed" => aligned = AlignPage
        BY <2>1 DEF AssemblyInvariant
    <2>3. /\ AlignPage' = AlignPage /\ Planned' = Planned /\ CropIsUnknown' = CropIsUnknown
          /\ \A r : Reported(r)' <=> Reported(r)
        BY <1>3, <2>1
    <2>4. CASE Valid(AssembledReport) /\ report' = AssembledReport /\ error' = error
        <3> DEFINE r == report'
        <3>1. r = AssembledReport /\ Valid(r)
            BY <2>4
        <3>2. ~CropIsUnknown
            <4> HIDE DEF r
            <4> QED BY <1>1, <2>2, <3>1, CropCosts
        <3>3. Reported(r)
            <4> HIDE DEF r
            <4> QED BY <1>1, <2>2, <3>1, AssembledReported
        <3> HIDE DEF r
        <3>5. Reported(report)'
            BY <2>1, <2>3, <3>3 DEF Reported, r
        <3>6. ~error'
            BY <2>1, <2>4
        <3> QED BY <2>1, <2>3, <3>1, <3>2, <3>5, <3>6 DEF AssemblyInvariant, r
    <2>5. CASE ~Valid(AssembledReport) /\ error' = TRUE /\ report' = report
        <3>1. CropIsUnknown
            BY <1>1, <2>2, <2>5, AssembledValid
        <3>2. report' = None /\ error' = TRUE
            BY <2>1, <2>5
        <3> QED BY <2>1, <2>3, <3>1, <3>2 DEF AssemblyInvariant
    <2> QED BY <2>1, <2>4, <2>5
<1>5. CASE UNCHANGED <<alignVars, assemblyVars>>
    <2>1. page' = page /\ aligned' = aligned /\ ended' = ended /\ report' = report /\ error' = error
        BY <1>5 DEF alignVars, assemblyVars
    <2>2. /\ AlignPage' = AlignPage /\ Planned' = Planned /\ CropIsUnknown' = CropIsUnknown
          /\ \A r : Reported(r)' <=> Reported(r)
        BY <1>3, <2>1
    <2>3. Reported(report)' <=> Reported(report)
        BY <2>1, <2>2 DEF Reported
    <2> QED BY <2>1, <2>2, <2>3 DEF AssemblyInvariant
<1> QED BY <1>2, <1>4, <1>5 DEF AssemblyNext

\* and it holds at the start.
LEMMA AssemblyStarts == ASSUME AssemblyInit PROVE AssemblyInvariant
BY DEF AssemblyInit, AlignInit, AssemblyInvariant

\* However readers, alignment and assembly take their turns, a report is there
\* only when the alignment it needs is, it is refused only for the crop that OCR
\* over its budget cites, and no report that is there cites such a crop.
THEOREM AssemblyStaysInvariant == AssemblySpec => []AssemblyInvariant
<1>1. AssemblyInit => AssemblyInvariant
    BY AssemblyStarts
<1>2. AssemblyInvariant /\ [AssemblyNext]_<<alignVars, assemblyVars>> => AssemblyInvariant'
    BY AssemblyStepKeeps
<1> QED BY <1>1, <1>2, PTL DEF AssemblySpec

\* However a run that was not cancelled ended, OCR over its budget included, and
\* whatever its readers kept of the page: its report is one the contract accepts
\* and tells every reading of the selected place, or it is refused because of
\* the crop that OCR's readings cite.
THEOREM RunReportIsSound == AssemblySpec => []ReportIsSound
<1>1. AssemblyInvariant => ReportIsSound
    BY DEF AssemblyInvariant, ReportIsSound, RefusedForCropOnly, EveryReadingReported, Reported
<1> QED BY <1>1, AssemblyStaysInvariant, PTL

\* Whatever a page holds and whatever pairing its readings would cost, the
\* alignment chooses a cheapest assignment, leaves out no pair that could be
\* added, and calls unique no match that a rival comes close to.
THEOREM PageMatchingIsSound == AssemblySpec => []MatchingIsSound
<1>1. ASSUME AssemblyInvariant PROVE MatchingIsSound
    <2>1. IsPage(page)
        BY <1>1, PagesAssumption DEF AssemblyInvariant, PagesAssumption
    <2>2. CASE aligned = NotAligned
        <3>1. ~Done
            BY <2>2 DEF Done
        <3> QED BY <3>1 DEF MatchingIsSound, MatchingIsBest, OptimumIsCheapest,
                            UnmatchedHasNoPartner, UniqueSurvivesRivals
    <2>3. CASE aligned = AlignPage
        BY <2>1, <2>3, OptimumAlwaysCheapest, UnmatchedAlwaysWithout, UniqueAlwaysSurvives
            DEF MatchingIsSound, MatchingIsBest
    <2> QED BY <1>1, <2>2, <2>3 DEF AssemblyInvariant
<1> QED BY <1>1, AssemblyStaysInvariant, PTL

=============================================================================
