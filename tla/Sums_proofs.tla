----------------------------- MODULE Sums_proofs -----------------------------
(***************************************************************************)
(* What SumTo computes, for every function and bound: its recursion, and   *)
(* the lemmas by induction that the proofs about counters cite.  The       *)
(* induction is over a set of numbers, from the least-number principle.    *)
(***************************************************************************)
EXTENDS Sums, WellFoundedInduction, TLAPS

\* Every nonempty set of natural numbers has a least element.
LEMMA LeastNumber ==
    ASSUME NEW T \in SUBSET Nat, T # {}
    PROVE  \E m \in T : \A k \in T : m <= k
<1>1. PICK m \in T : \A k \in T : ~ (<<k, m>> \in OpToRel(<, Nat))
  BY WFMin, NatLessThanWellFounded
<1>2. \A k \in T : ~ (k < m)
  BY <1>1 DEF OpToRel
<1> QED
  BY <1>2

\* A set with 0 and the successor of each of its numbers has every number.
LEMMA SetInduction ==
    ASSUME NEW S, 0 \in S, \A n \in Nat : n \in S => n + 1 \in S
    PROVE  Nat \subseteq S
<1> SUFFICES ASSUME Nat \ S # {} PROVE FALSE
  OBVIOUS
<1>1. PICK m \in Nat \ S : \A k \in Nat \ S : m <= k
  BY LeastNumber
<1>2. m # 0 /\ m - 1 \in Nat /\ m = (m - 1) + 1 /\ ~ (m <= m - 1)
  BY <1>1
<1> QED
  BY <1>1, <1>2

-----------------------------------------------------------------------------
(* SumTo satisfies its equation. *)

IsSum(s, f, n) ==
    s = [i \in 0..n |-> f[i] + (IF i = 0 THEN 0 ELSE s[i - 1])]

\* What is said of the partial sums holds of the chosen ones, if there are any.
LEMMA SumIsChosen ==
    ASSUME NEW f, NEW n, NEW s, IsSum(s, f, n)
    PROVE  \E t : IsSum(t, f, n) /\ SumTo(f, n) = t[n]
<1>1. SumTo(f, n) = (CHOOSE t : IsSum(t, f, n))[n]
  BY DEF SumTo, IsSum
<1>2. IsSum(CHOOSE t : IsSum(t, f, n), f, n)
  BY Zenon
<1> QED
  BY <1>1, <1>2

\* There are partial sums for every bound.
LEMMA SumExists ==
    ASSUME NEW f
    PROVE  \A n \in Nat : \E s : IsSum(s, f, n)
<1> DEFINE S == {n \in Nat : \E s : IsSum(s, f, n)}
<1>1. 0 \in S
  <2>1. IsSum([i \in 0..0 |-> f[i] + 0], f, 0)
    BY DEF IsSum
  <2> QED
    BY <2>1
<1>2. ASSUME NEW n \in Nat, n \in S PROVE n + 1 \in S
  <2>1. PICK s : IsSum(s, f, n)
    BY <1>2
  <2> DEFINE t == [i \in 0..(n + 1) |-> f[i] + (IF i = 0 THEN 0 ELSE s[i - 1])]
  <2>2. \A i \in 0..n : t[i] = s[i]
    BY <2>1 DEF IsSum
  <2>3. \A i \in 0..(n + 1) : i # 0 => i - 1 \in 0..n
    OBVIOUS
  <2>4. \A i \in 0..(n + 1) : t[i] = f[i] + (IF i = 0 THEN 0 ELSE t[i - 1])
    BY <2>2, <2>3
  <2>5. t = [i \in 0..(n + 1) |-> f[i] + (IF i = 0 THEN 0 ELSE t[i - 1])]
    BY <2>4
  <2> HIDE DEF t
  <2>6. IsSum(t, f, n + 1)
    BY <2>5 DEF IsSum
  <2> QED
    BY <2>6
<1> HIDE DEF S
<1>3. Nat \subseteq S
  BY <1>1, <1>2, SetInduction
<1> QED
  BY <1>3 DEF S

\* Partial sums agree where both are defined.
LEMMA SumUnique ==
    ASSUME NEW f, NEW m \in Nat, NEW n \in Nat, NEW s, NEW t,
           IsSum(s, f, m), IsSum(t, f, n)
    PROVE  \A i \in Nat : i <= m /\ i <= n => s[i] = t[i]
<1> DEFINE S == {i \in Nat : i <= m /\ i <= n => s[i] = t[i]}
<1>1. 0 \in S
  BY DEF IsSum
<1>2. ASSUME NEW i \in Nat, i \in S PROVE i + 1 \in S
  <2> SUFFICES ASSUME i + 1 <= m, i + 1 <= n PROVE s[i + 1] = t[i + 1]
    OBVIOUS
  <2>1. s[i] = t[i] /\ i + 1 \in 0..m /\ i + 1 \in 0..n /\ i + 1 # 0 /\ (i + 1) - 1 = i
    BY <1>2
  <2>2. s[i + 1] = f[i + 1] + s[i]
    BY <2>1 DEF IsSum
  <2>3. t[i + 1] = f[i + 1] + t[i]
    BY <2>1 DEF IsSum
  <2> QED
    BY <2>1, <2>2, <2>3
<1> HIDE DEF S
<1>3. Nat \subseteq S
  BY <1>1, <1>2, SetInduction
<1> QED
  BY <1>3 DEF S

\* The sum to 0 is the first value; one more bound adds one more value.
LEMMA SumStep ==
    ASSUME NEW f, f[0] \in Nat
    PROVE  /\ SumTo(f, 0) = f[0]
           /\ \A n \in Nat : SumTo(f, n + 1) = f[n + 1] + SumTo(f, n)
<1>1. SumTo(f, 0) = f[0]
  <2>1. PICK s : IsSum(s, f, 0) /\ SumTo(f, 0) = s[0]
    BY SumExists, SumIsChosen
  <2> QED
    BY <2>1 DEF IsSum
<1>2. ASSUME NEW n \in Nat PROVE SumTo(f, n + 1) = f[n + 1] + SumTo(f, n)
  <2>1. PICK s : IsSum(s, f, n) /\ SumTo(f, n) = s[n]
    BY SumExists, SumIsChosen
  <2>2. n + 1 \in Nat /\ n + 1 # 0 /\ (n + 1) - 1 = n /\ n <= n + 1 /\ n <= n
    OBVIOUS
  <2>3. PICK t : IsSum(t, f, n + 1) /\ SumTo(f, n + 1) = t[n + 1]
    BY <2>2, SumExists, SumIsChosen
  <2>4. s[n] = t[n]
    BY <2>1, <2>2, <2>3, SumUnique
  <2>5. t[n + 1] = f[n + 1] + t[n]
    BY <2>2, <2>3 DEF IsSum
  <2> QED
    BY <2>1, <2>3, <2>4, <2>5
<1> QED
  BY <1>1, <1>2

-----------------------------------------------------------------------------
(* What follows by induction. *)

\* A sum of natural numbers is one, and no less than any of them.
LEMMA SumType ==
    ASSUME NEW n \in Nat, NEW f, \A i \in 0..n : f[i] \in Nat
    PROVE  SumTo(f, n) \in Nat /\ \A i \in 0..n : f[i] <= SumTo(f, n)
<1> DEFINE S == {k \in Nat : k <= n => /\ SumTo(f, k) \in Nat
                                       /\ \A i \in 0..k : f[i] <= SumTo(f, k)}
<1>1. 0 \in S
  <2>1. SumTo(f, 0) = f[0] /\ f[0] \in Nat
    BY SumStep
  <2> QED
    BY <2>1
<1>2. ASSUME NEW k \in Nat, k \in S PROVE k + 1 \in S
  <2> SUFFICES ASSUME k + 1 <= n
               PROVE  /\ SumTo(f, k + 1) \in Nat
                      /\ \A i \in 0..(k + 1) : f[i] <= SumTo(f, k + 1)
    OBVIOUS
  <2>1. f[k + 1] \in Nat /\ f[0] \in Nat /\ SumTo(f, k) \in Nat
        /\ \A i \in 0..k : f[i] <= SumTo(f, k) /\ f[i] \in Nat
    BY <1>2
  <2>2. SumTo(f, k + 1) = f[k + 1] + SumTo(f, k)
    BY <2>1, SumStep
  <2>3. \A i \in 0..(k + 1) : i = k + 1 \/ i \in 0..k
    OBVIOUS
  <2> QED
    BY <2>1, <2>2, <2>3
<1> HIDE DEF S
<1>3. n \in S
  BY <1>1, <1>2, SetInduction
<1> QED
  BY <1>3 DEF S

\* Sums of functions that differ at one place at most differ by what the
\* functions differ there.
LEMMA SumChange ==
    ASSUME NEW n \in Nat, NEW f, NEW g, NEW j \in 0..n,
           \A i \in 0..n : f[i] \in Nat /\ g[i] \in Nat,
           \A i \in 0..n : i # j => g[i] = f[i]
    PROVE  SumTo(g, n) + f[j] = SumTo(f, n) + g[j]
<1> DEFINE S == {k \in Nat : k <= n =>
                    IF k < j THEN SumTo(g, k) = SumTo(f, k)
                             ELSE SumTo(g, k) + f[j] = SumTo(f, k) + g[j]}
<1>0. f[0] \in Nat /\ g[0] \in Nat
  OBVIOUS
<1>1. 0 \in S
  <2>1. SumTo(f, 0) = f[0] /\ SumTo(g, 0) = g[0]
    BY <1>0, SumStep
  <2> QED
    BY <1>0, <2>1
<1>2. ASSUME NEW k \in Nat, k \in S PROVE k + 1 \in S
  <2> SUFFICES ASSUME k + 1 <= n
               PROVE  IF k + 1 < j THEN SumTo(g, k + 1) = SumTo(f, k + 1)
                      ELSE SumTo(g, k + 1) + f[j] = SumTo(f, k + 1) + g[j]
    OBVIOUS
  <2>1. SumTo(f, k + 1) = f[k + 1] + SumTo(f, k)
        /\ SumTo(g, k + 1) = g[k + 1] + SumTo(g, k)
    BY <1>0, SumStep
  <2>2. SumTo(f, k) \in Nat /\ SumTo(g, k) \in Nat
    BY SumType
  <2>3. f[k + 1] \in Nat /\ g[k + 1] \in Nat /\ f[j] \in Nat /\ g[j] \in Nat
        /\ (k + 1 # j => g[k + 1] = f[k + 1])
    OBVIOUS
  <2>4. IF k < j THEN SumTo(g, k) = SumTo(f, k)
                 ELSE SumTo(g, k) + f[j] = SumTo(f, k) + g[j]
    BY <1>2
  <2> QED
    BY <2>1, <2>2, <2>3, <2>4
<1> HIDE DEF S
<1>3. n \in S
  BY <1>1, <1>2, SetInduction
<1> QED
  BY <1>3 DEF S

\* A sum is no greater than that of a function with no smaller values.
LEMMA SumMonotone ==
    ASSUME NEW n \in Nat, NEW f, NEW g,
           \A i \in 0..n : f[i] \in Nat /\ g[i] \in Nat /\ f[i] <= g[i]
    PROVE  SumTo(f, n) <= SumTo(g, n)
<1> DEFINE S == {k \in Nat : k <= n => SumTo(f, k) <= SumTo(g, k)}
<1>0. f[0] \in Nat /\ g[0] \in Nat
  OBVIOUS
<1>1. 0 \in S
  <2>1. SumTo(f, 0) = f[0] /\ SumTo(g, 0) = g[0]
    BY <1>0, SumStep
  <2> QED
    BY <2>1
<1>2. ASSUME NEW k \in Nat, k \in S PROVE k + 1 \in S
  <2> SUFFICES ASSUME k + 1 <= n PROVE SumTo(f, k + 1) <= SumTo(g, k + 1)
    OBVIOUS
  <2>1. SumTo(f, k + 1) = f[k + 1] + SumTo(f, k)
        /\ SumTo(g, k + 1) = g[k + 1] + SumTo(g, k)
    BY <1>0, SumStep
  <2>2. SumTo(f, k) \in Nat /\ SumTo(g, k) \in Nat
    BY SumType
  <2>3. f[k + 1] \in Nat /\ g[k + 1] \in Nat /\ f[k + 1] <= g[k + 1]
        /\ SumTo(f, k) <= SumTo(g, k)
    BY <1>2
  <2> QED
    BY <2>1, <2>2, <2>3
<1> HIDE DEF S
<1>3. n \in S
  BY <1>1, <1>2, SetInduction
<1> QED
  BY <1>3 DEF S

\* The sum of nothing but zeros is zero.
LEMMA SumZero ==
    ASSUME NEW n \in Nat, NEW f, \A i \in 0..n : f[i] = 0
    PROVE  SumTo(f, n) = 0
<1> DEFINE S == {k \in Nat : k <= n => SumTo(f, k) = 0}
<1>0. f[0] = 0 /\ f[0] \in Nat
  OBVIOUS
<1>1. 0 \in S
  BY <1>0, SumStep
<1>2. ASSUME NEW k \in Nat, k \in S PROVE k + 1 \in S
  <2>1. SumTo(f, k + 1) = f[k + 1] + SumTo(f, k)
    BY <1>0, SumStep
  <2> QED
    BY <1>2, <2>1
<1> HIDE DEF S
<1>3. n \in S
  BY <1>1, <1>2, SetInduction
<1> QED
  BY <1>3 DEF S

=============================================================================
