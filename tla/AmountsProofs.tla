--------------------------- MODULE AmountsProofs ---------------------------
(* What is proved of the decisions about amounts: which holdings pay for a    *)
(* transfer, what a size costs a taker who cuts it, and how many of its rungs *)
(* the denomination ladder makes, in the agent and by the split commands.     *)
(* All are about sums over sets of any size, so the module first proves what  *)
(* those are, by an induction that is stated of a set.                        *)
EXTENDS InputChoice, Pricing, Ladder, SplitTool, Functions, FiniteSetTheorems, WellFoundedInduction, NaturalsInduction, TLAPS

-----------------------------------------------------------------------------
(* Induction, and sums over finite sets                                       *)

\* A nonempty set of naturals has a least element.
LEMMA LeastNat ==
  ASSUME NEW B \in SUBSET Nat, B # {}
  PROVE  \E n \in B : \A m \in B : n <= m
<1> DEFINE Less == {ss \in Nat \X Nat : ss[1] < ss[2]}
<1>1. IsWellFoundedOn(Less, Nat) BY NatLessThanWellFounded DEF OpToRel
<1> HIDE DEF Less
<1>2. PICK n \in B : \A m \in B : <<m, n>> \notin Less BY <1>1, WFMin
<1>3. \A m \in B : n <= m
  <2> TAKE m \in B
  <2>1. m \in Nat /\ n \in Nat /\ <<m, n>> \notin Less BY <1>2
  <2> QED BY <2>1 DEF Less
<1> QED BY <1>3

\* Induction over the naturals, about a set: the provers cannot instantiate an operator.
LEMMA NatSetInduction ==
  ASSUME NEW C, 0 \in C, \A n \in Nat : n \in C => n + 1 \in C
  PROVE  \A n \in Nat : n \in C
<1> DEFINE B == Nat \ C
<1>1. CASE B = {} BY <1>1
<1>2. CASE B # {}
  <2>1. PICK n \in B : \A m \in B : n <= m BY <1>2, LeastNat
  <2>2. n # 0 /\ n \in Nat BY <2>1
  <2>3. n - 1 \in Nat /\ n - 1 \notin B BY <2>1, <2>2
  <2>4. n - 1 \in C BY <2>3
  <2>5. (n - 1) + 1 \in C BY <2>3, <2>4
  <2> QED BY <2>1, <2>2, <2>5
<1> QED BY <1>1, <1>2

\* A set of n + 1 without one of its elements has n.
LEMMA OneLess ==
  ASSUME NEW S, IsFiniteSet(S), NEW x \in S, NEW n \in Nat, Cardinality(S) = n + 1
  PROVE  Cardinality(S \ {x}) = n
<1>1. Cardinality(S \ {x}) = Cardinality(S) - 1 BY FS_RemoveElement
<1> QED BY <1>1

\* Induction over the parts of a finite set, about a set of them.
LEMMA FiniteSetInduction ==
  ASSUME NEW S, IsFiniteSet(S), NEW C, {} \in C,
         \A T \in SUBSET S, x \in S : T \in C => T \cup {x} \in C
  PROVE  S \in C
<1> DEFINE N == {n \in Nat : \A T \in SUBSET S : Cardinality(T) = n => T \in C}
<1>1. 0 \in N
  <2> SUFFICES ASSUME NEW T \in SUBSET S, Cardinality(T) = 0 PROVE T \in C OBVIOUS
  <2> QED BY FS_Subset, FS_EmptySet
<1>2. ASSUME NEW n \in Nat, n \in N PROVE n + 1 \in N
  <2> SUFFICES ASSUME NEW T \in SUBSET S, Cardinality(T) = n + 1 PROVE T \in C OBVIOUS
  <2>1. IsFiniteSet(T) BY FS_Subset
  <2>2. T # {} BY FS_EmptySet
  <2>3. PICK x \in T : TRUE BY <2>2
  <2>4. Cardinality(T \ {x}) = n BY <2>1, OneLess
  <2>5. T \ {x} \in C BY <2>4, <1>2
  <2>6. (T \ {x}) \cup {x} \in C BY <2>5, <2>3
  <2> QED BY <2>6, <2>3, Zenon
<1> HIDE DEF N
<1>3. \A n \in Nat : n \in N BY <1>1, <1>2, NatSetInduction
<1>4. Cardinality(S) \in Nat BY FS_CardinalityType
<1> QED BY <1>3, <1>4 DEF N

\* The recursion of SumFunctionOnSet, spelled out.
Pick(s) == CHOOSE x \in s : TRUE
Step(g, f, s) == IF s = {} THEN 0 ELSE f[Pick(s)] + g[s \ {Pick(s)}]
IsSum(g, f, S) == g = [s \in SUBSET S |-> IF s = {} THEN 0 ELSE f[Pick(s)] + g[s \ {Pick(s)}]]
\* The values that are summed are integers.
Ints(f, S) == \A x \in S : f[x] \in Int

\* What SumFunctionOnSet is: the value at S of a function that is its own recursion.
LEMMA SumIs == \A S, f : SumFunctionOnSet(f, S) = (CHOOSE g : IsSum(g, f, S))[S]
BY DEF SumFunctionOnSet, FoldFunctionOnSet, MapThenFoldSet, IsSum, Pick

\* The element that the recursion takes out first is one of the set.
LEMMA PickIn == \A s : s # {} => Pick(s) \in s
BY DEF Pick

\* Such a function exists, by induction over the size of the sets it is defined on.
LEMMA SumExists ==
  ASSUME NEW S, IsFiniteSet(S), NEW f, Ints(f, S)
  PROVE  \E g : IsSum(g, f, S) /\ g \in [SUBSET S -> Int]
<1> DEFINE Upto(h, n) == \A s \in SUBSET S : Cardinality(s) <= n => h[s] = Step(h, f, s)
           N == {n \in Nat : \E h \in [SUBSET S -> Int] : Upto(h, n)}
<1>1. 0 \in N
  <2> DEFINE h == [s \in SUBSET S |-> 0]
  <2>1. h \in [SUBSET S -> Int] OBVIOUS
  <2>2. ASSUME NEW s \in SUBSET S, Cardinality(s) <= 0 PROVE h[s] = Step(h, f, s)
    <3>1. s = {} BY <2>2, FS_Subset, FS_EmptySet, FS_CardinalityType
    <3> QED BY <3>1 DEF Step
  <2> QED BY <2>1, <2>2
<1>2. ASSUME NEW n \in Nat, n \in N PROVE n + 1 \in N
  <2>1. PICK h \in [SUBSET S -> Int] : Upto(h, n) BY <1>2
  <2> DEFINE k == [s \in SUBSET S |-> Step(h, f, s)]
  <2>2. k \in [SUBSET S -> Int]
    <3> SUFFICES ASSUME NEW s \in SUBSET S PROVE Step(h, f, s) \in Int OBVIOUS
    <3> QED BY <2>1, PickIn DEF Step, Ints
  <2>3. ASSUME NEW s \in SUBSET S, Cardinality(s) <= n + 1 PROVE k[s] = Step(k, f, s)
    <3>1. CASE s = {} BY <3>1 DEF Step
    <3>2. CASE s # {}
      <4> DEFINE t == s \ {Pick(s)}
      <4>1. t \in SUBSET S OBVIOUS
      <4>2. IsFiniteSet(s) BY FS_Subset
      <4>3. Cardinality(t) = Cardinality(s) - 1 /\ Cardinality(s) \in Nat BY <4>2, <3>2, PickIn, FS_RemoveElement, FS_CardinalityType
      <4>4. h[t] = Step(h, f, t) BY <4>1, <4>3, <2>1, <2>3
      <4>5. k[t] = h[t] BY <4>1, <4>4
      <4>6. k[s] = f[Pick(s)] + h[t] BY <3>2 DEF Step
      <4> QED BY <4>5, <4>6, <3>2 DEF Step
    <3> QED BY <3>1, <3>2
  <2>4. Upto(k, n + 1) BY <2>3
  <2> HIDE DEF k, Upto
  <2> QED BY <2>2, <2>4
<1> HIDE DEF N
<1>3. \A n \in Nat : n \in N BY <1>1, <1>2, NatSetInduction
<1>4. Cardinality(S) \in N BY <1>3, FS_CardinalityType
<1>5. PICK h \in [SUBSET S -> Int] : Upto(h, Cardinality(S)) BY <1>4 DEF N
<1>6. \A s \in SUBSET S : h[s] = Step(h, f, s) BY <1>5, FS_Subset
<1>7. h = [s \in SUBSET S |-> Step(h, f, s)] BY <1>6
<1>8. IsSum(h, f, S) BY <1>7 DEF IsSum, Step
<1> QED BY <1>8

\* And it is the only one, however large the set it was defined for.
LEMMA SumUnique ==
  ASSUME NEW S, IsFiniteSet(S), NEW T \in SUBSET S, NEW f, NEW g, NEW h,
         IsSum(g, f, S), IsSum(h, f, T)
  PROVE  g[T] = h[T]
<1> DEFINE N == {n \in Nat : \A s \in SUBSET T : Cardinality(s) = n => g[s] = h[s]}
<1>0. \A s \in SUBSET T : s \in SUBSET S /\ IsFiniteSet(s) BY FS_Subset
<1>1. 0 \in N
  <2> SUFFICES ASSUME NEW s \in SUBSET T, Cardinality(s) = 0 PROVE g[s] = h[s] OBVIOUS
  <2>1. s = {} /\ s \in SUBSET S BY <1>0, FS_EmptySet
  <2>2. g[s] = 0 BY <2>1 DEF IsSum
  <2>3. h[s] = 0 BY <2>1 DEF IsSum
  <2> QED BY <2>2, <2>3
<1>2. ASSUME NEW n \in Nat, n \in N PROVE n + 1 \in N
  <2> SUFFICES ASSUME NEW s \in SUBSET T, Cardinality(s) = n + 1 PROVE g[s] = h[s] OBVIOUS
  <2> DEFINE t == s \ {Pick(s)}
  <2>1. s # {} BY FS_EmptySet
  <2>2. Cardinality(t) = n /\ t \in SUBSET T BY <2>1, <1>0, PickIn, OneLess
  <2>3. g[t] = h[t] BY <2>2, <1>2
  <2>4. g[s] = f[Pick(s)] + g[t] BY <2>1, <1>0 DEF IsSum
  <2>5. h[s] = f[Pick(s)] + h[t] BY <2>1 DEF IsSum
  <2> QED BY <2>3, <2>4, <2>5
<1> HIDE DEF N
<1>3. \A n \in Nat : n \in N BY <1>1, <1>2, NatSetInduction
<1>4. Cardinality(T) \in N BY <1>0, <1>3, FS_CardinalityType
<1> QED BY <1>4 DEF N

\* So the sum unfolds by the element that the recursion takes.
LEMMA SumStep ==
  ASSUME NEW S, IsFiniteSet(S), NEW f, Ints(f, S)
  PROVE  /\ SumFunctionOnSet(f, S) \in Int
         /\ S = {} => SumFunctionOnSet(f, S) = 0
         /\ S # {} => SumFunctionOnSet(f, S) = f[Pick(S)] + SumFunctionOnSet(f, S \ {Pick(S)})
<1> DEFINE g == CHOOSE k : IsSum(k, f, S)
           h == CHOOSE k : IsSum(k, f, S \ {Pick(S)})
<1>1. IsSum(g, f, S) BY SumExists
<1>2. IsSum(h, f, S \ {Pick(S)})
  <2>1. IsFiniteSet(S \ {Pick(S)}) /\ Ints(f, S \ {Pick(S)}) BY FS_Subset DEF Ints
  <2>2. \E k : IsSum(k, f, S \ {Pick(S)}) BY <2>1, SumExists
  <2> QED BY <2>2
<1>3. SumFunctionOnSet(f, S) = g[S] /\ SumFunctionOnSet(f, S \ {Pick(S)}) = h[S \ {Pick(S)}] BY SumIs
<1> HIDE DEF g, h
<1>4. S = {} => g[S] = 0 BY <1>1 DEF IsSum
<1>5. S # {} => g[S] = f[Pick(S)] + g[S \ {Pick(S)}] BY <1>1 DEF IsSum
<1>6. g[S \ {Pick(S)}] = h[S \ {Pick(S)}] BY <1>1, <1>2, SumUnique
<1>7. g[S] \in Int
  <2>1. PICK k \in [SUBSET S -> Int] : IsSum(k, f, S) BY SumExists
  <2>2. g[S] = k[S] BY <2>1, <1>1, SumUnique
  <2> QED BY <2>1, <2>2
<1> QED BY <1>3, <1>4, <1>5, <1>6, <1>7

\* And by any element: the sum does not depend on the order.
LEMMA SumAdd ==
  ASSUME NEW S, IsFiniteSet(S), NEW f, Ints(f, S), NEW x \in S
  PROVE  SumFunctionOnSet(f, S) = f[x] + SumFunctionOnSet(f, S \ {x})
<1> DEFINE Of(s) == SumFunctionOnSet(f, s)
           N == {n \in Nat : \A s \in SUBSET S, y \in S : Cardinality(s) = n /\ y \in s => Of(s) = f[y] + Of(s \ {y})}
<1>0. \A s \in SUBSET S : /\ IsFiniteSet(s) /\ Ints(f, s) /\ Of(s) \in Int
                          /\ s # {} => Of(s) = f[Pick(s)] + Of(s \ {Pick(s)})
  <2> TAKE s \in SUBSET S
  <2>1. IsFiniteSet(s) /\ Ints(f, s) BY FS_Subset DEF Ints
  <2> QED BY <2>1, SumStep
<1>1. 0 \in N
  <2> SUFFICES ASSUME NEW s \in SUBSET S, NEW y \in s, Cardinality(s) = 0 PROVE FALSE OBVIOUS
  <2> QED BY <1>0, FS_EmptySet
<1> HIDE DEF Of
<1>2. ASSUME NEW n \in Nat, n \in N PROVE n + 1 \in N
  <2> SUFFICES ASSUME NEW s \in SUBSET S, NEW y \in s, Cardinality(s) = n + 1 PROVE Of(s) = f[y] + Of(s \ {y}) OBVIOUS
  <2> DEFINE p == Pick(s)
  <2>1. p \in s /\ Of(s) = f[p] + Of(s \ {p}) BY <1>0, PickIn
  <2>2. CASE y = p BY <2>1, <2>2
  <2>3. CASE y # p
    <3>1. Cardinality(s \ {p}) = n /\ Cardinality(s \ {y}) = n BY <1>0, <2>1, OneLess
    <3>2. y \in s \ {p} /\ p \in s \ {y} /\ y \in S /\ p \in S BY <2>1, <2>3
    <3>3. Of(s \ {p}) = f[y] + Of((s \ {p}) \ {y}) BY <3>1, <3>2, <1>2
    <3>4. Of(s \ {y}) = f[p] + Of((s \ {y}) \ {p}) BY <3>1, <3>2, <1>2
    <3>5. (s \ {p}) \ {y} = (s \ {y}) \ {p} OBVIOUS
    <3>6. f[p] \in Int /\ f[y] \in Int /\ Of((s \ {y}) \ {p}) \in Int BY <3>2, <1>0 DEF Ints
    <3>7. Of(s) = f[p] + (f[y] + Of((s \ {y}) \ {p})) BY <2>1, <3>3, <3>5
    <3>8. Of(s) = f[y] + (f[p] + Of((s \ {y}) \ {p})) BY ONLY <3>6, <3>7
    <3> QED BY <3>8, <3>4
  <2> QED BY <2>2, <2>3
<1> HIDE DEF N
<1>3. \A n \in Nat : n \in N BY <1>1, <1>2, NatSetInduction
<1>4. Cardinality(S) \in N BY <1>3, FS_CardinalityType
<1> QED BY <1>4 DEF N, Of

\* The sum over a part, and with one more element.
LEMMA SumSub ==
  ASSUME NEW S, IsFiniteSet(S), NEW f, Ints(f, S), NEW T \in SUBSET S
  PROVE  /\ IsFiniteSet(T) /\ Ints(f, T) /\ SumFunctionOnSet(f, T) \in Int
         /\ \A x \in S \ T : SumFunctionOnSet(f, T \cup {x}) = f[x] + SumFunctionOnSet(f, T)
<1>1. IsFiniteSet(T) /\ Ints(f, T) BY FS_Subset DEF Ints
<1>2. SumFunctionOnSet(f, T) \in Int BY <1>1, SumStep
<1>3. ASSUME NEW x \in S \ T PROVE SumFunctionOnSet(f, T \cup {x}) = f[x] + SumFunctionOnSet(f, T)
  <2>1. IsFiniteSet(T \cup {x}) /\ Ints(f, T \cup {x}) BY FS_Subset DEF Ints
  <2>2. SumFunctionOnSet(f, T \cup {x}) = f[x] + SumFunctionOnSet(f, (T \cup {x}) \ {x}) BY <2>1, SumAdd
  <2>3. (T \cup {x}) \ {x} = T OBVIOUS
  <2> QED BY <2>2, <2>3
<1> QED BY <1>1, <1>2, <1>3

\* Of nothing the sum is 0.
LEMMA SumEmpty == \A f : SumFunctionOnSet(f, {}) = 0
BY SumStep, FS_EmptySet DEF Ints

\* Of one element the sum is its value.
LEMMA SumOne == \A f, c : f[c] \in Int => SumFunctionOnSet(f, {c}) = f[c]
<1> SUFFICES ASSUME NEW f, NEW c, f[c] \in Int PROVE SumFunctionOnSet(f, {c}) = f[c] OBVIOUS
<1>1. IsFiniteSet({c}) /\ Ints(f, {c}) BY FS_Singleton DEF Ints
<1>2. SumFunctionOnSet(f, {c}) = f[c] + SumFunctionOnSet(f, {c} \ {c}) BY <1>1, SumAdd
<1>3. {c} \ {c} = {} OBVIOUS
<1> QED BY <1>2, <1>3, SumEmpty

\* A sum over a set is the sum over its parts.
LEMMA SumParts ==
  ASSUME NEW S, IsFiniteSet(S), NEW f, Ints(f, S), NEW A \in SUBSET S
  PROVE  SumFunctionOnSet(f, S) = SumFunctionOnSet(f, A) + SumFunctionOnSet(f, S \ A)
<1> DEFINE C == {T \in SUBSET (S \ A) : SumFunctionOnSet(f, A \cup T) = SumFunctionOnSet(f, A) + SumFunctionOnSet(f, T)}
<1>0. \A T \in SUBSET S : SumFunctionOnSet(f, T) \in Int BY SumSub
<1>1. {} \in C
  <2>1. SumFunctionOnSet(f, {}) = 0 /\ SumFunctionOnSet(f, A) \in Int BY SumEmpty, <1>0
  <2>2. A \cup {} = A OBVIOUS
  <2> QED BY <2>1, <2>2
<1>2. ASSUME NEW T \in SUBSET (S \ A), NEW x \in S \ A, T \in C PROVE T \cup {x} \in C
  <2>1. CASE x \in T
    <3>1. T \cup {x} = T BY <2>1
    <3> QED BY <3>1, <1>2, Zenon
  <2>2. CASE x \notin T
    <3>1. SumFunctionOnSet(f, A \cup T) = SumFunctionOnSet(f, A) + SumFunctionOnSet(f, T) BY <1>2
    <3>2. SumFunctionOnSet(f, (A \cup T) \cup {x}) = f[x] + SumFunctionOnSet(f, A \cup T)
      <4>1. A \cup T \in SUBSET S /\ x \in S \ (A \cup T) BY <2>2
      <4> HIDE DEF C
      <4> QED BY <4>1, SumSub
    <3>3. SumFunctionOnSet(f, T \cup {x}) = f[x] + SumFunctionOnSet(f, T)
      <4>1. T \in SUBSET S /\ x \in S \ T BY <2>2
      <4> HIDE DEF C
      <4> QED BY <4>1, SumSub
    <3>4. (A \cup T) \cup {x} = A \cup (T \cup {x}) OBVIOUS
    <3>5. f[x] \in Int /\ SumFunctionOnSet(f, A) \in Int /\ SumFunctionOnSet(f, T) \in Int BY <1>0 DEF Ints
    <3>6. SumFunctionOnSet(f, A \cup (T \cup {x})) = f[x] + (SumFunctionOnSet(f, A) + SumFunctionOnSet(f, T)) BY <3>1, <3>2, <3>4
    <3>7. SumFunctionOnSet(f, A \cup (T \cup {x})) = SumFunctionOnSet(f, A) + (f[x] + SumFunctionOnSet(f, T)) BY ONLY <3>5, <3>6
    <3>8. SumFunctionOnSet(f, A \cup (T \cup {x})) = SumFunctionOnSet(f, A) + SumFunctionOnSet(f, T \cup {x}) BY <3>7, <3>3
    <3>9. T \cup {x} \in SUBSET (S \ A) OBVIOUS
    <3> QED BY <3>8, <3>9
  <2> QED BY <2>1, <2>2
<1>3. IsFiniteSet(S \ A) BY FS_Subset
<1> HIDE DEF C
<1>4. S \ A \in C BY <1>1, <1>2, <1>3, FiniteSetInduction
<1>5. SumFunctionOnSet(f, A \cup (S \ A)) = SumFunctionOnSet(f, A) + SumFunctionOnSet(f, S \ A) BY <1>4 DEF C
<1>6. A \cup (S \ A) = S OBVIOUS
<1> QED BY <1>5, <1>6

\* A sum lies between as many times the least and the most of what is summed.
LEMMA SumBounds ==
  ASSUME NEW S, IsFiniteSet(S), NEW f, Ints(f, S), NEW m \in Int
  PROVE  /\ (\A x \in S : f[x] <= m) => SumFunctionOnSet(f, S) <= m * Cardinality(S)
         /\ (\A x \in S : f[x] >= m) => SumFunctionOnSet(f, S) >= m * Cardinality(S)
<1> DEFINE C == {T \in SUBSET S : /\ (\A x \in S : f[x] <= m) => SumFunctionOnSet(f, T) <= m * Cardinality(T)
                                  /\ (\A x \in S : f[x] >= m) => SumFunctionOnSet(f, T) >= m * Cardinality(T)}
<1>1. {} \in C
  <2>1. SumFunctionOnSet(f, {}) = 0 /\ Cardinality({}) = 0 /\ m * 0 = 0 BY SumEmpty, FS_EmptySet
  <2> QED BY <2>1
<1>2. ASSUME NEW T \in SUBSET S, NEW x \in S, T \in C PROVE T \cup {x} \in C
  <2>1. CASE x \in T
    <3>1. T \cup {x} = T BY <2>1
    <3> QED BY <3>1, <1>2, Zenon
  <2>2. CASE x \notin T
    <3>1. SumFunctionOnSet(f, T \cup {x}) = f[x] + SumFunctionOnSet(f, T) /\ SumFunctionOnSet(f, T) \in Int
      <4> HIDE DEF C
      <4> QED BY <2>2, SumSub
    <3>2. Cardinality(T \cup {x}) = Cardinality(T) + 1 /\ Cardinality(T) \in Nat
      BY <2>2, FS_Subset, FS_AddElement, FS_CardinalityType
    <3>3. m * (Cardinality(T) + 1) = m * Cardinality(T) + m BY ONLY <3>2, m \in Int
    <3>4. f[x] \in Int /\ m * Cardinality(T) \in Int BY <3>2 DEF Ints
    <3>5. (\A y \in S : f[y] <= m) => SumFunctionOnSet(f, T \cup {x}) <= m * Cardinality(T \cup {x})
      <4> SUFFICES ASSUME \A y \in S : f[y] <= m PROVE f[x] + SumFunctionOnSet(f, T) <= m * Cardinality(T) + m BY <3>1, <3>2, <3>3
      <4>1. f[x] <= m /\ SumFunctionOnSet(f, T) <= m * Cardinality(T) BY <1>2
      <4> HIDE DEF C
      <4> QED BY <4>1, <3>1, <3>4
    <3>6. (\A y \in S : f[y] >= m) => SumFunctionOnSet(f, T \cup {x}) >= m * Cardinality(T \cup {x})
      <4> SUFFICES ASSUME \A y \in S : f[y] >= m PROVE f[x] + SumFunctionOnSet(f, T) >= m * Cardinality(T) + m BY <3>1, <3>2, <3>3
      <4>1. f[x] >= m /\ SumFunctionOnSet(f, T) >= m * Cardinality(T) BY <1>2
      <4> HIDE DEF C
      <4> QED BY <4>1, <3>1, <3>4
    <3> QED BY <3>5, <3>6
  <2> QED BY <2>1, <2>2
<1> HIDE DEF C
<1>3. S \in C BY <1>1, <1>2, FiniteSetInduction
<1> QED BY <1>3 DEF C

\* A part of what is not negative sums to no more.
LEMMA SumGrows ==
  ASSUME NEW S, IsFiniteSet(S), NEW f, Ints(f, S), \A x \in S : f[x] >= 0, NEW A \in SUBSET S
  PROVE  SumFunctionOnSet(f, A) <= SumFunctionOnSet(f, S)
<1>1. SumFunctionOnSet(f, S) = SumFunctionOnSet(f, A) + SumFunctionOnSet(f, S \ A) BY SumParts
<1>2. SumFunctionOnSet(f, A) \in Int /\ SumFunctionOnSet(f, S \ A) \in Int BY SumSub
<1>3. SumFunctionOnSet(f, S \ A) >= 0
  <2>1. IsFiniteSet(S \ A) /\ Ints(f, S \ A) BY SumSub
  <2>2. SumFunctionOnSet(f, S \ A) >= 0 * Cardinality(S \ A) BY <2>1, SumBounds
  <2> QED BY <2>1, <2>2, FS_CardinalityType
<1> QED BY <1>1, <1>2, <1>3

-----------------------------------------------------------------------------
(* The choice of inputs                                                      *)

\* Of finitely many one is the largest and one is the smallest.
LEMMA LargestOne ==
  ASSUME NEW S, IsFiniteSet(S), NEW f, Ints(f, S), S # {}
  PROVE  /\ \E m \in S : \A x \in S : f[x] <= f[m]
         /\ \E m \in S : \A x \in S : f[x] >= f[m]
<1> DEFINE C == {T \in SUBSET S : T # {} => /\ \E m \in T : \A x \in T : f[x] <= f[m]
                                            /\ \E m \in T : \A x \in T : f[x] >= f[m]}
<1>1. {} \in C OBVIOUS
<1>2. ASSUME NEW T \in SUBSET S, NEW x \in S, T \in C PROVE T \cup {x} \in C
  <2>0. \A y \in S : f[y] \in Int BY DEF Ints
  <2>1. CASE T = {}
    <3>1. T \cup {x} = {x} /\ f[x] <= f[x] BY <2>1, <2>0
    <3> QED BY <3>1
  <2>2. CASE T # {}
    <3>1. PICK m \in T : \A y \in T : f[y] <= f[m] BY <2>2, <1>2
    <3>2. PICK l \in T : \A y \in T : f[y] >= f[l] BY <2>2, <1>2
    <3>3. \E n \in T \cup {x} : \A y \in T \cup {x} : f[y] <= f[n]
      <4>1. CASE f[x] <= f[m] BY <4>1, <3>1
      <4>2. CASE ~(f[x] <= f[m])
        <5>1. \A y \in T \cup {x} : f[y] <= f[x] BY <4>2, <3>1, <2>0
        <5> QED BY <5>1
      <4> QED BY <4>1, <4>2
    <3>4. \E n \in T \cup {x} : \A y \in T \cup {x} : f[y] >= f[n]
      <4>1. CASE f[x] >= f[l] BY <4>1, <3>2
      <4>2. CASE ~(f[x] >= f[l])
        <5>1. \A y \in T \cup {x} : f[y] >= f[x] BY <4>2, <3>2, <2>0
        <5> QED BY <5>1
      <4> QED BY <4>1, <4>2
    <3> QED BY <3>3, <3>4
  <2> QED BY <2>1, <2>2
<1> HIDE DEF C
<1>3. S \in C BY <1>1, <1>2, FiniteSetInduction
<1> QED BY <1>3 DEF C

\* The k largest exist: k of them, none smaller than one left out.
LEMMA LargestExists ==
  ASSUME NEW S, IsFiniteSet(S), NEW f, Ints(f, S), NEW k \in Nat, k <= Cardinality(S)
  PROVE  /\ Largest(S, f, k) \in SUBSET S /\ Cardinality(Largest(S, f, k)) = k
         /\ \A a \in Largest(S, f, k), b \in S \ Largest(S, f, k) : f[a] >= f[b]
<1> DEFINE Top(T) == \A a \in T, b \in S \ T : f[a] >= f[b]
           N == {n \in Nat : n <= Cardinality(S) => \E T \in SUBSET S : Cardinality(T) = n /\ Top(T)}
<1>1. 0 \in N
  <2>1. Cardinality({}) = 0 /\ {} \in SUBSET S /\ Top({}) BY FS_EmptySet
  <2> QED BY <2>1
<1>2. ASSUME NEW n \in Nat, n \in N PROVE n + 1 \in N
  <2> SUFFICES ASSUME n + 1 <= Cardinality(S) PROVE \E T \in SUBSET S : Cardinality(T) = n + 1 /\ Top(T) OBVIOUS
  <2>0. Cardinality(S) \in Nat BY FS_CardinalityType
  <2>1. PICK T \in SUBSET S : Cardinality(T) = n /\ Top(T) BY <1>2, <2>0
  <2>2. S \ T # {} BY <2>0, <2>1
  <2>3. IsFiniteSet(S \ T) /\ Ints(f, S \ T) /\ IsFiniteSet(T) BY FS_Subset DEF Ints
  <2>4. PICK m \in S \ T : \A x \in S \ T : f[x] <= f[m] BY <2>2, <2>3, LargestOne
  <2>5. Cardinality(T \cup {m}) = n + 1 BY <2>1, <2>3, <2>4, FS_AddElement
  <2>6. Top(T \cup {m})
    <3> SUFFICES ASSUME NEW a \in T \cup {m}, NEW b \in S \ (T \cup {m}) PROVE f[a] >= f[b] OBVIOUS
    <3>1. f[b] <= f[m] /\ f[b] \in Int /\ f[m] \in Int BY <2>4 DEF Ints
    <3>2. CASE a = m BY <3>1, <3>2
    <3>3. CASE a \in T BY <3>3, <2>1
    <3> QED BY <3>2, <3>3
  <2> QED BY <2>5, <2>6
<1> HIDE DEF N
<1>3. \A n \in Nat : n \in N BY <1>1, <1>2, NatSetInduction
<1>4. \E T \in SUBSET S : Cardinality(T) = k /\ Top(T) BY <1>3 DEF N
<1>5. \E T \in kSubset(k, S) : Top(T) BY <1>4 DEF kSubset
<1>6. Largest(S, f, k) \in kSubset(k, S) /\ Top(Largest(S, f, k)) BY <1>5 DEF Largest
<1> QED BY <1>6 DEF kSubset

\* As many of the largest sum to no less than as many others.
LEMMA LargestSum ==
  ASSUME NEW S, IsFiniteSet(S), NEW f, Ints(f, S), \A x \in S : f[x] >= 0,
         NEW U \in SUBSET S, NEW T \in SUBSET S, Cardinality(U) = Cardinality(T),
         \A a \in T, b \in S \ T : f[a] >= f[b]
  PROVE  SumFunctionOnSet(f, U) <= SumFunctionOnSet(f, T)
<1> DEFINE A == U \ T
           B == T \ U
           M == U \cap T
<1>1. /\ IsFiniteSet(A) /\ IsFiniteSet(B) /\ IsFiniteSet(U) /\ IsFiniteSet(T) /\ IsFiniteSet(M)
      /\ Ints(f, A) /\ Ints(f, B) /\ Ints(f, U) /\ Ints(f, T)
      /\ SumFunctionOnSet(f, A) \in Int /\ SumFunctionOnSet(f, B) \in Int /\ SumFunctionOnSet(f, M) \in Int
  BY SumSub
<1>2. SumFunctionOnSet(f, U) = SumFunctionOnSet(f, M) + SumFunctionOnSet(f, A)
  <2>1. SumFunctionOnSet(f, U) = SumFunctionOnSet(f, M) + SumFunctionOnSet(f, U \ M) BY <1>1, SumParts
  <2>2. U \ M = A OBVIOUS
  <2> QED BY <2>1, <2>2
<1>3. SumFunctionOnSet(f, T) = SumFunctionOnSet(f, M) + SumFunctionOnSet(f, B)
  <2>1. SumFunctionOnSet(f, T) = SumFunctionOnSet(f, M) + SumFunctionOnSet(f, T \ M) BY <1>1, SumParts
  <2>2. T \ M = B OBVIOUS
  <2> QED BY <2>1, <2>2
<1>4. Cardinality(A) = Cardinality(B) /\ Cardinality(A) \in Nat
  <2>1. Cardinality(A) = Cardinality(U) - Cardinality(U \cap T) BY <1>1, FS_Difference
  <2>2. Cardinality(B) = Cardinality(T) - Cardinality(T \cap U) BY <1>1, FS_Difference
  <2>3. T \cap U = U \cap T OBVIOUS
  <2>4. Cardinality(A) \in Nat BY <1>1, FS_CardinalityType
  <2> QED BY <2>1, <2>2, <2>3, <2>4
<1>5. CASE A = {}
  <2>1. B = {} BY <1>1, <1>4, <1>5, FS_EmptySet
  <2>2. SumFunctionOnSet(f, A) = 0 /\ SumFunctionOnSet(f, B) = 0 BY <1>5, <2>1, SumEmpty
  <2> QED BY <1>1, <1>2, <1>3, <2>2
<1>6. CASE A # {}
  <2>1. PICK m \in A : \A x \in A : f[x] <= f[m] BY <1>1, <1>6, LargestOne
  <2>2. f[m] \in Int /\ \A b \in B : f[b] >= f[m] BY <2>1 DEF Ints
  <2>3. SumFunctionOnSet(f, A) <= f[m] * Cardinality(A) BY <1>1, <2>1, <2>2, SumBounds
  <2>4. SumFunctionOnSet(f, B) >= f[m] * Cardinality(B) BY <1>1, <2>2, SumBounds
  <2>5. f[m] * Cardinality(A) \in Int BY <2>2, <1>4
  <2> HIDE DEF A, B, M
  <2>6. SumFunctionOnSet(f, A) <= SumFunctionOnSet(f, B) BY <2>3, <2>4, <2>5, <1>1, <1>4
  <2> QED BY <1>1, <1>2, <1>3, <2>6
<1> QED BY <1>5, <1>6

\* What Min of a nonempty set of naturals is.
LEMMA LeastOf ==
  ASSUME NEW K \in SUBSET Nat, K # {}
  PROVE  Min(K) \in K /\ \A k \in K : Min(K) <= k
<1>1. \E k \in K : \A l \in K : k <= l BY LeastNat
<1> QED BY <1>1 DEF Min

\* select_amulet_indices, whatever it is asked: the smallest one that covers alone, else
\* the fewest largest that do.
LEMMA Selects ==
  ASSUME NEW a \in Asked, asked = a
  PROVE  SelectionRight
<1> DEFINE S == a.from
           f == a.amount
           target == a.target
           picked == SelectAmulets(S, f, target)
           alone == {c \in S : f[c] >= target}
           enough == {k \in 1 .. Cardinality(S) : k <= MaxPicks /\ SumFunctionOnSet(f, Largest(S, f, k)) >= target}
           Good(T) == Cardinality(T) <= MaxPicks /\ SumFunctionOnSet(f, T) >= target
<1>1. /\ IsFiniteSet(S) /\ Ints(f, S) /\ (\A x \in S : f[x] >= 0)
      /\ target \in Nat /\ MaxPicks \in Nat \ {0} /\ Cardinality(S) \in Nat
  <2>1. /\ S \in SUBSET Holdings /\ f \in [Holdings -> 1 .. MaxAmount] /\ target \in 0 .. MaxAmount + 2 /\ MaxAmount \in Nat
    BY HoldingsAssumption DEF Asked
  <2>2. IsFiniteSet(S) BY <2>1, HoldingsAssumption, FS_Subset
  <2>3. \A x \in S : f[x] \in 1 .. MaxAmount BY <2>1
  <2>4. MaxPicks \in Nat \ {0} BY SelectionAssumption
  <2> HIDE DEF S, f, target
  <2> QED BY <2>1, <2>2, <2>3, <2>4, FS_CardinalityType DEF Ints
<1>2. /\ picked = IF target <= 0 THEN {}
                  ELSE IF alone # {} THEN {CHOOSE c \in alone : \A d \in alone : f[c] <= f[d]}
                  ELSE IF enough # {} THEN Largest(S, f, Min(enough)) ELSE {}
      /\ \A T : Good(T) <=> Covers(T)
  BY DEF SelectAmulets, Covers, Total
<1> HIDE DEF S, f, target, picked, alone, enough
\* Some set of k that covers the target is no better than the k largest.
<1>3. ASSUME NEW T \in SUBSET S, Good(T), target > 0
      PROVE  Cardinality(T) \in enough
  <2> DEFINE k == Cardinality(T)
  <2>1. IsFiniteSet(T) /\ k \in Nat /\ k <= Cardinality(S) BY <1>1, FS_Subset, FS_CardinalityType
  <2>2. k # 0
    <3> SUFFICES ASSUME k = 0 PROVE FALSE OBVIOUS
    <3>1. T = {} BY <2>1, FS_EmptySet
    <3>2. SumFunctionOnSet(f, T) = 0 BY <3>1, SumEmpty
    <3> QED BY <3>2, <1>3, <1>1
  <2>3. /\ Largest(S, f, k) \in SUBSET S /\ Cardinality(Largest(S, f, k)) = k
        /\ \A x \in Largest(S, f, k), y \in S \ Largest(S, f, k) : f[x] >= f[y]
    BY <1>1, <2>1, LargestExists
  <2>4. SumFunctionOnSet(f, T) <= SumFunctionOnSet(f, Largest(S, f, k))
    <3> HIDE DEF k
    <3>1. Cardinality(T) = k BY DEF k
    <3> QED BY <1>1, <2>3, <3>1, LargestSum
  <2>5. SumFunctionOnSet(f, T) \in Int /\ SumFunctionOnSet(f, Largest(S, f, k)) \in Int BY <1>1, <2>3, SumSub
  <2>6. SumFunctionOnSet(f, Largest(S, f, k)) >= target BY <2>4, <2>5, <1>3, <1>1
  <2> QED BY <2>6, <2>1, <2>2, <1>3, <1>1 DEF enough
<1>4. CASE target <= 0
  BY <1>1, <1>2, <1>4 DEF SelectionRight, picked, target, S, f
<1>5. CASE target > 0 /\ alone # {}
  <2> DEFINE c == CHOOSE x \in alone : \A y \in alone : f[x] <= f[y]
  <2>1. alone \in SUBSET S BY DEF alone
  <2>2. IsFiniteSet(alone) /\ Ints(f, alone) BY <1>1, <2>1, SumSub
  <2>3. \E x \in alone : \A y \in alone : f[y] >= f[x] BY <1>5, <2>2, LargestOne
  <2>4. \E x \in alone : \A y \in alone : f[x] <= f[y] BY <2>3, <2>2 DEF Ints
  <2>5. c \in alone BY <2>4
  <2>6. picked = {c} BY <1>2, <1>5, <1>1
  <2> HIDE DEF c
  <2>7. c \in S /\ f[c] >= target /\ f[c] \in Int BY <2>5, <1>1 DEF alone, Ints
  <2>8. SumFunctionOnSet(f, {c}) = f[c] BY <2>7, SumOne
  <2>9. Cardinality({c}) = 1 BY FS_Singleton
  <2>10. Good(picked) BY <2>6, <2>7, <2>8, <2>9, <1>1
  <2>11. \A T \in SUBSET S : Good(T) => Cardinality(picked) <= Cardinality(T)
    <3> SUFFICES ASSUME NEW T \in SUBSET S, Good(T) PROVE 1 <= Cardinality(T) BY <2>6, <2>9
    <3>1. Cardinality(T) \in enough BY <1>3, <1>5
    <3> QED BY <3>1 DEF enough
  <2>12. picked # {} /\ picked \subseteq S BY <2>6, <2>7
  <2> QED BY <2>10, <2>11, <2>12, <1>2 DEF SelectionRight, picked, S, f, target
<1>6. CASE target > 0 /\ alone = {} /\ enough # {}
  <2> DEFINE k == Min(enough)
  <2>1. enough \in SUBSET Nat BY <1>1 DEF enough
  <2>2. k \in enough /\ \A l \in enough : k <= l BY <1>6, <2>1, LeastOf
  <2>3. picked = Largest(S, f, k) BY <1>2, <1>6, <1>1
  <2> HIDE DEF k
  <2>4. k \in 1 .. Cardinality(S) /\ k <= MaxPicks /\ SumFunctionOnSet(f, Largest(S, f, k)) >= target BY <2>2 DEF enough
  <2>5. picked \in SUBSET S /\ Cardinality(picked) = k BY <2>3, <2>4, <1>1, LargestExists
  <2>6. Good(picked) BY <2>3, <2>4, <2>5
  <2>7. picked # {} BY <2>4, <2>5, FS_EmptySet
  <2>8. \A T \in SUBSET S : Good(T) => Cardinality(picked) <= Cardinality(T) BY <1>3, <1>6, <2>2, <2>5
  <2> QED BY <2>5, <2>6, <2>7, <2>8, <1>2 DEF SelectionRight, picked, S, f, target
<1>7. CASE target > 0 /\ alone = {} /\ enough = {}
  <2>1. picked = {} BY <1>2, <1>7, <1>1
  <2>2. \A T \in SUBSET S : ~Good(T) BY <1>3, <1>7
  <2> QED BY <2>1, <2>2, <1>2 DEF SelectionRight, picked, S, f, target
<1> QED BY <1>1, <1>4, <1>5, <1>6, <1>7

\* The choice of inputs is right for every set of holdings, every amount of each, every
\* target and every limit on the inputs: what is picked covers the target, no fewer
\* inputs would, and nothing is picked only when nothing would do.
THEOREM SelectionIsRight == ChoiceSpec => []SelectionRight
<1>1. ChoiceInit => asked \in Asked BY DEF ChoiceInit
<1>2. asked \in Asked /\ [FALSE]_asked => (asked \in Asked)' OBVIOUS
<1>3. asked \in Asked => SelectionRight BY Selects
<1> QED BY <1>1, <1>2, <1>3, PTL DEF ChoiceSpec

-----------------------------------------------------------------------------
(* The cost curve of the pool                                                 *)

\* Sums of functions that agree are equal.
LEMMA SumSame ==
  ASSUME NEW S, IsFiniteSet(S), NEW f, NEW g, Ints(f, S), \A x \in S : f[x] = g[x]
  PROVE  SumFunctionOnSet(f, S) = SumFunctionOnSet(g, S)
<1> DEFINE C == {T \in SUBSET S : SumFunctionOnSet(f, T) = SumFunctionOnSet(g, T)}
<1>0. Ints(g, S) BY DEF Ints
<1>1. {} \in C BY SumEmpty
<1>2. ASSUME NEW T \in SUBSET S, NEW x \in S, T \in C PROVE T \cup {x} \in C
  <2>1. CASE x \in T
    <3>1. T \cup {x} = T BY <2>1
    <3> QED BY <3>1, <1>2, Zenon
  <2>2. CASE x \notin T
    <3>0. SumFunctionOnSet(f, T) = SumFunctionOnSet(g, T) BY <1>2
    <3> HIDE DEF C
    <3>1. SumFunctionOnSet(f, T \cup {x}) = f[x] + SumFunctionOnSet(f, T) BY <2>2, SumSub
    <3>2. SumFunctionOnSet(g, T \cup {x}) = g[x] + SumFunctionOnSet(g, T) BY <1>0, <2>2, SumSub
    <3>3. SumFunctionOnSet(f, T \cup {x}) = SumFunctionOnSet(g, T \cup {x}) BY <3>0, <3>1, <3>2
    <3> QED BY <3>3 DEF C
  <2> QED BY <2>1, <2>2
<1> HIDE DEF C
<1>3. S \in C BY <1>1, <1>2, FiniteSetInduction
<1> QED BY <1>3 DEF C

\* Products, for steps in which the solver should see nothing else of them.
LEMMA Times ==
  /\ \A a, b, c \in Int : a <= b /\ c >= 0 => a * c <= b * c /\ c * a <= c * b
  /\ \A a, b, c \in Int : a * c <= b * c /\ c > 0 => a <= b
  /\ \A a, b \in Int : a * b \in Int
  /\ \A a, b \in Nat : a * b \in Nat
OBVIOUS

\* What remains of a divisor of the curve.
Part(s, u) == Even[s] \div (IF s = "buy" THEN Reserve - u ELSE Reserve + u)
Div(s, u) == IF s = "buy" THEN Reserve - u ELSE Reserve + u

\* The divisors of the curve divide Even.
LEMMA PartIs ==
  ASSUME NEW s \in Sides, NEW u \in 0 .. PoolCap
  PROVE  /\ Part(s, u) \in Nat /\ Div(s, u) \in Nat \ {0} /\ Even[s] \in Nat \ {0}
         /\ Part(s, u) * Div(s, u) = Even[s]
<1>1. Div(s, u) \in Nat \ {0} /\ Even[s] \in Nat \ {0} /\ Even[s] % Div(s, u) = 0
  <2>1. Reserve \in Nat /\ PoolCap \in Nat /\ PoolCap < Reserve /\ u \in Int /\ 0 <= u /\ u <= PoolCap BY PricingAssumption
  <2>2. Reserve - u \in Nat \ {0} /\ Reserve + u \in Nat \ {0} BY <2>1
  <2>3. Even["buy"] % (Reserve - u) = 0 /\ Even["sell"] % (Reserve + u) = 0 /\ Even[s] \in Nat \ {0} BY PricingAssumption
  <2> QED BY <2>2, <2>3 DEF Div, Sides
<1>2. \A n, d \in Nat \ {0} : n % d = 0 => n \div d \in Nat /\ (n \div d) * d = n
  OBVIOUS
<1>3. Part(s, u) = Even[s] \div Div(s, u) BY DEF Part, Div
<1> QED BY <1>1, <1>2, <1>3

\* The cost inside the pool fraction, without the cap.
LEMMA CostIs ==
  ASSUME NEW s \in Sides, NEW x \in 0 .. PoolCap
  PROVE  G(s, x) = x * x * Part(s, x)
<1>1. Least(x, PoolCap) = x BY PricingAssumption DEF Least
<1> QED BY <1>1 DEF G, Part

\* And as a sum whose only curved term is the part.
LEMMA CostForm ==
  ASSUME NEW s \in Sides, NEW x \in 0 .. PoolCap
  PROVE  /\ s = "buy" => G(s, x) = Reserve * Reserve * Part(s, x) - Reserve * Even[s] - x * Even[s]
         /\ s = "sell" => G(s, x) = Reserve * Reserve * Part(s, x) - Reserve * Even[s] + x * Even[s]
<1> DEFINE e == Part(s, x)
           n == Even[s]
           R == Reserve
<1>1. e \in Int /\ n \in Int /\ R \in Int /\ x \in Int /\ G(s, x) = x * x * e BY PartIs, CostIs, PricingAssumption
<1>2. s = "buy" => e * (R - x) = n BY PartIs DEF Div
<1>3. s = "sell" => e * (R + x) = n BY PartIs DEF Div, Sides
<1> HIDE DEF e, n, R
<1>4. \A a, b, c \in Int : /\ b * b * a = c * c * a - c * (a * (c - b)) - b * (a * (c - b))
                           /\ b * b * a = c * c * a - c * (a * (c + b)) + b * (a * (c + b))
  OBVIOUS
<1>5. s = "buy" => x * x * e = R * R * e - R * n - x * n BY <1>1, <1>2, <1>4
<1>6. s = "sell" => x * x * e = R * R * e - R * n + x * n BY <1>1, <1>3, <1>4
<1> QED BY <1>1, <1>5, <1>6 DEF e, n, R

\* The part grows on the buy side and shrinks on the sell side, in step with the rest.
LEMMA PartStep ==
  ASSUME NEW s \in Sides, NEW x \in 0 .. PoolCap, NEW q \in Nat, x + q <= PoolCap
  PROVE  /\ s = "buy" => (Part(s, x + q) - Part(s, x)) * (Reserve - x) = q * Part(s, x + q)
         /\ s = "sell" => (Part(s, x) - Part(s, x + q)) * (Reserve + x) = q * Part(s, x + q)
<1> DEFINE e == Part(s, x)
           f == Part(s, x + q)
           n == Even[s]
           R == Reserve
<1>0. x + q \in 0 .. PoolCap /\ x \in Int /\ q \in Int /\ R \in Int BY PricingAssumption
<1>1. e \in Int /\ f \in Int /\ n \in Int BY <1>0, PartIs
<1>2. s = "buy" => e * (R - x) = n /\ f * (R - (x + q)) = n BY <1>0, PartIs DEF Div
<1>3. s = "sell" => e * (R + x) = n /\ f * (R + (x + q)) = n BY <1>0, PartIs DEF Div, Sides
<1> HIDE DEF e, f, n, R
<1>4. s = "buy" => (f - e) * (R - x) = q * f
  <2> SUFFICES ASSUME e * (R - x) = n, f * (R - (x + q)) = n PROVE (f - e) * (R - x) = q * f BY <1>2
  <2>1. (f - e) * (R - x) = f * (R - (x + q)) + q * f - e * (R - x) BY ONLY <1>0, <1>1
  <2> QED BY <2>1, <1>0, <1>1
<1>5. s = "sell" => (e - f) * (R + x) = q * f
  <2> SUFFICES ASSUME e * (R + x) = n, f * (R + (x + q)) = n PROVE (e - f) * (R + x) = q * f BY <1>3
  <2>1. (e - f) * (R + x) = e * (R + x) - f * (R + (x + q)) + q * f BY ONLY <1>0, <1>1
  <2> QED BY <2>1, <1>0, <1>1
<1> QED BY <1>4, <1>5 DEF e, f, R

\* The part grows with the position on the buy side and shrinks on the sell side.
LEMMA PartMoves ==
  ASSUME NEW s \in Sides, NEW x \in 0 .. PoolCap, NEW y \in 0 .. PoolCap, x <= y
  PROVE  /\ s = "buy" => Part(s, x) <= Part(s, y)
         /\ s = "sell" => Part(s, y) <= Part(s, x)
<1> DEFINE e == Part(s, x)
           f == Part(s, y)
           q == y - x
<1>0. q \in Nat /\ x + q = y /\ Reserve \in Nat /\ x \in Nat /\ Reserve - x > 0 /\ Reserve + x > 0 BY PricingAssumption
<1>1. e \in Nat /\ f \in Nat BY PartIs
<1>2. /\ s = "buy" => (f - e) * (Reserve - x) = q * f
      /\ s = "sell" => (e - f) * (Reserve + x) = q * f
  BY <1>0, PartStep
<1> HIDE DEF e, f, q
<1>3. q * f >= 0 BY <1>0, <1>1
<1>4. s = "buy" => f - e >= 0
  <2> SUFFICES ASSUME (f - e) * (Reserve - x) >= 0 PROVE f - e >= 0 BY <1>2, <1>3
  <2>1. \A a, b \in Int : a * b >= 0 /\ b > 0 => a >= 0 OBVIOUS
  <2> QED BY <2>1, <1>0, <1>1
<1>5. s = "sell" => e - f >= 0
  <2> SUFFICES ASSUME (e - f) * (Reserve + x) >= 0 PROVE e - f >= 0 BY <1>2, <1>3
  <2>1. \A a, b \in Int : a * b >= 0 /\ b > 0 => a >= 0 OBVIOUS
  <2> QED BY <2>1, <1>0, <1>1
<1> QED BY <1>1, <1>4, <1>5 DEF e, f

\* Moving more through the pool costs no less.
LEMMA CostGrows ==
  ASSUME NEW s \in Sides, NEW x \in 0 .. PoolCap, NEW y \in 0 .. PoolCap, x <= y
  PROVE  /\ G(s, x) \in Nat /\ G(s, y) \in Nat /\ G(s, 0) = 0
         /\ G(s, x) <= G(s, y)
<1> DEFINE e == Part(s, x)
           f == Part(s, y)
           n == Even[s]
           R == Reserve
<1>1. /\ e \in Nat /\ f \in Nat /\ n \in Nat /\ R \in Nat /\ x \in Nat /\ y \in Nat
      /\ G(s, x) = x * x * e /\ G(s, y) = y * y * f
  BY PartIs, CostIs, PricingAssumption
<1>2. G(s, 0) = 0
  <2>1. 0 \in 0 .. PoolCap /\ G(s, 0) = 0 * 0 * Part(s, 0) BY <1>1, PricingAssumption, CostIs
  <2> QED BY <2>1, PartIs
<1>3. s = "buy" => e <= f BY PartMoves
<1>4. s = "sell" => f <= e /\ e * (R + x) = n /\ f * (R + y) = n BY PartMoves, PartIs DEF Div, Sides
<1> HIDE DEF e, f, n, R
<1>5. x * e <= y * f
  <2>1. CASE s = "buy"
    <3>1. x * e <= x * f /\ x * f <= y * f BY <2>1, <1>1, <1>3
    <3>2. x * e \in Int /\ x * f \in Int /\ y * f \in Int BY <1>1
    <3> QED BY <3>1, <3>2
  <2>2. CASE s = "sell"
    <3>1. x * e = n - R * e /\ y * f = n - R * f BY <2>2, <1>1, <1>4
    <3>2. R * f <= R * e BY <2>2, <1>1, <1>4
    <3>3. R * f \in Int /\ R * e \in Int BY <1>1
    <3> QED BY <3>1, <3>2, <3>3, <1>1
  <2> QED BY <2>1, <2>2 DEF Sides
<1>6. x * (x * e) <= x * (y * f) /\ x * (y * f) <= y * (y * f)
  <2>1. x * e \in Nat /\ y * f \in Nat BY <1>1
  <2> QED BY <2>1, <1>1, <1>5
<1>7. x * x * e = x * (x * e) /\ y * y * f = y * (y * f) BY <1>1
<1>8. x * (x * e) \in Nat /\ x * (y * f) \in Nat /\ y * (y * f) \in Nat BY <1>1
<1> QED BY <1>1, <1>2, <1>6, <1>7, <1>8

\* The further a move starts from the middle, the more it costs.
LEMMA CostConvex ==
  ASSUME NEW s \in Sides, NEW a \in Nat, NEW b \in Nat, NEW q \in Nat, a <= b, b + q <= PoolCap
  PROVE  G(s, a + q) - G(s, a) <= G(s, b + q) - G(s, b)
<1> DEFINE ea == Part(s, a)
           eb == Part(s, b)
           fa == Part(s, a + q)
           fb == Part(s, b + q)
           R == Reserve
           n == Even[s]
<1>0. /\ a \in 0 .. PoolCap /\ b \in 0 .. PoolCap /\ a + q \in 0 .. PoolCap /\ b + q \in 0 .. PoolCap /\ a + q <= b + q
      /\ a + q <= PoolCap /\ R \in Nat /\ R - b > 0 /\ R - a > 0 /\ R + a > 0
  BY PricingAssumption
<1>1. ea \in Nat /\ eb \in Nat /\ fa \in Nat /\ fb \in Nat /\ n \in Nat BY <1>0, PartIs
<1>2. CASE s = "buy"
  <2>1. /\ (fa - ea) * (R - a) = q * fa /\ (fb - eb) * (R - b) = q * fb /\ fa <= fb
    BY <1>0, <1>2, PartStep, PartMoves
  <2>2. /\ G(s, a) = R * R * ea - R * n - a * n /\ G(s, a + q) = R * R * fa - R * n - (a + q) * n
        /\ G(s, b) = R * R * eb - R * n - b * n /\ G(s, b + q) = R * R * fb - R * n - (b + q) * n
    BY <1>0, <1>2, CostForm
  <2>3. ea <= fa /\ eb <= fb /\ R * R \in Nat BY <1>0, <1>2, PartMoves
  <2> HIDE DEF ea, eb, fa, fb, R, n
  <2>4. fa - ea <= fb - eb
    <3>1. (fa - ea) * (R - b) <= (fa - ea) * (R - a) BY <1>0, <1>1, <2>3
    <3>2. q * fa <= q * fb BY <1>1, <2>1
    <3>3. (fa - ea) * (R - b) <= (fb - eb) * (R - b) BY <3>1, <3>2, <2>1, <1>0, <1>1
    <3>4. fa - ea \in Int /\ fb - eb \in Int /\ R - b \in Int /\ R - b > 0 BY <1>0, <1>1
    <3> QED BY <3>3, <3>4, Times
  <2>5. (R * R) * (fa - ea) <= (R * R) * (fb - eb) BY <2>4, <2>3, <1>1
  <2>6. G(s, a + q) - G(s, a) = (R * R) * (fa - ea) - q * n BY <2>2, <1>0, <1>1
  <2>7. G(s, b + q) - G(s, b) = (R * R) * (fb - eb) - q * n BY <2>2, <1>0, <1>1
  <2>8. (R * R) * (fa - ea) \in Int /\ (R * R) * (fb - eb) \in Int /\ q * n \in Int BY <2>3, <1>1
  <2> QED BY <2>5, <2>6, <2>7, <2>8
<1>3. CASE s = "sell"
  <2>1. /\ (ea - fa) * (R + a) = q * fa /\ (eb - fb) * (R + b) = q * fb /\ fb <= fa
    BY <1>0, <1>3, PartStep, PartMoves
  <2>2. /\ G(s, a) = R * R * ea - R * n + a * n /\ G(s, a + q) = R * R * fa - R * n + (a + q) * n
        /\ G(s, b) = R * R * eb - R * n + b * n /\ G(s, b + q) = R * R * fb - R * n + (b + q) * n
    BY <1>0, <1>3, CostForm
  <2>3. fa <= ea /\ fb <= eb /\ R * R \in Nat BY <1>0, <1>3, PartMoves
  <2> HIDE DEF ea, eb, fa, fb, R, n
  <2>4. eb - fb <= ea - fa
    <3>1. (ea - fa) * (R + a) <= (ea - fa) * (R + b) BY <1>0, <1>1, <2>3
    <3>2. q * fb <= q * fa BY <1>1, <2>1
    <3>3. (eb - fb) * (R + b) <= (ea - fa) * (R + b) BY <3>1, <3>2, <2>1, <1>0, <1>1
    <3>4. ea - fa \in Int /\ eb - fb \in Int /\ R + b \in Int /\ R + b > 0 BY <1>0, <1>1
    <3> QED BY <3>3, <3>4, Times
  <2>5. (R * R) * (eb - fb) <= (R * R) * (ea - fa) BY <2>4, <2>3, <1>1
  <2>6. G(s, a + q) - G(s, a) = q * n - (R * R) * (ea - fa) BY <2>2, <1>0, <1>1
  <2>7. G(s, b + q) - G(s, b) = q * n - (R * R) * (eb - fb) BY <2>2, <1>0, <1>1
  <2>8. (R * R) * (ea - fa) \in Int /\ (R * R) * (eb - fb) \in Int /\ q * n \in Int BY <2>3, <1>1
  <2> QED BY <2>5, <2>6, <2>7, <2>8
<1> QED BY <1>2, <1>3 DEF Sides

\* What moving n through the pool costs at once, past the free zone.
AtOnce(s, n) == G(s, AtLeast0(n - FreeZone))

\* The same past the free zone.
LEMMA AtOnceConvex ==
  ASSUME NEW s \in Sides, NEW a \in Nat, NEW b \in Nat, NEW q \in Nat, a <= b, b + q <= PoolCap + FreeZone
  PROVE  /\ AtOnce(s, a) \in Nat /\ AtOnce(s, b) \in Nat /\ AtOnce(s, a + q) \in Nat /\ AtOnce(s, b + q) \in Nat
         /\ AtOnce(s, b) <= AtOnce(s, b + q)
         /\ AtOnce(s, a + q) - AtOnce(s, a) <= AtOnce(s, b + q) - AtOnce(s, b)
<1> DEFINE h(n) == AtLeast0(n - FreeZone)
<1>1. FreeZone \in Nat /\ PoolCap \in Nat BY PricingAssumption
<1>2. /\ h(a) \in 0 .. PoolCap /\ h(b) \in 0 .. PoolCap /\ h(a + q) \in 0 .. PoolCap /\ h(b + q) \in 0 .. PoolCap
      /\ h(a) <= h(b) /\ h(a) <= h(a + q) /\ h(b) <= h(b + q) /\ h(a + q) <= h(b + q)
      /\ h(a + q) - h(a) <= h(b + q) - h(b)
  BY <1>1 DEF AtLeast0
<1>3. /\ AtOnce(s, a) = G(s, h(a)) /\ AtOnce(s, b) = G(s, h(b))
      /\ AtOnce(s, a + q) = G(s, h(a + q)) /\ AtOnce(s, b + q) = G(s, h(b + q))
  BY DEF AtOnce
<1> DEFINE x == h(a)
           y == h(b)
           p == h(a + q) - h(a)
           z == h(b + q)
<1>4. x \in Nat /\ y \in Nat /\ p \in Nat /\ x <= y /\ y + p <= PoolCap /\ x + p = h(a + q) /\ y + p <= z /\ z \in 0 .. PoolCap
  BY <1>1, <1>2
<1> HIDE DEF h, x, p, y, z
<1>5. G(s, x + p) - G(s, x) <= G(s, y + p) - G(s, y) BY <1>4, CostConvex
<1>6. /\ x \in 0 .. PoolCap /\ y \in 0 .. PoolCap /\ x + p \in 0 .. PoolCap /\ y + p \in 0 .. PoolCap /\ x <= x + p /\ y <= y + p
  BY <1>1, <1>4
<1>7. /\ G(s, x) \in Nat /\ G(s, y) \in Nat /\ G(s, x + p) \in Nat /\ G(s, y + p) \in Nat /\ G(s, z) \in Nat
      /\ G(s, y + p) <= G(s, z) /\ G(s, y) <= G(s, z)
  BY <1>4, <1>6, CostGrows
<1>8. AtOnce(s, a) = G(s, x) /\ AtOnce(s, b) = G(s, y) /\ AtOnce(s, a + q) = G(s, x + p) /\ AtOnce(s, b + q) = G(s, z)
  BY <1>3, <1>4 DEF x, y, z
<1> QED BY <1>5, <1>7, <1>8

-----------------------------------------------------------------------------
(* What is quoted and what is charged                                         *)

\* The type of a held quote, which was made at a mid of 1.
QuoteOK(q) ==
  /\ held[q].quoted \in BOOLEAN /\ (q \in taken => held[q].quoted)
  /\ held[q].base \in 0 .. MaxSize /\ held[q].impact \in Int /\ held[q].spread \in Int
  /\ held[q].quoted => held[q].quote = QuoteFor(side, 1, held[q].base, held[q].spread, held[q].impact)
\* The types of the pricing.
PriceTypes ==
  /\ side \in Sides /\ mid \in {0, 1} /\ depth \in BOOLEAN
  /\ held = [q \in HeldQuotes |-> held[q]] /\ taken \subseteq HeldQuotes /\ unchecked \subseteq taken
  /\ \A q \in HeldQuotes : QuoteOK(q)

\* What any part of the charged quotes would have cost at once.
PartsPay ==
  \A S \in SUBSET Charged :
    SumFunctionOnSet(Paid, S) >= 10 * Multiplier * AtOnce(side, SumFunctionOnSet(Bases, S))

\* Negation, for the sell side.
LEMMA Minus == \A m \in Int : -m \in Int /\ -m = 0 - m /\ -(-m) = m
OBVIOUS

\* A cost is an integer, also past the pool fraction.
LEMMA CostInt == \A s \in Sides, x \in Nat : G(s, x) \in Int
<1> SUFFICES ASSUME NEW s \in Sides, NEW x \in Nat PROVE G(s, x) \in Int OBVIOUS
<1> DEFINE u == Least(x, PoolCap)
<1>1. u \in 0 .. PoolCap BY PricingAssumption DEF Least
<1> HIDE DEF u
<1>2. Part(s, u) \in Nat /\ u \in Nat BY <1>1, PartIs, PricingAssumption
<1>3. G(s, x) = x * u * Part(s, u) BY DEF G, Part, u
<1> QED BY <1>2, <1>3

\* marginal_impact_percent: an impact that is below its cap is no less than the increment
\* in cost, and at a flat net no more than it.
LEMMA ImpactIs ==
  ASSUME NEW s \in Sides, NEW b \in Nat, NEW n \in Nat
  PROVE  LET net == IF s = "buy" THEN n ELSE -n
             most == MaxImpact * Even[s] * b
         IN  /\ Impact(s, b, net) \in Nat /\ Impact(s, b, net) <= most /\ most \in Nat
             /\ Impact(s, b, net) < most => Impact(s, b, net) >= 10 * Multiplier * (AtOnce(s, n + b) - AtOnce(s, n))
             /\ Impact(s, b, 0) \in Nat /\ Impact(s, b, 0) <= AtLeast0(10 * Multiplier * (AtOnce(s, b) - AtOnce(s, 0)))
<1> DEFINE net == IF s = "buy" THEN n ELSE -n
           most == MaxImpact * Even[s] * b
           moved(m) == 10 * Multiplier * (AtOnce(s, m + b) - AtOnce(s, m))
<1>1. FreeZone \in Nat /\ Multiplier \in Nat /\ MaxImpact \in Nat /\ Even[s] \in Nat BY PricingAssumption
<1>2. most \in Nat
  <2>1. MaxImpact * Even[s] \in Nat BY <1>1, Times
  <2> QED BY <2>1, Times
<1>3. \A m \in Nat : AtOnce(s, m) \in Int
  <2>1. \A m \in Nat : AtLeast0(m - FreeZone) \in Nat BY <1>1 DEF AtLeast0
  <2> QED BY <2>1, CostInt DEF AtOnce
<1>4. \A m \in Nat : moved(m) \in Int
  <2> TAKE m \in Nat
  <2>1. AtOnce(s, m + b) - AtOnce(s, m) \in Int /\ 10 * Multiplier \in Int BY <1>1, <1>3
  <2> QED BY <2>1, Times
<1>5. ASSUME NEW m \in Nat
      PROVE  Impact(s, b, IF s = "buy" THEN m ELSE -m) = IF b <= 0 THEN 0 ELSE Least(AtLeast0(moved(m)), most)
  <2> DEFINE k == IF s = "buy" THEN m ELSE -m
  <2>1. (IF s = "buy" THEN k ELSE -k) = m
    <3>1. -(-m) = m OBVIOUS
    <3> QED BY <3>1
  <2> HIDE DEF k
  <2>2. Before(s, k) = AtLeast0(m - FreeZone) BY <2>1 DEF Before
  <2>3. After(s, k, b) = AtLeast0((m + b) - FreeZone)
    <3>1. After(s, k, b) = AtLeast0(b + m - FreeZone) BY <2>1 DEF After
    <3>2. b + m - FreeZone = (m + b) - FreeZone BY <1>1
    <3> QED BY <3>1, <3>2, Zenon
  <2>4. Impact(s, b, k) = IF b <= 0 THEN 0 ELSE Least(AtLeast0(moved(m)), most)
    <3>0. AtOnce(s, m + b) = G(s, AtLeast0((m + b) - FreeZone)) /\ AtOnce(s, m) = G(s, AtLeast0(m - FreeZone)) BY DEF AtOnce
    <3>1. G(s, After(s, k, b)) = AtOnce(s, m + b) /\ G(s, Before(s, k)) = AtOnce(s, m) BY <2>2, <2>3, <3>0
    <3>2. Impact(s, b, k) = IF b <= 0 THEN 0
                            ELSE Least(AtLeast0(10 * Multiplier * (AtOnce(s, m + b) - AtOnce(s, m))), MaxImpact * Even[s] * b)
      BY <3>1, Zenon DEF Impact
    <3> QED BY <3>2, Zenon
  <2> QED BY <2>4 DEF k
<1>6. Impact(s, b, net) = IF b <= 0 THEN 0 ELSE Least(AtLeast0(moved(n)), most) BY <1>5
<1>7. Impact(s, b, 0) = IF b <= 0 THEN 0 ELSE Least(AtLeast0(moved(0)), most)
  <2>1. PICK z \in Nat : z = 0 OBVIOUS
  <2>2. (IF s = "buy" THEN z ELSE -z) = 0
    <3>1. -z = 0 - z BY Minus
    <3>2. -z = 0 BY <3>1, <2>1
    <3> QED BY <3>2, <2>1
  <2>3. Impact(s, b, IF s = "buy" THEN z ELSE -z) = IF b <= 0 THEN 0 ELSE Least(AtLeast0(moved(z)), most) BY <1>5
  <2> QED BY <2>1, <2>2, <2>3
<1>8. b <= 0 => moved(n) = 0
  <2> SUFFICES ASSUME b <= 0 PROVE moved(n) = 0 OBVIOUS
  <2>1. n + b = n /\ AtOnce(s, n) - AtOnce(s, n) = 0 BY <1>3
  <2> QED BY <2>1, <1>1
<1>9. b <= 0 => most = 0
  <2>1. \A x \in Int : x * 0 = 0 OBVIOUS
  <2> QED BY <2>1, <1>1, Times
<1>10. moved(n) \in Int /\ moved(0) \in Int BY <1>4
<1>11. moved(0) = 10 * Multiplier * (AtOnce(s, b) - AtOnce(s, 0))
  <2>1. 0 + b = b OBVIOUS
  <2> QED BY <2>1
<1> HIDE DEF moved, most, net
<1>12. /\ Impact(s, b, net) \in Nat /\ Impact(s, b, net) <= most
       /\ Impact(s, b, net) < most => Impact(s, b, net) >= moved(n)
       /\ Impact(s, b, 0) \in Nat /\ Impact(s, b, 0) <= AtLeast0(moved(0))
  BY <1>2, <1>6, <1>7, <1>8, <1>9, <1>10 DEF Least, AtLeast0
<1> QED BY <1>2, <1>11, <1>12 DEF moved, most, net

\* A quote as the pricer makes it.
LEMMA AskedIs ==
  ASSUME PriceTypes, NEW size \in 1 .. MaxSize,
         NEW n \in Nat, NetNow = IF side = "buy" THEN n ELSE -n
  PROVE  LET p == PriceRfq(DeskEnv, DeskPair, << >>, DeskRfq(size), NetNow)
         IN  p.quoted => /\ p.quoted = TRUE /\ p.base = size /\ p.impact \in Int /\ p.spread \in Int
                         /\ p.quote = QuoteFor(side, 1, size, p.spread, p.impact)
<1> DEFINE env == DeskEnv
           req == DeskRfq(size)
           p == PriceRfq(env, DeskPair, << >>, req, NetNow)
           v == Price(env, DeskPair, req, NetNow)
<1>0. MaxSize \in Nat /\ size \in Nat /\ side \in Sides /\ mid \in {0, 1} BY PricingAssumption DEF PriceTypes
<1>1. ResolveRfqConfig(DeskPair, << >>, req.market, req.venue, req.branch) = DeskPair
  BY DEF ResolveRfqConfig, DeskRfq
<1>2. p.quoted => p = v /\ mid = 1
  <2>1. \A why : Rejected(why).quoted = FALSE BY DEF Rejected
  <2>2. Gate(env, DeskPair, req, v).quoted => Gate(env, DeskPair, req, v) = v BY <2>1 DEF Gate
  <2>3. env.mid = mid /\ req.inQuote = FALSE /\ req.party # NoParty BY DEF DeskEnv, DeskRfq, NoParty
  <2>4. p.quoted => p = Gate(env, DeskPair, req, v) /\ ~(env.mid <= 0)
    BY <1>1, <2>1, <2>3 DEF PriceRfq
  <2> QED BY <2>2, <2>3, <2>4, <1>0
<1>3. ASSUME mid = 1
      PROVE  /\ v.quoted = TRUE /\ v.base = size /\ v.impact \in Int /\ v.spread \in Int
             /\ v.quote = QuoteFor(side, 1, size, v.spread, v.impact)
  <2>1. /\ req.side = side /\ req.inQuote = FALSE /\ req.size = size /\ env.mid = 1
        /\ DeskPair.offer = 1 /\ DeskPair.bid = 1
    BY <1>3 DEF DeskEnv, DeskRfq, DeskPair
  <2>2. SpreadMultiplier(env, DeskPair) \in Int /\ DepletionCoefficient(env, DeskPair) \in Int
    BY DEF SpreadMultiplier, DepletionCoefficient, DeskEnv, DeskPair
  <2>3. Impact(side, size, NetNow) \in Int
    <3>1. Impact(side, size, IF side = "buy" THEN n ELSE -n) \in Nat BY <1>0, ImpactIs
    <3> QED BY <3>1
  <2> HIDE DEF env, req
  <2> DEFINE k == SpreadMultiplier(env, DeskPair) + DepletionCoefficient(env, DeskPair)
             e == 1 * Stress(1, k)
             i == IF DeskPair.impact = "on" /\ env.depth THEN Impact(side, size, NetNow) ELSE 0
  <2>4. e \in Int
    <3>1. k \in Int BY <2>2
    <3> HIDE DEF k
    <3> QED BY <3>1 DEF Stress
  <2>5. i \in Int BY <2>3
  <2>6. /\ v.quoted = TRUE /\ v.base = size /\ v.spread = e /\ v.impact = i
        /\ v.quote = [b \in Nat |-> QuoteFor(side, 1, b, e, IF DeskPair.impact = "on" /\ env.depth THEN Impact(side, b, NetNow) ELSE 0)][size]
    <3>1. v.quoted = TRUE /\ v.base = size BY <2>1 DEF Price
    <3>2. v.spread = e BY <2>1 DEF Price
    <3>3. v.impact = i BY <2>1 DEF Price
    <3>4. v.quote = [b \in Nat |-> QuoteFor(side, 1, b, e, IF DeskPair.impact = "on" /\ env.depth THEN Impact(side, b, NetNow) ELSE 0)][size]
      BY <2>1 DEF Price
    <3> QED BY <3>1, <3>2, <3>3, <3>4
  <2>7. v.quote = QuoteFor(side, 1, size, e, i) BY <2>6, <1>0
  <2> HIDE DEF e, i, v
  <2> QED BY <2>4, <2>5, <2>6, <2>7
<1> QED BY <1>2, <1>3

\* All the quotes a taker may hold stay inside the pool fraction.
InThePool == MaxSize * Cardinality(HeldQuotes) <= PoolCap + FreeZone

\* The constants of the pricing are naturals.
LEMMA PriceConstants ==
  /\ {Reserve, PoolCap, FreeZone, Multiplier, MaxImpact, Tolerance, MaxSize} \subseteq Nat
  /\ \A s \in Sides : Even[s] \in Nat /\ Scale(s) \in Nat
BY PricingAssumption DEF Scale

\* A quote amount is what the size costs without impact, and the impact on top or off it.
LEMMA QuoteIs ==
  ASSUME NEW s \in Sides, NEW b \in Int, NEW spread \in Int, NEW x \in Int
  PROVE  LET a == Scale(s) * b + (IF s = "buy" THEN Even[s] * b * spread ELSE 0 - Even[s] * b * spread)
         IN  a \in Int /\ QuoteFor(s, 1, b, spread, x) = IF s = "buy" THEN a + x ELSE a - x
<1>1. Scale(s) * b \in Int /\ Even[s] * b \in Int
  <2> DEFINE m == Scale(s)
             e == Even[s]
  <2>1. m \in Int /\ e \in Int BY PriceConstants
  <2> HIDE DEF m, e
  <2>2. m * b \in Int /\ e * b \in Int BY ONLY <2>1, b \in Int
  <2> QED BY <2>2 DEF m, e
<1>2. Even[s] * b * spread \in Int BY <1>1, Times
<1>3. QuoteFor(s, 1, b, spread, x) = 1 * (Scale(s) * b + (IF s = "buy" THEN 1 ELSE -1) * (Even[s] * b * spread + x))
  BY DEF QuoteFor
<1>4. \A m, k, y \in Int : /\ 1 * (m + 1 * (k + y)) = (m + k) + y
                           /\ 1 * (m + (-1) * (k + y)) = (m + (0 - k)) - y
                           /\ m + k \in Int /\ m + (0 - k) \in Int
  OBVIOUS
<1> DEFINE m == Scale(s) * b
           k == Even[s] * b * spread
<1>5. m \in Int /\ k \in Int BY <1>1, <1>2
<1>6. QuoteFor(s, 1, b, spread, x) = 1 * (m + (IF s = "buy" THEN 1 ELSE -1) * (k + x)) BY <1>3
<1> SUFFICES LET a == m + (IF s = "buy" THEN k ELSE 0 - k)
             IN  a \in Int /\ QuoteFor(s, 1, b, spread, x) = IF s = "buy" THEN a + x ELSE a - x
  OBVIOUS
<1> HIDE DEF m, k
<1> QED BY <1>4, <1>5, <1>6

\* The tolerance on an amount grows with it.
LEMMA TenthsGrow == \A a, b \in Int, t \in Nat : a <= b => /\ a * t \in Int /\ b * t \in Int
                                                            /\ (a * t) \div 10 \in Int /\ (b * t) \div 10 \in Int
                                                            /\ (a * t) \div 10 <= (b * t) \div 10
<1>1. \A a, b \in Int, t \in Nat : a <= b => a * t \in Int /\ b * t \in Int /\ a * t <= b * t BY Times
<1>2. \A a, b \in Int : a <= b => a \div 10 \in Int /\ b \div 10 \in Int /\ a \div 10 <= b \div 10 OBVIOUS
<1> QED BY <1>1, <1>2

\* handle_confirm: a quote that passes the check was charged the impact of now, but for
\* its tolerance.
LEMMA AcceptedIsFair ==
  ASSUME PriceTypes, NEW q \in HeldQuotes, held[q].quoted,
         NEW n \in Nat, NetNow = IF side = "buy" THEN n ELSE -n
  PROVE  /\ Leeway(q) \in Int /\ Paid[q] \in Int /\ Paid[q] = held[q].impact + Leeway(q)
         /\ mid = 1 /\ ~TakerFavourable(q) => Paid[q] >= Impact(side, held[q].base, NetNow)
<1> DEFINE b == held[q].base
           most == MaxImpact * Even[side] * b
           fair == Impact(side, b, NetNow)
           a == Scale(side) * b + (IF side = "buy" THEN Even[side] * b * held[q].spread ELSE 0 - Even[side] * b * held[q].spread)
           top == QuoteFor(side, 1, b, held[q].spread, IF side = "buy" THEN most ELSE 0)
           x == held[q].impact
           anew == QuoteFor(side, 1, b, held[q].spread, fair)
<1>0. MaxSize \in Nat /\ Tolerance \in Nat BY PriceConstants
<1>1. side \in Sides /\ b \in Nat /\ x \in Int /\ held[q].spread \in Int BY <1>0 DEF PriceTypes, QuoteOK
<1>2. most \in Nat /\ fair \in Nat /\ fair <= most
  <2> HIDE DEF b
  <2>1. \A s \in Sides : LET net == IF s = "buy" THEN n ELSE -n
                         IN  Impact(s, b, net) \in Nat /\ Impact(s, b, net) <= MaxImpact * Even[s] * b /\ MaxImpact * Even[s] * b \in Nat
    BY <1>1, ImpactIs
  <2> QED BY <2>1, <1>1
<1>3. /\ a \in Int /\ top = IF side = "buy" THEN a + most ELSE a
      /\ held[q].quote = IF side = "buy" THEN a + x ELSE a - x
      /\ anew = IF side = "buy" THEN a + fair ELSE a - fair
  <2>1. \A y \in Int : a \in Int /\ QuoteFor(side, 1, b, held[q].spread, y) = IF side = "buy" THEN a + y ELSE a - y
    <3> TAKE y \in Int
    <3> HIDE DEF b
    <3>1. LET z == Scale(side) * b + (IF side = "buy" THEN Even[side] * b * held[q].spread ELSE 0 - Even[side] * b * held[q].spread)
          IN  z \in Int /\ QuoteFor(side, 1, b, held[q].spread, y) = IF side = "buy" THEN z + y ELSE z - y
      BY ONLY <1>1, QuoteIs
    <3> QED BY <3>1
  <2>2. held[q].quote = QuoteFor(side, 1, b, held[q].spread, x) BY DEF PriceTypes, QuoteOK
  <2> HIDE DEF a, x, most, fair, b
  <2> QED BY <2>1, <2>2, <1>1, <1>2
<1>4. Leeway(q) = (top * Tolerance) \div 10 BY DEF Leeway
<1>5. Paid[q] = x + Leeway(q) BY DEF Paid
<1>6. mid = 1 => FairNow(q) = anew BY DEF FairNow
<1> HIDE DEF b, most, fair, a, top, x, anew
<1>7. top \in Int /\ anew \in Int /\ anew <= top BY <1>1, <1>2, <1>3 DEF Sides
<1>8. /\ (top * Tolerance) \div 10 \in Int /\ (anew * Tolerance) \div 10 \in Int
      /\ (anew * Tolerance) \div 10 <= (top * Tolerance) \div 10
  BY <1>0, <1>7, TenthsGrow
<1>9. mid = 1 /\ ~TakerFavourable(q) =>
        /\ side = "buy" => held[q].quote >= anew - (anew * Tolerance) \div 10
        /\ side = "sell" => held[q].quote <= anew + (anew * Tolerance) \div 10
  <2>1. held[q].quote \in Int BY <1>1, <1>3
  <2>2. SUFFICES ASSUME mid = 1, ~TakerFavourable(q)
                 PROVE  /\ side = "buy" => held[q].quote >= anew - (anew * Tolerance) \div 10
                        /\ side = "sell" => held[q].quote <= anew + (anew * Tolerance) \div 10
    OBVIOUS
  <2>3. /\ side = "buy" => ~(held[q].quote < anew - (anew * Tolerance) \div 10)
        /\ side = "sell" => ~(held[q].quote > anew + (anew * Tolerance) \div 10)
    BY <1>6, <2>2 DEF TakerFavourable
  <2> QED BY <2>1, <2>3, <1>7, <1>8
<1>10. Leeway(q) \in Int /\ Paid[q] \in Int BY <1>1, <1>4, <1>5, <1>8
<1>11. ASSUME mid = 1 /\ ~TakerFavourable(q) PROVE Paid[q] >= fair
  <2>1. CASE side = "buy"
    <3>1. a + x >= (a + fair) - Leeway(q) BY <2>1, <1>11, <1>1, <1>2, <1>3, <1>4, <1>7, <1>8, <1>9
    <3> QED BY <3>1, <1>1, <1>2, <1>3, <1>5, <1>10
  <2>2. CASE side = "sell"
    <3>1. a - x <= (a - fair) + Leeway(q) BY <2>2, <1>11, <1>1, <1>2, <1>3, <1>4, <1>7, <1>8, <1>9
    <3> QED BY <3>1, <1>1, <1>2, <1>3, <1>5, <1>10
  <2> QED BY <2>1, <2>2, <1>1 DEF Sides
<1> QED BY <1>5, <1>10, <1>11 DEF fair, b, x

\* What is summed are integers.
LEMMA PaidIs ==
  ASSUME PriceTypes
  PROVE  IsFiniteSet(HeldQuotes) /\ Ints(Paid, HeldQuotes) /\ Ints(Bases, HeldQuotes)
<1>0. side \in Sides /\ IsFiniteSet(HeldQuotes) BY PricingAssumption DEF PriceTypes
<1>1. ASSUME NEW q \in HeldQuotes PROVE Paid[q] \in Int /\ Bases[q] \in Int
  <2> DEFINE b == held[q].base
             x == IF side = "buy" THEN MaxImpact * Even[side] * b ELSE 0
             top == QuoteFor(side, 1, b, held[q].spread, x)
  <2>1. b \in Int /\ held[q].impact \in Int /\ held[q].spread \in Int BY PriceConstants DEF PriceTypes, QuoteOK
  <2>2. x \in Int
    <3>1. MaxImpact \in Int /\ Even[side] \in Int BY <1>0, PriceConstants
    <3>2. MaxImpact * Even[side] \in Int BY <3>1, Times
    <3> QED BY <2>1, <3>2, Times
  <2>3. Leeway(q) = (top * Tolerance) \div 10 BY DEF Leeway
  <2>4. Paid[q] = held[q].impact + Leeway(q) /\ Bases[q] = b BY DEF Paid, Bases
  <2> HIDE DEF b, x
  <2>5. top \in Int
    <3> DEFINE sp == held[q].spread
               a == Scale(side) * b + (IF side = "buy" THEN Even[side] * b * sp ELSE 0 - Even[side] * b * sp)
    <3>1. sp \in Int BY <2>1
    <3>2. top = QuoteFor(side, 1, b, sp, x) OBVIOUS
    <3> HIDE DEF sp, top
    <3>3. a \in Int /\ QuoteFor(side, 1, b, sp, x) = IF side = "buy" THEN a + x ELSE a - x
      BY ONLY <1>0, <2>1, <2>2, <3>1, QuoteIs
    <3> HIDE DEF a
    <3> QED BY <3>2, <3>3, <2>2
  <2> HIDE DEF top
  <2>6. Leeway(q) \in Int
    <3>1. Tolerance \in Nat /\ top <= top BY <2>5, PriceConstants
    <3> QED BY <2>3, <2>5, <3>1, TenthsGrow
  <2> QED BY <2>1, <2>4, <2>6
<1> QED BY <1>0, <1>1 DEF Ints

\* Sums of sizes, and that all held quotes together stay within their largest sizes.
LEMMA NetIs ==
  ASSUME PriceTypes, NEW T \in SUBSET HeldQuotes
  PROVE  /\ SumFunctionOnSet(Bases, T) \in Nat
         /\ SumFunctionOnSet(Bases, T) <= MaxSize * Cardinality(HeldQuotes)
         /\ \A A \in SUBSET T : SumFunctionOnSet(Bases, A) <= SumFunctionOnSet(Bases, T)
         /\ \A q \in HeldQuotes \ T : SumFunctionOnSet(Bases, T \cup {q}) = held[q].base + SumFunctionOnSet(Bases, T)
<1>0. MaxSize \in Nat BY PriceConstants
<1>1. IsFiniteSet(HeldQuotes) /\ IsFiniteSet(T) /\ Ints(Bases, HeldQuotes) /\ Ints(Bases, T)
  BY PaidIs, FS_Subset DEF Ints
<1>2. \A q \in HeldQuotes : Bases[q] = held[q].base /\ Bases[q] >= 0 /\ Bases[q] <= MaxSize
  BY <1>0 DEF Bases, PriceTypes, QuoteOK
<1>3. SumFunctionOnSet(Bases, T) \in Int BY <1>1, SumStep
<1>4. SumFunctionOnSet(Bases, T) >= 0
  <2>1. SumFunctionOnSet(Bases, T) >= 0 * Cardinality(T) BY <1>1, <1>2, SumBounds
  <2>2. Cardinality(T) \in Nat BY <1>1, FS_CardinalityType
  <2> QED BY <2>1, <2>2, <1>3
<1>5. \A A \in SUBSET T : SumFunctionOnSet(Bases, A) <= SumFunctionOnSet(Bases, T) BY <1>1, <1>2, SumGrows
<1>6. SumFunctionOnSet(Bases, T) <= SumFunctionOnSet(Bases, HeldQuotes) BY <1>1, <1>2, SumGrows
<1>7. SumFunctionOnSet(Bases, HeldQuotes) <= MaxSize * Cardinality(HeldQuotes) BY <1>0, <1>1, <1>2, SumBounds
<1>8. MaxSize * Cardinality(HeldQuotes) \in Int /\ SumFunctionOnSet(Bases, HeldQuotes) \in Int
  <2>1. Cardinality(HeldQuotes) \in Nat BY <1>1, FS_CardinalityType
  <2>2. SumFunctionOnSet(Bases, HeldQuotes) \in Int BY <1>1, SumStep
  <2> QED BY <1>0, <2>1, <2>2
<1>9. \A q \in HeldQuotes \ T : SumFunctionOnSet(Bases, T \cup {q}) = held[q].base + SumFunctionOnSet(Bases, T)
  BY <1>1, <1>2, SumSub
<1> QED BY <1>3, <1>4, <1>5, <1>6, <1>7, <1>8, <1>9

\* The net is that of the confirmed quotes.
LEMMA TakerNet ==
  ASSUME PriceTypes
  PROVE  \E n \in Nat : n = SumFunctionOnSet(Bases, taken) /\ NetNow = IF side = "buy" THEN n ELSE -n
<1>1. SumFunctionOnSet(Bases, taken) \in Nat BY NetIs DEF PriceTypes
<1> QED BY <1>1 DEF NetNow

\* The types hold at first.
LEMMA PriceTypesInit == PriceInit => PriceTypes
<1>1. NotHeld.quoted = FALSE /\ NotHeld.base = 0 /\ NotHeld.impact = 0 /\ NotHeld.spread = 0 BY DEF NotHeld, Rejected
<1>2. MaxSize \in Nat BY PriceConstants
<1> SUFFICES ASSUME PriceInit PROVE PriceTypes OBVIOUS
<1>3. \A q \in HeldQuotes : held[q] = NotHeld /\ q \notin taken BY DEF PriceInit
<1>4. held = [q \in HeldQuotes |-> held[q]] BY DEF PriceInit
<1>5. ASSUME NEW q \in HeldQuotes PROVE QuoteOK(q)
  <2>1. held[q].quoted = FALSE /\ held[q].base = 0 /\ held[q].impact = 0 /\ held[q].spread = 0 /\ q \notin taken
    BY <1>1, <1>3
  <2>2. 0 \in 0 .. MaxSize BY <1>2
  <2>3. 0 \in Int /\ FALSE \in BOOLEAN OBVIOUS
  <2> QED BY <2>1, <2>2, <2>3, Zenon DEF QuoteOK
<1> QED BY <1>4, <1>5 DEF PriceInit, PriceTypes

\* And every step keeps them.
LEMMA PriceTypesStep == PriceTypes /\ [PriceNext]_priceVars => PriceTypes'
<1> SUFFICES ASSUME PriceTypes, [PriceNext]_priceVars PROVE PriceTypes' OBVIOUS
<1>0. NotHeld.quoted = FALSE /\ NotHeld.base = 0 /\ NotHeld.impact = 0 /\ NotHeld.spread = 0 BY DEF NotHeld, Rejected
<1>1. MaxSize \in Nat BY PriceConstants
<1>2. ASSUME NEW q \in HeldQuotes, held' = [held EXCEPT ![q] = NotHeld] \/ held' = held, side' = side,
             mid' \in {0, 1}, depth' \in BOOLEAN, taken' \subseteq HeldQuotes, unchecked' \subseteq taken',
             \A p \in taken' : held[p].quoted /\ (p = q => held' = held)
      PROVE  PriceTypes'
  <2>1. held' = [p \in HeldQuotes |-> held'[p]] BY <1>2 DEF PriceTypes
  <2>2. \A p \in HeldQuotes : held'[p] = held[p] \/ (p = q /\ held'[p] = NotHeld /\ p \notin taken')
    BY <1>2 DEF PriceTypes
  <2>3. ASSUME NEW p \in HeldQuotes PROVE QuoteOK(p)'
    <3>1. QuoteOK(p) /\ side' = side /\ (p \in taken' => held[p].quoted) BY <1>2 DEF PriceTypes
    <3>2. CASE held'[p] = held[p]
      <4> QED BY <3>1, <3>2 DEF QuoteOK
    <3>3. CASE held'[p] = NotHeld /\ p \notin taken'
      <4>1. held'[p].quoted = FALSE /\ held'[p].base = 0 /\ held'[p].impact = 0 /\ held'[p].spread = 0 BY <1>0, <3>3
      <4>2. 0 \in 0 .. MaxSize BY <1>1
      <4>3. 0 \in Int /\ FALSE \in BOOLEAN OBVIOUS
      <4> QED BY <3>3, <4>1, <4>2, <4>3, Zenon DEF QuoteOK
    <3> QED BY <2>2, <3>2, <3>3
  <2> QED BY <2>1, <2>3, <1>2 DEF PriceTypes
<1>3. CASE UNCHANGED priceVars BY <1>3 DEF priceVars, PriceTypes, QuoteOK
<1>4. CASE MarketMoves BY <1>4 DEF MarketMoves, PriceTypes, QuoteOK
<1>5. ASSUME NEW q \in HeldQuotes, Confirm(q) PROVE PriceTypes' BY <1>2, <1>5 DEF Confirm, PriceTypes, QuoteOK
<1>6. ASSUME NEW q \in HeldQuotes, Lapse(q) PROVE PriceTypes' BY <1>2, <1>6 DEF Lapse, PriceTypes, QuoteOK
<1>7. ASSUME NEW q \in HeldQuotes, NEW size \in 1 .. MaxSize, Ask(q, size) PROVE PriceTypes'
  <2> DEFINE priced == PriceRfq(DeskEnv, DeskPair, << >>, DeskRfq(size), NetNow)
  <2>1. PICK n \in Nat : NetNow = IF side = "buy" THEN n ELSE -n BY TakerNet
  <2>2. /\ held[q] = NotHeld /\ priced.quoted /\ held' = [held EXCEPT ![q] = priced]
        /\ UNCHANGED <<side, mid, depth, taken, unchecked>>
    BY <1>7 DEF Ask
  <2>3. /\ priced.quoted = TRUE /\ priced.base = size /\ priced.impact \in Int /\ priced.spread \in Int
        /\ priced.quote = QuoteFor(side, 1, size, priced.spread, priced.impact)
    BY <2>1, <2>2, AskedIs
  <2> HIDE DEF priced
  <2>4. held' = [p \in HeldQuotes |-> held'[p]] BY <2>2 DEF PriceTypes
  <2>5. q \notin taken BY <2>2, <1>0 DEF PriceTypes, QuoteOK
  <2>6. \A p \in HeldQuotes : held'[p] = IF p = q THEN priced ELSE held[p] BY <2>2 DEF PriceTypes
  <2>7. ASSUME NEW p \in HeldQuotes PROVE QuoteOK(p)'
    <3>1. CASE p = q
      <4>1. held'[p] = priced /\ p \notin taken' /\ side' = side BY <3>1, <2>2, <2>5, <2>6
      <4>2. size \in 0 .. MaxSize BY <1>1
      <4> QED BY <4>1, <4>2, <2>3 DEF QuoteOK
    <3>2. CASE p # q BY <3>2, <2>2, <2>6 DEF QuoteOK, PriceTypes
    <3> QED BY <3>1, <3>2
  <2> QED BY <2>2, <2>4, <2>7 DEF PriceTypes
<1> QED BY <1>3, <1>4, <1>5, <1>6, <1>7 DEF PriceNext

-----------------------------------------------------------------------------
(* However a size is cut                                                      *)

\* A step that leaves the quotes of a set alone leaves their sums alone.
LEMMA SumsKept ==
  ASSUME PriceTypes, PriceTypes', side' = side,
         NEW S \in SUBSET HeldQuotes, \A x \in S : held'[x] = held[x]
  PROVE  /\ SumFunctionOnSet(Paid, S)' = SumFunctionOnSet(Paid, S)
         /\ SumFunctionOnSet(Bases, S)' = SumFunctionOnSet(Bases, S)
<1> DEFINE p == Paid
           b == Bases
           pp == Paid'
           bb == Bases'
<1>1. IsFiniteSet(S) /\ Ints(p, S) /\ Ints(b, S) BY PaidIs, FS_Subset DEF Ints
<1>2. \A x \in S : p[x] = pp[x] /\ b[x] = bb[x] BY DEF Paid, Bases, Leeway
<1> HIDE DEF p, b, pp, bb
<1>3. SumFunctionOnSet(p, S) = SumFunctionOnSet(pp, S) /\ SumFunctionOnSet(b, S) = SumFunctionOnSet(bb, S)
  BY <1>1, <1>2, SumSame
<1> QED BY <1>3 DEF p, b, pp, bb

\* A step that charges no quote anew keeps what the parts pay.
LEMMA PartsStay ==
  ASSUME PriceTypes, PriceTypes', PartsPay, side' = side,
         \A x \in Charged' : x \in Charged /\ held'[x] = held[x]
  PROVE  PartsPay'
<1> SUFFICES ASSUME NEW S \in SUBSET Charged'
             PROVE  SumFunctionOnSet(Paid, S)' >= 10 * Multiplier * AtOnce(side, SumFunctionOnSet(Bases, S)')
  BY Zenon DEF PartsPay, AtOnce
<1>1. S \in SUBSET Charged /\ S \in SUBSET HeldQuotes BY DEF Charged, PriceTypes
<1>2. SumFunctionOnSet(Paid, S)' = SumFunctionOnSet(Paid, S) /\ SumFunctionOnSet(Bases, S)' = SumFunctionOnSet(Bases, S)
  BY <1>1, SumsKept
<1>3. SumFunctionOnSet(Paid, S) >= 10 * Multiplier * AtOnce(side, SumFunctionOnSet(Bases, S)) BY <1>1 DEF PartsPay
<1> QED BY <1>2, <1>3

\* A confirm that passes the check keeps it: each part that the new quote joins was
\* confirmed before it or counts less than what was, and the curve is convex.
LEMMA ConfirmPays ==
  ASSUME InThePool, PriceTypes, PriceTypes', PartsPay, NEW q \in HeldQuotes, q \notin taken,
         held[q].quoted, mid = 1, ~TakerFavourable(q),
         taken' = taken \cup {q}, UNCHANGED <<side, held, unchecked>>
  PROVE  PartsPay'
<1> DEFINE most == MaxImpact * Even[side] * held[q].base
<1>1. Paid' = Paid /\ Bases' = Bases BY DEF Paid, Leeway, Bases
<1>2. \A x \in Charged' : x # q => x \in Charged BY <1>1 DEF Charged
<1>3. q \in Charged' => Paid[q] < most BY <1>1 DEF Charged
<1> SUFFICES ASSUME NEW S \in SUBSET Charged'
             PROVE  SumFunctionOnSet(Paid, S)' >= 10 * Multiplier * AtOnce(side, SumFunctionOnSet(Bases, S)')
  BY Zenon DEF PartsPay, AtOnce
<1>4. SumFunctionOnSet(Paid, S)' = SumFunctionOnSet(Paid, S) /\ SumFunctionOnSet(Bases, S)' = SumFunctionOnSet(Bases, S)
  BY <1>1
<1>5. CASE q \notin S
  <2>1. S \in SUBSET Charged BY <1>2, <1>5
  <2>2. SumFunctionOnSet(Paid, S) >= 10 * Multiplier * AtOnce(side, SumFunctionOnSet(Bases, S)) BY <2>1 DEF PartsPay
  <2> QED BY <1>4, <2>2
<1>6. CASE q \in S
  <2> DEFINE rest == S \ {q}
             b == held[q].base
             n0 == SumFunctionOnSet(Bases, rest)
             n == SumFunctionOnSet(Bases, taken)
             fair == Impact(side, b, NetNow)
             k == 10 * Multiplier
             first == SumFunctionOnSet(Paid, rest)
  <2>1. /\ rest \in SUBSET Charged /\ rest \in SUBSET taken /\ taken \in SUBSET HeldQuotes /\ rest \in SUBSET HeldQuotes
        /\ rest \cup {q} = S /\ S \in SUBSET HeldQuotes /\ taken \cup {q} \in SUBSET HeldQuotes
        /\ q \in HeldQuotes \ rest /\ q \in HeldQuotes \ taken
    BY <1>2, <1>6 DEF Charged, PriceTypes
  <2>2. n0 \in Nat /\ n \in Nat /\ n0 <= n BY <2>1, NetIs
  <2>3. SumFunctionOnSet(Bases, S) = b + n0 /\ SumFunctionOnSet(Bases, taken \cup {q}) = b + n
    <3>1. SumFunctionOnSet(Bases, rest \cup {q}) = b + n0 BY <2>1, NetIs
    <3>2. SumFunctionOnSet(Bases, taken \cup {q}) = b + n BY <2>1, NetIs
    <3> QED BY <2>1, <3>1, <3>2
  <2>4. side \in Sides /\ b \in Nat BY PriceConstants DEF PriceTypes, QuoteOK
  <2>5. n + b <= PoolCap + FreeZone
    <3>1. SumFunctionOnSet(Bases, taken \cup {q}) <= MaxSize * Cardinality(HeldQuotes) BY <2>1, NetIs
    <3>2. Cardinality(HeldQuotes) \in Nat BY PaidIs, FS_CardinalityType
    <3>3. MaxSize * Cardinality(HeldQuotes) \in Nat BY <3>2, PriceConstants, Times
    <3>4. PoolCap + FreeZone \in Nat BY PriceConstants
    <3>5. MaxSize * Cardinality(HeldQuotes) <= PoolCap + FreeZone BY DEF InThePool
    <3> HIDE DEF b, n
    <3> QED BY <2>2, <2>3, <2>4, <3>1, <3>3, <3>4, <3>5
  <2>6. NetNow = IF side = "buy" THEN n ELSE -n BY DEF NetNow
  <2>7. Paid[q] \in Int /\ Paid[q] >= fair
    <3> HIDE DEF b, n
    <3> QED BY <2>2, <2>6, AcceptedIsFair DEF b
  <2>8. SumFunctionOnSet(Paid, S) = Paid[q] + first /\ first \in Int
    <3>1. IsFiniteSet(HeldQuotes) /\ Ints(Paid, HeldQuotes) BY PaidIs
    <3>2. first \in Int /\ SumFunctionOnSet(Paid, rest \cup {q}) = Paid[q] + first BY <3>1, <2>1, SumSub
    <3> QED BY <2>1, <3>2
  <2>9. first >= k * AtOnce(side, n0) BY <2>1 DEF PartsPay
  <2>10. Paid[q] < most BY <1>3, <1>6
  <2> HIDE DEF n, n0, first, rest
  <2>11. /\ fair \in Nat /\ most \in Nat
         /\ fair < most => fair >= k * (AtOnce(side, n + b) - AtOnce(side, n))
    <3> HIDE DEF b
    <3>1. \A s \in Sides : LET net == IF s = "buy" THEN n ELSE -n
                               top == MaxImpact * Even[s] * b
                           IN  /\ Impact(s, b, net) \in Nat /\ top \in Nat
                               /\ Impact(s, b, net) < top => Impact(s, b, net) >= 10 * Multiplier * (AtOnce(s, n + b) - AtOnce(s, n))
      BY <2>2, <2>4, ImpactIs
    <3>2. LET net == IF side = "buy" THEN n ELSE -n
              top == MaxImpact * Even[side] * b
          IN  /\ Impact(side, b, net) \in Nat /\ top \in Nat
              /\ Impact(side, b, net) < top => Impact(side, b, net) >= 10 * Multiplier * (AtOnce(side, n + b) - AtOnce(side, n))
      BY <2>4, <3>1
    <3> QED BY <2>6, <3>2 DEF b
  <2> HIDE DEF b
  <2>12. /\ AtOnce(side, n0) \in Nat /\ AtOnce(side, n) \in Nat /\ AtOnce(side, n0 + b) \in Nat /\ AtOnce(side, n + b) \in Nat
         /\ AtOnce(side, n0 + b) - AtOnce(side, n0) <= AtOnce(side, n + b) - AtOnce(side, n)
    BY <2>2, <2>4, <2>5, AtOnceConvex
  <2> DEFINE x0 == AtOnce(side, n0)
             x1 == AtOnce(side, n0 + b)
             y0 == AtOnce(side, n)
             y1 == AtOnce(side, n + b)
  <2>13. x0 \in Nat /\ x1 \in Nat /\ y0 \in Nat /\ y1 \in Nat /\ x1 - x0 <= y1 - y0 /\ k \in Nat
    BY <2>12, PriceConstants
  <2>14. Paid[q] >= k * (y1 - y0)
    <3> HIDE DEF fair, most, k
    <3>1. fair < most BY <2>7, <2>10, <2>11
    <3>2. fair >= k * (y1 - y0) BY <3>1, <2>11
    <3>3. k * (y1 - y0) \in Int BY <2>13
    <3> QED BY <3>2, <3>3, <2>7, <2>11
  <2>15. first >= k * x0 BY <2>9
  <2>16. n0 + b = b + n0 BY <2>2, <2>4
  <2> HIDE DEF k, x0, x1, y0, y1, fair, most
  <2>17. k * (x1 - x0) <= k * (y1 - y0)
    <3>1. x1 - x0 \in Int /\ y1 - y0 \in Int /\ k \in Int /\ k >= 0 BY <2>13
    <3> QED BY <3>1, <2>13, Times
  <2>18. k * (x1 - x0) = k * x1 - k * x0 /\ k * x1 \in Int /\ k * x0 \in Int /\ k * (y1 - y0) \in Int BY <2>13
  <2>19. Paid[q] + first >= k * x1 BY <2>7, <2>8, <2>14, <2>15, <2>17, <2>18
  <2>20. SumFunctionOnSet(Paid, S) >= 10 * Multiplier * AtOnce(side, SumFunctionOnSet(Bases, S))
    BY <2>3, <2>8, <2>16, <2>19 DEF k, x1
  <2> QED BY <1>4, <2>20
<1> QED BY <1>5, <1>6

\* Nothing is charged at first.
LEMMA PartsPayInit == PriceInit => PartsPay
<1> SUFFICES ASSUME PriceInit PROVE PartsPay OBVIOUS
<1>1. Charged = {} BY DEF PriceInit, Charged
<1>2. SumFunctionOnSet(Paid, {}) = 0 /\ SumFunctionOnSet(Bases, {}) = 0 BY SumEmpty
<1>3. AtOnce(side, 0) = 0
  <2>1. AtLeast0(0 - FreeZone) = 0 BY PriceConstants DEF AtLeast0
  <2>2. side \in Sides /\ 0 \in 0 .. PoolCap BY PriceConstants DEF PriceInit
  <2>3. G(side, 0) = 0 BY <2>2, CostGrows
  <2> QED BY <2>1, <2>3 DEF AtOnce
<1>4. 0 >= 10 * Multiplier * 0
  <2>1. \A x \in Int : x * 0 = 0 OBVIOUS
  <2> QED BY <2>1, PriceConstants
<1>5. \A S \in SUBSET Charged : S = {} BY <1>1
<1> QED BY <1>2, <1>3, <1>4, <1>5 DEF PartsPay

\* Every step keeps what the parts pay.
LEMMA PartsPayStep == InThePool /\ PriceTypes /\ PartsPay /\ [PriceNext]_priceVars => PartsPay'
<1> SUFFICES ASSUME InThePool, PriceTypes, PartsPay, [PriceNext]_priceVars PROVE PartsPay' OBVIOUS
<1>0. PriceTypes' BY PriceTypesStep
<1>1. ASSUME side' = side, taken' \ unchecked' \subseteq taken \ unchecked, \A x \in taken' \ unchecked' : held'[x] = held[x]
      PROVE  PartsPay'
  <2>1. \A x \in Charged' : x \in Charged /\ held'[x] = held[x] BY <1>1 DEF Charged, Paid, Leeway, PriceTypes
  <2> QED BY <2>1, <1>0, <1>1, PartsStay
<1>2. CASE UNCHANGED priceVars BY <1>1, <1>2 DEF priceVars
<1>3. CASE MarketMoves BY <1>1, <1>3 DEF MarketMoves
<1>4. ASSUME NEW q \in HeldQuotes, Lapse(q) PROVE PartsPay'
  <2>1. \A x \in taken' : x # q BY <1>4 DEF Lapse
  <2> QED BY <2>1, <1>1, <1>4 DEF Lapse, PriceTypes
<1>5. ASSUME NEW q \in HeldQuotes, NEW size \in 1 .. MaxSize, Ask(q, size) PROVE PartsPay'
  <2>1. NotHeld.quoted = FALSE BY DEF NotHeld, Rejected
  <2>2. q \notin taken BY <2>1, <1>5 DEF Ask, PriceTypes, QuoteOK
  <2> QED BY <2>2, <1>1, <1>5 DEF Ask, PriceTypes
<1>6. ASSUME NEW q \in HeldQuotes, Confirm(q) PROVE PartsPay'
  <2> DEFINE checked == held[q].impact > 0 /\ depth
  <2>0. q \notin taken /\ held[q].quoted /\ UNCHANGED <<side, mid, depth>> BY <1>6 DEF Confirm
  <2>1. CASE mid = 0 \/ (checked /\ TakerFavourable(q))
    <3>1. held' = [held EXCEPT ![q] = NotHeld] /\ UNCHANGED <<taken, unchecked>> BY <2>1, <1>6 DEF Confirm
    <3>2. \A x \in taken' : held'[x] = held[x] BY <3>1, <2>0 DEF PriceTypes
    <3> QED BY <3>1, <3>2, <2>0, <1>1
  <2>2. CASE ~(mid = 0 \/ (checked /\ TakerFavourable(q))) /\ ~checked
    <3>1. taken' = taken \cup {q} /\ held' = held /\ unchecked' = unchecked \cup {q} BY <2>2, <1>6 DEF Confirm
    <3> QED BY <3>1, <2>0, <1>1
  <2>3. CASE ~(mid = 0 \/ (checked /\ TakerFavourable(q))) /\ checked
    <3>1. taken' = taken \cup {q} /\ held' = held /\ unchecked' = unchecked BY <2>3, <1>6 DEF Confirm
    <3>2. mid = 1 /\ ~TakerFavourable(q) BY <2>3 DEF PriceTypes
    <3> QED BY <3>1, <3>2, <2>0, <1>0, ConfirmPays
  <2> QED BY <2>1, <2>2, <2>3
<1> QED BY <1>2, <1>3, <1>4, <1>5, <1>6 DEF PriceNext

\* Nothing moved costs nothing.
LEMMA NothingCosts == \A s \in Sides : AtOnce(s, 0) = 0
<1> SUFFICES ASSUME NEW s \in Sides PROVE AtOnce(s, 0) = 0 OBVIOUS
<1>1. AtLeast0(0 - FreeZone) = 0 BY PriceConstants DEF AtLeast0
<1>2. 0 \in 0 .. PoolCap BY PriceConstants
<1>3. G(s, 0) = 0 BY <1>2, CostGrows
<1> QED BY <1>1, <1>3 DEF AtOnce

\* And the whole is one of the parts.
LEMMA PartsPayAll == InThePool /\ PriceTypes /\ PartsPay => SplitPaysImpact
<1> SUFFICES ASSUME InThePool, PriceTypes, PartsPay PROVE SplitPaysImpact OBVIOUS
<1> DEFINE b == SumFunctionOnSet(Bases, Charged)
           p == SumFunctionOnSet(Paid, Charged)
           m == 10 * Multiplier
<1>1. Charged \in SUBSET HeldQuotes BY DEF Charged, PriceTypes
<1>2. b \in Nat /\ side \in Sides BY <1>1, NetIs DEF PriceTypes
<1>3. p \in Int BY <1>1, PaidIs, SumSub
<1>4. p >= m * AtOnce(side, b) BY DEF PartsPay
<1>5. b <= MaxSize * Cardinality(HeldQuotes) BY <1>1, NetIs
<1>6. Cardinality(HeldQuotes) \in Nat BY PaidIs, FS_CardinalityType
<1>7. m \in Nat /\ PoolCap + FreeZone \in Nat /\ MaxSize \in Nat BY PriceConstants
<1>8. MaxSize * Cardinality(HeldQuotes) \in Nat BY <1>6, <1>7, Times
<1> HIDE DEF b, p
<1>9. b <= PoolCap + FreeZone /\ 0 <= b /\ b + 0 = b BY <1>2, <1>5, <1>7, <1>8 DEF InThePool
<1>10. AtOnce(side, b) \in Nat
  <2>1. 0 \in Nat /\ b + 0 <= PoolCap + FreeZone BY <1>9
  <2>2. AtOnce(side, b + 0) \in Nat BY <2>1, <1>2, <1>9, AtOnceConvex
  <2> QED BY <2>2, <1>9
<1>11. Impact(side, b, 0) \in Nat /\ Impact(side, b, 0) <= AtLeast0(m * (AtOnce(side, b) - AtOnce(side, 0)))
  <2>1. PICK n \in Nat : n = 0 OBVIOUS
  <2>2. \A s \in Sides : LET net == IF s = "buy" THEN n ELSE -n
                         IN  Impact(s, b, 0) \in Nat /\ Impact(s, b, 0) <= AtLeast0(10 * Multiplier * (AtOnce(s, b) - AtOnce(s, 0)))
    BY <1>2, ImpactIs
  <2> QED BY <2>2, <1>2
<1> HIDE DEF m
<1>12. m * (AtOnce(side, b) - AtOnce(side, 0)) = m * AtOnce(side, b) /\ m * AtOnce(side, b) \in Nat
  <2>1. AtOnce(side, b) - AtOnce(side, 0) = AtOnce(side, b) BY <1>2, <1>10, NothingCosts
  <2> QED BY <2>1, <1>7, <1>10, Times
<1>13. Impact(side, b, 0) <= m * AtOnce(side, b) BY <1>11, <1>12 DEF AtLeast0
<1>14. p >= Impact(side, b, 0) BY <1>3, <1>4, <1>11, <1>12, <1>13
<1> QED BY <1>14 DEF SplitPaysImpact, b, p

\* A size costs its impact however it is cut, for every curve, tolerance, cap and number
\* of quotes that together stay inside the pool fraction: beyond it the curve is flat in
\* its slope, and a later part may cost less than an earlier one.
THEOREM SplitPaysImpactHolds ==
  ASSUME InThePool
  PROVE  PriceSpec => []SplitPaysImpact
<1> DEFINE Inv == PriceTypes /\ PartsPay
<1>1. PriceInit => Inv BY PriceTypesInit, PartsPayInit
<1>2. Inv /\ [PriceNext]_priceVars => Inv' BY PriceTypesStep, PartsPayStep
<1>3. Inv => SplitPaysImpact BY PartsPayAll
<1> QED BY <1>1, <1>2, <1>3, PTL DEF PriceSpec

-----------------------------------------------------------------------------
(* The denomination ladder: sums over a plan                                  *)

\* Sums that grow with their terms, and with one more index.
LEMMA SumLess ==
  ASSUME NEW S, IsFiniteSet(S), NEW f, NEW g, Ints(f, S), Ints(g, S), \A x \in S : f[x] <= g[x]
  PROVE  SumFunctionOnSet(f, S) <= SumFunctionOnSet(g, S)
<1> DEFINE C == {T \in SUBSET S : SumFunctionOnSet(f, T) <= SumFunctionOnSet(g, T)}
<1>1. {} \in C BY SumEmpty
<1>2. ASSUME NEW T \in SUBSET S, NEW x \in S, T \in C PROVE T \cup {x} \in C
  <2>1. CASE x \in T
    <3>1. T \cup {x} = T BY <2>1
    <3> QED BY <3>1, <1>2, Zenon
  <2>2. CASE x \notin T
    <3>0. SumFunctionOnSet(f, T) <= SumFunctionOnSet(g, T) BY <1>2
    <3> HIDE DEF C
    <3>1. SumFunctionOnSet(f, T \cup {x}) = f[x] + SumFunctionOnSet(f, T) /\ SumFunctionOnSet(f, T) \in Int BY <2>2, SumSub
    <3>2. SumFunctionOnSet(g, T \cup {x}) = g[x] + SumFunctionOnSet(g, T) /\ SumFunctionOnSet(g, T) \in Int BY <2>2, SumSub
    <3>3. SumFunctionOnSet(f, T \cup {x}) <= SumFunctionOnSet(g, T \cup {x}) BY <3>0, <3>1, <3>2 DEF Ints
    <3> QED BY <3>3 DEF C
  <2> QED BY <2>1, <2>2
<1> HIDE DEF C
<1>3. S \in C BY <1>1, <1>2, FiniteSetInduction
<1> QED BY <1>3 DEF C

\* And with one more index.
LEMMA SumUpto ==
  ASSUME NEW n \in Nat, NEW f, Ints(f, 1 .. (n + 1))
  PROVE  /\ SumFunctionOnSet(f, 1 .. n) \in Int
         /\ SumFunctionOnSet(f, 1 .. (n + 1)) = SumFunctionOnSet(f, 1 .. n) + f[n + 1]
<1> DEFINE S == 1 .. (n + 1)
           A == 1 .. n
           x == n + 1
<1>1. IsFiniteSet(S) BY FS_Interval
<1>2. A \in SUBSET S /\ x \in S \ A /\ A \cup {x} = S OBVIOUS
<1>3. f[x] \in Int BY <1>2 DEF Ints
<1> HIDE DEF S, A, x
<1>4. SumFunctionOnSet(f, A) \in Int /\ SumFunctionOnSet(f, A \cup {x}) = f[x] + SumFunctionOnSet(f, A)
  <2>1. Ints(f, S) BY DEF S
  <2> QED BY <2>1, <1>1, <1>2, SumSub
<1>a. SumFunctionOnSet(f, S) = SumFunctionOnSet(f, A \cup {x}) BY <1>2, Zenon
<1>5. SumFunctionOnSet(f, S) = SumFunctionOnSet(f, A) + f[x] BY <1>a, <1>3, <1>4
<1> QED BY <1>4, <1>5 DEF S, A, x

\* Naturals sum to a natural.
LEMMA SumNat ==
  ASSUME NEW S, IsFiniteSet(S), NEW f, \A x \in S : f[x] \in Nat
  PROVE  Ints(f, S) /\ SumFunctionOnSet(f, S) \in Nat
<1>1. Ints(f, S) BY DEF Ints
<1>2. SumFunctionOnSet(f, S) \in Int BY <1>1, SumStep
<1>3. \A x \in S : f[x] >= 0 OBVIOUS
<1>4. SumFunctionOnSet(f, S) >= 0 * Cardinality(S) BY <1>1, <1>3, SumBounds
<1>5. Cardinality(S) \in Nat BY FS_CardinalityType
<1>6. 0 * Cardinality(S) = 0 BY <1>5
<1> QED BY <1>1, <1>2, <1>4, <1>6

\* One term that changes changes the sum by as much.
LEMMA SumChange ==
  ASSUME NEW S, IsFiniteSet(S), NEW f, NEW g, Ints(f, S), Ints(g, S), NEW k \in S, \A x \in S \ {k} : f[x] = g[x]
  PROVE  SumFunctionOnSet(g, S) = (SumFunctionOnSet(f, S) - f[k]) + g[k]
<1>1. SumFunctionOnSet(f, S) = f[k] + SumFunctionOnSet(f, S \ {k}) BY SumAdd
<1>2. SumFunctionOnSet(g, S) = g[k] + SumFunctionOnSet(g, S \ {k}) BY SumAdd
<1>3. IsFiniteSet(S \ {k}) /\ Ints(f, S \ {k}) BY FS_Subset DEF Ints
<1>4. SumFunctionOnSet(f, S \ {k}) = SumFunctionOnSet(g, S \ {k}) BY <1>3, SumSame
<1>5. f[k] \in Int /\ g[k] \in Int /\ SumFunctionOnSet(f, S \ {k}) \in Int BY <1>3, SumStep DEF Ints
<1> QED BY <1>1, <1>2, <1>4, <1>5

\* What Max of a finite set of integers is.
LEMMA MaxIn ==
  ASSUME NEW s, IsFiniteSet(s), s \subseteq Int, s # {}
  PROVE  Max(s) \in s /\ \A x \in s : x <= Max(s)
<1> DEFINE f == [x \in s |-> x]
<1>1. Ints(f, s) BY DEF Ints
<1>2. PICK m \in s : \A x \in s : f[x] <= f[m] BY <1>1, LargestOne
<1>3. \E m2 \in s : \A x \in s : x <= m2 BY <1>2
<1> QED BY <1>3 DEF Max

\* The largest index is the last.
LEMMA MaxUpto ==
  ASSUME NEW n \in Nat
  PROVE  Max(1 .. (n + 1)) = n + 1 /\ (1 .. (n + 1)) \ {Max(1 .. (n + 1))} = 1 .. n /\ 1 .. (n + 1) # {}
<1>1. IsFiniteSet(1 .. (n + 1)) BY FS_Interval
<1>2. 1 .. (n + 1) # {} /\ 1 .. (n + 1) \subseteq Int /\ n + 1 \in 1 .. (n + 1) OBVIOUS
<1>3. Max(1 .. (n + 1)) \in 1 .. (n + 1) /\ n + 1 <= Max(1 .. (n + 1)) BY <1>1, <1>2, MaxIn
<1>4. Max(1 .. (n + 1)) = n + 1 BY <1>3
<1> QED BY <1>2, <1>4

\* A function that is its own recursion over the parts of 1 .. n exists.
FoldOf(h, n, D, b, st) ==
  /\ h \in [SUBSET (1 .. n) -> D]
  /\ \A s \in SUBSET (1 .. n) : h[s] = IF s = {} THEN b ELSE st[<<h[s \ {Max(s)}], Max(s)>>]

\* By induction over n, about a set of functions.
LEMMA FoldExists ==
  ASSUME NEW n \in Nat, NEW D, NEW b \in D, NEW st \in [D \X (1 .. n) -> D]
  PROVE  \E h : FoldOf(h, n, D, b, st)
<1> DEFINE S == 1 .. n
           To(h, s) == IF s = {} THEN b ELSE st[<<h[s \ {Max(s)}], Max(s)>>]
           Upto(h, m) == \A s \in SUBSET S : Cardinality(s) <= m => h[s] = To(h, s)
           N == {m \in Nat : \E h \in [SUBSET S -> D] : Upto(h, m)}
<1>0. IsFiniteSet(S) BY FS_Interval
<1>a. ASSUME NEW s \in SUBSET S, s # {} PROVE Max(s) \in s /\ Max(s) \in S /\ s \ {Max(s)} \in SUBSET S
  <2>0. S \subseteq Int OBVIOUS
  <2> HIDE DEF S
  <2>1. IsFiniteSet(s) /\ s \subseteq Int BY <1>0, <2>0, FS_Subset
  <2> QED BY <2>1, <1>a, MaxIn
<1>1. 0 \in N
  <2> DEFINE h == [s \in SUBSET S |-> b]
  <2>1. h \in [SUBSET S -> D] OBVIOUS
  <2>2. ASSUME NEW s \in SUBSET S, Cardinality(s) <= 0 PROVE h[s] = To(h, s)
    <3>1. IsFiniteSet(s) BY <1>0, FS_Subset
    <3>2. s = {} BY <2>2, <3>1, FS_EmptySet, FS_CardinalityType
    <3> QED BY <3>2
  <2> QED BY <2>1, <2>2
<1>2. ASSUME NEW m \in Nat, m \in N PROVE m + 1 \in N
  <2>1. PICK h \in [SUBSET S -> D] : Upto(h, m) BY <1>2
  <2> DEFINE k == [s \in SUBSET S |-> To(h, s)]
  <2>2. k \in [SUBSET S -> D]
    <3> SUFFICES ASSUME NEW s \in SUBSET S PROVE To(h, s) \in D OBVIOUS
    <3> QED BY <1>a
  <2>3. ASSUME NEW s \in SUBSET S, Cardinality(s) <= m + 1 PROVE k[s] = To(k, s)
    <3>1. CASE s = {} BY <3>1
    <3>2. CASE s # {}
      <4> DEFINE t == s \ {Max(s)}
      <4>1. t \in SUBSET S OBVIOUS
      <4>2. IsFiniteSet(s) BY <1>0, FS_Subset
      <4>3. Cardinality(t) = Cardinality(s) - 1 /\ Cardinality(s) \in Nat BY <4>2, <3>2, <1>a, FS_RemoveElement, FS_CardinalityType
      <4>a. Cardinality(t) <= m BY <2>3, <4>3
      <4>4. h[t] = To(h, t) BY <2>1, <4>1, <4>a
      <4>5. k[t] = h[t] BY <4>1, <4>4
      <4>6. k[s] = st[<<h[t], Max(s)>>] BY <3>2
      <4> QED BY <3>2, <4>5, <4>6
    <3> QED BY <3>1, <3>2
  <2> HIDE DEF k, To
  <2>4. Upto(k, m + 1) BY <2>3
  <2>5. \E g \in [SUBSET S -> D] : Upto(g, m + 1) BY <2>2, <2>4
  <2> HIDE DEF Upto
  <2> QED BY <2>5
<1> HIDE DEF N
<1>3. \A m \in Nat : m \in N BY <1>1, <1>2, NatSetInduction
<1>4. Cardinality(S) \in Nat BY <1>0, FS_CardinalityType
<1>5. PICK h \in [SUBSET S -> D] : Upto(h, Cardinality(S)) BY <1>3, <1>4 DEF N
<1>6. \A s \in SUBSET S : Cardinality(s) <= Cardinality(S) BY <1>0, FS_Subset
<1>7. FoldOf(h, n, D, b, st) BY <1>5, <1>6 DEF FoldOf
<1> QED BY <1>7

\* Plans of <<denomination, count>>, and what one of them asks for of a denomination.
Plans == Seq(Int \X Nat)
Asks(p, d) == [i \in DOMAIN p |-> IF p[i][1] = d THEN p[i][2] ELSE 0]

\* What a plan asks for of a denomination is a natural, and so are its counts.
LEMMA PlanIs ==
  ASSUME NEW p \in Plans, NEW d
  PROVE  /\ Len(p) \in Nat /\ DOMAIN p = 1 .. Len(p) /\ IsFiniteSet(1 .. Len(p))
         /\ \A i \in 1 .. Len(p) : p[i] \in Int \X Nat /\ p[i][1] \in Int /\ p[i][2] \in Nat /\ Asks(p, d)[i] \in Nat
                                   /\ Asks(p, d)[i] = IF p[i][1] = d THEN p[i][2] ELSE 0
         /\ CountOf(p, d) = SumFunctionOnSet(Asks(p, d), 1 .. Len(p)) /\ CountOf(p, d) \in Nat
         /\ Ints(Asks(p, d), 1 .. Len(p))
<1>1. Len(p) \in Nat /\ DOMAIN p = 1 .. Len(p) BY DEF Plans
<1>2. IsFiniteSet(1 .. Len(p)) BY <1>1, FS_Interval
<1>3. \A i \in 1 .. Len(p) : p[i] \in Int \X Nat /\ p[i][1] \in Int /\ p[i][2] \in Nat BY <1>1 DEF Plans
<1>4. \A i \in 1 .. Len(p) : Asks(p, d)[i] \in Nat /\ Asks(p, d)[i] = IF p[i][1] = d THEN p[i][2] ELSE 0
  BY <1>1, <1>3 DEF Asks
<1>5. CountOf(p, d) = SumFunctionOnSet(Asks(p, d), 1 .. Len(p)) BY <1>1, Zenon DEF CountOf, Asks
<1>6. Ints(Asks(p, d), 1 .. Len(p)) /\ SumFunctionOnSet(Asks(p, d), 1 .. Len(p)) \in Nat BY <1>2, <1>4, SumNat
<1> QED BY <1>1, <1>2, <1>3, <1>4, <1>5, <1>6

\* An empty plan asks for nothing.
LEMMA CountNone == << >> \in Plans /\ \A d : CountOf(<< >>, d) = 0
<1>1. << >> \in Plans BY DEF Plans
<1>2. \A d : CountOf(<< >>, d) = SumFunctionOnSet(Asks(<< >>, d), 1 .. 0) BY <1>1, PlanIs
<1>3. 1 .. 0 = {} OBVIOUS
<1> QED BY <1>1, <1>2, <1>3, SumEmpty

\* What one more entry asks for.
LEMMA CountAppend ==
  ASSUME NEW p \in Plans, NEW a \in Int, NEW n \in Nat, NEW d
  PROVE  /\ Append(p, <<a, n>>) \in Plans
         /\ CountOf(Append(p, <<a, n>>), d) = CountOf(p, d) + (IF a = d THEN n ELSE 0)
<1> DEFINE q == Append(p, <<a, n>>)
           m == Len(p)
<1>1. q \in Plans /\ Len(q) = m + 1 /\ m \in Nat /\ q[m + 1] = <<a, n>> /\ \A i \in 1 .. m : q[i] = p[i] BY DEF Plans
<1> HIDE DEF q, m
<1>2. Asks(q, d)[m + 1] = IF a = d THEN n ELSE 0
  <2>1. m + 1 \in 1 .. Len(q) BY <1>1
  <2>2. Asks(q, d)[m + 1] = IF q[m + 1][1] = d THEN q[m + 1][2] ELSE 0 BY <1>1, <2>1, PlanIs
  <2> QED BY <2>2, <1>1
<1>3. Ints(Asks(q, d), 1 .. (m + 1)) /\ CountOf(q, d) = SumFunctionOnSet(Asks(q, d), 1 .. (m + 1))
  <2>1. Ints(Asks(q, d), 1 .. Len(q)) /\ CountOf(q, d) = SumFunctionOnSet(Asks(q, d), 1 .. Len(q)) BY <1>1, PlanIs
  <2> QED BY <1>1, <2>1
<1>4. CountOf(q, d) = SumFunctionOnSet(Asks(q, d), 1 .. m) + (IF a = d THEN n ELSE 0) BY <1>1, <1>2, <1>3, SumUpto
<1>5. SumFunctionOnSet(Asks(q, d), 1 .. m) = CountOf(p, d)
  <2>1. /\ IsFiniteSet(1 .. m) /\ Ints(Asks(p, d), 1 .. m) /\ CountOf(p, d) = SumFunctionOnSet(Asks(p, d), 1 .. m)
        /\ \A i \in 1 .. m : Asks(p, d)[i] = IF p[i][1] = d THEN p[i][2] ELSE 0
    BY PlanIs DEF m
  <2>2. \A i \in 1 .. m : Asks(q, d)[i] = IF q[i][1] = d THEN q[i][2] ELSE 0
    <3>1. \A i \in 1 .. Len(q) : Asks(q, d)[i] = IF q[i][1] = d THEN q[i][2] ELSE 0 BY <1>1, PlanIs
    <3> QED BY <3>1, <1>1
  <2>3. \A i \in 1 .. m : Asks(p, d)[i] = Asks(q, d)[i] BY <2>1, <2>2, <1>1
  <2>4. SumFunctionOnSet(Asks(p, d), 1 .. m) = SumFunctionOnSet(Asks(q, d), 1 .. m) BY <2>1, <2>3, SumSame
  <2> QED BY <2>1, <2>4
<1> QED BY <1>1, <1>4, <1>5 DEF q

\* Two plans, one after the other, ask for what each asks for.
LEMMA CountConcat ==
  ASSUME NEW p \in Plans, NEW q \in Plans, NEW d
  PROVE  p \o q \in Plans /\ CountOf(p \o q, d) = CountOf(p, d) + CountOf(q, d)
<1> DEFINE r == p \o q
           m == Len(p)
           n == Len(q)
           f == Asks(r, d)
           g == Asks(q, d)
           C == {k \in Nat : k <= n => SumFunctionOnSet(f, 1 .. (m + k)) = CountOf(p, d) + SumFunctionOnSet(g, 1 .. k)}
<1>1. r \in Plans /\ m \in Nat /\ n \in Nat /\ Len(r) = m + n BY DEF Plans
<1>2. /\ \A i \in 1 .. m : r[i] = p[i]
      /\ \A i \in 1 .. n : r[m + i] = q[i]
  BY DEF Plans
<1> HIDE DEF r
<1>3. /\ \A i \in 1 .. (m + n) : f[i] = (IF r[i][1] = d THEN r[i][2] ELSE 0) /\ f[i] \in Nat
      /\ CountOf(r, d) = SumFunctionOnSet(f, 1 .. (m + n)) /\ IsFiniteSet(1 .. (m + n))
  <2>1. /\ \A i \in 1 .. Len(r) : f[i] = (IF r[i][1] = d THEN r[i][2] ELSE 0) /\ f[i] \in Nat
        /\ CountOf(r, d) = SumFunctionOnSet(f, 1 .. Len(r)) /\ IsFiniteSet(1 .. Len(r))
    BY <1>1, PlanIs
  <2> QED BY <1>1, <2>1
<1>4. /\ \A i \in 1 .. n : g[i] = (IF q[i][1] = d THEN q[i][2] ELSE 0) /\ g[i] \in Nat
      /\ CountOf(q, d) = SumFunctionOnSet(g, 1 .. n)
  BY PlanIs
<1>5. /\ \A i \in 1 .. m : Asks(p, d)[i] = (IF p[i][1] = d THEN p[i][2] ELSE 0)
      /\ CountOf(p, d) = SumFunctionOnSet(Asks(p, d), 1 .. m) /\ CountOf(p, d) \in Nat
      /\ IsFiniteSet(1 .. m) /\ Ints(Asks(p, d), 1 .. m)
  BY PlanIs
<1> HIDE DEF f, g, m, n
<1>6. 0 \in C
  <2>1. \A i \in 1 .. m : Asks(p, d)[i] = f[i]
    <3> TAKE i \in 1 .. m
    <3>1. i \in 1 .. (m + n) BY <1>1
    <3> QED BY <3>1, <1>2, <1>3, <1>5
  <2>2. SumFunctionOnSet(Asks(p, d), 1 .. m) = SumFunctionOnSet(f, 1 .. m) BY <2>1, <1>5, SumSame
  <2>3. 1 .. 0 = {} /\ m + 0 = m BY <1>1
  <2>4. SumFunctionOnSet(g, 1 .. 0) = 0 BY <2>3, SumEmpty
  <2>5. SumFunctionOnSet(f, 1 .. (m + 0)) = SumFunctionOnSet(f, 1 .. m) BY <2>3
  <2> QED BY <2>2, <2>4, <2>5, <1>5
<1>7. ASSUME NEW k \in Nat, k \in C PROVE k + 1 \in C
  <2> SUFFICES ASSUME k + 1 <= n
               PROVE  SumFunctionOnSet(f, 1 .. (m + (k + 1))) = CountOf(p, d) + SumFunctionOnSet(g, 1 .. (k + 1))
    OBVIOUS
  <2>1. SumFunctionOnSet(f, 1 .. (m + k)) = CountOf(p, d) + SumFunctionOnSet(g, 1 .. k) BY <1>1, <1>7
  <2>2. m + k \in Nat /\ m + (k + 1) = (m + k) + 1 /\ m + (k + 1) <= m + n /\ m + (k + 1) \in 1 .. (m + n) /\ k + 1 \in 1 .. n
    BY <1>1
  <2>3. Ints(f, 1 .. ((m + k) + 1)) /\ Ints(g, 1 .. (k + 1)) BY <1>1, <1>3, <1>4, <2>2 DEF Ints
  <2>4. /\ SumFunctionOnSet(f, 1 .. ((m + k) + 1)) = SumFunctionOnSet(f, 1 .. (m + k)) + f[(m + k) + 1]
        /\ SumFunctionOnSet(f, 1 .. (m + k)) \in Int
    BY <2>2, <2>3, SumUpto
  <2>5. SumFunctionOnSet(g, 1 .. (k + 1)) = SumFunctionOnSet(g, 1 .. k) + g[k + 1] /\ SumFunctionOnSet(g, 1 .. k) \in Int
    BY <2>3, SumUpto
  <2>6. f[m + (k + 1)] = g[k + 1] /\ g[k + 1] \in Nat BY <2>2, <1>2, <1>3, <1>4
  <2>7. SumFunctionOnSet(f, 1 .. (m + (k + 1))) = SumFunctionOnSet(f, 1 .. (m + k)) + f[m + (k + 1)] BY <2>2, <2>4
  <2> QED BY <2>1, <2>5, <2>6, <2>7, <1>5
<1> HIDE DEF C
<1>8. n \in C BY <1>1, <1>6, <1>7, NatSetInduction
<1>9. SumFunctionOnSet(f, 1 .. (m + n)) = CountOf(p, d) + SumFunctionOnSet(g, 1 .. n) BY <1>1, <1>8 DEF C
<1> QED BY <1>1, <1>3, <1>4, <1>9 DEF r

\* The recursion of Missing, spelled out.
AddMissing(plan, rungs, haves, i) ==
  IF rungs[i][2] > haves[i] THEN Append(plan, <<rungs[i][1], rungs[i][2] - haves[i]>>) ELSE plan
\* The largest index of a nonempty part of the rungs.
LEMMA MaxOfPart ==
  ASSUME NEW n \in Nat, NEW s \in SUBSET (1 .. n), s # {}
  PROVE  Max(s) \in s /\ Max(s) \in 1 .. n
<1>1. IsFiniteSet(1 .. n) /\ 1 .. n \subseteq Int BY FS_Interval
<1>2. IsFiniteSet(s) /\ s \subseteq Int BY <1>1, FS_Subset
<1> QED BY <1>2, MaxIn

\* plan_ladder_refill, rung by rung: the plan after each is that before it, with what
\* is missing of the rung.
LEMMA MissingSteps ==
  ASSUME NEW rungs \in Plans, NEW haves \in [DOMAIN rungs -> Int]
  PROVE  \E k : /\ k[0] = << >> /\ k[Len(rungs)] = Missing(rungs, haves)
                /\ \A i \in 0 .. Len(rungs) - 1 : k[i + 1] = AddMissing(k[i], rungs, haves, i + 1)
<1> DEFINE n == Len(rungs)
           idx == [i \in DOMAIN rungs |-> i]
           E(g) == g = [s \in SUBSET DOMAIN idx |-> IF s = {} THEN << >> ELSE AddMissing(g[s \ {Max(s)}], rungs, haves, idx[Max(s)])]
           st == [z \in Plans \X (1 .. n) |-> AddMissing(z[1], rungs, haves, z[2])]
           g == CHOOSE h : E(h)
           k == [i \in 0 .. n |-> g[1 .. i]]
<1>1. n \in Nat /\ DOMAIN rungs = 1 .. n /\ DOMAIN idx = 1 .. n BY PlanIs
<1>2. Missing(rungs, haves) = g[DOMAIN idx]
  <2>1. Missing(rungs, haves) =
          (CHOOSE h : h = [s \in SUBSET DOMAIN [i \in DOMAIN rungs |-> i] |->
                             IF s = {} THEN << >>
                             ELSE AddMissing(h[s \ {Max(s)}], rungs, haves, [i \in DOMAIN rungs |-> i][Max(s)])])
          [DOMAIN [i \in DOMAIN rungs |-> i]]
    BY DEF Missing, FoldLeftDomain, FoldLeft, MapThenFoldSet, AddMissing
  <2> QED BY ONLY <2>1
<1>3. << >> \in Plans /\ st \in [Plans \X (1 .. n) -> Plans]
  <2>1. ASSUME NEW p \in Plans, NEW i \in 1 .. n PROVE AddMissing(p, rungs, haves, i) \in Plans
    <3>1. rungs[i][1] \in Int /\ rungs[i][2] \in Nat /\ haves[i] \in Int BY <1>1, PlanIs
    <3>2. rungs[i][2] > haves[i] => rungs[i][2] - haves[i] \in Nat BY <3>1
    <3> QED BY <3>1, <3>2, CountAppend DEF AddMissing
  <2> QED BY <2>1, CountNone
<1>4. PICK h : FoldOf(h, n, Plans, << >>, st)
  <2> HIDE DEF st, n
  <2> QED BY <1>1, <1>3, FoldExists
<1>4a. /\ h \in [SUBSET (1 .. n) -> Plans]
       /\ \A s \in SUBSET (1 .. n) : h[s] = IF s = {} THEN << >> ELSE st[<<h[s \ {Max(s)}], Max(s)>>]
  <2> HIDE DEF st, n
  <2> QED BY <1>4 DEF FoldOf
<1>5. E(h)
  <2>1. ASSUME NEW s \in SUBSET (1 .. n)
        PROVE  h[s] = IF s = {} THEN << >> ELSE AddMissing(h[s \ {Max(s)}], rungs, haves, idx[Max(s)])
    <3>1. CASE s = {} BY <3>1, <1>4a
    <3>2. CASE s # {}
      <4>1. Max(s) \in 1 .. n /\ s \ {Max(s)} \in SUBSET (1 .. n) BY <3>2, <1>1, MaxOfPart
      <4>2. h[s \ {Max(s)}] \in Plans /\ idx[Max(s)] = Max(s) BY <4>1, <1>1, <1>4a
      <4>3. <<h[s \ {Max(s)}], Max(s)>> \in Plans \X (1 .. n) BY <4>1, <4>2
      <4>4. h[s] = st[<<h[s \ {Max(s)}], Max(s)>>] BY <3>2, <1>4a
      <4> QED BY <3>2, <4>2, <4>3, <4>4
    <3> QED BY <3>1, <3>2
  <2>2. h = [s \in SUBSET (1 .. n) |-> h[s]] BY <1>4a
  <2> HIDE DEF idx, n, st
  <2> QED BY <1>1, <2>1, <2>2
<1>6. E(g)
  <2> HIDE DEF E
  <2> QED BY <1>5
<1>7. \A s \in SUBSET (1 .. n) : g[s] = IF s = {} THEN << >> ELSE AddMissing(g[s \ {Max(s)}], rungs, haves, idx[Max(s)])
  <2> HIDE DEF g, idx, n
  <2> QED BY <1>1, <1>6
<1>8. k[0] = << >>
  <2>1. 0 \in 0 .. n /\ 1 .. 0 = {} /\ {} \in SUBSET (1 .. n) BY <1>1
  <2>2. g[{}] = << >> BY <2>1, <1>7
  <2> HIDE DEF g
  <2> QED BY <2>1, <2>2
<1>9. k[n] = Missing(rungs, haves)
  <2> HIDE DEF g, idx
  <2> QED BY <1>1, <1>2
<1>10. ASSUME NEW i \in 0 .. n - 1 PROVE k[i + 1] = AddMissing(k[i], rungs, haves, i + 1)
  <2>1. i \in Nat /\ i \in 0 .. n /\ i + 1 \in 0 .. n /\ i + 1 \in 1 .. n /\ 1 .. (i + 1) \in SUBSET (1 .. n) BY <1>1
  <2>2. Max(1 .. (i + 1)) = i + 1 /\ (1 .. (i + 1)) \ {Max(1 .. (i + 1))} = 1 .. i /\ 1 .. (i + 1) # {} BY <2>1, MaxUpto
  <2>3. idx[i + 1] = i + 1 BY <1>1, <2>1
  <2> HIDE DEF g, idx
  <2>4. g[1 .. (i + 1)] = AddMissing(g[1 .. i], rungs, haves, i + 1)
    <3>1. g[1 .. (i + 1)] = AddMissing(g[(1 .. (i + 1)) \ {Max(1 .. (i + 1))}], rungs, haves, idx[Max(1 .. (i + 1))])
      BY <1>7, <2>1, <2>2
    <3> QED BY <2>2, <2>3, <3>1
  <2>5. k[i] = g[1 .. i] /\ k[i + 1] = g[1 .. (i + 1)] BY <2>1
  <2> QED BY <2>4, <2>5
<1> HIDE DEF k
<1> QED BY <1>8, <1>9, <1>10

\* Plans whose denominations are positive.
Payable == Seq((Nat \ {0}) \X Nat)

\* A payable plan is a plan.
LEMMA PayableIs ==
  ASSUME NEW p \in Payable
  PROVE  /\ p \in Plans /\ \A i \in 1 .. Len(p) : p[i] \in (Nat \ {0}) \X Nat
         /\ \A a \in Nat \ {0}, n \in Nat : Append(p, <<a, n>>) \in Payable
BY DEF Payable, Plans

\* The number of its outputs is a natural.
LEMMA CountSumIs == ASSUME NEW p \in Payable PROVE CountSum(p) \in Nat
<1> DEFINE f == [i \in DOMAIN p |-> p[i][2]]
<1>1. DOMAIN p = 1 .. Len(p) /\ \A i \in 1 .. Len(p) : p[i][2] \in Nat BY DEF Payable
<1>2. IsFiniteSet(DOMAIN p) BY <1>1, PayableIs, PlanIs
<1>3. \A i \in DOMAIN p : f[i] \in Nat BY <1>1
<1> HIDE DEF f
<1>4. SumFunctionOnSet(f, DOMAIN p) \in Nat BY <1>2, <1>3, SumNat
<1> QED BY <1>4 DEF CountSum, f

\* The smaller of two.
LEMMA MinTwo ==
  ASSUME NEW a \in Int, NEW b \in Int
  PROVE  Min({a, b}) \in Int /\ Min({a, b}) <= a /\ Min({a, b}) <= b
<1>1. Min({a, b}) = IF a <= b THEN a ELSE b
  <2>1. CASE a <= b
    <3>1. a \in {a, b} /\ \A y \in {a, b} : a <= y BY <2>1
    <3>2. \A x \in {a, b} : (\A y \in {a, b} : x <= y) => x = a BY <2>1
    <3> QED BY <2>1, <3>1, <3>2 DEF Min
  <2>2. CASE ~(a <= b)
    <3>1. b \in {a, b} /\ \A y \in {a, b} : b <= y BY <2>2
    <3>2. \A x \in {a, b} : (\A y \in {a, b} : x <= y) => x = b BY <2>2
    <3> QED BY <2>2, <3>1, <3>2 DEF Min
  <2> QED BY <2>1, <2>2
<1> QED BY <1>1

\* The step of cap_split_outputs.
CapStep(out, x, max) ==
  LET take == Min({x[2], max - CountSum(out)}) IN IF take > 0 THEN Append(out, <<x[1], take>>) ELSE out

\* One step of cap_split_outputs keeps the plan payable and grows it by no more than the entry.
LEMMA CapStepIs ==
  ASSUME NEW out \in Payable, NEW x, x[1] \in Nat \ {0}, x[2] \in Nat, NEW max \in Nat
  PROVE  /\ CapStep(out, x, max) \in Payable
         /\ \A d : CountOf(CapStep(out, x, max), d) <= CountOf(out, d) + (IF x[1] = d THEN x[2] ELSE 0)
<1> DEFINE take == Min({x[2], max - CountSum(out)})
<1>1. CountSum(out) \in Nat BY CountSumIs
<1>2. take \in Int /\ take <= x[2]
  <2> DEFINE a == x[2]
             b == max - CountSum(out)
  <2>1. a \in Int /\ b \in Int BY <1>1
  <2> HIDE DEF a, b
  <2>2. Min({a, b}) \in Int /\ Min({a, b}) <= a BY <2>1, MinTwo
  <2> QED BY <2>2 DEF a, b
<1>3. CapStep(out, x, max) = IF take > 0 THEN Append(out, <<x[1], take>>) ELSE out BY DEF CapStep
<1>4. out \in Plans /\ \A d : CountOf(out, d) \in Nat BY PayableIs, PlanIs
<1> HIDE DEF take
<1>5. CASE take > 0
  <2>1. take \in Nat BY <1>2, <1>5
  <2>2. Append(out, <<x[1], take>>) \in Payable BY <2>1, PayableIs
  <2>3. \A d : CountOf(Append(out, <<x[1], take>>), d) = CountOf(out, d) + (IF x[1] = d THEN take ELSE 0)
    BY <2>1, <1>4, CountAppend
  <2>4. CapStep(out, x, max) = Append(out, <<x[1], take>>) BY <1>3, <1>5
  <2>5. ASSUME NEW d PROVE CountOf(CapStep(out, x, max), d) <= CountOf(out, d) + (IF x[1] = d THEN x[2] ELSE 0)
    <3> DEFINE c == CountOf(out, d)
               e == CountOf(CapStep(out, x, max), d)
    <3>1. c \in Nat /\ e = c + (IF x[1] = d THEN take ELSE 0) BY <1>4, <2>3, <2>4
    <3> HIDE DEF c, e
    <3>2. e <= c + (IF x[1] = d THEN x[2] ELSE 0) BY <3>1, <2>1, <1>2
    <3> QED BY <3>2 DEF c, e
  <2> QED BY <2>2, <2>4, <2>5
<1>6. CASE ~(take > 0) BY <1>3, <1>4, <1>6
<1> QED BY <1>5, <1>6

\* The step of fund_splits.
FundStep(f, x) ==
  LET n == Min({x[2], f.budget \div (100 * x[1])})
  IN  IF n > 0 THEN [budget |-> f.budget - 100 * x[1] * n, plan |-> Append(f.plan, <<x[1], n>>)] ELSE f
Funds == [budget : Int, plan : Payable]

\* One step of fund_splits, the same.
LEMMA FundStepIs ==
  ASSUME NEW f \in Funds, NEW x, x[1] \in Nat \ {0}, x[2] \in Nat
  PROVE  /\ FundStep(f, x) \in Funds
         /\ \A d : CountOf(FundStep(f, x).plan, d) <= CountOf(f.plan, d) + (IF x[1] = d THEN x[2] ELSE 0)
<1> DEFINE q == f.budget \div (100 * x[1])
           n == Min({x[2], q})
<1>1. f.budget \in Int /\ f.plan \in Payable BY DEF Funds
<1>2. q \in Int
  <2>1. 100 * x[1] \in Nat /\ 100 * x[1] > 0 OBVIOUS
  <2> DEFINE b == 100 * x[1]
  <2> HIDE DEF b
  <2>2. b \in Nat /\ b > 0 BY <2>1 DEF b
  <2>3. f.budget \div b \in Int BY <2>2, <1>1
  <2> QED BY <2>3 DEF b
<1> HIDE DEF q
<1>3. n \in Int /\ n <= x[2]
  <2> DEFINE a == x[2]
  <2>1. a \in Int OBVIOUS
  <2> HIDE DEF a
  <2>2. Min({a, q}) \in Int /\ Min({a, q}) <= a BY <1>2, <2>1, MinTwo
  <2> QED BY <2>2 DEF a
<1>4. FundStep(f, x) = IF n > 0 THEN [budget |-> f.budget - 100 * x[1] * n, plan |-> Append(f.plan, <<x[1], n>>)] ELSE f
  BY DEF FundStep, q
<1>5. f.plan \in Plans /\ \A d : CountOf(f.plan, d) \in Nat BY <1>1, PayableIs, PlanIs
<1> HIDE DEF n
<1>6. CASE n > 0
  <2>1. n \in Nat BY <1>3, <1>6
  <2>2. Append(f.plan, <<x[1], n>>) \in Payable BY <1>1, <2>1, PayableIs
  <2>3. \A d : CountOf(Append(f.plan, <<x[1], n>>), d) = CountOf(f.plan, d) + (IF x[1] = d THEN n ELSE 0)
    BY <2>1, <1>5, CountAppend
  <2>4. f.budget - 100 * x[1] * n \in Int BY <1>1, <2>1
  <2>5. FundStep(f, x) = [budget |-> f.budget - 100 * x[1] * n, plan |-> Append(f.plan, <<x[1], n>>)] BY <1>4, <1>6
  <2>6. FundStep(f, x) \in Funds /\ FundStep(f, x).plan = Append(f.plan, <<x[1], n>>) BY <2>2, <2>4, <2>5 DEF Funds
  <2> QED BY <1>3, <1>5, <2>3, <2>6
<1>7. CASE ~(n > 0) BY <1>4, <1>5, <1>7
<1> QED BY <1>6, <1>7

\* The step of the outputs.
LayOut(s, x) == s \o [i \in 1 .. x[2] |-> x[1]]

\* The outputs of an entry: as many of its amount as it counts.
LEMMA LayOutIs ==
  ASSUME NEW s \in Seq(Nat), NEW x, x[1] \in Nat, x[2] \in Nat
  PROVE  /\ LayOut(s, x) \in Seq(Nat) /\ Len(LayOut(s, x)) = Len(s) + x[2]
         /\ \A i \in 1 .. Len(s) : LayOut(s, x)[i] = s[i]
         /\ \A i \in Len(s) + 1 .. Len(s) + x[2] : LayOut(s, x)[i] = x[1]
<1> DEFINE t == [i \in 1 .. x[2] |-> x[1]]
<1>1. t \in Seq(Nat) /\ Len(t) = x[2] /\ \A i \in 1 .. x[2] : t[i] = x[1]
  <2> DEFINE a == x[1]
             n == x[2]
             u == [i \in 1 .. n |-> a]
  <2>1. a \in Nat /\ n \in Nat OBVIOUS
  <2> HIDE DEF a, n
  <2>2. u \in [1 .. n -> Nat] /\ \A i \in 1 .. n : u[i] = a BY <2>1
  <2>3. u \in Seq(Nat) BY <2>1
  <2>4. Len(u) = n
    <3> HIDE DEF u
    <3>1. DOMAIN u = 1 .. n /\ DOMAIN u = 1 .. Len(u) /\ Len(u) \in Nat BY <2>2, <2>3
    <3> QED BY <2>1, <3>1
  <2>5. t = u BY DEF a, n
  <2> HIDE DEF u, t
  <2> QED BY <2>2, <2>3, <2>4, <2>5 DEF a, n
<1> HIDE DEF t
<1>2. LayOut(s, x) = s \o t BY DEF LayOut, t
<1>a. s \in Seq(Nat) /\ t \in Seq(Nat) BY <1>1
<1>b. s \o t \in Seq(Nat) BY <1>a
<1>c. Len(s \o t) = Len(s) + Len(t) BY <1>a
<1>3. s \o t \in Seq(Nat) /\ Len(s \o t) = Len(s) + x[2] BY <1>1, <1>b, <1>c
<1>4. \A i \in 1 .. Len(s) : (s \o t)[i] = s[i] BY <1>1
<1>5. ASSUME NEW i \in Len(s) + 1 .. Len(s) + x[2] PROVE (s \o t)[i] = x[1]
  <2>1. i - Len(s) \in 1 .. x[2] /\ i \in 1 .. (Len(s) + Len(t)) /\ i > Len(s) BY <1>1
  <2>2. (s \o t)[i] = t[i - Len(s)] BY <1>1, <2>1
  <2> QED BY <1>1, <2>1, <2>2
<1> QED BY <1>2, <1>3, <1>4, <1>5

\* cap_split_outputs, entry by entry.
LEMMA CapSteps ==
  ASSUME NEW plan \in Payable, NEW max \in Nat
  PROVE  \E k : /\ k[0] = << >> /\ CapSplitOutputs(plan, max) = k[Len(plan)]
                /\ \A i \in 0 .. Len(plan) - 1 : k[i + 1] = CapStep(k[i], plan[i + 1], max)
<1> DEFINE n == Len(plan)
           E(g) == g = [s \in SUBSET DOMAIN plan |-> IF s = {} THEN << >> ELSE CapStep(g[s \ {Max(s)}], plan[Max(s)], max)]
           D == Payable
           st == [z \in D \X (1 .. n) |-> CapStep(z[1], plan[z[2]], max)]
           g == CHOOSE h : E(h)
           k == [i \in 0 .. n |-> g[1 .. i]]
<1>1. n \in Nat /\ DOMAIN plan = 1 .. n /\ \A i \in 1 .. n : plan[i][1] \in Nat \ {0} /\ plan[i][2] \in Nat BY DEF Payable
<1>2. CapSplitOutputs(plan, max) = g[DOMAIN plan]
  <2>1. CapSplitOutputs(plan, max) =
          (CHOOSE h : h = [s \in SUBSET DOMAIN plan |->
                             IF s = {} THEN << >> ELSE CapStep(h[s \ {Max(s)}], plan[Max(s)], max)])
          [DOMAIN plan]
    BY DEF CapSplitOutputs, FoldLeft, MapThenFoldSet, CapStep
  <2> QED BY ONLY <2>1
<1>3. << >> \in D /\ st \in [D \X (1 .. n) -> D]
  <2>1. \A f \in D, i \in 1 .. n : CapStep(f, plan[i], max) \in D
    <3> SUFFICES ASSUME NEW f \in D, NEW i \in 1 .. n PROVE CapStep(f, plan[i], max) \in D OBVIOUS
    <3>1. plan[i][1] \in Nat \ {0} /\ plan[i][2] \in Nat BY <1>1
    <3> QED BY <3>1, CapStepIs
  <2>2. << >> \in D BY DEF Payable
  <2> HIDE DEF D, n
  <2> QED BY <2>1, <2>2
<1>4. PICK h : FoldOf(h, n, D, << >>, st)
  <2> HIDE DEF st, n, D
  <2> QED BY <1>1, <1>3, FoldExists
<1>5. /\ h \in [SUBSET (1 .. n) -> D]
      /\ \A s \in SUBSET (1 .. n) : h[s] = IF s = {} THEN << >> ELSE st[<<h[s \ {Max(s)}], Max(s)>>]
  <2> HIDE DEF st, n, D
  <2> QED BY <1>4 DEF FoldOf
<1>6. E(h)
  <2>1. ASSUME NEW s \in SUBSET (1 .. n)
        PROVE  h[s] = IF s = {} THEN << >> ELSE CapStep(h[s \ {Max(s)}], plan[Max(s)], max)
    <3>1. CASE s = {} BY <3>1, <1>5
    <3>2. CASE s # {}
      <4>1. Max(s) \in 1 .. n /\ s \ {Max(s)} \in SUBSET (1 .. n) BY <3>2, <1>1, MaxOfPart
      <4> HIDE DEF D
      <4>2. h[s \ {Max(s)}] \in D BY <4>1, <1>5
      <4>3. <<h[s \ {Max(s)}], Max(s)>> \in D \X (1 .. n) BY <4>1, <4>2
      <4>4. h[s] = st[<<h[s \ {Max(s)}], Max(s)>>] BY <3>2, <1>5
      <4> QED BY <3>2, <4>3, <4>4
    <3> QED BY <3>1, <3>2
  <2>2. h = [s \in SUBSET (1 .. n) |-> h[s]] BY <1>5
  <2> HIDE DEF n, st, D
  <2> QED BY <1>1, <2>1, <2>2
<1>7. E(g)
  <2> HIDE DEF E
  <2> QED BY <1>6
<1>8. \A s \in SUBSET (1 .. n) : g[s] = IF s = {} THEN << >> ELSE CapStep(g[s \ {Max(s)}], plan[Max(s)], max)
  <2> HIDE DEF g, n
  <2> QED BY <1>1, <1>7
<1>9. k[0] = << >>
  <2>1. 0 \in 0 .. n /\ 1 .. 0 = {} /\ {} \in SUBSET (1 .. n) BY <1>1
  <2>2. g[{}] = << >> BY <2>1, <1>8
  <2> HIDE DEF g
  <2> QED BY <2>1, <2>2
<1>10. CapSplitOutputs(plan, max) = k[n]
  <2>1. n \in 0 .. n BY <1>1
  <2> HIDE DEF g, n
  <2> QED BY <1>1, <1>2, <2>1
<1>11. ASSUME NEW i \in 0 .. n - 1 PROVE k[i + 1] = CapStep(k[i], plan[i + 1], max)
  <2>1. i \in Nat /\ i \in 0 .. n /\ i + 1 \in 0 .. n /\ i + 1 \in 1 .. n /\ 1 .. (i + 1) \in SUBSET (1 .. n) BY <1>1
  <2>2. Max(1 .. (i + 1)) = i + 1 /\ (1 .. (i + 1)) \ {Max(1 .. (i + 1))} = 1 .. i /\ 1 .. (i + 1) # {} BY <2>1, MaxUpto
  <2> HIDE DEF g
  <2>3. g[1 .. (i + 1)] = CapStep(g[1 .. i], plan[i + 1], max)
    <3>1. g[1 .. (i + 1)] = CapStep(g[(1 .. (i + 1)) \ {Max(1 .. (i + 1))}], plan[Max(1 .. (i + 1))], max)
      BY <1>8, <2>1, <2>2
    <3> QED BY <2>2, <3>1
  <2>4. k[i] = g[1 .. i] /\ k[i + 1] = g[1 .. (i + 1)] BY <2>1
  <2> QED BY <2>3, <2>4
<1> HIDE DEF k
<1> QED BY <1>9, <1>10, <1>11

\* fund_splits, entry by entry.
LEMMA FundSteps ==
  ASSUME NEW plan \in Payable, NEW budget \in Int
  PROVE  \E k : /\ k[0] = [budget |-> budget, plan |-> << >>] /\ FundRungs(budget, plan) = k[Len(plan)].plan
                /\ \A i \in 0 .. Len(plan) - 1 : k[i + 1] = FundStep(k[i], plan[i + 1])
<1> DEFINE n == Len(plan)
           E(g) == g = [s \in SUBSET DOMAIN plan |-> IF s = {} THEN [budget |-> budget, plan |-> << >>] ELSE FundStep(g[s \ {Max(s)}], plan[Max(s)])]
           D == Funds
           st == [z \in D \X (1 .. n) |-> FundStep(z[1], plan[z[2]])]
           g == CHOOSE h : E(h)
           k == [i \in 0 .. n |-> g[1 .. i]]
<1>1. n \in Nat /\ DOMAIN plan = 1 .. n /\ \A i \in 1 .. n : plan[i][1] \in Nat \ {0} /\ plan[i][2] \in Nat BY DEF Payable
<1>2. FundRungs(budget, plan) = g[DOMAIN plan].plan
  <2>1. FundRungs(budget, plan) =
          (CHOOSE h : h = [s \in SUBSET DOMAIN plan |->
                             IF s = {} THEN [budget |-> budget, plan |-> << >>] ELSE FundStep(h[s \ {Max(s)}], plan[Max(s)])])
          [DOMAIN plan].plan
    BY DEF FundRungs, FoldLeft, MapThenFoldSet, FundStep
  <2> QED BY ONLY <2>1
<1>3. [budget |-> budget, plan |-> << >>] \in D /\ st \in [D \X (1 .. n) -> D]
  <2>1. \A f \in D, i \in 1 .. n : FundStep(f, plan[i]) \in D
    <3> SUFFICES ASSUME NEW f \in D, NEW i \in 1 .. n PROVE FundStep(f, plan[i]) \in D OBVIOUS
    <3>1. plan[i][1] \in Nat \ {0} /\ plan[i][2] \in Nat BY <1>1
    <3> QED BY <3>1, FundStepIs
  <2>2. [budget |-> budget, plan |-> << >>] \in D BY DEF Funds, Payable
  <2> HIDE DEF D, n
  <2> QED BY <2>1, <2>2
<1>4. PICK h : FoldOf(h, n, D, [budget |-> budget, plan |-> << >>], st)
  <2> HIDE DEF st, n, D
  <2> QED BY <1>1, <1>3, FoldExists
<1>5. /\ h \in [SUBSET (1 .. n) -> D]
      /\ \A s \in SUBSET (1 .. n) : h[s] = IF s = {} THEN [budget |-> budget, plan |-> << >>] ELSE st[<<h[s \ {Max(s)}], Max(s)>>]
  <2> HIDE DEF st, n, D
  <2> QED BY <1>4 DEF FoldOf
<1>6. E(h)
  <2>1. ASSUME NEW s \in SUBSET (1 .. n)
        PROVE  h[s] = IF s = {} THEN [budget |-> budget, plan |-> << >>] ELSE FundStep(h[s \ {Max(s)}], plan[Max(s)])
    <3>1. CASE s = {} BY <3>1, <1>5
    <3>2. CASE s # {}
      <4>1. Max(s) \in 1 .. n /\ s \ {Max(s)} \in SUBSET (1 .. n) BY <3>2, <1>1, MaxOfPart
      <4> HIDE DEF D
      <4>2. h[s \ {Max(s)}] \in D BY <4>1, <1>5
      <4>3. <<h[s \ {Max(s)}], Max(s)>> \in D \X (1 .. n) BY <4>1, <4>2
      <4>4. h[s] = st[<<h[s \ {Max(s)}], Max(s)>>] BY <3>2, <1>5
      <4> QED BY <3>2, <4>3, <4>4
    <3> QED BY <3>1, <3>2
  <2>2. h = [s \in SUBSET (1 .. n) |-> h[s]] BY <1>5
  <2> HIDE DEF n, st, D
  <2> QED BY <1>1, <2>1, <2>2
<1>7. E(g)
  <2> HIDE DEF E
  <2> QED BY <1>6
<1>8. \A s \in SUBSET (1 .. n) : g[s] = IF s = {} THEN [budget |-> budget, plan |-> << >>] ELSE FundStep(g[s \ {Max(s)}], plan[Max(s)])
  <2> HIDE DEF g, n
  <2> QED BY <1>1, <1>7
<1>9. k[0] = [budget |-> budget, plan |-> << >>]
  <2>1. 0 \in 0 .. n /\ 1 .. 0 = {} /\ {} \in SUBSET (1 .. n) BY <1>1
  <2>2. g[{}] = [budget |-> budget, plan |-> << >>] BY <2>1, <1>8
  <2> HIDE DEF g
  <2> QED BY <2>1, <2>2
<1>10. FundRungs(budget, plan) = k[n].plan
  <2>1. n \in 0 .. n BY <1>1
  <2> HIDE DEF g, n
  <2> QED BY <1>1, <1>2, <2>1
<1>11. ASSUME NEW i \in 0 .. n - 1 PROVE k[i + 1] = FundStep(k[i], plan[i + 1])
  <2>1. i \in Nat /\ i \in 0 .. n /\ i + 1 \in 0 .. n /\ i + 1 \in 1 .. n /\ 1 .. (i + 1) \in SUBSET (1 .. n) BY <1>1
  <2>2. Max(1 .. (i + 1)) = i + 1 /\ (1 .. (i + 1)) \ {Max(1 .. (i + 1))} = 1 .. i /\ 1 .. (i + 1) # {} BY <2>1, MaxUpto
  <2> HIDE DEF g
  <2>3. g[1 .. (i + 1)] = FundStep(g[1 .. i], plan[i + 1])
    <3>1. g[1 .. (i + 1)] = FundStep(g[(1 .. (i + 1)) \ {Max(1 .. (i + 1))}], plan[Max(1 .. (i + 1))])
      BY <1>8, <2>1, <2>2
    <3> QED BY <2>2, <3>1
  <2>4. k[i] = g[1 .. i] /\ k[i + 1] = g[1 .. (i + 1)] BY <2>1
  <2> QED BY <2>3, <2>4
<1> HIDE DEF k
<1> QED BY <1>9, <1>10, <1>11

\* The outputs of a split, entry by entry.
LEMMA OutputsSteps ==
  ASSUME NEW plan \in Seq(Nat \X Nat)
  PROVE  \E k : /\ k[0] = << >> /\ Outputs(plan) = k[Len(plan)]
                /\ \A i \in 0 .. Len(plan) - 1 : k[i + 1] = LayOut(k[i], plan[i + 1])
<1> DEFINE n == Len(plan)
           E(g) == g = [s \in SUBSET DOMAIN plan |-> IF s = {} THEN << >> ELSE LayOut(g[s \ {Max(s)}], plan[Max(s)])]
           D == Seq(Nat)
           st == [z \in D \X (1 .. n) |-> LayOut(z[1], plan[z[2]])]
           g == CHOOSE h : E(h)
           k == [i \in 0 .. n |-> g[1 .. i]]
<1>1. n \in Nat /\ DOMAIN plan = 1 .. n /\ \A i \in 1 .. n : plan[i][1] \in Nat /\ plan[i][2] \in Nat OBVIOUS
<1>2. Outputs(plan) = g[DOMAIN plan]
  <2>1. Outputs(plan) =
          (CHOOSE h : h = [s \in SUBSET DOMAIN plan |->
                             IF s = {} THEN << >> ELSE LayOut(h[s \ {Max(s)}], plan[Max(s)])])
          [DOMAIN plan]
    BY DEF Outputs, FoldLeft, MapThenFoldSet, LayOut
  <2> QED BY ONLY <2>1
<1>3. << >> \in D /\ st \in [D \X (1 .. n) -> D]
  <2>1. \A f \in D, i \in 1 .. n : LayOut(f, plan[i]) \in D
    <3> SUFFICES ASSUME NEW f \in D, NEW i \in 1 .. n PROVE LayOut(f, plan[i]) \in D OBVIOUS
    <3>1. plan[i][1] \in Nat /\ plan[i][2] \in Nat BY <1>1
    <3> QED BY <3>1, LayOutIs
  <2>2. << >> \in D OBVIOUS
  <2> HIDE DEF D, n
  <2> QED BY <2>1, <2>2
<1>4. PICK h : FoldOf(h, n, D, << >>, st)
  <2> HIDE DEF st, n, D
  <2> QED BY <1>1, <1>3, FoldExists
<1>5. /\ h \in [SUBSET (1 .. n) -> D]
      /\ \A s \in SUBSET (1 .. n) : h[s] = IF s = {} THEN << >> ELSE st[<<h[s \ {Max(s)}], Max(s)>>]
  <2> HIDE DEF st, n, D
  <2> QED BY <1>4 DEF FoldOf
<1>6. E(h)
  <2>1. ASSUME NEW s \in SUBSET (1 .. n)
        PROVE  h[s] = IF s = {} THEN << >> ELSE LayOut(h[s \ {Max(s)}], plan[Max(s)])
    <3>1. CASE s = {} BY <3>1, <1>5
    <3>2. CASE s # {}
      <4>1. Max(s) \in 1 .. n /\ s \ {Max(s)} \in SUBSET (1 .. n) BY <3>2, <1>1, MaxOfPart
      <4> HIDE DEF D
      <4>2. h[s \ {Max(s)}] \in D BY <4>1, <1>5
      <4>3. <<h[s \ {Max(s)}], Max(s)>> \in D \X (1 .. n) BY <4>1, <4>2
      <4>4. h[s] = st[<<h[s \ {Max(s)}], Max(s)>>] BY <3>2, <1>5
      <4> QED BY <3>2, <4>3, <4>4
    <3> QED BY <3>1, <3>2
  <2>2. h = [s \in SUBSET (1 .. n) |-> h[s]] BY <1>5
  <2> HIDE DEF n, st, D
  <2> QED BY <1>1, <2>1, <2>2
<1>7. E(g)
  <2> HIDE DEF E
  <2> QED BY <1>6
<1>8. \A s \in SUBSET (1 .. n) : g[s] = IF s = {} THEN << >> ELSE LayOut(g[s \ {Max(s)}], plan[Max(s)])
  <2> HIDE DEF g, n
  <2> QED BY <1>1, <1>7
<1>9. k[0] = << >>
  <2>1. 0 \in 0 .. n /\ 1 .. 0 = {} /\ {} \in SUBSET (1 .. n) BY <1>1
  <2>2. g[{}] = << >> BY <2>1, <1>8
  <2> HIDE DEF g
  <2> QED BY <2>1, <2>2
<1>10. Outputs(plan) = k[n]
  <2>1. n \in 0 .. n BY <1>1
  <2> HIDE DEF g, n
  <2> QED BY <1>1, <1>2, <2>1
<1>11. ASSUME NEW i \in 0 .. n - 1 PROVE k[i + 1] = LayOut(k[i], plan[i + 1])
  <2>1. i \in Nat /\ i \in 0 .. n /\ i + 1 \in 0 .. n /\ i + 1 \in 1 .. n /\ 1 .. (i + 1) \in SUBSET (1 .. n) BY <1>1
  <2>2. Max(1 .. (i + 1)) = i + 1 /\ (1 .. (i + 1)) \ {Max(1 .. (i + 1))} = 1 .. i /\ 1 .. (i + 1) # {} BY <2>1, MaxUpto
  <2> HIDE DEF g
  <2>3. g[1 .. (i + 1)] = LayOut(g[1 .. i], plan[i + 1])
    <3>1. g[1 .. (i + 1)] = LayOut(g[(1 .. (i + 1)) \ {Max(1 .. (i + 1))}], plan[Max(1 .. (i + 1))])
      BY <1>8, <2>1, <2>2
    <3> QED BY <2>2, <3>1
  <2>4. k[i] = g[1 .. i] /\ k[i + 1] = g[1 .. (i + 1)] BY <2>1
  <2> QED BY <2>3, <2>4
<1> HIDE DEF k
<1> QED BY <1>9, <1>10, <1>11

\* The counts of a plan, rung by rung.
LEMMA CountUpto ==
  ASSUME NEW p \in Plans, NEW d
  PROVE  /\ Len(p) \in Nat /\ CountOf(p, d) \in Nat
         /\ SumFunctionOnSet(Asks(p, d), 1 .. 0) = 0 /\ SumFunctionOnSet(Asks(p, d), 1 .. Len(p)) = CountOf(p, d)
         /\ \A i \in Nat : i < Len(p) =>
              /\ i + 1 \in 1 .. Len(p) /\ i \in 0 .. Len(p) - 1
              /\ p[i + 1][1] \in Int /\ p[i + 1][2] \in Nat
              /\ SumFunctionOnSet(Asks(p, d), 1 .. i) \in Int
              /\ SumFunctionOnSet(Asks(p, d), 1 .. (i + 1)) =
                   SumFunctionOnSet(Asks(p, d), 1 .. i) + (IF p[i + 1][1] = d THEN p[i + 1][2] ELSE 0)
<1> DEFINE n == Len(p)
           f == Asks(p, d)
<1>1. /\ n \in Nat /\ CountOf(p, d) \in Nat /\ CountOf(p, d) = SumFunctionOnSet(f, 1 .. n) /\ Ints(f, 1 .. n)
      /\ \A i \in 1 .. n : f[i] = IF p[i][1] = d THEN p[i][2] ELSE 0
  BY PlanIs
<1>2. \A i \in 1 .. n : p[i][1] \in Int /\ p[i][2] \in Nat BY PlanIs
<1>3. SumFunctionOnSet(f, 1 .. 0) = 0
  <2>1. 1 .. 0 = {} OBVIOUS
  <2> QED BY <2>1, SumEmpty
<1> HIDE DEF n, f
<1>4. ASSUME NEW i \in Nat, i < n
      PROVE  /\ i + 1 \in 1 .. n /\ i \in 0 .. n - 1 /\ p[i + 1][1] \in Int /\ p[i + 1][2] \in Nat
             /\ SumFunctionOnSet(f, 1 .. i) \in Int
             /\ SumFunctionOnSet(f, 1 .. (i + 1)) = SumFunctionOnSet(f, 1 .. i) + (IF p[i + 1][1] = d THEN p[i + 1][2] ELSE 0)
  <2>1. i + 1 \in 1 .. n /\ i \in 0 .. n - 1 BY <1>1, <1>4
  <2>2. Ints(f, 1 .. (i + 1)) BY <1>1, <2>1 DEF Ints
  <2>3. SumFunctionOnSet(f, 1 .. i) \in Int /\ SumFunctionOnSet(f, 1 .. (i + 1)) = SumFunctionOnSet(f, 1 .. i) + f[i + 1]
    BY <2>2, SumUpto
  <2>4. f[i + 1] = IF p[i + 1][1] = d THEN p[i + 1][2] ELSE 0 BY <1>1, <2>1
  <2> QED BY <1>2, <2>1, <2>3, <2>4
<1> QED BY <1>1, <1>3, <1>4 DEF n, f

\* What a payable plan asks for up to an entry grows with the entry.
LEMMA PayUpto ==
  ASSUME NEW p \in Payable, NEW d
  PROVE  /\ Len(p) \in Nat /\ CountOf(p, d) \in Nat
         /\ SumFunctionOnSet(Asks(p, d), 1 .. 0) = 0 /\ SumFunctionOnSet(Asks(p, d), 1 .. Len(p)) = CountOf(p, d)
         /\ \A i \in Nat : i < Len(p) =>
              /\ i + 1 \in 1 .. Len(p) /\ i \in 0 .. Len(p) - 1
              /\ p[i + 1][1] \in Nat \ {0} /\ p[i + 1][2] \in Nat
              /\ SumFunctionOnSet(Asks(p, d), 1 .. i) \in Int
              /\ SumFunctionOnSet(Asks(p, d), 1 .. (i + 1)) =
                   SumFunctionOnSet(Asks(p, d), 1 .. i) + (IF p[i + 1][1] = d THEN p[i + 1][2] ELSE 0)
<1>1. p \in Plans /\ \A i \in 1 .. Len(p) : p[i][1] \in Nat \ {0} BY PayableIs
<1> QED BY <1>1, CountUpto

\* plan_ladder_refill asks for a rung no more often than it is missing, also when the
\* ladder names a denomination twice.
LEMMA MissingBound ==
  ASSUME NEW rungs \in Payable, NEW haves \in [DOMAIN rungs -> Int], NEW d, NEW h \in Nat,
         \A i \in DOMAIN rungs : rungs[i][1] = d => haves[i] = h
  PROVE  /\ Missing(rungs, haves) \in Payable
         /\ CountOf(Missing(rungs, haves), d) <= CountOf(rungs, d)
         /\ CountOf(Missing(rungs, haves), d) = 0 \/ CountOf(Missing(rungs, haves), d) + h <= CountOf(rungs, d)
<1> DEFINE n == Len(rungs)
           F(i) == SumFunctionOnSet(Asks(rungs, d), 1 .. i)
           Bound(p, m) == p \in Payable /\ CountOf(p, d) <= m /\ (CountOf(p, d) = 0 \/ CountOf(p, d) + h <= m)
<1>1. rungs \in Plans BY PayableIs
<1>2. PICK k : /\ k[0] = << >> /\ k[n] = Missing(rungs, haves)
               /\ \A i \in 0 .. n - 1 : k[i + 1] = AddMissing(k[i], rungs, haves, i + 1)
  BY <1>1, MissingSteps
<1> DEFINE C == {i \in Nat : i <= n => Bound(k[i], F(i))}
<1>3. 0 \in C
  <2>1. << >> \in Payable /\ CountOf(<< >>, d) = 0 BY CountNone DEF Payable
  <2>2. F(0) = 0 BY PayUpto
  <2> QED BY <1>2, <2>1, <2>2
<1>4. ASSUME NEW i \in Nat, i \in C PROVE i + 1 \in C
  <2> SUFFICES ASSUME i + 1 <= n PROVE Bound(k[i + 1], F(i + 1)) OBVIOUS
  <2> DEFINE r == rungs[i + 1]
             p == k[i]
  <2>1. n \in Nat /\ i < n BY PayUpto
  <2>2. i + 1 \in 1 .. n /\ i \in 0 .. n - 1 /\ r[1] \in Nat \ {0} /\ r[2] \in Nat /\ F(i) \in Int
        /\ F(i + 1) = F(i) + (IF r[1] = d THEN r[2] ELSE 0)
    BY <2>1, PayUpto
  <2>3. Bound(p, F(i)) BY <1>4, <2>1
  <2>4. haves[i + 1] \in Int /\ (r[1] = d => haves[i + 1] = h)
    <3>1. DOMAIN rungs = 1 .. n BY DEF Payable
    <3> QED BY <2>2, <3>1
  <2>5. k[i + 1] = IF r[2] > haves[i + 1] THEN Append(p, <<r[1], r[2] - haves[i + 1]>>) ELSE p
    BY <1>2, <2>2 DEF AddMissing
  <2>6. p \in Plans /\ CountOf(p, d) \in Nat BY <2>3, PayableIs, PlanIs
  <2> DEFINE q == k[i + 1]
             a == F(i)
             b == F(i + 1)
             v == haves[i + 1]
  <2> HIDE DEF r, p, F, n
  <2>7. CASE r[2] > v
    <3>1. r[2] - v \in Nat BY <2>2, <2>4, <2>7
    <3>2. Append(p, <<r[1], r[2] - v>>) \in Payable BY <2>2, <2>3, <3>1, PayableIs
    <3>3. CountOf(Append(p, <<r[1], r[2] - v>>), d) = CountOf(p, d) + (IF r[1] = d THEN r[2] - v ELSE 0)
      BY <2>2, <2>6, <3>1, CountAppend
    <3>4. q = Append(p, <<r[1], r[2] - v>>) BY <2>5, <2>7
    <3>5. q \in Payable /\ CountOf(q, d) = CountOf(p, d) + (IF r[1] = d THEN r[2] - v ELSE 0) BY <3>2, <3>3, <3>4
    <3> HIDE DEF q, a, b, v
    <3>6. CASE r[1] = d
      <4>1. CountOf(q, d) = CountOf(p, d) + (r[2] - h) BY <3>5, <3>6, <2>4 DEF v
      <4>2. b = a + r[2] BY <2>2, <3>6 DEF a, b
      <4>3. CountOf(p, d) <= a BY <2>3 DEF a
      <4>4. CountOf(q, d) <= b /\ CountOf(q, d) + h <= b BY <4>1, <4>2, <4>3, <2>2, <2>6 DEF a
      <4> QED BY <3>5, <4>4 DEF q, b
    <3>7. CASE r[1] # d
      <4>1. CountOf(q, d) = CountOf(p, d) BY <3>5, <3>7, <2>6
      <4>2. b = a BY <2>2, <3>7 DEF a, b
      <4>3. CountOf(p, d) <= a /\ (CountOf(p, d) = 0 \/ CountOf(p, d) + h <= a) BY <2>3 DEF a
      <4>4. CountOf(q, d) <= b /\ (CountOf(q, d) = 0 \/ CountOf(q, d) + h <= b) BY <4>1, <4>2, <4>3
      <4> QED BY <3>5, <4>4 DEF q, b
    <3> QED BY <3>6, <3>7
  <2>8. CASE ~(r[2] > v)
    <3>1. q = p BY <2>5, <2>8
    <3>2. a <= b BY <2>2
    <3>3. CountOf(p, d) <= a /\ (CountOf(p, d) = 0 \/ CountOf(p, d) + h <= a) /\ p \in Payable BY <2>3
    <3>4. a \in Int /\ b \in Int BY <2>2
    <3> HIDE DEF q, a, b
    <3>5. CountOf(q, d) <= b /\ (CountOf(q, d) = 0 \/ CountOf(q, d) + h <= b) BY <3>1, <3>2, <3>3, <3>4, <2>6
    <3> QED BY <3>1, <3>3, <3>5 DEF q, b
  <2> QED BY <2>7, <2>8
<1> HIDE DEF C
<1>5. n \in Nat /\ n \in C
  <2>1. \A i \in Nat : i \in C BY <1>3, <1>4, NatSetInduction
  <2> QED BY <2>1, PayUpto
<1>6. Bound(k[n], F(n)) BY <1>5 DEF C
<1>7. F(n) = CountOf(rungs, d) BY PayUpto
<1> HIDE DEF F, n
<1> QED BY <1>2, <1>6, <1>7

\* The cap on the outputs asks for no more of any denomination.
LEMMA CapBound ==
  ASSUME NEW plan \in Payable, NEW max \in Nat
  PROVE  CapSplitOutputs(plan, max) \in Payable /\ \A d : CountOf(CapSplitOutputs(plan, max), d) <= CountOf(plan, d)
<1> DEFINE n == Len(plan)
           F(d, i) == SumFunctionOnSet(Asks(plan, d), 1 .. i)
<1>1. PICK k : /\ k[0] = << >> /\ CapSplitOutputs(plan, max) = k[n]
               /\ \A i \in 0 .. n - 1 : k[i + 1] = CapStep(k[i], plan[i + 1], max)
  BY CapSteps
<1> DEFINE C == {i \in Nat : i <= n => k[i] \in Payable /\ \A d : CountOf(k[i], d) <= F(d, i)}
<1>2. 0 \in C
  <2>1. << >> \in Payable /\ \A d : CountOf(<< >>, d) = 0 BY CountNone DEF Payable
  <2>2. \A d : F(d, 0) = 0 BY PayUpto
  <2>3. k[0] \in Payable /\ k[0] = << >> BY <1>1, <2>1
  <2>4. \A d : CountOf(k[0], d) <= F(d, 0)
    <3> HIDE DEF F
    <3> QED BY <2>1, <2>2, <2>3
  <2> QED BY <2>3, <2>4
<1>3. ASSUME NEW i \in Nat, i \in C PROVE i + 1 \in C
  <2> SUFFICES ASSUME i + 1 <= n PROVE k[i + 1] \in Payable /\ \A d : CountOf(k[i + 1], d) <= F(d, i + 1) OBVIOUS
  <2>1. n \in Nat /\ i < n BY PayUpto
  <2>2. i \in 0 .. n - 1 /\ plan[i + 1][1] \in Nat \ {0} /\ plan[i + 1][2] \in Nat BY <2>1, PayUpto
  <2>3. k[i] \in Payable /\ \A d : CountOf(k[i], d) <= F(d, i) BY <1>3, <2>1
  <2>4. k[i + 1] = CapStep(k[i], plan[i + 1], max) BY <1>1, <2>2
  <2> HIDE DEF F
  <2> DEFINE x == plan[i + 1]
             f == k[i]
  <2>5. x[1] \in Nat \ {0} /\ x[2] \in Nat BY <2>2
  <2>6. f \in Payable BY <2>3
  <2> HIDE DEF x, f
  <2>7. /\ CapStep(f, x, max) \in Payable
        /\ \A d : CountOf(CapStep(f, x, max), d) <= CountOf(f, d) + (IF x[1] = d THEN x[2] ELSE 0)
    BY <2>5, <2>6, CapStepIs
  <2>8. k[i + 1] = CapStep(f, x, max) BY <2>4 DEF f, x
  <2>9. \A d : CountOf(k[i + 1], d) <= CountOf(k[i], d) + (IF x[1] = d THEN x[2] ELSE 0)
    BY <2>7, <2>8 DEF f
  <2>10. \A d : F(d, i) \in Int /\ F(d, i + 1) = F(d, i) + (IF x[1] = d THEN x[2] ELSE 0)
    BY <2>1, PayUpto DEF F, x, n
  <2>11. k[i] \in Payable /\ k[i + 1] \in Payable BY <2>3, <2>7, <2>8
  <2>12. \A d : CountOf(k[i], d) \in Nat /\ CountOf(k[i + 1], d) \in Nat BY <2>11, PayableIs, PlanIs
  <2>13. ASSUME NEW d PROVE CountOf(k[i + 1], d) <= F(d, i + 1)
    <3> DEFINE u == CountOf(k[i], d)
               v == CountOf(k[i + 1], d)
               y == IF x[1] = d THEN x[2] ELSE 0
    <3>1. v <= u + y /\ u <= F(d, i) /\ F(d, i + 1) = F(d, i) + y BY <2>3, <2>9, <2>10
    <3>2. u \in Nat /\ v \in Nat /\ y \in Nat /\ F(d, i) \in Int BY <2>5, <2>10, <2>12
    <3> HIDE DEF u, v, y
    <3>3. v <= F(d, i + 1) BY <3>1, <3>2
    <3> QED BY <3>3 DEF v
  <2> QED BY <2>7, <2>8, <2>13
<1> HIDE DEF C
<1>4. n \in Nat /\ n \in C
  <2>1. \A i \in Nat : i \in C BY <1>2, <1>3, NatSetInduction
  <2> QED BY <2>1, PayUpto
<1>5. k[n] \in Payable /\ \A d : CountOf(k[n], d) <= F(d, n) BY <1>4 DEF C
<1>6. \A d : F(d, n) = CountOf(plan, d) BY PayUpto
<1> HIDE DEF F, n
<1> QED BY <1>1, <1>5, <1>6

\* Nor does the budget of the input.
LEMMA FundBound ==
  ASSUME NEW plan \in Payable, NEW budget \in Int
  PROVE  FundRungs(budget, plan) \in Payable /\ \A d : CountOf(FundRungs(budget, plan), d) <= CountOf(plan, d)
<1> DEFINE n == Len(plan)
           F(d, i) == SumFunctionOnSet(Asks(plan, d), 1 .. i)
<1>1. PICK k : /\ k[0] = [budget |-> budget, plan |-> << >>] /\ FundRungs(budget, plan) = k[n].plan
               /\ \A i \in 0 .. n - 1 : k[i + 1] = FundStep(k[i], plan[i + 1])
  BY FundSteps
<1> DEFINE C == {i \in Nat : i <= n => k[i] \in Funds /\ \A d : CountOf(k[i].plan, d) <= F(d, i)}
<1>2. 0 \in C
  <2>1. << >> \in Payable /\ \A d : CountOf(<< >>, d) = 0 BY CountNone DEF Payable
  <2>2. \A d : F(d, 0) = 0 BY PayUpto
  <2>3. k[0] \in Funds /\ k[0].plan = << >> BY <1>1, <2>1 DEF Funds
  <2>4. \A d : CountOf(k[0].plan, d) <= F(d, 0)
    <3> HIDE DEF F
    <3> QED BY <2>1, <2>2, <2>3
  <2> QED BY <2>3, <2>4
<1>3. ASSUME NEW i \in Nat, i \in C PROVE i + 1 \in C
  <2> SUFFICES ASSUME i + 1 <= n PROVE k[i + 1] \in Funds /\ \A d : CountOf(k[i + 1].plan, d) <= F(d, i + 1) OBVIOUS
  <2>1. n \in Nat /\ i < n BY PayUpto
  <2>2. i \in 0 .. n - 1 /\ plan[i + 1][1] \in Nat \ {0} /\ plan[i + 1][2] \in Nat BY <2>1, PayUpto
  <2>3. k[i] \in Funds /\ \A d : CountOf(k[i].plan, d) <= F(d, i) BY <1>3, <2>1
  <2>4. k[i + 1] = FundStep(k[i], plan[i + 1]) BY <1>1, <2>2
  <2> HIDE DEF F
  <2> DEFINE x == plan[i + 1]
             f == k[i]
  <2>5. x[1] \in Nat \ {0} /\ x[2] \in Nat BY <2>2
  <2>6. f \in Funds BY <2>3
  <2> HIDE DEF x, f
  <2>7. /\ FundStep(f, x) \in Funds
        /\ \A d : CountOf(FundStep(f, x).plan, d) <= CountOf(f.plan, d) + (IF x[1] = d THEN x[2] ELSE 0)
    BY <2>5, <2>6, FundStepIs
  <2>8. k[i + 1] = FundStep(f, x) BY <2>4 DEF f, x
  <2>9. \A d : CountOf(k[i + 1].plan, d) <= CountOf(k[i].plan, d) + (IF x[1] = d THEN x[2] ELSE 0)
    BY <2>7, <2>8 DEF f
  <2>10. \A d : F(d, i) \in Int /\ F(d, i + 1) = F(d, i) + (IF x[1] = d THEN x[2] ELSE 0)
    BY <2>1, PayUpto DEF F, x, n
  <2>11. k[i].plan \in Payable /\ k[i + 1].plan \in Payable BY <2>3, <2>7, <2>8 DEF Funds
  <2>12. \A d : CountOf(k[i].plan, d) \in Nat /\ CountOf(k[i + 1].plan, d) \in Nat BY <2>11, PayableIs, PlanIs
  <2>13. ASSUME NEW d PROVE CountOf(k[i + 1].plan, d) <= F(d, i + 1)
    <3> DEFINE u == CountOf(k[i].plan, d)
               v == CountOf(k[i + 1].plan, d)
               y == IF x[1] = d THEN x[2] ELSE 0
    <3>1. v <= u + y /\ u <= F(d, i) /\ F(d, i + 1) = F(d, i) + y BY <2>3, <2>9, <2>10
    <3>2. u \in Nat /\ v \in Nat /\ y \in Nat /\ F(d, i) \in Int BY <2>5, <2>10, <2>12
    <3> HIDE DEF u, v, y
    <3>3. v <= F(d, i + 1) BY <3>1, <3>2
    <3> QED BY <3>3 DEF v
  <2> QED BY <2>7, <2>8, <2>13
<1> HIDE DEF C
<1>4. n \in Nat /\ n \in C
  <2>1. \A i \in Nat : i \in C BY <1>2, <1>3, NatSetInduction
  <2> QED BY <2>1, PayUpto
<1>5. k[n] \in Funds /\ \A d : CountOf(k[n].plan, d) <= F(d, n) BY <1>4 DEF C
<1>6. \A d : F(d, n) = CountOf(plan, d) BY PayUpto
<1> HIDE DEF F, n
<1> QED BY <1>1, <1>5, <1>6 DEF Funds

\* Where a sequence of amounts has d.
At(s, d) == {j \in 1 .. Len(s) : s[j] = d}

\* A transaction makes no more of a denomination than its plan asks for.
LEMMA OutputsBound ==
  ASSUME NEW plan \in Seq(Nat \X Nat), NEW d
  PROVE  /\ Outputs(plan) \in Seq(Nat) /\ IsFiniteSet(At(Outputs(plan), d))
         /\ Cardinality(At(Outputs(plan), d)) <= CountOf(plan, d)
<1> DEFINE n == Len(plan)
           F(i) == SumFunctionOnSet(Asks(plan, d), 1 .. i)
<1>0. plan \in Plans /\ \A i \in 1 .. Len(plan) : plan[i][1] \in Nat BY DEF Plans
<1>1. PICK k : /\ k[0] = << >> /\ Outputs(plan) = k[n]
               /\ \A i \in 0 .. n - 1 : k[i + 1] = LayOut(k[i], plan[i + 1])
  BY OutputsSteps
<1>a. ASSUME NEW s \in Seq(Nat) PROVE IsFiniteSet(At(s, d)) /\ Cardinality(At(s, d)) \in Nat
  <2>1. Len(s) \in Nat OBVIOUS
  <2>2. IsFiniteSet(1 .. Len(s)) BY <2>1, FS_Interval
  <2>3. At(s, d) \in SUBSET (1 .. Len(s)) BY DEF At
  <2> QED BY <2>2, <2>3, FS_Subset, FS_CardinalityType
<1> DEFINE C == {i \in Nat : i <= n => k[i] \in Seq(Nat) /\ Cardinality(At(k[i], d)) <= F(i)}
<1>2. 0 \in C
  <2>1. << >> \in Seq(Nat) /\ At(<< >>, d) = {} BY DEF At
  <2>2. F(0) = 0 BY <1>0, CountUpto
  <2>3. Cardinality(At(<< >>, d)) = 0 BY <2>1, FS_EmptySet
  <2>4. k[0] \in Seq(Nat) /\ Cardinality(At(k[0], d)) = 0 BY <1>1, <2>1, <2>3
  <2> HIDE DEF F
  <2>5. Cardinality(At(k[0], d)) <= F(0) BY <2>2, <2>4
  <2> QED BY <2>4, <2>5
<1>3. ASSUME NEW i \in Nat, i \in C PROVE i + 1 \in C
  <2> SUFFICES ASSUME i + 1 <= n PROVE k[i + 1] \in Seq(Nat) /\ Cardinality(At(k[i + 1], d)) <= F(i + 1) OBVIOUS
  <2> DEFINE x == plan[i + 1]
             s == k[i]
             t == LayOut(s, x)
  <2>1. n \in Nat /\ i < n BY <1>0, CountUpto
  <2>2. /\ i \in 0 .. n - 1 /\ x[1] \in Nat /\ x[2] \in Nat
        /\ F(i) \in Int /\ F(i + 1) = F(i) + (IF x[1] = d THEN x[2] ELSE 0)
    BY <2>1, <1>0, CountUpto
  <2>3. s \in Seq(Nat) /\ Cardinality(At(s, d)) <= F(i) BY <1>3, <2>1
  <2>4. k[i + 1] = t BY <1>1, <2>2
  <2> HIDE DEF F, x, s
  <2>5. /\ t \in Seq(Nat) /\ Len(t) = Len(s) + x[2]
        /\ \A j \in 1 .. Len(s) : t[j] = s[j]
        /\ \A j \in Len(s) + 1 .. Len(s) + x[2] : t[j] = x[1]
    <3>1. s \in Seq(Nat) /\ x[1] \in Nat /\ x[2] \in Nat BY <2>2, <2>3
    <3>2. /\ LayOut(s, x) \in Seq(Nat) /\ Len(LayOut(s, x)) = Len(s) + x[2]
          /\ \A j \in 1 .. Len(s) : LayOut(s, x)[j] = s[j]
          /\ \A j \in Len(s) + 1 .. Len(s) + x[2] : LayOut(s, x)[j] = x[1]
      BY <3>1, LayOutIs, Zenon
    <3> QED BY <3>2
  <2> HIDE DEF t
  <2>6. Len(s) \in Nat BY <2>3
  <2> DEFINE more == Len(s) + 1 .. Len(s) + x[2]
  <2>7. IsFiniteSet(more) /\ Cardinality(more) = x[2]
    <3> DEFINE a == Len(s) + 1
               b == Len(s) + x[2]
    <3>1. a \in Int /\ b \in Int BY <2>2, <2>6
    <3> HIDE DEF a, b
    <3>2. IsFiniteSet(a .. b) /\ Cardinality(a .. b) = IF a > b THEN 0 ELSE b - a + 1 BY <3>1, FS_Interval
    <3>3. (IF a > b THEN 0 ELSE b - a + 1) = x[2]
      <4> DEFINE m == x[2]
                 l == Len(s)
      <4>1. m \in Nat /\ l \in Nat BY <2>2, <2>6
      <4>2. a = l + 1 /\ b = l + m BY DEF a, b
      <4> HIDE DEF m, l
      <4>3. (IF a > b THEN 0 ELSE b - a + 1) = m BY <4>1, <4>2
      <4> QED BY <4>3 DEF m
    <3> QED BY <3>2, <3>3 DEF a, b
  <2>8. IsFiniteSet(At(s, d)) /\ Cardinality(At(s, d)) \in Nat /\ IsFiniteSet(At(t, d)) /\ Cardinality(At(t, d)) \in Nat
    BY <1>a, <2>3, <2>5
  <2>9. CASE x[1] = d
    <3>1. At(t, d) \in SUBSET (At(s, d) \cup more)
      <4> SUFFICES ASSUME NEW j \in 1 .. Len(t), t[j] = d PROVE j \in At(s, d) \cup more BY DEF At
      <4>1. j \in 1 .. Len(s) \/ j \in more BY <2>2, <2>5, <2>6
      <4> QED BY <4>1, <2>5 DEF At
    <3>2. IsFiniteSet(At(s, d) \cup more) /\ Cardinality(At(s, d) \cup more) <= Cardinality(At(s, d)) + x[2]
      <4>1. IsFiniteSet(At(s, d) \cup more)
            /\ Cardinality(At(s, d) \cup more) = Cardinality(At(s, d)) + Cardinality(more) - Cardinality(At(s, d) \cap more)
        BY <2>7, <2>8, FS_Union
      <4>2. At(s, d) \cap more \in SUBSET more OBVIOUS
      <4>3. Cardinality(At(s, d) \cap more) \in Nat BY <2>7, <4>2, FS_Subset, FS_CardinalityType
      <4> DEFINE u == Cardinality(At(s, d) \cup more)
                 q == Cardinality(At(s, d))
                 r == Cardinality(At(s, d) \cap more)
      <4>4. u = (q + x[2]) - r /\ q \in Nat /\ r \in Nat /\ x[2] \in Nat BY <2>2, <2>7, <2>8, <4>1, <4>3
      <4> HIDE DEF u, q, r
      <4>5. u <= q + x[2] BY <4>4
      <4> QED BY <4>1, <4>5 DEF u, q
    <3>3. Cardinality(At(t, d)) <= Cardinality(At(s, d) \cup more) BY <3>1, <3>2, FS_Subset
    <3>4. Cardinality(At(s, d) \cup more) \in Nat BY <3>2, FS_CardinalityType
    <3> HIDE DEF more
    <3>5. Cardinality(At(t, d)) <= F(i + 1)
      <4> DEFINE m == x[2]
                 u == Cardinality(At(s, d))
                 v == Cardinality(At(t, d))
                 w == Cardinality(At(s, d) \cup more)
      <4>1. F(i + 1) = F(i) + m /\ F(i) \in Int /\ m \in Nat BY <2>2, <2>9
      <4>2. u <= F(i) /\ u \in Nat /\ v \in Nat /\ w \in Nat /\ w <= u + m /\ v <= w BY <2>3, <2>8, <3>2, <3>3, <3>4
      <4> HIDE DEF m, u, v, w
      <4>3. v <= F(i + 1) BY <4>1, <4>2
      <4> QED BY <4>3 DEF v
    <3> QED BY <3>5, <2>4, <2>5
  <2>10. CASE x[1] # d
    <3>1. At(t, d) \in SUBSET At(s, d)
      <4> SUFFICES ASSUME NEW j \in 1 .. Len(t), t[j] = d PROVE j \in At(s, d) BY DEF At
      <4>1. j \in 1 .. Len(s) \/ j \in more BY <2>2, <2>5, <2>6
      <4> QED BY <4>1, <2>5, <2>10 DEF At
    <3>2. Cardinality(At(t, d)) <= Cardinality(At(s, d)) BY <3>1, <2>8, FS_Subset
    <3>3. Cardinality(At(t, d)) <= F(i + 1) BY <2>2, <2>3, <2>8, <2>10, <3>2
    <3> QED BY <3>3, <2>4, <2>5
  <2> QED BY <2>9, <2>10
<1> HIDE DEF C
<1>4. n \in Nat /\ n \in C
  <2>1. \A i \in Nat : i \in C BY <1>2, <1>3, NatSetInduction
  <2> QED BY <2>1, <1>0, CountUpto
<1>5. k[n] \in Seq(Nat) /\ Cardinality(At(k[n], d)) <= F(n) BY <1>4 DEF C
<1>6. F(n) = CountOf(plan, d) BY <1>0, CountUpto
<1> HIDE DEF F, n
<1> QED BY <1>1, <1>5, <1>6, <1>a

-----------------------------------------------------------------------------
(* The inductive invariant of the ladder                                      *)

\* Where a call may stand; from the count to the end of its submission it is ahead.
Stages == {"idle", "counted", "gated", "submitted", "recording"}
Ahead == {"counted", "gated", "submitted"}
Calls == [at : Stages, plan : Payable, input : Nat]

\* The types of the ladder.
LadderTypes ==
  /\ made \in Nat /\ DOMAIN coins \subseteq 1 .. made /\ \A c \in DOMAIN coins : coins[c].amount \in Nat
  /\ Known \subseteq 1 .. made /\ \A c \in Known : cached[c] \in Nat
  /\ pendingRungs \in Seq(Nat \X Nat)
  /\ now \in Nat /\ ops \in Seq(Nat) /\ \A i \in DOMAIN ops : ops[i] <= now
  /\ call \in [Callers -> Calls] /\ overlapped \in BOOLEAN

\* The cache is right about what is still there, and a merge takes less than a rung.
CachedRight ==
  /\ \A c \in Known \cap DOMAIN coins : cached[c] = coins[c].amount
  /\ \A c \in merge.inputs : c \in 1 .. made /\ \A i \in DOMAIN Rungs : c \in DOMAIN coins => coins[c].amount < Rungs[i][1]

\* What a call has in hand of d while it stands in A, and what all calls have together.
Share(v, A, d) == IF v.at \in A THEN CountOf(v.plan, d) ELSE 0
Doing(cl, A, d) == SumFunctionOnSet([k \in Callers |-> Share(cl[k], A, d)], Callers)
ToldOf(d) == {c \in DOMAIN coins : coins[c].by = "told" /\ coins[c].amount = d}
\* What it was told it made of a rung and the cache does not know is pending or about to
\* be recorded; and what it was told with what is still in hand stays within what the
\* ladder asks for, once, or once per caller when calls overlap.
RungRight(d) ==
  /\ Cardinality(ToldOf(d) \ Known) <= CountOf(pendingRungs, d) + Doing(call, {"recording"}, d)
  /\ \A k \in Callers : CountOf(call[k].plan, d) <= CountOf(Rungs, d)
  /\ Cardinality(ToldOf(d)) + Doing(call, Ahead, d) <= 1 + Cardinality(Callers) * CountOf(Rungs, d)
  /\ overlapped \/ Cardinality(ToldOf(d)) + Doing(call, Ahead, d) <= 1 + CountOf(Rungs, d)
RungsRight == \A i \in DOMAIN Rungs : RungRight(Rungs[i][1])
\* As long as no calls overlapped, at most one is under way.
Alone == overlapped \/ \A j, k \in Callers : call[j].at # "idle" /\ call[k].at # "idle" => j = k

\* Callers past the gate, and the attempts of a window.
Gated == {k \in Callers : call[k].at = "gated"}
Within(t) == {i \in DOMAIN ops : ops[i] >= t /\ ops[i] < t + Window}
\* In a window that is open the callers past the gate count as attempts.
BudgetRight ==
  /\ Gated # {} => MaxOps > 0
  /\ \A t \in 0 .. now : Cardinality(Within(t)) + (IF now < t + Window THEN Cardinality(Gated) ELSE 0) < MaxOps + Cardinality(Callers)

\* The inductive invariant of the ladder.
LadderInv == LadderTypes /\ CachedRight /\ RungsRight /\ Alone /\ BudgetRight

\* The callers are finitely many, and at least one.
LEMMA CallersAre == IsFiniteSet(Callers) /\ Cardinality(Callers) \in Nat /\ Cardinality(Callers) >= 1
<1>1. IsFiniteSet(Callers) /\ Callers # {} BY LadderAssumption
<1>2. Cardinality(Callers) \in Nat /\ Cardinality(Callers) # 0 BY <1>1, FS_CardinalityType, FS_EmptySet
<1> QED BY <1>1, <1>2

\* The rungs are payable and of positive denominations.
LEMMA RungsAre ==
  /\ Rungs \in Payable /\ Rungs \in Plans /\ DOMAIN Rungs = 1 .. Len(Rungs) /\ Len(Rungs) \in Nat
  /\ \A i \in DOMAIN Rungs : Rungs[i][1] \in Nat \ {0}
<1>1. Denominations \in Seq(Nat \X Nat) BY LadderAssumption
<1>2. CASE \A i \in DOMAIN Denominations : Denominations[i][1] > 0 /\ Denominations[i][2] \in 1 .. MaxSplitCount
  <2>1. Rungs = Denominations BY <1>2 DEF Rungs, ParseSplits
  <2>2. ASSUME NEW i \in 1 .. Len(Denominations) PROVE Denominations[i] \in (Nat \ {0}) \X Nat
    <3>1. Denominations[i] \in Nat \X Nat /\ i \in DOMAIN Denominations BY <1>1
    <3>2. Denominations[i][1] > 0 BY <1>2, <3>1
    <3> QED BY <3>1, <3>2
  <2>a. Len(Denominations) \in Nat /\ Denominations \in [1 .. Len(Denominations) -> Nat \X Nat] BY <1>1
  <2>b. Denominations \in [1 .. Len(Denominations) -> (Nat \ {0}) \X Nat] BY <2>2, <2>a
  <2>3. Denominations \in Payable BY <2>a, <2>b DEF Payable
  <2> QED BY <2>1, <2>3, PayableIs DEF Payable
<1>3. CASE ~(\A i \in DOMAIN Denominations : Denominations[i][1] > 0 /\ Denominations[i][2] \in 1 .. MaxSplitCount)
  <2>1. Rungs = << >> BY <1>3 DEF Rungs, ParseSplits
  <2>2. << >> \in Payable /\ << >> \in Plans BY DEF Payable, Plans
  <2> QED BY <2>1, <2>2
<1> QED BY <1>2, <1>3

\* What a call has in hand of a rung is a natural.
LEMMA ShareIs ==
  ASSUME NEW v \in Calls, NEW A, NEW d
  PROVE  Share(v, A, d) \in Nat /\ CountOf(v.plan, d) \in Nat /\ v.plan \in Payable /\ v.plan \in Plans /\ v.plan \in Seq(Nat \X Nat)
<1>1. v.plan \in Payable BY DEF Calls
<1>2. v.plan \in Seq(Nat \X Nat) BY <1>1 DEF Payable
<1> QED BY <1>1, <1>2, PayableIs, PlanIs DEF Share

\* And all of them together.
LEMMA DoingIs ==
  ASSUME NEW cl \in [Callers -> Calls], NEW A, NEW d
  PROVE  Doing(cl, A, d) \in Nat /\ \A k \in Callers : Share(cl[k], A, d) \in Nat
<1> DEFINE f == [k \in Callers |-> Share(cl[k], A, d)]
<1>1. \A k \in Callers : cl[k] \in Calls OBVIOUS
<1>2. \A k \in Callers : f[k] \in Nat BY <1>1, ShareIs
<1>3. SumFunctionOnSet(f, Callers) \in Nat
  <2> HIDE DEF f
  <2> QED BY <1>2, CallersAre, SumNat
<1> QED BY <1>2, <1>3 DEF Doing

\* One caller moves on.
Moves(c2, cl, k, v) == c2 = [cl EXCEPT ![k] = v]

\* When a caller moves on, what all have in hand changes by what it had and has.
LEMMA DoingTo ==
  ASSUME NEW cl \in [Callers -> Calls], NEW A, NEW d, NEW k \in Callers, NEW v \in Calls, NEW c2, Moves(c2, cl, k, v)
  PROVE  /\ c2 \in [Callers -> Calls]
         /\ Doing(c2, A, d) = (Doing(cl, A, d) - Share(cl[k], A, d)) + Share(v, A, d)
         /\ Share(cl[k], A, d) <= Doing(cl, A, d)
<1> DEFINE f == [j \in Callers |-> Share(cl[j], A, d)]
           g == [j \in Callers |-> Share(c2[j], A, d)]
<1>1. c2 \in [Callers -> Calls] /\ c2[k] = v /\ \A j \in Callers \ {k} : c2[j] = cl[j] BY DEF Moves
<1>2. \A j \in Callers : f[j] \in Nat /\ g[j] \in Nat
  <2>1. \A j \in Callers : f[j] \in Nat BY DoingIs
  <2>2. \A j \in Callers : Share(c2[j], A, d) \in Nat BY <1>1, DoingIs
  <2>3. \A j \in Callers : g[j] \in Nat BY <2>2
  <2> QED BY <2>1, <2>3
<1>3. \A j \in Callers \ {k} : f[j] = g[j] BY <1>1
<1>4. f[k] = Share(cl[k], A, d) /\ g[k] = Share(v, A, d) BY <1>1
<1>5. Doing(cl, A, d) = SumFunctionOnSet(f, Callers) /\ Doing(c2, A, d) = SumFunctionOnSet(g, Callers) BY DEF Doing
<1> HIDE DEF f, g
<1>6. Ints(f, Callers) /\ Ints(g, Callers) BY <1>2 DEF Ints
<1>7. SumFunctionOnSet(g, Callers) = (SumFunctionOnSet(f, Callers) - f[k]) + g[k] BY <1>3, <1>6, CallersAre, SumChange
<1>8. f[k] <= SumFunctionOnSet(f, Callers)
  <2>1. {k} \in SUBSET Callers /\ \A j \in Callers : f[j] >= 0 BY <1>2
  <2>2. SumFunctionOnSet(f, {k}) <= SumFunctionOnSet(f, Callers) BY <2>1, <1>6, CallersAre, SumGrows
  <2>a. f[k] \in Int BY <1>2
  <2>3. SumFunctionOnSet(f, {k}) = f[k] BY <2>a, SumOne
  <2> QED BY <2>2, <2>3
<1> QED BY <1>1, <1>4, <1>5, <1>7, <1>8

\* What all the others have in hand.
LEMMA DoingOthers ==
  ASSUME NEW cl \in [Callers -> Calls], NEW d, NEW k \in Callers, cl[k].at = "idle", NEW m \in Nat,
         \A j \in Callers \ {k} : (IF cl[j].at = "idle" THEN 0 ELSE CountOf(cl[j].plan, d)) <= m
  PROVE  Doing(cl, Ahead, d) + Doing(cl, {"recording"}, d) <= m * (Cardinality(Callers) - 1)
<1> DEFINE f == [j \in Callers |-> Share(cl[j], Ahead, d)]
           g == [j \in Callers |-> Share(cl[j], {"recording"}, d)]
           S == Callers \ {k}
           C == {T \in SUBSET S : SumFunctionOnSet(f, T) + SumFunctionOnSet(g, T) <= m * Cardinality(T)}
<1>0. IsFiniteSet(S) /\ IsFiniteSet(Callers) /\ Cardinality(S) = Cardinality(Callers) - 1 BY CallersAre, FS_RemoveElement
<1>1. \A j \in Callers : f[j] \in Nat /\ g[j] \in Nat BY DoingIs
<1>2. f[k] = 0 /\ g[k] = 0 BY DEF Share, Ahead
<1>3. ASSUME NEW j \in S PROVE f[j] + g[j] <= m
  <2>1. j \in Callers /\ (IF cl[j].at = "idle" THEN 0 ELSE CountOf(cl[j].plan, d)) <= m OBVIOUS
  <2>2. cl[j] \in Calls /\ CountOf(cl[j].plan, d) \in Nat BY <2>1, ShareIs
  <2>3. f[j] + g[j] = IF cl[j].at = "idle" THEN 0 ELSE CountOf(cl[j].plan, d)
    <3>1. cl[j].at \in Stages BY <2>2 DEF Calls
    <3> QED BY <2>1, <2>2, <3>1 DEF Share, Ahead, Stages
  <2> QED BY <2>1, <2>3
<1>4. Doing(cl, Ahead, d) = SumFunctionOnSet(f, Callers) /\ Doing(cl, {"recording"}, d) = SumFunctionOnSet(g, Callers) BY DEF Doing
<1> HIDE DEF f, g
<1>5. Ints(f, Callers) /\ Ints(g, Callers) /\ Ints(f, S) /\ Ints(g, S) BY <1>1 DEF Ints
<1>6. {} \in C
  <2>1. SumFunctionOnSet(f, {}) = 0 /\ SumFunctionOnSet(g, {}) = 0 /\ Cardinality({}) = 0 BY SumEmpty, FS_EmptySet
  <2>2. m * 0 = 0 OBVIOUS
  <2> QED BY <2>1, <2>2
<1>7. ASSUME NEW T \in SUBSET S, NEW x \in S, T \in C PROVE T \cup {x} \in C
  <2>1. CASE x \in T
    <3>1. T \cup {x} = T BY <2>1
    <3> QED BY <3>1, <1>7, Zenon
  <2>2. CASE x \notin T
    <3>0. SumFunctionOnSet(f, T) + SumFunctionOnSet(g, T) <= m * Cardinality(T) BY <1>7
    <3>a. IsFiniteSet(T) BY <1>0, FS_Subset
    <3>b. Cardinality(T) \in Nat /\ Cardinality(T \cup {x}) = Cardinality(T) + 1 BY <3>a, <2>2, FS_CardinalityType, FS_AddElement
    <3> HIDE DEF C
    <3>1. SumFunctionOnSet(f, T \cup {x}) = f[x] + SumFunctionOnSet(f, T) /\ SumFunctionOnSet(f, T) \in Int
      BY <1>0, <1>5, <2>2, SumSub
    <3>2. SumFunctionOnSet(g, T \cup {x}) = g[x] + SumFunctionOnSet(g, T) /\ SumFunctionOnSet(g, T) \in Int
      BY <1>0, <1>5, <2>2, SumSub
    <3>c. m \in Int OBVIOUS
    <3>d. m * (Cardinality(T) + 1) = m * Cardinality(T) + m BY ONLY <3>b, <3>c
    <3>3. m * (Cardinality(T) + 1) = m * Cardinality(T) + m /\ m * Cardinality(T) \in Int BY <3>b, <3>d
    <3>4. f[x] + g[x] <= m /\ f[x] \in Int /\ g[x] \in Int BY <1>1, <1>3
    <3>5. SumFunctionOnSet(f, T \cup {x}) + SumFunctionOnSet(g, T \cup {x}) <= m * Cardinality(T \cup {x})
      BY <3>0, <3>1, <3>2, <3>3, <3>4, <3>b
    <3> QED BY <3>5 DEF C
  <2> QED BY <2>1, <2>2
<1> HIDE DEF C
<1>8. S \in C BY <1>0, <1>6, <1>7, FiniteSetInduction
<1>9. SumFunctionOnSet(f, S) + SumFunctionOnSet(g, S) <= m * Cardinality(S) BY <1>8 DEF C
<1>10. SumFunctionOnSet(f, Callers) = f[k] + SumFunctionOnSet(f, S) /\ SumFunctionOnSet(g, Callers) = g[k] + SumFunctionOnSet(g, S)
  BY <1>0, <1>5, SumAdd
<1>11. SumFunctionOnSet(f, S) \in Int /\ SumFunctionOnSet(g, S) \in Int BY <1>0, <1>5, SumStep
<1> HIDE DEF S
<1>12. SumFunctionOnSet(f, Callers) + SumFunctionOnSet(g, Callers) <= m * Cardinality(S) BY <1>2, <1>9, <1>10, <1>11
<1> QED BY <1>0, <1>4, <1>12

-----------------------------------------------------------------------------
(* What the ladder sees                                                       *)

\* A union is no larger than its parts together.
LEMMA UnionAtMost ==
  ASSUME NEW S, IsFiniteSet(S), NEW T, IsFiniteSet(T)
  PROVE  /\ IsFiniteSet(S \cup T) /\ Cardinality(S \cup T) \in Nat /\ Cardinality(S) \in Nat /\ Cardinality(T) \in Nat
         /\ Cardinality(S \cup T) <= Cardinality(S) + Cardinality(T)
<1>1. IsFiniteSet(S \cup T) /\ Cardinality(S \cup T) = Cardinality(S) + Cardinality(T) - Cardinality(S \cap T) BY FS_Union
<1>2. S \cap T \in SUBSET S OBVIOUS
<1>3. IsFiniteSet(S \cap T) BY <1>2, FS_Subset
<1>4. Cardinality(S \cap T) \in Nat /\ Cardinality(S) \in Nat /\ Cardinality(T) \in Nat /\ Cardinality(S \cup T) \in Nat
  BY <1>1, <1>3, FS_CardinalityType
<1> QED BY <1>1, <1>4

\* The holdings and what is known of them are finitely many.
LEMMA HoldingsFinite ==
  ASSUME LadderTypes
  PROVE  IsFiniteSet(DOMAIN coins) /\ IsFiniteSet(Known) /\ \A d : IsFiniteSet(ToldOf(d)) /\ Cardinality(ToldOf(d)) \in Nat
<1>1. made \in Nat /\ DOMAIN coins \subseteq 1 .. made /\ Known \subseteq 1 .. made BY DEF LadderTypes
<1>2. IsFiniteSet(1 .. made) BY <1>1, FS_Interval
<1>3. IsFiniteSet(DOMAIN coins) /\ IsFiniteSet(Known) BY <1>1, <1>2, FS_Subset
<1>4. \A d : ToldOf(d) \in SUBSET DOMAIN coins BY DEF ToldOf
<1> QED BY <1>3, <1>4, FS_Subset, FS_CardinalityType

\* One holding is the reserve.
LEMMA OneReserve ==
  ASSUME LadderTypes
  PROVE  LET R == {c \in Known : IsReserve(c)} IN IsFiniteSet(R) /\ Cardinality(R) <= 1 /\ Cardinality(R) \in Nat
<1> DEFINE R == {c \in Known : IsReserve(c)}
<1>1. \A c, o \in R : c = o
  <2> TAKE c \in R, o \in R
  <2>1. c \in Int /\ o \in Int /\ cached[c] \in Int /\ cached[o] \in Int BY DEF LadderTypes
  <2>2. Amount(o) < Amount(c) \/ (Amount(o) = Amount(c) /\ o <= c) BY DEF IsReserve
  <2>3. Amount(c) < Amount(o) \/ (Amount(c) = Amount(o) /\ c <= o) BY DEF IsReserve
  <2> QED BY <2>1, <2>2, <2>3 DEF Amount
<1>2. CASE R = {} BY <1>2, FS_EmptySet
<1>3. CASE R # {}
  <2>1. PICK c : c \in R BY <1>3
  <2> HIDE DEF R
  <2>2. R = {c} BY <2>1, <1>1
  <2>3. IsFiniteSet({c}) /\ Cardinality({c}) = 1 BY FS_Singleton
  <2> QED BY <2>2, <2>3 DEF R
<1> QED BY <1>2, <1>3

\* What the ladder counts of a rung is no less than what it was told it made of it and
\* the cache knows, but for the reserve, and what is pending.
LEMMA HavesRight ==
  ASSUME LadderTypes, NEW d \in Nat \ {0}
  PROVE  /\ CountInBand(d) \in Nat /\ CountOf(pendingRungs, d) \in Nat /\ Cardinality(ToldOf(d) \ Known) \in Nat
         /\ CachedRight =>
              Cardinality(ToldOf(d)) + CountOf(pendingRungs, d) <= CountInBand(d) + 1 + Cardinality(ToldOf(d) \ Known)
<1> DEFINE p == pendingRungs
           B == {c \in Known : ~IsReserve(c) /\ InBand(Amount(c), d)}
           R == {c \in Known : IsReserve(c)}
           T == ToldOf(d)
           U == T \ Known
           f == [i \in DOMAIN p |-> IF InBand(p[i][1], d) THEN p[i][2] ELSE 0]
           s == SumFunctionOnSet(f, DOMAIN p)
<1>1. p \in Plans /\ p \in Seq(Nat \X Nat) BY DEF LadderTypes, Plans
<1>2. DOMAIN p = 1 .. Len(p) /\ IsFiniteSet(1 .. Len(p)) BY <1>1, PlanIs
<1>3. s \in Nat /\ CountOf(p, d) \in Nat /\ CountOf(p, d) <= s
  <2>1. \A i \in 1 .. Len(p) : f[i] = (IF InBand(p[i][1], d) THEN p[i][2] ELSE 0) /\ p[i][1] \in Int /\ p[i][2] \in Nat
    BY <1>1, <1>2, PlanIs
  <2>2. /\ \A i \in 1 .. Len(p) : Asks(p, d)[i] = IF p[i][1] = d THEN p[i][2] ELSE 0
        /\ CountOf(p, d) = SumFunctionOnSet(Asks(p, d), 1 .. Len(p)) /\ CountOf(p, d) \in Nat
        /\ Ints(Asks(p, d), 1 .. Len(p))
    BY <1>1, PlanIs
  <2> HIDE DEF f, p
  <2>3. \A i \in 1 .. Len(p) : f[i] \in Nat BY <2>1
  <2>4. \A i \in 1 .. Len(p) : Asks(p, d)[i] <= f[i] BY <2>1, <2>2 DEF InBand
  <2>5. Ints(f, 1 .. Len(p)) /\ SumFunctionOnSet(f, 1 .. Len(p)) \in Nat BY <2>3, <1>2, SumNat
  <2>6. SumFunctionOnSet(Asks(p, d), 1 .. Len(p)) <= SumFunctionOnSet(f, 1 .. Len(p)) BY <1>2, <2>2, <2>4, <2>5, SumLess
  <2> QED BY <1>2, <2>2, <2>5, <2>6
<1>4. IsFiniteSet(B) /\ Cardinality(B) \in Nat
  <2>1. B \in SUBSET Known OBVIOUS
  <2> QED BY <2>1, HoldingsFinite, FS_Subset, FS_CardinalityType
<1>5. IsFiniteSet(R) /\ Cardinality(R) <= 1 /\ Cardinality(R) \in Nat BY OneReserve
<1>6. IsFiniteSet(T) /\ Cardinality(T) \in Nat /\ IsFiniteSet(U) /\ Cardinality(U) \in Nat
  <2>1. U \in SUBSET T OBVIOUS
  <2> HIDE DEF T, U
  <2>2. IsFiniteSet(T) /\ Cardinality(T) \in Nat BY HoldingsFinite DEF T
  <2> QED BY <2>1, <2>2, FS_Subset, FS_CardinalityType
<1>7. CountInBand(d) = Cardinality(B) + s BY DEF CountInBand
<1>8. ASSUME CachedRight PROVE Cardinality(T) <= Cardinality(B) + 1 + Cardinality(U)
  <2>1. T \in SUBSET ((U \cup B) \cup R)
    <3> SUFFICES ASSUME NEW c \in T, c \in Known, ~IsReserve(c) PROVE c \in B OBVIOUS
    <3>1. c \in DOMAIN coins /\ coins[c].amount = d BY DEF ToldOf
    <3>2. cached[c] = d BY <3>1, <1>8 DEF CachedRight
    <3>3. InBand(d, d) BY DEF InBand
    <3> QED BY <3>2, <3>3 DEF Amount
  <2> HIDE DEF T, U, B, R
  <2>2. IsFiniteSet(U \cup B) /\ Cardinality(U \cup B) \in Nat /\ Cardinality(U \cup B) <= Cardinality(U) + Cardinality(B)
    BY <1>4, <1>6, UnionAtMost
  <2>3. /\ IsFiniteSet((U \cup B) \cup R) /\ Cardinality((U \cup B) \cup R) \in Nat
        /\ Cardinality((U \cup B) \cup R) <= Cardinality(U \cup B) + Cardinality(R)
    BY <2>2, <1>5, UnionAtMost
  <2>4. Cardinality(T) <= Cardinality((U \cup B) \cup R) BY <2>1, <2>3, FS_Subset
  <2> QED BY <2>2, <2>3, <2>4, <1>4, <1>5, <1>6
<1> HIDE DEF T, U, B, R, s
<1> QED BY <1>3, <1>4, <1>6, <1>7, <1>8 DEF T, U, p

\* A merge takes holdings it may take.
LEMMA MergeTakes ==
  ASSUME NEW S, IsFiniteSet(S), \A c \in S : cached[c] \in Int, NEW threshold, NEW most \in Nat
  PROVE  PlanMerge(S, threshold, most) \subseteq S
<1>1. CASE Cardinality(S) <= threshold BY <1>1 DEF PlanMerge
<1>2. CASE ~(Cardinality(S) <= threshold)
  <2> DEFINE m == Cardinality(S)
             n == Min({most, m})
             f == [c \in S |-> 0 - cached[c]]
             T == Largest(S, f, n)
  <2>1. m \in Nat BY FS_CardinalityType
  <2>2. n \in Nat /\ n <= m
    <3> HIDE DEF m
    <3>1. n = IF most <= m THEN most ELSE m
      <4>1. CASE most <= m
        <5>1. most \in {most, m} /\ \A y \in {most, m} : most <= y BY <2>1, <4>1
        <5>2. \A x \in {most, m} : (\A y \in {most, m} : x <= y) => x = most BY <2>1, <4>1
        <5> QED BY <4>1, <5>1, <5>2 DEF Min
      <4>2. CASE ~(most <= m)
        <5>1. m \in {most, m} /\ \A y \in {most, m} : m <= y BY <2>1, <4>2
        <5>2. \A x \in {most, m} : (\A y \in {most, m} : x <= y) => x = m BY <2>1, <4>2
        <5> QED BY <4>2, <5>1, <5>2 DEF Min
      <4> QED BY <4>1, <4>2
    <3> QED BY <2>1, <3>1
  <2>3. Ints(f, S) BY DEF Ints
  <2>4. /\ T \in SUBSET S /\ Cardinality(T) = n
        /\ \A a \in T, b \in S \ T : f[a] >= f[b]
    <3> HIDE DEF f, n
    <3> QED BY <2>2, <2>3, LargestExists DEF m
  <2>5. \A a \in T, b \in S \ T : Amount(a) <= Amount(b)
    <3> SUFFICES ASSUME NEW a \in T, NEW b \in S \ T PROVE Amount(a) <= Amount(b) OBVIOUS
    <3>1. f[a] >= f[b] /\ a \in S /\ b \in S BY <2>4
    <3>2. cached[a] \in Int /\ cached[b] \in Int /\ f[a] = 0 - cached[a] /\ f[b] = 0 - cached[b] BY <3>1
    <3> HIDE DEF f
    <3> QED BY <3>1, <3>2 DEF Amount
  <2>6. \E X \in SUBSET S : Cardinality(X) = n /\ \A a \in X, b \in S \ X : Amount(a) <= Amount(b)
    <3> HIDE DEF T
    <3> QED BY <2>4, <2>5
  <2>7. PlanMerge(S, threshold, most) = CHOOSE X \in SUBSET S : Cardinality(X) = n /\ \A a \in X, b \in S \ X : Amount(a) <= Amount(b)
    BY <1>2 DEF PlanMerge
  <2> HIDE DEF n
  <2> QED BY <2>6, <2>7
<1> QED BY <1>1, <1>2

-----------------------------------------------------------------------------
(* What its steps do                                                          *)

\* Concatenation keeps the type of a sequence.
LEMMA TwoParts ==
  ASSUME NEW Q, NEW s \in Seq(Q), NEW t \in Seq(Q)
  PROVE  /\ s \o t \in Seq(Q) /\ Len(s \o t) = Len(s) + Len(t) /\ Len(s) \in Nat /\ Len(t) \in Nat
         /\ \A i \in 1 .. Len(s) : (s \o t)[i] = s[i]
         /\ \A i \in 1 .. Len(s) + Len(t) : ~(i <= Len(s)) => (s \o t)[i] = t[i - Len(s)]
OBVIOUS

\* The worth of holdings is a natural.
LEMMA WorthIs ==
  ASSUME LadderTypes, NEW S \in SUBSET DOMAIN coins
  PROVE  Worth(S) \in Nat
<1> DEFINE f == [c \in S |-> coins[c].amount]
<1>1. IsFiniteSet(S) BY HoldingsFinite, FS_Subset
<1>2. \A c \in S : f[c] \in Nat BY DEF LadderTypes
<1> HIDE DEF f
<1>3. SumFunctionOnSet(f, S) \in Nat BY <1>1, <1>2, SumNat
<1> QED BY <1>3 DEF Worth, f

\* The cost of a plan is a natural.
LEMMA PlanCostIs == ASSUME NEW p \in Seq(Nat \X Nat) PROVE Cost(p) \in Nat
<1> DEFINE f == [i \in DOMAIN p |-> p[i][1] * p[i][2]]
<1>1. DOMAIN p = 1 .. Len(p) /\ Len(p) \in Nat OBVIOUS
<1>2. IsFiniteSet(DOMAIN p) BY <1>1, FS_Interval
<1>3. \A i \in DOMAIN p : f[i] \in Nat
  <2> TAKE i \in DOMAIN p
  <2>1. p[i][1] \in Nat /\ p[i][2] \in Nat OBVIOUS
  <2>2. p[i][1] * p[i][2] \in Nat BY ONLY <2>1
  <2> QED BY <2>2
<1> HIDE DEF f
<1>4. SumFunctionOnSet(f, DOMAIN p) \in Nat BY <1>2, <1>3, SumNat
<1> QED BY <1>4 DEF Cost, f

\* What a transaction leaves: what it did not spend, as it was, and new holdings, of
\* which no more are of one amount than its plan asks for.
Fresh(d, by) == {c \in DOMAIN coins' \ DOMAIN coins : coins'[c].by = by /\ coins'[c].amount = d}

\* What a transaction leaves, holding by holding.
LEMMA TransactedIs ==
  ASSUME LadderTypes, NEW S \in SUBSET DOMAIN coins, NEW plan \in Seq(Nat \X Nat), NEW by, by # "change", Transacted(S, plan, by)
  PROVE  /\ made' \in Nat /\ made <= made' /\ DOMAIN coins' \subseteq 1 .. made'
         /\ \A c \in DOMAIN coins' : c \in DOMAIN coins => c \notin S /\ coins'[c] = coins[c]
         /\ \A c \in DOMAIN coins' : c \notin DOMAIN coins =>
              c > made /\ coins'[c].amount \in Nat /\ coins'[c].by \in {by, "change"}
         /\ \A d : IsFiniteSet(Fresh(d, by)) /\ Cardinality(Fresh(d, by)) <= CountOf(plan, d)
<1> DEFINE outputs == Outputs(plan)
           L == Len(outputs)
           change == Worth(S) - Cost(plan)
           first == [i \in 1 .. L |-> [amount |-> outputs[i], by |-> by]]
           last == IF change > 0 THEN <<[amount |-> change, by |-> "change"]>> ELSE << >>
           new == first \o last
           N == Len(new)
<1>1. outputs \in Seq(Nat) /\ L \in Nat /\ \A i \in 1 .. L : outputs[i] \in Nat
  <2>1. Outputs(plan) \in Seq(Nat) BY OutputsBound
  <2>2. outputs \in Seq(Nat) BY <2>1
  <2> HIDE DEF outputs
  <2> QED BY <2>2
<1>2. change \in Int BY WorthIs, PlanCostIs
<1>3. /\ coins' = [c \in (DOMAIN coins \ S) \cup (made + 1 .. made + N) |-> IF c \in DOMAIN coins THEN coins[c] ELSE new[c - made]]
      /\ made' = made + N
  BY DEF Transacted
<1> HIDE DEF outputs, change
<1>4. N \in Nat /\ L <= N /\ N <= L + 1
      /\ (\A i \in 1 .. L : new[i] = [amount |-> outputs[i], by |-> by])
      /\ (\A i \in L + 1 .. N : new[i] = [amount |-> change, by |-> "change"] /\ change > 0)
  <2> DEFINE one == [amount |-> change, by |-> "change"]
             n == L
  <2>1. first \in Seq({first[i] : i \in 1 .. n}) /\ Len(first) = n /\ \A i \in 1 .. n : first[i] = [amount |-> outputs[i], by |-> by]
    <3> DEFINE R == {first[i] : i \in 1 .. n}
    <3>1. n \in Nat BY <1>1
    <3> HIDE DEF L
    <3>2. first \in [1 .. n -> R] OBVIOUS
    <3>3. \A i \in 1 .. n : first[i] = [amount |-> outputs[i], by |-> by] OBVIOUS
    <3> HIDE DEF n, R, first
    <3>4. first \in Seq(R) BY <3>1, <3>2
    <3>5. DOMAIN first = 1 .. n /\ DOMAIN first = 1 .. Len(first) /\ Len(first) \in Nat BY <3>2, <3>4
    <3>6. Len(first) = n BY <3>1, <3>5
    <3> QED BY <3>3, <3>4, <3>6 DEF R
  <2> DEFINE R == {first[i] : i \in 1 .. n}
  <2>2. n \in Nat /\ n = L BY <1>1
  <2> HIDE DEF first, L, n, R
  <2>3. CASE change > 0
    <3>1. last = <<one>> BY <2>3
    <3>2. first \in Seq(R) BY <2>1 DEF R
    <3> DEFINE Q == R \cup {one}
    <3> HIDE DEF last, one
    <3>a. one \in Q /\ R \subseteq Q OBVIOUS
    <3>b. \A i \in 1 .. n : first[i] \in R BY DEF R
    <3> HIDE DEF Q
    <3>c. first \in Seq(Q) BY <3>2, <3>a, <3>b, <2>1, <2>2
    <3>3. last \in Seq(Q) /\ Len(last) = 1 /\ last[1] = one BY <3>1, <3>a
    <3>d. Len(first \o last) = Len(first) + Len(last) BY <3>c, <3>3, TwoParts
    <3>4. N = n + 1 BY <2>1, <3>3, <3>d
    <3>5. \A i \in 1 .. n : new[i] = first[i] BY <2>1, <2>2, <3>3, <3>c
    <3>6. new[n + 1] = one
      <4>1. n + 1 \in 1 .. Len(first) + Len(last) /\ ~(n + 1 <= Len(first)) /\ (n + 1) - Len(first) = 1 BY <2>1, <2>2, <3>3
      <4>2. (first \o last)[n + 1] = last[(n + 1) - Len(first)]
        <5> DEFINE j == n + 1
        <5>1. j \in 1 .. Len(first) + Len(last) /\ ~(j <= Len(first)) BY <4>1
        <5> HIDE DEF j
        <5>2. (first \o last)[j] = last[j - Len(first)] BY <3>c, <3>3, <5>1, TwoParts
        <5> QED BY <5>2 DEF j
      <4> HIDE DEF last
      <4>3. last[(n + 1) - Len(first)] = one BY <4>1, <3>3
      <4> QED BY <4>2, <4>3
    <3> HIDE DEF new, N
    <3>7. \A i \in n + 1 .. N : i = n + 1 BY <2>2, <3>4
    <3> QED BY <2>1, <2>2, <2>3, <3>4, <3>5, <3>6, <3>7 DEF one
  <2>4. CASE ~(change > 0)
    <3>1. last = << >> BY <2>4
    <3>2. first \in Seq(R) BY <2>1 DEF R
    <3> HIDE DEF last
    <3>3. new = first BY <3>1, <3>2
    <3> HIDE DEF new
    <3>4. N = n /\ \A i \in n + 1 .. N : FALSE BY <2>1, <2>2, <3>3
    <3> HIDE DEF N
    <3> QED BY <2>1, <2>2, <3>3, <3>4
  <2> QED BY <2>3, <2>4
<1> HIDE DEF new, N, first, last
<1>5. made \in Nat /\ DOMAIN coins \subseteq 1 .. made BY DEF LadderTypes
<1>6. made' \in Nat /\ made <= made' BY <1>3, <1>4, <1>5
<1>7. DOMAIN coins' = (DOMAIN coins \ S) \cup (made + 1 .. made + N) BY <1>3
<1>8. DOMAIN coins' \subseteq 1 .. made'
  <2> SUFFICES ASSUME NEW c \in DOMAIN coins' PROVE c \in 1 .. made' OBVIOUS
  <2>1. CASE c \in DOMAIN coins
    <3>1. c \in 1 .. made BY <2>1, <1>5
    <3> QED BY <3>1, <1>5, <1>6
  <2>2. CASE c \in made + 1 .. made + N BY <2>2, <1>3, <1>4, <1>5
  <2> QED BY <2>1, <2>2, <1>7
<1>9. ASSUME NEW c \in DOMAIN coins', c \in DOMAIN coins PROVE c \notin S /\ coins'[c] = coins[c]
  <2>1. c \notin made + 1 .. made + N BY <1>5, <1>9
  <2>2. c \in DOMAIN coins \ S BY <1>7, <2>1
  <2>3. coins'[c] = coins[c] BY <1>3, <1>7, <1>9
  <2> QED BY <2>2, <2>3
<1>10. ASSUME NEW c \in DOMAIN coins', c \notin DOMAIN coins
       PROVE  /\ c > made /\ c \in Int /\ c - made \in 1 .. N /\ coins'[c] = new[c - made]
              /\ coins'[c].amount \in Nat /\ coins'[c].by \in {by, "change"}
              /\ coins'[c].by = by => c - made \in 1 .. L /\ coins'[c].amount = outputs[c - made]
  <2>1. c \in made + 1 .. made + N BY <1>7, <1>10
  <2>2. c > made /\ c \in Int /\ c - made \in 1 .. N BY <2>1, <1>4, <1>5
  <2>3. coins'[c] = new[c - made] BY <1>3, <1>7, <1>10
  <2> DEFINE i == c - made
  <2> HIDE DEF i, L
  <2>4. CASE i \in 1 .. L
    <3>1. coins'[c] = [amount |-> outputs[i], by |-> by] BY <2>3, <2>4, <1>4 DEF i
    <3>2. coins'[c].amount \in Nat BY <3>1, <2>4, <1>1
    <3> QED BY <2>2, <2>3, <2>4, <3>1, <3>2 DEF i
  <2>5. CASE i \notin 1 .. L
    <3>1. i \in L + 1 .. N BY <2>2, <2>5, <1>1, <1>4 DEF i
    <3>2. coins'[c] = [amount |-> change, by |-> "change"] /\ change > 0 BY <2>3, <3>1, <1>4 DEF i
    <3>3. coins'[c].amount \in Nat BY <3>2, <1>2
    <3>4. coins'[c].by # by BY <3>2
    <3> QED BY <2>2, <2>3, <3>2, <3>3, <3>4 DEF i
  <2> QED BY <2>4, <2>5
<1>11. ASSUME NEW d PROVE IsFiniteSet(Fresh(d, by)) /\ Cardinality(Fresh(d, by)) <= CountOf(plan, d)
  <2> DEFINE F == Fresh(d, by)
             A == At(outputs, d)
             g == [c \in F |-> c - made]
  <2>1. IsFiniteSet(A) /\ Cardinality(A) <= CountOf(plan, d) BY OutputsBound DEF outputs
  <2>2. \A c \in F : c \in Int /\ g[c] = c - made /\ g[c] \in A
    <3> TAKE c \in F
    <3>1. c \in DOMAIN coins' /\ c \notin DOMAIN coins /\ coins'[c].by = by /\ coins'[c].amount = d BY DEF Fresh
    <3>2. c \in Int /\ c - made \in 1 .. L /\ outputs[c - made] = d BY <3>1, <1>10
    <3> QED BY <3>2 DEF At
  <2>3. \A c, o \in F : g[c] = g[o] => c = o BY <2>2, <1>5
  <2> HIDE DEF F, A
  <2>4. g \in Injection(F, A)
    <3>1. g \in [F -> A] BY <2>2
    <3> QED BY <2>3, <3>1 DEF Injection, IsInjective
  <2> HIDE DEF g
  <2>5. IsFiniteSet(F) /\ Cardinality(F) <= Cardinality(A) BY <2>1, <2>4, FS_Injection
  <2>6. Cardinality(F) \in Nat /\ Cardinality(A) \in Nat BY <2>1, <2>5, FS_CardinalityType
  <2>7. CountOf(plan, d) \in Nat
    <3>1. plan \in Plans BY DEF Plans
    <3> QED BY <3>1, PlanIs
  <2>8. Cardinality(F) <= CountOf(plan, d) BY <2>1, <2>5, <2>6, <2>7
  <2> QED BY <2>5, <2>8 DEF F
<1>12. \A c \in DOMAIN coins' : c \in DOMAIN coins => c \notin S /\ coins'[c] = coins[c] BY <1>9
<1>13. \A c \in DOMAIN coins' : c \notin DOMAIN coins =>
         c > made /\ coins'[c].amount \in Nat /\ coins'[c].by \in {by, "change"}
  BY <1>10
<1> QED BY ONLY <1>6, <1>8, <1>11, <1>12, <1>13

\* A caller that does nothing has nothing in hand.
LEMMA NoCallIs == NoCall \in Calls /\ NoCall.at = "idle" /\ NoCall.plan = << >> /\ \A d : CountOf(NoCall.plan, d) = 0
<1>1. << >> \in Payable BY DEF Payable
<1> QED BY <1>1, CountNone DEF NoCall, Calls, Stages

\* What a caller has in hand after each step of ensure_denominations.
LEMMA CountedTo ==
  ASSUME LadderTypes, NEW k \in Callers, CountRungs(k)
  PROVE  \E v \in Calls :
           /\ call' = [call EXCEPT ![k] = v] /\ v.at = "counted"
           /\ \A i \in DOMAIN Rungs :
                LET d == Rungs[i][1]
                IN  /\ CountOf(v.plan, d) <= CountOf(Rungs, d)
                    /\ CountOf(v.plan, d) = 0 \/ CountOf(v.plan, d) + CountInBand(d) <= CountOf(Rungs, d)
<1> DEFINE p == PlanLadderRefill(Rungs, Haves)
           v == [at |-> "counted", plan |-> p, input |-> 0]
<1>1. p # << >> /\ call' = [call EXCEPT ![k] = [NoCall EXCEPT !.at = "counted", !.plan = p]] BY DEF CountRungs
<1>2. p = Missing(Rungs, Haves) BY <1>1 DEF PlanLadderRefill
<1> HIDE DEF p
<1>3. call' = [call EXCEPT ![k] = v]
  <2> DEFINE w == [NoCall EXCEPT !.at = "counted", !.plan = p]
  <2>a. DOMAIN NoCall = {"at", "plan", "input"} /\ NoCall.input = 0 BY DEF NoCall
  <2>b. DOMAIN w = {"at", "plan", "input"} /\ w.at = "counted" /\ w.plan = p /\ w.input = 0 BY <2>a
  <2>c. w = [x \in {"at", "plan", "input"} |-> w[x]] BY <2>b
  <2>d. v = [x \in {"at", "plan", "input"} |-> v[x]] /\ v.at = "counted" /\ v.plan = p /\ v.input = 0 OBVIOUS
  <2>1. w = v
    <3> HIDE DEF w, v
    <3> QED BY <2>b, <2>c, <2>d
  <2> HIDE DEF v
  <2> QED BY <1>1, <2>1
<1>4. Haves \in [DOMAIN Rungs -> Int] /\ \A i \in DOMAIN Rungs : Haves[i] = CountInBand(Rungs[i][1]) /\ Haves[i] \in Nat
  <2>1. \A i \in DOMAIN Rungs : CountInBand(Rungs[i][1]) \in Nat BY RungsAre, HavesRight
  <2>2. Haves = [i \in DOMAIN Rungs |-> CountInBand(Rungs[i][1])] BY DEF Haves
  <2> QED BY ONLY <2>1, <2>2, Nat \subseteq Int
<1>5. p \in Payable
  <2>1. \A i \in DOMAIN Rungs : Rungs[i][1] = 0 => Haves[i] = 0 BY RungsAre
  <2> QED BY <1>2, <1>4, <2>1, RungsAre, MissingBound
<1>6. ASSUME NEW i \in DOMAIN Rungs
      PROVE  /\ CountOf(p, Rungs[i][1]) <= CountOf(Rungs, Rungs[i][1])
             /\ CountOf(p, Rungs[i][1]) = 0 \/ CountOf(p, Rungs[i][1]) + CountInBand(Rungs[i][1]) <= CountOf(Rungs, Rungs[i][1])
  <2> DEFINE d == Rungs[i][1]
             h == CountInBand(d)
  <2>1. h \in Nat BY <1>4
  <2>2. \A j \in DOMAIN Rungs : Rungs[j][1] = d => Haves[j] = h BY <1>4
  <2> HIDE DEF d, h
  <2>3. CountOf(p, d) <= CountOf(Rungs, d) /\ (CountOf(p, d) = 0 \/ CountOf(p, d) + h <= CountOf(Rungs, d))
    BY <1>2, <1>4, <2>1, <2>2, RungsAre, MissingBound
  <2> QED BY <2>3 DEF d, h
<1>7. v \in Calls BY <1>5 DEF Calls, Stages
<1>8. v.at = "counted" /\ v.plan = p OBVIOUS
<1> HIDE DEF v
<1> QED BY <1>3, <1>6, <1>7, <1>8

\* What PassGate leaves of the call.
LEMMA GatedTo ==
  ASSUME LadderTypes, NEW k \in Callers, PassGate(k)
  PROVE  /\ call[k].at = "counted"
         /\ \E v \in Calls :
              /\ call' = [call EXCEPT ![k] = v]
              /\ v = NoCall \/ (v.at = "gated" /\ v.plan = call[k].plan /\ SplitGate(ops, now) = "allow")
<1>1. call[k].at = "counted" /\ call[k] \in Calls BY DEF PassGate, LadderTypes
<1>2. CASE SplitGate(ops, now) = "allow"
  <2> DEFINE v == [call[k] EXCEPT !.at = "gated"]
  <2>1. call' = [call EXCEPT ![k] = v] BY <1>2 DEF PassGate
  <2>2. v \in Calls /\ v.at = "gated" /\ v.plan = call[k].plan BY <1>1 DEF Calls, Stages
  <2> HIDE DEF v
  <2> QED BY <1>1, <1>2, <2>1, <2>2
<1>3. CASE SplitGate(ops, now) # "allow"
  <2>1. call' = [call EXCEPT ![k] = NoCall] BY <1>3 DEF PassGate
  <2> QED BY <1>1, <2>1, NoCallIs
<1> QED BY <1>2, <1>3

\* What TakeReserve leaves of it: a plan that is funded and capped asks for no more.
LEMMA TakenTo ==
  ASSUME LadderTypes, NEW k \in Callers, TakeReserve(k)
  PROVE  /\ call[k].at = "gated"
         /\ \E v \in Calls :
              /\ call' = [call EXCEPT ![k] = v]
              /\ \/ v = NoCall /\ ops' = ops
                 \/ v.at = "submitted" /\ ops' = Append(ops, now) /\ \A d : CountOf(v.plan, d) <= CountOf(call[k].plan, d)
<1> DEFINE of == {c \in Known : IsReserve(c) /\ c \notin reserved}
           plan == IF of = {} THEN << >> ELSE CapSplitOutputs(FundSplits(Amount(Max(of)), call[k].plan), MaxSplitOutputs)
           v == [at |-> "submitted", plan |-> plan, input |-> Max(of)]
<1>1. call[k].at = "gated" /\ call[k] \in Calls BY DEF TakeReserve, LadderTypes
<1>2. CASE plan = << >>
  <2>1. call' = [call EXCEPT ![k] = NoCall] /\ ops' = ops BY <1>2 DEF TakeReserve
  <2> QED BY <1>1, <2>1, NoCallIs
<1>3. CASE plan # << >>
  <2>1. call' = [call EXCEPT ![k] = v] /\ ops' = Append(ops, now) BY <1>3 DEF TakeReserve
  <2>2. of # {} BY <1>3
  <2>3. Max(of) \in of
    <3>1. of \in SUBSET Known /\ Known \subseteq Int BY DEF LadderTypes
    <3> HIDE DEF of
    <3>2. IsFiniteSet(of) /\ of \subseteq Int BY <3>1, HoldingsFinite, FS_Subset
    <3>3. of # {} BY <2>2
    <3> QED BY ONLY <3>2, <3>3, MaxIn
  <2> DEFINE m == Max(of)
  <2>a. m \in Known BY <2>3
  <2> HIDE DEF m
  <2>b. m \in Nat /\ Amount(m) \in Int
    <3>1. made \in Nat /\ Known \subseteq 1 .. made /\ \A c \in Known : cached[c] \in Nat BY ONLY LadderTypes DEF LadderTypes
    <3>2. m \in Nat BY <2>a, <3>1
    <3>3. cached[m] \in Nat BY <2>a, <3>1
    <3> QED BY <3>2, <3>3 DEF Amount
  <2>4. Max(of) \in Nat /\ Amount(Max(of)) \in Int BY <2>b DEF m
  <2> DEFINE p == call[k].plan
             a == Amount(Max(of))
             f == FundSplits(a, p)
  <2>5. p \in Payable BY <1>1 DEF Calls
  <2>6. plan = CapSplitOutputs(f, MaxSplitOutputs) BY <2>2
  <2>7. MaxSplitOutputs \in Nat BY SplitPlansAssumption
  <2>8. f \in Payable /\ \A d : CountOf(f, d) <= CountOf(p, d)
    <3> DEFINE b == 95 * a
    <3>1. b \in Int BY <2>4
    <3>2. f = FundRungs(b, p) BY DEF FundSplits
    <3> HIDE DEF a, b, p, f
    <3>3. FundRungs(b, p) \in Payable /\ \A d : CountOf(FundRungs(b, p), d) <= CountOf(p, d) BY <3>1, <2>5, FundBound
    <3> QED BY <3>2, <3>3
  <2> HIDE DEF f, plan, of
  <2>9. plan \in Payable /\ \A d : CountOf(plan, d) <= CountOf(f, d)
    <3>1. CapSplitOutputs(f, MaxSplitOutputs) \in Payable /\ \A d : CountOf(CapSplitOutputs(f, MaxSplitOutputs), d) <= CountOf(f, d)
      BY <2>7, <2>8, CapBound
    <3> QED BY <2>6, <3>1
  <2>10. \A d : CountOf(plan, d) \in Int /\ CountOf(f, d) \in Int /\ CountOf(p, d) \in Int BY <2>5, <2>8, <2>9, PayableIs, PlanIs
  <2>11. \A d : CountOf(plan, d) <= CountOf(p, d) BY <2>8, <2>9, <2>10
  <2>12. v \in Calls /\ v.at = "submitted" /\ v.plan = plan BY <2>4, <2>9 DEF Calls, Stages
  <2> HIDE DEF v
  <2> QED BY <1>1, <2>1, <2>11, <2>12
<1> QED BY <1>2, <1>3

\* What the end of a submission leaves of it.
LEMMA EndedTo ==
  ASSUME LadderTypes, NEW k \in Callers, NEW o, SplitEnds(k, o)
  PROVE  /\ call[k].at = "submitted"
         /\ \E v \in Calls :
              /\ call' = [call EXCEPT ![k] = v]
              /\ \/ o # "told" /\ v = NoCall
                 \/ o = "told" /\ v.at = "recording" /\ v.plan = call[k].plan
<1>1. call[k].at = "submitted" /\ call[k] \in Calls BY DEF SplitEnds, LadderTypes
<1>2. CASE o = "told"
  <2> DEFINE v == [call[k] EXCEPT !.at = "recording"]
  <2>1. call' = [call EXCEPT ![k] = v] BY <1>2 DEF SplitEnds
  <2>2. v \in Calls /\ v.at = "recording" /\ v.plan = call[k].plan BY <1>1 DEF Calls, Stages
  <2> HIDE DEF v
  <2> QED BY <1>1, <1>2, <2>1, <2>2
<1>3. CASE o # "told"
  <2>1. call' = [call EXCEPT ![k] = NoCall] BY <1>3 DEF SplitEnds
  <2> QED BY <1>1, <1>3, <2>1, NoCallIs
<1> QED BY <1>2, <1>3

\* And what the record leaves.
LEMMA RecordedTo ==
  ASSUME LadderTypes, NEW k \in Callers, RecordPendingSplit(k)
  PROVE  call[k].at = "recording" /\ call' = [call EXCEPT ![k] = NoCall] /\ pendingRungs' = pendingRungs \o call[k].plan
BY DEF RecordPendingSplit

\* An element appended keeps the type of a sequence.
LEMMA OneMore == ASSUME NEW Q, NEW s \in Seq(Q), NEW x \in Q PROVE Append(s, x) \in Seq(Q)
OBVIOUS

\* What a step may do to the holdings, and to what is known of them.
Flows ==
  /\ made' \in Nat /\ made <= made' /\ DOMAIN coins' \subseteq 1 .. made'
  /\ \A c \in DOMAIN coins' : \/ c \in DOMAIN coins /\ coins'[c] = coins[c]
                              \/ c > made /\ c \notin DOMAIN coins /\ coins'[c].amount \in Nat
KnownFlows == DOMAIN cached' \subseteq DOMAIN cached /\ \A c \in DOMAIN cached' : cached'[c] = cached[c]

\* No holding comes or goes.
LEMMA SameFlows == ASSUME LadderTypes, UNCHANGED <<coins, made>> PROVE Flows
BY DEF Flows, LadderTypes

\* Some go.
LEMMA LessFlows == ASSUME LadderTypes, NEW S, coins' = [c \in DOMAIN coins \ S |-> coins[c]], UNCHANGED made PROVE Flows
BY DEF Flows, LadderTypes

\* A transaction spends some and makes some.
LEMMA SpentFlows ==
  ASSUME LadderTypes, NEW S \in SUBSET DOMAIN coins, NEW plan \in Seq(Nat \X Nat), NEW by, by # "change", Transacted(S, plan, by)
  PROVE  Flows
<1>1. made' \in Nat /\ made <= made' /\ DOMAIN coins' \subseteq 1 .. made' BY TransactedIs
<1>2. ASSUME NEW c \in DOMAIN coins'
      PROVE  (c \in DOMAIN coins /\ coins'[c] = coins[c]) \/ (c > made /\ c \notin DOMAIN coins /\ coins'[c].amount \in Nat)
  <2>1. \A x \in DOMAIN coins' : x \in DOMAIN coins => x \notin S /\ coins'[x] = coins[x] BY TransactedIs
  <2>2. \A x \in DOMAIN coins' : x \notin DOMAIN coins => x > made /\ coins'[x].amount \in Nat /\ coins'[x].by \in {by, "change"}
    BY TransactedIs
  <2> QED BY <2>1, <2>2
<1> QED BY <1>1, <1>2 DEF Flows

\* One arrives.
LEMMA ArrivesFlows == ASSUME LadderTypes, NEW a \in Incoming, Arrives(a) PROVE Flows
<1>1. a \in Nat BY LadderAssumption
<1>2. made' = made + 1 /\ coins' = [c \in DOMAIN coins \cup {made + 1} |-> IF c \in DOMAIN coins THEN coins[c] ELSE [amount |-> a, by |-> "arrived"]]
  BY DEF Arrives
<1>3. made \in Nat /\ DOMAIN coins \subseteq 1 .. made BY DEF LadderTypes
<1>4. DOMAIN coins' = DOMAIN coins \cup {made + 1} BY <1>2
<1>5. ASSUME NEW c \in DOMAIN coins'
      PROVE  (c \in DOMAIN coins /\ coins'[c] = coins[c]) \/ (c > made /\ c \notin DOMAIN coins /\ coins'[c].amount \in Nat)
  <2>1. CASE c \in DOMAIN coins BY <1>2, <2>1
  <2>2. CASE c \notin DOMAIN coins
    <3>1. c = made + 1 BY <1>4, <2>2
    <3>2. coins'[c] = [amount |-> a, by |-> "arrived"] BY <1>2, <1>4, <2>2
    <3> QED BY <1>1, <1>3, <2>2, <3>1, <3>2
  <2> QED BY <2>1, <2>2
<1>6. DOMAIN coins' \subseteq 1 .. made' BY <1>2, <1>3, <1>4
<1> QED BY <1>2, <1>3, <1>5, <1>6 DEF Flows

\* What a merge makes is one holding, as a plan.
LEMMA MergedWhat ==
  ASSUME LadderTypes, NEW T \in SUBSET DOMAIN coins
  PROVE  <<<<Worth(T), 1>>>> \in Seq(Nat \X Nat) /\ <<Worth(T), 1>> \in Nat \X Nat
<1> DEFINE w == Worth(T)
<1>1. w \in Nat BY WorthIs
<1> HIDE DEF w
<1>2. <<w, 1>> \in Nat \X Nat BY <1>1
<1>3. <<<<w, 1>>>> \in Seq(Nat \X Nat) BY <1>2
<1> QED BY <1>2, <1>3 DEF w

\* The end of a submission, told or not, executed or not.
LEMMA EndsFlows ==
  ASSUME LadderTypes, NEW k \in Callers, NEW o \in SplitOutcomes, SplitEnds(k, o)
  PROVE  Flows /\ KnownFlows
<1> DEFINE c == call[k].input
<1>1. Flows
  <2>1. CASE o = "refused" BY <2>1, SameFlows DEF SplitEnds
  <2>2. CASE o # "refused"
    <3>1. {c} \in SUBSET DOMAIN coins /\ Transacted({c}, call[k].plan, o) BY <2>2 DEF SplitEnds
    <3>2. call[k].plan \in Seq(Nat \X Nat) BY ShareIs DEF LadderTypes
    <3>3. o # "change" BY DEF SplitOutcomes
    <3> QED BY <3>1, <3>2, <3>3, SpentFlows
  <2> QED BY <2>1, <2>2
<1>2. cached' = cached \/ cached' = Forget({c}) BY DEF SplitEnds
<1>3. KnownFlows BY <1>2 DEF KnownFlows, Forget, Known
<1> QED BY <1>1, <1>3

\* The end of a merge.
LEMMA MergeFlows ==
  ASSUME LadderTypes, NEW o \in SplitOutcomes, MergeEnds(o)
  PROVE  Flows /\ KnownFlows /\ pendingRungs' \in Seq(Nat \X Nat)
<1> DEFINE T == merge.inputs
<1>1. CASE o = "refused"
  <2>1. Flows BY <1>1, SameFlows DEF MergeEnds
  <2>2. pendingRungs' = pendingRungs BY <1>1 DEF MergeEnds
  <2>3. pendingRungs' \in Seq(Nat \X Nat) BY <2>2 DEF LadderTypes
  <2>4. cached' = cached \/ cached' = Forget(T) BY DEF MergeEnds
  <2>5. KnownFlows BY <2>4 DEF KnownFlows, Forget, Known
  <2> QED BY <2>1, <2>3, <2>5
<1>2. CASE o # "refused"
  <2>1. T \in SUBSET DOMAIN coins /\ Transacted(T, <<<<Worth(T), 1>>>>, "merged") BY <1>2 DEF MergeEnds
  <2>2. Flows BY <2>1, MergedWhat, SpentFlows
  <2>3. <<Worth(T), 1>> \in Nat \X Nat BY <2>1, MergedWhat
  <2>4. pendingRungs' = pendingRungs \/ pendingRungs' = Append(pendingRungs, <<Worth(T), 1>>) BY DEF MergeEnds
  <2>5. pendingRungs \in Seq(Nat \X Nat) BY DEF LadderTypes
  <2> DEFINE w == <<Worth(T), 1>>
  <2>6. pendingRungs' \in Seq(Nat \X Nat)
    <3>1. w \in Nat \X Nat /\ (pendingRungs' = pendingRungs \/ pendingRungs' = Append(pendingRungs, w)) BY <2>3, <2>4
    <3> HIDE DEF w
    <3>2. Append(pendingRungs, w) \in Seq(Nat \X Nat) BY <3>1, <2>5, OneMore
    <3> QED BY <3>1, <3>2, <2>5
  <2>7. KnownFlows BY DEF MergeEnds, KnownFlows, Forget, Known
  <2> QED BY <2>2, <2>6, <2>7
<1> QED BY <1>1, <1>2

\* Whatever the step, holdings only come with new numbers and what is known is only forgotten,
\* but for a snapshot.
LEMMA StepFlows ==
  ASSUME LadderTypes, LadderNext
  PROVE  Flows /\ (KnownFlows \/ AcsSnapshot)
<1> DEFINE Sought == Flows /\ (KnownFlows \/ AcsSnapshot)
<1>0. UNCHANGED cached => KnownFlows BY DEF KnownFlows
<1>1. ASSUME NEW k \in Callers, CountRungs(k) \/ PassGate(k) \/ TakeReserve(k) \/ RecordPendingSplit(k) PROVE Sought
  <2>1. UNCHANGED <<coins, made, cached>> BY <1>1 DEF CountRungs, PassGate, TakeReserve, RecordPendingSplit
  <2> QED BY <2>1, <1>0, SameFlows
<1>2. ASSUME NEW k \in Callers, NEW o \in SplitOutcomes, SplitEnds(k, o) PROVE Sought BY <1>2, EndsFlows
<1>3. CASE MergeStarts BY <1>3, <1>0, SameFlows DEF MergeStarts
<1>4. ASSUME NEW o \in SplitOutcomes, MergeEnds(o) PROVE Sought BY <1>4, MergeFlows
<1>5. CASE AcsSnapshot BY <1>5, SameFlows DEF AcsSnapshot
<1>6. ASSUME NEW c \in Known, Settled(c) PROVE Sought
  <2>1. coins' = [o \in DOMAIN coins \ {c} |-> coins[o]] /\ made' = made /\ cached' = Forget({c}) BY <1>6 DEF Settled
  <2>2. Flows BY <2>1, LessFlows
  <2>3. KnownFlows BY <2>1 DEF KnownFlows, Forget, Known
  <2> QED BY <2>2, <2>3
<1>7. ASSUME NEW a \in Incoming, Arrives(a) PROVE Sought
  <2>1. UNCHANGED cached BY <1>7 DEF Arrives
  <2> QED BY <2>1, <1>0, <1>7, ArrivesFlows
<1>8. CASE Later BY <1>8, <1>0, SameFlows DEF Later
<1> QED BY <1>1, <1>2, <1>3, <1>4, <1>5, <1>6, <1>7, <1>8 DEF LadderNext

\* Whoever moves, the calls, the pending rungs and the attempts keep their types.
LEMMA StepTypes ==
  ASSUME LadderTypes, LadderNext
  PROVE  LadderTypes'
<1> DEFINE Rest == /\ pendingRungs' \in Seq(Nat \X Nat)
                   /\ now' \in Nat /\ ops' \in Seq(Nat) /\ \A i \in DOMAIN ops' : ops'[i] <= now'
                   /\ call' \in [Callers -> Calls] /\ overlapped' \in BOOLEAN
           Quiet == UNCHANGED <<pendingRungs, now, ops>>
<1>0. /\ pendingRungs \in Seq(Nat \X Nat) /\ now \in Nat /\ ops \in Seq(Nat) /\ \A i \in DOMAIN ops : ops[i] <= now
      /\ call \in [Callers -> Calls] /\ overlapped \in BOOLEAN
  BY DEF LadderTypes
<1>a. ASSUME NEW k \in Callers, NEW v \in Calls, call' = [call EXCEPT ![k] = v] PROVE call' \in [Callers -> Calls] BY <1>0, <1>a
<1>1. ASSUME NEW k \in Callers, CountRungs(k) PROVE Rest
  <2>1. call' \in [Callers -> Calls] BY <1>1, <1>a, CountedTo
  <2>2. Quiet /\ overlapped' \in BOOLEAN BY <1>1, <1>0 DEF CountRungs
  <2> QED BY <1>0, <2>1, <2>2
<1>b. ASSUME UNCHANGED <<now, ops, call, overlapped>> PROVE now' \in Nat /\ ops' \in Seq(Nat) /\ (\A i \in DOMAIN ops' : ops'[i] <= now') /\ call' \in [Callers -> Calls] /\ overlapped' \in BOOLEAN
  BY <1>0, <1>b
<1>2. ASSUME NEW k \in Callers, PassGate(k) PROVE Rest
  <2>1. call' \in [Callers -> Calls] BY <1>2, <1>a, GatedTo
  <2>2. Quiet /\ UNCHANGED overlapped BY <1>2 DEF PassGate
  <2> QED BY <1>0, <2>1, <2>2
<1>3. ASSUME NEW k \in Callers, TakeReserve(k) PROVE Rest
  <2>1. call' \in [Callers -> Calls] /\ (ops' = ops \/ ops' = Append(ops, now)) BY <1>3, <1>a, TakenTo
  <2>2. UNCHANGED <<pendingRungs, now, overlapped>> BY <1>3 DEF TakeReserve
  <2>3. ops' \in Seq(Nat) /\ \A i \in DOMAIN ops' : ops'[i] <= now
    <3>1. CASE ops' = ops BY <3>1, <1>0
    <3>2. CASE ops' = Append(ops, now)
      <4> DEFINE q == Append(ops, now)
      <4>1. /\ q \in Seq(Nat) /\ DOMAIN q = 1 .. Len(ops) + 1 /\ Len(ops) \in Nat /\ DOMAIN ops = 1 .. Len(ops)
            /\ q[Len(ops) + 1] = now /\ \A i \in 1 .. Len(ops) : q[i] = ops[i]
        BY <1>0
      <4> HIDE DEF q
      <4>2. \A i \in DOMAIN q : q[i] <= now
        <5> TAKE i \in DOMAIN q
        <5>1. CASE i \in 1 .. Len(ops) BY <4>1, <5>1, <1>0
        <5>2. CASE i = Len(ops) + 1 BY <4>1, <5>2, <1>0
        <5> QED BY <4>1, <5>1, <5>2
      <4> QED BY <3>2, <4>1, <4>2 DEF q
    <3> QED BY <2>1, <3>1, <3>2
  <2> QED BY <1>0, <2>1, <2>2, <2>3
<1>4. ASSUME NEW k \in Callers, RecordPendingSplit(k) PROVE Rest
  <2>1. call' = [call EXCEPT ![k] = NoCall] /\ pendingRungs' = pendingRungs \o call[k].plan BY <1>4, RecordedTo
  <2>2. call' \in [Callers -> Calls] BY <2>1, <1>a, NoCallIs
  <2>3. call[k].plan \in Seq(Nat \X Nat) BY <1>0, ShareIs
  <2> DEFINE p == call[k].plan
  <2>4. pendingRungs' \in Seq(Nat \X Nat)
    <3> HIDE DEF p
    <3>1. pendingRungs \o p \in Seq(Nat \X Nat) BY <1>0, <2>3, TwoParts DEF p
    <3> QED BY <2>1, <3>1 DEF p
  <2>5. UNCHANGED <<now, ops, overlapped>> BY <1>4 DEF RecordPendingSplit
  <2> QED BY <1>0, <2>2, <2>4, <2>5
<1>5. ASSUME NEW k \in Callers, NEW o \in SplitOutcomes, SplitEnds(k, o) PROVE Rest
  <2>1. call' \in [Callers -> Calls] BY <1>5, <1>a, EndedTo
  <2>2. Quiet /\ UNCHANGED overlapped BY <1>5 DEF SplitEnds
  <2> QED BY <1>0, <2>1, <2>2
<1>6. ASSUME MergeStarts PROVE Rest
  <2>1. UNCHANGED <<pendingRungs, now, ops, call, overlapped>> BY <1>6 DEF MergeStarts
  <2> QED BY <1>0, <1>b, <2>1
<1>7. ASSUME NEW o \in SplitOutcomes, MergeEnds(o) PROVE Rest
  <2>1. pendingRungs' \in Seq(Nat \X Nat) BY <1>7, MergeFlows
  <2>2. UNCHANGED <<now, ops, call, overlapped>> BY <1>7 DEF MergeEnds
  <2> QED BY <1>0, <1>b, <2>1, <2>2
<1>8. ASSUME AcsSnapshot PROVE Rest
  <2>1. pendingRungs' = << >> /\ UNCHANGED <<now, ops, call, overlapped>> BY <1>8 DEF AcsSnapshot
  <2> QED BY <1>0, <1>b, <2>1
<1>9. ASSUME NEW c \in Known, Settled(c) PROVE Rest
  <2>1. UNCHANGED <<pendingRungs, now, ops, call, overlapped>> BY <1>9 DEF Settled
  <2> QED BY <1>0, <1>b, <2>1
<1>10. ASSUME NEW a \in Incoming, Arrives(a) PROVE Rest
  <2>1. UNCHANGED <<pendingRungs, now, ops, call, overlapped>> BY <1>10 DEF Arrives
  <2> QED BY <1>0, <1>b, <2>1
<1>11. ASSUME Later PROVE Rest
  <2>1. now' = now + 1 /\ UNCHANGED <<pendingRungs, ops, call, overlapped>> BY <1>11 DEF Later
  <2>2. \A i \in DOMAIN ops : ops[i] \in Nat BY <1>0
  <2>3. \A i \in DOMAIN ops : ops[i] <= now + 1 BY <1>0, <2>2
  <2> QED BY <1>0, <2>1, <2>3
<1>12. Rest
  <2> HIDE DEF Rest
  <2> QED BY <1>1, <1>2, <1>3, <1>4, <1>5, <1>6, <1>7, <1>8, <1>9, <1>10, <1>11 DEF LadderNext
<1>13. made' \in Nat /\ DOMAIN coins' \subseteq 1 .. made' /\ \A c \in DOMAIN coins' : coins'[c].amount \in Nat
  <2>1. Flows BY StepFlows
  <2>2. \A c \in DOMAIN coins : coins[c].amount \in Nat BY DEF LadderTypes
  <2> QED BY <2>1, <2>2 DEF Flows
<1>14. DOMAIN cached' \subseteq 1 .. made' /\ \A c \in DOMAIN cached' : cached'[c] \in Nat
  <2>1. CASE KnownFlows
    <3>1. Known \subseteq 1 .. made /\ (\A c \in Known : cached[c] \in Nat) /\ made \in Nat BY DEF LadderTypes
    <3>2. made <= made' /\ made' \in Nat BY StepFlows DEF Flows
    <3>3. 1 .. made \subseteq 1 .. made' BY <3>1, <3>2
    <3> QED BY <2>1, <3>1, <3>3 DEF KnownFlows, Known
  <2>2. CASE AcsSnapshot
    <3>1. cached' = [c \in DOMAIN coins |-> coins[c].amount] /\ made' = made BY <2>2 DEF AcsSnapshot
    <3> QED BY <3>1 DEF LadderTypes
  <2> QED BY <2>1, <2>2, StepFlows
<1> QED BY <1>12, <1>13, <1>14 DEF LadderTypes, Known

\* Dust is known and smaller than any rung.
LEMMA DustIs ==
  ASSUME LadderTypes
  PROVE  /\ Dust \subseteq Known /\ IsFiniteSet(Dust) /\ \A c \in Dust : cached[c] \in Int
         /\ \A c \in Dust, i \in DOMAIN Rungs : cached[c] < Rungs[i][1]
<1>1. Dust \in SUBSET Known BY DEF Dust
<1>2. \A c \in Dust : cached[c] \in Int BY <1>1 DEF LadderTypes
<1>3. ASSUME NEW c \in Dust, NEW i \in DOMAIN Rungs PROVE cached[c] < Rungs[i][1]
  <2> DEFINE f == [j \in DOMAIN Rungs |-> Rungs[j][1]]
             R == {Rungs[j][1] : j \in DOMAIN Rungs}
  <2>1. IsFiniteSet(DOMAIN Rungs) /\ Ints(f, DOMAIN Rungs) /\ DOMAIN Rungs # {}
    <3>1. IsFiniteSet(DOMAIN Rungs) BY RungsAre, FS_Interval
    <3> QED BY <3>1, RungsAre DEF Ints
  <2>2. PICK m \in DOMAIN Rungs : \A x \in DOMAIN Rungs : f[x] >= f[m] BY <2>1, LargestOne
  <2>3. \E x \in R : \A y \in R : x <= y
    <3>1. f[m] \in R /\ \A y \in R : f[m] <= y BY <2>2, RungsAre
    <3> QED BY <3>1
  <2>4. Min(R) \in R /\ \A y \in R : Min(R) <= y
    <3> HIDE DEF R
    <3> QED BY <2>3 DEF Min
  <2>5. Amount(c) < Min(R) BY DEF Dust, Floor
  <2>6. Min(R) <= Rungs[i][1] /\ Rungs[i][1] \in Int /\ Min(R) \in Int BY <2>4, RungsAre
  <2> HIDE DEF R
  <2> QED BY <2>5, <2>6, <1>2 DEF Amount
<1> QED BY <1>1, <1>2, <1>3, HoldingsFinite, FS_Subset

\* Every step keeps the cache right about the holdings that are still there.
LEMMA StepCached ==
  ASSUME LadderTypes, CachedRight, LadderNext
  PROVE  CachedRight'
<1>0. Flows /\ (KnownFlows \/ AcsSnapshot) BY StepFlows
<1>1. made \in Nat /\ DOMAIN coins \subseteq 1 .. made /\ Known \subseteq 1 .. made BY DEF LadderTypes
<1>2. ASSUME NEW c \in 1 .. made, c \in DOMAIN coins' PROVE c \in DOMAIN coins /\ coins'[c] = coins[c]
  <2>1. ~(c > made) BY <1>1
  <2> QED BY <2>1, <1>0, <1>2 DEF Flows
<1>3. ASSUME NEW c \in DOMAIN cached' \cap DOMAIN coins' PROVE cached'[c] = coins'[c].amount
  <2>1. CASE KnownFlows
    <3>1. c \in Known /\ cached'[c] = cached[c] BY <2>1 DEF KnownFlows, Known
    <3>2. c \in DOMAIN coins /\ coins'[c] = coins[c] BY <3>1, <1>1, <1>2
    <3> QED BY <3>1, <3>2 DEF CachedRight
  <2>2. CASE AcsSnapshot
    <3>1. cached' = [o \in DOMAIN coins |-> coins[o].amount] /\ coins' = coins BY <2>2 DEF AcsSnapshot
    <3> QED BY <3>1
  <2> QED BY <1>0, <2>1, <2>2
<1>4. merge'.inputs \subseteq merge.inputs \/ merge'.inputs \subseteq Dust
  <2>1. CASE MergeStarts
    <3>1. PlanMerge(Dust, MergeThreshold, MaxMerge) \subseteq Dust
      <4>1. MaxMerge \in Nat BY LadderAssumption
      <4> QED BY <4>1, DustIs, MergeTakes
    <3>2. merge' = [at |-> "submitted", inputs |-> PlanMerge(Dust, MergeThreshold, MaxMerge)] BY <2>1 DEF MergeStarts
    <3> QED BY <3>1, <3>2
  <2>2. ASSUME NEW o \in SplitOutcomes, MergeEnds(o) PROVE merge'.inputs \subseteq merge.inputs
    <3>1. merge' = NoMerge BY <2>2 DEF MergeEnds
    <3> QED BY <3>1 DEF NoMerge
  <2>3. UNCHANGED merge \/ MergeStarts \/ \E o \in SplitOutcomes : MergeEnds(o)
    BY DEF LadderNext, CountRungs, PassGate, TakeReserve, RecordPendingSplit, SplitEnds, AcsSnapshot, Settled, Arrives, Later
  <2> QED BY <2>1, <2>2, <2>3
<1>5. ASSUME NEW c \in merge'.inputs
      PROVE  c \in 1 .. made /\ \A i \in DOMAIN Rungs : c \in DOMAIN coins => coins[c].amount < Rungs[i][1]
  <2>1. CASE c \in merge.inputs BY <2>1 DEF CachedRight
  <2>2. CASE c \in Dust
    <3>1. c \in Known /\ c \in 1 .. made BY <2>2, <1>1, DustIs
    <3>2. c \in DOMAIN coins => cached[c] = coins[c].amount BY <3>1 DEF CachedRight
    <3>3. \A i \in DOMAIN Rungs : cached[c] < Rungs[i][1] BY <2>2, DustIs
    <3> QED BY <3>1, <3>2, <3>3
  <2> QED BY <1>4, <2>1, <2>2
<1>6. ASSUME NEW c \in merge'.inputs
      PROVE  c \in 1 .. made' /\ \A i \in DOMAIN Rungs : c \in DOMAIN coins' => coins'[c].amount < Rungs[i][1]
  <2>1. made <= made' /\ made' \in Nat BY <1>0 DEF Flows
  <2>2. c \in 1 .. made' BY <1>1, <1>5, <2>1
  <2>3. ASSUME c \in DOMAIN coins' PROVE \A i \in DOMAIN Rungs : coins'[c].amount < Rungs[i][1]
    <3>1. c \in DOMAIN coins /\ coins'[c] = coins[c] BY <1>2, <1>5, <2>3
    <3> QED BY <1>5, <3>1
  <2> QED BY <2>2, <2>3
<1> QED BY <1>3, <1>6 DEF CachedRight, Known

\* Of what it was told it made, a transaction leaves what it did not spend and what is new.
LEMMA SpentTold ==
  ASSUME LadderTypes, NEW S \in SUBSET DOMAIN coins, NEW plan \in Seq(Nat \X Nat), NEW by, by # "change", Transacted(S, plan, by), NEW d
  PROVE  /\ \A c \in ToldOf(d)' : (c \in ToldOf(d) /\ c \notin S) \/ (by = "told" /\ c \in Fresh(d, by))
         /\ IsFiniteSet(Fresh(d, by)) /\ Cardinality(Fresh(d, by)) \in Nat /\ Cardinality(Fresh(d, by)) <= CountOf(plan, d)
<1>1. \A c \in DOMAIN coins' : c \in DOMAIN coins => c \notin S /\ coins'[c] = coins[c] BY TransactedIs
<1>2. \A c \in DOMAIN coins' : c \notin DOMAIN coins => c > made /\ coins'[c].amount \in Nat /\ coins'[c].by \in {by, "change"}
  BY TransactedIs
<1>3. \A x : IsFiniteSet(Fresh(x, by)) /\ Cardinality(Fresh(x, by)) <= CountOf(plan, x) BY TransactedIs
<1>4. ASSUME NEW c \in ToldOf(d)' PROVE (c \in ToldOf(d) /\ c \notin S) \/ (by = "told" /\ c \in Fresh(d, by))
  <2>1. c \in DOMAIN coins' /\ coins'[c].by = "told" /\ coins'[c].amount = d BY DEF ToldOf
  <2>2. CASE c \in DOMAIN coins
    <3>1. c \notin S /\ coins'[c] = coins[c] BY <1>1, <2>1, <2>2
    <3>2. c \in ToldOf(d) BY <2>1, <2>2, <3>1 DEF ToldOf
    <3> QED BY <3>1, <3>2
  <2>3. CASE c \notin DOMAIN coins
    <3>1. coins'[c].by \in {by, "change"} BY <1>2, <2>1, <2>3
    <3>2. by = "told" BY <2>1, <3>1
    <3> QED BY <2>1, <2>3, <3>2 DEF Fresh
  <2> QED BY <2>2, <2>3
<1>5. Cardinality(Fresh(d, by)) \in Nat BY <1>3, FS_CardinalityType
<1> QED BY <1>3, <1>4, <1>5

\* The numbers of a rung, before and after.
LEMMA NumbersAre ==
  ASSUME LadderTypes, NEW d
  PROVE  /\ IsFiniteSet(ToldOf(d)) /\ Cardinality(ToldOf(d)) \in Nat
         /\ IsFiniteSet(ToldOf(d) \ Known) /\ Cardinality(ToldOf(d) \ Known) \in Nat
         /\ CountOf(pendingRungs, d) \in Nat /\ CountOf(Rungs, d) \in Nat
         /\ \A A : Doing(call, A, d) \in Nat /\ \A k \in Callers : Share(call[k], A, d) \in Nat
<1>1. IsFiniteSet(ToldOf(d)) /\ Cardinality(ToldOf(d)) \in Nat BY HoldingsFinite
<1>2. ToldOf(d) \ Known \in SUBSET ToldOf(d) OBVIOUS
<1>3. IsFiniteSet(ToldOf(d) \ Known) /\ Cardinality(ToldOf(d) \ Known) \in Nat BY <1>1, <1>2, FS_Subset, FS_CardinalityType
<1>4. pendingRungs \in Plans BY DEF LadderTypes, Plans
<1>5. CountOf(pendingRungs, d) \in Nat /\ CountOf(Rungs, d) \in Nat BY <1>4, RungsAre, PlanIs
<1>6. \A A : Doing(call, A, d) \in Nat /\ \A k \in Callers : Share(call[k], A, d) \in Nat BY DoingIs DEF LadderTypes
<1> QED BY <1>1, <1>3, <1>5, <1>6

-----------------------------------------------------------------------------
(* Every step keeps the rungs right                                           *)

\* A rung stays right when the numbers of the caller that moves say so.
LEMMA RungTo ==
  ASSUME LadderTypes, NEW d, RungRight(d), NEW k \in Callers, NEW v \in Calls, call' = [call EXCEPT ![k] = v],
         CountOf(v.plan, d) <= CountOf(Rungs, d),
         Cardinality(ToldOf(d)' \ Known') <=
           CountOf(pendingRungs', d) + ((Doing(call, {"recording"}, d) - Share(call[k], {"recording"}, d)) + Share(v, {"recording"}, d)),
         Cardinality(ToldOf(d)') + ((Doing(call, Ahead, d) - Share(call[k], Ahead, d)) + Share(v, Ahead, d))
           <= 1 + Cardinality(Callers) * CountOf(Rungs, d),
         overlapped' \/ Cardinality(ToldOf(d)') + ((Doing(call, Ahead, d) - Share(call[k], Ahead, d)) + Share(v, Ahead, d))
           <= 1 + CountOf(Rungs, d)
  PROVE  RungRight(d)'
<1>1. call \in [Callers -> Calls] BY DEF LadderTypes
<1>2. /\ Doing(call', {"recording"}, d) = (Doing(call, {"recording"}, d) - Share(call[k], {"recording"}, d)) + Share(v, {"recording"}, d)
      /\ Doing(call', Ahead, d) = (Doing(call, Ahead, d) - Share(call[k], Ahead, d)) + Share(v, Ahead, d)
  <2>1. Moves(call', call, k, v) BY DEF Moves
  <2>2. \A A : Doing(call', A, d) = (Doing(call, A, d) - Share(call[k], A, d)) + Share(v, A, d) BY <1>1, <2>1, DoingTo
  <2> QED BY <2>2
<1>3. \A j \in Callers : CountOf(call'[j].plan, d) <= CountOf(Rungs, d)
  <2> TAKE j \in Callers
  <2>1. CASE j = k
    <3>1. call'[j] = v BY <1>1, <2>1
    <3> QED BY <3>1
  <2>2. CASE j # k
    <3>1. call'[j] = call[j] BY <1>1, <2>2
    <3> QED BY <3>1 DEF RungRight
  <2> QED BY <2>1, <2>2
<1> QED BY <1>2, <1>3 DEF RungRight

\* The count keeps each rung right: what it plans is missing, and what it cannot see is
\* in the hands of callers that overlap with it.
LEMMA CountRungsKept ==
  ASSUME LadderTypes, CachedRight, Alone, NEW i \in DOMAIN Rungs, RungRight(Rungs[i][1]), NEW k \in Callers, CountRungs(k)
  PROVE  RungRight(Rungs[i][1])'
<1> DEFINE d == Rungs[i][1]
           full == CountOf(Rungs, d)
           n == Cardinality(Callers)
           t == Cardinality(ToldOf(d))
           u == Cardinality(ToldOf(d) \ Known)
           p == CountOf(pendingRungs, d)
           h == CountInBand(d)
           a == Doing(call, Ahead, d)
           r == Doing(call, {"recording"}, d)
<1>1. PICK v \in Calls :
        /\ call' = [call EXCEPT ![k] = v] /\ v.at = "counted"
        /\ CountOf(v.plan, d) <= full
        /\ CountOf(v.plan, d) = 0 \/ CountOf(v.plan, d) + h <= full
  BY CountedTo
<1> DEFINE x == CountOf(v.plan, d)
<1>2. UNCHANGED <<coins, cached, pendingRungs>> /\ call[k].at = "idle" /\ overlapped' = (overlapped \/ \E o \in Callers \ {k} : call[o].at # "idle")
  BY DEF CountRungs
<1>3. ToldOf(d)' = ToldOf(d) /\ Known' = Known BY <1>2 DEF ToldOf, Known
<1>4. d \in Nat \ {0} BY RungsAre
<1>5. t \in Nat /\ u \in Nat /\ p \in Nat /\ full \in Nat /\ a \in Nat /\ r \in Nat /\ h \in Nat /\ x \in Nat /\ n \in Nat /\ n >= 1
  <2> HIDE DEF d
  <2>1. h \in Nat BY <1>4, HavesRight
  <2>2. x \in Nat BY ShareIs
  <2> QED BY <2>1, <2>2, NumbersAre, CallersAre
<1>6. t + p <= h + 1 + u
  <2> HIDE DEF d
  <2> QED BY <1>4, HavesRight
<1>7. u <= p + r /\ t + a <= 1 + n * full /\ (overlapped \/ t + a <= 1 + full) /\ \A j \in Callers : CountOf(call[j].plan, d) <= full
  <2>1. RungRight(d) OBVIOUS
  <2> HIDE DEF d
  <2> QED BY <2>1 DEF RungRight
<1>8. Share(call[k], Ahead, d) = 0 /\ Share(call[k], {"recording"}, d) = 0 /\ Share(v, Ahead, d) = x /\ Share(v, {"recording"}, d) = 0
  BY <1>1, <1>2 DEF Share, Ahead
<1> DEFINE m1 == n - 1
<1>9. a + r <= full * m1
  <2>1. \A j \in Callers \ {k} : (IF call[j].at = "idle" THEN 0 ELSE CountOf(call[j].plan, d)) <= full BY <1>5, <1>7
  <2>2. call \in [Callers -> Calls] BY DEF LadderTypes
  <2>3. full \in Nat BY <1>5
  <2> HIDE DEF d, full
  <2>4. Doing(call, Ahead, d) + Doing(call, {"recording"}, d) <= full * (Cardinality(Callers) - 1)
    BY <1>2, <2>1, <2>2, <2>3, DoingOthers
  <2> QED BY <2>4
<1>10. ~overlapped' => a + r <= 0
  <2> SUFFICES ASSUME ~overlapped' PROVE a + r <= 0 OBVIOUS
  <2>1. \A j \in Callers \ {k} : (IF call[j].at = "idle" THEN 0 ELSE CountOf(call[j].plan, d)) <= 0
    <3>1. ~ \E o \in Callers \ {k} : call[o].at # "idle" BY <1>2, Zenon
    <3> QED BY <3>1
  <2>2. call \in [Callers -> Calls] BY DEF LadderTypes
  <2>3. a + r <= 0 * (n - 1)
    <3> HIDE DEF d
    <3>1. 0 \in Nat OBVIOUS
    <3>2. Doing(call, Ahead, d) + Doing(call, {"recording"}, d) <= 0 * (Cardinality(Callers) - 1)
      BY <1>2, <2>1, <2>2, <3>1, DoingOthers
    <3> QED BY <3>2
  <2>4. 0 * (n - 1) = 0 BY <1>5
  <2> QED BY <2>3, <2>4
<1>11. ~overlapped' => ~overlapped BY <1>2
<1>12. full * m1 + full = n * full
  <2>1. n = m1 + 1 /\ m1 \in Int BY <1>5
  <2> HIDE DEF n, m1, full
  <2>2. (m1 + 1) * full = full * m1 + full BY <1>5, <2>1
  <2> QED BY <2>1, <2>2
<1> HIDE DEF t, u, p, h, a, r, x, full, n, d
<1>13. full * m1 \in Int /\ n * full \in Int BY <1>5
<1> DEFINE y == full * m1
           z == n * full
<1> HIDE DEF y, z
<1>14. t + ((a - 0) + x) <= 1 + z
  <2>1. CASE x = 0 BY <2>1, <1>5, <1>7 DEF z
  <2>2. CASE x # 0
    <3>1. x + h <= full BY <1>1, <2>2 DEF x
    <3>2. y + full = z /\ a + r <= y /\ y \in Int /\ z \in Int BY <1>9, <1>12, <1>13 DEF y, z
    <3> QED BY <3>1, <3>2, <1>5, <1>6, <1>7
  <2> QED BY <2>1, <2>2
<1>15. overlapped' \/ t + ((a - 0) + x) <= 1 + full
  <2> SUFFICES ASSUME ~overlapped' PROVE t + ((a - 0) + x) <= 1 + full OBVIOUS
  <2>1. CASE x = 0 BY <2>1, <1>5, <1>7, <1>11
  <2>2. CASE x # 0
    <3>1. x + h <= full BY <1>1, <2>2 DEF x
    <3>2. a + r <= 0 BY <1>10
    <3> QED BY <3>1, <3>2, <1>5, <1>6, <1>7
  <2> QED BY <2>1, <2>2
<1>16. RungRight(d)
  BY DEF d
<1>17. u <= CountOf(pendingRungs', d) + ((r - 0) + 0) BY <1>2, <1>5, <1>7 DEF p
<1>18. Cardinality(ToldOf(d)' \ Known') = u /\ Cardinality(ToldOf(d)') = t BY <1>3 DEF t, u
<1>19. Cardinality(ToldOf(d)' \ Known') <=
         CountOf(pendingRungs', d) + ((Doing(call, {"recording"}, d) - Share(call[k], {"recording"}, d)) + Share(v, {"recording"}, d))
  BY <1>8, <1>17, <1>18 DEF r
<1>20. Cardinality(ToldOf(d)') + ((Doing(call, Ahead, d) - Share(call[k], Ahead, d)) + Share(v, Ahead, d)) <= 1 + Cardinality(Callers) * CountOf(Rungs, d)
  BY <1>8, <1>14, <1>18 DEF a, z, n, full
<1>21. overlapped' \/ Cardinality(ToldOf(d)') + ((Doing(call, Ahead, d) - Share(call[k], Ahead, d)) + Share(v, Ahead, d)) <= 1 + CountOf(Rungs, d)
  BY <1>8, <1>15, <1>18 DEF a, full
<1>22. CountOf(v.plan, d) <= CountOf(Rungs, d) BY <1>1 DEF full
<1>23. RungRight(d)' BY <1>1, <1>16, <1>19, <1>20, <1>21, <1>22, RungTo
<1> QED BY <1>23 DEF d

\* So does a step in which no caller moves and no rung is made.
LEMMA QuietKept ==
  ASSUME LadderTypes, NEW d, RungRight(d), UNCHANGED <<call, overlapped>>, ToldOf(d)' \subseteq ToldOf(d),
         Cardinality(ToldOf(d)' \ Known') <= CountOf(pendingRungs', d) + Doing(call, {"recording"}, d)
  PROVE  RungRight(d)'
<1>1. IsFiniteSet(ToldOf(d)) /\ Cardinality(ToldOf(d)) \in Nat /\ Doing(call, Ahead, d) \in Nat /\ CountOf(Rungs, d) \in Nat
  BY NumbersAre
<1>2. ToldOf(d)' \in SUBSET ToldOf(d) OBVIOUS
<1>3. Cardinality(ToldOf(d)') <= Cardinality(ToldOf(d)) /\ Cardinality(ToldOf(d)') \in Nat
  <2> DEFINE T == ToldOf(d)
             U == ToldOf(d)'
  <2>1. U \in SUBSET T /\ IsFiniteSet(T) BY <1>1, <1>2
  <2> HIDE DEF T, U
  <2>2. IsFiniteSet(U) /\ Cardinality(U) <= Cardinality(T) BY <2>1, FS_Subset
  <2>3. Cardinality(U) \in Nat BY <2>2, FS_CardinalityType
  <2> QED BY <2>2, <2>3 DEF T, U
<1>4. call' = call /\ overlapped' = overlapped OBVIOUS
<1>5. Cardinality(Callers) * CountOf(Rungs, d) \in Int BY <1>1, CallersAre
<1> DEFINE z == Cardinality(Callers) * CountOf(Rungs, d)
           a == Doing(call, Ahead, d)
           t == Cardinality(ToldOf(d))
           s == Cardinality(ToldOf(d)')
<1>6. s <= t /\ s \in Nat /\ t \in Nat /\ a \in Nat /\ z \in Int /\ t + a <= 1 + z /\ (overlapped \/ t + a <= 1 + CountOf(Rungs, d))
  BY <1>1, <1>3, <1>5 DEF RungRight
<1> HIDE DEF z, a, t, s
<1>7. s + a <= 1 + z /\ (overlapped \/ s + a <= 1 + CountOf(Rungs, d)) BY <1>6, <1>1
<1>8. \A j \in Callers : CountOf(call'[j].plan, d) <= CountOf(Rungs, d) BY <1>4 DEF RungRight
<1>9. Cardinality(ToldOf(d)') + Doing(call', Ahead, d) <= 1 + Cardinality(Callers) * CountOf(Rungs, d)
  BY <1>4, <1>7 DEF z, a, s
<1>10. overlapped' \/ Cardinality(ToldOf(d)') + Doing(call', Ahead, d) <= 1 + CountOf(Rungs, d)
  BY <1>4, <1>7 DEF z, a, s
<1> QED BY <1>4, <1>8, <1>9, <1>10 DEF RungRight

\* Fewer, and of those not known no more.
LEMMA FewerUnseen ==
  ASSUME LadderTypes, NEW d, RungRight(d), ToldOf(d)' \ Known' \subseteq ToldOf(d) \ Known,
         CountOf(pendingRungs', d) \in Int, CountOf(pendingRungs, d) <= CountOf(pendingRungs', d)
  PROVE  Cardinality(ToldOf(d)' \ Known') <= CountOf(pendingRungs', d) + Doing(call, {"recording"}, d)
<1> DEFINE U == ToldOf(d) \ Known
           V == ToldOf(d)' \ Known'
<1>1. IsFiniteSet(U) /\ Cardinality(U) \in Nat /\ CountOf(pendingRungs, d) \in Nat /\ Doing(call, {"recording"}, d) \in Nat BY NumbersAre
<1>2. V \in SUBSET U OBVIOUS
<1>3. Cardinality(U) <= CountOf(pendingRungs, d) + Doing(call, {"recording"}, d) BY DEF RungRight
<1> HIDE DEF U, V
<1>4. IsFiniteSet(V) /\ Cardinality(V) <= Cardinality(U) BY <1>1, <1>2, FS_Subset
<1>5. Cardinality(V) \in Nat BY <1>4, FS_CardinalityType
<1>6. Cardinality(V) <= CountOf(pendingRungs', d) + Doing(call, {"recording"}, d) BY <1>1, <1>3, <1>4, <1>5
<1> QED BY <1>6 DEF V

\* The merge, the snapshot, the watcher, the arrivals and the clock.
LEMMA AroundKept ==
  ASSUME LadderTypes, CachedRight, NEW i \in DOMAIN Rungs, RungRight(Rungs[i][1]),
         MergeStarts \/ (\E o \in SplitOutcomes : MergeEnds(o)) \/ AcsSnapshot \/ (\E c \in Known : Settled(c))
         \/ (\E a \in Incoming : Arrives(a)) \/ Later
  PROVE  RungRight(Rungs[i][1])'
<1> DEFINE d == Rungs[i][1]
<1>0. RungRight(d) OBVIOUS
<1>a. CountOf(pendingRungs, d) \in Nat /\ Doing(call, {"recording"}, d) \in Nat
  <2> HIDE DEF d
  <2> QED BY NumbersAre
<1>b. ASSUME UNCHANGED <<coins, cached, pendingRungs, call, overlapped>> PROVE RungRight(d)'
  <2>1. ToldOf(d)' = ToldOf(d) /\ Known' = Known BY <1>b DEF ToldOf, Known
  <2> HIDE DEF d
  <2>2. CountOf(pendingRungs', d) \in Int /\ CountOf(pendingRungs, d) <= CountOf(pendingRungs', d) BY <1>a, <1>b
  <2>3. Cardinality(ToldOf(d)' \ Known') <= CountOf(pendingRungs', d) + Doing(call, {"recording"}, d)
    BY <1>0, <2>1, <2>2, FewerUnseen
  <2> QED BY <1>0, <1>b, <2>1, <2>3, QuietKept
<1>1. CASE MergeStarts
  <2>1. UNCHANGED <<coins, cached, pendingRungs, call, overlapped>> BY <1>1 DEF MergeStarts
  <2> QED BY <1>b, <2>1
<1>2. ASSUME NEW o \in SplitOutcomes, MergeEnds(o) PROVE RungRight(d)'
  <2> DEFINE T == merge.inputs
  <2>1. UNCHANGED <<call, overlapped>> /\ (cached' = cached \/ cached' = Forget(T)) BY <1>2 DEF MergeEnds
  <2>2. /\ o # "refused" => T \in SUBSET DOMAIN coins /\ Transacted(T, <<<<Worth(T), 1>>>>, "merged")
        /\ o = "refused" => UNCHANGED <<coins, pendingRungs>>
        /\ pendingRungs' = pendingRungs \/ (o # "refused" /\ pendingRungs' = Append(pendingRungs, <<Worth(T), 1>>))
    BY <1>2 DEF MergeEnds
  <2>3. \A c \in ToldOf(d)' : c \in ToldOf(d) /\ c \notin T
    <3>1. CASE o = "refused"
      <4> TAKE c \in ToldOf(d)'
      <4>1. c \in ToldOf(d) BY <2>2, <3>1 DEF ToldOf
      <4>2. c \in T => coins[c].amount < d BY <4>1 DEF CachedRight, ToldOf
      <4>3. coins[c].amount = d /\ d \in Nat BY <4>1, RungsAre DEF ToldOf
      <4> QED BY <4>1, <4>2, <4>3
    <3>2. CASE o # "refused"
      <4> HIDE DEF d, T
      <4>1. T \in SUBSET DOMAIN coins /\ Transacted(T, <<<<Worth(T), 1>>>>, "merged") BY <2>2, <3>2 DEF T
      <4>2. <<<<Worth(T), 1>>>> \in Seq(Nat \X Nat) BY <4>1, MergedWhat
      <4> DEFINE q == <<<<Worth(T), 1>>>>
      <4> HIDE DEF q
      <4>3. \A c \in ToldOf(d)' : (c \in ToldOf(d) /\ c \notin T) \/ ("merged" = "told" /\ c \in Fresh(d, "merged"))
        <5>1. q \in Seq(Nat \X Nat) /\ Transacted(T, q, "merged") BY <4>1, <4>2 DEF q
        <5>2. "merged" # "change" OBVIOUS
        <5> QED BY <4>1, <5>1, <5>2, SpentTold
      <4> QED BY <4>3
    <3> QED BY <3>1, <3>2
  <2>4. \A c \in ToldOf(d)' : c \in Known' <=> c \in Known BY <2>1, <2>3 DEF Forget, Known
  <2>5. ToldOf(d)' \subseteq ToldOf(d) /\ ToldOf(d)' \ Known' \subseteq ToldOf(d) \ Known BY <2>3, <2>4
  <2>6. CountOf(pendingRungs', d) \in Int /\ CountOf(pendingRungs, d) <= CountOf(pendingRungs', d)
    <3>1. CASE pendingRungs' = pendingRungs BY <3>1, <1>a
    <3>2. CASE o # "refused" /\ pendingRungs' = Append(pendingRungs, <<Worth(T), 1>>)
      <4>1. Worth(T) \in Nat BY <3>2, <2>2, WorthIs
      <4>2. pendingRungs \in Plans BY DEF LadderTypes, Plans
      <4> DEFINE w == Worth(T)
      <4>3. w \in Int /\ 1 \in Nat BY <4>1
      <4> HIDE DEF w, d
      <4>4. CountOf(Append(pendingRungs, <<w, 1>>), d) = CountOf(pendingRungs, d) + (IF w = d THEN 1 ELSE 0)
        BY <4>2, <4>3, CountAppend
      <4>5. pendingRungs' = Append(pendingRungs, <<w, 1>>) BY <3>2 DEF w
      <4> QED BY <4>4, <4>5, <1>a
    <3> QED BY <2>2, <3>1, <3>2
  <2> HIDE DEF d
  <2>7. Cardinality(ToldOf(d)' \ Known') <= CountOf(pendingRungs', d) + Doing(call, {"recording"}, d)
    BY <1>0, <2>5, <2>6, FewerUnseen
  <2> QED BY <1>0, <2>1, <2>5, <2>7, QuietKept
<1>3. ASSUME AcsSnapshot PROVE RungRight(d)'
  <2>1. UNCHANGED <<coins, call, overlapped>> /\ cached' = [c \in DOMAIN coins |-> coins[c].amount] /\ pendingRungs' = << >>
    BY <1>3 DEF AcsSnapshot
  <2>2. ToldOf(d)' = ToldOf(d) /\ ToldOf(d)' \ Known' = {} BY <2>1 DEF ToldOf, Known
  <2>3. Cardinality(ToldOf(d)' \ Known') = 0 BY <2>2, FS_EmptySet
  <2>4. CountOf(pendingRungs', d) = 0 BY <2>1, CountNone
  <2> HIDE DEF d
  <2>5. Cardinality(ToldOf(d)' \ Known') <= CountOf(pendingRungs', d) + Doing(call, {"recording"}, d) BY <2>3, <2>4, <1>a
  <2> QED BY <1>0, <2>1, <2>2, <2>5, QuietKept
<1>4. ASSUME NEW c \in Known, Settled(c) PROVE RungRight(d)'
  <2>1. UNCHANGED <<call, overlapped, pendingRungs>> /\ coins' = [o \in DOMAIN coins \ {c} |-> coins[o]] /\ cached' = Forget({c})
    BY <1>4 DEF Settled
  <2>2. ToldOf(d)' \subseteq ToldOf(d) /\ ToldOf(d)' \ Known' \subseteq ToldOf(d) \ Known BY <2>1 DEF ToldOf, Known, Forget
  <2> HIDE DEF d
  <2>3. CountOf(pendingRungs', d) \in Int /\ CountOf(pendingRungs, d) <= CountOf(pendingRungs', d) BY <1>a, <2>1
  <2>4. Cardinality(ToldOf(d)' \ Known') <= CountOf(pendingRungs', d) + Doing(call, {"recording"}, d)
    BY <1>0, <2>2, <2>3, FewerUnseen
  <2> QED BY <1>0, <2>1, <2>2, <2>4, QuietKept
<1>5. ASSUME NEW a \in Incoming, Arrives(a) PROVE RungRight(d)'
  <2>1. /\ UNCHANGED <<call, overlapped, pendingRungs, cached>>
        /\ coins' = [c \in DOMAIN coins \cup {made + 1} |-> IF c \in DOMAIN coins THEN coins[c] ELSE [amount |-> a, by |-> "arrived"]]
    BY <1>5 DEF Arrives
  <2>2. ToldOf(d)' \subseteq ToldOf(d)
    <3> SUFFICES ASSUME NEW c \in ToldOf(d)' PROVE c \in ToldOf(d) OBVIOUS
    <3>1. c \in DOMAIN coins' /\ coins'[c].by = "told" /\ coins'[c].amount = d BY DEF ToldOf
    <3>2. CASE c \in DOMAIN coins
      <4>1. coins'[c] = coins[c] BY <2>1, <3>2
      <4> QED BY <3>1, <3>2, <4>1 DEF ToldOf
    <3>3. CASE c \notin DOMAIN coins
      <4>1. coins'[c] = [amount |-> a, by |-> "arrived"] BY <2>1, <3>1, <3>3
      <4> QED BY <3>1, <4>1
    <3> QED BY <3>2, <3>3
  <2>3. Known' = Known BY <2>1 DEF Known
  <2>4. ToldOf(d)' \ Known' \subseteq ToldOf(d) \ Known BY <2>2, <2>3
  <2> HIDE DEF d
  <2>5. CountOf(pendingRungs', d) \in Int /\ CountOf(pendingRungs, d) <= CountOf(pendingRungs', d) BY <1>a, <2>1
  <2>6. Cardinality(ToldOf(d)' \ Known') <= CountOf(pendingRungs', d) + Doing(call, {"recording"}, d)
    BY <1>0, <2>4, <2>5, FewerUnseen
  <2> QED BY <1>0, <2>1, <2>2, <2>6, QuietKept
<1>6. CASE Later
  <2>1. UNCHANGED <<coins, cached, pendingRungs, call, overlapped>> BY <1>6 DEF Later
  <2> QED BY <1>b, <2>1
<1> QED BY <1>1, <1>2, <1>3, <1>4, <1>5, <1>6

\* The steps of ensure_denominations, but for the count.
LEMMA GateKept ==
  ASSUME LadderTypes, NEW d, RungRight(d), NEW k \in Callers, PassGate(k)
  PROVE  RungRight(d)'
<1> DEFINE a == Doing(call, Ahead, d)
           r == Doing(call, {"recording"}, d)
           x == CountOf(call[k].plan, d)
           t == Cardinality(ToldOf(d))
           z == Cardinality(Callers) * CountOf(Rungs, d)
<1>1. call[k].at = "counted" BY GatedTo
<1>2. PICK v \in Calls : call' = [call EXCEPT ![k] = v] /\ (v = NoCall \/ (v.at = "gated" /\ v.plan = call[k].plan)) BY GatedTo
<1>3. UNCHANGED <<coins, cached, pendingRungs, overlapped>> BY DEF PassGate
<1>4. ToldOf(d)' = ToldOf(d) /\ Known' = Known BY <1>3 DEF ToldOf, Known
<1>5. t \in Nat /\ a \in Nat /\ r \in Nat /\ x \in Nat /\ CountOf(Rungs, d) \in Nat /\ z \in Int
  <2>1. x \in Nat BY ShareIs DEF LadderTypes
  <2>2. CountOf(Rungs, d) \in Nat /\ Cardinality(Callers) \in Nat BY NumbersAre, CallersAre
  <2>3. z \in Int BY ONLY <2>2
  <2> QED BY <2>1, <2>2, <2>3, NumbersAre
<1>6. /\ Cardinality(ToldOf(d) \ Known) <= CountOf(pendingRungs, d) + r /\ x <= CountOf(Rungs, d)
      /\ t + a <= 1 + z /\ (overlapped \/ t + a <= 1 + CountOf(Rungs, d))
  BY DEF RungRight
<1>7. Share(call[k], Ahead, d) = x /\ Share(call[k], {"recording"}, d) = 0 BY <1>1 DEF Share, Ahead
<1>8. CountOf(v.plan, d) \in Nat /\ CountOf(v.plan, d) <= x /\ Share(v, {"recording"}, d) = 0 /\ Share(v, Ahead, d) \in Nat /\ Share(v, Ahead, d) <= x
  <2>1. CASE v = NoCall BY <2>1, <1>5, NoCallIs DEF Share, Ahead
  <2>2. CASE v.at = "gated" /\ v.plan = call[k].plan BY <2>2, <1>5 DEF Share, Ahead
  <2> QED BY <1>2, <2>1, <2>2
<1> DEFINE y == Share(v, Ahead, d)
<1> HIDE DEF a, r, x, t, z, y
<1>9. t + ((a - x) + y) <= 1 + z BY <1>5, <1>6, <1>8 DEF y
<1>10. overlapped \/ t + ((a - x) + y) <= 1 + CountOf(Rungs, d) BY <1>5, <1>6, <1>8 DEF y
<1>11. Cardinality(ToldOf(d)') + ((Doing(call, Ahead, d) - Share(call[k], Ahead, d)) + Share(v, Ahead, d)) <= 1 + Cardinality(Callers) * CountOf(Rungs, d)
  BY <1>4, <1>7, <1>9 DEF a, t, z, y
<1>12. overlapped' \/ Cardinality(ToldOf(d)') + ((Doing(call, Ahead, d) - Share(call[k], Ahead, d)) + Share(v, Ahead, d)) <= 1 + CountOf(Rungs, d)
  BY <1>3, <1>4, <1>7, <1>10 DEF a, t, y
<1>13. Cardinality(ToldOf(d)' \ Known') <=
         CountOf(pendingRungs', d) + ((Doing(call, {"recording"}, d) - Share(call[k], {"recording"}, d)) + Share(v, {"recording"}, d))
  <2>1. (r - 0) + 0 = r BY <1>5
  <2> QED BY <1>3, <1>4, <1>6, <1>7, <1>8, <2>1 DEF r
<1>14. CountOf(v.plan, d) <= CountOf(Rungs, d) BY <1>5, <1>6, <1>8
<1> QED BY <1>2, <1>11, <1>12, <1>13, <1>14, RungTo

\* A plan that is cut down leaves less in hand.
LEMMA TakeKept ==
  ASSUME LadderTypes, NEW d, RungRight(d), NEW k \in Callers, TakeReserve(k)
  PROVE  RungRight(d)'
<1> DEFINE a == Doing(call, Ahead, d)
           r == Doing(call, {"recording"}, d)
           x == CountOf(call[k].plan, d)
           t == Cardinality(ToldOf(d))
           z == Cardinality(Callers) * CountOf(Rungs, d)
<1>1. call[k].at = "gated" BY TakenTo
<1>2. PICK v \in Calls : call' = [call EXCEPT ![k] = v]
                         /\ (v = NoCall \/ (v.at = "submitted" /\ \A e : CountOf(v.plan, e) <= CountOf(call[k].plan, e)))
  BY TakenTo
<1>3. UNCHANGED <<coins, cached, pendingRungs, overlapped>> BY DEF TakeReserve
<1>4. ToldOf(d)' = ToldOf(d) /\ Known' = Known BY <1>3 DEF ToldOf, Known
<1>5. t \in Nat /\ a \in Nat /\ r \in Nat /\ x \in Nat /\ CountOf(Rungs, d) \in Nat /\ z \in Int
  <2>1. x \in Nat BY ShareIs DEF LadderTypes
  <2>2. CountOf(Rungs, d) \in Nat /\ Cardinality(Callers) \in Nat BY NumbersAre, CallersAre
  <2>3. z \in Int BY ONLY <2>2
  <2> QED BY <2>1, <2>2, <2>3, NumbersAre
<1>6. /\ Cardinality(ToldOf(d) \ Known) <= CountOf(pendingRungs, d) + r /\ x <= CountOf(Rungs, d)
      /\ t + a <= 1 + z /\ (overlapped \/ t + a <= 1 + CountOf(Rungs, d))
  BY DEF RungRight
<1>7. Share(call[k], Ahead, d) = x /\ Share(call[k], {"recording"}, d) = 0 BY <1>1 DEF Share, Ahead
<1>8. CountOf(v.plan, d) \in Nat /\ CountOf(v.plan, d) <= x /\ Share(v, {"recording"}, d) = 0 /\ Share(v, Ahead, d) \in Nat /\ Share(v, Ahead, d) <= x
  <2>1. CASE v = NoCall BY <2>1, <1>5, NoCallIs DEF Share, Ahead
  <2>2. CASE v.at = "submitted" /\ \A e : CountOf(v.plan, e) <= CountOf(call[k].plan, e)
    <3>1. CountOf(v.plan, d) \in Nat BY ShareIs
    <3> QED BY <2>2, <3>1 DEF Share, Ahead
  <2> QED BY <1>2, <2>1, <2>2
<1> DEFINE y == Share(v, Ahead, d)
<1> HIDE DEF a, r, x, t, z, y
<1>9. t + ((a - x) + y) <= 1 + z BY <1>5, <1>6, <1>8 DEF y
<1>10. overlapped \/ t + ((a - x) + y) <= 1 + CountOf(Rungs, d) BY <1>5, <1>6, <1>8 DEF y
<1>11. Cardinality(ToldOf(d)') + ((Doing(call, Ahead, d) - Share(call[k], Ahead, d)) + Share(v, Ahead, d)) <= 1 + Cardinality(Callers) * CountOf(Rungs, d)
  BY <1>4, <1>7, <1>9 DEF a, t, z, y
<1>12. overlapped' \/ Cardinality(ToldOf(d)') + ((Doing(call, Ahead, d) - Share(call[k], Ahead, d)) + Share(v, Ahead, d)) <= 1 + CountOf(Rungs, d)
  BY <1>3, <1>4, <1>7, <1>10 DEF a, t, y
<1>13. Cardinality(ToldOf(d)' \ Known') <=
         CountOf(pendingRungs', d) + ((Doing(call, {"recording"}, d) - Share(call[k], {"recording"}, d)) + Share(v, {"recording"}, d))
  <2>1. (r - 0) + 0 = r BY <1>5
  <2> QED BY <1>3, <1>4, <1>6, <1>7, <1>8, <2>1 DEF r
<1>14. CountOf(v.plan, d) <= CountOf(Rungs, d) BY <1>5, <1>6, <1>8
<1> QED BY <1>2, <1>11, <1>12, <1>13, <1>14, RungTo

\* What was not seen becomes pending: what a caller had in hand moves to pending_splits.
LEMMA RecordKept ==
  ASSUME LadderTypes, NEW d, RungRight(d), NEW k \in Callers, RecordPendingSplit(k)
  PROVE  RungRight(d)'
<1> DEFINE a == Doing(call, Ahead, d)
           r == Doing(call, {"recording"}, d)
           x == CountOf(call[k].plan, d)
           p == CountOf(pendingRungs, d)
           v == NoCall
<1>1. call[k].at = "recording" /\ call' = [call EXCEPT ![k] = v] /\ pendingRungs' = pendingRungs \o call[k].plan BY RecordedTo
<1>2. UNCHANGED <<coins, cached, overlapped>> BY DEF RecordPendingSplit
<1>3. ToldOf(d)' = ToldOf(d) /\ Known' = Known BY <1>2 DEF ToldOf, Known
<1>4. x \in Nat /\ call[k].plan \in Plans /\ v \in Calls /\ CountOf(v.plan, d) = 0 BY ShareIs, NoCallIs DEF LadderTypes
<1>5. a \in Nat /\ r \in Nat /\ p \in Nat /\ CountOf(Rungs, d) \in Nat BY NumbersAre
<1>6. CountOf(pendingRungs', d) = p + x
  <2>1. pendingRungs \in Plans BY DEF LadderTypes, Plans
  <2> QED BY <1>1, <1>4, <2>1, CountConcat
<1>7. /\ Share(call[k], Ahead, d) = 0 /\ Share(call[k], {"recording"}, d) = x
      /\ Share(v, Ahead, d) = 0 /\ Share(v, {"recording"}, d) = 0
  BY <1>1, NoCallIs DEF Share, Ahead
<1>8. Cardinality(ToldOf(d) \ Known) <= p + r /\ Cardinality(ToldOf(d)) + a <= 1 + Cardinality(Callers) * CountOf(Rungs, d)
      /\ (overlapped \/ Cardinality(ToldOf(d)) + a <= 1 + CountOf(Rungs, d))
  BY DEF RungRight
<1> HIDE DEF a, r, x, p, v
<1>9. (a - 0) + 0 = a /\ (p + x) + ((r - x) + 0) = p + r BY <1>4, <1>5
<1>10. Cardinality(ToldOf(d)' \ Known') <=
         CountOf(pendingRungs', d) + ((Doing(call, {"recording"}, d) - Share(call[k], {"recording"}, d)) + Share(v, {"recording"}, d))
  BY <1>3, <1>6, <1>7, <1>8, <1>9 DEF r
<1>11. Cardinality(ToldOf(d)') + ((Doing(call, Ahead, d) - Share(call[k], Ahead, d)) + Share(v, Ahead, d)) <= 1 + Cardinality(Callers) * CountOf(Rungs, d)
  BY <1>3, <1>7, <1>8, <1>9 DEF a
<1>12. overlapped' \/ Cardinality(ToldOf(d)') + ((Doing(call, Ahead, d) - Share(call[k], Ahead, d)) + Share(v, Ahead, d)) <= 1 + CountOf(Rungs, d)
  BY <1>2, <1>3, <1>7, <1>8, <1>9 DEF a
<1>13. CountOf(v.plan, d) <= CountOf(Rungs, d) BY <1>4, <1>5
<1> QED BY <1>1, <1>4, <1>10, <1>11, <1>12, <1>13, RungTo

\* What was in hand is on the ledger, and not in the cache until the record or the snapshot.
LEMMA EndKept ==
  ASSUME LadderTypes, NEW d, RungRight(d), NEW k \in Callers, NEW o \in SplitOutcomes, SplitEnds(k, o)
  PROVE  RungRight(d)'
<1> DEFINE a == Doing(call, Ahead, d)
           r == Doing(call, {"recording"}, d)
           plan == call[k].plan
           x == CountOf(plan, d)
           p == CountOf(pendingRungs, d)
           c == call[k].input
           T == ToldOf(d)
           T2 == ToldOf(d)'
           U == T \ Known
           U2 == T2 \ Known'
           z == Cardinality(Callers) * CountOf(Rungs, d)
<1>1. call[k].at = "submitted" BY EndedTo
<1>2. PICK v \in Calls : /\ call' = [call EXCEPT ![k] = v]
                         /\ (o # "told" /\ v = NoCall) \/ (o = "told" /\ v.at = "recording" /\ v.plan = plan)
  BY EndedTo
<1>3. /\ UNCHANGED <<pendingRungs, overlapped>>
      /\ o = "refused" => coins' = coins
      /\ o # "refused" => {c} \in SUBSET DOMAIN coins /\ Transacted({c}, plan, o)
      /\ o = "told" => cached' = Forget({c})
      /\ o # "told" => cached' = cached
  BY DEF SplitEnds
<1>4. call[k] \in Calls /\ x \in Nat /\ plan \in Seq(Nat \X Nat) BY ShareIs DEF LadderTypes
<1>5. /\ IsFiniteSet(T) /\ Cardinality(T) \in Nat /\ IsFiniteSet(U) /\ Cardinality(U) \in Nat
      /\ p \in Nat /\ CountOf(Rungs, d) \in Nat /\ a \in Nat /\ r \in Nat
  BY NumbersAre
<1>6. z \in Int BY <1>5, CallersAre
<1>7. /\ Cardinality(U) <= p + r /\ x <= CountOf(Rungs, d) /\ Cardinality(T) + a <= 1 + z
      /\ (overlapped \/ Cardinality(T) + a <= 1 + CountOf(Rungs, d))
  BY DEF RungRight
<1> DEFINE w == IF o = "told" THEN x ELSE 0
<1>8. /\ Cardinality(T2) \in Nat /\ Cardinality(T2) <= Cardinality(T) + w
      /\ Cardinality(U2) \in Nat /\ Cardinality(U2) <= Cardinality(U) + w
  <2>1. CASE o # "told"
    <3>1. T2 \in SUBSET T
      <4>1. CASE o = "refused" BY <1>3, <4>1 DEF ToldOf
      <4>2. CASE o # "refused"
        <5>1. {c} \in SUBSET DOMAIN coins /\ Transacted({c}, plan, o) /\ o # "change" BY <1>3, <4>2 DEF SplitOutcomes
        <5> HIDE DEF c, plan
        <5>2. \A b \in ToldOf(d)' : (b \in ToldOf(d) /\ b \notin {c}) \/ (o = "told" /\ b \in Fresh(d, o)) BY <5>1, <1>4, SpentTold
        <5> QED BY <5>2, <2>1
      <4> QED BY <4>1, <4>2
    <3>2. Known' = Known BY <1>3, <2>1 DEF Known
    <3>3. U2 \in SUBSET U BY <3>1, <3>2
    <3>4. w = 0 BY <2>1
    <3> HIDE DEF T, T2, U, U2, w
    <3>5. IsFiniteSet(T2) /\ Cardinality(T2) <= Cardinality(T) /\ IsFiniteSet(U2) /\ Cardinality(U2) <= Cardinality(U)
      BY <3>1, <3>3, <1>5, FS_Subset
    <3>6. Cardinality(T2) \in Nat /\ Cardinality(U2) \in Nat BY <3>5, FS_CardinalityType
    <3> QED BY <3>4, <3>5, <3>6, <1>5
  <2>2. CASE o = "told"
    <3>1. {c} \in SUBSET DOMAIN coins /\ Transacted({c}, plan, "told") /\ cached' = Forget({c}) BY <1>3, <2>2
    <3>2. "told" # "change" OBVIOUS
    <3> DEFINE F == Fresh(d, "told")
    <3>3. /\ \A b \in ToldOf(d)' : (b \in ToldOf(d) /\ b \notin {c}) \/ ("told" = "told" /\ b \in F)
          /\ IsFiniteSet(F) /\ Cardinality(F) \in Nat /\ Cardinality(F) <= CountOf(plan, d)
      <4> HIDE DEF c, plan, F
      <4> QED BY <3>1, <3>2, <1>4, SpentTold DEF F
    <3>4. T2 \in SUBSET (T \cup F) BY <3>3
    <3>5. U2 \in SUBSET (U \cup F)
      <4> SUFFICES ASSUME NEW b \in T2, b \notin Known', b \notin F PROVE b \in U OBVIOUS
      <4>1. b \in T /\ b # c BY <3>3
      <4>2. b \notin Known BY <3>1, <4>1 DEF Known, Forget
      <4> QED BY <4>1, <4>2
    <3>6. w = x /\ x = CountOf(plan, d) BY <2>2
    <3> HIDE DEF T, T2, U, U2, F, w, x, plan
    <3>7. /\ IsFiniteSet(T \cup F) /\ Cardinality(T \cup F) <= Cardinality(T) + Cardinality(F) /\ Cardinality(T \cup F) \in Nat
          /\ IsFiniteSet(U \cup F) /\ Cardinality(U \cup F) <= Cardinality(U) + Cardinality(F) /\ Cardinality(U \cup F) \in Nat
      BY <1>5, <3>3, UnionAtMost
    <3>8. IsFiniteSet(T2) /\ Cardinality(T2) <= Cardinality(T \cup F) /\ IsFiniteSet(U2) /\ Cardinality(U2) <= Cardinality(U \cup F)
      BY <3>4, <3>5, <3>7, FS_Subset
    <3>9. Cardinality(T2) \in Nat /\ Cardinality(U2) \in Nat BY <3>8, FS_CardinalityType
    <3> QED BY <3>3, <3>6, <3>7, <3>8, <3>9, <1>4, <1>5
  <2> QED BY <2>1, <2>2
<1>9. Share(call[k], Ahead, d) = x /\ Share(call[k], {"recording"}, d) = 0 BY <1>1 DEF Share, Ahead
<1>10. /\ Share(v, Ahead, d) = 0 /\ Share(v, {"recording"}, d) = w /\ CountOf(v.plan, d) \in Nat /\ CountOf(v.plan, d) <= x
  <2>1. CASE o # "told" /\ v = NoCall BY <2>1, <1>4, NoCallIs DEF Share, Ahead
  <2>2. CASE o = "told" /\ v.at = "recording" /\ v.plan = plan BY <2>2, <1>4 DEF Share, Ahead
  <2> QED BY <1>2, <2>1, <2>2
<1>11. w \in Nat /\ w <= x BY <1>4
<1> DEFINE t == Cardinality(T)
           t2 == Cardinality(T2)
           u == Cardinality(U)
           u2 == Cardinality(U2)
<1> HIDE DEF a, r, x, p, z, w, t, t2, u, u2, T, T2, U, U2
<1>12. u2 <= p + ((r - 0) + w) BY <1>4, <1>5, <1>7, <1>8, <1>11 DEF u, u2
<1>13. t2 + ((a - x) + 0) <= 1 + z BY <1>4, <1>5, <1>6, <1>7, <1>8, <1>11 DEF t, t2
<1>14. overlapped \/ t2 + ((a - x) + 0) <= 1 + CountOf(Rungs, d) BY <1>4, <1>5, <1>7, <1>8, <1>11 DEF t, t2
<1>15. Cardinality(ToldOf(d)' \ Known') <=
         CountOf(pendingRungs', d) + ((Doing(call, {"recording"}, d) - Share(call[k], {"recording"}, d)) + Share(v, {"recording"}, d))
  BY <1>3, <1>9, <1>10, <1>12 DEF p, r, u2, U2, T2
<1>16. Cardinality(ToldOf(d)') + ((Doing(call, Ahead, d) - Share(call[k], Ahead, d)) + Share(v, Ahead, d)) <= 1 + Cardinality(Callers) * CountOf(Rungs, d)
  BY <1>9, <1>10, <1>13 DEF a, t2, T2, z
<1>17. overlapped' \/ Cardinality(ToldOf(d)') + ((Doing(call, Ahead, d) - Share(call[k], Ahead, d)) + Share(v, Ahead, d)) <= 1 + CountOf(Rungs, d)
  BY <1>3, <1>9, <1>10, <1>14 DEF a, t2, T2
<1>18. CountOf(v.plan, d) <= CountOf(Rungs, d) BY <1>4, <1>5, <1>7, <1>10
<1> QED BY <1>2, <1>15, <1>16, <1>17, <1>18, RungTo

-----------------------------------------------------------------------------
(* Every step keeps the budget                                                *)

\* What becomes of the calls in a step.
LEMMA CallsMove ==
  ASSUME LadderTypes, NEW k \in Callers, PassGate(k) \/ TakeReserve(k) \/ RecordPendingSplit(k) \/ \E o \in SplitOutcomes : SplitEnds(k, o)
  PROVE  call[k].at # "idle" /\ (\E v \in Calls : call' = [call EXCEPT ![k] = v]) /\ overlapped' = overlapped /\ now' = now
<1>1. ASSUME PassGate(k) PROVE call[k].at # "idle" /\ (\E v \in Calls : call' = [call EXCEPT ![k] = v])
  <2>1. call[k].at = "counted" /\ (\E v \in Calls : call' = [call EXCEPT ![k] = v]) BY <1>1, GatedTo
  <2> QED BY <2>1
<1>2. ASSUME TakeReserve(k) PROVE call[k].at # "idle" /\ (\E v \in Calls : call' = [call EXCEPT ![k] = v])
  <2>1. call[k].at = "gated" /\ (\E v \in Calls : call' = [call EXCEPT ![k] = v]) BY <1>2, TakenTo
  <2> QED BY <2>1
<1>3. ASSUME RecordPendingSplit(k) PROVE call[k].at # "idle" /\ (\E v \in Calls : call' = [call EXCEPT ![k] = v])
  <2>1. call[k].at = "recording" /\ call' = [call EXCEPT ![k] = NoCall] BY <1>3, RecordedTo
  <2> QED BY <2>1, NoCallIs
<1>4. ASSUME NEW o \in SplitOutcomes, SplitEnds(k, o) PROVE call[k].at # "idle" /\ (\E v \in Calls : call' = [call EXCEPT ![k] = v])
  <2>1. call[k].at = "submitted" /\ (\E v \in Calls : call' = [call EXCEPT ![k] = v]) BY <1>4, EndedTo
  <2> QED BY <2>1
<1>5. overlapped' = overlapped /\ now' = now BY Zenon DEF PassGate, TakeReserve, RecordPendingSplit, SplitEnds
<1> QED BY <1>1, <1>2, <1>3, <1>4, <1>5

\* Unless calls overlap, one is under way.
LEMMA StepAlone ==
  ASSUME LadderTypes, Alone, LadderNext
  PROVE  Alone'
<1>0. call \in [Callers -> Calls] BY DEF LadderTypes
<1>1. ASSUME NEW k \in Callers, CountRungs(k) PROVE Alone'
  <2>1. PICK v \in Calls : call' = [call EXCEPT ![k] = v] BY <1>1, CountedTo
  <2>2. overlapped' = (overlapped \/ \E o \in Callers \ {k} : call[o].at # "idle") BY <1>1 DEF CountRungs
  <2>3. CASE overlapped' BY <2>3 DEF Alone
  <2>4. CASE ~overlapped'
    <3>1. ~ \E o \in Callers \ {k} : call[o].at # "idle" BY <2>2, <2>4, Zenon
    <3>2. \A j \in Callers : j # k => call'[j].at = "idle" BY <3>1, <2>1, <1>0
    <3> QED BY <3>2 DEF Alone
  <2> QED BY <2>3, <2>4
<1>2. ASSUME NEW k \in Callers, call[k].at # "idle", NEW v \in Calls, call' = [call EXCEPT ![k] = v], overlapped' = overlapped PROVE Alone'
  <2>1. \A j \in Callers : call'[j].at # "idle" => call[j].at # "idle" BY <1>0, <1>2
  <2> QED BY <2>1, <1>2 DEF Alone
<1>3. ASSUME UNCHANGED <<call, overlapped>> PROVE Alone' BY <1>3 DEF Alone
<1>4. ASSUME NEW k \in Callers, PassGate(k) \/ TakeReserve(k) \/ RecordPendingSplit(k) \/ \E o \in SplitOutcomes : SplitEnds(k, o) PROVE Alone'
  <2>1. call[k].at # "idle" /\ (\E v \in Calls : call' = [call EXCEPT ![k] = v]) /\ overlapped' = overlapped BY <1>4, CallsMove
  <2> QED BY <2>1, <1>2
<1>5. ASSUME MergeStarts \/ (\E o \in SplitOutcomes : MergeEnds(o)) \/ AcsSnapshot \/ (\E c \in Known : Settled(c))
             \/ (\E a \in Incoming : Arrives(a)) \/ Later
      PROVE  Alone'
  <2>1. UNCHANGED <<call, overlapped>> BY <1>5, Zenon DEF MergeStarts, MergeEnds, AcsSnapshot, Settled, Arrives, Later
  <2> QED BY <2>1, <1>3
<1> QED BY <1>1, <1>4, <1>5, Zenon DEF LadderNext

\* The attempts of a window and the callers past the gate are finitely many.
LEMMA WithinIs ==
  ASSUME LadderTypes, NEW t
  PROVE  /\ Within(t) \subseteq DOMAIN ops /\ IsFiniteSet(DOMAIN ops) /\ IsFiniteSet(Within(t)) /\ Cardinality(Within(t)) \in Nat
         /\ IsFiniteSet(Gated) /\ Cardinality(Gated) \in Nat /\ Cardinality(Gated) <= Cardinality(Callers)
<1>1. ops \in Seq(Nat) BY DEF LadderTypes
<1>2. DOMAIN ops = 1 .. Len(ops) /\ Len(ops) \in Nat BY <1>1
<1>3. IsFiniteSet(DOMAIN ops) BY <1>2, FS_Interval
<1>4. Within(t) \in SUBSET DOMAIN ops /\ Gated \in SUBSET Callers BY DEF Within, Gated
<1>5. IsFiniteSet(Within(t)) /\ IsFiniteSet(Gated) /\ Cardinality(Gated) <= Cardinality(Callers) BY <1>3, <1>4, CallersAre, FS_Subset
<1>6. Cardinality(Within(t)) \in Nat /\ Cardinality(Gated) \in Nat BY <1>5, FS_CardinalityType
<1> QED BY <1>3, <1>4, <1>5, <1>6

\* Nobody passes the gate and no attempt is recorded.
LEMMA BudgetStays ==
  ASSUME LadderTypes, BudgetRight, UNCHANGED <<ops, now>>, Gated' \subseteq Gated
  PROVE  BudgetRight'
<1>1. Gated' \in SUBSET Gated /\ IsFiniteSet(Gated) /\ Cardinality(Gated) \in Nat BY WithinIs
<1> DEFINE Past == Gated
           H == Gated'
<1>2. H \in SUBSET Past /\ IsFiniteSet(Past) BY <1>1
<1> HIDE DEF Past, H
<1>3. IsFiniteSet(H) /\ Cardinality(H) <= Cardinality(Past) BY <1>2, FS_Subset
<1>4. Cardinality(H) \in Nat BY <1>3, FS_CardinalityType
<1>5. H # {} => MaxOps > 0 BY <1>2 DEF BudgetRight, Past
<1>6. ASSUME NEW t \in 0 .. now'
      PROVE  Cardinality(Within(t)') + (IF now' < t + Window THEN Cardinality(H) ELSE 0) < MaxOps + Cardinality(Callers)
  <2>1. Within(t)' = Within(t) BY DEF Within
  <2>2. t \in 0 .. now OBVIOUS
  <2>3. Cardinality(Within(t)) + (IF now < t + Window THEN Cardinality(Past) ELSE 0) < MaxOps + Cardinality(Callers) BY <2>2 DEF BudgetRight, Past
  <2>4. Cardinality(Within(t)) \in Nat BY WithinIs
  <2>5. MaxOps \in Nat /\ Cardinality(Callers) \in Nat /\ Cardinality(Past) \in Nat BY LadderAssumption, CallersAre, <1>1 DEF Past
  <2> QED BY <1>3, <1>4, <2>1, <2>3, <2>4, <2>5
<1> QED BY <1>5, <1>6 DEF BudgetRight, H

\* The gate lets a caller pass when the window is below the budget.
LEMMA GateBudget ==
  ASSUME LadderTypes, BudgetRight, NEW k \in Callers, PassGate(k)
  PROVE  BudgetRight'
<1>0. call \in [Callers -> Calls] /\ LadderTypes BY DEF LadderTypes
<1>1. PICK v \in Calls : /\ call' = [call EXCEPT ![k] = v]
                         /\ v = NoCall \/ (v.at = "gated" /\ v.plan = call[k].plan /\ SplitGate(ops, now) = "allow")
  BY GatedTo
<1>2. UNCHANGED <<ops, now>> BY DEF PassGate
<1>3. CASE v = NoCall
  <2>1. Gated' \subseteq Gated BY <1>0, <1>1, <1>3, NoCallIs DEF Gated
  <2> QED BY <1>2, <2>1, BudgetStays
<1>4. CASE SplitGate(ops, now) = "allow"
  <2> DEFINE recent == {i \in DOMAIN ops : now - ops[i] < Window}
             Past == Gated
             H == Gated'
  <2>1. ~(Cardinality(recent) >= MaxOps) BY <1>4 DEF SplitGate
  <2>2. IsFiniteSet(recent) /\ Cardinality(recent) \in Nat
    <3>1. recent \in SUBSET DOMAIN ops /\ IsFiniteSet(DOMAIN ops) BY WithinIs
    <3> HIDE DEF recent
    <3>2. IsFiniteSet(recent) BY <3>1, FS_Subset
    <3> QED BY <3>2, FS_CardinalityType
  <2>3. IsFiniteSet(H) /\ Cardinality(H) \in Nat /\ Cardinality(H) <= Cardinality(Callers)
    <3>1. H \in SUBSET Callers BY DEF Gated
    <3> HIDE DEF H
    <3>2. IsFiniteSet(H) /\ Cardinality(H) <= Cardinality(Callers) BY <3>1, CallersAre, FS_Subset
    <3> QED BY <3>2, FS_CardinalityType
  <2>4. MaxOps \in Nat /\ Window \in Nat /\ Cardinality(Callers) \in Nat BY LadderAssumption, CallersAre
  <2>5. MaxOps > 0
    <3> HIDE DEF recent
    <3> QED BY <2>1, <2>2, <2>4
  <2>6. ASSUME NEW t \in 0 .. now'
        PROVE  Cardinality(Within(t)') + (IF now' < t + Window THEN Cardinality(H) ELSE 0) < MaxOps + Cardinality(Callers)
    <3>1. Within(t)' = Within(t) /\ now' = now /\ t \in 0 .. now BY <1>2 DEF Within
    <3>2. Cardinality(Within(t)) \in Nat BY WithinIs
    <3>3. CASE now < t + Window
      <4>1. Within(t) \in SUBSET recent
        <5>1. now \in Nat /\ t \in Nat /\ \A i \in DOMAIN ops : ops[i] \in Nat BY <3>1 DEF LadderTypes
        <5> QED BY <5>1, <3>3, <2>4 DEF Within
      <4> HIDE DEF recent, H
      <4>2. Cardinality(Within(t)) <= Cardinality(recent) BY <4>1, <2>2, FS_Subset
      <4> QED BY <4>2, <3>1, <3>2, <2>1, <2>2, <2>3, <2>4
    <3>4. CASE ~(now < t + Window)
      <4>1. Cardinality(Within(t)) + 0 < MaxOps + Cardinality(Callers) BY <3>1, <3>4 DEF BudgetRight
      <4> HIDE DEF H
      <4> QED BY <4>1, <3>1, <3>4
    <3> QED BY <3>3, <3>4
  <2> HIDE DEF recent
  <2> QED BY <2>5, <2>6 DEF BudgetRight
<1> QED BY <1>1, <1>3, <1>4

\* A recorded attempt is one caller less past the gate.
LEMMA TakeBudget ==
  ASSUME LadderTypes, BudgetRight, NEW k \in Callers, TakeReserve(k)
  PROVE  BudgetRight'
<1>0. call \in [Callers -> Calls] BY DEF LadderTypes
<1>1. /\ call[k].at = "gated"
      /\ \E v \in Calls :
              /\ call' = [call EXCEPT ![k] = v]
              /\ \/ v = NoCall /\ ops' = ops
                 \/ v.at = "submitted" /\ ops' = Append(ops, now) /\ \A d : CountOf(v.plan, d) <= CountOf(call[k].plan, d)
  BY TakenTo
<1>2. PICK v \in Calls : call' = [call EXCEPT ![k] = v] /\ ((v = NoCall /\ ops' = ops) \/ (v.at = "submitted" /\ ops' = Append(ops, now)))
  BY <1>1, Zenon
<1>3. now' = now BY DEF TakeReserve
<1>4. v.at # "gated" BY <1>2, NoCallIs
<1> DEFINE Past == Gated
           H == Gated'
<1>5. H = Past \ {k} /\ k \in Past BY <1>0, <1>1, <1>2, <1>4 DEF Gated
<1>6. CASE ops' = ops
  <2>1. Gated' \subseteq Gated BY <1>5
  <2> QED BY <1>3, <1>6, <2>1, BudgetStays
<1>7. CASE ops' = Append(ops, now)
  <2>1. IsFiniteSet(Past) /\ Cardinality(Past) \in Nat BY WithinIs
  <2>2. MaxOps > 0 BY <1>5 DEF BudgetRight
  <2> HIDE DEF Past, H
  <2>3. Cardinality(H) = Cardinality(Past) - 1 BY <1>5, <2>1, FS_RemoveElement
  <2>4. MaxOps \in Nat /\ Window \in Nat /\ Cardinality(Callers) \in Nat BY LadderAssumption, CallersAre
  <2>5. ops \in Seq(Nat) /\ now \in Nat BY DEF LadderTypes
  <2>6. /\ DOMAIN ops' = DOMAIN ops \cup {Len(ops) + 1} /\ ops'[Len(ops) + 1] = now
        /\ \A i \in DOMAIN ops : ops'[i] = ops[i] /\ i # Len(ops) + 1
    BY <1>7, <2>5
  <2>7. ASSUME NEW t \in 0 .. now'
        PROVE  Cardinality(Within(t)') + (IF now' < t + Window THEN Cardinality(H) ELSE 0) < MaxOps + Cardinality(Callers)
    <3> DEFINE W == Within(t)
               X == Within(t)'
    <3>1. now' = now /\ t \in 0 .. now /\ t \in Nat BY <1>3
    <3>2. IsFiniteSet(W) /\ Cardinality(W) \in Nat BY WithinIs
    <3>3. Cardinality(W) + (IF now < t + Window THEN Cardinality(Past) ELSE 0) < MaxOps + Cardinality(Callers) BY <3>1 DEF BudgetRight, Past
    <3>4. CASE now < t + Window
      <4>1. X \in SUBSET (W \cup {Len(ops) + 1}) BY <2>6 DEF Within
      <4>2. Len(ops) + 1 \notin W BY <2>6 DEF Within
      <4> HIDE DEF W, X
      <4>3. IsFiniteSet(W \cup {Len(ops) + 1}) /\ Cardinality(W \cup {Len(ops) + 1}) = Cardinality(W) + 1 BY <3>2, <4>2, FS_AddElement
      <4>4. IsFiniteSet(X) /\ Cardinality(X) <= Cardinality(W) + 1 BY <4>1, <4>3, FS_Subset
      <4>5. Cardinality(X) \in Nat BY <4>4, FS_CardinalityType
      <4>6. Cardinality(X) + Cardinality(H) < MaxOps + Cardinality(Callers) BY <4>4, <4>5, <3>2, <3>3, <3>4, <2>1, <2>3, <2>4
      <4> QED BY <4>6, <3>1, <3>4 DEF X
    <3>5. CASE ~(now < t + Window)
      <4>1. X = W BY <2>6, <3>5 DEF Within
      <4> QED BY <4>1, <3>1, <3>3, <3>5
    <3> QED BY <3>4, <3>5
  <2> QED BY <2>2, <2>7 DEF BudgetRight, H
<1> QED BY <1>2, <1>6, <1>7

\* A window that opens now has no attempts yet.
LEMMA LaterBudget ==
  ASSUME LadderTypes, BudgetRight, Later
  PROVE  BudgetRight'
<1>1. now' = now + 1 /\ ops' = ops /\ Gated' = Gated BY DEF Later, Gated
<1>2. MaxOps \in Nat /\ Window \in Nat /\ Cardinality(Callers) \in Nat /\ Cardinality(Callers) >= 1 BY LadderAssumption, CallersAre
<1>3. now \in Nat /\ ops \in Seq(Nat) /\ \A i \in DOMAIN ops : ops[i] \in Nat /\ ops[i] <= now BY DEF LadderTypes
<1>4. Cardinality(Gated) \in Nat /\ Cardinality(Gated) <= Cardinality(Callers) BY WithinIs
<1>5. ASSUME NEW t \in 0 .. now'
      PROVE  Cardinality(Within(t)') + (IF now' < t + Window THEN Cardinality(Gated) ELSE 0) < MaxOps + Cardinality(Callers)
  <2>1. Within(t)' = Within(t) BY <1>1 DEF Within
  <2>2. Cardinality(Within(t)) \in Nat BY WithinIs
  <2>3. CASE t \in 0 .. now
    <3>1. Cardinality(Within(t)) + (IF now < t + Window THEN Cardinality(Gated) ELSE 0) < MaxOps + Cardinality(Callers) BY <2>3 DEF BudgetRight
    <3>2. now' < t + Window => now < t + Window BY <1>1, <1>2, <1>3, <2>3
    <3> QED BY <3>1, <3>2, <2>1, <2>2, <1>2, <1>4
  <2>4. CASE t \notin 0 .. now
    <3>1. t = now + 1 BY <2>4, <1>1, <1>3
    <3>2. Within(t) = {} BY <3>1, <1>3 DEF Within
    <3>3. Cardinality(Within(t)') = 0 BY <2>1, <3>2, FS_EmptySet
    <3>4. CASE Gated = {}
      <4>1. Cardinality(Gated) = 0 BY <3>4, FS_EmptySet
      <4> QED BY <4>1, <3>3, <1>2
    <3>5. CASE Gated # {}
      <4>1. MaxOps > 0 BY <3>5 DEF BudgetRight
      <4> QED BY <4>1, <3>3, <1>2, <1>4
    <3> QED BY <3>4, <3>5
  <2> QED BY <2>3, <2>4
<1>6. Gated' # {} => MaxOps > 0 BY <1>1 DEF BudgetRight
<1> QED BY <1>1, <1>5, <1>6 DEF BudgetRight

\* Every step keeps the budget.
LEMMA StepBudget ==
  ASSUME LadderTypes, BudgetRight, LadderNext
  PROVE  BudgetRight'
<1>0. call \in [Callers -> Calls] BY DEF LadderTypes
<1>1. ASSUME NEW k \in Callers, NEW v \in Calls, call' = [call EXCEPT ![k] = v], v.at # "gated", UNCHANGED <<ops, now>> PROVE BudgetRight'
  <2>1. Gated' \subseteq Gated BY <1>0, <1>1 DEF Gated
  <2> QED BY <1>1, <2>1, BudgetStays
<1>2. ASSUME NEW k \in Callers, CountRungs(k) PROVE BudgetRight'
  <2>1. PICK v \in Calls : call' = [call EXCEPT ![k] = v] /\ v.at = "counted" BY <1>2, CountedTo
  <2>2. UNCHANGED <<ops, now>> BY <1>2 DEF CountRungs
  <2> QED BY <1>1, <2>1, <2>2
<1>3. ASSUME NEW k \in Callers, RecordPendingSplit(k) PROVE BudgetRight'
  <2>1. call' = [call EXCEPT ![k] = NoCall] BY <1>3, RecordedTo
  <2>2. UNCHANGED <<ops, now>> BY <1>3 DEF RecordPendingSplit
  <2>3. NoCall \in Calls /\ NoCall.at # "gated" BY NoCallIs
  <2> QED BY <1>1, <2>1, <2>2, <2>3
<1>4. ASSUME NEW k \in Callers, NEW o \in SplitOutcomes, SplitEnds(k, o) PROVE BudgetRight'
  <2>1. PICK v \in Calls : call' = [call EXCEPT ![k] = v] /\ (v = NoCall \/ v.at = "recording") BY <1>4, EndedTo
  <2>2. UNCHANGED <<ops, now>> BY <1>4 DEF SplitEnds
  <2>3. v.at # "gated" BY <2>1, NoCallIs
  <2> QED BY <1>1, <2>1, <2>2, <2>3
<1>5. ASSUME UNCHANGED <<ops, now, call>> PROVE BudgetRight'
  <2>1. Gated' \subseteq Gated BY <1>5 DEF Gated
  <2> QED BY <1>5, <2>1, BudgetStays
<1>6. ASSUME MergeStarts \/ (\E o \in SplitOutcomes : MergeEnds(o)) \/ AcsSnapshot \/ (\E c \in Known : Settled(c))
             \/ (\E a \in Incoming : Arrives(a))
      PROVE  BudgetRight'
  <2>1. UNCHANGED <<ops, now, call>> BY <1>6, Zenon DEF MergeStarts, MergeEnds, AcsSnapshot, Settled, Arrives
  <2> QED BY <1>5, <2>1
<1>7. ASSUME NEW k \in Callers, PassGate(k) PROVE BudgetRight' BY <1>7, GateBudget
<1>8. ASSUME NEW k \in Callers, TakeReserve(k) PROVE BudgetRight' BY <1>8, TakeBudget
<1> QED BY <1>2, <1>3, <1>4, <1>6, <1>7, <1>8, LaterBudget, Zenon DEF LadderNext

-----------------------------------------------------------------------------
(* The ladder is never overfilled                                             *)

\* At first nobody has anything in hand.
LEMMA NoneDoing ==
  ASSUME \A k \in Callers : call[k] = NoCall, NEW A, NEW d
  PROVE  Doing(call, A, d) = 0
<1> DEFINE f == [k \in Callers |-> Share(call[k], A, d)]
<1>1. \A k \in Callers : f[k] = 0 BY NoCallIs DEF Share
<1>2. Doing(call, A, d) = SumFunctionOnSet(f, Callers) BY DEF Doing
<1> HIDE DEF f
<1>3. Ints(f, Callers) /\ {} \in SUBSET Callers /\ \A k \in Callers : f[k] = 0 BY <1>1 DEF Ints
<1>4. SumFunctionOnSet(f, Callers) \in Int /\ SumFunctionOnSet(f, Callers) <= 0 /\ SumFunctionOnSet(f, Callers) >= 0
  <2> DEFINE g == [k \in Callers |-> 0]
  <2>1. SumFunctionOnSet(f, Callers) \in Nat BY <1>1, CallersAre, SumNat
  <2>2. SumFunctionOnSet(f, Callers) <= 0 * Cardinality(Callers) BY <1>1, <1>3, CallersAre, SumBounds
  <2>3. 0 * Cardinality(Callers) = 0 BY CallersAre
  <2> QED BY <2>1, <2>2, <2>3
<1> QED BY <1>2, <1>4

\* The inductive invariant of the ladder holds at first.
LEMMA InitInv == LadderInit => LadderInv
<1> SUFFICES ASSUME LadderInit PROVE LadderInv OBVIOUS
<1>1. /\ coins = [c \in DOMAIN Opening |-> [amount |-> Opening[c], by |-> "opening"]] /\ made = Len(Opening)
      /\ cached = Opening /\ pendingRungs = << >> /\ ops = << >> /\ now = 0
      /\ call = [k \in Callers |-> NoCall] /\ merge = NoMerge /\ overlapped = FALSE
  BY DEF LadderInit
<1>2. Opening \in Seq(Nat) /\ Len(Opening) \in Nat /\ DOMAIN Opening = 1 .. Len(Opening) /\ \A c \in DOMAIN Opening : Opening[c] \in Nat
  BY LadderAssumption
<1>3. \A k \in Callers : call[k] = NoCall BY <1>1
<1>4. LadderTypes
  <2>1. made \in Nat /\ DOMAIN coins \subseteq 1 .. made /\ \A c \in DOMAIN coins : coins[c].amount \in Nat BY <1>1, <1>2
  <2>2. Known \subseteq 1 .. made /\ \A c \in Known : cached[c] \in Nat BY <1>1, <1>2 DEF Known
  <2>3. pendingRungs \in Seq(Nat \X Nat) /\ now \in Nat /\ ops \in Seq(Nat) /\ \A i \in DOMAIN ops : ops[i] <= now BY <1>1
  <2>4. call \in [Callers -> Calls] /\ overlapped \in BOOLEAN BY <1>1, NoCallIs
  <2> QED BY <2>1, <2>2, <2>3, <2>4 DEF LadderTypes
<1>5. CachedRight BY <1>1 DEF CachedRight, Known, NoMerge
<1>6. RungsRight
  <2> SUFFICES ASSUME NEW i \in DOMAIN Rungs PROVE RungRight(Rungs[i][1]) BY DEF RungsRight
  <2> DEFINE d == Rungs[i][1]
  <2> HIDE DEF d
  <2>1. ToldOf(d) = {} /\ ToldOf(d) \ Known = {} BY <1>1 DEF ToldOf
  <2>2. Cardinality(ToldOf(d)) = 0 /\ Cardinality(ToldOf(d) \ Known) = 0 BY <2>1, FS_EmptySet
  <2>3. Doing(call, Ahead, d) = 0 /\ Doing(call, {"recording"}, d) = 0 BY <1>3, NoneDoing
  <2>4. CountOf(pendingRungs, d) = 0 /\ CountOf(Rungs, d) \in Nat BY <1>1, <1>4, CountNone, NumbersAre
  <2>5. \A k \in Callers : CountOf(call[k].plan, d) <= CountOf(Rungs, d) BY <1>3, <2>4, NoCallIs
  <2>6. Cardinality(Callers) * CountOf(Rungs, d) \in Nat BY <2>4, CallersAre
  <2> DEFINE z == Cardinality(Callers) * CountOf(Rungs, d)
  <2>7. z \in Nat BY <2>6
  <2> HIDE DEF z
  <2>8. 0 + 0 <= 1 + z /\ 0 + 0 <= 1 + CountOf(Rungs, d) BY <2>4, <2>7
  <2>9. RungRight(d) BY <2>2, <2>3, <2>4, <2>5, <2>8 DEF RungRight, z
  <2> QED BY <2>9 DEF d
<1>7. Alone BY <1>3, NoCallIs DEF Alone
<1>8. BudgetRight
  <2>1. Gated = {} BY <1>3, NoCallIs DEF Gated
  <2>2. Cardinality(Gated) = 0 BY <2>1, FS_EmptySet
  <2>3. \A t : Within(t) = {} BY <1>1 DEF Within
  <2>4. \A t : Cardinality(Within(t)) = 0 BY <2>3, FS_EmptySet
  <2>5. MaxOps \in Nat /\ Cardinality(Callers) \in Nat /\ Cardinality(Callers) >= 1 BY LadderAssumption, CallersAre
  <2> QED BY <2>1, <2>2, <2>4, <2>5 DEF BudgetRight
<1> QED BY <1>4, <1>5, <1>6, <1>7, <1>8 DEF LadderInv

\* Every step keeps every rung right.
LEMMA StepRungs ==
  ASSUME LadderTypes, CachedRight, Alone, RungsRight, LadderNext
  PROVE  RungsRight'
<1>1. ASSUME NEW i \in DOMAIN Rungs PROVE RungRight(Rungs[i][1])'
  <2>0. RungRight(Rungs[i][1]) BY DEF RungsRight
  <2>1. ASSUME NEW k \in Callers, CountRungs(k) PROVE RungRight(Rungs[i][1])' BY <2>0, <2>1, CountRungsKept
  <2> DEFINE d == Rungs[i][1]
  <2>2. ASSUME NEW k \in Callers, PassGate(k) PROVE RungRight(d)'
    <3> HIDE DEF d
    <3> QED BY <2>0, <2>2, GateKept DEF d
  <2>3. ASSUME NEW k \in Callers, TakeReserve(k) PROVE RungRight(d)'
    <3>1. RungRight(d) BY <2>0
    <3> HIDE DEF d
    <3> QED BY <3>1, <2>3, TakeKept
  <2>4. ASSUME NEW k \in Callers, RecordPendingSplit(k) PROVE RungRight(d)'
    <3>1. RungRight(d) BY <2>0
    <3> HIDE DEF d
    <3> QED BY <3>1, <2>4, RecordKept
  <2>5. ASSUME NEW k \in Callers, NEW o \in SplitOutcomes, SplitEnds(k, o) PROVE RungRight(d)'
    <3>1. RungRight(d) BY <2>0
    <3> HIDE DEF d
    <3> QED BY <3>1, <2>5, EndKept
  <2>6. ASSUME MergeStarts \/ (\E o \in SplitOutcomes : MergeEnds(o)) \/ AcsSnapshot \/ (\E c \in Known : Settled(c))
               \/ (\E a \in Incoming : Arrives(a)) \/ Later
        PROVE  RungRight(Rungs[i][1])'
    BY <2>0, <2>6, AroundKept
  <2> QED BY <2>1, <2>2, <2>3, <2>4, <2>5, <2>6, Zenon DEF LadderNext
<1>2. Rungs' = Rungs BY DEF Rungs
<1> QED BY <1>1, <1>2 DEF RungsRight

\* A stutter keeps the invariant.
LEMMA SameInv == LadderInv /\ UNCHANGED ladderVars => LadderInv'
<1> SUFFICES ASSUME LadderInv, UNCHANGED ladderVars PROVE LadderInv' OBVIOUS
<1>1. UNCHANGED <<coins, made, cached, reserved, pendingRungs, ops, now, call, merge, overlapped>> BY DEF ladderVars
<1>2. LadderTypes /\ CachedRight /\ RungsRight /\ Alone /\ BudgetRight BY DEF LadderInv
<1>3. LadderTypes' BY <1>1, <1>2 DEF LadderTypes, Known
<1>4. CachedRight' BY <1>1, <1>2 DEF CachedRight, Known
<1>5. \A d : RungRight(d)' = RungRight(d) BY <1>1 DEF RungRight, ToldOf, Known, Doing, Share
<1>6. RungsRight' BY <1>2, <1>5 DEF RungsRight
<1>7. Alone' BY <1>1, <1>2 DEF Alone
<1>8. BudgetRight' BY <1>1, <1>2 DEF BudgetRight, Within, Gated
<1> QED BY <1>3, <1>4, <1>6, <1>7, <1>8 DEF LadderInv

\* So does every step.
LEMMA StepInv == LadderInv /\ [LadderNext]_ladderVars => LadderInv'
<1> SUFFICES ASSUME LadderInv, LadderNext PROVE LadderInv' BY SameInv
<1>1. LadderTypes /\ CachedRight /\ RungsRight /\ Alone /\ BudgetRight BY DEF LadderInv
<1>2. LadderTypes' /\ CachedRight' BY <1>1, StepTypes, StepCached
<1>3. RungsRight' BY <1>1, StepRungs
<1>4. Alone' /\ BudgetRight' BY <1>1, StepAlone, StepBudget
<1> QED BY <1>2, <1>3, <1>4 DEF LadderInv

\* And it says what the property says.
LEMMA InvMeans == LadderInv => LadderNotOverfilled
<1> SUFFICES ASSUME LadderInv PROVE LadderNotOverfilled OBVIOUS
<1>1. LadderTypes /\ RungsRight /\ BudgetRight BY DEF LadderInv
<1>2. NoMoreThanAsked
  <2> SUFFICES ASSUME NEW i \in DOMAIN Rungs
      PROVE Told(Rungs[i][1]) <= 1 + (IF overlapped THEN Cardinality(Callers) * CountOf(Rungs, Rungs[i][1]) ELSE CountOf(Rungs, Rungs[i][1]))
    BY DEF NoMoreThanAsked
  <2> DEFINE d == Rungs[i][1]
             t == Cardinality(ToldOf(d))
             a == Doing(call, Ahead, d)
             z == Cardinality(Callers) * CountOf(Rungs, d)
             full == CountOf(Rungs, d)
  <2>1. RungRight(d) BY <1>1 DEF RungsRight
  <2> HIDE DEF d
  <2>2. Told(d) = t BY DEF Told, ToldOf
  <2>3. t \in Nat /\ a \in Nat /\ full \in Nat /\ Cardinality(Callers) \in Nat BY <1>1, NumbersAre, CallersAre
  <2>4. z \in Nat
    <3> HIDE DEF t, a
    <3> QED BY <2>3
  <2>5. t + a <= 1 + z /\ (overlapped \/ t + a <= 1 + full) BY <2>1 DEF RungRight
  <2> HIDE DEF t, a, z, full
  <2>6. t <= 1 + z /\ (overlapped \/ t <= 1 + full) BY <2>3, <2>4, <2>5
  <2>7. t <= 1 + (IF overlapped THEN z ELSE full) BY <2>6
  <2> QED BY <2>2, <2>7 DEF d, z, full
<1>3. NoMoreThanBudgeted
  <2> SUFFICES ASSUME NEW t \in 0 .. now PROVE Cardinality(Within(t)) < MaxOps + Cardinality(Callers)
    BY DEF NoMoreThanBudgeted, Within
  <2>1. Cardinality(Within(t)) + (IF now < t + Window THEN Cardinality(Gated) ELSE 0) < MaxOps + Cardinality(Callers) BY <1>1 DEF BudgetRight
  <2>2. Cardinality(Within(t)) \in Nat /\ Cardinality(Gated) \in Nat BY <1>1, WithinIs
  <2>3. MaxOps \in Nat /\ Cardinality(Callers) \in Nat BY LadderAssumption, CallersAre
  <2> QED BY <2>1, <2>2, <2>3
<1> QED BY <1>2, <1>3 DEF LadderNotOverfilled

\* The ladder is never overfilled, for every configured ladder, opening holdings, budget,
\* window, cooldown and number of callers: lost reports, late snapshots, refused
\* submissions and settling quotes do not make a rung twice, and a storm of refills
\* stops at the budget.
THEOREM LadderNotOverfilledHolds == LadderSpec => []LadderNotOverfilled
<1>1. LadderInit => LadderInv BY InitInv
<1>2. LadderInv /\ [LadderNext]_ladderVars => LadderInv' BY StepInv
<1>3. LadderInv => LadderNotOverfilled BY InvMeans
<1> QED BY <1>1, <1>2, <1>3, PTL DEF LadderSpec

-----------------------------------------------------------------------------
(* The split commands: what is left of a request                              *)

\* The larger of two.
LEMMA MaxTwo ==
  ASSUME NEW a \in Int, NEW b \in Int
  PROVE  Max({a, b}) = IF a <= b THEN b ELSE a
<1>1. CASE a <= b
  <2>1. b \in {a, b} /\ \A y \in {a, b} : b >= y BY <1>1
  <2>2. \A x \in {a, b} : (\A y \in {a, b} : x >= y) => x = b BY <1>1
  <2> QED BY <1>1, <2>1, <2>2 DEF Max
<1>2. CASE ~(a <= b)
  <2>1. a \in {a, b} /\ \A y \in {a, b} : a >= y BY <1>2
  <2>2. \A x \in {a, b} : (\A y \in {a, b} : x >= y) => x = a BY <1>2
  <2> QED BY <1>2, <2>1, <2>2 DEF Max
<1> QED BY <1>1, <1>2

\* What the first entries of a plan ask for.
LEMMA CountFirst ==
  ASSUME NEW p \in Plans, NEW i \in 0 .. Len(p), NEW d
  PROVE  CountOf(SubSeq(p, 1, i), d) = SumFunctionOnSet(Asks(p, d), 1 .. i)
<1> DEFINE q == SubSeq(p, 1, i)
<1>1. Len(p) \in Nat /\ i \in Nat /\ i <= Len(p) BY PlanIs
<1>2. q \in Plans /\ Len(q) = i /\ \A j \in 1 .. i : q[j] = p[j] BY <1>1 DEF Plans
<1> HIDE DEF q
<1>3. /\ CountOf(q, d) = SumFunctionOnSet(Asks(q, d), 1 .. i) /\ Ints(Asks(q, d), 1 .. i) /\ IsFiniteSet(1 .. i)
      /\ \A j \in 1 .. i : Asks(q, d)[j] = IF q[j][1] = d THEN q[j][2] ELSE 0
  BY <1>2, PlanIs
<1>4. \A j \in 1 .. i : Asks(p, d)[j] = IF p[j][1] = d THEN p[j][2] ELSE 0
  <2>1. \A j \in 1 .. Len(p) : Asks(p, d)[j] = IF p[j][1] = d THEN p[j][2] ELSE 0 BY PlanIs
  <2> QED BY <2>1, <1>1
<1>5. \A j \in 1 .. i : Asks(q, d)[j] = Asks(p, d)[j] BY <1>2, <1>3, <1>4
<1>6. SumFunctionOnSet(Asks(q, d), 1 .. i) = SumFunctionOnSet(Asks(p, d), 1 .. i) BY <1>3, <1>5, SumSame
<1> QED BY <1>3, <1>6 DEF q

\* subtract_split_chunk: of a denomination the request keeps what the chunk did not make.
LEMMA SubtractBound ==
  ASSUME NEW request \in Payable, NEW chunk \in Payable
  PROVE  /\ SubtractSplitChunk(request, chunk) \in Payable
         /\ \A d : CountOf(chunk, d) <= CountOf(request, d)
                     => CountOf(SubtractSplitChunk(request, chunk), d) = CountOf(request, d) - CountOf(chunk, d)
<1> DEFINE n == Len(request)
           F(d, i) == SumFunctionOnSet(Asks(request, d), 1 .. i)
           Rest(d, i) == IF F(d, i) <= CountOf(chunk, d) THEN 0 ELSE F(d, i) - CountOf(chunk, d)
           had == [i \in DOMAIN request |->
                     LET d == request[i][1] IN Max({0, CountOf(chunk, d) - CountOf(SubSeq(request, 1, i - 1), d)})]
<1>1. request \in Plans /\ chunk \in Plans /\ n \in Nat /\ DOMAIN request = 1 .. n BY PayableIs DEF Payable
<1>2. \A d : CountOf(chunk, d) \in Nat BY <1>1, PlanIs
<1>3. ASSUME NEW i \in Nat, i < n, NEW d, request[i + 1][1] = d
      PROVE  /\ i + 1 \in DOMAIN request /\ had[i + 1] = IF F(d, i) >= CountOf(chunk, d) THEN 0 ELSE CountOf(chunk, d) - F(d, i)
  <2>1. i + 1 \in DOMAIN request /\ (i + 1) - 1 = i /\ i \in 0 .. Len(request) BY <1>1, <1>3
  <2>2. had[i + 1] = Max({0, CountOf(chunk, d) - CountOf(SubSeq(request, 1, i), d)}) BY <2>1, <1>3
  <2>3. CountOf(SubSeq(request, 1, i), d) = F(d, i) BY <2>1, <1>1, CountFirst
  <2>4. F(d, i) \in Int BY <1>3, PayUpto
  <2> HIDE DEF F, had
  <2> DEFINE a == CountOf(chunk, d) - F(d, i)
  <2>5. a \in Int BY <1>2, <2>4
  <2> HIDE DEF a
  <2>6. Max({0, a}) = IF 0 <= a THEN a ELSE 0 BY <2>5, MaxTwo
  <2>7. had[i + 1] = IF 0 <= a THEN a ELSE 0 BY <2>2, <2>3, <2>6 DEF a
  <2> QED BY <2>1, <2>7, <2>4, <1>2 DEF a
<1>4. had \in [DOMAIN request -> Int]
  <2>1. ASSUME NEW j \in DOMAIN request PROVE had[j] \in Int
    <3>1. j - 1 \in Nat /\ j - 1 < n /\ (j - 1) + 1 = j BY <1>1
    <3> DEFINE i == j - 1
               d == request[j][1]
    <3>2. F(d, i) \in Int BY <3>1, PayUpto
    <3>3. had[i + 1] = IF F(d, i) >= CountOf(chunk, d) THEN 0 ELSE CountOf(chunk, d) - F(d, i)
      <4>1. i \in Nat /\ i < n /\ request[i + 1][1] = d BY <3>1
      <4> HIDE DEF i, d, n, F, had
      <4> QED BY <4>1, <1>3
    <3> HIDE DEF F, had
    <3> QED BY <3>1, <3>2, <3>3, <1>2
  <2>2. had = [j \in DOMAIN request |-> had[j]] OBVIOUS
  <2> HIDE DEF had
  <2> QED BY <2>1, <2>2
<1>5. SubtractSplitChunk(request, chunk) = Missing(request, had) BY DEF SubtractSplitChunk
<1> HIDE DEF had
<1>6. PICK k : /\ k[0] = << >> /\ k[n] = Missing(request, had)
               /\ \A i \in 0 .. n - 1 : k[i + 1] = AddMissing(k[i], request, had, i + 1)
  BY <1>1, <1>4, MissingSteps
<1> DEFINE C == {i \in Nat : i <= n => k[i] \in Payable /\ \A d : CountOf(k[i], d) = Rest(d, i)}
<1>7. 0 \in C
  <2>1. << >> \in Payable /\ \A d : CountOf(<< >>, d) = 0 BY CountNone DEF Payable
  <2>2. \A d : F(d, 0) = 0 BY PayUpto
  <2> HIDE DEF F
  <2>3. \A d : Rest(d, 0) = 0 BY <2>2, <1>2
  <2> HIDE DEF Rest
  <2> QED BY <1>6, <2>1, <2>3
<1>8. ASSUME NEW i \in Nat, i \in C PROVE i + 1 \in C
  <2> SUFFICES ASSUME i + 1 <= n PROVE k[i + 1] \in Payable /\ \A d : CountOf(k[i + 1], d) = Rest(d, i + 1) OBVIOUS
  <2> DEFINE r == request[i + 1]
             p == k[i]
             q == k[i + 1]
             h == had[i + 1]
  <2>1. i < n BY <1>1
  <2>2. i + 1 \in 1 .. n /\ i \in 0 .. n - 1 /\ r[1] \in Nat \ {0} /\ r[2] \in Nat BY <2>1, PayUpto
  <2>3. \A d : F(d, i) \in Int /\ F(d, i + 1) = F(d, i) + (IF r[1] = d THEN r[2] ELSE 0) BY <2>1, PayUpto
  <2>4. p \in Payable /\ \A d : CountOf(p, d) = Rest(d, i) BY <1>8, <2>1, <1>1
  <2>5. h = IF F(r[1], i) >= CountOf(chunk, r[1]) THEN 0 ELSE CountOf(chunk, r[1]) - F(r[1], i) BY <2>1, <1>3
  <2>6. q = IF r[2] > h THEN Append(p, <<r[1], r[2] - h>>) ELSE p BY <1>6, <2>2 DEF AddMissing
  <2>7. p \in Plans /\ \A d : CountOf(p, d) \in Nat BY <2>4, PayableIs, PlanIs
  <2> HIDE DEF F, n, r, p, q, h
  <2>8. h \in Int BY <2>3, <2>5, <1>2
  <2>9. CASE r[2] > h
    <3>1. r[2] - h \in Nat BY <2>2, <2>8, <2>9
    <3>2. q = Append(p, <<r[1], r[2] - h>>) BY <2>6, <2>9
    <3>3. q \in Payable BY <3>1, <3>2, <2>2, <2>4, PayableIs
    <3>4. \A d : CountOf(q, d) = CountOf(p, d) + (IF r[1] = d THEN r[2] - h ELSE 0) BY <3>1, <3>2, <2>2, <2>7, CountAppend
    <3>5. ASSUME NEW d PROVE CountOf(q, d) = Rest(d, i + 1)
      <4> DEFINE c == CountOf(chunk, d)
                 a == F(d, i)
                 b == F(d, i + 1)
                 u == CountOf(p, d)
                 v == CountOf(q, d)
                 m == r[2]
      <4>1. c \in Nat /\ a \in Int /\ m \in Nat BY <1>2, <2>2, <2>3
      <4>2. u = IF a <= c THEN 0 ELSE a - c BY <2>4
      <4>3. CASE r[1] = d
        <5>1. b = a + m /\ v = u + (m - h) BY <4>3, <2>3, <3>4
        <5>2. h = IF a >= c THEN 0 ELSE c - a BY <4>3, <2>5
        <5>3. m > h BY <2>9
        <5> HIDE DEF a, b, c, u, v, m
        <5>4. v = IF b <= c THEN 0 ELSE b - c BY <4>1, <4>2, <5>1, <5>2, <5>3
        <5> QED BY <5>4 DEF a, b, c, u, v, m
      <4>4. CASE r[1] # d
        <5>1. b = a + 0 /\ v = u + 0 BY <4>4, <2>3, <3>4
        <5> HIDE DEF a, b, c, u, v, m
        <5>4. v = IF b <= c THEN 0 ELSE b - c BY <4>1, <4>2, <5>1
        <5> QED BY <5>4 DEF a, b, c, u, v, m
      <4> QED BY <4>3, <4>4
    <3> HIDE DEF Rest
    <3> QED BY <3>3, <3>5 DEF q
  <2>10. CASE ~(r[2] > h)
    <3>1. q = p BY <2>6, <2>10
    <3>2. ASSUME NEW d PROVE CountOf(q, d) = Rest(d, i + 1)
      <4> DEFINE c == CountOf(chunk, d)
                 a == F(d, i)
                 b == F(d, i + 1)
                 u == CountOf(p, d)
                 v == CountOf(q, d)
                 m == r[2]
      <4>1. c \in Nat /\ a \in Int /\ m \in Nat BY <1>2, <2>2, <2>3
      <4>2. u = (IF a <= c THEN 0 ELSE a - c) /\ v = u BY <2>4, <3>1
      <4>3. CASE r[1] = d
        <5>1. b = a + m BY <4>3, <2>3
        <5>2. h = IF a >= c THEN 0 ELSE c - a BY <4>3, <2>5
        <5>3. ~(m > h) BY <2>10
        <5> HIDE DEF a, b, c, u, v, m
        <5>4. v = IF b <= c THEN 0 ELSE b - c BY <4>1, <4>2, <5>1, <5>2, <5>3, <2>8
        <5> QED BY <5>4 DEF a, b, c, u, v, m
      <4>4. CASE r[1] # d
        <5>1. b = a + 0 BY <4>4, <2>3
        <5> HIDE DEF a, b, c, u, v, m
        <5>4. v = IF b <= c THEN 0 ELSE b - c BY <4>1, <4>2, <5>1
        <5> QED BY <5>4 DEF a, b, c, u, v, m
      <4> QED BY <4>3, <4>4
    <3> HIDE DEF Rest
    <3> QED BY <3>1, <3>2, <2>4 DEF q
  <2> QED BY <2>9, <2>10 DEF q
<1> HIDE DEF C
<1>9. n \in C
  <2>1. \A i \in Nat : i \in C BY <1>7, <1>8, NatSetInduction
  <2> QED BY <2>1, <1>1
<1>10. k[n] \in Payable /\ \A d : CountOf(k[n], d) = Rest(d, n) BY <1>1, <1>9 DEF C
<1>11. \A d : F(d, n) = CountOf(request, d) /\ CountOf(request, d) \in Nat BY PayUpto
<1> HIDE DEF F, n
<1>12. ASSUME NEW d, CountOf(chunk, d) <= CountOf(request, d)
       PROVE  CountOf(k[n], d) = CountOf(request, d) - CountOf(chunk, d)
  <2>1. CountOf(k[n], d) = Rest(d, n) /\ F(d, n) = CountOf(request, d) BY <1>10, <1>11
  <2> QED BY <2>1, <1>2, <1>11, <1>12
<1> QED BY <1>5, <1>6, <1>10, <1>12

-----------------------------------------------------------------------------
(* The types of the split commands                                            *)

\* What is on the ledger at one time: holdings by number.
Kept == [amount : Nat, run : Nat]
Looks == UNION {[S -> Kept] : S \in SUBSET Nat}
ToolStages == {"idle", "plan", "submit", "refetch"}
ToolStates == [at : ToolStages, view : Nat, left : Payable, spent : SUBSET Nat, committed : Nat, prev : Int, limit : Int,
               chunk : Payable, inputs : SUBSET Nat]

\* The types of the split commands; a holding never changes.
ToolTypes ==
  /\ onlyDeficit \in BOOLEAN /\ elsewhere \in BOOLEAN /\ runs \in Nat
  /\ past \in Seq(Looks) /\ past # << >> /\ purse = past[Len(past)]
  /\ \E b \in Nat : \A v \in DOMAIN past : DOMAIN past[v] \subseteq 1 .. b
  /\ \A v \in DOMAIN past : \A c \in DOMAIN past[v] : past[v][c].run <= runs
  /\ \A u, v \in DOMAIN past : \A c \in DOMAIN past[u] \cap DOMAIN past[v] : past[u][c] = past[v][c]
  /\ tool \in ToolStates /\ (tool.at # "idle" => tool.view \in DOMAIN past /\ runs > 0)

\* The holding that comes first when the largest do.
IsTop(look, c) ==
  /\ c \in DOMAIN look
  /\ \A o \in DOMAIN look \ {c} : look[o].amount < look[c].amount \/ (look[o].amount = look[c].amount /\ c < o)
\* What a setup takes for a rung of d that is there.
SeenOf(look, d) == Cardinality({c \in DOMAIN look : InBand(look[c].amount, d)})

\* A look, spelled out.
LEMMA LooksIs == \A p : p \in Looks <=> /\ p = [c \in DOMAIN p |-> p[c]] /\ DOMAIN p \subseteq Nat
                                         /\ \A c \in DOMAIN p : p[c] \in Kept
<1> TAKE p
<1>1. ASSUME p \in Looks PROVE p = [c \in DOMAIN p |-> p[c]] /\ DOMAIN p \subseteq Nat /\ \A c \in DOMAIN p : p[c] \in Kept
  <2>1. PICK S \in SUBSET Nat : p \in [S -> Kept] BY <1>1 DEF Looks
  <2> QED BY <2>1
<1>2. ASSUME p = [c \in DOMAIN p |-> p[c]], DOMAIN p \subseteq Nat, \A c \in DOMAIN p : p[c] \in Kept PROVE p \in Looks
  <2> DEFINE S == DOMAIN p
  <2>1. S \in SUBSET Nat /\ p = [c \in S |-> p[c]] /\ \A c \in S : p[c] \in Kept BY <1>2
  <2> HIDE DEF S
  <2>2. p \in [S -> Kept] BY <2>1
  <2> QED BY <2>1, <2>2 DEF Looks
<1> QED BY <1>1, <1>2

\* The looks there have been, each of finitely many holdings.
LEMMA PastIs ==
  ASSUME ToolTypes
  PROVE  /\ Len(past) \in Nat /\ Len(past) > 0 /\ DOMAIN past = 1 .. Len(past) /\ Len(past) \in DOMAIN past
         /\ \A v \in DOMAIN past : past[v] \in Looks /\ IsFiniteSet(DOMAIN past[v]) /\ DOMAIN past[v] \subseteq Nat
         /\ \A v \in DOMAIN past, c \in Nat : c \in DOMAIN past[v] => past[v][c].amount \in Nat /\ past[v][c].run \in Nat
         /\ purse \in Looks /\ IsFiniteSet(DOMAIN purse) /\ DOMAIN purse \subseteq Nat /\ purse = past[Len(past)]
<1>1. past \in Seq(Looks) /\ past # << >> /\ purse = past[Len(past)] BY DEF ToolTypes
<1>2. Len(past) \in Nat /\ DOMAIN past = 1 .. Len(past) /\ \A v \in DOMAIN past : past[v] \in Looks BY <1>1
<1>3. Len(past) # 0 BY <1>1
<1>4. PICK b \in Nat : \A v \in DOMAIN past : DOMAIN past[v] \subseteq 1 .. b BY DEF ToolTypes
<1>5. ASSUME NEW v \in DOMAIN past PROVE IsFiniteSet(DOMAIN past[v]) /\ DOMAIN past[v] \subseteq Nat
  <2>1. IsFiniteSet(1 .. b) /\ 1 .. b \subseteq Nat BY <1>4, FS_Interval
  <2>2. DOMAIN past[v] \in SUBSET (1 .. b) BY <1>4
  <2> QED BY <2>1, <2>2, FS_Subset
<1>6. ASSUME NEW v \in DOMAIN past, NEW c \in Nat, c \in DOMAIN past[v] PROVE past[v][c].amount \in Nat /\ past[v][c].run \in Nat
  <2>1. past[v][c] \in Kept BY <1>2, <1>6, LooksIs
  <2> QED BY <2>1 DEF Kept
<1>7. Len(past) \in DOMAIN past BY <1>2, <1>3
<1> QED BY <1>1, <1>2, <1>3, <1>5, <1>6, <1>7

\* One more look.
LEMMA NextLook ==
  ASSUME ToolTypes, NEW p \in Looks, past' = Append(past, p)
  PROVE  /\ past' \in Seq(Looks) /\ past' # << >> /\ Len(past') = Len(past) + 1 /\ past'[Len(past')] = p
         /\ DOMAIN past' = DOMAIN past \cup {Len(past')} /\ Len(past') \notin DOMAIN past
         /\ \A v \in DOMAIN past : past'[v] = past[v]
<1>1. past \in Seq(Looks) /\ Len(past) \in Nat /\ DOMAIN past = 1 .. Len(past) BY PastIs DEF ToolTypes
<1>2. /\ Append(past, p) \in Seq(Looks) /\ Append(past, p) # << >> /\ Len(Append(past, p)) = Len(past) + 1
      /\ Append(past, p)[Len(past) + 1] = p /\ DOMAIN Append(past, p) = 1 .. Len(past) + 1
      /\ \A v \in 1 .. Len(past) : Append(past, p)[v] = past[v]
  BY <1>1
<1>3. 1 .. Len(past) + 1 = (1 .. Len(past)) \cup {Len(past) + 1} /\ Len(past) + 1 \notin 1 .. Len(past) BY <1>1
<1> QED BY <1>1, <1>2, <1>3

\* A look that shows anything shows a first holding.
LEMMA TopExists ==
  ASSUME NEW p \in Looks, IsFiniteSet(DOMAIN p), DOMAIN p # {}
  PROVE  \E t \in DOMAIN p : IsTop(p, t)
<1> DEFINE S == DOMAIN p
           f == [c \in S |-> p[c].amount]
<1>1. S \subseteq Nat /\ \A c \in S : p[c].amount \in Nat
  <2>1. DOMAIN p \subseteq Nat /\ \A c \in DOMAIN p : p[c] \in Kept BY LooksIs
  <2> QED BY <2>1 DEF Kept
<1>2. Ints(f, S) BY <1>1 DEF Ints
<1>a. IsFiniteSet(S) /\ S # {} OBVIOUS
<1> HIDE DEF S
<1>3. PICK m \in S : \A x \in S : f[x] <= f[m] BY <1>a, <1>2, LargestOne
<1> DEFINE M == {c \in S : p[c].amount = p[m].amount}
<1>4. M \in SUBSET Nat /\ M # {} BY <1>1, <1>3
<1> HIDE DEF M
<1>5. PICK t \in M : \A o \in M : t <= o BY <1>4, LeastNat
<1>6. t \in S /\ t \in Nat /\ p[t].amount = p[m].amount BY <1>4, <1>5 DEF M
<1>7. ASSUME NEW o \in S \ {t} PROVE p[o].amount < p[t].amount \/ (p[o].amount = p[t].amount /\ t < o)
  <2>1. p[o].amount <= p[m].amount /\ p[o].amount \in Nat /\ p[m].amount \in Nat /\ o \in Nat BY <1>1, <1>3
  <2>2. CASE p[o].amount = p[m].amount
    <3>1. o \in M BY <2>2 DEF M
    <3>2. t <= o BY <1>5, <3>1
    <3> QED BY <1>6, <2>1, <2>2, <3>2
  <2>3. CASE p[o].amount # p[m].amount BY <1>6, <2>1, <2>3
  <2> QED BY <2>2, <2>3
<1>8. IsTop(p, t) BY <1>6, <1>7 DEF IsTop, S
<1> QED BY <1>6, <1>8 DEF S

\* What was asked for can be paid.
LEMMA WantedIs == /\ Wanted \in Payable /\ MaxToolInputs \in Nat /\ MaxSplitOutputs \in Nat \ {0}
                  /\ DOMAIN Wanted = 1 .. Len(Wanted) /\ \A i \in DOMAIN Wanted : Wanted[i][1] \in Nat \ {0}
<1>1. MaxToolInputs \in Nat /\ MaxSplitOutputs \in Nat \ {0} BY ToolAssumption, SplitPlansAssumption
<1>2. Wanted \in Seq((Nat \ {0}) \X (Nat \ {0})) BY ToolAssumption
<1>3. Wanted \in [1 .. Len(Wanted) -> (Nat \ {0}) \X (Nat \ {0})] /\ Len(Wanted) \in Nat BY <1>2
<1>4. Wanted \in [1 .. Len(Wanted) -> (Nat \ {0}) \X Nat] BY <1>3
<1>5. Wanted \in Payable BY <1>3, <1>4 DEF Payable
<1> QED BY <1>1, <1>3, <1>5

-----------------------------------------------------------------------------
(* What a chunk is planned from                                               *)

\* A chunk that is submitted spends some of what was seen, the first holding with it, and
\* is within what is missing, seen from there, or within what is left to make.
ChunkRight ==
  tool.at = "submit" =>
    /\ tool.inputs # {} /\ tool.inputs \subseteq DOMAIN past[tool.view]
    /\ \A c : IsTop(past[tool.view], c) => c \in tool.inputs
    /\ \A d \in Nat \ {0} :
         IF onlyDeficit THEN CountOf(tool.chunk, d) = 0 \/ CountOf(tool.chunk, d) + SeenOf(past[tool.view], d) <= CountOf(Wanted, d)
         ELSE CountOf(tool.chunk, d) <= CountOf(tool.left, d)

\* Inputs that were chosen were seen, and the first holding is one of them.
LEMMA InputsAre ==
  ASSUME NEW p \in Looks, IsFiniteSet(DOMAIN p), NEW total,
         LargestFirst([c \in DOMAIN p |-> p[c].amount], total) # {}
  PROVE  /\ LargestFirst([c \in DOMAIN p |-> p[c].amount], total) \subseteq DOMAIN p
         /\ \A t : IsTop(p, t) => t \in LargestFirst([c \in DOMAIN p |-> p[c].amount], total)
<1> DEFINE amounts == [c \in DOMAIN p |-> p[c].amount]
           before(c) == SortedBefore(amounts, c)
           first(n) == {c \in DOMAIN amounts : Cardinality(SortedBefore(amounts, c)) < n}
           most == Min({MaxToolInputs, Cardinality(DOMAIN amounts)})
           enough == {n \in 0 .. most : 100 * SumFunctionOnSet(amounts, first(n)) >= total}
<1>1. LargestFirst(amounts, total) = IF enough = {} THEN {} ELSE first(Min(enough)) BY DEF LargestFirst
<1>2. DOMAIN amounts = DOMAIN p OBVIOUS
<1>3. most \in Int
  <2>1. Cardinality(DOMAIN p) \in Nat /\ MaxToolInputs \in Nat BY FS_CardinalityType, WantedIs
  <2> DEFINE n == Cardinality(DOMAIN amounts)
  <2>2. n \in Int
    <3>1. n = Cardinality(DOMAIN p) BY <1>2
    <3> HIDE DEF n
    <3> QED BY <2>1, <3>1
  <2> HIDE DEF n
  <2>3. Min({MaxToolInputs, n}) \in Int
    <3> DEFINE m == MaxToolInputs
    <3>1. m \in Int BY <2>1
    <3> HIDE DEF m
    <3>2. Min({m, n}) \in Int BY <2>2, <3>1, MinTwo
    <3> QED BY <3>2 DEF m
  <2> QED BY <2>3 DEF n
<1>4. \A c \in DOMAIN p : IsFiniteSet(before(c)) /\ Cardinality(before(c)) \in Nat
  <2> TAKE c \in DOMAIN p
  <2>1. before(c) \subseteq DOMAIN p BY <1>2 DEF SortedBefore
  <2> HIDE DEF before
  <2>2. IsFiniteSet(before(c)) BY <2>1, FS_Subset
  <2> QED BY <2>2, FS_CardinalityType
<1>5. \A n : first(n) = {c \in DOMAIN p : Cardinality(before(c)) < n} BY <1>2
<1>6. \A t : IsTop(p, t) => t \in DOMAIN p /\ before(t) = {}
  <2> SUFFICES ASSUME NEW t, IsTop(p, t) PROVE t \in DOMAIN p /\ before(t) = {} OBVIOUS
  <2>1. t \in DOMAIN p /\ DOMAIN p \subseteq Nat /\ \A o \in DOMAIN p : p[o].amount \in Nat
    <3>1. t \in DOMAIN p /\ DOMAIN p \subseteq Nat /\ \A o \in DOMAIN p : p[o] \in Kept BY LooksIs DEF IsTop
    <3> QED BY <3>1 DEF Kept
  <2>2. \A o \in DOMAIN p : amounts[o] = p[o].amount OBVIOUS
  <2> HIDE DEF amounts
  <2>3. ASSUME NEW o \in before(t) PROVE FALSE
    <3>1. o \in DOMAIN p /\ (amounts[o] > amounts[t] \/ (amounts[o] = amounts[t] /\ o < t)) BY <1>2 DEF SortedBefore
    <3>2. p[o].amount > p[t].amount \/ (p[o].amount = p[t].amount /\ o < t) BY <3>1, <2>1, <2>2
    <3>3. p[o].amount \in Nat /\ p[t].amount \in Nat /\ o \in Nat /\ t \in Nat BY <3>1, <2>1
    <3>4. o # t BY <3>2, <3>3
    <3>5. p[o].amount < p[t].amount \/ (p[o].amount = p[t].amount /\ t < o) BY <3>1, <3>4 DEF IsTop
    <3> QED BY <3>2, <3>3, <3>5
  <2> QED BY <2>1, <2>3
<1> HIDE DEF first, before, most
<1>7. enough # {} BY <1>1
<1>8. enough \in SUBSET Nat BY <1>3
<1> DEFINE n == Min(enough)
<1>9. LargestFirst(amounts, total) = first(n) BY <1>1, <1>7
<1> HIDE DEF enough
<1>10. n \in Nat BY <1>7, <1>8, LeastOf
<1> HIDE DEF n, amounts
<1>11. first(n) # {} BY <1>9 DEF amounts
<1>12. n # 0
  <2>1. PICK c \in first(n) : TRUE BY <1>11
  <2>2. c \in DOMAIN p /\ Cardinality(before(c)) < n BY <2>1, <1>5
  <2> QED BY <2>2, <1>4
<1>13. ASSUME NEW t, IsTop(p, t) PROVE t \in first(n)
  <2>1. t \in DOMAIN p /\ Cardinality(before(t)) = 0 BY <1>6, <1>13, FS_EmptySet
  <2> QED BY <2>1, <1>5, <1>10, <1>12
<1> QED BY <1>5, <1>9, <1>13 DEF amounts

\* What a command still wants: what is missing, seen from the look, or what is left.
LEMMA WantIs ==
  ASSUME ToolTypes, NEW t, t.view \in DOMAIN past, t.left \in Payable
  PROVE  /\ Want(t) \in Payable
         /\ \A d \in Nat \ {0} :
              IF onlyDeficit THEN CountOf(Want(t), d) = 0 \/ CountOf(Want(t), d) + SeenOf(past[t.view], d) <= CountOf(Wanted, d)
              ELSE CountOf(Want(t), d) <= CountOf(t.left, d)
<1>1. CASE ~onlyDeficit
  <2>1. Want(t) = t.left BY <1>1 DEF Want
  <2>2. \A d : CountOf(t.left, d) \in Nat BY PayableIs, PlanIs
  <2>3. \A d \in Nat \ {0} : CountOf(Want(t), d) <= CountOf(t.left, d) BY <2>1, <2>2
  <2> QED BY <1>1, <2>1, <2>3
<1>2. CASE onlyDeficit
  <2> DEFINE p == past[t.view]
             a == AmountsAt(t.view)
             H == [i \in DOMAIN Wanted |-> Cardinality({c \in DOMAIN a : InBand(a[c], Wanted[i][1])})]
  <2>1. p \in Looks /\ IsFiniteSet(DOMAIN p) BY PastIs
  <2>2. DOMAIN a = DOMAIN p /\ \A c \in DOMAIN p : a[c] = p[c].amount BY DEF AmountsAt
  <2>3. Want(t) = Missing(Wanted, H) BY <1>2 DEF Want, RungDeficits
  <2> HIDE DEF p, a
  <2>4. \A d : SeenOf(p, d) \in Nat /\ Cardinality({c \in DOMAIN a : InBand(a[c], d)}) = SeenOf(p, d)
    <3> TAKE d
    <3> DEFINE S == {c \in DOMAIN p : InBand(p[c].amount, d)}
    <3>1. S \subseteq DOMAIN p OBVIOUS
    <3>2. {c \in DOMAIN a : InBand(a[c], d)} = S BY <2>2
    <3>3. SeenOf(p, d) = Cardinality(S) BY DEF SeenOf
    <3> HIDE DEF S
    <3>4. Cardinality(S) \in Nat BY <2>1, <3>1, FS_Subset, FS_CardinalityType
    <3> QED BY <3>2, <3>3, <3>4
  <2>5. \A i \in DOMAIN Wanted : H[i] = SeenOf(p, Wanted[i][1]) BY <2>4
  <2>6. H \in [DOMAIN Wanted -> Int]
    <3>1. H = [i \in DOMAIN Wanted |-> H[i]] OBVIOUS
    <3> HIDE DEF H
    <3>2. \A i \in DOMAIN Wanted : H[i] \in Int BY <2>4, <2>5
    <3> QED BY <3>1, <3>2
  <2> HIDE DEF H
  <2>7. ASSUME NEW d
        PROVE  /\ Missing(Wanted, H) \in Payable
               /\ CountOf(Missing(Wanted, H), d) = 0 \/ CountOf(Missing(Wanted, H), d) + SeenOf(p, d) <= CountOf(Wanted, d)
    <3> DEFINE h == SeenOf(p, d)
    <3>1. h \in Nat BY <2>4
    <3>2. \A i \in DOMAIN Wanted : Wanted[i][1] = d => H[i] = h BY <2>5
    <3> HIDE DEF h
    <3>3. CountOf(Missing(Wanted, H), d) = 0 \/ CountOf(Missing(Wanted, H), d) + h <= CountOf(Wanted, d)
      BY <2>6, <3>1, <3>2, WantedIs, MissingBound
    <3>4. Missing(Wanted, H) \in Payable BY <2>6, <3>1, <3>2, WantedIs, MissingBound
    <3> QED BY <3>3, <3>4 DEF h
  <2>8. \A d : /\ Missing(Wanted, H) \in Payable
               /\ CountOf(Missing(Wanted, H), d) = 0 \/ CountOf(Missing(Wanted, H), d) + SeenOf(p, d) <= CountOf(Wanted, d)
    BY <2>7
  <2> QED BY <1>2, <2>3, <2>8 DEF p
<1> QED BY <1>1, <1>2 DEF ToolTypes

\* What is affordable of it is no more.
LEMMA AffordableIs ==
  ASSUME ToolTypes, NEW want \in Payable, NEW v \in DOMAIN past
  PROVE  /\ Affordable(want, AmountsAt(v)) \in Payable
         /\ \A d : CountOf(Affordable(want, AmountsAt(v)), d) <= CountOf(want, d)
<1> DEFINE a == AmountsAt(v)
           available == SumFunctionOnSet(a, DOMAIN a)
           part == ((available - 1) * 10000) \div 102
           budget == IF isCc THEN Max({0, part}) ELSE 100 * available
<1>1. DOMAIN a = DOMAIN past[v] /\ IsFiniteSet(DOMAIN past[v]) BY PastIs DEF AmountsAt
<1>2. \A c \in DOMAIN a : a[c] \in Nat
  <2>1. \A c \in DOMAIN past[v] : a[c] = past[v][c].amount BY DEF AmountsAt
  <2>2. \A c \in DOMAIN past[v] : past[v][c].amount \in Nat BY PastIs
  <2> QED BY <1>1, <2>1, <2>2
<1>3. Affordable(want, a) = FundRungs(budget, want) BY DEF Affordable
<1> HIDE DEF a
<1>4. available \in Nat BY <1>1, <1>2, SumNat
<1> HIDE DEF available
<1>5. part \in Int /\ 100 * available \in Int BY <1>4
<1> HIDE DEF part
<1>6. Max({0, part}) \in Int
  <2>1. Max({0, part}) = IF 0 <= part THEN part ELSE 0 BY <1>5, MaxTwo
  <2> QED BY <2>1, <1>5
<1>7. budget \in Int BY <1>5, <1>6
<1> HIDE DEF budget
<1>8. FundRungs(budget, want) \in Payable /\ \A d : CountOf(FundRungs(budget, want), d) <= CountOf(want, d) BY <1>7, FundBound
<1> QED BY <1>3, <1>8 DEF a

-----------------------------------------------------------------------------
(* What the steps make of a command                                           *)

\* A command that is not running.
LEMMA NoToolIs == NoTool \in ToolStates /\ NoTool.at = "idle"
<1>1. << >> \in Payable BY DEF Payable
<1> QED BY <1>1 DEF NoTool, ToolStates, ToolStages

\* What the start of a command makes of it.
LEMMA StartsTo ==
  ASSUME ToolTypes, NEW v \in DOMAIN past, ToolStarts(v)
  PROVE  /\ tool.at = "idle" /\ runs' = runs + 1 /\ UNCHANGED <<onlyDeficit, isCc, purse, past, elsewhere>> /\ tool' \in ToolStates
         /\ tool'.at = "idle" \/ (tool'.at = "plan" /\ tool'.view = v /\ tool'.left = Wanted /\ tool'.committed = 0)
<1> DEFINE t == [NoTool EXCEPT !.at = "plan", !.view = v, !.left = Wanted]
           total == CountSum(Want(t))
           limit == (total + MaxSplitOutputs - 1) \div MaxSplitOutputs + 2
           u == [t EXCEPT !.limit = limit]
<1>1. /\ tool = NoTool /\ tool' = (IF total = 0 THEN NoTool ELSE u)
      /\ runs' = runs + 1 /\ UNCHANGED <<onlyDeficit, isCc, purse, past, elsewhere>>
  BY DEF ToolStarts
<1>2. v \in Nat BY PastIs
<1>3. t \in ToolStates /\ t.at = "plan" /\ t.view = v /\ t.left = Wanted /\ t.committed = 0
  BY <1>2, NoToolIs, WantedIs DEF ToolStates, ToolStages, NoTool
<1>4. total \in Nat
  <2>1. t.view \in DOMAIN past /\ t.left \in Payable BY <1>3, WantedIs
  <2> HIDE DEF t
  <2>2. Want(t) \in Payable BY <2>1, WantIs
  <2> QED BY <2>2, CountSumIs
<1> HIDE DEF t, total
<1>5. limit \in Int
  <2> DEFINE m == MaxSplitOutputs
             x == total + m - 1
  <2>1. m \in Nat \ {0} BY WantedIs
  <2> HIDE DEF m
  <2>2. x \in Int BY <1>4, <2>1
  <2> HIDE DEF x
  <2>3. x \div m + 2 \in Int BY <2>1, <2>2
  <2> QED BY <2>3 DEF x, m
<1> HIDE DEF limit
<1>6. u \in ToolStates /\ u.at = "plan" /\ u.view = v /\ u.left = Wanted /\ u.committed = 0 BY <1>3, <1>5 DEF ToolStates
<1> HIDE DEF u
<1>7. CASE total = 0 BY <1>1, <1>7, NoToolIs
<1>8. CASE total # 0 BY <1>1, <1>6, <1>8, NoToolIs
<1> QED BY <1>7, <1>8

\* What the planning of a chunk makes of it.
LEMMA PlanTo ==
  ASSUME ToolTypes, PlanChunk
  PROVE  /\ tool.at = "plan" /\ UNCHANGED <<onlyDeficit, isCc, purse, past, runs, elsewhere>> /\ tool' \in ToolStates /\ ChunkRight'
         /\ \/ tool'.at = "idle"
            \/ tool'.at = "submit" /\ tool'.view = tool.view /\ tool'.left = tool.left /\ tool'.committed = tool.committed
<1> DEFINE want == Want(tool)
           outstanding == CountSum(want)
           afford == Affordable(want, AmountsAt(tool.view))
           chunk == CapSplitOutputs(afford, MaxSplitOutputs)
           total == IF isCc THEN 102 * Cost(chunk) + 100 ELSE 100 * Cost(chunk)
           inputs == LargestFirst(AmountsAt(tool.view), total)
           noProgress == onlyDeficit /\ tool.prev >= 0 /\ outstanding >= tool.prev
           prev == IF onlyDeficit THEN outstanding ELSE -1
           u == [tool EXCEPT !.at = "submit", !.chunk = chunk, !.inputs = inputs, !.prev = prev]
           p == past[tool.view]
<1>1. tool.at = "plan" /\ tool \in ToolStates /\ tool.view \in DOMAIN past BY DEF PlanChunk, ToolTypes
<1>2. \/ Stop
      \/ inputs # {} /\ tool' = u /\ UNCHANGED <<onlyDeficit, isCc, purse, past, runs, elsewhere>>
  BY DEF PlanChunk
<1>3. CASE Stop
  <2>1. tool' = NoTool /\ UNCHANGED <<onlyDeficit, isCc, purse, past, runs, elsewhere>> BY <1>3 DEF Stop
  <2>2. tool' \in ToolStates /\ tool'.at = "idle" BY <2>1, NoToolIs
  <2>3. ChunkRight' BY <2>2 DEF ChunkRight
  <2> QED BY <1>1, <2>1, <2>2, <2>3
<1>4. CASE inputs # {} /\ tool' = u /\ UNCHANGED <<onlyDeficit, isCc, purse, past, runs, elsewhere>>
  <2>1. tool.left \in Payable BY <1>1 DEF ToolStates
  <2>2. /\ want \in Payable
        /\ \A d \in Nat \ {0} :
             IF onlyDeficit THEN CountOf(want, d) = 0 \/ CountOf(want, d) + SeenOf(p, d) <= CountOf(Wanted, d)
             ELSE CountOf(want, d) <= CountOf(tool.left, d)
    BY <1>1, <2>1, WantIs
  <2> HIDE DEF want
  <2>3. afford \in Payable /\ \A d : CountOf(afford, d) <= CountOf(want, d) BY <1>1, <2>2, AffordableIs
  <2> HIDE DEF afford
  <2>4. chunk \in Payable /\ \A d : CountOf(chunk, d) <= CountOf(afford, d) BY <2>3, WantedIs, CapBound
  <2> HIDE DEF chunk
  <2>5. \A d : CountOf(chunk, d) \in Nat /\ CountOf(afford, d) \in Nat /\ CountOf(want, d) \in Nat BY <2>2, <2>3, <2>4, PayableIs, PlanIs
  <2>6. \A d : CountOf(chunk, d) <= CountOf(want, d) BY <2>3, <2>4, <2>5
  <2>7. p \in Looks /\ IsFiniteSet(DOMAIN p) /\ DOMAIN p \subseteq Nat BY <1>1, PastIs
  <2>8. inputs = LargestFirst([c \in DOMAIN p |-> p[c].amount], total) BY DEF AmountsAt
  <2> HIDE DEF p, total, inputs
  <2>9. inputs \subseteq DOMAIN p /\ \A c : IsTop(p, c) => c \in inputs BY <2>7, <2>8, <1>4, InputsAre
  <2>10. prev \in Int
    <3>1. outstanding \in Nat BY <2>2, CountSumIs
    <3> QED BY <3>1
  <2> HIDE DEF prev
  <2>11. inputs \in SUBSET Nat BY <2>7, <2>9
  <2>12. /\ u \in ToolStates /\ u.at = "submit" /\ u.chunk = chunk /\ u.inputs = inputs /\ u.view = tool.view
         /\ u.left = tool.left /\ u.committed = tool.committed
    BY <1>1, <2>4, <2>10, <2>11 DEF ToolStates, ToolStages
  <2> HIDE DEF u
  <2>13. /\ tool' \in ToolStates /\ tool'.at = "submit" /\ tool'.chunk = chunk /\ tool'.inputs = inputs /\ tool'.view = tool.view
         /\ tool'.left = tool.left /\ tool'.committed = tool.committed
    BY <1>4, <2>12
  <2>14. past' = past /\ onlyDeficit' = onlyDeficit /\ past'[tool'.view] = p BY <1>4, <2>13 DEF p
  <2>15. \A d : SeenOf(p, d) \in Nat /\ CountOf(Wanted, d) \in Nat /\ CountOf(tool.left, d) \in Nat
    <3> TAKE d
    <3>1. {c \in DOMAIN p : InBand(p[c].amount, d)} \subseteq DOMAIN p OBVIOUS
    <3>2. SeenOf(p, d) \in Nat BY <3>1, <2>7, FS_Subset, FS_CardinalityType DEF SeenOf
    <3>3. Wanted \in Plans /\ tool.left \in Plans BY <2>1, WantedIs, PayableIs
    <3> QED BY <3>2, <3>3, PlanIs
  <2>16. \A d \in Nat \ {0} :
           IF onlyDeficit THEN CountOf(chunk, d) = 0 \/ CountOf(chunk, d) + SeenOf(p, d) <= CountOf(Wanted, d)
           ELSE CountOf(chunk, d) <= CountOf(tool.left, d)
    <3> TAKE d \in Nat \ {0}
    <3> DEFINE a == CountOf(chunk, d)
               b == CountOf(want, d)
               s == SeenOf(p, d)
               w == CountOf(Wanted, d)
               l == CountOf(tool.left, d)
    <3>1. a \in Nat /\ b \in Nat /\ s \in Nat /\ w \in Nat /\ l \in Nat /\ a <= b BY <2>5, <2>6, <2>15
    <3>2. IF onlyDeficit THEN b = 0 \/ b + s <= w ELSE b <= l BY <2>2
    <3> HIDE DEF a, b, s, w, l
    <3>3. IF onlyDeficit THEN a = 0 \/ a + s <= w ELSE a <= l BY <3>1, <3>2
    <3> QED BY <3>3 DEF a, s, w, l
  <2>17. ChunkRight' BY <1>4, <2>9, <2>13, <2>14, <2>16 DEF ChunkRight
  <2> QED BY <1>1, <1>4, <2>13, <2>17
<1> QED BY <1>2, <1>3, <1>4

\* What a chunk that committed makes of it, once the ledger has spent for it.
LEMMA CommitTo ==
  ASSUME ToolTypes, ChunkRight, ChunkCommits
  PROVE  /\ tool.at = "submit" /\ tool.inputs \subseteq DOMAIN purse /\ Spend(tool) /\ UNCHANGED <<onlyDeficit, isCc, runs, elsewhere>>
         /\ tool' \in ToolStates
         /\ \/ tool'.at = "idle"
            \/ /\ tool'.at = "refetch" /\ tool'.view = tool.view /\ tool'.spent = tool.inputs
               /\ ~onlyDeficit => \A d \in Nat \ {0} : CountOf(tool'.left, d) = CountOf(tool.left, d) - CountOf(tool.chunk, d)
<1> DEFINE left == IF onlyDeficit THEN tool.left ELSE SubtractSplitChunk(tool.left, tool.chunk)
           committed == tool.committed + 1
           u == [tool EXCEPT !.at = "refetch", !.left = left, !.committed = committed, !.spent = tool.inputs,
                             !.chunk = << >>, !.inputs = {}]
<1>1. /\ tool.at = "submit" /\ tool.inputs \subseteq DOMAIN purse /\ Spend(tool)
      /\ UNCHANGED <<onlyDeficit, isCc, runs, elsewhere>> /\ tool \in ToolStates
  BY DEF ChunkCommits, ToolTypes
<1>2. tool' = NoTool \/ tool' = u BY DEF ChunkCommits
<1>3. tool.left \in Payable /\ tool.chunk \in Payable /\ committed \in Nat /\ tool.inputs \in SUBSET Nat /\ << >> \in Payable
  <2>1. << >> \in Payable BY DEF Payable
  <2> QED BY <1>1, <2>1 DEF ToolStates
<1>4. left \in Payable BY <1>3, SubtractBound
<1>5. ~onlyDeficit => \A d \in Nat \ {0} : CountOf(left, d) = CountOf(tool.left, d) - CountOf(tool.chunk, d)
  <2>1. ~onlyDeficit => \A d \in Nat \ {0} : CountOf(tool.chunk, d) <= CountOf(tool.left, d) BY <1>1 DEF ChunkRight
  <2>2. ~onlyDeficit => left = SubtractSplitChunk(tool.left, tool.chunk) OBVIOUS
  <2> HIDE DEF left
  <2> QED BY <1>3, <2>1, <2>2, SubtractBound
<1> HIDE DEF left, committed
<1>6. u \in ToolStates /\ u.at = "refetch" /\ u.left = left /\ u.spent = tool.inputs /\ u.view = tool.view
  BY <1>1, <1>3, <1>4 DEF ToolStates, ToolStages
<1> HIDE DEF u
<1> QED BY <1>1, <1>2, <1>5, <1>6, NoToolIs

\* What a new look makes of it.
LEMMA RefetchTo ==
  ASSUME ToolTypes, NEW v \in DOMAIN past, Refetch(v)
  PROVE  /\ tool.at = "refetch" /\ UNCHANGED <<onlyDeficit, isCc, purse, past, runs, elsewhere>> /\ tool' \in ToolStates
         /\ tool'.at = "plan" /\ tool'.view = v /\ tool'.left = tool.left /\ tool.spent \cap DOMAIN past[v] = {}
<1>1. v \in Nat BY PastIs
<1>2. tool \in ToolStates BY DEF ToolTypes
<1> DEFINE u == [tool EXCEPT !.at = "plan", !.view = v]
<1>3. u \in ToolStates /\ u.at = "plan" /\ u.view = v /\ u.left = tool.left BY <1>1, <1>2 DEF ToolStates, ToolStages
<1>4. tool' = u BY DEF Refetch
<1> HIDE DEF u
<1> QED BY <1>3, <1>4 DEF Refetch

-----------------------------------------------------------------------------
(* What the ledger spends for a chunk                                         *)

\* New holdings of one amount: what the submission that ends made, its change aside.
FreshMade(d) == {c \in DOMAIN purse' \ DOMAIN purse : purse'[c].run # 0 /\ purse'[c].amount = d}

\* A sequence with or without one more entry.
LEMMA WithOrWithout ==
  ASSUME NEW n \in Nat, NEW first, first = [i \in 1 .. n |-> first[i]], NEW one, NEW more \in BOOLEAN,
         NEW new, new = first \o (IF more THEN <<one>> ELSE << >>)
  PROVE  /\ Len(new) \in Nat /\ n <= Len(new)
         /\ \A i \in 1 .. n : new[i] = first[i]
         /\ \A i \in n + 1 .. Len(new) : more /\ new[i] = one
<1> DEFINE R == {first[i] : i \in 1 .. n} \cup {one}
           last == IF more THEN <<one>> ELSE << >>
<1>1. first \in Seq(R) /\ Len(first) = n
  <2>1. first \in [1 .. n -> R] OBVIOUS
  <2> HIDE DEF R
  <2>2. first \in Seq(R) BY <2>1
  <2>3. DOMAIN first = 1 .. n /\ DOMAIN first = 1 .. Len(first) /\ Len(first) \in Nat BY <2>1, <2>2
  <2>4. Len(first) = n BY <2>3
  <2> QED BY <2>2, <2>4
<1>2. one \in R OBVIOUS
<1> HIDE DEF R
<1>3. CASE more
  <2>1. last = <<one>> BY <1>3
  <2> HIDE DEF last
  <2>2. last \in Seq(R) /\ Len(last) = 1 /\ last[1] = one BY <2>1, <1>2
  <2>3. /\ Len(first \o last) = Len(first) + Len(last)
        /\ \A i \in 1 .. Len(first) : (first \o last)[i] = first[i]
        /\ \A i \in 1 .. Len(first) + Len(last) : ~(i <= Len(first)) => (first \o last)[i] = last[i - Len(first)]
    BY <1>1, <2>2, TwoParts
  <2>4. new = first \o last BY DEF last
  <2>5. Len(new) = n + 1 /\ \A i \in 1 .. n : new[i] = first[i] BY <1>1, <2>2, <2>3, <2>4
  <2>6. new[n + 1] = one
    <3> DEFINE j == n + 1
    <3>1. j \in 1 .. Len(first) + Len(last) /\ ~(j <= Len(first)) /\ j - Len(first) = 1 BY <1>1, <2>2
    <3> HIDE DEF j
    <3>2. (first \o last)[j] = last[j - Len(first)] BY <2>3, <3>1
    <3>3. new[j] = one BY <3>1, <3>2, <2>2, <2>4
    <3> QED BY <3>3 DEF j
  <2>7. \A i \in n + 1 .. Len(new) : i = n + 1 BY <2>5
  <2> QED BY <1>3, <2>5, <2>6, <2>7
<1>4. CASE ~more
  <2>1. last = << >> BY <1>4
  <2> HIDE DEF last
  <2>2. new = first \o last BY DEF last
  <2>3. new = first BY <1>1, <2>1, <2>2
  <2>4. Len(new) = n /\ \A i \in n + 1 .. Len(new) : FALSE BY <1>1, <2>3
  <2> QED BY <2>3, <2>4
<1> QED BY <1>3, <1>4

\* What the ledger's spending leaves: what it did not spend, as it was, and holdings there
\* never were, of which no more are of one amount than the chunk asks for.
LEMMA SpendIs ==
  ASSUME ToolTypes, runs > 0, NEW t \in ToolStates, t.inputs \subseteq DOMAIN purse, t.inputs # {}, Spend(t)
  PROVE  /\ purse' \in Looks /\ past' = Append(past, purse')
         /\ \E b \in Nat : DOMAIN purse' \subseteq 1 .. b
         /\ \A c \in DOMAIN purse' : c \in DOMAIN purse => c \notin t.inputs /\ purse'[c] = purse[c]
         /\ \A c \in DOMAIN purse' : c \notin DOMAIN purse => purse'[c].run \in {0, runs} /\ \A v \in DOMAIN past : c \notin DOMAIN past[v]
         /\ \A d : IsFiniteSet(FreshMade(d)) /\ Cardinality(FreshMade(d)) <= CountOf(t.chunk, d)
<1> DEFINE outputs == Outputs(t.chunk)
           L == Len(outputs)
           f == [c \in t.inputs |-> purse[c].amount]
           change == SumFunctionOnSet(f, t.inputs) - Cost(t.chunk)
           first == [i \in 1 .. L |-> [amount |-> outputs[i], run |-> runs]]
           one == [amount |-> change, run |-> 0]
           new == first \o (IF change > 0 THEN <<one>> ELSE << >>)
           N == Len(new)
           ever == UNION {DOMAIN past[i] : i \in DOMAIN past}
           last == Max(ever)
<1>1. /\ purse' = [c \in (DOMAIN purse \ t.inputs) \cup (last + 1 .. last + N) |-> IF c <= last THEN purse[c] ELSE new[c - last]]
      /\ past' = Append(past, purse')
  BY DEF Spend
<1>2. t.chunk \in Payable /\ t.chunk \in Seq(Nat \X Nat) /\ t.chunk \in Plans BY PayableIs DEF ToolStates, Payable
<1>3. outputs \in Seq(Nat) /\ L \in Nat /\ \A i \in 1 .. L : outputs[i] \in Nat
  <2>1. outputs \in Seq(Nat) BY <1>2, OutputsBound
  <2> HIDE DEF outputs
  <2> QED BY <2>1
<1>4. change \in Int
  <2>1. IsFiniteSet(t.inputs) BY PastIs, FS_Subset
  <2>2. \A c \in t.inputs : f[c] \in Nat
    <3>1. \A c \in DOMAIN purse : purse[c] \in Kept BY PastIs, LooksIs
    <3>2. \A c \in t.inputs : f[c] = purse[c].amount OBVIOUS
    <3> HIDE DEF f
    <3> QED BY <3>1, <3>2 DEF Kept
  <2> HIDE DEF f
  <2>3. SumFunctionOnSet(f, t.inputs) \in Nat BY <2>1, <2>2, SumNat
  <2>4. Cost(t.chunk) \in Nat BY <1>2, PlanCostIs
  <2> QED BY <2>3, <2>4
<1> HIDE DEF outputs, f, change
<1>5. N \in Nat /\ L <= N
      /\ (\A i \in 1 .. L : new[i] = [amount |-> outputs[i], run |-> runs])
      /\ (\A i \in L + 1 .. N : change > 0 /\ new[i] = one)
  <2> DEFINE more == change > 0
  <2>1. first = [i \in 1 .. L |-> first[i]] /\ more \in BOOLEAN /\ new = first \o (IF more THEN <<one>> ELSE << >>) OBVIOUS
  <2>2. \A i \in 1 .. L : first[i] = [amount |-> outputs[i], run |-> runs] OBVIOUS
  <2> HIDE DEF first, L, one, more, new
  <2>3. /\ Len(new) \in Nat /\ L <= Len(new)
        /\ \A i \in 1 .. L : new[i] = first[i]
        /\ \A i \in L + 1 .. Len(new) : more /\ new[i] = one
    BY <2>1, <1>3, WithOrWithout
  <2> QED BY <2>2, <2>3 DEF more
<1>6. one = [amount |-> change, run |-> 0] OBVIOUS
<1> HIDE DEF new, N, first, one
<1>7. last \in Nat /\ \A v \in DOMAIN past : \A c \in DOMAIN past[v] : c \in Nat /\ c <= last
  <2>1. PICK b \in Nat : \A v \in DOMAIN past : DOMAIN past[v] \subseteq 1 .. b BY DEF ToolTypes
  <2>2. ever \subseteq 1 .. b BY <2>1
  <2>3. IsFiniteSet(1 .. b) /\ 1 .. b \subseteq Nat BY <2>1, FS_Interval
  <2>4. IsFiniteSet(ever) /\ ever \subseteq Nat BY <2>2, <2>3, FS_Subset
  <2>5. ever # {}
    <3>1. PICK c \in t.inputs : TRUE OBVIOUS
    <3>2. c \in DOMAIN past[Len(past)] /\ Len(past) \in DOMAIN past BY <3>1, PastIs
    <3> QED BY <3>2
  <2>6. \A v \in DOMAIN past : DOMAIN past[v] \subseteq ever OBVIOUS
  <2> HIDE DEF ever
  <2>7. ever \subseteq Int BY <2>4
  <2>8. Max(ever) \in ever /\ \A x \in ever : x <= Max(ever) BY <2>4, <2>5, <2>7, MaxIn
  <2> QED BY <2>4, <2>6, <2>8
<1> HIDE DEF last
<1>8. DOMAIN purse' = (DOMAIN purse \ t.inputs) \cup (last + 1 .. last + N) BY <1>1
<1>9. \A c \in DOMAIN purse : c \in Nat /\ c <= last /\ purse[c] \in Kept
  <2>1. Len(past) \in DOMAIN past /\ purse = past[Len(past)] /\ purse \in Looks BY PastIs
  <2> QED BY <2>1, <1>7, LooksIs
<1>10. ASSUME NEW c \in DOMAIN purse', c \in DOMAIN purse PROVE c \notin t.inputs /\ purse'[c] = purse[c]
  <2>1. c \in Nat /\ c <= last BY <1>9, <1>10
  <2>2. c \notin last + 1 .. last + N BY <2>1, <1>7
  <2>3. c \in DOMAIN purse \ t.inputs BY <1>8, <2>2
  <2>4. purse'[c] = purse[c] BY <1>1, <1>8, <2>1
  <2> QED BY <2>3, <2>4
<1>11. runs \in Nat /\ runs # 0 BY DEF ToolTypes
<1>12. ASSUME NEW c \in DOMAIN purse', c \notin DOMAIN purse
       PROVE  /\ c \in Nat /\ c > last /\ c - last \in 1 .. N /\ purse'[c] \in Kept /\ purse'[c].run \in {0, runs}
              /\ purse'[c].run # 0 => c - last \in 1 .. L /\ purse'[c].amount = outputs[c - last]
  <2>1. c \in last + 1 .. last + N BY <1>8, <1>12
  <2>2. c \in Nat /\ c > last /\ c - last \in 1 .. N /\ ~(c <= last) BY <2>1, <1>5, <1>7
  <2>3. purse'[c] = new[c - last] BY <1>1, <1>8, <2>2
  <2> DEFINE i == c - last
  <2> HIDE DEF i, L
  <2>4. CASE i \in 1 .. L
    <3>1. purse'[c] = [amount |-> outputs[i], run |-> runs] BY <2>3, <2>4, <1>5 DEF i
    <3>2. outputs[i] \in Nat BY <2>4, <1>3
    <3>3. purse'[c] \in Kept /\ purse'[c].run = runs /\ purse'[c].amount = outputs[i] BY <3>1, <3>2, <1>11 DEF Kept
    <3> QED BY <2>2, <2>4, <3>3 DEF i
  <2>5. CASE i \notin 1 .. L
    <3>1. i \in L + 1 .. N BY <2>2, <2>5, <1>3, <1>5 DEF i
    <3>2. purse'[c] = [amount |-> change, run |-> 0] /\ change > 0 BY <2>3, <3>1, <1>5, <1>6 DEF i
    <3>3. change \in Nat BY <3>2, <1>4
    <3>4. purse'[c] \in Kept /\ purse'[c].run = 0 BY <3>2, <3>3 DEF Kept
    <3> QED BY <2>2, <3>4 DEF i
  <2> QED BY <2>4, <2>5
<1>13. purse' \in Looks
  <2>1. purse' = [c \in DOMAIN purse' |-> purse'[c]] BY <1>1
  <2>2. \A c \in DOMAIN purse' : c \in Nat /\ purse'[c] \in Kept BY <1>9, <1>10, <1>12
  <2>3. \A p : p = [c \in DOMAIN p |-> p[c]] /\ (\A c \in DOMAIN p : c \in Nat /\ p[c] \in Kept) => p \in Looks BY LooksIs
  <2> QED BY <2>1, <2>2, <2>3
<1>14. last + N \in Nat /\ DOMAIN purse' \subseteq 1 .. last + N
  <2>1. last + N \in Nat BY <1>5, <1>7
  <2>2. PICK b \in Nat : DOMAIN purse \subseteq 1 .. b
    <3>1. Len(past) \in DOMAIN past /\ purse = past[Len(past)] BY PastIs
    <3> QED BY <3>1 DEF ToolTypes
  <2>3. ASSUME NEW c \in DOMAIN purse' PROVE c \in 1 .. last + N
    <3>1. CASE c \in DOMAIN purse
      <4>1. c \in 1 .. b /\ c <= last BY <3>1, <2>2, <1>9
      <4> QED BY <4>1, <2>2, <1>5, <1>7
    <3>2. CASE c \notin DOMAIN purse BY <3>2, <1>12, <1>5, <1>7
    <3> QED BY <3>1, <3>2
  <2> QED BY <2>1, <2>3
<1>15. ASSUME NEW c \in DOMAIN purse', c \notin DOMAIN purse PROVE purse'[c].run \in {0, runs} /\ \A v \in DOMAIN past : c \notin DOMAIN past[v]
  <2>1. c \in Nat /\ c > last /\ purse'[c].run \in {0, runs} BY <1>12, <1>15
  <2>2. ASSUME NEW v \in DOMAIN past, c \in DOMAIN past[v] PROVE FALSE
    <3>1. c <= last BY <1>7, <2>2
    <3> QED BY <3>1, <2>1, <1>7
  <2> QED BY <2>1, <2>2
<1>16. ASSUME NEW d PROVE IsFiniteSet(FreshMade(d)) /\ Cardinality(FreshMade(d)) <= CountOf(t.chunk, d)
  <2> DEFINE F == FreshMade(d)
             A == At(outputs, d)
             g == [c \in F |-> c - last]
  <2>1. IsFiniteSet(A) /\ Cardinality(A) <= CountOf(t.chunk, d) BY <1>2, OutputsBound DEF outputs
  <2>2. \A c \in F : c \in Int /\ g[c] = c - last /\ g[c] \in A
    <3> TAKE c \in F
    <3>1. c \in DOMAIN purse' /\ c \notin DOMAIN purse /\ purse'[c].run # 0 /\ purse'[c].amount = d BY DEF FreshMade
    <3>2. c \in Int /\ c - last \in 1 .. L /\ outputs[c - last] = d BY <3>1, <1>12
    <3> QED BY <3>2 DEF At
  <2>3. \A c, o \in F : g[c] = g[o] => c = o BY <2>2, <1>7
  <2> HIDE DEF F, A
  <2>4. g \in Injection(F, A)
    <3>1. g \in [F -> A] BY <2>2
    <3> QED BY <2>3, <3>1 DEF Injection, IsInjective
  <2> HIDE DEF g
  <2>5. IsFiniteSet(F) /\ Cardinality(F) <= Cardinality(A) BY <2>1, <2>4, FS_Injection
  <2>6. Cardinality(F) \in Nat /\ Cardinality(A) \in Nat /\ CountOf(t.chunk, d) \in Nat
    BY <2>1, <2>5, <1>2, FS_CardinalityType, PlanIs
  <2>7. Cardinality(F) <= CountOf(t.chunk, d) BY <2>1, <2>5, <2>6
  <2> QED BY <2>5, <2>7 DEF F
<1>17. \A c \in DOMAIN purse' : c \in DOMAIN purse => c \notin t.inputs /\ purse'[c] = purse[c] BY <1>10
<1>18. \A c \in DOMAIN purse' : c \notin DOMAIN purse => purse'[c].run \in {0, runs} /\ \A v \in DOMAIN past : c \notin DOMAIN past[v] BY <1>15
<1>19. past' = Append(past, purse') BY <1>1
<1> QED BY ONLY <1>13, <1>14, <1>16, <1>17, <1>18, <1>19

-----------------------------------------------------------------------------
(* The invariant of the split commands                                        *)

\* The holdings of one amount that commands of S made.
Made(p, S, d) == {c \in DOMAIN p : p[c].amount = d /\ p[c].run \in S}

\* The ledger moves on: what is new was in no look before.
Moved ==
  /\ purse' \in Looks /\ past' = Append(past, purse')
  /\ \E b \in Nat : DOMAIN purse' \subseteq 1 .. b
  /\ \A c \in DOMAIN purse' : c \in DOMAIN purse => purse'[c] = purse[c]
  /\ \A c \in DOMAIN purse' : c \notin DOMAIN purse => purse'[c].run \in {0, runs} /\ \A v \in DOMAIN past : c \notin DOMAIN past[v]

\* It spends the inputs of a chunk for its outputs.
SpentFor(inputs, chunk) ==
  /\ Moved /\ \A c \in DOMAIN purse' : c \notin inputs
  /\ \A d : IsFiniteSet(FreshMade(d)) /\ Cardinality(FreshMade(d)) <= CountOf(chunk, d)

\* Of looks at which the same holding comes first, one chunk commits: whoever spent that
\* holding added what the others did not see.
OneSplits ==
  \A v \in DOMAIN past :
    DOMAIN purse \subseteq DOMAIN past[v] \/ \A c : IsTop(past[v], c) => c \notin DOMAIN purse

\* What is there and was seen once is in every later look.
StaysSeen == \A u, v \in DOMAIN past : u <= v => DOMAIN past[u] \cap DOMAIN purse \subseteq DOMAIN past[v]

\* What was made is within what was asked for, and a split that runs has what it left for
\* the rest of it.
MadeRight ==
  \A d \in Nat \ {0} :
    IF onlyDeficit THEN MadeBy(1 .. runs, d) <= CountOf(Wanted, d)
    ELSE /\ \A r \in 1 .. runs : MadeBy({r}, d) <= CountOf(Wanted, d)
         /\ tool.at # "idle" => MadeBy({runs}, d) + CountOf(tool.left, d) <= CountOf(Wanted, d)

\* Until somebody else spends, no look but the latest lacks what the chunk spent, and the
\* chunks after the first are planned from the latest.
FreshLook ==
  ~elsewhere =>
    /\ tool.at = "refetch" => \A u \in DOMAIN past : u >= tool.view /\ u < Len(past) => tool.spent \cap DOMAIN past[u] # {}
    /\ tool.at \in {"plan", "submit"} /\ tool.committed > 0 => tool.view = Len(past)

ToolInv == ToolTypes /\ ChunkRight /\ OneSplits /\ StaysSeen /\ MadeRight /\ FreshLook

\* The types where the ledger stays.
LEMMA QuietTypes ==
  ASSUME ToolTypes, UNCHANGED <<onlyDeficit, purse, past, elsewhere>>, runs' = runs \/ runs' = runs + 1,
         tool' \in ToolStates, tool'.at # "idle" => tool'.view \in DOMAIN past /\ runs' > 0
  PROVE  ToolTypes'
<1>1. runs \in Nat /\ runs' \in Nat /\ runs <= runs' BY DEF ToolTypes
<1>2. ASSUME NEW v \in DOMAIN past, NEW c \in DOMAIN past[v] PROVE past[v][c].run <= runs'
  <2>1. past[v][c].run <= runs BY DEF ToolTypes
  <2>2. past[v][c].run \in Nat BY PastIs
  <2> QED BY <2>1, <2>2, <1>1
<1> QED BY <1>1, <1>2 DEF ToolTypes

\* And where it moves on.
LEMMA MovedTypes ==
  ASSUME ToolTypes, Moved, UNCHANGED <<onlyDeficit, runs>>, elsewhere' \in BOOLEAN,
         tool' \in ToolStates, tool'.at # "idle" => tool'.view \in DOMAIN past /\ runs > 0
  PROVE  ToolTypes'
<1>1. /\ past' \in Seq(Looks) /\ past' # << >> /\ past'[Len(past')] = purse'
      /\ DOMAIN past' = DOMAIN past \cup {Len(past')} /\ \A v \in DOMAIN past : past'[v] = past[v]
  BY NextLook DEF Moved
<1>2. purse = past[Len(past)] /\ Len(past) \in DOMAIN past BY PastIs
<1>3. \E b \in Nat : \A v \in DOMAIN past' : DOMAIN past'[v] \subseteq 1 .. b
  <2>1. PICK a \in Nat : \A v \in DOMAIN past : DOMAIN past[v] \subseteq 1 .. a BY DEF ToolTypes
  <2>2. PICK b \in Nat : DOMAIN purse' \subseteq 1 .. b BY DEF Moved
  <2>3. a + b \in Nat /\ 1 .. a \subseteq 1 .. a + b /\ 1 .. b \subseteq 1 .. a + b BY <2>1, <2>2
  <2>4. \A v \in DOMAIN past' : DOMAIN past'[v] \subseteq 1 .. a + b
    <3> TAKE v \in DOMAIN past'
    <3>1. CASE v \in DOMAIN past BY <3>1, <1>1, <2>1, <2>3
    <3>2. CASE v \notin DOMAIN past BY <3>2, <1>1, <2>2, <2>3
    <3> QED BY <3>1, <3>2
  <2> QED BY <2>3, <2>4
<1>4. runs \in Nat BY DEF ToolTypes
<1>5. \A c \in DOMAIN purse' : purse'[c].run <= runs
  <2> TAKE c \in DOMAIN purse'
  <2>1. CASE c \in DOMAIN purse
    <3>1. purse'[c] = purse[c] BY <2>1 DEF Moved
    <3>2. past[Len(past)][c].run <= runs BY <1>2, <2>1 DEF ToolTypes
    <3> QED BY <1>2, <3>1, <3>2
  <2>2. CASE c \notin DOMAIN purse
    <3>1. purse'[c].run = 0 \/ purse'[c].run = runs BY <2>2 DEF Moved
    <3> QED BY <3>1, <1>4
  <2> QED BY <2>1, <2>2
<1>6. \A v \in DOMAIN past' : \A c \in DOMAIN past'[v] : past'[v][c].run <= runs'
  <2> TAKE v \in DOMAIN past'
  <2>1. runs' = runs OBVIOUS
  <2>2. CASE v \in DOMAIN past
    <3>1. \A c \in DOMAIN past[v] : past[v][c].run <= runs BY <2>2 DEF ToolTypes
    <3> QED BY <2>1, <2>2, <3>1, <1>1
  <2>3. CASE v \notin DOMAIN past BY <2>1, <2>3, <1>1, <1>5
  <2> QED BY <2>2, <2>3
<1>7. \A v \in DOMAIN past, c \in DOMAIN purse' : c \in DOMAIN past[v] => past[v][c] = purse'[c]
  <2> SUFFICES ASSUME NEW v \in DOMAIN past, NEW c \in DOMAIN purse', c \in DOMAIN past[v] PROVE past[v][c] = purse'[c] OBVIOUS
  <2>1. c \in DOMAIN purse /\ purse'[c] = purse[c] BY DEF Moved
  <2>2. past[v][c] = past[Len(past)][c] BY <2>1, <1>2 DEF ToolTypes
  <2> QED BY <2>1, <2>2, <1>2
<1>8. \A u, v \in DOMAIN past' : \A c \in DOMAIN past'[u] \cap DOMAIN past'[v] : past'[u][c] = past'[v][c]
  <2> TAKE u, v \in DOMAIN past'
  <2> TAKE c \in DOMAIN past'[u] \cap DOMAIN past'[v]
  <2>1. CASE u \in DOMAIN past /\ v \in DOMAIN past
    <3>1. past[u][c] = past[v][c] BY <2>1, <1>1 DEF ToolTypes
    <3> QED BY <2>1, <3>1, <1>1
  <2>2. CASE u \in DOMAIN past /\ v \notin DOMAIN past
    <3>1. past'[u] = past[u] /\ past'[v] = purse' BY <2>2, <1>1
    <3>2. c \in DOMAIN past[u] /\ c \in DOMAIN purse' BY <3>1
    <3>3. past[u][c] = purse'[c] BY <2>2, <3>2, <1>7
    <3> QED BY <3>1, <3>3
  <2>3. CASE u \notin DOMAIN past /\ v \in DOMAIN past
    <3>1. past'[v] = past[v] /\ past'[u] = purse' BY <2>3, <1>1
    <3>2. c \in DOMAIN past[v] /\ c \in DOMAIN purse' BY <3>1
    <3>3. past[v][c] = purse'[c] BY <2>3, <3>2, <1>7
    <3> QED BY <3>1, <3>3
  <2>4. CASE u \notin DOMAIN past /\ v \notin DOMAIN past BY <2>4, <1>1
  <2> QED BY <2>1, <2>2, <2>3, <2>4
<1>9. /\ onlyDeficit' \in BOOLEAN /\ elsewhere' \in BOOLEAN /\ runs' \in Nat
      /\ tool' \in ToolStates /\ (tool'.at # "idle" => tool'.view \in DOMAIN past' /\ runs' > 0)
  BY <1>1, <1>4 DEF ToolTypes
<1>10. purse' = past'[Len(past')] BY <1>1
<1> QED BY <1>1, <1>3, <1>6, <1>8, <1>9, <1>10 DEF ToolTypes

\* What was seen once and is there stays seen.
LEMMA SeenKept == ASSUME ToolTypes, StaysSeen, Moved PROVE StaysSeen'
<1>1. /\ past'[Len(past')] = purse' /\ Len(past') = Len(past) + 1
      /\ DOMAIN past' = DOMAIN past \cup {Len(past')} /\ \A v \in DOMAIN past : past'[v] = past[v]
  BY NextLook DEF Moved
<1>2. \A v \in DOMAIN past : DOMAIN past[v] \cap DOMAIN purse' \subseteq DOMAIN purse BY DEF Moved
<1>3. Len(past) \in Nat /\ DOMAIN past = 1 .. Len(past) BY PastIs
<1> SUFFICES ASSUME NEW u \in DOMAIN past', NEW v \in DOMAIN past', u <= v,
                    NEW c \in DOMAIN past'[u] \cap DOMAIN purse'
             PROVE  c \in DOMAIN past'[v]
  BY DEF StaysSeen
<1>4. CASE v \in DOMAIN past
  <2>1. u \in DOMAIN past BY <1>1, <1>3, <1>4
  <2>2. c \in DOMAIN past[u] \cap DOMAIN purse BY <1>1, <1>2, <2>1
  <2>3. c \in DOMAIN past[v] BY <1>4, <2>1, <2>2 DEF StaysSeen
  <2> QED BY <1>1, <1>4, <2>3
<1>5. CASE v \notin DOMAIN past BY <1>1, <1>5
<1> QED BY <1>4, <1>5

\* Two looks that show each other's first holding have the same one.
LEMMA SameTop ==
  ASSUME ToolTypes, NEW u \in DOMAIN past, NEW v \in DOMAIN past, NEW a, NEW b, IsTop(past[u], a), IsTop(past[v], b),
         a \in DOMAIN past[v], b \in DOMAIN past[u]
  PROVE  a = b
<1> SUFFICES ASSUME a # b PROVE FALSE OBVIOUS
<1>1. a \in DOMAIN past[u] /\ b \in DOMAIN past[v] BY DEF IsTop
<1>2. past[u][a] = past[v][a] /\ past[u][b] = past[v][b] BY <1>1 DEF ToolTypes
<1> DEFINE x == past[u][a].amount
           y == past[u][b].amount
<1>3. y < x \/ (y = x /\ a < b) BY <1>1 DEF IsTop
<1>4. x < y \/ (x = y /\ b < a)
  <2>1. past[v][a].amount < past[v][b].amount \/ (past[v][a].amount = past[v][b].amount /\ b < a) BY <1>1 DEF IsTop
  <2> QED BY <2>1, <1>2
<1>5. x \in Nat /\ y \in Nat /\ a \in Nat /\ b \in Nat BY <1>1, PastIs
<1> HIDE DEF x, y
<1> QED BY <1>3, <1>4, <1>5

\* A holding that goes leaves one chunk to commit.
LEMMA GoneSplits == ASSUME ToolTypes, OneSplits, Moved, DOMAIN purse' \subseteq DOMAIN purse PROVE OneSplits'
<1>1. /\ past'[Len(past')] = purse'
      /\ DOMAIN past' = DOMAIN past \cup {Len(past')} /\ \A v \in DOMAIN past : past'[v] = past[v]
  BY NextLook DEF Moved
<1> SUFFICES ASSUME NEW v \in DOMAIN past'
             PROVE  DOMAIN purse' \subseteq DOMAIN past'[v] \/ \A c : IsTop(past'[v], c) => c \notin DOMAIN purse'
  BY DEF OneSplits
<1>2. CASE v \in DOMAIN past
  <2>1. DOMAIN purse \subseteq DOMAIN past[v] \/ \A c : IsTop(past[v], c) => c \notin DOMAIN purse BY <1>2 DEF OneSplits
  <2> QED BY <1>1, <1>2, <2>1
<1>3. CASE v \notin DOMAIN past BY <1>1, <1>3
<1> QED BY <1>2, <1>3

\* So does a chunk that commits from a look with its first holding: whatever else has that
\* holding first lost it.
LEMMA SpentSplits ==
  ASSUME ToolTypes, OneSplits, NEW w \in DOMAIN past, NEW inputs, NEW chunk, SpentFor(inputs, chunk),
         inputs # {}, inputs \subseteq DOMAIN purse, inputs \subseteq DOMAIN past[w], \A c : IsTop(past[w], c) => c \in inputs
  PROVE  DOMAIN purse \subseteq DOMAIN past[w] /\ OneSplits'
<1>1. Moved /\ \A c \in DOMAIN purse' : c \notin inputs BY DEF SpentFor
<1>2. PICK t \in DOMAIN past[w] : IsTop(past[w], t)
  <2>1. past[w] \in Looks /\ IsFiniteSet(DOMAIN past[w]) /\ DOMAIN past[w] # {} BY PastIs
  <2> QED BY <2>1, TopExists
<1>3. t \in inputs /\ t \in DOMAIN purse BY <1>2
<1>4. DOMAIN purse \subseteq DOMAIN past[w] BY <1>2, <1>3 DEF OneSplits
<1>5. /\ past'[Len(past')] = purse'
      /\ DOMAIN past' = DOMAIN past \cup {Len(past')} /\ \A v \in DOMAIN past : past'[v] = past[v]
  BY <1>1, NextLook DEF Moved
<1>6. \A v \in DOMAIN past : DOMAIN past[v] \cap DOMAIN purse' \subseteq DOMAIN purse BY <1>1 DEF Moved
<1>7. ASSUME NEW v \in DOMAIN past, NEW c, IsTop(past[v], c), c \in DOMAIN purse' PROVE FALSE
  <2>1. c \in DOMAIN past[v] BY <1>7 DEF IsTop
  <2>2. c \in DOMAIN purse BY <1>6, <1>7, <2>1
  <2>3. DOMAIN purse \subseteq DOMAIN past[v] BY <1>7, <2>2 DEF OneSplits
  <2>4. t \in DOMAIN past[v] /\ c \in DOMAIN past[w] BY <2>2, <2>3, <1>3, <1>4
  <2>5. t = c BY <1>2, <1>7, <2>4, SameTop
  <2> QED BY <1>1, <1>3, <1>7, <2>5
<1>8. ASSUME NEW v \in DOMAIN past'
      PROVE  DOMAIN purse' \subseteq DOMAIN past'[v] \/ \A c : IsTop(past'[v], c) => c \notin DOMAIN purse'
  <2>1. CASE v \in DOMAIN past BY <2>1, <1>5, <1>7
  <2>2. CASE v \notin DOMAIN past BY <2>2, <1>5
  <2> QED BY <2>1, <2>2
<1> QED BY <1>4, <1>8 DEF OneSplits

-----------------------------------------------------------------------------
(* What was made of a rung                                                    *)

\* What MadeBy counts.
LEMMA MadeIs ==
  ASSUME ToolTypes, NEW S, NEW d
  PROVE  IsFiniteSet(Made(purse, S, d)) /\ Cardinality(Made(purse, S, d)) \in Nat
<1>1. Made(purse, S, d) \subseteq DOMAIN purse /\ IsFiniteSet(DOMAIN purse) BY PastIs DEF Made
<1> QED BY <1>1, FS_Subset, FS_CardinalityType

\* Nothing new, nothing made.
LEMMA MadeLess ==
  ASSUME ToolTypes, Moved, NEW S, NEW d, \A c \in Made(purse', S, d) : c \in DOMAIN purse
  PROVE  Cardinality(Made(purse', S, d)) \in Nat /\ Cardinality(Made(purse', S, d)) <= Cardinality(Made(purse, S, d))
<1>1. Made(purse', S, d) \subseteq Made(purse, S, d) BY DEF Moved, Made
<1>2. IsFiniteSet(Made(purse, S, d)) BY MadeIs
<1> QED BY <1>1, <1>2, FS_Subset, FS_CardinalityType

\* A chunk makes no more than its outputs, and for its own run.
LEMMA MadeMore ==
  ASSUME ToolTypes, NEW inputs, NEW chunk \in Payable, SpentFor(inputs, chunk), NEW S, 0 \notin S, NEW d
  PROVE  /\ Cardinality(Made(purse', S, d)) \in Nat
         /\ Cardinality(Made(purse', S, d)) <= Cardinality(Made(purse, S, d)) + CountOf(chunk, d)
         /\ runs \notin S => Cardinality(Made(purse', S, d)) <= Cardinality(Made(purse, S, d))
<1>1. Moved /\ IsFiniteSet(FreshMade(d)) /\ Cardinality(FreshMade(d)) <= CountOf(chunk, d) BY DEF SpentFor
<1>2. IsFiniteSet(Made(purse, S, d)) /\ Cardinality(Made(purse, S, d)) \in Nat BY MadeIs
<1>3. Made(purse', S, d) \subseteq Made(purse, S, d) \cup FreshMade(d)
  <2> SUFFICES ASSUME NEW c \in Made(purse', S, d) PROVE c \in Made(purse, S, d) \cup FreshMade(d) OBVIOUS
  <2>1. c \in DOMAIN purse' /\ purse'[c].amount = d /\ purse'[c].run \in S /\ purse'[c].run # 0 BY DEF Made
  <2>2. CASE c \in DOMAIN purse
    <3>1. purse'[c] = purse[c] BY <1>1, <2>1, <2>2 DEF Moved
    <3> QED BY <2>1, <2>2, <3>1 DEF Made
  <2>3. CASE c \notin DOMAIN purse BY <2>1, <2>3 DEF FreshMade
  <2> QED BY <2>2, <2>3
<1> DEFINE A == Made(purse, S, d)
           B == FreshMade(d)
           C == Made(purse', S, d)
           k == CountOf(chunk, d)
<1>4. k \in Nat BY PayableIs, PlanIs
<1>5. IsFiniteSet(A) /\ IsFiniteSet(B) /\ C \subseteq A \cup B /\ Cardinality(B) <= k /\ Cardinality(A) \in Nat BY <1>1, <1>2, <1>3
<1>6. runs \notin S => C \subseteq A
  <2> SUFFICES ASSUME runs \notin S, NEW c \in Made(purse', S, d) PROVE c \in Made(purse, S, d) OBVIOUS
  <2>1. c \in DOMAIN purse' /\ purse'[c].amount = d /\ purse'[c].run \in S BY DEF Made
  <2>2. c \in DOMAIN purse
    <3> SUFFICES ASSUME c \notin DOMAIN purse PROVE FALSE OBVIOUS
    <3>1. purse'[c].run \in {0, runs} BY <1>1, <2>1 DEF Moved
    <3> QED BY <2>1, <3>1
  <2>3. purse'[c] = purse[c] BY <1>1, <2>1, <2>2 DEF Moved
  <2> QED BY <2>1, <2>2, <2>3 DEF Made
<1> HIDE DEF A, B, C, k
<1>7. IsFiniteSet(A \cup B) /\ Cardinality(A \cup B) <= Cardinality(A) + Cardinality(B) /\ Cardinality(B) \in Nat
      /\ Cardinality(A \cup B) \in Nat
  BY <1>5, UnionAtMost
<1>8. IsFiniteSet(C) /\ Cardinality(C) <= Cardinality(A \cup B) BY <1>5, <1>7, FS_Subset
<1>9. Cardinality(C) \in Nat BY <1>8, FS_CardinalityType
<1>10. Cardinality(C) <= Cardinality(A) + k BY <1>4, <1>5, <1>7, <1>8, <1>9
<1>11. runs \notin S => Cardinality(C) <= Cardinality(A) BY <1>5, <1>6, FS_Subset
<1> QED BY <1>9, <1>10, <1>11 DEF A, C, k

\* From a look that shows all there is, a setup counts what was made.
LEMMA SetupSees ==
  ASSUME ToolTypes, NEW w \in DOMAIN past, DOMAIN purse \subseteq DOMAIN past[w], NEW S, NEW d \in Nat \ {0}
  PROVE  SeenOf(past[w], d) \in Nat /\ Cardinality(Made(purse, S, d)) <= SeenOf(past[w], d)
<1> DEFINE T == {c \in DOMAIN past[w] : InBand(past[w][c].amount, d)}
<1>1. T \subseteq DOMAIN past[w] /\ IsFiniteSet(DOMAIN past[w]) BY PastIs
<1>2. Made(purse, S, d) \subseteq T
  <2> SUFFICES ASSUME NEW c \in Made(purse, S, d) PROVE c \in T OBVIOUS
  <2>1. c \in DOMAIN purse /\ purse[c].amount = d BY DEF Made
  <2>2. purse = past[Len(past)] /\ Len(past) \in DOMAIN past BY PastIs
  <2>3. past[w][c] = past[Len(past)][c] BY <2>1, <2>2 DEF ToolTypes
  <2>4. past[w][c].amount = d BY <2>1, <2>2, <2>3
  <2>5. InBand(d, d) BY DEF InBand
  <2> QED BY <2>1, <2>4, <2>5
<1>3. IsFiniteSet(T) BY <1>1, FS_Subset
<1>4. SeenOf(past[w], d) = Cardinality(T) BY DEF SeenOf
<1> HIDE DEF T
<1> QED BY <1>2, <1>3, <1>4, FS_Subset, FS_CardinalityType

\* A command that starts made nothing yet.
LEMMA StartsMade ==
  ASSUME ToolTypes, MadeRight, UNCHANGED <<onlyDeficit, purse>>, runs' = runs + 1,
         tool'.at # "idle" => tool'.left = Wanted
  PROVE  MadeRight'
<1>1. runs \in Nat BY DEF ToolTypes
<1>2. \A c \in DOMAIN purse : purse[c].run \in Nat /\ purse[c].run <= runs
  <2>1. purse = past[Len(past)] /\ Len(past) \in DOMAIN past /\ \A c \in DOMAIN purse : purse[c] \in Kept BY PastIs, LooksIs
  <2> QED BY <2>1 DEF ToolTypes, Kept
<1>3. \A d : Made(purse, 1 .. runs + 1, d) = Made(purse, 1 .. runs, d)
  <2> TAKE d
  <2>1. \A c \in DOMAIN purse : purse[c].run \in 1 .. runs + 1 <=> purse[c].run \in 1 .. runs BY <1>1, <1>2
  <2> QED BY <2>1 DEF Made
<1>4. \A d : Made(purse, {runs + 1}, d) = {}
  <2> TAKE d
  <2>1. \A c \in DOMAIN purse : purse[c].run # runs + 1 BY <1>1, <1>2
  <2> QED BY <2>1 DEF Made
<1>5. \A d : CountOf(Wanted, d) \in Nat BY WantedIs, PayableIs, PlanIs
<1>6. \A d : Cardinality(Made(purse, {runs + 1}, d)) = 0 BY <1>4, FS_EmptySet
<1> SUFFICES ASSUME NEW d \in Nat \ {0}
    PROVE  IF onlyDeficit THEN Cardinality(Made(purse, 1 .. runs + 1, d)) <= CountOf(Wanted, d)
           ELSE /\ \A r \in 1 .. runs + 1 : Cardinality(Made(purse, {r}, d)) <= CountOf(Wanted, d)
                /\ tool'.at # "idle" => Cardinality(Made(purse, {runs + 1}, d)) + CountOf(tool'.left, d) <= CountOf(Wanted, d)
  BY DEF MadeRight, MadeBy, Made
<1>7. IF onlyDeficit THEN Cardinality(Made(purse, 1 .. runs, d)) <= CountOf(Wanted, d)
      ELSE \A r \in 1 .. runs : Cardinality(Made(purse, {r}, d)) <= CountOf(Wanted, d)
  BY DEF MadeRight, MadeBy, Made
<1>8. CASE onlyDeficit BY <1>3, <1>7, <1>8
<1>9. CASE ~onlyDeficit
  <2>1. ASSUME NEW r \in 1 .. runs + 1 PROVE Cardinality(Made(purse, {r}, d)) <= CountOf(Wanted, d)
    <3>1. r \in 1 .. runs \/ r = runs + 1 BY <1>1
    <3>2. CASE r \in 1 .. runs BY <3>2, <1>7, <1>9
    <3>3. CASE r = runs + 1 BY <3>3, <1>5, <1>6
    <3> QED BY <3>1, <3>2, <3>3
  <2>2. tool'.at # "idle" => Cardinality(Made(purse, {runs + 1}, d)) + CountOf(tool'.left, d) <= CountOf(Wanted, d) BY <1>5, <1>6
  <2> QED BY <1>9, <2>1, <2>2
<1> QED BY <1>8, <1>9

\* Where the ledger stays or loses a holding and no chunk ends, nothing is made.
LEMMA LessMade ==
  ASSUME ToolTypes, MadeRight, UNCHANGED <<onlyDeficit, runs>>,
         \/ UNCHANGED purse
         \/ Moved /\ DOMAIN purse' \subseteq DOMAIN purse,
         tool'.at # "idle" => tool.at # "idle" /\ tool'.left = tool.left
  PROVE  MadeRight'
<1>1. \A S, d : Cardinality(Made(purse, S, d)) \in Nat BY MadeIs
<1>2. \A S, d : Cardinality(Made(purse', S, d)) \in Nat /\ Cardinality(Made(purse', S, d)) <= Cardinality(Made(purse, S, d))
  <2>1. CASE UNCHANGED purse BY <2>1, <1>1
  <2>2. CASE Moved /\ DOMAIN purse' \subseteq DOMAIN purse
    <3> TAKE S, d
    <3>1. \A c \in Made(purse', S, d) : c \in DOMAIN purse BY <2>2 DEF Made
    <3> QED BY <2>2, <3>1, MadeLess
  <2> QED BY <2>1, <2>2
<1>3. \A d : CountOf(Wanted, d) \in Nat BY WantedIs, PayableIs, PlanIs
<1>4. \A d : CountOf(tool.left, d) \in Nat
  <2>1. tool.left \in Payable BY DEF ToolTypes, ToolStates
  <2> QED BY <2>1, PayableIs, PlanIs
<1> SUFFICES ASSUME NEW d \in Nat \ {0}
    PROVE  IF onlyDeficit THEN Cardinality(Made(purse', 1 .. runs, d)) <= CountOf(Wanted, d)
           ELSE /\ \A r \in 1 .. runs : Cardinality(Made(purse', {r}, d)) <= CountOf(Wanted, d)
                /\ tool'.at # "idle" => Cardinality(Made(purse', {runs}, d)) + CountOf(tool'.left, d) <= CountOf(Wanted, d)
  BY DEF MadeRight, MadeBy, Made
<1>5. IF onlyDeficit THEN Cardinality(Made(purse, 1 .. runs, d)) <= CountOf(Wanted, d)
      ELSE /\ \A r \in 1 .. runs : Cardinality(Made(purse, {r}, d)) <= CountOf(Wanted, d)
           /\ tool.at # "idle" => Cardinality(Made(purse, {runs}, d)) + CountOf(tool.left, d) <= CountOf(Wanted, d)
  BY DEF MadeRight, MadeBy, Made
<1>6. CASE onlyDeficit
  <2>1. Cardinality(Made(purse', 1 .. runs, d)) <= CountOf(Wanted, d)
    <3> DEFINE a == Cardinality(Made(purse', 1 .. runs, d))
               b == Cardinality(Made(purse, 1 .. runs, d))
               w == CountOf(Wanted, d)
    <3>1. a \in Nat /\ b \in Nat /\ w \in Nat /\ a <= b /\ b <= w BY <1>1, <1>2, <1>3, <1>5, <1>6
    <3> HIDE DEF a, b, w
    <3>2. a <= w BY <3>1
    <3> QED BY <3>2 DEF a, w
  <2> QED BY <1>6, <2>1
<1>7. CASE ~onlyDeficit
  <2>1. ASSUME NEW r \in 1 .. runs PROVE Cardinality(Made(purse', {r}, d)) <= CountOf(Wanted, d)
    <3> DEFINE a == Cardinality(Made(purse', {r}, d))
               b == Cardinality(Made(purse, {r}, d))
               w == CountOf(Wanted, d)
    <3>1. a \in Nat /\ b \in Nat /\ w \in Nat /\ a <= b /\ b <= w BY <1>1, <1>2, <1>3, <1>5, <1>7
    <3> HIDE DEF a, b, w
    <3>2. a <= w BY <3>1
    <3> QED BY <3>2 DEF a, w
  <2>2. ASSUME tool'.at # "idle" PROVE Cardinality(Made(purse', {runs}, d)) + CountOf(tool'.left, d) <= CountOf(Wanted, d)
    <3> DEFINE a == Cardinality(Made(purse', {runs}, d))
               b == Cardinality(Made(purse, {runs}, d))
               l == CountOf(tool.left, d)
               w == CountOf(Wanted, d)
    <3>1. a \in Nat /\ b \in Nat /\ w \in Nat /\ l \in Nat /\ a <= b /\ b + l <= w BY <1>1, <1>2, <1>3, <1>4, <1>5, <1>7, <2>2
    <3>2. CountOf(tool'.left, d) = l BY <2>2
    <3> HIDE DEF a, b, l, w
    <3>3. a + l <= w BY <3>1
    <3> QED BY <3>2, <3>3 DEF a, w
  <2> QED BY <1>7, <2>1, <2>2
<1> QED BY <1>6, <1>7

\* A chunk that commits: a setup's from a look that showed all there is, a split's off
\* what it had left.
LEMMA ChunkMade ==
  ASSUME ToolTypes, MadeRight, ChunkRight, tool.at = "submit", SpentFor(tool.inputs, tool.chunk),
         DOMAIN purse \subseteq DOMAIN past[tool.view], UNCHANGED <<onlyDeficit, runs>>,
         tool'.at # "idle" /\ ~onlyDeficit =>
           \A d \in Nat \ {0} : CountOf(tool'.left, d) = CountOf(tool.left, d) - CountOf(tool.chunk, d)
  PROVE  MadeRight'
<1>1. tool.left \in Payable /\ tool.chunk \in Payable /\ tool.view \in DOMAIN past /\ runs \in Nat /\ runs > 0
  BY DEF ToolTypes, ToolStates
<1>2. \A d : CountOf(Wanted, d) \in Nat /\ CountOf(tool.left, d) \in Nat /\ CountOf(tool.chunk, d) \in Nat
  BY <1>1, WantedIs, PayableIs, PlanIs
<1>3. \A S, d : Cardinality(Made(purse, S, d)) \in Nat BY MadeIs
<1> SUFFICES ASSUME NEW d \in Nat \ {0}
    PROVE  IF onlyDeficit THEN Cardinality(Made(purse', 1 .. runs, d)) <= CountOf(Wanted, d)
           ELSE /\ \A r \in 1 .. runs : Cardinality(Made(purse', {r}, d)) <= CountOf(Wanted, d)
                /\ tool'.at # "idle" => Cardinality(Made(purse', {runs}, d)) + CountOf(tool'.left, d) <= CountOf(Wanted, d)
  BY DEF MadeRight, MadeBy, Made
<1>4. IF onlyDeficit THEN Cardinality(Made(purse, 1 .. runs, d)) <= CountOf(Wanted, d)
      ELSE /\ \A r \in 1 .. runs : Cardinality(Made(purse, {r}, d)) <= CountOf(Wanted, d)
           /\ Cardinality(Made(purse, {runs}, d)) + CountOf(tool.left, d) <= CountOf(Wanted, d)
  BY DEF MadeRight, MadeBy, Made
<1> DEFINE w == CountOf(Wanted, d)
           k == CountOf(tool.chunk, d)
           l == CountOf(tool.left, d)
<1>5. w \in Nat /\ k \in Nat /\ l \in Nat BY <1>2
<1>6. CASE onlyDeficit
  <2> DEFINE S == 1 .. runs
             a == Cardinality(Made(purse', S, d))
             b == Cardinality(Made(purse, S, d))
             s == SeenOf(past[tool.view], d)
  <2>1. 0 \notin S OBVIOUS
  <2> HIDE DEF S
  <2>2. a \in Nat /\ a <= b + k BY <1>1, <2>1, MadeMore
  <2>3. b \in Nat /\ s \in Nat /\ b <= s BY <1>1, <1>3, SetupSees
  <2>4. k = 0 \/ k + s <= w BY <1>6 DEF ChunkRight
  <2>5. b <= w BY <1>4, <1>6 DEF S
  <2> HIDE DEF a, b, s, w, k
  <2>6. a <= w BY <1>5, <2>2, <2>3, <2>4, <2>5
  <2> QED BY <1>6, <2>6 DEF a, w, S
<1>7. CASE ~onlyDeficit
  <2>1. k <= l BY <1>7 DEF ChunkRight
  <2>2. ASSUME NEW r \in 1 .. runs
        PROVE  /\ Cardinality(Made(purse', {r}, d)) \in Nat
               /\ Cardinality(Made(purse', {r}, d)) <= Cardinality(Made(purse, {r}, d)) + k
               /\ r # runs => Cardinality(Made(purse', {r}, d)) <= Cardinality(Made(purse, {r}, d))
    <3>1. 0 \notin {r} /\ (r # runs => runs \notin {r}) OBVIOUS
    <3> QED BY <1>1, <3>1, MadeMore
  <2> DEFINE m == Cardinality(Made(purse, {runs}, d))
             n == Cardinality(Made(purse', {runs}, d))
  <2>3. runs \in 1 .. runs BY <1>1
  <2>4. m \in Nat /\ n \in Nat /\ n <= m + k /\ m + l <= w BY <1>3, <1>4, <1>7, <2>2, <2>3
  <2>5. ASSUME NEW r \in 1 .. runs PROVE Cardinality(Made(purse', {r}, d)) <= w
    <3>1. CASE r = runs
      <4>1. Cardinality(Made(purse', {r}, d)) = n BY <3>1
      <4> HIDE DEF m, n, k, l, w
      <4> QED BY <4>1, <2>1, <2>4, <1>5
    <3>2. CASE r # runs
      <4> DEFINE a == Cardinality(Made(purse', {r}, d))
                 b == Cardinality(Made(purse, {r}, d))
      <4>1. a \in Nat /\ b \in Nat /\ a <= b /\ b <= w BY <3>2, <1>3, <1>4, <1>7, <2>2
      <4> HIDE DEF a, b, w
      <4> QED BY <4>1, <1>5 DEF a
    <3> QED BY <3>1, <3>2
  <2>6. ASSUME tool'.at # "idle" PROVE n + CountOf(tool'.left, d) <= w
    <3>1. CountOf(tool'.left, d) = l - k BY <1>7, <2>6
    <3> HIDE DEF m, n, k, l, w
    <3> QED BY <3>1, <2>1, <2>4, <1>5
  <2> QED BY <1>7, <2>5, <2>6
<1> QED BY <1>6, <1>7

-----------------------------------------------------------------------------
(* The split commands make no more than was asked for                         *)

\* The split commands start right.
LEMMA ToolInitInv == ToolInit => ToolInv
<1> SUFFICES ASSUME ToolInit PROVE ToolInv OBVIOUS
<1>1. PICK p \in Purses : purse = [c \in DOMAIN p |-> [amount |-> p[c], run |-> 0]] BY DEF ToolInit
<1>2. /\ onlyDeficit \in BOOLEAN /\ past = <<purse>> /\ tool = NoTool /\ runs = 0 /\ elsewhere = FALSE BY DEF ToolInit
<1>3. p \in Seq(Nat) BY ToolAssumption
<1>4. Len(p) \in Nat /\ DOMAIN p = 1 .. Len(p) /\ \A c \in DOMAIN p : p[c] \in Nat BY <1>3
<1>5. DOMAIN purse = 1 .. Len(p) /\ \A c \in DOMAIN purse : purse[c] = [amount |-> p[c], run |-> 0] BY <1>1, <1>4
<1>6. purse \in Looks
  <2>1. purse = [c \in DOMAIN purse |-> purse[c]] BY <1>1
  <2>2. DOMAIN purse \subseteq Nat BY <1>4, <1>5
  <2>3. \A c \in DOMAIN purse : purse[c] \in Kept BY <1>4, <1>5 DEF Kept
  <2> QED BY <2>1, <2>2, <2>3, LooksIs
<1>7. past \in Seq(Looks) /\ past # << >> /\ Len(past) = 1 /\ past[1] = purse /\ DOMAIN past = {1} BY <1>2, <1>6
<1>8. ToolTypes
  <2>1. \E b \in Nat : \A v \in DOMAIN past : DOMAIN past[v] \subseteq 1 .. b BY <1>4, <1>5, <1>7
  <2>2. \A v \in DOMAIN past : \A c \in DOMAIN past[v] : past[v][c].run <= runs
    <3>1. \A c \in DOMAIN purse : purse[c].run = 0 BY <1>5
    <3> QED BY <3>1, <1>2, <1>7
  <2>3. \A u, v \in DOMAIN past : \A c \in DOMAIN past[u] \cap DOMAIN past[v] : past[u][c] = past[v][c] BY <1>7
  <2> QED BY <2>1, <2>2, <2>3, <1>2, <1>7, NoToolIs DEF ToolTypes
<1>9. OneSplits BY <1>7 DEF OneSplits
<1>10. StaysSeen BY <1>7 DEF StaysSeen
<1>11. ChunkRight /\ FreshLook BY <1>2, NoToolIs DEF ChunkRight, FreshLook
<1>12. MadeRight
  <2>1. \A d : CountOf(Wanted, d) \in Nat BY WantedIs, PayableIs, PlanIs
  <2>2. 1 .. runs = {} BY <1>2
  <2>3. \A d : MadeBy(1 .. runs, d) = 0
    <3> TAKE d
    <3>1. {c \in DOMAIN purse : purse[c].amount = d /\ purse[c].run \in 1 .. runs} = {} BY <2>2
    <3> QED BY <3>1, FS_EmptySet DEF MadeBy
  <2> QED BY <1>2, <2>1, <2>2, <2>3, NoToolIs DEF MadeRight
<1> QED BY <1>8, <1>9, <1>10, <1>11, <1>12 DEF ToolInv

\* Nothing but the command's own state moves where the ledger stays.
LEMMA QuietInv ==
  ASSUME ToolInv, UNCHANGED <<onlyDeficit, purse, past, elsewhere>>, ToolTypes', ChunkRight', MadeRight', FreshLook'
  PROVE  ToolInv'
<1>1. OneSplits' BY DEF ToolInv, OneSplits
<1>2. StaysSeen' BY DEF ToolInv, StaysSeen
<1> QED BY <1>1, <1>2 DEF ToolInv

\* A command that ends.
LEMMA IdleInv ==
  ASSUME ToolInv, UNCHANGED <<onlyDeficit, purse, past, runs, elsewhere>>, tool' \in ToolStates, tool'.at = "idle"
  PROVE  ToolInv'
<1>1. ToolTypes /\ MadeRight BY DEF ToolInv
<1>2. ToolTypes' BY <1>1, QuietTypes
<1>3. MadeRight' BY <1>1, LessMade
<1>4. ChunkRight' /\ FreshLook' BY DEF ChunkRight, FreshLook
<1> QED BY <1>2, <1>3, <1>4, QuietInv

\* The start of a command.
LEMMA StartsInv == ASSUME ToolInv, NEW v \in DOMAIN past, ToolStarts(v) PROVE ToolInv'
<1>1. ToolTypes /\ MadeRight BY DEF ToolInv
<1>2. /\ runs' = runs + 1 /\ UNCHANGED <<onlyDeficit, isCc, purse, past, elsewhere>> /\ tool' \in ToolStates
      /\ tool'.at = "idle" \/ (tool'.at = "plan" /\ tool'.view = v /\ tool'.left = Wanted /\ tool'.committed = 0)
  BY <1>1, StartsTo
<1>3. runs \in Nat BY <1>1 DEF ToolTypes
<1>4. ToolTypes'
  <2>1. tool'.at # "idle" => tool'.view \in DOMAIN past /\ runs' > 0 BY <1>2, <1>3
  <2> QED BY <1>1, <1>2, <2>1, QuietTypes
<1>5. MadeRight' BY <1>1, <1>2, StartsMade
<1>6. ChunkRight' BY <1>2 DEF ChunkRight
<1>7. FreshLook' BY <1>2 DEF FreshLook
<1> QED BY <1>2, <1>4, <1>5, <1>6, <1>7, QuietInv

\* The planning of a chunk.
LEMMA PlanInv == ASSUME ToolInv, PlanChunk PROVE ToolInv'
<1>1. ToolTypes /\ MadeRight /\ FreshLook BY DEF ToolInv
<1>2. /\ tool.at = "plan" /\ UNCHANGED <<onlyDeficit, isCc, purse, past, runs, elsewhere>> /\ tool' \in ToolStates /\ ChunkRight'
      /\ \/ tool'.at = "idle"
         \/ tool'.at = "submit" /\ tool'.view = tool.view /\ tool'.left = tool.left /\ tool'.committed = tool.committed
  BY <1>1, PlanTo
<1>3. ToolTypes'
  <2>1. tool'.at # "idle" => tool'.view \in DOMAIN past /\ runs > 0 BY <1>1, <1>2 DEF ToolTypes
  <2> QED BY <1>1, <1>2, <2>1, QuietTypes
<1>4. MadeRight'
  <2>1. tool'.at # "idle" => tool.at # "idle" /\ tool'.left = tool.left BY <1>2
  <2> QED BY <1>1, <1>2, <2>1, LessMade
<1>5. FreshLook' BY <1>1, <1>2 DEF FreshLook
<1> QED BY <1>2, <1>3, <1>4, <1>5, QuietInv

\* A new look.
LEMMA RefetchInv == ASSUME ToolInv, NEW v \in DOMAIN past, v >= tool.view, Refetch(v) PROVE ToolInv'
<1>1. ToolTypes /\ MadeRight /\ FreshLook BY DEF ToolInv
<1>2. /\ tool.at = "refetch" /\ UNCHANGED <<onlyDeficit, isCc, purse, past, runs, elsewhere>> /\ tool' \in ToolStates
      /\ tool'.at = "plan" /\ tool'.view = v /\ tool'.left = tool.left /\ tool.spent \cap DOMAIN past[v] = {}
  BY <1>1, RefetchTo
<1>3. ToolTypes'
  <2>1. tool'.at # "idle" => tool'.view \in DOMAIN past /\ runs > 0 BY <1>1, <1>2 DEF ToolTypes
  <2> QED BY <1>1, <1>2, <2>1, QuietTypes
<1>4. MadeRight'
  <2>1. tool'.at # "idle" => tool.at # "idle" /\ tool'.left = tool.left BY <1>2
  <2> QED BY <1>1, <1>2, <2>1, LessMade
<1>5. ~elsewhere => v = Len(past)
  <2>1. Len(past) \in Nat /\ DOMAIN past = 1 .. Len(past) BY <1>1, PastIs
  <2>2. ~elsewhere => ~(v < Len(past)) BY <1>1, <1>2 DEF FreshLook
  <2> QED BY <2>1, <2>2
<1>6. FreshLook' BY <1>2, <1>5 DEF FreshLook
<1>7. ChunkRight' BY <1>2 DEF ChunkRight
<1> QED BY <1>2, <1>3, <1>4, <1>6, <1>7, QuietInv

\* The ledger spends for the chunk.
LEMMA SpendsFor ==
  ASSUME ToolInv, tool.at = "submit", tool.inputs \subseteq DOMAIN purse, Spend(tool)
  PROVE  /\ SpentFor(tool.inputs, tool.chunk) /\ DOMAIN purse \subseteq DOMAIN past[tool.view] /\ OneSplits' /\ StaysSeen'
         /\ tool.inputs # {} /\ tool.inputs \subseteq DOMAIN past[tool.view] /\ tool.view \in DOMAIN past /\ runs > 0
<1>1. ToolTypes /\ OneSplits /\ StaysSeen /\ ChunkRight BY DEF ToolInv
<1>2. tool \in ToolStates /\ tool.view \in DOMAIN past /\ runs > 0 BY <1>1 DEF ToolTypes
<1>3. tool.inputs # {} /\ tool.inputs \subseteq DOMAIN past[tool.view] /\ \A c : IsTop(past[tool.view], c) => c \in tool.inputs
  BY <1>1 DEF ChunkRight
<1>4. /\ purse' \in Looks /\ past' = Append(past, purse')
      /\ \E b \in Nat : DOMAIN purse' \subseteq 1 .. b
      /\ \A c \in DOMAIN purse' : c \in DOMAIN purse => c \notin tool.inputs /\ purse'[c] = purse[c]
      /\ \A c \in DOMAIN purse' : c \notin DOMAIN purse => purse'[c].run \in {0, runs} /\ \A v \in DOMAIN past : c \notin DOMAIN past[v]
      /\ \A d : IsFiniteSet(FreshMade(d)) /\ Cardinality(FreshMade(d)) <= CountOf(tool.chunk, d)
  BY <1>1, <1>2, <1>3, SpendIs
<1>5. Moved BY <1>4 DEF Moved
<1>6. \A c \in DOMAIN purse' : c \notin tool.inputs BY <1>4
<1>7. SpentFor(tool.inputs, tool.chunk) BY <1>4, <1>5, <1>6 DEF SpentFor
<1>8. DOMAIN purse \subseteq DOMAIN past[tool.view] /\ OneSplits' BY <1>1, <1>2, <1>3, <1>7, SpentSplits
<1>9. StaysSeen' BY <1>1, <1>5, SeenKept
<1> QED BY <1>2, <1>3, <1>7, <1>8, <1>9

\* Every look since the one that a chunk was planned from shows what it spends.
LEMMA SpentFresh ==
  ASSUME ToolTypes, StaysSeen, Moved, tool.inputs # {}, tool.inputs \subseteq DOMAIN purse,
         tool.view \in DOMAIN past, tool.inputs \subseteq DOMAIN past[tool.view],
         tool'.at = "idle" \/ (tool'.at = "refetch" /\ tool'.view = tool.view /\ tool'.spent = tool.inputs)
  PROVE  FreshLook'
<1>1. /\ Len(past') = Len(past) + 1
      /\ DOMAIN past' = DOMAIN past \cup {Len(past')} /\ \A v \in DOMAIN past : past'[v] = past[v]
  BY NextLook DEF Moved
<1>2. Len(past) \in Nat /\ DOMAIN past = 1 .. Len(past) BY PastIs
<1>3. ASSUME tool'.at = "refetch", NEW u \in DOMAIN past', u >= tool'.view, u < Len(past')
      PROVE  tool'.spent \cap DOMAIN past'[u] # {}
  <2>1. u \in DOMAIN past /\ past'[u] = past[u] BY <1>1, <1>3
  <2>2. tool.view <= u /\ tool'.spent = tool.inputs BY <1>2, <1>3, <2>1
  <2>3. DOMAIN past[tool.view] \cap DOMAIN purse \subseteq DOMAIN past[u] BY <2>1, <2>2 DEF StaysSeen
  <2> QED BY <2>1, <2>2, <2>3
<1> QED BY <1>3 DEF FreshLook

\* A chunk that commits.
LEMMA CommitInv == ASSUME ToolInv, ChunkCommits PROVE ToolInv'
<1>1. ToolTypes /\ StaysSeen /\ ChunkRight /\ MadeRight BY DEF ToolInv
<1>2. /\ tool.at = "submit" /\ tool.inputs \subseteq DOMAIN purse /\ Spend(tool) /\ UNCHANGED <<onlyDeficit, isCc, runs, elsewhere>>
      /\ tool' \in ToolStates
      /\ \/ tool'.at = "idle"
         \/ /\ tool'.at = "refetch" /\ tool'.view = tool.view /\ tool'.spent = tool.inputs
            /\ ~onlyDeficit => \A d \in Nat \ {0} : CountOf(tool'.left, d) = CountOf(tool.left, d) - CountOf(tool.chunk, d)
  BY <1>1, CommitTo
<1>3. /\ SpentFor(tool.inputs, tool.chunk) /\ DOMAIN purse \subseteq DOMAIN past[tool.view] /\ OneSplits' /\ StaysSeen'
      /\ tool.inputs # {} /\ tool.inputs \subseteq DOMAIN past[tool.view] /\ tool.view \in DOMAIN past /\ runs > 0
  BY <1>2, SpendsFor
<1>4. Moved BY <1>3 DEF SpentFor
<1>5. ToolTypes'
  <2>1. elsewhere' \in BOOLEAN BY <1>1, <1>2 DEF ToolTypes
  <2>2. tool'.at # "idle" => tool'.view \in DOMAIN past /\ runs > 0 BY <1>2, <1>3
  <2> QED BY <1>1, <1>2, <1>4, <2>1, <2>2, MovedTypes
<1>6. MadeRight'
  <2>1. tool'.at # "idle" /\ ~onlyDeficit =>
          \A d \in Nat \ {0} : CountOf(tool'.left, d) = CountOf(tool.left, d) - CountOf(tool.chunk, d)
    BY <1>2
  <2> QED BY <1>1, <1>2, <1>3, <2>1, ChunkMade
<1>7. FreshLook'
  <2>1. tool'.at = "idle" \/ (tool'.at = "refetch" /\ tool'.view = tool.view /\ tool'.spent = tool.inputs) BY <1>2
  <2> QED BY <1>1, <1>2, <1>3, <1>4, <2>1, SpentFresh
<1>8. ChunkRight' BY <1>2 DEF ChunkRight
<1> QED BY <1>3, <1>5, <1>6, <1>7, <1>8 DEF ToolInv

\* A chunk that commits without the command learning it.
LEMMA UntoldInv == ASSUME ToolInv, ChunkUntold PROVE ToolInv'
<1>1. ToolTypes /\ StaysSeen /\ ChunkRight /\ MadeRight BY DEF ToolInv
<1>2. /\ tool.at = "submit" /\ tool.inputs \subseteq DOMAIN purse /\ Spend(tool) /\ UNCHANGED <<onlyDeficit, isCc, runs, elsewhere>>
      /\ tool' \in ToolStates /\ tool'.at = "idle"
  BY NoToolIs DEF ChunkUntold
<1>3. /\ SpentFor(tool.inputs, tool.chunk) /\ DOMAIN purse \subseteq DOMAIN past[tool.view] /\ OneSplits' /\ StaysSeen'
  BY <1>2, SpendsFor
<1>4. Moved BY <1>3 DEF SpentFor
<1>5. ToolTypes'
  <2>1. elsewhere' \in BOOLEAN BY <1>1, <1>2 DEF ToolTypes
  <2>2. tool'.at # "idle" => tool'.view \in DOMAIN past /\ runs > 0 BY <1>2
  <2> QED BY <1>1, <1>2, <1>4, <2>1, <2>2, MovedTypes
<1>6. MadeRight'
  <2>1. tool'.at # "idle" /\ ~onlyDeficit =>
          \A d \in Nat \ {0} : CountOf(tool'.left, d) = CountOf(tool.left, d) - CountOf(tool.chunk, d)
    BY <1>2
  <2> QED BY <1>1, <1>2, <1>3, <2>1, ChunkMade
<1>7. FreshLook' /\ ChunkRight' BY <1>2 DEF FreshLook, ChunkRight
<1> QED BY <1>3, <1>5, <1>6, <1>7 DEF ToolInv

\* Another process spends a holding.
LEMMA ElsewhereInv == ASSUME ToolInv, NEW c \in DOMAIN purse, SpentElsewhere(c) PROVE ToolInv'
<1>1. ToolTypes /\ OneSplits /\ StaysSeen /\ ChunkRight /\ MadeRight BY DEF ToolInv
<1>2. /\ elsewhere' = TRUE /\ purse' = [o \in DOMAIN purse \ {c} |-> purse[o]] /\ past' = Append(past, purse')
      /\ UNCHANGED <<onlyDeficit, isCc, tool, runs>>
  BY DEF SpentElsewhere
<1>3. DOMAIN purse' = DOMAIN purse \ {c} /\ \A o \in DOMAIN purse' : purse'[o] = purse[o] BY <1>2
<1>4. Moved
  <2>1. DOMAIN purse \subseteq Nat /\ \A o \in DOMAIN purse : purse[o] \in Kept BY <1>1, PastIs, LooksIs
  <2>2. purse' \in Looks
    <3>1. purse' = [o \in DOMAIN purse' |-> purse'[o]] BY <1>2
    <3>2. DOMAIN purse' \subseteq Nat /\ \A o \in DOMAIN purse' : purse'[o] \in Kept BY <1>3, <2>1
    <3>3. \A p : p = [o \in DOMAIN p |-> p[o]] /\ DOMAIN p \subseteq Nat /\ (\A o \in DOMAIN p : p[o] \in Kept) => p \in Looks BY LooksIs
    <3> QED BY <3>1, <3>2, <3>3
  <2>3. \E b \in Nat : DOMAIN purse' \subseteq 1 .. b
    <3>1. Len(past) \in DOMAIN past /\ purse = past[Len(past)] BY <1>1, PastIs
    <3>2. \E b \in Nat : DOMAIN purse \subseteq 1 .. b BY <1>1, <3>1 DEF ToolTypes
    <3> QED BY <3>2, <1>3
  <2> QED BY <1>2, <1>3, <2>2, <2>3 DEF Moved
<1>5. DOMAIN purse' \subseteq DOMAIN purse BY <1>3
<1>6. ToolTypes'
  <2>1. elsewhere' \in BOOLEAN BY <1>2
  <2>2. tool' \in ToolStates /\ (tool'.at # "idle" => tool'.view \in DOMAIN past /\ runs > 0) BY <1>1, <1>2 DEF ToolTypes
  <2> QED BY <1>1, <1>2, <1>4, <2>1, <2>2, MovedTypes
<1>7. OneSplits' BY <1>1, <1>4, <1>5, GoneSplits
<1>8. StaysSeen' BY <1>1, <1>4, SeenKept
<1>9. MadeRight'
  <2>1. tool'.at # "idle" => tool.at # "idle" /\ tool'.left = tool.left BY <1>2
  <2> QED BY <1>1, <1>2, <1>4, <1>5, <2>1, LessMade
<1>10. FreshLook' BY <1>2 DEF FreshLook
<1>11. ChunkRight'
  <2>1. \A v \in DOMAIN past : past'[v] = past[v] BY <1>1, <1>4, NextLook DEF Moved
  <2>2. tool.at = "submit" => past'[tool.view] = past[tool.view] BY <1>1, <2>1 DEF ToolTypes
  <2> QED BY <1>1, <1>2, <2>2 DEF ChunkRight
<1> QED BY <1>6, <1>7, <1>8, <1>9, <1>10, <1>11 DEF ToolInv

\* Every step keeps the invariant.
LEMMA ToolStepInv == ToolInv /\ [ToolNext]_toolVars => ToolInv'
<1> SUFFICES ASSUME ToolInv, [ToolNext]_toolVars PROVE ToolInv' OBVIOUS
<1>1. CASE \E v \in DOMAIN past : ToolStarts(v) BY <1>1, StartsInv
<1>2. CASE \E v \in DOMAIN past : v >= tool.view /\ Refetch(v) BY <1>2, RefetchInv
<1>3. CASE PlanChunk BY <1>3, PlanInv
<1>4. CASE ChunkCommits BY <1>4, CommitInv
<1>5. CASE ChunkUntold BY <1>5, UntoldInv
<1>6. CASE ChunkFails \/ RefetchStale
  <2>1. tool' = NoTool /\ UNCHANGED <<onlyDeficit, isCc, purse, past, runs, elsewhere>> BY <1>6 DEF ChunkFails, RefetchStale, Stop
  <2>2. tool' \in ToolStates /\ tool'.at = "idle" BY <2>1, NoToolIs
  <2> QED BY <2>1, <2>2, IdleInv
<1>7. CASE \E c \in DOMAIN purse : SpentElsewhere(c) BY <1>7, ElsewhereInv
<1>8. CASE UNCHANGED toolVars
  <2>1. UNCHANGED <<onlyDeficit, isCc, purse, past, tool, runs, elsewhere>> BY <1>8 DEF toolVars
  <2>2. ToolTypes /\ ChunkRight /\ MadeRight /\ FreshLook BY DEF ToolInv
  <2>3. ToolTypes' BY <2>1, <2>2 DEF ToolTypes
  <2>4. ChunkRight' BY <2>1, <2>2 DEF ChunkRight
  <2>5. MadeRight' BY <2>1, <2>2, LessMade
  <2>6. FreshLook' BY <2>1, <2>2 DEF FreshLook
  <2> QED BY <2>1, <2>3, <2>4, <2>5, <2>6, QuietInv
<1> QED BY <1>1, <1>2, <1>3, <1>4, <1>5, <1>6, <1>7, <1>8 DEF ToolNext

\* And it is what is to show.
LEMMA ToolInvMeans == ToolInv => ToolSplitsRight
<1> SUFFICES ASSUME ToolInv PROVE ToolSplitsRight OBVIOUS
<1>1. ToolTypes /\ ChunkRight /\ MadeRight /\ FreshLook BY DEF ToolInv
<1>2. \A i \in DOMAIN Wanted :
        LET d == Wanted[i][1]
        IN  IF onlyDeficit THEN MadeBy(1 .. runs, d) <= CountOf(Wanted, d)
            ELSE \A r \in 1 .. runs : MadeBy({r}, d) <= CountOf(Wanted, d)
  <2> TAKE i \in DOMAIN Wanted
  <2> DEFINE d == Wanted[i][1]
  <2>1. d \in Nat \ {0} BY WantedIs
  <2> HIDE DEF d
  <2>2. IF onlyDeficit THEN MadeBy(1 .. runs, d) <= CountOf(Wanted, d)
        ELSE \A r \in 1 .. runs : MadeBy({r}, d) <= CountOf(Wanted, d)
    BY <1>1, <2>1 DEF MadeRight
  <2> QED BY <2>2 DEF d
<1>3. tool.at = "submit" /\ ~elsewhere /\ tool.committed > 0 => tool.inputs \subseteq DOMAIN purse
  <2> SUFFICES ASSUME tool.at = "submit", ~elsewhere, tool.committed > 0 PROVE tool.inputs \subseteq DOMAIN purse OBVIOUS
  <2>1. tool.view = Len(past) BY <1>1 DEF FreshLook
  <2>2. tool.inputs \subseteq DOMAIN past[tool.view] BY <1>1 DEF ChunkRight
  <2>3. past[Len(past)] = purse BY <1>1, PastIs
  <2> QED BY <2>1, <2>2, <2>3
<1> QED BY <1>2, <1>3 DEF ToolSplitsRight

\* However late the looks, whatever fails and whoever else spends: setups together and each
\* split make no more of a rung than was asked for, and an undisturbed command submits
\* nothing on a holding that is gone.
THEOREM ToolSplitsRightHolds == ToolSpec => []ToolSplitsRight
<1>1. ToolInit => ToolInv BY ToolInitInv
<1>2. ToolInv /\ [ToolNext]_toolVars => ToolInv' BY ToolStepInv
<1>3. ToolInv => ToolSplitsRight BY ToolInvMeans
<1> QED BY <1>1, <1>2, <1>3, PTL DEF ToolSpec

=============================================================================
