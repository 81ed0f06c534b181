----------------------------- MODULE DataLemmas -----------------------------
(***************************************************************************)
(* Lemmas about the data of the models: induction over numbers and finite  *)
(* sets, the functions a fold iterates, sums, flattened sequences.  A      *)
(* property to prove by induction is given as the set of the values that   *)
(* have it.                                                                *)
(***************************************************************************)
EXTENDS Integers, Sequences, SequencesExt, FiniteSetsExt, FiniteSetTheorems, TLAPS

\* A nonempty set of naturals has a least element.
LEMMA Least ==
  ASSUME NEW T \in SUBSET Nat, T # {}
  PROVE  \E m \in T : \A n \in T : m <= n
<1> DEFINE R == {ss \in Nat \X Nat : ss[1] < ss[2]}
<1>1. IsWellFoundedOn(R, Nat)
  BY NatLessThanWellFounded DEF OpToRel
<1>2. R = {ss \in Nat \X Nat : ss[1] < ss[2]}
  OBVIOUS
<1> HIDE DEF R
<1>3. PICK m \in T : \A n \in T : ~(<<n, m>> \in R)
  BY <1>1, WFMin
<1>4. \A n \in T : ~(n < m)
  BY <1>2, <1>3
<1>5. QED
  BY <1>4

\* Induction over the naturals.
LEMMA Induction ==
  ASSUME NEW S, 0 \in S, \A n \in Nat : n \in S => n + 1 \in S
  PROVE  Nat \subseteq S
<1>1. SUFFICES ASSUME Nat \ S # {} PROVE FALSE
  OBVIOUS
<1>2. PICK m \in Nat \ S : \A n \in Nat \ S : m <= n
  BY <1>1, Least
<1>3. m # 0 /\ m - 1 \in Nat
  BY <1>2
<1>4. QED
  BY <1>2, <1>3

\* Induction over the subsets of a finite set, from all smaller ones ...
LEMMA StrongSetInduction ==
  ASSUME NEW S, IsFiniteSet(S), NEW C,
         \A T \in SUBSET S : (\A U \in SUBSET T : U # T => U \in C) => T \in C
  PROVE  SUBSET S \subseteq C
<1> DEFINE N == {Cardinality(T) : T \in (SUBSET S) \ C}
<1>1. \A T \in SUBSET S : IsFiniteSet(T) /\ Cardinality(T) \in Nat
  BY FS_Subset, FS_CardinalityType
<1>2. SUFFICES ASSUME (SUBSET S) \ C # {} PROVE FALSE
  OBVIOUS
<1>3. N \in SUBSET Nat /\ N # {}
  BY <1>1, <1>2
<1>4. PICK m \in N : \A n \in N : m <= n
  <2> HIDE DEF N
  <2>1. QED
    BY <1>3, Least
<1>5. PICK T \in (SUBSET S) \ C : m = Cardinality(T)
  BY <1>4
<1>6. ASSUME NEW U \in SUBSET T, U # T PROVE U \in C
  <2>1. Cardinality(U) <= Cardinality(T) /\ Cardinality(T) # Cardinality(U)
    BY <1>1, <1>6, FS_Subset
  <2>2. CASE U \notin C
    <3>1. Cardinality(U) \in N /\ Cardinality(U) \in Nat
      BY <1>1, <2>2
    <3>2. QED
      <4> HIDE DEF N
      <4>1. m <= Cardinality(U) /\ m \in Nat
        BY <1>3, <1>4, <3>1
      <4>2. QED
        BY <1>1, <1>5, <2>1, <3>1, <4>1
  <2>3. QED
    BY <2>2
<1>7. QED
  BY <1>5, <1>6

\* ... and by adding an element.
LEMMA SetInduction ==
  ASSUME NEW S, IsFiniteSet(S), NEW C, {} \in C,
         \A T \in SUBSET S : \A x \in S \ T : T \in C => T \cup {x} \in C
  PROVE  SUBSET S \subseteq C
<1>1. ASSUME NEW T \in SUBSET S, \A U \in SUBSET T : U # T => U \in C
      PROVE  T \in C
  <2>1. CASE T = {}
    BY <2>1
  <2>2. CASE T # {}
    <3>1. PICK x : x \in T
      BY <2>2
    <3>2. T \ {x} \in C /\ T \ {x} \in SUBSET S /\ x \in S \ (T \ {x})
      BY <1>1, <3>1
    <3>3. (T \ {x}) \cup {x} \in C /\ T = (T \ {x}) \cup {x}
      BY <3>1, <3>2
    <3>4. QED
      BY <3>3
  <2>3. QED
    BY <2>1, <2>2
<1>2. QED
  BY <1>1, StrongSetInduction

----------------------------------------------------------------------------
(* The function a fold over a finite set S iterates: it removes the element  *)
(* c[s] of a set s, and op[s, v] is the next value.                          *)

IsIteration(h, S, c, op, base) ==
  h = [s \in SUBSET S |-> IF s = {} THEN base ELSE op[s, h[s \ {c[s]}]]]

LEMMA IterationExists ==
  ASSUME NEW S, IsFiniteSet(S), NEW V, NEW base \in V, NEW op \in [(SUBSET S) \X V -> V],
         NEW c, \A s \in SUBSET S : s # {} => c[s] \in s
  PROVE  \E h \in [SUBSET S -> V] : IsIteration(h, S, c, op, base)
<1> DEFINE Upto(n) == {s \in SUBSET S : Cardinality(s) <= n}
           Good(h, n) == \A s \in Upto(n) : h[s] = IF s = {} THEN base ELSE op[s, h[s \ {c[s]}]]
           N == {n \in Nat : \E h \in [SUBSET S -> V] : Good(h, n)}
<1>1. \A s \in SUBSET S : IsFiniteSet(s) /\ Cardinality(s) \in Nat
  BY FS_Subset, FS_CardinalityType
<1>2. 0 \in N
  <2> DEFINE h == [s \in SUBSET S |-> base]
  <2>1. \A s \in Upto(0) : s = {}
    BY <1>1, FS_EmptySet
  <2>2. h \in [SUBSET S -> V] /\ Good(h, 0)
    BY <2>1
  <2>3. QED
    BY <2>2
<1>3. ASSUME NEW n \in Nat, n \in N PROVE n + 1 \in N
  <2>1. PICK h \in [SUBSET S -> V] : Good(h, n)
    BY <1>3
  <2> DEFINE g == [s \in SUBSET S |->
                     IF Cardinality(s) <= n \/ s = {} THEN h[s] ELSE op[s, h[s \ {c[s]}]]]
  <2>2. g \in [SUBSET S -> V]
    OBVIOUS
  <2>3. \A s \in Upto(n) : g[s] = h[s]
    OBVIOUS
  <2>4. ASSUME NEW s \in Upto(n + 1), s # {}
        PROVE  s \ {c[s]} \in Upto(n)
    <3>1. Cardinality(s \ {c[s]}) = Cardinality(s) - 1
      BY <1>1, <2>4, FS_RemoveElement
    <3>2. QED
      BY <1>1, <2>4, <3>1
  <2>5. ASSUME NEW s \in Upto(n + 1)
        PROVE  g[s] = IF s = {} THEN base ELSE op[s, g[s \ {c[s]}]]
    <3>1. CASE s = {}
      <4>1. s \in Upto(n)
        BY <3>1, FS_EmptySet
      <4>2. QED
        BY <2>1, <2>3, <3>1, <4>1
    <3>2. CASE s # {}
      <4>1. g[s \ {c[s]}] = h[s \ {c[s]}]
        BY <2>3, <2>4, <3>2
      <4>2. CASE s \in Upto(n)
        BY <2>1, <2>3, <3>2, <4>1, <4>2
      <4>3. CASE s \notin Upto(n)
        BY <3>2, <4>1, <4>3
      <4>4. QED
        BY <4>2, <4>3
    <3>3. QED
      BY <3>1, <3>2
  <2>6. Good(g, n + 1)
    BY <2>5
  <2> HIDE DEF g, Good, Upto
  <2>7. QED
    BY <2>2, <2>6
<1>4. Cardinality(S) \in N
  <2> HIDE DEF N
  <2>1. Nat \subseteq N
    BY <1>2, <1>3, Induction
  <2>2. QED
    BY <1>1, <2>1
<1>5. PICK h \in [SUBSET S -> V] : Good(h, Cardinality(S))
  BY <1>4
<1>6. \A s \in SUBSET S : s \in Upto(Cardinality(S))
  BY FS_Subset
<1>7. \A s \in SUBSET S : h[s] = IF s = {} THEN base ELSE op[s, h[s \ {c[s]}]]
  BY <1>5, <1>6
<1>8. h = [s \in SUBSET S |-> IF s = {} THEN base ELSE op[s, h[s \ {c[s]}]]]
  BY <1>7
<1>9. QED
  BY <1>8 DEF IsIteration
----------------------------------------------------------------------------
(* Sums over finite sets of integers (SumFunctionOnSet of Functions).        *)

Chosen(s) == CHOOSE x \in s : TRUE

IsSum(h, f, S) ==
  h = [s \in SUBSET S |-> IF s = {} THEN 0 ELSE f[Chosen(s)] + h[s \ {Chosen(s)}]]

LEMMA ChosenIn ==
  ASSUME NEW s, s # {}
  PROVE  Chosen(s) \in s
BY DEF Chosen

LEMMA SumDefinition ==
  ASSUME NEW f, NEW S
  PROVE  SumFunctionOnSet(f, S) = (CHOOSE h : IsSum(h, f, S))[S]
BY DEF SumFunctionOnSet, FoldFunctionOnSet, MapThenFoldSet, IsSum, Chosen

LEMMA SumExists ==
  ASSUME NEW S, IsFiniteSet(S), NEW f, \A x \in S : f[x] \in Int
  PROVE  \E h \in [SUBSET S -> Int] : IsSum(h, f, S)
<1> DEFINE c  == [s \in SUBSET S |-> Chosen(s)]
           op == [p \in (SUBSET S) \X Int |-> IF p[1] = {} THEN 0 ELSE f[c[p[1]]] + p[2]]
<1>1. \A s \in SUBSET S : s # {} => c[s] \in s
  BY ChosenIn
<1>2. op \in [(SUBSET S) \X Int -> Int]
  <2>1. \A s \in SUBSET S : s # {} => f[c[s]] \in Int
    BY <1>1
  <2> HIDE DEF c
  <2>2. QED
    BY <2>1
<1>3. PICK h \in [SUBSET S -> Int] : IsIteration(h, S, c, op, 0)
  <2>1. 0 \in Int
    OBVIOUS
  <2> HIDE DEF c, op
  <2>2. QED
    BY <1>1, <1>2, <2>1, IterationExists, ZenonT(30)
<1>4. ASSUME NEW s \in SUBSET S
      PROVE  h[s] = IF s = {} THEN 0 ELSE f[Chosen(s)] + h[s \ {Chosen(s)}]
  <2>1. h[s] = IF s = {} THEN 0 ELSE op[s, h[s \ {c[s]}]]
    <3> HIDE DEF c, op
    <3>1. QED
      BY <1>3 DEF IsIteration
  <2>2. s # {} => op[s, h[s \ {c[s]}]] = f[c[s]] + h[s \ {c[s]}]
    <3> HIDE DEF c
    <3>1. s \ {c[s]} \in SUBSET S /\ h[s \ {c[s]}] \in Int
      OBVIOUS
    <3>2. QED
      BY <3>1
  <2>3. QED
    BY <2>1, <2>2
<1>5. IsSum(h, f, S)
  BY <1>4 DEF IsSum
<1>6. QED
  BY <1>5

\* The partial sums of a set and those of a subset agree.
LEMMA SumsAgree ==
  ASSUME NEW S, IsFiniteSet(S), NEW T \in SUBSET S, NEW f, NEW g, NEW h,
         IsSum(h, f, S), IsSum(g, f, T)
  PROVE  \A s \in SUBSET T : h[s] = g[s]
<1> DEFINE C == {s \in SUBSET T : h[s] = g[s]}
<1>1. ASSUME NEW s \in SUBSET T, \A u \in SUBSET s : u # s => u \in C
      PROVE  s \in C
  <2>1. h[s] = (IF s = {} THEN 0 ELSE f[Chosen(s)] + h[s \ {Chosen(s)}]) /\ s \in SUBSET S
    BY DEF IsSum
  <2>2. g[s] = IF s = {} THEN 0 ELSE f[Chosen(s)] + g[s \ {Chosen(s)}]
    BY DEF IsSum
  <2>3. CASE s # {}
    <3>1. s \ {Chosen(s)} \in SUBSET s /\ s \ {Chosen(s)} # s
      BY <2>3, ChosenIn
    <3>2. QED
      BY <1>1, <2>1, <2>2, <3>1
  <2>4. QED
    BY <2>1, <2>2, <2>3
<1>2. IsFiniteSet(T)
  BY FS_Subset
<1>3. SUBSET T \subseteq C
  <2> HIDE DEF C
  <2>1. QED
    BY <1>1, <1>2, StrongSetInduction
<1>4. QED
  BY <1>3

\* The sums over a set and over what is left of it without its chosen element.
LEMMA SumStep ==
  ASSUME NEW S, IsFiniteSet(S), NEW f, \A x \in S : f[x] \in Int
  PROVE  /\ SumFunctionOnSet(f, {}) = 0
         /\ \A T \in SUBSET S :
              /\ SumFunctionOnSet(f, T) \in Int
              /\ T # {} => SumFunctionOnSet(f, T) =
                             f[Chosen(T)] + SumFunctionOnSet(f, T \ {Chosen(T)})
<1>1. PICK h \in [SUBSET S -> Int] : IsSum(h, f, S)
  BY SumExists
<1>2. ASSUME NEW T \in SUBSET S
      PROVE  SumFunctionOnSet(f, T) = h[T]
  <2>1. IsFiniteSet(T) /\ \A x \in T : f[x] \in Int
    BY FS_Subset
  <2>2. \E g : IsSum(g, f, T)
    BY <2>1, SumExists
  <2>3. PICK g : IsSum(g, f, T) /\ SumFunctionOnSet(f, T) = g[T]
    BY <2>2, SumDefinition
  <2>4. h[T] = g[T]
    BY <1>1, <2>3, SumsAgree
  <2>5. QED
    BY <2>3, <2>4
<1>3. \A T \in SUBSET S : h[T] = IF T = {} THEN 0 ELSE f[Chosen(T)] + h[T \ {Chosen(T)}]
  BY <1>1 DEF IsSum
<1>4. SumFunctionOnSet(f, {}) = 0
  <2>1. {} \in SUBSET S
    OBVIOUS
  <2>2. QED
    BY <1>2, <1>3, <2>1
<1>5. ASSUME NEW T \in SUBSET S
      PROVE  /\ SumFunctionOnSet(f, T) \in Int
             /\ T # {} => SumFunctionOnSet(f, T) =
                            f[Chosen(T)] + SumFunctionOnSet(f, T \ {Chosen(T)})
  <2>1. T \ {Chosen(T)} \in SUBSET S
    OBVIOUS
  <2>2. SumFunctionOnSet(f, T \ {Chosen(T)}) = h[T \ {Chosen(T)}]
    BY <1>2, <2>1
  <2>3. SumFunctionOnSet(f, T) = h[T] /\ h[T] \in Int
    BY <1>2
  <2>4. QED
    BY <1>3, <2>2, <2>3
<1>6. QED
  BY <1>4, <1>5

\* Any element may be taken out first.
LEMMA SumRemove ==
  ASSUME NEW S, IsFiniteSet(S), NEW f, \A y \in S : f[y] \in Int
  PROVE  \A x \in S : SumFunctionOnSet(f, S) = f[x] + SumFunctionOnSet(f, S \ {x})
<1> DEFINE C == {T \in SUBSET S : \A x \in T :
                   SumFunctionOnSet(f, T) = f[x] + SumFunctionOnSet(f, T \ {x})}
<1>1. \A T \in SUBSET S :
         /\ SumFunctionOnSet(f, T) \in Int
         /\ T # {} => SumFunctionOnSet(f, T) = f[Chosen(T)] + SumFunctionOnSet(f, T \ {Chosen(T)})
  BY SumStep
<1>2. ASSUME NEW T \in SUBSET S, \A U \in SUBSET T : U # T => U \in C
      PROVE  T \in C
  <2> SUFFICES ASSUME NEW x \in T
               PROVE  SumFunctionOnSet(f, T) = f[x] + SumFunctionOnSet(f, T \ {x})
    OBVIOUS
  <2> DEFINE c == Chosen(T)
             U == (T \ {c}) \ {x}
  <2>1. c \in T /\ SumFunctionOnSet(f, T) = f[c] + SumFunctionOnSet(f, T \ {c})
    BY <1>1, ChosenIn
  <2>2. CASE c = x
    BY <2>1, <2>2
  <2>3. CASE c # x
    <3> HIDE DEF c
    <3>1. T \ {c} \in C /\ x \in T \ {c}
      BY <1>2, <2>1, <2>3
    <3>2. SumFunctionOnSet(f, T \ {c}) = f[x] + SumFunctionOnSet(f, U)
      BY <3>1
    <3>3. T \ {x} \in C /\ c \in T \ {x} /\ (T \ {x}) \ {c} = U
      BY <1>2, <2>1, <2>3
    <3>4. SumFunctionOnSet(f, T \ {x}) = f[c] + SumFunctionOnSet(f, U)
      BY <3>3
    <3>5. SumFunctionOnSet(f, U) \in Int /\ f[c] \in Int /\ f[x] \in Int
      BY <1>1, <2>1
    <3> HIDE DEF U
    <3>6. QED
      BY <2>1, <3>2, <3>4, <3>5
  <2>4. QED
    BY <2>2, <2>3
<1>3. SUBSET S \subseteq C
  <2> HIDE DEF C
  <2>1. QED
    BY <1>2, StrongSetInduction
<1>4. QED
  BY <1>3

\* What a sum is: the empty one, one more element, its type.
LEMMA SumAdd ==
  ASSUME NEW S, IsFiniteSet(S), NEW x, x \notin S, NEW f, \A y \in S \cup {x} : f[y] \in Int
  PROVE  SumFunctionOnSet(f, S \cup {x}) = f[x] + SumFunctionOnSet(f, S)
<1>1. IsFiniteSet(S \cup {x}) /\ x \in S \cup {x} /\ (S \cup {x}) \ {x} = S
  BY FS_AddElement
<1>2. QED
  BY <1>1, SumRemove

LEMMA SumType ==
  ASSUME NEW S, IsFiniteSet(S), NEW f, \A y \in S : f[y] \in Int
  PROVE  SumFunctionOnSet(f, S) \in Int /\ SumFunctionOnSet(f, {}) = 0
BY SumStep

\* The sums of one function over a set and of another over its image under b,
\* term by term the same.
LEMMA SumImage ==
  ASSUME NEW S, IsFiniteSet(S), NEW f, \A x \in S : f[x] \in Int,
         NEW J, NEW b \in Bijection(S, J), NEW g, \A x \in S : g[b[x]] = f[x]
  PROVE  SumFunctionOnSet(g, J) = SumFunctionOnSet(f, S)
<1> DEFINE I(T) == {b[x] : x \in T}
           C == {T \in SUBSET S : SumFunctionOnSet(g, I(T)) = SumFunctionOnSet(f, T)}
<1> USE DEF Bijection, Injection, Surjection, IsInjective
<1>1. {} \in C
  <2>1. I({}) = {}
    OBVIOUS
  <2>2. SumFunctionOnSet(f, {}) = 0 /\ SumFunctionOnSet(g, {}) = 0
    <3>1. IsFiniteSet({})
      BY FS_EmptySet
    <3>2. QED
      BY <3>1, SumType
  <2>3. QED
    BY <2>1, <2>2
<1>2. ASSUME NEW T \in SUBSET S, NEW x \in S \ T, T \in C
      PROVE  T \cup {x} \in C
  <2>1. I(T \cup {x}) = I(T) \cup {b[x]} /\ b[x] \notin I(T)
    OBVIOUS
  <2>2. IsFiniteSet(T) /\ IsFiniteSet(I(T))
    <3>1. IsFiniteSet(T)
      BY FS_Subset
    <3>2. QED
      <4> DEFINE m == [y \in T |-> b[y]]
      <4>1. m \in Surjection(T, I(T))
        BY DEF Surjection
      <4> HIDE DEF m, I
      <4>2. QED
        BY <3>1, <4>1, FS_Surjection
  <2>3. \A y \in I(T) \cup {b[x]} : g[y] \in Int
    OBVIOUS
  <2>4. SumFunctionOnSet(g, I(T) \cup {b[x]}) = g[b[x]] + SumFunctionOnSet(g, I(T))
    <3> HIDE DEF I
    <3>1. QED
      BY <2>1, <2>2, <2>3, SumAdd
  <2>5. SumFunctionOnSet(f, T \cup {x}) = f[x] + SumFunctionOnSet(f, T)
    BY <2>2, SumAdd
  <2>6. g[b[x]] = f[x] /\ SumFunctionOnSet(g, I(T)) = SumFunctionOnSet(f, T)
    BY <1>2
  <2>7. QED
    BY <2>1, <2>4, <2>5, <2>6
<1>3. SUBSET S \subseteq C
  <2> HIDE DEF C
  <2>1. QED
    BY <1>1, <1>2, SetInduction
<1>4. S \in C /\ I(S) = J
  BY <1>3
<1>5. QED
  BY <1>4

\* Sums of the same terms.
LEMMA SumEqual ==
  ASSUME NEW S, IsFiniteSet(S), NEW f, NEW g, \A x \in S : f[x] \in Int /\ g[x] = f[x]
  PROVE  SumFunctionOnSet(g, S) = SumFunctionOnSet(f, S)
<1> DEFINE b == [x \in S |-> x]
<1>1. b \in Bijection(S, S)
  BY DEF Bijection, Injection, Surjection, IsInjective
<1>2. \A x \in S : g[b[x]] = f[x]
  OBVIOUS
<1> HIDE DEF b
<1>3. QED
  BY <1>1, <1>2, SumImage

\* Zero terms may be left out.
LEMMA SumNonzero ==
  ASSUME NEW S, IsFiniteSet(S), NEW f, \A x \in S : f[x] \in Int,
         NEW T \in SUBSET S, \A x \in S \ T : f[x] = 0
  PROVE  SumFunctionOnSet(f, S) = SumFunctionOnSet(f, T)
<1> DEFINE C == {U \in SUBSET (S \ T) : SumFunctionOnSet(f, T \cup U) = SumFunctionOnSet(f, T)}
<1>1. {} \in C
  <2>1. T \cup {} = T
    OBVIOUS
  <2>2. QED
    BY <2>1
<1>2. ASSUME NEW U \in SUBSET (S \ T), NEW x \in (S \ T) \ U, U \in C
      PROVE  U \cup {x} \in C
  <2>1. IsFiniteSet(T \cup U)
    <3>1. T \cup U \in SUBSET S
      OBVIOUS
    <3>2. QED
      BY <3>1, FS_Subset
  <2>2. x \notin T \cup U /\ (\A y \in (T \cup U) \cup {x} : f[y] \in Int)
    OBVIOUS
  <2>3. SumFunctionOnSet(f, (T \cup U) \cup {x}) = f[x] + SumFunctionOnSet(f, T \cup U)
    BY <2>1, <2>2, SumAdd
  <2>4. SumFunctionOnSet(f, T \cup U) \in Int
    BY <2>1, <2>2, SumType
  <2>5. f[x] = 0 /\ T \cup (U \cup {x}) = (T \cup U) \cup {x}
    OBVIOUS
  <2>6. U \cup {x} \in SUBSET (S \ T) /\ SumFunctionOnSet(f, T \cup U) = SumFunctionOnSet(f, T)
    BY <1>2
  <2>7. SumFunctionOnSet(f, T \cup (U \cup {x})) = SumFunctionOnSet(f, T)
    <3>1. SumFunctionOnSet(f, T \cup (U \cup {x})) = f[x] + SumFunctionOnSet(f, T \cup U)
      BY <2>3, <2>5, Zenon
    <3>2. f[x] + SumFunctionOnSet(f, T \cup U) = SumFunctionOnSet(f, T \cup U)
      BY <2>4, <2>5
    <3>3. QED
      BY <2>6, <3>1, <3>2, Zenon
  <2>8. QED
    BY <2>6, <2>7
<1>3. SUBSET (S \ T) \subseteq C
  <2>1. IsFiniteSet(S \ T)
    BY FS_Subset
  <2> HIDE DEF C
  <2>2. QED
    BY <1>1, <1>2, <2>1, SetInduction
<1>4. S \ T \in C /\ T \cup (S \ T) = S
  BY <1>3
<1>5. QED
  BY <1>4

\* The sum of sums.
LEMMA SumPlus ==
  ASSUME NEW S, IsFiniteSet(S), NEW f, NEW g, NEW h,
         \A x \in S : f[x] \in Int /\ g[x] \in Int /\ h[x] = f[x] + g[x]
  PROVE  SumFunctionOnSet(h, S) = SumFunctionOnSet(f, S) + SumFunctionOnSet(g, S)
<1> DEFINE C == {T \in SUBSET S :
                   SumFunctionOnSet(h, T) = SumFunctionOnSet(f, T) + SumFunctionOnSet(g, T)}
<1>1. {} \in C
  <2>1. SumFunctionOnSet(f, {}) = 0 /\ SumFunctionOnSet(g, {}) = 0 /\ SumFunctionOnSet(h, {}) = 0
    <3>1. IsFiniteSet({})
      BY FS_EmptySet
    <3>2. QED
      BY <3>1, SumType
  <2>2. QED
    BY <2>1
<1>2. ASSUME NEW T \in SUBSET S, NEW x \in S \ T, T \in C
      PROVE  T \cup {x} \in C
  <2>1. IsFiniteSet(T)
    BY FS_Subset
  <2>2. \A y \in T \cup {x} : f[y] \in Int /\ g[y] \in Int /\ h[y] \in Int
    OBVIOUS
  <2>3. SumFunctionOnSet(f, T \cup {x}) = f[x] + SumFunctionOnSet(f, T)
    BY <2>1, <2>2, SumAdd
  <2>4. SumFunctionOnSet(g, T \cup {x}) = g[x] + SumFunctionOnSet(g, T)
    BY <2>1, <2>2, SumAdd
  <2>5. SumFunctionOnSet(h, T \cup {x}) = h[x] + SumFunctionOnSet(h, T)
    BY <2>1, <2>2, SumAdd
  <2>6. SumFunctionOnSet(f, T) \in Int /\ SumFunctionOnSet(g, T) \in Int
    BY <2>1, <2>2, SumType
  <2>7. /\ SumFunctionOnSet(h, T) = SumFunctionOnSet(f, T) + SumFunctionOnSet(g, T)
        /\ h[x] = f[x] + g[x] /\ f[x] \in Int /\ g[x] \in Int
    BY <1>2
  <2>8. QED
    BY <2>3, <2>4, <2>5, <2>6, <2>7
<1>3. SUBSET S \subseteq C
  <2> HIDE DEF C
  <2>1. QED
    BY <1>1, <1>2, SetInduction
<1>4. QED
  BY <1>3

\* A sum of terms that are not negative; one of them is positive.
LEMMA SumNatural ==
  ASSUME NEW S, IsFiniteSet(S), NEW f, \A x \in S : f[x] \in Nat
  PROVE  SumFunctionOnSet(f, S) \in Nat
<1> DEFINE C == {T \in SUBSET S : SumFunctionOnSet(f, T) \in Nat}
<1>1. {} \in C
  BY FS_EmptySet, SumType
<1>2. ASSUME NEW T \in SUBSET S, NEW x \in S \ T, T \in C
      PROVE  T \cup {x} \in C
  <2>1. IsFiniteSet(T)
    BY FS_Subset
  <2>2. \A y \in T \cup {x} : f[y] \in Int
    OBVIOUS
  <2>3. SumFunctionOnSet(f, T \cup {x}) = f[x] + SumFunctionOnSet(f, T)
    BY <2>1, <2>2, SumAdd
  <2>4. QED
    BY <1>2, <2>3
<1>3. SUBSET S \subseteq C
  <2> HIDE DEF C
  <2>1. QED
    BY <1>1, <1>2, SetInduction
<1>4. QED
  BY <1>3

\* Terms that are not negative may be left out of a lower bound.
LEMMA SumSmaller ==
  ASSUME NEW S, IsFiniteSet(S), NEW f, \A x \in S : f[x] \in Nat, NEW T \in SUBSET S
  PROVE  SumFunctionOnSet(f, T) <= SumFunctionOnSet(f, S)
<1> DEFINE C == {U \in SUBSET (S \ T) : SumFunctionOnSet(f, T) <= SumFunctionOnSet(f, T \cup U)}
<1>1. SumFunctionOnSet(f, T) \in Nat
  <2>1. IsFiniteSet(T) /\ \A x \in T : f[x] \in Nat
    BY FS_Subset
  <2>2. QED
    BY <2>1, SumNatural
<1>2. {} \in C
  <2>1. T \cup {} = T
    OBVIOUS
  <2>2. SumFunctionOnSet(f, T \cup {}) = SumFunctionOnSet(f, T)
    BY <2>1, Zenon
  <2>3. QED
    BY <1>1, <2>2
<1>3. ASSUME NEW U \in SUBSET (S \ T), NEW x \in (S \ T) \ U, U \in C
      PROVE  U \cup {x} \in C
  <2>1. IsFiniteSet(T \cup U)
    <3>1. T \cup U \in SUBSET S
      OBVIOUS
    <3>2. QED
      BY <3>1, FS_Subset
  <2>2. x \notin T \cup U /\ (\A y \in (T \cup U) \cup {x} : f[y] \in Int)
    OBVIOUS
  <2>3. SumFunctionOnSet(f, (T \cup U) \cup {x}) = f[x] + SumFunctionOnSet(f, T \cup U)
    BY <2>1, <2>2, SumAdd
  <2>4. SumFunctionOnSet(f, T \cup U) \in Int /\ f[x] \in Nat
    BY <2>1, <2>2, SumType
  <2>5. T \cup (U \cup {x}) = (T \cup U) \cup {x}
    OBVIOUS
  <2>6. SumFunctionOnSet(f, T \cup (U \cup {x})) = f[x] + SumFunctionOnSet(f, T \cup U)
    BY <2>3, <2>5, Zenon
  <2>7. U \cup {x} \in SUBSET (S \ T) /\ SumFunctionOnSet(f, T) <= SumFunctionOnSet(f, T \cup U)
    BY <1>3
  <2>8. SumFunctionOnSet(f, T) <= SumFunctionOnSet(f, T \cup (U \cup {x}))
    BY <1>1, <2>4, <2>6, <2>7
  <2>9. QED
    BY <2>7, <2>8
<1>4. SUBSET (S \ T) \subseteq C
  <2>1. IsFiniteSet(S \ T)
    BY FS_Subset
  <2> HIDE DEF C
  <2>2. QED
    BY <1>2, <1>3, <2>1, SetInduction
<1>5. S \ T \in C /\ T \cup (S \ T) = S
  BY <1>4
<1>6. QED
  BY <1>5

LEMMA SumPositive ==
  ASSUME NEW S, IsFiniteSet(S), NEW f, \A x \in S : f[x] \in Nat, NEW z \in S, f[z] > 0
  PROVE  SumFunctionOnSet(f, S) > 0
<1>1. SumFunctionOnSet(f, S) = f[z] + SumFunctionOnSet(f, S \ {z})
  BY SumRemove
<1>2. SumFunctionOnSet(f, S \ {z}) \in Nat
  BY FS_RemoveElement, SumNatural
<1>3. QED
  BY <1>1, <1>2

----------------------------------------------------------------------------
(* Largest elements.                                                         *)

LEMMA MaxIn ==
  ASSUME NEW S \in SUBSET Int, IsFiniteSet(S), S # {}
  PROVE  Max(S) \in S /\ \A y \in S : Max(S) >= y
<1> DEFINE C == {T \in SUBSET S : T = {} \/ \E x \in T : \A y \in T : x >= y}
<1>1. {} \in C
  OBVIOUS
<1>2. ASSUME NEW T \in SUBSET S, NEW z \in S \ T, T \in C
      PROVE  T \cup {z} \in C
  <2>1. CASE T = {}
    BY <2>1
  <2>2. CASE T # {}
    <3>1. PICK x \in T : \A y \in T : x >= y
      BY <1>2, <2>2
    <3>2. CASE x >= z
      BY <3>1, <3>2
    <3>3. CASE ~(x >= z)
      <4>1. \A y \in T \cup {z} : z >= y
        BY <3>1, <3>3
      <4>2. QED
        BY <4>1
    <3>4. QED
      BY <3>2, <3>3
  <2>3. QED
    BY <2>1, <2>2
<1>3. SUBSET S \subseteq C
  <2> HIDE DEF C
  <2>1. QED
    BY <1>1, <1>2, SetInduction
<1>4. \E x \in S : \A y \in S : x >= y
  BY <1>3
<1>5. QED
  BY <1>4 DEF Max

\* The first of the largest elements of a sequence.
LEMMA FirstLargest ==
  ASSUME NEW n \in Nat \ {0}, NEW c \in [1 .. n -> Int]
  PROVE  \E i \in 1 .. n : /\ \A j \in 1 .. n : c[j] <= c[i]
                           /\ \A j \in 1 .. i - 1 : c[j] < c[i]
<1> DEFINE R == {c[i] : i \in 1 .. n}
           m == Max(R)
           F == {i \in 1 .. n : c[i] = m}
<1>1. IsFiniteSet(R)
  <2>1. IsFiniteSet(1 .. n)
    BY FS_Interval
  <2>2. c \in Surjection(1 .. n, R)
    BY DEF Surjection
  <2> HIDE DEF R
  <2>3. QED
    BY <2>1, <2>2, FS_Surjection
<1>2. R \in SUBSET Int /\ R # {}
  <2>1. c[1] \in R
    OBVIOUS
  <2>2. QED
    BY <2>1
<1>3. m \in R /\ \A y \in R : m >= y
  <2> HIDE DEF R
  <2>1. QED
    BY <1>1, <1>2, MaxIn
<1> HIDE DEF m
<1>4. F \in SUBSET Nat /\ F # {}
  BY <1>3
<1>5. PICK i \in F : \A j \in F : i <= j
  <2> HIDE DEF F
  <2>1. QED
    BY <1>4, Least
<1>6. i \in 1 .. n /\ c[i] = m
  OBVIOUS
<1>7. \A j \in 1 .. n : c[j] <= c[i]
  <2>1. \A j \in 1 .. n : c[j] \in R
    OBVIOUS
  <2>2. QED
    BY <1>3, <1>6, <2>1
<1>8. \A j \in 1 .. i - 1 : c[j] < c[i]
  <2>1. TAKE j \in 1 .. i - 1
  <2>2. j \in 1 .. n /\ j < i
    BY <1>6
  <2>3. c[j] # m
    BY <1>5, <2>2
  <2>4. QED
    BY <1>6, <1>7, <2>2, <2>3
<1>9. QED
  BY <1>6, <1>7, <1>8

----------------------------------------------------------------------------
(* Folds over sequences (FoldLeft of SequencesExt): op[v, x] is the value    *)
(* after the element x.                                                      *)

IsFold(h, op, base, seq) ==
    h = [s \in SUBSET (DOMAIN seq) |->
           IF s = {} THEN base ELSE op[h[s \ {Max(s)}], seq[Max(s)]]]

LEMMA FoldExists ==
  ASSUME NEW D, NEW seq \in Seq(D), NEW V, NEW base \in V, NEW op \in [V \X D -> V]
  PROVE  \E h \in [SUBSET (DOMAIN seq) -> V] : IsFold(h, op, base, seq)
<1> USE DEF IsFold
<1> DEFINE S == DOMAIN seq
           c == [s \in SUBSET S |-> Max(s)]
           G == [p \in (SUBSET S) \X V |-> IF p[1] = {} THEN base ELSE op[p[2], seq[Max(p[1])]]]
<1>1. IsFiniteSet(S) /\ S \in SUBSET Int
  BY FS_Interval
<1>2. \A s \in SUBSET S : s # {} => Max(s) \in s
  BY <1>1, FS_Subset, MaxIn
<1>3. \A s \in SUBSET S : s # {} => c[s] \in s
  BY <1>2
<1>4. G \in [(SUBSET S) \X V -> V]
  <2>1. ASSUME NEW s \in SUBSET S, NEW v \in V, s # {}
        PROVE  op[v, seq[Max(s)]] \in V
    <3>1. Max(s) \in DOMAIN seq
      BY <1>2, <2>1
    <3>2. seq[Max(s)] \in D
      BY <3>1
    <3>3. QED
      BY <3>2
  <2>2. QED
    BY <2>1
<1>5. PICK h \in [SUBSET S -> V] : IsIteration(h, S, c, G, base)
  <2> HIDE DEF S, c, G
  <2>1. QED
    BY <1>1, <1>3, <1>4, IterationExists, ZenonT(30)
<1>6. ASSUME NEW s \in SUBSET S
      PROVE  h[s] = IF s = {} THEN base ELSE op[h[s \ {Max(s)}], seq[Max(s)]]
  <2>1. h[s] = IF s = {} THEN base ELSE G[s, h[s \ {c[s]}]]
    <3> HIDE DEF S, c, G
    <3>1. QED
      BY <1>5 DEF IsIteration
  <2>2. s # {} => G[s, h[s \ {c[s]}]] = op[h[s \ {Max(s)}], seq[Max(s)]]
    <3>1. s \ {Max(s)} \in SUBSET S /\ h[s \ {Max(s)}] \in V /\ c[s] = Max(s)
      OBVIOUS
    <3>2. QED
      BY <3>1
  <2>3. QED
    BY <2>1, <2>2
<1>7. QED
  BY <1>6

\* The sets of indices a fold goes through.
LEMMA PrefixIndices ==
  ASSUME NEW k \in Nat \ {0}
  PROVE  (1 .. k) # {} /\ Max(1 .. k) = k /\ (1 .. k) \ {k} = 1 .. (k - 1)
<1>1. Max(1 .. k) \in 1 .. k /\ \A y \in 1 .. k : Max(1 .. k) >= y
  <2>1. IsFiniteSet(1 .. k) /\ 1 .. k \in SUBSET Int /\ 1 \in 1 .. k
    BY FS_Interval
  <2>2. QED
    BY <2>1, MaxIn
<1>2. k \in 1 .. k
  OBVIOUS
<1>3. Max(1 .. k) = k
  <2>1. Max(1 .. k) >= k /\ Max(1 .. k) \in Nat /\ Max(1 .. k) <= k
    BY <1>1, <1>2
  <2>2. QED
    BY <2>1
<1>4. (1 .. k) \ {k} = 1 .. k - 1
  OBVIOUS
<1>5. (1 .. k) # {}
  BY <1>2
<1>6. QED
  BY <1>3, <1>4, <1>5

----------------------------------------------------------------------------
(* Flattened sequences (FlattenSeq of SequencesExt).                         *)

IsFlattening(h, q) ==
  h = [i \in 1 .. Len(q) |-> IF i = 1 THEN q[i] ELSE h[i - 1] \o q[i]]

LEMMA FlattenDefinition ==
  ASSUME NEW q, Len(q) # 0
  PROVE  FlattenSeq(q) = (CHOOSE h : IsFlattening(h, q))[Len(q)]
BY DEF FlattenSeq, IsFlattening

LEMMA FlattenExists ==
  ASSUME NEW V, NEW q \in Seq(Seq(V))
  PROVE  \E h \in [1 .. Len(q) -> Seq(V)] : IsFlattening(h, q)
<1> DEFINE Good(h, n) == \A i \in 1 .. Len(q) :
                            i <= n => h[i] = IF i = 1 THEN q[i] ELSE h[i - 1] \o q[i]
           N == {n \in Nat : \E h \in [1 .. Len(q) -> Seq(V)] : Good(h, n)}
<1>1. 0 \in N
  <2> DEFINE h == [i \in 1 .. Len(q) |-> << >>]
  <2>1. << >> \in Seq(V)
    OBVIOUS
  <2>2. h \in [1 .. Len(q) -> Seq(V)]
    BY <2>1
  <2>3. Good(h, 0)
    OBVIOUS
  <2> HIDE DEF h, Good
  <2>4. QED
    BY <2>2, <2>3
<1>2. ASSUME NEW n \in Nat, n \in N PROVE n + 1 \in N
  <2>1. PICK h \in [1 .. Len(q) -> Seq(V)] : Good(h, n)
    BY <1>2
  <2> DEFINE g == [i \in 1 .. Len(q) |->
                     IF i # n + 1 THEN h[i] ELSE IF i = 1 THEN q[i] ELSE h[i - 1] \o q[i]]
  <2>2. g \in [1 .. Len(q) -> Seq(V)]
    <3>1. ASSUME NEW i \in 1 .. Len(q) PROVE g[i] \in Seq(V)
      <4>1. q[i] \in Seq(V) /\ h[i] \in Seq(V)
        <5> HIDE DEF g, Good, N
        <5>1. q[i] \in Seq(V)
          OBVIOUS
        <5>2. h[i] \in Seq(V)
          BY <2>1
        <5>3. QED
          BY <5>1, <5>2
      <4>2. CASE i # 1
        <5>1. i - 1 \in 1 .. Len(q)
          BY <4>2
        <5>2. h[i - 1] \in Seq(V)
          BY <5>1
        <5>3. h[i - 1] \o q[i] \in Seq(V)
          BY <4>1, <5>2
        <5>4. QED
          BY <4>1, <4>2, <5>3
      <4>3. QED
        BY <4>1, <4>2
    <3>2. QED
      BY <3>1
  <2>3. ASSUME NEW i \in 1 .. Len(q), i <= n + 1
        PROVE  g[i] = IF i = 1 THEN q[i] ELSE g[i - 1] \o q[i]
    <3>1. i # 1 => i - 1 \in 1 .. Len(q) /\ g[i - 1] = h[i - 1]
      BY <2>3
    <3>2. CASE i = n + 1
      BY <3>1, <3>2
    <3>3. CASE i # n + 1
      <4>1. i <= n
        BY <2>3, <3>3
      <4>2. QED
        BY <2>1, <3>1, <3>3, <4>1
    <3>4. QED
      BY <3>2, <3>3
  <2>4. Good(g, n + 1)
    BY <2>3
  <2> HIDE DEF g, Good
  <2>5. QED
    BY <2>2, <2>4
<1>3. Len(q) \in N
  <2>1. Nat \subseteq N
    <3> HIDE DEF N
    <3>1. QED
      BY <1>1, <1>2, Induction
  <2>2. Len(q) \in Nat
    OBVIOUS
  <2> HIDE DEF N
  <2>3. QED
    BY <2>1, <2>2
<1>4. PICK h \in [1 .. Len(q) -> Seq(V)] : Good(h, Len(q))
  BY <1>3
<1>5. \A i \in 1 .. Len(q) : h[i] = IF i = 1 THEN q[i] ELSE h[i - 1] \o q[i]
  <2>1. Len(q) \in Nat /\ \A i \in 1 .. Len(q) : i <= Len(q)
    OBVIOUS
  <2>2. QED
    BY <1>4, <2>1
<1>6. QED
  BY <1>5 DEF IsFlattening

LEMMA Concatenation ==
  ASSUME NEW V, NEW s \in Seq(V), NEW t \in Seq(V)
  PROVE  /\ s \o t \in Seq(V) /\ Len(s \o t) = Len(s) + Len(t)
         /\ \A i \in 1 .. Len(s) : (s \o t)[i] = s[i]
         /\ \A i \in 1 .. Len(t) : (s \o t)[Len(s) + i] = t[i]
OBVIOUS

\* m parts of length L lie one behind the other in s.
InRow(s, q, m, L) ==
    /\ Len(s) = m * L
    /\ \A i \in 1 .. m : \A j \in 1 .. L :
          /\ (i - 1) * L + j \in 1 .. m * L
          /\ s[(i - 1) * L + j] = q[i][j]

LEMMA FlattenUniform ==
  ASSUME NEW V, NEW L \in Nat, NEW m \in Nat, NEW q \in [1 .. m -> [1 .. L -> V]]
  PROVE  FlattenSeq(q) \in Seq(V) /\ InRow(FlattenSeq(q), q, m, L)
<1> USE DEF InRow
<1>1. q \in Seq(Seq(V)) /\ Len(q) = m /\ \A i \in 1 .. m : q[i] \in Seq(V) /\ Len(q[i]) = L
  OBVIOUS
<1>2. CASE m = 0
  <2>1. FlattenSeq(q) = q /\ q = << >>
    BY <1>1, <1>2 DEF FlattenSeq
  <2>2. QED
    BY <1>2, <2>1
<1>3. CASE m # 0
  <2>1. PICK h : IsFlattening(h, q) /\ FlattenSeq(q) = h[m]
    BY <1>1, <1>3, FlattenExists, FlattenDefinition
  <2> DEFINE Fits(n) == /\ h[n] \in Seq(V) /\ Len(h[n]) = n * L
                        /\ \A i \in 1 .. n : \A j \in 1 .. L :
                              /\ (i - 1) * L + j \in 1 .. n * L
                              /\ h[n][(i - 1) * L + j] = q[i][j]
             N == {n \in Nat : n \in 1 .. m => Fits(n)}
  <2>2. 0 \in N
    OBVIOUS
  <2>3. ASSUME NEW n \in Nat, n \in N PROVE n + 1 \in N
    <3> SUFFICES ASSUME n + 1 \in 1 .. m PROVE Fits(n + 1)
      OBVIOUS
    <3>1. h[n + 1] = IF n + 1 = 1 THEN q[n + 1] ELSE h[n] \o q[n + 1]
      <4>1. h = [i \in 1 .. m |-> IF i = 1 THEN q[i] ELSE h[i - 1] \o q[i]]
        BY <1>1, <2>1 DEF IsFlattening
      <4>2. (n + 1) - 1 = n
        OBVIOUS
      <4>3. h[n + 1] = IF n + 1 = 1 THEN q[n + 1] ELSE h[(n + 1) - 1] \o q[n + 1]
        <5> HIDE DEF N
        <5>1. QED
          BY <4>1, Zenon
      <4>4. QED
        BY <4>2, <4>3
    <3>2. q[n + 1] \in Seq(V) /\ Len(q[n + 1]) = L
      BY <1>1
    <3>3. CASE n = 0
      <4>1. h[n + 1] = q[1]
        BY <3>1, <3>3
      <4>2. \A i \in 1 .. n + 1 : \A j \in 1 .. L : i = 1 /\ (i - 1) * L + j = j
        BY <3>3
      <4>3. QED
        BY <3>2, <3>3, <4>1, <4>2
    <3>4. CASE n # 0
      <4>1. Fits(n) /\ h[n + 1] = h[n] \o q[n + 1]
        <5>1. n \in 1 .. m /\ (n + 1) - 1 = n
          BY <3>4
        <5>2. Fits(n)
          BY <2>3, <5>1
        <5>3. h[n + 1] = h[n] \o q[n + 1]
          <6>1. n + 1 # 1
            BY <3>4
          <6>2. QED
            BY <3>1, <6>1, Zenon
        <5> HIDE DEF Fits
        <5>4. QED
          BY <5>2, <5>3
      <4>2. n * L \in Nat /\ (n + 1) * L = n * L + L
        OBVIOUS
      <4> DEFINE s == h[n]  t == q[n + 1]
      <4>a. /\ s \in Seq(V) /\ Len(s) = n * L /\ t \in Seq(V) /\ Len(t) = L
            /\ h[n + 1] = s \o t
        BY <3>2, <4>1
      <4> HIDE DEF s, t
      <4>3. h[n + 1] \in Seq(V) /\ Len(h[n + 1]) = (n + 1) * L
        <5>1. s \o t \in Seq(V) /\ Len(s \o t) = Len(s) + Len(t)
          BY <4>a, Concatenation
        <5>2. QED
          BY <4>a, <4>2, <5>1
      <4>4. \A k \in 1 .. n * L : h[n + 1][k] = h[n][k]
        BY <4>a, <4>2 DEF s
      <4>5. \A j \in 1 .. L : h[n + 1][n * L + j] = q[n + 1][j]
        BY <4>a, <4>2 DEF t
      <4>6. ASSUME NEW i \in 1 .. n + 1, NEW j \in 1 .. L
            PROVE  /\ (i - 1) * L + j \in 1 .. (n + 1) * L
                   /\ h[n + 1][(i - 1) * L + j] = q[i][j]
        <5>1. CASE i = n + 1
          <6>1. (i - 1) * L + j = n * L + j
            BY <5>1
          <6>2. n * L + j \in 1 .. (n + 1) * L
            BY <4>2
          <6>3. h[n + 1][n * L + j] = q[i][j]
            BY <4>5, <5>1
          <6>4. QED
            BY <6>1, <6>2, <6>3
        <5>2. CASE i # n + 1
          <6>1. i \in 1 .. n
            BY <5>2
          <6>2. (i - 1) * L + j \in 1 .. n * L /\ h[n][(i - 1) * L + j] = q[i][j]
            BY <4>1, <6>1
          <6>3. h[n + 1][(i - 1) * L + j] = h[n][(i - 1) * L + j]
            BY <4>4, <6>2
          <6>4. (i - 1) * L + j \in 1 .. (n + 1) * L
            BY <4>2, <6>2
          <6>5. QED
            BY <6>2, <6>3, <6>4
        <5>3. QED
          BY <5>1, <5>2
      <4>7. QED
        BY <4>3, <4>6
    <3>5. QED
      BY <3>3, <3>4
  <2>4. Nat \subseteq N
    <3> HIDE DEF N
    <3>1. QED
      BY <2>2, <2>3, Induction
  <2>5. Fits(m)
    BY <1>3, <2>4
  <2>6. QED
    BY <2>1, <2>5
<1>4. QED
  BY <1>2, <1>3

\* A part of a sequence is known by its elements.
LEMMA Part ==
  ASSUME NEW V, NEW s \in Seq(V), NEW a \in 1 .. Len(s) + 1, NEW b \in 0 .. Len(s), a <= b + 1,
         NEW u \in Seq(V), Len(u) = b - a + 1, \A i \in 1 .. Len(u) : u[i] = s[a + i - 1]
  PROVE  SubSeq(s, a, b) = u
<1> DEFINE p == SubSeq(s, a, b)
<1>1. p \in Seq(V) /\ Len(p) = Len(u) /\ \A i \in 1 .. Len(u) : p[i] = s[a + i - 1]
  OBVIOUS
<1> HIDE DEF p
<1>2. p = [i \in 1 .. Len(p) |-> p[i]] /\ u = [i \in 1 .. Len(u) |-> u[i]]
  BY <1>1
<1>3. \A i \in 1 .. Len(u) : p[i] = u[i]
  BY <1>1
<1>4. QED
  BY <1>1, <1>2, <1>3 DEF p
=============================================================================
