--------------------------- MODULE CountingLemmas ---------------------------
(***************************************************************************)
(* Facts about finite sets and sequences that the proofs about the pools,  *)
(* the histogram and the server share: what happens to a count when one    *)
(* element changes sides, which elements a queue holds after a push or a   *)
(* pop, and how a sum grows.                                               *)
(***************************************************************************)
EXTENDS Integers, Sequences, FiniteSets, FiniteSetTheorems, SequenceTheorems,
        WellFoundedInduction, TLAPS

-----------------------------------------------------------------------------
(***************************************************************************)
(* Counting                                                                *)
(***************************************************************************)

(* A subset of a finite set has a number of elements. *)
LEMMA CountType ==
  ASSUME NEW T, IsFiniteSet(T), NEW S \in SUBSET T
  PROVE  IsFiniteSet(S) /\ Cardinality(S) \in Nat
  BY FS_Subset, FS_CardinalityType

(* An element joins a set, or leaves it. *)
LEMMA CountJoin ==
  ASSUME NEW S, IsFiniteSet(S), NEW x, x \notin S
  PROVE  Cardinality(S \cup {x}) = Cardinality(S) + 1
  BY FS_AddElement

\* Removing a member of a finite set lowers its cardinality by one.
LEMMA CountLeave ==
  ASSUME NEW S, IsFiniteSet(S), NEW x \in S
  PROVE  Cardinality(S \ {x}) = Cardinality(S) - 1 /\ Cardinality(S) >= 1
<1>1. /\ IsFiniteSet(S \ {x}) /\ Cardinality(S \ {x}) \in Nat
      /\ Cardinality(S) \in Nat
  BY FS_Subset, FS_CardinalityType
<1>2. Cardinality((S \ {x}) \cup {x}) = Cardinality(S \ {x}) + 1
  BY <1>1, CountJoin
<1>3. (S \ {x}) \cup {x} = S
  OBVIOUS
<1>4. QED
  BY <1>1, <1>2, <1>3

(* Only the empty set has no elements. *)
LEMMA CountNone ==
  ASSUME NEW S, IsFiniteSet(S)
  PROVE  Cardinality(S) = 0 <=> S = {}
  BY FS_EmptySet

(* Two sets that differ at most in one element. *)
LEMMA CountUpdate ==
  ASSUME NEW T, IsFiniteSet(T), NEW A \in SUBSET T, NEW B \in SUBSET T, NEW x,
         \A y \in T \ {x} : y \in A <=> y \in B
  PROVE  /\ Cardinality(A) \in Nat /\ Cardinality(B) \in Nat
         /\ (x \in A <=> x \in B) => Cardinality(B) = Cardinality(A)
         /\ x \notin A /\ x \in B => Cardinality(B) = Cardinality(A) + 1
         /\ x \in A /\ x \notin B => Cardinality(B) = Cardinality(A) - 1
<1>1. /\ IsFiniteSet(A) /\ IsFiniteSet(B)
      /\ Cardinality(A) \in Nat /\ Cardinality(B) \in Nat
  BY CountType
<1>2. ASSUME x \in A <=> x \in B PROVE Cardinality(B) = Cardinality(A)
  <2>1. A = B
    BY <1>2
  <2>2. QED  BY <2>1
<1>3. ASSUME x \notin A, x \in B PROVE Cardinality(B) = Cardinality(A) + 1
  <2>1. B = A \cup {x}
    BY <1>3
  <2>2. QED  BY <1>1, <1>3, <2>1, CountJoin
<1>4. ASSUME x \in A, x \notin B PROVE Cardinality(B) = Cardinality(A) - 1
  <2>1. B = A \ {x}
    BY <1>4
  <2>2. QED  BY <1>1, <1>4, <2>1, CountLeave
<1>5. QED
  BY <1>1, <1>2, <1>3, <1>4

(* A set with at most one element. *)
LEMMA CountAtMostOne ==
  ASSUME NEW S, \A x, y \in S : x = y
  PROVE  Cardinality(S) \in {0, 1} /\ (Cardinality(S) = 0 <=> S = {})
<1>1. CASE S = {}
  BY <1>1, FS_EmptySet
<1>2. ASSUME NEW x \in S PROVE Cardinality(S) = 1
  <2>1. S = {x}
    OBVIOUS
  <2>2. QED  BY <2>1, FS_Singleton
<1>3. QED
  BY <1>1, <1>2

-----------------------------------------------------------------------------
(***************************************************************************)
(* Queues                                                                  *)
(***************************************************************************)

(* The elements of a sequence after Append and after Tail. *)
LEMMA ElementsAppend ==
  ASSUME NEW T, NEW s \in Seq(T), NEW e \in T, NEW f
  PROVE  (\E i \in 1..Len(Append(s, e)) : Append(s, e)[i] = f)
         <=> (\E i \in 1..Len(s) : s[i] = f) \/ f = e
<1>1. /\ Len(Append(s, e)) = Len(s) + 1 /\ Len(s) \in Nat
      /\ \A i \in 1..Len(s) : Append(s, e)[i] = s[i]
      /\ Append(s, e)[Len(s) + 1] = e
  BY AppendProperties
<1>2. \A i \in 1..(Len(s) + 1) : i \in 1..Len(s) \/ i = Len(s) + 1
  BY <1>1
<1>3. \A i \in 1..Len(s) : i \in 1..(Len(s) + 1)
  BY <1>1
<1>4. Len(s) + 1 \in 1..(Len(s) + 1)
  BY <1>1
<1>5. QED
  BY <1>1, <1>2, <1>3, <1>4

\* The elements of a non-empty sequence are its head and the elements of its
\* tail.
LEMMA ElementsTail ==
  ASSUME NEW T, NEW s \in Seq(T), s # << >>, NEW f
  PROVE  (\E i \in 1..Len(s) : s[i] = f)
         <=> (\E i \in 1..Len(Tail(s)) : Tail(s)[i] = f) \/ f = Head(s)
<1>1. /\ Len(Tail(s)) = Len(s) - 1 /\ Len(s) \in Nat /\ Len(s) # 0
      /\ \A i \in 1..Len(Tail(s)) : Tail(s)[i] = s[i + 1]
      /\ Head(s) = s[1]
  BY HeadTailProperties, EmptySeq
<1>2. \A i \in 1..(Len(s) - 1) : i + 1 \in 1..Len(s)
  BY <1>1
<1>3. \A i \in 1..Len(s) : i = 1 \/ (i - 1 \in 1..(Len(s) - 1) /\ (i - 1) + 1 = i)
  BY <1>1
<1>4. 1 \in 1..Len(s)
  BY <1>1
<1>5. ASSUME NEW i \in 1..Len(s), s[i] = f
      PROVE  (\E j \in 1..Len(Tail(s)) : Tail(s)[j] = f) \/ f = Head(s)
  BY <1>1, <1>3, <1>5
<1>6. ASSUME NEW j \in 1..Len(Tail(s)), Tail(s)[j] = f
      PROVE  \E i \in 1..Len(s) : s[i] = f
  BY <1>1, <1>2, <1>6
<1>7. QED
  BY <1>1, <1>4, <1>5, <1>6

-----------------------------------------------------------------------------
(***************************************************************************)
(* Sums                                                                    *)
(***************************************************************************)

(* Among finite sets there is one without a smaller one: induction over    *)
(* finite sets, as a fact about sets.                                      *)
LEMMA SmallestSet ==
  ASSUME NEW S, IsFiniteSet(S), NEW B \in SUBSET (SUBSET S), B # {}
  PROVE  \E s \in B : \A t \in B : t \subseteq s => t = s
<1>1. B \subseteq FiniteSubsetsOf(S)
  BY FS_FiniteSubsetsOfFinite
<1>2. \E s \in B : \A t \in B : <<t, s>> \notin StrictSubsetOrdering(S)
  BY <1>1, FS_StrictSubsetOrderingWellFounded, WFMin
<1>3. QED
  BY <1>2 DEF StrictSubsetOrdering

(* The sum of f over a finite set, written as the folds of the module      *)
(* Functions unfold: a recursive function on the subsets, which takes the  *)
(* chosen element off a set.                                               *)
Chosen(s) == CHOOSE x \in s : TRUE
Sums(f, S, g) ==
  g = [s \in SUBSET S |-> IF s = {} THEN 0 ELSE f[Chosen(s)] + g[s \ {Chosen(s)}]]
SumOf(f, S) == (CHOOSE g : Sums(f, S, g))[S]

(* The element that is taken off is one of the set. *)
LEMMA ChosenIn ==
  ASSUME NEW s, s # {}
  PROVE  Chosen(s) \in s
  BY DEF Chosen

(* Two such functions agree where both are defined. *)
LEMMA SumsAgree ==
  ASSUME NEW f, NEW S, IsFiniteSet(S), NEW R \in SUBSET S,
         NEW g, Sums(f, S, g), NEW h, Sums(f, R, h), NEW q \in SUBSET R
  PROVE  g[q] = h[q]
<1> SUFFICES ASSUME g[q] # h[q] PROVE FALSE
  OBVIOUS
<1> DEFINE B == {s \in SUBSET R : g[s] # h[s]}
<1>1. IsFiniteSet(R) /\ B # {} /\ B \in SUBSET (SUBSET R)
  BY FS_Subset
<1> HIDE DEF B
<1>2. PICK s \in B : \A t \in B : t \subseteq s => t = s
  BY <1>1, SmallestSet
<1> USE DEF B
<1>3. s \in SUBSET R /\ s \in SUBSET S /\ g[s] # h[s]
  BY <1>2
<1>4. /\ g[s] = IF s = {} THEN 0 ELSE f[Chosen(s)] + g[s \ {Chosen(s)}]
      /\ h[s] = IF s = {} THEN 0 ELSE f[Chosen(s)] + h[s \ {Chosen(s)}]
  BY <1>3 DEF Sums
<1>5. s # {}
  BY <1>3, <1>4
<1>6. s \ {Chosen(s)} \notin B
  BY <1>2, <1>5, ChosenIn
<1>7. g[s \ {Chosen(s)}] = h[s \ {Chosen(s)}]
  BY <1>3, <1>6
<1>8. QED
  BY <1>3, <1>4, <1>7

(* There is such a function for every finite set. *)
LEMMA SumsExist ==
  ASSUME NEW f, NEW S, IsFiniteSet(S)
  PROVE  \E g : Sums(f, S, g)
<1> SUFFICES ASSUME ~\E g : Sums(f, S, g) PROVE FALSE
  OBVIOUS
<1> DEFINE B == {s \in SUBSET S : ~\E g : Sums(f, s, g)}
<1>1. B # {} /\ B \in SUBSET (SUBSET S)
  OBVIOUS
<1> HIDE DEF B
<1>2. PICK U \in B : \A t \in B : t \subseteq U => t = U
  BY <1>1, SmallestSet
<1> USE DEF B
<1>3. IsFiniteSet(U) /\ U \in SUBSET S
  BY <1>2, FS_Subset
<1>4. \A t \in SUBSET U : t # U => Sums(f, t, CHOOSE g : Sums(f, t, g))
  <2> SUFFICES ASSUME NEW t \in SUBSET U, t # U PROVE \E g : Sums(f, t, g)
    OBVIOUS
  <2>1. t \notin B /\ t \in SUBSET S
    BY <1>2, <1>3
  <2>2. QED  BY <2>1
<1> DEFINE G == [s \in SUBSET U |->
                   IF s = {} THEN 0 ELSE f[Chosen(s)] + SumOf(f, s \ {Chosen(s)})]
<1>5. ASSUME NEW t \in SUBSET U, t # U PROVE G[t] = SumOf(f, t)
  <2> DEFINE g == CHOOSE g : Sums(f, t, g)
  <2>1. Sums(f, t, g) /\ IsFiniteSet(t)
    BY <1>3, <1>4, <1>5, FS_Subset
  <2>2. SumOf(f, t) = IF t = {} THEN 0 ELSE f[Chosen(t)] + g[t \ {Chosen(t)}]
    BY <2>1 DEF SumOf, Sums
  <2>3. CASE t = {}
    BY <2>2, <2>3
  <2>4. CASE t # {}
    <3> DEFINE r == t \ {Chosen(t)}
               h == CHOOSE h : Sums(f, r, h)
    <3>1. r \in SUBSET t /\ r \in SUBSET U /\ r # U
      BY <1>5, <2>4, ChosenIn
    <3>2. Sums(f, r, h)
      BY <1>4, <3>1
    <3>3. g[r] = h[r]
      BY <2>1, <3>1, <3>2, SumsAgree
    <3>4. h[r] = SumOf(f, r)
      BY DEF SumOf
    <3>5. QED  BY <2>2, <2>4, <3>3, <3>4
  <2>5. QED  BY <2>3, <2>4
<1>6. \A s \in SUBSET U : s # {} => G[s \ {Chosen(s)}] = SumOf(f, s \ {Chosen(s)})
  BY <1>5, ChosenIn
<1>7. Sums(f, U, G)
  BY <1>6 DEF Sums
<1>8. QED
  BY <1>2, <1>7

(* The sum over a set is that of the rest and of the chosen element. *)
LEMMA SumUnfold ==
  ASSUME NEW f, NEW S, IsFiniteSet(S)
  PROVE  SumOf(f, S) = IF S = {} THEN 0 ELSE f[Chosen(S)] + SumOf(f, S \ {Chosen(S)})
<1> DEFINE g == CHOOSE g : Sums(f, S, g)
<1>1. Sums(f, S, g)
  BY SumsExist
<1>2. SumOf(f, S) = IF S = {} THEN 0 ELSE f[Chosen(S)] + g[S \ {Chosen(S)}]
  BY <1>1 DEF SumOf, Sums
<1>3. CASE S # {}
  <2> DEFINE r == S \ {Chosen(S)}
             h == CHOOSE h : Sums(f, r, h)
  <2>1. r \in SUBSET S /\ IsFiniteSet(r)
    BY FS_Subset
  <2>2. Sums(f, r, h)
    BY <2>1, SumsExist
  <2>3. g[r] = h[r]
    BY <1>1, <2>1, <2>2, SumsAgree
  <2>4. QED  BY <1>2, <1>3, <2>3 DEF SumOf
<1>4. QED
  BY <1>2, <1>3

(* A sum of natural numbers is a natural number. *)
LEMMA SumType ==
  ASSUME NEW f, NEW S, IsFiniteSet(S), \A x \in S : f[x] \in Nat
  PROVE  SumOf(f, S) \in Nat
<1> SUFFICES ASSUME SumOf(f, S) \notin Nat PROVE FALSE
  OBVIOUS
<1> DEFINE B == {s \in SUBSET S : SumOf(f, s) \notin Nat}
<1>1. B # {} /\ B \in SUBSET (SUBSET S)
  OBVIOUS
<1> HIDE DEF B
<1>2. PICK s \in B : \A t \in B : t \subseteq s => t = s
  BY <1>1, SmallestSet
<1> USE DEF B
<1>3. IsFiniteSet(s) /\ s \in SUBSET S /\ SumOf(f, s) \notin Nat
  BY <1>2, FS_Subset
<1>4. s # {} /\ SumOf(f, s) = f[Chosen(s)] + SumOf(f, s \ {Chosen(s)})
  <2>1. SumOf(f, s) = IF s = {} THEN 0 ELSE f[Chosen(s)] + SumOf(f, s \ {Chosen(s)})
    BY <1>3, SumUnfold
  <2>2. s # {}
    BY <1>3, <2>1
  <2>3. QED  BY <2>1, <2>2
<1>5. s \ {Chosen(s)} \notin B
  BY <1>2, <1>4, ChosenIn
<1>6. SumOf(f, s \ {Chosen(s)}) \in Nat /\ f[Chosen(s)] \in Nat
  BY <1>3, <1>4, <1>5, ChosenIn
<1>7. QED
  BY <1>3, <1>4, <1>6

(* It depends on the values on the set only. *)
LEMMA SumSame ==
  ASSUME NEW f, NEW h, NEW S, IsFiniteSet(S), \A x \in S : f[x] = h[x]
  PROVE  SumOf(f, S) = SumOf(h, S)
<1> SUFFICES ASSUME SumOf(f, S) # SumOf(h, S) PROVE FALSE
  OBVIOUS
<1> DEFINE B == {s \in SUBSET S : SumOf(f, s) # SumOf(h, s)}
<1>1. B # {} /\ B \in SUBSET (SUBSET S)
  OBVIOUS
<1> HIDE DEF B
<1>2. PICK s \in B : \A t \in B : t \subseteq s => t = s
  BY <1>1, SmallestSet
<1> USE DEF B
<1>3. IsFiniteSet(s) /\ s \in SUBSET S /\ SumOf(f, s) # SumOf(h, s)
  BY <1>2, FS_Subset
<1>4. /\ SumOf(f, s) = IF s = {} THEN 0 ELSE f[Chosen(s)] + SumOf(f, s \ {Chosen(s)})
      /\ SumOf(h, s) = IF s = {} THEN 0 ELSE h[Chosen(s)] + SumOf(h, s \ {Chosen(s)})
  BY <1>3, SumUnfold
<1>5. s # {}
  BY <1>3, <1>4
<1>6. s \ {Chosen(s)} \notin B
  BY <1>2, <1>5, ChosenIn
<1>7. SumOf(f, s \ {Chosen(s)}) = SumOf(h, s \ {Chosen(s)}) /\ f[Chosen(s)] = h[Chosen(s)]
  BY <1>3, <1>5, <1>6, ChosenIn
<1>8. QED
  BY <1>3, <1>4, <1>7

(* Any element may be taken off first. *)
LEMMA SumTake ==
  ASSUME NEW f, NEW S, IsFiniteSet(S), \A x \in S : f[x] \in Nat, NEW y \in S
  PROVE  SumOf(f, S) = f[y] + SumOf(f, S \ {y})
<1> DEFINE Ok(s) == \A z \in s : SumOf(f, s) = f[z] + SumOf(f, s \ {z})
           B == {s \in SUBSET S : ~Ok(s)}
<1> SUFFICES ASSUME ~Ok(S) PROVE FALSE
  OBVIOUS
<1>1. B # {} /\ B \in SUBSET (SUBSET S)
  OBVIOUS
<1> HIDE DEF B
<1>2. PICK s \in B : \A t \in B : t \subseteq s => t = s
  BY <1>1, SmallestSet
<1> USE DEF B
<1>3. IsFiniteSet(s) /\ s \in SUBSET S
  BY <1>2, FS_Subset
<1>4. PICK z \in s : SumOf(f, s) # f[z] + SumOf(f, s \ {z})
  BY <1>2
<1> DEFINE x == Chosen(s)
<1>5. x \in s /\ SumOf(f, s) = f[x] + SumOf(f, s \ {x})
  BY <1>3, <1>4, ChosenIn, SumUnfold
<1>6. x # z
  BY <1>4, <1>5
<1>7. Ok(s \ {x}) /\ Ok(s \ {z})
  BY <1>2, <1>3, <1>5
<1>8. SumOf(f, s \ {x}) = f[z] + SumOf(f, (s \ {x}) \ {z})
  BY <1>4, <1>6, <1>7
<1>9. SumOf(f, s \ {z}) = f[x] + SumOf(f, (s \ {z}) \ {x})
  BY <1>5, <1>6, <1>7
<1>10. (s \ {x}) \ {z} = (s \ {z}) \ {x}
  OBVIOUS
<1> DEFINE rest == (s \ {z}) \ {x}
<1>11. SumOf(f, rest) \in Nat /\ f[x] \in Nat /\ f[z] \in Nat
  <2>1. IsFiniteSet(rest) /\ rest \in SUBSET S
    BY <1>3, FS_Subset
  <2>2. QED  BY <1>3, <1>4, <1>5, <2>1, SumType
<1>12. f[x] + (f[z] + SumOf(f, rest)) = f[z] + (f[x] + SumOf(f, rest))
  BY <1>11
<1>13. QED
  BY <1>4, <1>5, <1>8, <1>9, <1>10, <1>12

(* An element joins a set, or a sequence. *)
LEMMA SumJoin ==
  ASSUME NEW f, NEW S, IsFiniteSet(S), NEW y, y \notin S, \A x \in S \cup {y} : f[x] \in Nat
  PROVE  SumOf(f, S \cup {y}) = f[y] + SumOf(f, S)
<1>1. IsFiniteSet(S \cup {y}) /\ (S \cup {y}) \ {y} = S
  BY FS_AddElement
<1>2. QED
  BY <1>1, SumTake

\* Appending a number to a sequence adds it to the sum.
LEMMA SumAppend ==
  ASSUME NEW s \in Seq(Nat), NEW n \in Nat
  PROVE  /\ SumOf(Append(s, n), 1..Len(Append(s, n))) = SumOf(s, 1..Len(s)) + n
         /\ SumOf(s, 1..Len(s)) \in Nat
<1> DEFINE t == Append(s, n)
           I == 1..Len(s)
<1>1. /\ Len(s) \in Nat /\ Len(t) = Len(s) + 1 /\ t[Len(s) + 1] = n
      /\ \A i \in I : t[i] = s[i] /\ s[i] \in Nat
  BY AppendProperties, ElementOfSeq
<1>2. IsFiniteSet(I)
  BY <1>1, FS_Interval
<1>3. 1..Len(t) = I \cup {Len(s) + 1} /\ Len(s) + 1 \notin I
  BY <1>1
<1>4. \A i \in I \cup {Len(s) + 1} : t[i] \in Nat
  BY <1>1
<1>5. SumOf(t, I \cup {Len(s) + 1}) = t[Len(s) + 1] + SumOf(t, I)
  <2> DEFINE k == Len(s) + 1
  <2>1. k \notin I
    BY <1>3
  <2>2. \A i \in I \cup {k} : t[i] \in Nat
    BY <1>4
  <2> HIDE DEF k, I, t
  <2>3. SumOf(t, I \cup {k}) = t[k] + SumOf(t, I)
    BY <1>2, <2>1, <2>2, SumJoin
  <2>4. QED  BY <2>3 DEF k
<1>6. SumOf(t, I) = SumOf(s, I)
  BY <1>1, <1>2, SumSame
<1>7. SumOf(s, I) \in Nat
  BY <1>1, <1>2, SumType
<1>8. SumOf(t, 1..Len(t)) = n + SumOf(s, I)
  BY <1>1, <1>3, <1>5, <1>6
<1>9. n + SumOf(s, I) = SumOf(s, I) + n
  BY <1>7
<1>10. QED
  BY <1>7, <1>8, <1>9
=============================================================================
