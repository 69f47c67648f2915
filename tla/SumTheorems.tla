----------------------------- MODULE SumTheorems -----------------------------
(***************************************************************************)
(* Facts about SumFunctionOnSet(f, S), the sum of f[i] over a finite set   *)
(* S: the counts and totals of the notebooks.  SumFunctionOnSet is a       *)
(* recursive function; that it is defined, and what it computes, is shown  *)
(* by looking at the smallest set for which a claim fails.                 *)
(***************************************************************************)
EXTENDS Functions, FiniteSetTheorems, TLAPS

(* A set of subsets of a finite set has a smallest one.                    *)
LEMMA SmallestSubset ==
    ASSUME NEW S, IsFiniteSet(S), NEW Q, Q \subseteq SUBSET S, Q # {}
    PROVE  \E T \in Q : \A U \in Q : ~(U \subseteq T /\ U # T)
<1>1. IsWellFoundedOn(StrictSubsetOrdering(S), FiniteSubsetsOf(S))
  BY FS_StrictSubsetOrderingWellFounded
<1>2. FiniteSubsetsOf(S) = SUBSET S
  BY FS_FiniteSubsetsOfFinite
<1>3. PICK T \in Q : \A U \in Q : ~ (<<U, T>> \in StrictSubsetOrdering(S))
  BY <1>1, <1>2, WFMin
<1> QED
  BY <1>3 DEF StrictSubsetOrdering

-----------------------------------------------------------------------------
(* The element a fold takes next, and one unrolling of the fold g.         *)
Pick(s) == CHOOSE x \in s : TRUE

Unrolled(g, f, S) ==
    [s \in SUBSET S |-> IF s = {} THEN 0 ELSE f[Pick(s)] + g[s \ {Pick(s)}]]

LEMMA PickType == \A s : s # {} => Pick(s) \in s
BY DEF Pick

(* A sum is a value of a function that is its own unrolling, if any is.    *)
LEMMA SumIsFold ==
    ASSUME NEW f, NEW S
    PROVE  SumFunctionOnSet(f, S) = (CHOOSE g : g = Unrolled(g, f, S))[S]
BY DEF SumFunctionOnSet, FoldFunctionOnSet, MapThenFoldSet, Unrolled, Pick

(* Two such functions agree where both are defined.                        *)
LEMMA FoldsAgree ==
    ASSUME NEW f, NEW S, NEW T, NEW g, NEW h,
           g = Unrolled(g, f, S), h = Unrolled(h, f, T),
           NEW V, V \subseteq S, V \subseteq T, IsFiniteSet(V)
    PROVE  g[V] = h[V]
<1> DEFINE Q == {s \in SUBSET V : g[s] # h[s]}
<1>1. SUFFICES ASSUME Q # {} PROVE FALSE
  OBVIOUS
<1>2. PICK s \in Q : \A U \in Q : ~(U \subseteq s /\ U # s)
  <2>1. Q \subseteq SUBSET V
    OBVIOUS
  <2> HIDE DEF Q
  <2> QED
    BY <1>1, <2>1, SmallestSubset
<1>3. s \in SUBSET S /\ s \in SUBSET T
  OBVIOUS
<1>4. s # {}
  BY <1>3 DEF Unrolled
<1>5. Pick(s) \in s
  BY <1>4, PickType
<1>6. /\ g[s] = f[Pick(s)] + g[s \ {Pick(s)}]
      /\ h[s] = f[Pick(s)] + h[s \ {Pick(s)}]
  BY <1>3, <1>4 DEF Unrolled
<1>7. g[s \ {Pick(s)}] = h[s \ {Pick(s)}]
  BY <1>2, <1>5
<1> QED
  BY <1>6, <1>7

(* There is one for every finite set.                                      *)
LEMMA FoldExists ==
    ASSUME NEW f, NEW S, IsFiniteSet(S)
    PROVE  \E g : g = Unrolled(g, f, S)
<1> DEFINE Q == {T \in SUBSET S : ~ \E g : g = Unrolled(g, f, T)}
<1>1. SUFFICES ASSUME Q # {} PROVE FALSE
  OBVIOUS
<1>2. PICK T \in Q : \A U \in Q : ~(U \subseteq T /\ U # T)
  <2>1. Q \subseteq SUBSET S
    OBVIOUS
  <2> HIDE DEF Q
  <2> QED
    BY <1>1, <2>1, SmallestSubset
<1> DEFINE fold(U) == CHOOSE g : g = Unrolled(g, f, U)
           h == [s \in SUBSET T |->
                    IF s = {} THEN 0
                    ELSE f[Pick(s)] + fold(s \ {Pick(s)})[s \ {Pick(s)}]]
<1>3. \A U \in SUBSET T : U # T => fold(U) = Unrolled(fold(U), f, U)
  <2> SUFFICES ASSUME NEW U \in SUBSET T, U # T
               PROVE  \E g : g = Unrolled(g, f, U)
    OBVIOUS
  <2> QED
    BY <1>2
<1>4. \A U \in SUBSET T : U # T => h[U] = fold(U)[U]
  <2> SUFFICES ASSUME NEW U \in SUBSET T, U # T
               PROVE  h[U] = fold(U)[U]
    OBVIOUS
  <2>1. fold(U) = Unrolled(fold(U), f, U)
    BY <1>3
  <2>2. CASE U = {}
    BY <2>1, <2>2 DEF Unrolled
  <2>3. CASE U # {}
    <3> DEFINE V == U \ {Pick(U)}
    <3>1. Pick(U) \in U
      BY <2>3, PickType
    <3>2. V \in SUBSET T /\ V # T /\ V \subseteq U /\ IsFiniteSet(V)
      <4>1. IsFiniteSet(V)
        BY FS_Subset
      <4> QED
        BY <3>1, <4>1
    <3>3. fold(V) = Unrolled(fold(V), f, V)
      BY <1>3, <3>2
    <3> HIDE DEF fold
    <3>4. fold(V)[V] = fold(U)[V]
      BY <2>1, <3>2, <3>3, FoldsAgree
    <3>5. fold(U)[U] = f[Pick(U)] + fold(U)[V]
      BY <2>1, <2>3 DEF Unrolled
    <3>6. h[U] = f[Pick(U)] + fold(V)[V]
      BY <2>3
    <3> QED
      BY <3>4, <3>5, <3>6
  <2> QED
    BY <2>2, <2>3
<1>5. \A s \in SUBSET T : s # {} => h[s \ {Pick(s)}] = fold(s \ {Pick(s)})[s \ {Pick(s)}]
  <2> SUFFICES ASSUME NEW s \in SUBSET T, s # {}
               PROVE  h[s \ {Pick(s)}] = fold(s \ {Pick(s)})[s \ {Pick(s)}]
    OBVIOUS
  <2>1. s \ {Pick(s)} \in SUBSET T /\ s \ {Pick(s)} # T
    BY PickType
  <2> HIDE DEF h, fold
  <2> QED
    BY <1>4, <2>1
<1>6. h = Unrolled(h, f, T)
  <2> HIDE DEF fold
  <2>1. \A s \in SUBSET T :
          h[s] = IF s = {} THEN 0 ELSE f[Pick(s)] + h[s \ {Pick(s)}]
    BY <1>5
  <2>2. h = [s \in SUBSET T |-> h[s]]
    OBVIOUS
  <2> HIDE DEF h
  <2> QED
    BY <2>1, <2>2 DEF Unrolled
<1> QED
  BY <1>2, <1>6

(* What the definition of SumFunctionOnSet says of a finite set.           *)
LEMMA SumUnrolls ==
    ASSUME NEW f, NEW S, IsFiniteSet(S)
    PROVE  SumFunctionOnSet(f, S) =
             IF S = {} THEN 0
             ELSE f[Pick(S)] + SumFunctionOnSet(f, S \ {Pick(S)})
<1> DEFINE fold(U) == CHOOSE g : g = Unrolled(g, f, U)
           V == S \ {Pick(S)}
<1>1. \A U \in SUBSET S : fold(U) = Unrolled(fold(U), f, U)
  <2> SUFFICES ASSUME NEW U \in SUBSET S PROVE \E g : g = Unrolled(g, f, U)
    OBVIOUS
  <2> QED
    BY FS_Subset, FoldExists
<1>2. SumFunctionOnSet(f, S) = fold(S)[S] /\ SumFunctionOnSet(f, V) = fold(V)[V]
  BY SumIsFold
<1> HIDE DEF fold
<1>3. fold(S)[V] = fold(V)[V]
  <2>1. IsFiniteSet(V)
    BY FS_Subset
  <2> QED
    BY <1>1, <2>1, FoldsAgree
<1>4. fold(S)[S] = IF S = {} THEN 0 ELSE f[Pick(S)] + fold(S)[V]
  <2>1. fold(S) = Unrolled(fold(S), f, S)
    BY <1>1
  <2> QED
    BY <2>1 DEF Unrolled
<1> QED
  BY <1>2, <1>3, <1>4

-----------------------------------------------------------------------------
(* The laws of sums. *)

LEMMA SumEmpty ==
    ASSUME NEW f
    PROVE  SumFunctionOnSet(f, {}) = 0
BY SumUnrolls, FS_EmptySet

(* Only the values at the elements of the set matter.                      *)
LEMMA SumSame ==
    ASSUME NEW f, NEW g, NEW S, IsFiniteSet(S), \A i \in S : f[i] = g[i]
    PROVE  SumFunctionOnSet(f, S) = SumFunctionOnSet(g, S)
<1> DEFINE Q == {T \in SUBSET S : SumFunctionOnSet(f, T) # SumFunctionOnSet(g, T)}
<1>1. SUFFICES ASSUME Q # {} PROVE FALSE
  OBVIOUS
<1>2. PICK T \in Q : \A U \in Q : ~(U \subseteq T /\ U # T)
  <2>1. Q \subseteq SUBSET S
    OBVIOUS
  <2> HIDE DEF Q
  <2> QED
    BY <1>1, <2>1, SmallestSubset
<1>3. IsFiniteSet(T)
  BY FS_Subset
<1>4. T # {}
  BY SumEmpty
<1>5. Pick(T) \in T
  BY <1>4, PickType
<1>6. SumFunctionOnSet(f, T \ {Pick(T)}) = SumFunctionOnSet(g, T \ {Pick(T)})
  BY <1>2, <1>5
<1>7. SumFunctionOnSet(f, T) = SumFunctionOnSet(g, T)
  BY <1>3, <1>4, <1>5, <1>6, SumUnrolls
<1> QED
  BY <1>7

(* A sum of integers is an integer.                                        *)
LEMMA SumInt ==
    ASSUME NEW f, NEW S, IsFiniteSet(S), \A i \in S : f[i] \in Int
    PROVE  SumFunctionOnSet(f, S) \in Int
<1> DEFINE Q == {T \in SUBSET S : SumFunctionOnSet(f, T) \notin Int}
<1>1. SUFFICES ASSUME Q # {} PROVE FALSE
  OBVIOUS
<1>2. PICK T \in Q : \A U \in Q : ~(U \subseteq T /\ U # T)
  <2>1. Q \subseteq SUBSET S
    OBVIOUS
  <2> HIDE DEF Q
  <2> QED
    BY <1>1, <2>1, SmallestSubset
<1>3. IsFiniteSet(T)
  BY FS_Subset
<1>4. T # {}
  BY SumEmpty
<1>5. Pick(T) \in T
  BY <1>4, PickType
<1>6. SumFunctionOnSet(f, T \ {Pick(T)}) \in Int
  BY <1>2, <1>5
<1>7. SumFunctionOnSet(f, T) \in Int
  BY <1>3, <1>4, <1>5, <1>6, SumUnrolls
<1> QED
  BY <1>7

(* A sum of naturals is a natural.                                         *)
LEMMA SumNat ==
    ASSUME NEW f, NEW S, IsFiniteSet(S), \A i \in S : f[i] \in Nat
    PROVE  SumFunctionOnSet(f, S) \in Nat
<1> DEFINE Q == {T \in SUBSET S : SumFunctionOnSet(f, T) \notin Nat}
<1>1. SUFFICES ASSUME Q # {} PROVE FALSE
  OBVIOUS
<1>2. PICK T \in Q : \A U \in Q : ~(U \subseteq T /\ U # T)
  <2>1. Q \subseteq SUBSET S
    OBVIOUS
  <2> HIDE DEF Q
  <2> QED
    BY <1>1, <2>1, SmallestSubset
<1>3. IsFiniteSet(T)
  BY FS_Subset
<1>4. T # {}
  BY SumEmpty
<1>5. Pick(T) \in T
  BY <1>4, PickType
<1>6. SumFunctionOnSet(f, T \ {Pick(T)}) \in Nat
  BY <1>2, <1>5
<1>7. SumFunctionOnSet(f, T) \in Nat
  BY <1>3, <1>4, <1>5, <1>6, SumUnrolls
<1> QED
  BY <1>7

(* Any element may be taken first.                                         *)
LEMMA SumRemove ==
    ASSUME NEW f, NEW S, IsFiniteSet(S), \A i \in S : f[i] \in Int, NEW x \in S
    PROVE  SumFunctionOnSet(f, S) = f[x] + SumFunctionOnSet(f, S \ {x})
<1> DEFINE sum(T) == SumFunctionOnSet(f, T)
           Q == {T \in SUBSET S : \E e \in T : sum(T) # f[e] + sum(T \ {e})}
<1>1. SUFFICES ASSUME Q # {} PROVE FALSE
  OBVIOUS
<1>2. PICK T \in Q : \A U \in Q : ~(U \subseteq T /\ U # T)
  <2>1. Q \subseteq SUBSET S
    OBVIOUS
  <2> HIDE DEF Q
  <2> QED
    BY <1>1, <2>1, SmallestSubset
<1>3. PICK e \in T : sum(T) # f[e] + sum(T \ {e})
  BY <1>2
<1> DEFINE c == Pick(T)
<1>4. \A U \in SUBSET S : IsFiniteSet(U) /\ sum(U) \in Int
  BY FS_Subset, SumInt
<1>5. c \in T /\ sum(T) = f[c] + sum(T \ {c})
  BY <1>4, SumUnrolls, PickType
<1>6. e # c
  BY <1>3, <1>5
<1>7. sum(T \ {c}) = f[e] + sum((T \ {c}) \ {e})
  BY <1>2, <1>5, <1>6
<1>8. sum(T \ {e}) = f[c] + sum((T \ {e}) \ {c})
  BY <1>2, <1>5, <1>6
<1>9. (T \ {c}) \ {e} = (T \ {e}) \ {c}
  OBVIOUS
<1>10. /\ f[c] \in Int /\ f[e] \in Int
       /\ sum((T \ {c}) \ {e}) \in Int /\ sum(T) \in Int
  BY <1>4, <1>5
<1> HIDE DEF sum, c, Q
<1>11. sum(T) = f[c] + (f[e] + sum((T \ {c}) \ {e}))
  BY <1>5, <1>7
<1>12. f[e] + sum(T \ {e}) = f[e] + (f[c] + sum((T \ {c}) \ {e}))
  BY <1>8, <1>9
<1> QED
  BY <1>3, <1>10, <1>11, <1>12

(* The sum over two disjoint sets.                                         *)
LEMMA SumUnion ==
    ASSUME NEW f, NEW S, NEW T, IsFiniteSet(S), IsFiniteSet(T), S \cap T = {},
           \A i \in S \cup T : f[i] \in Int
    PROVE  SumFunctionOnSet(f, S \cup T)
             = SumFunctionOnSet(f, S) + SumFunctionOnSet(f, T)
<1> DEFINE sum(U) == SumFunctionOnSet(f, U)
           Q == {U \in SUBSET T : sum(S \cup U) # sum(S) + sum(U)}
<1>1. SUFFICES ASSUME Q # {} PROVE FALSE
  OBVIOUS
<1>2. PICK U \in Q : \A W \in Q : ~(W \subseteq U /\ W # U)
  <2>1. Q \subseteq SUBSET T
    OBVIOUS
  <2> HIDE DEF Q
  <2> QED
    BY <1>1, <2>1, SmallestSubset
<1>3. \A W \in SUBSET T : /\ IsFiniteSet(W) /\ IsFiniteSet(S \cup W)
                          /\ sum(W) \in Int /\ sum(S \cup W) \in Int
  BY FS_Subset, FS_Union, SumInt
<1>4. sum(S) \in Int
  BY SumInt
<1>5. U # {}
  <2>1. S \cup {} = S /\ sum({}) = 0
    BY SumEmpty
  <2>2. sum(S \cup U) # sum(S) + sum(U)
    BY <1>2
  <2> HIDE DEF sum
  <2>3. U = {} => sum(S \cup U) = sum(S) + sum(U)
    BY <1>4, <2>1
  <2> QED
    BY <2>2, <2>3
<1>6. PICK x \in U : TRUE
  BY <1>5
<1>7. sum(S \cup U) = f[x] + sum((S \cup U) \ {x})
  BY <1>3, SumRemove
<1>8. (S \cup U) \ {x} = S \cup (U \ {x})
  OBVIOUS
<1>9. sum(U) = f[x] + sum(U \ {x})
  BY <1>3, SumRemove
<1>10. sum(S \cup (U \ {x})) = sum(S) + sum(U \ {x})
  BY <1>2
<1>11. f[x] \in Int /\ sum(U \ {x}) \in Int
  BY <1>3
<1>12. sum(S \cup U) # sum(S) + sum(U)
  BY <1>2
<1> HIDE DEF sum, Q
<1>13. sum((S \cup U) \ {x}) = sum(S) + sum(U \ {x})
  BY <1>8, <1>10
<1>14. sum(S \cup U) = f[x] + (sum(S) + sum(U \ {x}))
  BY <1>7, <1>13
<1>15. sum(S \cup U) = sum(S) + sum(U)
  BY <1>4, <1>9, <1>11, <1>14
<1> QED
  BY <1>12, <1>15

(* A part of naturals adds up to no more than the whole.                   *)
LEMMA SumSubset ==
    ASSUME NEW f, NEW S, IsFiniteSet(S), \A i \in S : f[i] \in Nat,
           NEW T \in SUBSET S
    PROVE  SumFunctionOnSet(f, T) <= SumFunctionOnSet(f, S)
<1> DEFINE part == SumFunctionOnSet(f, T)
           rest == SumFunctionOnSet(f, S \ T)
<1>1. IsFiniteSet(T) /\ IsFiniteSet(S \ T) /\ T \cup (S \ T) = S
  BY FS_Subset
<1>2. part \in Nat /\ rest \in Nat
  BY <1>1, SumNat
<1>3. SumFunctionOnSet(f, T \cup (S \ T)) = part + rest
  BY <1>1, SumUnion
<1> HIDE DEF part, rest
<1>4. part <= part + rest
  BY <1>2
<1> QED
  BY <1>1, <1>3, <1>4 DEF part

(* A sum of zeros and ones counts the ones.                                *)
LEMMA SumCounts ==
    ASSUME NEW f, NEW S, IsFiniteSet(S), \A i \in S : f[i] \in {0, 1}
    PROVE  SumFunctionOnSet(f, S) = Cardinality({i \in S : f[i] = 1})
<1> DEFINE ones(T) == {i \in T : f[i] = 1}
           Q == {T \in SUBSET S : SumFunctionOnSet(f, T) # Cardinality(ones(T))}
<1>1. SUFFICES ASSUME Q # {} PROVE FALSE
  OBVIOUS
<1>2. PICK T \in Q : \A U \in Q : ~(U \subseteq T /\ U # T)
  <2>1. Q \subseteq SUBSET S
    OBVIOUS
  <2> HIDE DEF Q
  <2> QED
    BY <1>1, <2>1, SmallestSubset
<1>3. IsFiniteSet(T)
  BY FS_Subset
<1>4. T # {}
  <2>1. ones({}) = {}
    OBVIOUS
  <2> QED
    BY <2>1, SumEmpty, FS_EmptySet
<1>5. PICK x \in T : TRUE
  BY <1>4
<1>6. SumFunctionOnSet(f, T) = f[x] + SumFunctionOnSet(f, T \ {x})
  BY <1>3, SumRemove
<1>7. SumFunctionOnSet(f, T \ {x}) = Cardinality(ones(T \ {x}))
  BY <1>2
<1>8. ones(T \ {x}) = ones(T) \ {x} /\ (x \in ones(T) <=> f[x] = 1) /\ f[x] \in {0, 1}
  OBVIOUS
<1>9. IsFiniteSet(ones(T)) /\ Cardinality(ones(T)) \in Nat
  <2>1. IsFiniteSet(ones(T))
    BY <1>3, FS_Subset
  <2> QED
    BY <2>1, FS_CardinalityType
<1> HIDE DEF ones
<1>10. Cardinality(ones(T)) = f[x] + Cardinality(ones(T) \ {x})
  <2>1. Cardinality(ones(T) \ {x}) =
          IF x \in ones(T) THEN Cardinality(ones(T)) - 1 ELSE Cardinality(ones(T))
    BY <1>9, FS_RemoveElement
  <2> QED
    BY <1>8, <1>9, <2>1
<1>11. Cardinality(ones(T \ {x})) = Cardinality(ones(T) \ {x})
  BY <1>8
<1>12. SumFunctionOnSet(f, T) = Cardinality(ones(T))
  BY <1>6, <1>7, <1>10, <1>11
<1> QED
  BY <1>2, <1>12

(* The elements of S whose key is c, or in C.                              *)
Having(S, key, c) == {i \in S : key[i] = c}
Group(S, key, C)  == {i \in S : key[i] \in C}

(* Summing up per group and then over the groups is summing up: h[c] is    *)
(* the sum over the elements with key c.                                   *)
THEOREM SumGroups ==
    ASSUME NEW f, NEW S, IsFiniteSet(S), \A i \in S : f[i] \in Int,
           NEW key, NEW C, IsFiniteSet(C),
           NEW h, \A c \in C : h[c] = SumFunctionOnSet(f, Having(S, key, c))
    PROVE  SumFunctionOnSet(h, C) = SumFunctionOnSet(f, Group(S, key, C))
<1> DEFINE group(D) == Group(S, key, D)
           Q == {D \in SUBSET C : SumFunctionOnSet(h, D) # SumFunctionOnSet(f, group(D))}
<1>1. SUFFICES ASSUME Q # {} PROVE FALSE
  OBVIOUS
<1>2. PICK D \in Q : \A E \in Q : ~(E \subseteq D /\ E # D)
  <2>1. Q \subseteq SUBSET C
    OBVIOUS
  <2> HIDE DEF Q
  <2> QED
    BY <1>1, <2>1, SmallestSubset
<1>3. ASSUME NEW E
      PROVE  IsFiniteSet(group(E)) /\ SumFunctionOnSet(f, group(E)) \in Int
  <2>1. IsFiniteSet(group(E)) /\ \A i \in group(E) : f[i] \in Int
    BY FS_Subset DEF Group
  <2> QED
    BY <2>1, SumInt
<1>4. ASSUME NEW c \in C
      PROVE  h[c] = SumFunctionOnSet(f, group({c})) /\ h[c] \in Int
  <2>1. Having(S, key, c) = group({c})
    BY DEF Having, Group
  <2> QED
    BY <1>3, <2>1
<1>5. IsFiniteSet(D)
  BY FS_Subset
<1>6. D # {}
  <2>1. D = {} => group(D) = {}
    BY DEF Group
  <2> HIDE DEF group
  <2>2. D = {} => SumFunctionOnSet(h, D) = 0 /\ SumFunctionOnSet(f, group(D)) = 0
    BY <2>1, SumEmpty
  <2> QED
    BY <1>2, <2>2
<1>7. PICK c \in D : TRUE
  BY <1>6
<1>8. SumFunctionOnSet(h, D) = h[c] + SumFunctionOnSet(h, D \ {c})
  <2>1. \A e \in D : h[e] \in Int
    BY <1>4
  <2> QED
    BY <1>5, <2>1, SumRemove
<1>9. SumFunctionOnSet(h, D \ {c}) = SumFunctionOnSet(f, group(D \ {c}))
  BY <1>2
<1>10. SumFunctionOnSet(f, group(D))
        = SumFunctionOnSet(f, group({c})) + SumFunctionOnSet(f, group(D \ {c}))
  <2>1. /\ group(D) = group({c}) \cup group(D \ {c})
        /\ group({c}) \cap group(D \ {c}) = {}
        /\ \A i \in group(D) : f[i] \in Int
    BY DEF Group
  <2>2. \A E : IsFiniteSet(group(E))
    BY <1>3
  <2> HIDE DEF group
  <2>3. \A i \in group({c}) \cup group(D \ {c}) : f[i] \in Int
    BY <2>1
  <2>4. SumFunctionOnSet(f, group({c}) \cup group(D \ {c}))
        = SumFunctionOnSet(f, group({c})) + SumFunctionOnSet(f, group(D \ {c}))
    BY <2>1, <2>2, <2>3, SumUnion
  <2> QED
    BY <2>1, <2>4
<1>11. SumFunctionOnSet(h, D) = SumFunctionOnSet(f, group(D))
  BY <1>4, <1>7, <1>8, <1>9, <1>10
<1> QED
  BY <1>2, <1>11

(* Values that are paired off one to one have the same sum.                *)
LEMMA SumBijection ==
    ASSUME NEW f, NEW S, IsFiniteSet(S), \A i \in S : f[i] \in Int,
           NEW C, IsFiniteSet(C), NEW key \in Bijection(S, C),
           NEW h, \A i \in S : h[key[i]] = f[i]
    PROVE  SumFunctionOnSet(f, S) = SumFunctionOnSet(h, C)
<1>1. /\ \A i \in S : key[i] \in C
      /\ \A i, j \in S : key[i] = key[j] => i = j
      /\ \A c \in C : \E i \in S : key[i] = c
  BY DEF Bijection, Injection, Surjection, IsInjective
<1>2. ASSUME NEW c \in C PROVE h[c] = SumFunctionOnSet(f, Having(S, key, c))
  <2>1. PICK i \in S : key[i] = c
    BY <1>1
  <2>2. Having(S, key, c) = {i}
    BY <1>1, <2>1 DEF Having
  <2>3. SumFunctionOnSet(f, {i}) = f[i] + SumFunctionOnSet(f, {i} \ {i})
    BY FS_Singleton, SumRemove
  <2>4. {i} \ {i} = {}
    OBVIOUS
  <2>5. SumFunctionOnSet(f, {i}) = f[i]
    BY <2>3, <2>4, SumEmpty
  <2> QED
    BY <2>1, <2>2, <2>5
<1>3. Group(S, key, C) = S
  BY <1>1 DEF Group
<1> QED
  BY <1>2, <1>3, SumGroups
=============================================================================
