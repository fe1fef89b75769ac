---------------------------- MODULE FiniteSums ----------------------------
(***************************************************************************)
(* Maxima and sums over finite sets.  The fold of the community modules is *)
(* a sum by definition only for the element it picks; these lemmas say it  *)
(* is the sum whatever the order, part by part.  Budgets over orders and   *)
(* the cash of an account over sessions are such sums.                     *)
(***************************************************************************)
EXTENDS Integers, FiniteSetsExt, Functions, FiniteSetTheorems, TLAPS

\* A non-empty family of subsets of a finite set has a smallest member: induction over
\* finite sets, as the absence of a smallest counterexample.
LEMMA Smallest ==
  ASSUME NEW S, IsFiniteSet(S), NEW F \in SUBSET SUBSET S, F # {}
  PROVE  \E A \in F : \A B \in SUBSET A : B # A => B \notin F
<1> DEFINE R == StrictSubsetOrdering(S)
<1>1. IsWellFoundedOn(R, SUBSET S)
  BY FS_StrictSubsetOrderingWellFounded, FS_FiniteSubsetsOfFinite
<1>2. F \subseteq SUBSET S
  OBVIOUS
<1> HIDE DEF R
<1>3. \A T : T \subseteq SUBSET S /\ T # {} => \E x \in T : \A y \in T : <<y, x>> \notin R
  BY <1>1, WFMin
<1>4. \E A \in F : \A B \in F : <<B, A>> \notin R
  BY <1>2, <1>3
<1> QED
  BY <1>2, <1>4 DEF R, StrictSubsetOrdering

\* A finite, non-empty set of integers has a maximum.
LEMMA MaxOfFinite ==
  ASSUME NEW S \in SUBSET Int, IsFiniteSet(S), S # {}
  PROVE  Max(S) \in S /\ \A y \in S : Max(S) >= y
<1> DEFINE Top(A) == \E x \in A : \A y \in A : x >= y
           F == {A \in SUBSET S : A # {} /\ ~Top(A)}
<1>1. F = {}
  <2> SUFFICES ASSUME F # {} PROVE FALSE
    OBVIOUS
  <2>0. F \in SUBSET SUBSET S
    OBVIOUS
  <2>1. PICK A \in F : \A B \in SUBSET A : B # A => B \notin F
    <3> HIDE DEF F
    <3> QED BY <2>0, Smallest
  <2>2. PICK x \in A : TRUE
    OBVIOUS
  <2>3. A \ {x} \notin F /\ A \ {x} \in SUBSET S
    BY <2>1, <2>2
  <2>4. CASE A = {x}
    BY <2>2, <2>4
  <2>5. CASE Top(A \ {x})
    <3>1. PICK z \in A \ {x} : \A y \in A \ {x} : z >= y
      BY <2>5
    <3>2. Top(A)
      <4>1. CASE z >= x
        BY <3>1, <4>1
      <4>2. CASE ~(z >= x)
        <5>1. \A y \in A : x >= y
          BY <3>1, <4>2, <2>2
        <5> QED BY <5>1, <2>2
      <4> QED BY <4>1, <4>2
    <3> QED BY <3>2
  <2> QED BY <2>2, <2>3, <2>4, <2>5
<1>2. Top(S)
  BY <1>1
<1> QED BY <1>2 DEF Max

\* The sum of f over S, as the model computes it: an element is picked and the rest added.
Total(f, S) == FoldFunctionOnSet(+, 0, f, S)
Pick(s) == CHOOSE x \in s : TRUE

\* g has the sums of f over every subset of A.
Sums(g, f, A) ==
  g = [s \in SUBSET A |-> IF s = {} THEN 0 ELSE f[Pick(s)] + g[s \ {Pick(s)}]]

\* The fold is such a function, applied to the whole set.
LEMMA TotalIsSum ==
  ASSUME NEW f, NEW A
  PROVE  Total(f, A) = (CHOOSE g : Sums(g, f, A))[A]
  BY Zenon DEF Total, FoldFunctionOnSet, MapThenFoldSet, Sums, Pick

LEMMA PickIn == \A s : s # {} => Pick(s) \in s
  BY DEF Pick

LEMMA SumsAt ==
  ASSUME NEW f, NEW A, NEW g, Sums(g, f, A), NEW s \in SUBSET A
  PROVE  g[s] = IF s = {} THEN 0 ELSE f[Pick(s)] + g[s \ {Pick(s)}]
  BY Zenon DEF Sums

\* Two of them agree where both are defined.
LEMMA SumsAgree ==
  ASSUME NEW f, NEW A, NEW B, IsFiniteSet(A), NEW g, NEW h, Sums(g, f, A), Sums(h, f, B),
         NEW s \in SUBSET A, s \in SUBSET B
  PROVE  g[s] = h[s]
<1> DEFINE F == {t \in SUBSET s : g[t] # h[t]}
<1>0. IsFiniteSet(s)
  BY FS_Subset
<1>1. F = {}
  <2> SUFFICES ASSUME F # {} PROVE FALSE
    OBVIOUS
  <2>0. F \in SUBSET SUBSET s
    OBVIOUS
  <2>1. PICK t \in F : \A u \in SUBSET t : u # t => u \notin F
    <3> HIDE DEF F
    <3> QED BY <1>0, <2>0, Smallest
  <2>2. t \in SUBSET A /\ t \in SUBSET B /\ g[t] # h[t]
    OBVIOUS
  <2>3. t # {} /\ g[t] = f[Pick(t)] + g[t \ {Pick(t)}] /\ h[t] = f[Pick(t)] + h[t \ {Pick(t)}]
    <3>1. g[t] = IF t = {} THEN 0 ELSE f[Pick(t)] + g[t \ {Pick(t)}]
      BY <2>2, SumsAt
    <3>2. h[t] = IF t = {} THEN 0 ELSE f[Pick(t)] + h[t \ {Pick(t)}]
      BY <2>2, SumsAt
    <3> QED BY <2>2, <3>1, <3>2
  <2>4. g[t \ {Pick(t)}] = h[t \ {Pick(t)}]
    BY <2>1, <2>3, PickIn
  <2> QED BY <2>2, <2>3, <2>4
<1> QED BY <1>1

\* There is one for every finite set.
LEMMA SumsExist ==
  ASSUME NEW f, NEW S, IsFiniteSet(S)
  PROVE  \E g : Sums(g, f, S)
<1> DEFINE F == {A \in SUBSET S : ~\E g : Sums(g, f, A)}
<1>1. F = {}
  <2> SUFFICES ASSUME F # {} PROVE FALSE
    OBVIOUS
  <2>0. F \in SUBSET SUBSET S
    OBVIOUS
  <2>1. PICK A \in F : \A B \in SUBSET A : B # A => B \notin F
    <3> HIDE DEF F
    <3> QED BY <2>0, Smallest
  <2> DEFINE It(B) == CHOOSE g : Sums(g, f, B)
             Rest(s) == s \ {Pick(s)}
             g == [s \in SUBSET A |->
                     IF s = {} THEN 0 ELSE f[Pick(s)] + It(Rest(s))[Rest(s)]]
  <2>2. \A B \in SUBSET A : B # A => IsFiniteSet(B) /\ Sums(It(B), f, B)
    <3> SUFFICES ASSUME NEW B \in SUBSET A, B # A
                 PROVE  IsFiniteSet(B) /\ Sums(It(B), f, B)
      OBVIOUS
    <3>1. \E h : Sums(h, f, B)
      BY <2>1
    <3>2. B \in SUBSET S
      OBVIOUS
    <3>3. IsFiniteSet(B)
      BY <3>2, FS_Subset
    <3> QED BY <3>1, <3>3, Zenon
  <2>3. \A s \in SUBSET A : s # {} => Rest(s) \in SUBSET A /\ Rest(s) # A /\ Rest(s) # s
    BY PickIn
  <2> HIDE DEF It, Rest
  <2>4. ASSUME NEW s \in SUBSET A, s # A PROVE g[s] = It(s)[s]
    <3>1. It(s)[s] = IF s = {} THEN 0 ELSE f[Pick(s)] + It(s)[Rest(s)]
      BY <2>2, <2>4, SumsAt DEF Rest
    <3>2. CASE s = {}
      BY <3>1, <3>2
    <3>3. CASE s # {}
      <4>1. Rest(s) \in SUBSET s /\ Rest(s) \in SUBSET Rest(s)
        BY DEF Rest
      <4>2. Sums(It(s), f, s) /\ Sums(It(Rest(s)), f, Rest(s)) /\ IsFiniteSet(s)
        BY <2>2, <2>3, <2>4, <3>3
      <4>3. It(s)[Rest(s)] = It(Rest(s))[Rest(s)]
        BY <4>1, <4>2, SumsAgree
      <4> QED BY <3>1, <3>3, <4>3
    <3> QED BY <3>2, <3>3
  <2>5. Sums(g, f, A)
    <3>1. \A s \in SUBSET A : s # {} => g[Rest(s)] = It(Rest(s))[Rest(s)]
      BY <2>3, <2>4
    <3>2. g = [s \in SUBSET A |-> IF s = {} THEN 0 ELSE f[Pick(s)] + g[Rest(s)]]
      BY <3>1
    <3> QED BY <3>2, Zenon DEF Sums, Rest
  <2> QED BY <2>1, <2>5
<1> QED BY <1>1

\* Hence the fold is what it was meant to be.
LEMMA TotalDef ==
  ASSUME NEW f, NEW S, IsFiniteSet(S)
  PROVE  Total(f, S) = IF S = {} THEN 0 ELSE f[Pick(S)] + Total(f, S \ {Pick(S)})
<1> DEFINE It(B) == CHOOSE g : Sums(g, f, B)
           T == S \ {Pick(S)}
<1>1. Sums(It(S), f, S)
  BY SumsExist, Zenon
<1>2. IsFiniteSet(T) /\ T \in SUBSET S /\ T \in SUBSET T
  BY FS_RemoveElement
<1>3. Sums(It(T), f, T)
  BY <1>2, SumsExist, Zenon
<1>4. Total(f, S) = It(S)[S] /\ Total(f, T) = It(T)[T]
  BY TotalIsSum, Zenon
<1> HIDE DEF It, T
<1>5. It(S)[S] = IF S = {} THEN 0 ELSE f[Pick(S)] + It(S)[T]
  BY <1>1, SumsAt DEF T
<1>6. It(S)[T] = It(T)[T]
  BY <1>1, <1>2, <1>3, SumsAgree
<1> QED BY <1>4, <1>5, <1>6 DEF T

\* The order of the elements does not matter.
LEMMA TotalRemove ==
  ASSUME NEW S, IsFiniteSet(S), NEW f, \A s \in S : f[s] \in Int
  PROVE  /\ Total(f, S) \in Int
         /\ \A x \in S : Total(f, S) = f[x] + Total(f, S \ {x})
<1> DEFINE Good(A) == /\ Total(f, A) \in Int
                      /\ \A x \in A : Total(f, A) = f[x] + Total(f, A \ {x})
           F == {A \in SUBSET S : ~Good(A)}
<1>1. F = {}
  <2> SUFFICES ASSUME F # {} PROVE FALSE
    OBVIOUS
  <2>0. F \in SUBSET SUBSET S
    OBVIOUS
  <2>1. PICK A \in F : \A B \in SUBSET A : B # A => B \notin F
    <3> HIDE DEF F
    <3> QED BY <2>0, Smallest
  <2>2. A \in SUBSET S /\ IsFiniteSet(A) /\ ~Good(A)
    BY FS_Subset
  <2>3. \A B \in SUBSET A : B # A => Good(B)
    BY <2>1
  <2> DEFINE c == Pick(A)
  <2>4. Total(f, A) = IF A = {} THEN 0 ELSE f[c] + Total(f, A \ {c})
    BY <2>2, TotalDef
  <2>5. A # {} /\ c \in A /\ f[c] \in Int
    BY <2>2, <2>4, PickIn
  <2> HIDE DEF c
  <2>6. Good(A \ {c})
    BY <2>3, <2>5
  <2>7. Total(f, A) \in Int /\ Total(f, A) = f[c] + Total(f, A \ {c})
    BY <2>4, <2>5, <2>6
  <2>8. ASSUME NEW x \in A PROVE Total(f, A) = f[x] + Total(f, A \ {x})
    <3>1. CASE x = c
      BY <2>7, <3>1
    <3>2. CASE x # c
      <4> DEFINE R == (A \ {c}) \ {x}
      <4>1. R = (A \ {x}) \ {c}
        OBVIOUS
      <4>2. Good(A \ {x}) /\ Good(R) /\ f[x] \in Int
        BY <2>2, <2>3
      <4>3. Total(f, A \ {c}) = f[x] + Total(f, R)
        BY <2>6, <3>2
      <4>4. Total(f, A \ {x}) = f[c] + Total(f, R)
        BY <2>5, <3>2, <4>1, <4>2
      <4>5. Total(f, R) \in Int
        BY <4>2
      <4> HIDE DEF R, Good, F
      <4> QED BY <2>5, <2>7, <4>2, <4>3, <4>4, <4>5
    <3> QED BY <3>1, <3>2
  <2> QED BY <2>2, <2>7, <2>8
<1> QED BY <1>1

\* An element more adds its value.
LEMMA TotalAdd ==
  ASSUME NEW S, IsFiniteSet(S), NEW f, NEW x, x \notin S, \A s \in S \cup {x} : f[s] \in Int
  PROVE  Total(f, S \cup {x}) = f[x] + Total(f, S)
<1>1. IsFiniteSet(S \cup {x})
  BY FS_AddElement
<1>2. (S \cup {x}) \ {x} = S
  OBVIOUS
<1> QED BY <1>1, <1>2, TotalRemove

\* The sum over a set is that over a part and that over the rest.
LEMMA TotalSplit ==
  ASSUME NEW S, IsFiniteSet(S), NEW f, \A s \in S : f[s] \in Int, NEW T \in SUBSET S
  PROVE  Total(f, S) = Total(f, T) + Total(f, S \ T)
<1> DEFINE F == {A \in SUBSET T : Total(f, S) # Total(f, A) + Total(f, S \ A)}
<1>0. IsFiniteSet(T)
  BY FS_Subset
<1>1. F = {}
  <2> SUFFICES ASSUME F # {} PROVE FALSE
    OBVIOUS
  <2>0. F \in SUBSET SUBSET T
    OBVIOUS
  <2>1. PICK A \in F : \A B \in SUBSET A : B # A => B \notin F
    <3> HIDE DEF F
    <3> QED BY <1>0, <2>0, Smallest
  <2>2. A # {}
    <3>1. Total(f, {}) = 0 /\ S \ {} = S /\ Total(f, S) \in Int
      BY TotalDef, FS_EmptySet, TotalRemove
    <3> QED BY <3>1
  <2>3. PICK x \in A : TRUE
    BY <2>2
  <2> DEFINE B == A \ {x}
             R == S \ B
  <2>4. B \in SUBSET A /\ B # A /\ B \notin F /\ B \in SUBSET T
    BY <2>1, <2>3
  <2>5. Total(f, S) = Total(f, B) + Total(f, R)
    BY <2>4
  <2>6. x \in R /\ R \ {x} = S \ A /\ R \in SUBSET S /\ A \in SUBSET S /\ B \in SUBSET S
        /\ (S \ A) \in SUBSET S
    BY <2>3
  <2>7. IsFiniteSet(R) /\ IsFiniteSet(A) /\ IsFiniteSet(B) /\ IsFiniteSet(S \ A)
    BY <2>6, FS_Subset
  <2> HIDE DEF R
  <2>8. Total(f, R) = f[x] + Total(f, S \ A)
    BY <2>6, <2>7, TotalRemove
  <2>9. Total(f, A) = f[x] + Total(f, B)
    BY <2>6, <2>7, TotalRemove
  <2>10. f[x] \in Int /\ Total(f, B) \in Int /\ Total(f, S \ A) \in Int
    BY <2>6, <2>7, TotalRemove
  <2>11. Total(f, S) # Total(f, A) + Total(f, S \ A)
    BY <2>1
  <2> QED BY <2>5, <2>8, <2>9, <2>10, <2>11
<1> QED BY <1>1

\* Naturals add up to a natural.
LEMMA TotalNat ==
  ASSUME NEW S, IsFiniteSet(S), NEW f, \A s \in S : f[s] \in Nat
  PROVE  Total(f, S) \in Nat
<1> DEFINE F == {A \in SUBSET S : Total(f, A) \notin Nat}
<1>1. F = {}
  <2> SUFFICES ASSUME F # {} PROVE FALSE
    OBVIOUS
  <2>0. F \in SUBSET SUBSET S
    OBVIOUS
  <2>1. PICK A \in F : \A B \in SUBSET A : B # A => B \notin F
    <3> HIDE DEF F
    <3> QED BY <2>0, Smallest
  <2>2. IsFiniteSet(A) /\ A \in SUBSET S
    BY FS_Subset
  <2>3. Total(f, A) = IF A = {} THEN 0 ELSE f[Pick(A)] + Total(f, A \ {Pick(A)})
    BY <2>2, TotalDef
  <2>4. A # {} /\ Pick(A) \in A /\ f[Pick(A)] \in Nat
    BY <2>2, <2>3, PickIn
  <2>5. Total(f, A \ {Pick(A)}) \in Nat
    BY <2>1, <2>4
  <2> QED BY <2>3, <2>4, <2>5
<1> QED BY <1>1

\* A part adds up to no more than the whole.
LEMMA TotalSubset ==
  ASSUME NEW S, IsFiniteSet(S), NEW f, \A s \in S : f[s] \in Nat, NEW T \in SUBSET S
  PROVE  Total(f, T) \in Nat /\ Total(f, T) <= Total(f, S)
<1>1. IsFiniteSet(T) /\ IsFiniteSet(S \ T)
  BY FS_Subset
<1>2. Total(f, T) \in Nat /\ Total(f, S \ T) \in Nat
  BY <1>1, TotalNat
<1>3. Total(f, S) = Total(f, T) + Total(f, S \ T)
  BY TotalSplit
<1> QED BY <1>2, <1>3

\* Equal terms add up to the same.
LEMMA TotalSame ==
  ASSUME NEW S, IsFiniteSet(S), NEW f, NEW g, \A s \in S : f[s] = g[s]
  PROVE  Total(f, S) = Total(g, S)
<1> DEFINE F == {A \in SUBSET S : Total(f, A) # Total(g, A)}
<1>1. F = {}
  <2> SUFFICES ASSUME F # {} PROVE FALSE
    OBVIOUS
  <2>0. F \in SUBSET SUBSET S
    OBVIOUS
  <2>1. PICK A \in F : \A B \in SUBSET A : B # A => B \notin F
    <3> HIDE DEF F
    <3> QED BY <2>0, Smallest
  <2>2. IsFiniteSet(A) /\ A \in SUBSET S /\ Total(f, A) # Total(g, A)
    BY FS_Subset
  <2>3. Total(f, A) = IF A = {} THEN 0 ELSE f[Pick(A)] + Total(f, A \ {Pick(A)})
    BY <2>2, TotalDef
  <2>4. Total(g, A) = IF A = {} THEN 0 ELSE g[Pick(A)] + Total(g, A \ {Pick(A)})
    BY <2>2, TotalDef
  <2>5. A # {} /\ Pick(A) \in A
    BY <2>2, <2>3, <2>4, PickIn
  <2>6. Total(f, A \ {Pick(A)}) = Total(g, A \ {Pick(A)})
    BY <2>1, <2>5
  <2> QED BY <2>2, <2>3, <2>4, <2>5, <2>6
<1> QED BY <1>1

\* Sums may be taken term by term.
LEMMA TotalPlus ==
  ASSUME NEW S, IsFiniteSet(S), NEW f, NEW g, NEW h,
         \A s \in S : f[s] \in Int /\ g[s] \in Int /\ h[s] = f[s] + g[s]
  PROVE  Total(h, S) = Total(f, S) + Total(g, S)
<1> DEFINE F == {A \in SUBSET S : Total(h, A) # Total(f, A) + Total(g, A)}
<1>1. F = {}
  <2> SUFFICES ASSUME F # {} PROVE FALSE
    OBVIOUS
  <2>0. F \in SUBSET SUBSET S
    OBVIOUS
  <2>1. PICK A \in F : \A B \in SUBSET A : B # A => B \notin F
    <3> HIDE DEF F
    <3> QED BY <2>0, Smallest
  <2>2. IsFiniteSet(A) /\ A \in SUBSET S /\ Total(h, A) # Total(f, A) + Total(g, A)
    BY FS_Subset
  <2> DEFINE c == Pick(A)
             B == A \ {c}
  <2>3. /\ Total(f, A) = IF A = {} THEN 0 ELSE f[c] + Total(f, B)
        /\ Total(g, A) = IF A = {} THEN 0 ELSE g[c] + Total(g, B)
        /\ Total(h, A) = IF A = {} THEN 0 ELSE h[c] + Total(h, B)
    BY <2>2, TotalDef
  <2>4. A # {} /\ c \in A /\ c \in S
    BY <2>2, <2>3, PickIn
  <2>5. Total(h, B) = Total(f, B) + Total(g, B)
    BY <2>1, <2>4
  <2>6. IsFiniteSet(B) /\ \A s \in B : f[s] \in Int /\ g[s] \in Int
    BY <2>2, FS_RemoveElement
  <2> HIDE DEF B, c, F
  <2>7. Total(f, B) \in Int /\ Total(g, B) \in Int
    BY <2>6, TotalRemove
  <2>8. f[c] \in Int /\ g[c] \in Int /\ h[c] = f[c] + g[c]
    BY <2>4
  <2> QED BY <2>2, <2>3, <2>4, <2>5, <2>7, <2>8
<1> QED BY <1>1

\* A constant is added once for every element.
LEMMA TotalConstant ==
  ASSUME NEW S, IsFiniteSet(S), NEW c \in Int, NEW f, \A s \in S : f[s] = c
  PROVE  Total(f, S) = c * Cardinality(S)
<1> DEFINE F == {A \in SUBSET S : Total(f, A) # c * Cardinality(A)}
<1>1. F = {}
  <2> SUFFICES ASSUME F # {} PROVE FALSE
    OBVIOUS
  <2>0. F \in SUBSET SUBSET S
    OBVIOUS
  <2>1. PICK A \in F : \A B \in SUBSET A : B # A => B \notin F
    <3> HIDE DEF F
    <3> QED BY <2>0, Smallest
  <2>2. IsFiniteSet(A) /\ A \in SUBSET S /\ Total(f, A) # c * Cardinality(A)
    BY FS_Subset
  <2>3. Total(f, A) = IF A = {} THEN 0 ELSE f[Pick(A)] + Total(f, A \ {Pick(A)})
    BY <2>2, TotalDef
  <2>4. A # {} /\ Pick(A) \in A
    <3>1. c * Cardinality({}) = 0
      BY FS_EmptySet
    <3> QED BY <2>2, <2>3, <3>1, PickIn
  <2> DEFINE B == A \ {Pick(A)}
  <2>5. Total(f, B) = c * Cardinality(B)
    BY <2>1, <2>4
  <2>6. Cardinality(B) = Cardinality(A) - 1 /\ Cardinality(A) \in Nat
    BY <2>2, <2>4, FS_RemoveElement, FS_CardinalityType
  <2>7. f[Pick(A)] = c
    BY <2>2, <2>4
  <2>8. Total(f, A) = c + c * (Cardinality(A) - 1)
    BY <2>3, <2>4, <2>5, <2>6, <2>7
  <2>9. \A n \in Nat : c + c * (n - 1) = c * n
    OBVIOUS
  <2> QED BY <2>2, <2>6, <2>8, <2>9
<1> QED BY <1>1
==================================================================================
