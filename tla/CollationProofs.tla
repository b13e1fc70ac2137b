-------------------------- MODULE CollationProofs --------------------------
(***************************************************************************)
(* Collation, for any accounts, extrinsics, authorities, loads of the      *)
(* message queue and number of retractions.                                *)
(***************************************************************************)
EXTENDS Collation, FiniteSetTheorems, WellFoundedInduction, TLAPS

------------------------------------------------------------------------------
(***************************************************************************)
(* Sums.  What SumFunctionOnSet computes on a finite set, by well-founded  *)
(* induction over its subsets.                                             *)
(***************************************************************************)
Choice(s) == CHOOSE x \in s : TRUE

SumUpTo(f, S, it) ==
    it = [s \in SUBSET S |-> IF s = {} THEN 0 ELSE f[Choice(s)] + it[s \ {Choice(s)}]]

SolutionOf(f, S) == CHOOSE it : SumUpTo(f, S, it)

\* A set of subsets has a smallest one.
LEMMA SmallestSubset ==
    ASSUME NEW S, IsFiniteSet(S), NEW B \in SUBSET SUBSET S, B # {}
    PROVE  \E T \in B : \A U \in SUBSET T : U # T => U \notin B
<1>1. IsWellFoundedOn(StrictSubsetOrdering(S), SUBSET S)
  BY FS_StrictSubsetOrderingWellFounded, FS_FiniteSubsetsOfFinite
<1>2. PICK T \in B : \A U \in B : <<U, T>> \notin StrictSubsetOrdering(S)
  BY <1>1, WFMin
<1> QED  BY <1>2 DEF StrictSubsetOrdering

\* The sum is what the solution says of the whole set.
LEMMA SumIsSolution ==
    ASSUME NEW f, NEW S PROVE SumFunctionOnSet(f, S) = SolutionOf(f, S)[S]
BY DEF SumFunctionOnSet, FoldFunctionOnSet, MapThenFoldSet, SolutionOf, SumUpTo, Choice

\* The chosen element is one of the set.
LEMMA ChoiceIn == ASSUME NEW S, S # {} PROVE Choice(S) \in S
BY DEF Choice

\* A solution obeys its equation.
LEMMA SumUpToFacts ==
    ASSUME NEW f, NEW S, NEW it, SumUpTo(f, S, it), NEW s \in SUBSET S
    PROVE  it[s] = IF s = {} THEN 0 ELSE f[Choice(s)] + it[s \ {Choice(s)}]
BY DEF SumUpTo

\* Two solutions agree where both are defined.
LEMMA SolutionsAgree ==
    ASSUME NEW f, NEW S, IsFiniteSet(S), NEW T, NEW g, NEW h, SumUpTo(f, S, g), SumUpTo(f, T, h),
           NEW U \in SUBSET S, U \in SUBSET T
    PROVE  g[U] = h[U]
<1> DEFINE B == {V \in SUBSET S : V \subseteq T /\ g[V] # h[V]}
<1> SUFFICES ASSUME B # {} PROVE FALSE
  OBVIOUS
<1>1. PICK V \in B : \A W \in SUBSET V : W # V => W \notin B
  BY SmallestSubset
<1>2. V \in SUBSET S /\ V \in SUBSET T /\ g[V] # h[V]
  BY <1>1
<1>3. V # {}
  BY <1>2, SumUpToFacts
<1>4. PICK x \in V : x = Choice(V)
  BY <1>3, ChoiceIn
<1>5. g[V \ {x}] = h[V \ {x}]
  BY <1>1, <1>2, <1>4
<1>6. g[V] = f[x] + g[V \ {x}] /\ h[V] = f[x] + h[V \ {x}]
  BY <1>2, <1>3, <1>4, SumUpToFacts
<1> QED  BY <1>2, <1>5, <1>6

\* There is a solution: the ones of the smaller sets, put together.
LEMMA SolutionExists ==
    ASSUME NEW f, NEW S, IsFiniteSet(S)
    PROVE  SumUpTo(f, S, SolutionOf(f, S))
<1> DEFINE B == {T \in SUBSET S : ~SumUpTo(f, T, SolutionOf(f, T))}
<1> SUFFICES ASSUME B # {} PROVE FALSE
  OBVIOUS
<1>b. B \in SUBSET SUBSET S
  OBVIOUS
<1> HIDE DEF B
<1>1. PICK T \in B : \A U \in SUBSET T : U # T => U \notin B
  BY <1>b, SmallestSubset
<1> USE DEF B
<1>2. \A U \in SUBSET T : U # T => SumUpTo(f, U, SolutionOf(f, U))
  BY <1>1
<1> DEFINE part(s) == s \ {Choice(s)}
           it == [s \in SUBSET T |-> IF s = {} THEN 0 ELSE f[Choice(s)] + SolutionOf(f, part(s))[part(s)]]
<1>3. ASSUME NEW U \in SUBSET T, U # T PROVE it[U] = SolutionOf(f, U)[U]
  <2> DEFINE g == SolutionOf(f, U)
  <2>1. SumUpTo(f, U, g)
    BY <1>2, <1>3
  <2>2. CASE U = {}
    BY <2>1, <2>2, SumUpToFacts
  <2>3. CASE U # {}
    <3>1. PICK x \in U : x = Choice(U)
      BY <2>3, ChoiceIn
    <3>2. g[U] = f[x] + g[U \ {x}]
      BY <2>1, <2>3, <3>1, SumUpToFacts
    <3>3. U \ {x} \in SUBSET T /\ U \ {x} # T /\ U \ {x} \in SUBSET U
      BY <3>1
    <3>4. SumUpTo(f, U \ {x}, SolutionOf(f, U \ {x}))
      BY <1>2, <3>3
    <3>5. IsFiniteSet(U)
      BY FS_Subset
    <3>6. g[U \ {x}] = SolutionOf(f, U \ {x})[U \ {x}]
      BY <2>1, <3>3, <3>4, <3>5, SolutionsAgree
    <3>7. it[U] = f[x] + SolutionOf(f, U \ {x})[U \ {x}]
      BY <2>3, <3>1
    <3> QED  BY <3>2, <3>6, <3>7
  <2> QED  BY <2>2, <2>3
<1>4. ASSUME NEW s \in SUBSET T PROVE it[s] = IF s = {} THEN 0 ELSE f[Choice(s)] + it[s \ {Choice(s)}]
  <2>1. CASE s = {}
    BY <2>1
  <2>2. CASE s # {}
    <3>1. PICK x \in s : x = Choice(s)
      BY <2>2, ChoiceIn
    <3>2. s \ {x} \in SUBSET T /\ s \ {x} # T
      BY <3>1
    <3>3. it[s] = f[x] + SolutionOf(f, s \ {x})[s \ {x}]
      BY <2>2, <3>1
    <3>4. it[s \ {x}] = SolutionOf(f, s \ {x})[s \ {x}]
      BY <1>3, <3>2
    <3> QED  BY <2>2, <3>1, <3>3, <3>4
  <2> QED  BY <2>1, <2>2
<1>5. DOMAIN it = SUBSET T /\ it = [s \in SUBSET T |-> it[s]]
  OBVIOUS
<1> HIDE DEF it
<1>6. SumUpTo(f, T, it)
  BY <1>4, <1>5 DEF SumUpTo
<1>7. SumUpTo(f, T, SolutionOf(f, T))
  BY <1>6 DEF SolutionOf
<1> QED  BY <1>1, <1>7

\* The sum over the empty set, and over one with an element.
LEMMA SumOfChoice ==
    ASSUME NEW f, NEW S, IsFiniteSet(S)
    PROVE  SumFunctionOnSet(f, S) = IF S = {} THEN 0 ELSE f[Choice(S)] + SumFunctionOnSet(f, S \ {Choice(S)})
<1>1. SumUpTo(f, S, SolutionOf(f, S))
  BY SolutionExists
<1>2. CASE S = {}
  BY <1>1, <1>2, SumIsSolution, SumUpToFacts
<1>3. CASE S # {}
  <2>1. PICK x \in S : x = Choice(S)
    BY <1>3, ChoiceIn
  <2>2. SolutionOf(f, S)[S] = f[x] + SolutionOf(f, S)[S \ {x}]
    BY <1>1, <1>3, <2>1, SumUpToFacts
  <2>3. IsFiniteSet(S \ {x}) /\ S \ {x} \in SUBSET S
    BY FS_RemoveElement
  <2>4. SolutionOf(f, S)[S \ {x}] = SolutionOf(f, S \ {x})[S \ {x}]
    BY <1>1, <2>3, SolutionExists, SolutionsAgree
  <2> QED  BY <1>3, <2>1, <2>2, <2>4, SumIsSolution
<1> QED  BY <1>2, <1>3

\* Sums of naturals are naturals.
LEMMA SumNat ==
    ASSUME NEW f, NEW S, IsFiniteSet(S), \A x \in S : f[x] \in Nat
    PROVE  SumFunctionOnSet(f, S) \in Nat
<1> DEFINE B == {T \in SUBSET S : SumFunctionOnSet(f, T) \notin Nat}
<1> SUFFICES ASSUME B # {} PROVE FALSE
  OBVIOUS
<1>b. B \in SUBSET SUBSET S
  OBVIOUS
<1> HIDE DEF B
<1>1. PICK T \in B : \A U \in SUBSET T : U # T => U \notin B
  BY <1>b, SmallestSubset
<1> USE DEF B
<1>2. IsFiniteSet(T)
  BY FS_Subset
<1>3. T # {}
  <2>1. T = {} => SumFunctionOnSet(f, T) = 0
    BY <1>2, SumOfChoice
  <2> QED  BY <1>1, <2>1
<1>4. PICK x \in T : x = Choice(T)
  BY <1>3, ChoiceIn
<1>5. SumFunctionOnSet(f, T \ {x}) \in Nat
  BY <1>1, <1>4
<1>6. SumFunctionOnSet(f, T) = f[x] + SumFunctionOnSet(f, T \ {x})
  BY <1>2, <1>3, <1>4, SumOfChoice
<1> QED  BY <1>1, <1>5, <1>6

\* Any element may be taken first.
LEMMA SumOfAny ==
    ASSUME NEW f, NEW S, IsFiniteSet(S), \A x \in S : f[x] \in Nat, NEW x \in S
    PROVE  SumFunctionOnSet(f, S) = f[x] + SumFunctionOnSet(f, S \ {x})
<1> DEFINE Off(T, y) == SumFunctionOnSet(f, T) # f[y] + SumFunctionOnSet(f, T \ {y})
           B == {T \in SUBSET S : \E y \in T : Off(T, y)}
<1> SUFFICES ASSUME B # {} PROVE FALSE
  OBVIOUS
<1>b. B \in SUBSET SUBSET S
  OBVIOUS
<1> HIDE DEF B
<1>1. PICK T \in B : \A U \in SUBSET T : U # T => U \notin B
  BY <1>b, SmallestSubset
<1> USE DEF B
<1>2. PICK y \in T : Off(T, y)
  BY <1>1
<1>3. PICK z \in T : z = Choice(T)
  BY <1>2, ChoiceIn
<1>4. IsFiniteSet(T) /\ \A U \in SUBSET T : IsFiniteSet(U)
  BY FS_Subset
<1>5. SumFunctionOnSet(f, T) = f[z] + SumFunctionOnSet(f, T \ {z})
  BY <1>3, <1>4, SumOfChoice
<1>6. y # z
  BY <1>2, <1>5
<1>7. ~Off(T \ {z}, y) /\ ~Off(T \ {y}, z)
  BY <1>1, <1>2, <1>3, <1>6
<1>8. PICK rest : rest = SumFunctionOnSet(f, (T \ {z}) \ {y})
  OBVIOUS
<1>9. (T \ {z}) \ {y} = (T \ {y}) \ {z}
  OBVIOUS
<1>10. rest \in Nat
  BY <1>4, <1>8, SumNat
<1>11. f[y] \in Nat /\ f[z] \in Nat
  BY <1>2, <1>3
<1>12. SumFunctionOnSet(f, T) = f[z] + (f[y] + rest)
  BY <1>5, <1>7, <1>8
<1>13. SumFunctionOnSet(f, T \ {y}) = f[z] + rest
  BY <1>7, <1>8, <1>9
<1>14. SumFunctionOnSet(f, T) = f[y] + SumFunctionOnSet(f, T \ {y})
  BY <1>10, <1>11, <1>12, <1>13
<1> QED  BY <1>2, <1>14

\* Only the values on the set matter.
LEMMA SumSame ==
    ASSUME NEW f, NEW g, NEW S, IsFiniteSet(S), \A x \in S : f[x] = g[x]
    PROVE  SumFunctionOnSet(f, S) = SumFunctionOnSet(g, S)
<1> DEFINE B == {T \in SUBSET S : SumFunctionOnSet(f, T) # SumFunctionOnSet(g, T)}
<1> SUFFICES ASSUME B # {} PROVE FALSE
  OBVIOUS
<1>b. B \in SUBSET SUBSET S
  OBVIOUS
<1> HIDE DEF B
<1>1. PICK T \in B : \A U \in SUBSET T : U # T => U \notin B
  BY <1>b, SmallestSubset
<1> USE DEF B
<1>2. IsFiniteSet(T)
  BY FS_Subset
<1>3. T # {}
  BY <1>1, <1>2, SumOfChoice
<1>4. PICK x \in T : x = Choice(T)
  BY <1>3, ChoiceIn
<1>5. SumFunctionOnSet(f, T \ {x}) = SumFunctionOnSet(g, T \ {x})
  BY <1>1, <1>4
<1>6. /\ SumFunctionOnSet(f, T) = f[x] + SumFunctionOnSet(f, T \ {x})
      /\ SumFunctionOnSet(g, T) = g[x] + SumFunctionOnSet(g, T \ {x})
  BY <1>2, <1>3, <1>4, SumOfChoice
<1> QED  BY <1>1, <1>5, <1>6

\* One value changes.
LEMMA SumChange ==
    ASSUME NEW S, IsFiniteSet(S), NEW f \in [S -> Nat], NEW g \in [S -> Nat], NEW x \in S,
           \A y \in S \ {x} : f[y] = g[y]
    PROVE  /\ SumFunction(f) \in Nat /\ SumFunction(g) \in Nat
           /\ SumFunction(g) + f[x] = SumFunction(f) + g[x]
<1>1. SumFunction(f) = SumFunctionOnSet(f, S) /\ SumFunction(g) = SumFunctionOnSet(g, S)
  BY DEF SumFunction
<1>2. /\ SumFunctionOnSet(f, S) = f[x] + SumFunctionOnSet(f, S \ {x})
      /\ SumFunctionOnSet(g, S) = g[x] + SumFunctionOnSet(g, S \ {x})
  BY SumOfAny
<1>3. IsFiniteSet(S \ {x})
  BY FS_RemoveElement
<1>4. SumFunctionOnSet(f, S \ {x}) = SumFunctionOnSet(g, S \ {x}) /\ SumFunctionOnSet(f, S \ {x}) \in Nat
  BY <1>3, SumSame, SumNat
<1> QED  BY <1>1, <1>2, <1>4

\* The sum of a value on a part of the set.
LEMMA SumOfPart ==
    ASSUME NEW S, IsFiniteSet(S), NEW E \in SUBSET S, NEW v \in Nat, NEW f,
           \A x \in S : f[x] = IF x \in E THEN v ELSE 0
    PROVE  SumFunctionOnSet(f, S) = Cardinality(E) * v
<1> DEFINE B == {T \in SUBSET S : SumFunctionOnSet(f, T) # Cardinality(E \cap T) * v}
<1>0. E \cap S = E
  OBVIOUS
<1> SUFFICES ASSUME B # {} PROVE FALSE
  BY <1>0
<1>b. B \in SUBSET SUBSET S
  OBVIOUS
<1> HIDE DEF B
<1>1. PICK T \in B : \A U \in SUBSET T : U # T => U \notin B
  BY <1>b, SmallestSubset
<1> USE DEF B
<1>2. IsFiniteSet(T) /\ IsFiniteSet(E \cap T)
  BY FS_Subset, FS_Intersection
<1>3. T # {}
  <2>1. Cardinality({}) * v = 0
    BY FS_EmptySet
  <2>2. T = {} => E \cap T = {}
    OBVIOUS
  <2> QED  BY <1>1, <1>2, <2>1, <2>2, SumOfChoice
<1>4. PICK x \in T : x = Choice(T)
  BY <1>3, ChoiceIn
<1>5. PICK U : U = E \cap (T \ {x})
  OBVIOUS
<1>6. SumFunctionOnSet(f, T \ {x}) = Cardinality(U) * v
  BY <1>1, <1>4, <1>5
<1>7. SumFunctionOnSet(f, T) = f[x] + SumFunctionOnSet(f, T \ {x})
  BY <1>2, <1>3, <1>4, SumOfChoice
<1>8. IsFiniteSet(U) /\ Cardinality(U) \in Nat
  BY <1>2, <1>5, FS_Subset, FS_CardinalityType
<1>9. CASE x \in E
  <2>1. E \cap T = U \cup {x} /\ x \notin U /\ f[x] = v
    BY <1>4, <1>5, <1>9
  <2>2. Cardinality(E \cap T) = Cardinality(U) + 1
    BY <1>8, <2>1, FS_AddElement
  <2>3. (Cardinality(U) + 1) * v = v + Cardinality(U) * v
    BY <1>8
  <2>4. SumFunctionOnSet(f, T) = v + Cardinality(U) * v
    BY <1>6, <1>7, <2>1
  <2> QED  BY <1>1, <2>2, <2>3, <2>4
<1>10. CASE x \notin E
  <2>1. E \cap T = U /\ f[x] = 0
    BY <1>4, <1>5, <1>10
  <2>2. PICK n \in Nat : n = Cardinality(U) * v
    BY <1>8
  <2>3. SumFunctionOnSet(f, T) = n
    BY <1>6, <1>7, <2>1, <2>2
  <2> QED  BY <1>1, <2>1, <2>2, <2>3
<1> QED  BY <1>9, <1>10

------------------------------------------------------------------------------
(***************************************************************************)
(* States of the chain.                                                    *)
(***************************************************************************)
\* The fee is a number, and the parameters of the block weights are what they are.
LEMMA FeeNat ==
    ASSUME NEW t \in Extrinsics
    PROVE  Fee(t) \in Nat
BY CollationAssumption DEF Fee, WeightToFee, MILLI_UNIT, ExtrinsicBaseWeight, TransactionByteFee, Extrinsic

\* The signer's nonce goes up by one or, with a death, back to zero.
SignerAfter(before, after, t) ==
    \/ after.nonce[t.who] = before.nonce[t.who] + 1 /\ after.deaths = before.deaths
    \/ /\ after.nonce[t.who] = 0
       /\ after.deaths = [before.deaths EXCEPT ![t.who] = @ + 1]

\* The three sums are numbers.
LEMMA SumsNat ==
    ASSUME NEW st \in State
    PROVE  Held(st) \in Nat /\ FeesPaid(st) \in Nat /\ Deaths(st) \in Nat
<1>0. IsFiniteSet(Accounts) /\ IsFiniteSet(Extrinsics)
  BY CollationAssumption
<1>1. ASSUME NEW S, IsFiniteSet(S), NEW f \in [S -> Nat] PROVE SumFunction(f) \in Nat
  <2>1. SumFunction(f) = SumFunctionOnSet(f, S)
    BY DEF SumFunction
  <2> QED  BY <1>1, <2>1, SumNat
<1>2. st.balance \in [Accounts -> Nat] /\ st.deaths \in [Accounts -> Nat]
  BY DEF State
<1>3. [t \in Extrinsics |-> st.applied[t] * Fee(t)] \in [Extrinsics -> Nat]
  BY FeeNat DEF State
<1> QED  BY <1>0, <1>1, <1>2, <1>3 DEF Held, FeesPaid, Deaths

\* One account has more or less than before.
LEMMA HeldChange ==
    ASSUME NEW st \in State, NEW post \in State, NEW a \in Accounts,
           \A b \in Accounts \ {a} : post.balance[b] = st.balance[b]
    PROVE  Held(post) + st.balance[a] = Held(st) + post.balance[a]
<1>1. PICK f \in [Accounts -> Nat] : f = st.balance
  BY DEF State
<1>2. PICK g \in [Accounts -> Nat] : g = post.balance
  BY DEF State
<1>3. IsFiniteSet(Accounts) /\ \A b \in Accounts \ {a} : f[b] = g[b]
  BY <1>1, <1>2, CollationAssumption
<1>4. SumFunction(g) + f[a] = SumFunction(f) + g[a]
  BY <1>3, SumChange
<1> QED  BY <1>1, <1>2, <1>4 DEF Held

\* What one account sends, another one receives.
LEMMA HeldMoved ==
    ASSUME NEW st \in State, NEW post \in State, NEW a \in Accounts, NEW b \in Accounts, a # b,
           NEW v \in Nat, st.balance[a] >= v,
           post.balance = [st.balance EXCEPT ![a] = @ - v, ![b] = @ + v]
    PROVE  Held(post) = Held(st)
<1>1. PICK f \in [Accounts -> Nat] : f = st.balance
  BY DEF State
<1>2. PICK g \in [Accounts -> Nat] : g = post.balance
  BY DEF State
<1>3. PICK h : h = [f EXCEPT ![a] = @ - v]
  OBVIOUS
<1>4. f[a] \in Nat /\ f[b] \in Nat /\ f[a] >= v
  BY <1>1
<1>5. h \in [Accounts -> Nat] /\ h[a] = f[a] - v /\ h[b] = f[b] /\ \A x \in Accounts \ {a} : f[x] = h[x]
  BY <1>3, <1>4
<1>6. g[b] = h[b] + v /\ \A x \in Accounts \ {b} : h[x] = g[x]
  BY <1>1, <1>2, <1>3, <1>5
<1>7. IsFiniteSet(Accounts)
  BY CollationAssumption
<1>8. /\ SumFunction(f) \in Nat /\ SumFunction(h) \in Nat
      /\ SumFunction(h) + f[a] = SumFunction(f) + h[a]
  BY <1>5, <1>7, SumChange
<1>9. /\ SumFunction(g) \in Nat
      /\ SumFunction(g) + h[b] = SumFunction(h) + g[b]
  BY <1>5, <1>6, <1>7, SumChange
<1>10. SumFunction(g) = SumFunction(f)
  BY <1>4, <1>5, <1>6, <1>8, <1>9
<1> QED  BY <1>1, <1>2, <1>10 DEF Held

\* One more extrinsic has paid its fee.
LEMMA FeesChange ==
    ASSUME NEW st \in State, NEW post \in State, NEW t \in Extrinsics,
           post.applied = [st.applied EXCEPT ![t] = @ + 1]
    PROVE  FeesPaid(post) = FeesPaid(st) + Fee(t)
<1>1. PICK f : f = [u \in Extrinsics |-> st.applied[u] * Fee(u)]
  OBVIOUS
<1>2. PICK g : g = [u \in Extrinsics |-> post.applied[u] * Fee(u)]
  OBVIOUS
<1>3. st.applied \in [Extrinsics -> Nat] /\ post.applied \in [Extrinsics -> Nat]
  BY DEF State
<1>4. f \in [Extrinsics -> Nat] /\ g \in [Extrinsics -> Nat]
  BY <1>1, <1>2, <1>3, FeeNat
<1>5. \A u \in Extrinsics \ {t} : f[u] = g[u]
  BY <1>1, <1>2, <1>3
<1>6. g[t] = f[t] + Fee(t) /\ f[t] \in Nat /\ g[t] \in Nat /\ Fee(t) \in Nat
  <2>1. PICK n \in Nat : st.applied[t] = n /\ post.applied[t] = n + 1
    BY <1>3
  <2>2. PICK fee \in Nat : fee = Fee(t)
    BY FeeNat
  <2>3. f[t] = n * fee /\ g[t] = (n + 1) * fee
    BY <1>1, <1>2, <2>1, <2>2
  <2>4. (n + 1) * fee = n * fee + fee
    OBVIOUS
  <2> QED  BY <1>4, <2>2, <2>3, <2>4
<1>7. /\ SumFunction(f) \in Nat /\ SumFunction(g) \in Nat
      /\ SumFunction(g) + f[t] = SumFunction(f) + g[t]
  <2>1. IsFiniteSet(Extrinsics)
    BY CollationAssumption
  <2> QED  BY <1>4, <1>5, <2>1, SumChange
<1>8. SumFunction(g) = SumFunction(f) + Fee(t)
  BY <1>6, <1>7
<1> QED  BY <1>1, <1>2, <1>8 DEF FeesPaid

\* One more death.
LEMMA DeathsChange ==
    ASSUME NEW st \in State, NEW post \in State, NEW a \in Accounts,
           post.deaths = [st.deaths EXCEPT ![a] = @ + 1]
    PROVE  Deaths(post) = Deaths(st) + 1
<1>1. PICK f \in [Accounts -> Nat] : f = st.deaths
  BY DEF State
<1>2. PICK g \in [Accounts -> Nat] : g = post.deaths
  BY DEF State
<1>3. /\ IsFiniteSet(Accounts) /\ \A b \in Accounts \ {a} : f[b] = g[b]
      /\ g[a] = f[a] + 1 /\ f[a] \in Nat
  BY <1>1, <1>2, CollationAssumption
<1>4. /\ SumFunction(f) \in Nat /\ SumFunction(g) \in Nat
      /\ SumFunction(g) + f[a] = SumFunction(f) + g[a]
  BY <1>3, SumChange
<1>5. SumFunction(g) = SumFunction(f) + 1
  BY <1>3, <1>4
<1> QED  BY <1>1, <1>2, <1>5 DEF Deaths

\* An extrinsic costs its fee and, with a death, the dust.
MoneyAfter(before, after, t) ==
    /\ FeesPaid(after) = FeesPaid(before) + Fee(t)
    /\ \/ Held(after) + Fee(t) = Held(before) /\ Deaths(after) = Deaths(before)
       \/ /\ Deaths(after) = Deaths(before) + 1
          /\ Held(after) + Fee(t) <= Held(before)
          /\ Held(before) <= Held(after) + Fee(t) + 999

\* What Applied does to the parts of a state that the properties are about.
LEMMA AppliedFacts ==
    ASSUME NEW st \in State, NEW t \in Extrinsics, CanPay(st, t)
    PROVE  /\ Applied(st, t) \in State
           /\ Applied(st, t).age = st.age
           /\ Applied(st, t).authored = st.authored
           /\ Applied(st, t).applied = [st.applied EXCEPT ![t] = @ + 1]
           /\ \A a \in Accounts \ {t.who} : Applied(st, t).nonce[a] = st.nonce[a]
           /\ SignerAfter(st, Applied(st, t), t)
           /\ MoneyAfter(st, Applied(st, t), t)
<1> DEFINE paid == [st EXCEPT !.nonce[t.who] = @ + 1, !.balance[t.who] = @ - Fee(t),
                              !.applied[t] = @ + 1]
           moved == [paid EXCEPT !.balance[t.who] = @ - t.value, !.balance[t.to] = @ + t.value]
<1>1. t.who \in Accounts /\ t.to \in Accounts /\ t.value \in Nat /\ t.who # t.to
  BY CollationAssumption DEF Extrinsic
<1>2. st.balance[t.who] >= Fee(t) /\ st.balance[t.who] \in Nat /\ Fee(t) \in Nat
  BY <1>1, FeeNat DEF CanPay, State, EXISTENTIAL_DEPOSIT, MILLI_UNIT
<1>3. /\ paid \in State
      /\ paid.age = st.age /\ paid.authored = st.authored /\ paid.deaths = st.deaths
      /\ paid.applied = [st.applied EXCEPT ![t] = @ + 1]
      /\ paid.nonce = [st.nonce EXCEPT ![t.who] = @ + 1]
      /\ Held(paid) + Fee(t) = Held(st) /\ FeesPaid(paid) = FeesPaid(st) + Fee(t)
      /\ Deaths(paid) = Deaths(st)
  <2>1. paid \in State
    <3> DEFINE counted == [st EXCEPT !.nonce[t.who] = @ + 1]
    <3>1. counted \in State /\ counted.balance = st.balance
      BY <1>1 DEF State
    <3> HIDE DEF counted
    <3> DEFINE charged == [counted EXCEPT !.balance[t.who] = @ - Fee(t)]
    <3>2. charged \in State
      BY <1>1, <1>2, <3>1 DEF State
    <3> HIDE DEF charged
    <3>3. [charged EXCEPT !.applied[t] = @ + 1] \in State
      BY <3>2 DEF State
    <3>4. paid = [charged EXCEPT !.applied[t] = @ + 1]
      BY DEF counted, charged
    <3> QED  BY <3>3, <3>4
  <2>2. paid.age = st.age /\ paid.authored = st.authored /\ paid.deaths = st.deaths
    BY DEF State
  <2>3. paid.applied = [st.applied EXCEPT ![t] = @ + 1]
    BY DEF State
  <2>4. paid.nonce = [st.nonce EXCEPT ![t.who] = @ + 1]
    BY DEF State
  <2>5. Held(paid) + Fee(t) = Held(st)
    <3>1. paid.balance = [st.balance EXCEPT ![t.who] = @ - Fee(t)]
      BY DEF State
    <3>2. st.balance \in [Accounts -> Nat]
      BY DEF State
    <3> HIDE DEF paid
    <3>3. /\ \A b \in Accounts \ {t.who} : paid.balance[b] = st.balance[b]
          /\ paid.balance[t.who] = st.balance[t.who] - Fee(t)
      BY <1>1, <1>2, <3>1, <3>2
    <3>4. Held(paid) + st.balance[t.who] = Held(st) + paid.balance[t.who]
      BY <1>1, <2>1, <3>3, HeldChange
    <3>5. Held(paid) \in Nat /\ Held(st) \in Nat
      BY <2>1, SumsNat
    <3> QED  BY <1>2, <3>3, <3>4, <3>5
  <2>6. FeesPaid(paid) = FeesPaid(st) + Fee(t) /\ Deaths(paid) = Deaths(st)
    <3> HIDE DEF paid
    <3> QED  BY <2>1, <2>2, <2>3, FeesChange DEF Deaths
  <2> QED  BY <2>1, <2>2, <2>3, <2>4, <2>5, <2>6
<1>4. CASE paid.balance[t.who] >= t.value /\ paid.balance[t.to] + t.value >= EXISTENTIAL_DEPOSIT
  <2> HIDE DEF paid
  <2>1. /\ moved \in State
        /\ moved.age = paid.age /\ moved.authored = paid.authored /\ moved.deaths = paid.deaths
        /\ moved.applied = paid.applied /\ moved.nonce = paid.nonce
        /\ Held(moved) = Held(paid)
    <3>1. moved \in State
      <4> DEFINE taken == [paid EXCEPT !.balance[t.who] = @ - t.value]
      <4>1. taken \in State
        BY <1>1, <1>3, <1>4 DEF State
      <4> HIDE DEF taken
      <4>2. [taken EXCEPT !.balance[t.to] = paid.balance[t.to] + t.value] \in State
        BY <1>1, <1>3, <4>1 DEF State
      <4>3. moved = [taken EXCEPT !.balance[t.to] = paid.balance[t.to] + t.value]
        BY DEF taken
      <4> QED  BY <4>2, <4>3
    <3>2. moved.age = paid.age /\ moved.authored = paid.authored /\ moved.deaths = paid.deaths
      BY <1>3 DEF State
    <3>3. moved.applied = paid.applied /\ moved.nonce = paid.nonce
      BY <1>3 DEF State
    <3>4. Held(moved) = Held(paid)
      <4>1. moved.balance = [paid.balance EXCEPT ![t.who] = @ - t.value, ![t.to] = @ + t.value]
        BY <1>3 DEF State
      <4> HIDE DEF moved
      <4> QED  BY <1>1, <1>3, <1>4, <3>1, <4>1, HeldMoved
    <3> QED  BY <3>1, <3>2, <3>3, <3>4
  <2>2. Applied(st, t) = Reaped(moved, t.who)
    BY <1>4 DEF Applied, Dispatched, paid
  <2> HIDE DEF moved
  <2>5. FeesPaid(moved) = FeesPaid(st) + Fee(t) /\ Deaths(moved) = Deaths(st) /\ Held(moved) + Fee(t) = Held(st)
    BY <1>3, <2>1 DEF FeesPaid, Deaths
  <2>3. CASE moved.balance[t.who] >= EXISTENTIAL_DEPOSIT
    <3>1. Applied(st, t) = moved
      BY <2>2, <2>3 DEF Reaped
    <3>2. MoneyAfter(st, moved, t)
      BY <2>5 DEF MoneyAfter
    <3> QED  BY <3>1, <3>2, <1>1, <1>3, <2>1 DEF SignerAfter, State
  <2>4. CASE ~(moved.balance[t.who] >= EXISTENTIAL_DEPOSIT)
    <3>1. Applied(st, t) = [moved EXCEPT !.balance[t.who] = 0, !.nonce[t.who] = 0, !.deaths[t.who] = @ + 1]
      BY <2>2, <2>4 DEF Reaped
    <3> DEFINE dead == [moved EXCEPT !.balance[t.who] = 0, !.nonce[t.who] = 0, !.deaths[t.who] = @ + 1]
    <3>2. dead \in State
      <4> DEFINE emptied == [moved EXCEPT !.balance[t.who] = 0]
      <4>1. emptied \in State /\ moved.balance[t.who] \in Nat
        BY <1>1, <2>1 DEF State
      <4> HIDE DEF emptied
      <4> DEFINE reset == [emptied EXCEPT !.nonce[t.who] = 0]
      <4>2. reset \in State
        BY <1>1, <4>1 DEF State
      <4> HIDE DEF reset
      <4>3. [reset EXCEPT !.deaths[t.who] = @ + 1] \in State
        BY <1>1, <4>2 DEF State
      <4>4. dead = [reset EXCEPT !.deaths[t.who] = @ + 1]
        BY DEF emptied, reset
      <4> QED  BY <4>3, <4>4
    <3>3. dead.age = moved.age /\ dead.authored = moved.authored /\ dead.applied = moved.applied
      BY <2>1 DEF State
    <3>4. dead.nonce = [moved.nonce EXCEPT ![t.who] = 0]
      BY <2>1 DEF State
    <3>5. dead.deaths = [moved.deaths EXCEPT ![t.who] = @ + 1]
      BY <2>1 DEF State
    <3>8. MoneyAfter(st, dead, t)
      <4>1. dead.balance = [moved.balance EXCEPT ![t.who] = 0]
        BY <2>1 DEF State
      <4>2. moved.balance \in [Accounts -> Nat]
        BY <2>1 DEF State
      <4> HIDE DEF dead
      <4>3. /\ \A b \in Accounts \ {t.who} : dead.balance[b] = moved.balance[b]
            /\ dead.balance[t.who] = 0 /\ moved.balance[t.who] \in Nat /\ moved.balance[t.who] <= 999
        BY <1>1, <2>4, <4>1, <4>2 DEF EXISTENTIAL_DEPOSIT, MILLI_UNIT
      <4>4. Held(dead) + moved.balance[t.who] = Held(moved) + dead.balance[t.who]
        BY <1>1, <2>1, <3>2, <4>3, HeldChange
      <4>5. /\ Held(dead) \in Nat /\ Held(moved) \in Nat /\ Held(st) \in Nat /\ Fee(t) \in Nat
        BY <1>2, <2>1, <3>2, SumsNat
      <4>6. Held(dead) + Fee(t) <= Held(st) /\ Held(st) <= Held(dead) + Fee(t) + 999
        BY <2>5, <4>3, <4>4, <4>5
      <4>7. Deaths(dead) = Deaths(st) + 1
        BY <1>1, <2>1, <2>5, <3>2, <3>5, DeathsChange
      <4>8. FeesPaid(dead) = FeesPaid(st) + Fee(t)
        BY <2>5, <3>3 DEF FeesPaid
      <4> QED  BY <4>6, <4>7, <4>8 DEF MoneyAfter
    <3> HIDE DEF dead
    <3>6. Applied(st, t) = dead
      BY <3>1 DEF dead
    <3>7. st.nonce \in [Accounts -> Nat] /\ st.deaths \in [Accounts -> Nat]
      BY DEF State
    <3> QED  BY <3>2, <3>3, <3>4, <3>5, <3>6, <3>7, <3>8, <1>1, <1>3, <2>1 DEF SignerAfter
  <2> QED  BY <2>3, <2>4
<1>5. CASE ~(paid.balance[t.who] >= t.value /\ paid.balance[t.to] + t.value >= EXISTENTIAL_DEPOSIT)
  <2>1. Applied(st, t) = paid
    BY <1>5 DEF Applied, Dispatched
  <2> HIDE DEF paid
  <2>2. MoneyAfter(st, paid, t)
    BY <1>3 DEF MoneyAfter
  <2> QED  BY <2>1, <2>2, <1>1, <1>3 DEF SignerAfter, State
<1> QED  BY <1>4, <1>5

(***************************************************************************)
(* A state is good when nonces guard the extrinsics: one that was applied  *)
(* more often than its account died has a nonce that has passed; and when  *)
(* its money is accounted for.                                             *)
(***************************************************************************)
GoodState(st) ==
    /\ st \in State
    /\ st.authored <= BLOCK_PROCESSING_VELOCITY + 1
    /\ MoneyOK(st)
    /\ \A t \in Extrinsics :
          st.applied[t] <= st.deaths[t.who] + (IF t.nonce < st.nonce[t.who] THEN 1 ELSE 0)

LEMMA GenesisGood == GoodState(testnet_genesis)
<1>1. /\ testnet_genesis \in State
      /\ testnet_genesis.authored <= BLOCK_PROCESSING_VELOCITY + 1
      /\ \A t \in Extrinsics :
            testnet_genesis.applied[t] <= testnet_genesis.deaths[t.who]
                                             + (IF t.nonce < testnet_genesis.nonce[t.who] THEN 1 ELSE 0)
  BY CollationAssumption DEF testnet_genesis, State, Extrinsic, BLOCK_PROCESSING_VELOCITY
<1>2. MoneyOK(testnet_genesis)
  <2>1. PICK f : f = [a \in Accounts |-> IF a \in Endowed THEN Endowment ELSE 0]
    OBVIOUS
  <2>2. Held(testnet_genesis) = Cardinality(Endowed) * Endowment
    <3>1. SumFunction(f) = SumFunctionOnSet(f, Accounts)
      BY <2>1 DEF SumFunction
    <3>2. SumFunctionOnSet(f, Accounts) = Cardinality(Endowed) * Endowment
      BY <2>1, CollationAssumption, SumOfPart
    <3> QED  BY <2>1, <3>1, <3>2 DEF Held, testnet_genesis
  <2>3. FeesPaid(testnet_genesis) = 0
    <3>1. PICK z : z = [t \in Extrinsics |-> testnet_genesis.applied[t] * Fee(t)]
      OBVIOUS
    <3>2. SumFunction(z) = SumFunctionOnSet(z, Extrinsics)
      BY <3>1 DEF SumFunction
    <3>3. \A t \in Extrinsics : z[t] = IF t \in {} THEN 0 ELSE 0
      BY <3>1, FeeNat DEF testnet_genesis
    <3>4. SumFunctionOnSet(z, Extrinsics) = Cardinality({}) * 0
      BY <3>3, CollationAssumption, SumOfPart
    <3> QED  BY <3>1, <3>2, <3>4, FS_EmptySet DEF FeesPaid
  <2>4. Deaths(testnet_genesis) = 0
    <3>1. PICK z : z = [a \in Accounts |-> 0]
      OBVIOUS
    <3>2. SumFunction(z) = SumFunctionOnSet(z, Accounts)
      BY <3>1 DEF SumFunction
    <3>3. \A a \in Accounts : z[a] = IF a \in {} THEN 0 ELSE 0
      BY <3>1
    <3>4. SumFunctionOnSet(z, Accounts) = Cardinality({}) * 0
      BY <3>3, CollationAssumption, SumOfPart
    <3> QED  BY <3>1, <3>2, <3>4, FS_EmptySet DEF Deaths, testnet_genesis
  <2>5. Cardinality(Endowed) * Endowment \in Nat
    BY CollationAssumption, FS_Subset, FS_CardinalityType
  <2> QED  BY <2>2, <2>3, <2>4, <2>5 DEF MoneyOK, EXISTENTIAL_DEPOSIT, MILLI_UNIT
<1> QED  BY <1>1, <1>2 DEF GoodState

\* A fee moves from one sum to another, and a death covers its dust.
LEMMA MoneyStaysOK ==
    ASSUME NEW st \in State, NEW post \in State, NEW t \in Extrinsics, MoneyOK(st), MoneyAfter(st, post, t)
    PROVE  MoneyOK(post)
<1>1. PICK e \in Nat : e = Cardinality(Endowed) * Endowment
  BY CollationAssumption, FS_Subset, FS_CardinalityType
<1>2. /\ Held(st) \in Nat /\ FeesPaid(st) \in Nat /\ Deaths(st) \in Nat
      /\ Held(post) \in Nat /\ FeesPaid(post) \in Nat /\ Deaths(post) \in Nat /\ Fee(t) \in Nat
  BY SumsNat, FeeNat
<1>3. EXISTENTIAL_DEPOSIT - 1 = 999
  BY DEF EXISTENTIAL_DEPOSIT, MILLI_UNIT
<1>4. Held(st) + FeesPaid(st) <= e /\ e <= Held(st) + FeesPaid(st) + Deaths(st) * 999
  BY <1>1, <1>3 DEF MoneyOK
<1>5. Held(post) + FeesPaid(post) <= e /\ e <= Held(post) + FeesPaid(post) + Deaths(post) * 999
  BY <1>1, <1>2, <1>4 DEF MoneyAfter
<1> QED  BY <1>1, <1>3, <1>5 DEF MoneyOK

LEMMA AppliedGood ==
    ASSUME NEW st, GoodState(st), NEW t \in Extrinsics, CanPay(st, t), t.nonce = st.nonce[t.who]
    PROVE  GoodState(Applied(st, t))
<1> DEFINE after == Applied(st, t)
<1>1. st \in State
  BY DEF GoodState
<1>2. /\ after \in State
      /\ after.authored = st.authored
      /\ after.applied = [st.applied EXCEPT ![t] = @ + 1]
      /\ \A a \in Accounts \ {t.who} : after.nonce[a] = st.nonce[a]
      /\ SignerAfter(st, after, t)
      /\ MoneyAfter(st, after, t)
  BY <1>1, AppliedFacts
<1> HIDE DEF after
<1>4. MoneyOK(after)
  BY <1>1, <1>2, MoneyStaysOK DEF GoodState
<1>3. ASSUME NEW u \in Extrinsics
      PROVE  after.applied[u] <= after.deaths[u.who] + (IF u.nonce < after.nonce[u.who] THEN 1 ELSE 0)
  <2>1. /\ u.who \in Accounts /\ t.who \in Accounts /\ u.nonce \in Nat /\ t.nonce \in Nat
        /\ st.applied \in [Extrinsics -> Nat] /\ st.deaths \in [Accounts -> Nat]
        /\ st.nonce \in [Accounts -> Nat]
    BY <1>1, CollationAssumption DEF Extrinsic, State
  <2>2. st.applied[u] <= st.deaths[u.who] + (IF u.nonce < st.nonce[u.who] THEN 1 ELSE 0)
    BY DEF GoodState
  <2>3. CASE u.who = t.who
    <3>1. CASE u = t
      BY <1>2, <2>1, <2>2, <3>1 DEF SignerAfter
    <3>2. CASE u # t
      BY <1>2, <2>1, <2>2, <2>3, <3>2 DEF SignerAfter
    <3> QED  BY <3>1, <3>2
  <2>4. CASE u.who # t.who
    <3>1. after.applied[u] = st.applied[u] /\ after.nonce[u.who] = st.nonce[u.who]
          /\ after.deaths[u.who] = st.deaths[u.who]
      BY <1>2, <2>1, <2>4 DEF SignerAfter
    <3> QED  BY <2>2, <3>1
  <2> QED  BY <2>3, <2>4
<1> QED  BY <1>2, <1>3, <1>4 DEF GoodState, after

\* The same state in another slot.
InSlot(post, st, age, authored) == post = [st EXCEPT !.age = age, !.authored = authored]

LEMMA RestartedFacts ==
    ASSUME NEW st, GoodState(st), NEW age \in 0 .. 2, NEW authored \in Nat,
           authored <= BLOCK_PROCESSING_VELOCITY + 1,
           NEW post, InSlot(post, st, age, authored)
    PROVE  /\ GoodState(post)
           /\ post.nonce = st.nonce /\ post.deaths = st.deaths
           /\ post.age = age /\ post.authored = authored
<1>1. st \in State
  BY DEF GoodState
<1>2. post \in State
  BY <1>1 DEF State, InSlot
<1>3. post.nonce = st.nonce /\ post.deaths = st.deaths /\ post.applied = st.applied
  BY <1>1 DEF State, InSlot
<1>6. MoneyOK(post)
  <2>1. post.balance = st.balance
    BY <1>1 DEF State, InSlot
  <2>2. Held(post) = Held(st) /\ FeesPaid(post) = FeesPaid(st) /\ Deaths(post) = Deaths(st)
    BY <1>3, <2>1 DEF Held, FeesPaid, Deaths
  <2> QED  BY <2>2 DEF MoneyOK, GoodState
<1>4. post.age = age /\ post.authored = authored
  BY <1>1 DEF State, InSlot
<1>5. GoodState(post)
  BY <1>2, <1>3, <1>4, <1>6 DEF GoodState
<1> QED  BY <1>3, <1>4, <1>5

LEMMA OlderFacts ==
    ASSUME NEW st, GoodState(st)
    PROVE  /\ GoodState(Older(st))
           /\ Older(st).nonce = st.nonce /\ Older(st).deaths = st.deaths
           /\ Older(st).age = IF st.age < 2 THEN st.age + 1 ELSE 2
<1>1. st \in State /\ st.age \in 0 .. 2
  BY DEF GoodState, State
<1>2. CASE st.age = 0
  <2>1. InSlot(Older(st), st, 1, st.authored)
    BY <1>1, <1>2 DEF Older, State, InSlot
  <2>2. st.authored \in Nat /\ st.authored <= BLOCK_PROCESSING_VELOCITY + 1
    BY DEF GoodState, State
  <2> QED  BY <2>1, <2>2, <1>2, RestartedFacts
<1>3. CASE st.age # 0
  <2>1. InSlot(Older(st), st, 2, 0)
    BY <1>3 DEF Older, InSlot
  <2>2. 0 <= BLOCK_PROCESSING_VELOCITY + 1
    BY DEF BLOCK_PROCESSING_VELOCITY
  <2> QED  BY <2>1, <2>2, <1>1, <1>3, RestartedFacts
<1> QED  BY <1>2, <1>3

\* The state in which a block starts.
Started(post, st, age) ==
    post = [st EXCEPT !.age = age, !.authored = IF st.age = age THEN @ + 1 ELSE 1]

LEMMA StartFacts ==
    ASSUME NEW st, GoodState(st), NEW n, NEW age \in 0 .. 1, can_build_upon(st, n, age),
           NEW post, Started(post, st, age)
    PROVE  /\ GoodState(post)
           /\ post.nonce = st.nonce /\ post.deaths = st.deaths
           /\ post.age = age /\ age <= st.age
<1> DEFINE authored == IF st.age = age THEN st.authored + 1 ELSE 1
<1>1. st \in State /\ st.age \in 0 .. 2 /\ st.authored \in Nat
  BY DEF GoodState, State
<1>2. authored \in Nat /\ authored <= BLOCK_PROCESSING_VELOCITY + 1 /\ age <= st.age
  BY <1>1 DEF can_build_upon, BLOCK_PROCESSING_VELOCITY
<1>3. InSlot(post, st, age, authored)
  BY <1>1 DEF State, InSlot, Started
<1> HIDE DEF authored
<1>4. age \in 0 .. 2
  OBVIOUS
<1> QED  BY <1>2, <1>3, <1>4, RestartedFacts

------------------------------------------------------------------------------
(***************************************************************************)
(* The inductive invariant.  A chain is seen as the states 0 .. Len(segment) *)
(* after the included block and after each block of the segment.           *)
(***************************************************************************)
StateAt(i) == IF i = 0 THEN base ELSE segment[i].post
TagsAt(i) == Tags(segment[i].txs)

\* The states are good ones, their slots do not go back.
StatesGood ==
    /\ Len(segment) <= UNINCLUDED_SEGMENT_CAPACITY
    /\ \A i \in 0 .. Len(segment) : GoodState(StateAt(i))
    /\ \A i, j \in 0 .. Len(segment) : i <= j => StateAt(i).age >= StateAt(j).age

\* A nonce passes only by an extrinsic with it in a block.
NoncesPass ==
    \A i, j \in 0 .. Len(segment), a \in Accounts, n \in Nat :
        i <= j /\ StateAt(i).nonce[a] <= n /\ n < StateAt(j).nonce[a] =>
            \E m \in i + 1 .. j : <<a, n>> \in TagsAt(m)

\* What a block contains is an extrinsic the pool takes back, if it can be paid.
BlocksAdmissible ==
    \A i \in 1 .. Len(segment) :
        \A t \in segment[i].txs : t.weight <= RuntimeBlockWeights[t.class].max_extrinsic

\* Seen from any state of the chain, what was reported has passed, waits, was refused,
\* or is in a block after it.
Kept(tag, i) ==
    \/ StateAt(i).nonce[tag[1]] > tag[2] \/ StateAt(i).deaths[tag[1]] > 0
    \/ tag \in Tags(pool) \cup refused
    \/ \E m \in i + 1 .. Len(segment) : tag \in TagsAt(m)

ReportedKept == \A i \in 0 .. Len(segment), u \in reported : Kept(Tag(u), i)

\* The weight of a block: over the limit only with what is reserved.
WeightOK(w) ==
    /\ w.Normal <= NormalMax
    /\ w.Normal > 0 => w.Normal + w.Mandatory <= MAXIMUM_BLOCK_WEIGHT
    /\ w.Mandatory <= BlockExecutionWeight + InherentsWeight + MessageQueueServiceWeight
    /\ Total(w) > MAXIMUM_BLOCK_WEIGHT => w.Operational <= MAXIMUM_BLOCK_WEIGHT - NormalMax

\* The state of the block under construction, compared with the one it started in.
After(post, head, txs) ==
    /\ post.age <= head.age
    /\ \A a \in Accounts : /\ post.nonce[a] >= head.nonce[a] \/ post.deaths[a] > 0
                           /\ post.deaths[a] >= head.deaths[a]
    /\ \A a \in Accounts, n \in Nat :
          head.nonce[a] <= n /\ n < post.nonce[a] => <<a, n>> \in Tags(txs)
    /\ \A t \in txs : post.nonce[t.who] > t.nonce \/ post.deaths[t.who] > 0

BuildingGood ==
    building # None =>
        /\ Len(segment) < UNINCLUDED_SEGMENT_CAPACITY
        /\ GoodState(building.post)
        /\ After(building.post, StateAt(Len(segment)), building.txs)
        /\ WeightOK(building.weight)
        /\ \A t \in building.txs : t.weight <= RuntimeBlockWeights[t.class].max_extrinsic

IInv ==
    /\ CollationTypeOK /\ StatesGood /\ NoncesPass /\ BlocksAdmissible
    /\ ReportedKept /\ BuildingGood

\* What the steps below need of the type of a state.
Fields(st) ==
    st.age \in 0 .. 2 /\ st.nonce \in [Accounts -> Nat] /\ st.deaths \in [Accounts -> Nat]

LEMMA StateFields ==
    ASSUME NEW st \in State
    PROVE  Fields(st)
BY DEF State, Fields

LEMMA ChainFacts ==
    ASSUME CollationTypeOK
    PROVE  /\ Len(segment) \in Nat /\ DOMAIN segment = 1 .. Len(segment)
           /\ Best = StateAt(Len(segment))
           /\ \A i \in 1 .. Len(segment) : segment[i] \in Block
           /\ \A i \in 0 .. Len(segment) : StateAt(i) \in State /\ Fields(StateAt(i))
           /\ building # None => building \in [author : Collators, txs : SUBSET Extrinsics,
                                               weight : Weights, post : State]
<1>1. segment \in Seq(Block) /\ base \in State
  BY DEF CollationTypeOK
<1>2. Len(segment) \in Nat /\ DOMAIN segment = 1 .. Len(segment)
  BY <1>1
<1>3. \A i \in 1 .. Len(segment) : segment[i] \in Block
  BY <1>1
<1>4. Best = StateAt(Len(segment))
  BY <1>1, <1>2 DEF Best, HeadOf, StateAt
<1>5. \A i \in 0 .. Len(segment) : StateAt(i) \in State
  BY <1>1, <1>3 DEF StateAt, Block
<1>7. \A i \in 0 .. Len(segment) : Fields(StateAt(i))
  BY <1>5, StateFields
<1>6. building # None => building \in [author : Collators, txs : SUBSET Extrinsics,
                                      weight : Weights, post : State]
  BY DEF CollationTypeOK
<1> QED  BY <1>2, <1>3, <1>4, <1>5, <1>6, <1>7

\* The tag of an extrinsic.
LEMMA TagFacts ==
    ASSUME NEW t \in Extrinsics
    PROVE  /\ t.who \in Accounts /\ t.nonce \in Nat /\ t.weight \in Nat
           /\ t.class \in {"Normal", "Operational"}
           /\ Tag(t) \in Accounts \X Nat /\ Tag(t)[1] = t.who /\ Tag(t)[2] = t.nonce
BY CollationAssumption DEF Extrinsic, Tag

LEMMA IInvInit == CollationInit => IInv
<1> SUFFICES ASSUME CollationInit PROVE IInv
  OBVIOUS
<1>1. GoodState(testnet_genesis) /\ testnet_genesis \in State
  BY GenesisGood DEF GoodState
<1>2. segment = <<>> /\ Len(segment) = 0 /\ base = testnet_genesis /\ building = None
  BY DEF CollationInit
<1>3. CollationTypeOK
  <2>1. Len(Authorities) \in Nat /\ Len(Authorities) > 0
    BY CollationAssumption
  <2> QED  BY <1>1, <2>1, CollationAssumption DEF CollationInit, CollationTypeOK
<1>4. StatesGood
  <2>1. StateAt(0) = base
    BY DEF StateAt
  <2>2. base.age \in 0 .. 2
    BY <1>1, <1>2 DEF State
  <2> QED  BY <1>1, <1>2, <2>1, <2>2 DEF StatesGood, UNINCLUDED_SEGMENT_CAPACITY
<1>5. NoncesPass
  <2>1. StateAt(0).nonce \in [Accounts -> Nat]
    BY <1>1, <1>2 DEF StateAt, State
  <2> QED  BY <1>2, <2>1 DEF NoncesPass
<1>6. BlocksAdmissible /\ ReportedKept /\ BuildingGood
  BY <1>2 DEF BlocksAdmissible, ReportedKept, BuildingGood, CollationInit
<1> QED  BY <1>3, <1>4, <1>5, <1>6 DEF IInv

------------------------------------------------------------------------------
(***************************************************************************)
(* Steps that leave the chain alone.                                       *)
(***************************************************************************)
LEMMA SameChain ==
    ASSUME IInv, UNCHANGED chainVars
    PROVE  /\ StatesGood' /\ NoncesPass' /\ BlocksAdmissible'
           /\ \A i : StateAt(i)' = StateAt(i) /\ TagsAt(i)' = TagsAt(i)
<1>1. base' = base /\ segment' = segment
  BY DEF chainVars
<1>2. \A i : StateAt(i)' = StateAt(i) /\ TagsAt(i)' = TagsAt(i)
  BY <1>1 DEF StateAt, TagsAt, Tags
<1>3. StatesGood'
  BY <1>1, <1>2 DEF IInv, StatesGood
<1>4. NoncesPass'
  BY <1>1, <1>2 DEF IInv, NoncesPass
<1>5. BlocksAdmissible'
  BY <1>1 DEF IInv, BlocksAdmissible
<1> QED  BY <1>2, <1>3, <1>4, <1>5

\* The extrinsics reported stay kept when no tag leaves the pool and the history.
LEMMA StillKept ==
    ASSUME IInv, UNCHANGED <<chainVars, reported>>,
           Tags(pool) \cup refused \subseteq (Tags(pool) \cup refused)'
    PROVE  ReportedKept'
<1>1. segment' = segment
  BY DEF chainVars
<1>2. \A i : StateAt(i)' = StateAt(i) /\ TagsAt(i)' = TagsAt(i)
  BY SameChain
<1>3. ASSUME NEW i \in 0 .. Len(segment), NEW u \in reported
      PROVE  Kept(Tag(u), i)'
  <2>1. Kept(Tag(u), i)
    BY DEF IInv, ReportedKept
  <2> QED  BY <1>1, <1>2, <2>1 DEF Kept, Tag
<1> QED  BY <1>1, <1>3 DEF ReportedKept, Tag

\* A block that is left alone on a chain that is left alone.
LEMMA SameBuilding ==
    ASSUME IInv, UNCHANGED <<chainVars, building>>
    PROVE  BuildingGood'
<1>1. segment' = segment /\ building' = building
  BY DEF chainVars
<1>2. StateAt(Len(segment))' = StateAt(Len(segment))
  BY SameChain, <1>1
<1> QED  BY <1>1, <1>2 DEF IInv, BuildingGood, After, Tags

LEMMA SubmitStep ==
    ASSUME IInv, NEW t \in Extrinsics, submit(t)
    PROVE  IInv'
<1>1. /\ pool' = {u \in pool : Tag(u) # Tag(t)} \cup {t}
      /\ UNCHANGED <<reported, refused, chainVars, building, turn, retractions>>
  BY DEF submit
<1>2. CollationTypeOK'
  BY <1>1 DEF IInv, CollationTypeOK, chainVars, Tag
<1>3. Tags(pool) \subseteq Tags(pool)'
  BY <1>1 DEF Tags, Tag
<1> QED  BY <1>1, <1>2, <1>3, SameChain, StillKept, SameBuilding DEF IInv

LEMMA ReportInvalidStep ==
    ASSUME IInv, NEW t \in Extrinsics, reportInvalid(t)
    PROVE  IInv'
<1>1. /\ pool' = pool \ {t} /\ refused' = refused \cup {Tag(t)}
      /\ UNCHANGED <<reported, chainVars, building, turn, retractions>>
  BY DEF reportInvalid
<1>2. CollationTypeOK'
  BY <1>1, TagFacts DEF IInv, CollationTypeOK, chainVars, Tag
<1>3. Tags(pool) \cup refused \subseteq (Tags(pool) \cup refused)'
  BY <1>1 DEF Tags, Tag
<1> QED  BY <1>1, <1>2, <1>3, SameChain, StillKept, SameBuilding DEF IInv

LEMMA CrashStep ==
    ASSUME IInv, crash
    PROVE  IInv'
<1>1. building' = None /\ UNCHANGED <<poolVars, chainVars, turn, retractions>>
  BY DEF crash
<1>2. CollationTypeOK'
  BY <1>1 DEF IInv, CollationTypeOK, chainVars, poolVars, Tag
<1>3. Tags(pool)' = Tags(pool)
  BY <1>1 DEF poolVars, Tags
<1>4. BuildingGood'
  BY <1>1 DEF BuildingGood
<1> QED  BY <1>1, <1>2, <1>3, <1>4, SameChain, StillKept DEF IInv, poolVars

------------------------------------------------------------------------------
(***************************************************************************)
(* Building a block.                                                       *)
(***************************************************************************)
LEMMA WeightParameters ==
    /\ NormalMax = 12000 /\ MAXIMUM_BLOCK_WEIGHT = 16000
    /\ BlockExecutionWeight = 40 /\ MessageQueueServiceWeight = 5600 /\ ExtrinsicBaseWeight = 1
    /\ InherentsWeight \in Nat /\ InherentsWeight <= 802
    /\ RuntimeBlockWeights["Normal"].max_total = 12000
    /\ RuntimeBlockWeights["Normal"].reserved = 0
    /\ RuntimeBlockWeights["Operational"].reserved = 4000
BY HooksAssumption
   DEF NormalMax, MAXIMUM_BLOCK_WEIGHT, BlockExecutionWeight, MessageQueueServiceWeight,
       ExtrinsicBaseWeight, InherentsWeight, AverageOnInitialize, RuntimeBlockWeights

LEMMA ConsumedOK ==
    ASSUME NEW w \in Weights, WeightOK(w), NEW t \in Extrinsics, Fits(w, t)
    PROVE  Consumed(w, t) \in Weights /\ WeightOK(Consumed(w, t))
<1> DEFINE after == Consumed(w, t)
<1>1. w.Normal \in Nat /\ w.Operational \in Nat /\ w.Mandatory \in Nat
  BY DEF Weights
<1>2. CASE t.class = "Normal"
  <2>1. /\ after \in Weights
        /\ after.Normal = w.Normal + t.weight + 1
        /\ after.Operational = w.Operational /\ after.Mandatory = w.Mandatory
    BY <1>2, TagFacts, WeightParameters DEF Consumed, Weights
  <2> HIDE DEF after
  <2>2. /\ after.Normal <= 12000
        /\ Total(after) > 16000 => after.Normal <= 0
    BY <1>2, WeightParameters DEF Fits, after
  <2>3. after.Normal > 0
    BY <2>1, <1>1, TagFacts
  <2> QED  BY <1>1, <2>1, <2>2, <2>3, TagFacts, WeightParameters DEF WeightOK, Total, after
<1>3. CASE t.class = "Operational"
  <2>1. /\ after \in Weights
        /\ after.Operational = w.Operational + t.weight + 1
        /\ after.Normal = w.Normal /\ after.Mandatory = w.Mandatory
    BY <1>3, TagFacts, WeightParameters DEF Consumed, Weights
  <2> HIDE DEF after
  <2>2. Total(after) > 16000 => after.Operational <= 4000
    BY <1>3, WeightParameters DEF Fits, after
  <2> QED  BY <1>1, <2>1, <2>2, TagFacts, WeightParameters DEF WeightOK, Total, after
<1> QED  BY <1>2, <1>3, TagFacts

LEMMA AfterStarted ==
    ASSUME NEW head \in State, NEW post \in State, post.nonce = head.nonce,
           post.deaths = head.deaths, post.age <= head.age
    PROVE  After(post, head, {})
BY DEF After, State

LEMMA AfterApplied ==
    ASSUME NEW head \in State, NEW post \in State, NEW txs \in SUBSET Extrinsics,
           After(post, head, txs),
           NEW t \in Extrinsics, CanPay(post, t), t.nonce = post.nonce[t.who]
    PROVE  After(Applied(post, t), head, txs \cup {t})
<1> DEFINE new == Applied(post, t)
<1>1. /\ new \in State /\ new.age = post.age
      /\ \A a \in Accounts \ {t.who} : new.nonce[a] = post.nonce[a]
      /\ SignerAfter(post, new, t)
  BY AppliedFacts
<1> HIDE DEF new
<1>2. /\ post.nonce \in [Accounts -> Nat] /\ post.deaths \in [Accounts -> Nat]
      /\ new.nonce \in [Accounts -> Nat] /\ new.deaths \in [Accounts -> Nat]
      /\ head.nonce \in [Accounts -> Nat] /\ head.deaths \in [Accounts -> Nat]
  BY <1>1 DEF State
<1>3. t.who \in Accounts /\ t.nonce \in Nat
  BY TagFacts
<1>4. ASSUME NEW a \in Accounts
      PROVE  /\ \/ new.nonce[a] = post.nonce[a] /\ new.deaths[a] = post.deaths[a] /\ a # t.who
                \/ new.nonce[a] = post.nonce[a] + 1 /\ new.deaths[a] = post.deaths[a] /\ a = t.who
                \/ new.nonce[a] = 0 /\ new.deaths[a] > 0 /\ a = t.who
             /\ new.deaths[a] >= post.deaths[a]
  BY <1>1, <1>2, <1>3 DEF SignerAfter
<1>5. \A a \in Accounts : /\ new.nonce[a] >= head.nonce[a] \/ new.deaths[a] > 0
                          /\ new.deaths[a] >= head.deaths[a]
  BY <1>2, <1>4 DEF After
<1>6. ASSUME NEW a \in Accounts, NEW n \in Nat, head.nonce[a] <= n, n < new.nonce[a]
      PROVE  <<a, n>> \in Tags(txs \cup {t})
  <2>1. CASE n < post.nonce[a]
    BY <1>6, <2>1 DEF After, Tags
  <2>2. CASE a = t.who /\ n = t.nonce
    BY <2>2 DEF Tags, Tag
  <2> QED  BY <1>2, <1>4, <1>6, <2>1, <2>2
<1>7. ASSUME NEW u \in txs \cup {t}
      PROVE  new.nonce[u.who] > u.nonce \/ new.deaths[u.who] > 0
  <2>1. u.who \in Accounts /\ u.nonce \in Nat
    BY TagFacts
  <2>2. CASE u = t
    BY <1>2, <1>3, <1>4, <2>2
  <2>3. CASE u \in txs
    BY <1>2, <1>4, <2>1, <2>3 DEF After
  <2> QED  BY <2>2, <2>3
<1>8. new.age <= head.age
  BY <1>1 DEF After
<1> QED  BY <1>5, <1>6, <1>7, <1>8 DEF After, new

LEMMA InitializeStep ==
    ASSUME IInv, NEW c \in Collators, NEW age \in 0 .. 1, NEW load \in QueueLoads,
           initialize_block(c, age, load)
    PROVE  IInv'
<1> DEFINE post == [Best EXCEPT !.age = age, !.authored = IF Best.age = age THEN @ + 1 ELSE 1]
           weight == [Normal |-> 0, Operational |-> 0,
                      Mandatory |-> BlockExecutionWeight + InherentsWeight + Serviced(load)]
<1>1. /\ building' = [author |-> c, txs |-> {}, weight |-> weight, post |-> post]
      /\ UNCHANGED <<poolVars, chainVars, turn, retractions>>
  BY DEF initialize_block
<1>2. can_build_upon(Best, Len(segment), age)
  BY DEF initialize_block
<1>3. Best = StateAt(Len(segment)) /\ Len(segment) \in Nat
  BY ChainFacts DEF IInv
<1>4. GoodState(Best) /\ Best \in State
  BY <1>3 DEF IInv, StatesGood, GoodState
<1>5. GoodState(post) /\ post.nonce = Best.nonce /\ post.deaths = Best.deaths
      /\ post.age <= Best.age
  <2>1. Started(post, Best, age)
    BY DEF Started
  <2> HIDE DEF post
  <2> QED  BY <1>2, <1>4, <2>1, StartFacts
<1>6. post \in State
  BY <1>5 DEF GoodState
<1> HIDE DEF post
<1>7. After(post, Best, {})
  BY <1>4, <1>5, <1>6, AfterStarted
<1>8. weight \in Weights /\ WeightOK(weight)
  <2>1. load \in Nat
    BY CollationAssumption
  <2>2. Serviced(load) \in Nat /\ Serviced(load) <= 5600
    BY <2>1, WeightParameters DEF Serviced
  <2> QED  BY <2>2, WeightParameters DEF WeightOK, Weights, Total
<1> HIDE DEF weight
<1>9. /\ building'.txs = {} /\ building'.weight = weight /\ building'.post = post
      /\ building' \in [author : Collators, txs : SUBSET Extrinsics, weight : Weights, post : State]
  BY <1>1, <1>6, <1>8
<1>10. CollationTypeOK'
  BY <1>1, <1>9 DEF IInv, CollationTypeOK, chainVars, poolVars, Tag
<1>11. Len(segment)' = Len(segment) /\ StateAt(Len(segment))' = Best
  BY <1>1, <1>3 DEF chainVars, StateAt
<1>12. BuildingGood'
  <2>1. After(building.post, StateAt(Len(segment)), building.txs)'
    BY <1>7, <1>9, <1>11 DEF After, Tags
  <2>2. Len(segment) < UNINCLUDED_SEGMENT_CAPACITY
    BY <1>2 DEF can_build_upon
  <2> QED  BY <1>5, <1>8, <1>9, <1>11, <2>1, <2>2 DEF BuildingGood
<1>13. Tags(pool)' = Tags(pool) /\ reported' = reported /\ refused' = refused
  BY <1>1 DEF poolVars, Tags
<1> QED  BY <1>1, <1>10, <1>12, <1>13, SameChain, StillKept DEF IInv

LEMMA ApplyStep ==
    ASSUME IInv, NEW t \in Extrinsics, apply_extrinsic(t)
    PROVE  IInv'
<1>1. /\ building # None /\ t.nonce = building.post.nonce[t.who]
      /\ CanPay(building.post, t) /\ Fits(building.weight, t)
      /\ building' = [building EXCEPT !.txs = @ \cup {t}, !.weight = Consumed(@, t),
                                     !.post = Applied(@, t)]
      /\ UNCHANGED <<poolVars, chainVars, turn, retractions>>
  BY DEF apply_extrinsic
<1>2. building \in [author : Collators, txs : SUBSET Extrinsics, weight : Weights, post : State]
  BY <1>1, ChainFacts DEF IInv
<1>3. /\ GoodState(building.post) /\ WeightOK(building.weight)
      /\ After(building.post, StateAt(Len(segment)), building.txs)
      /\ StateAt(Len(segment)) \in State
  BY <1>1, ChainFacts DEF IInv, BuildingGood
<1>4. Consumed(building.weight, t) \in Weights /\ WeightOK(Consumed(building.weight, t))
  BY <1>1, <1>2, <1>3, ConsumedOK
<1>5. GoodState(Applied(building.post, t)) /\ Applied(building.post, t) \in State
  BY <1>1, <1>3, AppliedGood DEF GoodState
<1>6. After(Applied(building.post, t), StateAt(Len(segment)), building.txs \cup {t})
  BY <1>1, <1>2, <1>3, AfterApplied
<1>7. /\ building'.txs = building.txs \cup {t}
      /\ building'.weight = Consumed(building.weight, t)
      /\ building'.post = Applied(building.post, t)
      /\ building' \in [author : Collators, txs : SUBSET Extrinsics, weight : Weights, post : State]
  BY <1>1, <1>2, <1>4, <1>5
<1>8. CollationTypeOK'
  BY <1>1, <1>7 DEF IInv, CollationTypeOK, chainVars, poolVars, Tag
<1>9. Len(segment)' = Len(segment) /\ StateAt(Len(segment))' = StateAt(Len(segment))
  BY <1>1 DEF chainVars, StateAt
<1>10. BuildingGood'
  <2>1. After(building.post, StateAt(Len(segment)), building.txs)'
    BY <1>6, <1>7, <1>9 DEF After, Tags
  <2>2. t.weight <= RuntimeBlockWeights[t.class].max_extrinsic
    BY <1>1 DEF Fits
  <2>3. \A u \in building.txs : u.weight <= RuntimeBlockWeights[u.class].max_extrinsic
    BY <1>1 DEF IInv, BuildingGood
  <2>4. Len(segment) < UNINCLUDED_SEGMENT_CAPACITY
    BY <1>1 DEF IInv, BuildingGood
  <2> QED  BY <1>4, <1>5, <1>7, <1>9, <2>1, <2>2, <2>3, <2>4 DEF BuildingGood
<1>11. Tags(pool)' = Tags(pool) /\ reported' = reported /\ refused' = refused
  BY <1>1 DEF poolVars, Tags
<1> QED  BY <1>1, <1>8, <1>10, <1>11, SameChain, StillKept DEF IInv

------------------------------------------------------------------------------
(***************************************************************************)
(* Steps of the chain.                                                     *)
(***************************************************************************)
LEMMA FinalizeStep ==
    ASSUME IInv, finalize_block
    PROVE  IInv'
<1>0. PICK L \in Nat : L = Len(segment)
  BY ChainFacts DEF IInv
<1> DEFINE new == [txs |-> building.txs, post |-> building.post]
<1>1. /\ building # None /\ building' = None /\ segment' = Append(segment, new)
      /\ pool' = {t \in pool : Tag(t) \notin Tags(building.txs)}
      /\ reported' = reported \cup building.txs
      /\ UNCHANGED <<refused, base, turn, retractions>>
  BY DEF finalize_block
<1>2. /\ building.txs \in SUBSET Extrinsics /\ building.post \in State
      /\ \A i \in 0 .. L : Fields(StateAt(i))
      /\ Fields(building.post)
      /\ segment \in Seq(Block) /\ reported \subseteq Extrinsics
  BY <1>0, <1>1, ChainFacts, StateFields DEF IInv, CollationTypeOK
<1>3. /\ L < UNINCLUDED_SEGMENT_CAPACITY /\ GoodState(building.post)
      /\ After(building.post, StateAt(L), building.txs)
      /\ \A t \in building.txs : t.weight <= RuntimeBlockWeights[t.class].max_extrinsic
  BY <1>0, <1>1 DEF IInv, BuildingGood
<1>4. new \in Block
  BY <1>0, <1>2 DEF Block
<1>5. /\ segment' \in Seq(Block) /\ Len(segment') = L + 1
      /\ \A i \in 1 .. L : segment'[i] = segment[i]
      /\ segment'[L + 1].txs = building.txs /\ segment'[L + 1].post = building.post
  BY <1>0, <1>1, <1>2, <1>4
<1>6. /\ \A i \in 0 .. L : StateAt(i)' = StateAt(i)
      /\ \A i \in 1 .. L : TagsAt(i)' = TagsAt(i)
      /\ StateAt(L + 1)' = building.post /\ TagsAt(L + 1)' = Tags(building.txs)
  BY <1>0, <1>1, <1>2, <1>5 DEF StateAt, TagsAt, Tags
<1> HIDE DEF new
<1>7. CollationTypeOK'
  BY <1>0, <1>1, <1>2, <1>5 DEF IInv, CollationTypeOK, Tag
<1>8. StatesGood'
  <2>1. L + 1 <= UNINCLUDED_SEGMENT_CAPACITY
    BY <1>0, <1>2, <1>3 DEF UNINCLUDED_SEGMENT_CAPACITY
  <2>2. ASSUME NEW i \in 0 .. L + 1 PROVE GoodState(StateAt(i)')
    BY <1>0, <1>2, <1>3, <1>6 DEF IInv, StatesGood
  <2>3. ASSUME NEW i \in 0 .. L + 1, NEW j \in 0 .. L + 1, i <= j
        PROVE  StateAt(i)'.age >= StateAt(j)'.age
    <3>1. building.post.age <= StateAt(L).age
      BY <1>0, <1>3 DEF After
    <3>2. \A k \in 0 .. L : StateAt(k).age \in 0 .. 2
      BY <1>2 DEF Fields
    <3>3. building.post.age \in 0 .. 2
      BY <1>2 DEF Fields
    <3>4. \A k \in 0 .. L : StateAt(k).age >= StateAt(L).age
      BY <1>0, <1>2 DEF IInv, StatesGood
    <3>5. CASE j = L + 1
      <4>1. CASE i = L + 1
        BY <1>6, <3>3, <3>5, <4>1
      <4>2. CASE i \in 0 .. L
        <5>1. StateAt(i)'.age = StateAt(i).age /\ StateAt(j)'.age = building.post.age
          BY <1>6, <3>5, <4>2
        <5> QED  BY <3>1, <3>2, <3>3, <3>4, <4>2, <5>1
      <4> QED  BY <4>1, <4>2
    <3>6. CASE j # L + 1
      BY <1>0, <1>2, <1>6, <2>3, <3>6 DEF IInv, StatesGood
    <3> QED  BY <3>5, <3>6
  <2> QED  BY <1>0, <1>5, <2>1, <2>2, <2>3 DEF StatesGood
<1>9. NoncesPass'
  <2>1. ASSUME NEW i \in 0 .. L + 1, NEW j \in 0 .. L + 1, NEW a \in Accounts, NEW n \in Nat,
               i <= j, StateAt(i)'.nonce[a] <= n, n < StateAt(j)'.nonce[a]
        PROVE  \E m \in i + 1 .. j : <<a, n>> \in TagsAt(m)'
    <3>1. CASE j \in 0 .. L
      <4>0. i \in 0 .. L /\ StateAt(i)' = StateAt(i) /\ StateAt(j)' = StateAt(j)
        BY <1>6, <2>1, <3>1
      <4>1. PICK m \in i + 1 .. j : <<a, n>> \in TagsAt(m)
        BY <1>0, <2>1, <3>1, <4>0 DEF IInv, NoncesPass
      <4>2. m \in 1 .. L
        BY <3>1, <4>0, <4>1
      <4> QED  BY <1>6, <4>1, <4>2
    <3>2. CASE j = L + 1
      <4>0. StateAt(j)' = building.post
        BY <1>6, <3>2
      <4>1. i \in 0 .. L /\ StateAt(i)' = StateAt(i)
        <5>1. i # L + 1
          BY <1>2, <2>1, <3>2, <4>0 DEF Fields
        <5>2. i \in 0 .. L
          BY <5>1
        <5> QED  BY <1>6, <5>2
      <4>2. StateAt(L).nonce[a] \in Nat
        <5>1. Fields(StateAt(L))
          BY <1>2
        <5> QED  BY <5>1 DEF Fields
      <4>3. CASE StateAt(L).nonce[a] <= n
        <5>1. <<a, n>> \in TagsAt(L + 1)'
          BY <1>3, <1>6, <2>1, <4>0, <4>3 DEF After
        <5>2. L + 1 \in i + 1 .. j
          BY <3>2, <4>1
        <5> QED  BY <5>1, <5>2
      <4>4. CASE n < StateAt(L).nonce[a]
        <5>1. PICK m \in i + 1 .. L : <<a, n>> \in TagsAt(m)
          BY <1>0, <2>1, <4>1, <4>4 DEF IInv, NoncesPass
        <5>2. m \in 1 .. L /\ m \in i + 1 .. j
          BY <3>2, <4>1, <5>1
        <5> QED  BY <1>6, <5>1, <5>2
      <4> QED  BY <4>2, <4>3, <4>4
    <3> QED  BY <2>1, <3>1, <3>2
  <2> QED  BY <1>0, <1>5, <2>1 DEF NoncesPass
<1>10. BlocksAdmissible'
  BY <1>0, <1>2, <1>3, <1>5 DEF IInv, BlocksAdmissible
<1>11. ReportedKept'
  <2>1. ASSUME NEW i \in 0 .. L + 1, NEW u \in reported \cup building.txs
        PROVE  Kept(Tag(u), i)'
    <3>1. u \in Extrinsics /\ u.who \in Accounts /\ u.nonce \in Nat
          /\ Tag(u)[1] = u.who /\ Tag(u)[2] = u.nonce
      BY <1>0, <1>2, TagFacts
    <3>2. CASE Tag(u) \in Tags(building.txs)
      <4>1. CASE i \in 0 .. L
        <5>1. L + 1 \in i + 1 .. Len(segment') /\ Tag(u) \in TagsAt(L + 1)'
          BY <1>5, <1>6, <3>2, <4>1
        <5> QED  BY <5>1 DEF Kept, Tag
      <4>2. CASE i = L + 1
        <5>1. PICK t \in building.txs : Tag(t) = Tag(u)
          BY <3>2 DEF Tags
        <5>2. t.who = u.who /\ t.nonce = u.nonce
          BY <5>1 DEF Tag
        <5>3. building.post.nonce[u.who] > u.nonce \/ building.post.deaths[u.who] > 0
          BY <1>0, <1>3, <5>1, <5>2 DEF After
        <5> QED  BY <1>0, <1>6, <3>1, <4>2, <5>3 DEF Kept, Tag
      <4> QED  BY <1>0, <1>2, <4>1, <4>2
    <3>3. CASE Tag(u) \notin Tags(building.txs)
      <4>1. u \in reported
        BY <3>3 DEF Tags
      <4>2. Tag(u) \in Tags(pool) => Tag(u) \in Tags(pool)'
        BY <1>0, <1>1, <3>3 DEF Tags, Tag
      <4>3. CASE i \in 0 .. L
        <5>1. Kept(Tag(u), i)
          BY <1>0, <4>1, <4>3 DEF IInv, ReportedKept
        <5>2. CASE \E m \in i + 1 .. L : Tag(u) \in TagsAt(m)
          <6>1. PICK m \in i + 1 .. L : Tag(u) \in TagsAt(m)
            BY <5>2
          <6>2. m \in i + 1 .. Len(segment') /\ Tag(u) \in TagsAt(m)'
            BY <1>5, <1>6, <4>3, <6>1
          <6> QED  BY <6>2 DEF Kept, Tag
        <5>3. StateAt(i)' = StateAt(i)
          BY <1>6, <4>3
        <5> QED  BY <1>0, <1>1, <4>2, <5>1, <5>2, <5>3 DEF Kept, Tag
      <4>4. CASE i = L + 1
        <5>1. Kept(Tag(u), L)
          BY <1>0, <1>2, <4>1 DEF IInv, ReportedKept
        <5>2. /\ building.post.nonce[u.who] \in Nat /\ StateAt(L).nonce[u.who] \in Nat
              /\ building.post.deaths[u.who] \in Nat /\ StateAt(L).deaths[u.who] \in Nat
          BY <1>2, <3>1 DEF Fields
        <5>3. /\ \/ building.post.nonce[u.who] >= StateAt(L).nonce[u.who]
                 \/ building.post.deaths[u.who] > 0
              /\ building.post.deaths[u.who] >= StateAt(L).deaths[u.who]
          BY <1>0, <1>3, <3>1 DEF After
        <5>4. CASE StateAt(L).nonce[u.who] > u.nonce \/ StateAt(L).deaths[u.who] > 0
          <6>1. building.post.nonce[u.who] > u.nonce \/ building.post.deaths[u.who] > 0
            BY <3>1, <5>2, <5>3, <5>4
          <6> QED  BY <1>0, <1>6, <3>1, <4>4, <6>1 DEF Kept, Tag
        <5>5. CASE Tag(u) \in Tags(pool) \cup refused
          BY <1>0, <1>1, <4>2, <5>5 DEF Kept, Tag
        <5> QED  BY <1>0, <1>2, <3>1, <5>1, <5>4, <5>5 DEF Kept
      <4> QED  BY <1>0, <1>2, <4>3, <4>4
    <3> QED  BY <3>2, <3>3
  <2> QED  BY <1>0, <1>1, <1>5, <2>1 DEF ReportedKept, Tag
<1>12. BuildingGood'
  BY <1>0, <1>1 DEF BuildingGood
<1> QED  BY <1>7, <1>8, <1>9, <1>10, <1>11, <1>12 DEF IInv

\* What is left of the chain is a part of it: include drops the first state, retract
\* the last ones.
LEMMA PartOfChain ==
    ASSUME IInv, NEW d \in Nat, NEW K \in Nat, K + d <= Len(segment), Len(segment') = K,
           \A i \in 0 .. K : StateAt(i)' = StateAt(i + d),
           \A i \in 1 .. K : segment'[i] = segment[i + d]
    PROVE  /\ StatesGood' /\ NoncesPass' /\ BlocksAdmissible'
           /\ \A i \in 1 .. K : TagsAt(i)' = TagsAt(i + d)
<1>0. PICK L \in Nat : L = Len(segment)
  BY ChainFacts DEF IInv
<1>1. \A i \in 1 .. K : TagsAt(i)' = TagsAt(i + d)
  BY DEF TagsAt, Tags
<1>2. \A i \in 0 .. K : i + d \in 0 .. L
  BY <1>0
<1>3. \A i \in 1 .. K : i + d \in 1 .. L
  BY <1>0
<1>4. StatesGood'
  <2>1. K <= UNINCLUDED_SEGMENT_CAPACITY
    BY <1>0 DEF IInv, StatesGood, UNINCLUDED_SEGMENT_CAPACITY
  <2>2. \A i \in 0 .. K : GoodState(StateAt(i)')
    BY <1>0, <1>2 DEF IInv, StatesGood
  <2>3. ASSUME NEW i \in 0 .. K, NEW j \in 0 .. K, i <= j
        PROVE  StateAt(i)'.age >= StateAt(j)'.age
    <3>1. i + d \in 0 .. L /\ j + d \in 0 .. L /\ i + d <= j + d
      BY <1>2, <2>3
    <3>2. StateAt(i + d).age >= StateAt(j + d).age
      BY <1>0, <3>1 DEF IInv, StatesGood
    <3> QED  BY <3>2
  <2> QED  BY <2>1, <2>2, <2>3 DEF StatesGood
<1>5. NoncesPass'
  <2>1. ASSUME NEW i \in 0 .. K, NEW j \in 0 .. K, NEW a \in Accounts, NEW n \in Nat,
               i <= j, StateAt(i)'.nonce[a] <= n, n < StateAt(j)'.nonce[a]
        PROVE  \E m \in i + 1 .. j : <<a, n>> \in TagsAt(m)'
    <3>0. i <= j
      BY <2>1
    <3>1. i + d \in 0 .. L /\ j + d \in 0 .. L /\ i + d <= j + d
      BY <1>2, <3>0
    <3>2. StateAt(i + d).nonce[a] <= n /\ n < StateAt(j + d).nonce[a]
      BY <2>1
    <3>3. PICK m \in (i + d) + 1 .. j + d : <<a, n>> \in TagsAt(m)
      BY <1>0, <3>1, <3>2 DEF IInv, NoncesPass
    <3>4. m - d \in i + 1 .. j /\ m - d \in 1 .. K /\ (m - d) + d = m
      BY <3>0, <3>3
    <3>5. TagsAt(m - d)' = TagsAt(m)
      BY <1>1, <3>4
    <3> QED  BY <3>3, <3>4, <3>5
  <2> QED  BY <2>1 DEF NoncesPass
<1>6. BlocksAdmissible'
  BY <1>0, <1>3 DEF IInv, BlocksAdmissible
<1> QED  BY <1>1, <1>4, <1>5, <1>6

LEMMA IncludeStep ==
    ASSUME IInv, include
    PROVE  IInv'
<1>0. PICK L \in Nat : L = Len(segment)
  BY ChainFacts DEF IInv
<1>1. /\ segment # <<>> /\ base' = segment[1].post /\ segment' = Tail(segment)
      /\ UNCHANGED <<poolVars, building, turn, retractions>>
  BY DEF include
<1>2. segment \in Seq(Block)
  BY DEF IInv, CollationTypeOK
<1>3. L > 0
  BY <1>0, <1>1, <1>2
<1>4. /\ segment' \in Seq(Block) /\ Len(segment') = L - 1
      /\ \A i \in 1 .. L - 1 : segment'[i] = segment[i + 1]
  BY <1>0, <1>1, <1>2, <1>3
<1>5. \A i \in 0 .. L - 1 : StateAt(i)' = StateAt(i + 1)
  BY <1>1, <1>4 DEF StateAt
<1>6. base' \in State
  <2>1. segment[1] \in Block
    BY <1>0, <1>2, <1>3
  <2> QED  BY <1>1, <2>1 DEF Block
<1>7. CollationTypeOK'
  BY <1>1, <1>4, <1>6 DEF IInv, CollationTypeOK, poolVars, Tag
<1>8. /\ StatesGood' /\ NoncesPass' /\ BlocksAdmissible'
      /\ \A i \in 1 .. L - 1 : TagsAt(i)' = TagsAt(i + 1)
  <2>1. PICK K \in Nat : K = L - 1
    BY <1>3
  <2>2. /\ K + 1 <= Len(segment) /\ Len(segment') = K
        /\ \A i \in 0 .. K : StateAt(i)' = StateAt(i + 1)
        /\ \A i \in 1 .. K : segment'[i] = segment[i + 1]
    BY <1>0, <1>4, <1>5, <2>1
  <2>3. /\ StatesGood' /\ NoncesPass' /\ BlocksAdmissible'
        /\ \A i \in 1 .. K : TagsAt(i)' = TagsAt(i + 1)
    BY <2>2, PartOfChain
  <2> QED  BY <2>1, <2>3
<1>9. ReportedKept'
  <2>1. ASSUME NEW i \in 0 .. L - 1, NEW u \in reported
        PROVE  Kept(Tag(u), i)'
    <3>1. Kept(Tag(u), i + 1)
      BY <1>0 DEF IInv, ReportedKept
    <3>2. Tags(pool)' = Tags(pool) /\ refused' = refused
      BY <1>1 DEF poolVars, Tags
    <3>3. StateAt(i)' = StateAt(i + 1)
      BY <1>5
    <3>4. CASE \E m \in (i + 1) + 1 .. L : Tag(u) \in TagsAt(m)
      <4>1. PICK m \in (i + 1) + 1 .. L : Tag(u) \in TagsAt(m)
        BY <3>4
      <4>2. m - 1 \in i + 1 .. L - 1 /\ m - 1 \in 1 .. L - 1 /\ (m - 1) + 1 = m
        BY <4>1
      <4>3. Tag(u) \in TagsAt(m - 1)'
        BY <1>8, <4>1, <4>2
      <4> QED  BY <1>4, <4>2, <4>3 DEF Kept, Tag
    <3> QED  BY <1>0, <3>1, <3>2, <3>3, <3>4 DEF Kept, Tag
  <2> QED  BY <1>1, <1>4, <2>1 DEF ReportedKept, Tag, poolVars
<1>10. BuildingGood'
  <2>1. StateAt(Len(segment))' = StateAt(Len(segment))
    BY <1>0, <1>1, <1>2, <1>3, <1>4 DEF StateAt
  <2>2. L - 1 < UNINCLUDED_SEGMENT_CAPACITY
    BY <1>0, <1>3 DEF IInv, StatesGood, UNINCLUDED_SEGMENT_CAPACITY
  <2> QED  BY <1>1, <1>4, <2>1, <2>2 DEF IInv, BuildingGood, After, Tags
<1> QED  BY <1>7, <1>8, <1>9, <1>10 DEF IInv

LEMMA NextSlotStep ==
    ASSUME IInv, nextSlot
    PROVE  IInv'
<1>0. PICK L \in Nat : L = Len(segment)
  BY ChainFacts DEF IInv
<1>1. /\ turn' = (turn + 1) % Len(Authorities) /\ base' = Older(base)
      /\ segment' = [i \in DOMAIN segment |-> [segment[i] EXCEPT !.post = Older(@)]]
      /\ building' = IF building = None THEN None ELSE [building EXCEPT !.post = Older(@)]
      /\ UNCHANGED <<poolVars, retractions>>
  BY DEF nextSlot
<1>2. segment \in Seq(Block) /\ DOMAIN segment = 1 .. L
  BY <1>0 DEF IInv, CollationTypeOK
<1>3. ASSUME NEW st, GoodState(st)
      PROVE  /\ Older(st) \in State
             /\ Older(st).nonce = st.nonce /\ Older(st).deaths = st.deaths
             /\ GoodState(Older(st)) /\ st.age \in 0 .. 2
             /\ Older(st).age = IF st.age < 2 THEN st.age + 1 ELSE 2
  BY <1>3, OlderFacts DEF GoodState, State
<1>4. \A i \in 0 .. L : GoodState(StateAt(i))
  BY <1>0 DEF IInv, StatesGood
<1>5. GoodState(base)
  BY <1>4 DEF StateAt
<1>6. ASSUME NEW i \in 1 .. L
      PROVE  /\ segment'[i] \in Block /\ segment'[i].txs = segment[i].txs
             /\ segment'[i].post = Older(segment[i].post)
  <2>1. segment[i] \in Block /\ GoodState(segment[i].post)
    BY <1>2, <1>4 DEF StateAt
  <2>2. Older(segment[i].post) \in State
    BY <1>3, <2>1
  <2>3. segment'[i] = [segment[i] EXCEPT !.post = Older(segment[i].post)]
    BY <1>1, <1>2
  <2> QED  BY <2>1, <2>2, <2>3 DEF Block
<1>7. segment' \in Seq(Block) /\ Len(segment') = L
  <2>1. segment' = [i \in 1 .. L |-> segment'[i]]
    BY <1>1, <1>2
  <2>2. \A i \in 1 .. L : segment'[i] \in Block
    BY <1>6
  <2> QED  BY <2>1, <2>2
<1>8. /\ \A i \in 0 .. L : StateAt(i)' = Older(StateAt(i))
      /\ \A i \in 1 .. L : TagsAt(i)' = TagsAt(i)
  <2>1. ASSUME NEW i \in 0 .. L PROVE StateAt(i)' = Older(StateAt(i))
    <3>1. CASE i = 0
      BY <1>1, <3>1 DEF StateAt
    <3>2. CASE i \in 1 .. L
      BY <1>6, <3>2 DEF StateAt
    <3> QED  BY <3>1, <3>2
  <2>2. \A i \in 1 .. L : TagsAt(i)' = TagsAt(i)
    BY <1>6 DEF TagsAt, Tags
  <2> QED  BY <2>1, <2>2
<1>9. \A i \in 0 .. L : /\ StateAt(i)'.nonce = StateAt(i).nonce
                         /\ StateAt(i)'.deaths = StateAt(i).deaths
  BY <1>3, <1>4, <1>8
<1>10. building # None => /\ building' \in [author : Collators, txs : SUBSET Extrinsics,
                                            weight : Weights, post : State]
                          /\ building'.post = Older(building.post)
                          /\ building'.txs = building.txs /\ building'.weight = building.weight
  <2> SUFFICES ASSUME building # None
               PROVE  /\ building' \in [author : Collators, txs : SUBSET Extrinsics,
                                         weight : Weights, post : State]
                      /\ building'.post = Older(building.post)
                      /\ building'.txs = building.txs /\ building'.weight = building.weight
    OBVIOUS
  <2>1. building \in [author : Collators, txs : SUBSET Extrinsics, weight : Weights, post : State]
    BY ChainFacts DEF IInv
  <2>2. Older(building.post) \in State
    BY <1>3 DEF IInv, BuildingGood
  <2> QED  BY <1>1, <2>1, <2>2
<1>11. CollationTypeOK'
  <2>1. base' \in State
    BY <1>1, <1>3, <1>5
  <2>2. turn' \in 0 .. Len(Authorities) - 1
    <3>1. Len(Authorities) \in Nat /\ Len(Authorities) > 0
      BY CollationAssumption
    <3>2. turn \in Nat
      BY <3>1 DEF IInv, CollationTypeOK
    <3> QED  BY <1>1, <3>1, <3>2
  <2>3. building' \in {None} \cup [author : Collators, txs : SUBSET Extrinsics,
                                   weight : Weights, post : State]
    BY <1>1, <1>10
  <2> QED  BY <1>1, <1>7, <2>1, <2>2, <2>3 DEF IInv, CollationTypeOK, poolVars, Tag
<1>12. StatesGood'
  <2>1. L <= UNINCLUDED_SEGMENT_CAPACITY
    BY <1>0 DEF IInv, StatesGood
  <2>2. \A i \in 0 .. L : GoodState(StateAt(i)')
    BY <1>3, <1>4, <1>8
  <2>3. ASSUME NEW i \in 0 .. L, NEW j \in 0 .. L, i <= j
        PROVE  StateAt(i)'.age >= StateAt(j)'.age
    <3>1. StateAt(i).age >= StateAt(j).age
      BY <1>0, <2>3 DEF IInv, StatesGood
    <3>2. /\ StateAt(i).age \in 0 .. 2 /\ StateAt(j).age \in 0 .. 2
          /\ StateAt(i)'.age = IF StateAt(i).age < 2 THEN StateAt(i).age + 1 ELSE 2
          /\ StateAt(j)'.age = IF StateAt(j).age < 2 THEN StateAt(j).age + 1 ELSE 2
      BY <1>3, <1>4, <1>8
    <3> QED  BY <3>1, <3>2
  <2> QED  BY <1>7, <2>1, <2>2, <2>3 DEF StatesGood
<1>13. NoncesPass'
  <2>1. ASSUME NEW i \in 0 .. L, NEW j \in 0 .. L, NEW a \in Accounts, NEW n \in Nat,
               i <= j, StateAt(i)'.nonce[a] <= n, n < StateAt(j)'.nonce[a]
        PROVE  \E m \in i + 1 .. j : <<a, n>> \in TagsAt(m)'
    <3>1. StateAt(i).nonce[a] <= n /\ n < StateAt(j).nonce[a]
      BY <1>9, <2>1
    <3>2. PICK m \in i + 1 .. j : <<a, n>> \in TagsAt(m)
      BY <1>0, <2>1, <3>1 DEF IInv, NoncesPass
    <3>3. m \in 1 .. L
      BY <3>2
    <3> QED  BY <1>8, <3>2, <3>3
  <2> QED  BY <1>7, <2>1 DEF NoncesPass
<1>14. BlocksAdmissible'
  BY <1>0, <1>6, <1>7 DEF IInv, BlocksAdmissible
<1>15. ReportedKept'
  <2>1. ASSUME NEW i \in 0 .. L, NEW u \in reported
        PROVE  Kept(Tag(u), i)'
    <3>1. Kept(Tag(u), i)
      BY <1>0 DEF IInv, ReportedKept
    <3>2. Tags(pool)' = Tags(pool) /\ refused' = refused
      BY <1>1 DEF poolVars, Tags
    <3>3. CASE \E m \in i + 1 .. L : Tag(u) \in TagsAt(m)
      <4>1. PICK m \in i + 1 .. L : Tag(u) \in TagsAt(m)
        BY <3>3
      <4>2. m \in 1 .. L
        BY <4>1
      <4>3. Tag(u) \in TagsAt(m)'
        BY <1>8, <4>1, <4>2
      <4> QED  BY <1>7, <4>1, <4>3 DEF Kept, Tag
    <3>4. StateAt(i)'.nonce = StateAt(i).nonce /\ StateAt(i)'.deaths = StateAt(i).deaths
      BY <1>9
    <3> QED  BY <1>0, <3>1, <3>2, <3>3, <3>4 DEF Kept, Tag
  <2> QED  BY <1>1, <1>7, <2>1 DEF ReportedKept, Tag, poolVars
<1>16. BuildingGood'
  <2>1. CASE building = None
    BY <1>1, <2>1 DEF BuildingGood
  <2>2. CASE building # None
    <3>1. /\ GoodState(building.post) /\ WeightOK(building.weight)
          /\ Len(segment) < UNINCLUDED_SEGMENT_CAPACITY
          /\ After(building.post, StateAt(L), building.txs)
          /\ \A t \in building.txs : t.weight <= RuntimeBlockWeights[t.class].max_extrinsic
      BY <1>0, <2>2 DEF IInv, BuildingGood
    <3>2. /\ building'.post = Older(building.post)
          /\ building'.txs = building.txs /\ building'.weight = building.weight
      BY <1>10, <2>2
    <3>3. StateAt(Len(segment))' = Older(StateAt(L)) /\ GoodState(StateAt(L))
      <4>1. StateAt(Len(segment))' = StateAt(L)'
        BY <1>7 DEF StateAt
      <4>2. StateAt(L)' = Older(StateAt(L)) /\ GoodState(StateAt(L))
        BY <1>4, <1>8
      <4> QED  BY <4>1, <4>2
    <3>4. After(Older(building.post), Older(StateAt(L)), building.txs)
      <4>1. /\ Older(building.post).nonce = building.post.nonce
            /\ Older(building.post).deaths = building.post.deaths
            /\ Older(StateAt(L)).nonce = StateAt(L).nonce
            /\ Older(StateAt(L)).deaths = StateAt(L).deaths
        BY <1>3, <3>1, <3>3
      <4>2. Older(building.post).age <= Older(StateAt(L)).age
        <5>1. building.post.age <= StateAt(L).age
          BY <3>1 DEF After
        <5> QED  BY <1>3, <3>1, <3>3, <5>1
      <4> QED  BY <3>1, <4>1, <4>2 DEF After
    <3>5. After(building.post, StateAt(Len(segment)), building.txs)'
      BY <3>2, <3>3, <3>4 DEF After, Tags
    <3>6. GoodState(building.post)'
      BY <1>3, <3>1, <3>2
    <3> QED  BY <1>0, <1>7, <3>1, <3>2, <3>5, <3>6 DEF BuildingGood
  <2> QED  BY <2>1, <2>2
<1> QED  BY <1>11, <1>12, <1>13, <1>14, <1>15, <1>16 DEF IInv

LEMMA RetractStep ==
    ASSUME IInv, NEW k \in DOMAIN segment, retract(k)
    PROVE  IInv'
<1>0. PICK L \in Nat : L = Len(segment)
  BY ChainFacts DEF IInv
<1> DEFINE kept == SubSeq(segment, 1, k - 1)
           lost == UNION {segment[i].txs : i \in k .. Len(segment)}
           head == HeadOf(base, kept)
<1>1. /\ retractions < MaxRetractions /\ retractions' = retractions + 1
      /\ segment' = kept /\ building' = None
      /\ \E s \in Resubmitted(lost, head) : pool' = pool \cup s
      /\ refused' = refused \cup {Tag(t) : t \in {u \in lost : ~CanPay(head, u)}}
      /\ UNCHANGED <<reported, base, turn>>
  BY DEF retract
<1>2. segment \in Seq(Block) /\ k \in 1 .. L
  BY <1>0 DEF IInv, CollationTypeOK
<1>3. PICK K \in 0 .. L - 1 : K = k - 1
  BY <1>2
<1>4. /\ segment' \in Seq(Block) /\ Len(segment') = K
      /\ \A i \in 1 .. K : segment'[i] = segment[i]
  BY <1>0, <1>1, <1>2, <1>3
<1>5. \A i \in 0 .. K : StateAt(i)' = StateAt(i)
  BY <1>1, <1>4 DEF StateAt
<1>6. head = StateAt(K) /\ head \in State
  <2>1. head = HeadOf(base, segment')
    BY <1>1
  <2>2. segment' = <<>> => K = 0
    BY <1>4
  <2>3. segment' # <<>> => K > 0
    BY <1>4
  <2>4. head = StateAt(K)
    BY <1>3, <1>4, <2>1, <2>2, <2>3 DEF HeadOf, StateAt
  <2> QED  BY <1>0, <1>3, <2>4, ChainFacts DEF IInv
<1>7. lost \subseteq Extrinsics
      /\ \A t \in lost : t.weight <= RuntimeBlockWeights[t.class].max_extrinsic
  <2>1. ASSUME NEW i \in k .. Len(segment)
        PROVE  /\ segment[i].txs \subseteq Extrinsics
               /\ \A t \in segment[i].txs : t.weight <= RuntimeBlockWeights[t.class].max_extrinsic
    <3>1. i \in 1 .. Len(segment)
      BY <1>0, <1>2
    <3>2. segment[i] \in Block
      BY <1>2, <3>1
    <3> QED  BY <3>1, <3>2 DEF IInv, BlocksAdmissible, Block
  <2> QED  BY <2>1
<1>8. \A m \in k .. L : TagsAt(m) \subseteq Tags(lost)
  BY <1>0 DEF TagsAt, Tags
<1> HIDE DEF kept, lost, head
<1>a. PICK valid : valid = {t \in lost : validate_transaction(head, t) /\ Tag(t) \notin Tags(pool)}
  OBVIOUS
<1>b. PICK s \in SUBSET valid : /\ pool' = pool \cup s
                                /\ \A t, u \in s : Tag(t) = Tag(u) => t = u
                                /\ Tags(s) = Tags(valid)
  BY <1>1, <1>a DEF Resubmitted
<1>9. /\ s \in SUBSET Extrinsics
      /\ pool' = pool \cup s
      /\ \A t \in s : Tag(t) \notin Tags(pool)
      /\ \A t, u \in s : Tag(t) = Tag(u) => t = u
      /\ \A t \in lost : validate_transaction(head, t) => Tag(t) \in Tags(s) \cup Tags(pool)
  <2>1. \A t \in valid : Tag(t) \in Tags(valid)
    BY DEF Tags
  <2>2. s \in SUBSET Extrinsics /\ \A t \in s : Tag(t) \notin Tags(pool)
    BY <1>7, <1>a, <1>b
  <2>3. \A t \in lost : validate_transaction(head, t) => t \in valid \/ Tag(t) \in Tags(pool)
    BY <1>a
  <2>4. \A g \in Tags(valid) : g \in Tags(s)
    BY <1>b
  <2>5. \A t \in lost : validate_transaction(head, t) => Tag(t) \in Tags(s) \cup Tags(pool)
    BY <2>1, <2>3, <2>4
  <2> QED  BY <1>b, <2>2, <2>5
<1>10. CollationTypeOK'
  <2>1. pool' \subseteq Extrinsics
    BY <1>9 DEF IInv, CollationTypeOK
  <2>2. ASSUME NEW t \in pool', NEW u \in pool', Tag(t) = Tag(u)
        PROVE  t = u
    <3>1. \A v \in pool : Tag(v) \in Tags(pool)
      BY DEF Tags
    <3>2. \A v, w \in pool : Tag(v) = Tag(w) => v = w
      BY DEF IInv, CollationTypeOK
    <3> QED  BY <1>9, <2>2, <3>1, <3>2
  <2>3. refused' \subseteq Accounts \X Nat
    <3>1. \A t \in lost : Tag(t) \in Accounts \X Nat
      BY <1>7, TagFacts
    <3> QED  BY <1>1, <3>1 DEF IInv, CollationTypeOK
  <2>4. retractions' \in 0 .. MaxRetractions
    BY <1>1, CollationAssumption DEF IInv, CollationTypeOK
  <2> QED  BY <1>1, <1>4, <2>1, <2>2, <2>3, <2>4 DEF IInv, CollationTypeOK, Tag
<1>11. /\ StatesGood' /\ NoncesPass' /\ BlocksAdmissible'
       /\ \A i \in 1 .. K : TagsAt(i)' = TagsAt(i)
  <2>1. /\ K + 0 <= Len(segment) /\ K \in Nat
        /\ \A i \in 0 .. K : StateAt(i)' = StateAt(i + 0)
        /\ \A i \in 1 .. K : segment'[i] = segment[i + 0]
    BY <1>0, <1>3, <1>4, <1>5
  <2>2. /\ StatesGood' /\ NoncesPass' /\ BlocksAdmissible'
        /\ \A i \in 1 .. K : TagsAt(i)' = TagsAt(i + 0)
    BY <1>4, <2>1, PartOfChain
  <2> QED  BY <2>2
<1>12. ReportedKept'
  <2>1. ASSUME NEW i \in 0 .. K, NEW u \in reported
        PROVE  Kept(Tag(u), i)'
    <3>1. Kept(Tag(u), i)
      BY <1>0, <1>3 DEF IInv, ReportedKept
    <3>2. StateAt(i)' = StateAt(i)
      BY <1>5
    <3>3. Tags(pool) \cup Tags(s) \cup refused \subseteq (Tags(pool) \cup refused)'
      BY <1>1, <1>9 DEF Tags, Tag
    <3>4. CASE \E m \in i + 1 .. K : Tag(u) \in TagsAt(m)
      <4>1. PICK m \in i + 1 .. K : Tag(u) \in TagsAt(m)
        BY <3>4
      <4>2. m \in 1 .. K /\ m \in i + 1 .. Len(segment')
        BY <1>4, <4>1
      <4>3. Tag(u) \in TagsAt(m)'
        BY <1>11, <4>1, <4>2
      <4> QED  BY <4>2, <4>3 DEF Kept, Tag
    <3>5. CASE \E m \in k .. L : Tag(u) \in TagsAt(m)
      <4>1. PICK t \in lost : Tag(t) = Tag(u)
        BY <1>8, <3>5 DEF Tags
      <4>2. t \in Extrinsics /\ t.who \in Accounts /\ t.nonce \in Nat
            /\ Tag(u) = <<t.who, t.nonce>> /\ Tag(u)[1] = t.who /\ Tag(u)[2] = t.nonce
        BY <1>7, <4>1, TagFacts DEF Tag
      <4>3. CASE validate_transaction(head, t)
        BY <1>9, <3>3, <4>1, <4>3 DEF Kept, Tag
      <4>4. CASE ~CanPay(head, t)
        <5>1. Tag(t) \in refused'
          BY <1>1, <4>4
        <5> QED  BY <4>1, <5>1 DEF Kept, Tag
      <4>5. CASE ~(head.nonce[t.who] <= t.nonce)
        <5>1. head.nonce[t.who] \in Nat /\ StateAt(i).nonce[t.who] \in Nat
          <6>1. Fields(StateAt(K)) /\ Fields(StateAt(i))
            BY <1>0, <1>3, ChainFacts DEF IInv
          <6> QED  BY <1>6, <4>2, <6>1 DEF Fields
        <5>2. CASE StateAt(i).nonce[t.who] > t.nonce
          BY <3>2, <4>2, <5>2 DEF Kept, Tag
        <5>3. CASE StateAt(i).nonce[t.who] <= t.nonce
          <6>1. t.nonce < StateAt(K).nonce[t.who]
            BY <1>6, <4>2, <4>5, <5>1
          <6>2. i \in 0 .. Len(segment) /\ K \in 0 .. Len(segment) /\ i <= K
            BY <1>0, <1>3
          <6>3. \E m \in i + 1 .. K : <<t.who, t.nonce>> \in TagsAt(m)
            BY <4>2, <5>3, <6>1, <6>2 DEF IInv, NoncesPass
          <6> QED  BY <3>4, <4>2, <6>3
        <5> QED  BY <4>2, <5>1, <5>2, <5>3
      <4> QED  BY <1>7, <4>3, <4>4, <4>5 DEF validate_transaction
    <3>6. CASE \E m \in i + 1 .. L : Tag(u) \in TagsAt(m)
      <4>1. PICK m \in i + 1 .. L : Tag(u) \in TagsAt(m)
        BY <3>6
      <4>2. m \in i + 1 .. K \/ m \in k .. L
        BY <1>2, <1>3, <4>1
      <4> QED  BY <3>4, <3>5, <4>1, <4>2
    <3> QED  BY <1>0, <3>1, <3>2, <3>3, <3>6 DEF Kept, Tag
  <2> QED  BY <1>1, <1>4, <2>1 DEF ReportedKept, Tag
<1>13. BuildingGood'
  BY <1>1 DEF BuildingGood
<1> QED  BY <1>10, <1>11, <1>12, <1>13 DEF IInv

LEMMA StutterStep ==
    ASSUME IInv, UNCHANGED collationVars
    PROVE  IInv'
<1>1. UNCHANGED <<poolVars, chainVars, building, turn, retractions>>
  BY DEF collationVars
<1>2. CollationTypeOK'
  BY <1>1 DEF IInv, CollationTypeOK, chainVars, poolVars, Tag
<1>3. Tags(pool)' = Tags(pool)
  BY <1>1 DEF poolVars, Tags
<1> QED  BY <1>1, <1>2, <1>3, SameChain, StillKept, SameBuilding DEF IInv, poolVars

\* The invariant, of which the properties below are consequences.
THEOREM CollationInvariant == CollationSpec => []IInv
<1>1. IInv /\ [CollationNext]_collationVars => IInv'
  <2> SUFFICES ASSUME IInv, [CollationNext]_collationVars PROVE IInv'
    OBVIOUS
  <2>1. ASSUME NEW t \in Extrinsics, submit(t) \/ apply_extrinsic(t) \/ reportInvalid(t)
        PROVE  IInv'
    BY <2>1, SubmitStep, ApplyStep, ReportInvalidStep
  <2>2. ASSUME NEW c \in Collators, NEW age \in 0 .. 1, NEW load \in QueueLoads,
               initialize_block(c, age, load)
        PROVE  IInv'
    BY <2>2, InitializeStep
  <2>3. ASSUME NEW k \in DOMAIN segment, retract(k)
        PROVE  IInv'
    BY <2>3, RetractStep
  <2> QED
    BY <2>1, <2>2, <2>3, FinalizeStep, NextSlotStep, IncludeStep, CrashStep, StutterStep
       DEF CollationNext
<1> QED  BY <1>1, IInvInit, PTL DEF CollationSpec

------------------------------------------------------------------------------
(***************************************************************************)
(* What the runs check, for every value of the constants.                  *)
(***************************************************************************)
\* Types, and one extrinsic per nonce in the pool: submit replaces, retract takes back
\* one of several and none that competes with one that waits.
THEOREM PoolCorrect == CollationSpec => []CollationTypeOK
<1>1. IInv => CollationTypeOK
  BY DEF IInv
<1> QED  BY <1>1, CollationInvariant, PTL

LEMMA ChainStatesGood ==
    ASSUME IInv, NEW st \in ChainStates
    PROVE  GoodState(st)
<1>1. DOMAIN segment = 1 .. Len(segment) /\ Len(segment) \in Nat
  BY ChainFacts DEF IInv
<1>2. CASE st = base
  <2>1. st = StateAt(0)
    BY <1>2 DEF StateAt
  <2> QED  BY <1>1, <2>1 DEF IInv, StatesGood
<1>3. CASE \E i \in DOMAIN segment : st = segment[i].post
  <2>1. PICK i \in 1 .. Len(segment) : st = segment[i].post
    BY <1>1, <1>3
  <2>2. st = StateAt(i) /\ i \in 0 .. Len(segment)
    BY <1>1, <2>1 DEF StateAt
  <2> QED  BY <2>2 DEF IInv, StatesGood
<1>4. CASE building # None /\ st = building.post
  BY <1>4 DEF IInv, BuildingGood
<1> QED  BY <1>2, <1>3, <1>4 DEF ChainStates

\* No extrinsic is applied twice on a chain but for a death of its account: CheckNonce,
\* through forks, retractions and what the pool takes back.
THEOREM NoReplay == CollationSpec => []AppliedOnce
<1>1. ASSUME IInv PROVE AppliedOnce
  <2>1. ASSUME NEW st \in ChainStates, NEW t \in Extrinsics
        PROVE  st.applied[t] <= 1 + st.deaths[t.who]
    <3>1. GoodState(st)
      BY <1>1, ChainStatesGood
    <3>2. st.applied[t] \in Nat /\ st.deaths[t.who] \in Nat
      BY <3>1, TagFacts DEF GoodState, State
    <3> QED  BY <3>1, <3>2 DEF GoodState
  <2> QED  BY <2>1 DEF AppliedOnce
<1> QED  BY <1>1, CollationInvariant, PTL

\* No money appears or disappears in any state of any chain: what the genesis endowed is in
\* accounts, but for the fees of what was applied and less than the existential deposit for
\* each removal of an account.
THEOREM MoneyAccountedFor == CollationSpec => []MoneyIsAccountedFor
<1>1. ASSUME IInv PROVE MoneyIsAccountedFor
  <2>1. ASSUME NEW st \in ChainStates
        PROVE  MoneyOK(st)
    <3>1. GoodState(st)
      BY <1>1, ChainStatesGood
    <3> QED  BY <3>1 DEF GoodState
  <2> QED  BY <2>1 DEF MoneyIsAccountedFor
<1> QED  BY <1>1, CollationInvariant, PTL

\* CheckWeight and the block weights keep a block within its limits, whatever the
\* message queue takes and the users submit.
THEOREM BlocksWithinLimits == CollationSpec => []BlockNotOverfull
<1>1. ASSUME IInv PROVE BlockNotOverfull
  <2> SUFFICES ASSUME building # None
               PROVE  LET w == building.weight IN
                      /\ w.Normal <= NormalMax
                      /\ w.Normal > 0 => w.Normal + w.Mandatory <= MAXIMUM_BLOCK_WEIGHT
                      /\ Total(w) <= MAXIMUM_BLOCK_WEIGHT + (MAXIMUM_BLOCK_WEIGHT - NormalMax)
    BY DEF BlockNotOverfull
  <2>1. WeightOK(building.weight)
    BY <1>1 DEF IInv, BuildingGood
  <2>2. building.weight \in Weights
    BY <1>1, ChainFacts DEF IInv
  <2> QED  BY <2>1, <2>2, WeightParameters DEF WeightOK, Weights, Total
<1> QED  BY <1>1, CollationInvariant, PTL

\* FixedVelocityConsensusHook keeps the segment, and the blocks of a slot, in bounds.
THEOREM SegmentKeepsBounds == CollationSpec => []SegmentInBounds
<1>1. ASSUME IInv PROVE SegmentInBounds
  <2>1. DOMAIN segment = 1 .. Len(segment) /\ Len(segment) \in Nat
    BY <1>1, ChainFacts DEF IInv
  <2>2. \A st \in ChainStates : st.authored <= BLOCK_PROCESSING_VELOCITY + 1
    BY <1>1, ChainStatesGood DEF GoodState
  <2>3. \A i \in 1 .. Len(segment) : StateAt(i) = segment[i].post
    BY DEF StateAt
  <2>4. \A i, j \in DOMAIN segment : i < j => segment[i].post.age >= segment[j].post.age
    BY <1>1, <2>1, <2>3 DEF IInv, StatesGood
  <2>5. segment # <<>> => base.age >= segment[1].post.age
    <3> SUFFICES ASSUME segment # <<>> PROVE base.age >= segment[1].post.age
      OBVIOUS
    <3>1. 1 \in 1 .. Len(segment) /\ 0 \in 0 .. Len(segment)
      BY <1>1, <2>1 DEF IInv, CollationTypeOK
    <3>2. StateAt(0) = base
      BY DEF StateAt
    <3> QED  BY <1>1, <2>3, <3>1, <3>2 DEF IInv, StatesGood
  <2>6. Len(segment) <= UNINCLUDED_SEGMENT_CAPACITY
    BY <1>1 DEF IInv, StatesGood
  <2> QED  BY <2>2, <2>4, <2>5, <2>6 DEF SegmentInBounds
<1> QED  BY <1>1, CollationInvariant, PTL

\* What a page was told to be in a block is not lost when the block is retracted.
THEOREM NoReportedExtrinsicLost == CollationSpec => []ReportedIsNotLost
<1>1. ASSUME IInv PROVE ReportedIsNotLost
  <2>1. Best = StateAt(Len(segment)) /\ Len(segment) \in Nat
    BY <1>1, ChainFacts DEF IInv
  <2>2. ASSUME NEW t \in reported
        PROVE  \/ Best.nonce[t.who] > t.nonce
               \/ Tag(t) \in Tags(pool) \cup refused
               \/ Best.deaths[t.who] > 0
    <3>1. t \in Extrinsics
      BY <1>1 DEF IInv, CollationTypeOK
    <3>2. Tag(t)[1] = t.who /\ Tag(t)[2] = t.nonce
      BY <3>1, TagFacts
    <3>3. Kept(Tag(t), Len(segment))
      BY <1>1, <2>1 DEF IInv, ReportedKept
    <3>4. ~ \E m \in Len(segment) + 1 .. Len(segment) : Tag(t) \in TagsAt(m)
      BY <2>1
    <3> QED  BY <2>1, <3>2, <3>3, <3>4 DEF Kept
  <2> QED  BY <2>2 DEF ReportedIsNotLost
<1> QED  BY <1>1, CollationInvariant, PTL

=============================================================================
