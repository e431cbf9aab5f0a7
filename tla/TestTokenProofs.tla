---------------------------- MODULE TestTokenProofs ----------------------------
(***************************************************************************)
(* The reference registry, for every value of the constants: its contracts *)
(* are well typed, live contracts and backing holdings stay paired, a rule *)
(* fires once, approvals stay well formed and follow the terms, no checked *)
(* choice aborts and the authorizer can always get the funds back.  They   *)
(* follow from one inductive invariant, IInv.                              *)
(*                                                                         *)
(* In the order of the sections: sums over finite sets, lemmas on the      *)
(* policy evaluator, what IInv says and why it is kept, the theorems from  *)
(* it, the views, who has asked for a payment (HInv), the IDs of transfer  *)
(* legs (LegsInv), the money in tokens and holdings against what is        *)
(* reported (MoneyInv), what the registry implements: the lifecycle of     *)
(* locks (RInv) and the account book (BookInv), and how often the draft of *)
(* an enactment is rejected (SubInv).                                      *)
(***************************************************************************)
EXTENDS TestTokenRefinement, TestTokenHistory, Submissions, Views,
        FiniteSetTheorems, SequenceTheorems, WellFoundedInduction, TLAPS

\* What every lock keeps to, pending or active: it is this registry's, only its
\* receivers have accepted, and no rule that could still fire shares its ID with
\* another one or with one that has fired.
LockOK(s) ==
    /\ s \in State
    /\ s.terms.instrumentId.admin = Admin
    /\ s.accepted \subseteq termReceivers(s.terms)
    /\ \A rule \in s.terms.rules : rule.id # <<>> /\ rule.id \notin s.enactedRuleIds
    /\ \A q, r \in s.terms.rules : q.id = r.id => q = r
    /\ wellApproved(s)

ActiveOK(s)  == LockOK(s) /\ pending(s) = {}
PendingOK(s) == LockOK(s) /\ pending(s) # {} /\ s.approvals = {}

LocksOK == (\A s \in locks : ActiveOK(s)) /\ (\A s \in instructions : PendingOK(s))

FundsOK ==
    /\ now \in Time
    /\ tokenRules \subseteq Party
    /\ factories \subseteq Factories
    /\ IsABag(tokens) /\ DOMAIN tokens \subseteq Token
    /\ holdings \subseteq LockedHolding

IInv == FundsOK /\ LocksOK /\ BackingMatches

-------------------------------------------------------------------------------
(* Sums over finite sets.  The library's induction theorems take a predicate,  *)
(* which cannot be given here, so induction is over the set where it holds.   *)

\* Induction on the natural numbers and on the subsets of a finite set, by way of a
\* least counterexample: for a set of numbers or of subsets, not for a predicate.
LEMMA Least ==
    ASSUME NEW T, T \subseteq Nat, T # {}
    PROVE  \E n \in T : \A m \in T : n <= m
<1>1. \E x \in T : \A y \in T : <<y, x>> \notin OpToRel(<, Nat)
  BY NatLessThanWellFounded, WFMin
<1>2. PICK x \in T : \A y \in T : <<y, x>> \notin OpToRel(<, Nat)
  BY <1>1
<1>3. \A y \in T : ~(y < x)
  BY <1>2 DEF OpToRel
<1>. QED  BY <1>3

LEMMA NumberInduction ==
    ASSUME NEW Good, 0 \in Good, \A n \in Nat : n \in Good => n + 1 \in Good
    PROVE  Nat \subseteq Good
<1> SUFFICES ASSUME Nat \ Good # {} PROVE FALSE
  OBVIOUS
<1>1. PICK n \in Nat \ Good : \A m \in Nat \ Good : n <= m
  BY Least
<1>2. n # 0 /\ n - 1 \in Nat
  BY <1>1
<1>3. n - 1 \in Good
  BY <1>1, <1>2
<1>4. (n - 1) + 1 \in Good
  BY <1>2, <1>3
<1>. QED  BY <1>1, <1>4

LEMMA SubsetInduction ==
    ASSUME NEW S, IsFiniteSet(S), NEW Good,
           \A T \in SUBSET S : (\A U \in SUBSET T : U # T => U \in Good) => T \in Good
    PROVE  SUBSET S \subseteq Good
<1> DEFINE Bad == (SUBSET S) \ Good
<1> SUFFICES ASSUME Bad # {} PROVE FALSE
  OBVIOUS
<1>1. IsWellFoundedOn(StrictSubsetOrdering(S), SUBSET S)
  <2>1. FiniteSubsetsOf(S) = SUBSET S
    BY FS_FiniteSubsetsOfFinite
  <2>2. IsWellFoundedOn(StrictSubsetOrdering(S), FiniteSubsetsOf(S))
    BY FS_StrictSubsetOrderingWellFounded
  <2>. QED  BY <2>1, <2>2
<1>2. Bad \subseteq SUBSET S
  OBVIOUS
<1>3. \E T \in Bad : \A U \in Bad : <<U, T>> \notin StrictSubsetOrdering(S)
  <2>. HIDE DEF Bad
  <2>. QED  BY <1>1, <1>2, WFMin
<1>4. PICK T \in Bad : \A U \in Bad : <<U, T>> \notin StrictSubsetOrdering(S)
  BY <1>3
<1>5. \A U \in SUBSET T : U # T => U \in Good
  BY <1>4 DEF StrictSubsetOrdering
<1>. QED  BY <1>4, <1>5

-------------------------------------------------------------------------------
(* Sums. *)

\* The recursion that defines sums, on the subsets in D.
summing(f, D, it) ==
    it = [T \in D |-> IF T = {} THEN 0
                      ELSE LET x == CHOOSE x \in T : TRUE IN f[x] + it[T \ {x}]]

LEMMA SummingExists ==
    ASSUME NEW f, NEW S, IsFiniteSet(S)
    PROVE  \E it : summing(f, SUBSET S, it)
<1> DEFINE Small(n) == {T \in SUBSET S : Cardinality(T) <= n}
           Good == {n \in Nat : \E it : summing(f, Small(n), it)}
           body(it, T) == IF T = {} THEN 0 ELSE LET x == CHOOSE x \in T : TRUE IN f[x] + it[T \ {x}]
<1>1. \A T \in SUBSET S : IsFiniteSet(T) /\ Cardinality(T) \in Nat
  BY FS_Subset, FS_CardinalityType
<1>2. 0 \in Good
  <2>1. \A T \in Small(0) : T = {}
    BY <1>1, FS_EmptySet
  <2> DEFINE it == [T \in Small(0) |-> 0]
  <2>2. summing(f, Small(0), it)
    BY <2>1 DEF summing
  <2>. QED  BY <2>2
<1>3. ASSUME NEW n \in Nat, n \in Good PROVE n + 1 \in Good
  <2>1. PICK it : summing(f, Small(n), it)
    BY <1>3
  <2> DEFINE jt == [T \in Small(n + 1) |-> body(it, T)]
  <2>2. \A T \in Small(n) : it[T] = body(it, T)
    BY <2>1 DEF summing
  <2>3. ASSUME NEW T \in Small(n + 1), T # {} PROVE T \ {CHOOSE x \in T : TRUE} \in Small(n)
    <3>1. (CHOOSE x \in T : TRUE) \in T
      BY <2>3
    <3> DEFINE x == CHOOSE x \in T : TRUE
    <3>2. T \in SUBSET S /\ IsFiniteSet(T) /\ Cardinality(T) \in Nat /\ Cardinality(T) <= n + 1
      BY <1>1
    <3>3. Cardinality(T \ {x}) = Cardinality(T) - 1
      BY <3>1, <3>2, FS_RemoveElement
    <3>. QED  BY <3>2, <3>3
  <2>4. \A T \in Small(n) : T \in Small(n + 1)
    BY <1>1
  <2>. HIDE DEF Small, Good
  <2>5. \A T \in Small(n) : jt[T] = it[T]
    BY <2>2, <2>4
  <2>6. \A T \in Small(n + 1) : body(it, T) = body(jt, T)
    <3>1. ASSUME NEW T \in Small(n + 1), T # {} PROVE body(it, T) = body(jt, T)
      <4>1. T \ {CHOOSE x \in T : TRUE} \in Small(n)
        BY <2>3, <3>1
      <4>2. it[T \ {CHOOSE x \in T : TRUE}] = jt[T \ {CHOOSE x \in T : TRUE}]
        BY <2>5, <4>1
      <4>. QED  BY <3>1, <4>2
    <3>2. ASSUME NEW T, T = {} PROVE body(it, T) = body(jt, T)
      BY <3>2
    <3>. QED  BY <3>1, <3>2
  <2>7. summing(f, Small(n + 1), jt)
    BY <2>6 DEF summing
  <2>. QED  BY <2>7 DEF Good
<1>4. Cardinality(S) \in Good
  <2>. HIDE DEF Good
  <2>. QED  BY <1>1, <1>2, <1>3, NumberInduction
<1>5. Small(Cardinality(S)) = SUBSET S
  BY <1>1, FS_Subset
<1>. QED  BY <1>4, <1>5

LEMMA SummingUnique ==
    ASSUME NEW f, NEW S, IsFiniteSet(S), NEW R, NEW a, NEW b,
           summing(f, SUBSET S, a), summing(f, SUBSET R, b)
    PROVE  \A T \in SUBSET (S \intersect R) : a[T] = b[T]
<1> DEFINE Q == S \intersect R
           Good == {T \in SUBSET Q : a[T] = b[T]}
<1>1. IsFiniteSet(Q)
  BY FS_Subset
<1>2. ASSUME NEW T \in SUBSET Q, \A U \in SUBSET T : U # T => U \in Good
      PROVE  T \in Good
  <2>1. CASE T = {}
    BY <2>1 DEF summing
  <2>2. CASE T # {}
    <3> DEFINE x == CHOOSE x \in T : TRUE
    <3>1. x \in T
      BY <2>2
    <3>2. a[T] = f[x] + a[T \ {x}] /\ b[T] = f[x] + b[T \ {x}]
      BY <1>2, <2>2 DEF summing
    <3>3. T \ {x} \in Good
      BY <1>2, <3>1
    <3>. QED  BY <3>2, <3>3
  <2>. QED  BY <2>1, <2>2
<1>3. SUBSET Q \subseteq Good
  <2>. HIDE DEF Good, Q
  <2>. QED  BY <1>1, <1>2, SubsetInduction
<1>. QED  BY <1>3

LEMMA SumIs ==
    ASSUME NEW f, NEW S, IsFiniteSet(S)
    PROVE  \E it : summing(f, SUBSET S, it) /\ SumFunctionOnSet(f, S) = it[S]
<1> DEFINE fold == CHOOSE it : it = [T \in SUBSET S |->
                      IF T = {} THEN 0 ELSE LET x == CHOOSE x \in T : TRUE IN f[x] + it[T \ {x}]]
<1>1. SumFunctionOnSet(f, S) = fold[S]
  BY DEF SumFunctionOnSet, FoldFunctionOnSet, MapThenFoldSet
<1>2. \E it : it = [T \in SUBSET S |->
                      IF T = {} THEN 0 ELSE LET x == CHOOSE x \in T : TRUE IN f[x] + it[T \ {x}]]
  <2>1. PICK it : summing(f, SUBSET S, it)
    BY SummingExists
  <2>. QED  BY <2>1 DEF summing
<1>3. fold = [T \in SUBSET S |->
                      IF T = {} THEN 0 ELSE LET x == CHOOSE x \in T : TRUE IN f[x] + fold[T \ {x}]]
  BY <1>2
<1>. HIDE DEF fold
<1>4. summing(f, SUBSET S, fold)
  BY <1>3 DEF summing
<1>. QED  BY <1>1, <1>4

\* The sum over no index, and over an index more.
LEMMA SumEmpty == \A f : SumFunctionOnSet(f, {}) = 0
<1>1. ASSUME NEW f PROVE SumFunctionOnSet(f, {}) = 0
  <2>1. PICK it : summing(f, SUBSET {}, it) /\ SumFunctionOnSet(f, {}) = it[{}]
    BY SumIs, FS_EmptySet
  <2>. QED  BY <2>1 DEF summing
<1>. QED  BY <1>1

LEMMA SumStep ==
    ASSUME NEW f, NEW T, IsFiniteSet(T), T # {}
    PROVE  \E c \in T : SumFunctionOnSet(f, T) = f[c] + SumFunctionOnSet(f, T \ {c})
<1> DEFINE c == CHOOSE x \in T : TRUE
<1>1. c \in T
  OBVIOUS
<1>2. PICK a : summing(f, SUBSET T, a) /\ SumFunctionOnSet(f, T) = a[T]
  BY SumIs
<1>3. IsFiniteSet(T \ {c})
  BY FS_RemoveElement
<1>4. PICK b : summing(f, SUBSET (T \ {c}), b) /\ SumFunctionOnSet(f, T \ {c}) = b[T \ {c}]
  BY <1>3, SumIs
<1>5. a[T] = f[c] + a[T \ {c}]
  BY <1>2 DEF summing
<1>. HIDE DEF c
<1>6. a[T \ {c}] = b[T \ {c}]
  <2> DEFINE R == T \ {c}
  <2>1. summing(f, SUBSET R, b) /\ R \in SUBSET (T \intersect R)
    BY <1>4
  <2>. HIDE DEF R
  <2>2. a[R] = b[R]
    BY <1>2, <2>1, SummingUnique
  <2>. QED  BY <2>2 DEF R
<1>. QED  BY <1>1, <1>2, <1>4, <1>5, <1>6

LEMMA SumElement ==
    ASSUME NEW f, NEW S, IsFiniteSet(S), \A x \in S : f[x] \in Int
    PROVE  /\ SumFunctionOnSet(f, S) \in Int
           /\ \A x \in S : SumFunctionOnSet(f, S) = f[x] + SumFunctionOnSet(f, S \ {x})
<1> DEFINE sum(T) == SumFunctionOnSet(f, T)
           Good == {T \in SUBSET S : sum(T) \in Int /\ \A x \in T : sum(T) = f[x] + sum(T \ {x})}
<1>1. sum({}) = 0
  BY SumEmpty
<1>2. \A T \in SUBSET S : IsFiniteSet(T)
  BY FS_Subset
<1>3. ASSUME NEW T \in SUBSET S, T # {} PROVE \E c \in T : sum(T) = f[c] + sum(T \ {c})
  BY <1>2, <1>3, SumStep
<1>. HIDE DEF sum
<1>4. ASSUME NEW T \in SUBSET S, \A U \in SUBSET T : U # T => U \in Good
      PROVE  T \in Good
  <2>1. CASE T = {}
    BY <1>1, <2>1
  <2>2. CASE T # {}
    <3>1. PICK c \in T : sum(T) = f[c] + sum(T \ {c})
      BY <1>3, <2>2
    <3>2. T \ {c} \in Good /\ f[c] \in Int
      BY <1>4, <3>1
    <3>3. sum(T) \in Int
      BY <3>1, <3>2
    <3>4. ASSUME NEW x \in T PROVE sum(T) = f[x] + sum(T \ {x})
      <4>1. CASE x = c
        BY <3>1, <4>1
      <4>2. CASE x # c
        <5>1. /\ sum(T \ {c}) = f[x] + sum((T \ {c}) \ {x})
              /\ (T \ {c}) \ {x} \in Good /\ T \ {x} \in Good /\ c \in T \ {x}
          BY <1>4, <3>2, <4>2
        <5>2. sum(T \ {x}) = f[c] + sum((T \ {x}) \ {c})
          BY <5>1
        <5>3. (T \ {x}) \ {c} = (T \ {c}) \ {x}
          OBVIOUS
        <5>4. f[x] \in Int /\ sum((T \ {c}) \ {x}) \in Int
          BY <5>1
        <5>5. sum(T) = f[c] + (f[x] + sum((T \ {c}) \ {x}))
          BY <3>1, <5>1
        <5>6. sum(T \ {x}) = f[c] + sum((T \ {c}) \ {x})
          BY <5>2, <5>3
        <5>7. f[c] \in Int
          BY <3>2
        <5>. HIDE DEF Good
        <5>. QED  BY <5>4, <5>5, <5>6, <5>7
      <4>. QED  BY <4>1, <4>2
    <3>. QED  BY <3>3, <3>4
  <2>. QED  BY <2>1, <2>2
<1>5. SUBSET S \subseteq Good
  <2>. HIDE DEF Good
  <2>. QED  BY <1>4, SubsetInduction
<1>. QED  BY <1>5 DEF sum

\* Sums of the same numbers, of the sums of two functions, over two sets.
LEMMA SumAgree ==
    ASSUME NEW S, IsFiniteSet(S), NEW f, NEW g, \A x \in S : f[x] \in Int /\ f[x] = g[x]
    PROVE  SumFunctionOnSet(f, S) = SumFunctionOnSet(g, S)
<1> DEFINE sf(T) == SumFunctionOnSet(f, T)
           sg(T) == SumFunctionOnSet(g, T)
           Good == {T \in SUBSET S : sf(T) = sg(T)}
<1>1. sf({}) = 0 /\ sg({}) = 0
  BY SumEmpty
<1>2. ASSUME NEW T \in SUBSET S
      PROVE  \A x \in T : sf(T) = f[x] + sf(T \ {x}) /\ sg(T) = g[x] + sg(T \ {x})
  <2>1. IsFiniteSet(T) /\ (\A x \in T : f[x] \in Int) /\ (\A x \in T : g[x] \in Int)
    BY FS_Subset
  <2>. QED  BY <2>1, SumElement
<1>. HIDE DEF sf, sg
<1>3. ASSUME NEW T \in SUBSET S, \A U \in SUBSET T : U # T => U \in Good
      PROVE  T \in Good
  <2>1. CASE T = {}
    BY <1>1, <2>1
  <2>2. CASE T # {}
    <3>1. PICK x \in T : TRUE
      BY <2>2
    <3>2. T \ {x} \in Good
      BY <1>3, <3>1
    <3>. QED  BY <1>2, <3>1, <3>2
  <2>. QED  BY <2>1, <2>2
<1>4. SUBSET S \subseteq Good
  <2>. HIDE DEF Good
  <2>. QED  BY <1>3, SubsetInduction
<1>. QED  BY <1>4 DEF sf, sg

LEMMA SumPlus ==
    ASSUME NEW S, IsFiniteSet(S), NEW f, NEW g, NEW h,
           \A x \in S : f[x] \in Int /\ g[x] \in Int /\ h[x] = f[x] + g[x]
    PROVE  SumFunctionOnSet(h, S) = SumFunctionOnSet(f, S) + SumFunctionOnSet(g, S)
<1> DEFINE sf(T) == SumFunctionOnSet(f, T)
           sg(T) == SumFunctionOnSet(g, T)
           sh(T) == SumFunctionOnSet(h, T)
           Good == {T \in SUBSET S : sh(T) = sf(T) + sg(T)}
<1>1. sf({}) = 0 /\ sg({}) = 0 /\ sh({}) = 0
  BY SumEmpty
<1>2. ASSUME NEW T \in SUBSET S
      PROVE  \A x \in T : /\ sf(T) = f[x] + sf(T \ {x}) /\ sg(T) = g[x] + sg(T \ {x})
                          /\ sh(T) = h[x] + sh(T \ {x})
  <2>1. /\ IsFiniteSet(T)
        /\ \A x \in T : f[x] \in Int
        /\ \A x \in T : g[x] \in Int
        /\ \A x \in T : h[x] \in Int
    BY FS_Subset
  <2>. QED  BY <2>1, SumElement
<1>3. \A T \in SUBSET S : sf(T) \in Int /\ sg(T) \in Int
  <2>1. \A T \in SUBSET S : /\ IsFiniteSet(T)
                            /\ \A x \in T : f[x] \in Int
                            /\ \A x \in T : g[x] \in Int
    BY FS_Subset
  <2>. QED  BY <2>1, SumElement
<1>. HIDE DEF sf, sg, sh
<1>4. ASSUME NEW T \in SUBSET S, \A U \in SUBSET T : U # T => U \in Good
      PROVE  T \in Good
  <2>1. CASE T = {}
    BY <1>1, <2>1
  <2>2. CASE T # {}
    <3>1. PICK x \in T : TRUE
      BY <2>2
    <3>2. T \ {x} \in Good
      BY <1>4, <3>1
    <3>3. sh(T \ {x}) = sf(T \ {x}) + sg(T \ {x})
      BY <3>2
    <3>4. sf(T \ {x}) \in Int /\ sg(T \ {x}) \in Int /\ f[x] \in Int /\ g[x] \in Int
      BY <1>3, <3>1
    <3>5. /\ sf(T) = f[x] + sf(T \ {x}) /\ sg(T) = g[x] + sg(T \ {x})
          /\ sh(T) = (f[x] + g[x]) + sh(T \ {x})
      BY <1>2, <3>1
    <3>6. sh(T) = sf(T) + sg(T)
      BY <3>3, <3>4, <3>5
    <3>. QED  BY <3>6
  <2>. QED  BY <2>1, <2>2
<1>5. SUBSET S \subseteq Good
  <2>. HIDE DEF Good
  <2>. QED  BY <1>4, SubsetInduction
<1>. QED  BY <1>5 DEF sf, sg, sh

\* Indices that count nothing may be left out.
LEMMA SumSupport ==
    ASSUME NEW S, IsFiniteSet(S), NEW R, NEW f, \A x \in S : f[x] \in Int,
           \A x \in S : x \notin R => f[x] = 0
    PROVE  SumFunctionOnSet(f, S) = SumFunctionOnSet(f, S \intersect R)
<1> DEFINE sum(T) == SumFunctionOnSet(f, T)
           Good == {T \in SUBSET S : sum(T) = sum(T \intersect R)}
<1>1. ASSUME NEW T \in SUBSET S
      PROVE  sum(T) \in Int /\ \A x \in T : sum(T) = f[x] + sum(T \ {x})
  <2>1. IsFiniteSet(T) /\ \A x \in T : f[x] \in Int
    BY FS_Subset
  <2>. QED  BY <2>1, SumElement
<1>. HIDE DEF sum
<1>2. ASSUME NEW T \in SUBSET S, \A U \in SUBSET T : U # T => U \in Good
      PROVE  T \in Good
  <2>1. CASE T \subseteq R
    <3>1. T \intersect R = T
      BY <2>1
    <3>. QED  BY <3>1
  <2>2. CASE ~(T \subseteq R)
    <3>1. PICK x \in T : x \notin R
      BY <2>2
    <3>2. T \ {x} \in Good /\ (T \ {x}) \intersect R = T \intersect R
      BY <1>2, <3>1
    <3>3. sum(T) = 0 + sum(T \ {x}) /\ sum(T \ {x}) \in Int
      BY <1>1, <3>1
    <3>4. sum(T \ {x}) = sum(T \intersect R)
      BY <3>2
    <3>. QED  BY <3>3, <3>4
  <2>. QED  BY <2>1, <2>2
<1>3. SUBSET S \subseteq Good
  <2>. HIDE DEF Good
  <2>. QED  BY <1>2, SubsetInduction
<1>. QED  BY <1>3 DEF sum

LEMMA SumNat ==
    ASSUME NEW S, IsFiniteSet(S), NEW f, \A x \in S : f[x] \in Nat
    PROVE  /\ SumFunctionOnSet(f, S) \in Nat
           /\ \A x \in S : f[x] <= SumFunctionOnSet(f, S)
<1> DEFINE sum(T) == SumFunctionOnSet(f, T)
           Good == {T \in SUBSET S : sum(T) \in Nat}
<1>1. ASSUME NEW T \in SUBSET S
      PROVE  sum(T) \in Int /\ \A x \in T : sum(T) = f[x] + sum(T \ {x})
  <2>1. IsFiniteSet(T) /\ \A x \in T : f[x] \in Int
    BY FS_Subset
  <2>. QED  BY <2>1, SumElement
<1>2. sum({}) = 0
  BY SumEmpty
<1>. HIDE DEF sum
<1>3. ASSUME NEW T \in SUBSET S, \A U \in SUBSET T : U # T => U \in Good
      PROVE  T \in Good
  <2>1. CASE T = {}
    BY <1>2, <2>1
  <2>2. CASE T # {}
    <3>1. PICK x \in T : TRUE
      BY <2>2
    <3>2. sum(T \ {x}) \in Nat
      BY <1>3, <3>1
    <3>. QED  BY <1>1, <3>1, <3>2
  <2>. QED  BY <2>1, <2>2
<1>4. SUBSET S \subseteq Good
  <2>. HIDE DEF Good
  <2>. QED  BY <1>3, SubsetInduction
<1>5. ASSUME NEW x \in S PROVE f[x] <= sum(S)
  <2>1. sum(S) = f[x] + sum(S \ {x}) /\ sum(S \ {x}) \in Nat /\ f[x] \in Nat
    BY <1>1, <1>4
  <2>. QED  BY <2>1
<1>. QED  BY <1>4, <1>5 DEF sum

\* The sum where one index counts.
LEMMA SumPoint ==
    ASSUME NEW S, IsFiniteSet(S), NEW k \in S, NEW f, \A x \in S : f[x] \in Int,
           \A x \in S : x # k => f[x] = 0
    PROVE  SumFunctionOnSet(f, S) = f[k]
<1> DEFINE K == {k}
<1>1. /\ S \intersect K = K /\ K \ {k} = {} /\ k \in K /\ IsFiniteSet(K)
      /\ \A x \in K : f[x] \in Int
      /\ \A x \in S : x \notin K => f[x] = 0
  BY FS_Singleton
<1>. HIDE DEF K
<1>2. SumFunctionOnSet(f, S) = SumFunctionOnSet(f, S \intersect K)
  BY <1>1, SumSupport
<1>3. SumFunctionOnSet(f, K) = f[k] + SumFunctionOnSet(f, K \ {k})
  BY <1>1, SumElement
<1>4. SumFunctionOnSet(f, {}) = 0
  BY SumEmpty
<1>5. SumFunctionOnSet(f, S) = f[k] + 0
  BY <1>1, <1>2, <1>3, <1>4
<1>. QED  BY <1>5

\* Equal numbers.
LEMMA SumConstant ==
    ASSUME NEW S, IsFiniteSet(S), NEW v \in Int, NEW f, \A x \in S : f[x] = v
    PROVE  SumFunctionOnSet(f, S) = Cardinality(S) * v
<1> DEFINE sum(T) == SumFunctionOnSet(f, T)
           Good == {T \in SUBSET S : sum(T) = Cardinality(T) * v}
<1>1. ASSUME NEW T \in SUBSET S
      PROVE  \A x \in T : /\ sum(T) = f[x] + sum(T \ {x})
                          /\ Cardinality(T) = Cardinality(T \ {x}) + 1 /\ Cardinality(T \ {x}) \in Nat
  <2>1. IsFiniteSet(T) /\ \A x \in T : f[x] \in Int
    BY FS_Subset
  <2>2. \A x \in T : sum(T) = f[x] + sum(T \ {x})
    BY <2>1, SumElement
  <2>3. ASSUME NEW x \in T
        PROVE  Cardinality(T) = Cardinality(T \ {x}) + 1 /\ Cardinality(T \ {x}) \in Nat
    <3>1. Cardinality(T \ {x}) = Cardinality(T) - 1 /\ IsFiniteSet(T \ {x})
      BY <2>1, FS_RemoveElement
    <3>2. Cardinality(T) \in Nat /\ Cardinality(T \ {x}) \in Nat
      BY <2>1, <3>1, FS_CardinalityType
    <3>. QED  BY <3>1, <3>2
  <2>. QED  BY <2>2, <2>3
<1>2. sum({}) = 0 /\ Cardinality({}) = 0
  BY SumEmpty, FS_EmptySet
<1>. HIDE DEF sum
<1>3. ASSUME NEW T \in SUBSET S, \A U \in SUBSET T : U # T => U \in Good
      PROVE  T \in Good
  <2>1. CASE T = {}
    BY <1>2, <2>1
  <2>2. CASE T # {}
    <3>1. PICK x \in T : TRUE
      BY <2>2
    <3> DEFINE n == Cardinality(T \ {x})
    <3>2. sum(T \ {x}) = n * v
      BY <1>3, <3>1
    <3>3. sum(T) = v + sum(T \ {x}) /\ Cardinality(T) = n + 1 /\ n \in Nat
      BY <1>1, <3>1
    <3>. HIDE DEF n
    <3>4. v + n * v = (n + 1) * v
      BY <3>3
    <3>5. sum(T) = Cardinality(T) * v
      BY <3>2, <3>3, <3>4
    <3>. QED  BY <3>5
  <2>. QED  BY <2>1, <2>2
<1>4. SUBSET S \subseteq Good
  <2>. HIDE DEF Good
  <2>. QED  BY <1>3, SubsetInduction
<1>. QED  BY <1>4 DEF sum

\* The indices of S by their class.
classified(S, class, C, members) ==
    /\ \A i \in S : class[i] \in C
    /\ \A c \in C : \E i \in S : class[i] = c
    /\ \A c \in C : members[c] \subseteq S /\ \A i \in S : i \in members[c] <=> class[i] = c

\* Adding up class by class, or index by index.
LEMMA SumByClass ==
    ASSUME NEW S, IsFiniteSet(S), NEW class, NEW f, \A i \in S : f[i] \in Int,
           NEW C, NEW members, classified(S, class, C, members),
           NEW g, \A c \in C : g[c] = SumFunctionOnSet(f, members[c])
    PROVE  /\ IsFiniteSet(C) /\ \A c \in C : g[c] \in Int
           /\ SumFunctionOnSet(g, C) = SumFunctionOnSet(f, S)
<1>. USE DEF classified
<1> DEFINE of(T, c) == SumFunctionOnSet(f, {i \in T : class[i] = c})
           byClass(T) == [c \in C |-> of(T, c)]
           Good == {T \in SUBSET S : SumFunctionOnSet(byClass(T), C) = SumFunctionOnSet(f, T)}
<1>1. IsFiniteSet(C)
  <2> DEFINE image == [i \in S |-> class[i]]
  <2>1. image \in Surjection(S, C)
    BY DEF Surjection
  <2>. HIDE DEF image
  <2>. QED  BY <2>1, FS_Surjection DEF ExistsSurjection
<1>2. ASSUME NEW T \in SUBSET S, NEW c
      PROVE  of(T, c) \in Int /\ \A x \in T : of(T, c) = of(T \ {x}, c) + IF class[x] = c THEN f[x] ELSE 0
  <2> DEFINE R == {i \in T : class[i] = c}
  <2>1. IsFiniteSet(R) /\ \A i \in R : f[i] \in Int
    BY FS_Subset
  <2>2. \A x \in T : {i \in T \ {x} : class[i] = c} = IF x \in R THEN R \ {x} ELSE R
    OBVIOUS
  <2>3. \A x \in T : x \in R <=> class[x] = c
    OBVIOUS
  <2>. HIDE DEF R
  <2>4. SumFunctionOnSet(f, R) \in Int /\ \A x \in R : SumFunctionOnSet(f, R) = f[x] + SumFunctionOnSet(f, R \ {x})
    BY <2>1, SumElement
  <2>5. \A x \in R : SumFunctionOnSet(f, R \ {x}) \in Int
    <3>1. \A x \in R : IsFiniteSet(R \ {x}) /\ \A i \in R \ {x} : f[i] \in Int
      BY <2>1, FS_RemoveElement
    <3>. QED  BY <3>1, SumElement
  <2>6. of(T, c) = SumFunctionOnSet(f, R)
    BY DEF R
  <2>7. \A x \in T : of(T \ {x}, c) = IF x \in R THEN SumFunctionOnSet(f, R \ {x}) ELSE SumFunctionOnSet(f, R)
    BY <2>2
  <2>. HIDE DEF of
  <2>8. ASSUME NEW x \in T
        PROVE  of(T, c) = of(T \ {x}, c) + IF class[x] = c THEN f[x] ELSE 0
    <3>1. CASE x \in R
      <4>1. f[x] \in Int /\ SumFunctionOnSet(f, R \ {x}) \in Int
        BY <2>1, <2>5, <3>1
      <4>2. of(T, c) = f[x] + SumFunctionOnSet(f, R \ {x}) /\ of(T \ {x}, c) = SumFunctionOnSet(f, R \ {x})
        BY <2>4, <2>6, <2>7, <3>1
      <4>. QED  BY <2>3, <3>1, <4>1, <4>2
    <3>2. CASE x \notin R
      <4>1. of(T, c) = of(T \ {x}, c) /\ of(T, c) \in Int
        BY <2>4, <2>6, <2>7, <3>2
      <4>. QED  BY <2>3, <3>2, <4>1
    <3>. QED  BY <3>1, <3>2
  <2>. QED  BY <2>4, <2>6, <2>8
<1>3. \A c : of({}, c) = 0
  <2>1. \A c : {i \in {} : class[i] = c} = {}
    OBVIOUS
  <2>2. SumFunctionOnSet(f, {}) = 0
    BY SumEmpty
  <2>. QED  BY <2>1, <2>2
<1>4. ASSUME NEW T \in SUBSET S
      PROVE  SumFunctionOnSet(f, T) \in Int /\ \A x \in T : SumFunctionOnSet(f, T) = f[x] + SumFunctionOnSet(f, T \ {x})
  <2>1. IsFiniteSet(T) /\ \A i \in T : f[i] \in Int
    BY FS_Subset
  <2>. QED  BY <2>1, SumElement
<1>. HIDE DEF of
<1>5. ASSUME NEW T \in SUBSET S, \A U \in SUBSET T : U # T => U \in Good
      PROVE  T \in Good
  <2>1. CASE T = {}
    <3>1. /\ \A c \in C : byClass(T)[c] \in Int
          /\ \A c \in C : c \notin {} => byClass(T)[c] = 0
      BY <1>3, <2>1
    <3>2. SumFunctionOnSet(byClass(T), C) = SumFunctionOnSet(byClass(T), C \intersect {})
      <4> DEFINE none == byClass(T)
      <4>1. IsFiniteSet(C) /\ (\A c \in C : none[c] \in Int) /\ \A c \in C : c \notin {} => none[c] = 0
        BY <1>1, <3>1
      <4>. HIDE DEF none
      <4>2. SumFunctionOnSet(none, C) = SumFunctionOnSet(none, C \intersect {})
        BY ONLY <4>1, SumSupport
      <4>. QED  BY <4>2 DEF none
    <3>3. C \intersect {} = {}
      OBVIOUS
    <3>. QED  BY <2>1, <3>2, <3>3, SumEmpty
  <2>2. CASE T # {}
    <3>1. PICK x \in T : TRUE
      BY <2>2
    <3> DEFINE rest == T \ {x}
               one == [c \in C |-> IF class[x] = c THEN f[x] ELSE 0]
    <3>2. rest \in Good /\ rest \in SUBSET S /\ class[x] \in C /\ f[x] \in Int
      BY <1>5, <3>1
    <3>3. \A c \in C : /\ byClass(rest)[c] \in Int /\ one[c] \in Int
                       /\ byClass(T)[c] = byClass(rest)[c] + one[c]
      <4>. HIDE DEF rest
      <4>1. ASSUME NEW c \in C
            PROVE  /\ of(rest, c) \in Int /\ of(T, c) \in Int
                   /\ of(T, c) = of(T \ {x}, c) + IF class[x] = c THEN f[x] ELSE 0
        <5>1. T \in SUBSET S /\ rest \in SUBSET S /\ x \in T
          BY <3>1, <3>2
        <5>. QED  BY ONLY <1>2, <5>1
      <4>2. rest = T \ {x}
        BY DEF rest
      <4>3. \A c \in C : /\ byClass(T)[c] = of(T, c) /\ byClass(rest)[c] = of(rest, c)
                         /\ one[c] = IF class[x] = c THEN f[x] ELSE 0
        OBVIOUS
      <4>4. \A c \in C : one[c] \in Int
        BY <3>2, <4>3
      <4>. HIDE DEF byClass, one
      <4>5. ASSUME NEW c \in C
            PROVE  /\ byClass(rest)[c] \in Int /\ one[c] \in Int
                   /\ byClass(T)[c] = byClass(rest)[c] + one[c]
        <5>1. of(rest, c) \in Int /\ of(T, c) = of(rest, c) + IF class[x] = c THEN f[x] ELSE 0
          BY <4>1, <4>2
        <5>2. byClass(T)[c] = of(T, c) /\ byClass(rest)[c] = of(rest, c)
          BY <4>3
        <5>3. one[c] = (IF class[x] = c THEN f[x] ELSE 0) /\ one[c] \in Int
          BY <4>3, <4>4
        <5>. QED  BY <5>1, <5>2, <5>3
      <4>. QED  BY <4>5
    <3>4. SumFunctionOnSet(byClass(T), C) = SumFunctionOnSet(byClass(rest), C) + SumFunctionOnSet(one, C)
      <4>. HIDE DEF byClass, one, rest
      <4>. QED  BY <1>1, <3>3, SumPlus
    <3>5. SumFunctionOnSet(one, C) = f[x]
      <4> DEFINE k == class[x]
      <4>1. /\ k \in C /\ one[k] = f[x]
            /\ \A c \in C : one[c] \in Int
            /\ \A c \in C : c # k => one[c] = 0
        BY <3>2
      <4>. HIDE DEF one, k
      <4>2. SumFunctionOnSet(one, C) = one[k]
        BY <1>1, <4>1, SumPoint
      <4>. QED  BY <4>1, <4>2
    <3>6. SumFunctionOnSet(f, T) = f[x] + SumFunctionOnSet(f, rest) /\ SumFunctionOnSet(f, rest) \in Int
      BY <1>4, <3>1, <3>2
    <3>7. SumFunctionOnSet(byClass(rest), C) = SumFunctionOnSet(f, rest)
      BY <3>2
    <3>8. SumFunctionOnSet(byClass(T), C) = SumFunctionOnSet(f, T)
      <4>. HIDE DEF byClass, rest, one
      <4>. QED  BY <3>2, <3>4, <3>5, <3>6, <3>7
    <3>. QED  BY <3>8
  <2>. QED  BY <2>1, <2>2
<1>6. SUBSET S \subseteq Good
  <2>. HIDE DEF Good
  <2>. QED  BY <1>5, SubsetInduction
<1> DEFINE all == byClass(S)
<1>7. IsFiniteSet(C) /\ \A c \in C : all[c] \in Int /\ all[c] = g[c]
  <2>1. \A c \in C : of(S, c) \in Int
    BY <1>2
  <2>2. \A c \in C : members[c] = {i \in S : class[i] = c}
    OBVIOUS
  <2>3. \A c \in C : of(S, c) = g[c]
    BY <2>2 DEF of
  <2>. QED  BY <1>1, <2>1, <2>3
<1>8. SumFunctionOnSet(all, C) = SumFunctionOnSet(f, S)
  BY <1>6
<1>. HIDE DEF all
<1>9. SumFunctionOnSet(all, C) = SumFunctionOnSet(g, C)
  BY <1>7, SumAgree
<1>. QED  BY <1>7, <1>8, <1>9

\* Two ways to add up what the indices of each class count: class by class, or index
\* by index.
LEMMA SumClasses ==
    ASSUME NEW S, IsFiniteSet(S), NEW class, NEW w, NEW C, C = {class[i] : i \in S},
           \A c \in C : w[c] \in Int
    PROVE  SumFunctionOnSet([c \in C |-> Cardinality({i \in S : class[i] = c}) * w[c]], C)
              = SumFunctionOnSet([i \in S |-> w[class[i]]], S)
<1> DEFINE byIndex == [i \in S |-> w[class[i]]]
           members == [c \in C |-> {i \in S : class[i] = c}]
           count == [c \in C |-> Cardinality({i \in S : class[i] = c}) * w[c]]
<1>1. /\ \A i \in S : byIndex[i] \in Int /\ byIndex[i] = w[class[i]]
      /\ \A c \in C : members[c] \subseteq S /\ \A i \in S : i \in members[c] <=> class[i] = c
      /\ \A c \in C : count[c] = Cardinality(members[c]) * w[c]
  OBVIOUS
<1>. HIDE DEF byIndex, members, count
<1>2. ASSUME NEW c \in C
      PROVE  count[c] = SumFunctionOnSet(byIndex, members[c])
  <2>1. IsFiniteSet(members[c]) /\ (\A i \in members[c] : byIndex[i] = w[c]) /\ w[c] \in Int
    BY <1>1, FS_Subset
  <2>2. SumFunctionOnSet(byIndex, members[c]) = Cardinality(members[c]) * w[c]
    BY <2>1, SumConstant
  <2>. QED  BY <1>1, <2>2
<1>3. IsFiniteSet(S) /\ classified(S, class, C, members)
  BY <1>1 DEF classified
<1>4. SumFunctionOnSet(count, C) = SumFunctionOnSet(byIndex, S)
  BY <1>1, <1>2, <1>3, SumByClass
<1>. QED  BY <1>4 DEF byIndex, count

-------------------------------------------------------------------------------
(* The policy's operators: whom a resolved enactment pays, how much, and what  *)
(* an approval records.                                                        *)

\* The legs that are paid: their amounts are positive.
PaidLeg == [legId : Text, receiver : Accounts, amount : 1 .. MaxDecimal, meta : SUBSET MetaKeys]

\* The sum over a function with one argument.
LEMMA SumOfOne ==
    ASSUME NEW f, DOMAIN f = {1}, f[1] \in Int
    PROVE  SumFunction(f) = f[1]
<1> DEFINE S == {1}
<1>1. IsFiniteSet(S) /\ 1 \in S /\ S \ {1} = {} /\ \A x \in S : f[x] \in Int
  BY FS_Singleton
<1>2. SumFunction(f) = SumFunctionOnSet(f, S)
  BY DEF SumFunction
<1>. HIDE DEF S
<1>3. SumFunctionOnSet(f, S) = f[1] + SumFunctionOnSet(f, S \ {1})
  BY <1>1, SumElement
<1>4. SumFunctionOnSet(f, {}) = 0
  BY SumEmpty
<1>5. SumFunctionOnSet(f, S) = f[1] + 0
  BY <1>1, <1>3, <1>4
<1>. QED  BY <1>2, <1>5

\* An unlock and a refund are one leg: their total is its amount.
LEMMA SingleTotal ==
    ASSUME NEW leg, leg.amount \in Int
    PROVE  total(<<leg>>) = leg.amount
<1> DEFINE f == [i \in DOMAIN <<leg>> |-> <<leg>>[i].amount]
<1>1. DOMAIN f = {1} /\ f[1] = leg.amount
  OBVIOUS
<1>. HIDE DEF f
<1>2. SumFunction(f) = leg.amount
  BY <1>1, SumOfOne
<1>. QED  BY <1>2 DEF total, f

LEMMA ToSetOfOne ==
    ASSUME NEW leg
    PROVE  ToSet(<<leg>>) = {leg}
BY DEF ToSet

LEMMA ToSetOfConcat ==
    ASSUME NEW S, NEW a \in Seq(S), NEW b \in Seq(S)
    PROVE  /\ a \o b \in Seq(S)
           /\ \A x \in ToSet(a \o b) : x \in ToSet(a) \/ x \in ToSet(b)
<1>1. a \o b \in Seq(S)
  OBVIOUS
<1>2. ASSUME NEW x \in ToSet(a \o b) PROVE x \in ToSet(a) \/ x \in ToSet(b)
  <2>1. PICK i \in 1 .. (Len(a) + Len(b)) : x = (a \o b)[i]
    BY DEF ToSet
  <2>2. CASE i <= Len(a)
    BY <2>1, <2>2 DEF ToSet
  <2>3. CASE i > Len(a)
    BY <2>1, <2>3 DEF ToSet
  <2>. QED  BY <2>1, <2>2, <2>3
<1>. QED  BY <1>1, <1>2

LEMMA ToSetOfSeq ==
    ASSUME NEW S, NEW a \in Seq(S)
    PROVE  ToSet(a) \subseteq S
BY DEF ToSet

-------------------------------------------------------------------------------
\* The legs that an enactment pays are legs with a positive amount, each to the
\* authorizer or to a receiver that the terms name, and pay no more in total
\* than is locked: whatever legs the enactors supply (resolveOutcome).
THEOREM ResolvedLegsPayReceivers ==
    ASSUME NEW terms \in LockTerms, terms.amount > 0, NEW rule \in terms.rules,
           NEW supplied \in Seq(Leg), resolveOutcome(terms, rule.outcome, supplied)
    PROVE  LET legs == resolvedLegs(terms, rule.outcome, supplied)
           IN  /\ legs \in Seq(PaidLeg)
               /\ \A leg \in ToSet(legs) : leg.receiver \in termReceivers(terms) \union {terms.authorizer}
               /\ total(legs) \in 1 .. terms.amount
<1>1. rule \in Rule /\ terms.amount \in 1 .. MaxDecimal /\ terms.authorizer \in Accounts
  BY PolicyAssumption DEF LockTerms, Decimal
<1>2. rule.outcome \in Outcome
  BY <1>1 DEF Rule
<1>3. CASE rule.outcome.tag = "Unlock"
  <2> DEFINE leg == [legId |-> <<"unlock">>, receiver |-> terms.authorizer,
                     amount |-> terms.amount, meta |-> {}]
  <2>1. resolvedLegs(terms, rule.outcome, supplied) = <<leg>>
    BY <1>3 DEF resolvedLegs
  <2>2. leg \in PaidLeg
    BY <1>1, PolicyAssumption DEF Text, PaidLeg
  <2>3. total(<<leg>>) = terms.amount
    BY <1>1, SingleTotal
  <2>4. <<leg>> \in Seq(PaidLeg)
    BY <2>2
  <2>. QED  BY <1>1, <2>1, <2>2, <2>3, <2>4, ToSetOfOne
<1>4. CASE rule.outcome.tag # "Unlock"
  <2> DEFINE fixed == rule.outcome.fixedLegs
             legs  == fixed \o supplied
  <2>1. /\ rule.outcome.tag = "Release"
        /\ fixed \in Seq(Leg)
        /\ rule.outcome.receivers \in Seq(Accounts)
    BY <1>2, <1>4 DEF Outcome
  <2>2. resolvedLegs(terms, rule.outcome, supplied) = legs
    BY <1>4 DEF resolvedLegs
  <2>3. /\ \A leg \in ToSet(supplied) : leg.receiver \in ToSet(rule.outcome.receivers)
        /\ validLegs(legs)
        /\ total(legs) \in Decimal /\ total(legs) > 0 /\ total(legs) <= terms.amount
    BY <1>4, <2>2 DEF resolveOutcome
  <2>4. legs \in Seq(Leg) /\ \A leg \in ToSet(legs) : leg \in ToSet(fixed) \/ leg \in ToSet(supplied)
    BY <2>1, ToSetOfConcat
  <2>5. ASSUME NEW leg \in ToSet(legs) PROVE leg.receiver \in termReceivers(terms) \union {terms.authorizer}
    <3>1. leg.receiver \in outcomeReceivers(rule.outcome)
      BY <1>4, <2>3, <2>4 DEF outcomeReceivers
    <3>. QED  BY <3>1 DEF termReceivers
  <2>6. legs \in Seq(PaidLeg)
    <3>1. ASSUME NEW i \in 1 .. Len(legs) PROVE legs[i] \in PaidLeg
      <4>1. legs[i] \in Leg /\ legs[i] \in ToSet(legs)
        <5>1. legs \in Seq(Leg)
          BY <2>4
        <5>. HIDE DEF legs
        <5>. QED  BY <5>1 DEF ToSet
      <4>2. legs[i].amount > 0
        BY <2>3, <4>1 DEF validLegs, validLeg
      <4>3. ASSUME NEW leg \in Leg, leg.amount > 0 PROVE leg \in PaidLeg
        BY <4>3, PolicyAssumption DEF Leg, Decimal, PaidLeg
      <4>. QED  BY <4>1, <4>2, <4>3
    <3>2. legs \in [1 .. Len(legs) -> PaidLeg] /\ Len(legs) \in Nat
      <4>. HIDE DEF legs
      <4>. QED  BY <2>4, <3>1
    <3>. HIDE DEF legs
    <3>. QED  BY <3>2, SeqDef
  <2>7. total(legs) \in 1 .. terms.amount
    BY <1>1, <2>3, PolicyAssumption DEF Decimal
  <2>. QED  BY <2>2, <2>5, <2>6, <2>7
<1>. QED  BY <1>3, <1>4

-------------------------------------------------------------------------------
LEMMA ReceiversType ==
    ASSUME NEW terms \in LockTerms
    PROVE  termReceivers(terms) \subseteq Accounts
<1> SUFFICES ASSUME NEW rule \in terms.rules PROVE outcomeReceivers(rule.outcome) \subseteq Accounts
  BY DEF termReceivers
<1>1. rule.outcome \in Outcome
  BY DEF LockTerms, Rule
<1>2. CASE rule.outcome.tag = "Unlock"
  BY <1>2 DEF outcomeReceivers
<1>3. CASE rule.outcome.tag # "Unlock"
  <2>1. rule.outcome.fixedLegs \in Seq(Leg) /\ rule.outcome.receivers \in Seq(Accounts)
    BY <1>1, <1>3 DEF Outcome
  <2>2. /\ ToSet(rule.outcome.fixedLegs) \subseteq Leg
        /\ ToSet(rule.outcome.receivers) \subseteq Accounts
    BY <2>1, ToSetOfSeq
  <2>. QED  BY <1>3, <2>2 DEF outcomeReceivers, Leg
<1>. QED  BY <1>2, <1>3

\* With fewer rules and another amount, terms have fewer receivers.
LEMMA FewerReceivers ==
    ASSUME NEW terms, NEW rules, rules \subseteq terms.rules, NEW smaller,
           smaller.rules = rules, smaller.authorizer = terms.authorizer
    PROVE  termReceivers(smaller) \subseteq termReceivers(terms)
BY DEF termReceivers

LEMMA ValidTerms ==
    ASSUME NEW admin, NEW terms, NEW t, validateTerms(admin, terms, t)
    PROVE  /\ terms.instrumentId.admin = admin
           /\ terms.amount > 0
           /\ \A rule \in terms.rules : rule.id # <<>>
           /\ \A q, r \in terms.rules : q.id = r.id => q = r
BY DEF validateTerms, validRule, noSlash

-------------------------------------------------------------------------------
(* Bags. *)

LEMMA BagUnionType ==
    ASSUME NEW S, NEW a, IsABag(a), DOMAIN a \subseteq S, NEW b, IsABag(b), DOMAIN b \subseteq S
    PROVE  IsABag(a (+) b) /\ DOMAIN (a (+) b) \subseteq S
BY DEF IsABag, (+)

LEMMA BagDifferenceType ==
    ASSUME NEW S, NEW a, IsABag(a), DOMAIN a \subseteq S, NEW b, IsABag(b)
    PROVE  IsABag(a (-) b) /\ DOMAIN (a (-) b) \subseteq S
<1> DEFINE left == [e \in DOMAIN a |-> IF e \in DOMAIN b THEN a[e] - b[e] ELSE a[e]]
           kept == {e \in DOMAIN left : left[e] > 0}
<1>1. a (-) b = [e \in kept |-> left[e]]
  BY DEF (-)
<1>2. ASSUME NEW e \in kept PROVE left[e] \in {n \in Nat : n > 0} /\ e \in S
  BY <1>2 DEF IsABag
<1>. HIDE DEF kept, left
<1>3. DOMAIN (a (-) b) = kept /\ kept \subseteq S
  BY <1>1, <1>2
<1>4. [e \in kept |-> left[e]] \in [kept -> {n \in Nat : n > 0}]
  BY <1>2
<1>. QED  BY <1>1, <1>3, <1>4 DEF IsABag

LEMMA EmptyBagType == IsABag(EmptyBag) /\ DOMAIN EmptyBag = {}
BY DEF EmptyBag, SetToBag, IsABag

LEMMA SingletonBagType ==
    ASSUME NEW e
    PROVE  IsABag(SetToBag({e})) /\ DOMAIN SetToBag({e}) = {e}
BY DEF SetToBag, IsABag

\* What an enactment issues is a bag of tokens.
LEMMA IssuedType ==
    ASSUME NEW terms \in LockTerms,
           NEW legs \in Seq(PaidLeg)
    PROVE  IsABag(issued(terms, legs)) /\ DOMAIN issued(terms, legs) \subseteq Token
<1> DEFINE paid(i)   == token(terms, legs[i].receiver, legs[i].amount)
           kinds     == {paid(i) : i \in DOMAIN legs}
           copies(t) == {i \in DOMAIN legs : paid(i) = t}
<1>1. issued(terms, legs) = [t \in kinds |-> Cardinality(copies(t))]
  BY DEF issued
<1>2. DOMAIN legs = 1 .. Len(legs) /\ Len(legs) \in Nat
  OBVIOUS
<1>3. ASSUME NEW t \in kinds PROVE Cardinality(copies(t)) \in {n \in Nat : n > 0}
  <2>1. IsFiniteSet(DOMAIN legs)
    BY <1>2, FS_Interval
  <2>2. copies(t) \in SUBSET DOMAIN legs /\ copies(t) # {}
    OBVIOUS
  <2>. HIDE DEF copies
  <2>3. IsFiniteSet(copies(t))
    BY <2>1, <2>2, FS_Subset
  <2>4. Cardinality(copies(t)) \in Nat /\ Cardinality(copies(t)) # 0
    BY <2>2, <2>3, FS_CardinalityType, FS_EmptySet
  <2>. QED  BY <2>4
<1>4. kinds \subseteq Token
  <2> SUFFICES ASSUME NEW i \in DOMAIN legs PROVE paid(i) \in Token
    OBVIOUS
  <2>1. legs[i] \in PaidLeg
    BY <1>2
  <2>2. terms.instrumentId \in InstrumentId
    BY DEF LockTerms
  <2>. QED  BY <2>1, <2>2 DEF token, Token, PaidLeg
<1>. HIDE DEF kinds, copies
<1>5. [t \in kinds |-> Cardinality(copies(t))] \in [kinds -> {n \in Nat : n > 0}]
  BY <1>3
<1>. QED  BY <1>1, <1>4, <1>5 DEF IsABag

-------------------------------------------------------------------------------
(* The four ways in which a choice changes what is live.                   *)

LEMMA StateType ==
    ASSUME NEW s \in State
    PROVE  /\ s.terms \in LockTerms /\ s.terms.amount \in 1 .. MaxDecimal
           /\ s.terms.authorizer \in Accounts /\ s.terms.instrumentId \in InstrumentId
           /\ s.holdingCid.gen \in Nat /\ s.holdingCid.lockId \in Text
           /\ s.lockId \in Text /\ s.enactedRuleIds \in SUBSET Text
           /\ s.accepted \in SUBSET Accounts /\ s.approvals \in SUBSET Approval
           /\ backing(s) \in LockedHolding
BY PolicyAssumption DEF State, LockedTerms, LockTerms, HoldingCid, LockedHolding, backing, Decimal

\* A factory becomes a lock.
LEMMA Created ==
    ASSUME BackingMatches, factories \subseteq Factories,
           NEW f \in factories, factories' = factories \ {f},
           NEW s, s.lockId = f.lockId, s.holdingCid.lockId = s.lockId,
           live' = live \union {s}, holdings' = holdings \union {backing(s)}
    PROVE  BackingMatches'
<1>1. \A t \in live : t.lockId # s.lockId
  BY DEF BackingMatches
<1>2. \A g \in factories' : g.lockId # s.lockId
  BY TestTokenAssumption
<1>3. \A t \in live' : t \in live \/ t = s
  OBVIOUS
<1>4. (\A t, u \in live : t.lockId = u.lockId => t = u)'
  BY <1>1, <1>3 DEF BackingMatches
<1>5. (\A t \in live, g \in factories : t.lockId # g.lockId)'
  BY <1>2, <1>3 DEF BackingMatches
<1>6. (\A t \in live : t.holdingCid.lockId = t.lockId /\ backing(t) \in holdings)'
  BY <1>3 DEF BackingMatches
<1>7. (\A h \in holdings : \E t \in live : h = backing(t))'
  BY DEF BackingMatches
<1>. QED  BY <1>4, <1>5, <1>6, <1>7 DEF BackingMatches

\* The holdings that remain when the backing of a lock is archived.
LEMMA OtherBackings ==
    ASSUME BackingMatches, NEW s \in live
    PROVE  /\ \A t \in live \ {s} : backing(t) \in withoutBacking(s)
           /\ \A h \in withoutBacking(s) : \E t \in live \ {s} : h = backing(t)
<1>1. ASSUME NEW t \in live \ {s} PROVE backing(t) \in withoutBacking(s)
  <2>1. t.holdingCid.lockId # s.holdingCid.lockId
    BY DEF BackingMatches
  <2>. QED  BY <2>1 DEF BackingMatches, withoutBacking, backing
<1>2. ASSUME NEW h \in withoutBacking(s) PROVE \E t \in live \ {s} : h = backing(t)
  <2>1. PICK t \in live : h = backing(t)
    BY DEF BackingMatches, withoutBacking
  <2>2. t # s
    BY <2>1 DEF withoutBacking, backing
  <2>. QED  BY <2>1, <2>2
<1>. QED  BY <1>1, <1>2

\* A lock ends.
LEMMA Closed ==
    ASSUME BackingMatches, NEW s \in live, UNCHANGED factories,
           live' = live \ {s}, holdings' = withoutBacking(s)
    PROVE  BackingMatches'
BY OtherBackings DEF BackingMatches

\* A lock is replaced, and its backing with it.
LEMMA Replaced ==
    ASSUME BackingMatches, NEW s \in live, UNCHANGED factories,
           NEW t, t.lockId = s.lockId, t.holdingCid.lockId = t.lockId,
           live' = (live \ {s}) \union {t},
           holdings' = withoutBacking(s) \union {backing(t)}
    PROVE  BackingMatches'
<1>1. \A u \in live' : u = t \/ (u \in live \ {s} /\ u.lockId # t.lockId)
  BY DEF BackingMatches
<1>2. (\A u, v \in live : u.lockId = v.lockId => u = v)'
  BY <1>1 DEF BackingMatches
<1>3. (\A u \in live, f \in factories : u.lockId # f.lockId)'
  BY <1>1 DEF BackingMatches
<1>4. (\A u \in live : u.holdingCid.lockId = u.lockId /\ backing(u) \in holdings)'
  BY <1>1, OtherBackings DEF BackingMatches
<1>5. (\A h \in holdings : \E u \in live : h = backing(u))'
  BY OtherBackings
<1>. QED  BY <1>2, <1>3, <1>4, <1>5 DEF BackingMatches

\* A lock is replaced over the same backing.
LEMMA Rerecorded ==
    ASSUME BackingMatches, NEW s \in live, UNCHANGED <<factories, holdings>>,
           NEW t, t.lockId = s.lockId, t.holdingCid = s.holdingCid, backing(t) = backing(s),
           live' = (live \ {s}) \union {t}
    PROVE  BackingMatches'
<1>1. \A u \in live' : u = t \/ (u \in live \ {s} /\ u.lockId # t.lockId)
  BY DEF BackingMatches
<1>2. (\A u, v \in live : u.lockId = v.lockId => u = v)'
  BY <1>1 DEF BackingMatches
<1>3. (\A u \in live, f \in factories : u.lockId # f.lockId)'
  BY <1>1 DEF BackingMatches
<1>4. (\A u \in live : u.holdingCid.lockId = u.lockId /\ backing(u) \in holdings)'
  BY <1>1 DEF BackingMatches
<1>5. (\A h \in holdings : \E u \in live : h = backing(u))'
  BY DEF BackingMatches
<1>. QED  BY <1>2, <1>3, <1>4, <1>5 DEF BackingMatches

-------------------------------------------------------------------------------
(* The states that choices create.                                         *)

LEMMA Made ==
    ASSUME NEW id, NEW terms, NEW accepted, NEW gen, NEW fired, NEW approvals,
           NEW s, s = mkState(id, terms, accepted, gen, fired, approvals)
    PROVE  /\ s.lockId = id /\ s.terms = terms /\ s.accepted = accepted
           /\ s.holdingCid = [lockId |-> id, gen |-> gen] /\ s.holdingCid.lockId = s.lockId
           /\ s.enactedRuleIds = fired /\ s.approvals = approvals
           /\ pending(s) = termReceivers(terms) \ accepted
BY DEF mkState, pending

LEMMA MadeOK ==
    ASSUME NEW id \in Text, NEW terms \in LockTerms, terms.amount > 0,
           NEW accepted \in SUBSET Accounts, NEW gen \in Nat,
           NEW fired \in SUBSET Text, NEW approvals \in SUBSET Approval,
           NEW s, s = mkState(id, terms, accepted, gen, fired, approvals),
           terms.instrumentId.admin = Admin,
           accepted \subseteq termReceivers(terms),
           \A rule \in terms.rules : rule.id # <<>> /\ rule.id \notin fired,
           \A q, r \in terms.rules : q.id = r.id => q = r,
           wellApproved(s)
    PROVE  LockOK(s)
<1>1. s \in State
  BY DEF mkState, State, LockedTerms, HoldingCid
<1>2. s.terms = terms /\ s.accepted = accepted /\ s.enactedRuleIds = fired
  BY DEF mkState
<1>. QED  BY <1>1, <1>2 DEF LockOK

LEMMA NoApprovals ==
    ASSUME NEW s, s.approvals = {}
    PROVE  wellApproved(s)
BY DEF wellApproved

LEMMA Started ==
    ASSUME NEW s, LockOK(s), s.approvals = {}
    PROVE  /\ \A t \in start(s).locks : ActiveOK(t)
           /\ \A t \in start(s).instructions : PendingOK(t)
           /\ start(s).locks \union start(s).instructions = {s}
BY DEF start, ActiveOK, PendingOK

LEMMA LockedOK ==
    ASSUME NEW f \in Factories, NEW terms \in ProposedTerms, NEW inputs, NEW actors,
           lockChecks(f, terms, inputs, actors)
    PROVE  LockOK(locked(f, terms, actors))
<1> DEFINE accepted == {a \in termReceivers(terms) : authorized(accountParties(a), actors)}
<1>1. f.lockId \in Text /\ terms \in LockTerms
  BY TestTokenAssumption DEF Factory
<1>2. validateTerms(Admin, terms, now)
  BY DEF lockChecks
<1>3. accepted \subseteq termReceivers(terms) /\ accepted \in SUBSET Accounts
  BY <1>1, ReceiversType
<1>. HIDE DEF accepted
<1>4. locked(f, terms, actors) = mkState(f.lockId, terms, accepted, 1, {}, {})
  BY DEF locked, accepted
<1>5. wellApproved(locked(f, terms, actors))
  BY <1>4, NoApprovals DEF mkState
<1>6. /\ terms.instrumentId.admin = Admin /\ terms.amount > 0
      /\ \A rule \in terms.rules : rule.id # <<>>
      /\ \A q, r \in terms.rules : q.id = r.id => q = r
  BY <1>2, ValidTerms
<1>. QED  BY <1>1, <1>3, <1>4, <1>5, <1>6, MadeOK

LEMMA AcceptedOK ==
    ASSUME NEW s, LockOK(s), NEW approver \in pending(s)
    PROVE  LockOK(acceptedBy(s, approver))
<1>1. s \in State
  BY DEF LockOK
<1>2. approver \in termReceivers(s.terms) /\ termReceivers(s.terms) \subseteq Accounts
  BY <1>1, StateType, ReceiversType DEF pending
<1>3. /\ s.accepted \union {approver} \in SUBSET Accounts
      /\ s.accepted \union {approver} \subseteq termReceivers(s.terms)
      /\ s.holdingCid.gen + 1 \in Nat
  BY <1>1, <1>2, StateType DEF LockOK
<1>4. s.terms.amount > 0
  BY <1>1, StateType, PolicyAssumption
<1>5. wellApproved(acceptedBy(s, approver))
  BY NoApprovals DEF acceptedBy, mkState
<1>6. /\ s.terms \in LockTerms /\ s.lockId \in Text /\ s.enactedRuleIds \in SUBSET Text
      /\ s.terms.instrumentId.admin = Admin
      /\ \A rule \in s.terms.rules : rule.id # <<>> /\ rule.id \notin s.enactedRuleIds
      /\ \A q, r \in s.terms.rules : q.id = r.id => q = r
  BY <1>1, StateType DEF LockOK
<1>. QED  BY <1>3, <1>4, <1>5, <1>6, MadeOK DEF acceptedBy

LEMMA AmendedOK ==
    ASSUME NEW s, LockOK(s), NEW newTerms \in ProposedTerms, NEW inputs, NEW actors,
           amendChecks(s, newTerms, inputs, actors)
    PROVE  LockOK(amended(s, newTerms, actors))
<1> DEFINE accepted == acceptedUnder(s, newTerms, actors)
<1>1. s \in State /\ newTerms \in LockTerms /\ s.terms.instrumentId.admin = Admin
  BY TestTokenAssumption DEF LockOK
<1>2. validateTerms(Admin, newTerms, now) /\ reusesNoRuleId(s, newTerms)
  BY <1>1 DEF amendChecks
<1>3. accepted \subseteq termReceivers(newTerms) /\ accepted \in SUBSET Accounts
  BY <1>1, ReceiversType DEF acceptedUnder
<1>4. s.holdingCid.gen + 1 \in Nat
  BY <1>1, StateType
<1>. HIDE DEF accepted
<1>5. amended(s, newTerms, actors)
        = mkState(s.lockId, newTerms, accepted, s.holdingCid.gen + 1, s.enactedRuleIds, {})
  BY DEF amended, accepted, clearApprovals
<1>6. wellApproved(amended(s, newTerms, actors))
  BY <1>5, NoApprovals DEF mkState
<1>7. /\ newTerms.instrumentId.admin = Admin /\ newTerms.amount > 0
      /\ \A rule \in newTerms.rules : rule.id # <<>> /\ rule.id \notin s.enactedRuleIds
      /\ \A q, r \in newTerms.rules : q.id = r.id => q = r
  BY <1>2, ValidTerms DEF reusesNoRuleId
<1>. QED  BY <1>1, <1>3, <1>4, <1>5, <1>6, <1>7, StateType, MadeOK

\* An approval replaces nothing but the approvals.
LEMMA ApprovedKeeps ==
    ASSUME NEW s \in State, NEW rule, NEW legs, NEW actors
    PROVE  LET t == approved(s, rule, legs, actors)
           IN  /\ t.lockId = s.lockId /\ t.terms = s.terms /\ t.accepted = s.accepted
               /\ t.holdingCid = s.holdingCid /\ t.enactedRuleIds = s.enactedRuleIds
               /\ t.approvals = recordApproval(rule.id, legs, approversOf(rule, actors), s.approvals)
               /\ t.approvals \in SUBSET Approval => t \in State
BY DEF approved, State

\* One more approval of a rule keeps the approvals well formed: it joins the
\* entry of its legs, and the parties it adds are in no other entry of the rule.
LEMMA ApprovedOK ==
    ASSUME NEW s, LockOK(s), NEW rule, NEW legs \in SuppliedLegs, NEW actors \in ActorSets,
           approveChecks(s, rule, legs, actors)
    PROVE  LockOK(approved(s, rule, legs, actors))
<1> DEFINE adding  == approversOf(rule, actors)
           before  == approversFor(rule.id, legs, s.approvals)
           matches == {a \in s.approvals : a.ruleId = rule.id /\ a.legs = legs}
           entry   == [ruleId |-> rule.id, legs |-> legs, approvers |-> adding \union before]
           t       == approved(s, rule, legs, actors)
<1>1. /\ s \in State /\ s.terms \in LockTerms /\ s.approvals \in SUBSET Approval
      /\ wellApproved(s)
      /\ \A q, r \in s.terms.rules : q.id = r.id => q = r
  BY StateType DEF LockOK
<1>2. /\ rule \in s.terms.rules /\ hasPartiesGuard(rule) /\ adding # {}
      /\ adding \intersect elsewhere(rule.id, legs, s.approvals) = {}
  BY DEF approveChecks, approve
<1>3. t.approvals = (s.approvals \ matches) \union {entry} /\ t.terms = s.terms
  BY <1>1, ApprovedKeeps DEF recordApproval
<1>4. before = UNION {a.approvers : a \in matches}
  BY DEF approversFor
<1>5. entry \in Approval
  <2>1. rule.id \in Text /\ legs \in Seq(Leg) /\ adding \subseteq Party
    BY <1>1, <1>2, TestTokenAssumption DEF LockTerms, Rule, approversOf
  <2>2. before \subseteq Party
    BY <1>1, <1>4 DEF Approval
  <2>. QED  BY <2>1, <2>2 DEF Approval
<1>6. adding \union before \subseteq approvalParties(rule)
  <2>1. adding \subseteq approvalParties(rule)
    BY DEF approversOf
  <2>2. ASSUME NEW a \in matches PROVE a.approvers \subseteq approvalParties(rule)
    <3>1. PICK r \in s.terms.rules : r.id = a.ruleId /\ a.approvers \subseteq approvalParties(r)
      BY <1>1 DEF wellApproved
    <3>2. r = rule
      BY <1>1, <1>2, <3>1
    <3>. QED  BY <3>1, <3>2
  <2>. QED  BY <1>4, <2>1, <2>2
<1>7. ASSUME NEW b \in s.approvals \ matches, b.ruleId = rule.id
      PROVE  b.legs # legs /\ (adding \union before) \intersect b.approvers = {}
  <2>1. b.legs # legs
    BY <1>7
  <2>2. adding \intersect b.approvers = {}
    BY <1>2, <1>7, <2>1 DEF elsewhere
  <2>3. ASSUME NEW a \in matches PROVE a.approvers \intersect b.approvers = {}
    BY <1>1, <1>7 DEF wellApproved
  <2>. QED  BY <1>4, <2>1, <2>2, <2>3
<1>. HIDE DEF adding, before, matches, t
<1>8. /\ entry.ruleId = rule.id /\ entry.legs = legs /\ entry.approvers = adding \union before
  OBVIOUS
<1>. HIDE DEF entry
<1>9. wellApproved(t)
  <2> SUFFICES ASSUME NEW a \in t.approvals
               PROVE  /\ a.approvers # {}
                      /\ \E r \in s.terms.rules : /\ r.id = a.ruleId /\ hasPartiesGuard(r)
                                                  /\ a.approvers \subseteq approvalParties(r)
                      /\ \A b \in t.approvals \ {a} :
                            b.ruleId = a.ruleId =>
                                b.legs # a.legs /\ a.approvers \intersect b.approvers = {}
    BY <1>3 DEF wellApproved
  <2>1. CASE a = entry
    BY <1>2, <1>3, <1>6, <1>7, <1>8, <2>1
  <2>2. CASE a \in s.approvals \ matches
    <3>1. /\ a.approvers # {}
          /\ \E r \in s.terms.rules : /\ r.id = a.ruleId /\ hasPartiesGuard(r)
                                      /\ a.approvers \subseteq approvalParties(r)
          /\ \A b \in s.approvals \ {a} :
                b.ruleId = a.ruleId => b.legs # a.legs /\ a.approvers \intersect b.approvers = {}
      BY <1>1, <2>2 DEF wellApproved
    <3>2. entry.ruleId = a.ruleId =>
              entry.legs # a.legs /\ a.approvers \intersect entry.approvers = {}
      BY <1>7, <1>8, <2>2
    <3>. QED  BY <1>3, <3>1, <3>2
  <2>. QED  BY <1>3, <2>1, <2>2
<1>10. t \in State /\ t.accepted = s.accepted /\ t.enactedRuleIds = s.enactedRuleIds
  BY <1>1, <1>3, <1>5, ApprovedKeeps DEF t
<1>. QED  BY <1>1, <1>3, <1>9, <1>10 DEF LockOK, t

\* What remains of s when it continues as t.
Continues(s, t) ==
    /\ t.lockId = s.lockId /\ t.holdingCid.lockId = s.lockId
    /\ t.terms.amount > 0
    /\ t.terms.authorizer = s.terms.authorizer
    /\ t.terms.instrumentId = s.terms.instrumentId
    /\ t.accepted \subseteq s.accepted /\ t.accepted \subseteq termReceivers(t.terms)

\* What a lock continues with: fewer rules, a smaller amount, and of the
\* acceptances those that still concern a receiver, which are all that it needs.
LEMMA Continued ==
    ASSUME NEW s, ActiveOK(s), NEW rules, rules \subseteq s.terms.rules, NEW paid,
           remaining(s, paid) \in 1 .. MaxDecimal,
           NEW fired \in SUBSET Text, NEW approvals \in SUBSET Approval,
           \A rule \in rules : rule.id \notin fired,
           NEW t, t = continuation(s, paid, rules, fired, approvals)
    PROVE  /\ Continues(s, t)
           /\ t.terms.rules = rules /\ t.approvals = approvals
           /\ wellApproved(t) => ActiveOK(t)
<1> DEFINE terms    == [s.terms EXCEPT !.amount = remaining(s, paid), !.rules = rules]
           accepted == s.accepted \intersect termReceivers(terms)
<1>1. /\ s.terms \in LockTerms /\ s.lockId \in Text /\ s.holdingCid.gen + 1 \in Nat
      /\ s.accepted \in SUBSET Accounts /\ s.terms.instrumentId.admin = Admin
      /\ termReceivers(s.terms) \subseteq s.accepted
      /\ \A rule \in s.terms.rules : rule.id # <<>>
      /\ \A q, r \in s.terms.rules : q.id = r.id => q = r
  BY StateType DEF ActiveOK, LockOK, pending
<1>2. /\ terms \in LockTerms /\ terms.amount > 0 /\ terms.rules = rules
      /\ terms.authorizer = s.terms.authorizer /\ terms.instrumentId = s.terms.instrumentId
  <2>1. rules \in SUBSET Rule /\ remaining(s, paid) \in Decimal /\ remaining(s, paid) > 0
    BY <1>1, PolicyAssumption DEF LockTerms, Decimal
  <2>. QED  BY <1>1, <2>1 DEF LockTerms
<1>3. t = mkState(s.lockId, terms, accepted, s.holdingCid.gen + 1, fired, approvals)
  BY DEF continuation
<1>. HIDE DEF terms
<1>4. termReceivers(terms) \subseteq termReceivers(s.terms)
  BY <1>2, FewerReceivers
<1>5. accepted \in SUBSET Accounts /\ accepted \subseteq termReceivers(terms)
      /\ termReceivers(terms) \ accepted = {} /\ accepted \subseteq s.accepted
  BY <1>1, <1>4
<1>. HIDE DEF accepted
<1>6. /\ t.lockId = s.lockId /\ t.holdingCid.lockId = s.lockId /\ t.terms = terms
      /\ t.accepted = accepted /\ t.approvals = approvals
      /\ pending(t) = termReceivers(terms) \ accepted
  BY <1>3 DEF mkState, pending
<1>7. ASSUME wellApproved(t) PROVE LockOK(t)
  <2>1. /\ terms.instrumentId.admin = Admin
        /\ \A rule \in terms.rules : rule.id # <<>> /\ rule.id \notin fired
        /\ \A q, r \in terms.rules : q.id = r.id => q = r
    BY <1>1, <1>2
  <2>. QED  BY <1>1, <1>2, <1>3, <1>5, <1>7, <2>1, MadeOK
<1>. QED  BY <1>2, <1>5, <1>6, <1>7 DEF ActiveOK, Continues

\* After a rule has fired, the approvals of the others are as well formed as before.
LEMMA AfterRuleOK ==
    ASSUME NEW s, ActiveOK(s), NEW rule \in s.terms.rules, NEW legs,
           remaining(s, resolvedLegs(s.terms, rule.outcome, legs)) \in 1 .. MaxDecimal
    PROVE  LET t == afterRule(s, rule, legs)
           IN  ActiveOK(t) /\ Continues(s, t)
<1> DEFINE rules     == {r \in s.terms.rules : r.id # rule.id}
           fired     == s.enactedRuleIds \union {rule.id}
           approvals == dropApprovals(rule.id, s.approvals)
           paid      == resolvedLegs(s.terms, rule.outcome, legs)
           t         == afterRule(s, rule, legs)
<1>1. s \in State /\ rule \in Rule /\ wellApproved(s)
      /\ \A r \in s.terms.rules : r.id \notin s.enactedRuleIds
  BY StateType DEF ActiveOK, LockOK, LockTerms
<1>2. rules \subseteq s.terms.rules /\ (\A r \in rules : r.id \notin fired)
  BY <1>1
<1>3. fired \in SUBSET Text /\ approvals \in SUBSET Approval
  BY <1>1, StateType DEF Rule, dropApprovals
<1>4. t = continuation(s, paid, rules, fired, approvals)
  BY DEF afterRule
<1>5. approvals = {a \in s.approvals : a.ruleId # rule.id}
  BY DEF dropApprovals
<1>6. ASSUME t.terms.rules = rules, t.approvals = approvals PROVE wellApproved(t)
  <2> SUFFICES ASSUME NEW a \in approvals
               PROVE  /\ a.approvers # {}
                      /\ \E r \in rules : /\ r.id = a.ruleId /\ hasPartiesGuard(r)
                                          /\ a.approvers \subseteq approvalParties(r)
                      /\ \A b \in approvals \ {a} :
                            b.ruleId = a.ruleId =>
                                b.legs # a.legs /\ a.approvers \intersect b.approvers = {}
    BY <1>6 DEF wellApproved
  <2>. QED  BY <1>1, <1>5 DEF wellApproved
<1>. HIDE DEF rules, fired, approvals, paid, t
<1>7. remaining(s, paid) \in 1 .. MaxDecimal
  BY DEF paid
<1>8. ActiveOK(s) /\ \A r \in rules : r.id \notin fired
  BY <1>2
<1>9. /\ Continues(s, t)
      /\ t.terms.rules = rules /\ t.approvals = approvals
      /\ wellApproved(t) => ActiveOK(t)
  BY <1>2, <1>3, <1>4, <1>7, <1>8, Continued
<1>. QED  BY <1>6, <1>9 DEF t

-------------------------------------------------------------------------------
(* What a choice has checked, its body can do.                             *)

LEMMA Backed ==
    ASSUME BackingMatches, NEW s \in live
    PROVE  backingMatches(s)
BY DEF BackingMatches, backingMatches, backing

LEMMA LockCommits ==
    ASSUME NEW f \in Factories, NEW terms \in ProposedTerms, NEW inputs, NEW actors,
           lockChecks(f, terms, inputs, actors)
    PROVE  lockCommits(f, terms, actors)
<1> DEFINE s == locked(f, terms, actors)
<1>1. validateTerms(Admin, terms, now) /\ accountParties(terms.authorizer) \subseteq actors
  BY DEF lockChecks, authorized
<1>2. terms.instrumentId.admin = Admin /\ terms.amount > 0
  BY <1>1, ValidTerms
<1>3. /\ s.terms = terms /\ s.accepted \subseteq termReceivers(terms)
      /\ \A a \in s.accepted : accountParties(a) \subseteq actors
  BY DEF locked, mkState, authorized
<1>. HIDE DEF s
<1>4. stateSignatories(s) \subseteq {Admin} \union actors
  BY <1>1, <1>2, <1>3 DEF stateSignatories
<1>. QED  BY <1>1, <1>2, <1>3, <1>4 DEF lockCommits, issueCommits, startCommits, s

LEMMA AcceptCommits ==
    ASSUME BackingMatches, NEW s \in instructions, LockOK(s),
           NEW approver \in pending(s), NEW actors, acceptChecks(s, approver, actors)
    PROVE  acceptCommits(s, approver, actors)
<1> DEFINE t == acceptedBy(s, approver)
<1>1. backingMatches(s)
  BY Backed DEF live
<1>2. accountParties(approver) \subseteq actors
  BY DEF acceptChecks, authorized
<1>3. t.terms = s.terms /\ t.accepted = s.accepted \union {approver}
  BY DEF acceptedBy, mkState
<1>4. s.terms.amount > 0 /\ t.accepted \subseteq termReceivers(s.terms)
  BY <1>3, StateType, PolicyAssumption DEF LockOK, pending
<1>. HIDE DEF t
<1>5. stateSignatories(t) \subseteq stateSignatories(s) \union actors
  BY <1>2, <1>3 DEF stateSignatories
<1>. QED  BY <1>1, <1>3, <1>4, <1>5 DEF acceptCommits, startCommits, t

LEMMA WithdrawCommits ==
    ASSUME BackingMatches, NEW s \in live, NEW actors
    PROVE  withdrawCommits(s, actors)
BY Backed DEF withdrawCommits, issueCommits, stateSignatories

LEMMA AmendCommits ==
    ASSUME BackingMatches, NEW s \in locks, LockOK(s), NEW newTerms, NEW inputs, NEW actors,
           amendChecks(s, newTerms, inputs, actors)
    PROVE  amendCommits(s, newTerms, actors)
<1> DEFINE t == amended(s, newTerms, actors)
<1>1. backingMatches(s)
  BY Backed DEF live
<1>2. /\ newTerms.authorizer = s.terms.authorizer /\ newTerms.instrumentId = s.terms.instrumentId
      /\ newTerms.amount > 0
  BY ValidTerms DEF amendChecks
<1>3. /\ t.terms = newTerms /\ t.accepted \subseteq termReceivers(newTerms)
      /\ \A a \in t.accepted : a \in s.accepted \/ accountParties(a) \subseteq actors
  BY DEF amended, mkState, acceptedUnder, authorized
<1>. HIDE DEF t
<1>4. stateSignatories(t) \subseteq stateSignatories(s) \union actors
  BY <1>2, <1>3 DEF stateSignatories
<1>5. issueCommits(newTerms, newTerms.authorizer, stateSignatories(s) \union actors)
  BY <1>2 DEF issueCommits, stateSignatories
<1>. QED  BY <1>1, <1>2, <1>3, <1>4, <1>5 DEF amendCommits, startCommits, t

\* A refund pays one leg, which leaves nothing in the lock.
LEMMA RefundLeg ==
    ASSUME NEW s \in State, NEW legId \in Fragment
    PROVE  /\ refundLeg(s, legId) \in Seq(PaidLeg)
           /\ \A leg \in ToSet(refundLeg(s, legId)) : leg.receiver = s.terms.authorizer
           /\ remaining(s, refundLeg(s, legId)) = 0
           /\ toReceivers(s, refundLeg(s, legId)) = {}
<1> DEFINE leg == [legId |-> <<legId>>, receiver |-> s.terms.authorizer,
                   amount |-> s.terms.amount, meta |-> {}]
<1>1. refundLeg(s, legId) = <<leg>> /\ leg.receiver = s.terms.authorizer
  BY DEF refundLeg
<1>2. leg \in PaidLeg /\ leg.amount = s.terms.amount /\ leg.amount \in Int
  BY StateType DEF PaidLeg, Text
<1>. HIDE DEF leg
<1>3. total(<<leg>>) = s.terms.amount
  BY <1>2, SingleTotal
<1>4. remaining(s, <<leg>>) = 0
  BY <1>2, <1>3 DEF remaining
<1>5. toReceivers(s, <<leg>>) = {}
  BY <1>1 DEF toReceivers
<1>. QED  BY <1>1, <1>2, <1>4, <1>5, ToSetOfOne

LEMMA RefundCommits ==
    ASSUME BackingMatches, NEW s \in live, s \in State, NEW legId \in Fragment, NEW actors
    PROVE  refundCommits(s, legId, actors)
BY Backed, RefundLeg DEF refundCommits, enactCommits, issueCommits, stateSignatories

LEMMA EnactCommits ==
    ASSUME BackingMatches, NEW s \in locks, ActiveOK(s), NEW rule \in s.terms.rules,
           NEW legs \in SuppliedLegs, NEW witness, NEW actors,
           enactChecks(s, rule, legs, witness, actors)
    PROVE  LET paid == resolvedLegs(s.terms, rule.outcome, legs)
           IN  /\ paid \in Seq(PaidLeg)
               /\ remaining(s, paid) # 0 =>
                      ActiveOK(afterRule(s, rule, legs)) /\ Continues(s, afterRule(s, rule, legs))
               /\ enactCommits(s, rule.id, paid, afterRule(s, rule, legs),
                               stateSignatories(s) \union actors)
<1> DEFINE paid == resolvedLegs(s.terms, rule.outcome, legs)
           t    == afterRule(s, rule, legs)
<1>1. /\ s.terms \in LockTerms /\ s.terms.amount \in 1 .. MaxDecimal
      /\ rule.id # <<>> /\ termReceivers(s.terms) \subseteq s.accepted
  BY StateType DEF ActiveOK, LockOK, pending
<1>2. legs \in Seq(Leg) /\ resolveOutcome(s.terms, rule.outcome, legs)
  BY TestTokenAssumption DEF enactChecks
<1>3. /\ paid \in Seq(PaidLeg) /\ total(paid) \in 1 .. s.terms.amount
      /\ \A leg \in ToSet(paid) : leg.receiver \in termReceivers(s.terms) \union {s.terms.authorizer}
  BY <1>1, <1>2, ResolvedLegsPayReceivers
<1>4. backingMatches(s)
  BY Backed DEF live
<1>5. \A leg \in ToSet(paid) : issueCommits(s.terms, leg.receiver, stateSignatories(s) \union actors)
  BY <1>1, <1>3 DEF issueCommits, stateSignatories
<1>. HIDE DEF paid, t
<1>6. ASSUME remaining(s, paid) # 0
      PROVE  ActiveOK(t) /\ Continues(s, t)
  <2>1. remaining(s, paid) \in 1 .. MaxDecimal
    <3>1. MaxDecimal \in Nat
      BY PolicyAssumption
    <3> DEFINE amount == s.terms.amount
               spent  == total(paid)
    <3>2. amount \in 1 .. MaxDecimal /\ spent \in 1 .. amount /\ amount - spent # 0
      BY <1>1, <1>3, <1>6 DEF remaining
    <3>3. remaining(s, paid) = amount - spent
      BY DEF remaining
    <3>. HIDE DEF amount, spent
    <3>4. amount - spent \in 1 .. MaxDecimal
      BY ONLY <3>1, <3>2
    <3>. QED  BY <3>3, <3>4
  <2>. QED  BY <2>1, AfterRuleOK DEF paid, t
<1>7. ASSUME ActiveOK(t), Continues(s, t)
      PROVE  startCommits(t, stateSignatories(s) \union actors) /\ pending(t) = {}
  BY <1>7 DEF Continues, startCommits, stateSignatories, ActiveOK
<1>8. enactCommits(s, rule.id, paid, t, stateSignatories(s) \union actors)
  BY <1>1, <1>4, <1>5, <1>6, <1>7 DEF enactCommits
<1>. QED  BY <1>3, <1>6, <1>8 DEF paid, t

-------------------------------------------------------------------------------
(* The invariant is inductive.                                             *)

LEMMA Apart ==
    ASSUME LocksOK
    PROVE  locks \intersect instructions = {}
BY DEF LocksOK, ActiveOK, PendingOK

LEMMA RefundType ==
    ASSUME NEW terms \in LockTerms, NEW amount \in Int, amount <= MaxDecimal
    PROVE  /\ IsABag(issueChange(terms, amount)) /\ DOMAIN issueChange(terms, amount) \subseteq Token
           /\ amount > 0 => /\ IsABag(issueToAuthorizer(terms, amount))
                            /\ DOMAIN issueToAuthorizer(terms, amount) \subseteq Token
<1>1. CASE amount > 0
  <2>1. token(terms, terms.authorizer, amount) \in Token
    BY <1>1, PolicyAssumption DEF token, Token, LockTerms
  <2>2. issueChange(terms, amount) = issueToAuthorizer(terms, amount)
    BY <1>1 DEF issueChange
  <2>3. /\ IsABag(issueToAuthorizer(terms, amount))
        /\ DOMAIN issueToAuthorizer(terms, amount) = {token(terms, terms.authorizer, amount)}
    BY SingletonBagType DEF issueToAuthorizer
  <2>. QED  BY <2>1, <2>2, <2>3
<1>2. CASE ~(amount > 0)
  BY <1>2, EmptyBagType DEF issueChange
<1>. QED  BY <1>1, <1>2

LEMMA InitOK ==
    ASSUME Init
    PROVE  IInv
<1>1. FundsOK
  BY TestTokenAssumption DEF Init, FundsOK, Factory
<1>2. LocksOK /\ BackingMatches
  BY DEF Init, LocksOK, BackingMatches, live
<1>. QED  BY <1>1, <1>2 DEF IInv

LEMMA LockOKStep ==
    ASSUME IInv, NEW f \in factories, NEW terms \in ProposedTerms, NEW inputs, NEW actors,
           Lock(f, terms, inputs, actors)
    PROVE  IInv'
<1> DEFINE s      == locked(f, terms, actors)
           change == bagTotal(inputs) - terms.amount
<1>1. f \in Factories /\ lockChecks(f, terms, inputs, actors)
  BY DEF IInv, FundsOK, Lock
<1>2. /\ terms \in LockTerms /\ terms.amount > 0 /\ terms.amount \in Int
      /\ IsABag(inputs) /\ bagTotal(inputs) \in Decimal
  BY <1>1, TestTokenAssumption, ValidTerms DEF lockChecks, fundedBy, LockTerms, Decimal
<1>3. LockOK(s) /\ s.approvals = {} /\ s.lockId = f.lockId /\ s.holdingCid.lockId = s.lockId
  BY <1>1, LockedOK DEF locked, mkState
<1>4. change \in Int /\ change <= MaxDecimal
  BY <1>2, PolicyAssumption DEF Decimal
<1>5. /\ factories' = factories \ {f} /\ holdings' = holdings \union {backing(s)}
      /\ locks' = locks \union start(s).locks
      /\ instructions' = instructions \union start(s).instructions
      /\ tokens' = (tokens (-) inputs) (+) issueChange(terms, change)
      /\ now' = now /\ tokenRules' = tokenRules
  BY DEF Lock
<1>. HIDE DEF s, change
<1>6. FundsOK'
  <2>1. IsABag(issueChange(terms, change)) /\ DOMAIN issueChange(terms, change) \subseteq Token
    BY <1>2, <1>4, RefundType
  <2>2. IsABag(tokens (-) inputs) /\ DOMAIN (tokens (-) inputs) \subseteq Token
    BY <1>2, BagDifferenceType DEF IInv, FundsOK
  <2>3. IsABag(tokens') /\ DOMAIN tokens' \subseteq Token
    BY <1>5, <2>1, <2>2, BagUnionType
  <2>4. backing(s) \in LockedHolding
    BY <1>3, StateType DEF LockOK
  <2>. QED  BY <1>5, <2>3, <2>4 DEF IInv, FundsOK
<1>7. LocksOK'
  BY <1>3, <1>5, Started DEF IInv, LocksOK
<1>8. BackingMatches'
  <2>1. live' = live \union {s}
    BY <1>3, <1>5, Started DEF live
  <2>. QED  BY <1>3, <1>5, <2>1, Created DEF IInv, FundsOK
<1>. QED  BY <1>6, <1>7, <1>8 DEF IInv

LEMMA AcceptStep ==
    ASSUME IInv, NEW s \in instructions, NEW approver \in pending(s), NEW actors,
           Accept(s, approver, actors)
    PROVE  IInv'
<1> DEFINE t == acceptedBy(s, approver)
<1>1. LockOK(s) /\ s \in live
  BY DEF IInv, LocksOK, PendingOK, live
<1>2. LockOK(t) /\ t.approvals = {} /\ t.lockId = s.lockId /\ t.holdingCid.lockId = t.lockId
  BY <1>1, AcceptedOK DEF acceptedBy, mkState
<1>3. /\ holdings' = withoutBacking(s) \union {backing(t)}
      /\ locks' = locks \union start(t).locks
      /\ instructions' = (instructions \ {s}) \union start(t).instructions
      /\ UNCHANGED <<now, tokenRules, factories, tokens>>
  BY DEF Accept
<1>. HIDE DEF t
<1>4. FundsOK'
  <2>1. backing(t) \in LockedHolding
    BY <1>2, StateType DEF LockOK
  <2>. QED  BY <1>3, <2>1 DEF IInv, FundsOK, withoutBacking
<1>5. LocksOK'
  BY <1>2, <1>3, Started DEF IInv, LocksOK
<1>6. BackingMatches'
  <2>1. live' = (live \ {s}) \union {t}
    BY <1>2, <1>3, Started, Apart DEF live, IInv
  <2>. QED  BY <1>1, <1>2, <1>3, <2>1, Replaced DEF IInv
<1>. QED  BY <1>4, <1>5, <1>6 DEF IInv

LEMMA WithdrawStep ==
    ASSUME IInv, NEW s \in instructions, withdraw(s)
    PROVE  IInv'
<1>1. s \in State /\ s \in live
  BY DEF IInv, LocksOK, PendingOK, LockOK, live
<1>2. /\ instructions' = instructions \ {s} /\ holdings' = withoutBacking(s)
      /\ tokens' = tokens (+) issueToAuthorizer(s.terms, s.terms.amount)
      /\ UNCHANGED <<now, tokenRules, factories, locks>>
  BY DEF withdraw
<1>3. FundsOK'
  <2>1. s.terms \in LockTerms /\ s.terms.amount \in Int /\ s.terms.amount > 0 /\ s.terms.amount <= MaxDecimal
    BY <1>1, StateType, PolicyAssumption
  <2>2. /\ IsABag(issueToAuthorizer(s.terms, s.terms.amount))
        /\ DOMAIN issueToAuthorizer(s.terms, s.terms.amount) \subseteq Token
    BY <2>1, RefundType
  <2>3. IsABag(tokens) /\ DOMAIN tokens \subseteq Token
    BY DEF IInv, FundsOK
  <2>4. IsABag(tokens') /\ DOMAIN tokens' \subseteq Token
    BY <1>2, <2>2, <2>3, BagUnionType
  <2>. QED  BY <1>2, <2>4 DEF IInv, FundsOK, withoutBacking
<1>4. LocksOK'
  BY <1>2 DEF IInv, LocksOK
<1>5. BackingMatches'
  <2>1. live' = live \ {s}
    BY <1>2, Apart DEF live, IInv
  <2>. QED  BY <1>1, <1>2, <2>1, Closed DEF IInv
<1>. QED  BY <1>3, <1>4, <1>5 DEF IInv

LEMMA ApproveStep ==
    ASSUME IInv, NEW s \in locks, NEW rule, NEW legs \in SuppliedLegs, NEW actors \in ActorSets,
           Approve(s, rule, legs, actors)
    PROVE  IInv'
<1> DEFINE t == approved(s, rule, legs, actors)
<1>1. ActiveOK(s) /\ LockOK(s) /\ s \in State /\ s \in live
  BY DEF IInv, LocksOK, ActiveOK, LockOK, live
<1>2. /\ t.lockId = s.lockId /\ t.terms = s.terms /\ t.accepted = s.accepted
      /\ t.holdingCid = s.holdingCid
  BY <1>1, ApprovedKeeps
<1>3. LockOK(t)
  BY <1>1, ApprovedOK DEF Approve
<1>4. ActiveOK(t) /\ backing(t) = backing(s)
  BY <1>1, <1>2, <1>3 DEF ActiveOK, pending, backing
<1>5. /\ locks' = (locks \ {s}) \union {t}
      /\ UNCHANGED <<now, tokenRules, factories, tokens, holdings, instructions>>
  BY DEF Approve
<1>. HIDE DEF t
<1>6. FundsOK' /\ LocksOK'
  BY <1>4, <1>5 DEF IInv, FundsOK, LocksOK
<1>7. BackingMatches'
  <2>1. live' = (live \ {s}) \union {t}
    BY <1>5, Apart DEF live, IInv
  <2>. QED  BY <1>1, <1>2, <1>4, <1>5, <2>1, Rerecorded DEF IInv
<1>. QED  BY <1>6, <1>7 DEF IInv

\* Enactment, expiry and cancellation: what is paid out is tokens, and what
\* remains, if anything does, is a lock like the one before.
LEMMA Enacted ==
    ASSUME IInv, NEW s \in locks, NEW ruleId, NEW paid \in Seq(PaidLeg), NEW t,
           remaining(s, paid) # 0 => ActiveOK(t) /\ Continues(s, t),
           enact(s, ruleId, paid, t)
    PROVE  IInv'
<1>1. s \in State /\ s \in live
  BY DEF IInv, LocksOK, ActiveOK, LockOK, live
<1>2. /\ tokens' = tokens (+) issued(s.terms, paid)
      /\ UNCHANGED <<now, tokenRules, factories, instructions>>
  BY DEF enact
<1>3. IsABag(tokens') /\ DOMAIN tokens' \subseteq Token
  <2>1. IsABag(issued(s.terms, paid)) /\ DOMAIN issued(s.terms, paid) \subseteq Token
    BY <1>1, StateType, IssuedType
  <2>2. IsABag(tokens) /\ DOMAIN tokens \subseteq Token
    BY DEF IInv, FundsOK
  <2>. QED  BY <1>2, <2>1, <2>2, BagUnionType
<1>4. CASE remaining(s, paid) = 0
  <2>1. locks' = locks \ {s} /\ holdings' = withoutBacking(s)
    BY <1>4 DEF enact
  <2>2. FundsOK' /\ LocksOK'
    BY <1>2, <1>3, <2>1 DEF IInv, FundsOK, LocksOK, withoutBacking
  <2>3. live' = live \ {s}
    BY <1>2, <2>1, Apart DEF live, IInv
  <2>4. BackingMatches'
    BY <1>1, <1>2, <2>1, <2>3, Closed DEF IInv
  <2>. QED  BY <2>2, <2>4 DEF IInv
<1>5. CASE remaining(s, paid) # 0
  <2>1. locks' = (locks \ {s}) \union {t} /\ holdings' = withoutBacking(s) \union {backing(t)}
    BY <1>5 DEF enact
  <2>2. ActiveOK(t) /\ t.lockId = s.lockId /\ t.holdingCid.lockId = t.lockId
    BY <1>5 DEF Continues
  <2>3. backing(t) \in LockedHolding
    BY <2>2, StateType DEF ActiveOK, LockOK
  <2>4. FundsOK' /\ LocksOK'
    BY <1>2, <1>3, <2>1, <2>2, <2>3 DEF IInv, FundsOK, LocksOK, withoutBacking
  <2>5. live' = (live \ {s}) \union {t}
    BY <1>2, <2>1, Apart DEF live, IInv
  <2>6. BackingMatches'
    BY <1>1, <1>2, <2>1, <2>2, <2>5, Replaced DEF IInv
  <2>. QED  BY <2>4, <2>6 DEF IInv
<1>. QED  BY <1>4, <1>5

LEMMA EnactStep ==
    ASSUME IInv, NEW s \in locks, NEW rule \in s.terms.rules, NEW legs \in SuppliedLegs,
           NEW witness, NEW actors, Enact(s, rule, legs, witness, actors)
    PROVE  IInv'
<1> DEFINE paid == resolvedLegs(s.terms, rule.outcome, legs)
           t    == afterRule(s, rule, legs)
<1>1. ActiveOK(s) /\ BackingMatches
  BY DEF IInv, LocksOK
<1>2. enactChecks(s, rule, legs, witness, actors) /\ enact(s, rule.id, paid, t)
  BY DEF Enact
<1>3. paid \in Seq(PaidLeg) /\ (remaining(s, paid) # 0 => ActiveOK(t) /\ Continues(s, t))
  BY <1>1, <1>2, EnactCommits
<1>. HIDE DEF paid, t
<1>. QED  BY <1>2, <1>3, Enacted

LEMMA RefundStep ==
    ASSUME IInv, NEW s \in locks, NEW legId \in Fragment,
           enact(s, <<>>, refundLeg(s, legId), afterRefund(s, legId))
    PROVE  IInv'
<1>1. s \in State
  BY DEF IInv, LocksOK, ActiveOK, LockOK
<1>2. refundLeg(s, legId) \in Seq(PaidLeg) /\ remaining(s, refundLeg(s, legId)) = 0
  BY <1>1, RefundLeg
<1>. QED  BY <1>2, Enacted

LEMMA AmendStep ==
    ASSUME IInv, NEW s \in locks, NEW newTerms \in ProposedTerms, NEW inputs, NEW actors,
           Amend(s, newTerms, inputs, actors)
    PROVE  IInv'
<1> DEFINE t      == amended(s, newTerms, actors)
           sum    == s.terms.amount + bagTotal(inputs)
           change == sum - newTerms.amount
<1>1. ActiveOK(s) /\ LockOK(s) /\ s \in live
  BY DEF IInv, LocksOK, ActiveOK, live
<1>2. amendChecks(s, newTerms, inputs, actors)
  BY DEF Amend
<1>3. LockOK(t) /\ t.approvals = {} /\ t.lockId = s.lockId /\ t.holdingCid.lockId = t.lockId
  BY <1>1, <1>2, AmendedOK DEF amended, mkState, clearApprovals
<1>4. /\ newTerms \in LockTerms /\ IsABag(inputs)
      /\ s.terms.amount + bagTotal(inputs) \in Decimal
      /\ newTerms.amount \in Int /\ newTerms.amount > 0
  BY <1>2, TestTokenAssumption, ValidTerms DEF amendChecks, fundedBy, LockTerms, Decimal
<1>5. change \in Int /\ change <= MaxDecimal
  <2>1. sum \in Decimal
    BY <1>4
  <2>. HIDE DEF sum
  <2>. QED  BY <1>4, <2>1, PolicyAssumption DEF Decimal
<1>6. /\ tokens' = (tokens (-) inputs) (+) issueChange(newTerms, change)
      /\ holdings' = withoutBacking(s) \union {backing(t)}
      /\ locks' = (locks \ {s}) \union start(t).locks
      /\ instructions' = instructions \union start(t).instructions
      /\ UNCHANGED <<now, tokenRules, factories>>
  BY DEF Amend
<1>. HIDE DEF t, change
<1>7. FundsOK'
  <2>1. IsABag(issueChange(newTerms, change)) /\ DOMAIN issueChange(newTerms, change) \subseteq Token
    BY <1>4, <1>5, RefundType
  <2>2. IsABag(tokens (-) inputs) /\ DOMAIN (tokens (-) inputs) \subseteq Token
    BY <1>4, BagDifferenceType DEF IInv, FundsOK
  <2>3. IsABag(tokens') /\ DOMAIN tokens' \subseteq Token
    BY <1>6, <2>1, <2>2, BagUnionType
  <2>4. backing(t) \in LockedHolding
    BY <1>3, StateType DEF LockOK
  <2>. QED  BY <1>6, <2>3, <2>4 DEF IInv, FundsOK, withoutBacking
<1>8. LocksOK'
  BY <1>3, <1>6, Started DEF IInv, LocksOK
<1>9. BackingMatches'
  <2>1. live' = (live \ {s}) \union {t}
    BY <1>3, <1>6, Started, Apart DEF live, IInv
  <2>. QED  BY <1>1, <1>3, <1>6, <2>1, Replaced DEF IInv
<1>. QED  BY <1>7, <1>8, <1>9 DEF IInv

\* Ledger time stays in its range up to the horizon, and nothing but ledger time
\* and the rules contract changes.
LEMMA EnvironmentStep ==
    ASSUME IInv, Environment
    PROVE  IInv'
<1>1. /\ UNCHANGED contracts /\ now' \in Time /\ tokenRules' \subseteq Party
  BY TestTokenAssumption, LedgerTimeAssumption
     DEF Environment, Tick, ArchiveTokenRules, IInv, FundsOK, Time
<1>. QED  BY <1>1 DEF contracts, IInv, FundsOK, LocksOK, BackingMatches, live

LEMMA Inductive ==
    IInv /\ [Next]_vars => IInv'
<1> SUFFICES ASSUME IInv, [Next]_vars PROVE IInv'
  OBVIOUS
<1>1. CASE OnFactories
  BY <1>1, LockOKStep DEF OnFactories
<1>2. CASE OnInstructions
  BY <1>2, AcceptStep, WithdrawStep DEF OnInstructions, Reject, Withdraw
<1>3. CASE UseRules
  BY <1>3, ApproveStep, EnactStep DEF UseRules
<1>4. CASE EndLocks
  <2>1. "expire" \in Fragment /\ "cancel" \in Fragment
    BY PolicyAssumption
  <2>. QED  BY <1>4, <2>1, RefundStep DEF EndLocks, Expire, Cancel
<1>5. CASE ChangeTerms
  BY <1>5, AmendStep DEF ChangeTerms
<1>6. CASE Environment
  BY <1>6, EnvironmentStep
<1>7. CASE UNCHANGED vars
  BY <1>7 DEF vars, contracts, IInv, FundsOK, LocksOK, BackingMatches, live
<1>. QED  BY <1>1, <1>2, <1>3, <1>4, <1>5, <1>6, <1>7 DEF Next

LEMMA Invariance == Spec => []IInv
BY InitOK, Inductive, PTL DEF Spec

-------------------------------------------------------------------------------
(* The properties.                                                         *)

\* The contracts on the ledger are always well typed: the part of TypeOK that
\* is about the templates.
THEOREM ContractsTypeCorrect == Spec => []ContractsTypeOK
<1>1. IInv => ContractsTypeOK
  BY DEF IInv, FundsOK, LocksOK, ActiveOK, PendingOK, LockOK, ContractsTypeOK
<1>. QED  BY <1>1, Invariance, PTL

\* Every live contract is backed by exactly its own holding, and lock IDs are
\* never shared (BackingMatches), whatever is locked, released, amended or ended.
THEOREM BackingAlwaysMatches == Spec => []BackingMatches
<1>1. IInv => BackingMatches
  BY DEF IInv
<1>. QED  BY <1>1, Invariance, PTL

\* No rule under a lock ID carries the ID of a rule that has fired there, for
\* any number of releases and amendments (FireOnce).
THEOREM RulesFireOnce == Spec => []FireOnce
<1>1. IInv => FireOnce
  BY DEF IInv, LocksOK, ActiveOK, PendingOK, LockOK, FireOnce, live
<1>. QED  BY <1>1, Invariance, PTL

\* The approvals that a lock records are always well formed (ApprovalsWellFormed).
THEOREM ApprovalsStayWellFormed == Spec => []ApprovalsWellFormed
<1>1. IInv => ApprovalsWellFormed
  BY DEF IInv, LocksOK, ActiveOK, PendingOK, LockOK, ApprovalsWellFormed, live
<1>. QED  BY <1>1, Invariance, PTL

\* A choice whose own checks pass commits: the parties that have signed the
\* contract and those that act authorize everything its body creates, in every
\* reachable state and for every choice (CheckedChoicesCommit).
THEOREM NoCheckedChoiceAborts == Spec => []CheckedChoicesCommit
<1>1. ASSUME IInv PROVE CheckedChoicesCommit
  <2>1. ASSUME NEW f \in factories, NEW terms \in ProposedTerms, NEW inputs \in SubBag(tokens),
               NEW actors \in ActorSets, lockChecks(f, terms, inputs, actors)
        PROVE  lockCommits(f, terms, actors)
    BY <1>1, <2>1, LockCommits DEF IInv, FundsOK
  <2>2. ASSUME NEW s \in instructions, NEW actors \in ActorSets
        PROVE  /\ \A approver \in pending(s) :
                     /\ acceptChecks(s, approver, actors) => acceptCommits(s, approver, actors)
                     /\ rejectChecks(s, approver, actors) => withdrawCommits(s, actors)
               /\ withdrawChecks(s, actors) => withdrawCommits(s, actors)
    BY <1>1, AcceptCommits, WithdrawCommits DEF IInv, LocksOK, PendingOK, live
  <2>3. ASSUME NEW s \in locks, NEW actors \in ActorSets
        PROVE  /\ \A rule \in s.terms.rules, legs \in SuppliedLegs, witness \in Witnesses :
                     enactChecks(s, rule, legs, witness, actors) =>
                         enactCommits(s, rule.id, resolvedLegs(s.terms, rule.outcome, legs),
                                      afterRule(s, rule, legs), stateSignatories(s) \union actors)
               /\ cancelChecks(s, actors) => refundCommits(s, "cancel", actors)
               /\ \A newTerms \in ProposedTerms, inputs \in SubBag(tokens) :
                     amendChecks(s, newTerms, inputs, actors) => amendCommits(s, newTerms, actors)
    <3>1. BackingMatches /\ ActiveOK(s) /\ LockOK(s) /\ s \in State /\ s \in live
      BY <1>1 DEF IInv, LocksOK, ActiveOK, LockOK, live
    <3>2. "cancel" \in Fragment
      BY PolicyAssumption
    <3>. QED  BY <3>1, <3>2, EnactCommits, RefundCommits, AmendCommits
  <2>. QED  BY <2>1, <2>2, <2>3 DEF CheckedChoicesCommit
<1>. QED  BY <1>1, Invariance, PTL

\* Whatever has happened to a lock, its authorizer alone can take the funds back:
\* at any time while it is pending, from its expiry on when it is active
\* (RefundAlwaysOpen).
THEOREM FundsNeverPinned == Spec => []RefundAlwaysOpen
<1>1. ASSUME IInv PROVE RefundAlwaysOpen
  <2>1. ASSUME NEW s \in instructions
        PROVE  LET own == accountParties(s.terms.authorizer)
               IN  withdrawChecks(s, own) /\ withdrawCommits(s, own)
    BY <1>1, WithdrawCommits DEF IInv, live, withdrawChecks, authorized
  <2>2. ASSUME NEW s \in locks, now >= s.terms.expiresAt
        PROVE  LET own == accountParties(s.terms.authorizer)
               IN  expireChecks(s, own) /\ refundCommits(s, "expire", own)
    <3>1. BackingMatches /\ s \in State /\ s \in live /\ "expire" \in Fragment
      BY <1>1, PolicyAssumption DEF IInv, LocksOK, ActiveOK, LockOK, live
    <3>2. Answer(isLedgerTimeGE(s.terms.expiresAt), now)
      BY <2>2 DEF Answer, isLedgerTimeGE, Asks
    <3>. QED  BY <3>1, <3>2, RefundCommits DEF expireChecks, authorized
  <2>. QED  BY <2>1, <2>2 DEF RefundAlwaysOpen
<1>. QED  BY <1>1, Invariance, PTL

\* When a step adds one lock at most, that one alone can stand in another's place.
LEMMA OnlyNew ==
    ASSUME IInv, NEW n, locks' \subseteq locks \union {n},
           NEW s \in locks, NEW t \in locks', s.lockId = t.lockId, s.holdingCid # t.holdingCid
    PROVE  t = n
BY DEF IInv, BackingMatches, live

\* What a lock continues with after a rule has fired keeps the approvals of the rest.
LEMMA RestKeepsApprovals ==
    ASSUME NEW s, ActiveOK(s), NEW rule \in s.terms.rules, NEW legs,
           NEW t, t = afterRule(s, rule, legs)
    PROVE  /\ t.terms.rules \subseteq s.terms.rules /\ t.enactedRuleIds # s.enactedRuleIds
           /\ t.approvals = {a \in s.approvals : \E r \in t.terms.rules : r.id = a.ruleId}
<1> DEFINE rules == {r \in s.terms.rules : r.id # rule.id}
           paid  == resolvedLegs(s.terms, rule.outcome, legs)
           terms == [s.terms EXCEPT !.amount = remaining(s, paid), !.rules = rules]
           fired == s.enactedRuleIds \union {rule.id}
           kept  == dropApprovals(rule.id, s.approvals)
<1>1. s \in State /\ wellApproved(s) /\ rule.id \notin s.enactedRuleIds
  BY DEF ActiveOK, LockOK
<1>2. terms.rules = rules
  BY <1>1, StateType DEF LockTerms
<1>3. t = mkState(s.lockId, terms, s.accepted \intersect termReceivers(terms),
                  s.holdingCid.gen + 1, fired, kept)
  BY DEF afterRule, continuation
<1>. HIDE DEF terms
<1>4. t.terms = terms /\ t.enactedRuleIds = fired /\ t.approvals = kept
  BY <1>3 DEF mkState
<1>5. kept = {a \in s.approvals : a.ruleId # rule.id}
  BY DEF dropApprovals
<1>6. \A a \in s.approvals : a.ruleId # rule.id <=> \E r \in rules : r.id = a.ruleId
  BY <1>1 DEF wellApproved
<1>. QED  BY <1>1, <1>2, <1>4, <1>5, <1>6

\* What a party has approved stays approved while its rule can fire as agreed,
\* and not one step longer: a continuation keeps the approvals of the rules that
\* remain, and no approval outlives an amendment (enact, amend, clearApprovals).
THEOREM ApprovalsAlwaysFollowTerms == Spec => ApprovalsFollowTerms
<1> DEFINE Follows(s, t) ==
        s.lockId = t.lockId /\ s.holdingCid # t.holdingCid =>
            IF /\ t.terms.rules \subseteq s.terms.rules
               /\ t.enactedRuleIds # s.enactedRuleIds
            THEN t.approvals = {a \in s.approvals : \E r \in t.terms.rules : r.id = a.ruleId}
            ELSE t.approvals = {}
<1>1. ASSUME IInv, [Next]_vars, NEW s \in locks, NEW t \in locks',
             s.lockId = t.lockId, s.holdingCid # t.holdingCid
      PROVE  Follows(s, t)
  <2>1. \A u \in locks : u.lockId = s.lockId => u = s
    BY <1>1 DEF IInv, BackingMatches, live
  <2>2. CASE OnFactories
    <3>1. PICK f \in factories, terms \in ProposedTerms, inputs \in SubBag(tokens), actors \in ActorSets :
              Lock(f, terms, inputs, actors)
      BY <2>2 DEF OnFactories
    <3>2. locks' \subseteq locks \union {locked(f, terms, actors)}
      BY <3>1 DEF Lock, start
    <3>3. t = locked(f, terms, actors)
      BY <1>1, <3>2, OnlyNew
    <3>4. t.lockId = f.lockId
      BY <3>3 DEF locked, mkState
    <3>. QED  BY <1>1, <3>4 DEF IInv, BackingMatches, live
  <2>3. CASE OnInstructions
    <3>1. PICK i \in instructions, actors \in ActorSets :
              \/ \E approver \in pending(i) : Accept(i, approver, actors) \/ Reject(i, approver, actors)
              \/ Withdraw(i, actors)
      BY <2>3 DEF OnInstructions
    <3>2. CASE Withdraw(i, actors) \/ \E approver \in pending(i) : Reject(i, approver, actors)
      BY <1>1, <2>1, <3>2 DEF Withdraw, Reject, withdraw
    <3>3. CASE \E approver \in pending(i) : Accept(i, approver, actors)
      <4>1. PICK approver \in pending(i) : Accept(i, approver, actors)
        BY <3>3
      <4>2. locks' \subseteq locks \union {acceptedBy(i, approver)}
        BY <4>1 DEF Accept, start
      <4>3. t = acceptedBy(i, approver)
        BY <1>1, <4>2, OnlyNew
      <4>4. t.lockId = i.lockId
        BY <4>3 DEF acceptedBy, mkState
      <4>5. i = s
        BY <1>1, <4>4 DEF IInv, BackingMatches, live
      <4>. QED  BY <1>1, <4>5, Apart DEF IInv
    <3>. QED  BY <3>1, <3>2, <3>3
  <2>4. CASE UseRules
    <3>1. PICK u \in locks, actors \in ActorSets, legs \in SuppliedLegs : \E rule \in u.terms.rules :
              \/ Approve(u, rule, legs, actors)
              \/ \E witness \in Witnesses : Enact(u, rule, legs, witness, actors)
      BY <2>4 DEF UseRules
    <3>2. PICK rule \in u.terms.rules :
              \/ Approve(u, rule, legs, actors)
              \/ \E witness \in Witnesses : Enact(u, rule, legs, witness, actors)
      BY <3>1
    <3>3. ActiveOK(u) /\ u \in State
      BY <1>1 DEF IInv, LocksOK, ActiveOK, LockOK
    <3>4. CASE Approve(u, rule, legs, actors)
      <4>1. locks' \subseteq locks \union {approved(u, rule, legs, actors)}
        BY <3>4 DEF Approve
      <4>2. t = approved(u, rule, legs, actors)
        BY <1>1, <4>1, OnlyNew
      <4>3. t.lockId = u.lockId /\ t.holdingCid = u.holdingCid
        BY <3>3, <4>2, ApprovedKeeps
      <4>. QED  BY <1>1, <2>1, <4>3
    <3>5. CASE \E witness \in Witnesses : Enact(u, rule, legs, witness, actors)
      <4>1. locks' \subseteq locks \union {afterRule(u, rule, legs)}
        BY <3>5 DEF Enact, enact
      <4>2. t = afterRule(u, rule, legs)
        BY <1>1, <4>1, OnlyNew
      <4>3. t.lockId = u.lockId
        BY <4>2 DEF afterRule, continuation, mkState
      <4>4. u = s
        BY <1>1, <2>1, <4>3
      <4>. QED  BY <3>3, <4>2, <4>4, RestKeepsApprovals
    <3>. QED  BY <3>2, <3>4, <3>5
  <2>5. CASE EndLocks
    <3>1. PICK u \in locks, actors \in ActorSets : Expire(u, actors) \/ Cancel(u, actors)
      BY <2>5 DEF EndLocks
    <3>2. u \in State /\ "expire" \in Fragment /\ "cancel" \in Fragment
      BY <1>1, PolicyAssumption DEF IInv, LocksOK, ActiveOK, LockOK
    <3>3. PICK legId \in Fragment : enact(u, <<>>, refundLeg(u, legId), afterRefund(u, legId))
      BY <3>1, <3>2 DEF Expire, Cancel
    <3>4. remaining(u, refundLeg(u, legId)) = 0
      BY <3>2, RefundLeg
    <3>5. locks' \subseteq locks
      BY <3>3, <3>4 DEF enact
    <3>. QED  BY <1>1, <2>1, <3>5
  <2>6. CASE ChangeTerms
    <3>1. PICK u \in locks, newTerms \in ProposedTerms, inputs \in SubBag(tokens), actors \in ActorSets :
              Amend(u, newTerms, inputs, actors)
      BY <2>6 DEF ChangeTerms
    <3>2. locks' \subseteq locks \union {amended(u, newTerms, actors)}
      BY <3>1 DEF Amend, start
    <3>3. t = amended(u, newTerms, actors)
      BY <1>1, <3>2, OnlyNew
    <3>4. t.lockId = u.lockId /\ t.enactedRuleIds = u.enactedRuleIds /\ t.approvals = {}
      BY <3>3 DEF amended, mkState, clearApprovals
    <3>5. u = s
      BY <1>1, <2>1, <3>4
    <3>. QED  BY <3>4, <3>5
  <2>7. CASE Environment \/ UNCHANGED vars
    <3>1. locks' = locks
      BY <2>7 DEF Environment, Tick, ArchiveTokenRules, contracts, vars
    <3>. QED  BY <1>1, <2>1, <3>1
  <2>. QED  BY <1>1, <2>2, <2>3, <2>4, <2>5, <2>6, <2>7 DEF Next
<1>2. IInv /\ [Next]_vars => [\A s \in locks, t \in locks' : Follows(s, t)]_vars
  BY <1>1
<1>3. [][\A s \in locks, t \in locks' : Follows(s, t)]_vars <=> ApprovalsFollowTerms
  BY DEF ApprovalsFollowTerms
<1>. QED  BY <1>2, <1>3, Invariance, PTL DEF Spec, ApprovalsFollowTerms

-------------------------------------------------------------------------------
(* What the contracts show. *)

LEMMA Observing ==
    ASSUME NEW s, NEW paid, NEW p
    PROVE  p \in observersOf(s, paid) <=>
               /\ p \notin accountParties(s.terms.authorizer)
               /\ \E a \in paid : a # s.terms.authorizer /\ p \in accountParties(a)
<1> DEFINE payees == paid \ {s.terms.authorizer}
           shown  == UNION {accountParties(a) : a \in payees}
<1>1. observersOf(s, paid) = shown \ accountParties(s.terms.authorizer)
  BY DEF observersOf
<1>2. p \in shown <=> \E a \in payees : p \in accountParties(a)
  <2>. HIDE DEF payees
  <2>. QED  OBVIOUS
<1>. HIDE DEF shown
<1>. QED  BY <1>1, <1>2

\* The accounts that an enactment is shown to have agreed to be paid.
LEMMA ObserversSign ==
    ASSUME NEW s \in locks, ActiveOK(s), NEW rule \in s.terms.rules, NEW legs
    PROVE  enactObservers(s, rule, legs) \subseteq stateSignatories(s) \ accountParties(s.terms.authorizer)
<1>1. SUFFICES ASSUME NEW p \in enactObservers(s, rule, legs)
               PROVE  p \in stateSignatories(s) /\ p \notin accountParties(s.terms.authorizer)
  OBVIOUS
<1> DEFINE fixed    == {leg.receiver : leg \in ToSet(rule.outcome.fixedLegs)}
           supplied == {leg.receiver : leg \in ToSet(legs)}
           paid     == fixed \union (supplied \intersect ToSet(rule.outcome.receivers))
<1>2. rule.outcome.tag # "Unlock" /\ p \in observersOf(s, paid)
  BY <1>1 DEF enactObservers
<1>. HIDE DEF supplied
<1>3. paid \subseteq outcomeReceivers(rule.outcome)
  BY <1>2 DEF outcomeReceivers
<1>. HIDE DEF paid
<1>4. PICK a : /\ a \in outcomeReceivers(rule.outcome) \ {s.terms.authorizer}
               /\ p \in accountParties(a) /\ p \notin accountParties(s.terms.authorizer)
  BY <1>2, <1>3, Observing
<1>5. a \in s.accepted
  BY <1>4 DEF ActiveOK, pending, termReceivers
<1>. QED  BY <1>4, <1>5 DEF stateSignatories

\* Whoever an enactment pays sees it, the authorizer's parties aside: they sign the lock.
LEMMA PaidObserve ==
    ASSUME NEW s \in locks, ActiveOK(s), NEW rule \in s.terms.rules, NEW legs \in SuppliedLegs,
           resolveOutcome(s.terms, rule.outcome, legs), rule.outcome.tag = "Release",
           NEW leg \in ToSet(resolvedLegs(s.terms, rule.outcome, legs))
    PROVE  accountParties(leg.receiver) \subseteq
               enactObservers(s, rule, legs) \union accountParties(s.terms.authorizer)
<1>1. rule \in Rule /\ legs \in Seq(Leg)
  BY TestTokenAssumption DEF ActiveOK, LockOK, State, LockedTerms, LockTerms
<1>2. rule.outcome.fixedLegs \in Seq(Leg)
  BY <1>1 DEF Rule, Outcome
<1>3. leg \in ToSet(rule.outcome.fixedLegs) \/ leg \in ToSet(legs)
  BY <1>1, <1>2, ToSetOfConcat DEF resolvedLegs
<1>4. leg \in ToSet(legs) => leg.receiver \in ToSet(rule.outcome.receivers)
  BY DEF resolveOutcome
<1> DEFINE fixed    == {l.receiver : l \in ToSet(rule.outcome.fixedLegs)}
           supplied == {l.receiver : l \in ToSet(legs)}
           paid     == fixed \union (supplied \intersect ToSet(rule.outcome.receivers))
<1>5. leg.receiver \in paid
  BY <1>3, <1>4
<1>6. enactObservers(s, rule, legs) = observersOf(s, paid)
  BY DEF enactObservers
<1>. HIDE DEF paid
<1>. QED  BY <1>5, <1>6, Observing

\* Preimages and payments are shown only to parties that have agreed to be paid and
\* sign the lock, and to every one that a committed enactment pays (enactObservers).
THEOREM ObserversAlwaysAgreed == Spec => []ObserversAgreed
<1>1. ASSUME IInv PROVE ObserversAgreed
  <2>1. \A s \in locks : ActiveOK(s)
    BY <1>1 DEF IInv, LocksOK
  <2>. QED  BY <2>1, ObserversSign, PaidObserve DEF ObserversAgreed, enactChecks
<1>. QED  BY <1>1, Invariance, PTL

\* An offer: whoever answers or withdraws it is listed, and the listed group suffices.
LEMMA InstructionListed ==
    ASSUME IInv, NEW s \in instructions
    PROVE  instructionActionsListed(s)
<1> DEFINE listed == instructionActions(s)
<1>1. /\ listed.Accept = {accountParties(a) : a \in pending(s)} /\ listed.Reject = listed.Accept
      /\ listed.Withdraw = {accountParties(s.terms.authorizer)}
  BY DEF instructionActions
<1>2. BackingMatches /\ LockOK(s) /\ s \in live
  BY DEF IInv, LocksOK, PendingOK, live
<1>. HIDE DEF listed
<1>3. ASSUME NEW actors \in ActorSets
      PROVE  /\ \A a \in pending(s) :
                   /\ acceptChecks(s, a, actors) => permits(listed.Accept, actors)
                   /\ rejectChecks(s, a, actors) => permits(listed.Reject, actors)
             /\ withdrawChecks(s, actors) => permits(listed.Withdraw, actors)
  BY <1>1 DEF permits, acceptChecks, rejectChecks, withdrawChecks, authorized
<1>4. ASSUME NEW group \in listed.Accept
      PROVE  acceptable(s, group)
  <2>1. PICK a \in pending(s) : group = accountParties(a)
    BY <1>1
  <2>2. rejectChecks(s, a, group) /\ withdrawCommits(s, group)
    BY <1>2, <2>1, WithdrawCommits DEF rejectChecks, authorized
  <2>3. beforeExpiry(s) => acceptChecks(s, a, group)
    BY <2>1 DEF acceptChecks, authorized
  <2>4. acceptChecks(s, a, group) => acceptCommits(s, a, group)
    BY <1>2, AcceptCommits
  <2>. QED  BY <2>2, <2>3, <2>4 DEF acceptable
<1>5. \A group \in listed.Withdraw : withdrawChecks(s, group) /\ withdrawCommits(s, group)
  BY <1>1, <1>2, WithdrawCommits DEF withdrawChecks, authorized
<1>. QED  BY <1>1, <1>3, <1>4, <1>5 DEF instructionActionsListed, listed

\* A rule: approvals and enactments are listed for the parties the rule entitles.
LEMMA RuleListed ==
    ASSUME NEW s \in locks, NEW rule \in s.terms.rules
    PROVE  ruleActionsListed(s, rule)
<1> DEFINE listed == lockActions(s)
<1>1. /\ listed.Enact = [r \in s.terms.rules |-> each(ToSet(r.enactors))]
      /\ listed.Approve = [r \in {q \in s.terms.rules : hasPartiesGuard(q)} |-> each(approvalParties(r))]
  BY DEF lockActions
<1>. HIDE DEF listed
<1>2. /\ listed.Enact[rule] = each(ToSet(rule.enactors))
      /\ rule \in DOMAIN listed.Approve <=> hasPartiesGuard(rule)
      /\ hasPartiesGuard(rule) => listed.Approve[rule] = each(approvalParties(rule))
  BY <1>1
<1>3. ASSUME NEW legs, NEW actors, approveChecks(s, rule, legs, actors)
      PROVE  rule \in DOMAIN listed.Approve /\ permits(listed.Approve[rule], actors)
  <2>1. hasPartiesGuard(rule) /\ approversOf(rule, actors) # {}
    BY <1>3 DEF approveChecks, approve
  <2>2. PICK p : p \in actors /\ p \in approvalParties(rule)
    BY <2>1 DEF approversOf
  <2>3. {p} \in each(approvalParties(rule)) /\ {p} \subseteq actors
    BY <2>2 DEF each
  <2>. QED  BY <1>2, <2>1, <2>3 DEF permits
<1>4. ASSUME NEW legs, NEW actors, NEW witness, enactChecks(s, rule, legs, witness, actors)
      PROVE  permits(listed.Enact[rule], actingParties(rule.id, legs, actors, s.approvals))
  <2>1. PICK p : p \in ToSet(rule.enactors) /\ p \in actingParties(rule.id, legs, actors, s.approvals)
    BY <1>4 DEF enactChecks
  <2>2. {p} \in each(ToSet(rule.enactors))
    BY <2>1 DEF each
  <2>. QED  BY <1>2, <2>1, <2>2 DEF permits
<1>5. ASSUME NEW legs, rule \in DOMAIN listed.Approve, NEW group \in listed.Approve[rule],
             approvable(s, rule, legs, group)
      PROVE  approveChecks(s, rule, legs, group)
  <2>1. PICK p \in approvalParties(rule) : group = {p}
    BY <1>2, <1>5 DEF each
  <2>2. approversOf(rule, group) = {p}
    BY <2>1 DEF approversOf
  <2>3. \A a \in s.approvals : a.ruleId = rule.id => p \notin a.approvers
    BY <1>5, <2>1 DEF approvable
  <2>4. p \notin elsewhere(rule.id, legs, s.approvals)
    <3> DEFINE others == {b \in s.approvals : b.ruleId = rule.id /\ b.legs # legs}
    <3>1. \A a \in others : p \notin a.approvers
      BY <2>3
    <3>. HIDE DEF others
    <3>2. p \notin UNION {a.approvers : a \in others}
      BY <3>1
    <3>. QED  BY <3>2 DEF elsewhere, others
  <2>5. p \notin approversFor(rule.id, legs, s.approvals)
    <3> DEFINE same == {b \in s.approvals : b.ruleId = rule.id /\ b.legs = legs}
    <3>1. \A a \in same : p \notin a.approvers
      BY <2>3
    <3>. HIDE DEF same
    <3>2. p \notin UNION {a.approvers : a \in same}
      BY <3>1
    <3>. QED  BY <3>2 DEF approversFor, same
  <2>. QED  BY <1>2, <1>5, <2>2, <2>4, <2>5 DEF approveChecks, approve, approvable, beforeExpiry
<1>6. ASSUME NEW legs, NEW group \in listed.Enact[rule], NEW witness,
             enactableBy(s, rule, legs, witness, group)
      PROVE  enactChecks(s, rule, legs, witness, group)
  <2>1. PICK p \in ToSet(rule.enactors) : group = {p}
    BY <1>2 DEF each
  <2>2. p \in actingParties(rule.id, legs, group, s.approvals)
    BY <2>1 DEF actingParties
  <2>. QED  BY <1>6, <2>1, <2>2 DEF enactChecks, enactableBy
<1>. QED  BY <1>3, <1>4, <1>5, <1>6 DEF ruleActionsListed, listed

\* Refunds and amendments: listed for the authorizer, and for all whose consent they need.
LEMMA ConsentListed ==
    ASSUME IInv, NEW s \in locks
    PROVE  refundActionsListed(s) /\ amendListed(s)
<1> DEFINE listed == lockActions(s)
<1>1. /\ listed.Expire = {accountParties(s.terms.authorizer)}
      /\ listed.Cancel = {consent(s)} /\ listed.Amend = {consent(s)}
  BY DEF lockActions
<1>. HIDE DEF listed
<1>2. BackingMatches /\ s \in State /\ s \in live /\ "cancel" \in Fragment /\ "expire" \in Fragment
  BY PolicyAssumption DEF IInv, LocksOK, ActiveOK, LockOK, live
<1>3. \A group : refundCommits(s, "cancel", group) /\ refundCommits(s, "expire", group)
  BY <1>2, RefundCommits
<1>4. refundActionsListed(s)
  BY <1>1, <1>3 DEF refundActionsListed, listed, permits, cancelChecks, expireChecks, authorized
<1>5. ASSUME NEW newTerms, NEW inputs, NEW actors, amendChecks(s, newTerms, inputs, actors)
      PROVE  /\ permits(listed.Amend, actors)
             /\ termReceivers(newTerms) \subseteq s.accepted =>
                    \A group \in listed.Amend : amendChecks(s, newTerms, inputs, group)
  <2>1. consent(s) \subseteq actors
    BY <1>5 DEF amendChecks, authorized
  <2>2. ASSUME termReceivers(newTerms) \subseteq s.accepted
        PROVE  amendChecks(s, newTerms, inputs, consent(s))
    <3>1. termReceivers(newTerms) \subseteq acceptedUnder(s, newTerms, consent(s))
      BY <2>2 DEF acceptedUnder
    <3>2. authorized(consent(s), consent(s))
      BY DEF authorized
    <3>. QED  BY <1>5, <3>1, <3>2 DEF amendChecks
  <2>. QED  BY <1>1, <2>1, <2>2 DEF permits
<1>6. amendListed(s)
  BY <1>5 DEF amendListed, listed
<1>. QED  BY <1>4, <1>6

\* In every reachable state the view lists a group for whoever gets a choice through,
\* and no listed group waits for a party that is not listed: refunds it gets through,
\* the rest as far as the time, the arguments and the alternative's own guards allow
\* (instructionActions, lockActions).
THEOREM ActionsAlwaysListed == Spec => []ActionsListed
<1>1. IInv => ActionsListed
  BY InstructionListed, RuleListed, ConsentListed DEF ActionsListed
<1>. QED  BY <1>1, Invariance, PTL

-------------------------------------------------------------------------------
(* Who has asked for a payment. *)

\* Each approval of a lock stands for a consent to a rule that the lock still has,
\* as it is, since the last amendment.
vouched(s, given) ==
    \A a \in s.approvals : \A p \in a.approvers : \E r \in s.terms.rules :
        /\ r.id = a.ruleId
        /\ [lockId |-> s.lockId, rule |-> r, legs |-> a.legs, party |-> p] \in given

HInv == IInv /\ (\A s \in locks : vouched(s, consents)) /\ EveryReleaseConsented

LEMMA VouchedByMore ==
    ASSUME NEW s, NEW given, vouched(s, given), NEW more,
           \A c \in given : c.lockId = s.lockId => c \in more
    PROVE  vouched(s, more)
BY DEF vouched

\* A step of the registry with its history is one of the registry.
LEMMA HistoryIsNext == HistoryNext => Next
BY DEF HistoryNext, Next, ApproveRemembered, EnactRemembered, AmendRemembered, UseRules, ChangeTerms

\* Who approves a rule has asked for it.
LEMMA ApprovalVouched ==
    ASSUME NEW s, LockOK(s), vouched(s, consents), NEW rule \in s.terms.rules, NEW legs, NEW actors,
           NEW given, consents \subseteq given,
           \A p \in actors :
              [lockId |-> s.lockId, rule |-> rule, legs |-> legs, party |-> p] \in given
    PROVE  vouched(approved(s, rule, legs, actors), given)
<1> DEFINE t == approved(s, rule, legs, actors)
<1>1. s \in State
  BY DEF LockOK
<1>2. /\ t.lockId = s.lockId /\ t.terms = s.terms
      /\ t.approvals = recordApproval(rule.id, legs, approversOf(rule, actors), s.approvals)
  BY <1>1 DEF approved, State
<1>. HIDE DEF t
<1>3. ASSUME NEW a \in t.approvals, NEW p \in a.approvers
      PROVE  \E r \in s.terms.rules :
                r.id = a.ruleId
                /\ [lockId |-> s.lockId, rule |-> r, legs |-> a.legs, party |-> p] \in given
  <2>1. CASE a \in s.approvals
    BY <2>1, <1>3 DEF vouched
  <2>2. CASE a \notin s.approvals
    <3>1. /\ a.ruleId = rule.id /\ a.legs = legs
          /\ a.approvers = approversOf(rule, actors) \union approversFor(rule.id, legs, s.approvals)
      BY <1>2, <2>2 DEF recordApproval
    <3>2. CASE p \in actors
      BY <3>1, <3>2
    <3>3. CASE p \notin actors
      <4>1. PICK b \in s.approvals : b.ruleId = rule.id /\ b.legs = legs /\ p \in b.approvers
        BY <1>3, <3>1, <3>3 DEF approversOf, approversFor
      <4>. QED  BY <3>1, <4>1 DEF vouched
    <3>. QED  BY <3>2, <3>3
  <2>. QED  BY <2>1, <2>2
<1>. QED  BY <1>2, <1>3 DEF vouched, t

\* Whoever counts at an enactment submits it or has asked for it.
LEMMA ActingHaveAsked ==
    ASSUME NEW s, LockOK(s), vouched(s, consents), NEW rule \in s.terms.rules, NEW legs, NEW actors
    PROVE  actingParties(rule.id, legs, actors, s.approvals) \subseteq askedFor(s, rule, legs, actors)
<1>1. SUFFICES ASSUME NEW p \in approversFor(rule.id, legs, s.approvals)
               PROVE  p \in askedFor(s, rule, legs, actors)
  BY DEF actingParties, askedFor
<1>2. PICK a \in s.approvals : a.ruleId = rule.id /\ a.legs = legs /\ p \in a.approvers
  BY <1>1 DEF approversFor
<1>3. PICK r \in s.terms.rules :
          /\ r.id = a.ruleId
          /\ [lockId |-> s.lockId, rule |-> r, legs |-> a.legs, party |-> p] \in consents
  BY <1>2 DEF vouched
<1>4. r = rule
  BY <1>2, <1>3 DEF LockOK
<1> DEFINE c == [lockId |-> s.lockId, rule |-> r, legs |-> a.legs, party |-> p]
<1>5. /\ c \in consents /\ c.lockId = s.lockId /\ c.rule = rule /\ c.legs = legs /\ c.party = p
  BY <1>2, <1>3, <1>4
<1>. HIDE DEF c
<1>6. c \in {d \in consents : d.lockId = s.lockId /\ d.rule = rule /\ d.legs = legs}
  BY <1>5
<1>. QED  BY <1>5, <1>6 DEF askedFor

LEMMA ListFinite ==
    ASSUME NEW S, NEW f \in Seq(S)
    PROVE  IsFiniteSet(ToSet(f))
<1>1. f \in [1 .. Len(f) -> S] /\ DOMAIN f = 1 .. Len(f) /\ Len(f) \in Nat
  OBVIOUS
<1>2. ToSet(f) = {f[i] : i \in 1 .. Len(f)}
  BY <1>1 DEF ToSet
<1>3. f \in Surjection(1 .. Len(f), ToSet(f))
  BY <1>1, <1>2 DEF Surjection
<1>4. IsFiniteSet(1 .. Len(f))
  BY <1>1, FS_Interval
<1>. QED  BY <1>3, <1>4, FS_Surjection

\* A list names finitely many parties.
LEMMA PartiesFinite ==
    ASSUME NEW rule \in Rule, NEW a \in ToSet(rule.anyOf), NEW guard \in ToSet(a.allOf),
           guard.tag = "Parties"
    PROVE  IsFiniteSet(ToSet(guard.parties)) /\ guard.threshold \in Int
<1>1. rule.anyOf \in Seq(Alternative)
  BY DEF Rule
<1>2. a \in Alternative
  BY <1>1, ToSetOfSeq
<1>3. a.allOf \in Seq(Guard)
  BY <1>2 DEF Alternative
<1>4. guard \in Guard
  BY <1>3, ToSetOfSeq
<1>5. guard.parties \in Seq(Party) /\ guard.threshold \in Int
  BY <1>4 DEF Guard
<1>. QED  BY <1>5, ListFinite

LEMMA HistoryInitOK == HistoryInit => HInv
BY InitOK DEF HistoryInit, HInv, Init, EveryReleaseConsented

\* Only what has been asked for is released.
LEMMA ReleaseConsented ==
    ASSUME HInv, NEW s \in locks, NEW rule \in s.terms.rules, NEW legs, NEW witness, NEW actors,
           EnactRemembered(s, rule, legs, witness, actors)
    PROVE  EveryReleaseConsented'
<1> DEFINE by     == askedFor(s, rule, legs, actors)
           acting == actingParties(rule.id, legs, actors, s.approvals)
<1>1. LockOK(s) /\ vouched(s, consents) /\ rule \in Rule
  BY DEF HInv, IInv, LocksOK, ActiveOK, LockOK, State, LockedTerms, LockTerms
<1>2. acting \subseteq by
  BY <1>1, ActingHaveAsked
<1>3. /\ ToSet(rule.enactors) \intersect acting # {}
      /\ satisfied(acting, witness, rule.anyOf, now)
  BY DEF EnactRemembered, Enact, enactChecks
<1>. HIDE DEF acting, by
<1>4. PICK a \in ToSet(rule.anyOf) : \A guard \in ToSet(a.allOf) : holds(guard, acting, witness, now)
  BY <1>3 DEF satisfied
<1>5. ASSUME NEW guard \in ToSet(a.allOf), guard.tag = "Parties"
      PROVE  Cardinality(ToSet(guard.parties) \intersect by) >= guard.threshold
  <2> DEFINE few  == ToSet(guard.parties) \intersect acting
             many == ToSet(guard.parties) \intersect by
  <2>1. Cardinality(few) >= guard.threshold
    BY <1>4, <1>5 DEF holds
  <2>2. IsFiniteSet(ToSet(guard.parties)) /\ guard.threshold \in Int
    BY <1>1, <1>5, PartiesFinite
  <2>3. few \subseteq many /\ many \subseteq ToSet(guard.parties)
    BY <1>2
  <2>. HIDE DEF few, many
  <2>4. IsFiniteSet(many)
    BY <2>2, <2>3, FS_Subset
  <2>5. /\ Cardinality(few) <= Cardinality(many)
        /\ Cardinality(few) \in Nat /\ Cardinality(many) \in Nat
    BY <2>3, <2>4, FS_Subset, FS_CardinalityType
  <2>6. Cardinality(many) >= guard.threshold
    BY <2>1, <2>2, <2>5
  <2>. QED  BY <2>6 DEF many
<1>6. releases' = releases \union {[rule |-> rule, by |-> by]}
  BY DEF EnactRemembered, by
<1>7. ToSet(rule.enactors) \intersect by # {}
  BY <1>2, <1>3
<1>. QED  BY <1>4, <1>5, <1>6, <1>7 DEF HInv, EveryReleaseConsented

\* Each step keeps the invariant.
LEMMA HistoryInductive == HInv /\ [HistoryNext]_historyVars => HInv'
<1>1. SUFFICES ASSUME HInv, [HistoryNext]_historyVars PROVE HInv'
  OBVIOUS
<1>2. IInv /\ IInv' /\ [Next]_vars
  BY <1>1, HistoryIsNext, Inductive DEF HInv, historyVars
<1>3. \A t \in locks : LockOK(t) /\ vouched(t, consents)
  BY <1>1 DEF HInv, IInv, LocksOK, ActiveOK
<1>4. \A s, t \in locks : s.lockId = t.lockId => s = t
  BY <1>2 DEF IInv, BackingMatches, live
<1>5. \A t : t.approvals = {} => vouched(t, consents')
  BY DEF vouched
<1>6. ASSUME NEW s \in locks, NEW actors \in ActorSets, NEW legs \in SuppliedLegs,
             NEW rule \in s.terms.rules, ApproveRemembered(s, rule, legs, actors)
      PROVE  HInv'
  <2>1. /\ consents \subseteq consents' /\ releases' = releases
        /\ \A p \in actors :
              [lockId |-> s.lockId, rule |-> rule, legs |-> legs, party |-> p] \in consents'
        /\ locks' = (locks \ {s}) \union {approved(s, rule, legs, actors)}
    BY <1>6 DEF ApproveRemembered, Approve
  <2>2. vouched(approved(s, rule, legs, actors), consents')
    BY <1>3, <2>1, ApprovalVouched
  <2>3. \A t \in locks : vouched(t, consents')
    BY <1>3, <2>1 DEF vouched
  <2>. QED  BY <1>1, <1>2, <2>1, <2>2, <2>3 DEF HInv, EveryReleaseConsented
<1>7. ASSUME NEW s \in locks, NEW actors \in ActorSets, NEW legs \in SuppliedLegs,
             NEW rule \in s.terms.rules, NEW witness \in Witnesses,
             EnactRemembered(s, rule, legs, witness, actors)
      PROVE  HInv'
  <2> DEFINE t == afterRule(s, rule, legs)
  <2>1. /\ locks' \subseteq locks \union {t}
        /\ consents' = consents
    BY <1>7 DEF EnactRemembered, Enact, enact
  <2>2. EveryReleaseConsented'
    BY <1>1, <1>7, ReleaseConsented
  <2>3. vouched(t, consents)
    <3>1. ActiveOK(s) /\ vouched(s, consents) /\ LockOK(s)
      BY <1>1 DEF HInv, IInv, LocksOK, ActiveOK
    <3>2. /\ t.terms.rules \subseteq s.terms.rules
          /\ t.approvals = {a \in s.approvals : \E r \in t.terms.rules : r.id = a.ruleId}
      BY <3>1, RestKeepsApprovals
    <3>3. t.lockId = s.lockId
      BY DEF afterRule, continuation, mkState
    <3>. HIDE DEF t
    <3>4. ASSUME NEW a \in t.approvals, NEW p \in a.approvers
          PROVE  \E r \in t.terms.rules :
                    r.id = a.ruleId
                    /\ [lockId |-> s.lockId, rule |-> r, legs |-> a.legs, party |-> p] \in consents
      <4>1. PICK q \in t.terms.rules : q.id = a.ruleId
        BY <3>2
      <4>2. PICK r \in s.terms.rules :
                r.id = a.ruleId
                /\ [lockId |-> s.lockId, rule |-> r, legs |-> a.legs, party |-> p] \in consents
        BY <3>1, <3>2, <3>4 DEF vouched
      <4>3. r = q
        BY <3>1, <3>2, <4>1, <4>2 DEF LockOK
      <4>. QED  BY <4>1, <4>2, <4>3
    <3>. QED  BY <3>3, <3>4 DEF vouched
  <2>. QED  BY <1>2, <1>3, <2>1, <2>2, <2>3 DEF HInv
<1>8. ASSUME NEW s \in locks, NEW newTerms, NEW inputs, NEW actors,
             AmendRemembered(s, newTerms, inputs, actors)
      PROVE  HInv'
  <2> DEFINE t == amended(s, newTerms, actors)
  <2>1. /\ locks' \subseteq (locks \ {s}) \union {t}
        /\ consents' = forgotten(s.lockId) /\ releases' = releases
    BY <1>8 DEF AmendRemembered, Amend, start
  <2>2. vouched(t, consents')
    BY <1>5 DEF amended, mkState, clearApprovals
  <2>3. ASSUME NEW u \in locks \ {s} PROVE vouched(u, consents')
    <3>1. u.lockId # s.lockId
      BY <1>4, <2>3
    <3>2. \A c \in consents : c.lockId = u.lockId => c \in consents'
      BY <2>1, <3>1 DEF forgotten
    <3>. QED  BY <1>3, <3>2, VouchedByMore
  <2>. QED  BY <1>1, <1>2, <2>1, <2>2, <2>3 DEF HInv, EveryReleaseConsented
<1>9. ASSUME OnFactories \/ OnInstructions \/ EndLocks \/ Environment \/ UNCHANGED vars,
             UNCHANGED <<consents, releases>>
      PROVE  HInv'
  <2>1. \A t \in locks' : t \in locks \/ t.approvals = {}
    <3>1. CASE OnFactories
      <4>1. PICK f \in factories, terms \in ProposedTerms, inputs \in SubBag(tokens), actors \in ActorSets :
                Lock(f, terms, inputs, actors)
        BY <3>1 DEF OnFactories
      <4>2. locks' \subseteq locks \union {locked(f, terms, actors)}
        BY <4>1 DEF Lock, start
      <4>. QED  BY <4>2 DEF locked, mkState
    <3>2. CASE OnInstructions
      <4>1. PICK i \in instructions, actors \in ActorSets :
                \/ \E approver \in pending(i) : Accept(i, approver, actors) \/ Reject(i, approver, actors)
                \/ Withdraw(i, actors)
        BY <3>2 DEF OnInstructions
      <4>2. CASE Withdraw(i, actors) \/ \E approver \in pending(i) : Reject(i, approver, actors)
        BY <4>2 DEF Withdraw, Reject, withdraw
      <4>3. CASE \E approver \in pending(i) : Accept(i, approver, actors)
        <5>1. PICK approver \in pending(i) : Accept(i, approver, actors)
          BY <4>3
        <5>2. locks' \subseteq locks \union {acceptedBy(i, approver)}
          BY <5>1 DEF Accept, start
        <5>. QED  BY <5>2 DEF acceptedBy, mkState
      <4>. QED  BY <4>1, <4>2, <4>3
    <3>3. CASE EndLocks
      <4>1. PICK u \in locks, actors \in ActorSets : Expire(u, actors) \/ Cancel(u, actors)
        BY <3>3 DEF EndLocks
      <4>2. u \in State /\ "expire" \in Fragment /\ "cancel" \in Fragment
        BY <1>3, PolicyAssumption DEF LockOK
      <4>3. PICK legId \in Fragment : enact(u, <<>>, refundLeg(u, legId), afterRefund(u, legId))
        BY <4>1, <4>2 DEF Expire, Cancel
      <4>4. remaining(u, refundLeg(u, legId)) = 0
        BY <4>2, RefundLeg
      <4>. QED  BY <4>3, <4>4 DEF enact
    <3>4. CASE Environment \/ UNCHANGED vars
      BY <3>4 DEF Environment, Tick, ArchiveTokenRules, contracts, vars
    <3>. QED  BY <1>9, <3>1, <3>2, <3>3, <3>4
  <2>. QED  BY <1>1, <1>2, <1>3, <1>5, <1>9, <2>1 DEF HInv, EveryReleaseConsented
<1>10. CASE HistoryNext
  BY <1>6, <1>7, <1>8, <1>9, <1>10 DEF HistoryNext
<1>11. CASE UNCHANGED historyVars
  BY <1>9, <1>11 DEF historyVars
<1>. QED  BY <1>1, <1>10, <1>11

\* Every rule that has fired was asked for by one of its enactors and by enough
\* parties for the Guard_Parties of one of its alternatives, each with that very
\* rule and those legs, since the last amendment (actingParties, clearApprovals).
THEOREM ReleasesAlwaysConsented == HistorySpec => []EveryReleaseConsented
<1>1. HInv => EveryReleaseConsented
  BY DEF HInv
<1>. QED  BY <1>1, HistoryInitOK, HistoryInductive, PTL DEF HistorySpec

-------------------------------------------------------------------------------
(* Leg IDs.  A transfer leg is found in the log of events by its ID, which   *)
(* joins the names of the lock, the rule and the leg with slashes.           *)

slashed(a, x) == a \o (<<"/">> \o x)

\* The text before the first slash, and the text after it.
LEMMA SplitAtSlash ==
    ASSUME NEW a \in Text, NEW d \in Text, "/" \notin ToSet(a), "/" \notin ToSet(d),
           NEW x \in Text, NEW y \in Text, slashed(a, x) = slashed(d, y)
    PROVE  a = d /\ x = y
<1> DEFINE u == <<"/">> \o x
           v == <<"/">> \o y
<1>1. "/" \in Fragment
  BY PolicyAssumption
<1>2. /\ u \in Text /\ Len(u) = Len(x) + 1 /\ u[1] = "/" /\ \A i \in 1 .. Len(x) : u[i + 1] = x[i]
      /\ v \in Text /\ Len(v) = Len(y) + 1 /\ v[1] = "/" /\ \A i \in 1 .. Len(y) : v[i + 1] = y[i]
  BY <1>1 DEF Text
<1>3. /\ a \in Seq(Fragment) /\ d \in Seq(Fragment) /\ Len(a) \in Nat /\ Len(d) \in Nat
      /\ x \in Seq(Fragment) /\ y \in Seq(Fragment) /\ Len(x) \in Nat /\ Len(y) \in Nat
  BY DEF Text
<1>. HIDE DEF u, v
<1>4. u \in Seq(Fragment) /\ v \in Seq(Fragment) /\ a \o u = d \o v
  BY <1>2 DEF u, v, Text, slashed
<1>5. /\ \A i \in 1 .. Len(a) : (a \o u)[i] = a[i]
      /\ \A i \in 1 .. Len(u) : (a \o u)[Len(a) + i] = u[i]
      /\ \A i \in 1 .. Len(d) : (d \o v)[i] = d[i]
      /\ \A i \in 1 .. Len(v) : (d \o v)[Len(d) + i] = v[i]
      /\ Len(a \o u) = Len(a) + Len(u) /\ Len(d \o v) = Len(d) + Len(v)
  <2>1. a \in Seq(Fragment) /\ d \in Seq(Fragment) /\ u \in Seq(Fragment) /\ v \in Seq(Fragment)
    BY <1>3, <1>4
  <2>2. /\ \A i \in 1 .. Len(a) : (a \o u)[i] = a[i]
        /\ \A i \in 1 .. Len(u) : (a \o u)[Len(a) + i] = u[i]
        /\ Len(a \o u) = Len(a) + Len(u)
    BY <2>1
  <2>3. /\ \A i \in 1 .. Len(d) : (d \o v)[i] = d[i]
        /\ \A i \in 1 .. Len(v) : (d \o v)[Len(d) + i] = v[i]
        /\ Len(d \o v) = Len(d) + Len(v)
    BY <2>1
  <2>. QED  BY <2>2, <2>3
<1>6. (a \o u)[Len(a) + 1] = "/" /\ (d \o v)[Len(d) + 1] = "/"
  BY <1>2, <1>3, <1>5
<1>7. (\A i \in 1 .. Len(a) : a[i] # "/") /\ (\A i \in 1 .. Len(d) : d[i] # "/")
  BY <1>3 DEF ToSet
<1> DEFINE p == a \o u
           q == d \o v
<1>. HIDE DEF p, q
<1>8. p = q
  BY <1>4 DEF p, q
<1>9. Len(a) = Len(d)
  <2>1. ~(Len(a) < Len(d))
    <3>1. SUFFICES ASSUME Len(a) < Len(d) PROVE FALSE
      OBVIOUS
    <3>2. Len(a) + 1 \in 1 .. Len(d)
      BY <1>3, <3>1
    <3>. QED  BY <1>5, <1>6, <1>7, <1>8, <3>2 DEF p, q
  <2>2. ~(Len(d) < Len(a))
    <3>1. SUFFICES ASSUME Len(d) < Len(a) PROVE FALSE
      OBVIOUS
    <3>2. Len(d) + 1 \in 1 .. Len(a)
      BY <1>3, <3>1
    <3>. QED  BY <1>5, <1>6, <1>7, <1>8, <3>2 DEF p, q
  <2>. QED  BY <1>3, <2>1, <2>2
<1>10. a = d
  <2>1. \A i \in 1 .. Len(a) : a[i] = d[i]
    BY <1>5, <1>8, <1>9 DEF p, q
  <2>. QED  BY <1>3, <1>9, <2>1, SeqEqual
<1>11. Len(u) = Len(v) /\ \A i \in 1 .. Len(u) : u[i] = v[i]
  <2>1. Len(u) = Len(v)
    <3>1. Len(p) = Len(a) + Len(u) /\ Len(q) = Len(d) + Len(v)
      BY <1>5 DEF p, q
    <3>2. Len(u) \in Nat /\ Len(v) \in Nat
      BY <1>4
    <3>. QED  BY <1>3, <1>8, <1>9, <3>1, <3>2
  <2>. QED  BY <1>5, <1>8, <1>9, <2>1 DEF p, q
<1>12. x = y
  <2>1. Len(x) = Len(y)
    BY <1>2, <1>3, <1>11
  <2>2. ASSUME NEW i \in 1 .. Len(x) PROVE x[i] = y[i]
    <3>1. i + 1 \in 1 .. Len(u)
      BY <1>2, <1>3
    <3>. QED  BY <1>2, <1>11, <2>1, <3>1
  <2>. QED  BY <1>3, <2>1, <2>2, SeqEqual
<1>. QED  BY <1>10, <1>12


\* A leg ID names one leg of one rule of one lock (transferLegId): the names that
\* it joins have no slash.
joinedId(lockId, ruleId, legId) == lockId \o <<"/">> \o ruleId \o <<"/">> \o legId

\* Concatenation, as an operator that is not interpreted.
cat(a, b) == a \o b

LEMMA CatAssociative ==
    /\ \A a, b \in Text : cat(a, b) \in Text
    /\ \A a, b, c \in Text : cat(cat(a, b), c) = cat(a, cat(b, c))
<1>1. ASSUME NEW a \in Text, NEW b \in Text PROVE cat(a, b) \in Text
  BY DEF cat, Text
<1>2. ASSUME NEW a \in Text, NEW b \in Text, NEW c \in Text
      PROVE  cat(cat(a, b), c) = cat(a, cat(b, c))
  BY ConcatAssociative DEF cat, Text
<1>. QED  BY <1>1, <1>2

LEMMA IdSplits ==
    ASSUME NEW l \in Text, NEW r \in Text, NEW g \in Text
    PROVE  /\ slashed(r, g) \in Text
           /\ joinedId(l, r, g) = slashed(l, slashed(r, g))
<1> DEFINE c == <<"/">>
<1>1. c \in Text
  BY PolicyAssumption DEF Text
<1>2. joinedId(l, r, g) = cat(cat(cat(cat(l, c), r), c), g)
  BY DEF joinedId, cat
<1>3. \A a, x : slashed(a, x) = cat(a, cat(c, x))
  BY DEF slashed, cat
<1>. HIDE DEF c
<1>4. cat(cat(cat(cat(l, c), r), c), g) = cat(l, cat(c, cat(r, cat(c, g))))
  <2>1. /\ cat(l, c) \in Text /\ cat(c, g) \in Text
        /\ cat(cat(l, c), r) \in Text /\ cat(r, cat(c, g)) \in Text
    BY <1>1, CatAssociative
  <2>2. cat(cat(cat(cat(l, c), r), c), g) = cat(cat(cat(l, c), r), cat(c, g))
    BY <1>1, <2>1, CatAssociative
  <2>3. cat(cat(cat(l, c), r), cat(c, g)) = cat(cat(l, c), cat(r, cat(c, g)))
    BY <1>1, <2>1, CatAssociative
  <2>4. cat(cat(l, c), cat(r, cat(c, g))) = cat(l, cat(c, cat(r, cat(c, g))))
    BY <1>1, <2>1, CatAssociative
  <2>. QED  BY <2>2, <2>3, <2>4
<1>. QED  BY <1>1, <1>2, <1>3, <1>4, CatAssociative

LEMMA IdNames ==
    ASSUME NEW l \in Text, NEW r \in Text, NEW g \in Text, NEW k \in Text, NEW q \in Text, NEW h \in Text,
           noSlash(l), noSlash(r), noSlash(k), noSlash(q), joinedId(l, r, g) = joinedId(k, q, h)
    PROVE  l = k /\ r = q /\ g = h
<1>1. /\ slashed(r, g) \in Text /\ slashed(q, h) \in Text
      /\ slashed(l, slashed(r, g)) = slashed(k, slashed(q, h))
  BY IdSplits
<1>2. "/" \notin ToSet(l) /\ "/" \notin ToSet(r) /\ "/" \notin ToSet(k) /\ "/" \notin ToSet(q)
  BY DEF noSlash
<1>3. l = k /\ slashed(r, g) = slashed(q, h)
  BY <1>1, <1>2, SplitAtSlash
<1>. QED  BY <1>2, <1>3, SplitAtSlash

-------------------------------------------------------------------------------
(* The legs of one enactment. *)

Paired(e, sides) ==
    LET sameId == {d \in sides : d.transferLegId = e.transferLegId}
    IN  \E d \in sameId :
           /\ sameId = {d, e}
           /\ d.side # e.side
           /\ d.account = e.otherside /\ d.otherside = e.account
           /\ d.amount = e.amount /\ d.instrumentId = e.instrumentId

LEMMA SidesOfOne ==
    ASSUME NEW s, NEW ruleId, NEW legs \in Seq(PaidLeg),
           \A i, j \in DOMAIN legs :
              transferLegId(s, ruleId, legs[i]) = transferLegId(s, ruleId, legs[j]) => i = j
    PROVE  LET new == enactSides(s, ruleId, legs)
           IN  \A e \in DOMAIN new :
                  /\ new[e] = 1
                  /\ \E i \in DOMAIN legs : e.transferLegId = transferLegId(s, ruleId, legs[i])
                  /\ Paired(e, DOMAIN new)
<1> DEFINE to == toReceivers(s, legs)
           id(i) == transferLegId(s, ruleId, legs[i])
           side(i, direction, account, other) ==
               [transferLegId |-> id(i), side |-> direction,
                account |-> account, otherside |-> other,
                amount |-> legs[i].amount, instrumentId |-> s.terms.instrumentId]
           out(i) == side(i, "Sender", s.terms.authorizer, legs[i].receiver)
           in(i) == side(i, "Receiver", legs[i].receiver, s.terms.authorizer)
           sides == {out(i) : i \in to} \union {in(i) : i \in to}
           count(e) == Cardinality({i \in to : e \in {out(i), in(i)}})
           new == enactSides(s, ruleId, legs)
<1>1. new = [e \in sides |-> count(e)]
  BY DEF enactSides
<1>2. to \subseteq DOMAIN legs
  BY DEF toReceivers
<1>3. ASSUME NEW i \in to
      PROVE  /\ out(i).transferLegId = id(i) /\ in(i).transferLegId = id(i)
             /\ out(i).side = "Sender" /\ in(i).side = "Receiver"
             /\ out(i).account = in(i).otherside /\ out(i).otherside = in(i).account
             /\ out(i).amount = in(i).amount /\ out(i).instrumentId = in(i).instrumentId
  OBVIOUS
<1>4. \A i, j \in to : id(i) = id(j) => i = j
  BY <1>2
<1>. HIDE DEF to, id, side, out, in
<1>5. ASSUME NEW i \in to
      PROVE  {j \in to : out(i) \in {out(j), in(j)}} = {i} /\ {j \in to : in(i) \in {out(j), in(j)}} = {i}
  BY <1>3, <1>4
<1>6. ASSUME NEW e \in sides PROVE count(e) = 1
  <2>1. PICK i \in to : {j \in to : e \in {out(j), in(j)}} = {i}
    BY <1>5, <1>6
  <2>2. Cardinality({i}) = 1
    BY FS_Singleton
  <2>. QED  BY <2>1, <2>2
<1>7. ASSUME NEW i \in to PROVE {d \in sides : d.transferLegId = id(i)} = {out(i), in(i)}
  BY <1>3, <1>4
<1>8. ASSUME NEW e \in sides PROVE Paired(e, sides)
  <2>1. PICK i \in to : e = out(i) \/ e = in(i)
    BY <1>8
  <2>2. e.transferLegId = id(i) /\ out(i) \in sides /\ in(i) \in sides
    BY <1>3, <2>1
  <2>. HIDE DEF sides
  <2>3. CASE e = out(i)
    BY <1>3, <1>7, <2>2, <2>3 DEF Paired
  <2>4. CASE e = in(i)
    BY <1>3, <1>7, <2>2, <2>4 DEF Paired
  <2>. QED  BY <2>1, <2>3, <2>4
<1>9. ASSUME NEW e \in sides PROVE \E i \in DOMAIN legs : e.transferLegId = id(i)
  BY <1>2, <1>3, <1>9
<1>10. DOMAIN new = sides /\ \A e \in sides : new[e] = 1
  <2>. HIDE DEF sides, count, new
  <2>. QED  BY <1>1, <1>6
<1>. HIDE DEF sides, new
<1>11. \A e \in DOMAIN new :
          /\ new[e] = 1
          /\ \E i \in DOMAIN legs : e.transferLegId = id(i)
          /\ Paired(e, DOMAIN new)
  BY <1>8, <1>9, <1>10
<1>. QED  BY <1>11 DEF new, id

\* An enactment with new leg IDs adds to the log without disturbing what is there.
LEMMA LogGrows ==
    ASSUME NEW old, NEW new,
           \A e \in DOMAIN old : old[e] = 1 /\ Paired(e, DOMAIN old),
           \A e \in DOMAIN new : new[e] = 1 /\ Paired(e, DOMAIN new),
           \A d \in DOMAIN old, e \in DOMAIN new : d.transferLegId # e.transferLegId
    PROVE  LET log == old (+) new
           IN  /\ DOMAIN log = DOMAIN old \union DOMAIN new
               /\ \A e \in DOMAIN log : log[e] = 1 /\ Paired(e, DOMAIN log)
<1> DEFINE log == old (+) new
<1>1. log = [e \in DOMAIN old \union DOMAIN new |->
                (IF e \in DOMAIN old THEN old[e] ELSE 0) + (IF e \in DOMAIN new THEN new[e] ELSE 0)]
  BY DEF (+)
<1>2. DOMAIN log = DOMAIN old \union DOMAIN new
  BY <1>1
<1>3. ASSUME NEW e \in DOMAIN log PROVE log[e] = 1
  BY <1>1
<1>. HIDE DEF log
<1>4. ASSUME NEW e \in DOMAIN log PROVE Paired(e, DOMAIN log)
  <2>1. CASE e \in DOMAIN old
    <3>1. {d \in DOMAIN log : d.transferLegId = e.transferLegId}
              = {d \in DOMAIN old : d.transferLegId = e.transferLegId}
      BY <1>2, <2>1
    <3>. QED  BY <2>1, <3>1 DEF Paired
  <2>2. CASE e \in DOMAIN new
    <3>1. {d \in DOMAIN log : d.transferLegId = e.transferLegId}
              = {d \in DOMAIN new : d.transferLegId = e.transferLegId}
      BY <1>2, <2>2
    <3>. QED  BY <2>2, <3>1 DEF Paired
  <2>. QED  BY <1>2, <1>4, <2>1, <2>2
<1>. QED  BY <1>2, <1>3, <1>4 DEF log


-------------------------------------------------------------------------------
(* The legs of all enactments. *)

\* The names that leg IDs are joined from have no slash.
NamesOK ==
    /\ \A f \in factories : noSlash(f.lockId)
    /\ \A s \in live : noSlash(s.lockId) /\ \A rule \in s.terms.rules : noSlash(rule.id)

\* No lock will ever fire the rule under the lock ID again.
Spent(lockId, ruleId) ==
    /\ \A f \in factories : f.lockId # lockId
    /\ \A s \in live : s.lockId = lockId => ruleId \in s.enactedRuleIds

LogOK ==
    \A e \in DOMAIN legSides :
        /\ legSides[e] = 1
        /\ Paired(e, DOMAIN legSides)
        /\ \E lockId, ruleId, legId \in Text :
              /\ noSlash(lockId) /\ noSlash(ruleId)
              /\ e.transferLegId = joinedId(lockId, ruleId, legId)
              /\ Spent(lockId, ruleId)

LegsInv == IInv /\ NamesOK /\ LogOK

\* Where a contract of the next state comes from.
descends(t) ==
    \/ \E f \in factories : t.lockId = f.lockId
    \/ \E s \in live : t.lockId = s.lockId /\ s.enactedRuleIds \subseteq t.enactedRuleIds

named(t) == \A rule \in t.terms.rules : noSlash(rule.id)

ByDescent == factories' \subseteq factories /\ \A t \in live' : descends(t) /\ named(t)

LEMMA DescentKeeps ==
    ASSUME LegsInv, ByDescent
    PROVE  /\ NamesOK'
           /\ \A l, r : Spent(l, r) => Spent(l, r)'
<1>1. NamesOK'
  BY DEF LegsInv, NamesOK, ByDescent, descends, named
<1>2. ASSUME NEW l, NEW r, Spent(l, r) PROVE Spent(l, r)'
  BY <1>2 DEF Spent, ByDescent, descends
<1>. QED  BY <1>1, <1>2

\* When a step keeps the log, and when it adds to it, what is there stays paired.
LEMMA LogKept ==
    ASSUME LegsInv, ByDescent, DOMAIN legSides' = DOMAIN legSides,
           \A e \in DOMAIN legSides : legSides'[e] = legSides[e]
    PROVE  LogOK'
<1> SUFFICES ASSUME NEW e \in DOMAIN legSides
    PROVE  /\ legSides'[e] = 1
           /\ Paired(e, DOMAIN legSides)
           /\ \E lockId, ruleId, legId \in Text :
                 /\ noSlash(lockId) /\ noSlash(ruleId)
                 /\ e.transferLegId = joinedId(lockId, ruleId, legId)
                 /\ Spent(lockId, ruleId)'
  BY DEF LogOK, Paired
<1>1. legSides[e] = 1 /\ Paired(e, DOMAIN legSides)
  BY DEF LegsInv, LogOK
<1>2. PICK l \in Text, r \in Text, g \in Text :
          noSlash(l) /\ noSlash(r) /\ e.transferLegId = joinedId(l, r, g) /\ Spent(l, r)
  BY DEF LegsInv, LogOK
<1>3. Spent(l, r)'
  BY <1>2, DescentKeeps
<1>. QED  BY <1>1, <1>2, <1>3

\* What replaces contracts by at most one new one.
LEMMA OneNew ==
    ASSUME LegsInv, factories' \subseteq factories, NEW t, live' \subseteq live \union {t},
           descends(t), named(t)
    PROVE  ByDescent
<1>1. \A u \in live : descends(u) /\ named(u)
  BY DEF descends, named, LegsInv, NamesOK
<1>. QED  BY <1>1 DEF ByDescent

LEMMA ValidNames ==
    ASSUME NEW admin, NEW terms, NEW t, validateTerms(admin, terms, t)
    PROVE  \A rule \in terms.rules : noSlash(rule.id)
BY DEF validateTerms, validRule

LEMMA StepDescends ==
    ASSUME LegsInv, Next
    PROVE  ByDescent
<1>1. /\ \A s \in live : s \in State /\ LockOK(s)
      /\ \A s \in live : named(s) /\ \A u : u.lockId = s.lockId /\ s.enactedRuleIds \subseteq u.enactedRuleIds => descends(u)
  BY DEF LegsInv, IInv, LocksOK, ActiveOK, PendingOK, LockOK, live, NamesOK, named, descends
<1>2. live' \subseteq live /\ factories' \subseteq factories => ByDescent
  BY <1>1 DEF ByDescent
<1>3. CASE OnFactories
  <2>1. PICK f \in factories, terms \in ProposedTerms, inputs \in SubBag(tokens), actors \in ActorSets :
            Lock(f, terms, inputs, actors)
    BY <1>3 DEF OnFactories
  <2> DEFINE t == locked(f, terms, actors)
  <2>2. t.lockId = f.lockId /\ t.terms = terms
    BY DEF locked, mkState
  <2>3. lockChecks(f, terms, inputs, actors) /\ factories' \subseteq factories
        /\ locks' \subseteq locks \union {t} /\ instructions' \subseteq instructions \union {t}
    BY <2>1 DEF Lock, start
  <2>. HIDE DEF t
  <2>4. named(t) /\ descends(t)
    BY <2>2, <2>3, ValidNames DEF lockChecks, named, descends
  <2>. QED  BY <2>3, <2>4, OneNew DEF live
<1>4. CASE OnInstructions
  <2>1. PICK i \in instructions, actors \in ActorSets :
            \/ \E approver \in pending(i) : Accept(i, approver, actors) \/ Reject(i, approver, actors)
            \/ Withdraw(i, actors)
    BY <1>4 DEF OnInstructions
  <2>2. CASE Withdraw(i, actors) \/ \E approver \in pending(i) : Reject(i, approver, actors)
    BY <1>2, <2>2 DEF Withdraw, Reject, withdraw, live
  <2>3. CASE \E approver \in pending(i) : Accept(i, approver, actors)
    <3>1. PICK approver \in pending(i) : Accept(i, approver, actors)
      BY <2>3
    <3> DEFINE t == acceptedBy(i, approver)
    <3>2. t.lockId = i.lockId /\ t.terms = i.terms /\ t.enactedRuleIds = i.enactedRuleIds
      BY DEF acceptedBy, mkState
    <3>3. factories' = factories
          /\ locks' \subseteq locks \union {t} /\ instructions' \subseteq instructions \union {t}
      BY <3>1 DEF Accept, start
    <3>. HIDE DEF t
    <3>4. i \in live
      BY DEF live
    <3>5. named(t) /\ descends(t)
      BY <1>1, <3>2, <3>4 DEF named
    <3>. QED  BY <3>3, <3>5, OneNew DEF live
  <2>. QED  BY <2>1, <2>2, <2>3
<1>5. ASSUME NEW s \in locks, NEW actors, NEW legs, NEW rule \in s.terms.rules,
             Approve(s, rule, legs, actors)
      PROVE  ByDescent
  <2> DEFINE t == approved(s, rule, legs, actors)
  <2>1. s \in live /\ s \in State
    BY <1>1 DEF live
  <2>2. t.lockId = s.lockId /\ t.terms = s.terms /\ t.enactedRuleIds = s.enactedRuleIds
    BY <2>1, ApprovedKeeps
  <2>3. factories' = factories /\ locks' \subseteq locks \union {t} /\ instructions' = instructions
    BY <1>5 DEF Approve
  <2>. HIDE DEF t
  <2>4. named(t) /\ descends(t)
    BY <1>1, <2>1, <2>2 DEF named
  <2>. QED  BY <2>3, <2>4, OneNew DEF live
<1>6. ASSUME NEW s \in locks, NEW actors, NEW legs, NEW rule \in s.terms.rules, NEW witness,
             Enact(s, rule, legs, witness, actors)
      PROVE  ByDescent
  <2> DEFINE t == afterRule(s, rule, legs)
  <2>1. s \in live /\ ActiveOK(s)
    BY DEF live, LegsInv, IInv, LocksOK
  <2>2. t.lockId = s.lockId /\ t.enactedRuleIds = s.enactedRuleIds \union {rule.id}
    BY DEF afterRule, continuation, mkState
  <2>3. t.terms.rules \subseteq s.terms.rules
    BY <2>1, RestKeepsApprovals
  <2>4. factories' = factories /\ locks' \subseteq locks \union {t} /\ instructions' = instructions
    BY <1>6 DEF Enact, enact
  <2>. HIDE DEF t
  <2>5. named(t) /\ descends(t)
    BY <1>1, <2>1, <2>2, <2>3 DEF named
  <2>. QED  BY <2>4, <2>5, OneNew DEF live
<1>7. CASE UseRules
  BY <1>5, <1>6, <1>7 DEF UseRules
<1>8. CASE EndLocks
  <2>1. PICK u \in locks, actors \in ActorSets : Expire(u, actors) \/ Cancel(u, actors)
    BY <1>8 DEF EndLocks
  <2>2. u \in State /\ "expire" \in Fragment /\ "cancel" \in Fragment
    BY <1>1, PolicyAssumption DEF live
  <2>3. PICK legId \in Fragment : enact(u, <<>>, refundLeg(u, legId), afterRefund(u, legId))
    BY <2>1, <2>2 DEF Expire, Cancel
  <2>4. remaining(u, refundLeg(u, legId)) = 0
    BY <2>2, RefundLeg
  <2>. QED  BY <1>2, <2>3, <2>4 DEF enact, live
<1>9. CASE ChangeTerms
  <2>1. PICK u \in locks, newTerms \in ProposedTerms, inputs \in SubBag(tokens), actors \in ActorSets :
            Amend(u, newTerms, inputs, actors)
    BY <1>9 DEF ChangeTerms
  <2> DEFINE t == amended(u, newTerms, actors)
  <2>2. t.lockId = u.lockId /\ t.terms = newTerms /\ t.enactedRuleIds = u.enactedRuleIds
    BY DEF amended, mkState
  <2>3. amendChecks(u, newTerms, inputs, actors) /\ factories' = factories
        /\ locks' \subseteq locks \union {t} /\ instructions' \subseteq instructions \union {t}
    BY <2>1 DEF Amend, start
  <2>. HIDE DEF t
  <2>4. u \in live
    BY DEF live
  <2>5. named(t) /\ descends(t)
    BY <1>1, <2>2, <2>3, <2>4, ValidNames DEF amendChecks, named
  <2>. QED  BY <2>3, <2>5, OneNew DEF live
<1>10. CASE Environment
  BY <1>2, <1>10 DEF Environment, Tick, ArchiveTokenRules, contracts, live
<1>. QED  BY <1>3, <1>4, <1>7, <1>8, <1>9, <1>10 DEF Next

\* Legs that are paid have IDs.
LEMMA PaidLegIds ==
    ASSUME NEW legs \in Seq(PaidLeg)
    PROVE  \A i \in DOMAIN legs : legs[i].legId \in Text
<1>1. DOMAIN legs = 1 .. Len(legs) /\ \A i \in 1 .. Len(legs) : legs[i] \in PaidLeg
  OBVIOUS
<1>2. \A leg \in PaidLeg : leg.legId \in Text
  BY DEF PaidLeg
<1>. QED  BY <1>1, <1>2

\* No two legs of an enactment have the same ID (validLegs).
LEMMA LegsDistinct ==
    ASSUME NEW s \in State, noSlash(s.lockId), NEW rule \in s.terms.rules, noSlash(rule.id),
           NEW supplied \in Seq(Leg), resolveOutcome(s.terms, rule.outcome, supplied)
    PROVE  LET legs == resolvedLegs(s.terms, rule.outcome, supplied)
           IN  /\ legs \in Seq(PaidLeg)
               /\ \A i, j \in DOMAIN legs :
                     transferLegId(s, rule.id, legs[i]) = transferLegId(s, rule.id, legs[j]) => i = j
<1> DEFINE legs == resolvedLegs(s.terms, rule.outcome, supplied)
<1>1. s.lockId \in Text /\ s.terms \in LockTerms /\ s.terms.amount > 0 /\ rule \in Rule /\ rule.id \in Text
  BY StateType DEF LockTerms, Rule
<1>2. legs \in Seq(PaidLeg)
  BY <1>1, ResolvedLegsPayReceivers
<1>3. CASE rule.outcome.tag = "Unlock"
  <2>1. DOMAIN legs = {1}
    BY <1>3 DEF resolvedLegs
  <2>. QED  BY <1>2, <2>1
<1>4. CASE rule.outcome.tag # "Unlock"
  <2>1. IsInjective([i \in DOMAIN legs |-> legs[i].legId])
    BY <1>4 DEF resolveOutcome, validLegs
  <2>. HIDE DEF legs
  <2>2. \A i, j \in DOMAIN legs : legs[i].legId = legs[j].legId => i = j
    BY <2>1 DEF IsInjective
  <2>3. \A i \in DOMAIN legs : legs[i].legId \in Text
    BY <1>2, PaidLegIds
  <2>4. ASSUME NEW i \in DOMAIN legs, NEW j \in DOMAIN legs,
               transferLegId(s, rule.id, legs[i]) = transferLegId(s, rule.id, legs[j])
        PROVE  i = j
    <3>1. joinedId(s.lockId, rule.id, legs[i].legId) = joinedId(s.lockId, rule.id, legs[j].legId)
      BY <2>4 DEF transferLegId, joinedId
    <3>2. legs[i].legId = legs[j].legId
      BY <1>1, <2>3, <3>1, IdNames
    <3>. QED  BY <2>2, <3>2
  <2>. QED  BY <1>2, <2>4 DEF legs
<1>. QED  BY <1>3, <1>4

LEMMA EnactLogs ==
    ASSUME LegsInv, ByDescent, NEW s \in locks, NEW rule \in s.terms.rules, NEW supplied \in SuppliedLegs,
           NEW witness, NEW actors, Enact(s, rule, supplied, witness, actors)
    PROVE  LogOK'
<1> DEFINE legs == resolvedLegs(s.terms, rule.outcome, supplied)
           new  == enactSides(s, rule.id, legs)
           t    == afterRule(s, rule, supplied)
<1>1. /\ s \in State /\ s \in live /\ LockOK(s) /\ noSlash(s.lockId) /\ noSlash(rule.id)
      /\ supplied \in Seq(Leg) /\ resolveOutcome(s.terms, rule.outcome, supplied)
  BY TestTokenAssumption
     DEF LegsInv, IInv, LocksOK, ActiveOK, LockOK, NamesOK, live, Enact, enactChecks
<1>2. s.lockId \in Text /\ rule.id \in Text /\ rule.id \notin s.enactedRuleIds
  BY <1>1, StateType DEF LockTerms, Rule, LockOK
<1>3. /\ legs \in Seq(PaidLeg)
      /\ \A i, j \in DOMAIN legs :
            transferLegId(s, rule.id, legs[i]) = transferLegId(s, rule.id, legs[j]) => i = j
  BY <1>1, LegsDistinct
<1>4. /\ legSides' = legSides (+) new
      /\ locks' \subseteq (locks \ {s}) \union {t} /\ instructions' = instructions
      /\ factories' = factories
  BY DEF Enact, enact
<1>5. t.enactedRuleIds = s.enactedRuleIds \union {rule.id}
  BY DEF afterRule, continuation, mkState
<1>. HIDE DEF legs, t
<1>6. \A e \in DOMAIN new :
          /\ new[e] = 1
          /\ \E i \in DOMAIN legs : e.transferLegId = transferLegId(s, rule.id, legs[i])
          /\ Paired(e, DOMAIN new)
  BY <1>3, SidesOfOne
<1>. HIDE DEF new
<1>7. ASSUME NEW e \in DOMAIN new
      PROVE  \E g \in Text : e.transferLegId = joinedId(s.lockId, rule.id, g)
  <2>1. PICK i \in DOMAIN legs : e.transferLegId = transferLegId(s, rule.id, legs[i])
    BY <1>6
  <2>2. legs[i].legId \in Text
    BY <1>3, PaidLegIds
  <2>. QED  BY <2>1, <2>2 DEF transferLegId, joinedId
<1>8. ASSUME NEW d \in DOMAIN legSides, NEW e \in DOMAIN new
      PROVE  d.transferLegId # e.transferLegId
  <2>1. PICK l \in Text, r \in Text, h \in Text :
            noSlash(l) /\ noSlash(r) /\ d.transferLegId = joinedId(l, r, h) /\ Spent(l, r)
    BY DEF LegsInv, LogOK
  <2>2. PICK g \in Text : e.transferLegId = joinedId(s.lockId, rule.id, g)
    BY <1>7
  <2>3. SUFFICES ASSUME joinedId(l, r, h) = joinedId(s.lockId, rule.id, g) PROVE FALSE
    BY <2>1, <2>2
  <2>4. l = s.lockId /\ r = rule.id
    BY <1>1, <1>2, <2>1, <2>3, IdNames
  <2>. QED  BY <1>1, <1>2, <2>1, <2>4 DEF Spent
<1>9. \A e \in DOMAIN legSides : legSides[e] = 1 /\ Paired(e, DOMAIN legSides)
  BY DEF LegsInv, LogOK
<1>10. /\ DOMAIN legSides' = DOMAIN legSides \union DOMAIN new
       /\ \A e \in DOMAIN legSides' : legSides'[e] = 1 /\ Paired(e, DOMAIN legSides')
  <2> DEFINE old == legSides
             log == old (+) new
  <2>1. \A e \in DOMAIN new : new[e] = 1 /\ Paired(e, DOMAIN new)
    BY <1>6
  <2>2. \A e \in DOMAIN old : old[e] = 1 /\ Paired(e, DOMAIN old)
    BY <1>9
  <2>3. \A d \in DOMAIN old, e \in DOMAIN new : d.transferLegId # e.transferLegId
    BY <1>8
  <2>. HIDE DEF old
  <2>4. /\ DOMAIN log = DOMAIN old \union DOMAIN new
        /\ \A e \in DOMAIN log : log[e] = 1 /\ Paired(e, DOMAIN log)
    BY <2>1, <2>2, <2>3, LogGrows
  <2>5. legSides' = log
    BY <1>4 DEF old
  <2>. HIDE DEF log
  <2>. QED  BY <2>4, <2>5 DEF old
<1>11. Spent(s.lockId, rule.id)'
  <2>1. \A f \in factories' : f.lockId # s.lockId
    BY <1>1, <1>4 DEF LegsInv, IInv, BackingMatches
  <2>2. ASSUME NEW u \in live', u.lockId = s.lockId PROVE rule.id \in u.enactedRuleIds
    <3>1. u = t \/ (u \in live /\ u # s)
      BY <1>1, <1>4, Apart DEF live, LegsInv, IInv
    <3>2. u \in live => u = s
      BY <1>1, <2>2 DEF LegsInv, IInv, BackingMatches
    <3>. QED  BY <1>5, <3>1, <3>2
  <2>. QED  BY <2>1, <2>2 DEF Spent
<1>12. ASSUME NEW e \in DOMAIN legSides'
       PROVE  \E l, r, g \in Text :
                  noSlash(l) /\ noSlash(r) /\ e.transferLegId = joinedId(l, r, g) /\ Spent(l, r)'
  <2>1. CASE e \in DOMAIN legSides
    <3>1. PICK l \in Text, r \in Text, g \in Text :
              noSlash(l) /\ noSlash(r) /\ e.transferLegId = joinedId(l, r, g) /\ Spent(l, r)
      BY <2>1 DEF LegsInv, LogOK
    <3>. QED  BY <3>1, DescentKeeps
  <2>2. CASE e \in DOMAIN new
    BY <1>1, <1>2, <1>7, <1>11, <2>2
  <2>. QED  BY <1>10, <1>12, <2>1, <2>2
<1>. QED  BY <1>10, <1>12 DEF LogOK

\* A refund goes to the authorizer, so it moves nothing to another account.
LEMMA RefundLogs ==
    ASSUME LegsInv, ByDescent, NEW s \in State, NEW legId \in Fragment,
           enact(s, <<>>, refundLeg(s, legId), afterRefund(s, legId))
    PROVE  LogOK'
<1> DEFINE new == enactSides(s, <<>>, refundLeg(s, legId))
           old == legSides
<1>1. DOMAIN new = {}
  BY RefundLeg DEF enactSides
<1>2. legSides' = old (+) new
  BY DEF enact
<1>. HIDE DEF new
<1>3. old (+) new = [e \in DOMAIN old \union DOMAIN new |->
                (IF e \in DOMAIN old THEN old[e] ELSE 0) + (IF e \in DOMAIN new THEN new[e] ELSE 0)]
  BY DEF (+)
<1>4. \A e \in DOMAIN old : old[e] = 1
  BY DEF LegsInv, LogOK
<1>5. DOMAIN legSides' = DOMAIN old /\ \A e \in DOMAIN old : legSides'[e] = old[e]
  BY <1>1, <1>2, <1>3, <1>4
<1>. QED  BY <1>5, LogKept

LEMMA LegsInit ==
    ASSUME Init
    PROVE  LegsInv
<1>1. IInv
  BY InitOK
<1>2. NamesOK
  BY DEF Init, NamesOK, live
<1>3. DOMAIN EmptyBag = {}
  BY DEF EmptyBag, SetToBag
<1>. QED  BY <1>1, <1>2, <1>3 DEF LegsInv, LogOK, Init

LEMMA LegsInductive ==
    ASSUME LegsInv, [Next]_vars
    PROVE  LegsInv'
<1>1. IInv'
  BY Inductive DEF LegsInv
<1>2. CASE UNCHANGED vars
  <2>1. NamesOK' /\ LogOK'
    BY <1>2 DEF LegsInv, NamesOK, LogOK, Spent, live, vars, contracts, eventLog
  <2>. QED  BY <1>1, <2>1 DEF LegsInv
<1>3. CASE Next
  <2>1. ByDescent
    BY <1>3, StepDescends
  <2>2. NamesOK'
    BY <2>1, DescentKeeps
  <2> SUFFICES LogOK'
    BY <1>1, <2>2 DEF LegsInv
  <2>3. UNCHANGED legSides => LogOK'
    BY <2>1, LogKept
  <2>4. CASE OnFactories \/ OnInstructions \/ ChangeTerms \/ Environment
    BY <2>3, <2>4 DEF OnFactories, OnInstructions, ChangeTerms, Environment, Lock, Accept, Reject,
                      Withdraw, withdraw, Amend, Tick, ArchiveTokenRules, eventLog
  <2>5. CASE UseRules
    <3>1. PICK s \in locks, actors \in ActorSets, legs \in SuppliedLegs, rule \in Rule :
              /\ rule \in s.terms.rules
              /\ \/ Approve(s, rule, legs, actors)
                 \/ \E witness \in Witnesses : Enact(s, rule, legs, witness, actors)
      <4>1. \A s \in locks : s.terms.rules \subseteq Rule
        BY StateType DEF LegsInv, IInv, LocksOK, ActiveOK, LockOK, LockTerms
      <4>. QED  BY <2>5, <4>1 DEF UseRules
    <3>2. CASE Approve(s, rule, legs, actors)
      BY <2>3, <3>2 DEF Approve, eventLog
    <3>3. CASE \E witness \in Witnesses : Enact(s, rule, legs, witness, actors)
      BY <2>1, <3>1, <3>3, EnactLogs
    <3>. QED  BY <3>1, <3>2, <3>3
  <2>6. CASE EndLocks
    <3>1. "expire" \in Fragment /\ "cancel" \in Fragment
      BY PolicyAssumption
    <3>2. \A s \in locks : s \in State
      BY DEF LegsInv, IInv, LocksOK, ActiveOK, LockOK
    <3>. QED  BY <2>1, <2>6, <3>1, <3>2, RefundLogs DEF EndLocks, Expire, Cancel
  <2>. QED  BY <1>3, <2>4, <2>5, <2>6 DEF Next
<1>. QED  BY <1>2, <1>3

\* Every leg of an enactment that moves holdings to another account is in the log
\* exactly twice, once for each side, and no two legs that any locks will ever pay
\* share an ID: the two sides are found by it (enact and transferLegId in
\* TestTokenV1.daml).  IDs do not collide because the names they are joined from
\* have no slash, lock IDs differ, and a rule fires once for its lock ID.
THEOREM LegsAlwaysPaired == Spec => []TransferLegsPaired
<1>1. Init => LegsInv
  BY LegsInit
<1>2. LegsInv /\ [Next]_vars => LegsInv'
  BY LegsInductive
<1>3. LegsInv => TransferLegsPaired
  BY DEF LegsInv, LogOK, Paired, TransferLegsPaired
<1>. QED  BY <1>1, <1>2, <1>3, PTL DEF Spec

-------------------------------------------------------------------------------
(* What circulates and what is locked: bags of tokens and sets of holdings. *)

copiesOf(bag, t) == IF t \in DOMAIN bag THEN bag[t] ELSE 0
worth(a, i, t) == IF t.account = a /\ t.instrumentId = i THEN t.amount ELSE 0

LEMMA Products ==
    /\ \A m, n \in Int : m * n \in Int /\ m * 0 = 0 /\ 0 * n = 0
    /\ \A k, m, n \in Int : (k + m) * n = k * n + m * n
OBVIOUS

LEMMA TokenAmount == \A t \in Token : t.amount \in Nat /\ \A a, i : worth(a, i, t) \in Nat
BY PolicyAssumption DEF Token, worth

LEMMA BagCounts == \A bag : IsABag(bag) => \A t : copiesOf(bag, t) \in Nat
BY DEF IsABag, copiesOf

\* What a bag of tokens is worth, added up over any set that has all of them.
LEMMA CirculatingOver ==
    ASSUME NEW bag, IsABag(bag), NEW D, IsFiniteSet(D), DOMAIN bag \subseteq D, D \subseteq Token,
           NEW a, NEW i
    PROVE  circulating(a, i, bag) = SumFunctionOnSet([t \in D |-> copiesOf(bag, t) * worth(a, i, t)], D)
<1> DEFINE f == [t \in D |-> copiesOf(bag, t) * worth(a, i, t)]
           g == [t \in DOMAIN bag |-> bag[t] * t.amount]
           R == {t \in DOMAIN bag : t.account = a /\ t.instrumentId = i}
<1>1. \A t \in D : copiesOf(bag, t) \in Int /\ worth(a, i, t) \in Int /\ f[t] \in Int
  BY BagCounts, TokenAmount, Products
<1>2. \A t \in D : t \notin R => f[t] = 0
  <2>1. ASSUME NEW t \in D, t \notin R PROVE f[t] = 0
    <3>1. copiesOf(bag, t) = 0 \/ worth(a, i, t) = 0
      BY <2>1 DEF copiesOf, worth
    <3>. QED  BY <1>1, <3>1, Products
  <2>. QED  BY <2>1
<1>3. \A t \in R : f[t] \in Int /\ f[t] = g[t]
  BY <1>1 DEF copiesOf, worth
<1>4. D \intersect R = R /\ IsFiniteSet(R)
  <2>1. R \in SUBSET D
    OBVIOUS
  <2>. QED  BY <2>1, FS_Subset
<1>5. circulating(a, i, bag) = SumFunctionOnSet(g, R)
  BY DEF circulating
<1>. HIDE DEF f, g, R
<1>6. \A t \in D : f[t] \in Int
  BY <1>1
<1>7. SumFunctionOnSet(f, D) = SumFunctionOnSet(f, D \intersect R)
  BY <1>2, <1>6, SumSupport
<1>8. SumFunctionOnSet(f, R) = SumFunctionOnSet(g, R)
  BY <1>3, <1>4, SumAgree
<1>9. SumFunctionOnSet(f, D) = circulating(a, i, bag)
  BY <1>4, <1>5, <1>7, <1>8
<1>. QED  BY <1>9 DEF f

LEMMA CirculatingType ==
    ASSUME NEW bag, IsABag(bag), DOMAIN bag \subseteq Token, IsFiniteSet(DOMAIN bag), NEW a, NEW i
    PROVE  circulating(a, i, bag) \in Nat
<1> DEFINE g == [t \in DOMAIN bag |-> bag[t] * t.amount]
           R == {t \in DOMAIN bag : t.account = a /\ t.instrumentId = i}
<1>1. \A t \in R : g[t] \in Nat
  <2>1. \A t \in R : bag[t] \in Nat /\ t.amount \in Nat
    BY BagCounts, TokenAmount DEF copiesOf
  <2>2. \A m, n \in Nat : m * n \in Nat
    OBVIOUS
  <2>. QED  BY <2>1, <2>2
<1>2. IsFiniteSet(R)
  BY FS_Subset
<1>3. circulating(a, i, bag) = SumFunctionOnSet(g, R)
  BY DEF circulating
<1>. HIDE DEF g, R
<1>. QED  BY <1>1, <1>2, <1>3, SumNat

\* Bags put together, and a part of one taken away.
LEMMA CopiesSum ==
    ASSUME NEW u, NEW v, NEW w, IsABag(u), IsABag(v), IsABag(w),
           NEW D, IsFiniteSet(D), D \subseteq Token,
           DOMAIN u \subseteq D, DOMAIN v \subseteq D, DOMAIN w \subseteq D,
           \A t \in D : copiesOf(w, t) = copiesOf(u, t) + copiesOf(v, t),
           NEW a, NEW i
    PROVE  circulating(a, i, w) = circulating(a, i, u) + circulating(a, i, v)
<1> DEFINE f(b) == [t \in D |-> copiesOf(b, t) * worth(a, i, t)]
<1>1. \A t \in D : copiesOf(u, t) \in Int /\ copiesOf(v, t) \in Int /\ worth(a, i, t) \in Int
  BY BagCounts, TokenAmount
<1>2. \A t \in D : f(u)[t] \in Int /\ f(v)[t] \in Int /\ f(w)[t] = f(u)[t] + f(v)[t]
  BY <1>1, Products
<1>3. /\ circulating(a, i, u) = SumFunctionOnSet(f(u), D)
      /\ circulating(a, i, v) = SumFunctionOnSet(f(v), D)
      /\ circulating(a, i, w) = SumFunctionOnSet(f(w), D)
  BY CirculatingOver
<1>. HIDE DEF f
<1>4. SumFunctionOnSet(f(w), D) = SumFunctionOnSet(f(u), D) + SumFunctionOnSet(f(v), D)
  BY <1>2, SumPlus
<1>. QED  BY <1>3, <1>4

LEMMA BagsAdded ==
    ASSUME NEW u, IsABag(u), DOMAIN u \subseteq Token, IsFiniteSet(DOMAIN u),
           NEW v, IsABag(v), DOMAIN v \subseteq Token, IsFiniteSet(DOMAIN v)
    PROVE  /\ IsABag(u (+) v) /\ DOMAIN (u (+) v) \subseteq Token /\ IsFiniteSet(DOMAIN (u (+) v))
           /\ \A a, i : circulating(a, i, u (+) v) = circulating(a, i, u) + circulating(a, i, v)
<1> DEFINE D == DOMAIN u \union DOMAIN v
           w == u (+) v
<1>1. w = [e \in D |-> (IF e \in DOMAIN u THEN u[e] ELSE 0) + (IF e \in DOMAIN v THEN v[e] ELSE 0)]
  BY DEF (+)
<1>2. IsFiniteSet(D) /\ D \subseteq Token /\ DOMAIN w = D
  BY <1>1, FS_Union
<1>3. IsABag(w)
  BY BagUnionType
<1>4. \A t \in D : copiesOf(w, t) = copiesOf(u, t) + copiesOf(v, t)
  BY <1>1 DEF copiesOf
<1>5. DOMAIN u \subseteq D /\ DOMAIN v \subseteq D
  OBVIOUS
<1>. HIDE DEF w, D
<1>6. \A a, i : circulating(a, i, w) = circulating(a, i, u) + circulating(a, i, v)
  BY <1>2, <1>3, <1>4, <1>5, CopiesSum
<1>. QED  BY <1>2, <1>3, <1>6 DEF w

LEMMA BagsTaken ==
    ASSUME NEW u, IsABag(u), DOMAIN u \subseteq Token, IsFiniteSet(DOMAIN u),
           NEW v, IsABag(v), v \sqsubseteq u
    PROVE  /\ IsABag(u (-) v) /\ DOMAIN (u (-) v) \subseteq Token /\ IsFiniteSet(DOMAIN (u (-) v))
           /\ DOMAIN v \subseteq Token /\ IsFiniteSet(DOMAIN v)
           /\ \A a, i : circulating(a, i, u (-) v) = circulating(a, i, u) - circulating(a, i, v)
<1> DEFINE left == [e \in DOMAIN u |-> IF e \in DOMAIN v THEN u[e] - v[e] ELSE u[e]]
           kept == {e \in DOMAIN left : left[e] > 0}
           w == u (-) v
           D == DOMAIN u
<1>1. w = [e \in kept |-> left[e]]
  BY DEF (-)
<1>2. IsABag(w) /\ DOMAIN w \subseteq Token
  BY BagDifferenceType
<1>3. DOMAIN v \subseteq D /\ \A e \in DOMAIN v : v[e] <= u[e]
  BY DEF \sqsubseteq
<1>4. DOMAIN w \subseteq D
  BY <1>1
<1>5. IsFiniteSet(DOMAIN w) /\ IsFiniteSet(DOMAIN v)
  BY <1>3, <1>4, FS_Subset
<1>6. \A t \in D : copiesOf(u, t) = copiesOf(w, t) + copiesOf(v, t)
  <2> SUFFICES ASSUME NEW t \in D PROVE copiesOf(u, t) = copiesOf(w, t) + copiesOf(v, t)
    OBVIOUS
  <2>1. u[t] \in Nat /\ copiesOf(v, t) \in Nat /\ copiesOf(v, t) <= u[t]
    BY <1>3, BagCounts DEF IsABag, copiesOf
  <2>2. left[t] = u[t] - copiesOf(v, t)
    BY <2>1 DEF copiesOf
  <2>3. copiesOf(w, t) = IF left[t] > 0 THEN left[t] ELSE 0
    BY <1>1 DEF copiesOf
  <2>. HIDE DEF left
  <2>. QED  BY <2>1, <2>2, <2>3 DEF copiesOf
<1>7. \A a, i : circulating(a, i, w) = circulating(a, i, u) - circulating(a, i, v)
  <2>. HIDE DEF w, left, kept
  <2> SUFFICES ASSUME NEW a, NEW i
               PROVE circulating(a, i, w) = circulating(a, i, u) - circulating(a, i, v)
    OBVIOUS
  <2>1. circulating(a, i, u) = circulating(a, i, w) + circulating(a, i, v)
    BY <1>2, <1>3, <1>4, <1>6, CopiesSum
  <2>2. circulating(a, i, w) \in Int /\ circulating(a, i, v) \in Int
    BY <1>2, <1>3, <1>5, CirculatingType
  <2>. QED  BY <2>1, <2>2
<1>. QED  BY <1>2, <1>3, <1>5, <1>7

\* One token, the inputs of a choice, and what an enactment issues.
LEMMA OneCirculates ==
    ASSUME NEW t \in Token, NEW a, NEW i
    PROVE  circulating(a, i, SetToBag({t})) = worth(a, i, t)
<1> DEFINE f == [u \in {t} |-> copiesOf(SetToBag({t}), u) * worth(a, i, u)]
           D == {t}
<1>1. IsABag(SetToBag({t})) /\ DOMAIN SetToBag({t}) = D /\ IsFiniteSet(D) /\ D \subseteq Token
  BY SingletonBagType, FS_Singleton
<1>2. f[t] = worth(a, i, t) /\ worth(a, i, t) \in Int
  <2>1. copiesOf(SetToBag({t}), t) = 1
    BY DEF SetToBag, copiesOf
  <2>2. worth(a, i, t) \in Int /\ \A n \in Int : 1 * n = n
    BY TokenAmount
  <2>. QED  BY <2>1, <2>2
<1>3. \A u \in D : f[u] \in Int
  BY <1>2
<1>4. circulating(a, i, SetToBag({t})) = SumFunctionOnSet(f, D)
  BY <1>1, CirculatingOver
<1>5. t \in D /\ D \ {t} = {}
  OBVIOUS
<1>. HIDE DEF f, D
<1>6. SumFunctionOnSet(f, D) = f[t] + SumFunctionOnSet(f, D \ {t})
  BY <1>1, <1>3, <1>5, SumElement
<1>7. SumFunctionOnSet(f, {}) = 0
  BY SumEmpty
<1>8. SumFunctionOnSet(f, D) = worth(a, i, t) + 0
  BY <1>2, <1>5, <1>6, <1>7
<1>. QED  BY <1>2, <1>4, <1>8

LEMMA NoneCirculates == \A a, i : circulating(a, i, EmptyBag) = 0
<1> SUFFICES ASSUME NEW a, NEW i PROVE circulating(a, i, EmptyBag) = 0
  OBVIOUS
<1>1. \A f : SumFunctionOnSet(f, {}) = 0
  BY SumEmpty
<1>2. {t \in DOMAIN EmptyBag : t.account = a /\ t.instrumentId = i} = {}
  BY EmptyBagType
<1>. QED  BY <1>1, <1>2 DEF circulating

LEMMA RefundCirculates ==
    ASSUME NEW terms \in LockTerms, NEW amount \in 1 .. MaxDecimal
    PROVE  /\ IsABag(issueToAuthorizer(terms, amount))
           /\ DOMAIN issueToAuthorizer(terms, amount) \subseteq Token
           /\ IsFiniteSet(DOMAIN issueToAuthorizer(terms, amount))
           /\ \A a, i : circulating(a, i, issueToAuthorizer(terms, amount))
                 = IF a = terms.authorizer /\ i = terms.instrumentId THEN amount ELSE 0
<1> DEFINE t == token(terms, terms.authorizer, amount)
<1>1. t \in Token
  BY PolicyAssumption DEF token, Token, LockTerms
<1>2. issueToAuthorizer(terms, amount) = SetToBag({t})
  BY DEF issueToAuthorizer
<1>3. \A a, i : worth(a, i, t) = IF a = terms.authorizer /\ i = terms.instrumentId THEN amount ELSE 0
  BY DEF token, worth
<1>. HIDE DEF t
<1>4. \A a, i : circulating(a, i, SetToBag({t})) = worth(a, i, t)
  BY <1>1, OneCirculates
<1>5. IsABag(SetToBag({t})) /\ DOMAIN SetToBag({t}) = {t} /\ IsFiniteSet({t})
  BY SingletonBagType, FS_Singleton
<1>. QED  BY <1>1, <1>2, <1>3, <1>4, <1>5

LEMMA ChangeCirculates ==
    ASSUME NEW terms \in LockTerms, NEW amount \in Int, amount <= MaxDecimal
    PROVE  /\ IsABag(issueChange(terms, amount))
           /\ DOMAIN issueChange(terms, amount) \subseteq Token
           /\ IsFiniteSet(DOMAIN issueChange(terms, amount))
           /\ \A a, i : circulating(a, i, issueChange(terms, amount))
                 = IF a = terms.authorizer /\ i = terms.instrumentId /\ amount > 0 THEN amount ELSE 0
<1>1. CASE amount > 0
  <2>1. amount \in 1 .. MaxDecimal
    BY <1>1, PolicyAssumption
  <2>. QED  BY <1>1, <2>1, RefundCirculates DEF issueChange
<1>2. CASE ~(amount > 0)
  <2>1. IsABag(EmptyBag) /\ DOMAIN EmptyBag = {} /\ IsFiniteSet({})
    BY EmptyBagType, FS_EmptySet
  <2>2. issueChange(terms, amount) = EmptyBag
    BY <1>2 DEF issueChange
  <2>. QED  BY <1>2, <2>1, <2>2, NoneCirculates
<1>. QED  BY <1>1, <1>2

LEMMA InputsCirculate ==
    ASSUME NEW inputs, NEW terms, NEW a, NEW i,
           \A t \in DOMAIN inputs : t.account = terms.authorizer /\ t.instrumentId = terms.instrumentId
    PROVE  circulating(a, i, inputs)
              = IF a = terms.authorizer /\ i = terms.instrumentId THEN bagTotal(inputs) ELSE 0
<1> DEFINE R == {t \in DOMAIN inputs : t.account = a /\ t.instrumentId = i}
           g == [t \in DOMAIN inputs |-> inputs[t] * t.amount]
<1>1. circulating(a, i, inputs) = SumFunctionOnSet(g, R)
  BY DEF circulating
<1>2. bagTotal(inputs) = SumFunctionOnSet(g, DOMAIN inputs)
  BY DEF bagTotal, SumFunction
<1>3. CASE a = terms.authorizer /\ i = terms.instrumentId
  <2>1. R = DOMAIN inputs
    BY <1>3
  <2>. QED  BY <1>1, <1>2, <1>3, <2>1
<1>4. CASE ~(a = terms.authorizer /\ i = terms.instrumentId)
  <2>1. R = {}
    BY <1>4
  <2>2. SumFunctionOnSet(g, {}) = 0
    BY SumEmpty
  <2>. QED  BY <1>1, <1>4, <2>1, <2>2
<1>. QED  BY <1>3, <1>4

LEMMA IssuedCirculates ==
    ASSUME NEW terms \in LockTerms, NEW legs \in Seq(PaidLeg)
    PROVE  /\ IsABag(issued(terms, legs)) /\ DOMAIN issued(terms, legs) \subseteq Token
           /\ IsFiniteSet(DOMAIN issued(terms, legs))
           /\ \A a, i : circulating(a, i, issued(terms, legs))
                 = IF i = terms.instrumentId THEN paidTo(legs, a) ELSE 0
<1> DEFINE S == DOMAIN legs
           class == [j \in S |-> token(terms, legs[j].receiver, legs[j].amount)]
           C == {class[j] : j \in S}
           bag == [t \in C |-> Cardinality({j \in S : class[j] = t})]
<1>1. issued(terms, legs) = bag
  BY DEF issued
<1>2. IsFiniteSet(S) /\ IsFiniteSet(C)
  <2>1. S = 1 .. Len(legs) /\ Len(legs) \in Nat
    OBVIOUS
  <2>2. IsFiniteSet(S)
    BY <2>1, FS_Interval
  <2>3. class \in Surjection(S, C)
    BY DEF Surjection
  <2>. HIDE DEF S, C, class
  <2>. QED  BY <2>2, <2>3, FS_Surjection DEF ExistsSurjection
<1>3. IsABag(bag) /\ DOMAIN bag = C /\ C \subseteq Token
  <2>1. IsABag(issued(terms, legs)) /\ DOMAIN issued(terms, legs) \subseteq Token
    BY IssuedType
  <2>. QED  BY <1>1, <2>1
<1>4. ASSUME NEW a, NEW i
      PROVE  circulating(a, i, bag) = IF i = terms.instrumentId THEN paidTo(legs, a) ELSE 0
  <2> DEFINE w == [t \in C |-> worth(a, i, t)]
             byClass == [t \in C |-> Cardinality({j \in S : class[j] = t}) * w[t]]
             byIndex == [j \in S |-> w[class[j]]]
             amounts == [j \in S |-> legs[j].amount]
             R == {j \in S : legs[j].receiver = a}
  <2>1. \A t \in C : w[t] \in Int
    <3>1. \A t \in C : worth(a, i, t) \in Int
      <4>. HIDE DEF C, bag
      <4>. QED  BY <1>3, TokenAmount
    <3>. HIDE DEF C
    <3>. QED  BY <3>1
  <2>2. circulating(a, i, bag) = SumFunctionOnSet(byClass, C)
    <3> DEFINE f == [t \in C |-> copiesOf(bag, t) * worth(a, i, t)]
    <3>1. f = byClass
      BY <1>3 DEF copiesOf
    <3>2. circulating(a, i, bag) = SumFunctionOnSet(f, C)
      <4>. HIDE DEF bag, C
      <4>. QED  BY <1>2, <1>3, CirculatingOver
    <3>. QED  BY <3>1, <3>2
  <2>3. SumFunctionOnSet(byClass, C) = SumFunctionOnSet(byIndex, S)
    <3>1. C = {class[j] : j \in S}
      OBVIOUS
    <3>. HIDE DEF S, class, C, w
    <3>. QED  BY <1>2, <2>1, <3>1, SumClasses
  <2>4. /\ \A j \in S : amounts[j] \in Int /\ legs[j].amount \in Int
        /\ \A j \in S : byIndex[j] = IF j \in R /\ i = terms.instrumentId THEN amounts[j] ELSE 0
    <3>1. \A j \in S : legs[j] \in PaidLeg
      OBVIOUS
    <3>2. \A j \in S : amounts[j] \in Int /\ legs[j].amount \in Int
      BY <3>1, PolicyAssumption DEF PaidLeg
    <3>3. \A j \in S : byIndex[j] = worth(a, i, class[j])
      OBVIOUS
    <3>. QED  BY <3>2, <3>3 DEF worth, token
  <2>5. paidTo(legs, a) = SumFunctionOnSet(amounts, R)
    BY DEF paidTo
  <2>6. S \intersect R = R /\ R \subseteq S /\ IsFiniteSet(R)
    BY <1>2, FS_Subset
  <2>. HIDE DEF S, C, class, w, byClass, byIndex, amounts, R
  <2>7. CASE i = terms.instrumentId
    <3>1. (\A j \in S : byIndex[j] \in Int) /\ (\A j \in S : j \notin R => byIndex[j] = 0)
      BY <2>4, <2>7
    <3>2. SumFunctionOnSet(byIndex, S) = SumFunctionOnSet(byIndex, S \intersect R)
      BY <1>2, <3>1, SumSupport
    <3>3. \A j \in R : byIndex[j] \in Int /\ byIndex[j] = amounts[j]
      BY <2>4, <2>6, <2>7
    <3>4. SumFunctionOnSet(byIndex, R) = SumFunctionOnSet(amounts, R)
      BY <2>6, <3>3, SumAgree
    <3>. QED  BY <2>2, <2>3, <2>5, <2>6, <2>7, <3>2, <3>4
  <2>8. CASE i # terms.instrumentId
    <3> DEFINE E == {}
    <3>1. (\A j \in S : byIndex[j] \in Int) /\ (\A j \in S : j \notin E => byIndex[j] = 0)
      BY <2>4, <2>8
    <3>2. S \intersect E = {}
      OBVIOUS
    <3>. HIDE DEF E
    <3>3. SumFunctionOnSet(byIndex, S) = SumFunctionOnSet(byIndex, S \intersect E)
      BY <1>2, <3>1, SumSupport
    <3>4. SumFunctionOnSet(byIndex, {}) = 0
      BY SumEmpty
    <3>. QED  BY <2>2, <2>3, <2>8, <3>2, <3>3, <3>4
  <2>. QED  BY <2>7, <2>8
<1>5. \A a, i : circulating(a, i, bag) = IF i = terms.instrumentId THEN paidTo(legs, a) ELSE 0
  BY <1>4
<1>6. IsABag(bag) /\ DOMAIN bag \subseteq Token /\ IsFiniteSet(DOMAIN bag)
  BY <1>2, <1>3
<1>. HIDE DEF bag
<1>. QED  BY <1>1, <1>5, <1>6

LEMMA PaidType ==
    ASSUME NEW legs \in Seq(PaidLeg), NEW a
    PROVE  /\ paidTo(legs, a) \in Nat
           /\ a \notin {leg.receiver : leg \in ToSet(legs)} => paidTo(legs, a) = 0
<1> DEFINE amounts == [j \in DOMAIN legs |-> legs[j].amount]
           R == {j \in DOMAIN legs : legs[j].receiver = a}
<1>1. DOMAIN legs = 1 .. Len(legs) /\ Len(legs) \in Nat /\ \A j \in DOMAIN legs : legs[j] \in PaidLeg
  OBVIOUS
<1>2. \A j \in R : amounts[j] \in Nat
  BY <1>1, PolicyAssumption DEF PaidLeg
<1>3. IsFiniteSet(R)
  <2>1. IsFiniteSet(DOMAIN legs) /\ R \in SUBSET DOMAIN legs
    BY <1>1, FS_Interval
  <2>. HIDE DEF R
  <2>. QED  BY <2>1, FS_Subset
<1>4. a \notin {leg.receiver : leg \in ToSet(legs)} => R = {}
  BY DEF ToSet
<1>5. paidTo(legs, a) = SumFunctionOnSet(amounts, R)
  BY DEF paidTo
<1>. HIDE DEF amounts, R
<1>6. SumFunctionOnSet(amounts, R) \in Nat
  BY <1>2, <1>3, SumNat
<1>7. SumFunctionOnSet(amounts, {}) = 0
  BY SumEmpty
<1>. QED  BY <1>4, <1>5, <1>6, <1>7

\* A holding is locked, and a holding is archived.
LEMMA HoldingAdded ==
    ASSUME NEW H, IsFiniteSet(H), H \subseteq LockedHolding, NEW h \in LockedHolding, h \notin H
    PROVE  /\ IsFiniteSet(H \union {h})
           /\ \A a, i : /\ lockedIn(a, i, H) \in Int
                        /\ lockedIn(a, i, H \union {h}) = lockedIn(a, i, H)
                             + IF h.terms.authorizer = a /\ h.terms.instrumentId = i
                               THEN h.terms.amount ELSE 0
<1> DEFINE J == H \union {h}
<1>1. IsFiniteSet(J)
  BY FS_AddElement
<1>2. \A g \in J : g.terms.amount \in Int
  BY PolicyAssumption DEF LockedHolding, LockedTerms, LockTerms, Decimal
<1>3. ASSUME NEW a, NEW i
      PROVE  /\ lockedIn(a, i, H) \in Int
             /\ lockedIn(a, i, J) = lockedIn(a, i, H)
                  + IF h.terms.authorizer = a /\ h.terms.instrumentId = i THEN h.terms.amount ELSE 0
  <2> DEFINE f == [g \in H |-> g.terms.amount]
             e == [g \in J |-> g.terms.amount]
             R == {g \in H : g.terms.authorizer = a /\ g.terms.instrumentId = i}
             Q == {g \in J : g.terms.authorizer = a /\ g.terms.instrumentId = i}
  <2>1. lockedIn(a, i, H) = SumFunctionOnSet(f, R) /\ lockedIn(a, i, J) = SumFunctionOnSet(e, Q)
    BY DEF lockedIn
  <2>2. IsFiniteSet(R) /\ IsFiniteSet(Q)
    BY <1>1, FS_Subset
  <2>3. /\ \A g \in R : e[g] \in Int /\ e[g] = f[g]
        /\ \A g \in R : f[g] \in Int
        /\ \A g \in Q : e[g] \in Int
        /\ e[h] = h.terms.amount
    BY <1>2
  <2>4. IF h.terms.authorizer = a /\ h.terms.instrumentId = i
        THEN h \in Q /\ Q \ {h} = R ELSE Q = R
    OBVIOUS
  <2>. HIDE DEF e, f, R, Q
  <2>5. SumFunctionOnSet(e, R) = SumFunctionOnSet(f, R)
    BY <2>2, <2>3, SumAgree
  <2>6. SumFunctionOnSet(f, R) \in Int
    BY <2>2, <2>3, SumElement
  <2>7. \A g \in Q : SumFunctionOnSet(e, Q) = e[g] + SumFunctionOnSet(e, Q \ {g})
    BY <2>2, <2>3, SumElement
  <2>8. h.terms.amount \in Int
    BY <1>2
  <2>9. CASE h.terms.authorizer = a /\ h.terms.instrumentId = i
    <3>1. SumFunctionOnSet(e, Q) = h.terms.amount + SumFunctionOnSet(f, R)
      BY <2>3, <2>4, <2>5, <2>7, <2>9
    <3>. QED  BY <2>1, <2>6, <2>8, <2>9, <3>1
  <2>10. CASE ~(h.terms.authorizer = a /\ h.terms.instrumentId = i)
    <3>1. SumFunctionOnSet(e, Q) = SumFunctionOnSet(f, R) + 0
      BY <2>4, <2>5, <2>6, <2>10
    <3>. QED  BY <2>1, <2>6, <2>10, <3>1
  <2>. QED  BY <2>9, <2>10
<1>. QED  BY <1>1, <1>3

LEMMA HoldingArchived ==
    ASSUME NEW H, IsFiniteSet(H), H \subseteq LockedHolding, NEW h \in H
    PROVE  /\ IsFiniteSet(H \ {h})
           /\ \A a, i : /\ lockedIn(a, i, H \ {h}) \in Int
                        /\ lockedIn(a, i, H) = lockedIn(a, i, H \ {h})
                             + IF h.terms.authorizer = a /\ h.terms.instrumentId = i
                               THEN h.terms.amount ELSE 0
<1> DEFINE G == H \ {h}
<1>1. IsFiniteSet(G) /\ G \subseteq LockedHolding /\ h \in LockedHolding /\ h \notin G /\ G \union {h} = H
  BY FS_RemoveElement
<1>. HIDE DEF G
<1>2. \A a, i : /\ lockedIn(a, i, G) \in Int
                /\ lockedIn(a, i, G \union {h}) = lockedIn(a, i, G)
                     + IF h.terms.authorizer = a /\ h.terms.instrumentId = i
                       THEN h.terms.amount ELSE 0
  BY <1>1, HoldingAdded
<1>. QED  BY <1>1, <1>2 DEF G

-------------------------------------------------------------------------------
(* The books reconcile with the event log. *)

\* The ledger stays finite, the event log is well typed, and the books reconcile.
FiniteOK == IsFiniteSet(DOMAIN tokens) /\ IsFiniteSet(holdings)

LogTypesOK ==
    /\ reported \in [Accounts \X Instruments -> Int]
    /\ IsABag(legSides) /\ DOMAIN legSides \subseteq TransferLegSide

MoneyInv == IInv /\ FiniteOK /\ LogTypesOK /\ ReportsReconcile

balance(a, i) == circulating(a, i, tokens) + lockedIn(a, i, holdings)

\* n, in the book of the authorizer of the terms.
forAuthorizer(a, i, terms, n) == IF a = terms.authorizer /\ i = terms.instrumentId THEN n ELSE 0

LEMMA LockedInType ==
    ASSUME NEW H, IsFiniteSet(H), H \subseteq LockedHolding
    PROVE  \A a, i : lockedIn(a, i, H) \in Int
<1> SUFFICES ASSUME NEW a, NEW i PROVE lockedIn(a, i, H) \in Int
  OBVIOUS
<1> DEFINE f == [g \in H |-> g.terms.amount]
           R == {g \in H : g.terms.authorizer = a /\ g.terms.instrumentId = i}
<1>1. \A g \in R : f[g] \in Int
  BY PolicyAssumption DEF LockedHolding, LockedTerms, LockTerms, Decimal
<1>2. IsFiniteSet(R)
  BY FS_Subset
<1>3. lockedIn(a, i, H) = SumFunctionOnSet(f, R)
  BY DEF lockedIn
<1>. HIDE DEF f, R
<1>. QED  BY <1>1, <1>2, <1>3, SumElement

LEMMA BalanceType ==
    ASSUME IInv, FiniteOK
    PROVE  \A a, i : /\ circulating(a, i, tokens) \in Int /\ lockedIn(a, i, holdings) \in Int
                     /\ circulating(a, i, InitialTokens) \in Int
<1>1. \A a, i : circulating(a, i, tokens) \in Int
  BY CirculatingType DEF IInv, FundsOK, FiniteOK
<1>2. \A a, i : circulating(a, i, InitialTokens) \in Int
  BY CirculatingType, TestTokenAssumption
<1>3. \A a, i : lockedIn(a, i, holdings) \in Int
  BY LockedInType DEF IInv, FundsOK, FiniteOK
<1>. QED  BY <1>1, <1>2, <1>3

\* A holding is locked for a factory, archived, or replaced.
LEMMA HoldingLocked ==
    ASSUME IInv, FiniteOK, NEW f \in factories, NEW s, LockOK(s), s.lockId = f.lockId,
           s.holdingCid.lockId = s.lockId, holdings' = holdings \union {backing(s)}
    PROVE  /\ IsFiniteSet(holdings')
           /\ \A a, i : lockedIn(a, i, holdings)'
                            = lockedIn(a, i, holdings) + forAuthorizer(a, i, s.terms, s.terms.amount)
<1> DEFINE h == backing(s)
<1>1. h \in LockedHolding /\ h.terms = s.terms
  BY StateType DEF LockOK, backing
<1>2. h \notin holdings
  BY DEF IInv, BackingMatches, backing
<1>3. IsFiniteSet(holdings) /\ holdings \subseteq LockedHolding
  BY DEF FiniteOK, IInv, FundsOK
<1>. HIDE DEF h
<1>4. /\ IsFiniteSet(holdings \union {h})
      /\ \A a, i : /\ lockedIn(a, i, holdings) \in Int
                   /\ lockedIn(a, i, holdings \union {h}) = lockedIn(a, i, holdings)
                        + IF h.terms.authorizer = a /\ h.terms.instrumentId = i
                          THEN h.terms.amount ELSE 0
  BY <1>1, <1>2, <1>3, HoldingAdded
<1>5. \A a, i : lockedIn(a, i, holdings)' = lockedIn(a, i, holdings \union {h})
  BY DEF h
<1>6. holdings' = holdings \union {h}
  BY DEF h
<1>. QED  BY <1>1, <1>4, <1>5, <1>6 DEF forAuthorizer

LEMMA HoldingFreed ==
    ASSUME IInv, FiniteOK, NEW s \in live
    PROVE  LET H == withoutBacking(s)
           IN  /\ IsFiniteSet(H) /\ H \subseteq LockedHolding
               /\ \A a, i : /\ lockedIn(a, i, H) \in Int
                            /\ lockedIn(a, i, holdings)
                                 = lockedIn(a, i, H) + forAuthorizer(a, i, s.terms, s.terms.amount)
<1> DEFINE h == backing(s)
           H == holdings \ {h}
<1>1. h \in holdings /\ h.terms = s.terms
  BY DEF IInv, BackingMatches, backing
<1>2. withoutBacking(s) = H
  <2>1. ASSUME NEW g \in holdings, g.cid = s.holdingCid PROVE g = h
    <3>1. PICK t \in live : g = backing(t)
      BY DEF IInv, BackingMatches
    <3>2. t.lockId = s.lockId
      BY <2>1, <3>1 DEF IInv, BackingMatches, backing
    <3>. QED  BY <3>1, <3>2 DEF IInv, BackingMatches
  <2>. QED  BY <2>1 DEF withoutBacking, backing
<1>3. IsFiniteSet(holdings) /\ holdings \subseteq LockedHolding
  BY DEF FiniteOK, IInv, FundsOK
<1>4. /\ IsFiniteSet(holdings \ {h})
      /\ \A a, i : /\ lockedIn(a, i, holdings \ {h}) \in Int
                   /\ lockedIn(a, i, holdings) = lockedIn(a, i, holdings \ {h})
                        + IF h.terms.authorizer = a /\ h.terms.instrumentId = i
                          THEN h.terms.amount ELSE 0
  <2>. HIDE DEF h
  <2>. QED  BY <1>1, <1>3, HoldingArchived
<1>5. H \subseteq LockedHolding
  BY <1>3
<1>. HIDE DEF h
<1>6. /\ IsFiniteSet(H)
      /\ \A a, i : /\ lockedIn(a, i, H) \in Int
                   /\ lockedIn(a, i, holdings)
                        = lockedIn(a, i, H) + forAuthorizer(a, i, s.terms, s.terms.amount)
  BY <1>1, <1>4 DEF forAuthorizer
<1>. QED  BY <1>2, <1>5, <1>6

LEMMA HoldingReplaced ==
    ASSUME IInv, FiniteOK, NEW s \in live, NEW t, LockOK(t), t.lockId = s.lockId,
           t.holdingCid.lockId = t.lockId, holdings' = withoutBacking(s) \union {backing(t)}
    PROVE  /\ IsFiniteSet(holdings')
           /\ \A a, i : lockedIn(a, i, holdings)'
                            = (lockedIn(a, i, holdings) - forAuthorizer(a, i, s.terms, s.terms.amount))
                              + forAuthorizer(a, i, t.terms, t.terms.amount)
<1> DEFINE H == withoutBacking(s)
           h == backing(t)
<1>1. /\ IsFiniteSet(H) /\ H \subseteq LockedHolding
      /\ \A a, i : /\ lockedIn(a, i, H) \in Int
                   /\ lockedIn(a, i, holdings)
                        = lockedIn(a, i, H) + forAuthorizer(a, i, s.terms, s.terms.amount)
  BY HoldingFreed
<1>2. h \in LockedHolding /\ h.terms = t.terms
  BY StateType DEF LockOK, backing
<1>3. h \notin H
  <2> SUFFICES ASSUME h \in H PROVE FALSE
    OBVIOUS
  <2>1. PICK u \in live \ {s} : h = backing(u)
    BY OtherBackings DEF IInv
  <2>. QED  BY <2>1 DEF IInv, BackingMatches, backing
<1>4. s.terms.amount \in Int /\ t.terms.amount \in Int
  <2>1. s \in State /\ t \in State
    BY DEF IInv, LocksOK, ActiveOK, PendingOK, LockOK, live
  <2>. QED  BY <2>1, StateType, PolicyAssumption
<1>. HIDE DEF H, h
<1>5. /\ IsFiniteSet(H \union {h})
      /\ \A a, i : /\ lockedIn(a, i, H) \in Int
                   /\ lockedIn(a, i, H \union {h}) = lockedIn(a, i, H)
                        + IF h.terms.authorizer = a /\ h.terms.instrumentId = i
                          THEN h.terms.amount ELSE 0
  BY <1>1, <1>2, <1>3, HoldingAdded
<1>6. holdings' = H \union {h} /\ \A a, i : lockedIn(a, i, holdings)' = lockedIn(a, i, H \union {h})
  BY DEF H, h
<1>7. ASSUME NEW a, NEW i
      PROVE  lockedIn(a, i, H \union {h})
                = (lockedIn(a, i, holdings) - forAuthorizer(a, i, s.terms, s.terms.amount))
                  + forAuthorizer(a, i, t.terms, t.terms.amount)
  <2>1. /\ forAuthorizer(a, i, s.terms, s.terms.amount) \in Int
        /\ forAuthorizer(a, i, t.terms, t.terms.amount) \in Int
    BY <1>4 DEF forAuthorizer
  <2>2. lockedIn(a, i, H \union {h})
            = lockedIn(a, i, H) + forAuthorizer(a, i, t.terms, t.terms.amount)
    BY <1>2, <1>5 DEF forAuthorizer
  <2>3. /\ lockedIn(a, i, H) \in Int
        /\ lockedIn(a, i, holdings)
             = lockedIn(a, i, H) + forAuthorizer(a, i, s.terms, s.terms.amount)
    BY <1>1
  <2>. QED  BY <2>1, <2>2, <2>3
<1>. QED  BY <1>5, <1>6, <1>7

\* A report of what each account has gained keeps the books reconciled.
LEMMA Reported ==
    ASSUME MoneyInv, NEW terms, NEW change, report(terms, change),
           \A a \in DOMAIN change : change[a] \in Int,
           \A a, i : balance(a, i)' = balance(a, i)
                        + IF i = terms.instrumentId /\ a \in DOMAIN change THEN change[a] ELSE 0
    PROVE  reported' \in [Accounts \X Instruments -> Int] /\ ReportsReconcile'
<1>1. DOMAIN reported = Accounts \X Instruments
  BY DEF MoneyInv, LogTypesOK
<1>2. reported' = [key \in Accounts \X Instruments |->
          IF key[2] = terms.instrumentId /\ key[1] \in DOMAIN change
          THEN reported[key] + change[key[1]] ELSE reported[key]]
  BY <1>1 DEF report
<1>3. \A key \in Accounts \X Instruments : reported[key] \in Int
  BY DEF MoneyInv, LogTypesOK
<1>4. reported' \in [Accounts \X Instruments -> Int]
  BY <1>2, <1>3
<1>5. ASSUME NEW a \in Accounts, NEW i \in Instruments
      PROVE  reported'[<<a, i>>] = balance(a, i)' - circulating(a, i, InitialTokens)
  <2>1. reported[<<a, i>>] = balance(a, i) - circulating(a, i, InitialTokens)
    BY DEF MoneyInv, ReportsReconcile, balance
  <2>2. balance(a, i) \in Int /\ circulating(a, i, InitialTokens) \in Int
    BY BalanceType DEF MoneyInv, balance
  <2>3. reported'[<<a, i>>] = IF i = terms.instrumentId /\ a \in DOMAIN change
                              THEN reported[<<a, i>>] + change[a] ELSE reported[<<a, i>>]
    BY <1>2
  <2>. QED  BY <2>1, <2>2, <2>3
<1>6. ReportsReconcile'
  BY <1>5 DEF ReportsReconcile, balance
<1>. QED  BY <1>4, <1>6

LEMMA OwnReported ==
    ASSUME MoneyInv, NEW terms, NEW amount \in Int, reportOwn(terms, amount),
           \A a, i : balance(a, i)' = balance(a, i) + forAuthorizer(a, i, terms, amount)
    PROVE  reported' \in [Accounts \X Instruments -> Int] /\ ReportsReconcile'
<1> DEFINE change == [a \in {terms.authorizer} |-> amount]
<1>1. report(terms, change) /\ \A a \in DOMAIN change : change[a] \in Int
  BY DEF reportOwn
<1>2. \A a, i : forAuthorizer(a, i, terms, amount)
                   = IF i = terms.instrumentId /\ a \in DOMAIN change THEN change[a] ELSE 0
  BY DEF forAuthorizer
<1>. HIDE DEF change
<1>3. \A a, i : balance(a, i)' = balance(a, i)
                        + IF i = terms.instrumentId /\ a \in DOMAIN change THEN change[a] ELSE 0
  BY <1>2
<1>. QED  BY <1>1, <1>3, Reported

LEMMA SidesType ==
    ASSUME NEW s \in State, NEW ruleId \in Text, NEW legs \in Seq(PaidLeg)
    PROVE  IsABag(enactSides(s, ruleId, legs)) /\ DOMAIN enactSides(s, ruleId, legs) \subseteq TransferLegSide
<1> DEFINE J == toReceivers(s, legs)
           side(i, direction, account, other) ==
              [transferLegId |-> transferLegId(s, ruleId, legs[i]), side |-> direction,
               account |-> account, otherside |-> other,
               amount |-> legs[i].amount, instrumentId |-> s.terms.instrumentId]
           outgoing(i) == side(i, "Sender", s.terms.authorizer, legs[i].receiver)
           incoming(i) == side(i, "Receiver", legs[i].receiver, s.terms.authorizer)
           sides == {outgoing(i) : i \in J} \union {incoming(i) : i \in J}
           of(e) == {i \in J : e \in {outgoing(i), incoming(i)}}
<1>1. enactSides(s, ruleId, legs) = [e \in sides |-> Cardinality(of(e))]
  BY DEF enactSides
<1>2. IsFiniteSet(J) /\ J \subseteq DOMAIN legs
  <2>1. DOMAIN legs = 1 .. Len(legs) /\ Len(legs) \in Nat
    OBVIOUS
  <2>2. IsFiniteSet(DOMAIN legs) /\ J \in SUBSET DOMAIN legs
    BY <2>1, FS_Interval DEF toReceivers
  <2>. HIDE DEF J
  <2>. QED  BY <2>2, FS_Subset
<1>3. ASSUME NEW i \in J, NEW direction \in {"Sender", "Receiver"}, NEW account \in Accounts, NEW other \in Accounts
      PROVE  side(i, direction, account, other) \in TransferLegSide
  <2>1. legs[i] \in PaidLeg
    BY <1>2
  <2>2. legs[i].amount \in Decimal /\ legs[i].legId \in Text
    BY <2>1, PolicyAssumption DEF PaidLeg, Decimal
  <2>3. s.lockId \in Text /\ s.terms.instrumentId \in InstrumentId
    BY StateType
  <2>4. transferLegId(s, ruleId, legs[i]) \in Text
    <3> DEFINE g == legs[i].legId
               l == s.lockId
    <3>1. l \in Seq(Fragment) /\ ruleId \in Seq(Fragment) /\ g \in Seq(Fragment) /\ <<"/">> \in Seq(Fragment)
      BY <2>2, <2>3, PolicyAssumption DEF Text
    <3>. HIDE DEF g, l
    <3>2. l \o <<"/">> \in Seq(Fragment)
      BY <3>1
    <3>3. (l \o <<"/">>) \o ruleId \in Seq(Fragment)
      BY <3>1, <3>2
    <3>4. ((l \o <<"/">>) \o ruleId) \o <<"/">> \in Seq(Fragment)
      BY <3>1, <3>3
    <3>5. (((l \o <<"/">>) \o ruleId) \o <<"/">>) \o g \in Seq(Fragment)
      BY <3>1, <3>4
    <3>. QED  BY <3>5 DEF transferLegId, Text, g, l
  <2>. QED  BY <2>2, <2>3, <2>4 DEF TransferLegSide
<1>4. sides \subseteq TransferLegSide
  <2>1. s.terms.authorizer \in Accounts
    BY StateType
  <2>2. \A i \in J : legs[i].receiver \in Accounts
    <3>1. \A i \in J : legs[i] \in PaidLeg
      BY <1>2
    <3>. QED  BY <3>1 DEF PaidLeg
  <2>. HIDE DEF J, side
  <2>. QED  BY <1>3, <2>1, <2>2
<1>5. ASSUME NEW e \in sides PROVE Cardinality(of(e)) \in {n \in Nat : n > 0}
  <2>1. of(e) # {} /\ of(e) \in SUBSET J
    OBVIOUS
  <2>. HIDE DEF of, J
  <2>2. IsFiniteSet(of(e))
    BY <1>2, <2>1, FS_Subset
  <2>. QED  BY <2>1, <2>2, FS_CardinalityType, FS_EmptySet
<1>. HIDE DEF sides, of
<1>6. [e \in sides |-> Cardinality(of(e))] \in [sides -> {n \in Nat : n > 0}]
  BY <1>5
<1>. QED  BY <1>1, <1>4, <1>6 DEF IsABag

\* The steps.  Each adds up what it does to the unlocked tokens and to the holdings.
LEMMA LockReconciles ==
    ASSUME MoneyInv, NEW f \in factories, NEW terms \in ProposedTerms, NEW inputs, NEW actors,
           Lock(f, terms, inputs, actors)
    PROVE  /\ FiniteOK' /\ LogTypesOK' /\ ReportsReconcile'
           /\ \A a, i : circulating(a, i, tokens')
                  = circulating(a, i, tokens) + forAuthorizer(a, i, terms, 0 - terms.amount)
<1> DEFINE s       == locked(f, terms, actors)
           paidIn  == bagTotal(inputs)
           change  == paidIn - terms.amount
           net     == (IF change > 0 THEN change ELSE 0) + s.terms.amount - paidIn
<1>1. IInv /\ FiniteOK /\ lockChecks(f, terms, inputs, actors)
  BY DEF MoneyInv, Lock
<1>2. /\ terms \in LockTerms /\ terms.amount > 0 /\ terms.amount \in Int
      /\ IsABag(inputs) /\ paidIn \in Int /\ paidIn <= MaxDecimal /\ paidIn >= terms.amount
      /\ inputs \sqsubseteq tokens
      /\ \A t \in DOMAIN inputs : t.account = terms.authorizer /\ t.instrumentId = terms.instrumentId
  BY <1>1, TestTokenAssumption, ValidTerms DEF lockChecks, fundedBy, LockTerms, Decimal
<1>3. LockOK(s) /\ s.lockId = f.lockId /\ s.holdingCid.lockId = s.lockId /\ s.terms = terms
  <2>1. f \in Factories
    BY <1>1 DEF IInv, FundsOK
  <2>. QED  BY <1>1, <2>1, LockedOK DEF locked, mkState
<1>4. /\ holdings' = holdings \union {backing(s)}
      /\ tokens' = (tokens (-) inputs) (+) issueChange(terms, change)
      /\ reportOwn(terms, net) /\ UNCHANGED legSides
  BY DEF Lock
<1>5. change \in Int /\ change <= MaxDecimal /\ change >= 0 /\ net \in Int /\ net = 0
  <2>. HIDE DEF paidIn, s
  <2>. QED  BY <1>2, <1>3, PolicyAssumption
<1>. HIDE DEF s, change, net, paidIn
<1>6. /\ IsABag(tokens (-) inputs) /\ DOMAIN (tokens (-) inputs) \subseteq Token
      /\ IsFiniteSet(DOMAIN (tokens (-) inputs))
      /\ DOMAIN inputs \subseteq Token /\ IsFiniteSet(DOMAIN inputs)
      /\ \A a, i : circulating(a, i, tokens (-) inputs)
                       = circulating(a, i, tokens) - circulating(a, i, inputs)
  BY <1>1, <1>2, BagsTaken DEF IInv, FundsOK, FiniteOK
<1>7. /\ IsABag(issueChange(terms, change)) /\ DOMAIN issueChange(terms, change) \subseteq Token
      /\ IsFiniteSet(DOMAIN issueChange(terms, change))
      /\ \A a, i : circulating(a, i, issueChange(terms, change))
            = IF a = terms.authorizer /\ i = terms.instrumentId /\ change > 0 THEN change ELSE 0
  BY <1>2, <1>5, ChangeCirculates
<1>8. /\ IsFiniteSet(DOMAIN tokens')
      /\ \A a, i : circulating(a, i, tokens')
            = circulating(a, i, tokens (-) inputs) + circulating(a, i, issueChange(terms, change))
  <2> DEFINE u == tokens (-) inputs
             v == issueChange(terms, change)
  <2>. HIDE DEF u, v
  <2>1. IsABag(u) /\ DOMAIN u \subseteq Token /\ IsFiniteSet(DOMAIN u)
    BY <1>6 DEF u
  <2>2. IsABag(v) /\ DOMAIN v \subseteq Token /\ IsFiniteSet(DOMAIN v)
    BY <1>7 DEF v
  <2>3. IsFiniteSet(DOMAIN (u (+) v)) /\ \A a, i : circulating(a, i, u (+) v) = circulating(a, i, u) + circulating(a, i, v)
    BY <2>1, <2>2, BagsAdded
  <2>4. tokens' = u (+) v
    BY <1>4 DEF u, v
  <2>. QED  BY <2>3, <2>4 DEF u, v
<1>9. /\ IsFiniteSet(holdings')
      /\ \A a, i : lockedIn(a, i, holdings)'
                       = lockedIn(a, i, holdings) + forAuthorizer(a, i, terms, terms.amount)
  BY <1>1, <1>3, <1>4, HoldingLocked
<1>10. ASSUME NEW a, NEW i PROVE balance(a, i)' = balance(a, i) + forAuthorizer(a, i, terms, net)
  <2>1. circulating(a, i, inputs)
            = IF a = terms.authorizer /\ i = terms.instrumentId THEN paidIn ELSE 0
    BY <1>2, InputsCirculate DEF paidIn
  <2>2. circulating(a, i, tokens) \in Int /\ lockedIn(a, i, holdings) \in Int
    BY <1>1, BalanceType
  <2>3. balance(a, i)' = circulating(a, i, tokens') + lockedIn(a, i, holdings)'
    BY DEF balance
  <2>4. circulating(a, i, tokens')
            = (circulating(a, i, tokens) - circulating(a, i, inputs))
              + IF a = terms.authorizer /\ i = terms.instrumentId /\ change > 0 THEN change ELSE 0
    BY <1>6, <1>7, <1>8
  <2>5. lockedIn(a, i, holdings)' = lockedIn(a, i, holdings) + forAuthorizer(a, i, terms, terms.amount)
    BY <1>9
  <2>6. change = paidIn - terms.amount
    BY DEF change
  <2>. QED  BY <1>2, <1>5, <2>1, <2>2, <2>3, <2>4, <2>5, <2>6 DEF balance, forAuthorizer
<1>11. reported' \in [Accounts \X Instruments -> Int] /\ ReportsReconcile'
  BY <1>4, <1>5, <1>10, OwnReported
<1>12. ASSUME NEW a, NEW i
       PROVE  circulating(a, i, tokens')
                 = circulating(a, i, tokens) + forAuthorizer(a, i, terms, 0 - terms.amount)
  <2>1. circulating(a, i, inputs)
            = IF a = terms.authorizer /\ i = terms.instrumentId THEN paidIn ELSE 0
    BY <1>2, InputsCirculate DEF paidIn
  <2>2. circulating(a, i, tokens) \in Int
    BY <1>1, BalanceType
  <2>3. circulating(a, i, tokens')
            = (circulating(a, i, tokens) - circulating(a, i, inputs))
              + IF a = terms.authorizer /\ i = terms.instrumentId /\ change > 0 THEN change ELSE 0
    BY <1>6, <1>7, <1>8
  <2>4. change = paidIn - terms.amount
    BY DEF change
  <2>. QED  BY <1>2, <1>5, <2>1, <2>2, <2>3, <2>4 DEF forAuthorizer
<1>. QED  BY <1>4, <1>8, <1>9, <1>11, <1>12 DEF FiniteOK, LogTypesOK, MoneyInv

LEMMA AmendReconciles ==
    ASSUME MoneyInv, NEW s \in locks, NEW newTerms \in ProposedTerms, NEW inputs, NEW actors,
           Amend(s, newTerms, inputs, actors)
    PROVE  /\ FiniteOK' /\ LogTypesOK' /\ ReportsReconcile'
           /\ \A a, i : circulating(a, i, tokens')
                  = circulating(a, i, tokens)
                      + forAuthorizer(a, i, s.terms, s.terms.amount - newTerms.amount)
<1> DEFINE t      == amended(s, newTerms, actors)
           paidIn == bagTotal(inputs)
           sum    == s.terms.amount + paidIn
           change == sum - newTerms.amount
           net    == (IF change > 0 THEN change ELSE 0) + newTerms.amount - s.terms.amount - paidIn
<1>1. IInv /\ FiniteOK /\ amendChecks(s, newTerms, inputs, actors) /\ LockOK(s) /\ s \in live /\ s \in State
  BY DEF MoneyInv, Amend, IInv, LocksOK, ActiveOK, LockOK, live
<1>2. /\ newTerms \in LockTerms /\ newTerms.amount > 0 /\ newTerms.amount \in Int
      /\ IsABag(inputs) /\ inputs \sqsubseteq tokens
      /\ \A u \in DOMAIN inputs : u.account = newTerms.authorizer /\ u.instrumentId = newTerms.instrumentId
      /\ newTerms.authorizer = s.terms.authorizer /\ newTerms.instrumentId = s.terms.instrumentId
  BY <1>1, TestTokenAssumption, ValidTerms DEF amendChecks, fundedBy, LockTerms, Decimal
<1>3. LockOK(t) /\ t.lockId = s.lockId /\ t.holdingCid.lockId = t.lockId /\ t.terms = newTerms
  BY <1>1, AmendedOK DEF amended, mkState
<1>4. /\ holdings' = withoutBacking(s) \union {backing(t)}
      /\ tokens' = (tokens (-) inputs) (+) issueChange(newTerms, change)
      /\ reportOwn(s.terms, net) /\ UNCHANGED legSides
  BY DEF Amend
<1>. HIDE DEF t
<1>5. /\ IsABag(tokens (-) inputs) /\ DOMAIN (tokens (-) inputs) \subseteq Token
      /\ IsFiniteSet(DOMAIN (tokens (-) inputs))
      /\ DOMAIN inputs \subseteq Token /\ IsFiniteSet(DOMAIN inputs)
      /\ \A a, i : circulating(a, i, tokens (-) inputs)
                       = circulating(a, i, tokens) - circulating(a, i, inputs)
  BY <1>1, <1>2, BagsTaken DEF IInv, FundsOK, FiniteOK
<1>6. \A a, i : circulating(a, i, inputs) = forAuthorizer(a, i, s.terms, paidIn)
  BY <1>2, InputsCirculate DEF forAuthorizer
<1>7. s.terms.amount \in Int /\ paidIn \in Int
  <2>1. s.terms.amount \in Int
    BY <1>1, StateType
  <2>2. \A a, i : circulating(a, i, inputs) \in Int
    BY <1>2, <1>5, CirculatingType
  <2>. QED  BY <1>6, <2>1, <2>2 DEF forAuthorizer
<1>8. sum \in Decimal /\ sum >= newTerms.amount
  BY <1>1 DEF amendChecks
<1>9. change \in Int /\ change <= MaxDecimal /\ change >= 0 /\ net = 0
  <2>1. sum = s.terms.amount + paidIn
    OBVIOUS
  <2>2. sum \in Int /\ sum <= MaxDecimal
    BY <1>8, PolicyAssumption DEF Decimal
  <2>3. change = sum - newTerms.amount /\ net = (IF change > 0 THEN change ELSE 0) + newTerms.amount - s.terms.amount - paidIn
    OBVIOUS
  <2>. HIDE DEF sum, change, net, paidIn
  <2>. QED  BY <1>2, <1>7, <1>8, <2>1, <2>2, <2>3, PolicyAssumption
<1>10. change = (s.terms.amount + paidIn) - newTerms.amount
  OBVIOUS
<1>. HIDE DEF change, net, sum
<1>11. /\ IsABag(issueChange(newTerms, change)) /\ DOMAIN issueChange(newTerms, change) \subseteq Token
       /\ IsFiniteSet(DOMAIN issueChange(newTerms, change))
       /\ \A a, i : circulating(a, i, issueChange(newTerms, change))
             = IF a = newTerms.authorizer /\ i = newTerms.instrumentId /\ change > 0 THEN change ELSE 0
  BY <1>2, <1>9, ChangeCirculates
<1>12. /\ IsFiniteSet(DOMAIN tokens')
       /\ \A a, i : circulating(a, i, tokens')
            = circulating(a, i, tokens (-) inputs) + circulating(a, i, issueChange(newTerms, change))
  <2> DEFINE u == tokens (-) inputs
             v == issueChange(newTerms, change)
  <2>. HIDE DEF u, v
  <2>1. IsABag(u) /\ DOMAIN u \subseteq Token /\ IsFiniteSet(DOMAIN u)
    BY <1>5 DEF u
  <2>2. IsABag(v) /\ DOMAIN v \subseteq Token /\ IsFiniteSet(DOMAIN v)
    BY <1>11 DEF v
  <2>3. IsFiniteSet(DOMAIN (u (+) v)) /\ \A a, i : circulating(a, i, u (+) v) = circulating(a, i, u) + circulating(a, i, v)
    BY <2>1, <2>2, BagsAdded
  <2>4. tokens' = u (+) v
    BY <1>4 DEF u, v
  <2>. QED  BY <2>3, <2>4 DEF u, v
<1>13. /\ IsFiniteSet(holdings')
       /\ \A a, i : lockedIn(a, i, holdings)'
                       = (lockedIn(a, i, holdings) - forAuthorizer(a, i, s.terms, s.terms.amount))
                         + forAuthorizer(a, i, newTerms, newTerms.amount)
  BY <1>1, <1>3, <1>4, HoldingReplaced
<1>14. ASSUME NEW a, NEW i PROVE balance(a, i)' = balance(a, i) + forAuthorizer(a, i, s.terms, net)
  <2>1. circulating(a, i, inputs) = forAuthorizer(a, i, s.terms, paidIn)
    BY <1>6
  <2>2. circulating(a, i, tokens) \in Int /\ lockedIn(a, i, holdings) \in Int
    BY <1>1, BalanceType
  <2>3. balance(a, i)' = circulating(a, i, tokens') + lockedIn(a, i, holdings)'
    BY DEF balance
  <2>4. circulating(a, i, tokens')
            = (circulating(a, i, tokens) - circulating(a, i, inputs))
              + IF a = newTerms.authorizer /\ i = newTerms.instrumentId /\ change > 0 THEN change ELSE 0
    BY <1>5, <1>11, <1>12
  <2>5. lockedIn(a, i, holdings)' = (lockedIn(a, i, holdings) - forAuthorizer(a, i, s.terms, s.terms.amount))
                         + forAuthorizer(a, i, newTerms, newTerms.amount)
    BY <1>13
  <2>. HIDE DEF paidIn
  <2>. QED  BY <1>2, <1>7, <1>9, <1>10, <2>1, <2>2, <2>3, <2>4, <2>5 DEF balance, forAuthorizer
<1>15. reported' \in [Accounts \X Instruments -> Int] /\ ReportsReconcile'
  <2>1. reportOwn(s.terms, net) /\ net \in Int
    BY <1>4, <1>9
  <2>2. \A a, i : balance(a, i)' = balance(a, i) + forAuthorizer(a, i, s.terms, net)
    BY <1>14
  <2>. QED  BY <2>1, <2>2, OwnReported
<1>16. ASSUME NEW a, NEW i
       PROVE  circulating(a, i, tokens') = circulating(a, i, tokens)
                      + forAuthorizer(a, i, s.terms, s.terms.amount - newTerms.amount)
  <2>1. circulating(a, i, inputs) = forAuthorizer(a, i, s.terms, paidIn)
    BY <1>6
  <2>2. circulating(a, i, tokens) \in Int
    BY <1>1, BalanceType
  <2>3. circulating(a, i, tokens')
            = (circulating(a, i, tokens) - circulating(a, i, inputs))
              + IF a = newTerms.authorizer /\ i = newTerms.instrumentId /\ change > 0 THEN change ELSE 0
    BY <1>5, <1>11, <1>12
  <2>. HIDE DEF paidIn
  <2>. QED  BY <1>2, <1>7, <1>9, <1>10, <2>1, <2>2, <2>3 DEF forAuthorizer
<1>. QED  BY <1>4, <1>12, <1>13, <1>15, <1>16 DEF FiniteOK, LogTypesOK, MoneyInv

LEMMA AcceptReconciles ==
    ASSUME MoneyInv, NEW s \in instructions, NEW approver \in pending(s), NEW actors,
           Accept(s, approver, actors)
    PROVE  /\ FiniteOK' /\ LogTypesOK' /\ ReportsReconcile'
           /\ \A a, i : circulating(a, i, tokens')
                  = circulating(a, i, tokens)
<1> DEFINE t == acceptedBy(s, approver)
           net == t.terms.amount - s.terms.amount
<1>1. IInv /\ FiniteOK /\ LockOK(s) /\ s \in live /\ s \in State
  BY DEF MoneyInv, IInv, LocksOK, PendingOK, LockOK, live
<1>2. LockOK(t) /\ t.lockId = s.lockId /\ t.holdingCid.lockId = t.lockId /\ t.terms = s.terms
  BY <1>1, AcceptedOK DEF acceptedBy, mkState
<1>3. /\ holdings' = withoutBacking(s) \union {backing(t)}
      /\ tokens' = tokens /\ reportOwn(s.terms, net) /\ UNCHANGED legSides
  BY DEF Accept
<1>4. s.terms.amount \in Int /\ net = 0
  <2>1. s.terms.amount \in Int
    BY <1>1, StateType
  <2>. HIDE DEF t
  <2>. QED  BY <1>2, <2>1
<1>. HIDE DEF t, net
<1>5. /\ IsFiniteSet(holdings')
      /\ \A a, i : lockedIn(a, i, holdings)'
                       = (lockedIn(a, i, holdings) - forAuthorizer(a, i, s.terms, s.terms.amount))
                         + forAuthorizer(a, i, s.terms, s.terms.amount)
  BY <1>1, <1>2, <1>3, HoldingReplaced
<1>6. ASSUME NEW a, NEW i PROVE balance(a, i)' = balance(a, i) + forAuthorizer(a, i, s.terms, net)
  <2>1. circulating(a, i, tokens) \in Int /\ lockedIn(a, i, holdings) \in Int
    BY <1>1, BalanceType
  <2>2. balance(a, i)' = circulating(a, i, tokens) + lockedIn(a, i, holdings)'
    BY <1>3 DEF balance
  <2>3. lockedIn(a, i, holdings)' = (lockedIn(a, i, holdings) - forAuthorizer(a, i, s.terms, s.terms.amount))
                         + forAuthorizer(a, i, s.terms, s.terms.amount)
    BY <1>5
  <2>. QED  BY <1>4, <2>1, <2>2, <2>3 DEF balance, forAuthorizer
<1>7. reported' \in [Accounts \X Instruments -> Int] /\ ReportsReconcile'
  BY <1>3, <1>4, <1>6, OwnReported
<1>. QED  BY <1>1, <1>3, <1>5, <1>7 DEF FiniteOK, LogTypesOK, MoneyInv

LEMMA WithdrawReconciles ==
    ASSUME MoneyInv, NEW s \in instructions, withdraw(s)
    PROVE  /\ FiniteOK' /\ LogTypesOK' /\ ReportsReconcile'
           /\ \A a, i : circulating(a, i, tokens')
                  = circulating(a, i, tokens) + forAuthorizer(a, i, s.terms, s.terms.amount)
<1> DEFINE net == s.terms.amount - s.terms.amount
           back == issueToAuthorizer(s.terms, s.terms.amount)
<1>1. IInv /\ FiniteOK /\ s \in live /\ s \in State
  BY DEF MoneyInv, IInv, LocksOK, PendingOK, LockOK, live
<1>2. holdings' = withoutBacking(s) /\ tokens' = tokens (+) back /\ reportOwn(s.terms, net) /\ UNCHANGED legSides
  BY DEF withdraw
<1>3. s.terms \in LockTerms /\ s.terms.amount \in 1 .. MaxDecimal /\ s.terms.amount \in Int
  BY <1>1, StateType
<1>4. net = 0
  BY <1>3
<1>5. /\ IsABag(back) /\ DOMAIN back \subseteq Token /\ IsFiniteSet(DOMAIN back)
      /\ \A a, i : circulating(a, i, back)
                 = IF a = s.terms.authorizer /\ i = s.terms.instrumentId THEN s.terms.amount ELSE 0
  BY <1>3, RefundCirculates
<1>. HIDE DEF net, back
<1>6. /\ IsFiniteSet(DOMAIN tokens')
      /\ \A a, i : circulating(a, i, tokens') = circulating(a, i, tokens) + circulating(a, i, back)
  BY <1>1, <1>2, <1>5, BagsAdded DEF IInv, FundsOK, FiniteOK
<1>7. /\ IsFiniteSet(holdings')
      /\ \A a, i : /\ lockedIn(a, i, holdings)' \in Int
                   /\ lockedIn(a, i, holdings)
                        = lockedIn(a, i, holdings)' + forAuthorizer(a, i, s.terms, s.terms.amount)
  BY <1>1, <1>2, HoldingFreed
<1>8. ASSUME NEW a, NEW i PROVE balance(a, i)' = balance(a, i) + forAuthorizer(a, i, s.terms, net)
  <2>1. circulating(a, i, tokens) \in Int
    BY <1>1, BalanceType
  <2>2. balance(a, i)' = circulating(a, i, tokens') + lockedIn(a, i, holdings)'
    BY DEF balance
  <2>3. circulating(a, i, tokens') = circulating(a, i, tokens)
             + IF a = s.terms.authorizer /\ i = s.terms.instrumentId THEN s.terms.amount ELSE 0
    BY <1>5, <1>6
  <2>4. /\ lockedIn(a, i, holdings)' \in Int
        /\ lockedIn(a, i, holdings)
             = lockedIn(a, i, holdings)' + forAuthorizer(a, i, s.terms, s.terms.amount)
    BY <1>7
  <2>. QED  BY <1>3, <1>4, <2>1, <2>2, <2>3, <2>4 DEF balance, forAuthorizer
<1>9. reported' \in [Accounts \X Instruments -> Int] /\ ReportsReconcile'
  BY <1>2, <1>4, <1>8, OwnReported
<1>10. \A a, i : circulating(a, i, tokens')
            = circulating(a, i, tokens) + forAuthorizer(a, i, s.terms, s.terms.amount)
  BY <1>5, <1>6 DEF forAuthorizer
<1>. QED  BY <1>2, <1>6, <1>7, <1>9, <1>10 DEF FiniteOK, LogTypesOK, MoneyInv

\* What is paid out and what stays locked is what was locked.
LEMMA EnactReconciles ==
    ASSUME MoneyInv, NEW s \in locks, NEW ruleId \in Text, NEW paid \in Seq(PaidLeg), NEW t,
           remaining(s, paid) \in Int,
           remaining(s, paid) # 0 => /\ ActiveOK(t) /\ Continues(s, t)
                                     /\ t.terms.amount = remaining(s, paid),
           enact(s, ruleId, paid, t)
    PROVE  /\ FiniteOK' /\ LogTypesOK' /\ ReportsReconcile'
           /\ \A a, i : circulating(a, i, tokens')
                  = circulating(a, i, tokens)
                      + IF i = s.terms.instrumentId THEN paidTo(paid, a) ELSE 0
<1> DEFINE rest == remaining(s, paid)
           new == issued(s.terms, paid)
           change == [a \in {leg.receiver : leg \in ToSet(paid)} \union {s.terms.authorizer} |->
                         paidTo(paid, a) + IF a = s.terms.authorizer THEN rest - s.terms.amount ELSE 0]
<1>1. IInv /\ FiniteOK /\ LockOK(s) /\ s \in live /\ s \in State
  BY DEF MoneyInv, IInv, LocksOK, ActiveOK, LockOK, live
<1>2. /\ tokens' = tokens (+) new /\ report(s.terms, change)
      /\ legSides' = legSides (+) enactSides(s, ruleId, paid)
  BY DEF enact
<1>3. s.terms \in LockTerms /\ s.terms.amount \in Int
  BY <1>1, StateType
<1>4. /\ IsABag(new) /\ DOMAIN new \subseteq Token /\ IsFiniteSet(DOMAIN new)
      /\ \A a, i : circulating(a, i, new) = IF i = s.terms.instrumentId THEN paidTo(paid, a) ELSE 0
  BY <1>3, IssuedCirculates
<1>5. /\ \A a \in DOMAIN change : change[a] \in Int
      /\ \A a : paidTo(paid, a) \in Int
      /\ \A a : a \notin DOMAIN change => paidTo(paid, a) = 0 /\ a # s.terms.authorizer
      /\ \A a \in DOMAIN change : change[a] = paidTo(paid, a)
                                    + IF a = s.terms.authorizer THEN rest - s.terms.amount ELSE 0
  <2>1. \A a : /\ paidTo(paid, a) \in Int
               /\ a \notin {leg.receiver : leg \in ToSet(paid)} => paidTo(paid, a) = 0
    BY PaidType
  <2>2. rest \in Int
    OBVIOUS
  <2>. HIDE DEF rest
  <2>. QED  BY <1>3, <2>1, <2>2
<1>6. /\ IsFiniteSet(holdings')
      /\ \A a, i : lockedIn(a, i, holdings)' = lockedIn(a, i, holdings)
                        + forAuthorizer(a, i, s.terms, rest - s.terms.amount)
  <2>1. CASE rest = 0
    <3>1. holdings' = withoutBacking(s)
      BY <2>1 DEF enact
    <3>2. /\ IsFiniteSet(holdings')
          /\ \A a, i : /\ lockedIn(a, i, holdings)' \in Int
                       /\ lockedIn(a, i, holdings)
                            = lockedIn(a, i, holdings)' + forAuthorizer(a, i, s.terms, s.terms.amount)
      BY <1>1, <3>1, HoldingFreed
    <3>. HIDE DEF rest
    <3>. QED  BY <1>3, <2>1, <3>2 DEF forAuthorizer
  <2>2. CASE rest # 0
    <3>1. /\ holdings' = withoutBacking(s) \union {backing(t)} /\ LockOK(t) /\ t.lockId = s.lockId
          /\ t.holdingCid.lockId = t.lockId /\ t.terms.amount = rest
          /\ t.terms.authorizer = s.terms.authorizer /\ t.terms.instrumentId = s.terms.instrumentId
      BY <2>2 DEF enact, ActiveOK, Continues
    <3>2. /\ IsFiniteSet(holdings')
          /\ \A a, i : lockedIn(a, i, holdings)'
                           = (lockedIn(a, i, holdings) - forAuthorizer(a, i, s.terms, s.terms.amount))
                             + forAuthorizer(a, i, t.terms, t.terms.amount)
      BY <1>1, <3>1, HoldingReplaced
    <3>3. rest \in Int /\ \A a, i : lockedIn(a, i, holdings) \in Int
      BY <1>1, BalanceType
    <3>. HIDE DEF rest
    <3>4. ASSUME NEW a, NEW i
          PROVE  lockedIn(a, i, holdings)' = lockedIn(a, i, holdings)
                        + forAuthorizer(a, i, s.terms, rest - s.terms.amount)
      <4>1. lockedIn(a, i, holdings)'
                = (lockedIn(a, i, holdings) - forAuthorizer(a, i, s.terms, s.terms.amount))
                  + forAuthorizer(a, i, s.terms, rest)
        BY <3>1, <3>2 DEF forAuthorizer
      <4>2. lockedIn(a, i, holdings) \in Int
        BY <3>3
      <4>. QED  BY <1>3, <3>3, <4>1, <4>2 DEF forAuthorizer
    <3>. QED  BY <3>2, <3>4
  <2>. QED  BY <2>1, <2>2
<1>7. rest \in Int
  OBVIOUS
<1>. HIDE DEF rest, new, change
<1>8. /\ IsFiniteSet(DOMAIN tokens')
      /\ \A a, i : circulating(a, i, tokens') = circulating(a, i, tokens) + circulating(a, i, new)
  BY <1>1, <1>2, <1>4, BagsAdded DEF IInv, FundsOK, FiniteOK
<1>9. ASSUME NEW a, NEW i
      PROVE  balance(a, i)' = balance(a, i)
                + IF i = s.terms.instrumentId /\ a \in DOMAIN change THEN change[a] ELSE 0
  <2>1. circulating(a, i, tokens) \in Int /\ lockedIn(a, i, holdings) \in Int
    BY <1>1, BalanceType
  <2>2. balance(a, i)' = circulating(a, i, tokens') + lockedIn(a, i, holdings)'
    BY DEF balance
  <2>3. circulating(a, i, tokens') = circulating(a, i, tokens)
             + IF i = s.terms.instrumentId THEN paidTo(paid, a) ELSE 0
    BY <1>4, <1>8
  <2>4. lockedIn(a, i, holdings)' = lockedIn(a, i, holdings)
                        + forAuthorizer(a, i, s.terms, rest - s.terms.amount)
    BY <1>6
  <2>5. paidTo(paid, a) \in Int
    BY <1>5
  <2>6. CASE a \in DOMAIN change
    <3>1. change[a] = paidTo(paid, a) + IF a = s.terms.authorizer THEN rest - s.terms.amount ELSE 0
      BY <1>5, <2>6
    <3>. QED  BY <1>3, <1>7, <2>1, <2>2, <2>3, <2>4, <2>5, <2>6, <3>1 DEF balance, forAuthorizer
  <2>7. CASE a \notin DOMAIN change
    <3>1. paidTo(paid, a) = 0 /\ a # s.terms.authorizer
      BY <1>5, <2>7
    <3>. QED  BY <2>1, <2>2, <2>3, <2>4, <2>7, <3>1 DEF balance, forAuthorizer
  <2>. QED  BY <2>6, <2>7
<1>10. reported' \in [Accounts \X Instruments -> Int] /\ ReportsReconcile'
  <2>1. /\ \A a \in DOMAIN change : change[a] \in Int
        /\ \A a, i : balance(a, i)' = balance(a, i)
                + IF i = s.terms.instrumentId /\ a \in DOMAIN change THEN change[a] ELSE 0
    BY <1>5, <1>9
  <2>. QED  BY <1>2, <2>1, Reported
<1>11. IsABag(legSides') /\ DOMAIN legSides' \subseteq TransferLegSide
  <2>1. /\ IsABag(enactSides(s, ruleId, paid))
        /\ DOMAIN enactSides(s, ruleId, paid) \subseteq TransferLegSide
    BY <1>1, SidesType
  <2>2. IsABag(legSides) /\ DOMAIN legSides \subseteq TransferLegSide
    BY DEF MoneyInv, LogTypesOK
  <2>. QED  BY <1>2, <2>1, <2>2, BagUnionType
<1>12. \A a, i : circulating(a, i, tokens')
            = circulating(a, i, tokens) + IF i = s.terms.instrumentId THEN paidTo(paid, a) ELSE 0
  BY <1>4, <1>8
<1>. QED  BY <1>6, <1>8, <1>10, <1>11, <1>12 DEF FiniteOK, LogTypesOK

\* An enactment pays what its rule resolves to, and a refund what is left.
LEMMA RuleReconciles ==
    ASSUME MoneyInv, NEW s \in locks, NEW rule \in s.terms.rules, NEW legs \in SuppliedLegs,
           NEW witness, NEW actors, Enact(s, rule, legs, witness, actors)
    PROVE  /\ FiniteOK' /\ LogTypesOK' /\ ReportsReconcile'
           /\ \A a, i : circulating(a, i, tokens')
                  = circulating(a, i, tokens)
                      + IF i = s.terms.instrumentId
                        THEN paidTo(resolvedLegs(s.terms, rule.outcome, legs), a) ELSE 0
<1> DEFINE paid == resolvedLegs(s.terms, rule.outcome, legs)
           t    == afterRule(s, rule, legs)
<1>1. ActiveOK(s) /\ s \in State /\ BackingMatches
  BY DEF MoneyInv, IInv, LocksOK, ActiveOK, LockOK
<1>2. enactChecks(s, rule, legs, witness, actors) /\ enact(s, rule.id, paid, t)
  BY DEF Enact
<1>3. paid \in Seq(PaidLeg) /\ (remaining(s, paid) # 0 => ActiveOK(t) /\ Continues(s, t))
  BY <1>1, <1>2, EnactCommits
<1>4. remaining(s, paid) \in Int
  <2>1. s.terms \in LockTerms /\ s.terms.amount \in 1 .. MaxDecimal
    BY <1>1, StateType
  <2>2. legs \in Seq(Leg) /\ resolveOutcome(s.terms, rule.outcome, legs)
    BY <1>2, TestTokenAssumption DEF enactChecks
  <2>3. total(paid) \in 1 .. s.terms.amount
    BY <2>1, <2>2, ResolvedLegsPayReceivers
  <2>. HIDE DEF paid
  <2>. QED  BY <2>1, <2>3 DEF remaining
<1>5. t.terms.amount = remaining(s, paid)
  <2>1. s.terms \in LockTerms
    BY <1>1, StateType
  <2>2. [s.terms EXCEPT !.amount = remaining(s, paid),
                        !.rules = {r \in s.terms.rules : r.id # rule.id}].amount = remaining(s, paid)
    BY <2>1 DEF LockTerms
  <2>. QED  BY <2>2 DEF afterRule, continuation, mkState
<1>6. rule.id \in Text
  BY <1>1, StateType DEF LockTerms, Rule
<1>. HIDE DEF paid, t
<1>7. /\ FiniteOK' /\ LogTypesOK' /\ ReportsReconcile'
      /\ \A a, i : circulating(a, i, tokens')
             = circulating(a, i, tokens) + IF i = s.terms.instrumentId THEN paidTo(paid, a) ELSE 0
  BY <1>2, <1>3, <1>4, <1>5, <1>6, EnactReconciles
<1>. QED  BY <1>7 DEF paid

LEMMA RefundReconciles ==
    ASSUME MoneyInv, NEW s \in locks, NEW legId \in Fragment,
           enact(s, <<>>, refundLeg(s, legId), afterRefund(s, legId))
    PROVE  /\ FiniteOK' /\ LogTypesOK' /\ ReportsReconcile'
           /\ \A a, i : circulating(a, i, tokens')
                  = circulating(a, i, tokens)
                      + IF i = s.terms.instrumentId THEN paidTo(refundLeg(s, legId), a) ELSE 0
<1> DEFINE paid == refundLeg(s, legId)
           t    == afterRefund(s, legId)
<1>1. s \in State /\ <<>> \in Text
  BY DEF Text, MoneyInv, IInv, LocksOK, ActiveOK, LockOK
<1>2. paid \in Seq(PaidLeg) /\ remaining(s, paid) = 0
  BY <1>1, RefundLeg
<1>3. enact(s, <<>>, paid, t)
  OBVIOUS
<1>. HIDE DEF paid, t
<1>4. /\ FiniteOK' /\ LogTypesOK' /\ ReportsReconcile'
      /\ \A a, i : circulating(a, i, tokens')
             = circulating(a, i, tokens) + IF i = s.terms.instrumentId THEN paidTo(paid, a) ELSE 0
  BY <1>1, <1>2, <1>3, EnactReconciles
<1>. QED  BY <1>4 DEF paid

LEMMA MoneyInit ==
    ASSUME Init
    PROVE  MoneyInv
<1>1. IInv
  BY InitOK
<1>2. FiniteOK
  BY TestTokenAssumption, FS_EmptySet DEF Init, FiniteOK
<1>3. LogTypesOK
  BY EmptyBagType DEF Init, LogTypesOK
<1>4. ReportsReconcile
  <2> SUFFICES ASSUME NEW a \in Accounts, NEW i \in Instruments
               PROVE  reported[<<a, i>>] = (circulating(a, i, tokens) + lockedIn(a, i, holdings))
                                              - circulating(a, i, InitialTokens)
    BY DEF ReportsReconcile
  <2>1. reported[<<a, i>>] = 0 /\ tokens = InitialTokens /\ holdings = {}
    BY DEF Init
  <2>2. lockedIn(a, i, {}) = 0
    <3>1. \A f : SumFunctionOnSet(f, {}) = 0
      BY SumEmpty
    <3>. QED  BY <3>1 DEF lockedIn
  <2>3. circulating(a, i, InitialTokens) \in Int
    BY <1>1, <1>2, BalanceType
  <2>. QED  BY <2>1, <2>2, <2>3
<1>. QED  BY <1>1, <1>2, <1>3, <1>4 DEF MoneyInv

LEMMA MoneyUntouched ==
    ASSUME MoneyInv, UNCHANGED <<tokens, holdings, eventLog>>
    PROVE  FiniteOK' /\ LogTypesOK' /\ ReportsReconcile'
BY DEF eventLog, MoneyInv, FiniteOK, LogTypesOK, ReportsReconcile

LEMMA MoneyInductive ==
    MoneyInv /\ [Next]_vars => MoneyInv'
<1> SUFFICES ASSUME MoneyInv, [Next]_vars PROVE FiniteOK' /\ LogTypesOK' /\ ReportsReconcile'
  BY Inductive DEF MoneyInv
<1>1. CASE OnFactories
  BY <1>1, LockReconciles DEF OnFactories
<1>2. CASE OnInstructions
  BY <1>2, AcceptReconciles, WithdrawReconciles DEF OnInstructions, Reject, Withdraw
<1>3. CASE UseRules
  <2>1. PICK s \in locks, actors \in ActorSets, legs \in SuppliedLegs : \E rule \in s.terms.rules :
            \/ Approve(s, rule, legs, actors)
            \/ \E witness \in Witnesses : Enact(s, rule, legs, witness, actors)
    BY <1>3 DEF UseRules
  <2>2. PICK rule \in s.terms.rules :
            \/ Approve(s, rule, legs, actors)
            \/ \E witness \in Witnesses : Enact(s, rule, legs, witness, actors)
    BY <2>1
  <2>3. CASE Approve(s, rule, legs, actors)
    BY <2>3, MoneyUntouched DEF Approve
  <2>4. CASE \E witness \in Witnesses : Enact(s, rule, legs, witness, actors)
    <3>1. PICK witness \in Witnesses : Enact(s, rule, legs, witness, actors)
      BY <2>4
    <3>. QED  BY <3>1, RuleReconciles
  <2>. QED  BY <2>2, <2>3, <2>4
<1>4. CASE EndLocks
  <2>1. PICK s \in locks, legId \in {"expire", "cancel"} :
            enact(s, <<>>, refundLeg(s, legId), afterRefund(s, legId))
    BY <1>4 DEF EndLocks, Expire, Cancel
  <2>2. legId \in Fragment
    BY PolicyAssumption
  <2>. QED  BY <2>1, <2>2, RefundReconciles
<1>5. CASE ChangeTerms
  BY <1>5, AmendReconciles DEF ChangeTerms
<1>6. CASE Environment
  BY <1>6, MoneyUntouched DEF Environment, Tick, ArchiveTokenRules, contracts
<1>7. CASE UNCHANGED vars
  BY <1>7, MoneyUntouched DEF vars, contracts
<1>. QED  BY <1>1, <1>2, <1>3, <1>4, <1>5, <1>6, <1>7 DEF Next

\* Over any locks, enactments, change, top-ups and refunds, what is reported to an
\* account is what its holdings have changed by, the locked ones counting for the
\* authorizer (report, enact, start, withdraw, amend).
THEOREM ReportsAlwaysReconcile == Spec => []ReportsReconcile
<1>1. MoneyInv => ReportsReconcile
  BY DEF MoneyInv
<1>. QED  BY MoneyInit, MoneyInductive, <1>1, PTL DEF Spec

\* Every variable of the registry is well typed: its contracts, and the event log
\* with the net change of each account and a side for each leg.
THEOREM TypeCorrect == Spec => []TypeOK
<1>1. MoneyInv => ContractsTypeOK
  BY DEF MoneyInv, IInv, FundsOK, LocksOK, ActiveOK, PendingOK, LockOK, ContractsTypeOK
<1>2. MoneyInv => TypeOK
  BY <1>1 DEF MoneyInv, LogTypesOK, TypeOK
<1>. QED  BY MoneyInit, MoneyInductive, <1>2, PTL DEF Spec

-------------------------------------------------------------------------------
(* The registry implements the lifecycle of locks: every choice is one step   *)
(* of one lock there, or none.                                                *)

\* Every contract is that of a lock ID which some factory stood for.
IdsOK ==
    /\ \A f \in factories : f.lockId \in LockIds
    /\ \A s \in live : s.lockId \in LockIds

RInv == IInv /\ IdsOK

-------------------------------------------------------------------------------
(* What stands under a lock ID. *)

LEMMA UnderLive ==
    ASSUME BackingMatches, NEW s \in live
    PROVE  lockUnder(s.lockId) = lockOf(s)
<1>1. \A t \in live : t.lockId = s.lockId <=> t = s
  BY DEF BackingMatches
<1>2. (CHOOSE t \in live : t.lockId = s.lockId) = s
  BY <1>1
<1>. QED  BY <1>1, <1>2 DEF lockUnder

LEMMA UnderFactory ==
    ASSUME BackingMatches, NEW f \in factories
    PROVE  lockUnder(f.lockId) = [phase |-> "unused"]
BY DEF lockUnder, BackingMatches

LEMMA UnderNothing ==
    ASSUME NEW id, \A s \in live : s.lockId # id, \A f \in factories : f.lockId # id
    PROVE  lockUnder(id) = [phase |-> "ended"]
BY DEF lockUnder

\* The same one step later.
LEMMA UnderLiveNext ==
    ASSUME BackingMatches', NEW s, s \in live'
    PROVE  lockUnder(s.lockId)' = lockOf(s)'
<1>1. \A t \in live' : t.lockId = s.lockId <=> t = s
  BY DEF BackingMatches
<1>2. (CHOOSE t \in live' : t.lockId = s.lockId) = s
  BY <1>1
<1>. QED  BY <1>1, <1>2 DEF lockUnder

\* A step touches what stands under one lock ID only.
others(id) ==
    <<{s \in locks : s.lockId # id}, {s \in instructions : s.lockId # id},
      {f \in factories : f.lockId # id}>>

LEMMA Untouched ==
    ASSUME BackingMatches, BackingMatches', NEW i, UNCHANGED others(i), NEW id, id # i
    PROVE  lockUnder(id)' = lockUnder(id)
<1>1. /\ \A s \in locks \union locks' : s.lockId = id => (s \in locks <=> s \in locks')
      /\ \A s \in instructions \union instructions' :
            s.lockId = id => (s \in instructions <=> s \in instructions')
      /\ \A f \in factories \union factories' : f.lockId = id => (f \in factories <=> f \in factories')
  BY DEF others
<1>2. CASE \E s \in live : s.lockId = id
  <2>1. PICK s \in live : s.lockId = id
    BY <1>2
  <2>2. s \in live' /\ (s \in locks <=> s \in locks')
    BY <1>1, <2>1 DEF live
  <2>3. lockOf(s)' = lockOf(s)
    BY <2>2 DEF lockOf
  <2>. QED  BY <2>1, <2>2, <2>3, UnderLive, UnderLiveNext
<1>3. CASE ~\E s \in live : s.lockId = id
  <2>1. ~\E s \in live' : s.lockId = id
    BY <1>1, <1>3 DEF live
  <2>2. (\E f \in factories : f.lockId = id) <=> (\E f \in factories' : f.lockId = id)
    BY <1>1
  <2>. QED  BY <1>3, <2>1, <2>2 DEF lockUnder
<1>. QED  BY <1>2, <1>3

Touches(i) == i \in LockIds /\ UNCHANGED others(i) /\ UNCHANGED now

LEMMA OneStep ==
    ASSUME BackingMatches, BackingMatches', NEW i, Touches(i),
           Lifecycle!Step(lockUnder(i), lockUnder(i)')
    PROVE  Lifecycle!Exercise
<1> DEFINE lock == [id \in LockIds |-> lockUnder(id)]
<1>1. \A id \in LockIds : id # i => lockUnder(id)' = lockUnder(id)
  BY Untouched DEF Touches
<1>2. lock' = [lock EXCEPT ![i] = lock'[i]]
  BY <1>1 DEF Touches
<1>3. Lifecycle!Step(lock[i], lock'[i])
  BY DEF Touches
<1>. QED  BY <1>2, <1>3 DEF Lifecycle!Exercise, Touches

\* A lock is active exactly when all receivers have accepted.
LEMMA Phased ==
    ASSUME LocksOK, NEW s \in live
    PROVE  /\ lockOf(s).phase = Lifecycle!phaseOf(lockOf(s))
           /\ lockOf(s).phase = (IF s \in locks THEN "active" ELSE "pending")
<1>1. s \in locks <=> termReceivers(s.terms) \subseteq s.accepted
  BY DEF LocksOK, ActiveOK, PendingOK, live, pending
<1>. QED  BY <1>1 DEF lockOf, Lifecycle!phaseOf

LEMMA PhasedNext ==
    ASSUME LocksOK', NEW s, s \in live'
    PROVE  /\ lockOf(s)'.phase = Lifecycle!phaseOf(lockOf(s)')
           /\ lockOf(s)'.phase = (IF s \in locks' THEN "active" ELSE "pending")
<1>1. s \in locks' <=> termReceivers(s.terms) \subseteq s.accepted
  BY DEF LocksOK, ActiveOK, PendingOK, live, pending
<1>. QED  BY <1>1 DEF lockOf, Lifecycle!phaseOf

-------------------------------------------------------------------------------
(* The choices. *)

LEMMA OffersLock ==
    ASSUME RInv, IInv', NEW f \in factories, NEW terms \in ProposedTerms, NEW inputs, NEW actors,
           Lock(f, terms, inputs, actors)
    PROVE  LET l == lockUnder(f.lockId)
               m == lockUnder(f.lockId)'
           IN  /\ IdsOK' /\ Touches(f.lockId) /\ Lifecycle!Offer(l, m)
               /\ m.owner = terms.authorizer /\ m.instrument = terms.instrumentId
               /\ m.amount = terms.amount
<1> DEFINE s == locked(f, terms, actors)
           m == lockOf(s)'
<1>1. /\ BackingMatches /\ BackingMatches' /\ LocksOK' /\ f.lockId \in LockIds /\ f \in Factories
      /\ lockChecks(f, terms, inputs, actors)
  BY DEF RInv, IInv, IdsOK, FundsOK, Lock
<1>2. /\ LockOK(s) /\ s.lockId = f.lockId /\ s.enactedRuleIds = {} /\ s.approvals = {}
      /\ s.terms = terms
  BY <1>1, LockedOK DEF locked, mkState
<1>3. /\ factories' = factories \ {f} /\ now' = now
      /\ locks' = locks \union start(s).locks
      /\ instructions' = instructions \union start(s).instructions
  BY DEF Lock
<1>. HIDE DEF s
<1>4. start(s).locks \union start(s).instructions = {s} /\ s \in live'
  BY <1>2, <1>3, Started DEF live
<1>5. UNCHANGED others(f.lockId)
  BY <1>2, <1>3, <1>4 DEF others
<1>6. lockUnder(f.lockId) = [phase |-> "unused"] /\ lockUnder(f.lockId)' = m
  BY <1>1, <1>2, <1>4, UnderFactory, UnderLiveNext
<1>7. m.phase = Lifecycle!phaseOf(m) /\ m.phase \in {"pending", "active"}
  BY <1>1, <1>4, PhasedNext
<1>8. /\ m.amount > 0 /\ m.fired = {} /\ m.agreed \subseteq m.receivers
      /\ m.owner = terms.authorizer /\ m.instrument = terms.instrumentId /\ m.amount = terms.amount
  BY <1>2, StateType, PolicyAssumption DEF LockOK, lockOf
<1>. HIDE DEF m
<1>9. Lifecycle!Offer(lockUnder(f.lockId), lockUnder(f.lockId)')
  BY <1>6, <1>7, <1>8 DEF Lifecycle!Offer, Lifecycle!Unused
<1>10. IdsOK'
  BY <1>1, <1>2, <1>3, <1>4 DEF RInv, IdsOK, live
<1>. QED  BY <1>1, <1>3, <1>5, <1>6, <1>8, <1>9, <1>10 DEF Touches

LEMMA AgreesToLock ==
    ASSUME RInv, IInv', NEW s \in instructions, NEW approver \in pending(s), NEW actors,
           Accept(s, approver, actors)
    PROVE  /\ IdsOK' /\ Touches(s.lockId)
           /\ Lifecycle!Agree(lockUnder(s.lockId), lockUnder(s.lockId)')
<1> DEFINE t == acceptedBy(s, approver)
           l == lockOf(s)
           m == lockOf(t)'
<1>1. /\ BackingMatches /\ BackingMatches' /\ LocksOK /\ LocksOK' /\ LockOK(s)
      /\ s \in live /\ s.lockId \in LockIds /\ s \notin locks
  BY Apart DEF RInv, IInv, IdsOK, LocksOK, PendingOK, live
<1>2. /\ t.lockId = s.lockId /\ t.terms = s.terms /\ t.accepted = s.accepted \union {approver}
      /\ t.enactedRuleIds = s.enactedRuleIds /\ LockOK(t) /\ t.approvals = {}
  BY <1>1, AcceptedOK DEF acceptedBy, mkState
<1>3. /\ locks' = locks \union start(t).locks
      /\ instructions' = (instructions \ {s}) \union start(t).instructions
      /\ UNCHANGED <<now, factories>> /\ beforeExpiry(s)
  BY DEF Accept, acceptChecks
<1>. HIDE DEF t
<1>4. start(t).locks \union start(t).instructions = {t} /\ t \in live'
  BY <1>2, <1>3, Started DEF live
<1>5. UNCHANGED others(s.lockId)
  BY <1>2, <1>3, <1>4 DEF others
<1>6. lockUnder(s.lockId) = l /\ lockUnder(s.lockId)' = m
  BY <1>1, <1>2, <1>4, UnderLive, UnderLiveNext
<1>7. m.phase = Lifecycle!phaseOf(m) /\ m.phase \in {"pending", "active"} /\ l.phase = "pending"
  BY <1>1, <1>4, Phased, PhasedNext
<1>8. Lifecycle!unexpired(l)
  BY <1>3 DEF Lifecycle!unexpired, Earlier, lockOf, beforeExpiry, Answer, Asks, isLedgerTimeLT
<1>9. /\ approver \in l.receivers \ l.agreed /\ m.agreed = l.agreed \union {approver}
      /\ m.owner = l.owner /\ m.instrument = l.instrument /\ m.expiresAt = l.expiresAt
      /\ m.amount = l.amount /\ m.open = l.open /\ m.fired = l.fired /\ m.receivers = l.receivers
  BY <1>2 DEF pending, lockOf
<1>. HIDE DEF l, m
<1>10. Lifecycle!Agree(lockUnder(s.lockId), lockUnder(s.lockId)')
  BY <1>6, <1>7, <1>8, <1>9 DEF Lifecycle!Agree, Lifecycle!sameLock
<1>11. IdsOK'
  BY <1>1, <1>2, <1>3, <1>4 DEF RInv, IdsOK, live
<1>. QED  BY <1>1, <1>3, <1>5, <1>10, <1>11 DEF Touches

\* What archives the contract of a lock and creates none ends the lock.
LEMMA Ends ==
    ASSUME RInv, IInv', NEW s \in live, UNCHANGED <<now, factories>>,
           locks' = locks \ {s}, instructions' = instructions \ {s}
    PROVE  LET l == lockUnder(s.lockId)
               m == lockUnder(s.lockId)'
           IN  /\ IdsOK' /\ Touches(s.lockId) /\ Lifecycle!End(l, m)
               /\ l = lockOf(s) /\ m = Lifecycle!Ended
<1>1. BackingMatches /\ BackingMatches' /\ LocksOK /\ s.lockId \in LockIds
  BY DEF RInv, IInv, IdsOK
<1>2. live' = live \ {s}
  BY DEF live
<1>3. lockUnder(s.lockId)' = [phase |-> "ended"]
  BY <1>1, <1>2 DEF lockUnder, BackingMatches
<1>4. UNCHANGED others(s.lockId)
  BY DEF others
<1>5. lockUnder(s.lockId).phase \in {"pending", "active"}
  BY <1>1, UnderLive, Phased
<1>6. Lifecycle!End(lockUnder(s.lockId), lockUnder(s.lockId)')
  BY <1>3, <1>5 DEF Lifecycle!End, Lifecycle!Ended
<1>7. IdsOK'
  BY <1>2 DEF RInv, IdsOK
<1>. QED  BY <1>1, <1>3, <1>4, <1>6, <1>7, UnderLive DEF Touches, Lifecycle!Ended

\* Enactment, expiry and cancellation of a lock that a rule may have fired in.
LEMMA FiresRule ==
    ASSUME RInv, IInv', NEW s \in locks, NEW rule \in s.terms.rules, NEW legs \in SuppliedLegs,
           NEW witness, NEW actors, Enact(s, rule, legs, witness, actors)
    PROVE  LET l == lockUnder(s.lockId)
               m == lockUnder(s.lockId)'
           IN  /\ IdsOK' /\ Touches(s.lockId) /\ Lifecycle!Fire(l, m) /\ l = lockOf(s)
               /\ Lifecycle!amountOf(m)
                    = remaining(s, resolvedLegs(s.terms, rule.outcome, legs))
<1> DEFINE paid == resolvedLegs(s.terms, rule.outcome, legs)
           t    == afterRule(s, rule, legs)
           l    == lockOf(s)
           m    == lockOf(t)'
<1>1. /\ BackingMatches /\ BackingMatches' /\ LocksOK /\ LocksOK' /\ ActiveOK(s) /\ LockOK(s)
      /\ s \in State /\ s \in live /\ s.lockId \in LockIds /\ s \notin instructions
  BY Apart DEF RInv, IInv, IdsOK, LocksOK, ActiveOK, LockOK, live
<1>2. enactChecks(s, rule, legs, witness, actors) /\ enact(s, rule.id, paid, t)
  BY DEF Enact
<1>3. UNCHANGED <<now, factories, instructions>>
  BY <1>2 DEF enact
<1>4. Lifecycle!unexpired(l)
  BY <1>2 DEF Lifecycle!unexpired, Earlier, lockOf, enactChecks, beforeExpiry, Answer, Asks,
              isLedgerTimeLT
<1>5. l.phase = "active" /\ rule.id \in l.open \ l.fired
  BY <1>1 DEF lockOf, LockOK
<1>6. CASE remaining(s, paid) = 0
  <2>1. locks' = locks \ {s} /\ instructions' = instructions \ {s}
    BY <1>1, <1>2, <1>3, <1>6 DEF enact
  <2>2. /\ IdsOK' /\ Touches(s.lockId) /\ lockUnder(s.lockId) = l
        /\ lockUnder(s.lockId)' = Lifecycle!Ended
    BY <1>1, <1>3, <2>1, Ends
  <2>. HIDE DEF l
  <2>3. Lifecycle!Fire(l, Lifecycle!Ended)
    BY <1>4, <1>5 DEF Lifecycle!Fire
  <2>4. Lifecycle!amountOf(Lifecycle!Ended) = 0
    BY DEF Lifecycle!amountOf, Lifecycle!Ended
  <2>. QED  BY <1>6, <2>2, <2>3, <2>4 DEF l
<1>7. CASE remaining(s, paid) # 0
  <2>1. locks' = (locks \ {s}) \union {t}
    BY <1>2, <1>7 DEF enact
  <2>2. ActiveOK(t) /\ Continues(s, t)
    BY <1>1, <1>2, <1>7, EnactCommits
  <2>3. /\ t.terms.amount = remaining(s, paid) /\ t.terms.expiresAt = s.terms.expiresAt
        /\ t.terms.rules = {r \in s.terms.rules : r.id # rule.id}
        /\ t.enactedRuleIds = s.enactedRuleIds \union {rule.id}
        /\ t.accepted = s.accepted \intersect termReceivers(t.terms)
    <3> DEFINE terms == [s.terms EXCEPT !.amount = remaining(s, paid),
                                        !.rules = {r \in s.terms.rules : r.id # rule.id}]
    <3>1. /\ terms.amount = remaining(s, paid) /\ terms.expiresAt = s.terms.expiresAt
          /\ terms.rules = {r \in s.terms.rules : r.id # rule.id}
      BY <1>1, StateType DEF LockTerms
    <3>. HIDE DEF terms
    <3>2. t = mkState(s.lockId, terms, s.accepted \intersect termReceivers(terms),
                      s.holdingCid.gen + 1, s.enactedRuleIds \union {rule.id},
                      dropApprovals(rule.id, s.approvals))
      BY DEF afterRule, continuation, terms
    <3>. HIDE DEF t
    <3>. QED  BY <3>1, <3>2 DEF mkState
  <2>4. /\ remaining(s, paid) < s.terms.amount
        /\ termReceivers(t.terms) \subseteq termReceivers(s.terms)
    <3>1. legs \in Seq(Leg) /\ resolveOutcome(s.terms, rule.outcome, legs)
      BY <1>2, TestTokenAssumption DEF enactChecks
    <3>2. total(paid) \in 1 .. s.terms.amount /\ s.terms \in LockTerms /\ s.terms.amount \in Int
      BY <1>1, <3>1, StateType, ResolvedLegsPayReceivers
    <3>3. t.terms \in LockTerms
      BY <2>2, StateType DEF ActiveOK, LockOK
    <3>4. termReceivers(t.terms) \subseteq termReceivers(s.terms)
      BY <2>2, <2>3, <3>2, <3>3, FewerReceivers DEF Continues
    <3>. HIDE DEF paid, t
    <3>. QED  BY <3>2, <3>4 DEF remaining
  <2>. HIDE DEF paid, t
  <2>5. t \in live' /\ t \in locks' /\ t.lockId = s.lockId /\ UNCHANGED others(s.lockId)
    BY <1>3, <2>1, <2>2 DEF live, others, Continues
  <2>6. lockUnder(s.lockId) = l /\ lockUnder(s.lockId)' = m
    BY <1>1, <2>5, UnderLive, UnderLiveNext
  <2>7. l.phase = "active" /\ m.phase = "active"
    BY <2>5 DEF lockOf
  <2>10. m.open = l.open \ {rule.id} /\ m.fired = l.fired \union {rule.id}
    BY <2>3 DEF lockOf
  <2>11. m.receivers \subseteq l.receivers /\ m.agreed = l.agreed \intersect m.receivers
    BY <2>3, <2>4 DEF lockOf
  <2>12. /\ m.owner = l.owner /\ m.instrument = l.instrument /\ m.expiresAt = l.expiresAt
         /\ m.amount > 0 /\ m.amount < l.amount /\ m.amount = remaining(s, paid)
    BY <2>2, <2>3, <2>4 DEF lockOf, Continues
  <2>. HIDE DEF l, m
  <2>13. Lifecycle!Fire(l, m) /\ Lifecycle!amountOf(m) = remaining(s, paid)
    BY <1>4, <1>5, <2>7, <2>10, <2>11, <2>12
       DEF Lifecycle!Fire, Lifecycle!sameLock, Lifecycle!amountOf
  <2>14. IdsOK'
    BY <1>1, <1>3, <2>1, <2>5 DEF RInv, IdsOK, live
  <2>15. Touches(s.lockId)
    BY <1>1, <1>3, <2>5 DEF Touches
  <2>. QED  BY <2>6, <2>13, <2>14, <2>15 DEF l, paid
<1>. QED  BY <1>6, <1>7

LEMMA RefundEnds ==
    ASSUME RInv, IInv', NEW s \in locks, NEW legId \in Fragment,
           enact(s, <<>>, refundLeg(s, legId), afterRefund(s, legId))
    PROVE  LET l == lockUnder(s.lockId)
               m == lockUnder(s.lockId)'
           IN  /\ IdsOK' /\ Touches(s.lockId) /\ Lifecycle!End(l, m)
               /\ l = lockOf(s) /\ m = Lifecycle!Ended
<1>1. s \in State /\ s \in live /\ s \notin instructions
  BY Apart DEF RInv, IInv, LocksOK, ActiveOK, LockOK, live
<1>2. remaining(s, refundLeg(s, legId)) = 0
  BY <1>1, RefundLeg
<1>3. locks' = locks \ {s} /\ instructions' = instructions \ {s} /\ UNCHANGED <<now, factories>>
  BY <1>1, <1>2 DEF enact
<1>. QED  BY <1>1, <1>3, Ends

LEMMA RenewsLock ==
    ASSUME RInv, IInv', NEW s \in locks, NEW newTerms \in ProposedTerms, NEW inputs, NEW actors,
           Amend(s, newTerms, inputs, actors)
    PROVE  LET l == lockUnder(s.lockId)
               m == lockUnder(s.lockId)'
           IN  /\ IdsOK' /\ Touches(s.lockId) /\ Lifecycle!Renew(l, m)
               /\ l = lockOf(s) /\ m.amount = newTerms.amount
<1> DEFINE t == amended(s, newTerms, actors)
           l == lockOf(s)
           m == lockOf(t)'
<1>1. /\ BackingMatches /\ BackingMatches' /\ LocksOK /\ LockOK(s)
      /\ s \in live /\ s.lockId \in LockIds /\ s \notin instructions
  BY Apart DEF RInv, IInv, IdsOK, LocksOK, ActiveOK, live
<1>2. amendChecks(s, newTerms, inputs, actors) /\ UNCHANGED <<now, factories>>
  BY DEF Amend
<1>3. /\ t.lockId = s.lockId /\ t.terms = newTerms /\ t.enactedRuleIds = s.enactedRuleIds
      /\ t.accepted = acceptedUnder(s, newTerms, actors) /\ pending(t) = {}
  <2>1. termReceivers(newTerms) \subseteq acceptedUnder(s, newTerms, actors)
    BY <1>2 DEF amendChecks
  <2>. QED  BY <2>1 DEF amended, mkState, pending
<1>4. locks' = (locks \ {s}) \union {t} /\ instructions' = instructions
  BY <1>3 DEF Amend, start
<1>5. LockOK(t)
  BY <1>1, <1>2, AmendedOK
<1>6. /\ s.terms.authorizer = t.terms.authorizer /\ s.terms.instrumentId = t.terms.instrumentId
      /\ t.terms.amount >= s.terms.amount /\ t.accepted \subseteq termReceivers(t.terms)
      /\ termReceivers(t.terms) \subseteq t.accepted
      /\ \A r \in t.terms.rules : r.id \notin s.enactedRuleIds
  BY <1>2, <1>3, <1>5 DEF amendChecks, LockOK, pending
<1>. HIDE DEF t
<1>7. t \in live' /\ t \in locks' /\ UNCHANGED others(s.lockId)
  BY <1>2, <1>3, <1>4 DEF live, others
<1>8. lockUnder(s.lockId) = l /\ lockUnder(s.lockId)' = m
  BY <1>1, <1>3, <1>7, UnderLive, UnderLiveNext
<1>9. l.phase = "active" /\ m.phase = "active"
  BY <1>7 DEF lockOf
<1>10. Lifecycle!unexpired(l)
  BY <1>2 DEF Lifecycle!unexpired, Earlier, lockOf, amendChecks, beforeExpiry, Answer, Asks,
              isLedgerTimeLT
<1>11. /\ m.owner = l.owner /\ m.instrument = l.instrument /\ m.amount >= l.amount
       /\ m.fired = l.fired /\ m.open \intersect m.fired = {}
       /\ m.agreed \subseteq m.receivers /\ m.receivers \subseteq m.agreed
       /\ m.amount = newTerms.amount
  BY <1>3, <1>6 DEF lockOf
<1>. HIDE DEF l, m
<1>12. Lifecycle!Renew(l, m)
  BY <1>9, <1>10, <1>11 DEF Lifecycle!Renew, Lifecycle!phaseOf
<1>13. IdsOK'
  BY <1>1, <1>2, <1>3, <1>4 DEF RInv, IdsOK, live
<1>14. Touches(s.lockId)
  BY <1>1, <1>2, <1>7 DEF Touches
<1>. QED  BY <1>8, <1>11, <1>12, <1>13, <1>14 DEF l

\* An approval replaces the contract and shows nothing of it: the lock stays as it is.
LEMMA ApprovalIsInvisible ==
    ASSUME RInv, IInv', NEW s \in locks, NEW rule, NEW legs \in SuppliedLegs,
           NEW actors \in ActorSets, Approve(s, rule, legs, actors)
    PROVE  /\ UNCHANGED now /\ IdsOK'
           /\ \A id \in LockIds : lockUnder(id)' = lockUnder(id)
<1> DEFINE t == approved(s, rule, legs, actors)
<1>1. /\ BackingMatches /\ BackingMatches' /\ s \in State /\ s \in live /\ s.lockId \in LockIds
  BY DEF RInv, IInv, IdsOK, LocksOK, ActiveOK, LockOK, live
<1>2. /\ t.lockId = s.lockId /\ t.terms = s.terms /\ t.accepted = s.accepted
      /\ t.enactedRuleIds = s.enactedRuleIds
  BY <1>1, ApprovedKeeps
<1>3. locks' = (locks \ {s}) \union {t} /\ UNCHANGED <<now, instructions, factories>>
  BY DEF Approve
<1>. HIDE DEF t
<1>4. t \in locks' /\ t \in live' /\ UNCHANGED others(s.lockId)
  BY <1>2, <1>3 DEF live, others
<1>5. lockOf(t)' = lockOf(s)
  BY <1>2, <1>4 DEF lockOf
<1>6. lockUnder(s.lockId)' = lockUnder(s.lockId)
  BY <1>1, <1>2, <1>4, <1>5, UnderLive, UnderLiveNext
<1>7. IdsOK'
  BY <1>1, <1>2, <1>3 DEF RInv, IdsOK, live
<1>. QED  BY <1>1, <1>3, <1>4, <1>6, <1>7, Untouched

LEMMA EnvironmentTicks ==
    ASSUME RInv, IInv', Environment
    PROVE  /\ IdsOK' /\ (UNCHANGED now \/ Earlier(now, now'))
           /\ \A id \in LockIds : lockUnder(id)' = lockUnder(id)
<1>1. UNCHANGED <<factories, instructions, locks>>
  BY DEF Environment, Tick, ArchiveTokenRules, contracts
<1>2. UNCHANGED now \/ Earlier(now, now')
  BY DEF Environment, Tick, ArchiveTokenRules, Earlier, RInv, IInv, FundsOK, Time
<1>3. \A id \in LockIds : lockUnder(id)' = lockUnder(id)
  BY <1>1 DEF lockUnder, lockOf, live
<1>. QED  BY <1>1, <1>2, <1>3 DEF RInv, IdsOK, live

-------------------------------------------------------------------------------
LEMMA RefinesInit ==
    ASSUME Init
    PROVE  RInv /\ Lifecycle!Init
<1>1. \A f \in factories : f.lockId \in LockIds
  BY DEF Init, LockIds
<1>2. live = {}
  BY DEF Init, live
<1>3. RInv
  BY <1>1, <1>2, InitOK DEF RInv, IdsOK
<1>4. \A id \in LockIds : lockUnder(id) = [phase |-> "unused"]
  BY <1>2 DEF Init, LockIds, lockUnder
<1>5. Lifecycle!Init
  BY <1>4 DEF Lifecycle!Init, Lifecycle!Unused
<1>. QED  BY <1>3, <1>5

LEMMA RefinesStep ==
    ASSUME RInv, [Next]_vars
    PROVE  RInv' /\ [Lifecycle!Next]_<<now, [id \in LockIds |-> lockUnder(id)]>>
<1>1. IInv'
  BY Inductive DEF RInv
<1>2. ASSUME NEW i, Touches(i), Lifecycle!Step(lockUnder(i), lockUnder(i)')
      PROVE  Lifecycle!Next
  BY <1>1, <1>2, OneStep DEF Lifecycle!Next, RInv, IInv
<1>3. CASE OnFactories
  BY <1>1, <1>2, <1>3, OffersLock DEF OnFactories, RInv, Lifecycle!Step
<1>4. CASE OnInstructions
  <2>1. ASSUME NEW s \in instructions, withdraw(s)
        PROVE  /\ IdsOK' /\ Touches(s.lockId)
               /\ Lifecycle!End(lockUnder(s.lockId), lockUnder(s.lockId)')
    <3>1. s \in live /\ s \notin locks
      BY Apart DEF RInv, IInv, live
    <3>2. locks' = locks \ {s} /\ instructions' = instructions \ {s} /\ UNCHANGED <<now, factories>>
      BY <2>1, <3>1 DEF withdraw
    <3>. QED  BY <1>1, <3>1, <3>2, Ends
  <2>. QED  BY <1>1, <1>2, <1>4, <2>1, AgreesToLock
          DEF OnInstructions, Reject, Withdraw, RInv, Lifecycle!Step
<1>5. CASE UseRules
  BY <1>1, <1>2, <1>5, ApprovalIsInvisible, FiresRule DEF UseRules, RInv, Lifecycle!Step
<1>6. CASE EndLocks
  <2>1. "expire" \in Fragment /\ "cancel" \in Fragment
    BY PolicyAssumption
  <2>. QED  BY <1>1, <1>2, <1>6, <2>1, RefundEnds DEF EndLocks, Expire, Cancel, RInv, Lifecycle!Step
<1>7. CASE ChangeTerms
  BY <1>1, <1>2, <1>7, RenewsLock DEF ChangeTerms, RInv, Lifecycle!Step
<1>8. CASE Environment
  <2>1. IdsOK' /\ (UNCHANGED now \/ Earlier(now, now'))
        /\ \A id \in LockIds : lockUnder(id)' = lockUnder(id)
    BY <1>1, <1>8, EnvironmentTicks
  <2>. QED  BY <1>1, <2>1 DEF RInv, Lifecycle!Next, Lifecycle!Tick
<1>9. CASE UNCHANGED vars
  <2>1. UNCHANGED <<now, factories, instructions, locks>>
    BY <1>9 DEF vars, contracts
  <2>2. \A id \in LockIds : lockUnder(id)' = lockUnder(id)
    BY <2>1 DEF lockUnder, lockOf, live
  <2>. QED  BY <1>1, <2>1, <2>2 DEF RInv, IdsOK, live
<1>. QED  BY <1>3, <1>4, <1>5, <1>6, <1>7, <1>8, <1>9 DEF Next

\* The registry implements the lifecycle of locks: under every lock ID, whatever
\* contracts are replaced, each rule fires at most once over all amendments,
\* nothing but the end comes after the expiry, only a rule that fires before it takes
\* from the amount, and an ended lock stays ended (LifecycleSpec).
THEOREM RegistryImplementsLifecycle == Spec => LifecycleSpec
<1>1. RInv /\ [Next]_vars => RInv' /\ [Lifecycle!Next]_<<now, [id \in LockIds |-> lockUnder(id)]>>
  BY RefinesStep
<1>2. Init => RInv /\ Lifecycle!Init
  BY RefinesInit
<1>. QED  BY <1>1, <1>2, PTL DEF Spec, LifecycleSpec, Lifecycle!Spec

-------------------------------------------------------------------------------
(* The registry keeps the account book: what a step pays in or out is         *)
(* explained by the one lock that it touches.                                 *)

\* A lock is over an instrument that is traded.
TradedOK == \A s \in live : s.terms.instrumentId \in Instruments

BookInv == MoneyInv /\ IdsOK /\ TradedOK

\* The sums of the account book are those of the community module.
LEMMA BookSum == \A f, S : Book!SumFunctionOnSet(f, S) = SumFunctionOnSet(f, S)
BY DEF SumFunctionOnSet, FoldFunctionOnSet, MapThenFoldSet,
       Book!SumFunctionOnSet, Book!FoldFunctionOnSet, Book!MapThenFoldSet

\* What is gained over all books, when only the books of C gain.
LEMMA GainedOver ==
    ASSUME NEW C, IsFiniteSet(C), C \subseteq Book!Books, NEW f,
           \A book \in C : Book!gain(book) \in Int /\ f[book] = Book!gain(book),
           \A book \in Book!Books : book \notin C => Book!gain(book) = 0
    PROVE  Book!gained = SumFunctionOnSet(f, C)
<1> DEFINE g == [book \in Book!Books |-> Book!gain(book)]
           D == {book \in Book!Books : Book!gain(book) # 0}
<1>1. /\ \A book \in C : g[book] \in Int /\ g[book] = f[book]
      /\ \A book \in C : book \notin D => g[book] = 0
      /\ C \intersect D = D
  OBVIOUS
<1>2. Book!gained = SumFunctionOnSet(g, D)
  BY BookSum DEF Book!gained
<1>. HIDE DEF g, D
<1>3. SumFunctionOnSet(g, C) = SumFunctionOnSet(g, C \intersect D)
  BY <1>1, SumSupport
<1>4. SumFunctionOnSet(g, C) = SumFunctionOnSet(f, C)
  BY <1>1, SumAgree
<1>. QED  BY <1>1, <1>2, <1>3, <1>4

LEMMA GainIs ==
    ASSUME MoneyInv, NEW book \in Book!Books, NEW n \in Int,
           circulating(book[1], book[2], tokens') = circulating(book[1], book[2], tokens) + n
    PROVE  Book!gain(book) = n
<1>1. circulating(book[1], book[2], tokens) \in Int
  BY BalanceType DEF MoneyInv
<1>2. /\ unlocked[book] = circulating(book[1], book[2], tokens)
      /\ unlocked'[book] = circulating(book[1], book[2], tokens')
  BY DEF unlocked, Book!Books
<1>. QED  BY <1>1, <1>2 DEF Book!gain

\* One account is paid, or pays.
LEMMA OneGains ==
    ASSUME MoneyInv, NEW terms, terms.authorizer \in Accounts, terms.instrumentId \in Instruments,
           NEW n \in Int,
           \A a, i : circulating(a, i, tokens') = circulating(a, i, tokens) + forAuthorizer(a, i, terms, n)
    PROVE  Book!onlyFor({terms.authorizer}, terms.instrumentId) /\ Book!gained = n
<1> DEFINE own == <<terms.authorizer, terms.instrumentId>>
           C == {own}
           f == [book \in C |-> n]
<1>1. \A book \in Book!Books : Book!gain(book) = IF book = own THEN n ELSE 0
  <2>1. ASSUME NEW book \in Book!Books
        PROVE  Book!gain(book) = IF book = own THEN n ELSE 0
    <3>1. book = own <=> book[1] = terms.authorizer /\ book[2] = terms.instrumentId
      BY DEF Book!Books
    <3>2. forAuthorizer(book[1], book[2], terms, n) = IF book = own THEN n ELSE 0
      BY <3>1 DEF forAuthorizer
    <3>3. (IF book = own THEN n ELSE 0) \in Int
      OBVIOUS
    <3>. HIDE DEF own
    <3>. QED  BY <3>2, <3>3, GainIs
  <2>. QED  BY <2>1
<1>2. own \in Book!Books
  BY DEF Book!Books
<1>3. Book!onlyFor({terms.authorizer}, terms.instrumentId)
  BY <1>1 DEF Book!onlyFor
<1>4. /\ IsFiniteSet(C) /\ C \subseteq Book!Books
      /\ \A book \in C : Book!gain(book) \in Int /\ f[book] = Book!gain(book)
      /\ \A book \in Book!Books : book \notin C => Book!gain(book) = 0
  BY <1>1, <1>2, FS_Singleton
<1>5. own \in C /\ f[own] = n /\ (\A book \in C : f[book] \in Int) /\ \A book \in C : book # own => f[book] = 0
  OBVIOUS
<1>. HIDE DEF own, C, f
<1>6. Book!gained = SumFunctionOnSet(f, C)
  BY <1>4, GainedOver
<1>7. SumFunctionOnSet(f, C) = f[own]
  BY <1>4, <1>5, SumPoint
<1>. QED  BY <1>3, <1>5, <1>6, <1>7

\* The receivers of legs are paid, and nobody pays.
LEMMA ReceiversGain ==
    ASSUME MoneyInv, NEW legs \in Seq(PaidLeg), NEW instrument \in Instruments, NEW P,
           \A leg \in ToSet(legs) : leg.receiver \in P,
           \A a, i : circulating(a, i, tokens')
               = circulating(a, i, tokens) + IF i = instrument THEN paidTo(legs, a) ELSE 0
    PROVE  /\ Book!onlyFor(P, instrument) /\ \A book \in Book!Books : Book!gain(book) >= 0
           /\ Book!gained = total(legs)
<1> DEFINE S == DOMAIN legs
           f == [j \in S |-> legs[j].amount]
           class == [j \in S |-> <<legs[j].receiver, instrument>>]
           C == {class[j] : j \in S}
           members == [c \in C |-> {j \in S : legs[j].receiver = c[1]}]
           g == [c \in C |-> paidTo(legs, c[1])]
<1>1. /\ IsFiniteSet(S)
      /\ \A j \in S : legs[j] \in PaidLeg /\ legs[j] \in ToSet(legs)
  <2>1. S = 1 .. Len(legs) /\ Len(legs) \in Nat
    OBVIOUS
  <2>2. IsFiniteSet(S)
    BY <2>1, FS_Interval
  <2>. QED  BY <2>2 DEF ToSet
<1>2. \A j \in S : /\ f[j] \in Int /\ class[j] = <<legs[j].receiver, instrument>>
                   /\ legs[j].receiver \in Accounts /\ legs[j].receiver \in P
  BY <1>1, PolicyAssumption DEF PaidLeg
<1>3. \A book \in Book!Books : /\ paidTo(legs, book[1]) \in Nat
                               /\ Book!gain(book) = IF book[2] = instrument THEN paidTo(legs, book[1]) ELSE 0
  <2>1. ASSUME NEW book \in Book!Books
        PROVE  /\ paidTo(legs, book[1]) \in Nat
               /\ Book!gain(book) = IF book[2] = instrument THEN paidTo(legs, book[1]) ELSE 0
    <3> DEFINE n == IF book[2] = instrument THEN paidTo(legs, book[1]) ELSE 0
    <3>1. n \in Int /\ paidTo(legs, book[1]) \in Nat
      BY PaidType
    <3>2. circulating(book[1], book[2], tokens') = circulating(book[1], book[2], tokens) + n
      OBVIOUS
    <3>. HIDE DEF n
    <3>3. Book!gain(book) = n
      BY <3>1, <3>2, GainIs
    <3>. QED  BY <3>1, <3>3 DEF n
  <2>. QED  BY <2>1
<1>4. classified(S, class, C, members)
  <2>1. /\ \A j \in S : class[j] \in C
        /\ \A c \in C : \E j \in S : class[j] = c
        /\ \A c \in C : members[c] \subseteq S
    OBVIOUS
  <2>2. \A c \in C : \A j \in S : j \in members[c] <=> class[j] = c
    OBVIOUS
  <2>. HIDE DEF S, class, C, members
  <2>. QED  BY <2>1, <2>2 DEF classified
<1>5. \A c \in C : /\ c \in Book!Books /\ c[2] = instrument /\ g[c] = paidTo(legs, c[1])
                   /\ g[c] = SumFunctionOnSet(f, members[c])
  <2>1. \A c \in C : c \in Book!Books /\ c[2] = instrument
    BY <1>2 DEF Book!Books
  <2>2. \A c \in C : g[c] = paidTo(legs, c[1])
    OBVIOUS
  <2>3. \A c \in C : paidTo(legs, c[1]) = SumFunctionOnSet(f, members[c])
    BY DEF paidTo
  <2>. HIDE DEF C, g, members, f
  <2>. QED  BY <2>1, <2>2, <2>3
<1>6. \A book \in Book!Books : book \notin C /\ book[2] = instrument => paidTo(legs, book[1]) = 0
  <2>1. ASSUME NEW book \in Book!Books, book \notin C, book[2] = instrument
        PROVE  paidTo(legs, book[1]) = 0
    <3>1. book = <<book[1], instrument>>
      BY <2>1 DEF Book!Books
    <3>2. \A j \in S : legs[j].receiver # book[1]
      BY <2>1, <3>1
    <3>3. book[1] \notin {leg.receiver : leg \in ToSet(legs)}
      BY <3>2 DEF ToSet
    <3>. QED  BY <3>3, PaidType
  <2>. QED  BY <2>1
<1>7. total(legs) = SumFunctionOnSet(f, S)
  BY DEF total, SumFunction
<1>8. \A book \in C : book[1] \in P
  BY <1>2
<1>. HIDE DEF S, f, class, C, members, g
<1>9. IsFiniteSet(C) /\ SumFunctionOnSet(g, C) = SumFunctionOnSet(f, S)
  <2>1. \A i \in S : f[i] \in Int
    BY <1>2
  <2>2. \A c \in C : g[c] = SumFunctionOnSet(f, members[c])
    BY <1>5
  <2>. QED  BY ONLY <1>1, <1>4, <2>1, <2>2, SumByClass
<1>10. /\ C \subseteq Book!Books
       /\ \A book \in C : Book!gain(book) \in Int /\ g[book] = Book!gain(book)
       /\ \A book \in Book!Books : book \notin C => Book!gain(book) = 0
  BY <1>3, <1>5, <1>6
<1>11. Book!gained = SumFunctionOnSet(g, C)
  BY <1>9, <1>10, GainedOver
<1>12. Book!onlyFor(P, instrument)
  BY <1>3, <1>8, <1>10 DEF Book!onlyFor
<1>. QED  BY <1>3, <1>7, <1>9, <1>11, <1>12

LEMMA RefundPaid ==
    ASSUME NEW s \in State, NEW legId \in Fragment
    PROVE  \A a : paidTo(refundLeg(s, legId), a) = IF a = s.terms.authorizer THEN s.terms.amount ELSE 0
<1> DEFINE legs == refundLeg(s, legId)
           f == [j \in DOMAIN legs |-> legs[j].amount]
           K == {1}
<1>1. DOMAIN legs = K /\ legs[1].receiver = s.terms.authorizer /\ legs[1].amount = s.terms.amount
  BY DEF refundLeg
<1>2. s.terms.amount \in Int
  BY StateType
<1>. HIDE DEF legs
<1>3. f[1] = s.terms.amount /\ DOMAIN f = K /\ 1 \in K /\ IsFiniteSet(K) /\ \A j \in K : f[j] \in Int /\ j = 1
  BY <1>1, <1>2, FS_Singleton
<1> SUFFICES ASSUME NEW a
             PROVE  paidTo(legs, a) = IF a = s.terms.authorizer THEN s.terms.amount ELSE 0
  BY DEF legs
<1>4. paidTo(legs, a) = SumFunctionOnSet(f, IF a = s.terms.authorizer THEN K ELSE {})
  <2>1. {j \in DOMAIN legs : legs[j].receiver = a} = IF a = s.terms.authorizer THEN K ELSE {}
    BY <1>1
  <2>. QED  BY <2>1 DEF paidTo
<1>. HIDE DEF f, K
<1>5. SumFunctionOnSet(f, {}) = 0 /\ SumFunctionOnSet(f, K) = f[1]
  BY <1>3, SumEmpty, SumPoint
<1>. QED  BY <1>3, <1>4, <1>5

\* What stands under an ID after a step is over an instrument that is traded.
LEMMA TradedAfter ==
    ASSUME BookInv, IInv', NEW i, Touches(i),
           lockUnder(i)' = Lifecycle!Ended \/ lockUnder(i)'.instrument \in Instruments
    PROVE  TradedOK'
<1> SUFFICES ASSUME NEW s \in live' PROVE s.terms.instrumentId \in Instruments
  BY DEF TradedOK
<1>1. CASE s.lockId = i
  <2>1. BackingMatches'
    BY DEF IInv
  <2>2. lockUnder(i)' = lockOf(s)'
    BY <1>1, <2>1, UnderLiveNext
  <2>3. lockOf(s)'.phase # "ended" /\ lockOf(s)'.instrument = s.terms.instrumentId
    BY DEF lockOf
  <2>4. Lifecycle!Ended.phase = "ended"
    BY DEF Lifecycle!Ended
  <2>. QED  BY <2>2, <2>3, <2>4
<1>2. CASE s.lockId # i
  <2>1. s \in live
    BY <1>2 DEF Touches, others, live
  <2>. QED  BY <2>1 DEF BookInv, TradedOK
<1>. QED  BY <1>1, <1>2

\* The steps of the account book are those of the lifecycle, with the money.
LEMMA OneBookedStep ==
    ASSUME BackingMatches, BackingMatches', NEW i, Touches(i),
           Book!BookedStep(lockUnder(i), lockUnder(i)')
    PROVE  Book!BookedNext
<1> DEFINE lock == [id \in LockIds |-> lockUnder(id)]
<1>1. \A id \in LockIds : id # i => lockUnder(id)' = lockUnder(id)
  BY Untouched DEF Touches
<1>2. lock' = [lock EXCEPT ![i] = lock'[i]]
  BY <1>1 DEF Touches
<1>3. Book!BookedStep(lock[i], lock'[i])
  BY DEF Touches
<1>. QED  BY <1>2, <1>3 DEF Book!BookedNext, Touches

LEMMA SameSteps ==
    ASSUME NEW l, NEW m
    PROVE  /\ Lifecycle!Offer(l, m) => Book!Offer(l, m)
           /\ Lifecycle!Agree(l, m) => Book!Agree(l, m)
           /\ Lifecycle!Fire(l, m) => Book!Fire(l, m)
           /\ Lifecycle!Renew(l, m) => Book!Renew(l, m)
           /\ Lifecycle!End(l, m) => Book!End(l, m)
           /\ Lifecycle!amountOf(l) = Book!amountOf(l) /\ Lifecycle!Ended = Book!Ended
BY DEF Lifecycle!Offer, Lifecycle!Agree, Lifecycle!Fire, Lifecycle!Renew, Lifecycle!End,
       Lifecycle!amountOf, Lifecycle!phaseOf, Lifecycle!unexpired, Lifecycle!sameLock,
       Lifecycle!Unused, Lifecycle!Ended,
       Book!Offer, Book!Agree, Book!Fire, Book!Renew, Book!End,
       Book!amountOf, Book!phaseOf, Book!unexpired, Book!sameLock, Book!Unused, Book!Ended

\* An offer, a renewal and an end settle with the owner.
LEMMA StepSettles ==
    ASSUME BookInv, IInv', NEW i, Touches(i), NEW l, NEW m, l = lockUnder(i), m = lockUnder(i)',
           Lifecycle!Offer(l, m) \/ Lifecycle!Renew(l, m) \/ Lifecycle!End(l, m),
           NEW terms, terms.authorizer \in Accounts, terms.instrumentId \in Instruments, NEW n \in Int,
           \A a, j : circulating(a, j, tokens') = circulating(a, j, tokens) + forAuthorizer(a, j, terms, n),
           n = Lifecycle!amountOf(l) - Lifecycle!amountOf(m),
           m = Lifecycle!Ended => l.owner = terms.authorizer /\ l.instrument = terms.instrumentId,
           m # Lifecycle!Ended => m.owner = terms.authorizer /\ m.instrument = terms.instrumentId
    PROVE  TradedOK' /\ Book!BookedNext
<1>1. MoneyInv /\ BackingMatches /\ BackingMatches'
  BY DEF BookInv, MoneyInv, IInv
<1>2. Book!onlyFor({terms.authorizer}, terms.instrumentId) /\ Book!gained = n
  BY <1>1, OneGains
<1>3. Book!settles(l, m)
  <2>1. Book!gained = Book!amountOf(l) - Book!amountOf(m)
    <3>1. Lifecycle!amountOf(l) = Book!amountOf(l) /\ Lifecycle!amountOf(m) = Book!amountOf(m)
      BY SameSteps
    <3>. QED  BY <1>2, <3>1
  <2>2. Lifecycle!Ended = Book!Ended
    BY SameSteps
  <2>3. CASE m = Lifecycle!Ended
    BY <1>2, <2>1, <2>2, <2>3 DEF Book!settles
  <2>4. CASE m # Lifecycle!Ended
    BY <1>2, <2>1, <2>2, <2>4 DEF Book!settles
  <2>. QED  BY <2>3, <2>4
<1>4. Book!BookedStep(lockUnder(i), lockUnder(i)')
  BY <1>3, SameSteps DEF Book!BookedStep
<1>5. TradedOK'
  BY TradedAfter
<1>. QED  BY <1>1, <1>4, <1>5, OneBookedStep

LEMMA BooksOffer ==
    ASSUME BookInv, IInv', NEW f \in factories, NEW terms \in ProposedTerms, NEW inputs, NEW actors,
           Lock(f, terms, inputs, actors)
    PROVE  IdsOK' /\ TradedOK' /\ Book!BookedNext
<1> DEFINE l == lockUnder(f.lockId)
           m == lockUnder(f.lockId)'
           n == 0 - terms.amount
<1>1. RInv /\ MoneyInv
  BY DEF BookInv, MoneyInv, RInv
<1>2. /\ IdsOK' /\ Touches(f.lockId) /\ Lifecycle!Offer(l, m)
      /\ m.owner = terms.authorizer /\ m.instrument = terms.instrumentId /\ m.amount = terms.amount
  BY <1>1, OffersLock
<1>3. terms.authorizer \in Accounts /\ terms.instrumentId \in Instruments /\ n \in Int /\ terms.amount \in Int
  <2>1. terms \in LockTerms
    BY TestTokenAssumption
  <2>. QED  BY <2>1, PolicyAssumption DEF LockTerms, Decimal, Instruments
<1>4. \A a, j : circulating(a, j, tokens') = circulating(a, j, tokens) + forAuthorizer(a, j, terms, n)
  BY <1>1, LockReconciles
<1>5. Lifecycle!amountOf(l) = 0 /\ Lifecycle!amountOf(m) = m.amount /\ m # Lifecycle!Ended
  BY <1>2 DEF Lifecycle!Offer, Lifecycle!amountOf, Lifecycle!Unused, Lifecycle!Ended
<1>6. n = Lifecycle!amountOf(l) - Lifecycle!amountOf(m)
  BY <1>2, <1>5
<1>. HIDE DEF n
<1>. QED  BY <1>2, <1>3, <1>4, <1>5, <1>6, StepSettles

LEMMA BooksAgree ==
    ASSUME BookInv, IInv', NEW s \in instructions, NEW approver \in pending(s), NEW actors,
           Accept(s, approver, actors)
    PROVE  IdsOK' /\ TradedOK' /\ Book!BookedNext
<1> DEFINE l == lockUnder(s.lockId)
           m == lockUnder(s.lockId)'
<1>1. RInv /\ MoneyInv /\ BackingMatches /\ BackingMatches' /\ s \in live
  BY DEF BookInv, MoneyInv, RInv, IInv, live
<1>2. IdsOK' /\ Touches(s.lockId) /\ Lifecycle!Agree(l, m)
  BY <1>1, AgreesToLock
<1>3. UNCHANGED unlocked
  BY DEF Accept, unlocked
<1>4. l.instrument = s.terms.instrumentId
  <2>1. l = lockOf(s)
    BY <1>1, UnderLive
  <2>. QED  BY <2>1 DEF lockOf
<1>5. m.instrument \in Instruments
  BY <1>1, <1>2, <1>4 DEF Lifecycle!Agree, Lifecycle!sameLock, BookInv, TradedOK
<1>6. TradedOK'
  BY <1>2, <1>5, TradedAfter
<1>7. Book!BookedStep(l, m)
  BY <1>2, <1>3, SameSteps DEF Book!BookedStep
<1>. QED  BY <1>1, <1>2, <1>6, <1>7, OneBookedStep

LEMMA BooksReturn ==
    ASSUME BookInv, IInv', NEW s \in live, Touches(s.lockId), IdsOK',
           Lifecycle!End(lockUnder(s.lockId), lockUnder(s.lockId)'),
           \A a, j : circulating(a, j, tokens')
               = circulating(a, j, tokens) + forAuthorizer(a, j, s.terms, s.terms.amount)
    PROVE  IdsOK' /\ TradedOK' /\ Book!BookedNext
<1> DEFINE l == lockUnder(s.lockId)
           m == lockUnder(s.lockId)'
<1>1. BackingMatches /\ s \in State /\ s.terms.instrumentId \in Instruments
  BY DEF BookInv, MoneyInv, IInv, LocksOK, ActiveOK, PendingOK, LockOK, TradedOK, live
<1>2. s.terms.authorizer \in Accounts /\ s.terms.amount \in Int
  BY <1>1, StateType
<1>3. l = lockOf(s)
  BY <1>1, UnderLive
<1>4. /\ l.owner = s.terms.authorizer /\ l.instrument = s.terms.instrumentId
      /\ Lifecycle!amountOf(l) = s.terms.amount
  BY <1>3 DEF lockOf, Lifecycle!amountOf
<1>5. Lifecycle!End(l, m) /\ m = Lifecycle!Ended /\ Lifecycle!amountOf(m) = 0
  BY DEF Lifecycle!End, Lifecycle!Ended, Lifecycle!amountOf
<1>6. s.terms.amount = Lifecycle!amountOf(l) - Lifecycle!amountOf(m)
  BY <1>2, <1>4, <1>5
<1>. QED  BY <1>1, <1>2, <1>4, <1>5, <1>6, StepSettles

LEMMA BooksRenew ==
    ASSUME BookInv, IInv', NEW s \in locks, NEW newTerms \in ProposedTerms, NEW inputs, NEW actors,
           Amend(s, newTerms, inputs, actors)
    PROVE  IdsOK' /\ TradedOK' /\ Book!BookedNext
<1> DEFINE l == lockUnder(s.lockId)
           m == lockUnder(s.lockId)'
           n == s.terms.amount - newTerms.amount
<1>1. RInv /\ MoneyInv /\ s \in State /\ s.terms.instrumentId \in Instruments
  BY DEF BookInv, MoneyInv, RInv, IInv, LocksOK, ActiveOK, LockOK, TradedOK, live
<1>2. /\ IdsOK' /\ Touches(s.lockId) /\ Lifecycle!Renew(l, m)
      /\ l = lockOf(s) /\ m.amount = newTerms.amount
  BY <1>1, RenewsLock
<1>3. s.terms.authorizer \in Accounts /\ n \in Int /\ s.terms.amount \in Int /\ newTerms.amount \in Int
  <2>1. newTerms \in LockTerms
    BY TestTokenAssumption
  <2>. QED  BY <1>1, <2>1, StateType, PolicyAssumption DEF LockTerms, Decimal
<1>4. \A a, j : circulating(a, j, tokens') = circulating(a, j, tokens) + forAuthorizer(a, j, s.terms, n)
  BY <1>1, AmendReconciles
<1>5. /\ Lifecycle!amountOf(l) = s.terms.amount /\ Lifecycle!amountOf(m) = m.amount
      /\ m # Lifecycle!Ended
      /\ m.owner = s.terms.authorizer /\ m.instrument = s.terms.instrumentId
  <2>1. l.amount = s.terms.amount /\ l.owner = s.terms.authorizer /\ l.instrument = s.terms.instrumentId
    BY <1>2 DEF lockOf
  <2>. QED  BY <1>2, <2>1 DEF Lifecycle!Renew, Lifecycle!amountOf, Lifecycle!Ended
<1>6. n = Lifecycle!amountOf(l) - Lifecycle!amountOf(m)
  BY <1>2, <1>5
<1>. HIDE DEF n
<1>. QED  BY <1>1, <1>2, <1>3, <1>4, <1>5, <1>6, StepSettles

LEMMA BooksPayment ==
    ASSUME BookInv, IInv', NEW s \in locks, NEW rule \in s.terms.rules, NEW legs \in SuppliedLegs,
           NEW witness, NEW actors, Enact(s, rule, legs, witness, actors),
           \A a, j : circulating(a, j, tokens')
               = circulating(a, j, tokens)
                   + IF j = s.terms.instrumentId
                     THEN paidTo(resolvedLegs(s.terms, rule.outcome, legs), a) ELSE 0
    PROVE  IdsOK' /\ TradedOK' /\ Book!BookedNext
<1> DEFINE l == lockUnder(s.lockId)
           m == lockUnder(s.lockId)'
           paid == resolvedLegs(s.terms, rule.outcome, legs)
           P == s.accepted \union {s.terms.authorizer}
<1>1. /\ RInv /\ MoneyInv /\ ActiveOK(s) /\ s \in State /\ s.terms.instrumentId \in Instruments
      /\ BackingMatches /\ BackingMatches'
  BY DEF BookInv, MoneyInv, RInv, IInv, LocksOK, ActiveOK, LockOK, TradedOK, live
<1>2. /\ IdsOK' /\ Touches(s.lockId) /\ Lifecycle!Fire(l, m) /\ l = lockOf(s)
      /\ Lifecycle!amountOf(m) = remaining(s, paid)
  BY <1>1, FiresRule
<1>3. /\ paid \in Seq(PaidLeg) /\ \A leg \in ToSet(paid) : leg.receiver \in P
      /\ total(paid) \in Int /\ s.terms.amount \in Int
  <2>1. /\ s.terms \in LockTerms /\ s.terms.amount > 0 /\ s.terms.amount \in Int
        /\ legs \in Seq(Leg) /\ resolveOutcome(s.terms, rule.outcome, legs)
    BY <1>1, StateType, TestTokenAssumption DEF Enact, enactChecks
  <2>2. /\ paid \in Seq(PaidLeg) /\ total(paid) \in 1 .. s.terms.amount
        /\ \A leg \in ToSet(paid) : leg.receiver \in termReceivers(s.terms) \union {s.terms.authorizer}
    BY <2>1, ResolvedLegsPayReceivers
  <2>3. termReceivers(s.terms) \subseteq s.accepted
    BY <1>1 DEF ActiveOK, pending
  <2>. HIDE DEF paid
  <2>. QED  BY <2>1, <2>2, <2>3
<1>4. \A a, j : circulating(a, j, tokens')
        = circulating(a, j, tokens) + IF j = s.terms.instrumentId THEN paidTo(paid, a) ELSE 0
  OBVIOUS
<1>5. /\ Lifecycle!amountOf(l) = s.terms.amount /\ l.instrument = s.terms.instrumentId
      /\ l.agreed \union {l.owner} = P
  BY <1>2 DEF lockOf, Lifecycle!amountOf
<1>. HIDE DEF paid, P, l, m
<1>6. /\ Book!onlyFor(P, s.terms.instrumentId) /\ \A book \in Book!Books : Book!gain(book) >= 0
      /\ Book!gained = total(paid)
  BY <1>1, <1>3, <1>4, ReceiversGain
<1>7. Book!gained = Book!amountOf(l) - Book!amountOf(m)
  <2>1. Lifecycle!amountOf(l) = Book!amountOf(l) /\ Lifecycle!amountOf(m) = Book!amountOf(m)
    BY SameSteps
  <2>2. total(paid) = s.terms.amount - remaining(s, paid)
    BY <1>3 DEF remaining
  <2>. QED  BY <1>2, <1>5, <1>6, <2>1, <2>2
<1>8. Book!paysOut(l, m)
  BY <1>5, <1>6, <1>7 DEF Book!paysOut
<1>9. Book!BookedStep(l, m)
  BY <1>2, <1>8, SameSteps DEF Book!BookedStep
<1>10. m = Lifecycle!Ended \/ m.instrument \in Instruments
  BY <1>1, <1>2, <1>5 DEF Lifecycle!Fire, Lifecycle!sameLock
<1>11. TradedOK'
  BY <1>2, <1>10, TradedAfter DEF m
<1>. QED  BY <1>1, <1>2, <1>9, <1>11, OneBookedStep DEF l, m

LEMMA BooksInit ==
    ASSUME Init
    PROVE  BookInv /\ Book!BookInit
<1>1. MoneyInv /\ RInv /\ Lifecycle!Init
  BY MoneyInit, RefinesInit
<1>2. TradedOK
  BY DEF Init, TradedOK, live
<1>3. \A a, i : circulating(a, i, tokens) \in Nat
  BY <1>1, CirculatingType DEF MoneyInv, IInv, FundsOK, FiniteOK
<1>4. unlocked \in [Book!Books -> Nat]
  BY <1>3 DEF unlocked, Book!Books
<1>5. Book!Init
  BY <1>1 DEF Lifecycle!Init, Lifecycle!Unused, Book!Init, Book!Unused
<1>. QED  BY <1>1, <1>2, <1>4, <1>5 DEF BookInv, RInv, Book!BookInit

LEMMA BooksStep ==
    ASSUME BookInv, [Next]_vars
    PROVE  BookInv' /\ [Book!BookedNext]_<<now, [id \in LockIds |-> lockUnder(id)], unlocked>>
<1>1. MoneyInv' /\ IInv' /\ MoneyInv /\ RInv
  BY MoneyInductive DEF BookInv, MoneyInv, RInv
<1>2. CASE OnFactories
  BY <1>1, <1>2, BooksOffer DEF OnFactories, BookInv
<1>3. CASE OnInstructions
  <2>1. ASSUME NEW s \in instructions, withdraw(s)
        PROVE  IdsOK' /\ TradedOK' /\ Book!BookedNext
    <3>1. s \in live /\ s \notin locks
      BY <1>1, Apart DEF RInv, IInv, live
    <3>2. locks' = locks \ {s} /\ instructions' = instructions \ {s} /\ UNCHANGED <<now, factories>>
      BY <2>1, <3>1 DEF withdraw
    <3>3. /\ IdsOK' /\ Touches(s.lockId)
          /\ Lifecycle!End(lockUnder(s.lockId), lockUnder(s.lockId)')
      BY <1>1, <3>1, <3>2, Ends
    <3>4. \A a, i : circulating(a, i, tokens')
            = circulating(a, i, tokens) + forAuthorizer(a, i, s.terms, s.terms.amount)
      BY <1>1, <2>1, WithdrawReconciles
    <3>. QED  BY <1>1, <3>1, <3>3, <3>4, BooksReturn
  <2>. QED  BY <1>1, <1>3, <2>1, BooksAgree DEF OnInstructions, Reject, Withdraw, BookInv
<1>4. CASE UseRules
  <2>1. ASSUME NEW s \in locks, NEW rule \in s.terms.rules, NEW legs \in SuppliedLegs,
               NEW actors \in ActorSets, Approve(s, rule, legs, actors)
        PROVE  IdsOK' /\ TradedOK' /\ UNCHANGED <<now, [id \in LockIds |-> lockUnder(id)], unlocked>>
    <3>1. /\ UNCHANGED now /\ IdsOK'
          /\ \A id \in LockIds : lockUnder(id)' = lockUnder(id)
      BY <1>1, <2>1, ApprovalIsInvisible
    <3>2. UNCHANGED unlocked
      BY <2>1 DEF Approve, unlocked
    <3>3. TradedOK'
      <4>1. s \in State /\ s.terms.instrumentId \in Instruments
        BY <1>1 DEF RInv, IInv, LocksOK, ActiveOK, LockOK, BookInv, TradedOK, live
      <4>2. approved(s, rule, legs, actors).terms = s.terms
        BY <4>1, ApprovedKeeps
      <4>. QED  BY <2>1, <4>1, <4>2 DEF Approve, BookInv, TradedOK, live
    <3>. QED  BY <3>1, <3>2, <3>3
  <2>2. ASSUME NEW s \in locks, NEW rule \in s.terms.rules, NEW legs \in SuppliedLegs,
               NEW actors, NEW witness, Enact(s, rule, legs, witness, actors)
        PROVE  IdsOK' /\ TradedOK' /\ Book!BookedNext
    <3>1. \A a, j : circulating(a, j, tokens')
            = circulating(a, j, tokens)
                + IF j = s.terms.instrumentId
                  THEN paidTo(resolvedLegs(s.terms, rule.outcome, legs), a) ELSE 0
      BY <1>1, <2>2, RuleReconciles
    <3>. QED  BY <1>1, <2>2, <3>1, BooksPayment
  <2>. QED  BY <1>1, <1>4, <2>1, <2>2 DEF UseRules, BookInv
<1>5. CASE EndLocks
  <2>1. PICK s \in locks, legId \in {"expire", "cancel"} :
            enact(s, <<>>, refundLeg(s, legId), afterRefund(s, legId))
    BY <1>5 DEF EndLocks, Expire, Cancel
  <2>2. legId \in Fragment /\ s \in live /\ s \in State
    BY <1>1, PolicyAssumption DEF live, RInv, IInv, LocksOK, ActiveOK, LockOK
  <2>3. /\ IdsOK' /\ Touches(s.lockId)
        /\ Lifecycle!End(lockUnder(s.lockId), lockUnder(s.lockId)')
    BY <1>1, <2>1, <2>2, RefundEnds
  <2>4. \A a, i : circulating(a, i, tokens')
          = circulating(a, i, tokens)
              + IF i = s.terms.instrumentId THEN paidTo(refundLeg(s, legId), a) ELSE 0
    BY <1>1, <2>1, <2>2, RefundReconciles
  <2>5. \A a, i : circulating(a, i, tokens')
          = circulating(a, i, tokens) + forAuthorizer(a, i, s.terms, s.terms.amount)
    BY <2>2, <2>4, RefundPaid DEF forAuthorizer
  <2>. QED  BY <1>1, <2>2, <2>3, <2>5, BooksReturn DEF BookInv
<1>6. CASE ChangeTerms
  BY <1>1, <1>6, BooksRenew DEF ChangeTerms, BookInv
<1>7. CASE Environment
  <2>1. IdsOK' /\ (UNCHANGED now \/ Earlier(now, now'))
        /\ \A id \in LockIds : lockUnder(id)' = lockUnder(id)
    BY <1>1, <1>7, EnvironmentTicks
  <2>2. UNCHANGED <<tokens, locks, instructions>>
    BY <1>7 DEF Environment, Tick, ArchiveTokenRules, contracts
  <2>3. UNCHANGED unlocked /\ TradedOK'
    BY <2>2 DEF unlocked, BookInv, TradedOK, live
  <2>. QED  BY <1>1, <2>1, <2>3 DEF BookInv, Book!BookedNext, Book!Tick
<1>8. CASE UNCHANGED vars
  <2>1. UNCHANGED <<now, factories, instructions, locks, tokens>>
    BY <1>8 DEF vars, contracts
  <2>2. \A id \in LockIds : lockUnder(id)' = lockUnder(id)
    BY <2>1 DEF lockUnder, lockOf, live
  <2>3. UNCHANGED unlocked /\ TradedOK' /\ IdsOK'
    BY <2>1 DEF unlocked, BookInv, TradedOK, IdsOK, live
  <2>. QED  BY <1>1, <2>1, <2>2, <2>3 DEF BookInv
<1>. QED  BY <1>2, <1>3, <1>4, <1>5, <1>6, <1>7, <1>8 DEF Next

\* The registry implements the account book: what every step pays in or out of the
\* accounts is explained by the one lock that it touches.  Money is neither made nor
\* lost, a release reaches only receivers who have agreed, nobody pays for it, and
\* what is not released returns to the owner (BookSpec).
THEOREM RegistryKeepsTheBooks == Spec => BookSpec
<1>1. BookInv /\ [Next]_vars
        => BookInv' /\ [Book!BookedNext]_<<now, [id \in LockIds |-> lockUnder(id)], unlocked>>
  BY BooksStep
<1>2. Init => BookInv /\ Book!BookInit
  BY BooksInit
<1>. QED  BY <1>1, <1>2, PTL DEF Spec, BookSpec, Book!BookSpec

-------------------------------------------------------------------------------
(* How often a draft can be rejected.  A draft is rejected after an approval   *)
(* or a payment, and under the terms of a lock only so many of them are open.  *)

\* Who has approved the rule, with whatever legs.
approvedFor(s, ruleId) == UNION {a.approvers : a \in {b \in s.approvals : b.ruleId = ruleId}}

\* The approvals that can still be given.
openGrants(s) == {g \in grants(s.terms) : g[2] \notin approvedFor(s, g[1].id)}

openings(s) == Cardinality(s.terms.rules) + Cardinality(openGrants(s))

\* What has replaced or can still replace the contract of a draft.
pressure(s) == (IF draft[s.lockId] = "stale" THEN 1 ELSE 0) + openings(s)

untried(id) == draft[id] = "none" /\ rejections[id] = 0

\* A lock as it starts, pending or active.
fresh(s) == untried(s.lockId) /\ s.terms \in ProposedTerms /\ s.approvals = {}

DraftTypes == draft \in [LockIds -> {"none", "current", "stale"}] /\ rejections \in [LockIds -> Nat]

UntriedOK == (\A f \in factories : untried(f.lockId)) /\ (\A s \in instructions : fresh(s))

\* What the lock was agreed with bounds the rejections so far and those to come.
PressureOK ==
    \A s \in locks : \E terms \in ProposedTerms :
        /\ s.terms.rules \subseteq terms.rules
        /\ rejections[s.lockId] + pressure(s) <= rejectionBound(terms)

DraftsOK == UntriedOK /\ PressureOK /\ RejectionsBounded

SubInv == RInv /\ DraftTypes /\ (MaxGeneration = 0 => DraftsOK)

LEMMA UnionFinite ==
    ASSUME NEW S, IsFiniteSet(S), NEW f, DOMAIN f = S, \A x \in S : IsFiniteSet(f[x])
    PROVE  IsFiniteSet(UNION {f[x] : x \in S})
<1> DEFINE T == {f[x] : x \in S}
           g == [x \in S |-> f[x]]
<1>1. g \in Surjection(S, T)
  BY DEF Surjection
<1>2. IsFiniteSet(T)
  BY <1>1, FS_Surjection
<1>3. \A t \in T : IsFiniteSet(t)
  OBVIOUS
<1>. HIDE DEF T
<1>. QED  BY <1>2, <1>3, FS_UNION DEF T

LEMMA ApprovalPartiesFinite ==
    ASSUME NEW rule \in Rule
    PROVE  IsFiniteSet(approvalParties(rule))
<1> DEFINE listing == [a \in ToSet(rule.anyOf) |-> ToSet(a.allOf)]
           naming  == [g \in guards(rule) |-> guardParties(g)]
<1>1. rule.enactors \in Seq(Party) /\ rule.anyOf \in Seq(Alternative)
  BY DEF Rule
<1>2. ASSUME NEW a \in ToSet(rule.anyOf) PROVE a.allOf \in Seq(Guard)
  <2>1. a \in Alternative
    BY <1>1, ToSetOfSeq
  <2>. QED  BY <2>1 DEF Alternative
<1>3. IsFiniteSet(ToSet(rule.enactors)) /\ IsFiniteSet(ToSet(rule.anyOf))
  BY <1>1, ListFinite
<1>4. \A a \in ToSet(rule.anyOf) : IsFiniteSet(listing[a])
  BY <1>2, ListFinite
<1>5. guards(rule) = UNION {listing[a] : a \in ToSet(rule.anyOf)}
  BY DEF guards
<1>6. IsFiniteSet(guards(rule))
  <2>. HIDE DEF listing
  <2>1. DOMAIN listing = ToSet(rule.anyOf)
    BY DEF listing
  <2>. QED  BY <1>3, <1>4, <1>5, <2>1, UnionFinite
<1>7. \A g \in guards(rule) : IsFiniteSet(naming[g])
  <2> SUFFICES ASSUME NEW g \in guards(rule) PROVE IsFiniteSet(guardParties(g))
    OBVIOUS
  <2>1. PICK a \in ToSet(rule.anyOf) : g \in ToSet(a.allOf)
    BY DEF guards
  <2>2. CASE g.tag = "Parties"
    BY <2>1, <2>2, PartiesFinite DEF guardParties
  <2>3. CASE g.tag # "Parties"
    BY <2>3, FS_EmptySet DEF guardParties
  <2>. QED  BY <2>2, <2>3
<1>8. UNION {guardParties(g) : g \in guards(rule)} = UNION {naming[g] : g \in guards(rule)}
  OBVIOUS
<1>9. IsFiniteSet(UNION {naming[g] : g \in guards(rule)})
  <2>. HIDE DEF naming
  <2>1. DOMAIN naming = guards(rule)
    BY DEF naming
  <2>. QED  BY <1>6, <1>7, <2>1, UnionFinite
<1>. HIDE DEF naming
<1>. QED  BY <1>3, <1>8, <1>9, FS_Union DEF approvalParties, ruleParties

LEMMA GrantsFinite ==
    ASSUME NEW terms \in LockTerms, IsFiniteSet(terms.rules)
    PROVE  IsFiniteSet(grants(terms))
<1> DEFINE asked == {q \in terms.rules : hasPartiesGuard(q)}
           given == [r \in asked |-> {r} \X approvalParties(r)]
<1>1. IsFiniteSet(asked)
  BY FS_Subset
<1>2. ASSUME NEW r \in asked PROVE IsFiniteSet(given[r])
  <2>1. r \in Rule
    BY DEF LockTerms
  <2>. QED  BY <2>1, ApprovalPartiesFinite, FS_Singleton, FS_Product
<1>3. grants(terms) = UNION {given[r] : r \in asked}
  BY DEF grants
<1>4. DOMAIN given = asked
  OBVIOUS
<1>. HIDE DEF asked, given
<1>. QED  BY <1>1, <1>2, <1>3, <1>4, UnionFinite

LEMMA IsGrant ==
    ASSUME NEW terms, NEW g
    PROVE  g \in grants(terms) <=>
              \E r \in terms.rules : hasPartiesGuard(r) /\ \E p \in approvalParties(r) : g = <<r, p>>
BY DEF grants

LEMMA OpeningsType ==
    ASSUME NEW s \in State, IsFiniteSet(s.terms.rules)
    PROVE  /\ openings(s) \in Nat /\ rejectionBound(s.terms) \in Nat
           /\ openings(s) <= rejectionBound(s.terms)
           /\ IsFiniteSet(openGrants(s)) /\ Cardinality(openGrants(s)) \in Nat
           /\ Cardinality(s.terms.rules) \in Nat
<1>1. IsFiniteSet(grants(s.terms))
  BY StateType, GrantsFinite
<1>2. openGrants(s) \subseteq grants(s.terms)
  BY DEF openGrants
<1>3. /\ IsFiniteSet(openGrants(s))
      /\ Cardinality(openGrants(s)) <= Cardinality(grants(s.terms))
  BY <1>1, <1>2, FS_Subset
<1>4. /\ Cardinality(openGrants(s)) \in Nat /\ Cardinality(grants(s.terms)) \in Nat
      /\ Cardinality(s.terms.rules) \in Nat
  BY <1>1, <1>3, FS_CardinalityType
<1>. QED  BY <1>3, <1>4 DEF openings, rejectionBound

\* An approval is one fewer to come.
LEMMA ApprovalCloses ==
    ASSUME NEW s \in State, IsFiniteSet(s.terms.rules), NEW rule, NEW legs, NEW actors,
           approveChecks(s, rule, legs, actors), NEW t, t = approved(s, rule, legs, actors)
    PROVE  openings(t) + 1 <= openings(s)
<1> DEFINE adding == approversOf(rule, actors)
           before == approversFor(rule.id, legs, s.approvals)
           entry  == [ruleId |-> rule.id, legs |-> legs, approvers |-> adding \union before]
<1>1. /\ t.terms = s.terms
      /\ t.approvals = {a \in s.approvals : ~(a.ruleId = rule.id /\ a.legs = legs)} \union {entry}
  BY ApprovedKeeps DEF recordApproval
<1>2. /\ rule \in s.terms.rules /\ hasPartiesGuard(rule)
      /\ adding \intersect elsewhere(rule.id, legs, s.approvals) = {}
      /\ ~(adding \subseteq before)
  BY DEF approveChecks, approve
<1>3. PICK p \in adding : p \notin before
  BY <1>2
<1>4. p \notin approvedFor(s, rule.id) /\ p \in approvalParties(rule)
  BY <1>2, <1>3 DEF approvedFor, elsewhere, approversFor, approversOf
<1>5. entry.ruleId = rule.id /\ entry.approvers = adding \union before
  OBVIOUS
<1>6. p \in approvedFor(t, rule.id)
  BY <1>1, <1>3, <1>5 DEF approvedFor
<1>7. ASSUME NEW id PROVE approvedFor(s, id) \subseteq approvedFor(t, id)
  <2> SUFFICES ASSUME NEW a \in s.approvals, a.ruleId = id, NEW q \in a.approvers
               PROVE  q \in approvedFor(t, id)
    BY DEF approvedFor
  <2>1. CASE a.ruleId = rule.id /\ a.legs = legs
    <3>1. q \in before
      BY <2>1 DEF approversFor
    <3>. QED  BY <1>1, <1>5, <2>1, <3>1 DEF approvedFor
  <2>2. CASE ~(a.ruleId = rule.id /\ a.legs = legs)
    BY <1>1, <2>2 DEF approvedFor
  <2>. QED  BY <2>1, <2>2
<1>. HIDE DEF entry, adding, before
<1>8. openGrants(t) \subseteq openGrants(s) \ {<<rule, p>>}
  <2>1. \A g \in openGrants(t) : g # <<rule, p>>
    BY <1>6 DEF openGrants
  <2>. QED  BY <1>1, <1>7, <2>1 DEF openGrants
<1>9. <<rule, p>> \in openGrants(s)
  BY <1>2, <1>4, IsGrant DEF openGrants
<1>10. /\ IsFiniteSet(openGrants(s) \ {<<rule, p>>})
       /\ Cardinality(openGrants(s) \ {<<rule, p>>}) = Cardinality(openGrants(s)) - 1
  BY <1>9, OpeningsType, FS_RemoveElement
<1>11. IsFiniteSet(openGrants(t)) /\ Cardinality(openGrants(t)) <= Cardinality(openGrants(s)) - 1
  BY <1>8, <1>10, FS_Subset
<1>12. Cardinality(openGrants(t)) \in Nat
  BY <1>11, FS_CardinalityType
<1>13. Cardinality(openGrants(s)) \in Nat /\ Cardinality(s.terms.rules) \in Nat
  BY OpeningsType
<1>. QED  BY <1>1, <1>11, <1>12, <1>13 DEF openings

\* A rule that fires is one fewer to fire, and opens no approval.
LEMMA FiringCloses ==
    ASSUME NEW s, ActiveOK(s), IsFiniteSet(s.terms.rules), NEW rule \in s.terms.rules, NEW legs,
           NEW t, t = afterRule(s, rule, legs)
    PROVE  openings(t) + 1 <= openings(s) /\ t.terms.rules \subseteq s.terms.rules
<1> DEFINE rules == {r \in s.terms.rules : r.id # rule.id}
           paid  == resolvedLegs(s.terms, rule.outcome, legs)
           terms == [s.terms EXCEPT !.amount = remaining(s, paid), !.rules = rules]
<1>1. s \in State /\ \A q, r \in s.terms.rules : q.id = r.id => q = r
  BY DEF ActiveOK, LockOK
<1>2. terms.rules = rules
  BY <1>1, StateType DEF LockTerms
<1>3. t = mkState(s.lockId, terms, s.accepted \intersect termReceivers(terms),
                  s.holdingCid.gen + 1, s.enactedRuleIds \union {rule.id},
                  dropApprovals(rule.id, s.approvals))
  BY DEF afterRule, continuation
<1>. HIDE DEF terms
<1>4. t.terms.rules = rules /\ t.approvals = {a \in s.approvals : a.ruleId # rule.id}
  BY <1>2, <1>3 DEF mkState, dropApprovals
<1>5. rules \subseteq s.terms.rules \ {rule}
  OBVIOUS
<1>6. /\ IsFiniteSet(s.terms.rules \ {rule})
      /\ Cardinality(s.terms.rules \ {rule}) = Cardinality(s.terms.rules) - 1
  BY FS_RemoveElement
<1>7. IsFiniteSet(rules) /\ Cardinality(rules) <= Cardinality(s.terms.rules) - 1
  BY <1>5, <1>6, FS_Subset
<1>8. openGrants(t) \subseteq openGrants(s)
  <2> SUFFICES ASSUME NEW g \in openGrants(t) PROVE g \in openGrants(s)
    OBVIOUS
  <2>1. PICK r \in rules : hasPartiesGuard(r) /\ \E p \in approvalParties(r) : g = <<r, p>>
    BY <1>4, IsGrant DEF openGrants
  <2>2. PICK p \in approvalParties(r) : g = <<r, p>>
    BY <2>1
  <2>3. p \notin approvedFor(t, r.id)
    BY <2>2 DEF openGrants
  <2>4. p \notin approvedFor(s, r.id)
    BY <1>4, <2>2, <2>3 DEF approvedFor
  <2>. QED  BY <2>1, <2>2, <2>4, IsGrant DEF openGrants
<1>. HIDE DEF rules
<1>9. Cardinality(openGrants(s)) \in Nat /\ Cardinality(s.terms.rules) \in Nat /\ IsFiniteSet(openGrants(s))
  BY <1>1, OpeningsType
<1>10. IsFiniteSet(openGrants(t)) /\ Cardinality(openGrants(t)) <= Cardinality(openGrants(s))
  BY <1>8, <1>9, FS_Subset
<1>11. Cardinality(openGrants(t)) \in Nat /\ Cardinality(rules) \in Nat
  BY <1>7, <1>10, FS_CardinalityType
<1>. QED  BY <1>4, <1>5, <1>7, <1>9, <1>10, <1>11 DEF openings

-------------------------------------------------------------------------------
\* What every lock in an invariant state gives the steps below.
LEMMA DraftedLock ==
    ASSUME RInv, NEW s \in locks
    PROVE  /\ ActiveOK(s) /\ s \in State /\ s \in live /\ s.lockId \in LockIds
           /\ \A t \in locks : t.lockId = s.lockId => t = s
           /\ \A t \in instructions : t.lockId # s.lockId
           /\ \A f \in factories : f.lockId # s.lockId
BY Apart DEF RInv, IInv, IdsOK, LocksOK, ActiveOK, LockOK, BackingMatches, live

\* The pressure on a lock, when what it was agreed with bounds it.
LEMMA PressureType ==
    ASSUME RInv, DraftTypes, NEW s \in locks, NEW terms \in ProposedTerms,
           s.terms.rules \subseteq terms.rules
    PROVE  /\ IsFiniteSet(s.terms.rules)
           /\ openings(s) \in Nat /\ rejections[s.lockId] \in Nat
           /\ rejectionBound(terms) \in Nat
<1>1. IsFiniteSet(terms.rules) /\ terms \in LockTerms
  BY TestTokenAssumption
<1>2. IsFiniteSet(s.terms.rules)
  BY <1>1, FS_Subset
<1>3. s \in State /\ s.lockId \in LockIds
  BY DraftedLock
<1>4. rejectionBound(terms) \in Nat
  BY <1>1, GrantsFinite, FS_CardinalityType DEF rejectionBound
<1>. QED  BY <1>2, <1>3, <1>4, OpeningsType DEF DraftTypes

\* A wallet prepares or drops a draft.
LEMMA DraftingStep ==
    ASSUME RInv, DraftTypes, DraftsOK, NEW s \in locks,
           Prepare(s) \/ DropDraft(s)
    PROVE  DraftsOK'
<1>1. /\ UNCHANGED <<locks, instructions, factories, rejections>>
      /\ \A id \in LockIds : id # s.lockId => draft'[id] = draft[id]
      /\ draft[s.lockId] # "stale" /\ draft'[s.lockId] # "stale"
  BY DraftedLock DEF Prepare, DropDraft, vars, contracts, DraftTypes
<1>2. UntriedOK'
  BY <1>1, DraftedLock DEF DraftsOK, UntriedOK, fresh, untried, RInv, IdsOK, live
<1>3. ASSUME NEW t \in locks PROVE pressure(t)' = pressure(t)
  BY <1>1, <1>3, DraftedLock DEF pressure
<1>4. PressureOK'
  BY <1>1, <1>3 DEF DraftsOK, PressureOK
<1>5. RejectionsBounded'
  BY <1>1 DEF DraftsOK, RejectionsBounded
<1>. QED  BY <1>2, <1>4, <1>5 DEF DraftsOK

\* A draft is rejected: what had replaced its contract is now counted.
LEMMA RejectionStep ==
    ASSUME RInv, DraftTypes, DraftsOK, MaxGeneration = 0, NEW id \in LockIds, RejectDraft(id)
    PROVE  DraftsOK'
<1>1. /\ UNCHANGED <<locks, instructions, factories>>
      /\ draft[id] = "stale" /\ draft' = [draft EXCEPT ![id] = "none"]
      /\ rejections' = [rejections EXCEPT ![id] = IF \E s \in locks : s.lockId = id THEN @ + 1 ELSE @]
  BY DEF RejectDraft, vars, contracts
<1>2. \A i \in LockIds \ {id} : draft'[i] = draft[i] /\ rejections'[i] = rejections[i]
  BY <1>1 DEF DraftTypes
<1>3. UntriedOK'
  BY <1>1, <1>2 DEF DraftsOK, UntriedOK, fresh, untried, RInv, IdsOK, live
<1>4. ASSUME NEW s \in locks, NEW terms \in ProposedTerms, s.terms.rules \subseteq terms.rules,
             rejections[s.lockId] + pressure(s) <= rejectionBound(terms)
      PROVE  /\ rejections'[s.lockId] + pressure(s)' <= rejectionBound(terms)
             /\ rejections'[s.lockId] <= rejectionBound(terms)
  <2>1. /\ openings(s) \in Nat /\ rejections[s.lockId] \in Nat /\ rejectionBound(terms) \in Nat
        /\ s.lockId \in LockIds
    BY <1>4, PressureType, DraftedLock
  <2>2. CASE s.lockId = id
    <3>1. pressure(s) = 1 + openings(s) /\ pressure(s)' = 0 + openings(s)
          /\ rejections'[s.lockId] = rejections[s.lockId] + 1
      BY <1>1, <2>1, <2>2 DEF pressure, DraftTypes
    <3>. QED  BY <1>4, <2>1, <3>1
  <2>3. CASE s.lockId # id
    <3>1. pressure(s)' = pressure(s) /\ rejections'[s.lockId] = rejections[s.lockId]
      BY <1>2, <2>1, <2>3 DEF pressure
    <3>2. pressure(s) \in Nat
      BY <2>1 DEF pressure
    <3>. QED  BY <1>4, <2>1, <3>1, <3>2
  <2>. QED  BY <2>2, <2>3
<1>5. PressureOK'
  BY <1>1, <1>4 DEF DraftsOK, PressureOK
<1>6. RejectionsBounded'
  <2> SUFFICES ASSUME NEW i \in LockIds
               PROVE  rejections'[i] = 0 \/ \E terms \in ProposedTerms :
                                                rejections'[i] <= rejectionBound(terms)
    BY DEF RejectionsBounded
  <2>1. CASE \E s \in locks : s.lockId = i
    BY <1>4, <2>1 DEF DraftsOK, PressureOK
  <2>2. CASE ~\E s \in locks : s.lockId = i
    <3>1. rejections'[i] = rejections[i]
      BY <1>1, <1>2, <2>2 DEF DraftTypes
    <3>. QED  BY <3>1 DEF DraftsOK, RejectionsBounded
  <2>. QED  BY <2>1, <2>2
<1>. QED  BY <1>3, <1>5, <1>6 DEF DraftsOK

\* A rule is approved or fires: the contract is replaced, and one opening is closed.
Closing(s, n) ==
    /\ locks' \subseteq (locks \ {s}) \union {n}
    /\ n.lockId = s.lockId /\ n.terms.rules \subseteq s.terms.rules
    /\ IsFiniteSet(s.terms.rules) => openings(n) + 1 <= openings(s)
    /\ \A id \in LockIds : id # s.lockId => draft'[id] = draft[id]

LEMMA OpeningCloses ==
    ASSUME RInv, DraftTypes, UseLock
    PROVE  /\ UNCHANGED <<instructions, factories, rejections>>
           /\ \E s \in locks : \E n : Closing(s, n)
<1>1. PICK s \in locks, actors \in ActorSets, legs \in SuppliedLegs : \E rule \in s.terms.rules :
          \/ /\ Approve(s, rule, legs, actors)
             /\ draft' = [draft EXCEPT ![s.lockId] = IF @ = "current" THEN "stale" ELSE @]
          \/ \E witness \in Witnesses : Enact(s, rule, legs, witness, actors) /\ consumed(s.lockId)
  BY DEF UseLock
<1>2. PICK rule \in s.terms.rules :
          \/ /\ Approve(s, rule, legs, actors)
             /\ draft' = [draft EXCEPT ![s.lockId] = IF @ = "current" THEN "stale" ELSE @]
          \/ \E witness \in Witnesses : Enact(s, rule, legs, witness, actors) /\ consumed(s.lockId)
  BY <1>1
<1>3. ActiveOK(s) /\ s \in State /\ UNCHANGED rejections
  BY DraftedLock DEF UseLock
<1>4. \A id \in LockIds : id # s.lockId => draft'[id] = draft[id]
  BY <1>2 DEF consumed, DraftTypes
<1>5. CASE Approve(s, rule, legs, actors)
  <2> DEFINE n == approved(s, rule, legs, actors)
  <2>1. /\ locks' = (locks \ {s}) \union {n} /\ UNCHANGED <<instructions, factories>>
        /\ approveChecks(s, rule, legs, actors)
    BY <1>5 DEF Approve
  <2>2. n.lockId = s.lockId /\ n.terms = s.terms
    BY <1>3, ApprovedKeeps
  <2>3. IsFiniteSet(s.terms.rules) => openings(n) + 1 <= openings(s)
    BY <1>3, <2>1, ApprovalCloses
  <2>. HIDE DEF n
  <2>. QED  BY <1>3, <1>4, <2>1, <2>2, <2>3 DEF Closing
<1>6. CASE \E witness \in Witnesses : Enact(s, rule, legs, witness, actors)
  <2> DEFINE n == afterRule(s, rule, legs)
  <2>1. enact(s, rule.id, resolvedLegs(s.terms, rule.outcome, legs), n)
    BY <1>6 DEF Enact
  <2>2. locks' \subseteq (locks \ {s}) \union {n} /\ UNCHANGED <<instructions, factories>>
    BY <2>1 DEF enact
  <2>3. n.lockId = s.lockId
    BY DEF afterRule, continuation, mkState
  <2>4. n.terms.rules \subseteq s.terms.rules
    BY <1>3, RestKeepsApprovals
  <2>5. IsFiniteSet(s.terms.rules) => openings(n) + 1 <= openings(s)
    BY <1>3, FiringCloses
  <2>. HIDE DEF n
  <2>. QED  BY <1>3, <1>4, <2>2, <2>3, <2>4, <2>5 DEF Closing
<1>. QED  BY <1>2, <1>5, <1>6

LEMMA UseStep ==
    ASSUME RInv, RInv', DraftTypes, DraftTypes', DraftsOK, UseLock
    PROVE  DraftsOK'
<1>1. UNCHANGED <<instructions, factories, rejections>>
  BY OpeningCloses
<1>2. PICK s \in locks : \E n : Closing(s, n)
  BY OpeningCloses
<1>3. PICK n : Closing(s, n)
  BY <1>2
<1>4. /\ locks' \subseteq (locks \ {s}) \union {n}
      /\ n.lockId = s.lockId /\ n.terms.rules \subseteq s.terms.rules
      /\ IsFiniteSet(s.terms.rules) => openings(n) + 1 <= openings(s)
      /\ \A id \in LockIds : id # s.lockId => draft'[id] = draft[id]
  BY <1>3 DEF Closing
<1>5. UntriedOK'
  BY <1>1, <1>4, DraftedLock DEF DraftsOK, UntriedOK, fresh, untried, RInv, IdsOK, live
<1>6. ASSUME NEW t \in locks', t # n
      PROVE  t \in locks /\ pressure(t)' = pressure(t)
  BY <1>4, <1>6, DraftedLock DEF pressure
<1>7. ASSUME n \in locks'
      PROVE  \E terms \in ProposedTerms :
                 /\ n.terms.rules \subseteq terms.rules
                 /\ rejections[n.lockId] + pressure(n)' <= rejectionBound(terms)
  <2>1. PICK terms \in ProposedTerms :
            /\ s.terms.rules \subseteq terms.rules
            /\ rejections[s.lockId] + pressure(s) <= rejectionBound(terms)
    BY DEF DraftsOK, PressureOK
  <2>2. IsFiniteSet(s.terms.rules) /\ openings(s) \in Nat /\ rejections[s.lockId] \in Nat
        /\ rejectionBound(terms) \in Nat
    BY <2>1, PressureType
  <2>3. n \in State /\ IsFiniteSet(n.terms.rules)
    BY <1>4, <1>7, <2>2, FS_Subset DEF RInv, IInv, LocksOK, ActiveOK, LockOK
  <2>4. openings(n) \in Nat
    BY <2>3, OpeningsType
  <2>5. pressure(n)' <= 1 + openings(n) /\ pressure(n)' \in Nat
    BY <2>4 DEF pressure
  <2>6. pressure(s) >= openings(s) /\ pressure(s) \in Nat
    BY <2>2 DEF pressure
  <2>7. rejections[n.lockId] + pressure(n)' <= rejectionBound(terms)
    BY <1>4, <2>1, <2>2, <2>4, <2>5, <2>6
  <2>. QED  BY <1>4, <2>1, <2>7
<1>8. PressureOK'
  BY <1>1, <1>6, <1>7 DEF DraftsOK, PressureOK
<1>9. RejectionsBounded'
  BY <1>1 DEF DraftsOK, RejectionsBounded
<1>. QED  BY <1>5, <1>8, <1>9 DEF DraftsOK

\* What the other choices leave: the locks they leave alone, and new ones.
Settles ==
    /\ \A t \in locks' : t \in locks \/ fresh(t)
    /\ \A t \in instructions' : fresh(t)
    /\ factories' \subseteq factories

LEMMA FreshLock ==
    ASSUME RInv, UntriedOK, OnFactories
    PROVE  Settles
<1>1. PICK f \in factories, terms \in ProposedTerms, inputs \in SubBag(tokens), actors \in ActorSets :
          Lock(f, terms, inputs, actors)
  BY DEF OnFactories
<1> DEFINE s == locked(f, terms, actors)
<1>2. /\ locks' = locks \union start(s).locks
      /\ instructions' = instructions \union start(s).instructions
      /\ factories' \subseteq factories
  BY <1>1 DEF Lock
<1>3. start(s).locks \subseteq {s} /\ start(s).instructions \subseteq {s}
  BY DEF start
<1>4. fresh(s)
  BY DEF UntriedOK, locked, mkState, fresh
<1>. HIDE DEF s
<1>. QED  BY <1>2, <1>3, <1>4 DEF Settles, UntriedOK

LEMMA FreshAgreement ==
    ASSUME RInv, UntriedOK, OnInstructions
    PROVE  Settles
<1>1. PICK s \in instructions, actors \in ActorSets :
          \/ \E approver \in pending(s) : Accept(s, approver, actors) \/ Reject(s, approver, actors)
          \/ Withdraw(s, actors)
  BY DEF OnInstructions
<1>2. CASE \E approver \in pending(s) : Accept(s, approver, actors)
  <2>1. PICK approver \in pending(s) : Accept(s, approver, actors)
    BY <1>2
  <2> DEFINE n == acceptedBy(s, approver)
  <2>2. /\ locks' = locks \union start(n).locks
        /\ instructions' = (instructions \ {s}) \union start(n).instructions
        /\ factories' = factories
    BY <2>1 DEF Accept
  <2>3. start(n).locks \subseteq {n} /\ start(n).instructions \subseteq {n}
    BY DEF start
  <2>4. fresh(n)
    BY DEF UntriedOK, acceptedBy, mkState, fresh
  <2>. HIDE DEF n
  <2>. QED  BY <2>2, <2>3, <2>4 DEF Settles, UntriedOK
<1>3. CASE withdraw(s)
  BY <1>3 DEF withdraw, Settles, UntriedOK
<1>. QED  BY <1>1, <1>2, <1>3 DEF Reject, Withdraw

LEMMA OthersSettle ==
    ASSUME RInv, UntriedOK, MaxGeneration = 0,
           OnFactories \/ OnInstructions \/ EndLocks \/ ChangeTerms \/ Environment
    PROVE  Settles
<1>1. CASE EndLocks
  <2>1. PICK s \in locks, legId \in {"expire", "cancel"} :
            enact(s, <<>>, refundLeg(s, legId), afterRefund(s, legId))
    BY <1>1 DEF EndLocks, Expire, Cancel
  <2>2. s \in State /\ legId \in Fragment
    BY DraftedLock, PolicyAssumption
  <2>3. remaining(s, refundLeg(s, legId)) = 0
    BY <2>2, RefundLeg
  <2>4. locks' = locks \ {s} /\ UNCHANGED <<instructions, factories>>
    BY <2>1, <2>3 DEF enact
  <2>. QED  BY <2>4 DEF Settles, UntriedOK
<1>2. CASE ChangeTerms
  <2>1. PICK s \in locks : s.holdingCid.gen < MaxGeneration
    BY <1>2 DEF ChangeTerms
  <2>2. s.holdingCid.gen \in Nat
    BY DraftedLock, StateType
  <2>. QED  BY <2>1, <2>2
<1>3. CASE Environment
  BY <1>3 DEF Environment, Tick, ArchiveTokenRules, contracts, Settles, UntriedOK
<1>. QED  BY <1>1, <1>2, <1>3, FreshLock, FreshAgreement

\* The other choices make a draft stale only where they end the lock.
LEMMA OtherStep ==
    ASSUME RInv, RInv', DraftTypes, DraftsOK, MaxGeneration = 0, OtherChoices
    PROVE  DraftsOK'
<1>1. Settles
  BY OthersSettle DEF OtherChoices, DraftsOK
<1>2. /\ UNCHANGED rejections
      /\ draft' = [id \in LockIds |->
                      IF draft[id] = "current" /\ lockUnder(id)' # lockUnder(id) THEN "stale"
                      ELSE draft[id]]
  BY DEF OtherChoices
<1>3. \A id \in LockIds : untried(id) => untried(id)'
  BY <1>2 DEF untried
<1>4. ASSUME NEW s \in locks, s \in locks' PROVE pressure(s)' = pressure(s)
  <2>1. s \in live /\ s \in live' /\ s.lockId \in LockIds
    BY <1>4, DraftedLock DEF live
  <2>2. lockOf(s)' = lockOf(s)
    BY <1>4 DEF lockOf
  <2>3. lockUnder(s.lockId)' = lockUnder(s.lockId)
    BY <2>1, <2>2, UnderLive, UnderLiveNext DEF RInv, IInv
  <2>4. draft'[s.lockId] = draft[s.lockId]
    BY <1>2, <2>1, <2>3
  <2>. QED  BY <2>4 DEF pressure
<1>5. UntriedOK'
  BY <1>1, <1>3 DEF Settles, UntriedOK, DraftsOK, fresh, RInv, IdsOK, live
<1>6. ASSUME NEW s \in locks', fresh(s)
      PROVE  rejections'[s.lockId] + pressure(s)' <= rejectionBound(s.terms)
  <2>1. s.lockId \in LockIds /\ s \in State
    BY DEF RInv, IdsOK, live, IInv, LocksOK, ActiveOK, LockOK
  <2>2. rejections'[s.lockId] = 0 /\ draft'[s.lockId] = "none"
    BY <1>3, <1>6, <2>1 DEF fresh, untried
  <2>3. IsFiniteSet(s.terms.rules)
    BY <1>6, TestTokenAssumption DEF fresh
  <2>. QED  BY <2>1, <2>2, <2>3, OpeningsType DEF pressure
<1>7. PressureOK'
  <2> SUFFICES ASSUME NEW s \in locks'
               PROVE  \E terms \in ProposedTerms :
                         /\ s.terms.rules \subseteq terms.rules
                         /\ rejections'[s.lockId] + pressure(s)' <= rejectionBound(terms)
    BY DEF PressureOK
  <2>1. CASE s \in locks
    BY <1>2, <1>4, <2>1 DEF DraftsOK, PressureOK
  <2>2. CASE fresh(s)
    BY <1>6, <2>2 DEF fresh
  <2>. QED  BY <1>1, <2>1, <2>2 DEF Settles
<1>8. RejectionsBounded'
  BY <1>2 DEF DraftsOK, RejectionsBounded
<1>. QED  BY <1>5, <1>7, <1>8 DEF DraftsOK

-------------------------------------------------------------------------------
LEMMA SubmissionsAreNext == SubmissionsNext => [Next]_vars
BY DEF SubmissionsNext, Prepare, DropDraft, RejectDraft, UseLock, OtherChoices, Next, UseRules

LEMMA DraftTypesKept ==
    ASSUME RInv, DraftTypes, [SubmissionsNext]_submissionVars
    PROVE  DraftTypes'
<1>1. ASSUME NEW s \in locks, Prepare(s) \/ DropDraft(s) PROVE DraftTypes'
  BY <1>1 DEF Prepare, DropDraft, DraftTypes
<1>2. ASSUME NEW id \in LockIds, RejectDraft(id) PROVE DraftTypes'
  BY <1>2 DEF RejectDraft, DraftTypes
<1>3. CASE UseLock
  <2>1. \E id : \/ draft' = [draft EXCEPT ![id] = IF @ = "current" THEN "stale" ELSE @]
                \/ draft' = [draft EXCEPT ![id] = "none"]
    BY <1>3 DEF UseLock, consumed
  <2>. QED  BY <1>3, <2>1 DEF UseLock, DraftTypes
<1>4. CASE OtherChoices
  BY <1>4 DEF OtherChoices, DraftTypes
<1>5. CASE UNCHANGED submissionVars
  BY <1>5 DEF submissionVars, DraftTypes
<1>. QED  BY <1>1, <1>2, <1>3, <1>4, <1>5 DEF SubmissionsNext

LEMMA SubmissionsStart == SubmissionsInit => SubInv
<1> SUFFICES ASSUME SubmissionsInit PROVE SubInv
  OBVIOUS
<1>1. RInv /\ locks = {} /\ instructions = {} /\ factories \subseteq {f \in Factories : noSlash(f.lockId)}
  BY RefinesInit DEF SubmissionsInit, Init
<1>2. DraftTypes
  BY DEF SubmissionsInit, DraftTypes
<1>3. \A id \in LockIds : untried(id)
  BY DEF SubmissionsInit, untried
<1>4. DraftsOK
  BY <1>1, <1>3 DEF DraftsOK, UntriedOK, PressureOK, RejectionsBounded, untried, LockIds
<1>. QED  BY <1>1, <1>2, <1>4 DEF SubInv

LEMMA SubmissionsInductive == SubInv /\ [SubmissionsNext]_submissionVars => SubInv'
<1> SUFFICES ASSUME SubInv, [SubmissionsNext]_submissionVars PROVE SubInv'
  OBVIOUS
<1>1. RInv /\ DraftTypes
  BY DEF SubInv
<1>2. [Next]_vars
  BY SubmissionsAreNext DEF submissionVars
<1>3. RInv' /\ DraftTypes'
  BY <1>1, <1>2, RefinesStep, DraftTypesKept
<1>4. ASSUME MaxGeneration = 0 PROVE DraftsOK'
  <2>1. DraftsOK
    BY <1>4 DEF SubInv
  <2>2. CASE UNCHANGED submissionVars
    BY <2>1, <2>2 DEF submissionVars, vars, contracts, DraftsOK, UntriedOK, PressureOK,
                      RejectionsBounded, fresh, untried, pressure
  <2>. QED  BY <1>1, <1>3, <1>4, <2>1, <2>2, DraftingStep, RejectionStep, UseStep, OtherStep
            DEF SubmissionsNext
<1>. QED  BY <1>3, <1>4 DEF SubInv

\* Nobody can keep an enactor from enacting by approving: unless the terms are amended,
\* the drafts of a lock are rejected at most once for every party that can approve a
\* rule and once for every rule (RejectionsBounded).
THEOREM RejectionsAlwaysBounded == SubmissionsSpec => []RejectionsBounded
<1>1. SubInv => RejectionsBounded
  BY DEF SubInv, DraftsOK, RejectionsBounded
<1>. QED  BY <1>1, SubmissionsStart, SubmissionsInductive, PTL DEF SubmissionsSpec
===============================================================================
