------------------------------ MODULE FoldSteps ------------------------------
(***************************************************************************)
(* Folds over sequences, step by step.  The community modules define       *)
(* FoldLeft by a CHOOSE of a recursive function on sets of positions; here *)
(* that function is shown to exist and to take one element after the       *)
(* other.  An INSTANCE with Op the operator that is folded gives the facts *)
(* about that fold: the facts about every fold would take an operator as a *)
(* parameter, which no prover at hand can instantiate.                     *)
(***************************************************************************)
EXTENDS FiniteSetsExt, WellFoundedInduction, TLAPS

CONSTANT Op(_, _)  \* what is folded: the result so far and an element

(* What MapThenFoldSet chooses for the first n elements when it takes the     *)
(* largest position each time.                                                *)
FoldOf(f, base, seq, n) ==
  f = [S \in SUBSET (1..n) |->
         IF S = {} THEN base ELSE LET x == Max(S) IN Op(f[S \ {x}], seq[x])]

\* Induction over the naturals, as a fact about sets.
LEMMA LeastNatural ==
  ASSUME NEW S \in SUBSET Nat, S # {}
  PROVE  \E m \in S : \A k \in S : m <= k
<1> DEFINE less == {ss \in Nat \X Nat : ss[1] < ss[2]}
<1>1. IsWellFoundedOn(less, Nat)
  BY NatLessThanWellFounded DEF OpToRel
<1> HIDE DEF less
<1>2. PICK m \in S : \A k \in S : ~(<<k, m>> \in less)
  BY <1>1, WFMin
<1>3. ASSUME NEW k \in S, k < m PROVE FALSE
  <2>1. k \in Nat /\ m \in Nat
    OBVIOUS
  <2>2. <<k, m>> \in less
    BY <2>1, <1>3 DEF less
  <2> QED BY <2>2, <1>2
<1>4. \A k \in S : k \in Nat /\ m \in Nat /\ ~(k < m)
  BY <1>3
<1> QED BY <1>4

LEMMA MaxOfPrefix ==
  ASSUME NEW n \in Nat \ {0}, NEW S \in SUBSET (1..n), n \in S
  PROVE  Max(S) = n
<1>1. \A y \in S : n >= y
  OBVIOUS
<1>2. \A x \in S : (\A y \in S : x >= y) => x = n
  OBVIOUS
<1> QED BY <1>1, <1>2 DEF Max

LEMMA FoldExists ==
  ASSUME NEW base, NEW seq, NEW n \in Nat
  PROVE  \E f : FoldOf(f, base, seq, n)
<1> DEFINE Without == {m \in Nat : ~\E f : FoldOf(f, base, seq, m)}
<1> SUFFICES ASSUME Without # {} PROVE FALSE
  OBVIOUS
<1>1. PICK m \in Without : \A k \in Without : m <= k
  BY LeastNatural
<1>2. m # 0
  <2>1. SUBSET (1..0) = {{}}
    OBVIOUS
  <2>2. FoldOf([S \in {{}} |-> base], base, seq, 0)
    BY <2>1 DEF FoldOf
  <2> QED BY <1>1, <2>2
<1>3. PICK f : FoldOf(f, base, seq, m - 1)
  BY <1>1, <1>2
<1> DEFINE g == [S \in SUBSET (1..m) |->
                  IF m \in S THEN Op(f[S \ {m}], seq[m]) ELSE f[S]]
<1> DEFINE h == [S \in SUBSET (1..m) |->
                  IF S = {} THEN base ELSE LET x == Max(S) IN Op(g[S \ {x}], seq[x])]
<1>4. ASSUME NEW S \in SUBSET (1..m) PROVE g[S] = h[S]
  <2>0. m \in Nat \ {0}
    BY <1>1, <1>2
  <2>1. CASE m \in S
    <3>1. Max(S) = m /\ S # {}
      BY <2>0, <2>1, MaxOfPrefix
    <3>2. S \ {m} \in SUBSET (1..m) /\ m \notin S \ {m}
      OBVIOUS
    <3>3. g[S \ {m}] = f[S \ {m}]
      BY <3>2
    <3> QED BY <2>1, <3>1, <3>3
  <2>2. CASE m \notin S
    <3>1. S \in SUBSET (1..(m - 1))
      BY <2>0, <2>2
    <3>2. f[S] = IF S = {} THEN base ELSE Op(f[S \ {Max(S)}], seq[Max(S)])
      BY <1>3, <3>1 DEF FoldOf
    <3>3. S # {} => g[S \ {Max(S)}] = f[S \ {Max(S)}]
      <4>1. S \ {Max(S)} \in SUBSET (1..m) /\ m \notin S \ {Max(S)}
        BY <2>2
      <4> QED BY <4>1
    <3> QED BY <2>2, <3>2, <3>3
  <2> QED BY <2>1, <2>2
<1>5. g = h
  BY <1>4
<1>6. FoldOf(g, base, seq, m)
  BY <1>5 DEF FoldOf
<1> QED BY <1>1, <1>6

\* The fold of the first n elements.
Result(base, seq, n) == (CHOOSE f : FoldOf(f, base, seq, n))[1..n]

(* A fold is a chain of applications of Op, from base through every element   *)
(* in order: what a for-of loop over a list does to the state it is given.    *)
THEOREM Steps ==
  ASSUME NEW base, NEW seq, NEW n \in Nat
  PROVE  \E h : /\ h[0] = base
                /\ \A k \in 1..n : h[k] = Op(h[k - 1], seq[k])
                /\ Result(base, seq, n) = h[n]
<1> DEFINE f == CHOOSE iter : FoldOf(iter, base, seq, n)
<1>1. FoldOf(f, base, seq, n)
  BY FoldExists
<1>2. Result(base, seq, n) = f[1..n]
  BY DEF Result
<1> HIDE DEF f
<1> DEFINE h == [k \in 0..n |-> f[1..k]]
<1>3. h[0] = base
  <2>1. 1..0 = {} /\ {} \in SUBSET (1..n)
    OBVIOUS
  <2>2. f[{}] = base
    BY <1>1, <2>1 DEF FoldOf
  <2>3. h[0] = f[1..0]
    OBVIOUS
  <2> QED BY <2>1, <2>2, <2>3
<1>4. ASSUME NEW k \in 1..n PROVE h[k] = Op(h[k - 1], seq[k])
  <2>0. k \in Nat \ {0} /\ k \in 0..n /\ k - 1 \in 0..n
    OBVIOUS
  <2>1. 1..k \in SUBSET (1..n) /\ 1..k # {} /\ k \in 1..k
    OBVIOUS
  <2>2. Max(1..k) = k
    BY <2>0, <2>1, MaxOfPrefix
  <2>3. (1..k) \ {k} = 1..(k - 1)
    BY <2>0
  <2>4. f[1..k] = Op(f[(1..k) \ {Max(1..k)}], seq[Max(1..k)])
    BY <1>1, <2>1 DEF FoldOf
  <2> QED BY <2>0, <2>2, <2>3, <2>4
<1>5. Result(base, seq, n) = h[n]
  BY <1>2
<1> QED BY <1>3, <1>4, <1>5

\* A loop over nothing leaves the state alone.
THEOREM NoStep ==
  ASSUME NEW base, NEW seq
  PROVE  Result(base, seq, 0) = base
BY Steps

(* A loop over a longer list is the loop over the list and one more step: how *)
(* chunks and parts are taken one after the other.                            *)
THEOREM OneMore ==
  ASSUME NEW base, NEW seq, NEW longer, NEW n \in Nat,
         \A k \in 1..n : longer[k] = seq[k]
  PROVE  Result(base, longer, n + 1) = Op(Result(base, seq, n), longer[n + 1])
<1>1. PICK g : /\ g[0] = base
               /\ \A k \in 1..n : g[k] = Op(g[k - 1], seq[k])
               /\ Result(base, seq, n) = g[n]
  BY Steps
<1>2. PICK h : /\ h[0] = base
               /\ \A k \in 1..(n + 1) : h[k] = Op(h[k - 1], longer[k])
               /\ Result(base, longer, n + 1) = h[n + 1]
  BY Steps
<1> DEFINE Apart == {k \in 0..n : g[k] # h[k]}
<1>3. Apart = {}
  <2> SUFFICES ASSUME Apart # {} PROVE FALSE
    OBVIOUS
  <2>1. PICK m \in Apart : \A k \in Apart : m <= k
    <3>1. Apart \in SUBSET Nat
      OBVIOUS
    <3> HIDE DEF Apart
    <3> QED BY <3>1, LeastNatural
  <2>2. m \in 1..n /\ m \in 1..(n + 1) /\ m - 1 \in 0..n
    BY <2>1, <1>1, <1>2
  <2>3. g[m - 1] = h[m - 1]
    BY <2>1, <2>2
  <2>4. g[m] = Op(g[m - 1], seq[m])
    BY <2>2, <1>1
  <2>5. h[m] = Op(h[m - 1], longer[m])
    BY <2>2, <1>2
  <2>6. longer[m] = seq[m]
    BY <2>2
  <2>7. g[m] = h[m]
    BY <2>3, <2>4, <2>5, <2>6
  <2> QED BY <2>1, <2>7
<1>4. g[n] = h[n] /\ n + 1 \in 1..(n + 1) /\ (n + 1) - 1 = n
  BY <1>3
<1>5. h[n + 1] = Op(h[n], longer[n + 1])
  BY <1>2, <1>4
<1> QED BY <1>1, <1>2, <1>4, <1>5
=============================================================================
