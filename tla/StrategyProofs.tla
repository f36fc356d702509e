----------------------------- MODULE StrategyProofs -----------------------------
(***************************************************************************)
(* Proofs about the strategies that choose a model or an account.  The     *)
(* rotation of ComboRouting, for every combo and limit: the positions      *)
(* before the lead have had one more turn of StickyLimit requests than     *)
(* those after it, and the lead is in the middle of its own; no request    *)
(* gives up before each of its models was called or found HOT; and no      *)
(* cooldown of the throttle registry is cut short.  The panel of           *)
(* FusionPanel, for every panel, quorum, grace period and hard timeout:    *)
(* the state is well typed, stragglers cost at most the grace period, and  *)
(* the judge is asked on every text that was there when the collection     *)
(* ended.  StickyRoundRobin, for every number of accounts, concurrent      *)
(* selections and every limit: while no two selections fall into one       *)
(* millisecond, no account is taken more than Limit times in a row when    *)
(* there is another.                                                       *)
(***************************************************************************)
EXTENDS ComboRouting, FusionPanel, StickyRoundRobin,
        FiniteSetTheorems, WellFoundedInduction, TLAPS


Position == 0..Len(Models) - 1

TypedRotation ==
  /\ index \in Position
  /\ uses \in 0..StickyLimit - 1
  /\ leads \in [Position -> Nat]

\* The turns position j has had in a round that began at base.
Turns(j, base) ==
  IF j < index THEN base + StickyLimit ELSE IF j = index THEN base + uses ELSE base

EvenRound == \E base \in Nat : \A j \in Position : leads[j] = Turns(j, base)

RotationInv == TypedRotation /\ EvenRound

LEMMA ComboSize == Len(Models) \in Nat \ {0} /\ StickyLimit \in Nat \ {0}
BY ComboAssumption

LEMMA NextPosition ==
  ASSUME NEW n \in Nat \ {0}, NEW i \in 0..n - 1
  PROVE  (i + 1) % n = IF i + 1 = n THEN 0 ELSE i + 1
<1>1. CASE i + 1 = n
  BY <1>1
<1>2. CASE i + 1 # n
  BY <1>2
<1> QED BY <1>1, <1>2

LEMMA RotateInv == RotationInv /\ Rotate => RotationInv'
<1> SUFFICES ASSUME RotationInv, Rotate PROVE RotationInv'
  OBVIOUS
<1> USE ComboSize
<1>0. TypedRotation
  BY DEF RotationInv
<1>1. CASE ~Rotates
  BY <1>1 DEF RotationInv, TypedRotation, EvenRound, Turns, Rotate, rotation
<1>2. CASE Rotates /\ uses + 1 < StickyLimit
  <2>1. index' = index /\ uses' = uses + 1 /\ leads' = [leads EXCEPT ![index] = @ + 1]
    BY <1>0, <1>2 DEF Rotate, TypedRotation
  <2>2. TypedRotation'
    BY <1>0, <1>2, <2>1 DEF TypedRotation, Position
  <2>3. PICK base \in Nat : \A j \in Position : leads[j] = Turns(j, base)
    BY DEF RotationInv, EvenRound
  <2>4. \A j \in Position : leads'[j] = Turns(j, base)'
    BY <1>0, <2>1, <2>3 DEF TypedRotation, Turns, Position
  <2> QED BY <2>2, <2>4 DEF RotationInv, EvenRound
<1>3. CASE Rotates /\ uses + 1 >= StickyLimit
  <2>1. index' = (index + 1) % Len(Models) /\ uses' = 0 /\ leads' = [leads EXCEPT ![index] = @ + 1]
    BY <1>0, <1>3 DEF Rotate, TypedRotation
  <2>2. index' = IF index + 1 = Len(Models) THEN 0 ELSE index + 1
    BY <1>0, <2>1, NextPosition DEF TypedRotation, Position
  <2>3. TypedRotation'
    BY <1>0, <2>1, <2>2 DEF TypedRotation, Position
  <2>4. PICK base \in Nat : \A j \in Position : leads[j] = Turns(j, base)
    BY DEF RotationInv, EvenRound
  <2>5. uses + 1 = StickyLimit
    BY <1>0, <1>3 DEF TypedRotation
  <2>6. CASE index + 1 = Len(Models)
    <3>1. \A j \in Position : leads'[j] = Turns(j, base + StickyLimit)'
      BY <1>0, <2>1, <2>2, <2>4, <2>5, <2>6 DEF TypedRotation, Turns, Position
    <3>2. base + StickyLimit \in Nat
      OBVIOUS
    <3> QED BY <2>3, <3>1, <3>2 DEF RotationInv, EvenRound
  <2>7. CASE index + 1 # Len(Models)
    <3>1. \A j \in Position : leads'[j] = Turns(j, base)'
      BY <1>0, <2>1, <2>2, <2>4, <2>5, <2>7 DEF TypedRotation, Turns, Position
    <3> QED BY <2>3, <3>1 DEF RotationInv, EvenRound
  <2> QED BY <2>6, <2>7
<1> QED BY <1>0, <1>1, <1>2, <1>3 DEF TypedRotation

LEMMA InitInv == Init => RotationInv
<1> SUFFICES ASSUME Init PROVE RotationInv
  OBVIOUS
<1>1. TypedRotation
  BY ComboSize DEF Init, TypedRotation, Position
<1>2. \A j \in Position : leads[j] = Turns(j, 0)
  BY ComboSize DEF Init, Turns, Position
<1> QED BY <1>1, <1>2 DEF RotationInv, EvenRound

LEMMA StepInv == RotationInv /\ [Next]_vars => RotationInv'
<1> SUFFICES ASSUME RotationInv, [Next]_vars PROVE RotationInv'
  OBVIOUS
<1>0. ASSUME UNCHANGED rotation PROVE RotationInv'
  BY <1>0 DEF RotationInv, TypedRotation, EvenRound, Turns, rotation
<1>1. CASE \E r \in Req : \E fit \in Fits : Start(r, fit)
  BY <1>1, RotateInv DEF Start
<1>2. CASE \E r \in Req : Progress(r)
  BY <1>0, <1>2 DEF Progress, Succeed, FailOver, Transient, WaitedOut, Return, TryNext
<1>3. CASE HitStep
  BY <1>0, <1>3 DEF HitStep, RateLimited, DirectHit
<1>4. CASE ResetRotation
  <2>1. index' = 0 /\ uses' = 0 /\ leads' = [j \in Position |-> 0]
    BY <1>4 DEF ResetRotation, RotationInv, TypedRotation
  <2>2. TypedRotation'
    BY <2>1, ComboSize DEF TypedRotation, Position
  <2>3. \A j \in Position : leads'[j] = Turns(j, 0)'
    BY <2>1, ComboSize DEF Turns, Position
  <2> QED BY <2>2, <2>3 DEF RotationInv, EvenRound
<1>5. CASE Tick \/ \E n \in Name : DirectSuccess(Resolved[n])
  BY <1>0, <1>5 DEF Tick, DirectSuccess
<1>6. CASE UNCHANGED vars
  BY <1>0, <1>6 DEF vars, rotation
<1> QED BY <1>1, <1>2, <1>3, <1>4, <1>5, <1>6 DEF Next, ComboStep

\* getRotatedModels and resetComboRotation: however many requests start one
\* after the other, and whenever the combo is edited, no position of a combo of
\* any length has led more than StickyLimit requests more often than another.
THEOREM RotationIsFair == Spec => []BalancedLeads
<1>1. RotationInv => BalancedLeads
  <2> SUFFICES ASSUME RotationInv, NEW i \in Position, NEW j \in Position
               PROVE  leads[i] <= leads[j] + StickyLimit
    BY DEF BalancedLeads, RotationInv, TypedRotation
  <2>1. PICK base \in Nat : \A k \in Position : leads[k] = Turns(k, base)
    BY DEF RotationInv, EvenRound
  <2>2. leads[i] <= base + StickyLimit /\ base <= leads[j]
    BY <2>1, ComboSize DEF RotationInv, TypedRotation, Turns
  <2>3. leads[i] \in Nat /\ leads[j] \in Nat
    BY DEF RotationInv, TypedRotation
  <2> QED BY <2>2, <2>3, ComboSize
<1> QED BY <1>1, InitInv, StepInv, PTL DEF Spec

-----------------------------------------------------------------------------
(* What stays of an order: Only, which every partition of the models is    *)
(* built from, keeps the names of the set and no other.                    *)

KeptUpTo(f, n, order, names) ==
  f = [m \in 0..n |->
         IF m = 0 THEN <<>>
         ELSE IF order[m] \in names THEN Append(f[m - 1], order[m]) ELSE f[m - 1]]

LEMMA LeastNatural ==
  ASSUME NEW S \in SUBSET Nat, S # {}
  PROVE  \E m \in S : \A k \in S : m <= k
<1> DEFINE less == {ss \in Nat \X Nat : ss[1] < ss[2]}
<1>1. IsWellFoundedOn(less, Nat)
  BY NatLessThanWellFounded DEF OpToRel
<1> HIDE DEF less
<1>2. PICK m \in S : \A k \in S : ~(<<k, m>> \in less)
  BY <1>1, WFMin
<1>3. ASSUME NEW k \in S, k < m PROVE FALSE
  <2>1. k \in Nat /\ m \in Nat
    OBVIOUS
  <2>2. <<k, m>> \in less
    BY <2>1, <1>3 DEF less
  <2> QED BY <2>2, <1>2
<1>4. \A k \in S : k \in Nat /\ m \in Nat /\ ~(k < m)
  BY <1>3
<1> QED BY <1>4

LEMMA AppendToSet ==
  ASSUME NEW T, NEW s \in Seq(T), NEW e \in T
  PROVE  ToSet(Append(s, e)) = ToSet(s) \cup {e}
<1>1. Len(Append(s, e)) = Len(s) + 1 /\ Len(s) \in Nat
  OBVIOUS
<1>2. \A i \in 1..Len(s) : Append(s, e)[i] = s[i]
  OBVIOUS
<1>3. Append(s, e)[Len(s) + 1] = e
  OBVIOUS
<1> QED BY <1>1, <1>2, <1>3 DEF ToSet

LEMMA KeptExists ==
  ASSUME NEW order, NEW names, NEW n \in Nat
  PROVE  \E f : KeptUpTo(f, n, order, names)
<1> DEFINE Without == {m \in Nat : ~\E f : KeptUpTo(f, m, order, names)}
<1> SUFFICES ASSUME Without # {} PROVE FALSE
  OBVIOUS
<1>1. PICK m \in Without : \A k \in Without : m <= k
  BY LeastNatural
<1>2. m # 0
  <2>1. KeptUpTo([k \in 0..0 |-> <<>>], 0, order, names)
    BY DEF KeptUpTo
  <2> QED BY <1>1, <2>1
<1>3. PICK f : KeptUpTo(f, m - 1, order, names)
  BY <1>1, <1>2
<1> DEFINE g == [k \in 0..m |->
                  IF k = m
                  THEN IF order[m] \in names THEN Append(f[m - 1], order[m]) ELSE f[m - 1]
                  ELSE f[k]]
<1> DEFINE h == [k \in 0..m |->
                  IF k = 0 THEN <<>>
                  ELSE IF order[k] \in names THEN Append(g[k - 1], order[k]) ELSE g[k - 1]]
<1>4. ASSUME NEW k \in 0..m PROVE g[k] = h[k]
  <2>0. m \in Nat \ {0}
    BY <1>1, <1>2
  <2>1. CASE k = m
    BY <2>0, <2>1
  <2>2. CASE k # m
    <3>1. k \in 0..m - 1
      BY <2>0, <2>2
    <3>2. f[k] = IF k = 0 THEN <<>>
                 ELSE IF order[k] \in names THEN Append(f[k - 1], order[k]) ELSE f[k - 1]
      BY <1>3, <3>1 DEF KeptUpTo
    <3>3. k # 0 => k - 1 \in 0..m /\ k - 1 # m
      BY <2>0, <3>1
    <3> QED BY <2>2, <3>2, <3>3
  <2> QED BY <2>1, <2>2
<1>5. g = h
  BY <1>4
<1>6. KeptUpTo(g, m, order, names)
  BY <1>5 DEF KeptUpTo
<1> QED BY <1>1, <1>6

LEMMA OnlyIsKept ==
  ASSUME NEW T, NEW order \in Seq(T), NEW names
  PROVE  \E f : KeptUpTo(f, Len(order), order, names) /\ Only(order, names) = f[Len(order)]
<1> DEFINE kept == CHOOSE f : KeptUpTo(f, Len(order), order, names)
<1>1. KeptUpTo(kept, Len(order), order, names)
  <2>1. Len(order) \in Nat
    OBVIOUS
  <2> QED BY <2>1, KeptExists
<1>2. Only(order, names) = kept[Len(order)]
  BY DEF Only, KeptUpTo
<1> QED BY <1>1, <1>2

LEMMA OnlyKeeps ==
  ASSUME NEW T, NEW order \in Seq(T), NEW names
  PROVE  /\ Only(order, names) \in Seq(T)
         /\ ToSet(Only(order, names)) = ToSet(order) \cap names
         /\ Len(Only(order, names)) <= Len(order)
<1>1. PICK f : KeptUpTo(f, Len(order), order, names) /\ Only(order, names) = f[Len(order)]
  BY OnlyIsKept
<1> DEFINE Right(m) == /\ f[m] \in Seq(T)
                       /\ ToSet(f[m]) = {order[j] : j \in 1..m} \cap names
                       /\ Len(f[m]) <= m
<1> DEFINE Wrong == {m \in 0..Len(order) : ~Right(m)}
<1>2. f[0] = <<>> /\ \A m \in 1..Len(order) :
         f[m] = IF order[m] \in names THEN Append(f[m - 1], order[m]) ELSE f[m - 1]
  <2>1. Len(order) \in Nat
    OBVIOUS
  <2>2. f[0] = <<>>
    BY <1>1, <2>1 DEF KeptUpTo
  <2>3. ASSUME NEW m \in 1..Len(order)
        PROVE  f[m] = IF order[m] \in names THEN Append(f[m - 1], order[m]) ELSE f[m - 1]
    <3>1. m \in 0..Len(order) /\ m # 0
      BY <2>1
    <3> QED BY <1>1, <3>1 DEF KeptUpTo
  <2> QED BY <2>2, <2>3
<1>3. Wrong = {}
  <2> SUFFICES ASSUME Wrong # {} PROVE FALSE
    OBVIOUS
  <2>0. Wrong \in SUBSET Nat
    OBVIOUS
  <2>1. PICK m \in Wrong : \A k \in Wrong : m <= k
    <3> HIDE DEF Wrong
    <3> QED BY <2>0, LeastNatural
  <2>2. m # 0
    <3>1. f[0] \in Seq(T) /\ ToSet(f[0]) = {} /\ Len(f[0]) <= 0
      BY <1>2 DEF ToSet
    <3>2. {order[j] : j \in 1..0} = {}
      OBVIOUS
    <3>3. Right(0)
      <4> DEFINE g == f[0]
      <4>1. g \in Seq(T) /\ ToSet(g) = {} /\ Len(g) <= 0
        BY <3>1
      <4> HIDE DEF g
      <4>2. ToSet(g) = {order[j] : j \in 1..0} \cap names
        BY <4>1, <3>2
      <4> QED BY <4>1, <4>2 DEF g
    <3> QED BY <2>1, <3>3
  <2>3. m \in 1..Len(order) /\ m - 1 \in 0..Len(order)
    BY <2>1, <2>2
  <2>4. Right(m - 1)
    <3> HIDE DEF Right
    <3>1. ~(m <= m - 1)
      BY <2>3
    <3>2. m - 1 \notin Wrong
      <4> HIDE DEF Wrong
      <4> QED BY <2>1, <3>1
    <3> QED BY <2>3, <3>2
  <2>5. order[m] \in T
    BY <2>3
  <2>6. {order[j] : j \in 1..m} = {order[j] : j \in 1..m - 1} \cup {order[m]}
    BY <2>3
  <2>7. CASE order[m] \in names
    <3>1. f[m] = Append(f[m - 1], order[m])
      BY <1>2, <2>3, <2>7
    <3>2. f[m] \in Seq(T)
      BY <3>1, <2>4, <2>5
    <3>3. ToSet(f[m]) = ToSet(f[m - 1]) \cup {order[m]}
      <4> DEFINE g == f[m - 1]
      <4>1. g \in Seq(T)
        BY <2>4
      <4> HIDE DEF g
      <4>2. ToSet(Append(g, order[m])) = ToSet(g) \cup {order[m]}
        BY <4>1, <2>5, AppendToSet
      <4> QED BY <4>2, <3>1 DEF g
    <3>4. Len(f[m]) <= m
      <4> DEFINE g == f[m - 1]
      <4>1. g \in Seq(T) /\ Len(g) <= m - 1 /\ f[m] = Append(g, order[m])
        BY <2>4, <3>1
      <4> HIDE DEF g
      <4> QED BY <4>1, <2>3
    <3> QED BY <2>1, <2>4, <2>6, <2>7, <3>2, <3>3, <3>4
  <2>8. CASE order[m] \notin names
    <3>1. f[m] = f[m - 1]
      BY <1>2, <2>3, <2>8
    <3>2. Len(f[m]) <= m
      <4> DEFINE g == f[m - 1]
      <4>1. g \in Seq(T) /\ Len(g) <= m - 1 /\ f[m] = g
        BY <2>4, <3>1
      <4> HIDE DEF g
      <4> QED BY <4>1, <2>3
    <3> QED BY <2>1, <2>4, <2>6, <2>8, <3>1, <3>2
  <2> QED BY <2>7, <2>8
<1>4. Right(Len(order))
  <2>1. Len(order) \in 0..Len(order)
    OBVIOUS
  <2> HIDE DEF Right
  <2> QED BY <1>3, <2>1
<1>5. {order[j] : j \in 1..Len(order)} = ToSet(order)
  BY DEF ToSet
<1> QED BY <1>1, <1>4, <1>5


LEMMA InToSet ==
  ASSUME NEW T, NEW s \in Seq(T), NEW i \in 1..Len(s)
  PROVE  s[i] \in ToSet(s)
BY DEF ToSet

LEMMA ConcatToSet ==
  ASSUME NEW T, NEW s \in Seq(T), NEW t \in Seq(T)
  PROVE  s \o t \in Seq(T) /\ ToSet(s \o t) = ToSet(s) \cup ToSet(t)
<1>1. Len(s \o t) = Len(s) + Len(t) /\ Len(s) \in Nat /\ Len(t) \in Nat /\ s \o t \in Seq(T)
  OBVIOUS
<1>2. \A i \in 1..Len(s) : (s \o t)[i] = s[i] /\ i \in 1..Len(s \o t)
  BY <1>1
<1>3. \A i \in 1..Len(t) : (s \o t)[Len(s) + i] = t[i] /\ Len(s) + i \in 1..Len(s \o t)
  BY <1>1
<1>4. ASSUME NEW i \in 1..Len(s \o t)
      PROVE  i \in 1..Len(s) \/ \E j \in 1..Len(t) : i = Len(s) + j
  <2>1. CASE i <= Len(s)
    BY <1>1, <2>1
  <2>2. CASE ~(i <= Len(s))
    <3>1. i - Len(s) \in 1..Len(t) /\ i = Len(s) + (i - Len(s))
      BY <1>1, <2>2
    <3> QED BY <3>1
  <2> QED BY <2>1, <2>2
<1>5. \A i \in 1..Len(s \o t) : (s \o t)[i] \in ToSet(s) \cup ToSet(t)
  <2> SUFFICES ASSUME NEW i \in 1..Len(s \o t) PROVE (s \o t)[i] \in ToSet(s) \cup ToSet(t)
    OBVIOUS
  <2>1. CASE i \in 1..Len(s)
    BY <2>1, <1>2 DEF ToSet
  <2>2. CASE \E j \in 1..Len(t) : i = Len(s) + j
    BY <2>2, <1>3 DEF ToSet
  <2> QED BY <2>1, <2>2, <1>4
<1>6. ToSet(s) \subseteq ToSet(s \o t) /\ ToSet(t) \subseteq ToSet(s \o t)
  <2> DEFINE u == s \o t
  <2>0. u \in Seq(T)
    BY <1>1
  <2>1. \A i \in 1..Len(s) : u[i] = s[i] /\ i \in 1..Len(u)
    BY <1>2
  <2>2. \A i \in 1..Len(t) : u[Len(s) + i] = t[i] /\ Len(s) + i \in 1..Len(u)
    BY <1>3
  <2> HIDE DEF u
  <2>3. ASSUME NEW i \in 1..Len(s) PROVE s[i] \in ToSet(u)
    BY <2>0, <2>1, InToSet
  <2>4. ASSUME NEW i \in 1..Len(t) PROVE t[i] \in ToSet(u)
    BY <2>0, <2>2, InToSet
  <2>5. ToSet(s) \subseteq ToSet(u) /\ ToSet(t) \subseteq ToSet(u)
    BY <2>3, <2>4 DEF ToSet
  <2> QED BY <2>5 DEF u
<1>7. ToSet(s \o t) \subseteq ToSet(s) \cup ToSet(t)
  BY <1>1, <1>5 DEF ToSet
<1> QED BY <1>1, <1>6, <1>7

(* getRotatedModels: the rotated list has every model of the combo. *)
LEMMA RotatedHasAll ==
  ASSUME NEW i \in Position
  PROVE  RotatedFrom(i) \in Seq(Name) /\ ToSet(RotatedFrom(i)) = Name
<1> DEFINE back == SubSeq(Models, i + 1, Len(Models))
           front == SubSeq(Models, 1, i)
<1>0. Models \in Seq(Name) /\ Len(Models) \in Nat /\ i \in Nat /\ i < Len(Models)
  BY ComboAssumption, ComboSize DEF Position
<1>1. back \in Seq(Name) /\ Len(back) = Len(Models) - i
  BY <1>0
<1>2. front \in Seq(Name) /\ Len(front) = i
  BY <1>0
<1>3. \A j \in 1..Len(Models) - i : back[j] = Models[i + j]
  BY <1>0
<1>4. \A j \in 1..i : front[j] = Models[j]
  BY <1>0
<1> HIDE DEF back, front
<1>5. ToSet(back) = {Models[j] : j \in i + 1..Len(Models)}
  <2>1. ASSUME NEW j \in i + 1..Len(Models) PROVE Models[j] \in ToSet(back)
    <3>1. j - i \in 1..Len(Models) - i /\ i + (j - i) = j
      BY <1>0
    <3> QED BY <3>1, <1>1, <1>3 DEF ToSet
  <2>2. ASSUME NEW j \in 1..Len(back) PROVE back[j] \in {Models[k] : k \in i + 1..Len(Models)}
    <3>1. i + j \in i + 1..Len(Models) /\ j \in 1..Len(Models) - i
      BY <1>0, <1>1
    <3> QED BY <3>1, <1>3
  <2> QED BY <2>1, <2>2 DEF ToSet
<1>6. ToSet(front) = {Models[j] : j \in 1..i}
  BY <1>2, <1>4 DEF ToSet
<1>7. ToSet(back) \cup ToSet(front) = {Models[j] : j \in 1..Len(Models)}
  <2>1. \A j \in 1..Len(Models) : j \in 1..i \/ j \in i + 1..Len(Models)
    BY <1>0
  <2>2. \A j \in 1..i : j \in 1..Len(Models)
    BY <1>0
  <2>3. \A j \in i + 1..Len(Models) : j \in 1..Len(Models)
    BY <1>0
  <2> QED BY <2>1, <2>2, <2>3, <1>5, <1>6
<1>8. Name = {Models[j] : j \in 1..Len(Models)}
  BY DEF Name, ToSet
<1>9. RotatedFrom(i) = back \o front
  BY DEF RotatedFrom, back, front
<1>10. back \o front \in Seq(Name) /\ ToSet(back \o front) = ToSet(back) \cup ToSet(front)
  BY <1>1, <1>2, ConcatToSet
<1> QED BY <1>7, <1>8, <1>9, <1>10

(* reorderByCapabilities and partitionThrottledModels: what is left to call *)
(* is every name that is not HOT.                                           *)
LEMMA ReadyHasTheRest ==
  ASSUME NEW i \in Position, NEW fit
  PROVE  /\ Ready(Favouring(RotatedFrom(i), fit)) \in Seq(Name)
         /\ ToSet(Ready(Favouring(RotatedFrom(i), fit))) = Name \ HotNames
<1> DEFINE order == RotatedFrom(i)
           first == Only(order, fit)
           then == Only(order, Name \ fit)
<1>1. order \in Seq(Name) /\ ToSet(order) = Name
  BY RotatedHasAll
<1> HIDE DEF order
<1>2. first \in Seq(Name) /\ ToSet(first) = Name \cap fit
  BY <1>1, OnlyKeeps
<1>3. then \in Seq(Name) /\ ToSet(then) = Name \ fit
  BY <1>1, OnlyKeeps
<1>4. Favouring(order, fit) \in Seq(Name) /\ ToSet(Favouring(order, fit)) = Name
  <2> HIDE DEF first, then
  <2>1. first \o then \in Seq(Name) /\ ToSet(first \o then) = ToSet(first) \cup ToSet(then)
    BY <1>2, <1>3, ConcatToSet
  <2>2. Favouring(order, fit) = first \o then
    BY DEF Favouring, first, then
  <2> QED BY <1>2, <1>3, <2>1, <2>2
<1> DEFINE whole == Favouring(order, fit)
<1>5. whole \in Seq(Name) /\ ToSet(whole) = Name
  BY <1>4
<1> HIDE DEF whole
<1>6. Ready(whole) \in Seq(Name) /\ ToSet(Ready(whole)) = Name \ HotNames
  BY <1>5, OnlyKeeps DEF Ready
<1> QED BY <1>6 DEF whole, order

-----------------------------------------------------------------------------
(* No model is lost: what a request has not called and was not HOT is in    *)
(* its queue, whose head it is calling or waiting on.                       *)

UnderWay(r) == pc[r] \in {"calling", "waiting"}

Handled(r) ==
  /\ UnderWay(r) =>
       /\ queue[r] # <<>> /\ Head(queue[r]) \in tried[r]
       /\ outcome[r] = "none"
       /\ Name = tried[r] \cup hot[r] \cup ToSet(queue[r])
  /\ pc[r] = "idle" => outcome[r] = "none"
  /\ outcome[r] \in {"failed", "throttled"} => Name = tried[r] \cup hot[r]

TypedRequests ==
  /\ pc \in [Req -> Phase]
  /\ queue \in [Req -> Seq(Name)]
  /\ hot \in [Req -> SUBSET Name]
  /\ tried \in [Req -> SUBSET Name]
  /\ outcome \in [Req -> Outcome]

RequestInv == TypedRequests /\ \A r \in Req : Handled(r)

LEMMA HeadAndTail ==
  ASSUME NEW T, NEW s \in Seq(T), s # <<>>
  PROVE  /\ Head(s) \in T /\ Tail(s) \in Seq(T)
         /\ ToSet(s) = {Head(s)} \cup ToSet(Tail(s))
         /\ s[1] = Head(s)
<1>1. Len(s) \in Nat \ {0} /\ Head(s) = s[1] /\ Head(s) \in T
  OBVIOUS
<1>2. Tail(s) \in Seq(T) /\ Len(Tail(s)) = Len(s) - 1
  BY <1>1
<1>3. \A i \in 1..Len(s) - 1 : Tail(s)[i] = s[i + 1] /\ i + 1 \in 1..Len(s)
  BY <1>1
<1>4. \A i \in 1..Len(s) : i = 1 \/ (i - 1 \in 1..Len(s) - 1 /\ (i - 1) + 1 = i)
  BY <1>1
<1>5. ASSUME NEW i \in 1..Len(s) PROVE s[i] \in {Head(s)} \cup ToSet(Tail(s))
  <2>1. CASE i = 1
    BY <1>1, <2>1
  <2>2. CASE i # 1
    <3>1. i - 1 \in 1..Len(Tail(s)) /\ s[i] = Tail(s)[i - 1]
      BY <1>2, <1>3, <1>4, <2>2
    <3>2. Tail(s)[i - 1] \in ToSet(Tail(s))
      BY <1>2, <3>1, InToSet
    <3> QED BY <3>1, <3>2
  <2> QED BY <2>1, <2>2
<1>6. ASSUME NEW i \in 1..Len(Tail(s)) PROVE Tail(s)[i] \in ToSet(s)
  <2>1. i + 1 \in 1..Len(s) /\ Tail(s)[i] = s[i + 1]
    BY <1>2, <1>3
  <2> QED BY <2>1, InToSet
<1>7. Head(s) \in ToSet(s)
  BY <1>1 DEF ToSet
<1>8. ASSUME NEW x \in ToSet(s) PROVE x \in {Head(s)} \cup ToSet(Tail(s))
  <2>1. PICK i \in 1..Len(s) : x = s[i]
    BY DEF ToSet
  <2> QED BY <1>5, <2>1
<1>9. ASSUME NEW x \in ToSet(Tail(s)) PROVE x \in ToSet(s)
  <2>1. PICK i \in 1..Len(Tail(s)) : x = Tail(s)[i]
    BY <1>2 DEF ToSet
  <2> QED BY <1>6, <2>1
<1>10. ToSet(s) = {Head(s)} \cup ToSet(Tail(s))
  BY <1>7, <1>8, <1>9
<1> QED BY <1>1, <1>2, <1>10

LEMMA EmptyHasNone == ToSet(<<>>) = {}
BY DEF ToSet

LEMMA RequestInit == Init => RequestInv
BY DEF Init, RequestInv, TypedRequests, Handled, UnderWay, Phase, Outcome

(* A request whose own fields stay is handled as it was. *)
LEMMA RequestsKept ==
  RequestInv /\ UNCHANGED request => RequestInv'
BY DEF RequestInv, TypedRequests, Handled, UnderWay, request

(* A step of one request leaves the fields of the others alone. *)
OthersKept(r) ==
  \A q \in Req \ {r} :
    /\ pc'[q] = pc[q] /\ queue'[q] = queue[q] /\ hot'[q] = hot[q]
    /\ tried'[q] = tried[q] /\ outcome'[q] = outcome[q]

LEMMA RequestStep ==
  ASSUME RequestInv, NEW r \in Req, OthersKept(r), TypedRequests', Handled(r)'
  PROVE  RequestInv'
<1> SUFFICES ASSUME NEW q \in Req, q # r PROVE Handled(q)'
  BY DEF RequestInv
<1>1. Handled(q)
  BY DEF RequestInv
<1> QED BY <1>1 DEF OthersKept, Handled, UnderWay

LEMMA StartRequestInv ==
  ASSUME RequestInv, TypedRotation, NEW r \in Req, NEW fit, Start(r, fit)
  PROVE  RequestInv'
<1> DEFINE lead == IF Rotates THEN index ELSE 0
           ready == Ready(Favouring(RotatedFrom(lead), fit))
<1>0. TypedRequests
  BY DEF RequestInv
<1>1. lead \in Position
  BY ComboSize DEF TypedRotation, Position
<1> HIDE DEF lead
<1>2. ready \in Seq(Name) /\ ToSet(ready) = Name \ HotNames
  BY <1>1, ReadyHasTheRest
<1>3. /\ pc[r] = "idle"
      /\ queue' = [queue EXCEPT ![r] = ready]
      /\ hot' = [hot EXCEPT ![r] = HotNames]
      /\ pc' = [pc EXCEPT ![r] = IF ready = <<>> THEN "done" ELSE "calling"]
      /\ outcome' = [outcome EXCEPT ![r] = IF ready = <<>> THEN "throttled" ELSE @]
      /\ tried' = [tried EXCEPT ![r] = IF ready = <<>> THEN {} ELSE {Head(ready)}]
  BY DEF Start, lead
<1> HIDE DEF ready
<1>4. HotNames \subseteq Name
  BY DEF HotNames
<1>5. outcome[r] = "none"
  BY <1>3 DEF RequestInv, Handled
<1>6. CASE ready = <<>>
  <2>1. /\ pc' = [pc EXCEPT ![r] = "done"] /\ queue' = [queue EXCEPT ![r] = <<>>]
        /\ hot' = [hot EXCEPT ![r] = HotNames] /\ tried' = [tried EXCEPT ![r] = {}]
        /\ outcome' = [outcome EXCEPT ![r] = "throttled"]
    BY <1>3, <1>6
  <2>2. TypedRequests'
    BY <1>0, <1>4, <2>1 DEF TypedRequests, Phase, Outcome
  <2>3. Name = HotNames
    BY <1>2, <1>4, <1>6, EmptyHasNone
  <2>4. Handled(r)'
    BY <1>0, <2>1, <2>3 DEF Handled, UnderWay, TypedRequests
  <2>5. OthersKept(r)
    BY <1>0, <2>1 DEF OthersKept, TypedRequests
  <2> QED BY <2>2, <2>4, <2>5, RequestStep
<1>7. CASE ready # <<>>
  <2>1. /\ pc' = [pc EXCEPT ![r] = "calling"] /\ queue' = [queue EXCEPT ![r] = ready]
        /\ hot' = [hot EXCEPT ![r] = HotNames] /\ tried' = [tried EXCEPT ![r] = {Head(ready)}]
        /\ outcome' = [outcome EXCEPT ![r] = outcome[r]]
    BY <1>3, <1>7
  <2>2. Head(ready) \in Name
    BY <1>2, <1>7, HeadAndTail
  <2>3. TypedRequests'
    BY <1>0, <1>2, <1>4, <1>5, <2>1, <2>2 DEF TypedRequests, Phase, Outcome
  <2>4. /\ pc'[r] = "calling" /\ queue'[r] = ready /\ hot'[r] = HotNames
        /\ tried'[r] = {Head(ready)} /\ outcome'[r] = "none"
    BY <1>0, <1>5, <2>1 DEF TypedRequests
  <2>5. Name = tried'[r] \cup hot'[r] \cup ToSet(queue'[r])
    BY <1>2, <1>4, <2>2, <2>4
  <2>6. Handled(r)'
    BY <1>7, <2>4, <2>5 DEF Handled, UnderWay
  <2>7. OthersKept(r)
    BY <1>0, <2>1 DEF OthersKept, TypedRequests
  <2> QED BY <2>3, <2>6, <2>7, RequestStep
<1> QED BY <1>6, <1>7

LEMMA TryNextInv ==
  ASSUME RequestInv, NEW r \in Req, UnderWay(r), TryNext(r)
  PROVE  RequestInv'
<1> DEFINE rest == Tail(queue[r])
<1>0. TypedRequests /\ Handled(r)
  BY DEF RequestInv
<1>1. /\ queue[r] \in Seq(Name) /\ queue[r] # <<>> /\ Head(queue[r]) \in tried[r]
      /\ outcome[r] = "none" /\ tried[r] \subseteq Name /\ hot[r] \subseteq Name
      /\ Name = tried[r] \cup hot[r] \cup ToSet(queue[r])
  BY <1>0 DEF Handled, TypedRequests
<1>2. rest \in Seq(Name) /\ ToSet(queue[r]) = {Head(queue[r])} \cup ToSet(rest)
  BY <1>1, HeadAndTail
<1>3. Name = tried[r] \cup hot[r] \cup ToSet(rest)
  BY <1>1, <1>2
<1>4. queue' = [queue EXCEPT ![r] = rest] /\ hot' = hot
  BY DEF TryNext
<1>5. rest # <<>> => /\ pc' = [pc EXCEPT ![r] = "calling"]
                     /\ tried' = [tried EXCEPT ![r] = @ \cup {Head(rest)}]
                     /\ outcome' = outcome
  BY DEF TryNext
<1>6. rest = <<>> => /\ pc' = [pc EXCEPT ![r] = "done"]
                     /\ outcome' = [outcome EXCEPT ![r] = IF hot[r] # {} THEN "throttled" ELSE "failed"]
                     /\ tried' = tried
  BY DEF TryNext
<1> HIDE DEF rest
<1>7. CASE rest # <<>>
  <2>1. Head(rest) \in Name
    BY <1>2, <1>7, HeadAndTail
  <2>2. TypedRequests'
    <3>1. pc' \in [Req -> Phase] /\ outcome' \in [Req -> Outcome] /\ hot' \in [Req -> SUBSET Name]
      BY <1>0, <1>4, <1>5, <1>7 DEF TypedRequests, Phase
    <3>2. queue' \in [Req -> Seq(Name)]
      BY <1>0, <1>2, <1>4 DEF TypedRequests
    <3>3. tried[r] \cup {Head(rest)} \in SUBSET Name
      BY <1>1, <2>1
    <3>4. tried' \in [Req -> SUBSET Name]
      BY <1>0, <1>5, <1>7, <3>3 DEF TypedRequests
    <3> QED BY <3>1, <3>2, <3>4 DEF TypedRequests
  <2>3. /\ pc'[r] = "calling" /\ queue'[r] = rest /\ hot'[r] = hot[r]
        /\ tried'[r] = tried[r] \cup {Head(rest)} /\ outcome'[r] = "none"
    BY <1>0, <1>1, <1>4, <1>5, <1>7 DEF TypedRequests
  <2>4. Handled(r)'
    BY <1>3, <1>7, <2>1, <2>3 DEF Handled, UnderWay
  <2>5. OthersKept(r)
    BY <1>0, <1>4, <1>5, <1>7 DEF OthersKept, TypedRequests
  <2> QED BY <2>2, <2>4, <2>5, RequestStep
<1>8. CASE rest = <<>>
  <2>1. TypedRequests'
    BY <1>0, <1>1, <1>2, <1>4, <1>6, <1>8 DEF TypedRequests, Phase, Outcome
  <2>2. pc'[r] = "done" /\ hot'[r] = hot[r] /\ tried'[r] = tried[r]
    BY <1>0, <1>4, <1>6, <1>8 DEF TypedRequests
  <2>3. Name = tried[r] \cup hot[r]
    BY <1>3, <1>8, EmptyHasNone
  <2>4. Handled(r)'
    BY <2>2, <2>3 DEF Handled, UnderWay
  <2>5. OthersKept(r)
    BY <1>0, <1>4, <1>6, <1>8 DEF OthersKept, TypedRequests
  <2> QED BY <2>1, <2>4, <2>5, RequestStep
<1> QED BY <1>7, <1>8

LEMMA RequestProgressInv ==
  ASSUME RequestInv, NEW r \in Req, Progress(r)
  PROVE  RequestInv'
<1>0. TypedRequests /\ Handled(r)
  BY DEF RequestInv
<1>1. CASE FailOver(r) \/ WaitedOut(r)
  BY <1>1, TryNextInv DEF FailOver, WaitedOut, UnderWay
<1>2. CASE Succeed(r)
  <2>1. /\ pc' = [pc EXCEPT ![r] = "done"] /\ outcome' = [outcome EXCEPT ![r] = "ok"]
        /\ queue' = queue /\ hot' = hot /\ tried' = tried
    BY <1>2 DEF Succeed
  <2>2. TypedRequests'
    BY <1>0, <2>1 DEF TypedRequests, Phase, Outcome
  <2>3. Handled(r)'
    BY <1>0, <2>1 DEF Handled, UnderWay, TypedRequests
  <2>4. OthersKept(r)
    BY <1>0, <2>1 DEF OthersKept, TypedRequests
  <2> QED BY <2>2, <2>3, <2>4, RequestStep
<1>3. CASE Transient(r)
  <2>1. /\ pc[r] = "calling" /\ pc' = [pc EXCEPT ![r] = "waiting"]
        /\ outcome' = outcome /\ queue' = queue /\ hot' = hot /\ tried' = tried
    BY <1>3 DEF Transient
  <2>2. TypedRequests'
    BY <1>0, <2>1 DEF TypedRequests, Phase
  <2>3. Handled(r)'
    BY <1>0, <2>1 DEF Handled, UnderWay, TypedRequests
  <2>4. OthersKept(r)
    BY <1>0, <2>1 DEF OthersKept, TypedRequests
  <2> QED BY <2>2, <2>3, <2>4, RequestStep
<1>4. CASE Return(r)
  <2>1. /\ pc' = [pc EXCEPT ![r] = "idle"] /\ queue' = [queue EXCEPT ![r] = <<>>]
        /\ hot' = [hot EXCEPT ![r] = {}] /\ tried' = [tried EXCEPT ![r] = {}]
        /\ outcome' = [outcome EXCEPT ![r] = "none"]
    BY <1>4 DEF Return
  <2>2. TypedRequests'
    BY <1>0, <2>1 DEF TypedRequests, Phase, Outcome
  <2>3. Handled(r)'
    BY <1>0, <2>1 DEF Handled, UnderWay, TypedRequests
  <2>4. OthersKept(r)
    BY <1>0, <2>1 DEF OthersKept, TypedRequests
  <2> QED BY <2>2, <2>3, <2>4, RequestStep
<1> QED BY <1>1, <1>2, <1>3, <1>4 DEF Progress

LEMMA RequestStepInv == RotationInv /\ RequestInv /\ [Next]_vars => RequestInv'
<1> SUFFICES ASSUME RotationInv, RequestInv, [Next]_vars PROVE RequestInv'
  OBVIOUS
<1>1. CASE \E r \in Req : \E fit \in Fits : Start(r, fit)
  BY <1>1, StartRequestInv DEF RotationInv
<1>2. CASE \E r \in Req : Progress(r)
  BY <1>2, RequestProgressInv
<1>3. CASE HitStep \/ ResetRotation \/ Tick \/ \E n \in Name : DirectSuccess(Resolved[n])
  <2>1. UNCHANGED request
    BY <1>3 DEF HitStep, RateLimited, DirectHit, ResetRotation, Tick, DirectSuccess
  <2> QED BY <2>1, RequestsKept
<1>4. CASE UNCHANGED vars
  BY <1>4, RequestsKept DEF vars, request
<1> QED BY <1>1, <1>2, <1>3, <1>4 DEF Next, ComboStep

\* handleComboChat: for every combo, rotation, capability order and throttle,
\* and however requests overlap, a combo gives up only when every one of its
\* models was called by this very request or was HOT when it started.
THEOREM NoModelIsLost == Spec => []NoModelLost
<1>1. RequestInv => NoModelLost
  BY DEF RequestInv, Handled, NoModelLost
<1> QED BY <1>1, InitInv, StepInv, RequestInit, RequestStepInv, PTL DEF Spec

-----------------------------------------------------------------------------
(* The throttle registry: a model that is not HOT has fewer hits than the      *)
(* threshold, so only one more of them, all in the window, can make it HOT.    *)

EntryRecord == [hits : Seq(Nat), left : Nat, level : Nat, since : Nat]

CountedRight(e) == e \in EntryRecord /\ Len(e.hits) < Threshold

RegistryInv ==
  /\ DOMAIN throttle = Key
  /\ throttle = [k \in Key |-> throttle[k]]
  /\ \A k \in Key : CountedRight(throttle[k])

\* What may become of the entry of a model in a step.
Stands(e, new) ==
  /\ new.left < e.left => new \in {FreshEntry, Later(e)}
  /\ ~Hot(e) /\ Hot(new) => Len(e.hits) = Threshold - 1

LEMMA ThrottleNumbers ==
  /\ Threshold \in Nat \ {0} /\ Window \in Nat \ {0} /\ LongAgo \in Nat
  /\ TopLevel \in Nat /\ MaxThrottle \in Nat
BY ThrottleAssumption DEF LongAgo

LEMMA CappedIsNat == ASSUME NEW x, NEW cap \in Nat PROVE AtMost(x, cap) \in Nat
BY DEF AtMost

LEMMA EntryFields ==
  ASSUME NEW e, CountedRight(e)
  PROVE  /\ e.left \in Nat /\ e.hits \in Seq(Nat) /\ Len(e.hits) \in Nat
         /\ Len(e.hits) < Threshold /\ e.level \in Nat /\ e.since \in Nat
BY DEF CountedRight, EntryRecord

LEMMA FreshIsRight == CountedRight(FreshEntry)
<1>1. FreshEntry.hits = <<>> /\ Len(<<>>) = 0 /\ <<>> \in Seq(Nat)
  BY DEF FreshEntry
<1> QED BY <1>1, ThrottleNumbers DEF CountedRight, FreshEntry, EntryRecord

LEMMA FreshStands ==
  ASSUME NEW e PROVE Stands(e, FreshEntry)
BY DEF Stands, FreshEntry, Hot

LEMMA SameStands ==
  ASSUME NEW e, CountedRight(e) PROVE Stands(e, e)
BY EntryFields DEF Stands

LEMMA OlderHits ==
  ASSUME NEW hits \in Seq(Nat)
  PROVE  /\ [i \in 1..Len(hits) |-> hits[i] + 1] \in Seq(Nat)
         /\ Len([i \in 1..Len(hits) |-> hits[i] + 1]) = Len(hits)
<1>1. Len(hits) \in Nat /\ \A i \in 1..Len(hits) : hits[i] + 1 \in Nat
  OBVIOUS
<1> QED BY <1>1

LEMMA LaterIsRight ==
  ASSUME NEW e, CountedRight(e) PROVE CountedRight(Later(e)) /\ Stands(e, Later(e))
<1> DEFINE aged == [i \in 1..Len(e.hits) |-> e.hits[i] + 1]
           recent == Only(aged, 0..Window - 1)
<1>1. /\ e.left \in Nat /\ e.hits \in Seq(Nat) /\ Len(e.hits) < Threshold
      /\ Len(e.hits) \in Nat /\ e.level \in Nat
  BY EntryFields
<1>2. aged \in Seq(Nat) /\ Len(aged) = Len(e.hits)
  BY <1>1, OlderHits
<1> HIDE DEF aged
<1>3. recent \in Seq(Nat) /\ Len(recent) <= Len(aged)
  BY <1>2, OnlyKeeps
<1> DEFINE left == IF e.left > 0 THEN e.left - 1 ELSE 0
           since_ == AtMost(e.since + 1, LongAgo)
<1>4. left \in Nat /\ left <= e.left
  BY <1>1
<1>5. since_ \in Nat
  BY CappedIsNat, ThrottleNumbers
<1>6. Later(e) = [hits |-> recent, left |-> left, level |-> e.level, since |-> since_]
  BY DEF Later, aged
<1> HIDE DEF recent, left, since_
<1>7. Later(e) \in EntryRecord /\ Later(e).hits = recent /\ Later(e).left = left
  BY <1>1, <1>3, <1>4, <1>5, <1>6 DEF EntryRecord
<1>8. Len(recent) < Threshold
  <2>1. Len(recent) \in Nat
    BY <1>3
  <2> QED BY <1>1, <1>2, <1>3, <2>1, ThrottleNumbers
<1>9. CountedRight(Later(e))
  BY <1>7, <1>8 DEF CountedRight
<1>10. ~(~Hot(e) /\ Hot(Later(e)))
  BY <1>1, <1>4, <1>7 DEF Hot
<1> QED BY <1>9, <1>10 DEF Stands

LEMMA LevelNumbers ==
  ASSUME NEW e, CountedRight(e)
  PROVE  Remembered(e) \in Nat /\ NextHotLevel(e) \in Nat
<1>1. Remembered(e) \in Nat
  BY EntryFields DEF Remembered
<1>2. AtMost(Remembered(e) + 1, TopLevel) \in Nat
  BY CappedIsNat, ThrottleNumbers
<1> QED BY <1>1, <1>2 DEF NextHotLevel

LEMMA RecordedIsRight ==
  ASSUME NEW e, CountedRight(e), NEW retry \in Nat
  PROVE  CountedRight(Recorded(e, retry)) /\ Stands(e, Recorded(e, retry))
<1>0. /\ e \in EntryRecord /\ e.left \in Nat /\ e.hits \in Seq(Nat) /\ Len(e.hits) < Threshold
      /\ Len(e.hits) \in Nat
  BY EntryFields DEF CountedRight
<1>00. Remembered(e) \in Nat /\ NextHotLevel(e) \in Nat
  BY LevelNumbers
<1>1. CASE Hot(e)
  <2> DEFINE left == Larger(e.left, retry)
             new == [e EXCEPT !.level = Remembered(e), !.left = left]
  <2>1. Recorded(e, retry) = new
    BY <1>1 DEF Recorded, Extended
  <2>2. left \in Nat /\ left >= e.left
    BY <1>0 DEF Larger
  <2> HIDE DEF left
  <2>3. new \in EntryRecord /\ new.hits = e.hits /\ new.left = left
    BY <1>0, <1>00, <2>2 DEF EntryRecord
  <2> HIDE DEF new
  <2> QED BY <1>0, <1>1, <2>1, <2>2, <2>3 DEF CountedRight, Stands
<1>2. CASE ~Hot(e) /\ Len(e.hits) + 1 < Threshold
  <2> DEFINE hits == Append(e.hits, 0)
             new == [e EXCEPT !.level = Remembered(e), !.hits = hits]
  <2>1. Recorded(e, retry) = new
    BY <1>2 DEF Recorded, Counted
  <2>2. hits \in Seq(Nat) /\ Len(hits) = Len(e.hits) + 1
    BY <1>0
  <2> HIDE DEF hits
  <2>3. new \in EntryRecord /\ new.hits = hits /\ new.left = e.left
    BY <1>0, <1>00, <2>2 DEF EntryRecord
  <2> HIDE DEF new
  <2> QED BY <1>0, <1>2, <2>1, <2>2, <2>3 DEF CountedRight, Stands, Hot
<1>3. CASE ~Hot(e) /\ ~(Len(e.hits) + 1 < Threshold)
  <2> DEFINE left == Larger(CooldownFor(NextHotLevel(e)), retry)
             new == [hits |-> <<>>, left |-> left, level |-> NextHotLevel(e), since |-> 0]
  <2>1. Recorded(e, retry) = new
    BY <1>3 DEF Recorded, Throttled
  <2>2. CooldownFor(NextHotLevel(e)) \in Nat
    BY CappedIsNat, ThrottleNumbers DEF CooldownFor
  <2>3. left \in Nat
    BY <2>2 DEF Larger
  <2> HIDE DEF left
  <2>4. new \in EntryRecord /\ new.left = left /\ Len(new.hits) = 0
    <3>1. <<>> \in Seq(Nat) /\ Len(<<>>) = 0
      OBVIOUS
    <3> QED BY <1>00, <2>3, <3>1 DEF EntryRecord
  <2> HIDE DEF new
  <2>5. Len(e.hits) = Threshold - 1 /\ 0 < Threshold
    BY <1>0, <1>3, ThrottleNumbers
  <2>6. ~(left < e.left)
    BY <1>0, <1>3, <2>3 DEF Hot
  <2> QED BY <2>1, <2>4, <2>5, <2>6 DEF CountedRight, Stands
<1> QED BY <1>1, <1>2, <1>3

LEMMA RegistryInit == Init => RegistryInv
BY FreshIsRight DEF Init, RegistryInv

\* A step that rewrites one entry.
LEMMA OneEntry ==
  ASSUME RegistryInv, NEW k, NEW new,
         throttle' = [throttle EXCEPT ![k] = new],
         k \in Key => CountedRight(new) /\ Stands(throttle[k], new)
  PROVE  RegistryInv' /\ \A j \in Key : Stands(throttle[j], throttle'[j])
<1>1. \A j \in Key : throttle'[j] = IF j = k THEN new ELSE throttle[j]
  BY DEF RegistryInv
<1>2. DOMAIN throttle' = Key /\ throttle' = [j \in Key |-> throttle'[j]]
  BY DEF RegistryInv
<1>3. ASSUME NEW j \in Key PROVE CountedRight(throttle'[j]) /\ Stands(throttle[j], throttle'[j])
  BY <1>1, SameStands DEF RegistryInv
<1> QED BY <1>2, <1>3 DEF RegistryInv

LEMMA HitStands ==
  ASSUME RegistryInv, NEW k, NEW retry \in Nat, Hit(k, retry)
  PROVE  RegistryInv' /\ \A j \in Key : Stands(throttle[j], throttle'[j])
<1>1. throttle' = [throttle EXCEPT ![k] = Recorded(throttle[k], retry)]
  BY DEF Hit
<1>2. ASSUME k \in Key
      PROVE  CountedRight(Recorded(throttle[k], retry)) /\ Stands(throttle[k], Recorded(throttle[k], retry))
  BY <1>2, RecordedIsRight DEF RegistryInv
<1> QED BY <1>1, <1>2, OneEntry

LEMMA ClearStands ==
  ASSUME RegistryInv, NEW k, throttle' = [throttle EXCEPT ![k] = FreshEntry]
  PROVE  RegistryInv' /\ \A j \in Key : Stands(throttle[j], throttle'[j])
BY FreshIsRight, FreshStands, OneEntry

LEMMA RegistryStep ==
  ASSUME RegistryInv, [Next]_vars
  PROVE  RegistryInv' /\ \A j \in Key : Stands(throttle[j], throttle'[j])
<1>0. Retries \subseteq Nat
  BY ComboAssumption
<1>1. ASSUME throttle' = throttle
      PROVE  RegistryInv' /\ \A j \in Key : Stands(throttle[j], throttle'[j])
  BY <1>1, SameStands DEF RegistryInv
<1>2. CASE HitStep
  <2>1. \E retry \in Retries : \E k : Hit(k, retry)
    BY <1>2 DEF HitStep, RateLimited, DirectHit
  <2> QED BY <1>0, <2>1, HitStands
<1>3. CASE Tick
  <2>1. throttle' = [k \in Key |-> Later(throttle[k])]
    BY <1>3 DEF Tick
  <2> QED BY <2>1, LaterIsRight DEF RegistryInv
<1>4. CASE \E n \in Name : DirectSuccess(Resolved[n])
  BY <1>4, ClearStands DEF DirectSuccess
<1>5. CASE \E r \in Req : \E fit \in Fits : Start(r, fit)
  BY <1>1, <1>5 DEF Start
<1>6. CASE \E r \in Req : Progress(r)
  <2>1. CASE \E r \in Req : Succeed(r)
    BY <2>1, ClearStands DEF Succeed
  <2>2. CASE \E r \in Req : FailOver(r) \/ Transient(r) \/ WaitedOut(r) \/ Return(r)
    BY <1>1, <2>2 DEF FailOver, TryNext, Transient, WaitedOut, Return
  <2> QED BY <1>6, <2>1, <2>2 DEF Progress
<1>7. CASE ResetRotation \/ UNCHANGED vars
  BY <1>1, <1>7 DEF ResetRotation, vars
<1> QED BY <1>2, <1>3, <1>4, <1>5, <1>6, <1>7 DEF Next, ComboStep

\* recordModelRateLimit and getModelThrottle: whatever requests of combos and of
\* single models overlap, nothing but a success, and time, shortens a cooldown
\* that runs, and nothing calls a model HOT on fewer than Threshold hits.
THEOREM CooldownsAlwaysStand == Spec => CooldownsStand
<1>1. ASSUME RegistryInv, [Next]_vars
      PROVE  [\A k \in Key :
                /\ throttle'[k].left < throttle[k].left => throttle'[k] \in {FreshEntry, Later(throttle[k])}
                /\ ~Hot(throttle[k]) /\ Hot(throttle'[k]) => Len(throttle[k].hits) = Threshold - 1]_vars
  BY <1>1, RegistryStep DEF Stands
<1>2. RegistryInv /\ [Next]_vars => RegistryInv'
  BY RegistryStep
<1> QED BY <1>1, <1>2, RegistryInit, PTL DEF Spec, CooldownsStand

-----------------------------------------------------------------------------
(* The panel. *)

HasQuorum(o) == Cardinality(Good(o)) >= Quorum
Texts(o) == {i \in Slot : o[i] = "text"}

\* Nothing is left of an earlier request.
Fresh ==
  /\ out = [i \in Slot |-> "pending"]
  /\ grace = Grace + 1 /\ elapsed = 0 /\ waited = 0 /\ inHand = {} /\ next = 1
  /\ answers = {}

\* The grace timer is set exactly when the quorum is there, and what has been
\* waited since is gone from it.
GraceIsLeft ==
  /\ waited <= elapsed
  /\ waited <= Grace
  /\ stage = "idle" => Fresh
  /\ stage = "collecting" =>
       /\ grace <= Grace <=> HasQuorum(out)
       /\ grace <= Grace => waited + grace = Grace
       /\ grace > Grace => waited = 0

\* The reading loop leaves out no text that was in hand.
NoTextIsSkipped ==
  /\ answers \subseteq Texts(out)
  /\ stage = "collecting" => inHand = {} /\ answers = {} /\ next = 1
  /\ stage = "reading" => /\ inHand \subseteq Texts(out)
                          /\ \A i \in inHand : i < next => i \in answers
  /\ stage \in {"answering", "done"} => inHand \subseteq answers

PanelInv == FusionTypeOK /\ GraceIsLeft /\ NoTextIsSkipped

-----------------------------------------------------------------------------
LEMMA PanelFacts ==
  /\ Len(Panel) \in Nat \ {0}
  /\ Slot = 1..Len(Panel)
  /\ Quorum \in Nat \ {0}
  /\ Grace \in Nat \ {0} /\ HardTimeout \in Nat \ {0}
<1>1. Len(Panel) \in Nat \ {0} /\ Slot = 1..Len(Panel)
  BY PanelAssumption DEF Slot
<1> QED BY <1>1, PanelAssumption DEF Quorum

(* More answers never undo the quorum. *)
LEMMA QuorumStays ==
  ASSUME NEW o, NEW p, Good(o) \subseteq Good(p)
  PROVE  HasQuorum(o) => HasQuorum(p)
<1>1. IsFiniteSet(Good(p))
  <2>1. IsFiniteSet(Slot)
    BY PanelFacts, FS_Interval
  <2> QED BY <2>1, FS_Subset DEF Good
<1>2. /\ Cardinality(Good(o)) <= Cardinality(Good(p))
      /\ Cardinality(Good(o)) \in Nat /\ Cardinality(Good(p)) \in Nat
  BY <1>1, FS_Subset, FS_CardinalityType
<1> QED BY <1>2, PanelFacts DEF HasQuorum

LEMMA NoQuorumYet == ~HasQuorum([i \in Slot |-> "pending"])
<1>1. Good([i \in Slot |-> "pending"]) = {}
  BY DEF Good
<1> QED BY <1>1, FS_EmptySet, PanelFacts DEF HasQuorum

LEMMA PanelInitInv == FusionInit => PanelInv
<1> SUFFICES ASSUME FusionInit PROVE PanelInv
  OBVIOUS
<1>1. FusionTypeOK
  BY PanelFacts DEF FusionInit, FusionTypeOK, Stage, Result
<1>2. GraceIsLeft
  BY PanelFacts DEF FusionInit, GraceIsLeft, Fresh
<1>3. NoTextIsSkipped
  BY DEF FusionInit, NoTextIsSkipped
<1> QED BY <1>1, <1>2, <1>3 DEF PanelInv

-----------------------------------------------------------------------------
(* A call that settles. *)
LEMMA SettleInv ==
  ASSUME PanelInv, NEW i \in Slot, NEW res \in {"text", "empty", "failed"}, Settle(i, res)
  PROVE  PanelInv'
<1> USE PanelFacts
<1>0. FusionTypeOK /\ GraceIsLeft /\ NoTextIsSkipped
  BY DEF PanelInv
<1>1. /\ out' \in [Slot -> Result]
      /\ Good(out) \subseteq Good(out') /\ Texts(out) \subseteq Texts(out')
  BY <1>0 DEF FusionTypeOK, Settle, Good, Texts, Result
<1>2. HasQuorum(out) => HasQuorum(out')
  BY <1>1, QuorumStays
<1>3. grace' \in 0..Grace + 1 /\ (stage # "collecting" => grace' = grace)
      /\ (stage = "collecting" => grace' = IF HasQuorum(out') /\ grace > Grace THEN Grace ELSE grace)
  BY <1>0 DEF FusionTypeOK, Settle, GraceAfter, HasQuorum
<1>4. /\ stage' \in {stage, "reading"} /\ stage \in {"collecting", "reading"}
      /\ inHand' \in {inHand, Texts(out')}
      /\ stage' # stage => stage' = "reading" /\ inHand' = Texts(out')
      /\ stage' = stage => inHand' = inHand
      /\ UNCHANGED <<elapsed, waited, next, answers, asked, verdict>>
  BY DEF Settle, CollectionEnds, Texts
<1>5. FusionTypeOK'
  BY <1>0, <1>1, <1>3, <1>4 DEF FusionTypeOK, Stage, Texts
<1>6. GraceIsLeft'
  <2>1. waited' <= elapsed' /\ waited' <= Grace /\ stage' # "idle"
    BY <1>0, <1>4 DEF GraceIsLeft
  <2>2. CASE stage' = "collecting"
    <3>1. stage = "collecting" /\ waited' = waited
      BY <1>4, <2>2
    <3>2. grace' = IF HasQuorum(out') /\ grace > Grace THEN Grace ELSE grace
      BY <1>3, <3>1
    <3>3. /\ (grace <= Grace) <=> HasQuorum(out)
          /\ grace <= Grace => waited + grace = Grace
          /\ grace > Grace => waited = 0
          /\ grace \in Nat /\ Grace \in Nat
      BY <1>0, <3>1 DEF GraceIsLeft, FusionTypeOK
    <3>4. /\ (grace' <= Grace) <=> HasQuorum(out')
          /\ grace' <= Grace => waited' + grace' = Grace
          /\ grace' > Grace => waited' = 0
      BY <1>2, <3>1, <3>2, <3>3
    <3> QED BY <2>1, <3>4 DEF GraceIsLeft, HasQuorum
  <2>3. CASE stage' # "collecting"
    BY <2>1, <2>3 DEF GraceIsLeft
  <2> QED BY <2>2, <2>3
<1>7. NoTextIsSkipped'
  BY <1>0, <1>1, <1>4 DEF FusionTypeOK, NoTextIsSkipped, Texts
<1> QED BY <1>5, <1>6, <1>7 DEF PanelInv

(* A timer fires: what is pending fails, what is there stays. *)
LEMMA TimerInv ==
  ASSUME PanelInv, TimerFires
  PROVE  PanelInv'
<1> USE PanelFacts
<1>0. FusionTypeOK /\ GraceIsLeft /\ NoTextIsSkipped
  BY DEF PanelInv
<1>1. out' \in [Slot -> Result] /\ Texts(out) \subseteq Texts(out')
  BY <1>0 DEF FusionTypeOK, TimerFires, Texts, Result
<1>2. /\ stage = "collecting" /\ stage' = "reading"
      /\ inHand' \subseteq Texts(out')
      /\ UNCHANGED <<grace, elapsed, waited, next, answers, asked, verdict>>
  BY <1>0 DEF FusionTypeOK, TimerFires, CollectionEnds, Texts
<1>3. FusionTypeOK'
  BY <1>0, <1>1, <1>2 DEF FusionTypeOK, Stage, Texts
<1>4. GraceIsLeft'
  BY <1>0, <1>2 DEF GraceIsLeft
<1>5. NoTextIsSkipped'
  BY <1>0, <1>1, <1>2 DEF FusionTypeOK, NoTextIsSkipped, Texts
<1> QED BY <1>3, <1>4, <1>5 DEF PanelInv

(* Time passes while answers are collected. *)
LEMMA TickInv ==
  ASSUME PanelInv, FusionTick
  PROVE  PanelInv'
<1> USE PanelFacts
<1>0. FusionTypeOK /\ GraceIsLeft /\ NoTextIsSkipped
  BY DEF PanelInv
<1>1. /\ stage = "collecting" /\ stage' = stage /\ UNCHANGED out
      /\ elapsed' = elapsed + 1 /\ elapsed < HardTimeout /\ grace > 0
      /\ waited' = (IF HasQuorum(out) THEN waited + 1 ELSE waited)
      /\ grace' = (IF grace <= Grace THEN grace - 1 ELSE grace)
      /\ UNCHANGED <<inHand, next, answers, asked, verdict>>
  BY DEF FusionTick, HasQuorum
<1>2. FusionTypeOK'
  BY <1>0, <1>1 DEF FusionTypeOK, GraceIsLeft
<1>3. GraceIsLeft'
  BY <1>0, <1>1 DEF FusionTypeOK, GraceIsLeft
<1>4. NoTextIsSkipped'
  BY <1>0, <1>1 DEF NoTextIsSkipped
<1> QED BY <1>2, <1>3, <1>4 DEF PanelInv

LEMMA PanelStepInv == PanelInv /\ [FusionNext]_fusionVars => PanelInv'
<1> SUFFICES ASSUME PanelInv, [FusionNext]_fusionVars PROVE PanelInv'
  OBVIOUS
<1> USE PanelFacts
<1>0. FusionTypeOK /\ GraceIsLeft /\ NoTextIsSkipped
  BY DEF PanelInv
<1>1. CASE Begin
  <2>1. FusionTypeOK'
    BY <1>0, <1>1, PanelAssumption DEF FusionTypeOK, Begin, Stage, Slot
  <2>2. stage' = "collecting" => ~HasQuorum(out')
    BY <1>0, <1>1, NoQuorumYet DEF GraceIsLeft, Fresh, Begin
  <2>3. GraceIsLeft'
    BY <1>0, <1>1, <2>2 DEF FusionTypeOK, GraceIsLeft, Fresh, Begin
  <2>4. NoTextIsSkipped'
    BY <1>0, <1>1 DEF NoTextIsSkipped, GraceIsLeft, Fresh, Begin
  <2> QED BY <2>1, <2>3, <2>4 DEF PanelInv
<1>2. CASE \E i \in Slot, res \in {"text", "empty", "failed"} : Settle(i, res)
  BY <1>2, SettleInv
<1>3. CASE TimerFires
  BY <1>3, TimerInv
<1>4. CASE FusionTick
  BY <1>4, TickInv
<1>5. CASE Take
  <2>1. FusionTypeOK'
    BY <1>0, <1>5 DEF FusionTypeOK, Take
  <2>2. GraceIsLeft'
    BY <1>0, <1>5 DEF GraceIsLeft, Take
  <2>3. NoTextIsSkipped'
    BY <1>0, <1>5 DEF FusionTypeOK, NoTextIsSkipped, Texts, Take
  <2> QED BY <2>1, <2>2, <2>3 DEF PanelInv
<1>6. CASE Decide
  <2>1. FusionTypeOK'
    BY <1>0, <1>6 DEF FusionTypeOK, Decide, Stage
  <2>2. GraceIsLeft'
    BY <1>0, <1>6 DEF GraceIsLeft, Decide
  <2>3. inHand \subseteq answers
    BY <1>0, <1>6 DEF FusionTypeOK, NoTextIsSkipped, Texts, Decide
  <2>4. NoTextIsSkipped'
    BY <1>0, <1>6, <2>3 DEF NoTextIsSkipped, Decide
  <2> QED BY <2>1, <2>2, <2>4 DEF PanelInv
<1>7. CASE Finish
  BY <1>0, <1>7 DEF PanelInv, FusionTypeOK, GraceIsLeft, NoTextIsSkipped, Finish, Answer, Stage
<1>8. CASE FusionReturn
  <2>1. FusionTypeOK' /\ GraceIsLeft'
    BY <1>0, <1>8 DEF FusionTypeOK, GraceIsLeft, Fresh, FusionReturn, Stage, Result
  <2>2. NoTextIsSkipped'
    BY <1>8 DEF NoTextIsSkipped, FusionReturn
  <2> QED BY <2>1, <2>2 DEF PanelInv
<1>9. CASE UNCHANGED fusionVars
  BY <1>0, <1>9 DEF fusionVars, PanelInv, FusionTypeOK, GraceIsLeft, Fresh, NoTextIsSkipped
<1> QED BY <1>1, <1>2, <1>3, <1>4, <1>5, <1>6, <1>7, <1>8, <1>9 DEF FusionNext

THEOREM PanelInvariant == FusionSpec => []PanelInv
<1> QED BY PanelInitInv, PanelStepInv, PTL DEF FusionSpec

\* Every variable of the panel keeps its type.
THEOREM PanelIsTyped == FusionSpec => []FusionTypeOK
<1>1. PanelInv => FusionTypeOK
  BY DEF PanelInv
<1> QED BY <1>1, PanelInvariant, PTL

\* collectPanel: however the calls settle, the grace period after the quorum is
\* all that is waited, and every text in hand when the collection ends reaches
\* the judge although late calls still write into the array.
THEOREM PanelIsJudgedInTime == FusionSpec => []JudgedInTime
<1>1. PanelInv => JudgedInTime
  BY DEF PanelInv, FusionTypeOK, GraceIsLeft, NoTextIsSkipped, Texts,
         JudgedInTime, StragglersAreCapped, JudgedOnAllTexts
<1> QED BY <1>1, PanelInvariant, PTL

-----------------------------------------------------------------------------
(* The sticky round robin. *)

\* Counters with any stamp: the ranks of StickyTypeOK are bounded by a count of all
\* stamps, which the argument does not need.
AnyCounter == [at : Nat, count : 0..Limit]

StickyTyped ==
  /\ now \in Nat \ {0}
  /\ used \in [Account -> AnyCounter]
  /\ saved \in [Account -> AnyCounter]
  /\ pending \subseteq Account
  /\ DOMAIN batch \subseteq Account /\ batch \in [DOMAIN batch -> AnyCounter]
  /\ where \in [Selection -> {"idle", "read"}]
  /\ snapshot \in [Selection -> SUBSET Account]
  /\ \A r \in Selection : where[r] = "read" => snapshot[r] # {}
  /\ last \in Account \cup {NoAccount}
  /\ run \in Nat

NoStampAhead == \A s \in Stamps : s <= now

\* The latest selection carries the latest stamp, and its counter has counted
\* the run.
LastIsLatest ==
  /\ run <= Limit
  /\ last # NoAccount =>
       /\ run <= used[last].count
       /\ \A d \in Account \ {last} : used[d].at < used[last].at

StickyInv == StickyTyped /\ NoStampAhead /\ LastIsLatest

-----------------------------------------------------------------------------
(* Sorting: there is a first in the order of both sorts. *)

(* Of any accounts one has the best priority. *)
LEMMA FirstByPriority ==
  ASSUME NEW avail \in SUBSET Account, avail # {}
  PROVE  \E c \in avail : \A d \in avail : c <= d
<1>1. avail \in SUBSET Nat
  BY StickyAssumption
<1> QED BY <1>1, LeastNatural

LEMMA OldestExists ==
  ASSUME StickyTyped, NEW avail \in SUBSET Account, avail # {}
  PROVE  Oldest(avail) \in avail /\ \A d \in avail : Older(Oldest(avail), d)
<1> DEFINE S == {used[c].at : c \in avail}
<1>1. S \in SUBSET Nat /\ S # {}
  BY DEF StickyTyped, AnyCounter
<1>2. PICK m \in S : \A k \in S : m <= k
  BY <1>1, LeastNatural
<1> DEFINE T == {c \in avail : used[c].at = m}
<1>3. T \in SUBSET Account /\ T # {}
  BY <1>2
<1>4. PICK c \in T : \A d \in T : c <= d
  BY <1>3, FirstByPriority
<1>5. ASSUME NEW d \in avail PROVE Older(c, d)
  <2>1. used[c].at = m /\ m \in Nat /\ used[d].at \in S /\ used[d].at \in Nat /\ m <= used[d].at
    BY <1>1, <1>2
  <2>2. used[d].at = m => c <= d
    BY <1>4
  <2> QED BY <2>1, <2>2 DEF Older
<1> QED BY <1>4, <1>5 DEF Oldest

LEMMA LatestExists ==
  ASSUME StickyTyped, NoStampAhead, NEW avail \in SUBSET Account, avail # {}
  PROVE  Latest(avail) \in avail /\ \A d \in avail : MoreRecent(Latest(avail), d)
<1> DEFINE age(c) == now - used[c].at
<1> DEFINE S == {age(c) : c \in avail}
<1>1. \A c \in avail : used[c].at \in Nat /\ used[c].at <= now
  BY DEF StickyTyped, AnyCounter, NoStampAhead, Stamps
<1>2. S \in SUBSET Nat /\ S # {}
  BY <1>1 DEF StickyTyped
<1>3. PICK m \in S : \A k \in S : m <= k
  BY <1>2, LeastNatural
<1> DEFINE T == {c \in avail : age(c) = m}
<1>4. T \in SUBSET Account /\ T # {}
  BY <1>3
<1>5. PICK c \in T : \A d \in T : c <= d
  BY <1>4, FirstByPriority
<1>6. ASSUME NEW d \in avail PROVE MoreRecent(c, d)
  <2>1. age(c) = m /\ m \in Nat /\ age(d) \in S /\ m <= age(d)
    BY <1>2, <1>3
  <2>2. age(d) = m => c <= d
    BY <1>5
  <2>3. used[c].at \in Nat /\ used[d].at \in Nat /\ now \in Nat
    BY <1>1 DEF StickyTyped
  <2> QED BY <2>1, <2>2, <2>3 DEF MoreRecent
<1> QED BY <1>5, <1>6 DEF Latest

-----------------------------------------------------------------------------
(* Ranking keeps the order of stamps. *)

LEMMA RanksKeepOrder ==
  ASSUME StickyTyped, NoStampAhead, NEW s \in Nat, NEW t \in Nat
  PROVE  /\ Rank(s) \in Nat
         /\ s <= t => Rank(s) <= Rank(t)
         /\ t \in Stamps /\ s < t => Rank(s) < Rank(t)
<1> DEFINE upto(n) == {u \in Stamps \ {0} : u <= n}
<1>1. \A u \in Stamps : u \in Nat /\ u <= now
  BY DEF StickyTyped, AnyCounter, NoStampAhead, Stamps
<1>2. \A n \in Nat : IsFiniteSet(upto(n))
  <2>1. 0 \in Int /\ now \in Int
    BY DEF StickyTyped
  <2>2. IsFiniteSet(0..now)
    BY <2>1, FS_Interval
  <2>3. \A n \in Nat : upto(n) \in SUBSET (0..now)
    BY <1>1 DEF StickyTyped
  <2> QED BY <2>2, <2>3, FS_Subset
<1>3. \A n \in Nat : Rank(n) = Cardinality(upto(n)) /\ Rank(n) \in Nat
  BY <1>2, FS_CardinalityType DEF Rank
<1>4. ASSUME s <= t
      PROVE  /\ upto(s) \in SUBSET upto(t)
             /\ Rank(s) <= Rank(t)
             /\ Rank(s) = Rank(t) => upto(s) = upto(t)
  <2>1. \A u \in upto(s) : u \in Stamps \ {0} /\ u \in Nat /\ u <= t
    BY <1>1, <1>4
  <2>2. upto(s) \in SUBSET upto(t)
    BY <2>1
  <2>3. IsFiniteSet(upto(t))
    BY <1>2
  <2>4. /\ Cardinality(upto(s)) <= Cardinality(upto(t))
        /\ Cardinality(upto(s)) = Cardinality(upto(t)) => upto(s) = upto(t)
    BY <2>2, <2>3, FS_Subset
  <2> QED BY <2>2, <2>4, <1>3
<1>5. ASSUME t \in Stamps, s < t PROVE Rank(s) < Rank(t)
  <2>1. s <= t
    BY <1>5
  <2>2. t \in upto(t) /\ t \notin upto(s)
    BY <1>5
  <2>3. Rank(s) # Rank(t) /\ Rank(s) <= Rank(t)
    BY <2>1, <2>2, <1>4
  <2>4. Rank(s) \in Nat /\ Rank(t) \in Nat
    BY <1>3
  <2> QED BY <2>3, <2>4
<1> QED BY <1>3, <1>4, <1>5

-----------------------------------------------------------------------------
LEMMA StickyInitInv == StickyInit => StickyInv
<1> SUFFICES ASSUME StickyInit PROVE StickyInv
  OBVIOUS
<1> USE StickyAssumption
<1>1. Never \in AnyCounter
  BY DEF Never, AnyCounter
<1>2. StickyTyped
  BY <1>1 DEF StickyInit, StickyTyped, NoBatch
<1>3. NoStampAhead
  BY DEF StickyInit, NoStampAhead, Stamps, Never, NoBatch
<1>4. LastIsLatest
  BY DEF StickyInit, LastIsLatest
<1> QED BY <1>2, <1>3, <1>4 DEF StickyInv

(* What recording a use does to the counters, when the account was chosen from *)
(* what the request had read.                                                  *)
LEMMA RecordInv ==
  ASSUME StickyInv, NEW r \in Selection, NEW c \in Account, NEW n \in 1..Limit,
         Decided(r), RecordUse(c, n), last' = c, run' \in Nat, run' <= n
  PROVE  Spaced => StickyInv'
<1> SUFFICES ASSUME Spaced PROVE StickyInv'
  OBVIOUS
<1>0. StickyTyped /\ NoStampAhead /\ LastIsLatest
  BY DEF StickyInv
<1>1. /\ used' = [used EXCEPT ![c] = [at |-> now, count |-> n]]
      /\ UNCHANGED <<now, saved, batch>> /\ pending' = pending \cup {c}
      /\ where' = [where EXCEPT ![r] = "idle"] /\ snapshot' = [snapshot EXCEPT ![r] = {}]
      /\ \A d \in Account : used[d].at < now
  BY DEF Decided, RecordUse
<1>2. [at |-> now, count |-> n] \in AnyCounter
  BY <1>0, StickyAssumption DEF StickyTyped, AnyCounter
<1>3. StickyTyped'
  BY <1>0, <1>1, <1>2 DEF StickyTyped
<1>4. NoStampAhead'
  BY <1>0, <1>1 DEF StickyTyped, NoStampAhead, Stamps
<1>5. /\ used'[c] = [at |-> now, count |-> n]
      /\ \A d \in Account \ {c} : used'[d] = used[d]
  BY <1>0, <1>1 DEF StickyTyped
<1>6. LastIsLatest'
  BY <1>1, <1>5, StickyAssumption DEF LastIsLatest
<1> QED BY <1>3, <1>4, <1>6 DEF StickyInv

(* The strategy never takes the latest account beyond its limit when another   *)
(* is there: it is not the oldest of them.                                     *)
LEMMA SelectInv ==
  ASSUME StickyInv, Spaced, NEW r \in Selection, SelectByStrategy(r)
  PROVE  StickyInv'
<1> DEFINE avail == snapshot[r]
           c == Chosen(avail)
           n == IF Stays(avail) THEN used[c].count + 1 ELSE 1
<1>0. StickyTyped /\ NoStampAhead /\ LastIsLatest
  BY DEF StickyInv
<1>1. avail \in SUBSET Account /\ avail # {}
  BY <1>0 DEF StickyTyped, SelectByStrategy, Decided
<1>2. /\ Latest(avail) \in avail /\ \A d \in avail : MoreRecent(Latest(avail), d)
      /\ Oldest(avail) \in avail /\ \A d \in avail : Older(Oldest(avail), d)
  BY <1>0, <1>1, LatestExists, OldestExists
<1>3. c \in avail /\ c \in Account
  BY <1>1, <1>2 DEF Chosen
<1>4. \A d \in Account : used[d].at \in Nat /\ used[d].count \in 0..Limit
  BY <1>0 DEF StickyTyped, AnyCounter
<1>5. n \in 1..Limit
  <2>1. Limit \in Nat \ {0}
    BY StickyAssumption
  <2> QED BY <1>3, <1>4, <2>1 DEF Stays, Chosen
<1>6. ASSUME ~Stays(avail), avail # {c} PROVE c # last
  <2>1. PICK d \in avail : d # c
    BY <1>1, <1>3, <1>6
  <2>2. used[c].at <= used[d].at
    BY <1>1, <1>2, <1>4, <1>6 DEF Chosen, Older
  <2>3. c = last => used[d].at < used[c].at
    BY <1>0, <1>1, <1>3, <2>1, StickyAssumption DEF LastIsLatest
  <2> QED BY <1>1, <1>3, <1>4, <2>2, <2>3
<1>7. run' = (IF avail # {c} /\ c = last THEN run + 1 ELSE 1) /\ last' = c
  BY DEF SelectByStrategy
<1>8. run' \in Nat /\ run' <= n
  <2>1. CASE avail # {c} /\ c = last
    <3>1. Stays(avail)
      BY <1>6, <2>1
    <3>2. run <= used[c].count /\ run \in Nat
      BY <1>0, <1>3, <2>1, StickyAssumption DEF LastIsLatest, StickyTyped
    <3> QED BY <1>3, <1>4, <1>7, <2>1, <3>1, <3>2
  <2>2. CASE ~(avail # {c} /\ c = last)
    BY <1>5, <1>7, <2>2
  <2> QED BY <2>1, <2>2
<1>9. Decided(r) /\ RecordUse(c, n)
  BY DEF SelectByStrategy
<1> HIDE DEF c, n, avail
<1> QED BY <1>3, <1>5, <1>7, <1>8, <1>9, RecordInv

(* A new millisecond: the order of all stamps stays. *)
LEMMA MillisecondInv ==
  ASSUME StickyInv, NextMillisecond
  PROVE  StickyInv'
<1>0. StickyTyped /\ NoStampAhead /\ LastIsLatest
  BY DEF StickyInv
<1>1. \A x \in AnyCounter : Ranked(x) = [at |-> Rank(x.at), count |-> x.count] /\ Ranked(x) \in AnyCounter
  <2> SUFFICES ASSUME NEW x \in AnyCounter
               PROVE  Ranked(x) = [at |-> Rank(x.at), count |-> x.count] /\ Ranked(x) \in AnyCounter
    OBVIOUS
  <2>1. Rank(x.at) \in Nat
    BY <1>0, RanksKeepOrder DEF AnyCounter
  <2> QED BY <2>1 DEF Ranked, AnyCounter
<1>2. /\ used' = [c \in Account |-> Ranked(used[c])] /\ saved' = [c \in Account |-> Ranked(saved[c])]
      /\ batch' = [c \in DOMAIN batch |-> Ranked(batch[c])]
      /\ now' = Rank(now) + 1 /\ now \in Stamps
      /\ UNCHANGED <<pending, where, snapshot, last, run>>
  BY DEF NextMillisecond
<1>3. Rank(now) \in Nat
  BY <1>0, RanksKeepOrder DEF StickyTyped
<1>4. StickyTyped'
  BY <1>0, <1>1, <1>2, <1>3 DEF StickyTyped
<1>5. ASSUME NEW x \in AnyCounter, x.at \in Stamps PROVE Ranked(x).at <= now'
  <2>1. x.at <= now /\ x.at \in Nat /\ now \in Nat
    BY <1>0, <1>5 DEF NoStampAhead, AnyCounter, StickyTyped
  <2>2. Rank(x.at) <= Rank(now) /\ Rank(x.at) \in Nat
    BY <1>0, <2>1, RanksKeepOrder
  <2> QED BY <1>1, <1>2, <1>3, <2>2
<1>6. NoStampAhead'
  <2>1. \A c \in Account : used'[c].at <= now' /\ saved'[c].at <= now'
    BY <1>0, <1>2, <1>5 DEF StickyTyped, Stamps
  <2>2. \A c \in DOMAIN batch' : batch'[c].at <= now'
    BY <1>0, <1>2, <1>5 DEF StickyTyped, Stamps
  <2> QED BY <2>1, <2>2 DEF NoStampAhead, Stamps
<1>7. ASSUME NEW c \in Account, NEW d \in Account, used[d].at < used[c].at
      PROVE  used'[d].at < used'[c].at
  <2>1. used[c] \in AnyCounter /\ used[d] \in AnyCounter
        /\ used[c].at \in Nat /\ used[d].at \in Nat /\ used[c].at \in Stamps
    BY <1>0 DEF StickyTyped, AnyCounter, Stamps
  <2>2. Rank(used[d].at) < Rank(used[c].at)
    BY <1>0, <1>7, <2>1, RanksKeepOrder
  <2> QED BY <1>1, <1>2, <2>1, <2>2
<1>8. \A c \in Account : used'[c].count = used[c].count
  BY <1>0, <1>1, <1>2 DEF StickyTyped
<1>9. LastIsLatest'
  BY <1>0, <1>2, <1>7, <1>8 DEF LastIsLatest, StickyTyped
<1> QED BY <1>4, <1>6, <1>9 DEF StickyInv

LEMMA StickyStepInv == Spaced /\ StickyInv /\ [StickyNext]_stickyVars => StickyInv'
<1> SUFFICES ASSUME Spaced, StickyInv, [StickyNext]_stickyVars PROVE StickyInv'
  OBVIOUS
<1> USE StickyAssumption
<1>0. StickyTyped /\ NoStampAhead /\ LastIsLatest
  BY DEF StickyInv
<1>1. CASE \E r \in Selection : SelectByStrategy(r)
  BY <1>1, SelectInv
<1>2. CASE \E r \in Selection : \E avail \in SUBSET Account : Read(r, avail)
  <2>1. StickyTyped'
    BY <1>0, <1>2 DEF StickyTyped, Read
  <2>2. (NoStampAhead /\ LastIsLatest)'
    BY <1>0, <1>2 DEF NoStampAhead, Stamps, LastIsLatest, Read
  <2> QED BY <2>1, <2>2 DEF StickyInv
<1>3. CASE \E r \in Selection : \E c \in Account : SelectPinned(r, c)
  <2>1. 1 \in 1..Limit
    OBVIOUS
  <2>2. PICK r \in Selection, c \in Account : SelectPinned(r, c)
    BY <1>3
  <2>3. Decided(r) /\ RecordUse(c, 1) /\ last' = c /\ run' = 1 /\ c \in snapshot[r]
    BY <2>2 DEF SelectPinned
  <2> QED BY <2>1, <2>3, RecordInv
<1>4. CASE FlushBegin
  <2>1. StickyTyped'
    BY <1>0, <1>4 DEF StickyTyped, FlushBegin
  <2>2. Stamps' \subseteq Stamps
    BY <1>0, <1>4 DEF StickyTyped, Stamps, FlushBegin
  <2> QED BY <1>0, <1>4, <2>1, <2>2 DEF StickyInv, NoStampAhead, LastIsLatest, FlushBegin
<1>5. CASE FlushDone \/ FlushFails
  <2>1. NoBatch = [c \in {} |-> Never] /\ DOMAIN NoBatch = {} /\ NoBatch \in [DOMAIN NoBatch -> AnyCounter]
    BY DEF NoBatch
  <2>2. batch' = NoBatch
    BY <1>5 DEF FlushDone, FlushFails
  <2>3. saved' \in [Account -> AnyCounter] /\ pending' \subseteq Account
    BY <1>0, <1>5 DEF StickyTyped, FlushDone, FlushFails
  <2>4. StickyTyped'
    <3>1. DOMAIN batch' = {} /\ batch' \in [DOMAIN batch' -> AnyCounter]
      BY <2>1, <2>2
    <3> QED BY <1>0, <1>5, <2>3, <3>1 DEF StickyTyped, FlushDone, FlushFails
  <2>5. Stamps' \subseteq Stamps
    BY <1>0, <1>5 DEF StickyTyped, Stamps, FlushDone, FlushFails, NoBatch
  <2> QED BY <1>0, <1>5, <2>4, <2>5 DEF StickyInv, NoStampAhead, LastIsLatest, FlushDone, FlushFails
<1>6. CASE Restart
  <2>1. StickyTyped'
    BY <1>0, <1>6 DEF StickyTyped, Restart, NoBatch
  <2>2. Stamps' \subseteq Stamps
    BY <1>6 DEF Stamps, Restart, NoBatch
  <2> QED BY <1>0, <1>6, <2>1, <2>2 DEF StickyInv, NoStampAhead, LastIsLatest, Restart
<1>7. CASE NextMillisecond
  BY <1>7, MillisecondInv
<1>8. CASE UNCHANGED stickyVars
  BY <1>0, <1>8 DEF StickyInv, StickyTyped, NoStampAhead, Stamps, LastIsLatest, stickyVars
<1> QED BY <1>1, <1>2, <1>3, <1>4, <1>5, <1>6, <1>7, <1>8 DEF StickyNext, Flush

THEOREM StickyInvariant == ASSUME Spaced PROVE StickySpec => []StickyInv
<1>1. StickyInv /\ [StickyNext]_stickyVars => StickyInv'
  BY StickyStepInv
<1> QED BY <1>1, StickyInitInv, PTL DEF StickySpec

\* pickRoundRobin under its mutex: whatever accounts come and go and however
\* requests, flushes and restarts interleave, the strategy's runs are limited
\* while two selections never share a millisecond.
THEOREM StickyRunsAreLimited == ASSUME Spaced PROVE StickySpec => []RunsAreLimited
<1>1. StickyInv => RunsAreLimited
  BY DEF StickyInv, LastIsLatest, RunsAreLimited
<1> QED BY <1>1, StickyInvariant, PTL
===============================================================================
