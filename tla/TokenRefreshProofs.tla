-------------------------- MODULE TokenRefreshProofs --------------------------
(***************************************************************************)
(* Proofs about TokenRefresh for every number of concurrent refreshes,     *)
(* tokens and retries: the state is well typed, and one refresh token is   *)
(* in two calls to the provider at once only where neither the memo nor the*)
(* connection's lock is asked.                                             *)
(***************************************************************************)
EXTENDS TokenRefresh, TLAPS

\* What makes the memo a lock: a call in flight keeps its token's entry pending
\* (no timer runs on an entry that holds no result), and a job only calls when
\* there is no entry.
MemoGuards ==
  /\ \A t \in Token : memo[t] \in {Absent, Pending, Null} => ttl[t] = 0
  /\ \A j \in Job : pc[j] = "calling" => memo[token[j]] = Pending
  /\ \A t \in Token : memo[t] = Pending => \E j \in Job : pc[j] = "calling" /\ token[j] = t
  /\ \A i, j \in Job : pc[i] = "calling" /\ pc[j] = "calling" /\ token[i] = token[j] => i = j

Busy == {"attempt", "calling", "direct", "sharing"}

\* What the lock gives: whoever works under it holds it.
HoldersWork == \A j \in Job : pc[j] \in Busy /\ TakesLock(j) => lock = j

\* Only the executors without the memo call past it.
DirectCalls == \A j \in Job : pc[j] = "direct" => executor \in Direct

\* Nobody waits for a call that nobody makes.
SharersAwaitACall ==
  \A i \in Job : pc[i] = "sharing" =>
    \E j \in Job : pc[j] = "calling" /\ token[j] = token[i]

IInv == TypeOK /\ MemoGuards /\ SharersAwaitACall /\ HoldersWork /\ DirectCalls

Kept == Token \cup {Absent, Pending, Null, Denied}

-----------------------------------------------------------------------------
(* Conclude keeps the types, whatever is settled with whatever result.  *)
LEMMA ConcludeTyped ==
  ASSUME TypeOK, NEW S \in SUBSET Job, NEW res, Conclude(S, res)
  PROVE  /\ stored' \in Token
         /\ lock' \in Job \cup {NoJob}
         /\ pc' \in [Job -> Phase]
         /\ tries' \in [Job -> 0..MaxTries-1]
<1> USE RefreshAssumption DEF TypeOK, Conclude
<1>1. stored' \in Token /\ lock' \in Job \cup {NoJob}
  OBVIOUS
<1>2. pc' \in [Job -> Phase]
  BY DEF Phase
<1>3. tries' \in [Job -> 0..MaxTries-1]
  <2>1. \A j \in Job : tries[j] \in 0..MaxTries-1
    OBVIOUS
  <2>2. \A j \in Retrying(S, res) : tries[j] + 1 \in 0..MaxTries-1
    BY <2>1 DEF Retrying
  <2>3. 0 \in 0..MaxTries-1
    OBVIOUS
  <2> QED BY <2>1, <2>2, <2>3
<1> QED BY <1>1, <1>2, <1>3

(* What Conclude does to the calls in flight: the settled jobs S are no longer *)
(* calling or sharing, nobody starts to, and the others that do go on.         *)
LEMMA ConcludeSettles ==
  ASSUME TypeOK, NEW S \in SUBSET Job, NEW res, Conclude(S, res)
  PROVE  /\ \A i \in S : pc'[i] \notin {"calling", "direct", "sharing"}
         /\ \A i \in Job \ S : pc'[i] \in {"calling", "direct", "sharing"} => pc'[i] = pc[i]
         /\ \A i \in Job \ S : pc[i] \in {"calling", "direct", "sharing"} => pc'[i] = pc[i]
BY DEF TypeOK, Conclude, Retrying

LEMMA CallersAreJobs ==
  ASSUME NEW j \in Job
  PROVE  Callers(j) \in SUBSET Job /\ j \in Callers(j)
BY DEF Callers

LEMMA KeepTyped ==
  ASSUME TypeOK, NEW t \in Token, NEW res \in Token \cup {Null, Denied}, Keep(t, res)
  PROVE  memo' \in [Token -> Kept] /\ ttl' \in [Token -> 0..TTL]
BY RefreshAssumption DEF TypeOK, Keep, Kept

-----------------------------------------------------------------------------
(* Type correctness *)

LEMMA InitTyped == Init => TypeOK
BY RefreshAssumption DEF Init, TypeOK, Token, Kind, Phase

LEMMA StepTyped == TypeOK /\ [Next]_vars => TypeOK'
<1> SUFFICES ASSUME TypeOK, [Next]_vars PROVE TypeOK'
  OBVIOUS
<1> USE RefreshAssumption
<1>1. ASSUME NEW j \in Job, NEW k \in Kind, Arm(j, k) PROVE TypeOK'
  BY <1>1 DEF TypeOK, Arm, Phase
<1>2. ASSUME NEW j \in Job, Ask(j) PROVE TypeOK'
  BY <1>2 DEF TypeOK, Ask, Phase
<1>3. ASSUME NEW j \in Job, Rejoin(j) PROVE TypeOK'
  BY <1>3 DEF TypeOK, Rejoin, Phase
<1>4. ASSUME NEW j \in Job, Call(j) PROVE TypeOK'
  BY <1>4 DEF TypeOK, Call, Phase
<1>5. ASSUME NEW j \in Job, Share(j) PROVE TypeOK'
  BY <1>5 DEF TypeOK, Share, Phase
<1>6. ASSUME NEW j \in Job, Recall(j) PROVE TypeOK'
  <2>1. Conclude({j}, memo[token[j]])
    BY <1>6 DEF Recall
  <2> QED BY <1>6, <2>1, ConcludeTyped DEF TypeOK, Recall
<1>7. ASSUME NEW j \in Job, Rotate(j) PROVE TypeOK'
  <2>1. issued \in Token /\ issued + 1 \in Token
    BY <1>7 DEF TypeOK, Rotate, Token
  <2>2. memo' \in [Token -> Kept] /\ ttl' \in [Token -> 0..TTL]
    BY <1>7, <2>1, KeepTyped DEF Rotate
  <2>3. /\ stored' \in Token /\ lock' \in Job \cup {NoJob}
        /\ pc' \in [Job -> Phase] /\ tries' \in [Job -> 0..MaxTries-1]
    BY <1>7, ConcludeTyped, CallersAreJobs DEF Rotate
  <2>4. spent' \in [Token -> -1..TTL]
    BY <1>7, <2>1 DEF TypeOK, Rotate
  <2> QED BY <1>7, <2>1, <2>2, <2>3, <2>4 DEF TypeOK, Rotate, Kept
<1>8. ASSUME NEW j \in Job, Refuse(j) PROVE TypeOK'
  <2>1. memo' \in [Token -> Kept] /\ ttl' \in [Token -> 0..TTL]
    BY <1>8, KeepTyped DEF TypeOK, Refuse
  <2>2. /\ stored' \in Token /\ lock' \in Job \cup {NoJob}
        /\ pc' \in [Job -> Phase] /\ tries' \in [Job -> 0..MaxTries-1]
    BY <1>8, ConcludeTyped, CallersAreJobs DEF Refuse
  <2> QED BY <1>8, <2>1, <2>2 DEF TypeOK, Refuse, Kept
<1>9. ASSUME NEW j \in Job, Falter(j) PROVE TypeOK'
  <2>1. memo' \in [Token -> Kept] /\ ttl' \in [Token -> 0..TTL]
    BY <1>9, KeepTyped DEF TypeOK, Falter
  <2>2. /\ stored' \in Token /\ lock' \in Job \cup {NoJob}
        /\ pc' \in [Job -> Phase] /\ tries' \in [Job -> 0..MaxTries-1]
    BY <1>9, ConcludeTyped, CallersAreJobs DEF Falter
  <2> QED BY <1>9, <2>1, <2>2 DEF TypeOK, Falter, Kept
<1>10. ASSUME NEW j \in Job, Throw(j) PROVE TypeOK'
  <2>1. /\ stored' \in Token /\ lock' \in Job \cup {NoJob}
        /\ pc' \in [Job -> Phase] /\ tries' \in [Job -> 0..MaxTries-1]
    BY <1>10, ConcludeTyped, CallersAreJobs DEF Throw
  <2> QED BY <1>10, <2>1 DEF TypeOK, Throw
<1>11. ASSUME Tick PROVE TypeOK'
  BY <1>11 DEF TypeOK, Tick
<1>12. CASE UNCHANGED vars
  BY <1>12 DEF TypeOK, vars
<1>13. ASSUME NEW j \in Job, CallDirectly(j) PROVE TypeOK'
  BY <1>13 DEF TypeOK, CallDirectly, Phase
<1>14. ASSUME NEW j \in Job, RotateDirectly(j) PROVE TypeOK'
  <2>1. issued \in Token /\ issued + 1 \in Token
    BY <1>14 DEF TypeOK, RotateDirectly, Token
  <2>2. /\ stored' \in Token /\ lock' \in Job \cup {NoJob}
        /\ pc' \in [Job -> Phase] /\ tries' \in [Job -> 0..MaxTries-1]
    BY <1>14, ConcludeTyped DEF RotateDirectly
  <2>3. spent' \in [Token -> -1..TTL]
    BY <1>14, <2>1 DEF TypeOK, RotateDirectly
  <2> QED BY <1>14, <2>1, <2>2, <2>3 DEF TypeOK, RotateDirectly
<1>15. ASSUME NEW j \in Job, FailDirectly(j) PROVE TypeOK'
  <2>1. /\ stored' \in Token /\ lock' \in Job \cup {NoJob}
        /\ pc' \in [Job -> Phase] /\ tries' \in [Job -> 0..MaxTries-1]
    BY <1>15, ConcludeTyped DEF FailDirectly
  <2> QED BY <1>15, <2>1 DEF TypeOK, FailDirectly
<1> QED
  BY <1>1, <1>2, <1>3, <1>4, <1>5, <1>6, <1>7, <1>8, <1>9, <1>10, <1>11, <1>12, <1>13, <1>14, <1>15
  DEF Next, Work, Settle, SettleDirectly

\* Every variable keeps its type, whatever callers, answers and time do.
THEOREM TypeCorrect == Spec => []TypeOK
BY InitTyped, StepTyped, PTL DEF Spec

-----------------------------------------------------------------------------
(* One call per token *)

LEMMA InitGuards == Init => MemoGuards /\ SharersAwaitACall /\ HoldersWork /\ DirectCalls
BY RefreshAssumption DEF Init, MemoGuards, SharersAwaitACall, HoldersWork, DirectCalls, Busy, Token

(* Settling the call of j: its entry is rewritten and everybody who called or  *)
(* shared with its token is through; the other entries and calls are as before.*)
LEMMA SettledCall ==
  ASSUME IInv, NEW j \in Job, NEW res,
         pc[j] = "calling", Conclude(Callers(j), res), token' = token,
         \A t \in Token \ {token[j]} : memo'[t] = memo[t] /\ ttl'[t] = ttl[t],
         memo'[token[j]] # Pending,
         memo'[token[j]] \in {Absent, Null} => ttl'[token[j]] = 0
  PROVE  MemoGuards' /\ SharersAwaitACall'
<1>1. TypeOK /\ MemoGuards /\ SharersAwaitACall
  BY DEF IInv
<1>2. /\ \A i \in Callers(j) : pc'[i] \notin {"calling", "sharing"}
      /\ \A i \in Job \ Callers(j) : pc'[i] \in {"calling", "sharing"} => pc'[i] = pc[i]
      /\ \A i \in Job \ Callers(j) : pc[i] \in {"calling", "sharing"} => pc'[i] = pc[i]
  BY <1>1, CallersAreJobs, ConcludeSettles
<1>3. \A i \in Job : pc'[i] \in {"calling", "sharing"} => pc[i] = pc'[i] /\ token[i] # token[j]
  BY <1>1, <1>2 DEF MemoGuards, Callers
<1>4. token[j] \in Token /\ \A i \in Job : token[i] \in Token
  BY <1>1 DEF TypeOK
<1>5. \A t \in Token : memo'[t] = Pending => \E i \in Job : pc'[i] = "calling" /\ token'[i] = t
  <2> SUFFICES ASSUME NEW t \in Token, memo'[t] = Pending
               PROVE  \E i \in Job : pc'[i] = "calling" /\ token'[i] = t
    OBVIOUS
  <2>1. t # token[j] /\ memo[t] = Pending
    OBVIOUS
  <2>2. PICK i \in Job : pc[i] = "calling" /\ token[i] = t
    BY <1>1, <2>1 DEF MemoGuards
  <2>3. i \notin Callers(j)
    BY <2>1, <2>2 DEF Callers
  <2> QED BY <1>2, <2>2, <2>3
<1>7. MemoGuards'
  BY <1>1, <1>3, <1>4, <1>5 DEF MemoGuards
<1>6. SharersAwaitACall'
  <2> SUFFICES ASSUME NEW i \in Job, pc'[i] = "sharing"
               PROVE  \E k \in Job : pc'[k] = "calling" /\ token'[k] = token'[i]
    BY DEF SharersAwaitACall
  <2>1. pc[i] = "sharing" /\ token[i] # token[j]
    BY <1>3
  <2>2. PICK k \in Job : pc[k] = "calling" /\ token[k] = token[i]
    BY <1>1, <2>1 DEF SharersAwaitACall
  <2>3. k \notin Callers(j)
    BY <2>1, <2>2 DEF Callers
  <2> QED BY <1>2, <2>2, <2>3
<1> QED BY <1>6, <1>7

LEMMA StepGuards == IInv /\ [Next]_vars => MemoGuards' /\ SharersAwaitACall'
<1> SUFFICES ASSUME IInv, [Next]_vars PROVE MemoGuards' /\ SharersAwaitACall'
  OBVIOUS
<1> USE RefreshAssumption
<1> USE DEF MemoGuards, SharersAwaitACall
<1>0. TypeOK /\ MemoGuards /\ SharersAwaitACall
  BY DEF IInv
<1>1. ASSUME NEW j \in Job, NEW k \in Kind, Arm(j, k) PROVE MemoGuards' /\ SharersAwaitACall'
  BY <1>0, <1>1 DEF TypeOK, Arm
<1>2. ASSUME NEW j \in Job, Ask(j) PROVE MemoGuards' /\ SharersAwaitACall'
  BY <1>0, <1>2 DEF TypeOK, Ask
<1>3. ASSUME NEW j \in Job, Rejoin(j) PROVE MemoGuards' /\ SharersAwaitACall'
  BY <1>0, <1>3 DEF TypeOK, Rejoin
<1>4. ASSUME NEW j \in Job, Call(j) PROVE MemoGuards' /\ SharersAwaitACall'
  <2>1. \A i \in Job : pc[i] = "calling" => token[i] # token[j]
    BY <1>0, <1>4 DEF Call
  <2>2. \A i \in Job : token[i] \in Token
    BY <1>0 DEF TypeOK
  <2> QED BY <1>0, <1>4, <2>1, <2>2 DEF TypeOK, Call, ReachesMemo
<1>5. ASSUME NEW j \in Job, Share(j) PROVE MemoGuards' /\ SharersAwaitACall'
  <2>1. /\ token' = token /\ memo' = memo /\ ttl' = ttl
        /\ \A i \in Job \ {j} : pc'[i] = pc[i]
        /\ pc[j] = "attempt" /\ pc'[j] = "sharing"
    BY <1>0, <1>5 DEF TypeOK, Share, ReachesMemo
  <2>2. PICK k \in Job : pc[k] = "calling" /\ token[k] = token[j]
    BY <1>0, <1>5 DEF TypeOK, Share
  <2>3. \A i \in Job : pc[i] = "calling" <=> pc'[i] = "calling"
    BY <2>1
  <2>4. MemoGuards'
    BY <1>0, <2>1, <2>3
  <2>5. SharersAwaitACall'
    BY <1>0, <2>1, <2>2, <2>3
  <2> QED BY <2>4, <2>5
<1>6. ASSUME NEW j \in Job, Recall(j) PROVE MemoGuards' /\ SharersAwaitACall'
  <2>1. Conclude({j}, memo[token[j]]) /\ pc[j] = "attempt"
    BY <1>6 DEF Recall, ReachesMemo
  <2>2. \A i \in Job : (pc'[i] = "calling" <=> pc[i] = "calling") /\ (pc'[i] = "sharing" => pc[i] = "sharing")
    BY <1>0, <2>1, ConcludeSettles
  <2>3. token' = token /\ memo' = memo /\ ttl' = ttl
    BY <1>6 DEF Recall
  <2> QED BY <1>0, <2>2, <2>3
<1>7. ASSUME NEW j \in Job, Rotate(j) PROVE MemoGuards' /\ SharersAwaitACall'
  <2>1. /\ Conclude(Callers(j), issued + 1) /\ Keep(token[j], issued + 1)
        /\ pc[j] = "calling" /\ token' = token
        /\ token[j] \in Token /\ issued + 1 \in Token
    BY <1>0, <1>7 DEF TypeOK, Rotate, Token
  <2>2. memo'[token[j]] \notin {Absent, Pending, Null}
    BY <1>0, <2>1 DEF TypeOK, Keep, Token
  <2>3. \A t \in Token \ {token[j]} : memo'[t] = memo[t] /\ ttl'[t] = ttl[t]
    BY <1>0, <2>1 DEF TypeOK, Keep
  <2> QED BY <2>1, <2>2, <2>3, SettledCall
<1>8. ASSUME NEW j \in Job, Refuse(j) PROVE MemoGuards' /\ SharersAwaitACall'
  BY <1>0, <1>8, SettledCall DEF TypeOK, Refuse, Keep
<1>9. ASSUME NEW j \in Job, Falter(j) PROVE MemoGuards' /\ SharersAwaitACall'
  BY <1>0, <1>9, SettledCall DEF TypeOK, Falter, Keep
<1>10. ASSUME NEW j \in Job, Throw(j) PROVE MemoGuards' /\ SharersAwaitACall'
  BY <1>0, <1>10, SettledCall DEF TypeOK, Throw
<1>11. ASSUME Tick PROVE MemoGuards' /\ SharersAwaitACall'
  BY <1>0, <1>11 DEF TypeOK, Tick
<1>12. CASE UNCHANGED vars
  BY <1>0, <1>12 DEF vars
<1>13. ASSUME NEW j \in Job, CallDirectly(j) PROVE MemoGuards' /\ SharersAwaitACall'
  BY <1>0, <1>13 DEF TypeOK, CallDirectly
<1>14. ASSUME NEW j \in Job, RotateDirectly(j) \/ FailDirectly(j) PROVE MemoGuards' /\ SharersAwaitACall'
  <2>1. PICK res : Conclude({j}, res)
    BY <1>14 DEF RotateDirectly, FailDirectly
  <2>2. token' = token /\ memo' = memo /\ ttl' = ttl /\ pc[j] = "direct"
    BY <1>14 DEF RotateDirectly, FailDirectly
  <2>4. /\ pc'[j] \notin {"calling", "direct", "sharing"}
        /\ \A i \in Job \ {j} : pc'[i] \in {"calling", "direct", "sharing"} => pc'[i] = pc[i]
        /\ \A i \in Job \ {j} : pc[i] \in {"calling", "direct", "sharing"} => pc'[i] = pc[i]
    BY <1>0, <2>1, ConcludeSettles
  <2>3. \A i \in Job : (pc'[i] = "calling" <=> pc[i] = "calling") /\ (pc'[i] = "sharing" => pc[i] = "sharing")
    BY <2>2, <2>4
  <2> QED BY <1>0, <2>2, <2>3
<1> QED
  BY <1>1, <1>2, <1>3, <1>4, <1>5, <1>6, <1>7, <1>8, <1>9, <1>10, <1>11, <1>12, <1>13, <1>14
  DEF Next, Work, Settle, SettleDirectly

(* A job that is through frees the lock it held; one that goes on keeps it. *)
LEMMA ConcludeHolds ==
  ASSUME IInv, NEW S \in SUBSET Job, \A i \in S : pc[i] \in Busy,
         NEW res, Conclude(S, res), UNCHANGED <<executor, kind>>
  PROVE  HoldersWork' /\ DirectCalls'
<1>1. TypeOK /\ HoldersWork /\ DirectCalls
  BY DEF IInv
<1>2. HoldersWork'
  <2> SUFFICES ASSUME NEW j \in Job, pc'[j] \in Busy, TakesLock(j)' PROVE lock' = j
    BY DEF HoldersWork
  <2>1. TakesLock(j)
    BY DEF TakesLock, Nested
  <2>2. CASE j \in S
    <3>1. j \in Retrying(S, res)
      BY <1>1, <2>2 DEF Conclude, Retrying, Busy
    <3>2. lock = j
      BY <2>1, <2>2, <1>1 DEF HoldersWork
    <3> QED BY <3>1, <3>2 DEF Conclude, Frees
  <2>3. CASE j \notin S
    <3>1. pc'[j] = pc[j]
      BY <1>1, <2>3 DEF Conclude, Retrying, Busy, TypeOK
    <3>2. lock = j
      BY <1>1, <2>1, <3>1 DEF HoldersWork
    <3> QED BY <2>3, <3>2 DEF Conclude, Frees
  <2> QED BY <2>2, <2>3
<1>3. DirectCalls'
  <2> SUFFICES ASSUME NEW j \in Job, pc'[j] = "direct" PROVE executor' \in Direct
    BY DEF DirectCalls
  <2>1. pc[j] = "direct"
    BY <1>1, ConcludeSettles
  <2> QED BY <1>1, <2>1 DEF DirectCalls
<1> QED BY <1>2, <1>3

LEMMA StepHolds == IInv /\ [Next]_vars => HoldersWork' /\ DirectCalls'
<1> SUFFICES ASSUME IInv, [Next]_vars PROVE HoldersWork' /\ DirectCalls'
  OBVIOUS
<1>0. TypeOK /\ HoldersWork /\ DirectCalls
  BY DEF IInv
<1> USE DEF HoldersWork, DirectCalls, TakesLock, Nested, Busy
<1>1. ASSUME NEW j \in Job, NEW k \in Kind, Arm(j, k) PROVE HoldersWork' /\ DirectCalls'
  BY <1>0, <1>1 DEF TypeOK, Arm
<1>2. ASSUME NEW j \in Job, Ask(j) PROVE HoldersWork' /\ DirectCalls'
  <2>1. PICK p \in {"joined", "attempt"} : pc' = [pc EXCEPT ![j] = p]
    BY <1>2 DEF Ask
  <2>2. DirectCalls'
    BY <1>0, <1>2, <2>1 DEF TypeOK, Ask
  <2>3. HoldersWork'
    BY <1>0, <1>2, RefreshAssumption DEF TypeOK, Ask
  <2> QED BY <2>2, <2>3
<1>3. ASSUME NEW j \in Job, Rejoin(j) PROVE HoldersWork' /\ DirectCalls'
  BY <1>0, <1>3 DEF TypeOK, Rejoin
<1>4. ASSUME NEW j \in Job, Call(j) \/ Share(j) PROVE HoldersWork' /\ DirectCalls'
  BY <1>0, <1>4 DEF TypeOK, Call, Share, ReachesMemo
<1>5. ASSUME NEW j \in Job, CallDirectly(j) PROVE HoldersWork' /\ DirectCalls'
  BY <1>0, <1>5 DEF TypeOK, CallDirectly, PassesMemo
<1>6. ASSUME NEW j \in Job, Settle(j) \/ SettleDirectly(j) \/ Recall(j) PROVE HoldersWork' /\ DirectCalls'
  <2>1. UNCHANGED <<executor, kind>>
    BY <1>6 DEF Settle, SettleDirectly, Rotate, Refuse, Falter, Throw, Recall, RotateDirectly, FailDirectly
  <2>2. \A i \in Callers(j) : pc[j] \in Busy => pc[i] \in Busy
    BY DEF Callers
  <2>3. CASE Settle(j)
    <3>1. pc[j] = "calling" /\ \E res : Conclude(Callers(j), res)
      BY <2>3 DEF Settle, Rotate, Refuse, Falter, Throw
    <3>2. \A i \in Callers(j) : pc[i] \in Busy
      BY <2>2, <3>1
    <3> QED BY <2>1, <3>1, <3>2, CallersAreJobs, ConcludeHolds
  <2>4. CASE SettleDirectly(j) \/ Recall(j)
    <3>1. pc[j] \in Busy /\ \E res : Conclude({j}, res)
      BY <2>4 DEF SettleDirectly, RotateDirectly, FailDirectly, Recall, ReachesMemo
    <3> QED BY <2>1, <3>1, ConcludeHolds
  <2> QED BY <1>6, <2>3, <2>4
<1>7. ASSUME Tick \/ UNCHANGED vars PROVE HoldersWork' /\ DirectCalls'
  BY <1>0, <1>7 DEF Tick, vars
<1> QED BY <1>1, <1>2, <1>3, <1>4, <1>5, <1>6, <1>7 DEF Next, Work

LEMMA InductiveInvariant == Spec => []IInv
<1>1. Init => IInv
  BY InitTyped, InitGuards DEF IInv
<1>2. IInv /\ [Next]_vars => IInv'
  BY StepTyped, StepGuards, StepHolds DEF IInv
<1> QED BY <1>1, <1>2, PTL DEF Spec

\* dedupRefresh and withCredentialRefreshLock: one refresh token is in two
\* calls to the provider at once only when the executor of the account does not
\* use the memo and the usage page, which takes no lock, makes one of the calls.
THEOREM RefreshIsSingleFlight == Spec => []OneCallPerToken
<1>1. IInv => OneCallPerToken
  <2> SUFFICES ASSUME IInv, NEW i \in Job, NEW j \in Job, i # j, InCall(i), InCall(j), token[i] = token[j]
               PROVE  executor \in Direct /\ "dashboard" \in {kind[i], kind[j]}
    BY DEF OneCallPerToken
  <2>1. ~(pc[i] = "calling" /\ pc[j] = "calling")
    BY DEF IInv, MemoGuards
  <2>2. executor \in Direct
    BY <2>1 DEF InCall, IInv, DirectCalls
  <2>3. ~(TakesLock(i) /\ TakesLock(j))
    BY DEF InCall, IInv, HoldersWork, Busy
  <2> QED BY <2>2, <2>3 DEF TakesLock
<1> QED BY <1>1, InductiveInvariant, PTL

\* dedupRefresh: a caller that waits for a refresh somebody else started waits
\* for one that is really in flight.
THEOREM NobodyAwaitsAFinishedCall == Spec => []SharersAwaitACall
<1>1. IInv => SharersAwaitACall
  BY DEF IInv
<1> QED BY <1>1, InductiveInvariant, PTL

-----------------------------------------------------------------------------
(* A fresh result is not paid for twice *)

\* While a rotation is younger than TTL its result is still in the memo, if the
\* executor uses it.
FreshIsKept ==
  executor \notin Direct =>
    \A t \in Token : spent[t] \in 0..TTL-1 => memo[t] \in Token /\ ttl[t] = TTL - spent[t]

(* An entry in flight or absent is not that of a fresh rotation, so rewriting  *)
(* it, or making it pending, loses nothing.                                    *)
LEMMA StepFresh == IInv /\ FreshIsKept /\ [Next]_vars => FreshIsKept'
<1> SUFFICES ASSUME IInv, FreshIsKept, [Next]_vars PROVE FreshIsKept'
  OBVIOUS
<1> USE RefreshAssumption
<1>0. TypeOK /\ MemoGuards
  BY DEF IInv
<1>8. executor' = executor
  BY DEF Next, Work, Settle, SettleDirectly, Arm, Ask, Rejoin, Call, Share, Recall, CallDirectly,
         Rotate, Refuse, Falter, Throw, RotateDirectly, FailDirectly, Tick, vars
<1> SUFFICES ASSUME executor \notin Direct PROVE FreshIsKept'
  BY <1>8 DEF FreshIsKept
<1>1. ASSUME UNCHANGED <<memo, ttl, spent>> PROVE FreshIsKept'
  BY <1>1, <1>8 DEF FreshIsKept
<1>2. ASSUME NEW t \in Token, memo[t] \in {Absent, Pending}, spent' = spent,
             \A u \in Token \ {t} : memo'[u] = memo[u] /\ ttl'[u] = ttl[u]
      PROVE  FreshIsKept'
  <2>1. spent[t] \notin 0..TTL-1
    BY <1>2 DEF FreshIsKept, Token
  <2> QED BY <1>2, <2>1 DEF FreshIsKept
<1>3. \A j \in Job : pc[j] = "calling" => memo[token[j]] = Pending /\ token[j] \in Token
  BY <1>0 DEF MemoGuards, TypeOK
<1>4. ASSUME NEW j \in Job, Call(j) PROVE FreshIsKept'
  <2>1. /\ memo[token[j]] = Absent /\ token[j] \in Token /\ spent' = spent
        /\ \A u \in Token \ {token[j]} : memo'[u] = memo[u] /\ ttl'[u] = ttl[u]
    BY <1>0, <1>4 DEF Call, TypeOK
  <2> QED BY <1>2, <2>1
<1>5. ASSUME NEW j \in Job, Refuse(j) \/ Falter(j) \/ Throw(j) PROVE FreshIsKept'
  <2>1. /\ memo[token[j]] = Pending /\ token[j] \in Token /\ spent' = spent
        /\ \A u \in Token \ {token[j]} : memo'[u] = memo[u] /\ ttl'[u] = ttl[u]
    BY <1>0, <1>3, <1>5 DEF Refuse, Falter, Throw, Keep, TypeOK
  <2> QED BY <1>2, <2>1
<1>6. ASSUME NEW j \in Job, Rotate(j) PROVE FreshIsKept'
  <2>0. issued \in Token /\ issued + 1 \in Token
    BY <1>0, <1>6 DEF Rotate, TypeOK, Token
  <2>1. /\ memo' = [memo EXCEPT ![issued] = issued + 1]
        /\ ttl' = [ttl EXCEPT ![issued] = TTL]
        /\ spent' = [spent EXCEPT ![issued] = 0]
    BY <1>6, <2>0 DEF Rotate, Keep, Token
  <2>4. memo \in [Token -> Kept] /\ ttl \in [Token -> 0..TTL] /\ spent \in [Token -> -1..TTL]
    BY <1>0 DEF TypeOK, Kept
  <2>2. memo'[issued] = issued + 1 /\ ttl'[issued] = TTL /\ spent'[issued] = 0
    BY <2>4, <2>0, <2>1
  <2>3. \A u \in Token \ {issued} : memo'[u] = memo[u] /\ ttl'[u] = ttl[u] /\ spent'[u] = spent[u]
    BY <1>0, <2>1 DEF TypeOK
  <2> QED BY <2>0, <2>2, <2>3 DEF FreshIsKept
<1>9. ASSUME NEW j \in Job, SettleDirectly(j) PROVE FALSE
  BY <1>9 DEF SettleDirectly, RotateDirectly, FailDirectly, IInv, DirectCalls
<1>7. ASSUME Tick PROVE FreshIsKept'
  <2> SUFFICES ASSUME NEW t \in Token, spent'[t] \in 0..TTL-1
               PROVE  memo'[t] \in Token /\ ttl'[t] = TTL - spent'[t]
    BY DEF FreshIsKept
  <2>1. spent[t] \in 0..TTL-1 /\ spent'[t] = spent[t] + 1
    BY <1>0, <1>7 DEF Tick, TypeOK
  <2>2. memo[t] \in Token /\ ttl[t] = TTL - spent[t]
    BY <2>1 DEF FreshIsKept
  <2>3. ttl[t] > 1
    BY <2>1, <2>2
  <2> QED BY <1>0, <1>7, <2>1, <2>2, <2>3 DEF Tick, TypeOK
<1> QED
  BY <1>1, <1>4, <1>5, <1>6, <1>7, <1>9
  DEF Next, Work, Settle, Arm, Ask, Rejoin, Share, Recall, CallDirectly, vars

LEMMA OnlyCallsCall ==
  ASSUME IInv, Next, executor \notin Direct, NEW j \in Job, ~InCall(j), InCall(j)'
  PROVE  memo[token[j]] = Absent /\ token[j] \in Token
<1> USE DEF InCall
<1>0. TypeOK /\ DirectCalls
  BY DEF IInv
<1>1. ASSUME NEW S \in SUBSET Job, NEW res, Conclude(S, res) PROVE FALSE
  BY <1>0, <1>1, ConcludeSettles
<1>2. ASSUME NEW i \in Job, Settle(i) \/ SettleDirectly(i) \/ Recall(i) PROVE FALSE
  BY <1>1, <1>2, CallersAreJobs
     DEF Settle, Rotate, Refuse, Falter, Throw, Recall, SettleDirectly, RotateDirectly, FailDirectly
<1>3. ASSUME NEW i \in Job, NEW k \in Kind, Arm(i, k) PROVE FALSE
  BY <1>0, <1>3 DEF TypeOK, Arm
<1>4. ASSUME NEW i \in Job, Ask(i) \/ Rejoin(i) \/ Share(i) PROVE FALSE
  BY <1>0, <1>4 DEF TypeOK, Ask, Rejoin, Share
<1>5. ~Tick
  BY DEF Tick
<1>8. ASSUME NEW i \in Job, CallDirectly(i) PROVE FALSE
  BY <1>8 DEF CallDirectly, PassesMemo
<1>6. PICK i \in Job : Call(i)
  BY <1>2, <1>3, <1>4, <1>5, <1>8 DEF Next, Work
<1>7. i = j
  BY <1>0, <1>6 DEF TypeOK, Call
<1> QED BY <1>0, <1>6, <1>7 DEF TypeOK, Call

\* dedupRefresh's memo of successes: a caller that still holds a token rotated
\* less than TTL ago is given the fresh result and does not call the provider,
\* unless the executor does not use the memo.
THEOREM RotatedTokensRest == Spec => NoHastyRespend
<1> DEFINE Rested == executor \notin Direct =>
                       \A j \in Job : ~InCall(j) /\ InCall(j)' => spent[token[j]] \in {-1, TTL}
<1>1. Init => FreshIsKept
  BY DEF Init, FreshIsKept, Token
<1>2. IInv /\ FreshIsKept /\ [Next]_vars => [Rested]_vars
  <2> SUFFICES ASSUME IInv, FreshIsKept, Next, executor \notin Direct,
                      NEW j \in Job, ~InCall(j), InCall(j)'
               PROVE  spent[token[j]] \in {-1, TTL}
    BY DEF InCall, vars
  <2>1. memo[token[j]] = Absent /\ token[j] \in Token
    BY OnlyCallsCall
  <2>2. spent[token[j]] \notin 0..TTL-1 /\ spent[token[j]] \in -1..TTL
    BY <2>1, RefreshAssumption DEF FreshIsKept, Token, IInv, TypeOK
  <2> QED BY <2>2, RefreshAssumption
<1> HIDE DEF Rested
<1>3. Spec => [][Rested]_vars
  BY <1>1, <1>2, StepFresh, InductiveInvariant, PTL DEF Spec
<1> QED BY <1>3 DEF Rested, NoHastyRespend
=============================================================================
