------------------------------- MODULE Failover -------------------------------
(***************************************************************************)
(* What the account fallback loop promises, without locks, backoff or      *)
(* clocks: a request charges accounts one at a time, never the same one    *)
(* twice, may stop after any number of them, and is answered.              *)
(***************************************************************************)
EXTENDS Naturals

CONSTANTS Req, Conn

VARIABLES
  phase,  \* "idle", "routing" or "answered"
  tried,  \* the accounts a request has charged
  spent   \* how many upstream calls it has made

vars == <<phase, tried, spent>>

Init ==
  /\ phase = [r \in Req |-> "idle"]
  /\ tried = [r \in Req |-> {}]
  /\ spent = [r \in Req |-> 0]

Begin(r) ==
  /\ phase[r] = "idle"
  /\ phase' = [phase EXCEPT ![r] = "routing"]
  /\ UNCHANGED <<tried, spent>>

Try(r, c) ==
  /\ phase[r] = "routing"
  /\ c \notin tried[r]
  /\ tried' = [tried EXCEPT ![r] = @ \cup {c}]
  /\ spent' = [spent EXCEPT ![r] = @ + 1]
  /\ UNCHANGED phase

End(r) ==
  /\ phase[r] = "routing"
  /\ phase' = [phase EXCEPT ![r] = "answered"]
  /\ UNCHANGED <<tried, spent>>

Return(r) ==
  /\ phase[r] = "answered"
  /\ phase' = [phase EXCEPT ![r] = "idle"]
  /\ tried' = [tried EXCEPT ![r] = {}]
  /\ spent' = [spent EXCEPT ![r] = 0]

Next == \E r \in Req : Begin(r) \/ End(r) \/ Return(r) \/ \E c \in Conn : Try(r, c)

Spec == Init /\ [][Next]_vars /\ \A r \in Req : WF_vars(End(r) \/ Return(r))
=============================================================================
