------------------------------ MODULE MCAccounts ------------------------------
(* Small instances, for TLC, of what decides which account serves a request:  *)
(* the loop of RoutingEngine next to the operator's edits, and the sticky     *)
(* round robin over the accounts left to choose from.  They share no state:   *)
(* in a behaviour one of the two moves and the other stays as it begins.      *)
EXTENDS RoutingEngine, StickyRoundRobin

CONSTANT Parts  \* what the behaviours of a run are about: "loop", "sticky"

\* One failure of each kind but the constant cooldown: they stop the loop, lock
\* nothing, lock for a level or for two ticks.
MCFailures ==
  {[kind |-> "payload", ticks |-> 0], [kind |-> "client", ticks |-> 0],
   [kind |-> "backoff", ticks |-> 0], [kind |-> "reset", ticks |-> 2]}

\* The constant cooldown, of one tick.
MCFixed == {[kind |-> "fixed", ticks |-> 1]}

VARIABLE part  \* which of the two moves

accountVars == <<part, vars, stickyVars>>

Loop(step)   == part = "loop" /\ step /\ UNCHANGED <<part, stickyVars>>
Sticky(step) == part = "sticky" /\ step /\ UNCHANGED <<part, vars>>

MCInit == part \in Parts /\ Init /\ StickyInit

MCNext == Loop(Next) \/ Sticky(StickyNext)

\* The fairness of StickyFairSpec; what is asked of the loop is safety.
MCSpec ==
  /\ MCInit /\ [][MCNext]_accountVars
  /\ WF_accountVars(Sticky(NextMillisecond)) /\ WF_accountVars(Sticky(FlushBegin))
  /\ SF_accountVars(Sticky(FlushDone))
  /\ \A r \in Selection :
       WF_accountVars(Sticky(SelectByStrategy(r) \/ \E c \in Account : SelectPinned(r, c)))

\* The fairness of FairSpec.
MCLoopSpec ==
  /\ MCInit /\ [][MCNext]_accountVars
  /\ WF_accountVars(Loop(Tick)) /\ \A r \in Req : WF_accountVars(Loop(Progress(r)))
=============================================================================
