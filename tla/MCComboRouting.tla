---------------------------- MODULE MCComboRouting ----------------------------
(* Small instances of ComboRouting and FusionPanel for TLC: a combo has one of *)
(* the two strategies, and a behaviour serves a combo of one of them.          *)
EXTENDS ComboRouting, FusionPanel

CONSTANTS a, b, c, d

MCTwo == <<a, b>>
MCFour == <<a, b, c, d>>

\* Every name is its own key.
MCPlain == [n \in Name |-> n]

\* No capability is asked for, or one that only the last model has.
MCFits == {{}, {Last(Models)}}

VARIABLE strategy

strategyVars == <<strategy, vars, fusionVars>>

Fallback(step) == strategy = "fallback" /\ step /\ UNCHANGED <<strategy, fusionVars>>
Fusion(step)   == strategy = "fusion" /\ step /\ UNCHANGED <<strategy, vars>>

MCInit == strategy \in {"fallback", "fusion"} /\ Init /\ FusionInit

MCNext == Fallback(Next) \/ Fusion(FusionNext)

MCFairness ==
  /\ WF_strategyVars(Fallback(Tick))
  /\ \A r \in Req : WF_strategyVars(Fallback(Progress(r)))
  /\ WF_strategyVars(Fusion(FusionTick)) /\ WF_strategyVars(Fusion(TimerFires))
  /\ WF_strategyVars(Fusion(Take \/ Decide)) /\ WF_strategyVars(Fusion(Finish))

MCSpec == MCInit /\ [][MCNext]_strategyVars /\ MCFairness

\* A request of a combo is answered, whatever its models do: in a fallback they
\* fail, throw or are waited out, in a panel they may hang.
EveryComboAnswers ==
  EveryComboAnswered /\ (strategy = "fusion" => FusionEnds)
=============================================================================
