----------------------------- MODULE FusionPanel -----------------------------
(***************************************************************************)
(* A fusion combo: the prompt goes to every panel model at once, answers   *)
(* are collected until all have settled, a quorum and its grace period are *)
(* over or the hard timeout fires, and a judge model writes the answer.    *)
(*                                                                         *)
(* The collected array is handed over as it is: calls that settle later    *)
(* still write into it while it is being read.  Timers fire on time.       *)
(***************************************************************************)
EXTENDS Naturals, FiniteSets, Sequences

CONSTANTS
  Panel,        \* the models of the combo, a sequence
  Judge,        \* judgeModel, or the first of the panel
  MinPanel,     \* minPanel of the tuning
  Grace,        \* stragglerGraceMs in ticks
  HardTimeout,  \* panelHardTimeoutMs in ticks
  NoModel       \* no model is being asked for the answer

ASSUME PanelAssumption ==
  /\ Panel \in Seq({Panel[i] : i \in DOMAIN Panel}) \ {<<>>}
  /\ MinPanel \in Nat /\ Grace \in Nat \ {0} /\ HardTimeout \in Nat \ {0}
  /\ NoModel \notin {Panel[i] : i \in DOMAIN Panel} \cup {Judge}

Slot == DOMAIN Panel
Quorum == LET asked == IF MinPanel > 2 THEN MinPanel ELSE 2
          IN  IF asked < Len(Panel) THEN asked ELSE Len(Panel)

VARIABLES
  stage,    \* where the request is
  out,      \* the array of collectPanel
  grace,    \* ticks until the grace timer fires, Grace + 1 while it is not set
  elapsed,  \* ticks since the fan-out
  waited,   \* history: ticks spent collecting after the quorum was there
  inHand,   \* history: the slots with a text when the collection ended
  next,     \* the slot the reading loop is at
  answers,  \* the slots whose text was taken
  asked,    \* the model asked for the final answer
  verdict   \* what the client receives

fusionVars == <<stage, out, grace, elapsed, waited, inHand, next, answers, asked, verdict>>

Stage == {"idle", "collecting", "reading", "answering", "done"}
Result == {"pending", "text", "empty", "failed"}

FusionTypeOK ==
  /\ stage \in Stage
  /\ out \in [Slot -> Result]
  /\ grace \in 0..Grace + 1
  /\ elapsed \in 0..HardTimeout
  /\ waited \in 0..HardTimeout
  /\ inHand \subseteq Slot
  /\ next \in 1..Len(Panel) + 1
  /\ answers \subseteq Slot
  /\ asked \in {Panel[i] : i \in Slot} \cup {Judge, NoModel}
  /\ verdict \in {"none", "ok", "error"}

FusionInit ==
  /\ stage = "idle"
  /\ out = [i \in Slot |-> "pending"]
  /\ grace = Grace + 1 /\ elapsed = 0 /\ waited = 0 /\ inHand = {} /\ next = 1
  /\ answers = {} /\ asked = NoModel /\ verdict = "none"

Good(o) == {i \in Slot : o[i] \in {"text", "empty"}}
Pending(o) == {i \in Slot : o[i] = "pending"}

-----------------------------------------------------------------------------
(* handleFusionChat: a panel of one is asked directly. *)
Begin ==
  /\ stage = "idle"
  /\ IF Len(Panel) = 1
     THEN stage' = "answering" /\ asked' = Panel[1]
     ELSE stage' = "collecting" /\ UNCHANGED asked
  /\ UNCHANGED <<out, grace, elapsed, waited, inHand, next, answers, verdict>>

\* Mutant: the grace period starts again with every answer.
GraceRestarts(o) == IF Cardinality(Good(o)) >= Quorum THEN Grace ELSE grace

\* The grace timer is set once.
GraceAfter(o) == IF Cardinality(Good(o)) >= Quorum /\ grace > Grace THEN Grace ELSE grace

CollectionEnds(o) ==
  /\ stage' = "reading"
  /\ inHand' = {i \in Slot : o[i] = "text"}

(* A panel call settles; the last one ends the collection. *)
Settle(i, res) ==
  /\ stage \in {"collecting", "reading"}
  /\ out[i] = "pending"
  /\ out' = [out EXCEPT ![i] = res]
  /\ IF stage = "collecting"
     THEN /\ grace' = GraceAfter(out')
          /\ IF Pending(out') = {} THEN CollectionEnds(out') ELSE UNCHANGED <<stage, inHand>>
     ELSE UNCHANGED <<stage, grace, inHand>>
  /\ UNCHANGED <<elapsed, waited, next, answers, asked, verdict>>

\* Mutant: only the grace timer ends the collection.
GraceOnly ==
  /\ stage = "collecting"
  /\ grace = 0
  /\ CollectionEnds(out)
  /\ UNCHANGED <<out, grace, elapsed, waited, next, answers, asked, verdict>>

(* The grace timer fires, or the hard timer: with it every call still pending *)
(* has run into its own timeout of the same length (withTimeout).             *)
TimerFires ==
  /\ stage = "collecting"
  /\ grace = 0 \/ elapsed = HardTimeout
  /\ out' = IF elapsed = HardTimeout
            THEN [i \in Slot |-> IF out[i] = "pending" THEN "failed" ELSE out[i]]
            ELSE out
  /\ CollectionEnds(out)
  /\ UNCHANGED <<grace, elapsed, waited, next, answers, asked, verdict>>

FusionTick ==
  /\ stage = "collecting"
  /\ grace > 0 /\ elapsed < HardTimeout
  /\ elapsed' = elapsed + 1
  /\ grace' = IF grace <= Grace THEN grace - 1 ELSE grace
  /\ waited' = IF Cardinality(Good(out)) >= Quorum THEN waited + 1 ELSE waited
  /\ UNCHANGED <<stage, out, inHand, next, answers, asked, verdict>>

\* Mutant: reading stops at the quorum.
TakeQuorum ==
  /\ stage = "reading" /\ next <= Len(Panel)
  /\ answers' = IF out[next] = "text" /\ Cardinality(answers) < Quorum THEN answers \cup {next} ELSE answers
  /\ next' = next + 1
  /\ UNCHANGED <<stage, out, grace, elapsed, waited, inHand, asked, verdict>>

(* The loop that takes the texts awaits between slots. *)
Take ==
  /\ stage = "reading" /\ next <= Len(Panel)
  /\ answers' = IF out[next] = "text" THEN answers \cup {next} ELSE answers
  /\ next' = next + 1
  /\ UNCHANGED <<stage, out, grace, elapsed, waited, inHand, asked, verdict>>

(* No answer: an error.  One: that model is asked the original question.     *)
(* More: the judge is asked to synthesise.                                   *)
Decide ==
  /\ stage = "reading" /\ next > Len(Panel)
  /\ \/ /\ answers = {}
        /\ stage' = "done" /\ verdict' = "error"
        /\ UNCHANGED asked
     \/ \E i \in answers :
          /\ answers = {i}
          /\ stage' = "answering" /\ asked' = Panel[i]
          /\ UNCHANGED verdict
     \/ /\ Cardinality(answers) >= 2
        /\ stage' = "answering" /\ asked' = Judge
        /\ UNCHANGED verdict
  /\ UNCHANGED <<out, grace, elapsed, waited, inHand, next, answers>>

(* The model that was asked answers, or fails. *)
Answer(o) ==
  /\ stage = "answering"
  /\ stage' = "done" /\ verdict' = o
  /\ UNCHANGED <<out, grace, elapsed, waited, inHand, next, answers, asked>>

FusionReturn ==
  /\ stage = "done"
  /\ stage' = "idle"
  /\ out' = [i \in Slot |-> "pending"]
  /\ grace' = Grace + 1 /\ elapsed' = 0 /\ waited' = 0 /\ inHand' = {} /\ next' = 1
  /\ answers' = {} /\ asked' = NoModel /\ verdict' = "none"

Finish == \E o \in {"ok", "error"} : Answer(o)

FusionNext ==
  \/ Begin \/ TimerFires \/ FusionTick \/ Take \/ Decide \/ Finish \/ FusionReturn
  \/ \E i \in Slot, res \in {"text", "empty", "failed"} : Settle(i, res)

FusionSpec == FusionInit /\ [][FusionNext]_fusionVars

\* Time passes and timers fire; the reading loop and the final call end.  A
\* panel call may hang for ever.
FusionFairSpec ==
  /\ FusionSpec
  /\ WF_fusionVars(FusionTick) /\ WF_fusionVars(TimerFires)
  /\ WF_fusionVars(Take \/ Decide) /\ WF_fusionVars(Finish)

-----------------------------------------------------------------------------
(* Properties *)

\* Stragglers cost at most Grace once the quorum is there, in whatever order
\* and at whatever times the calls settle.
StragglersAreCapped == waited <= Grace

\* Every text that was there when the collection ended reaches the judge, and
\* only texts do, although late calls write into the array while it is read.
JudgedOnAllTexts ==
  stage \in {"answering", "done"} => inHand \subseteq answers /\ \A i \in answers : out[i] = "text"

\* The judge is asked in time, and on everything the panel had to say by then.
JudgedInTime == StragglersAreCapped /\ JudgedOnAllTexts

\* A hung panel model cannot hang the request.
FusionEnds == stage = "collecting" ~> stage = "done"

=============================================================================
