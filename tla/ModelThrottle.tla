---------------------------- MODULE ModelThrottle ----------------------------
(***************************************************************************)
(* The registry of rate-limited models: 429s are counted in a sliding      *)
(* window, the Threshold-th makes the model HOT for a cooldown that grows  *)
(* with every relapse.  An entry keeps ages and remaining ticks instead of *)
(* the code's timestamps, and an absent entry equals a fresh one.          *)
(***************************************************************************)
EXTENDS Naturals, Sequences

CONSTANTS
  Window,        \* WINDOW_MS in ticks
  Threshold,     \* THRESHOLD
  BaseThrottle,  \* BASE_COOLDOWN_MS in ticks
  Factor,        \* ESCALATION_FACTOR
  MaxThrottle,   \* MAX_COOLDOWN_MS in ticks
  TopLevel,      \* the cap of hotLevel
  Decay          \* HOT_LEVEL_DECAY_MS in ticks

ASSUME ThrottleAssumption ==
  /\ Window \in Nat \ {0} /\ Threshold \in Nat \ {0}
  /\ BaseThrottle \in Nat \ {0} /\ Factor \in Nat \ {0} /\ MaxThrottle \in Nat \ {0}
  /\ TopLevel \in Nat \ {0} /\ Decay \in Nat \ {0}

\* Where counting stops: no comparison tells later times apart.
LongAgo == Decay + MaxThrottle + 1

Entry == [hits  : Seq(0..Window - 1),  \* ages of the 429s in the window
          left  : Nat,                 \* ticks until throttledUntil, 0 when past
          level : 0..TopLevel,         \* hotLevel
          since : 0..LongAgo]          \* ticks since lastThrottledAt, capped

FreshEntry == [hits |-> <<>>, left |-> 0, level |-> 0, since |-> LongAgo]

Larger(x, y) == IF x > y THEN x ELSE y
AtMost(x, cap) == IF x \in 0..cap THEN x ELSE cap

\* What is in a set, of a sequence, one after the other.
Only(order, names) ==
  LET kept[n \in 0..Len(order)] ==
        IF n = 0 THEN <<>>
        ELSE IF order[n] \in names THEN Append(kept[n - 1], order[n]) ELSE kept[n - 1]
  IN  kept[Len(order)]

Hot(e) == e.left > 0

CooldownFor(lv) == AtMost(BaseThrottle * Factor^(lv - 1), MaxThrottle)

\* getEntry: the escalation is forgotten Decay after the last throttle began.
Remembered(e) == IF e.since > Decay THEN 0 ELSE e.level

NextHotLevel(e) == IF e.since <= Decay THEN AtMost(Remembered(e) + 1, TopLevel) ELSE 1

Throttled(e, retry) ==
  [hits |-> <<>>, left |-> Larger(CooldownFor(NextHotLevel(e)), retry),
   level |-> NextHotLevel(e), since |-> 0]

\* Mutant: a Retry-After replaces the cooldown that runs.
ReplacedByRetry(e, retry) == [e EXCEPT !.level = Remembered(e), !.left = IF retry > 0 THEN retry ELSE e.left]

\* A model already HOT is only extended, by a Retry-After.
Extended(e, retry) == [e EXCEPT !.level = Remembered(e), !.left = Larger(e.left, retry)]

Counted(e) == [e EXCEPT !.level = Remembered(e), !.hits = Append(e.hits, 0)]

Recorded(e, retry) ==
  IF Hot(e) THEN Extended(e, retry)
  ELSE IF Len(e.hits) + 1 < Threshold THEN Counted(e) ELSE Throttled(e, retry)

\* Mutant: a cooldown does not run down.
StuckLater(e) == [e EXCEPT !.since = AtMost(e.since + 1, LongAgo)]

\* One tick later: hits leave the window, the cooldown runs down.
Later(e) ==
  [hits |-> Only([i \in 1..Len(e.hits) |-> e.hits[i] + 1], 0..Window - 1),
   left |-> IF e.left > 0 THEN e.left - 1 ELSE 0,
   level |-> e.level,
   since |-> AtMost(e.since + 1, LongAgo)]
=============================================================================
