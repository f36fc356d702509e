-------------------------- MODULE TranslationProofs --------------------------
(***************************************************************************)
(* Proofs about translated streams, for any number of events and any       *)
(* choice of formats.                                                      *)
(*                                                                         *)
(* The client's view lags behind what the translators have done, so the    *)
(* invariant speaks of the view the client will have when it has read the  *)
(* events on their way (Reads, Tells).  Each of these events fits the view *)
(* it meets (Fits): for Claude, blocks are numbered one by one and closed  *)
(* in order; for Responses, an item is added, filled and done once.        *)
(* Carried ties that view to what the provider has said and to what the    *)
(* second translator remembers, FirstOk what the first one remembers.      *)
(* Every handler of a chunk is shown to keep Carried, then the handler of  *)
(* every provider's event to yield chunks that say what was said.          *)
(***************************************************************************)
EXTENDS TranslatedStream, FiniteSetTheorems, TLAPS

Fields ==
  {"out", "toolCalls", "toolCallIndex", "serverTool", "thinkingBlock", "finishReasonSent",
   "functionIndex", "begun", "messageStartSent", "nextBlockIndex", "thinkingBlockIndex",
   "textBlockIndex", "toolArgBuffers", "responseFinished", "started", "msgItem", "reasoning",
   "inThinking", "added", "done", "completedSent"}

IsState(s) == s = [f \in Fields |-> s[f]]

\* t is s but for the fields fs.
Alters(s, t, fs) == IsState(t) /\ \A f \in Fields \ fs : t[f] = s[f]

EventType == {"start", "open", "delta", "args", "close", "end"}
PartKind == {"text", "think", "call"}
Ev == [type : EventType, kind : PartKind \cup {"none"}, n : Nat]

IsView(v) ==
  /\ v = [status |-> v.status, ends |-> v.ends, parts |-> v.parts, text |-> v.text,
          think |-> v.think, stray |-> v.stray]
  /\ v.ends \in Nat /\ v.text \in Nat /\ v.think \in Nat /\ v.stray \in BOOLEAN

-----------------------------------------------------------------------------
LEMMA EmitAlters ==
  ASSUME NEW s, IsState(s), NEW type, NEW kind, NEW n
  PROVE  /\ Alters(s, Emit(s, type, kind, n), {"out"})
         /\ Emit(s, type, kind, n).out = Append(s.out, [type |-> type, kind |-> kind, n |-> n])
BY DEF IsState, Emit, Event, Alters, Fields

LEMMA AltersTwice ==
  ASSUME NEW s, NEW t, NEW u, NEW fs, NEW gs, Alters(s, t, fs), Alters(t, u, gs)
  PROVE  Alters(s, u, fs \cup gs)
BY DEF Alters

Straight(v) == v.stray = FALSE

LEMMA SeenStray ==
  ASSUME NEW v, Straight(v), NEW c, NEW ev, c = "openai" \/ InPlace(c, v, ev)
  PROVE  Straight(Seen(c, v, ev))
<1>1. Seen(c, v, ev).stray = (v.stray \/ (c # "openai" /\ ~InPlace(c, v, ev)))
  BY Zenon DEF Seen
<1> QED BY <1>1, Zenon DEF Straight

LEMMA SeenView ==
  ASSUME NEW v, IsView(v), NEW c, NEW ev, NEW u, u = Seen(c, v, ev)
  PROVE  /\ IsView(u)
         /\ u.status = IF ev.type = "start" THEN "open" ELSE IF ev.type = "end" THEN "ended" ELSE v.status
         /\ u.ends = IF ev.type = "end" THEN v.ends + 1 ELSE v.ends
         /\ u.text = IF ev.type = "delta" /\ ev.kind = "text" THEN v.text + 1 ELSE v.text
         /\ u.think = IF ev.type = "delta" /\ ev.kind = "think" THEN v.think + 1 ELSE v.think
<1>1. u.stray = (v.stray \/ (c # "openai" /\ ~InPlace(c, v, ev)))
  BY Zenon DEF Seen
<1> HIDE DEF InPlace
<1>2. u.stray \in BOOLEAN
  BY <1>1 DEF IsView
<1> QED BY <1>1, <1>2 DEF IsView, Seen

-----------------------------------------------------------------------------
(* Reading a queue of events: the views on the way from v to w.  What fits    *)
(* is in its place for the client, and nothing is left open at the end.       *)
Block(k) == [kind |-> "block", n |-> k]

AllClosed(v) == \A p \in DOMAIN v.parts : v.parts[p].state = "closed"

FitsClaude(v, ev) ==
  CASE ev.type = "start" -> v.status = "waiting"
    [] ev.type = "open" ->
         /\ v.status = "open" /\ ev.kind \in PartKind
         /\ DOMAIN v.parts = {Block(k) : k \in 0..(ev.n - 1)}
         /\ \A p \in DOMAIN v.parts : v.parts[p].kind # "call" => v.parts[p].state = "closed"
    [] ev.type = "delta" ->
         /\ v.status = "open" /\ Block(ev.n) \in DOMAIN v.parts
         /\ v.parts[Block(ev.n)].kind # "call" /\ v.parts[Block(ev.n)].state = "open"
    [] ev.type = "args" ->
         /\ v.status = "open" /\ Block(ev.n) \in DOMAIN v.parts
         /\ v.parts[Block(ev.n)].kind = "call" /\ v.parts[Block(ev.n)].state = "open"
    [] ev.type = "close" ->
         /\ v.status = "open" /\ Block(ev.n) \in DOMAIN v.parts
         /\ v.parts[Block(ev.n)].state # "closed"
    [] OTHER -> v.status = "open" /\ AllClosed(v)

FitsResponses(v, ev) ==
  /\ InPlace("responses", v, ev)
  /\ ev.type = "end" => AllClosed(v)

\* Only from a provider that keeps to the order.
Fits(c, order, v, ev) ==
  /\ c = "claude" => FitsClaude(v, ev)
  /\ c = "responses" /\ order = "kept" => FitsResponses(v, ev)

Way(c, order, v, out, w, p) ==
  /\ p[0] = v /\ p[Len(out)] = w
  /\ \A i \in 1..Len(out) : p[i] = Seen(c, p[i - 1], out[i]) /\ Fits(c, order, p[i - 1], out[i])

Reads(c, order, v, out, w) == \E p : Way(c, order, v, out, w, p)

LEMMA ReadsNothing ==
  ASSUME NEW c, NEW order, NEW v, NEW w
  PROVE  Reads(c, order, v, <<>>, w) <=> v = w
<1>1. Len(<<>>) = 0 /\ 1..Len(<<>>) = {}
  OBVIOUS
<1>2. Way(c, order, v, <<>>, v, [i \in {0} |-> v])
  BY <1>1 DEF Way
<1>3. ASSUME Reads(c, order, v, <<>>, w) PROVE v = w
  BY <1>1, <1>3 DEF Way, Reads
<1> QED BY <1>2, <1>3 DEF Reads

LEMMA ReadsMore ==
  ASSUME NEW c, NEW order, NEW v, NEW w, NEW T, NEW out \in Seq(T), NEW ev \in T,
         Reads(c, order, v, out, w), Fits(c, order, w, ev)
  PROVE  Reads(c, order, v, Append(out, ev), Seen(c, w, ev))
<1> DEFINE n == Len(out)
           more == Append(out, ev)
<1>1. n \in Nat /\ Len(more) = n + 1 /\ more[n + 1] = ev /\ \A i \in 1..n : more[i] = out[i]
  OBVIOUS
<1>2. PICK p : Way(c, order, v, out, w, p)
  BY DEF Reads
<1> HIDE DEF n, more
<1> DEFINE q == [i \in 0..n + 1 |-> IF i = n + 1 THEN Seen(c, w, ev) ELSE p[i]]
<1>3. q[0] = v /\ q[n + 1] = Seen(c, w, ev)
  BY <1>1, <1>2 DEF Way
<1>4. ASSUME NEW i \in 1..n + 1
      PROVE  q[i] = Seen(c, q[i - 1], more[i]) /\ Fits(c, order, q[i - 1], more[i])
  <2>1. CASE i = n + 1
    <3>1. q[i] = Seen(c, w, ev) /\ q[i - 1] = p[n] /\ p[n] = w
      BY <1>1, <1>2, <2>1 DEF Way, n
    <3> QED BY <3>1, <1>1, <2>1
  <2>2. CASE i # n + 1
    <3>1. i \in 1..n /\ q[i] = p[i] /\ q[i - 1] = p[i - 1]
      BY <1>1, <2>2
    <3>2. p[i] = Seen(c, p[i - 1], out[i]) /\ Fits(c, order, p[i - 1], out[i])
      BY <1>2, <3>1 DEF Way, n
    <3> QED BY <3>1, <3>2, <1>1
  <2> QED BY <2>1, <2>2
<1> HIDE DEF q
<1>5. Way(c, order, v, more, Seen(c, w, ev), q)
  BY <1>1, <1>3, <1>4 DEF Way
<1> QED BY <1>5 DEF Reads, more

LEMMA ReadsOne ==
  ASSUME NEW c, NEW order, NEW v, NEW w, NEW T, NEW out \in Seq(T), out # <<>>,
         Reads(c, order, v, out, w)
  PROVE  /\ Fits(c, order, v, Head(out))
         /\ Reads(c, order, Seen(c, v, Head(out)), Tail(out), w)
<1> DEFINE n == Len(out)
           rest == Tail(out)
<1>1. /\ n \in Nat \ {0} /\ Len(rest) = n - 1 /\ Head(out) = out[1]
      /\ \A i \in 1..(n - 1) : rest[i] = out[i + 1]
  OBVIOUS
<1>2. PICK p : Way(c, order, v, out, w, p)
  BY DEF Reads
<1>3. p[0] = v /\ p[n] = w /\ \A i \in 1..n : p[i] = Seen(c, p[i - 1], out[i]) /\ Fits(c, order, p[i - 1], out[i])
  BY <1>2 DEF Way
<1> HIDE DEF n, rest
<1>4. p[1] = Seen(c, v, out[1]) /\ Fits(c, order, v, out[1])
  <2>1. 1 \in 1..n /\ 1 - 1 = 0
    BY <1>1
  <2> QED BY <2>1, <1>3
<1> DEFINE q == [i \in 0..(n - 1) |-> p[i + 1]]
<1>5. q[0] = p[1] /\ q[n - 1] = w
  BY <1>1, <1>3
<1>6. ASSUME NEW i \in 1..(n - 1)
      PROVE  q[i] = Seen(c, q[i - 1], rest[i]) /\ Fits(c, order, q[i - 1], rest[i])
  <2>1. q[i] = p[i + 1] /\ q[i - 1] = p[i] /\ i + 1 \in 1..n /\ (i + 1) - 1 = i
    BY <1>1
  <2>2. p[i + 1] = Seen(c, p[i], out[i + 1]) /\ Fits(c, order, p[i], out[i + 1])
    BY <2>1, <1>3
  <2> QED BY <2>1, <2>2, <1>1
<1> HIDE DEF q
<1>7. Way(c, order, Seen(c, v, out[1]), rest, w, q)
  BY <1>1, <1>4, <1>5, <1>6 DEF Way
<1> QED BY <1>1, <1>4, <1>7 DEF Reads, rest

LEMMA ReadsWeaker ==
  ASSUME NEW c, NEW v, NEW out, NEW w, NEW order, NEW less, less = "kept" => order = "kept", Reads(c, order, v, out, w)
  PROVE  Reads(c, less, v, out, w)
<1>1. PICK p : Way(c, order, v, out, w, p)
  BY DEF Reads
<1>2. Way(c, less, v, out, w, p)
  BY <1>1 DEF Way, Fits
<1> QED BY <1>2 DEF Reads

-----------------------------------------------------------------------------
(* What an event does to a view.                                              *)
PartRec == [kind : PartKind, state : {"open", "filled", "closed"}]
TypedParts(parts) == parts \in [DOMAIN parts -> PartRec]

CallsOf(parts) == {p \in DOMAIN parts : parts[p].kind = "call"}

LEMMA SeenOpen ==
  ASSUME NEW v, TypedParts(v.parts), NEW c, NEW ev, ev.type = "open", ev.kind \in PartKind,
         NEW q, q = Part(c, ev), q \notin DOMAIN v.parts, NEW u, u = Seen(c, v, ev)
  PROVE  /\ TypedParts(u.parts) /\ DOMAIN u.parts = DOMAIN v.parts \cup {q}
         /\ u.parts[q] = [kind |-> ev.kind, state |-> "open"]
         /\ \A p \in DOMAIN v.parts : u.parts[p] = v.parts[p]
<1> DEFINE r == [kind |-> ev.kind, state |-> "open"]
<1>1. u.parts = [p \in DOMAIN v.parts \cup {q} |-> IF p = q THEN r ELSE v.parts[p]]
  BY DEF Seen, Opened
<1>2. r \in PartRec
  BY DEF PartRec
<1>3. \A p \in DOMAIN v.parts : v.parts[p] \in PartRec
  BY DEF TypedParts
<1> HIDE DEF r
<1> QED BY <1>1, <1>2, <1>3 DEF TypedParts, r

Marked(old, new, q, st) ==
  /\ DOMAIN new = DOMAIN old
  /\ new[q] = [kind |-> old[q].kind, state |-> st]
  /\ \A p \in DOMAIN old : p # q => new[p] = old[p]

StateAfter(type) == IF type = "args" THEN "filled" ELSE "closed"

LEMMA SeenMark ==
  ASSUME NEW v, TypedParts(v.parts), NEW c, NEW ev, ev.type \in {"args", "close"},
         NEW q, q = Part(c, ev), q \in DOMAIN v.parts, NEW u, u = Seen(c, v, ev)
  PROVE  TypedParts(u.parts) /\ Marked(v.parts, u.parts, q, StateAfter(ev.type))
<1> DEFINE st == StateAfter(ev.type)
           r == [kind |-> v.parts[q].kind, state |-> st]
<1>0. st \in {"filled", "closed"}
  BY DEF StateAfter
<1>1. \A p \in DOMAIN v.parts : v.parts[p] \in PartRec
  BY DEF TypedParts
<1>2. u.parts = [v.parts EXCEPT ![q].state = st]
  BY DEF Seen, Mark, StateAfter
<1> HIDE DEF st
<1>3. r \in PartRec /\ [v.parts[q] EXCEPT !.state = st] = r
  BY <1>0, <1>1 DEF PartRec
<1>4. u.parts = [p \in DOMAIN v.parts |-> IF p = q THEN r ELSE v.parts[p]]
  BY <1>2, <1>3 DEF TypedParts
<1> HIDE DEF r
<1>5. TypedParts(u.parts) /\ DOMAIN u.parts = DOMAIN v.parts /\ u.parts[q] = r
      /\ \A p \in DOMAIN v.parts : p # q => u.parts[p] = v.parts[p]
  BY <1>1, <1>3, <1>4 DEF TypedParts
<1> QED BY <1>5 DEF Marked, r, st

LEMMA SeenRest ==
  ASSUME NEW v, NEW c, NEW ev, ev.type \in {"start", "delta", "end"}
  PROVE  Seen(c, v, ev).parts = v.parts
BY DEF Seen

LEMMA BlockInjective ==
  ASSUME NEW j, NEW k, Block(j) = Block(k)
  PROVE  j = k
BY DEF Block

LEMMA FittingIsInPlace ==
  ASSUME NEW v, NEW ev \in Ev, FitsClaude(v, ev)
  PROVE  InPlace("claude", v, ev)
<1>1. Part("claude", ev) = Block(ev.n) /\ ev.n \in Nat
  BY DEF Part, Block, Ev
<1>2. CASE ev.type = "open"
  <2>1. ASSUME Block(ev.n) \in DOMAIN v.parts PROVE FALSE
    <3>1. PICK k \in 0..(ev.n - 1) : Block(ev.n) = Block(k)
      BY <1>2, <2>1 DEF FitsClaude
    <3>2. ev.n = k
      BY <3>1, BlockInjective
    <3> QED BY <3>2, <1>1
  <2> QED BY <1>1, <1>2, <2>1 DEF FitsClaude, InPlace
<1>3. CASE ev.type \in {"delta", "args", "close"}
  BY <1>1, <1>3 DEF FitsClaude, InPlace, Hits
<1>4. CASE ev.type \in {"start", "end"}
  BY <1>4 DEF FitsClaude, InPlace
<1> QED BY <1>2, <1>3, <1>4 DEF Ev, EventType

-----------------------------------------------------------------------------
(* What has been told: s, with the events it still holds, and the view w they *)
(* lead to from v.                                                            *)
Tells(c, order, v, s, w) ==
  IsState(s) /\ s.out \in Seq(Ev) /\ IsView(w) /\ Reads(c, order, v, s.out, w)

LEMMA EventTold ==
  ASSUME NEW c, NEW order, NEW v, NEW s, NEW w, Tells(c, order, v, s, w),
         NEW ev \in Ev, Fits(c, order, w, ev),
         NEW t, IsState(t), t.out = Append(s.out, ev), NEW u, u = Seen(c, w, ev)
  PROVE  Tells(c, order, v, t, u)
<1>1. IsView(u)
  BY SeenView DEF Tells
<1>2. s.out \in Seq(Ev) /\ t.out \in Seq(Ev)
  BY DEF Tells
<1>3. Reads(c, order, v, s.out, w)
  BY DEF Tells
<1>4. Reads(c, order, v, Append(s.out, ev), Seen(c, w, ev))
  BY <1>2, <1>3, ReadsMore
<1> QED BY <1>1, <1>2, <1>4 DEF Tells

LEMMA AltersThen ==
  ASSUME NEW s, NEW t, NEW u, NEW fs, Alters(s, t, fs), Alters(t, u, fs)
  PROVE  Alters(s, u, fs)
BY DEF Alters

LEMMA AltersLess ==
  ASSUME NEW s, NEW t, NEW fs, NEW gs, fs \subseteq gs, Alters(s, t, fs)
  PROVE  Alters(s, t, gs)
BY DEF Alters

LEMMA AltersNothing ==
  ASSUME NEW s, IsState(s), NEW fs
  PROVE  Alters(s, s, fs)
BY DEF Alters

-----------------------------------------------------------------------------
(* The blocks of a Claude message.  The first m tool calls are done with.     *)
CallEntry == [key : Nat, value : Nat]

Numbered(next, parts) ==
  next \in Nat /\ TypedParts(parts) /\ DOMAIN parts = {Block(k) : k \in 0..(next - 1)}

CallBlocks(calls, parts) ==
  /\ calls \in Seq(CallEntry)
  /\ \A j \in 1..Len(calls) : calls[j].key = j - 1
  /\ \A i, j \in 1..Len(calls) : calls[i].value = calls[j].value => i = j
  /\ CallsOf(parts) = {Block(calls[j].value) : j \in 1..Len(calls)}

IsOpen(index, kind, parts) ==
  /\ index \in Nat /\ Block(index) \in DOMAIN parts
  /\ parts[Block(index)] = [kind |-> kind, state |-> "open"]

StillOpen(thinking, text, calls, parts, m) ==
  /\ thinking # None => IsOpen(thinking, "think", parts)
  /\ text # None => IsOpen(text, "text", parts)
  /\ thinking = None \/ text = None
  /\ \A j \in (m + 1)..Len(calls) : parts[Block(calls[j].value)].state = "open"
  /\ \A p \in DOMAIN parts : parts[p].state # "closed" =>
       \/ thinking # None /\ p = Block(thinking)
       \/ text # None /\ p = Block(text)
       \/ \E j \in (m + 1)..Len(calls) : p = Block(calls[j].value)

Blocks(s, parts, m) ==
  /\ Numbered(s.nextBlockIndex, parts)
  /\ CallBlocks(s.toolCalls, parts)
  /\ StillOpen(s.thinkingBlockIndex, s.textBlockIndex, s.toolCalls, parts, m)

\* A message that has been started and not ended.
Going(order, v, s, w, m) ==
  /\ Tells("claude", order, v, s, w) /\ Blocks(s, w.parts, m)
  /\ w.status = "open" /\ Straight(w) /\ m \in Nat

LEMMA CallOf ==
  ASSUME NEW calls, NEW parts, CallBlocks(calls, parts), NEW j \in 1..Len(calls)
  PROVE  /\ calls[j].value \in Nat /\ Block(calls[j].value) \in DOMAIN parts
         /\ parts[Block(calls[j].value)].kind = "call"
<1>1. Block(calls[j].value) \in CallsOf(parts)
  BY DEF CallBlocks
<1>2. calls[j] \in CallEntry
  BY DEF CallBlocks
<1>3. Block(calls[j].value) \in DOMAIN parts /\ parts[Block(calls[j].value)].kind = "call"
  BY <1>1 DEF CallsOf
<1> QED BY <1>2, <1>3 DEF CallEntry

\* Closing or filling a block leaves the numbers alone.
LEMMA MarkKeeps ==
  ASSUME NEW next, NEW calls, NEW w, Numbered(next, w.parts), CallBlocks(calls, w.parts),
         NEW ev \in Ev, ev.type \in {"args", "close"},
         NEW q, q = Block(ev.n), q \in DOMAIN w.parts,
         NEW u, u = Seen("claude", w, ev)
  PROVE  /\ Numbered(next, u.parts) /\ CallBlocks(calls, u.parts)
         /\ Marked(w.parts, u.parts, q, StateAfter(ev.type))
<1>1. q = Part("claude", ev)
  BY DEF Part, Block
<1>2. TypedParts(w.parts)
  BY DEF Numbered
<1>3. TypedParts(u.parts) /\ Marked(w.parts, u.parts, q, StateAfter(ev.type))
  BY <1>1, <1>2, SeenMark
<1>4. CallsOf(u.parts) = CallsOf(w.parts)
  BY <1>3 DEF CallsOf, Marked
<1> QED BY <1>3, <1>4 DEF Numbered, CallBlocks, Marked

\* A fitting event told while the message is going.
LEMMA ToldClaude ==
  ASSUME NEW order, NEW v, NEW s, NEW w, Tells("claude", order, v, s, w), Straight(w), w.status = "open",
         NEW ev \in Ev, ev.type \notin {"start", "end"}, FitsClaude(w, ev),
         NEW t, IsState(t), t.out = Append(s.out, ev), NEW u, u = Seen("claude", w, ev)
  PROVE  /\ Tells("claude", order, v, t, u)
         /\ u.status = "open" /\ Straight(u) /\ u.ends = w.ends
         /\ u.text = IF ev.type = "delta" /\ ev.kind = "text" THEN w.text + 1 ELSE w.text
         /\ u.think = IF ev.type = "delta" /\ ev.kind = "think" THEN w.think + 1 ELSE w.think
<1>1. Fits("claude", order, w, ev)
  BY DEF Fits
<1>2. Tells("claude", order, v, t, u)
  BY <1>1, EventTold
<1>3. InPlace("claude", w, ev)
  BY FittingIsInPlace
<1>4. Straight(u)
  BY <1>3, SeenStray
<1>5. /\ u.status = w.status /\ u.ends = w.ends
      /\ u.text = IF ev.type = "delta" /\ ev.kind = "text" THEN w.text + 1 ELSE w.text
      /\ u.think = IF ev.type = "delta" /\ ev.kind = "think" THEN w.think + 1 ELSE w.think
  BY DEF Seen
<1> QED BY <1>2, <1>4, <1>5

\* A delta changes no part.
LEMMA DeltaKeeps ==
  ASSUME NEW order, NEW s, NEW v, NEW w, Going(order, v, s, w, 0), NEW kind \in {"text", "think"}, NEW n,
         IsOpen(n, kind, w.parts), NEW t, t = Emit(s, "delta", kind, n)
  PROVE  /\ Alters(s, t, {"out"})
         /\ \E u :
              /\ Going(order, v, t, u, 0) /\ u.ends = w.ends
              /\ u.text = IF kind = "text" THEN w.text + 1 ELSE w.text
              /\ u.think = IF kind = "think" THEN w.think + 1 ELSE w.think
<1> DEFINE ev == [type |-> "delta", kind |-> kind, n |-> n]
           u == Seen("claude", w, ev)
<1>1. ev \in Ev /\ ev.type = "delta" /\ ev.kind = kind /\ ev.n = n
  BY DEF Ev, EventType, PartKind, IsOpen
<1>2. IsState(s) /\ IsView(w) /\ w.status = "open"
  BY DEF Going, Tells
<1>3. Alters(s, t, {"out"}) /\ t.out = Append(s.out, ev)
  BY <1>2, EmitAlters
<1> HIDE DEF ev
<1>4. FitsClaude(w, ev)
  BY <1>1, <1>2 DEF FitsClaude, IsOpen
<1>5. IsState(t) /\ Tells("claude", order, v, s, w) /\ Straight(w)
  BY <1>3 DEF Alters, Going
<1> HIDE DEF u
<1>6. /\ Tells("claude", order, v, t, u)
      /\ u.status = "open" /\ Straight(u) /\ u.ends = w.ends
      /\ u.text = IF kind = "text" THEN w.text + 1 ELSE w.text
      /\ u.think = IF kind = "think" THEN w.think + 1 ELSE w.think
  <2>1. /\ Tells("claude", order, v, t, u)
        /\ u.status = "open" /\ Straight(u) /\ u.ends = w.ends
        /\ u.text = IF ev.type = "delta" /\ ev.kind = "text" THEN w.text + 1 ELSE w.text
        /\ u.think = IF ev.type = "delta" /\ ev.kind = "think" THEN w.think + 1 ELSE w.think
    <3>1. ev.type \notin {"start", "end"} /\ u = Seen("claude", w, ev)
      BY <1>1 DEF u
    <3> QED BY <1>1, <1>2, <1>3, <1>4, <1>5, <3>1, ToldClaude
  <2> QED BY <1>1, <2>1
<1>7. u.parts = w.parts
  BY <1>1, SeenRest DEF u
<1>8. /\ t.nextBlockIndex = s.nextBlockIndex /\ t.toolCalls = s.toolCalls
      /\ t.thinkingBlockIndex = s.thinkingBlockIndex /\ t.textBlockIndex = s.textBlockIndex
  BY <1>3 DEF Alters, Fields
<1>9. Going(order, v, t, u, 0)
  BY <1>6, <1>7, <1>8 DEF Going, Blocks
<1> QED BY <1>3, <1>6, <1>9

\* Closing the text or thinking block that is open.
LEMMA CloseKeeps ==
  ASSUME NEW order, NEW v, NEW s, NEW w, Going(order, v, s, w, 0), NEW kind, NEW n,
         IsOpen(n, kind, w.parts), NEW t, IsState(t),
         t.out = Append(s.out, [type |-> "close", kind |-> kind, n |-> n]),
         t.nextBlockIndex = s.nextBlockIndex, t.toolCalls = s.toolCalls,
         \/ /\ kind = "think" /\ n = s.thinkingBlockIndex /\ s.thinkingBlockIndex # None
            /\ t.thinkingBlockIndex = None /\ t.textBlockIndex = s.textBlockIndex
         \/ /\ kind = "text" /\ n = s.textBlockIndex /\ s.textBlockIndex # None
            /\ t.textBlockIndex = None /\ t.thinkingBlockIndex = s.thinkingBlockIndex
  PROVE  \E u : /\ Going(order, v, t, u, 0) /\ u.ends = w.ends
                /\ u.text = w.text /\ u.think = w.think
<1> DEFINE ev == [type |-> "close", kind |-> kind, n |-> n]
           u == Seen("claude", w, ev)
           q == Block(n)
<1>1. ev \in Ev /\ ev.type = "close" /\ ev.kind = kind /\ ev.n = n
  BY DEF Ev, EventType, PartKind, IsOpen
<1>2. Tells("claude", order, v, s, w) /\ w.status = "open" /\ Straight(w)
  BY DEF Going
<1>3. t.out = Append(s.out, ev) /\ u = Seen("claude", w, ev)
  OBVIOUS
<1> HIDE DEF ev, u
<1>4. q \in DOMAIN w.parts /\ w.parts[q] = [kind |-> kind, state |-> "open"]
  BY DEF IsOpen
<1>5. FitsClaude(w, ev)
  BY <1>1, <1>2, <1>4 DEF FitsClaude
<1>6. /\ Tells("claude", order, v, t, u)
      /\ u.status = "open" /\ Straight(u) /\ u.ends = w.ends
      /\ u.text = w.text /\ u.think = w.think
  <2>1. /\ Tells("claude", order, v, t, u)
        /\ u.status = "open" /\ Straight(u) /\ u.ends = w.ends
        /\ u.text = IF ev.type = "delta" /\ ev.kind = "text" THEN w.text + 1 ELSE w.text
        /\ u.think = IF ev.type = "delta" /\ ev.kind = "think" THEN w.think + 1 ELSE w.think
    <3>1. ev.type \notin {"start", "end"}
      BY <1>1
    <3> QED BY <1>1, <1>2, <1>3, <1>5, <3>1, ToldClaude
  <2> QED BY <1>1, <2>1
<1>7. /\ Numbered(s.nextBlockIndex, w.parts) /\ CallBlocks(s.toolCalls, w.parts)
      /\ StillOpen(s.thinkingBlockIndex, s.textBlockIndex, s.toolCalls, w.parts, 0)
  BY DEF Going, Blocks
<1>8. q = Block(ev.n) /\ ev.type \in {"args", "close"} /\ StateAfter(ev.type) = "closed"
  BY <1>1 DEF StateAfter
<1> HIDE DEF q
<1>9. /\ Numbered(s.nextBlockIndex, u.parts) /\ CallBlocks(s.toolCalls, u.parts)
      /\ DOMAIN u.parts = DOMAIN w.parts
      /\ u.parts[q] = [kind |-> w.parts[q].kind, state |-> StateAfter(ev.type)]
      /\ \A p \in DOMAIN w.parts : p # q => u.parts[p] = w.parts[p]
  <2>1. /\ Numbered(s.nextBlockIndex, u.parts) /\ CallBlocks(s.toolCalls, u.parts)
        /\ Marked(w.parts, u.parts, q, StateAfter(ev.type))
    BY <1>1, <1>3, <1>4, <1>7, <1>8, MarkKeeps
  <2> QED BY <2>1 DEF Marked
<1>10. \A j \in 1..Len(s.toolCalls) :
         Block(s.toolCalls[j].value) \in DOMAIN w.parts /\ w.parts[Block(s.toolCalls[j].value)].kind = "call"
  BY <1>7, CallOf
<1>11. kind # "call" /\ w.parts[q].kind = kind
  BY <1>4
<1>12. \A j \in 1..Len(s.toolCalls) : u.parts[Block(s.toolCalls[j].value)] = w.parts[Block(s.toolCalls[j].value)]
  BY <1>9, <1>10, <1>11
<1>13. StillOpen(t.thinkingBlockIndex, t.textBlockIndex, s.toolCalls, u.parts, 0)
  <2>1. s.thinkingBlockIndex = None \/ s.textBlockIndex = None
    BY <1>7 DEF StillOpen
  <2>2. t.thinkingBlockIndex = None /\ t.textBlockIndex = None
    BY <2>1
  <2>3. \A j \in 1..Len(s.toolCalls) : u.parts[Block(s.toolCalls[j].value)].state = "open"
    BY <1>7, <1>12 DEF StillOpen
  <2>4. ASSUME NEW p \in DOMAIN u.parts, u.parts[p].state # "closed"
        PROVE  \E j \in 1..Len(s.toolCalls) : p = Block(s.toolCalls[j].value)
    <3>1. p # q /\ w.parts[p].state # "closed" /\ p \in DOMAIN w.parts
      BY <1>8, <1>9, <2>4
    <3> QED BY <1>7, <2>1, <3>1 DEF StillOpen, q
  <2> QED BY <2>2, <2>3, <2>4 DEF StillOpen
<1>14. Blocks(t, u.parts, 0)
  BY <1>9, <1>13 DEF Blocks
<1>15. Going(order, v, t, u, 0)
  BY <1>6, <1>14 DEF Going
<1> QED BY <1>6, <1>15

\* Opening the next block when no other text or thinking block is open.
LEMMA OpenKeeps ==
  ASSUME NEW order, NEW v, NEW s, NEW w, Going(order, v, s, w, 0),
         s.thinkingBlockIndex = None, s.textBlockIndex = None,
         NEW kind \in PartKind, NEW n, n = s.nextBlockIndex, NEW t, IsState(t),
         t.out = Append(s.out, [type |-> "open", kind |-> kind, n |-> n]),
         t.nextBlockIndex = n + 1,
         t.thinkingBlockIndex = IF kind = "think" THEN n ELSE None,
         t.textBlockIndex = IF kind = "text" THEN n ELSE None,
         t.toolCalls = IF kind = "call" THEN Append(s.toolCalls, [key |-> Len(s.toolCalls), value |-> n])
                       ELSE s.toolCalls
  PROVE  \E u : /\ Going(order, v, t, u, 0) /\ u.ends = w.ends
                /\ u.text = w.text /\ u.think = w.think
<1> DEFINE ev == [type |-> "open", kind |-> kind, n |-> n]
           u == Seen("claude", w, ev)
           q == Block(n)
           calls == s.toolCalls
<1>1. /\ Numbered(n, w.parts) /\ CallBlocks(calls, w.parts)
      /\ StillOpen(None, None, calls, w.parts, 0)
  BY DEF Going, Blocks
<1>2. ev \in Ev /\ ev.type = "open" /\ ev.kind = kind /\ ev.n = n /\ n \in Nat
  BY <1>1 DEF Ev, EventType, PartKind, Numbered
<1>3. Tells("claude", order, v, s, w) /\ w.status = "open" /\ Straight(w)
  BY DEF Going
<1>4. t.out = Append(s.out, ev) /\ u = Seen("claude", w, ev)
  OBVIOUS
<1> HIDE DEF ev, u
<1>5. FitsClaude(w, ev)
  <2>1. ASSUME NEW p \in DOMAIN w.parts, w.parts[p].kind # "call" PROVE w.parts[p].state = "closed"
    <3>1. \A j \in 1..Len(calls) : w.parts[Block(calls[j].value)].kind = "call"
      BY <1>1, CallOf
    <3> QED BY <1>1, <2>1, <3>1 DEF StillOpen
  <2> QED BY <1>1, <1>2, <1>3, <2>1 DEF FitsClaude, Numbered
<1>6. /\ Tells("claude", order, v, t, u)
      /\ u.status = "open" /\ Straight(u) /\ u.ends = w.ends
      /\ u.text = w.text /\ u.think = w.think
  <2>1. /\ Tells("claude", order, v, t, u)
        /\ u.status = "open" /\ Straight(u) /\ u.ends = w.ends
        /\ u.text = IF ev.type = "delta" /\ ev.kind = "text" THEN w.text + 1 ELSE w.text
        /\ u.think = IF ev.type = "delta" /\ ev.kind = "think" THEN w.think + 1 ELSE w.think
    <3>1. ev.type \notin {"start", "end"}
      BY <1>2
    <3> QED BY <1>2, <1>3, <1>4, <1>5, <3>1, ToldClaude
  <2> QED BY <1>2, <2>1
<1>7. q = Part("claude", ev) /\ q \notin DOMAIN w.parts
  <2>1. ASSUME q \in DOMAIN w.parts PROVE FALSE
    <3>1. PICK k \in 0..(n - 1) : q = Block(k)
      BY <1>1, <2>1 DEF Numbered
    <3>2. k = n
      BY <3>1, BlockInjective
    <3> QED BY <1>2, <3>1, <3>2
  <2> QED BY <1>2, <2>1 DEF Part, Block
<1> HIDE DEF q
<1>8. /\ TypedParts(u.parts) /\ DOMAIN u.parts = DOMAIN w.parts \cup {q}
      /\ u.parts[q] = [kind |-> kind, state |-> "open"]
      /\ \A p \in DOMAIN w.parts : u.parts[p] = w.parts[p]
  <2>1. TypedParts(w.parts)
    BY <1>1 DEF Numbered
  <2> QED BY <1>2, <1>4, <1>7, <2>1, SeenOpen
<1>9. Numbered(n + 1, u.parts)
  <2>1. DOMAIN u.parts = {Block(k) : k \in 0..n}
    BY <1>1, <1>2, <1>8 DEF Numbered, q
  <2>2. n = (n + 1) - 1 /\ n + 1 \in Nat
    BY <1>2
  <2>3. DOMAIN u.parts = {Block(k) : k \in 0..((n + 1) - 1)}
    BY <2>1, <2>2
  <2> QED BY <1>8, <2>2, <2>3 DEF Numbered
<1>10. \A j \in 1..Len(calls) :
         /\ calls[j].value \in Nat
         /\ Block(calls[j].value) \in DOMAIN w.parts /\ w.parts[Block(calls[j].value)].kind = "call"
  BY <1>1, CallOf
<1>11. \A j \in 1..Len(calls) : u.parts[Block(calls[j].value)] = w.parts[Block(calls[j].value)]
  BY <1>8, <1>10
<1>12. CallsOf(u.parts) = IF kind = "call" THEN CallsOf(w.parts) \cup {q} ELSE CallsOf(w.parts)
  BY <1>7, <1>8 DEF CallsOf
<1>13. CASE kind # "call"
  <2>1. CallBlocks(calls, u.parts)
    BY <1>1, <1>12, <1>13 DEF CallBlocks
  <2>2. IsOpen(n, kind, u.parts)
    BY <1>2, <1>8 DEF IsOpen, q
  <2>3. n # None
    BY <1>2 DEF None
  <2>4. kind = "think" \/ kind = "text"
    BY <1>13 DEF PartKind
  <2>5. \A j \in 1..Len(calls) : u.parts[Block(calls[j].value)].state = "open"
    BY <1>1, <1>11 DEF StillOpen
  <2>6. ASSUME NEW p \in DOMAIN u.parts, u.parts[p].state # "closed"
        PROVE  p = Block(n) \/ \E j \in 1..Len(calls) : p = Block(calls[j].value)
    BY <1>1, <1>8, <2>6 DEF StillOpen, q
  <2>7. StillOpen(t.thinkingBlockIndex, t.textBlockIndex, calls, u.parts, 0)
    BY <2>2, <2>3, <2>4, <2>5, <2>6 DEF StillOpen
  <2>8. Blocks(t, u.parts, 0)
    BY <1>9, <1>13, <2>1, <2>7 DEF Blocks
  <2>9. Going(order, v, t, u, 0)
    BY <1>6, <2>8 DEF Going
  <2> QED BY <1>6, <2>9
<1>14. CASE kind = "call"
  <2> DEFINE l == Len(calls)
             more == Append(calls, [key |-> l, value |-> n])
  <2>1. /\ l \in Nat /\ more \in Seq(CallEntry) /\ Len(more) = l + 1
        /\ more[l + 1] = [key |-> l, value |-> n] /\ \A j \in 1..l : more[j] = calls[j]
    BY <1>1, <1>2 DEF CallBlocks, CallEntry
  <2>2. t.toolCalls = more /\ t.thinkingBlockIndex = None /\ t.textBlockIndex = None
    BY <1>14
  <2> HIDE DEF more
  <2>3. ASSUME NEW j \in 1..(l + 1) PROVE more[j].key = j - 1
    <3>1. CASE j = l + 1
      BY <2>1, <3>1
    <3>2. CASE j # l + 1
      <4>1. j \in 1..l
        BY <2>1, <3>2
      <4>2. calls[j].key = j - 1
        BY <1>1, <4>1 DEF CallBlocks
      <4> QED BY <2>1, <4>1, <4>2
    <3> QED BY <3>1, <3>2
  <2>4. more[l + 1].value = n /\ \A j \in 1..l : more[j].value = calls[j].value
    BY <2>1
  <2>5. \A j \in 1..l : calls[j].value # n
    BY <1>7, <1>10 DEF q
  <2>6. \A i, j \in 1..(l + 1) : more[i].value = more[j].value => i = j
    <3> TAKE i, j \in 1..(l + 1)
    <3>1. \A i1, j1 \in 1..l : calls[i1].value = calls[j1].value => i1 = j1
      BY <1>1 DEF CallBlocks
    <3> QED BY <2>1, <2>4, <2>5, <3>1
  <2>7. CallsOf(u.parts) = {Block(more[j].value) : j \in 1..(l + 1)}
    <3>1. CallsOf(w.parts) = {Block(calls[j].value) : j \in 1..l}
      BY <1>1 DEF CallBlocks
    <3>2. CallsOf(w.parts) = {Block(more[j].value) : j \in 1..l}
      BY <3>1, <2>4
    <3>3. q = Block(more[l + 1].value)
      BY <2>4 DEF q
    <3> QED BY <1>12, <1>14, <2>1, <3>2, <3>3
  <2>8. CallBlocks(more, u.parts)
    BY <2>1, <2>3, <2>6, <2>7 DEF CallBlocks
  <2>9. StillOpen(None, None, more, u.parts, 0)
    <3>1. \A j \in 1..(l + 1) : u.parts[Block(more[j].value)].state = "open"
      <4>1. \A j \in 1..l : u.parts[Block(calls[j].value)].state = "open"
        BY <1>1, <1>11 DEF StillOpen
      <4> QED BY <1>8, <2>1, <2>4, <4>1 DEF q
    <3>2. ASSUME NEW p \in DOMAIN u.parts, u.parts[p].state # "closed"
          PROVE  \E j \in 1..(l + 1) : p = Block(more[j].value)
      <4>1. CASE p = q
        BY <4>1, <2>1, <2>4 DEF q
      <4>2. CASE p # q
        <5>1. PICK j \in 1..l : p = Block(calls[j].value)
          BY <1>1, <1>8, <3>2, <4>2 DEF StillOpen
        <5> QED BY <5>1, <2>1, <2>4
      <4> QED BY <4>1, <4>2
    <3> QED BY <2>1, <3>1, <3>2 DEF StillOpen
  <2>10. Blocks(t, u.parts, 0)
    BY <1>9, <2>2, <2>8, <2>9 DEF Blocks
  <2>11. Going(order, v, t, u, 0)
    BY <1>6, <2>10 DEF Going
  <2> QED BY <1>6, <2>11
<1> QED BY <1>13, <1>14

-----------------------------------------------------------------------------
(* The steps of openaiToClaudeResponse.  A message that continues from s has  *)
(* brought x texts and k thoughts.                                            *)
Continues(order, v, s, e, x, k) ==
  \E w : Going(order, v, s, w, 0) /\ w.ends = e /\ w.text = x /\ w.think = k

WordFields == {"out", "nextBlockIndex", "thinkingBlockIndex", "textBlockIndex"}
CallFields == WordFields \cup {"toolCalls", "toolArgBuffers"}
ClaudeFields == CallFields \cup {"messageStartSent", "responseFinished"}

LEMMA GoingState ==
  ASSUME NEW order, NEW v, NEW s, NEW w, Going(order, v, s, w, 0)
  PROVE  IsState(s) /\ s.nextBlockIndex \in Nat /\ s.toolCalls \in Seq(CallEntry)
BY DEF Going, Tells, Blocks, Numbered, CallBlocks

LEMMA StopThinkingKeeps ==
  ASSUME NEW order, NEW v, NEW s, NEW e, NEW x, NEW k, Continues(order, v, s, e, x, k),
         NEW t, t = StopThinkingBlock(s)
  PROVE  /\ Alters(s, t, WordFields) /\ Continues(order, v, t, e, x, k)
         /\ t.thinkingBlockIndex = None /\ t.textBlockIndex = s.textBlockIndex
<1>1. PICK w : Going(order, v, s, w, 0) /\ w.ends = e /\ w.text = x /\ w.think = k
  BY DEF Continues
<1>2. IsState(s)
  BY <1>1, GoingState
<1>3. CASE s.thinkingBlockIndex = None
  <2>1. t = s
    BY <1>3 DEF StopThinkingBlock
  <2> QED BY <1>2, <1>3, <2>1, AltersNothing
<1>4. CASE s.thinkingBlockIndex # None
  <2> DEFINE n == s.thinkingBlockIndex
  <2>1. IsOpen(n, "think", w.parts)
    BY <1>1, <1>4 DEF Going, Blocks, StillOpen
  <2>2. t = [Emit(s, "close", "think", n) EXCEPT !.thinkingBlockIndex = None]
    BY <1>4 DEF StopThinkingBlock
  <2>3. /\ Alters(s, t, WordFields) /\ IsState(t)
        /\ t.out = Append(s.out, [type |-> "close", kind |-> "think", n |-> n])
        /\ t.nextBlockIndex = s.nextBlockIndex /\ t.toolCalls = s.toolCalls
        /\ t.thinkingBlockIndex = None /\ t.textBlockIndex = s.textBlockIndex
    BY <1>2, <2>2 DEF IsState, Emit, Event, Alters, Fields, WordFields
  <2>4. \E u : /\ Going(order, v, t, u, 0) /\ u.ends = w.ends
               /\ u.text = w.text /\ u.think = w.think
    <3> DEFINE kind == "think"
    <3>1. /\ t.out = Append(s.out, [type |-> "close", kind |-> kind, n |-> n]) /\ IsOpen(n, kind, w.parts)
          /\ kind = "think" /\ n = s.thinkingBlockIndex
      BY <2>1, <2>3
    <3> HIDE DEF kind, n
    <3> QED BY <1>1, <1>4, <2>3, <3>1, CloseKeeps
  <2> QED BY <1>1, <2>3, <2>4 DEF Continues
<1> QED BY <1>3, <1>4

LEMMA StopTextKeeps ==
  ASSUME NEW order, NEW v, NEW s, NEW e, NEW x, NEW k, Continues(order, v, s, e, x, k),
         NEW t, t = StopTextBlock(s)
  PROVE  /\ Alters(s, t, WordFields) /\ Continues(order, v, t, e, x, k)
         /\ t.textBlockIndex = None /\ t.thinkingBlockIndex = s.thinkingBlockIndex
<1>1. PICK w : Going(order, v, s, w, 0) /\ w.ends = e /\ w.text = x /\ w.think = k
  BY DEF Continues
<1>2. IsState(s)
  BY <1>1, GoingState
<1>3. CASE s.textBlockIndex = None
  <2>1. t = s
    BY <1>3 DEF StopTextBlock
  <2> QED BY <1>2, <1>3, <2>1, AltersNothing
<1>4. CASE s.textBlockIndex # None
  <2> DEFINE n == s.textBlockIndex
  <2>1. IsOpen(n, "text", w.parts)
    BY <1>1, <1>4 DEF Going, Blocks, StillOpen
  <2>2. t = [Emit(s, "close", "text", n) EXCEPT !.textBlockIndex = None]
    BY <1>4 DEF StopTextBlock
  <2>3. /\ Alters(s, t, WordFields) /\ IsState(t)
        /\ t.out = Append(s.out, [type |-> "close", kind |-> "text", n |-> n])
        /\ t.nextBlockIndex = s.nextBlockIndex /\ t.toolCalls = s.toolCalls
        /\ t.textBlockIndex = None /\ t.thinkingBlockIndex = s.thinkingBlockIndex
    BY <1>2, <2>2 DEF IsState, Emit, Event, Alters, Fields, WordFields
  <2>4. \E u : /\ Going(order, v, t, u, 0) /\ u.ends = w.ends
               /\ u.text = w.text /\ u.think = w.think
    <3> DEFINE kind == "text"
    <3>1. /\ t.out = Append(s.out, [type |-> "close", kind |-> kind, n |-> n]) /\ IsOpen(n, kind, w.parts)
          /\ kind = "text" /\ n = s.textBlockIndex
      BY <2>1, <2>3
    <3> HIDE DEF kind, n
    <3> QED BY <1>1, <1>4, <2>3, <3>1, CloseKeeps
  <2> QED BY <1>1, <2>3, <2>4 DEF Continues
<1> QED BY <1>3, <1>4

LEMMA StartThinkingKeeps ==
  ASSUME NEW order, NEW v, NEW s, NEW e, NEW x, NEW k, Continues(order, v, s, e, x, k),
         s.textBlockIndex = None, NEW t, t = StartThinkingBlock(s)
  PROVE  /\ Alters(s, t, WordFields) /\ Continues(order, v, t, e, x, k)
         /\ t.thinkingBlockIndex # None
<1>1. PICK w : Going(order, v, s, w, 0) /\ w.ends = e /\ w.text = x /\ w.think = k
  BY DEF Continues
<1>2. IsState(s) /\ s.nextBlockIndex \in Nat
  BY <1>1, GoingState
<1>3. CASE s.thinkingBlockIndex # None
  <2>1. t = s
    BY <1>3 DEF StartThinkingBlock
  <2> QED BY <1>2, <1>3, <2>1, AltersNothing
<1>4. CASE s.thinkingBlockIndex = None
  <2> DEFINE n == s.nextBlockIndex
             kind == "think"
  <2>1. t = [Emit(s, "open", "think", n) EXCEPT !.thinkingBlockIndex = n, !.nextBlockIndex = n + 1]
    BY <1>2, <1>4 DEF StartThinkingBlock, Emit, IsState, Fields
  <2>2. /\ Alters(s, t, WordFields) /\ IsState(t)
        /\ t.out = Append(s.out, [type |-> "open", kind |-> "think", n |-> n])
        /\ t.nextBlockIndex = n + 1 /\ t.toolCalls = s.toolCalls
        /\ t.thinkingBlockIndex = n /\ t.textBlockIndex = None
    <3>1. /\ Alters(s, t, WordFields) /\ IsState(t)
          /\ t.out = Append(s.out, [type |-> "open", kind |-> kind, n |-> n])
          /\ t.nextBlockIndex = n + 1 /\ t.toolCalls = s.toolCalls
          /\ t.thinkingBlockIndex = n /\ t.textBlockIndex = s.textBlockIndex
      <4> DEFINE a == Emit(s, "open", kind, n)
                 b == [a EXCEPT !.thinkingBlockIndex = n]
      <4>1. Alters(s, a, {"out"}) /\ a.out = Append(s.out, [type |-> "open", kind |-> kind, n |-> n])
        BY <1>2, EmitAlters
      <4>2. t = [b EXCEPT !.nextBlockIndex = n + 1]
        BY <2>1
      <4> HIDE DEF a
      <4>3. Alters(a, b, {"thinkingBlockIndex"}) /\ b.thinkingBlockIndex = n /\ b.out = a.out
        BY <4>1 DEF Alters, IsState, Fields
      <4> HIDE DEF b
      <4>4. Alters(b, t, {"nextBlockIndex"}) /\ t.nextBlockIndex = n + 1 /\ t.out = b.out /\ t.thinkingBlockIndex = b.thinkingBlockIndex
        BY <4>2, <4>3 DEF Alters, IsState, Fields
      <4>5. t.toolCalls = s.toolCalls /\ t.textBlockIndex = s.textBlockIndex /\ IsState(t)
        BY <4>1, <4>3, <4>4 DEF Alters, Fields
      <4>6. Alters(s, t, WordFields)
        BY <4>1, <4>3, <4>4 DEF Alters, WordFields
      <4> QED BY <4>1, <4>3, <4>4, <4>5, <4>6
    <3> QED BY <3>1
  <2>3. n # None
    BY <1>2 DEF None
  <2>4. /\ kind \in PartKind /\ t.out = Append(s.out, [type |-> "open", kind |-> kind, n |-> n])
        /\ t.thinkingBlockIndex = IF kind = "think" THEN n ELSE None
        /\ t.textBlockIndex = IF kind = "text" THEN n ELSE None
        /\ t.toolCalls = IF kind = "call" THEN Append(s.toolCalls, [key |-> Len(s.toolCalls), value |-> n])
                         ELSE s.toolCalls
    BY <2>2 DEF PartKind
  <2>5. n = s.nextBlockIndex
    OBVIOUS
  <2> HIDE DEF kind, n
  <2>6. \E u : /\ Going(order, v, t, u, 0) /\ u.ends = w.ends
               /\ u.text = w.text /\ u.think = w.think
    BY <1>1, <1>4, <2>2, <2>4, <2>5, OpenKeeps
  <2> QED BY <1>1, <2>2, <2>3, <2>6 DEF Continues
<1> QED BY <1>3, <1>4

LEMMA StartTextKeeps ==
  ASSUME NEW order, NEW v, NEW s, NEW e, NEW x, NEW k, Continues(order, v, s, e, x, k),
         s.thinkingBlockIndex = None, NEW t, t = StartTextBlock(s)
  PROVE  /\ Alters(s, t, WordFields) /\ Continues(order, v, t, e, x, k)
         /\ t.textBlockIndex # None
<1>1. PICK w : Going(order, v, s, w, 0) /\ w.ends = e /\ w.text = x /\ w.think = k
  BY DEF Continues
<1>2. IsState(s) /\ s.nextBlockIndex \in Nat
  BY <1>1, GoingState
<1>3. CASE s.textBlockIndex # None
  <2>1. t = s
    BY <1>3 DEF StartTextBlock
  <2> QED BY <1>2, <1>3, <2>1, AltersNothing
<1>4. CASE s.textBlockIndex = None
  <2> DEFINE n == s.nextBlockIndex
             kind == "text"
  <2>1. t = [Emit(s, "open", "text", n) EXCEPT !.textBlockIndex = n, !.nextBlockIndex = n + 1]
    BY <1>2, <1>4 DEF StartTextBlock, Emit, IsState, Fields
  <2>2. /\ Alters(s, t, WordFields) /\ IsState(t)
        /\ t.out = Append(s.out, [type |-> "open", kind |-> "text", n |-> n])
        /\ t.nextBlockIndex = n + 1 /\ t.toolCalls = s.toolCalls
        /\ t.textBlockIndex = n /\ t.thinkingBlockIndex = None
    <3>1. /\ Alters(s, t, WordFields) /\ IsState(t)
          /\ t.out = Append(s.out, [type |-> "open", kind |-> kind, n |-> n])
          /\ t.nextBlockIndex = n + 1 /\ t.toolCalls = s.toolCalls
          /\ t.textBlockIndex = n /\ t.thinkingBlockIndex = s.thinkingBlockIndex
      <4> DEFINE a == Emit(s, "open", kind, n)
                 b == [a EXCEPT !.textBlockIndex = n]
      <4>1. Alters(s, a, {"out"}) /\ a.out = Append(s.out, [type |-> "open", kind |-> kind, n |-> n])
        BY <1>2, EmitAlters
      <4>2. t = [b EXCEPT !.nextBlockIndex = n + 1]
        BY <2>1
      <4> HIDE DEF a
      <4>3. Alters(a, b, {"textBlockIndex"}) /\ b.textBlockIndex = n /\ b.out = a.out
        BY <4>1 DEF Alters, IsState, Fields
      <4> HIDE DEF b
      <4>4. Alters(b, t, {"nextBlockIndex"}) /\ t.nextBlockIndex = n + 1 /\ t.out = b.out /\ t.textBlockIndex = b.textBlockIndex
        BY <4>2, <4>3 DEF Alters, IsState, Fields
      <4>5. t.toolCalls = s.toolCalls /\ t.thinkingBlockIndex = s.thinkingBlockIndex /\ IsState(t)
        BY <4>1, <4>3, <4>4 DEF Alters, Fields
      <4>6. Alters(s, t, WordFields)
        BY <4>1, <4>3, <4>4 DEF Alters, WordFields
      <4> QED BY <4>1, <4>3, <4>4, <4>5, <4>6
    <3> QED BY <3>1
  <2>3. n # None
    BY <1>2 DEF None
  <2>4. /\ kind \in PartKind /\ t.out = Append(s.out, [type |-> "open", kind |-> kind, n |-> n])
        /\ t.thinkingBlockIndex = IF kind = "think" THEN n ELSE None
        /\ t.textBlockIndex = IF kind = "text" THEN n ELSE None
        /\ t.toolCalls = IF kind = "call" THEN Append(s.toolCalls, [key |-> Len(s.toolCalls), value |-> n])
                         ELSE s.toolCalls
    BY <2>2 DEF PartKind
  <2>5. n = s.nextBlockIndex
    OBVIOUS
  <2> HIDE DEF kind, n
  <2>6. \E u : /\ Going(order, v, t, u, 0) /\ u.ends = w.ends
               /\ u.text = w.text /\ u.think = w.think
    BY <1>1, <1>4, <2>2, <2>4, <2>5, OpenKeeps
  <2> QED BY <1>1, <2>2, <2>3, <2>6 DEF Continues
<1> QED BY <1>3, <1>4

LEMMA ClaudeThoughtKeeps ==
  ASSUME NEW order, NEW v, NEW s, NEW e, NEW x, NEW k, Continues(order, v, s, e, x, k),
         NEW t, t = ClaudeThought(s)
  PROVE  Alters(s, t, WordFields) /\ Continues(order, v, t, e, x, k + 1)
<1> DEFINE a == StopTextBlock(s)
           b == StartThinkingBlock(a)
<1>1. Alters(s, a, WordFields) /\ Continues(order, v, a, e, x, k) /\ a.textBlockIndex = None
  BY StopTextKeeps
<1> HIDE DEF a
<1>2. Alters(a, b, WordFields) /\ Continues(order, v, b, e, x, k) /\ b.thinkingBlockIndex # None
  BY <1>1, StartThinkingKeeps
<1> HIDE DEF b
<1>3. t = Emit(b, "delta", "think", b.thinkingBlockIndex)
  BY DEF ClaudeThought, a, b
<1>4. PICK w : Going(order, v, b, w, 0) /\ w.ends = e /\ w.text = x /\ w.think = k
  BY <1>2 DEF Continues
<1> DEFINE kind == "think"
<1>5. IsOpen(b.thinkingBlockIndex, kind, w.parts)
  BY <1>2, <1>4 DEF Going, Blocks, StillOpen
<1>6. kind \in {"text", "think"} /\ kind # "text" /\ t = Emit(b, "delta", kind, b.thinkingBlockIndex)
  BY <1>3
<1> HIDE DEF kind
<1>7. /\ Alters(b, t, {"out"})
      /\ \E u :
           /\ Going(order, v, t, u, 0) /\ u.ends = w.ends
           /\ u.text = IF kind = "text" THEN w.text + 1 ELSE w.text
           /\ u.think = IF kind = "think" THEN w.think + 1 ELSE w.think
  BY <1>4, <1>5, <1>6, DeltaKeeps
<1>8. Continues(order, v, t, e, x, k + 1)
  BY <1>4, <1>7 DEF Continues, kind
<1>9. Alters(b, t, WordFields)
  <2>1. {"out"} \subseteq WordFields
    BY DEF WordFields
  <2> QED BY <1>7, <2>1, AltersLess
<1> QED BY <1>1, <1>2, <1>8, <1>9, AltersThen

LEMMA ClaudeTextKeeps ==
  ASSUME NEW order, NEW v, NEW s, NEW e, NEW x, NEW k, Continues(order, v, s, e, x, k),
         NEW t, t = ClaudeText(s)
  PROVE  Alters(s, t, WordFields) /\ Continues(order, v, t, e, x + 1, k)
<1> DEFINE a == StopThinkingBlock(s)
           b == StartTextBlock(a)
<1>1. Alters(s, a, WordFields) /\ Continues(order, v, a, e, x, k) /\ a.thinkingBlockIndex = None
  BY StopThinkingKeeps
<1> HIDE DEF a
<1>2. Alters(a, b, WordFields) /\ Continues(order, v, b, e, x, k) /\ b.textBlockIndex # None
  BY <1>1, StartTextKeeps
<1> HIDE DEF b
<1>3. t = Emit(b, "delta", "text", b.textBlockIndex)
  BY DEF ClaudeText, a, b
<1>4. PICK w : Going(order, v, b, w, 0) /\ w.ends = e /\ w.text = x /\ w.think = k
  BY <1>2 DEF Continues
<1> DEFINE kind == "text"
<1>5. IsOpen(b.textBlockIndex, kind, w.parts)
  BY <1>2, <1>4 DEF Going, Blocks, StillOpen
<1>6. kind \in {"text", "think"} /\ kind # "think" /\ t = Emit(b, "delta", kind, b.textBlockIndex)
  BY <1>3
<1> HIDE DEF kind
<1>7. /\ Alters(b, t, {"out"})
      /\ \E u :
           /\ Going(order, v, t, u, 0) /\ u.ends = w.ends
           /\ u.text = IF kind = "text" THEN w.text + 1 ELSE w.text
           /\ u.think = IF kind = "think" THEN w.think + 1 ELSE w.think
  BY <1>4, <1>5, <1>6, DeltaKeeps
<1>8. Continues(order, v, t, e, x + 1, k)
  BY <1>4, <1>7 DEF Continues, kind
<1>9. Alters(b, t, WordFields)
  <2>1. {"out"} \subseteq WordFields
    BY DEF WordFields
  <2> QED BY <1>7, <2>1, AltersLess
<1> QED BY <1>1, <1>2, <1>8, <1>9, AltersThen

\* What the message does not look at may change.
LEMMA GoingAlike ==
  ASSUME NEW order, NEW v, NEW s, NEW w, NEW m, Going(order, v, s, w, m), NEW t, IsState(t),
         t.out = s.out, t.nextBlockIndex = s.nextBlockIndex, t.toolCalls = s.toolCalls,
         t.thinkingBlockIndex = s.thinkingBlockIndex, t.textBlockIndex = s.textBlockIndex
  PROVE  Going(order, v, t, w, m)
BY DEF Going, Tells, Blocks

LEMMA HasCall ==
  ASSUME NEW calls \in Seq(CallEntry), \A j \in 1..Len(calls) : calls[j].key = j - 1,
         NEW i \in Nat
  PROVE  Has(calls, i) <=> i < Len(calls)
<1>1. DOMAIN calls = 1..Len(calls) /\ Len(calls) \in Nat
  OBVIOUS
<1>2. ASSUME Has(calls, i) PROVE i < Len(calls)
  <2>1. PICK j \in 1..Len(calls) : calls[j].key = i
    BY <1>1, <1>2 DEF Has
  <2>2. i = j - 1
    BY <2>1
  <2> QED BY <1>1, <2>2
<1>3. ASSUME i < Len(calls) PROVE Has(calls, i)
  <2>1. i + 1 \in 1..Len(calls) /\ (i + 1) - 1 = i
    BY <1>1, <1>3
  <2>2. calls[i + 1].key = i
    BY <2>1
  <2> QED BY <1>1, <2>1, <2>2 DEF Has
<1> QED BY <1>2, <1>3

LEMMA StartToolKeeps ==
  ASSUME NEW order, NEW v, NEW s, NEW e, NEW x, NEW k, Continues(order, v, s, e, x, k),
         NEW i \in 0..Len(s.toolCalls), NEW t, t = StartToolBlock(s, i)
  PROVE  /\ Alters(s, t, CallFields) /\ Continues(order, v, t, e, x, k)
         /\ Len(t.toolCalls) = IF i = Len(s.toolCalls) THEN Len(s.toolCalls) + 1 ELSE Len(s.toolCalls)
<1> DEFINE calls == s.toolCalls
<1>1. IsState(s) /\ calls \in Seq(CallEntry) /\ \A j \in 1..Len(calls) : calls[j].key = j - 1
  <2>1. PICK w : Going(order, v, s, w, 0)
    BY DEF Continues
  <2>2. CallBlocks(calls, w.parts)
    BY <2>1 DEF Going, Blocks
  <2> QED BY <2>1, <2>2, GoingState DEF CallBlocks
<1>2. Len(calls) \in Nat /\ i \in Nat
  BY <1>1
<1>3. Has(calls, i) <=> i < Len(calls)
  BY <1>1, <1>2, HasCall
<1>4. CASE i < Len(calls)
  <2>1. t = s
    BY <1>3, <1>4 DEF StartToolBlock
  <2> QED BY <1>1, <1>2, <1>4, <2>1, AltersNothing
<1>5. CASE i = Len(calls)
  <2> DEFINE a == StopThinkingBlock(s)
             b == StopTextBlock(a)
             n == b.nextBlockIndex
             entry == [key |-> Len(b.toolCalls), value |-> n]
  <2>1. /\ Alters(s, a, WordFields) /\ Continues(order, v, a, e, x, k)
        /\ a.thinkingBlockIndex = None
    BY StopThinkingKeeps
  <2> HIDE DEF a
  <2>2. /\ Alters(a, b, WordFields) /\ Continues(order, v, b, e, x, k)
        /\ b.textBlockIndex = None /\ b.thinkingBlockIndex = None
    BY <2>1, StopTextKeeps
  <2> HIDE DEF b
  <2>3. PICK w : Going(order, v, b, w, 0) /\ w.ends = e /\ w.text = x /\ w.think = k
    BY <2>2 DEF Continues
  <2>4. IsState(b) /\ b.nextBlockIndex \in Nat
    BY <2>3, GoingState
  <2>5. Alters(s, b, WordFields) /\ b.toolCalls = calls
    <3>1. Alters(s, b, WordFields)
      BY <2>1, <2>2, AltersThen
    <3> QED BY <3>1 DEF Alters, Fields, WordFields
  <2> DEFINE kind == "call"
             c == Emit(b, "open", kind, n)
             d == [c EXCEPT !.toolCalls = Append(calls, entry)]
  <2>6. t = [d EXCEPT !.nextBlockIndex = n + 1]
    <3>1. ~Has(b.toolCalls, i) /\ i = Len(b.toolCalls)
      BY <1>3, <1>5, <2>5, <1>2
    <3>2. Put(b.toolCalls, i, n) = Append(calls, entry)
      BY <3>1, <2>5 DEF Put
    <3>3. t = [c EXCEPT !.toolCalls = Put(b.toolCalls, i, n), !.nextBlockIndex = n + 1]
      <4>1. ~Has(s.toolCalls, i)
        BY <1>3, <1>5, <1>2
      <4>2. c.toolCalls = b.toolCalls /\ c.nextBlockIndex = n
        <5>1. Alters(b, c, {"out"})
          BY <2>4, EmitAlters
        <5> HIDE DEF c
        <5> QED BY <5>1 DEF Alters, Fields
      <4> QED BY <4>1, <4>2 DEF StartToolBlock, a, b
    <3> QED BY <3>2, <3>3
  <2>7. Alters(b, c, {"out"}) /\ c.out = Append(b.out, [type |-> "open", kind |-> kind, n |-> n])
    BY <2>4, EmitAlters
  <2> HIDE DEF c
  <2>8. Alters(c, d, {"toolCalls"}) /\ d.toolCalls = Append(calls, entry) /\ d.out = c.out
    BY <2>7 DEF Alters, IsState, Fields
  <2> HIDE DEF d
  <2>9. /\ Alters(d, t, {"nextBlockIndex"}) /\ t.nextBlockIndex = n + 1 /\ t.out = d.out
        /\ t.toolCalls = d.toolCalls
    BY <2>6, <2>8 DEF Alters, IsState, Fields
  <2>10. t.textBlockIndex = b.textBlockIndex /\ t.thinkingBlockIndex = b.thinkingBlockIndex /\ IsState(t)
    BY <2>7, <2>8, <2>9 DEF Alters, Fields
  <2>11. Alters(s, t, CallFields)
    BY <2>5, <2>7, <2>8, <2>9 DEF Alters, WordFields, CallFields
  <2>12. /\ kind \in PartKind /\ t.out = Append(b.out, [type |-> "open", kind |-> kind, n |-> n])
         /\ t.thinkingBlockIndex = IF kind = "think" THEN n ELSE None
         /\ t.textBlockIndex = IF kind = "text" THEN n ELSE None
         /\ t.toolCalls = IF kind = "call" THEN Append(b.toolCalls, [key |-> Len(b.toolCalls), value |-> n])
                          ELSE b.toolCalls
    BY <2>2, <2>5, <2>7, <2>8, <2>9, <2>10 DEF PartKind
  <2>13. n = b.nextBlockIndex
    OBVIOUS
  <2>14. Len(t.toolCalls) = Len(calls) + 1
    BY <1>1, <2>4, <2>8, <2>9
  <2> HIDE DEF kind, n, entry
  <2>15. \E u : /\ Going(order, v, t, u, 0) /\ u.ends = w.ends
                /\ u.text = w.text /\ u.think = w.think
    BY <2>2, <2>3, <2>9, <2>10, <2>12, <2>13, OpenKeeps
  <2> QED BY <1>2, <1>5, <2>3, <2>11, <2>14, <2>15 DEF Continues
<1> QED BY <1>2, <1>4, <1>5

LEMMA ClaudeCallKeeps ==
  ASSUME NEW order, NEW v, NEW s, NEW e, NEW x, NEW k, Continues(order, v, s, e, x, k),
         NEW call, call.index \in 0..Len(s.toolCalls), NEW t, t = ClaudeCall(s, call)
  PROVE  /\ Alters(s, t, CallFields) /\ Continues(order, v, t, e, x, k)
         /\ Len(t.toolCalls) = IF call.index = Len(s.toolCalls) THEN Len(s.toolCalls) + 1
                               ELSE Len(s.toolCalls)
<1> DEFINE a == StartToolBlock(s, call.index)
<1>1. /\ Alters(s, a, CallFields) /\ Continues(order, v, a, e, x, k)
      /\ Len(a.toolCalls) = IF call.index = Len(s.toolCalls) THEN Len(s.toolCalls) + 1
                            ELSE Len(s.toolCalls)
  <2>1. PICK i \in 0..Len(s.toolCalls) : i = call.index
    OBVIOUS
  <2> QED BY <2>1, StartToolKeeps
<1>2. t = a \/ t = [a EXCEPT !.toolArgBuffers = a.toolArgBuffers \cup {call.index}]
  BY DEF ClaudeCall
<1> HIDE DEF a
<1>3. CASE t = a
  BY <1>1, <1>3
<1>4. CASE t = [a EXCEPT !.toolArgBuffers = a.toolArgBuffers \cup {call.index}]
  <2>1. IsState(a)
    BY <1>1 DEF Alters
  <2>2. /\ Alters(a, t, CallFields) /\ IsState(t)
        /\ t.out = a.out /\ t.nextBlockIndex = a.nextBlockIndex /\ t.toolCalls = a.toolCalls
        /\ t.thinkingBlockIndex = a.thinkingBlockIndex /\ t.textBlockIndex = a.textBlockIndex
    BY <1>4, <2>1 DEF Alters, IsState, Fields, CallFields, WordFields
  <2>3. PICK w : Going(order, v, a, w, 0) /\ w.ends = e /\ w.text = x /\ w.think = k
    BY <1>1 DEF Continues
  <2>4. Going(order, v, t, w, 0)
    BY <2>2, <2>3, GoingAlike
  <2>5. Alters(s, t, CallFields)
    BY <1>1, <2>2, AltersThen
  <2> QED BY <1>1, <2>2, <2>3, <2>4, <2>5 DEF Continues
<1> QED BY <1>2, <1>3, <1>4

-----------------------------------------------------------------------------
(* The end of a message.                                                      *)
LEMMA MarkTold ==
  ASSUME NEW order, NEW v, NEW s, NEW w, Tells("claude", order, v, s, w), Straight(w), w.status = "open",
         Numbered(s.nextBlockIndex, w.parts), CallBlocks(s.toolCalls, w.parts),
         NEW n \in Nat, Block(n) \in DOMAIN w.parts, w.parts[Block(n)].kind = "call",
         NEW type \in {"args", "close"}, w.parts[Block(n)].state # "closed",
         type = "args" => w.parts[Block(n)].state = "open",
         NEW t, t = Emit(s, type, "call", n)
  PROVE  /\ Alters(s, t, {"out"})
         /\ \E u : /\ Tells("claude", order, v, t, u) /\ Straight(u) /\ u.status = "open"
                   /\ Numbered(t.nextBlockIndex, u.parts) /\ CallBlocks(t.toolCalls, u.parts)
                   /\ Marked(w.parts, u.parts, Block(n), StateAfter(type))
                   /\ u.ends = w.ends /\ u.text = w.text /\ u.think = w.think
<1> DEFINE ev == [type |-> type, kind |-> "call", n |-> n]
           u == Seen("claude", w, ev)
<1>1. ev \in Ev /\ ev.type = type /\ ev.n = n /\ ev.type \notin {"start", "end", "delta"}
  BY DEF Ev, EventType, PartKind
<1>2. IsState(s)
  BY DEF Tells
<1>3. Alters(s, t, {"out"}) /\ t.out = Append(s.out, ev)
  BY <1>2, EmitAlters
<1>4. u = Seen("claude", w, ev)
  OBVIOUS
<1> HIDE DEF ev, u
<1>5. FitsClaude(w, ev)
  BY <1>1 DEF FitsClaude
<1>6. IsState(t) /\ t.nextBlockIndex = s.nextBlockIndex /\ t.toolCalls = s.toolCalls
  BY <1>3 DEF Alters, Fields
<1>7. /\ Tells("claude", order, v, t, u)
      /\ u.status = "open" /\ Straight(u) /\ u.ends = w.ends
      /\ u.text = IF ev.type = "delta" /\ ev.kind = "text" THEN w.text + 1 ELSE w.text
      /\ u.think = IF ev.type = "delta" /\ ev.kind = "think" THEN w.think + 1 ELSE w.think
  <2>1. ev.type \notin {"start", "end"}
    BY <1>1
  <2> QED BY <1>1, <1>3, <1>4, <1>5, <1>6, <2>1, ToldClaude
<1>8. u.text = w.text /\ u.think = w.think
  BY <1>1, <1>7
<1> DEFINE q == Block(n)
<1>9. q = Block(ev.n) /\ ev.type \in {"args", "close"} /\ q \in DOMAIN w.parts
  BY <1>1
<1> HIDE DEF q
<1>10. /\ Numbered(s.nextBlockIndex, u.parts) /\ CallBlocks(s.toolCalls, u.parts)
       /\ Marked(w.parts, u.parts, q, StateAfter(ev.type))
  BY <1>1, <1>4, <1>9, MarkKeeps
<1> QED BY <1>1, <1>3, <1>6, <1>7, <1>8, <1>10 DEF q

LEMMA StopToolKeeps ==
  ASSUME NEW order, NEW v, NEW s, NEW w, NEW m \in Nat, Going(order, v, s, w, m),
         m < Len(s.toolCalls), s.thinkingBlockIndex = None, s.textBlockIndex = None,
         NEW t, t = StopToolBlock(s, s.toolCalls[m + 1])
  PROVE  /\ Alters(s, t, {"out"})
         /\ \E u : /\ Going(order, v, t, u, m + 1)
                   /\ u.ends = w.ends /\ u.text = w.text /\ u.think = w.think
<1> DEFINE calls == s.toolCalls
           n == calls[m + 1].value
           q == Block(n)
           a == IF calls[m + 1].key \in s.toolArgBuffers THEN Emit(s, "args", "call", n) ELSE s
<1>1. /\ Tells("claude", order, v, s, w) /\ Straight(w) /\ w.status = "open"
      /\ Numbered(s.nextBlockIndex, w.parts) /\ CallBlocks(calls, w.parts)
      /\ StillOpen(None, None, calls, w.parts, m)
  BY DEF Going, Blocks
<1>2. Len(calls) \in Nat /\ m + 1 \in 1..Len(calls) /\ m + 1 \in (m + 1)..Len(calls)
  BY <1>1 DEF CallBlocks
<1>3. n \in Nat /\ q \in DOMAIN w.parts /\ w.parts[q].kind = "call"
  BY <1>1, <1>2, CallOf
<1>4. w.parts[q].state = "open"
  BY <1>1, <1>2 DEF StillOpen
<1>5. t = Emit(a, "close", "call", n)
  BY DEF StopToolBlock
<1>6. /\ Alters(s, a, {"out"})
      /\ \E u : /\ Tells("claude", order, v, a, u) /\ Straight(u) /\ u.status = "open"
                /\ Numbered(a.nextBlockIndex, u.parts) /\ CallBlocks(a.toolCalls, u.parts)
                /\ DOMAIN u.parts = DOMAIN w.parts
                /\ u.parts[q].kind = "call" /\ u.parts[q].state # "closed"
                /\ \A p \in DOMAIN w.parts : p # q => u.parts[p] = w.parts[p]
                /\ u.ends = w.ends /\ u.text = w.text /\ u.think = w.think
  <2>1. CASE a = s
    BY <1>1, <1>3, <1>4, <2>1, AltersNothing DEF Tells
  <2>2. CASE a # s
    <3> DEFINE type == "args"
    <3>1. a = Emit(s, type, "call", n) /\ type \in {"args", "close"} /\ StateAfter(type) = "filled"
      BY <2>2 DEF StateAfter
    <3>2. w.parts[Block(n)].state # "closed" /\ w.parts[Block(n)].state = "open"
      BY <1>4
    <3>3. Block(n) \in DOMAIN w.parts /\ w.parts[Block(n)].kind = "call"
      BY <1>3
    <3> HIDE DEF a, type, n
    <3>4. /\ Alters(s, a, {"out"})
          /\ \E u : /\ Tells("claude", order, v, a, u) /\ Straight(u) /\ u.status = "open"
                    /\ Numbered(a.nextBlockIndex, u.parts) /\ CallBlocks(a.toolCalls, u.parts)
                    /\ Marked(w.parts, u.parts, Block(n), StateAfter(type))
                    /\ u.ends = w.ends /\ u.text = w.text /\ u.think = w.think
      BY <1>1, <1>3, <3>1, <3>2, <3>3, MarkTold
    <3>5. PICK u : /\ Tells("claude", order, v, a, u) /\ Straight(u) /\ u.status = "open"
                   /\ Numbered(a.nextBlockIndex, u.parts) /\ CallBlocks(a.toolCalls, u.parts)
                   /\ Marked(w.parts, u.parts, Block(n), StateAfter(type))
                   /\ u.ends = w.ends /\ u.text = w.text /\ u.think = w.think
      BY <3>4
    <3>6. /\ DOMAIN u.parts = DOMAIN w.parts
          /\ u.parts[q].kind = "call" /\ u.parts[q].state # "closed"
          /\ \A p \in DOMAIN w.parts : p # q => u.parts[p] = w.parts[p]
      BY <1>3, <3>1, <3>5 DEF Marked
    <3> QED BY <3>4, <3>5, <3>6
  <2> QED BY <2>1, <2>2
<1>7. PICK u : /\ Tells("claude", order, v, a, u) /\ Straight(u) /\ u.status = "open"
               /\ Numbered(a.nextBlockIndex, u.parts) /\ CallBlocks(a.toolCalls, u.parts)
               /\ DOMAIN u.parts = DOMAIN w.parts
               /\ u.parts[q].kind = "call" /\ u.parts[q].state # "closed"
               /\ \A p \in DOMAIN w.parts : p # q => u.parts[p] = w.parts[p]
               /\ u.ends = w.ends /\ u.text = w.text /\ u.think = w.think
  BY <1>6
<1> DEFINE type == "close"
<1>8. t = Emit(a, type, "call", n) /\ type \in {"args", "close"} /\ type # "args" /\ StateAfter(type) = "closed"
  BY <1>5 DEF StateAfter
<1>9. Block(n) \in DOMAIN u.parts /\ u.parts[Block(n)].kind = "call" /\ u.parts[Block(n)].state # "closed"
  BY <1>3, <1>7
<1> HIDE DEF a, type, n
<1>10. /\ Alters(a, t, {"out"})
       /\ \E z : /\ Tells("claude", order, v, t, z) /\ Straight(z) /\ z.status = "open"
                 /\ Numbered(t.nextBlockIndex, z.parts) /\ CallBlocks(t.toolCalls, z.parts)
                 /\ Marked(u.parts, z.parts, Block(n), StateAfter(type))
                 /\ z.ends = u.ends /\ z.text = u.text /\ z.think = u.think
  BY <1>3, <1>7, <1>8, <1>9, MarkTold
<1>11. PICK z : /\ Tells("claude", order, v, t, z) /\ Straight(z) /\ z.status = "open"
                /\ Numbered(t.nextBlockIndex, z.parts) /\ CallBlocks(t.toolCalls, z.parts)
                /\ Marked(u.parts, z.parts, Block(n), StateAfter(type))
                /\ z.ends = u.ends /\ z.text = u.text /\ z.think = u.think
  BY <1>10
<1>12. /\ DOMAIN z.parts = DOMAIN w.parts /\ z.parts[q].state = "closed"
       /\ \A p \in DOMAIN w.parts : p # q => z.parts[p] = w.parts[p]
  BY <1>7, <1>8, <1>11 DEF Marked
<1>13. Alters(s, t, {"out"})
  BY <1>6, <1>10, AltersThen
<1>14. /\ t.toolCalls = calls /\ t.thinkingBlockIndex = None /\ t.textBlockIndex = None
  BY <1>13 DEF Alters, Fields
<1>15. StillOpen(None, None, calls, z.parts, m + 1)
  <2>1. ASSUME NEW j \in ((m + 1) + 1)..Len(calls)
        PROVE  z.parts[Block(calls[j].value)].state = "open"
    <3>1. j \in 1..Len(calls) /\ j # m + 1 /\ j \in (m + 1)..Len(calls)
      BY <1>2
    <3>2. calls[j].value # n
      BY <1>1, <1>2, <3>1 DEF CallBlocks, n
    <3>3. Block(calls[j].value) # q
      BY <3>2, BlockInjective
    <3>4. Block(calls[j].value) \in DOMAIN w.parts
      BY <1>1, <3>1, CallOf
    <3>5. w.parts[Block(calls[j].value)].state = "open"
      BY <1>1, <3>1 DEF StillOpen
    <3> QED BY <1>12, <3>3, <3>4, <3>5
  <2>2. ASSUME NEW p \in DOMAIN z.parts, z.parts[p].state # "closed"
        PROVE  \E j \in ((m + 1) + 1)..Len(calls) : p = Block(calls[j].value)
    <3>1. p # q /\ p \in DOMAIN w.parts /\ w.parts[p].state # "closed"
      BY <1>12, <2>2
    <3>2. PICK j \in (m + 1)..Len(calls) : p = Block(calls[j].value)
      BY <1>1, <3>1 DEF StillOpen
    <3>3. j # m + 1
      BY <3>1, <3>2 DEF n
    <3> QED BY <1>2, <3>2, <3>3
  <2> QED BY <2>1, <2>2 DEF StillOpen
<1>16. Going(order, v, t, z, m + 1)
  BY <1>11, <1>14, <1>15 DEF Going, Blocks
<1> QED BY <1>7, <1>11, <1>13, <1>16

StopTools == INSTANCE FoldSteps WITH Op <- StopToolBlock
ClaudeCalls == INSTANCE FoldSteps WITH Op <- ClaudeCall

LEMMA StopToolsFold ==
  ASSUME NEW T, NEW base, NEW seq \in Seq(T)
  PROVE  FoldLeft(StopToolBlock, base, seq) = StopTools!Result(base, seq, Len(seq))
<1>1. Len(seq) \in Nat /\ DOMAIN seq = 1..Len(seq)
  OBVIOUS
<1> QED
  BY <1>1 DEF FoldLeft, MapThenFoldSet, Max, StopTools!Result, StopTools!FoldOf, StopTools!Max

LEMMA ClaudeCallsFold ==
  ASSUME NEW T, NEW base, NEW seq \in Seq(T)
  PROVE  FoldLeft(ClaudeCall, base, seq) = ClaudeCalls!Result(base, seq, Len(seq))
<1>1. Len(seq) \in Nat /\ DOMAIN seq = 1..Len(seq)
  OBVIOUS
<1> QED
  BY <1>1 DEF FoldLeft, MapThenFoldSet, Max, ClaudeCalls!Result, ClaudeCalls!FoldOf, ClaudeCalls!Max

LEMMA StopToolsKeep ==
  ASSUME NEW order, NEW v, NEW s, NEW w, Going(order, v, s, w, 0),
         s.thinkingBlockIndex = None, s.textBlockIndex = None,
         NEW t, t = StopTools!Result(s, s.toolCalls, Len(s.toolCalls))
  PROVE  /\ Alters(s, t, {"out"})
         /\ \E u : /\ Going(order, v, t, u, Len(s.toolCalls))
                   /\ u.ends = w.ends /\ u.text = w.text /\ u.think = w.think
<1> DEFINE calls == s.toolCalls
           n == Len(calls)
<1>1. IsState(s) /\ calls \in Seq(CallEntry) /\ n \in Nat
  BY GoingState
<1>2. t = StopTools!Result(s, calls, n)
  OBVIOUS
<1>3. PICK h : /\ h[0] = s
               /\ \A j \in 1..n : h[j] = StopToolBlock(h[j - 1], calls[j])
               /\ StopTools!Result(s, calls, n) = h[n]
  <2> HIDE DEF calls, n
  <2> QED BY <1>1, StopTools!Steps
<1>4. t = h[n]
  BY <1>2, <1>3, Zenon
<1> DEFINE P(j) == /\ Alters(s, h[j], {"out"})
                   /\ \E u : /\ Going(order, v, h[j], u, j)
                             /\ u.ends = w.ends /\ u.text = w.text /\ u.think = w.think
           Not == {j \in 0..n : ~P(j)}
<1>5. P(0)
  BY <1>1, <1>3, AltersNothing
<1>6. ASSUME NEW j \in 1..n, P(j - 1) PROVE P(j)
  <2>1. PICK u : /\ Going(order, v, h[j - 1], u, j - 1)
                 /\ u.ends = w.ends /\ u.text = w.text /\ u.think = w.think
    BY <1>6
  <2>2. /\ h[j - 1].toolCalls = calls
        /\ h[j - 1].thinkingBlockIndex = None /\ h[j - 1].textBlockIndex = None
    BY <1>6 DEF Alters, Fields
  <2>3. j - 1 \in Nat /\ j - 1 < Len(h[j - 1].toolCalls) /\ (j - 1) + 1 = j
    BY <1>1, <2>2
  <2>4. h[j] = StopToolBlock(h[j - 1], h[j - 1].toolCalls[(j - 1) + 1])
    BY <1>3, <2>2, <2>3
  <2>5. /\ Alters(h[j - 1], h[j], {"out"})
        /\ \E z : /\ Going(order, v, h[j], z, (j - 1) + 1)
                  /\ z.ends = u.ends /\ z.text = u.text /\ z.think = u.think
    BY <2>1, <2>2, <2>3, <2>4, StopToolKeeps
  <2>6. Alters(s, h[j], {"out"})
    BY <1>6, <2>5, AltersThen
  <2> QED BY <2>1, <2>3, <2>5, <2>6
<1> HIDE DEF P
<1>7. Not = {}
  <2> SUFFICES ASSUME Not # {} PROVE FALSE
    OBVIOUS
  <2>1. Not \in SUBSET Nat
    BY <1>1
  <2>2. PICK j \in Not : \A i \in Not : j <= i
    <3> HIDE DEF Not
    <3> QED BY <2>1, StopTools!LeastNatural
  <2>3. j \in 1..n /\ j - 1 \in 0..n /\ j - 1 \notin Not
    BY <1>1, <1>5, <2>2
  <2>4. P(j - 1)
    BY <2>3
  <2> QED BY <1>6, <2>2, <2>3, <2>4
<1>8. P(n)
  BY <1>1, <1>7
<1> QED BY <1>4, <1>8 DEF P

\* A message at its end.
Ended(order, v, s, e, x, k) ==
  \E w : /\ Tells("claude", order, v, s, w) /\ Straight(w) /\ w.status = "ended"
         /\ Numbered(s.nextBlockIndex, w.parts) /\ CallBlocks(s.toolCalls, w.parts) /\ AllClosed(w)
         /\ w.ends = e /\ w.text = x /\ w.think = k

LEMMA EndKeeps ==
  ASSUME NEW order, NEW v, NEW s, NEW w, Going(order, v, s, w, Len(s.toolCalls)),
         s.thinkingBlockIndex = None, s.textBlockIndex = None,
         NEW t, t = Emit(s, "end", "none", 0)
  PROVE  /\ Alters(s, t, {"out"})
         /\ Ended(order, v, t, w.ends + 1, w.text, w.think)
<1> DEFINE ev == [type |-> "end", kind |-> "none", n |-> 0]
           u == Seen("claude", w, ev)
<1>1. ev \in Ev /\ ev.type = "end"
  BY DEF Ev, EventType, PartKind
<1>2. Tells("claude", order, v, s, w) /\ IsState(s) /\ IsView(w)
  BY DEF Going, Tells
<1>3. Alters(s, t, {"out"}) /\ t.out = Append(s.out, ev)
  BY <1>2, EmitAlters
<1>4. u = Seen("claude", w, ev)
  OBVIOUS
<1> HIDE DEF ev, u
<1>5. AllClosed(w)
  <2>1. StillOpen(None, None, s.toolCalls, w.parts, Len(s.toolCalls)) /\ s.toolCalls \in Seq(CallEntry)
    BY DEF Going, Blocks, CallBlocks
  <2>2. Len(s.toolCalls) \in Nat
    BY <2>1
  <2>3. (Len(s.toolCalls) + 1)..Len(s.toolCalls) = {}
    BY <2>2
  <2> QED BY <2>1, <2>3 DEF StillOpen, AllClosed
<1>6. w.status = "open" /\ Straight(w) /\ Numbered(s.nextBlockIndex, w.parts) /\ CallBlocks(s.toolCalls, w.parts)
  BY DEF Going, Blocks
<1>7. FitsClaude(w, ev) /\ Fits("claude", order, w, ev)
  BY <1>1, <1>5, <1>6 DEF FitsClaude, Fits
<1>8. IsState(t) /\ t.nextBlockIndex = s.nextBlockIndex /\ t.toolCalls = s.toolCalls
  BY <1>3 DEF Alters, Fields
<1>9. Tells("claude", order, v, t, u)
  BY <1>1, <1>2, <1>3, <1>4, <1>7, <1>8, EventTold
<1>10. InPlace("claude", w, ev)
  BY <1>1, <1>7, FittingIsInPlace
<1>11. Straight(u)
  BY <1>4, <1>6, <1>10, SeenStray
<1>12. u.status = "ended" /\ u.ends = w.ends + 1 /\ u.text = w.text /\ u.think = w.think
  BY <1>1, <1>4 DEF Seen
<1>13. u.parts = w.parts
  BY <1>1, <1>4, SeenRest
<1>14. AllClosed(u)
  BY <1>5, <1>13 DEF AllClosed
<1> QED BY <1>3, <1>6, <1>8, <1>9, <1>11, <1>12, <1>13, <1>14 DEF Ended

LEMMA ClaudeFinishKeeps ==
  ASSUME NEW order, NEW v, NEW s, NEW e, NEW x, NEW k, Continues(order, v, s, e, x, k),
         NEW t, t = ClaudeFinish(s)
  PROVE  /\ Alters(s, t, ClaudeFields) /\ Ended(order, v, t, e + 1, x, k)
         /\ t.responseFinished /\ t.messageStartSent = s.messageStartSent
         /\ t.toolCalls = s.toolCalls
<1> DEFINE r == [s EXCEPT !.responseFinished = TRUE]
           a == StopThinkingBlock(r)
           b == StopTextBlock(a)
           f == FoldLeft(StopToolBlock, b, b.toolCalls)
<1>1. PICK w : Going(order, v, s, w, 0) /\ w.ends = e /\ w.text = x /\ w.think = k
  BY DEF Continues
<1>2. IsState(s)
  BY <1>1, GoingState
<1>3. /\ Alters(s, r, {"responseFinished"}) /\ IsState(r) /\ r.responseFinished
      /\ r.out = s.out /\ r.nextBlockIndex = s.nextBlockIndex /\ r.toolCalls = s.toolCalls
      /\ r.thinkingBlockIndex = s.thinkingBlockIndex /\ r.textBlockIndex = s.textBlockIndex
  BY <1>2 DEF Alters, IsState, Fields
<1> HIDE DEF r
<1>4. Going(order, v, r, w, 0)
  BY <1>1, <1>3, GoingAlike
<1>5. Continues(order, v, r, e, x, k)
  BY <1>1, <1>4 DEF Continues
<1>6. Alters(r, a, WordFields) /\ Continues(order, v, a, e, x, k) /\ a.thinkingBlockIndex = None
  BY <1>5, StopThinkingKeeps
<1> HIDE DEF a
<1>7. /\ Alters(a, b, WordFields) /\ Continues(order, v, b, e, x, k)
      /\ b.textBlockIndex = None /\ b.thinkingBlockIndex = None
  BY <1>6, StopTextKeeps
<1> HIDE DEF b
<1>8. PICK z : Going(order, v, b, z, 0) /\ z.ends = e /\ z.text = x /\ z.think = k
  BY <1>7 DEF Continues
<1>9. /\ Alters(b, f, {"out"})
      /\ \E u : /\ Going(order, v, f, u, Len(b.toolCalls))
                /\ u.ends = z.ends /\ u.text = z.text /\ u.think = z.think
  <2>1. b.toolCalls \in Seq(CallEntry)
    BY <1>8, GoingState
  <2>2. f = StopTools!Result(b, b.toolCalls, Len(b.toolCalls))
    BY <2>1, StopToolsFold
  <2> HIDE DEF f
  <2> QED BY <1>7, <1>8, <2>2, StopToolsKeep
<1>10. t = Emit(f, "end", "none", 0)
  BY DEF ClaudeFinish, r, a, b
<1> HIDE DEF f
<1>11. f.toolCalls = b.toolCalls /\ f.thinkingBlockIndex = None /\ f.textBlockIndex = None
  BY <1>7, <1>9 DEF Alters, Fields
<1>12. PICK u : /\ Going(order, v, f, u, Len(f.toolCalls))
                /\ u.ends = e /\ u.text = x /\ u.think = k
  BY <1>8, <1>9, <1>11
<1>13. Alters(f, t, {"out"}) /\ Ended(order, v, t, u.ends + 1, u.text, u.think)
  BY <1>10, <1>11, <1>12, EndKeeps
<1>14. Alters(s, t, ClaudeFields)
  BY <1>3, <1>6, <1>7, <1>9, <1>13 DEF Alters, WordFields, CallFields, ClaudeFields
<1>15. t.responseFinished = r.responseFinished /\ t.messageStartSent = s.messageStartSent /\ t.toolCalls = s.toolCalls
  <2>1. t.responseFinished = r.responseFinished
    BY <1>6, <1>7, <1>9, <1>13 DEF Alters, WordFields, Fields
  <2>2. t.messageStartSent = s.messageStartSent /\ t.toolCalls = s.toolCalls
    BY <1>3, <1>6, <1>7, <1>9, <1>13 DEF Alters, WordFields, Fields
  <2> QED BY <2>1, <2>2
<1> QED BY <1>3, <1>12, <1>13, <1>14, <1>15

-----------------------------------------------------------------------------
(* A chunk for a Claude client.                                               *)
Piece == [index : Nat, id : BOOLEAN, args : BOOLEAN]
Chunk == [think : BOOLEAN, text : {"none", "text", "<think>", "</think>"}, calls : Seq(Piece),
          finish : BOOLEAN]

\* Either pieces of known calls or of the next, or calls numbered from zero.
InOrder(calls, l) ==
  \/ \A j \in 1..Len(calls) : calls[j].index <= l
  \/ \A j \in 1..Len(calls) : calls[j].index = j - 1

LEMMA ClaudeCallsKeep ==
  ASSUME NEW order, NEW v, NEW s, NEW e, NEW x, NEW k, Continues(order, v, s, e, x, k),
         NEW calls \in Seq(Piece), InOrder(calls, Len(s.toolCalls)),
         NEW t, t = ClaudeCalls!Result(s, calls, Len(calls))
  PROVE  /\ Alters(s, t, CallFields) /\ Continues(order, v, t, e, x, k)
         /\ Len(calls) = 0 => Len(t.toolCalls) = Len(s.toolCalls)
         /\ Len(calls) = 1 => Len(t.toolCalls) = IF calls[1].index = Len(s.toolCalls)
                                                 THEN Len(s.toolCalls) + 1 ELSE Len(s.toolCalls)
<1> DEFINE n == Len(calls)
           l == Len(s.toolCalls)
<1>1. n \in Nat /\ \A j \in 1..n : calls[j].index \in Nat
  <2>1. \A j \in 1..n : calls[j] \in Piece
    OBVIOUS
  <2> QED BY <2>1 DEF Piece
<1>2. t = ClaudeCalls!Result(s, calls, n)
  OBVIOUS
<1>3. PICK h : /\ h[0] = s
               /\ \A j \in 1..n : h[j] = ClaudeCall(h[j - 1], calls[j])
               /\ ClaudeCalls!Result(s, calls, n) = h[n]
  <2> HIDE DEF n
  <2> QED BY <1>1, ClaudeCalls!Steps
<1>4. t = h[n]
  BY <1>2, <1>3, Zenon
<1>5. IsState(s) /\ l \in Nat
  <2>1. PICK w : Going(order, v, s, w, 0)
    BY DEF Continues
  <2>2. IsState(s) /\ s.toolCalls \in Seq(CallEntry)
    BY <2>1, GoingState
  <2> QED BY <2>2
<1> DEFINE L(j) == Len(h[j].toolCalls)
           P(j) == /\ Alters(s, h[j], CallFields) /\ Continues(order, v, h[j], e, x, k)
                   /\ L(j) \in Nat /\ L(j) >= l
                   /\ (\A i \in 1..n : calls[i].index = i - 1) => L(j) >= j
           Not == {j \in 0..n : ~P(j)}
<1>6. P(0)
  BY <1>3, <1>5, AltersNothing
<1>7. ASSUME NEW j \in 1..n, P(j - 1)
      PROVE  /\ P(j)
             /\ L(j) = IF calls[j].index = L(j - 1) THEN L(j - 1) + 1 ELSE L(j - 1)
  <2> DEFINE g == h[j - 1]
             call == calls[j]
  <2>1. j - 1 \in Nat /\ call.index \in Nat /\ L(j - 1) \in Nat
    BY <1>1, <1>7
  <2>2. call.index <= L(j - 1)
    <3>1. CASE \A i \in 1..n : calls[i].index <= l
      <4> DEFINE i0 == call.index
                 l1 == L(j - 1)
      <4>1. i0 <= l
        BY <3>1
      <4>2. i0 \in Nat /\ l \in Nat /\ l1 \in Nat /\ l1 >= l
        BY <1>5, <1>7, <2>1
      <4> HIDE DEF i0, l, l1
      <4>3. i0 <= l1
        BY <4>1, <4>2
      <4> QED BY <4>3 DEF i0, l1
    <3>2. CASE \A i \in 1..n : calls[i].index = i - 1
      BY <1>1, <1>7, <2>1, <3>2
    <3> QED BY <3>1, <3>2 DEF InOrder
  <2>3. call.index \in 0..Len(g.toolCalls)
    BY <2>1, <2>2
  <2>4. h[j] = ClaudeCall(g, call)
    BY <1>3
  <2>5. Alters(s, g, CallFields) /\ Continues(order, v, g, e, x, k)
    BY <1>7
  <2>6. L(j) = IF call.index = L(j - 1) THEN L(j - 1) + 1 ELSE L(j - 1)
    <3> HIDE DEF call, g
    <3>1. /\ Alters(g, h[j], CallFields) /\ Continues(order, v, h[j], e, x, k)
          /\ Len(h[j].toolCalls) = IF call.index = Len(g.toolCalls) THEN Len(g.toolCalls) + 1
                                   ELSE Len(g.toolCalls)
      BY <2>3, <2>4, <2>5, ClaudeCallKeeps
    <3> QED BY <3>1 DEF g
  <2>7. Alters(g, h[j], CallFields) /\ Continues(order, v, h[j], e, x, k)
    <3> HIDE DEF call, g
    <3> QED BY <2>3, <2>4, <2>5, ClaudeCallKeeps
  <2>8. Alters(s, h[j], CallFields)
    BY <2>5, <2>7, AltersThen
  <2>9. L(j) \in Nat /\ L(j) >= l
    BY <1>5, <1>7, <2>1, <2>6
  <2>10. ASSUME \A i \in 1..n : calls[i].index = i - 1 PROVE L(j) >= j
    <3> DEFINE i0 == call.index
               l1 == L(j - 1)
               l2 == L(j)
    <3>1. l1 >= j - 1 /\ i0 = j - 1
      BY <1>7, <2>10
    <3>2. l1 \in Nat /\ j \in Nat /\ l2 = IF i0 = l1 THEN l1 + 1 ELSE l1
      BY <2>1, <2>6
    <3> HIDE DEF i0, l1, l2
    <3>3. l2 >= j
      BY <3>1, <3>2
    <3> QED BY <3>3 DEF l2
  <2> QED BY <2>6, <2>7, <2>8, <2>9, <2>10
<1>8. ASSUME NEW j \in 1..n, P(j - 1) PROVE P(j)
  BY <1>7, <1>8
<1> HIDE DEF P
<1>9. Not = {}
  <2> SUFFICES ASSUME Not # {} PROVE FALSE
    OBVIOUS
  <2>1. Not \in SUBSET Nat
    BY <1>1
  <2>2. PICK j \in Not : \A i \in Not : j <= i
    <3> HIDE DEF Not
    <3> QED BY <2>1, ClaudeCalls!LeastNatural
  <2>3. j \in 1..n /\ j - 1 \in 0..n /\ j - 1 \notin Not
    BY <1>1, <1>6, <2>2
  <2>4. P(j - 1)
    BY <2>3
  <2> QED BY <1>8, <2>2, <2>3, <2>4
<1>10. P(n)
  BY <1>1, <1>9
<1>11. n = 1 => L(1) = IF calls[1].index = L(0) THEN L(0) + 1 ELSE L(0)
  <2> SUFFICES ASSUME n = 1 PROVE L(1) = IF calls[1].index = L(0) THEN L(0) + 1 ELSE L(0)
    OBVIOUS
  <2>1. 1 \in 1..n /\ 1 - 1 = 0
    BY <1>1
  <2>2. P(1 - 1)
    BY <1>6, <2>1
  <2>3. L(1) = IF calls[1].index = L(1 - 1) THEN L(1 - 1) + 1 ELSE L(1 - 1)
    BY <1>7, <2>1, <2>2
  <2> QED BY <2>1, <2>3
<1> QED BY <1>3, <1>4, <1>10, <1>11 DEF P

Waits(order, v, s, e, x, k) ==
  /\ s.nextBlockIndex = 0
  /\ \E w : /\ Tells("claude", order, v, s, w) /\ Blocks(s, w.parts, 0)
            /\ w.status = "waiting" /\ Straight(w)
            /\ w.ends = e /\ w.text = x /\ w.think = k

ClaudeReads(order, v, s, e, x, k) ==
  /\ s.responseFinished => s.messageStartSent /\ Ended(order, v, s, e, x, k)
  /\ s.messageStartSent /\ ~s.responseFinished => Continues(order, v, s, e, x, k)
  /\ ~s.messageStartSent => Waits(order, v, s, e, x, k)

LEMMA MessageStartKeeps ==
  ASSUME NEW order, NEW v, NEW s, NEW e, NEW x, NEW k, ClaudeReads(order, v, s, e, x, k),
         ~s.responseFinished, NEW t, t = MessageStart(s)
  PROVE  /\ Alters(s, t, ClaudeFields) /\ Continues(order, v, t, e, x, k)
         /\ t.messageStartSent /\ ~t.responseFinished /\ t.toolCalls = s.toolCalls
<1>1. CASE s.messageStartSent
  <2>1. t = s /\ Continues(order, v, s, e, x, k)
    BY <1>1 DEF MessageStart, ClaudeReads
  <2>2. IsState(s)
    BY <2>1, GoingState DEF Continues
  <2> QED BY <1>1, <2>1, <2>2, AltersNothing
<1>2. CASE ~s.messageStartSent
  <2> DEFINE a == [[s EXCEPT !.messageStartSent = TRUE] EXCEPT !.nextBlockIndex = 0]
             ev == [type |-> "start", kind |-> "none", n |-> 0]
  <2>1. PICK w : /\ Tells("claude", order, v, s, w) /\ Blocks(s, w.parts, 0)
                 /\ w.status = "waiting" /\ Straight(w)
                 /\ w.ends = e /\ w.text = x /\ w.think = k
    BY <1>2 DEF ClaudeReads, Waits
  <2>2. t = Emit(a, "start", "none", 0)
    BY <1>2 DEF MessageStart
  <2>3. IsState(s) /\ s.nextBlockIndex = 0
    BY <1>2, <2>1 DEF Tells, ClaudeReads, Waits
  <2>4. /\ Alters(s, a, {"messageStartSent"}) /\ a.messageStartSent /\ a.out = s.out
    <3> DEFINE b == [s EXCEPT !.messageStartSent = TRUE]
    <3>1. Alters(s, b, {"messageStartSent"}) /\ b.messageStartSent /\ b.nextBlockIndex = 0
      BY <2>3 DEF Alters, IsState, Fields
    <3>2. a = [b EXCEPT !.nextBlockIndex = 0]
      OBVIOUS
    <3> HIDE DEF a, b
    <3>3. a.messageStartSent = b.messageStartSent /\ a.nextBlockIndex = 0 /\ Alters(b, a, {})
      BY <3>1, <3>2 DEF Alters, IsState, Fields
    <3>4. Alters(s, a, {"messageStartSent"})
      BY <3>1, <3>3 DEF Alters
    <3> QED BY <3>1, <3>3, <3>4 DEF Alters, Fields
  <2> HIDE DEF a
  <2>5. Alters(a, t, {"out"}) /\ t.out = Append(s.out, ev)
    BY <2>2, <2>4, EmitAlters DEF Alters
  <2> DEFINE u == Seen("claude", w, ev)
  <2>6. ev \in Ev /\ ev.type = "start" /\ u = Seen("claude", w, ev)
    BY DEF Ev, EventType, PartKind
  <2> HIDE DEF ev, u
  <2>7. FitsClaude(w, ev) /\ Fits("claude", order, w, ev)
    BY <2>1, <2>6 DEF FitsClaude, Fits
  <2>8. IsState(t) /\ t.nextBlockIndex = s.nextBlockIndex /\ t.toolCalls = s.toolCalls
        /\ t.thinkingBlockIndex = s.thinkingBlockIndex /\ t.textBlockIndex = s.textBlockIndex
    BY <2>4, <2>5 DEF Alters, Fields
  <2>9. Tells("claude", order, v, t, u)
    BY <2>1, <2>5, <2>6, <2>7, <2>8, EventTold
  <2>10. InPlace("claude", w, ev)
    BY <2>6, <2>7, FittingIsInPlace
  <2>11. Straight(u)
    BY <2>1, <2>6, <2>10, SeenStray
  <2>12. u.status = "open" /\ u.ends = e /\ u.text = x /\ u.think = k
    BY <2>1, <2>6 DEF Seen
  <2>13. u.parts = w.parts
    BY <2>6, SeenRest
  <2>14. Going(order, v, t, u, 0)
    BY <2>1, <2>8, <2>9, <2>11, <2>12, <2>13 DEF Going, Blocks
  <2>15. Continues(order, v, t, e, x, k)
    BY <2>12, <2>14 DEF Continues
  <2>16. t.messageStartSent = a.messageStartSent /\ t.responseFinished = s.responseFinished
    BY <2>4, <2>5 DEF Alters, Fields
  <2>17. Alters(s, t, ClaudeFields)
    BY <2>4, <2>5 DEF Alters, ClaudeFields, CallFields, WordFields
  <2> QED BY <2>4, <2>8, <2>15, <2>16, <2>17
<1> QED BY <1>1, <1>2

LEMMA ClaudeReadsState ==
  ASSUME NEW order, NEW v, NEW s, NEW e, NEW x, NEW k, ClaudeReads(order, v, s, e, x, k)
  PROVE  IsState(s) /\ s.toolCalls \in Seq(CallEntry)
<1>1. CASE s.messageStartSent /\ ~s.responseFinished
  <2>1. Continues(order, v, s, e, x, k)
    BY <1>1 DEF ClaudeReads
  <2> QED BY <2>1, GoingState DEF Continues
<1>2. CASE ~s.messageStartSent
  <2>1. Waits(order, v, s, e, x, k)
    BY <1>2 DEF ClaudeReads
  <2> QED BY <2>1 DEF Waits, Tells, Blocks, CallBlocks
<1>3. CASE s.responseFinished
  <2>1. Ended(order, v, s, e, x, k)
    BY <1>3 DEF ClaudeReads
  <2> QED BY <2>1 DEF Ended, Tells, CallBlocks
<1> QED BY <1>1, <1>2, <1>3

LEMMA ClaudeChunkKeeps ==
  ASSUME NEW order, NEW v, NEW s, NEW e, NEW x, NEW k, ClaudeReads(order, v, s, e, x, k),
         NEW chunk \in Chunk, InOrder(chunk.calls, Len(s.toolCalls)), ~s.responseFinished,
         NEW t, t = OpenAiToClaude(chunk, s)
  PROVE  /\ Alters(s, t, ClaudeFields) /\ t.messageStartSent /\ (t.responseFinished <=> chunk.finish)
         /\ ClaudeReads(order, v, t, IF chunk.finish THEN e + 1 ELSE e,
                        IF chunk.text = "none" THEN x ELSE x + 1, IF chunk.think THEN k + 1 ELSE k)
         /\ Len(chunk.calls) = 0 => Len(t.toolCalls) = Len(s.toolCalls)
         /\ Len(chunk.calls) = 1 => Len(t.toolCalls) = IF chunk.calls[1].index = Len(s.toolCalls)
                                                       THEN Len(s.toolCalls) + 1 ELSE Len(s.toolCalls)
<1> DEFINE started == MessageStart(s)
           thought == IF chunk.think THEN ClaudeThought(started) ELSE started
           text == IF chunk.text # "none" THEN ClaudeText(thought) ELSE thought
           calls == FoldLeft(ClaudeCall, text, chunk.calls)
           x1 == IF chunk.text = "none" THEN x ELSE x + 1
           k1 == IF chunk.think THEN k + 1 ELSE k
<1>0. t = IF chunk.finish THEN ClaudeFinish(calls) ELSE calls
  BY DEF OpenAiToClaude
<1>1. /\ Alters(s, started, ClaudeFields) /\ Continues(order, v, started, e, x, k)
      /\ started.messageStartSent /\ ~started.responseFinished /\ started.toolCalls = s.toolCalls
  BY MessageStartKeeps
<1>2. chunk.calls \in Seq(Piece)
  BY DEF Chunk
<1>3. calls = ClaudeCalls!Result(text, chunk.calls, Len(chunk.calls))
  BY <1>2, ClaudeCallsFold
<1> HIDE DEF started, calls
<1>4. /\ Alters(started, thought, WordFields) /\ Continues(order, v, thought, e, x, k1)
  <2>1. CASE chunk.think
    BY <1>1, <2>1, ClaudeThoughtKeeps
  <2>2. CASE ~chunk.think
    <3>1. IsState(started)
      BY <1>1 DEF Alters
    <3> QED BY <1>1, <2>2, <3>1, AltersNothing
  <2> QED BY <2>1, <2>2
<1> HIDE DEF thought, k1
<1>5. /\ Alters(thought, text, WordFields) /\ Continues(order, v, text, e, x1, k1)
  <2>1. CASE chunk.text # "none"
    BY <1>4, <2>1, ClaudeTextKeeps
  <2>2. CASE chunk.text = "none"
    <3>1. IsState(thought)
      BY <1>4 DEF Alters
    <3> QED BY <1>4, <2>2, <3>1, AltersNothing
  <2> QED BY <2>1, <2>2
<1> HIDE DEF text, x1
<1>6. text.toolCalls = s.toolCalls /\ Alters(s, text, ClaudeFields)
      /\ text.messageStartSent = started.messageStartSent /\ text.responseFinished = started.responseFinished
  <2>1. Alters(s, text, ClaudeFields)
    BY <1>1, <1>4, <1>5 DEF Alters, ClaudeFields, CallFields
  <2>2. text.toolCalls = started.toolCalls /\ text.messageStartSent = started.messageStartSent
        /\ text.responseFinished = started.responseFinished
    BY <1>4, <1>5 DEF Alters, WordFields, Fields
  <2> QED BY <1>1, <2>1, <2>2
<1>7. /\ Alters(text, calls, CallFields) /\ Continues(order, v, calls, e, x1, k1)
      /\ Len(chunk.calls) = 0 => Len(calls.toolCalls) = Len(s.toolCalls)
      /\ Len(chunk.calls) = 1 => Len(calls.toolCalls) = IF chunk.calls[1].index = Len(s.toolCalls)
                                                        THEN Len(s.toolCalls) + 1 ELSE Len(s.toolCalls)
  <2> DEFINE pieces == chunk.calls
  <2>1. /\ pieces \in Seq(Piece) /\ InOrder(pieces, Len(text.toolCalls))
        /\ calls = ClaudeCalls!Result(text, pieces, Len(pieces))
    BY <1>2, <1>3, <1>6
  <2>2. /\ Alters(text, calls, CallFields) /\ Continues(order, v, calls, e, x1, k1)
        /\ Len(pieces) = 0 => Len(calls.toolCalls) = Len(text.toolCalls)
        /\ Len(pieces) = 1 => Len(calls.toolCalls) = IF pieces[1].index = Len(text.toolCalls)
                                                     THEN Len(text.toolCalls) + 1 ELSE Len(text.toolCalls)
    <3> HIDE DEF pieces
    <3> QED BY <1>5, <2>1, ClaudeCallsKeep
  <2> QED BY <1>6, <2>2
<1>8. /\ Alters(s, calls, ClaudeFields)
      /\ calls.messageStartSent = text.messageStartSent /\ calls.responseFinished = text.responseFinished
  BY <1>6, <1>7 DEF Alters, ClaudeFields, CallFields, WordFields, Fields
<1>9. calls.messageStartSent /\ ~calls.responseFinished
  BY <1>1, <1>6, <1>8
<1>10. CASE ~chunk.finish
  <2>1. t = calls
    BY <1>0, <1>10
  <2>2. ClaudeReads(order, v, t, e, x1, k1)
    BY <1>7, <1>9, <2>1 DEF ClaudeReads
  <2>3. ClaudeReads(order, v, t, IF chunk.finish THEN e + 1 ELSE e, x1, k1)
    BY <1>10, <2>2
  <2> QED BY <1>7, <1>8, <1>9, <1>10, <2>1, <2>3 DEF x1, k1
<1>11. CASE chunk.finish
  <2>1. t = ClaudeFinish(calls)
    BY <1>0, <1>11
  <2>2. /\ Alters(calls, t, ClaudeFields) /\ Ended(order, v, t, e + 1, x1, k1)
        /\ t.responseFinished /\ t.messageStartSent = calls.messageStartSent
        /\ t.toolCalls = calls.toolCalls
    BY <1>7, <2>1, ClaudeFinishKeeps
  <2>3. ClaudeReads(order, v, t, e + 1, x1, k1)
    BY <1>9, <2>2 DEF ClaudeReads
  <2>4. ClaudeReads(order, v, t, IF chunk.finish THEN e + 1 ELSE e, x1, k1)
    BY <1>11, <2>3
  <2>5. Alters(s, t, ClaudeFields)
    BY <1>8, <2>2, AltersThen
  <2> QED BY <1>7, <1>9, <1>11, <2>2, <2>4, <2>5 DEF x1, k1
<1> QED BY <1>10, <1>11

-----------------------------------------------------------------------------
(* The items of a Responses stream.                                           *)
Item(kind, n) == [kind |-> kind, n |-> n]

ItemState(s, kind, n) ==
  IF kind = "call" THEN (IF n \in s.done THEN "done" ELSE IF n \in s.added THEN "added" ELSE "none")
  ELSE IF n # 0 THEN "none"
  ELSE IF kind = "text" THEN s.msgItem ELSE s.reasoning

ItemIs(parts, p, kind, st) ==
  /\ p \in DOMAIN parts <=> st # "none"
  /\ st # "none" => parts[p].kind = kind /\ (parts[p].state = "closed" <=> st = "done")

Items(s, parts) ==
  /\ TypedParts(parts)
  /\ \A p \in DOMAIN parts : \E kind \in PartKind, n \in Nat : p = Item(kind, n)
  /\ \A kind \in PartKind, n \in Nat : ItemIs(parts, Item(kind, n), kind, ItemState(s, kind, n))

ItemStates == {"none", "added", "done"}

TypedItems(s) ==
  /\ s.msgItem \in ItemStates /\ s.reasoning \in ItemStates
  /\ s.added \in SUBSET Nat /\ IsFiniteSet(s.added) /\ s.done \subseteq s.added

Status(s) == IF s.completedSent THEN "ended" ELSE IF s.started THEN "open" ELSE "waiting"

Shown(order, v, s, w) ==
  /\ Tells("responses", order, v, s, w) /\ TypedItems(s)
  /\ w.ends = IF s.completedSent THEN 1 ELSE 0
  /\ order = "kept" =>
       /\ Straight(w) /\ Items(s, w.parts) /\ w.status = Status(s)
       /\ s.completedSent => s.started /\ AllClosed(w)

Shows(order, v, s) == \E w : Shown(order, v, s, w)

Running(s) == s.started /\ ~s.completedSent

LEMMA ItemInjective ==
  ASSUME NEW k, NEW l, NEW m, NEW n, Item(k, m) = Item(l, n)
  PROVE  k = l /\ m = n
BY DEF Item

LEMMA ItemStateTyped ==
  ASSUME NEW s, TypedItems(s), NEW kind, NEW n
  PROVE  ItemState(s, kind, n) \in ItemStates
BY DEF TypedItems, ItemState, ItemStates

\* A fitting event told to a Responses client.
LEMMA ToldResponses ==
  ASSUME NEW order, NEW v, NEW s, NEW w, Tells("responses", order, v, s, w),
         order = "kept" => Straight(w),
         NEW ev \in Ev, order = "kept" => FitsResponses(w, ev),
         NEW t, IsState(t), t.out = Append(s.out, ev), NEW u, u = Seen("responses", w, ev)
  PROVE  /\ Tells("responses", order, v, t, u)
         /\ order = "kept" => Straight(u)
         /\ u.status = IF ev.type = "start" THEN "open" ELSE IF ev.type = "end" THEN "ended" ELSE w.status
         /\ u.ends = IF ev.type = "end" THEN w.ends + 1 ELSE w.ends
<1>1. Fits("responses", order, w, ev)
  BY DEF Fits
<1>2. Tells("responses", order, v, t, u)
  BY <1>1, EventTold
<1>3. ASSUME order = "kept" PROVE Straight(u)
  <2>1. InPlace("responses", w, ev) /\ Straight(w)
    BY <1>3 DEF FitsResponses
  <2> QED BY <2>1, SeenStray
<1>4. /\ u.status = IF ev.type = "start" THEN "open" ELSE IF ev.type = "end" THEN "ended" ELSE w.status
      /\ u.ends = IF ev.type = "end" THEN w.ends + 1 ELSE w.ends
  BY DEF Seen
<1> QED BY <1>2, <1>3, <1>4

\* Only the item of the event changes.
LEMMA ItemsChange ==
  ASSUME NEW s, NEW t, NEW old, NEW new, Items(s, old), TypedParts(new),
         NEW kind \in PartKind, NEW n \in Nat, NEW q, q = Item(kind, n),
         DOMAIN new = DOMAIN old \cup {q}, \A p \in DOMAIN old : p # q => new[p] = old[p],
         \A k \in PartKind, m \in Nat : ~(k = kind /\ m = n) => ItemState(t, k, m) = ItemState(s, k, m),
         ItemIs(new, q, kind, ItemState(t, kind, n))
  PROVE  Items(t, new)
<1>1. \A p \in DOMAIN new : \E k \in PartKind, m \in Nat : p = Item(k, m)
  BY DEF Items
<1>2. ASSUME NEW k \in PartKind, NEW m \in Nat PROVE ItemIs(new, Item(k, m), k, ItemState(t, k, m))
  <2>1. CASE k = kind /\ m = n
    BY <2>1
  <2>2. CASE ~(k = kind /\ m = n)
    <3> DEFINE p == Item(k, m)
               st == ItemState(s, k, m)
    <3>1. p # q
      BY <2>2, ItemInjective
    <3>2. st = ItemState(t, k, m) /\ ItemIs(old, p, k, st)
      BY <2>2 DEF Items
    <3> HIDE DEF p, st
    <3>3. ItemIs(new, p, k, st)
      BY <3>1, <3>2 DEF ItemIs
    <3> QED BY <3>2, <3>3 DEF p
  <2> QED BY <2>1, <2>2
<1> QED BY <1>1, <1>2 DEF Items

ItemGoes(s, t, type, kind, n) ==
  /\ \A k \in PartKind, m \in Nat : ~(k = kind /\ m = n) => ItemState(t, k, m) = ItemState(s, k, m)
  /\ ItemState(s, kind, n) = IF type = "open" THEN "none" ELSE "added"
  /\ ItemState(t, kind, n) = IF type = "close" THEN "done" ELSE "added"

LEMMA ItemTold ==
  ASSUME NEW order, NEW v, NEW s, NEW w, Shown(order, v, s, w),
         NEW kind \in PartKind, NEW n \in Nat, NEW type \in {"open", "args", "close"},
         NEW t, IsState(t), TypedItems(t), t.out = Append(s.out, [type |-> type, kind |-> kind, n |-> n]),
         t.started = s.started, t.completedSent = s.completedSent,
         order = "kept" => Running(s) /\ ItemGoes(s, t, type, kind, n)
  PROVE  Shows(order, v, t)
<1> DEFINE ev == [type |-> type, kind |-> kind, n |-> n]
           u == Seen("responses", w, ev)
           q == Item(kind, n)
<1>1. ev \in Ev /\ ev.type = type /\ ev.kind = kind /\ ev.n = n
  BY DEF Ev, EventType, PartKind
<1>2. t.out = Append(s.out, ev) /\ u = Seen("responses", w, ev) /\ q = Part("responses", ev)
  BY DEF Item, Part
<1> HIDE DEF ev, u
<1>3. Tells("responses", order, v, s, w) /\ (order = "kept" => Straight(w))
  BY DEF Shown
<1>4. ASSUME order = "kept"
      PROVE  /\ FitsResponses(w, ev) /\ Items(s, w.parts) /\ w.status = "open"
             /\ ItemIs(w.parts, q, kind, ItemState(s, kind, n)) /\ ItemGoes(s, t, type, kind, n)
  <2>1. Items(s, w.parts) /\ w.status = "open" /\ ItemGoes(s, t, type, kind, n)
    BY <1>4 DEF Shown, Status, Running
  <2>2. ItemIs(w.parts, q, kind, ItemState(s, kind, n))
    BY <2>1 DEF Items
  <2>3. InPlace("responses", w, ev)
    <3>1. CASE type = "open"
      <4>1. q \notin DOMAIN w.parts
        BY <2>1, <2>2, <3>1 DEF ItemGoes, ItemIs
      <4> QED BY <1>1, <1>2, <2>1, <3>1, <4>1 DEF InPlace
    <3>2. CASE type # "open"
      <4>1. q \in DOMAIN w.parts /\ w.parts[q].state # "closed"
        BY <2>1, <2>2, <3>2 DEF ItemGoes, ItemIs
      <4> QED BY <1>1, <1>2, <2>1, <3>2, <4>1 DEF InPlace, Hits
    <3> QED BY <3>1, <3>2
  <2> QED BY <1>1, <2>1, <2>2, <2>3 DEF FitsResponses
<1>5. /\ Tells("responses", order, v, t, u)
      /\ order = "kept" => Straight(u)
      /\ u.status = IF ev.type = "start" THEN "open" ELSE IF ev.type = "end" THEN "ended" ELSE w.status
      /\ u.ends = IF ev.type = "end" THEN w.ends + 1 ELSE w.ends
  BY <1>1, <1>2, <1>3, <1>4, ToldResponses
<1>6. u.status = w.status /\ u.ends = w.ends
  BY <1>1, <1>5
<1>7. ASSUME order = "kept" PROVE Items(t, u.parts)
  <2>1. TypedParts(w.parts) /\ Items(s, w.parts)
    BY <1>4, <1>7 DEF Items
  <2>2. CASE type = "open"
    <3>1. q \notin DOMAIN w.parts
      BY <1>4, <1>7, <2>2 DEF ItemGoes, ItemIs
    <3>2. /\ TypedParts(u.parts) /\ DOMAIN u.parts = DOMAIN w.parts \cup {q}
          /\ u.parts[q] = [kind |-> ev.kind, state |-> "open"]
          /\ \A p \in DOMAIN w.parts : u.parts[p] = w.parts[p]
      <4> HIDE DEF q
      <4>1. ev.type = "open" /\ ev.kind \in PartKind
        BY <1>1, <2>2
      <4> QED BY <1>2, <2>1, <3>1, <4>1, SeenOpen
    <3>3. ItemIs(u.parts, q, kind, ItemState(t, kind, n))
      <4>1. ItemState(t, kind, n) = "added"
        BY <1>4, <1>7, <2>2 DEF ItemGoes
      <4> QED BY <1>1, <3>2, <4>1 DEF ItemIs
    <3>4. \A k \in PartKind, m \in Nat : ~(k = kind /\ m = n) => ItemState(t, k, m) = ItemState(s, k, m)
      BY <1>4, <1>7 DEF ItemGoes
    <3> QED BY <2>1, <3>2, <3>3, <3>4, ItemsChange
  <2>3. CASE type # "open"
    <3>1. q \in DOMAIN w.parts /\ w.parts[q].kind = kind
      BY <1>4, <1>7, <2>3 DEF ItemGoes, ItemIs
    <3> DEFINE st == StateAfter(type)
    <3>2. /\ TypedParts(u.parts) /\ DOMAIN u.parts = DOMAIN w.parts
          /\ u.parts[q] = [kind |-> w.parts[q].kind, state |-> st]
          /\ \A p \in DOMAIN w.parts : p # q => u.parts[p] = w.parts[p]
      <4>1. ev.type \in {"args", "close"} /\ st = StateAfter(ev.type)
        BY <1>1, <2>3
      <4> HIDE DEF q, st
      <4>2. TypedParts(u.parts) /\ Marked(w.parts, u.parts, q, StateAfter(ev.type))
        BY <1>2, <2>1, <3>1, <4>1, SeenMark
      <4> QED BY <4>1, <4>2 DEF Marked
    <3>3. ItemIs(u.parts, q, kind, ItemState(t, kind, n))
      <4>1. ItemState(t, kind, n) = IF type = "close" THEN "done" ELSE "added"
        BY <1>4, <1>7 DEF ItemGoes
      <4>2. u.parts[q].kind = kind /\ u.parts[q].state = st /\ q \in DOMAIN u.parts
        BY <3>1, <3>2
      <4> QED BY <2>3, <4>1, <4>2 DEF ItemIs, StateAfter
    <3>4. \A k \in PartKind, m \in Nat : ~(k = kind /\ m = n) => ItemState(t, k, m) = ItemState(s, k, m)
      BY <1>4, <1>7 DEF ItemGoes
    <3>5. DOMAIN u.parts = DOMAIN w.parts \cup {q}
      BY <3>1, <3>2
    <3> QED BY <2>1, <3>2, <3>3, <3>4, <3>5, ItemsChange
  <2> QED BY <2>2, <2>3
<1>8. ASSUME order = "kept"
      PROVE  u.status = Status(t) /\ ~t.completedSent
  BY <1>6, <1>8 DEF Shown, Status, Running
<1>9. u.ends = IF t.completedSent THEN 1 ELSE 0
  BY <1>6 DEF Shown
<1>10. Shown(order, v, t, u)
  BY <1>5, <1>7, <1>8, <1>9 DEF Shown
<1> QED BY <1>10 DEF Shows

\* A piece of an item that is there changes no part.
LEMMA DeltaTold ==
  ASSUME NEW order, NEW v, NEW s, NEW w, Shown(order, v, s, w),
         NEW kind \in PartKind, NEW n \in Nat,
         NEW t, t = Emit(s, "delta", kind, n),
         order = "kept" => Running(s) /\ ItemState(s, kind, n) = "added"
  PROVE  Alters(s, t, {"out"}) /\ Shows(order, v, t)
<1> DEFINE ev == [type |-> "delta", kind |-> kind, n |-> n]
           u == Seen("responses", w, ev)
           q == Item(kind, n)
<1>1. ev \in Ev /\ ev.type = "delta" /\ ev.kind = kind /\ ev.n = n
  BY DEF Ev, EventType, PartKind
<1>2. IsState(s) /\ Tells("responses", order, v, s, w) /\ (order = "kept" => Straight(w))
  BY DEF Shown, Tells
<1>3. Alters(s, t, {"out"}) /\ t.out = Append(s.out, ev)
  BY <1>2, EmitAlters
<1>4. u = Seen("responses", w, ev) /\ q = Part("responses", ev)
  BY <1>1 DEF Item, Part
<1> HIDE DEF ev, u
<1>5. ASSUME order = "kept" PROVE FitsResponses(w, ev) /\ Items(s, w.parts) /\ w.status = "open"
  <2>1. Items(s, w.parts) /\ w.status = "open"
    BY <1>5 DEF Shown, Status, Running
  <2>2. ItemIs(w.parts, q, kind, ItemState(s, kind, n))
    BY <2>1 DEF Items
  <2>3. q \in DOMAIN w.parts /\ w.parts[q].state # "closed"
    BY <1>5, <2>2 DEF ItemIs
  <2> QED BY <1>1, <1>4, <2>1, <2>3 DEF FitsResponses, InPlace, Hits
<1>6. IsState(t)
  BY <1>3 DEF Alters
<1>7. /\ Tells("responses", order, v, t, u)
      /\ order = "kept" => Straight(u)
      /\ u.status = IF ev.type = "start" THEN "open" ELSE IF ev.type = "end" THEN "ended" ELSE w.status
      /\ u.ends = IF ev.type = "end" THEN w.ends + 1 ELSE w.ends
  BY <1>1, <1>2, <1>3, <1>4, <1>5, <1>6, ToldResponses
<1>8. u.status = w.status /\ u.ends = w.ends
  BY <1>1, <1>7
<1>9. u.parts = w.parts
  BY <1>1, <1>4, SeenRest
<1>10. /\ t.msgItem = s.msgItem /\ t.reasoning = s.reasoning /\ t.added = s.added /\ t.done = s.done
       /\ t.started = s.started /\ t.completedSent = s.completedSent
  BY <1>3 DEF Alters, Fields
<1>11. TypedItems(t) /\ u.ends = IF t.completedSent THEN 1 ELSE 0
  BY <1>8, <1>10 DEF Shown, TypedItems
<1>12. ASSUME order = "kept"
       PROVE  Items(t, u.parts) /\ u.status = Status(t) /\ ~t.completedSent
  <2>1. Items(t, u.parts)
    BY <1>5, <1>9, <1>10, <1>12 DEF Items, ItemState
  <2> QED BY <1>5, <1>8, <1>10, <1>12, <2>1 DEF Status, Running
<1>13. Shown(order, v, t, u)
  BY <1>7, <1>11, <1>12 DEF Shown
<1> QED BY <1>3, <1>13 DEF Shows

LEMMA ShowsState ==
  ASSUME NEW order, NEW v, NEW s, Shows(order, v, s)
  PROVE  IsState(s) /\ TypedItems(s)
BY DEF Shows, Shown, Tells

\* Fields that no item depends on may change.
LEMMA ShowsAlike ==
  ASSUME NEW order, NEW v, NEW s, Shows(order, v, s), NEW t, IsState(t), t.out = s.out,
         t.msgItem = s.msgItem, t.reasoning = s.reasoning, t.added = s.added, t.done = s.done,
         t.started = s.started, t.completedSent = s.completedSent
  PROVE  Shows(order, v, t)
<1>1. PICK w : Shown(order, v, s, w)
  BY DEF Shows
<1>2. Tells("responses", order, v, t, w)
  BY <1>1 DEF Shown, Tells
<1>3. TypedItems(t) /\ w.ends = IF t.completedSent THEN 1 ELSE 0
  BY <1>1 DEF Shown, TypedItems
<1>4. ASSUME order = "kept"
      PROVE  /\ Straight(w) /\ Items(t, w.parts) /\ w.status = Status(t)
             /\ t.completedSent => t.started /\ AllClosed(w)
  <2>1. /\ Straight(w) /\ Items(s, w.parts) /\ w.status = Status(s)
        /\ s.completedSent => s.started /\ AllClosed(w)
    BY <1>1, <1>4 DEF Shown
  <2>2. Items(t, w.parts)
    BY <2>1 DEF Items, ItemState
  <2> QED BY <2>1, <2>2 DEF Status
<1>5. Shown(order, v, t, w)
  BY <1>2, <1>3, <1>4 DEF Shown
<1> QED BY <1>5 DEF Shows

LEMMA ShowsWeaker ==
  ASSUME NEW order, NEW v, NEW s, Shows(order, v, s), NEW less, less = "kept" => order = "kept"
  PROVE  Shows(less, v, s)
<1>1. PICK w : Shown(order, v, s, w)
  BY DEF Shows
<1>2. Tells("responses", less, v, s, w)
  BY <1>1, ReadsWeaker DEF Shown, Tells
<1>3. Shown(less, v, s, w)
  BY <1>1, <1>2 DEF Shown
<1> QED BY <1>3 DEF Shows

-----------------------------------------------------------------------------
(* The steps of openaiToOpenAIResponsesResponse.                              *)
LEMMA CreatedKeeps ==
  ASSUME NEW order, NEW v, NEW s, Shows(order, v, s), NEW t, t = Created(s)
  PROVE  Alters(s, t, {"out", "started"}) /\ Shows(order, v, t) /\ t.started
<1>1. IsState(s) /\ TypedItems(s)
  BY ShowsState
<1>2. CASE s.started
  <2>1. t = s
    BY <1>2 DEF Created
  <2> QED BY <1>1, <1>2, <2>1, AltersNothing
<1>3. CASE ~s.started
  <2> DEFINE r == [s EXCEPT !.started = TRUE]
             ev == [type |-> "start", kind |-> "none", n |-> 0]
  <2>1. t = Emit(r, "start", "none", 0)
    BY <1>3 DEF Created
  <2>2. Alters(s, r, {"started"}) /\ r.started /\ IsState(r) /\ r.out = s.out
    BY <1>1 DEF Alters, IsState, Fields
  <2> HIDE DEF r
  <2>3. Alters(r, t, {"out"}) /\ t.out = Append(s.out, ev)
    BY <2>1, <2>2, EmitAlters
  <2>4. PICK w : Shown(order, v, s, w)
    BY DEF Shows
  <2> DEFINE u == Seen("responses", w, ev)
  <2>5. ev \in Ev /\ ev.type = "start" /\ u = Seen("responses", w, ev)
    BY DEF Ev, EventType, PartKind
  <2> HIDE DEF ev, u
  <2>6. ASSUME order = "kept" PROVE FitsResponses(w, ev) /\ w.status = "waiting"
    <3>1. w.status = "waiting"
      BY <1>3, <2>4, <2>6 DEF Shown, Status
    <3> QED BY <2>5, <3>1 DEF FitsResponses, InPlace
  <2>7. Tells("responses", order, v, s, w) /\ (order = "kept" => Straight(w)) /\ IsState(t)
    BY <2>3, <2>4 DEF Shown, Alters
  <2>8. /\ Tells("responses", order, v, t, u)
        /\ order = "kept" => Straight(u)
        /\ u.status = IF ev.type = "start" THEN "open" ELSE IF ev.type = "end" THEN "ended" ELSE w.status
        /\ u.ends = IF ev.type = "end" THEN w.ends + 1 ELSE w.ends
    BY <2>3, <2>5, <2>6, <2>7, ToldResponses
  <2>9. u.status = "open" /\ u.ends = w.ends /\ u.parts = w.parts
    BY <2>5, <2>8, SeenRest
  <2>10. /\ t.msgItem = s.msgItem /\ t.reasoning = s.reasoning /\ t.added = s.added /\ t.done = s.done
         /\ t.completedSent = s.completedSent
    BY <2>2, <2>3 DEF Alters, Fields
  <2>11. t.started
    <3>1. t.started = r.started
      BY <2>3 DEF Alters, Fields
    <3> QED BY <2>2, <3>1
  <2>12. TypedItems(t) /\ u.ends = IF t.completedSent THEN 1 ELSE 0
    BY <1>1, <2>4, <2>9, <2>10 DEF Shown, TypedItems
  <2>13. ASSUME order = "kept"
         PROVE  Items(t, u.parts) /\ u.status = Status(t) /\ ~t.completedSent
    <3>1. ~s.completedSent /\ Items(s, w.parts)
      BY <1>3, <2>4, <2>13 DEF Shown
    <3>2. Items(t, u.parts)
      BY <2>9, <2>10, <3>1 DEF Items, ItemState
    <3> QED BY <2>9, <2>10, <2>11, <3>1, <3>2 DEF Status
  <2>14. Shown(order, v, t, u)
    BY <2>8, <2>12, <2>13 DEF Shown
  <2>15. Alters(s, t, {"out", "started"})
    BY <2>2, <2>3 DEF Alters
  <2> QED BY <2>11, <2>14, <2>15 DEF Shows
<1> QED BY <1>2, <1>3

LEMMA StartReasoningKeeps ==
  ASSUME NEW order, NEW v, NEW s, Shows(order, v, s), order = "kept" => Running(s),
         NEW t, t = StartReasoning(s)
  PROVE  /\ Alters(s, t, {"out", "reasoning"}) /\ Shows(order, v, t)
         /\ t.reasoning = IF s.reasoning = "none" THEN "added" ELSE s.reasoning
<1>1. IsState(s) /\ TypedItems(s)
  BY ShowsState
<1>2. CASE s.reasoning # "none"
  <2>1. t = s
    BY <1>2 DEF StartReasoning
  <2> QED BY <1>1, <1>2, <2>1, AltersNothing
<1>3. CASE s.reasoning = "none"
  <2> DEFINE r == [s EXCEPT !.reasoning = "added"]
             kind == "think"
             type == "open"
  <2>1. t = Emit(r, "open", "think", 0)
    BY <1>3 DEF StartReasoning
  <2>2. Alters(s, r, {"reasoning"}) /\ r.reasoning = "added" /\ IsState(r) /\ r.out = s.out
    BY <1>1 DEF Alters, IsState, Fields
  <2> HIDE DEF r
  <2>3. Alters(r, t, {"out"}) /\ t.out = Append(s.out, [type |-> type, kind |-> kind, n |-> 0])
    BY <2>1, <2>2, EmitAlters
  <2>4. /\ t.reasoning = "added" /\ IsState(t) /\ t.started = s.started /\ t.completedSent = s.completedSent
        /\ t.msgItem = s.msgItem /\ t.added = s.added /\ t.done = s.done
    BY <2>2, <2>3 DEF Alters, Fields
  <2>5. TypedItems(t)
    BY <1>1, <2>4 DEF TypedItems, ItemStates
  <2>6. ItemGoes(s, t, type, kind, 0)
    BY <1>3, <2>4 DEF ItemGoes, ItemState, PartKind
  <2>7. kind \in PartKind /\ type \in {"open", "args", "close"} /\ 0 \in Nat
    BY DEF PartKind
  <2>8. PICK w : Shown(order, v, s, w)
    BY DEF Shows
  <2> HIDE DEF kind, type
  <2>9. Shows(order, v, t)
    BY <2>3, <2>4, <2>5, <2>6, <2>7, <2>8, ItemTold
  <2>10. Alters(s, t, {"out", "reasoning"})
    BY <2>2, <2>3 DEF Alters
  <2> QED BY <1>3, <2>4, <2>9, <2>10
<1> QED BY <1>2, <1>3

LEMMA CloseReasoningKeeps ==
  ASSUME NEW order, NEW v, NEW s, Shows(order, v, s),
         order = "kept" => Running(s) \/ s.reasoning # "added",
         NEW t, t = CloseReasoning(s)
  PROVE  /\ Alters(s, t, {"out", "reasoning"}) /\ Shows(order, v, t)
         /\ t.reasoning = IF s.reasoning = "added" THEN "done" ELSE s.reasoning
<1>1. IsState(s) /\ TypedItems(s)
  BY ShowsState
<1>2. CASE s.reasoning # "added"
  <2>1. t = s
    BY <1>2 DEF CloseReasoning
  <2> QED BY <1>1, <1>2, <2>1, AltersNothing
<1>3. CASE s.reasoning = "added"
  <2> DEFINE r == [s EXCEPT !.reasoning = "done"]
             kind == "think"
             type == "close"
  <2>1. t = Emit(r, "close", "think", 0)
    BY <1>3 DEF CloseReasoning
  <2>2. Alters(s, r, {"reasoning"}) /\ r.reasoning = "done" /\ IsState(r) /\ r.out = s.out
    BY <1>1 DEF Alters, IsState, Fields
  <2> HIDE DEF r
  <2>3. Alters(r, t, {"out"}) /\ t.out = Append(s.out, [type |-> type, kind |-> kind, n |-> 0])
    BY <2>1, <2>2, EmitAlters
  <2>4. /\ t.reasoning = "done" /\ IsState(t) /\ t.started = s.started /\ t.completedSent = s.completedSent
        /\ t.msgItem = s.msgItem /\ t.added = s.added /\ t.done = s.done
    BY <2>2, <2>3 DEF Alters, Fields
  <2>5. TypedItems(t)
    BY <1>1, <2>4 DEF TypedItems, ItemStates
  <2>6. ItemGoes(s, t, type, kind, 0)
    BY <1>3, <2>4 DEF ItemGoes, ItemState, PartKind
  <2>7. kind \in PartKind /\ type \in {"open", "args", "close"} /\ 0 \in Nat
    BY DEF PartKind
  <2>8. PICK w : Shown(order, v, s, w)
    BY DEF Shows
  <2> HIDE DEF kind, type
  <2>9. Shows(order, v, t)
    BY <1>3, <2>3, <2>4, <2>5, <2>6, <2>7, <2>8, ItemTold
  <2>10. Alters(s, t, {"out", "reasoning"})
    BY <2>2, <2>3 DEF Alters
  <2> QED BY <1>3, <2>4, <2>9, <2>10
<1> QED BY <1>2, <1>3

LEMMA CloseMessageKeeps ==
  ASSUME NEW order, NEW v, NEW s, Shows(order, v, s),
         order = "kept" => Running(s) \/ s.msgItem # "added",
         NEW t, t = CloseMessage(s)
  PROVE  /\ Alters(s, t, {"out", "msgItem"}) /\ Shows(order, v, t)
         /\ t.msgItem = IF s.msgItem = "added" THEN "done" ELSE s.msgItem
<1>1. IsState(s) /\ TypedItems(s)
  BY ShowsState
<1>2. CASE s.msgItem # "added"
  <2>1. t = s
    BY <1>2 DEF CloseMessage
  <2> QED BY <1>1, <1>2, <2>1, AltersNothing
<1>3. CASE s.msgItem = "added"
  <2> DEFINE r == [s EXCEPT !.msgItem = "done"]
             kind == "text"
             type == "close"
  <2>1. t = Emit(r, "close", "text", 0)
    BY <1>3 DEF CloseMessage
  <2>2. Alters(s, r, {"msgItem"}) /\ r.msgItem = "done" /\ IsState(r) /\ r.out = s.out
    BY <1>1 DEF Alters, IsState, Fields
  <2> HIDE DEF r
  <2>3. Alters(r, t, {"out"}) /\ t.out = Append(s.out, [type |-> type, kind |-> kind, n |-> 0])
    BY <2>1, <2>2, EmitAlters
  <2>4. /\ t.msgItem = "done" /\ IsState(t) /\ t.started = s.started /\ t.completedSent = s.completedSent
        /\ t.reasoning = s.reasoning /\ t.added = s.added /\ t.done = s.done
    BY <2>2, <2>3 DEF Alters, Fields
  <2>5. TypedItems(t)
    BY <1>1, <2>4 DEF TypedItems, ItemStates
  <2>6. ItemGoes(s, t, type, kind, 0)
    BY <1>3, <2>4 DEF ItemGoes, ItemState, PartKind
  <2>7. kind \in PartKind /\ type \in {"open", "args", "close"} /\ 0 \in Nat
    BY DEF PartKind
  <2>8. PICK w : Shown(order, v, s, w)
    BY DEF Shows
  <2> HIDE DEF kind, type
  <2>9. Shows(order, v, t)
    BY <1>3, <2>3, <2>4, <2>5, <2>6, <2>7, <2>8, ItemTold
  <2>10. Alters(s, t, {"out", "msgItem"})
    BY <2>2, <2>3 DEF Alters
  <2> QED BY <1>3, <2>4, <2>9, <2>10
<1> QED BY <1>2, <1>3

LEMMA ReasoningDeltaKeeps ==
  ASSUME NEW order, NEW v, NEW s, Shows(order, v, s),
         order = "kept" => Running(s) /\ s.reasoning = "added",
         NEW t, t = ReasoningDelta(s)
  PROVE  Alters(s, t, {"out"}) /\ Shows(order, v, t)
<1> DEFINE kind == "think"
<1>1. PICK w : Shown(order, v, s, w)
  BY DEF Shows
<1>2. kind \in PartKind /\ 0 \in Nat /\ t = Emit(s, "delta", kind, 0)
  BY DEF PartKind, ReasoningDelta
<1>3. ItemState(s, kind, 0) = s.reasoning
  BY DEF ItemState
<1> HIDE DEF kind
<1> QED BY <1>1, <1>2, <1>3, DeltaTold

LEMMA EmitTextContentKeeps ==
  ASSUME NEW order, NEW v, NEW s, Shows(order, v, s),
         order = "kept" => Running(s) /\ s.msgItem # "done",
         NEW t, t = EmitTextContent(s)
  PROVE  /\ Alters(s, t, {"out", "msgItem"}) /\ Shows(order, v, t)
         /\ t.msgItem = IF s.msgItem = "none" THEN "added" ELSE s.msgItem
<1> DEFINE a == IF s.msgItem # "none" THEN s
                ELSE Emit([s EXCEPT !.msgItem = "added"], "open", "text", 0)
<1>1. IsState(s) /\ TypedItems(s)
  BY ShowsState
<1>2. t = Emit(a, "delta", "text", 0)
  BY DEF EmitTextContent
<1>3. /\ Alters(s, a, {"out", "msgItem"}) /\ Shows(order, v, a)
      /\ a.msgItem = IF s.msgItem = "none" THEN "added" ELSE s.msgItem
  <2>1. CASE s.msgItem # "none"
    BY <1>1, <2>1, AltersNothing
  <2>2. CASE s.msgItem = "none"
    <3> DEFINE r == [s EXCEPT !.msgItem = "added"]
               kind == "text"
               type == "open"
    <3>1. a = Emit(r, "open", "text", 0)
      BY <2>2
    <3>2. Alters(s, r, {"msgItem"}) /\ r.msgItem = "added" /\ IsState(r) /\ r.out = s.out
      BY <1>1 DEF Alters, IsState, Fields
    <3> HIDE DEF r, a
    <3>3. Alters(r, a, {"out"}) /\ a.out = Append(s.out, [type |-> type, kind |-> kind, n |-> 0])
      BY <3>1, <3>2, EmitAlters
    <3>4. /\ a.msgItem = "added" /\ IsState(a) /\ a.started = s.started /\ a.completedSent = s.completedSent
          /\ a.reasoning = s.reasoning /\ a.added = s.added /\ a.done = s.done
      BY <3>2, <3>3 DEF Alters, Fields
    <3>5. TypedItems(a)
      BY <1>1, <3>4 DEF TypedItems, ItemStates
    <3>6. ItemGoes(s, a, type, kind, 0)
      BY <2>2, <3>4 DEF ItemGoes, ItemState, PartKind
    <3>7. kind \in PartKind /\ type \in {"open", "args", "close"} /\ 0 \in Nat
      BY DEF PartKind
    <3>8. PICK w : Shown(order, v, s, w)
      BY DEF Shows
    <3> HIDE DEF kind, type
    <3>9. Shows(order, v, a)
      BY <3>3, <3>4, <3>5, <3>6, <3>7, <3>8, ItemTold
    <3>10. Alters(s, a, {"out", "msgItem"})
      BY <3>2, <3>3 DEF Alters
    <3> QED BY <2>2, <3>4, <3>9, <3>10
  <2> QED BY <2>1, <2>2
<1> HIDE DEF a
<1> DEFINE kind == "text"
<1>4. kind \in PartKind /\ 0 \in Nat /\ t = Emit(a, "delta", kind, 0)
  BY <1>2 DEF PartKind
<1>5. ItemState(a, kind, 0) = a.msgItem
  BY DEF ItemState
<1>6. ASSUME order = "kept" PROVE Running(a) /\ a.msgItem = "added"
  <2>1. a.started = s.started /\ a.completedSent = s.completedSent
    BY <1>3 DEF Alters, Fields
  <2> QED BY <1>1, <1>3, <1>6, <2>1 DEF Running, TypedItems, ItemStates
<1> HIDE DEF kind
<1>7. PICK w : Shown(order, v, a, w)
  BY <1>3 DEF Shows
<1>8. Alters(a, t, {"out"}) /\ Shows(order, v, t)
  BY <1>4, <1>5, <1>6, <1>7, DeltaTold
<1>9. Alters(s, t, {"out", "msgItem"}) /\ t.msgItem = a.msgItem
  BY <1>3, <1>8 DEF Alters, Fields
<1> QED BY <1>3, <1>8, <1>9

\* The items are done: the response may be completed.
AllDone(s) ==
  /\ s.msgItem # "added" /\ s.reasoning # "added" /\ s.done = s.added

LEMMA SendCompletedKeeps ==
  ASSUME NEW order, NEW v, NEW s, Shows(order, v, s),
         order = "kept" => s.started /\ AllDone(s),
         NEW t, t = SendCompleted(s)
  PROVE  Alters(s, t, {"out", "completedSent"}) /\ Shows(order, v, t) /\ t.completedSent
<1>1. IsState(s) /\ TypedItems(s)
  BY ShowsState
<1>2. CASE s.completedSent
  <2>1. t = s
    BY <1>2 DEF SendCompleted
  <2> QED BY <1>1, <1>2, <2>1, AltersNothing
<1>3. CASE ~s.completedSent
  <2> DEFINE r == [s EXCEPT !.completedSent = TRUE]
             ev == [type |-> "end", kind |-> "none", n |-> 0]
  <2>1. t = Emit(r, "end", "none", 0)
    BY <1>3 DEF SendCompleted
  <2>2. Alters(s, r, {"completedSent"}) /\ r.completedSent /\ IsState(r) /\ r.out = s.out
    BY <1>1 DEF Alters, IsState, Fields
  <2> HIDE DEF r
  <2>3. Alters(r, t, {"out"}) /\ t.out = Append(s.out, ev)
    BY <2>1, <2>2, EmitAlters
  <2>4. PICK w : Shown(order, v, s, w)
    BY DEF Shows
  <2> DEFINE u == Seen("responses", w, ev)
  <2>5. ev \in Ev /\ ev.type = "end" /\ u = Seen("responses", w, ev)
    BY DEF Ev, EventType, PartKind
  <2> HIDE DEF ev, u
  <2>6. ASSUME order = "kept" PROVE FitsResponses(w, ev) /\ AllClosed(w) /\ Items(s, w.parts)
    <3>1. w.status = "open" /\ Items(s, w.parts)
      BY <1>3, <2>4, <2>6 DEF Shown, Status
    <3>2. ASSUME NEW p \in DOMAIN w.parts PROVE w.parts[p].state = "closed"
      <4>1. PICK kind \in PartKind, n \in Nat : p = Item(kind, n)
        BY <3>1 DEF Items
      <4>2. ItemIs(w.parts, p, kind, ItemState(s, kind, n))
        BY <3>1, <4>1 DEF Items
      <4>3. ItemState(s, kind, n) # "added"
        BY <2>6 DEF AllDone, ItemState
      <4>4. ItemState(s, kind, n) \in ItemStates
        BY <1>1, ItemStateTyped
      <4> QED BY <4>2, <4>3, <4>4 DEF ItemIs, ItemStates
    <3> QED BY <2>5, <3>1, <3>2 DEF FitsResponses, InPlace, AllClosed
  <2>7. Tells("responses", order, v, s, w) /\ (order = "kept" => Straight(w)) /\ IsState(t)
    BY <2>3, <2>4 DEF Shown, Alters
  <2>8. /\ Tells("responses", order, v, t, u)
        /\ order = "kept" => Straight(u)
        /\ u.status = IF ev.type = "start" THEN "open" ELSE IF ev.type = "end" THEN "ended" ELSE w.status
        /\ u.ends = IF ev.type = "end" THEN w.ends + 1 ELSE w.ends
    BY <2>3, <2>5, <2>6, <2>7, ToldResponses
  <2>9. u.status = "ended" /\ u.ends = 1 /\ u.parts = w.parts
    <3>1. w.ends = 0
      BY <1>3, <2>4 DEF Shown
    <3> QED BY <2>5, <2>8, <3>1, SeenRest
  <2>10. /\ t.msgItem = s.msgItem /\ t.reasoning = s.reasoning /\ t.added = s.added /\ t.done = s.done
         /\ t.started = s.started
    BY <2>2, <2>3 DEF Alters, Fields
  <2>11. t.completedSent
    <3>1. t.completedSent = r.completedSent
      BY <2>3 DEF Alters, Fields
    <3> QED BY <2>2, <3>1
  <2>12. TypedItems(t) /\ u.ends = IF t.completedSent THEN 1 ELSE 0
    BY <1>1, <2>9, <2>10, <2>11 DEF TypedItems
  <2>13. ASSUME order = "kept"
         PROVE  Items(t, u.parts) /\ u.status = Status(t) /\ t.started /\ AllClosed(u)
    <3>1. Items(t, u.parts)
      BY <2>6, <2>9, <2>10, <2>13 DEF Items, ItemState
    <3> QED BY <2>6, <2>9, <2>10, <2>11, <2>13, <3>1 DEF Status, AllClosed
  <2>14. Shown(order, v, t, u)
    BY <2>8, <2>12, <2>13 DEF Shown
  <2>15. Alters(s, t, {"out", "completedSent"})
    BY <2>2, <2>3 DEF Alters
  <2> QED BY <2>11, <2>14, <2>15 DEF Shows
<1> QED BY <1>2, <1>3

\* A completed response has nothing left to close.
LEMMA CompletedDone ==
  ASSUME NEW order, order = "kept", NEW v, NEW s, Shows(order, v, s), s.completedSent
  PROVE  s.started /\ AllDone(s)
<1>1. PICK w : Shown(order, v, s, w)
  BY DEF Shows
<1>2. TypedItems(s) /\ Items(s, w.parts) /\ AllClosed(w) /\ s.started
  BY <1>1 DEF Shown
<1>3. \A kind \in PartKind, n \in Nat : ItemState(s, kind, n) # "added"
  <2> TAKE kind \in PartKind, n \in Nat
  <2>1. ItemIs(w.parts, Item(kind, n), kind, ItemState(s, kind, n))
    BY <1>2 DEF Items
  <2> HIDE DEF ItemState
  <2> QED BY <1>2, <2>1 DEF ItemIs, AllClosed
<1>4. s.msgItem # "added" /\ s.reasoning # "added"
  <2>1. "text" \in PartKind /\ "think" \in PartKind
    BY DEF PartKind
  <2>2. ItemState(s, "text", 0) = s.msgItem /\ ItemState(s, "think", 0) = s.reasoning
    BY DEF ItemState
  <2> QED BY <1>3, <2>1, <2>2
<1>5. ASSUME NEW n \in s.added PROVE n \in s.done
  <2>1. n \in Nat /\ "call" \in PartKind
    BY <1>2 DEF TypedItems, PartKind
  <2>2. ItemState(s, "call", n) # "added"
    BY <1>3, <2>1
  <2> QED BY <2>2 DEF ItemState
<1>6. s.done = s.added
  BY <1>2, <1>5 DEF TypedItems
<1> QED BY <1>2, <1>4, <1>6 DEF AllDone

AddedBy(call, s) == IF call.id THEN s.added \cup {call.index} ELSE s.added

LEMMA EmitToolCallKeeps ==
  ASSUME NEW order, NEW v, NEW s, Shows(order, v, s), NEW call \in Piece,
         order = "kept" => Running(s) /\ s.done = {},
         NEW t, t = EmitToolCall(s, call)
  PROVE  /\ Alters(s, t, {"out", "added"}) /\ Shows(order, v, t)
         /\ t.added = AddedBy(call, s)
<1> DEFINE i == call.index
           a == IF i \in s.added \/ ~call.id THEN s
                ELSE Emit([s EXCEPT !.added = @ \cup {i}], "open", "call", i)
           kind == "call"
<1>1. IsState(s) /\ TypedItems(s) /\ i \in Nat
  BY ShowsState DEF Piece
<1>2. t = IF call.args /\ i \in a.added THEN Emit(a, "args", "call", i) ELSE a
  BY DEF EmitToolCall
<1>3. kind \in PartKind
  BY DEF PartKind
<1>4. /\ Alters(s, a, {"out", "added"}) /\ Shows(order, v, a)
      /\ a.added = IF call.id THEN s.added \cup {i} ELSE s.added
  <2>1. CASE i \in s.added \/ ~call.id
    <3>1. a = s /\ (call.id => s.added \cup {i} = s.added)
      BY <2>1
    <3> QED BY <1>1, <3>1, AltersNothing
  <2>2. CASE ~(i \in s.added \/ ~call.id)
    <3> DEFINE r == [s EXCEPT !.added = @ \cup {i}]
               type == "open"
    <3>1. a = Emit(r, "open", "call", i)
      BY <2>2
    <3>2. Alters(s, r, {"added"}) /\ r.added = s.added \cup {i} /\ IsState(r) /\ r.out = s.out
      BY <1>1 DEF Alters, IsState, Fields
    <3> HIDE DEF r, a
    <3>3. Alters(r, a, {"out"}) /\ a.out = Append(s.out, [type |-> type, kind |-> kind, n |-> i])
      BY <3>1, <3>2, EmitAlters
    <3>4. /\ a.added = s.added \cup {i} /\ IsState(a) /\ a.started = s.started /\ a.completedSent = s.completedSent
          /\ a.reasoning = s.reasoning /\ a.msgItem = s.msgItem /\ a.done = s.done
      BY <3>2, <3>3 DEF Alters, Fields
    <3>5. TypedItems(a)
      <4>1. IsFiniteSet(s.added \cup {i})
        BY <1>1, FS_AddElement DEF TypedItems
      <4> QED BY <1>1, <3>4, <4>1 DEF TypedItems
    <3>6. order = "kept" => Running(s) /\ ItemGoes(s, a, type, kind, i)
      BY <1>1, <2>2, <3>4 DEF ItemGoes, ItemState, TypedItems
    <3>7. type \in {"open", "args", "close"}
      OBVIOUS
    <3>8. PICK w : Shown(order, v, s, w)
      BY DEF Shows
    <3> HIDE DEF kind, type, i
    <3>9. Shows(order, v, a)
      BY <1>1, <1>3, <3>3, <3>4, <3>5, <3>6, <3>7, <3>8, ItemTold
    <3>10. Alters(s, a, {"out", "added"})
      BY <3>2, <3>3 DEF Alters
    <3> QED BY <2>2, <3>4, <3>9, <3>10
  <2> QED BY <2>1, <2>2
<1> HIDE DEF a
<1>5. CASE ~(call.args /\ i \in a.added)
  BY <1>2, <1>4, <1>5 DEF AddedBy
<1>6. CASE call.args /\ i \in a.added
  <2> DEFINE type == "args"
  <2>1. t = Emit(a, "args", "call", i)
    BY <1>2, <1>6
  <2>2. IsState(a) /\ a.done = s.done /\ a.started = s.started /\ a.completedSent = s.completedSent
    BY <1>4 DEF Alters, Fields
  <2>3. Alters(a, t, {"out"}) /\ t.out = Append(a.out, [type |-> type, kind |-> kind, n |-> i])
    BY <2>1, <2>2, EmitAlters
  <2>4. /\ t.added = a.added /\ IsState(t) /\ t.started = a.started /\ t.completedSent = a.completedSent
        /\ t.reasoning = a.reasoning /\ t.msgItem = a.msgItem /\ t.done = a.done
    BY <2>3 DEF Alters, Fields
  <2>5. TypedItems(t)
    <3>1. TypedItems(a)
      BY <1>4, ShowsState
    <3> QED BY <2>4, <3>1 DEF TypedItems
  <2>6. order = "kept" => Running(a) /\ ItemGoes(a, t, type, kind, i)
    BY <1>6, <2>2, <2>4 DEF ItemGoes, ItemState, Running
  <2>7. type \in {"open", "args", "close"}
    OBVIOUS
  <2>8. PICK w : Shown(order, v, a, w)
    BY <1>4 DEF Shows
  <2> HIDE DEF kind, type, i
  <2>9. Shows(order, v, t)
    BY <1>1, <1>3, <2>3, <2>4, <2>5, <2>6, <2>7, <2>8, ItemTold
  <2>10. Alters(s, t, {"out", "added"})
    BY <1>4, <2>3 DEF Alters
  <2> QED BY <1>4, <2>4, <2>9, <2>10 DEF i, AddedBy
<1> QED BY <1>5, <1>6

DoneBy(i, s) == IF i \in s.added THEN s.done \cup {i} ELSE s.done

LEMMA CloseToolCallKeeps ==
  ASSUME NEW order, NEW v, NEW s, Shows(order, v, s), NEW i,
         order = "kept" => Running(s) \/ s.done = s.added,
         NEW t, t = CloseToolCall(s, i)
  PROVE  /\ Alters(s, t, {"out", "done"}) /\ Shows(order, v, t)
         /\ t.done = DoneBy(i, s)
<1>1. IsState(s) /\ TypedItems(s)
  BY ShowsState
<1>2. CASE i \notin s.added \/ i \in s.done
  <2>1. t = s
    BY <1>2 DEF CloseToolCall
  <2>2. i \in s.done => s.done \cup {i} = s.done
    OBVIOUS
  <2> QED BY <1>1, <1>2, <2>1, <2>2, AltersNothing DEF DoneBy
<1>3. CASE ~(i \notin s.added \/ i \in s.done)
  <2> DEFINE r == [s EXCEPT !.done = @ \cup {i}]
             kind == "call"
             type == "close"
  <2>1. t = Emit(r, "close", "call", i)
    BY <1>3 DEF CloseToolCall
  <2>2. Alters(s, r, {"done"}) /\ r.done = s.done \cup {i} /\ IsState(r) /\ r.out = s.out
    BY <1>1 DEF Alters, IsState, Fields
  <2> HIDE DEF r
  <2>3. Alters(r, t, {"out"}) /\ t.out = Append(s.out, [type |-> type, kind |-> kind, n |-> i])
    BY <2>1, <2>2, EmitAlters
  <2>4. /\ t.done = s.done \cup {i} /\ IsState(t) /\ t.started = s.started /\ t.completedSent = s.completedSent
        /\ t.reasoning = s.reasoning /\ t.msgItem = s.msgItem /\ t.added = s.added
    BY <2>2, <2>3 DEF Alters, Fields
  <2>5. TypedItems(t) /\ i \in Nat
    BY <1>1, <1>3, <2>4 DEF TypedItems
  <2>6. order = "kept" => Running(s) /\ ItemGoes(s, t, type, kind, i)
    BY <1>1, <1>3, <2>4 DEF ItemGoes, ItemState, TypedItems
  <2>7. kind \in PartKind /\ type \in {"open", "args", "close"}
    BY DEF PartKind
  <2>8. PICK w : Shown(order, v, s, w)
    BY DEF Shows
  <2> HIDE DEF kind, type
  <2>9. Shows(order, v, t)
    BY <2>3, <2>4, <2>5, <2>6, <2>7, <2>8, ItemTold
  <2>10. Alters(s, t, {"out", "done"})
    BY <2>2, <2>3 DEF Alters
  <2> QED BY <1>3, <2>4, <2>9, <2>10 DEF DoneBy
<1> QED BY <1>2, <1>3

EmitCalls == INSTANCE FoldSteps WITH Op <- EmitToolCall
CloseCalls == INSTANCE FoldSteps WITH Op <- CloseToolCall

LEMMA EmitCallsFold ==
  ASSUME NEW T, NEW base, NEW seq \in Seq(T)
  PROVE  FoldLeft(EmitToolCall, base, seq) = EmitCalls!Result(base, seq, Len(seq))
<1>1. Len(seq) \in Nat /\ DOMAIN seq = 1..Len(seq)
  OBVIOUS
<1> QED
  BY <1>1 DEF FoldLeft, MapThenFoldSet, Max, EmitCalls!Result, EmitCalls!FoldOf, EmitCalls!Max

LEMMA CloseCallsFold ==
  ASSUME NEW T, NEW base, NEW seq \in Seq(T)
  PROVE  FoldLeft(CloseToolCall, base, seq) = CloseCalls!Result(base, seq, Len(seq))
<1>1. Len(seq) \in Nat /\ DOMAIN seq = 1..Len(seq)
  OBVIOUS
<1> QED
  BY <1>1 DEF FoldLeft, MapThenFoldSet, Max, CloseCalls!Result, CloseCalls!FoldOf, CloseCalls!Max

LEMMA EmitCallsKeep ==
  ASSUME NEW order, NEW v, NEW s, Shows(order, v, s), NEW calls \in Seq(Piece),
         order = "kept" => Running(s) /\ s.done = {},
         NEW t, t = EmitCalls!Result(s, calls, Len(calls))
  PROVE  /\ Alters(s, t, {"out", "added"}) /\ Shows(order, v, t)
         /\ Len(calls) = 1 => t.added = AddedBy(calls[1], s)
<1> DEFINE n == Len(calls)
<1>1. IsState(s) /\ n \in Nat /\ \A j \in 1..n : calls[j] \in Piece
  BY ShowsState
<1>2. t = EmitCalls!Result(s, calls, n)
  OBVIOUS
<1>3. PICK h : /\ h[0] = s
               /\ \A j \in 1..n : h[j] = EmitToolCall(h[j - 1], calls[j])
               /\ EmitCalls!Result(s, calls, n) = h[n]
  <2> HIDE DEF n
  <2> QED BY <1>1, EmitCalls!Steps
<1>4. t = h[n]
  BY <1>2, <1>3, Zenon
<1> DEFINE P(j) == Alters(s, h[j], {"out", "added"}) /\ Shows(order, v, h[j])
           Not == {j \in 0..n : ~P(j)}
<1>5. P(0)
  BY <1>1, <1>3, AltersNothing
<1>6. ASSUME NEW j \in 1..n, P(j - 1)
      PROVE  /\ P(j)
             /\ h[j].added = AddedBy(calls[j], h[j - 1])
  <2> DEFINE g == h[j - 1]
             call == calls[j]
  <2>1. Alters(s, g, {"out", "added"}) /\ Shows(order, v, g)
    BY <1>6
  <2>2. call \in Piece /\ h[j] = EmitToolCall(g, call)
    BY <1>1, <1>3
  <2>3. g.started = s.started /\ g.completedSent = s.completedSent /\ g.done = s.done
    BY <2>1 DEF Alters, Fields
  <2>4. order = "kept" => Running(g) /\ g.done = {}
    BY <2>3 DEF Running
  <2>5. /\ Alters(g, h[j], {"out", "added"}) /\ Shows(order, v, h[j])
        /\ h[j].added = AddedBy(call, g)
    <3> DEFINE z == h[j]
    <3>1. call \in Piece /\ z = EmitToolCall(g, call) /\ Shows(order, v, g)
      BY <2>1, <2>2
    <3> HIDE DEF g, call, z
    <3>2. /\ Alters(g, z, {"out", "added"}) /\ Shows(order, v, z)
          /\ z.added = AddedBy(call, g)
      BY <2>4, <3>1, EmitToolCallKeeps
    <3> QED BY <3>2 DEF z
  <2>6. Alters(s, h[j], {"out", "added"})
    BY <2>1, <2>5, AltersThen
  <2> QED BY <2>5, <2>6
<1>7. ASSUME NEW j \in 1..n, P(j - 1) PROVE P(j)
  BY <1>6, <1>7
<1>8. n = 1 => h[1].added = AddedBy(calls[1], s)
  <2> SUFFICES ASSUME n = 1 PROVE h[1].added = AddedBy(calls[1], s)
    OBVIOUS
  <2>1. 1 \in 1..n /\ 1 - 1 = 0
    BY <1>1
  <2>2. P(1 - 1)
    BY <1>5, <2>1
  <2>3. h[1].added = AddedBy(calls[1], h[1 - 1])
    BY <1>6, <2>1, <2>2
  <2> QED BY <1>3, <2>1, <2>3
<1> HIDE DEF P
<1>9. Not = {}
  <2> SUFFICES ASSUME Not # {} PROVE FALSE
    OBVIOUS
  <2>1. Not \in SUBSET Nat
    BY <1>1
  <2>2. PICK j \in Not : \A i \in Not : j <= i
    <3> HIDE DEF Not
    <3> QED BY <2>1, EmitCalls!LeastNatural
  <2>3. j \in 1..n /\ j - 1 \in 0..n /\ j - 1 \notin Not
    BY <1>1, <1>5, <2>2
  <2>4. P(j - 1)
    BY <2>3
  <2> QED BY <1>7, <2>2, <2>3, <2>4
<1>10. P(n)
  BY <1>1, <1>9
<1> QED BY <1>4, <1>8, <1>10 DEF P

\* A finite set of numbers has a largest one.
LEMMA LargestNatural ==
  ASSUME NEW S, S \in SUBSET Nat, IsFiniteSet(S), S # {}
  PROVE  Max(S) \in S /\ \A i \in S : Max(S) >= i
<1>1. PICK n \in Nat : ExistsSurjection(1..n, S)
  BY FS_NatSurjection
<1>2. PICK f \in [1..n -> S] : \A i \in S : \E j \in 1..n : f[j] = i
  BY <1>1 DEF ExistsSurjection, Surjection
<1> DEFINE Bounded(j) == \E b \in Nat : \A i \in 1..j : f[i] <= b
           Not == {j \in 0..n : ~Bounded(j)}
<1>a. Bounded(0)
  OBVIOUS
<1>b. ASSUME NEW j \in 1..n, Bounded(j - 1) PROVE Bounded(j)
  <2>1. PICK b \in Nat : \A i \in 1..(j - 1) : f[i] <= b
    BY <1>b
  <2>2. f[j] \in Nat
    OBVIOUS
  <2> DEFINE c == b + f[j]
  <2>3. c \in Nat /\ b <= c /\ f[j] <= c
    BY <2>2
  <2> HIDE DEF c
  <2>4. \A i \in 1..j : f[i] <= c
    <3> TAKE i \in 1..j
    <3>1. CASE i = j
      BY <2>3, <3>1
    <3>2. CASE i # j
      <4>1. i \in 1..(j - 1) /\ i \in 1..n
        BY <3>2
      <4>2. f[i] \in Nat /\ f[i] <= b
        BY <2>1, <4>1
      <4> QED BY <2>3, <4>2
    <3> QED BY <3>1, <3>2
  <2> QED BY <2>3, <2>4
<1> HIDE DEF Bounded
<1>3. Not = {}
  <2> SUFFICES ASSUME Not # {} PROVE FALSE
    OBVIOUS
  <2>1. Not \in SUBSET Nat
    BY <1>1
  <2>2. PICK j \in Not : \A i \in Not : j <= i
    <3> HIDE DEF Not
    <3> QED BY <2>1, EmitCalls!LeastNatural
  <2>3. j \in 1..n /\ j - 1 \in 0..n /\ j - 1 \notin Not
    BY <1>1, <1>a, <2>2
  <2>4. Bounded(j - 1)
    BY <2>3
  <2> QED BY <1>b, <2>2, <2>3, <2>4
<1>c. n \in 0..n /\ Bounded(n)
  BY <1>1, <1>3
<1>4. PICK b0 \in Nat : \A i \in 1..n : f[i] <= b0
  BY <1>c DEF Bounded
<1> DEFINE Above == {b \in Nat : \A i \in S : i <= b}
<1>5. b0 \in Above
  BY <1>2, <1>4
<1>6. PICK m \in Above : \A b \in Above : m <= b
  <2>1. Above \in SUBSET Nat /\ Above # {}
    BY <1>5
  <2> HIDE DEF Above
  <2> QED BY <2>1, EmitCalls!LeastNatural
<1>7. m \in S
  <2> SUFFICES ASSUME m \notin S PROVE FALSE
    OBVIOUS
  <2>1. PICK i0 \in S : TRUE
    OBVIOUS
  <2>2. i0 \in Nat /\ m \in Nat /\ i0 <= m /\ i0 # m
    BY <1>6, <2>1
  <2>3. m - 1 \in Nat
    BY <2>2
  <2>4. \A i \in S : i <= m - 1
    BY <1>6
  <2>5. m - 1 \in Above
    BY <2>3, <2>4
  <2> QED BY <1>6, <2>2, <2>5
<1>8. m \in S /\ \A i \in S : m >= i
  BY <1>6, <1>7
<1> QED BY <1>8 DEF Max

LEMMA UpwardsCovers ==
  ASSUME NEW S, S \in SUBSET Nat, IsFiniteSet(S), NEW seq, seq = Upwards(S)
  PROVE  seq \in Seq(Nat) /\ \A i \in S : \E k \in 1..Len(seq) : seq[k] = i
<1>1. CASE S = {}
  BY <1>1 DEF Upwards
<1>2. CASE S # {}
  <2> DEFINE m == Max(S)
  <2>1. m \in Nat /\ \A i \in S : i <= m
    BY <1>2, LargestNatural
  <2>2. seq = [k \in 1..(m + 1) |-> k - 1]
    BY <1>2 DEF Upwards
  <2> HIDE DEF m
  <2>3. seq \in Seq(Nat) /\ Len(seq) = m + 1
    BY <2>1, <2>2
  <2>4. ASSUME NEW i \in S PROVE i + 1 \in 1..Len(seq) /\ seq[i + 1] = i
    BY <2>1, <2>2, <2>3
  <2> QED BY <2>3, <2>4
<1> QED BY <1>1, <1>2

LEMMA CloseCallsKeep ==
  ASSUME NEW order, NEW v, NEW s, Shows(order, v, s),
         order = "kept" => Running(s) \/ s.done = s.added,
         NEW seq, seq = Upwards(s.added),
         NEW t, t = CloseCalls!Result(s, seq, Len(seq))
  PROVE  Alters(s, t, {"out", "done"}) /\ Shows(order, v, t) /\ t.done = s.added
<1> DEFINE n == Len(seq)
<1>1. IsState(s) /\ TypedItems(s)
  BY ShowsState
<1>2. seq \in Seq(Nat) /\ \A i \in s.added : \E k \in 1..n : seq[k] = i
  BY <1>1, UpwardsCovers DEF TypedItems
<1>3. n \in Nat /\ t = CloseCalls!Result(s, seq, n)
  BY <1>2
<1>4. PICK h : /\ h[0] = s
               /\ \A j \in 1..n : h[j] = CloseToolCall(h[j - 1], seq[j])
               /\ CloseCalls!Result(s, seq, n) = h[n]
  <2> HIDE DEF n
  <2> QED BY <1>3, CloseCalls!Steps
<1>5. t = h[n]
  BY <1>3, <1>4, Zenon
<1> DEFINE P(j) == /\ Alters(s, h[j], {"out", "done"}) /\ Shows(order, v, h[j])
                   /\ s.done \subseteq h[j].done
                   /\ \A i \in 1..j : seq[i] \in s.added => seq[i] \in h[j].done
           Not == {j \in 0..n : ~P(j)}
<1>6. P(0)
  BY <1>1, <1>4, AltersNothing
<1>7. ASSUME NEW j \in 1..n, P(j - 1) PROVE P(j)
  <2> DEFINE g == h[j - 1]
             z == h[j]
             i == seq[j]
  <2>1. /\ Alters(s, g, {"out", "done"}) /\ Shows(order, v, g) /\ s.done \subseteq g.done
        /\ \A k \in 1..(j - 1) : seq[k] \in s.added => seq[k] \in g.done
    BY <1>7
  <2>2. z = CloseToolCall(g, i)
    BY <1>4
  <2> HIDE DEF g, z
  <2>3. g.started = s.started /\ g.completedSent = s.completedSent /\ g.added = s.added
    BY <2>1 DEF Alters, Fields
  <2>4. order = "kept" => Running(g) \/ g.done = g.added
    <3>1. TypedItems(g)
      BY <2>1, ShowsState
    <3>2. g.done \subseteq g.added
      BY <3>1 DEF TypedItems
    <3> QED BY <2>1, <2>3, <3>2 DEF Running
  <2>5. /\ Alters(g, z, {"out", "done"}) /\ Shows(order, v, z)
        /\ z.done = DoneBy(i, g)
    <3> HIDE DEF i
    <3> QED BY <2>1, <2>2, <2>4, CloseToolCallKeeps
  <2>6. Alters(s, z, {"out", "done"})
    BY <2>1, <2>5, AltersThen
  <2>7. s.done \subseteq z.done /\ (i \in s.added => i \in z.done) /\ g.done \subseteq z.done
    BY <2>1, <2>3, <2>5 DEF DoneBy
  <2>8. ASSUME NEW k \in 1..j, seq[k] \in s.added PROVE seq[k] \in z.done
    <3>1. CASE k = j
      BY <2>7, <2>8, <3>1
    <3>2. CASE k # j
      <4>1. k \in 1..(j - 1)
        BY <1>3, <3>2
      <4>2. seq[k] \in g.done
        BY <2>1, <2>8, <4>1
      <4> QED BY <2>7, <4>2
    <3> QED BY <3>1, <3>2
  <2> QED BY <2>5, <2>6, <2>7, <2>8 DEF z
<1> HIDE DEF P
<1>8. Not = {}
  <2> SUFFICES ASSUME Not # {} PROVE FALSE
    OBVIOUS
  <2>1. Not \in SUBSET Nat
    BY <1>3
  <2>2. PICK j \in Not : \A i \in Not : j <= i
    <3> HIDE DEF Not
    <3> QED BY <2>1, CloseCalls!LeastNatural
  <2>3. j \in 1..n /\ j - 1 \in 0..n /\ j - 1 \notin Not
    BY <1>3, <1>6, <2>2
  <2>4. P(j - 1)
    BY <2>3
  <2> QED BY <1>7, <2>2, <2>3, <2>4
<1>9. P(n)
  BY <1>3, <1>8
<1>10. /\ Alters(s, t, {"out", "done"}) /\ Shows(order, v, t)
       /\ \A i \in 1..n : seq[i] \in s.added => seq[i] \in t.done
  BY <1>5, <1>9 DEF P
<1>11. s.added \subseteq t.done
  <2> SUFFICES ASSUME NEW i \in s.added PROVE i \in t.done
    OBVIOUS
  <2>1. PICK k \in 1..n : seq[k] = i
    BY <1>2
  <2> QED BY <1>10, <2>1
<1>12. t.done \subseteq t.added /\ t.added = s.added
  <2>1. TypedItems(t)
    BY <1>10, ShowsState
  <2> QED BY <1>10, <2>1 DEF TypedItems, Alters, Fields
<1>13. t.done = s.added
  BY <1>11, <1>12
<1> QED BY <1>10, <1>13

ClosedFields == {"out", "msgItem", "reasoning", "done", "completedSent"}

LEMMA CloseAllKeeps ==
  ASSUME NEW order, NEW v, NEW s, Shows(order, v, s), order = "kept" => s.started,
         NEW t, t = CloseAll(s)
  PROVE  Alters(s, t, ClosedFields) /\ Shows(order, v, t) /\ t.completedSent
<1> DEFINE a == CloseMessage(s)
           b == CloseReasoning(a)
           seq == Upwards(s.added)
           c == FoldLeft(CloseToolCall, b, seq)
<1>0. order = "kept" => Running(s) \/ AllDone(s)
  BY CompletedDone DEF Running
<1>1. IsState(s) /\ TypedItems(s)
  BY ShowsState
<1>2. /\ Alters(s, a, {"out", "msgItem"}) /\ Shows(order, v, a)
      /\ a.msgItem = IF s.msgItem = "added" THEN "done" ELSE s.msgItem
  BY <1>0, CloseMessageKeeps DEF AllDone
<1> HIDE DEF a
<1>3. a.reasoning = s.reasoning /\ a.started = s.started /\ a.completedSent = s.completedSent
      /\ a.done = s.done /\ a.added = s.added
  BY <1>2 DEF Alters, Fields
<1>4. /\ Alters(a, b, {"out", "reasoning"}) /\ Shows(order, v, b)
      /\ b.reasoning = IF a.reasoning = "added" THEN "done" ELSE a.reasoning
  <2>1. order = "kept" => Running(a) \/ a.reasoning # "added"
    BY <1>0, <1>3 DEF AllDone, Running
  <2> QED BY <1>2, <2>1, CloseReasoningKeeps
<1> HIDE DEF b
<1>5. b.msgItem = a.msgItem /\ b.started = a.started /\ b.completedSent = a.completedSent
      /\ b.done = a.done /\ b.added = a.added
  BY <1>4 DEF Alters, Fields
<1>6. c = CloseCalls!Result(b, seq, Len(seq))
  <2>1. TypedItems(b)
    BY <1>4, ShowsState
  <2>2. seq \in Seq(Nat)
    BY <1>3, <1>5, <2>1, UpwardsCovers DEF TypedItems
  <2> QED BY <2>2, CloseCallsFold
<1>7. t = SendCompleted(c)
  BY DEF CloseAll, c, seq, b, a
<1> HIDE DEF c
<1>8. Alters(b, c, {"out", "done"}) /\ Shows(order, v, c) /\ c.done = b.added
  <2>1. order = "kept" => Running(b) \/ b.done = b.added
    BY <1>0, <1>3, <1>5 DEF AllDone, Running
  <2>2. seq = Upwards(b.added)
    BY <1>3, <1>5
  <2> HIDE DEF seq
  <2> QED BY <1>4, <1>6, <2>1, <2>2, CloseCallsKeep
<1>9. c.msgItem = b.msgItem /\ c.reasoning = b.reasoning /\ c.started = b.started /\ c.added = b.added
  BY <1>8 DEF Alters, Fields
<1>10. order = "kept" => c.started /\ AllDone(c)
  BY <1>2, <1>3, <1>4, <1>5, <1>8, <1>9 DEF AllDone
<1>11. Alters(c, t, {"out", "completedSent"}) /\ Shows(order, v, t) /\ t.completedSent
  BY <1>7, <1>8, <1>10, SendCompletedKeeps
<1>12. Alters(s, t, ClosedFields)
  BY <1>2, <1>4, <1>8, <1>11 DEF Alters, ClosedFields
<1> QED BY <1>11, <1>12

\* The flush at the end of a stream of chunks.
LEMMA FlushKeeps ==
  ASSUME NEW order, NEW v, NEW s, Shows(order, v, s), order = "kept" => s.started,
         NEW t, t = FlushResponses(s)
  PROVE  Alters(s, t, ClosedFields) /\ Shows(order, v, t) /\ t.completedSent
<1>1. CASE s.completedSent
  <2>1. t = s /\ IsState(s)
    BY <1>1, ShowsState DEF FlushResponses
  <2> QED BY <1>1, <2>1, AltersNothing
<1>2. CASE ~s.completedSent
  BY <1>2, CloseAllKeeps DEF FlushResponses
<1> QED BY <1>1, <1>2

-----------------------------------------------------------------------------
(* A chunk for a Responses client.                                            *)
\* What the text w does to the thinking mode and to the reasoning item.
Thinks(w, s, t) ==
  /\ w = "<think>" => t.inThinking
  /\ w = "</think>" => ~t.inThinking
  /\ w \notin {"<think>", "</think>"} => (t.inThinking <=> s.inThinking)

Reasons(w, s, t) ==
  /\ t.reasoning = "done" => s.reasoning = "done" \/ w = "</think>"
  /\ w = "<think>" /\ s.reasoning # "done" => t.reasoning = "added"
  /\ w # "</think>" /\ s.reasoning = "added" => t.reasoning = "added"

SuitsText(w, s) ==
  /\ Running(s)
  /\ w = "text" => IF s.inThinking THEN s.reasoning = "added" ELSE s.msgItem # "done"

TextFields == {"out", "reasoning", "msgItem", "inThinking"}

LEMMA ResponsesTextKeeps ==
  ASSUME NEW order, NEW v, NEW s, Shows(order, v, s), NEW w, w \in {"text", "<think>", "</think>"},
         order = "kept" => SuitsText(w, s),
         NEW t, t = ResponsesText(s, w)
  PROVE  /\ Alters(s, t, TextFields) /\ Shows(order, v, t) /\ Thinks(w, s, t) /\ Reasons(w, s, t)
         /\ t.msgItem = "done" => s.msgItem = "done"
<1>1. IsState(s) /\ TypedItems(s)
  BY ShowsState
<1>2. CASE w = "<think>"
  <2> DEFINE a == [s EXCEPT !.inThinking = TRUE]
  <2>1. t = StartReasoning(a)
    BY <1>2 DEF ResponsesText
  <2>2. /\ Alters(s, a, {"inThinking"}) /\ IsState(a) /\ a.inThinking /\ a.out = s.out
        /\ a.msgItem = s.msgItem /\ a.reasoning = s.reasoning /\ a.added = s.added /\ a.done = s.done
        /\ a.started = s.started /\ a.completedSent = s.completedSent
    BY <1>1 DEF Alters, IsState, Fields
  <2> HIDE DEF a
  <2>3. Shows(order, v, a) /\ (order = "kept" => Running(a))
    BY <2>2, ShowsAlike DEF SuitsText, Running
  <2>4. /\ Alters(a, t, {"out", "reasoning"}) /\ Shows(order, v, t)
        /\ t.reasoning = IF a.reasoning = "none" THEN "added" ELSE a.reasoning
    BY <2>1, <2>3, StartReasoningKeeps
  <2>5. t.inThinking /\ t.msgItem = s.msgItem
    <3>1. t.inThinking = a.inThinking /\ t.msgItem = a.msgItem
      BY <2>4 DEF Alters, Fields
    <3> QED BY <2>2, <3>1
  <2>6. Alters(s, t, TextFields)
    BY <2>2, <2>4 DEF Alters, TextFields
  <2>7. Thinks(w, s, t) /\ Reasons(w, s, t)
    BY <1>1, <1>2, <2>2, <2>4, <2>5 DEF Thinks, Reasons, TypedItems, ItemStates
  <2> QED BY <2>4, <2>5, <2>6, <2>7
<1>3. CASE w = "</think>"
  <2> DEFINE a == [s EXCEPT !.inThinking = FALSE]
  <2>1. t = CloseReasoning(a)
    BY <1>3 DEF ResponsesText
  <2>2. /\ Alters(s, a, {"inThinking"}) /\ IsState(a) /\ ~a.inThinking /\ a.out = s.out
        /\ a.msgItem = s.msgItem /\ a.reasoning = s.reasoning /\ a.added = s.added /\ a.done = s.done
        /\ a.started = s.started /\ a.completedSent = s.completedSent
    BY <1>1 DEF Alters, IsState, Fields
  <2> HIDE DEF a
  <2>3. Shows(order, v, a) /\ (order = "kept" => Running(a))
    BY <2>2, ShowsAlike DEF SuitsText, Running
  <2>4. /\ Alters(a, t, {"out", "reasoning"}) /\ Shows(order, v, t)
        /\ t.reasoning = IF a.reasoning = "added" THEN "done" ELSE a.reasoning
    BY <2>1, <2>3, CloseReasoningKeeps
  <2>5. ~t.inThinking /\ t.msgItem = s.msgItem
    <3>1. t.inThinking = a.inThinking /\ t.msgItem = a.msgItem
      BY <2>4 DEF Alters, Fields
    <3> QED BY <2>2, <3>1
  <2>6. Alters(s, t, TextFields)
    BY <2>2, <2>4 DEF Alters, TextFields
  <2>7. Thinks(w, s, t) /\ Reasons(w, s, t)
    BY <1>3, <2>5 DEF Thinks, Reasons
  <2> QED BY <2>4, <2>5, <2>6, <2>7
<1>4. CASE w = "text" /\ s.inThinking
  <2>1. t = ReasoningDelta(s)
    BY <1>4 DEF ResponsesText
  <2>2. order = "kept" => Running(s) /\ s.reasoning = "added"
    BY <1>4 DEF SuitsText
  <2>3. Alters(s, t, {"out"}) /\ Shows(order, v, t)
    BY <2>1, <2>2, ReasoningDeltaKeeps
  <2>4. t.inThinking = s.inThinking /\ t.msgItem = s.msgItem /\ t.reasoning = s.reasoning
    BY <2>3 DEF Alters, Fields
  <2>5. Thinks(w, s, t) /\ Reasons(w, s, t)
    BY <1>4, <2>4 DEF Thinks, Reasons
  <2>6. Alters(s, t, TextFields)
    BY <2>3 DEF Alters, TextFields
  <2> QED BY <2>3, <2>4, <2>5, <2>6
<1>5. CASE w = "text" /\ ~s.inThinking
  <2>1. t = EmitTextContent(s)
    BY <1>5 DEF ResponsesText
  <2>2. order = "kept" => Running(s) /\ s.msgItem # "done"
    BY <1>5 DEF SuitsText
  <2>3. /\ Alters(s, t, {"out", "msgItem"}) /\ Shows(order, v, t)
        /\ t.msgItem = IF s.msgItem = "none" THEN "added" ELSE s.msgItem
    BY <2>1, <2>2, EmitTextContentKeeps
  <2>4. t.inThinking = s.inThinking /\ t.reasoning = s.reasoning
    BY <2>3 DEF Alters, Fields
  <2>5. Thinks(w, s, t) /\ Reasons(w, s, t)
    BY <1>5, <2>4 DEF Thinks, Reasons
  <2>6. Alters(s, t, TextFields)
    BY <2>3 DEF Alters, TextFields
  <2> QED BY <2>3, <2>5, <2>6
<1> QED BY <1>2, <1>3, <1>4, <1>5

LEMMA ResponsesThoughtKeeps ==
  ASSUME NEW order, NEW v, NEW s, Shows(order, v, s),
         order = "kept" => Running(s) /\ s.reasoning # "done",
         NEW t, t = ResponsesThought(s)
  PROVE  /\ Alters(s, t, {"out", "reasoning"}) /\ Shows(order, v, t)
         /\ t.reasoning = IF s.reasoning = "none" THEN "added" ELSE s.reasoning
<1> DEFINE a == StartReasoning(s)
<1>1. /\ Alters(s, a, {"out", "reasoning"}) /\ Shows(order, v, a)
      /\ a.reasoning = IF s.reasoning = "none" THEN "added" ELSE s.reasoning
  BY StartReasoningKeeps
<1>2. t = ReasoningDelta(a)
  BY DEF ResponsesThought
<1> HIDE DEF a
<1>3. order = "kept" => Running(a) /\ a.reasoning = "added"
  <2>1. a.started = s.started /\ a.completedSent = s.completedSent
    BY <1>1 DEF Alters, Fields
  <2>2. TypedItems(s)
    BY ShowsState
  <2> QED BY <1>1, <2>1, <2>2 DEF Running, TypedItems, ItemStates
<1>4. Alters(a, t, {"out"}) /\ Shows(order, v, t)
  BY <1>1, <1>2, <1>3, ReasoningDeltaKeeps
<1>5. t.reasoning = a.reasoning /\ Alters(s, t, {"out", "reasoning"})
  BY <1>1, <1>4 DEF Alters, Fields
<1> QED BY <1>1, <1>4, <1>5

AddedByAll(calls, s, t) ==
  /\ Len(calls) = 0 => t.added = s.added
  /\ Len(calls) = 1 => t.added = AddedBy(calls[1], s)

LEMMA ResponsesCallsKeep ==
  ASSUME NEW order, NEW v, NEW s, Shows(order, v, s), NEW calls \in Seq(Piece),
         order = "kept" => calls = <<>> \/ (Running(s) /\ s.done = {}),
         NEW t, t = ResponsesCalls(s, calls)
  PROVE  /\ Alters(s, t, {"out", "msgItem", "added"}) /\ Shows(order, v, t)
         /\ t.msgItem = "done" => s.msgItem = "done" \/ calls # <<>>
         /\ AddedByAll(calls, s, t)
<1>1. CASE calls = <<>>
  <2>1. t = s /\ IsState(s)
    BY <1>1, ShowsState DEF ResponsesCalls
  <2>2. AddedByAll(calls, s, t)
    BY <1>1, <2>1 DEF AddedByAll
  <2> QED BY <2>1, <2>2, AltersNothing
<1>2. CASE calls # <<>>
  <2> DEFINE a == CloseMessage(s)
  <2>1. t = FoldLeft(EmitToolCall, a, calls)
    BY <1>2 DEF ResponsesCalls
  <2>2. t = EmitCalls!Result(a, calls, Len(calls))
    BY <2>1, EmitCallsFold
  <2>3. /\ Alters(s, a, {"out", "msgItem"}) /\ Shows(order, v, a)
        /\ a.msgItem = IF s.msgItem = "added" THEN "done" ELSE s.msgItem
    BY <1>2, CloseMessageKeeps
  <2> HIDE DEF a
  <2>4. a.started = s.started /\ a.completedSent = s.completedSent /\ a.done = s.done /\ a.added = s.added
    BY <2>3 DEF Alters, Fields
  <2>5. order = "kept" => Running(a) /\ a.done = {}
    BY <1>2, <2>4 DEF Running
  <2>6. /\ Alters(a, t, {"out", "added"}) /\ Shows(order, v, t)
        /\ Len(calls) = 1 => t.added = AddedBy(calls[1], a)
    BY <2>2, <2>3, <2>5, EmitCallsKeep
  <2>7. AddedByAll(calls, s, t)
    <3>1. Len(calls) # 0
      BY <1>2
    <3> QED BY <2>4, <2>6, <3>1 DEF AddedByAll, AddedBy
  <2>8. Alters(s, t, {"out", "msgItem", "added"})
    BY <2>3, <2>6 DEF Alters
  <2> QED BY <1>2, <2>6, <2>7, <2>8
<1> QED BY <1>1, <1>2

\* The rest of a chunk is not looked at.
Early(chunk, s) == chunk.text = "text" /\ s.inThinking

Suits(chunk, s) ==
  IF s.completedSent THEN ~chunk.think /\ chunk.text = "none" /\ chunk.calls = <<>>
  ELSE /\ s.done = {}
       /\ chunk.think => s.reasoning # "done"
       /\ chunk.text = "text" => IF s.inThinking THEN s.reasoning = "added" ELSE s.msgItem # "done"

ResponsesFields == TextFields \cup ClosedFields \cup {"started", "added"}

Moved(chunk, s, t) ==
  /\ t.started
  /\ t.completedSent <=> s.completedSent \/ (chunk.finish /\ ~Early(chunk, s))
  /\ Thinks(chunk.text, s, t)
  /\ IF Early(chunk, s) THEN t.added = s.added ELSE AddedByAll(chunk.calls, s, t)

MovedItems(chunk, s, t) ==
  /\ t.done = {}
  /\ t.msgItem = "done" => s.msgItem = "done" \/ chunk.calls # <<>>
  /\ Reasons(chunk.text, s, t)

LEMMA ResponsesChunkKeeps ==
  ASSUME NEW order, NEW v, NEW s, Shows(order, v, s), NEW chunk \in Chunk,
         order = "kept" => Suits(chunk, s),
         NEW t, t = OpenAiToResponses(chunk, s)
  PROVE  /\ Alters(s, t, ResponsesFields) /\ Shows(order, v, t) /\ Moved(chunk, s, t)
         /\ order = "kept" /\ ~t.completedSent => MovedItems(chunk, s, t)
<1> DEFINE a == Created(s)
           b == IF chunk.think THEN ResponsesThought(a) ELSE a
           c == IF chunk.text # "none" THEN ResponsesText(b, chunk.text) ELSE b
           d == ResponsesCalls(c, chunk.calls)
<1>0. chunk.calls \in Seq(Piece) /\ chunk.text \in {"none", "text", "<think>", "</think>"}
  BY DEF Chunk
<1>1. t = IF Early(chunk, s) THEN c ELSE IF chunk.finish THEN CloseAll(d) ELSE d
  BY DEF OpenAiToResponses, Early
<1>2. Alters(s, a, {"out", "started"}) /\ Shows(order, v, a) /\ a.started
  BY CreatedKeeps
<1> HIDE DEF a
<1>3. /\ a.completedSent = s.completedSent /\ a.msgItem = s.msgItem /\ a.reasoning = s.reasoning
      /\ a.inThinking = s.inThinking /\ a.added = s.added /\ a.done = s.done
  BY <1>2 DEF Alters, Fields
<1>4. IsState(a) /\ TypedItems(a)
  BY <1>2, ShowsState
<1>5. /\ Alters(a, b, {"out", "reasoning"}) /\ Shows(order, v, b)
      /\ b.reasoning = IF chunk.think /\ a.reasoning = "none" THEN "added" ELSE a.reasoning
  <2>1. CASE chunk.think
    <3>1. order = "kept" => Running(a) /\ a.reasoning # "done"
      BY <1>2, <1>3, <2>1 DEF Suits, Running
    <3> QED BY <1>2, <2>1, <3>1, ResponsesThoughtKeeps
  <2>2. CASE ~chunk.think
    BY <1>2, <1>4, <2>2, AltersNothing
  <2> QED BY <2>1, <2>2
<1> HIDE DEF b
<1>6. /\ b.completedSent = a.completedSent /\ b.msgItem = a.msgItem /\ b.started = a.started
      /\ b.inThinking = a.inThinking /\ b.added = a.added /\ b.done = a.done
  BY <1>5 DEF Alters, Fields
<1>7. IsState(b) /\ TypedItems(b)
  BY <1>5, ShowsState
<1>8. /\ Alters(b, c, TextFields) /\ Shows(order, v, c)
      /\ Thinks(chunk.text, b, c) /\ Reasons(chunk.text, b, c)
      /\ c.msgItem = "done" => b.msgItem = "done"
  <2>1. CASE chunk.text # "none"
    <3> DEFINE w == chunk.text
    <3>1. order = "kept" => SuitsText(w, b)
      BY <1>2, <1>3, <1>5, <1>6, <2>1 DEF Suits, SuitsText, Running
    <3>2. w \in {"text", "<think>", "</think>"} /\ c = ResponsesText(b, w)
      BY <1>0, <2>1
    <3> HIDE DEF w, c
    <3>3. /\ Alters(b, c, TextFields) /\ Shows(order, v, c) /\ Thinks(w, b, c) /\ Reasons(w, b, c)
          /\ c.msgItem = "done" => b.msgItem = "done"
      BY <1>5, <3>1, <3>2, ResponsesTextKeeps
    <3> QED BY <3>3 DEF w
  <2>2. CASE chunk.text = "none"
    <3>1. c = b
      BY <2>2
    <3>2. Thinks(chunk.text, b, c) /\ Reasons(chunk.text, b, c)
      BY <2>2, <3>1 DEF Thinks, Reasons
    <3> QED BY <1>5, <1>7, <3>1, <3>2, AltersNothing
  <2> QED BY <2>1, <2>2
<1> HIDE DEF c
<1>9. c.completedSent = s.completedSent /\ c.started /\ c.added = s.added /\ c.done = s.done
  BY <1>2, <1>3, <1>6, <1>8 DEF Alters, Fields, TextFields
<1>10. Thinks(chunk.text, s, c)
  BY <1>3, <1>6, <1>8 DEF Thinks
<1>11. /\ order = "kept" /\ ~s.completedSent => Reasons(chunk.text, s, c)
       /\ c.msgItem = "done" => s.msgItem = "done"
  <2>1. TypedItems(c)
    BY <1>8, ShowsState
  <2>2. order = "kept" /\ ~s.completedSent => (chunk.think => s.reasoning # "done")
    BY DEF Suits
  <2>3. b.reasoning = IF chunk.think /\ s.reasoning = "none" THEN "added" ELSE s.reasoning
    BY <1>3, <1>5
  <2> QED BY <1>3, <1>6, <1>8, <2>2, <2>3 DEF Reasons
<1>12. Alters(s, c, ResponsesFields)
  BY <1>2, <1>5, <1>8 DEF Alters, TextFields, ClosedFields, ResponsesFields
<1>13. order = "kept" /\ ~s.completedSent => s.done = {}
  BY DEF Suits
<1>14. CASE Early(chunk, s)
  <2>1. t = c
    BY <1>1, <1>14
  <2>2. Moved(chunk, s, t)
    BY <1>9, <1>10, <1>14, <2>1 DEF Moved
  <2>3. order = "kept" /\ ~t.completedSent => MovedItems(chunk, s, t)
    BY <1>9, <1>11, <1>13, <2>1 DEF MovedItems
  <2> QED BY <1>8, <1>12, <2>1, <2>2, <2>3
<1>15. CASE ~Early(chunk, s)
  <2>1. /\ Alters(c, d, {"out", "msgItem", "added"}) /\ Shows(order, v, d)
        /\ d.msgItem = "done" => c.msgItem = "done" \/ chunk.calls # <<>>
        /\ AddedByAll(chunk.calls, c, d)
    <3>1. order = "kept" => chunk.calls = <<>> \/ (Running(c) /\ c.done = {})
      BY <1>9, <1>13 DEF Suits, Running
    <3> QED BY <1>0, <1>8, <3>1, ResponsesCallsKeep
  <2> HIDE DEF d
  <2>2. /\ d.completedSent = s.completedSent /\ d.started /\ d.done = s.done
        /\ d.reasoning = c.reasoning /\ d.inThinking = c.inThinking
    BY <1>9, <2>1 DEF Alters, Fields
  <2>3. AddedByAll(chunk.calls, s, d)
    BY <1>9, <2>1 DEF AddedByAll, AddedBy
  <2>4. Alters(s, d, ResponsesFields)
    BY <1>12, <2>1 DEF Alters, TextFields, ClosedFields, ResponsesFields
  <2>5. CASE ~chunk.finish
    <3>1. t = d
      BY <1>1, <1>15, <2>5
    <3>2. Moved(chunk, s, t)
      BY <1>10, <1>15, <2>2, <2>3, <2>5, <3>1 DEF Moved, Thinks
    <3>3. order = "kept" /\ ~t.completedSent => MovedItems(chunk, s, t)
      BY <1>11, <1>13, <2>1, <2>2, <3>1 DEF MovedItems, Reasons
    <3> QED BY <2>1, <2>4, <3>1, <3>2, <3>3
  <2>6. CASE chunk.finish
    <3>1. t = CloseAll(d)
      BY <1>1, <1>15, <2>6
    <3>2. Alters(d, t, ClosedFields) /\ Shows(order, v, t) /\ t.completedSent
      BY <2>1, <2>2, <3>1, CloseAllKeeps
    <3>3. t.started = d.started /\ t.inThinking = d.inThinking /\ t.added = d.added
      BY <3>2 DEF Alters, Fields, ClosedFields
    <3>4. Moved(chunk, s, t)
      BY <1>10, <1>15, <2>2, <2>3, <2>6, <3>2, <3>3 DEF Moved, Thinks, AddedByAll
    <3>5. Alters(s, t, ResponsesFields)
      BY <2>4, <3>2 DEF Alters, TextFields, ClosedFields, ResponsesFields
    <3> QED BY <3>2, <3>4, <3>5
  <2> QED BY <2>5, <2>6
<1> QED BY <1>14, <1>15

-----------------------------------------------------------------------------
(* A chunk for an OpenAI client.                                              *)
Passes(order, v, s, e) ==
  \E w : Tells("openai", order, v, s, w) /\ w.ends = e

LEMMA PassChunkKeeps ==
  ASSUME NEW order, NEW v, NEW s, NEW e, Passes(order, v, s, e), NEW chunk \in Chunk,
         NEW t, t = PassChunk(chunk, s)
  PROVE  Alters(s, t, {"out"}) /\ Passes(order, v, t, IF chunk.finish THEN e + 1 ELSE e)
<1>1. PICK w : Tells("openai", order, v, s, w) /\ w.ends = e
  BY DEF Passes
<1>2. IsState(s)
  BY <1>1 DEF Tells
<1>3. CASE ~chunk.finish
  <2>1. t = s
    BY <1>3 DEF PassChunk
  <2> QED BY <1>2, <1>3, <2>1, AltersNothing
<1>4. CASE chunk.finish
  <2> DEFINE ev == [type |-> "end", kind |-> "none", n |-> 0]
             u == Seen("openai", w, ev)
  <2>1. ev \in Ev /\ ev.type = "end" /\ u = Seen("openai", w, ev)
    BY DEF Ev, EventType, PartKind
  <2>2. Alters(s, t, {"out"}) /\ t.out = Append(s.out, ev)
    BY <1>2, <1>4, EmitAlters DEF PassChunk
  <2> HIDE DEF ev, u
  <2>3. Fits("openai", order, w, ev) /\ IsState(t)
    BY <2>2 DEF Fits, Alters
  <2>4. Tells("openai", order, v, t, u)
    BY <1>1, <2>1, <2>2, <2>3, EventTold
  <2>5. u.ends = e + 1
    BY <1>1, <2>1 DEF Seen
  <2> QED BY <1>4, <2>2, <2>4, <2>5 DEF Passes
<1> QED BY <1>3, <1>4

-----------------------------------------------------------------------------
(* All chunks of an event go through the second translator.                   *)
Onward(s, chunk) == FromOpenAi(client, chunk, s)

Onwards == INSTANCE FoldSteps WITH Op <- Onward

LEMMA TranslateFold ==
  ASSUME NEW T, NEW base, NEW seq \in Seq(T)
  PROVE  Translate(Yield(seq, base)) = Onwards!Result(base, seq, Len(seq))
<1>1. Len(seq) \in Nat /\ DOMAIN seq = 1..Len(seq)
  OBVIOUS
<1> QED
  BY <1>1 DEF Translate, Yield, Onward, FoldLeft, MapThenFoldSet, Max, Onwards!Result, Onwards!FoldOf, Onwards!Max

LEMMA TranslateNothing ==
  ASSUME NEW base
  PROVE  Translate(Yield(<<>>, base)) = base
<1>1. <<>> \in Seq(Chunk) /\ Len(<<>>) = 0
  OBVIOUS
<1>2. Onwards!Result(base, <<>>, 0) = base
  BY Onwards!NoStep
<1> QED BY <1>1, <1>2, TranslateFold

LEMMA TranslateMore ==
  ASSUME NEW base, NEW seq \in Seq(Chunk), NEW chunk \in Chunk
  PROVE  Translate(Yield(Append(seq, chunk), base)) = FromOpenAi(client, chunk, Translate(Yield(seq, base)))
<1> DEFINE n == Len(seq)
           more == Append(seq, chunk)
<1>1. n \in Nat /\ more \in Seq(Chunk) /\ Len(more) = n + 1 /\ more[n + 1] = chunk /\ \A k \in 1..n : more[k] = seq[k]
  OBVIOUS
<1>2. Translate(Yield(more, base)) = Onwards!Result(base, more, n + 1)
  BY <1>1, TranslateFold
<1>3. Translate(Yield(seq, base)) = Onwards!Result(base, seq, n)
  BY TranslateFold
<1> HIDE DEF n, more
<1>4. Onwards!Result(base, more, n + 1) = Onward(Onwards!Result(base, seq, n), more[n + 1])
  BY <1>1, Onwards!OneMore
<1> QED BY <1>1, <1>2, <1>3, <1>4 DEF Onward, more

-----------------------------------------------------------------------------
(* What has been said.                                                        *)
SaidFields ==
  {"events", "text", "think", "calls", "block", "number", "stage", "cut", "left", "resumed",
   "marked", "buried"}

IsSaid(t) == t = [f \in SaidFields |-> t[f]]

Changes(t, u, fs) == IsSaid(u) /\ \A f \in SaidFields \ fs : u[f] = t[f]

Words == {"text", "think", "calls", "resumed", "marked", "left"}

\* What a part p adds to t.
Adds(p, t, u) ==
  /\ u.text = IF p \in {"text", "<think>", "</think>"} THEN t.text + 1 ELSE t.text
  /\ u.think = IF p = "think" THEN t.think + 1 ELSE t.think
  /\ u.calls = IF p = "call" THEN t.calls + 1 ELSE t.calls
  /\ u.resumed <=> t.resumed \/ p \in t.left
  /\ u.marked <=> p = "<think>" \/ (t.marked /\ p # "</think>")
  /\ u.left = t.left \cup Leaves(p)

LEMMA SetSaid ==
  ASSUME NEW t, IsSaid(t), NEW f \in SaidFields, NEW x, NEW u, u = [t EXCEPT ![f] = x]
  PROVE  Changes(t, u, {f}) /\ u[f] = x
BY DEF IsSaid, Changes

LEMMA SayPartAdds ==
  ASSUME NEW t, IsSaid(t), NEW p, NEW u, u = SayPart(t, p)
  PROVE  Changes(t, u, Words) /\ Adds(p, t, u)
<1> DEFINE text == IF p \in {"text", "<think>", "</think>"} THEN t.text + 1 ELSE t.text
           think == IF p = "think" THEN t.think + 1 ELSE t.think
           calls == IF p = "call" THEN t.calls + 1 ELSE t.calls
           resumed == t.resumed \/ p \in t.left
           marked == IF p = "<think>" THEN TRUE ELSE IF p = "</think>" THEN FALSE ELSE t.marked
           left == t.left \cup Leaves(p)
           a == [t EXCEPT !.text = text]
           b == [a EXCEPT !.think = think]
           c == [b EXCEPT !.calls = calls]
           d == [c EXCEPT !.resumed = resumed]
           e == [d EXCEPT !.marked = marked]
           z == [e EXCEPT !.left = left]
<1>1. u = z
  BY DEF SayPart, IsSaid, SaidFields
<1>2. /\ text = IF p \in {"text", "<think>", "</think>"} THEN t.text + 1 ELSE t.text
      /\ think = IF p = "think" THEN t.think + 1 ELSE t.think
      /\ calls = IF p = "call" THEN t.calls + 1 ELSE t.calls
      /\ resumed <=> t.resumed \/ p \in t.left
      /\ marked <=> p = "<think>" \/ (t.marked /\ p # "</think>")
      /\ left = t.left \cup Leaves(p)
  OBVIOUS
<1> HIDE DEF text, think, calls, resumed, marked, left
<1>3. Changes(t, a, {"text"}) /\ a.text = text
  BY SetSaid DEF SaidFields
<1> HIDE DEF a
<1>4. Changes(a, b, {"think"}) /\ b.think = think
  BY <1>3, SetSaid DEF SaidFields, Changes
<1> HIDE DEF b
<1>5. Changes(b, c, {"calls"}) /\ c.calls = calls
  BY <1>4, SetSaid DEF SaidFields, Changes
<1> HIDE DEF c
<1>6. Changes(c, d, {"resumed"}) /\ d.resumed = resumed
  BY <1>5, SetSaid DEF SaidFields, Changes
<1> HIDE DEF d
<1>7. Changes(d, e, {"marked"}) /\ e.marked = marked
  BY <1>6, SetSaid DEF SaidFields, Changes
<1> HIDE DEF e
<1>8. Changes(e, z, {"left"}) /\ z.left = left
  BY <1>7, SetSaid DEF SaidFields, Changes
<1> HIDE DEF z
<1>9. Changes(t, u, Words)
  BY <1>1, <1>3, <1>4, <1>5, <1>6, <1>7, <1>8 DEF Changes, Words
<1>10. /\ u.text = text /\ u.think = think /\ u.calls = calls
       /\ u.resumed = resumed /\ u.marked = marked /\ u.left = left
  BY <1>1, <1>3, <1>4, <1>5, <1>6, <1>7, <1>8 DEF Changes, SaidFields
<1> QED BY <1>2, <1>9, <1>10 DEF Adds

SayParts == INSTANCE FoldSteps WITH Op <- SayPart

LEMMA SayPartsFold ==
  ASSUME NEW T, NEW base, NEW seq \in Seq(T)
  PROVE  FoldLeft(SayPart, base, seq) = SayParts!Result(base, seq, Len(seq))
<1>1. Len(seq) \in Nat /\ DOMAIN seq = 1..Len(seq)
  OBVIOUS
<1> QED
  BY <1>1 DEF FoldLeft, MapThenFoldSet, Max, SayParts!Result, SayParts!FoldOf, SayParts!Max

LEMMA SayNothing ==
  ASSUME NEW base
  PROVE  FoldLeft(SayPart, base, <<>>) = base
<1>1. <<>> \in Seq(Nat) /\ Len(<<>>) = 0
  OBVIOUS
<1>2. SayParts!Result(base, <<>>, 0) = base
  BY SayParts!NoStep
<1> QED BY <1>1, <1>2, SayPartsFold

LEMMA SayMore ==
  ASSUME NEW base, NEW T, NEW seq \in Seq(T), NEW p \in T
  PROVE  FoldLeft(SayPart, base, Append(seq, p)) = SayPart(FoldLeft(SayPart, base, seq), p)
<1> DEFINE n == Len(seq)
           more == Append(seq, p)
<1>1. n \in Nat /\ more \in Seq(T) /\ Len(more) = n + 1 /\ more[n + 1] = p /\ \A k \in 1..n : more[k] = seq[k]
  OBVIOUS
<1>2. FoldLeft(SayPart, base, more) = SayParts!Result(base, more, n + 1)
  BY <1>1, SayPartsFold
<1>3. FoldLeft(SayPart, base, seq) = SayParts!Result(base, seq, n)
  BY SayPartsFold
<1> HIDE DEF n, more
<1>4. SayParts!Result(base, more, n + 1) = SayPart(SayParts!Result(base, seq, n), more[n + 1])
  BY <1>1, SayParts!OneMore
<1> QED BY <1>1, <1>2, <1>3, <1>4 DEF more

LEMMA SayOne ==
  ASSUME NEW base, NEW p
  PROVE  FoldLeft(SayPart, base, <<p>>) = SayPart(base, p)
<1> DEFINE T == {p}
<1>1. <<>> \in Seq(T) /\ p \in T /\ Append(<<>>, p) = <<p>>
  OBVIOUS
<1> HIDE DEF T
<1>2. FoldLeft(SayPart, base, Append(<<>>, p)) = SayPart(FoldLeft(SayPart, base, <<>>), p)
  BY <1>1, SayMore
<1> QED BY <1>1, <1>2, SayNothing

LEMMA Pair ==
  ASSUME NEW p, NEW q
  PROVE  Append(<<p>>, q) = <<p, q>>
<1>1. Append(<<p>>, q) = [i \in 1..2 |-> IF i = 2 THEN q ELSE <<p>>[i]]
  BY DEF Append
<1>2. <<p, q>> = [i \in 1..2 |-> IF i = 2 THEN q ELSE <<p>>[i]]
  OBVIOUS
<1> QED BY <1>1, <1>2

\* What an event changes beside its words.
Beside == {"events", "buried", "number", "block", "stage"}

BlockAfter(e, block) ==
  IF OpensBlock(e) THEN IF e.type = "text_start" THEN "text"
                        ELSE IF e.type = "think_start" THEN "think"
                        ELSE IF e.type = "server_start" THEN "server" ELSE "call"
  ELSE IF e.type \in {"stop", "item_done"} THEN "none" ELSE block

StageAfter(e, stage) ==
  IF e.type = "message_delta" THEN "delta"
  ELSE IF e.finish THEN "finished" ELSE IF stage = "new" THEN "body" ELSE stage

Passing(e, m, u) ==
  /\ u.events = m.events + 1
  /\ u.buried <=> m.buried \/ (said.marked /\ e.parts = <<"text", "call">>)
  /\ u.number = IF e.type = "stop" THEN m.number + 1 ELSE m.number
  /\ u.block = BlockAfter(e, m.block)
  /\ u.stage = StageAfter(e, m.stage)

SaidWords(e) ==
  IF said.stage # "finished" THEN FoldLeft(SayPart, said, e.parts)
  ELSE [said EXCEPT !.resumed = @ \/ e.parts # <<>>]

LEMMA SaidPasses ==
  ASSUME NEW e, NEW m, m = SaidWords(e), IsSaid(m), NEW u, u = Said(e)
  PROVE  Changes(m, u, Beside) /\ Passing(e, m, u)
<1> DEFINE events == m.events + 1
           buried == m.buried \/ (said.marked /\ e.parts = <<"text", "call">>)
           number == IF e.type = "stop" THEN m.number + 1 ELSE m.number
           block == CASE OpensBlock(e) -> (CASE e.type = "text_start" -> "text"
                                             [] e.type = "think_start" -> "think"
                                             [] e.type = "server_start" -> "server"
                                             [] OTHER -> "call")
                      [] e.type \in {"stop", "item_done"} -> "none"
                      [] OTHER -> m.block
           stage == IF e.type = "message_delta" THEN "delta"
                    ELSE IF e.finish THEN "finished"
                    ELSE IF m.stage = "new" THEN "body" ELSE m.stage
           a == [m EXCEPT !.events = events]
           b == [a EXCEPT !.buried = buried]
           c == [b EXCEPT !.number = number]
           d == [c EXCEPT !.block = block]
           z == [d EXCEPT !.stage = stage]
<1>1. u = z
  BY DEF Said, SaidWords, IsSaid, SaidFields
<1>2. block = BlockAfter(e, m.block)
  BY DEF BlockAfter, OpensBlock
<1>3. /\ events = m.events + 1 /\ stage = StageAfter(e, m.stage)
      /\ buried <=> m.buried \/ (said.marked /\ e.parts = <<"text", "call">>)
      /\ number = IF e.type = "stop" THEN m.number + 1 ELSE m.number
  BY DEF StageAfter
<1> HIDE DEF events, buried, number, block, stage
<1>4. Changes(m, a, {"events"}) /\ a.events = events
  BY SetSaid DEF SaidFields
<1> HIDE DEF a
<1>5. Changes(a, b, {"buried"}) /\ b.buried = buried
  BY <1>4, SetSaid DEF SaidFields, Changes
<1> HIDE DEF b
<1>6. Changes(b, c, {"number"}) /\ c.number = number
  BY <1>5, SetSaid DEF SaidFields, Changes
<1> HIDE DEF c
<1>7. Changes(c, d, {"block"}) /\ d.block = block
  BY <1>6, SetSaid DEF SaidFields, Changes
<1> HIDE DEF d
<1>8. Changes(d, z, {"stage"}) /\ z.stage = stage
  BY <1>7, SetSaid DEF SaidFields, Changes
<1> HIDE DEF z
<1>9. Changes(m, u, Beside)
  BY <1>1, <1>4, <1>5, <1>6, <1>7, <1>8 DEF Changes, Beside
<1>10. u.events = events /\ u.buried = buried /\ u.number = number /\ u.block = block /\ u.stage = stage
  BY <1>1, <1>4, <1>5, <1>6, <1>7, <1>8 DEF Changes, SaidFields
<1> QED BY <1>2, <1>3, <1>9, <1>10 DEF Passing

LEMMA SaidLate ==
  ASSUME IsSaid(said), said.stage = "finished", NEW e, NEW m, m = SaidWords(e)
  PROVE  Changes(said, m, {"resumed"}) /\ (m.resumed <=> said.resumed \/ e.parts # <<>>)
<1> DEFINE resumed == said.resumed \/ e.parts # <<>>
<1>1. m = [said EXCEPT !.resumed = resumed]
  BY DEF SaidWords
<1>2. resumed <=> said.resumed \/ e.parts # <<>>
  OBVIOUS
<1> HIDE DEF resumed
<1>3. Changes(said, m, {"resumed"}) /\ m.resumed = resumed
  BY <1>1, SetSaid DEF SaidFields
<1> QED BY <1>2, <1>3

LEMMA SaidNothing ==
  ASSUME IsSaid(said), said.stage # "finished", NEW e, e.parts = <<>>, NEW m, m = SaidWords(e)
  PROVE  m = said
BY SayNothing DEF SaidWords

LEMMA SaidOne ==
  ASSUME IsSaid(said), said.stage # "finished", NEW e, NEW p, e.parts = <<p>>, NEW m, m = SaidWords(e)
  PROVE  Changes(said, m, Words) /\ Adds(p, said, m)
BY SayOne, SayPartAdds DEF SaidWords

LEMMA SaidTwo ==
  ASSUME IsSaid(said), said.stage # "finished", NEW e, NEW p, NEW q, e.parts = <<p, q>>,
         NEW m, m = SaidWords(e), NEW h, h = SayPart(said, p)
  PROVE  Changes(said, h, Words) /\ Adds(p, said, h) /\ Changes(h, m, Words) /\ Adds(q, h, m)
<1>1. Changes(said, h, Words) /\ Adds(p, said, h)
  BY SayPartAdds
<1>2. m = SayPart(h, q)
  <2>1. m = FoldLeft(SayPart, said, e.parts)
    BY DEF SaidWords
  <2> DEFINE T == {p, q}
             one == <<p>>
  <2>2. p \in T /\ q \in T
    OBVIOUS
  <2> HIDE DEF T
  <2>3. one \in Seq(T)
    BY <2>2
  <2>6. FoldLeft(SayPart, said, one) = SayPart(said, p)
    BY SayOne
  <2>4. e.parts = Append(one, q)
    BY Pair
  <2> HIDE DEF one
  <2>5. FoldLeft(SayPart, said, Append(one, q)) = SayPart(FoldLeft(SayPart, said, one), q)
    BY <2>2, <2>3, SayMore
  <2> QED BY <2>1, <2>4, <2>5, <2>6
<1>3. IsSaid(h)
  BY <1>1 DEF Changes
<1> QED BY <1>1, <1>2, <1>3, SayPartAdds

-----------------------------------------------------------------------------
(* What is carried over: how the events for a client, and what the            *)
(* translators remember, match what has been said.  n finishes have passed.   *)
Order(t) == IF t.resumed \/ (t.events = 0 /\ t.stage = "over") THEN "broken" ELSE "kept"

\* Thinking text is being said.
Mode(t) == IF format = "claude" THEN t.block = "think" ELSE t.marked

CarriedByClaude(v, s, t, n) ==
  /\ ClaudeReads("kept", v, s, IF s.responseFinished THEN 1 ELSE 0, t.text, t.think)
  /\ s.responseFinished <=> n > 0
  /\ format # "ollama" => Len(s.toolCalls) = t.calls

Links(s, t) ==
  /\ s.msgItem = "done" => "text" \in t.left \/ s.completedSent
  /\ s.reasoning = "done" => {"think", "<think>"} \subseteq t.left \/ s.completedSent
  /\ format = "openai" /\ s.inThinking => s.reasoning = "added" \/ s.completedSent
  /\ ~t.buried /\ format # "ollama" => s.added = 0..(t.calls - 1)
  /\ ~s.completedSent => s.done = {}

CarriedByResponses(v, s, t, n) ==
  /\ Shows(Order(t), v, s)
  /\ Order(t) = "kept" => Links(s, t)
  /\ s.completedSent => n > 0 \/ t.stage = "over"
  /\ format # "openai" => (s.completedSent <=> n > 0)
  /\ Order(t) = "kept" \/ format # "openai" => (s.inThinking <=> Mode(t))

Carried(v, s, t, n) ==
  /\ client = "claude" => CarriedByClaude(v, s, t, n)
  /\ client = "responses" => CarriedByResponses(v, s, t, n)
  /\ client = "openai" => Passes("kept", v, s, n)

\* A chunk says what takes t to u.
SpeaksCalls(chunk, t, u) ==
  IF format = "ollama" THEN \A j \in 1..Len(chunk.calls) : chunk.calls[j].index = j - 1
  ELSE \/ chunk.calls = <<>> /\ u.calls = t.calls
       \/ /\ Len(chunk.calls) = 1 /\ chunk.calls[1].id
          /\ chunk.calls[1].index = t.calls /\ u.calls = t.calls + 1
       \/ Len(chunk.calls) = 1 /\ chunk.calls[1].index \in 0..(t.calls - 1) /\ u.calls = t.calls

SpeaksWords(chunk, t, u) ==
  format # "claude" => /\ u.text = IF chunk.text = "none" THEN t.text ELSE t.text + 1
                       /\ u.think = IF chunk.think THEN t.think + 1 ELSE t.think

SpeaksOrder(chunk, t, u) ==
  /\ t.left \subseteq u.left
  /\ chunk.text = "</think>" => {"think", "<think>"} \subseteq u.left
  /\ chunk.calls # <<>> => "text" \in u.left
  /\ Order(u) = "kept" =>
       /\ Order(t) = "kept"
       /\ chunk.think => "think" \notin t.left
       /\ chunk.text = "text" => "text" \notin t.left
       /\ chunk.text = "<think>" /\ format = "openai" => "<think>" \notin t.left

SpeaksMode(chunk, t, u) ==
  /\ chunk.text = "<think>" => Mode(u)
  /\ chunk.text = "</think>" => ~Mode(u)
  /\ chunk.text \in {"none", "text"} => (Mode(u) <=> Mode(t))
  /\ chunk.text = "text" /\ format # "openai" => ~Mode(t)
  /\ t.buried => u.buried
  /\ Mode(t) /\ chunk.text = "text" /\ chunk.calls # <<>> => u.buried

Speaks(chunk, t, u) ==
  /\ SpeaksCalls(chunk, t, u) /\ SpeaksWords(chunk, t, u)
  /\ SpeaksOrder(chunk, t, u) /\ SpeaksMode(chunk, t, u)

LEMMA CallsInOrder ==
  ASSUME NEW chunk \in Chunk, NEW t, t.calls \in Nat, NEW u, SpeaksCalls(chunk, t, u),
         NEW l, format # "ollama" => l = t.calls
  PROVE  InOrder(chunk.calls, l)
<1>1. chunk.calls \in Seq(Piece)
  BY DEF Chunk
<1>2. CASE format = "ollama"
  BY <1>2 DEF SpeaksCalls, InOrder
<1>3. CASE format # "ollama" /\ chunk.calls = <<>>
  <2>1. 1..Len(chunk.calls) = {}
    BY <1>3
  <2> QED BY <2>1 DEF InOrder
<1>4. CASE format # "ollama" /\ chunk.calls # <<>>
  <2>1. Len(chunk.calls) = 1 /\ chunk.calls[1].index <= l
    BY <1>4 DEF SpeaksCalls
  <2> QED BY <2>1 DEF InOrder
<1> QED BY <1>2, <1>3, <1>4

LEMMA ClaudeLive ==
  ASSUME format # "claude", NEW v, NEW s, NEW t, CarriedByClaude(v, s, t, 0), t.calls \in Nat,
         NEW chunk \in Chunk, NEW u, Speaks(chunk, t, u),
         NEW r, r = OpenAiToClaude(chunk, s)
  PROVE  Alters(s, r, ClaudeFields) /\ CarriedByClaude(v, r, u, IF chunk.finish THEN 1 ELSE 0)
<1>1. ~s.responseFinished
  BY DEF CarriedByClaude
<1>2. ClaudeReads("kept", v, s, 0, t.text, t.think)
  BY <1>1 DEF CarriedByClaude
<1>3. InOrder(chunk.calls, Len(s.toolCalls))
  BY CallsInOrder DEF Speaks, CarriedByClaude
<1> DEFINE x == IF chunk.text = "none" THEN t.text ELSE t.text + 1
           k == IF chunk.think THEN t.think + 1 ELSE t.think
           e == IF chunk.finish THEN 0 + 1 ELSE 0
           l == Len(s.toolCalls)
<1>4. /\ Alters(s, r, ClaudeFields) /\ (r.responseFinished <=> chunk.finish)
      /\ ClaudeReads("kept", v, r, e, x, k)
      /\ Len(chunk.calls) = 0 => Len(r.toolCalls) = l
      /\ Len(chunk.calls) = 1 => Len(r.toolCalls) = IF chunk.calls[1].index = l THEN l + 1 ELSE l
  BY <1>1, <1>2, <1>3, ClaudeChunkKeeps
<1>5. x = u.text /\ k = u.think
  BY DEF Speaks, SpeaksWords
<1>6. e = IF r.responseFinished THEN 1 ELSE 0
  BY <1>4
<1> HIDE DEF x, k, e
<1>7. ClaudeReads("kept", v, r, IF r.responseFinished THEN 1 ELSE 0, u.text, u.think)
  BY <1>4, <1>5, <1>6
<1>8. format # "ollama" => Len(r.toolCalls) = u.calls
  <2>1. format # "ollama" => l = t.calls
    BY DEF CarriedByClaude
  <2> HIDE DEF l
  <2> QED BY <1>4, <2>1 DEF Speaks, SpeaksCalls
<1>9. r.responseFinished <=> (IF chunk.finish THEN 1 ELSE 0) > 0
  BY <1>4
<1> QED BY <1>4, <1>7, <1>8, <1>9 DEF CarriedByClaude

LEMMA SuitsLive ==
  ASSUME NEW v, NEW s, NEW t, CarriedByResponses(v, s, t, 0), t.stage # "over",
         NEW chunk \in Chunk, NEW u, Speaks(chunk, t, u), Order(u) = "kept",
         format \notin {"openai", "claude"} => ~t.marked
  PROVE  ~s.completedSent /\ Links(s, t) /\ (s.inThinking <=> Mode(t)) /\ Suits(chunk, s)
<1>1. Order(t) = "kept"
  BY DEF Speaks, SpeaksOrder
<1>2. ~s.completedSent /\ Links(s, t) /\ (s.inThinking <=> Mode(t))
  BY <1>1 DEF CarriedByResponses
<1>3. chunk.think => s.reasoning # "done"
  BY <1>2 DEF Links, Speaks, SpeaksOrder
<1>4. ASSUME chunk.text = "text", s.inThinking PROVE s.reasoning = "added"
  <2>1. format = "openai"
    BY <1>2, <1>4 DEF Speaks, SpeaksMode
  <2> QED BY <1>2, <1>4, <2>1 DEF Links
<1>5. ASSUME chunk.text = "text" PROVE s.msgItem # "done"
  BY <1>2, <1>5 DEF Links, Speaks, SpeaksOrder
<1>6. s.done = {}
  BY <1>2 DEF Links
<1> QED BY <1>2, <1>3, <1>4, <1>5, <1>6 DEF Suits

LEMMA AddedLive ==
  ASSUME NEW s, NEW t, t.calls \in Nat, NEW chunk \in Chunk, NEW u, Speaks(chunk, t, u),
         s.inThinking <=> Mode(t), ~u.buried, format # "ollama", s.added = 0..(t.calls - 1),
         NEW r, IF Early(chunk, s) THEN r.added = s.added ELSE AddedByAll(chunk.calls, s, r)
  PROVE  r.added = 0..(u.calls - 1)
<1>1. CASE chunk.calls = <<>>
  <2>1. Len(chunk.calls) = 0
    BY <1>1
  <2>2. u.calls = t.calls
    BY <1>1, <2>1 DEF Speaks, SpeaksCalls
  <2> QED BY <2>1, <2>2 DEF AddedByAll
<1>2. CASE chunk.calls # <<>>
  <2>1. ~Early(chunk, s)
    BY <1>2 DEF Early, Speaks, SpeaksMode
  <2>2. Len(chunk.calls) = 1
    BY <1>2 DEF Speaks, SpeaksCalls
  <2> DEFINE i == chunk.calls[1].index
             id == chunk.calls[1].id
  <2>3. r.added = AddedBy(chunk.calls[1], s)
    BY <2>1, <2>2 DEF AddedByAll
  <2>4. \/ id /\ i = t.calls /\ u.calls = t.calls + 1
        \/ i \in 0..(t.calls - 1) /\ u.calls = t.calls
    BY <1>2 DEF Speaks, SpeaksCalls
  <2>5. r.added = IF id THEN s.added \cup {i} ELSE s.added
    BY <2>3 DEF AddedBy
  <2> HIDE DEF i, id
  <2>6. CASE id /\ i = t.calls /\ u.calls = t.calls + 1
    <3>1. u.calls - 1 = t.calls
      BY <2>6
    <3>2. 0..t.calls = 0..(t.calls - 1) \cup {t.calls}
      OBVIOUS
    <3> QED BY <2>5, <2>6, <3>1, <3>2
  <2>7. CASE i \in 0..(t.calls - 1) /\ u.calls = t.calls
    <3>1. s.added \cup {i} = s.added
      BY <2>7
    <3> QED BY <2>5, <2>7, <3>1
  <2> QED BY <2>4, <2>6, <2>7
<1> QED BY <1>1, <1>2

LEMMA ResponsesLive ==
  ASSUME NEW v, NEW s, NEW t, CarriedByResponses(v, s, t, 0), t.stage # "over", t.calls \in Nat,
         NEW chunk \in Chunk, NEW u, Speaks(chunk, t, u),
         format \notin {"openai", "claude"} => ~t.marked,
         NEW r, r = OpenAiToResponses(chunk, s)
  PROVE  /\ Alters(s, r, ResponsesFields) /\ r.started
         /\ CarriedByResponses(v, r, u, IF chunk.finish THEN 1 ELSE 0)
<1> DEFINE order == Order(u)
<1>1. Shows(order, v, s)
  <2>1. order = "kept" => Order(t) = "kept"
    BY DEF Speaks, SpeaksOrder
  <2> QED BY <2>1, ShowsWeaker DEF CarriedByResponses
<1>2. order = "kept" => Suits(chunk, s)
  BY SuitsLive
<1> HIDE DEF order
<1>3. /\ Alters(s, r, ResponsesFields) /\ Shows(order, v, r) /\ Moved(chunk, s, r)
      /\ order = "kept" /\ ~r.completedSent => MovedItems(chunk, s, r)
  BY <1>1, <1>2, ResponsesChunkKeeps
<1>4. ~s.completedSent /\ (format # "openai" => (s.inThinking <=> Mode(t)))
  BY DEF CarriedByResponses
<1>5. /\ r.completedSent => chunk.finish
      /\ format # "openai" => (r.completedSent <=> chunk.finish)
  <2>1. format # "openai" => ~Early(chunk, s)
    BY <1>4 DEF Early, Speaks, SpeaksMode
  <2> QED BY <1>3, <1>4, <2>1 DEF Moved
<1>6. ASSUME order = "kept" \/ format # "openai" PROVE r.inThinking <=> Mode(u)
  <2>1. s.inThinking <=> Mode(t)
    BY <1>4, <1>6, SuitsLive DEF order
  <2>2. Thinks(chunk.text, s, r)
    BY <1>3 DEF Moved
  <2>3. chunk.text \in {"none", "text", "<think>", "</think>"}
    BY DEF Chunk
  <2> QED BY <2>1, <2>2, <2>3 DEF Thinks, Speaks, SpeaksMode
<1>7. ASSUME order = "kept" PROVE Links(r, u)
  <2>1. ~s.completedSent /\ Links(s, t) /\ (s.inThinking <=> Mode(t)) /\ Order(u) = "kept"
    BY <1>7, SuitsLive DEF order
  <2>2. ~u.buried /\ format # "ollama" => r.added = 0..(u.calls - 1)
    <3>1. ASSUME ~u.buried, format # "ollama" PROVE r.added = 0..(u.calls - 1)
      <4>1. s.added = 0..(t.calls - 1)
        BY <2>1, <3>1 DEF Links, Speaks, SpeaksMode
      <4>2. IF Early(chunk, s) THEN r.added = s.added ELSE AddedByAll(chunk.calls, s, r)
        BY <1>3 DEF Moved
      <4> QED BY <2>1, <3>1, <4>1, <4>2, AddedLive
    <3> QED BY <3>1
  <2>3. CASE r.completedSent
    BY <2>2, <2>3 DEF Links
  <2>4. CASE ~r.completedSent
    <3>1. MovedItems(chunk, s, r) /\ Thinks(chunk.text, s, r)
      BY <1>3, <1>7, <2>4 DEF Moved
    <3>2. r.msgItem = "done" => "text" \in u.left
      BY <2>1, <3>1 DEF MovedItems, Links, Speaks, SpeaksOrder
    <3>3. r.reasoning = "done" => {"think", "<think>"} \subseteq u.left
      BY <2>1, <3>1 DEF MovedItems, Reasons, Links, Speaks, SpeaksOrder
    <3>4. ASSUME format = "openai", r.inThinking PROVE r.reasoning = "added"
      <4>1. CASE chunk.text = "<think>"
        <5>1. "<think>" \notin t.left
          BY <2>1, <3>4, <4>1 DEF Speaks, SpeaksOrder
        <5>2. s.reasoning # "done"
          BY <2>1, <5>1 DEF Links
        <5> QED BY <3>1, <4>1, <5>2 DEF MovedItems, Reasons
      <4>2. CASE chunk.text # "<think>"
        <5>1. chunk.text # "</think>" /\ s.inThinking
          BY <3>1, <3>4, <4>2 DEF Thinks
        <5>2. s.reasoning = "added"
          BY <2>1, <3>4, <5>1 DEF Links
        <5> QED BY <3>1, <5>1, <5>2 DEF MovedItems, Reasons
      <4> QED BY <4>1, <4>2
    <3>5. r.done = {}
      BY <3>1 DEF MovedItems
    <3> QED BY <2>2, <3>2, <3>3, <3>4, <3>5 DEF Links
  <2> QED BY <2>3, <2>4
<1>8. CarriedByResponses(v, r, u, IF chunk.finish THEN 1 ELSE 0)
  BY <1>3, <1>5, <1>6, <1>7 DEF CarriedByResponses, order
<1> QED BY <1>3, <1>8 DEF Moved

LEMMA ResponsesLate ==
  ASSUME NEW v, NEW s, NEW u, NEW n \in Nat \ {0}, CarriedByResponses(v, s, u, n),
         NEW chunk \in Chunk,
         Order(u) = "kept" => ~chunk.think /\ chunk.text = "none" /\ chunk.calls = <<>>,
         format # "openai" => chunk.text \in {"none", "text"},
         NEW r, r = OpenAiToResponses(chunk, s)
  PROVE  /\ Alters(s, r, ResponsesFields) /\ r.started
         /\ CarriedByResponses(v, r, u, IF chunk.finish THEN n + 1 ELSE n)
<1> DEFINE order == Order(u)
<1>1. Shows(order, v, s) /\ (order = "kept" => Links(s, u))
  BY DEF CarriedByResponses
<1>2. order = "kept" => Suits(chunk, s)
  BY <1>1 DEF Suits, Links
<1>3. order = "kept" => ~chunk.think /\ chunk.text = "none" /\ chunk.calls = <<>>
  OBVIOUS
<1> HIDE DEF order
<1>4. /\ Alters(s, r, ResponsesFields) /\ Shows(order, v, r) /\ Moved(chunk, s, r)
      /\ order = "kept" /\ ~r.completedSent => MovedItems(chunk, s, r)
  BY <1>1, <1>2, ResponsesChunkKeeps
<1>5. format # "openai" => r.completedSent
  BY <1>4 DEF Moved, CarriedByResponses
<1>6. ASSUME order = "kept" \/ format # "openai" PROVE r.inThinking <=> Mode(u)
  <2>1. s.inThinking <=> Mode(u)
    BY <1>6 DEF CarriedByResponses, order
  <2>2. Thinks(chunk.text, s, r) /\ chunk.text \in {"none", "text"}
    BY <1>3, <1>4, <1>6 DEF Moved
  <2> QED BY <2>1, <2>2 DEF Thinks
<1>7. ASSUME order = "kept" PROVE Links(r, u)
  <2>1. Links(s, u) /\ (r.inThinking <=> s.inThinking)
    <3>1. Thinks(chunk.text, s, r) /\ chunk.text = "none"
      BY <1>3, <1>4, <1>7 DEF Moved
    <3> QED BY <1>1, <1>7, <3>1 DEF Thinks
  <2>2. r.added = s.added
    <3>1. ~Early(chunk, s) /\ Len(chunk.calls) = 0
      BY <1>3, <1>7 DEF Early
    <3> QED BY <1>4, <3>1 DEF Moved, AddedByAll
  <2>3. CASE r.completedSent
    BY <2>1, <2>2, <2>3 DEF Links
  <2>4. CASE ~r.completedSent
    <3>1. MovedItems(chunk, s, r) /\ ~s.completedSent
      BY <1>4, <1>7, <2>4 DEF Moved
    <3>2. chunk.text = "none" /\ chunk.calls = <<>>
      BY <1>3, <1>7
    <3> QED BY <2>1, <2>2, <3>1, <3>2 DEF MovedItems, Reasons, Links
  <2> QED BY <2>3, <2>4
<1>8. (IF chunk.finish THEN n + 1 ELSE n) > 0
  OBVIOUS
<1>9. CarriedByResponses(v, r, u, IF chunk.finish THEN n + 1 ELSE n)
  BY <1>4, <1>5, <1>6, <1>7, <1>8 DEF CarriedByResponses, order
<1> QED BY <1>4, <1>9 DEF Moved

LEMMA ClaudeLate ==
  ASSUME NEW v, NEW s, NEW u, NEW n \in Nat \ {0}, CarriedByClaude(v, s, u, n), NEW chunk \in Chunk,
         NEW r, r = OpenAiToClaude(chunk, s)
  PROVE  Alters(s, r, ClaudeFields) /\ CarriedByClaude(v, r, u, IF chunk.finish THEN n + 1 ELSE n)
<1>1. s.responseFinished
  BY DEF CarriedByClaude
<1>2. r = s
  BY <1>1 DEF OpenAiToClaude
<1>3. IsState(s)
  BY ClaudeReadsState DEF CarriedByClaude
<1>4. (IF chunk.finish THEN n + 1 ELSE n) > 0
  OBVIOUS
<1>5. CarriedByClaude(v, s, u, IF chunk.finish THEN n + 1 ELSE n)
  BY <1>1, <1>4 DEF CarriedByClaude
<1> QED BY <1>2, <1>3, <1>5, AltersNothing

\* Nothing is said that a client could be told.
Quiet(t, u) ==
  /\ u.calls = t.calls /\ (format # "claude" => u.text = t.text /\ u.think = t.think)
  /\ t.left \subseteq u.left /\ (t.buried => u.buried) /\ (t.stage = "over" => u.stage = "over")
  /\ Order(u) = "kept" => Order(t) = "kept"
  /\ Mode(u) <=> Mode(t)

LEMMA QuietKeeps ==
  ASSUME ~(client = "claude" /\ format = "claude"),
         NEW v, NEW s, NEW t, NEW n, Carried(v, s, t, n), NEW u, Quiet(t, u)
  PROVE  Carried(v, s, u, n)
<1>1. ASSUME client = "claude" PROVE CarriedByClaude(v, s, u, n)
  BY <1>1 DEF Carried, CarriedByClaude, Quiet
<1>2. ASSUME client = "responses" PROVE CarriedByResponses(v, s, u, n)
  <2>1. CarriedByResponses(v, s, t, n)
    BY <1>2 DEF Carried
  <2>2. Shows(Order(u), v, s)
    BY <2>1, ShowsWeaker DEF CarriedByResponses, Quiet
  <2>3. Order(u) = "kept" => Links(s, u)
    BY <2>1 DEF CarriedByResponses, Quiet, Links
  <2>4. Order(u) = "kept" \/ format # "openai" => (s.inThinking <=> Mode(u))
    BY <2>1 DEF CarriedByResponses, Quiet
  <2> QED BY <2>1, <2>2, <2>3, <2>4 DEF CarriedByResponses, Quiet
<1>3. ASSUME client = "openai" PROVE Passes("kept", v, s, n)
  BY <1>3 DEF Carried
<1> QED BY <1>1, <1>2, <1>3 DEF Carried

\* What only the first translator remembers.
OwnFields ==
  {"toolCallIndex", "serverTool", "thinkingBlock", "finishReasonSent", "functionIndex", "begun"}

FirstFields == IF format = "claude" THEN OwnFields \cup {"toolCalls"} ELSE OwnFields

ClientFields ==
  IF client = "claude" THEN ClaudeFields ELSE IF client = "responses" THEN ResponsesFields ELSE {"out"}

LEMMA ClaudeReadsAlike ==
  ASSUME NEW order, NEW v, NEW s, NEW e, NEW x, NEW k, ClaudeReads(order, v, s, e, x, k),
         NEW r, Alters(s, r, OwnFields)
  PROVE  ClaudeReads(order, v, r, e, x, k)
<1>1. /\ IsState(r) /\ r.out = s.out /\ r.nextBlockIndex = s.nextBlockIndex /\ r.toolCalls = s.toolCalls
      /\ r.thinkingBlockIndex = s.thinkingBlockIndex /\ r.textBlockIndex = s.textBlockIndex
      /\ r.messageStartSent = s.messageStartSent /\ r.responseFinished = s.responseFinished
  BY DEF Alters, OwnFields, Fields
<1>2. ASSUME Ended(order, v, s, e, x, k) PROVE Ended(order, v, r, e, x, k)
  BY <1>1, <1>2 DEF Ended, Tells
<1>3. ASSUME Continues(order, v, s, e, x, k) PROVE Continues(order, v, r, e, x, k)
  BY <1>1, <1>3, GoingAlike DEF Continues
<1>4. ASSUME Waits(order, v, s, e, x, k) PROVE Waits(order, v, r, e, x, k)
  BY <1>1, <1>4 DEF Waits, Tells, Blocks
<1> QED BY <1>1, <1>2, <1>3, <1>4 DEF ClaudeReads

LEMMA AlikeKeeps ==
  ASSUME ~(client = "claude" /\ format = "claude"),
         NEW v, NEW s, NEW t, NEW n, Carried(v, s, t, n), NEW r, Alters(s, r, FirstFields)
  PROVE  Carried(v, r, t, n)
<1>1. ASSUME client = "claude" PROVE CarriedByClaude(v, r, t, n)
  <2>1. Alters(s, r, OwnFields)
    BY <1>1 DEF FirstFields
  <2>2. r.responseFinished = s.responseFinished /\ r.toolCalls = s.toolCalls
    BY <2>1 DEF Alters, OwnFields, Fields
  <2>3. CarriedByClaude(v, s, t, n)
    BY <1>1 DEF Carried
  <2> DEFINE e == IF s.responseFinished THEN 1 ELSE 0
  <2>4. ClaudeReads("kept", v, s, e, t.text, t.think)
    BY <2>3 DEF CarriedByClaude
  <2>5. ClaudeReads("kept", v, r, e, t.text, t.think)
    <3> HIDE DEF e
    <3> QED BY <2>1, <2>4, ClaudeReadsAlike
  <2> QED BY <2>2, <2>3, <2>5 DEF CarriedByClaude
<1>2. ASSUME client = "responses" PROVE CarriedByResponses(v, r, t, n)
  <2>1. /\ IsState(r) /\ r.out = s.out /\ r.msgItem = s.msgItem /\ r.reasoning = s.reasoning
        /\ r.added = s.added /\ r.done = s.done /\ r.started = s.started
        /\ r.completedSent = s.completedSent /\ r.inThinking = s.inThinking
    BY DEF Alters, FirstFields, OwnFields, Fields
  <2>2. CarriedByResponses(v, s, t, n)
    BY <1>2 DEF Carried
  <2>3. Shows(Order(t), v, r)
    BY <2>1, <2>2, ShowsAlike DEF CarriedByResponses
  <2> QED BY <2>1, <2>2, <2>3 DEF CarriedByResponses, Links
<1>3. ASSUME client = "openai" PROVE Passes("kept", v, r, n)
  <2>1. IsState(r) /\ r.out = s.out
    BY DEF Alters, FirstFields, OwnFields, Fields
  <2> QED BY <1>3, <2>1 DEF Carried, Passes, Tells
<1> QED BY <1>1, <1>2, <1>3 DEF Carried

Setting ==
  /\ format \in {"openai", "claude", "gemini", "ollama", "responses"}
  /\ client \in {"openai", "claude", "responses"} /\ format # client

LEMMA Live ==
  ASSUME Setting, NEW v, NEW s, NEW t, Carried(v, s, t, 0), t.stage # "over", t.calls \in Nat,
         format \notin {"openai", "claude"} => ~t.marked,
         NEW chunk \in Chunk, NEW u, Speaks(chunk, t, u),
         NEW r, r = FromOpenAi(client, chunk, s)
  PROVE  /\ Alters(s, r, ClientFields) /\ (client = "responses" => r.started)
         /\ Carried(v, r, u, IF chunk.finish THEN 1 ELSE 0)
<1>1. CASE client = "claude"
  <2>1. r = OpenAiToClaude(chunk, s) /\ CarriedByClaude(v, s, t, 0) /\ format # "claude"
    BY <1>1 DEF FromOpenAi, Carried, Setting
  <2>2. Alters(s, r, ClaudeFields) /\ CarriedByClaude(v, r, u, IF chunk.finish THEN 1 ELSE 0)
    BY <2>1, ClaudeLive
  <2> QED BY <1>1, <2>2 DEF Carried, ClientFields
<1>2. CASE client = "responses"
  <2>1. r = OpenAiToResponses(chunk, s) /\ CarriedByResponses(v, s, t, 0)
    BY <1>2 DEF FromOpenAi, Carried
  <2>2. /\ Alters(s, r, ResponsesFields) /\ r.started
        /\ CarriedByResponses(v, r, u, IF chunk.finish THEN 1 ELSE 0)
    BY <2>1, ResponsesLive
  <2> QED BY <1>2, <2>2 DEF Carried, ClientFields
<1>3. CASE client = "openai"
  <2>1. r = PassChunk(chunk, s) /\ Passes("kept", v, s, 0)
    BY <1>3 DEF FromOpenAi, Carried
  <2>2. Alters(s, r, {"out"}) /\ Passes("kept", v, r, IF chunk.finish THEN 0 + 1 ELSE 0)
    BY <2>1, PassChunkKeeps
  <2>3. (IF chunk.finish THEN 0 + 1 ELSE 0) = IF chunk.finish THEN 1 ELSE 0
    OBVIOUS
  <2> QED BY <1>3, <2>2, <2>3 DEF Carried, ClientFields
<1> QED BY <1>1, <1>2, <1>3 DEF Setting

LEMMA Late ==
  ASSUME Setting, NEW v, NEW s, NEW u, NEW n \in Nat \ {0}, Carried(v, s, u, n), NEW chunk \in Chunk,
         Order(u) = "kept" => ~chunk.think /\ chunk.text = "none" /\ chunk.calls = <<>>,
         format # "openai" => chunk.text \in {"none", "text"},
         NEW r, r = FromOpenAi(client, chunk, s)
  PROVE  /\ Alters(s, r, ClientFields) /\ (client = "responses" => r.started)
         /\ Carried(v, r, u, IF chunk.finish THEN n + 1 ELSE n)
<1>1. CASE client = "claude"
  <2>1. r = OpenAiToClaude(chunk, s) /\ CarriedByClaude(v, s, u, n)
    BY <1>1 DEF FromOpenAi, Carried
  <2>2. Alters(s, r, ClaudeFields) /\ CarriedByClaude(v, r, u, IF chunk.finish THEN n + 1 ELSE n)
    BY <2>1, ClaudeLate
  <2> QED BY <1>1, <2>2 DEF Carried, ClientFields
<1>2. CASE client = "responses"
  <2>1. r = OpenAiToResponses(chunk, s) /\ CarriedByResponses(v, s, u, n)
    BY <1>2 DEF FromOpenAi, Carried
  <2>2. /\ Alters(s, r, ResponsesFields) /\ r.started
        /\ CarriedByResponses(v, r, u, IF chunk.finish THEN n + 1 ELSE n)
    BY <2>1, ResponsesLate
  <2> QED BY <1>2, <2>2 DEF Carried, ClientFields
<1>3. CASE client = "openai"
  <2>1. r = PassChunk(chunk, s) /\ Passes("kept", v, s, n)
    BY <1>3 DEF FromOpenAi, Carried
  <2>2. Alters(s, r, {"out"}) /\ Passes("kept", v, r, IF chunk.finish THEN n + 1 ELSE n)
    BY <2>1, PassChunkKeeps
  <2> QED BY <1>3, <2>2 DEF Carried, ClientFields
<1> QED BY <1>1, <1>2, <1>3 DEF Setting

-----------------------------------------------------------------------------
(* A client hears chunks that the first translator, left in the state base,   *)
(* has made.                                                                  *)
Heard(v, base, chunks, t, n) ==
  /\ chunks \in Seq(Chunk)
  /\ Alters(base, Translate(Yield(chunks, base)), ClientFields)
  /\ client = "responses" /\ chunks # <<>> => Translate(Yield(chunks, base)).started
  /\ Carried(v, Translate(Yield(chunks, base)), t, n)

LEMMA CarriedIsState ==
  ASSUME Setting, NEW v, NEW s, NEW t, NEW n, Carried(v, s, t, n)
  PROVE  IsState(s) /\ s.out \in Seq(Ev)
<1>1. CASE client = "claude"
  <2> DEFINE e == IF s.responseFinished THEN 1 ELSE 0
  <2>1. ClaudeReads("kept", v, s, e, t.text, t.think)
    BY <1>1 DEF Carried, CarriedByClaude
  <2> HIDE DEF e
  <2>2. s.out \in Seq(Ev)
    BY <2>1 DEF ClaudeReads, Ended, Continues, Going, Waits, Tells
  <2> QED BY <2>1, <2>2, ClaudeReadsState
<1>2. CASE client = "responses"
  BY <1>2 DEF Carried, CarriedByResponses, Shows, Shown, Tells
<1>3. CASE client = "openai"
  BY <1>3 DEF Carried, Passes, Tells
<1> QED BY <1>1, <1>2, <1>3 DEF Setting

LEMMA HeardNothing ==
  ASSUME Setting, NEW v, NEW base, NEW t, NEW n, Carried(v, base, t, n)
  PROVE  Heard(v, base, <<>>, t, n)
<1>1. <<>> \in Seq(Chunk)
  OBVIOUS
<1>2. IsState(base)
  BY CarriedIsState
<1>3. Translate(Yield(<<>>, base)) = base
  BY TranslateNothing
<1> DEFINE r == Translate(Yield(<<>>, base))
<1> HIDE DEF r
<1>4. Alters(base, r, ClientFields) /\ Carried(v, r, t, n)
  BY <1>2, <1>3, AltersNothing DEF r
<1> QED BY <1>1, <1>4 DEF Heard, r

LEMMA HeardQuiet ==
  ASSUME ~(client = "claude" /\ format = "claude"),
         NEW v, NEW base, NEW chunks, NEW t, NEW n, Heard(v, base, chunks, t, n), NEW u, Quiet(t, u)
  PROVE  Heard(v, base, chunks, u, n)
BY QuietKeeps DEF Heard

LEMMA HeardLive ==
  ASSUME Setting, NEW v, NEW base, NEW chunks, NEW t, Heard(v, base, chunks, t, 0),
         t.stage # "over", t.calls \in Nat, format \notin {"openai", "claude"} => ~t.marked,
         NEW chunk \in Chunk, NEW u, Speaks(chunk, t, u), NEW n, n = IF chunk.finish THEN 1 ELSE 0
  PROVE  Heard(v, base, Append(chunks, chunk), u, n)
<1> DEFINE s == Translate(Yield(chunks, base))
           r == FromOpenAi(client, chunk, s)
           more == Append(chunks, chunk)
<1>1. chunks \in Seq(Chunk) /\ Alters(base, s, ClientFields) /\ Carried(v, s, t, 0)
  BY DEF Heard
<1>2. Translate(Yield(more, base)) = r
  BY <1>1, TranslateMore
<1>3. more \in Seq(Chunk)
  BY <1>1
<1> HIDE DEF s, more
<1>4. /\ Alters(s, r, ClientFields) /\ (client = "responses" => r.started)
      /\ Carried(v, r, u, IF chunk.finish THEN 1 ELSE 0)
  BY <1>1, Live
<1> HIDE DEF r
<1>5. Alters(base, r, ClientFields)
  BY <1>1, <1>4, AltersThen
<1> QED BY <1>2, <1>3, <1>4, <1>5 DEF Heard, more

LEMMA HeardLate ==
  ASSUME Setting, NEW v, NEW base, NEW chunks, NEW u, NEW m \in Nat \ {0}, Heard(v, base, chunks, u, m),
         NEW chunk \in Chunk,
         Order(u) = "kept" => ~chunk.think /\ chunk.text = "none" /\ chunk.calls = <<>>,
         format # "openai" => chunk.text \in {"none", "text"},
         NEW n, n = IF chunk.finish THEN m + 1 ELSE m
  PROVE  Heard(v, base, Append(chunks, chunk), u, n)
<1> DEFINE s == Translate(Yield(chunks, base))
           r == FromOpenAi(client, chunk, s)
           more == Append(chunks, chunk)
<1>1. chunks \in Seq(Chunk) /\ Alters(base, s, ClientFields) /\ Carried(v, s, u, m)
  BY DEF Heard
<1>2. Translate(Yield(more, base)) = r
  BY <1>1, TranslateMore
<1>3. more \in Seq(Chunk)
  BY <1>1
<1> HIDE DEF s, more
<1>4. /\ Alters(s, r, ClientFields) /\ (client = "responses" => r.started)
      /\ Carried(v, r, u, IF chunk.finish THEN m + 1 ELSE m)
  BY <1>1, Late
<1> HIDE DEF r
<1>5. Alters(base, r, ClientFields)
  BY <1>1, <1>4, AltersThen
<1> QED BY <1>2, <1>3, <1>4, <1>5 DEF Heard, more

-----------------------------------------------------------------------------
(* What holds of the record of what was said.                                 *)
WordsOk(t) ==
  /\ IsSaid(t) /\ t.calls \in Nat /\ (t.calls > 0 => "text" \in t.left)
  /\ format # "openai" => ~t.marked

SaidOk(t) ==
  /\ WordsOk(t) /\ t.events \in Nat /\ t.number \in Nat
  /\ t.stage \in {"new", "body", "delta", "finished", "over"}
  /\ t.stage = "new" => t.events = 0
  /\ t.events = 0 => t.stage \in {"new", "over"} /\ t.calls = 0
  /\ t.stage = "delta" => format = "claude"

FinishOk(t, n) ==
  /\ n \in Nat
  /\ t.stage \in {"new", "body"} => n = 0
  /\ t.stage = "finished" => n > 0

Spoken == {"text", "think", "call", "args", "</think>"} \cup (IF format = "openai" THEN {"<think>"} ELSE {})

LEMMA AddsOk ==
  ASSUME NEW t, WordsOk(t), NEW p \in Spoken, NEW u, Changes(t, u, Words), Adds(p, t, u)
  PROVE  WordsOk(u)
<1>1. IsSaid(u)
  BY DEF Changes
<1>2. u.calls \in Nat /\ (u.calls > 0 => "text" \in u.left)
  BY DEF WordsOk, Adds, Leaves
<1>3. format # "openai" => ~u.marked
  BY DEF WordsOk, Adds, Spoken
<1> QED BY <1>1, <1>2, <1>3 DEF WordsOk

\* The parts of an event.
Listed(e) ==
  \/ e.parts = <<>>
  \/ \E p \in Spoken : e.parts = <<p>>
  \/ \E p \in Spoken, q \in Spoken : e.parts = <<p, q>>

LEMMA WordsKeep ==
  ASSUME SaidOk(said), NEW e, Listed(e), NEW m, m = SaidWords(e)
  PROVE  WordsOk(m) /\ Changes(said, m, Words)
<1>0. WordsOk(said) /\ IsSaid(said)
  BY DEF SaidOk, WordsOk
<1>1. CASE said.stage = "finished"
  <2>1. Changes(said, m, {"resumed"})
    BY <1>0, <1>1, SaidLate
  <2> QED BY <1>0, <2>1 DEF WordsOk, Changes, SaidFields, Words
<1>2. CASE said.stage # "finished" /\ e.parts = <<>>
  <2>1. m = said
    BY <1>0, <1>2, SaidNothing
  <2> QED BY <1>0, <2>1 DEF Changes
<1>3. ASSUME said.stage # "finished", NEW p \in Spoken, e.parts = <<p>>
      PROVE  WordsOk(m) /\ Changes(said, m, Words)
  <2>1. Changes(said, m, Words) /\ Adds(p, said, m)
    BY <1>0, <1>3, SaidOne
  <2> QED BY <1>0, <2>1, AddsOk
<1>4. ASSUME said.stage # "finished", NEW p \in Spoken, NEW q \in Spoken, e.parts = <<p, q>>
      PROVE  WordsOk(m) /\ Changes(said, m, Words)
  <2> DEFINE h == SayPart(said, p)
  <2>1. Changes(said, h, Words) /\ Adds(p, said, h) /\ Changes(h, m, Words) /\ Adds(q, h, m)
    BY <1>0, <1>4, SaidTwo
  <2> HIDE DEF h
  <2>2. WordsOk(h)
    BY <1>0, <2>1, AddsOk
  <2>3. WordsOk(m)
    BY <2>1, <2>2, AddsOk
  <2>4. Changes(said, m, Words)
    BY <2>1 DEF Changes
  <2> QED BY <2>3, <2>4
<1> QED BY <1>1, <1>2, <1>3, <1>4 DEF Listed

LEMMA SaidKeeps ==
  ASSUME SaidOk(said), said.stage # "over", NEW e, Listed(e),
         e.type = "message_delta" => format = "claude", NEW u, u = Said(e)
  PROVE  /\ SaidOk(u) /\ u.stage = StageAfter(e, said.stage) /\ u.stage \notin {"new", "over"}
         /\ u.events = said.events + 1
<1> DEFINE m == SaidWords(e)
<1>1. WordsOk(m) /\ Changes(said, m, Words) /\ IsSaid(m)
  BY WordsKeep DEF WordsOk
<1>2. Changes(m, u, Beside) /\ Passing(e, m, u)
  BY <1>1, SaidPasses
<1> HIDE DEF m
<1>3. WordsOk(u)
  BY <1>1, <1>2 DEF WordsOk, Changes, SaidFields, Beside
<1>4. m.events = said.events /\ m.number = said.number /\ m.stage = said.stage
  BY <1>1 DEF Changes, SaidFields, Words
<1>5. u.events = said.events + 1 /\ u.stage = StageAfter(e, said.stage)
      /\ u.number \in {said.number, said.number + 1}
  BY <1>2, <1>4 DEF Passing
<1>6. u.events \in Nat \ {0} /\ u.number \in Nat
  BY <1>5 DEF SaidOk
<1>7. /\ u.stage \in {"body", "delta", "finished"} /\ (u.stage = "delta" => format = "claude")
  BY <1>5 DEF SaidOk, StageAfter
<1> QED BY <1>3, <1>5, <1>6, <1>7 DEF SaidOk

-----------------------------------------------------------------------------
(* Chunks and the parts they are made of.                                     *)
Says(chunk, p, t) ==
  /\ chunk.think <=> p = "think"
  /\ chunk.text = IF p \in {"text", "<think>", "</think>"} THEN p ELSE "none"
  /\ IF p = "call" THEN Len(chunk.calls) = 1 /\ chunk.calls[1].id /\ chunk.calls[1].index = t.calls
     ELSE IF p = "args" THEN Len(chunk.calls) = 1 /\ chunk.calls[1].index \in 0..(t.calls - 1)
     ELSE chunk.calls = <<>>

LEMMA OrderLive ==
  ASSUME NEW t, t.stage # "over"
  PROVE  Order(t) = "kept" <=> ~t.resumed
BY DEF Order

LEMMA SaysPart ==
  ASSUME format # "ollama", NEW t, WordsOk(t), t.stage # "over", NEW p \in Spoken,
         NEW u, Adds(p, t, u), u.stage # "over", t.buried => u.buried,
         NEW chunk \in Chunk, Says(chunk, p, t)
  PROVE  /\ SpeaksCalls(chunk, t, u) /\ SpeaksWords(chunk, t, u) /\ SpeaksOrder(chunk, t, u)
         /\ format # "claude" => SpeaksMode(chunk, t, u)
<1>0. t.calls \in Nat /\ (t.calls > 0 => "text" \in t.left)
  BY DEF WordsOk
<1>1. SpeaksCalls(chunk, t, u)
  BY DEF SpeaksCalls, Says, Adds
<1>2. SpeaksWords(chunk, t, u)
  BY DEF SpeaksWords, Says, Adds
<1>3. SpeaksOrder(chunk, t, u)
  <2>1. t.left \subseteq u.left
    BY DEF Adds
  <2>2. chunk.text = "</think>" => {"think", "<think>"} \subseteq u.left
    BY DEF Says, Adds, Leaves
  <2>3. ASSUME chunk.calls # <<>> PROVE "text" \in u.left
    <3>1. CASE p = "call"
      BY <3>1 DEF Adds, Leaves
    <3>2. CASE p # "call"
      <4>1. chunk.calls[1].index \in 0..(t.calls - 1)
        BY <2>3, <3>2 DEF Says
      <4>2. t.calls > 0
        BY <1>0, <4>1
      <4> QED BY <1>0, <2>1, <4>2
    <3> QED BY <3>1, <3>2
  <2>4. ASSUME Order(u) = "kept" PROVE Order(t) = "kept" /\ p \notin t.left
    BY <2>4, OrderLive DEF Adds
  <2>5. /\ chunk.think => p = "think"
        /\ chunk.text \in {"text", "<think>"} => p = chunk.text
    BY DEF Says
  <2> QED BY <2>1, <2>2, <2>3, <2>4, <2>5 DEF SpeaksOrder
<1>4. ASSUME format # "claude" PROVE SpeaksMode(chunk, t, u)
  <2>1. Mode(t) = t.marked /\ Mode(u) = u.marked
    BY <1>4 DEF Mode
  <2>2. format # "openai" => ~t.marked
    BY DEF WordsOk
  <2>3. chunk.text = "text" => chunk.calls = <<>>
    BY DEF Says
  <2> QED BY <2>1, <2>2, <2>3 DEF SpeaksMode, Says, Adds
<1> QED BY <1>1, <1>2, <1>3, <1>4

Contentless(chunk) == ~chunk.think /\ chunk.text = "none" /\ chunk.calls = <<>>

LEMMA SaysNothing ==
  ASSUME NEW t, NEW u, Quiet(t, u), NEW chunk \in Chunk, Contentless(chunk)
  PROVE  Speaks(chunk, t, u)
<1>1. Len(chunk.calls) = 0
  BY DEF Contentless
<1>2. SpeaksCalls(chunk, t, u)
  BY <1>1 DEF Contentless, SpeaksCalls, Quiet
<1> QED
  BY <1>2 DEF Contentless, Quiet, Speaks, SpeaksWords, SpeaksOrder, SpeaksMode

Lists(parts, S) == \A x : Contains(parts, x) <=> x \in S

LEMMA ListsNone ==
  ASSUME NEW parts, parts = <<>>, NEW S, S = {}
  PROVE  Lists(parts, S)
<1>1. Len(parts) = 0 /\ 1..0 = {}
  OBVIOUS
<1> QED BY <1>1 DEF Lists, Contains

LEMMA ListsOne ==
  ASSUME NEW p, NEW parts, parts = <<p>>, NEW S, S = {p}
  PROVE  Lists(parts, S)
<1>1. Len(parts) = 1 /\ parts[1] = p /\ 1..1 = {1}
  OBVIOUS
<1> QED BY <1>1 DEF Lists, Contains

LEMMA ListsTwo ==
  ASSUME NEW p, NEW q, NEW parts, parts = <<p, q>>, NEW S, S = {p, q}
  PROVE  Lists(parts, S)
<1>1. Len(parts) = 2 /\ parts[1] = p /\ parts[2] = q /\ 1..2 = {1, 2}
  OBVIOUS
<1> QED BY <1>1 DEF Lists, Contains

-----------------------------------------------------------------------------
(* OpenAI-compatible providers.                                               *)
TextWords == {"text", "<think>", "</think>"}

WordOf(S, w) == IF w = "none" THEN TextWords \cap S = {} ELSE TextWords \cap S = {w}

\* The chunk of an event with the parts S, among them the text w.
ChunkOf(chunk, e, S, w) ==
  /\ chunk \in Chunk /\ (chunk.think <=> "think" \in S) /\ (chunk.finish <=> e.finish)
  /\ chunk.text = w
  /\ S \cap {"call", "args"} = {} => chunk.calls = <<>>
  /\ S \cap {"call", "args"} # {} =>
       /\ Len(chunk.calls) = 1 /\ chunk.calls[1].index = e.n
       /\ chunk.calls[1].id <=> "call" \in S

LEMMA AsChunkIs ==
  ASSUME NEW e, e.n \in Nat, e.finish \in BOOLEAN, NEW chunk, chunk = AsChunk(e),
         NEW S, Lists(e.parts, S), NEW w, WordOf(S, w)
  PROVE  ChunkOf(chunk, e, S, w)
<1> DEFINE think == Contains(e.parts, "think")
           words == {x \in TextWords : Contains(e.parts, x)}
           text == IF words = {} THEN "none" ELSE CHOOSE x \in words : TRUE
           new == Contains(e.parts, "call")
           args == Contains(e.parts, "args")
           piece == [index |-> e.n, id |-> new, args |-> TRUE]
           calls == IF new \/ args THEN <<piece>> ELSE <<>>
<1>1. chunk = [think |-> think, text |-> text, calls |-> calls, finish |-> e.finish]
  BY DEF AsChunk, TextWords
<1>2. words = TextWords \cap S
  BY DEF Lists
<1>3. text = w
  <2>1. CASE w = "none"
    BY <1>2, <2>1 DEF WordOf
  <2>2. CASE w # "none"
    <3>1. words = {w}
      BY <1>2, <2>2 DEF WordOf
    <3> HIDE DEF words
    <3>2. (CHOOSE x \in words : TRUE) \in words
      BY <3>1
    <3> QED BY <3>1, <3>2
  <2> QED BY <2>1, <2>2
<1>4. w \in {"none", "text", "<think>", "</think>"}
  BY DEF WordOf, TextWords
<1> HIDE DEF text
<1>5. (think <=> "think" \in S) /\ (new <=> "call" \in S) /\ (args <=> "args" \in S)
  BY DEF Lists
<1>6. think \in BOOLEAN /\ new \in BOOLEAN /\ args \in BOOLEAN
  BY DEF Contains
<1> HIDE DEF think, new, args
<1>7. piece \in Piece /\ piece.index = e.n /\ (piece.id <=> new)
  BY <1>6 DEF Piece
<1> HIDE DEF piece
<1>8. <<piece>> \in Seq(Piece) /\ Len(<<piece>>) = 1 /\ <<piece>>[1] = piece
  BY <1>7
<1>9. calls \in Seq(Piece)
  BY <1>8
<1>10. /\ ~(new \/ args) => calls = <<>>
       /\ new \/ args => Len(calls) = 1 /\ calls[1] = piece
  BY <1>8
<1> HIDE DEF calls
<1>11. chunk \in Chunk
  BY <1>1, <1>3, <1>4, <1>6, <1>9 DEF Chunk
<1>12. chunk.think = think /\ chunk.text = text /\ chunk.calls = calls /\ chunk.finish = e.finish
  BY <1>1
<1> QED BY <1>3, <1>5, <1>7, <1>10, <1>11, <1>12 DEF ChunkOf

LEMMA QuietSaid ==
  ASSUME SaidOk(said), said.stage # "over", NEW e, Listed(e),
         e.type = "message_delta" => format = "claude",
         e.parts = <<>> \/ said.stage = "finished",
         format = "claude" => (BlockAfter(e, said.block) = "think" <=> said.block = "think"),
         NEW u, u = Said(e)
  PROVE  Quiet(said, u) /\ (said.stage = "finished" /\ Order(u) = "kept" => e.parts = <<>>)
<1> DEFINE m == SaidWords(e)
<1>1. IsSaid(said) /\ WordsOk(m)
  BY WordsKeep DEF SaidOk, WordsOk
<1>2. Changes(said, m, {"resumed"}) /\ (m.resumed <=> said.resumed \/ e.parts # <<>>)
  <2>1. CASE said.stage = "finished"
    BY <1>1, <2>1, SaidLate
  <2>2. CASE said.stage # "finished"
    <3>1. m = said
      BY <1>1, <2>2, SaidNothing
    <3> QED BY <1>1, <2>2, <3>1 DEF Changes
  <2> QED BY <2>1, <2>2
<1>3. Changes(m, u, Beside) /\ Passing(e, m, u)
  <2>1. IsSaid(m)
    BY <1>1 DEF WordsOk
  <2> QED BY <2>1, SaidPasses
<1> HIDE DEF m
<1>4. /\ u.calls = said.calls /\ u.text = said.text /\ u.think = said.think /\ u.left = said.left
      /\ u.marked = said.marked /\ u.block = BlockAfter(e, said.block)
      /\ (said.buried => u.buried) /\ (u.resumed <=> said.resumed \/ e.parts # <<>>)
  BY <1>2, <1>3 DEF Changes, SaidFields, Beside, Passing
<1>5. u.stage # "over"
  BY SaidKeeps
<1>6. (Order(u) = "kept" <=> ~u.resumed) /\ (Order(said) = "kept" <=> ~said.resumed)
  BY <1>5, OrderLive
<1>7. Mode(u) <=> Mode(said)
  BY <1>4 DEF Mode
<1> QED BY <1>4, <1>5, <1>6, <1>7 DEF Quiet

\* What has been said after one part.
LEMMA PartSaid ==
  ASSUME SaidOk(said), said.stage \notin {"finished", "over"}, NEW e, NEW p \in Spoken, e.parts = <<p>>,
         e.type = "message_delta" => format = "claude",
         NEW u, u = Said(e)
  PROVE  Adds(p, said, u) /\ (said.buried => u.buried) /\ u.stage # "over"
<1> DEFINE m == SaidWords(e)
<1>0. Listed(e) /\ IsSaid(said)
  BY DEF Listed, SaidOk, WordsOk
<1>1. Changes(said, m, Words) /\ Adds(p, said, m)
  BY <1>0, SaidOne
<1>2. Changes(m, u, Beside) /\ Passing(e, m, u)
  <2>1. IsSaid(m)
    BY <1>1 DEF Changes
  <2> QED BY <2>1, SaidPasses
<1> HIDE DEF m
<1>3. Adds(p, said, u)
  BY <1>1, <1>2 DEF Adds, Changes, SaidFields, Beside
<1>4. said.buried => u.buried
  BY <1>1, <1>2 DEF Passing, Changes, SaidFields, Words
<1>5. u.stage # "over"
  BY <1>0, SaidKeeps
<1> QED BY <1>3, <1>4, <1>5

LEMMA TwoSaid ==
  ASSUME SaidOk(said), said.stage \notin {"finished", "over"}, NEW e, NEW p \in Spoken, NEW q \in Spoken,
         e.parts = <<p, q>>, e.type = "message_delta" => format = "claude",
         NEW u, u = Said(e), NEW h, h = SayPart(said, p)
  PROVE  /\ Changes(said, h, Words) /\ WordsOk(h) /\ Adds(p, said, h) /\ Adds(q, h, u)
         /\ (said.buried => u.buried) /\ u.stage # "over"
         /\ said.marked /\ e.parts = <<"text", "call">> => u.buried
<1> DEFINE m == SaidWords(e)
<1>0. Listed(e) /\ IsSaid(said) /\ WordsOk(said)
  BY DEF Listed, SaidOk, WordsOk
<1>1. Changes(said, h, Words) /\ Adds(p, said, h) /\ Changes(h, m, Words) /\ Adds(q, h, m)
  BY <1>0, SaidTwo
<1>2. Changes(m, u, Beside) /\ Passing(e, m, u)
  <2>1. IsSaid(m)
    BY <1>1 DEF Changes
  <2> QED BY <2>1, SaidPasses
<1> HIDE DEF m
<1>3. Adds(q, h, u)
  BY <1>1, <1>2 DEF Adds, Changes, SaidFields, Beside
<1>4. said.buried => u.buried
  BY <1>1, <1>2 DEF Passing, Changes, SaidFields, Words
<1>5. u.stage # "over"
  BY <1>0, SaidKeeps
<1>6. said.marked /\ e.parts = <<"text", "call">> => u.buried
  BY <1>2 DEF Passing
<1>7. WordsOk(h)
  BY <1>0, <1>1, AddsOk
<1> QED BY <1>1, <1>3, <1>4, <1>5, <1>6, <1>7

LEMMA Combined ==
  ASSUME format = "openai", SaidOk(said), said.stage \notin {"finished", "over"}, NEW e,
         e.type = "chunk", NEW chunk \in Chunk, NEW u, u = Said(e),
         \/ /\ e.parts = <<"think", "text">> /\ chunk.think /\ chunk.text = "text" /\ chunk.calls = <<>>
         \/ /\ e.parts = <<"text", "call">> /\ ~chunk.think /\ chunk.text = "text"
            /\ Len(chunk.calls) = 1 /\ chunk.calls[1].id /\ chunk.calls[1].index = said.calls
  PROVE  Speaks(chunk, said, u)
<1> DEFINE p == IF chunk.think THEN "think" ELSE "text"
           q == IF chunk.think THEN "text" ELSE "call"
           h == SayPart(said, p)
<1>1. p \in Spoken /\ q \in Spoken /\ e.parts = <<p, q>> /\ e.type # "message_delta"
  BY DEF Spoken
<1>2. /\ p = IF chunk.think THEN "think" ELSE "text"
      /\ q = IF chunk.think THEN "text" ELSE "call"
  OBVIOUS
<1> HIDE DEF p, q
<1>3. /\ Changes(said, h, Words) /\ WordsOk(h) /\ Adds(p, said, h) /\ Adds(q, h, u)
      /\ (said.buried => u.buried) /\ u.stage # "over"
      /\ said.marked /\ e.parts = <<"text", "call">> => u.buried
  BY <1>1, TwoSaid
<1> HIDE DEF h
<1>4. SpeaksCalls(chunk, said, u)
  BY <1>2, <1>3 DEF SpeaksCalls, Adds
<1>5. SpeaksWords(chunk, said, u)
  BY <1>2, <1>3 DEF SpeaksWords, Adds
<1>6. SpeaksMode(chunk, said, u)
  BY <1>2, <1>3 DEF SpeaksMode, Mode, Adds
<1>7. SpeaksOrder(chunk, said, u)
  <2>1. said.left \subseteq u.left /\ (chunk.calls # <<>> => "text" \in u.left)
    BY <1>2, <1>3 DEF Adds, Leaves
  <2>2. ASSUME Order(u) = "kept" PROVE Order(said) = "kept" /\ p \notin said.left /\ q \notin said.left
    BY <1>3, <2>2, OrderLive DEF Adds
  <2>3. chunk.text = "text"
    OBVIOUS
  <2> QED BY <1>2, <2>1, <2>2, <2>3 DEF SpeaksOrder
<1> QED BY <1>4, <1>5, <1>6, <1>7 DEF Speaks

LEMMA OpenAiShape ==
  ASSUME SaidOk(said), NEW e \in OpenAiEvents, NEW chunk, chunk = AsChunk(e)
  PROVE  /\ e.type = "chunk" /\ chunk \in Chunk /\ (chunk.finish <=> e.finish)
         /\ \/ e.parts = <<>> /\ Contentless(chunk)
            \/ \E p : e.parts = <<p>> /\ p \in {"think", "text", "<think>", "</think>", "call", "args"}
                      /\ Says(chunk, p, said)
            \/ /\ e.parts = <<"think", "text">> /\ chunk.think /\ chunk.text = "text" /\ chunk.calls = <<>>
            \/ /\ e.parts = <<"text", "call">> /\ ~chunk.think /\ chunk.text = "text"
               /\ Len(chunk.calls) = 1 /\ chunk.calls[1].id /\ chunk.calls[1].index = said.calls
<1>0. said.calls \in Nat
  BY DEF SaidOk, WordsOk
<1>1. e.type = "chunk" /\ e.n \in Nat /\ e.finish \in BOOLEAN
  <2> DEFINE P == {<<>>, <<"think">>, <<"text">>, <<"<think>">>, <<"</think>">>, <<"call">>,
                   <<"think", "text">>, <<"text", "call">>}
             Q == {<<"args">>}
             F == {FALSE}
  <2>1. \/ e \in [type : {"chunk"}, n : {said.calls}, parts : P, finish : BOOLEAN]
        \/ e \in [type : {"chunk"}, n : 0..(said.calls - 1), parts : Q, finish : F]
    BY DEF OpenAiEvents
  <2>2. F \subseteq BOOLEAN
    OBVIOUS
  <2> HIDE DEF P, Q, F
  <2>3. e.type = "chunk" /\ e.n \in Nat
    BY <1>0, <2>1
  <2>4. e.finish \in BOOLEAN
    BY <2>1, <2>2
  <2> QED BY <2>3, <2>4
<1>2. CASE e.parts = <<>>
  <2> DEFINE S == {}
             w == "none"
  <2>1. Lists(e.parts, S) /\ WordOf(S, w)
    BY <1>2, ListsNone DEF WordOf
  <2>2. S \cap {"call", "args"} = {} /\ "think" \notin S /\ w = "none"
    OBVIOUS
  <2> HIDE DEF S, w
  <2>3. ChunkOf(chunk, e, S, w)
    BY <1>1, <2>1, AsChunkIs
  <2> QED BY <1>1, <1>2, <2>2, <2>3 DEF ChunkOf, Contentless
<1>3. ASSUME NEW p, e.parts = <<p>>, p \in {"think", "text", "<think>", "</think>", "call", "args"},
             p = "args" => e.n \in 0..(said.calls - 1), p # "args" => e.n = said.calls
      PROVE  chunk \in Chunk /\ (chunk.finish <=> e.finish) /\ Says(chunk, p, said)
  <2> DEFINE S == {p}
             w == IF p \in TextWords THEN p ELSE "none"
  <2>1. Lists(e.parts, S)
    BY <1>3, ListsOne
  <2>2. WordOf(S, w)
    BY <1>3 DEF WordOf, TextWords
  <2>3. /\ S \cap {"call", "args"} = {} <=> p \notin {"call", "args"}
        /\ "think" \in S <=> p = "think"
        /\ "call" \in S <=> p = "call"
        /\ w = IF p \in {"text", "<think>", "</think>"} THEN p ELSE "none"
    BY DEF TextWords
  <2> HIDE DEF S, w
  <2>4. ChunkOf(chunk, e, S, w)
    BY <1>1, <2>1, <2>2, AsChunkIs
  <2>5. CASE p = "call"
    BY <1>3, <2>3, <2>4, <2>5 DEF Says, ChunkOf
  <2>6. CASE p = "args"
    BY <1>3, <2>3, <2>4, <2>6 DEF Says, ChunkOf
  <2>7. CASE p \notin {"call", "args"}
    BY <1>3, <2>3, <2>4, <2>7 DEF Says, ChunkOf
  <2> QED BY <2>5, <2>6, <2>7
<1>4. CASE e.parts = <<"think", "text">>
  <2> DEFINE p == "think"
             w == "text"
             S == {p, w}
  <2>1. Lists(e.parts, S)
    BY <1>4, ListsTwo
  <2>2. WordOf(S, w)
    BY DEF WordOf, TextWords
  <2>3. S \cap {"call", "args"} = {} /\ "think" \in S /\ w = "text"
    OBVIOUS
  <2> HIDE DEF S, w
  <2>4. ChunkOf(chunk, e, S, w)
    BY <1>1, <2>1, <2>2, AsChunkIs
  <2> QED BY <1>1, <1>4, <2>3, <2>4 DEF ChunkOf
<1>5. CASE e.parts = <<"text", "call">> /\ e.n = said.calls
  <2> DEFINE w == "text"
             q == "call"
             S == {w, q}
  <2>1. Lists(e.parts, S)
    BY <1>5, ListsTwo
  <2>2. WordOf(S, w)
    BY DEF WordOf, TextWords
  <2>3. S \cap {"call", "args"} # {} /\ "think" \notin S /\ "call" \in S /\ w = "text"
    OBVIOUS
  <2> HIDE DEF S, w
  <2>4. ChunkOf(chunk, e, S, w)
    BY <1>1, <2>1, <2>2, AsChunkIs
  <2> QED BY <1>1, <1>5, <2>3, <2>4 DEF ChunkOf
<1>6. \/ e.parts = <<>>
      \/ e.n = said.calls /\ \E p \in {"think", "text", "<think>", "</think>", "call"} : e.parts = <<p>>
      \/ e.parts = <<"think", "text">>
      \/ e.n = said.calls /\ e.parts = <<"text", "call">>
      \/ e.n \in 0..(said.calls - 1) /\ e.parts = <<"args">>
  BY DEF OpenAiEvents
<1>7. ASSUME e.n = said.calls, NEW p \in {"think", "text", "<think>", "</think>", "call"}, e.parts = <<p>>
      PROVE  chunk \in Chunk /\ (chunk.finish <=> e.finish) /\ Says(chunk, p, said)
  BY <1>3, <1>7
<1>8. ASSUME e.n \in 0..(said.calls - 1), e.parts = <<"args">>
      PROVE  chunk \in Chunk /\ (chunk.finish <=> e.finish) /\ Says(chunk, "args", said)
  <2> DEFINE p == "args"
  <2>1. e.parts = <<p>> /\ p \in {"think", "text", "<think>", "</think>", "call", "args"} /\ p = "args"
    BY <1>8
  <2> HIDE DEF p
  <2>2. chunk \in Chunk /\ (chunk.finish <=> e.finish) /\ Says(chunk, p, said)
    BY <1>3, <1>8, <2>1
  <2> QED BY <2>2 DEF p
<1> QED BY <1>1, <1>2, <1>4, <1>5, <1>6, <1>7, <1>8

LEMMA OpenAiHeard ==
  ASSUME Setting, format = "openai", SaidOk(said), said.stage # "over", NEW n, FinishOk(said, n),
         NEW v, NEW s, Carried(v, s, said, n), NEW e \in OpenAiEvents,
         NEW chunk, chunk = AsChunk(e), NEW u, u = Said(e)
  PROVE  \E m : Heard(v, s, <<chunk>>, u, m) /\ FinishOk(u, m)
<1>1. e.type = "chunk" /\ chunk \in Chunk /\ (chunk.finish <=> e.finish)
  BY OpenAiShape
<1>2. \/ e.parts = <<>> /\ Contentless(chunk)
      \/ \E p : e.parts = <<p>> /\ p \in {"think", "text", "<think>", "</think>", "call", "args"}
                /\ Says(chunk, p, said)
      \/ /\ e.parts = <<"think", "text">> /\ chunk.think /\ chunk.text = "text" /\ chunk.calls = <<>>
      \/ /\ e.parts = <<"text", "call">> /\ ~chunk.think /\ chunk.text = "text"
         /\ Len(chunk.calls) = 1 /\ chunk.calls[1].id /\ chunk.calls[1].index = said.calls
  BY OpenAiShape
<1>3. Listed(e)
  BY <1>2 DEF Listed, Spoken
<1>4. SaidOk(u) /\ u.stage = StageAfter(e, said.stage)
  BY <1>1, <1>3, SaidKeeps
<1>5. n \in Nat /\ said.stage # "delta" /\ said.calls \in Nat
  BY DEF FinishOk, SaidOk, WordsOk
<1>6. Append(<<>>, chunk) = <<chunk>>
  OBVIOUS
<1>7. Heard(v, s, <<>>, said, n)
  BY HeardNothing
<1>8. CASE said.stage = "finished"
  <2> DEFINE m == IF chunk.finish THEN n + 1 ELSE n
  <2>1. Quiet(said, u) /\ (Order(u) = "kept" => e.parts = <<>>)
    BY <1>1, <1>3, <1>8, QuietSaid
  <2>2. Order(u) = "kept" => Contentless(chunk)
    BY <1>2, <2>1
  <2>3. Heard(v, s, <<>>, u, n)
    BY <1>7, <2>1, HeardQuiet
  <2>4. n \in Nat \ {0} /\ m \in Nat \ {0}
    BY <1>5, <1>8 DEF FinishOk
  <2>5. Heard(v, s, Append(<<>>, chunk), u, m)
    <3>1. m = IF chunk.finish THEN n + 1 ELSE n
      OBVIOUS
    <3> HIDE DEF m
    <3> QED BY <1>1, <2>2, <2>3, <2>4, <3>1, HeardLate DEF Contentless
  <2>6. FinishOk(u, m)
    BY <1>1, <1>4, <1>8, <2>4 DEF FinishOk, StageAfter
  <2> QED BY <1>6, <2>5, <2>6
<1>9. CASE said.stage # "finished"
  <2> DEFINE m == IF chunk.finish THEN 1 ELSE 0
  <2>1. Speaks(chunk, said, u)
    <3>1. CASE e.parts = <<>> /\ Contentless(chunk)
      BY <1>1, <1>3, <3>1, QuietSaid, SaysNothing
    <3>2. ASSUME NEW p, e.parts = <<p>>, p \in {"think", "text", "<think>", "</think>", "call", "args"},
                 Says(chunk, p, said)
          PROVE  Speaks(chunk, said, u)
      <4>1. p \in Spoken /\ WordsOk(said)
        BY <3>2 DEF Spoken, SaidOk
      <4>2. Adds(p, said, u) /\ (said.buried => u.buried) /\ u.stage # "over"
        BY <1>1, <1>9, <3>2, <4>1, PartSaid
      <4> QED BY <1>1, <3>2, <4>1, <4>2, SaysPart DEF Speaks
    <3> QED BY <1>1, <1>2, <1>9, <3>1, <3>2, Combined
  <2>2. n = 0
    BY <1>5, <1>9 DEF FinishOk, SaidOk
  <2>3. Heard(v, s, Append(<<>>, chunk), u, m)
    <3>1. m = IF chunk.finish THEN 1 ELSE 0
      OBVIOUS
    <3> HIDE DEF m
    <3> QED BY <1>1, <1>5, <1>7, <2>1, <2>2, <3>1, HeardLive
  <2>4. FinishOk(u, m)
    BY <1>1, <1>4, <1>5, <1>9 DEF FinishOk, StageAfter
  <2> QED BY <1>6, <2>3, <2>4
<1> QED BY <1>8, <1>9

-----------------------------------------------------------------------------
(* The chunks there are.                                                      *)
LEMMA EmptyChunk ==
  /\ Empty \in Chunk /\ Contentless(Empty) /\ ~Empty.finish
  /\ Finish \in Chunk /\ Contentless(Finish) /\ Finish.finish
<1>1. <<>> \in Seq(Piece)
  OBVIOUS
<1> QED BY <1>1 DEF Empty, Finish, Chunk, Contentless

LEMMA ThoughtChunk ==
  ASSUME NEW t
  PROVE  Thought \in Chunk /\ Says(Thought, "think", t) /\ ~Thought.finish
<1>1. <<>> \in Seq(Piece)
  OBVIOUS
<1> QED BY <1>1 DEF Empty, Thought, Chunk, Says

LEMMA TextChunk ==
  ASSUME NEW w \in {"text", "<think>", "</think>"}, NEW t
  PROVE  Text(w) \in Chunk /\ Says(Text(w), w, t) /\ ~Text(w).finish
<1>1. <<>> \in Seq(Piece)
  OBVIOUS
<1> QED BY <1>1 DEF Empty, Text, Chunk, Says

LEMMA CallChunk ==
  ASSUME NEW i \in Nat, NEW id \in BOOLEAN, NEW args \in BOOLEAN, NEW t,
         NEW chunk, chunk = Call(i, id, args)
  PROVE  /\ chunk \in Chunk /\ ~chunk.finish
         /\ id /\ i = t.calls => Says(chunk, "call", t)
         /\ i \in 0..(t.calls - 1) => Says(chunk, "args", t)
<1> DEFINE piece == [index |-> i, id |-> id, args |-> args]
           calls == <<piece>>
<1>1. piece \in Piece /\ piece.index = i /\ (piece.id <=> id)
  BY DEF Piece
<1>2. chunk = [think |-> FALSE, text |-> "none", calls |-> calls, finish |-> FALSE]
  BY DEF Call, Empty
<1> HIDE DEF piece
<1>3. calls \in Seq(Piece) /\ Len(calls) = 1 /\ calls[1] = piece
  BY <1>1
<1> HIDE DEF calls
<1>4. chunk \in Chunk /\ ~chunk.finish /\ ~chunk.think /\ chunk.text = "none" /\ chunk.calls = calls
  BY <1>2, <1>3 DEF Chunk
<1> QED BY <1>1, <1>3, <1>4 DEF Says

LEMMA SetState ==
  ASSUME NEW s, IsState(s), NEW f \in Fields, NEW x, NEW r, r = [s EXCEPT ![f] = x]
  PROVE  Alters(s, r, {f}) /\ r[f] = x
BY DEF IsState, Alters

\* The first translator is done with an event.
Turned(v, s, y, u, m) ==
  /\ Heard(v, y.state, y.chunks, u, m) /\ FinishOk(u, m) /\ Alters(s, y.state, FirstFields)

\* One chunk before the finish, or none.
LEMMA TurnedLive ==
  ASSUME Setting, NEW v, NEW s, Carried(v, s, said, 0), SaidOk(said), said.stage # "over",
         NEW base, Alters(s, base, FirstFields), NEW chunk \in Chunk,
         NEW u, Speaks(chunk, said, u), NEW m, m = IF chunk.finish THEN 1 ELSE 0, FinishOk(u, m),
         NEW y, y = Yield(<<chunk>>, base)
  PROVE  Turned(v, s, y, u, m)
<1>1. y.state = base /\ y.chunks = Append(<<>>, chunk)
  BY DEF Yield
<1>2. Carried(v, base, said, 0)
  BY AlikeKeeps DEF Setting
<1>3. Heard(v, base, <<>>, said, 0)
  BY <1>2, HeardNothing
<1>4. said.calls \in Nat /\ (format \notin {"openai", "claude"} => ~said.marked)
  BY DEF SaidOk, WordsOk
<1>5. Heard(v, base, Append(<<>>, chunk), u, m)
  BY <1>3, <1>4, HeardLive
<1> QED BY <1>1, <1>5 DEF Turned

LEMMA TurnedQuiet ==
  ASSUME Setting, NEW v, NEW s, NEW n, Carried(v, s, said, n),
         NEW base, Alters(s, base, FirstFields), NEW u, Quiet(said, u), FinishOk(u, n),
         NEW y, y = Yield(<<>>, base)
  PROVE  Turned(v, s, y, u, n)
<1>1. y.state = base /\ y.chunks = <<>>
  BY DEF Yield
<1>2. ~(client = "claude" /\ format = "claude")
  BY DEF Setting
<1>3. Carried(v, base, u, n)
  BY <1>2, AlikeKeeps, QuietKeeps
<1>4. Heard(v, base, <<>>, u, n)
  BY <1>3, HeardNothing
<1> QED BY <1>1, <1>4 DEF Turned

LEMMA SetSent ==
  ASSUME NEW s, IsState(s), NEW r, r = [s EXCEPT !.finishReasonSent = TRUE]
  PROVE  Alters(s, r, {"finishReasonSent"}) /\ r.finishReasonSent
BY DEF IsState, Alters, Fields

LEMMA SetIndex ==
  ASSUME NEW s, IsState(s), NEW x, NEW r, r = [s EXCEPT !.toolCallIndex = x]
  PROVE  Alters(s, r, {"toolCallIndex"}) /\ r.toolCallIndex = x
BY DEF IsState, Alters, Fields

-----------------------------------------------------------------------------
(* Responses providers.                                                       *)
RespOk(s, t, n) ==
  /\ s.toolCallIndex \in Nat /\ t.calls = s.toolCallIndex + (IF t.block = "call" THEN 1 ELSE 0)
  /\ n = IF s.finishReasonSent THEN 1 ELSE 0
  /\ s.finishReasonSent <=> t.stage = "finished"
  /\ t.block = "call" => t.stage = "body"
  /\ s.begun <=> t.events > 0

LEMMA ResponsesShape ==
  ASSUME NEW e \in ResponsesEvents
  PROVE  /\ said.stage = "finished" => e.type \in {"failed", "completed"} /\ e.parts = <<>> /\ e.finish
         /\ said.stage # "finished" /\ said.block = "call" =>
              \/ e.type = "args" /\ e.parts = <<"args">> /\ ~e.finish
              \/ e.type = "item_done" /\ e.parts = <<>> /\ ~e.finish
         /\ said.stage # "finished" /\ said.block # "call" =>
              \/ e.type = "text" /\ e.parts = <<"text">> /\ ~e.finish
              \/ e.type = "think" /\ e.parts = <<"think">> /\ ~e.finish
              \/ e.type = "item_added" /\ e.parts = <<"call">> /\ ~e.finish
              \/ e.type = "completed" /\ e.parts = <<>> /\ e.finish
              \/ e.type = "failed" /\ e.parts = <<"text">> /\ e.finish
BY DEF ResponsesEvents, E

\* An event of one part, told in one chunk.
LEMMA OnePart ==
  ASSUME Setting, format \notin {"claude", "ollama"}, NEW v, NEW s, Carried(v, s, said, 0),
         SaidOk(said), said.stage \notin {"finished", "over"},
         NEW e, NEW p \in Spoken, e.parts = <<p>>, e.type # "message_delta",
         NEW base, Alters(s, base, FirstFields), NEW chunk \in Chunk, Says(chunk, p, said),
         chunk.finish <=> e.finish,
         NEW u, u = Said(e), NEW m, m = IF chunk.finish THEN 1 ELSE 0,
         NEW y, y = Yield(<<chunk>>, base)
  PROVE  Turned(v, s, y, u, m)
<1>1. WordsOk(said) /\ Listed(e)
  BY DEF SaidOk, Listed
<1>2. Adds(p, said, u) /\ (said.buried => u.buried) /\ u.stage # "over"
  BY PartSaid
<1>3. Speaks(chunk, said, u)
  BY <1>1, <1>2, SaysPart DEF Speaks
<1>4. FinishOk(u, m)
  <2>1. u.stage = StageAfter(e, said.stage) /\ said.stage \in {"new", "body", "delta"}
    BY <1>1, SaidKeeps DEF SaidOk
  <2>2. said.stage # "delta"
    BY DEF SaidOk
  <2> QED BY <2>1, <2>2 DEF FinishOk, StageAfter
<1> QED BY <1>3, <1>4, TurnedLive

\* An event without words.
LEMMA NoPart ==
  ASSUME SaidOk(said), said.stage # "over", NEW e, e.parts = <<>>,
         e.type = "message_delta" => format = "claude",
         format = "claude" => (BlockAfter(e, said.block) = "think" <=> said.block = "think"),
         NEW u, u = Said(e)
  PROVE  Quiet(said, u) /\ SaidOk(u) /\ u.stage = StageAfter(e, said.stage)
<1>1. Listed(e)
  BY DEF Listed
<1> QED BY <1>1, QuietSaid, SaidKeeps

LEMMA NextBlock ==
  ASSUME SaidOk(said), said.stage # "over", NEW e, Listed(e),
         e.type = "message_delta" => format = "claude", NEW u, u = Said(e)
  PROVE  /\ u.block = BlockAfter(e, said.block)
         /\ u.number = IF e.type = "stop" THEN said.number + 1 ELSE said.number
<1> DEFINE m == SaidWords(e)
<1>1. WordsOk(m) /\ Changes(said, m, Words) /\ IsSaid(m)
  BY WordsKeep DEF WordsOk
<1>2. Changes(m, u, Beside) /\ Passing(e, m, u)
  BY <1>1, SaidPasses
<1> HIDE DEF m
<1>3. m.block = said.block /\ m.number = said.number
  BY <1>1 DEF Changes, SaidFields, Words
<1> QED BY <1>2, <1>3 DEF Passing

LEMMA ResponsesTurned ==
  ASSUME Setting, format = "responses", SaidOk(said), said.stage # "over",
         NEW n, FinishOk(said, n), NEW v, NEW s, Carried(v, s, said, n), RespOk(s, said, n),
         NEW e \in ResponsesEvents, NEW y, y = ResponsesToOpenAi(e, s), NEW u, u = Said(e)
  PROVE  \E m : Turned(v, s, y, u, m) /\ RespOk(y.state, u, m)
<1> DEFINE a == [s EXCEPT !.begun = TRUE]
           b == [a EXCEPT !.finishReasonSent = TRUE]
           c == [a EXCEPT !.toolCallIndex = a.toolCallIndex + 1]
           i == s.toolCallIndex
<1>0. IsState(s)
  BY CarriedIsState
<1>1. Alters(s, a, {"begun"}) /\ a.begun
  BY <1>0, SetState DEF Fields
<1>y. /\ e.type = "text" => y = Yield(<<Text("text")>>, a)
      /\ e.type = "think" => y = Yield(<<Thought>>, a)
      /\ e.type = "item_added" => y = Yield(<<Call(a.toolCallIndex, TRUE, FALSE)>>, a)
      /\ e.type = "args" => y = Yield(<<Call(a.toolCallIndex, FALSE, TRUE)>>, a)
      /\ e.type = "item_done" => y = Yield(<<>>, c)
      /\ e.type = "completed" => y = IF a.finishReasonSent THEN Yield(<<>>, a) ELSE Yield(<<Finish>>, b)
      /\ e.type = "failed" => y = IF a.finishReasonSent THEN Yield(<<>>, a)
                                  ELSE Yield(<<[Text("text") EXCEPT !.finish = TRUE]>>, b)
  BY DEF ResponsesToOpenAi, FinishOnce
<1> HIDE DEF a
<1>2. Alters(a, b, {"finishReasonSent"}) /\ b.finishReasonSent
  <2>1. IsState(a)
    BY <1>1 DEF Alters
  <2> QED BY <2>1, SetSent
<1>3. Alters(a, c, {"toolCallIndex"}) /\ c.toolCallIndex = a.toolCallIndex + 1
  <2>1. IsState(a)
    BY <1>1 DEF Alters
  <2> QED BY <2>1, SetIndex
<1> HIDE DEF b, c
<1>4. Alters(s, a, FirstFields) /\ Alters(s, b, FirstFields) /\ Alters(s, c, FirstFields)
  BY <1>1, <1>2, <1>3 DEF Alters, FirstFields, OwnFields
<1>5. /\ a.toolCallIndex = i /\ b.toolCallIndex = i /\ c.toolCallIndex = i + 1
      /\ a.finishReasonSent = s.finishReasonSent /\ c.finishReasonSent = s.finishReasonSent
      /\ b.begun /\ c.begun
  BY <1>1, <1>2, <1>3 DEF Alters, Fields
<1> HIDE DEF i
<1>6. i \in Nat /\ said.stage \in {"new", "body", "finished"}
  BY DEF RespOk, SaidOk, i
<1>7. Listed(e) /\ e.type # "message_delta" /\ e.type # "stop"
  BY ResponsesShape DEF Listed, Spoken
<1>8. SaidOk(u) /\ u.stage = StageAfter(e, said.stage) /\ u.events > 0
  BY <1>7, SaidKeeps DEF SaidOk
<1>9. u.block = BlockAfter(e, said.block)
  BY <1>7, NextBlock
<1>10. CASE said.stage = "finished"
  <2>1. e.type \in {"failed", "completed"} /\ e.parts = <<>> /\ e.finish
    BY <1>10, ResponsesShape
  <2>2. y = Yield(<<>>, a)
    BY <1>y, <1>5, <1>10, <2>1 DEF RespOk
  <2>3. Quiet(said, u)
    BY <2>1, NoPart
  <2>4. FinishOk(u, n)
    BY <1>7, <1>8, <1>10 DEF FinishOk, StageAfter
  <2>5. Turned(v, s, y, u, n)
    BY <1>4, <2>2, <2>3, <2>4, TurnedQuiet
  <2>6. u.calls = said.calls /\ u.stage = "finished" /\ u.block = said.block
    BY <1>7, <1>8, <1>9, <1>10, <2>1, <2>3 DEF Quiet, StageAfter, BlockAfter, OpensBlock
  <2>7. RespOk(a, u, n)
    BY <1>1, <1>5, <1>8, <1>10, <2>6 DEF RespOk, i
  <2>8. y.state = a
    BY <2>2 DEF Yield
  <2> QED BY <2>5, <2>7, <2>8
<1>11. CASE said.stage # "finished" /\ e.type = "item_done"
  <2>1. said.block = "call" /\ e.parts = <<>> /\ ~e.finish
    BY <1>11, ResponsesShape
  <2>2. y = Yield(<<>>, c) /\ y.state = c
    BY <1>y, <1>11 DEF Yield
  <2>3. Quiet(said, u)
    BY <1>11, <2>1, NoPart
  <2>4. u.stage = "body" /\ n = 0
    BY <1>6, <1>8, <1>11, <2>1 DEF StageAfter, FinishOk
  <2>5. Turned(v, s, y, u, n)
    BY <1>4, <2>2, <2>3, <2>4, TurnedQuiet DEF FinishOk
  <2>6. u.calls = said.calls /\ u.block = "none"
    BY <1>9, <1>11, <2>3 DEF Quiet, BlockAfter, OpensBlock
  <2>7. RespOk(c, u, n)
    BY <1>5, <1>6, <1>8, <1>11, <2>1, <2>4, <2>6 DEF RespOk, i
  <2> QED BY <2>2, <2>5, <2>7
<1>12. CASE said.stage # "finished" /\ e.type = "completed"
  <2>1. said.block # "call" /\ e.parts = <<>> /\ e.finish /\ n = 0
    BY <1>6, <1>12, ResponsesShape DEF FinishOk
  <2>2. y = Yield(<<Finish>>, b) /\ y.state = b
    BY <1>y, <1>5, <1>12 DEF Yield, RespOk
  <2>3. Quiet(said, u)
    BY <1>12, <2>1, NoPart
  <2>4. Speaks(Finish, said, u)
    BY <2>3, EmptyChunk, SaysNothing
  <2>5. u.stage = "finished" /\ FinishOk(u, 1)
    BY <1>8, <1>12, <2>1 DEF StageAfter, FinishOk
  <2>6. Turned(v, s, y, u, 1)
    BY <1>4, <2>1, <2>2, <2>4, <2>5, EmptyChunk, TurnedLive
  <2>7. u.calls = said.calls /\ u.block = said.block
    BY <1>9, <1>12, <2>3 DEF Quiet, BlockAfter, OpensBlock
  <2>8. RespOk(b, u, 1)
    BY <1>2, <1>5, <1>6, <1>8, <1>12, <2>1, <2>5, <2>7 DEF RespOk, i
  <2> QED BY <2>2, <2>6, <2>8
<1>13. ASSUME NEW p \in Spoken, NEW chunk \in Chunk, NEW base, said.stage # "finished",
              e.parts = <<p>>, Says(chunk, p, said), chunk.finish <=> e.finish,
              y = Yield(<<chunk>>, base), base = IF e.finish THEN b ELSE a,
              (IF u.block = "call" THEN 1 ELSE 0) =
                 (IF said.block = "call" THEN 1 ELSE 0) + (IF p = "call" THEN 1 ELSE 0),
              u.block = "call" => ~e.finish
       PROVE  \E m : Turned(v, s, y, u, m) /\ RespOk(y.state, u, m)
  <2> DEFINE m == IF chunk.finish THEN 1 ELSE 0
  <2>1. Alters(s, base, FirstFields)
    BY <1>4, <1>13
  <2>2. n = 0
    BY <1>6, <1>13 DEF FinishOk
  <2>3. m = IF chunk.finish THEN 1 ELSE 0
    OBVIOUS
  <2> HIDE DEF m
  <2>4. Turned(v, s, y, u, m)
    BY <1>7, <1>13, <2>1, <2>2, <2>3, OnePart
  <2>5. Adds(p, said, u)
    BY <1>7, <1>13, PartSaid
  <2>6. u.calls = i + (IF u.block = "call" THEN 1 ELSE 0)
    BY <1>6, <1>13, <2>5 DEF Adds, RespOk, i
  <2>7. u.stage = IF e.finish THEN "finished" ELSE "body"
    BY <1>6, <1>7, <1>8, <1>13 DEF StageAfter
  <2>8. base.toolCallIndex = i /\ base.begun /\ (base.finishReasonSent <=> e.finish)
    BY <1>1, <1>2, <1>5, <1>13 DEF RespOk
  <2>9. RespOk(base, u, m)
    BY <1>6, <1>8, <1>13, <2>3, <2>6, <2>7, <2>8 DEF RespOk
  <2>10. y.state = base
    BY <1>13 DEF Yield
  <2> QED BY <2>4, <2>9, <2>10
<1>14. CASE said.stage # "finished" /\ e.type = "text"
  <2>1. said.block # "call" /\ e.parts = <<"text">> /\ ~e.finish /\ "text" \in Spoken
    BY <1>14, ResponsesShape DEF Spoken
  <2>2. u.block = said.block
    BY <1>9, <1>14 DEF BlockAfter, OpensBlock
  <2>3. Text("text") \in Chunk /\ Says(Text("text"), "text", said) /\ ~Text("text").finish
    BY TextChunk
  <2> QED BY <1>y, <1>13, <1>14, <2>1, <2>2, <2>3
<1>15. CASE said.stage # "finished" /\ e.type = "think"
  <2>1. said.block # "call" /\ e.parts = <<"think">> /\ ~e.finish /\ "think" \in Spoken
    BY <1>15, ResponsesShape DEF Spoken
  <2>2. u.block = said.block
    BY <1>9, <1>15 DEF BlockAfter, OpensBlock
  <2>3. Thought \in Chunk /\ Says(Thought, "think", said) /\ ~Thought.finish
    BY ThoughtChunk
  <2> QED BY <1>y, <1>13, <1>15, <2>1, <2>2, <2>3
<1>16. CASE said.stage # "finished" /\ e.type = "failed"
  <2> DEFINE chunk == [Text("text") EXCEPT !.finish = TRUE]
  <2>1. said.block # "call" /\ e.parts = <<"text">> /\ e.finish /\ "text" \in Spoken
    BY <1>16, ResponsesShape DEF Spoken
  <2>2. u.block = said.block
    BY <1>9, <1>16 DEF BlockAfter, OpensBlock
  <2>3. chunk \in Chunk /\ Says(chunk, "text", said) /\ chunk.finish
    <3>1. <<>> \in Seq(Piece)
      OBVIOUS
    <3> QED BY <3>1 DEF Text, Empty, Chunk, Says
  <2>4. y = Yield(<<chunk>>, b)
    BY <1>y, <1>5, <1>16 DEF RespOk
  <2> HIDE DEF chunk
  <2> QED BY <1>13, <1>16, <2>1, <2>2, <2>3, <2>4
<1>17. CASE said.stage # "finished" /\ e.type = "item_added"
  <2> DEFINE chunk == Call(i, TRUE, FALSE)
             p == "call"
  <2>1. said.block # "call" /\ e.parts = <<p>> /\ ~e.finish /\ p \in Spoken /\ p = "call"
    BY <1>17, ResponsesShape DEF Spoken
  <2>2. u.block = "call"
    BY <1>9, <1>17 DEF BlockAfter, OpensBlock
  <2>3. i = said.calls
    BY <1>6, <2>1 DEF RespOk, i
  <2>4. chunk \in Chunk /\ ~chunk.finish /\ Says(chunk, "call", said)
    BY <1>6, <2>3, CallChunk
  <2>5. y = Yield(<<chunk>>, a)
    BY <1>y, <1>5, <1>17
  <2> HIDE DEF chunk, p
  <2> QED BY <1>13, <1>17, <2>1, <2>2, <2>4, <2>5
<1>18. CASE said.stage # "finished" /\ e.type = "args"
  <2> DEFINE chunk == Call(i, FALSE, TRUE)
             p == "args"
  <2>1. said.block = "call" /\ e.parts = <<p>> /\ ~e.finish /\ p \in Spoken /\ p = "args"
    BY <1>18, ResponsesShape DEF Spoken
  <2>2. u.block = said.block
    BY <1>9, <1>18 DEF BlockAfter, OpensBlock
  <2>3. i \in 0..(said.calls - 1)
    BY <1>6, <2>1 DEF RespOk, i
  <2>4. chunk \in Chunk /\ ~chunk.finish /\ Says(chunk, "args", said)
    BY <1>6, <2>3, CallChunk
  <2>5. y = Yield(<<chunk>>, a)
    BY <1>y, <1>5, <1>18
  <2> HIDE DEF chunk, p
  <2> QED BY <1>13, <1>18, <2>1, <2>2, <2>4, <2>5
<1>19. \/ said.stage = "finished"
       \/ e.type \in {"text", "think", "item_added", "args", "item_done", "completed", "failed"}
  BY ResponsesShape
<1> QED BY <1>10, <1>11, <1>12, <1>14, <1>15, <1>16, <1>17, <1>18, <1>19

-----------------------------------------------------------------------------
(* Claude providers.                                                          *)
\* The calls so far under the numbers of their blocks.
BlockCalls(s, t) ==
  /\ s.toolCallIndex = t.calls /\ s.toolCalls \in Seq(CallEntry) /\ Len(s.toolCalls) = t.calls
  /\ \A j \in 1..t.calls : /\ s.toolCalls[j].value = j - 1
                           /\ s.toolCalls[j].key < t.number + (IF t.block = "call" THEN 1 ELSE 0)
  /\ t.block = "call" => \E j \in 1..t.calls : s.toolCalls[j].key = t.number

ClaudeOk(s, t, n) ==
  /\ BlockCalls(s, t)
  /\ s.serverTool = IF t.block = "server" THEN t.number ELSE None
  /\ s.thinkingBlock = IF t.block = "think" THEN t.number ELSE None
  /\ n = IF s.finishReasonSent THEN 1 ELSE 0
  /\ s.finishReasonSent => t.stage \in {"delta", "finished"}
  /\ t.block # "none" => t.stage = "body"
  /\ t.block \in {"none", "text", "think", "call", "server"}

LEMMA BlockCallTyped ==
  ASSUME NEW s, NEW t, t.calls \in Nat, BlockCalls(s, t), NEW j \in 1..t.calls
  PROVE  s.toolCalls[j].key \in Nat /\ s.toolCalls[j].value = j - 1
<1>1. s.toolCalls[j] \in CallEntry
  BY DEF BlockCalls
<1> QED BY <1>1 DEF BlockCalls, CallEntry

\* A step inside a block, into one or to its end; no call is begun.
Moves(t, u) ==
  \/ u.number = t.number /\ (u.block = "call" <=> t.block = "call")
  \/ u.number = t.number + 1 /\ u.block = "none"

LEMMA BlockCallsKeep ==
  ASSUME NEW s, NEW t, t.calls \in Nat, t.number \in Nat, BlockCalls(s, t), NEW r, NEW u,
         u.calls = t.calls, r.toolCallIndex = t.calls, r.toolCalls = s.toolCalls, Moves(t, u)
  PROVE  BlockCalls(r, u)
<1>1. \A j \in 1..t.calls : s.toolCalls[j].key \in Nat
  BY BlockCallTyped
<1>2. ASSUME u.number = t.number, u.block = "call" <=> t.block = "call"
      PROVE  BlockCalls(r, u)
  BY <1>1, <1>2 DEF BlockCalls
<1>3. ASSUME u.number = t.number + 1, u.block = "none"
      PROVE  BlockCalls(r, u)
  BY <1>1, <1>3 DEF BlockCalls
<1> QED BY <1>2, <1>3 DEF Moves

LEMMA BlockCallFound ==
  ASSUME NEW s, NEW t, t.calls \in Nat, BlockCalls(s, t), t.block = "call"
  PROVE  Has(s.toolCalls, t.number) /\ Get(s.toolCalls, t.number) \in 0..(t.calls - 1)
<1> DEFINE i == CHOOSE j \in DOMAIN s.toolCalls : s.toolCalls[j].key = t.number
<1>1. DOMAIN s.toolCalls = 1..t.calls
  BY DEF BlockCalls
<1>2. \E j \in DOMAIN s.toolCalls : s.toolCalls[j].key = t.number
  BY <1>1 DEF BlockCalls
<1>3. i \in 1..t.calls
  BY <1>1, <1>2
<1>4. Get(s.toolCalls, t.number) = s.toolCalls[i].value
  BY DEF Get
<1> HIDE DEF i
<1>5. s.toolCalls[i].value = i - 1
  BY <1>3 DEF BlockCalls
<1> QED BY <1>2, <1>3, <1>4, <1>5 DEF Has

LEMMA BlockCallNew ==
  ASSUME NEW s, NEW t, t.calls \in Nat, t.number \in Nat, BlockCalls(s, t), t.block # "call",
         NEW r, NEW u, u.calls = t.calls + 1, u.number = t.number, u.block = "call",
         r.toolCallIndex = t.calls + 1, r.toolCalls = Put(s.toolCalls, t.number, t.calls)
  PROVE  BlockCalls(r, u)
<1> DEFINE x == [key |-> t.number, value |-> t.calls]
           more == r.toolCalls
<1>1. ASSUME NEW j \in 1..t.calls
      PROVE  s.toolCalls[j].key \in Nat /\ s.toolCalls[j].key < t.number
  <2>1. s.toolCalls[j].key \in Nat
    BY BlockCallTyped
  <2> QED BY <2>1 DEF BlockCalls
<1>2. ~Has(s.toolCalls, t.number)
  <2>1. DOMAIN s.toolCalls = 1..t.calls
    BY DEF BlockCalls
  <2> QED BY <1>1, <2>1 DEF Has
<1>3. more = Append(s.toolCalls, x)
  BY <1>2 DEF Put
<1>4. x \in CallEntry /\ x.key = t.number /\ x.value = t.calls
  BY DEF CallEntry
<1> HIDE DEF x, more
<1>5. /\ more \in Seq(CallEntry) /\ Len(more) = t.calls + 1 /\ more[t.calls + 1] = x
      /\ \A j \in 1..t.calls : more[j] = s.toolCalls[j]
  BY <1>3, <1>4 DEF BlockCalls
<1>6. ASSUME NEW j \in 1..(t.calls + 1)
      PROVE  more[j].value = j - 1 /\ more[j].key < t.number + 1
  <2>1. CASE j = t.calls + 1
    BY <1>4, <1>5, <2>1
  <2>2. CASE j \in 1..t.calls
    <3>1. s.toolCalls[j].value = j - 1 /\ s.toolCalls[j].key \in Nat /\ s.toolCalls[j].key < t.number
      BY <1>1, <2>2, BlockCallTyped
    <3>2. more[j] = s.toolCalls[j]
      BY <1>5, <2>2
    <3> DEFINE k == s.toolCalls[j].key
    <3>3. k \in Nat /\ k < t.number
      BY <3>1
    <3> HIDE DEF k
    <3>4. k < t.number + 1
      BY <3>3
    <3> QED BY <3>1, <3>2, <3>4 DEF k
  <2> QED BY <2>1, <2>2
<1>7. t.calls + 1 \in 1..(t.calls + 1) /\ more[t.calls + 1].key = t.number
  BY <1>4, <1>5
<1>8. r.toolCalls = more
  BY DEF more
<1> QED BY <1>5, <1>6, <1>7, <1>8 DEF BlockCalls

LEMMA ClaudeShape ==
  ASSUME SaidOk(said), NEW e \in ClaudeEvents
  PROVE  \/ e.type = "message_start" /\ said.stage = "new" /\ e.parts = <<>> /\ ~e.finish
         \/ /\ said.stage = "body" /\ ~e.finish /\ e.n = said.number
            /\ \/ e.type = "text_start" /\ said.block = "none" /\ e.parts = <<>>
               \/ e.type = "think_start" /\ said.block = "none" /\ e.parts = <<>>
               \/ e.type = "server_start" /\ said.block = "none" /\ e.parts = <<>>
               \/ e.type = "call_start" /\ said.block = "none" /\ e.parts = <<"call">>
               \/ e.type = "stop" /\ said.block = "think" /\ e.parts = <<"</think>">>
               \/ e.type = "stop" /\ said.block \notin {"none", "think"} /\ e.parts = <<>>
               \/ e.type = "delta" /\ said.block = "call" /\ e.parts = <<"args">>
               \/ e.type = "delta" /\ said.block = "server" /\ e.parts = <<>>
               \/ e.type = "delta" /\ said.block \notin {"none", "call", "server"} /\ e.parts = <<said.block>>
         \/ e.type = "message_delta" /\ said.stage = "body" /\ said.block = "none" /\ e.parts = <<>>
         \/ e.type = "message_stop" /\ said.stage = "delta" /\ e.parts = <<>> /\ e.finish
<1>1. CASE said.stage = "new"
  BY <1>1 DEF ClaudeEvents, E
<1>2. CASE said.stage = "body" /\ said.block = "none"
  BY <1>2 DEF ClaudeEvents, E
<1>3. CASE said.stage = "body" /\ said.block # "none"
  BY <1>3 DEF ClaudeEvents, E
<1>4. CASE said.stage = "delta"
  BY <1>4 DEF ClaudeEvents, E
<1>5. CASE said.stage \notin {"new", "body", "delta"}
  BY <1>5 DEF ClaudeEvents
<1> QED BY <1>1, <1>2, <1>3, <1>4, <1>5

LEMMA SetServer ==
  ASSUME NEW s, IsState(s), NEW x, NEW r, r = [s EXCEPT !.serverTool = x]
  PROVE  Alters(s, r, {"serverTool"}) /\ r.serverTool = x
BY DEF IsState, Alters, Fields

LEMMA SetThinking ==
  ASSUME NEW s, IsState(s), NEW x, NEW r, r = [s EXCEPT !.thinkingBlock = x]
  PROVE  Alters(s, r, {"thinkingBlock"}) /\ r.thinkingBlock = x
BY DEF IsState, Alters, Fields

LEMMA SetToolCalls ==
  ASSUME NEW s, IsState(s), NEW x, NEW r, r = [s EXCEPT !.toolCalls = x]
  PROVE  Alters(s, r, {"toolCalls"}) /\ r.toolCalls = x
BY DEF IsState, Alters, Fields

\* A block event that says one part of its own, or none.
LEMMA ClaudeQuiet ==
  ASSUME Setting, format = "claude", SaidOk(said), said.stage # "over",
         NEW n, NEW v, NEW s, Carried(v, s, said, n), NEW e, e.parts = <<>>,
         BlockAfter(e, said.block) = "think" <=> said.block = "think",
         NEW base, Alters(s, base, FirstFields), NEW u, u = Said(e), FinishOk(u, n),
         NEW y, y = Yield(<<>>, base)
  PROVE  Turned(v, s, y, u, n)
<1>1. Quiet(said, u)
  BY NoPart
<1> QED BY <1>1, TurnedQuiet

LEMMA ClaudeSays ==
  ASSUME Setting, format = "claude", SaidOk(said), said.stage = "body",
         NEW v, NEW s, Carried(v, s, said, 0), NEW e, ~e.finish, e.type # "message_delta",
         NEW p \in Spoken, e.parts = <<p>>,
         NEW base, Alters(s, base, FirstFields), NEW chunk \in Chunk, Says(chunk, p, said), ~chunk.finish,
         p = "text" => said.block # "think",
         p = "</think>" => BlockAfter(e, said.block) # "think",
         p # "</think>" => (BlockAfter(e, said.block) = "think" <=> said.block = "think"),
         NEW u, u = Said(e), NEW y, y = Yield(<<chunk>>, base)
  PROVE  Turned(v, s, y, u, 0)
<1>1. WordsOk(said) /\ Listed(e)
  BY DEF SaidOk, Listed
<1>2. Adds(p, said, u) /\ (said.buried => u.buried) /\ u.stage # "over"
  BY PartSaid
<1>3. u.block = BlockAfter(e, said.block) /\ u.stage = StageAfter(e, said.stage)
  BY <1>1, NextBlock, SaidKeeps
<1>4. SpeaksCalls(chunk, said, u) /\ SpeaksWords(chunk, said, u) /\ SpeaksOrder(chunk, said, u)
  BY <1>1, <1>2, SaysPart
<1>5. p \in {"text", "think", "call", "args", "</think>"}
  BY DEF Spoken
<1>6. SpeaksMode(chunk, said, u)
  BY <1>2, <1>3, <1>5 DEF SpeaksMode, Mode, Says
<1>7. Speaks(chunk, said, u)
  BY <1>4, <1>6 DEF Speaks
<1>8. FinishOk(u, 0)
  BY <1>3 DEF FinishOk, StageAfter
<1> QED BY <1>7, <1>8, TurnedLive

ClaudeCase(n, v, s, e, y, u) ==
  /\ Setting /\ format = "claude" /\ SaidOk(said) /\ said.stage # "over"
  /\ FinishOk(said, n) /\ Carried(v, s, said, n) /\ ClaudeOk(s, said, n)
  /\ y = ClaudeToOpenAi(e, s) /\ u = Said(e)

ClaudeDone(v, s, y, u) == \E m : Turned(v, s, y, u, m) /\ ClaudeOk(y.state, u, m)

LEMMA ClaudeFacts ==
  ASSUME NEW n, NEW v, NEW s, NEW e, NEW y, NEW u, ClaudeCase(n, v, s, e, y, u)
  PROVE  /\ IsState(s) /\ said.calls \in Nat /\ said.number \in Nat
         /\ BlockCalls(s, said) /\ s.toolCallIndex = said.calls
         /\ FirstFields = OwnFields \cup {"toolCalls"}
         /\ said.stage \in {"new", "body"} => n = 0 /\ ~s.finishReasonSent
         /\ said.number # None /\ said.number + 1 # None
<1>1. IsState(s)
  BY CarriedIsState DEF ClaudeCase
<1>2. said.calls \in Nat /\ said.number \in Nat
  BY DEF ClaudeCase, SaidOk, WordsOk
<1>3. BlockCalls(s, said) /\ s.toolCallIndex = said.calls
  BY DEF ClaudeCase, ClaudeOk, BlockCalls
<1>4. FirstFields = OwnFields \cup {"toolCalls"}
  BY DEF ClaudeCase, FirstFields
<1>5. said.stage \in {"new", "body"} => n = 0 /\ ~s.finishReasonSent
  BY DEF ClaudeCase, FinishOk, ClaudeOk
<1>6. said.number # None /\ said.number + 1 # None
  BY <1>2 DEF None
<1> QED BY <1>1, <1>2, <1>3, <1>4, <1>5, <1>6

\* The state a block event without words leaves.
LEMMA ClaudeStill ==
  ASSUME NEW n, NEW v, NEW s, NEW e, NEW y, NEW u, ClaudeCase(n, v, s, e, y, u), e.parts = <<>>,
         e.type \in {"message_start", "text_start", "think_start", "server_start", "stop", "delta"},
         ~e.finish, said.stage \in {"new", "body"}
  PROVE  /\ n = 0 /\ u.stage = "body" /\ FinishOk(u, 0) /\ u.calls = said.calls
         /\ u.block = BlockAfter(e, said.block)
         /\ u.number = IF e.type = "stop" THEN said.number + 1 ELSE said.number
<1>1. Listed(e) /\ SaidOk(said) /\ said.stage # "over" /\ e.type # "message_delta"
  BY DEF Listed, ClaudeCase
<1>2. u.block = BlockAfter(e, said.block) /\ u.number = IF e.type = "stop" THEN said.number + 1 ELSE said.number
  BY <1>1, NextBlock DEF ClaudeCase
<1>3. u.stage = StageAfter(e, said.stage)
  BY <1>1, SaidKeeps DEF ClaudeCase
<1>4. u.stage = "body"
  BY <1>1, <1>3 DEF StageAfter
<1>5. n = 0
  BY ClaudeFacts
<1>6. u.calls = said.calls
  <2>1. said.stage # "finished"
    OBVIOUS
  <2> DEFINE m == SaidWords(e)
  <2>2. m = said
    BY <1>1, <2>1, SaidNothing DEF SaidOk, WordsOk
  <2>3. Changes(m, u, Beside)
    BY <1>1, <2>2, SaidPasses DEF SaidOk, WordsOk, ClaudeCase
  <2> QED BY <2>2, <2>3 DEF Changes, Beside, SaidFields
<1> QED BY <1>2, <1>4, <1>5, <1>6 DEF FinishOk

LEMMA ClaudeStarts ==
  ASSUME NEW n, NEW v, NEW s, NEW e, NEW y, NEW u, ClaudeCase(n, v, s, e, y, u),
         e.type = "message_start", said.stage = "new", e.parts = <<>>, ~e.finish
  PROVE  ClaudeDone(v, s, y, u)
<1> DEFINE a == [s EXCEPT !.toolCallIndex = 0]
<1>1. y = Yield(<<Empty>>, a)
  BY DEF ClaudeCase, ClaudeToOpenAi
<1>2. Alters(s, a, {"toolCallIndex"}) /\ a.toolCallIndex = 0
  <2>1. IsState(s)
    BY ClaudeFacts
  <2> QED BY <2>1, SetIndex
<1> HIDE DEF a
<1>3. /\ n = 0 /\ u.stage = "body" /\ FinishOk(u, 0) /\ u.calls = said.calls
      /\ u.block = said.block /\ u.number = said.number
  BY ClaudeStill DEF BlockAfter, OpensBlock
<1>4. said.calls = 0
  BY DEF ClaudeCase, SaidOk
<1>5. Quiet(said, u)
  BY NoPart DEF ClaudeCase, BlockAfter, OpensBlock
<1>6. Speaks(Empty, said, u)
  BY <1>5, EmptyChunk, SaysNothing
<1>7. Alters(s, a, FirstFields)
  BY <1>2, ClaudeFacts DEF Alters, OwnFields
<1>8. Turned(v, s, y, u, 0)
  BY <1>1, <1>3, <1>6, <1>7, EmptyChunk, TurnedLive DEF ClaudeCase
<1>9. /\ a.toolCalls = s.toolCalls /\ a.serverTool = s.serverTool
      /\ a.thinkingBlock = s.thinkingBlock /\ a.finishReasonSent = s.finishReasonSent
  BY <1>2 DEF Alters, Fields
<1>10. BlockCalls(a, u)
  BY <1>2, <1>3, <1>4, <1>9, ClaudeFacts, BlockCallsKeep DEF Moves
<1>11. ClaudeOk(a, u, 0)
  BY <1>3, <1>9, <1>10, ClaudeFacts DEF ClaudeCase, ClaudeOk
<1> QED BY <1>1, <1>8, <1>11 DEF ClaudeDone, Yield

LEMMA ClaudeOpens ==
  ASSUME NEW n, NEW v, NEW s, NEW e, NEW y, NEW u, ClaudeCase(n, v, s, e, y, u),
         said.stage = "body", ~e.finish, e.n = said.number, said.block = "none", e.parts = <<>>,
         e.type \in {"text_start", "server_start"}
  PROVE  ClaudeDone(v, s, y, u)
<1> DEFINE b == [s EXCEPT !.serverTool = e.n]
           base == IF e.type = "text_start" THEN s ELSE b
<1>1. y = Yield(<<>>, base)
  BY DEF ClaudeCase, ClaudeToOpenAi
<1>2. Alters(s, b, {"serverTool"}) /\ b.serverTool = e.n
  <2>1. IsState(s)
    BY ClaudeFacts
  <2> QED BY <2>1, SetServer
<1> HIDE DEF b
<1>3. /\ n = 0 /\ u.stage = "body" /\ FinishOk(u, 0) /\ u.calls = said.calls
      /\ u.block = (IF e.type = "text_start" THEN "text" ELSE "server") /\ u.number = said.number
  BY ClaudeStill DEF BlockAfter, OpensBlock
<1>4. Alters(s, base, FirstFields)
  BY <1>2, ClaudeFacts DEF Alters, OwnFields
<1>5. Turned(v, s, y, u, 0)
  BY <1>1, <1>3, <1>4, ClaudeQuiet DEF ClaudeCase, BlockAfter, OpensBlock
<1>6. /\ base.toolCalls = s.toolCalls /\ base.toolCallIndex = s.toolCallIndex
      /\ base.thinkingBlock = s.thinkingBlock /\ base.finishReasonSent = s.finishReasonSent
      /\ base.serverTool = IF e.type = "text_start" THEN s.serverTool ELSE e.n
  BY <1>2 DEF Alters, Fields
<1> HIDE DEF base
<1>7. BlockCalls(base, u)
  BY <1>3, <1>6, ClaudeFacts, BlockCallsKeep DEF Moves
<1>8. ClaudeOk(base, u, 0)
  BY <1>3, <1>6, <1>7, ClaudeFacts DEF ClaudeCase, ClaudeOk
<1> QED BY <1>1, <1>5, <1>8 DEF ClaudeDone, Yield

LEMMA ClaudeThinks ==
  ASSUME NEW n, NEW v, NEW s, NEW e, NEW y, NEW u, ClaudeCase(n, v, s, e, y, u),
         said.stage = "body", ~e.finish, e.n = said.number, said.block = "none", e.parts = <<>>,
         e.type = "think_start"
  PROVE  ClaudeDone(v, s, y, u)
<1> DEFINE b == [s EXCEPT !.thinkingBlock = e.n]
           chunk == Text("<think>")
<1>1. y = Yield(<<chunk>>, b)
  BY DEF ClaudeCase, ClaudeToOpenAi
<1>2. Alters(s, b, {"thinkingBlock"}) /\ b.thinkingBlock = e.n
  <2>1. IsState(s)
    BY ClaudeFacts
  <2> QED BY <2>1, SetThinking
<1> HIDE DEF b
<1>3. /\ n = 0 /\ u.stage = "body" /\ FinishOk(u, 0) /\ u.calls = said.calls
      /\ u.block = "think" /\ u.number = said.number
  BY ClaudeStill DEF BlockAfter, OpensBlock
<1>4. Alters(s, b, FirstFields)
  BY <1>2, ClaudeFacts DEF Alters, OwnFields
<1>5. chunk \in Chunk /\ Says(chunk, "<think>", said) /\ ~chunk.finish
  BY TextChunk
<1> HIDE DEF chunk
<1>6. Changes(said, u, Beside) /\ (said.buried => u.buried)
  <2> DEFINE m == SaidWords(e)
  <2>1. m = said /\ IsSaid(said)
    BY SaidNothing DEF ClaudeCase, SaidOk, WordsOk
  <2>2. Changes(m, u, Beside) /\ Passing(e, m, u)
    BY <2>1, SaidPasses DEF ClaudeCase
  <2> QED BY <2>1, <2>2 DEF Passing
<1>7. u.left = said.left /\ (u.resumed = said.resumed)
  BY <1>6 DEF Changes, Beside, SaidFields
<1>8. Order(u) = Order(said)
  BY <1>3, <1>7 DEF Order
<1>9. Speaks(chunk, said, u)
  <2>1. chunk.calls = <<>> /\ chunk.text = "<think>" /\ ~chunk.think
    BY <1>5 DEF Says
  <2>2. format = "claude"
    BY DEF ClaudeCase
  <2>3. SpeaksCalls(chunk, said, u) /\ SpeaksWords(chunk, said, u) /\ SpeaksOrder(chunk, said, u)
    BY <1>3, <1>7, <1>8, <2>1, <2>2 DEF SpeaksCalls, SpeaksWords, SpeaksOrder
  <2>4. SpeaksMode(chunk, said, u)
    BY <1>3, <1>6, <2>1, <2>2 DEF SpeaksMode, Mode
  <2> QED BY <2>3, <2>4 DEF Speaks
<1>10. Turned(v, s, y, u, 0)
  BY <1>1, <1>3, <1>4, <1>5, <1>9, TurnedLive DEF ClaudeCase
<1>11. /\ b.toolCalls = s.toolCalls /\ b.toolCallIndex = s.toolCallIndex
       /\ b.serverTool = s.serverTool /\ b.finishReasonSent = s.finishReasonSent
  BY <1>2 DEF Alters, Fields
<1>12. BlockCalls(b, u)
  BY <1>3, <1>11, ClaudeFacts, BlockCallsKeep DEF Moves
<1>13. ClaudeOk(b, u, 0)
  BY <1>2, <1>3, <1>11, <1>12, ClaudeFacts DEF ClaudeCase, ClaudeOk
<1> QED BY <1>1, <1>10, <1>13 DEF ClaudeDone, Yield

LEMMA ClaudeEndsBlock ==
  ASSUME NEW n, NEW v, NEW s, NEW e, NEW y, NEW u, ClaudeCase(n, v, s, e, y, u),
         said.stage = "body", ~e.finish, e.n = said.number, said.block \notin {"none", "think"},
         e.parts = <<>>, e.type = "stop"
  PROVE  ClaudeDone(v, s, y, u)
<1> DEFINE b == [s EXCEPT !.serverTool = None]
           base == IF said.block = "server" THEN b ELSE s
<1>0. /\ s.serverTool = IF said.block = "server" THEN said.number ELSE None
      /\ s.thinkingBlock = None
  BY DEF ClaudeCase, ClaudeOk
<1>1. y = Yield(<<>>, base)
  <2>1. y = IF e.n = s.serverTool THEN Yield(<<>>, b)
            ELSE IF e.n = s.thinkingBlock
            THEN Yield(<<Text("</think>")>>, [s EXCEPT !.thinkingBlock = None])
            ELSE Yield(<<>>, s)
    BY DEF ClaudeCase, ClaudeToOpenAi
  <2> HIDE DEF b
  <2>2. said.number # None
    BY ClaudeFacts
  <2> QED BY <1>0, <2>1, <2>2
<1>2. Alters(s, b, {"serverTool"}) /\ b.serverTool = None
  <2>1. IsState(s)
    BY ClaudeFacts
  <2> QED BY <2>1, SetServer
<1> HIDE DEF b
<1>3. /\ n = 0 /\ u.stage = "body" /\ FinishOk(u, 0) /\ u.calls = said.calls
      /\ u.block = "none" /\ u.number = said.number + 1
  BY ClaudeStill DEF BlockAfter, OpensBlock
<1>4. Alters(s, base, FirstFields)
  <2>1. IsState(s)
    BY ClaudeFacts
  <2> QED BY <1>2, <2>1, ClaudeFacts DEF Alters, OwnFields
<1>5. Turned(v, s, y, u, 0)
  BY <1>1, <1>3, <1>4, ClaudeQuiet DEF ClaudeCase, BlockAfter, OpensBlock
<1>6. /\ base.toolCalls = s.toolCalls /\ base.toolCallIndex = s.toolCallIndex
      /\ base.thinkingBlock = None /\ base.finishReasonSent = s.finishReasonSent
      /\ base.serverTool = None
  BY <1>0, <1>2 DEF Alters, Fields
<1> HIDE DEF base
<1>7. BlockCalls(base, u)
  BY <1>3, <1>6, ClaudeFacts, BlockCallsKeep DEF Moves
<1>8. ClaudeOk(base, u, 0)
  BY <1>3, <1>6, <1>7, ClaudeFacts DEF ClaudeOk
<1> QED BY <1>1, <1>5, <1>8 DEF ClaudeDone, Yield

\* What a part leaves.
LEMMA ClaudeSaid ==
  ASSUME NEW n, NEW v, NEW s, NEW e, NEW y, NEW u, ClaudeCase(n, v, s, e, y, u),
         NEW p \in Spoken, e.parts = <<p>>, ~e.finish, said.stage = "body", e.type # "message_delta"
  PROVE  /\ n = 0 /\ u.stage = "body" /\ FinishOk(u, 0)
         /\ u.calls = IF p = "call" THEN said.calls + 1 ELSE said.calls
         /\ u.block = BlockAfter(e, said.block)
         /\ u.number = IF e.type = "stop" THEN said.number + 1 ELSE said.number
<1>1. Listed(e) /\ SaidOk(said) /\ said.stage # "over"
  BY DEF Listed, ClaudeCase
<1>2. u.block = BlockAfter(e, said.block) /\ u.number = IF e.type = "stop" THEN said.number + 1 ELSE said.number
  BY <1>1, NextBlock DEF ClaudeCase
<1>3. u.stage = StageAfter(e, said.stage)
  BY <1>1, SaidKeeps DEF ClaudeCase
<1>4. u.stage = "body"
  BY <1>1, <1>3 DEF StageAfter
<1>5. n = 0
  BY ClaudeFacts
<1>6. Adds(p, said, u)
  BY <1>1, PartSaid DEF ClaudeCase
<1> QED BY <1>2, <1>4, <1>5, <1>6 DEF FinishOk, Adds

LEMMA ClaudeStopsThinking ==
  ASSUME NEW n, NEW v, NEW s, NEW e, NEW y, NEW u, ClaudeCase(n, v, s, e, y, u),
         said.stage = "body", ~e.finish, e.n = said.number, said.block = "think",
         e.parts = <<"</think>">>, e.type = "stop"
  PROVE  ClaudeDone(v, s, y, u)
<1> DEFINE b == [s EXCEPT !.thinkingBlock = None]
           p == "</think>"
           chunk == Text(p)
<1>0. s.serverTool = None /\ s.thinkingBlock = said.number
  BY DEF ClaudeCase, ClaudeOk
<1>1. y = Yield(<<chunk>>, b)
  <2>1. y = IF e.n = s.serverTool THEN Yield(<<>>, [s EXCEPT !.serverTool = None])
            ELSE IF e.n = s.thinkingBlock THEN Yield(<<chunk>>, b)
            ELSE Yield(<<>>, s)
    BY DEF ClaudeCase, ClaudeToOpenAi
  <2> HIDE DEF b, chunk
  <2>2. said.number # None
    BY ClaudeFacts
  <2> QED BY <1>0, <2>1, <2>2
<1>2. Alters(s, b, {"thinkingBlock"}) /\ b.thinkingBlock = None
  <2>1. IsState(s)
    BY ClaudeFacts
  <2> QED BY <2>1, SetThinking
<1> HIDE DEF b
<1>p. p \in Spoken /\ e.parts = <<p>> /\ p = "</think>"
  BY DEF Spoken
<1>4. Alters(s, b, FirstFields)
  BY <1>2, ClaudeFacts DEF Alters, OwnFields
<1>5. chunk \in Chunk /\ Says(chunk, p, said) /\ ~chunk.finish
  BY TextChunk
<1> HIDE DEF chunk, p
<1>3. /\ n = 0 /\ u.stage = "body" /\ FinishOk(u, 0) /\ u.calls = said.calls
      /\ u.block = "none" /\ u.number = said.number + 1
  BY <1>p, ClaudeSaid DEF BlockAfter, OpensBlock
<1>6. Turned(v, s, y, u, 0)
  BY <1>1, <1>3, <1>4, <1>5, <1>p, ClaudeSays DEF ClaudeCase, BlockAfter, OpensBlock
<1>7. /\ b.toolCalls = s.toolCalls /\ b.toolCallIndex = s.toolCallIndex
      /\ b.serverTool = None /\ b.finishReasonSent = s.finishReasonSent
  BY <1>0, <1>2 DEF Alters, Fields
<1>8. BlockCalls(b, u)
  BY <1>3, <1>7, ClaudeFacts, BlockCallsKeep DEF Moves
<1>9. ClaudeOk(b, u, 0)
  BY <1>2, <1>3, <1>7, <1>8, ClaudeFacts DEF ClaudeOk
<1> QED BY <1>1, <1>6, <1>9 DEF ClaudeDone, Yield

LEMMA ClaudeBeginsCall ==
  ASSUME NEW n, NEW v, NEW s, NEW e, NEW y, NEW u, ClaudeCase(n, v, s, e, y, u),
         said.stage = "body", ~e.finish, e.n = said.number, said.block = "none",
         e.parts = <<"call">>, e.type = "call_start"
  PROVE  ClaudeDone(v, s, y, u)
<1> DEFINE more == Put(s.toolCalls, e.n, s.toolCallIndex)
           b == [s EXCEPT !.toolCallIndex = @ + 1, !.toolCalls = Put(@, e.n, s.toolCallIndex)]
           p == "call"
           chunk == Call(s.toolCallIndex, TRUE, FALSE)
<1>0. s.serverTool = None /\ s.thinkingBlock = None
  BY DEF ClaudeCase, ClaudeOk
<1>1. y = Yield(<<chunk>>, b)
  BY DEF ClaudeCase, ClaudeToOpenAi
<1>s. IsState(s)
  BY ClaudeFacts
<1> DEFINE k == s.toolCallIndex + 1
           c == [s EXCEPT !.toolCallIndex = k]
<1>x. b = [c EXCEPT !.toolCalls = more]
  OBVIOUS
<1> HIDE DEF more, b, k
<1>z. Alters(s, c, {"toolCallIndex"}) /\ c.toolCallIndex = k
  BY <1>s, SetIndex
<1>w. IsState(c)
  BY <1>z DEF Alters
<1> HIDE DEF c
<1>v. Alters(c, b, {"toolCalls"}) /\ b.toolCalls = more
  BY <1>w, <1>x, SetToolCalls
<1>2. /\ Alters(s, b, {"toolCallIndex", "toolCalls"})
      /\ b.toolCallIndex = s.toolCallIndex + 1 /\ b.toolCalls = more
  BY <1>z, <1>v DEF Alters, Fields, k
<1>p. p \in Spoken /\ e.parts = <<p>> /\ p = "call"
  BY DEF Spoken
<1>4. Alters(s, b, FirstFields)
  BY <1>2, ClaudeFacts DEF Alters, OwnFields
<1>5. chunk \in Chunk /\ Says(chunk, p, said) /\ ~chunk.finish
  BY ClaudeFacts, CallChunk
<1> HIDE DEF chunk, p
<1>3. /\ n = 0 /\ u.stage = "body" /\ FinishOk(u, 0) /\ u.calls = said.calls + 1
      /\ u.block = "call" /\ u.number = said.number
  BY <1>p, ClaudeSaid DEF BlockAfter, OpensBlock
<1>6. Turned(v, s, y, u, 0)
  BY <1>1, <1>3, <1>4, <1>5, <1>p, ClaudeSays DEF ClaudeCase, BlockAfter, OpensBlock
<1>7. /\ b.thinkingBlock = None /\ b.serverTool = None /\ b.finishReasonSent = s.finishReasonSent
  BY <1>0, <1>2 DEF Alters, Fields
<1>8. BlockCalls(b, u)
  <2>1. b.toolCallIndex = said.calls + 1 /\ b.toolCalls = Put(s.toolCalls, said.number, said.calls)
    <3>1. b.toolCallIndex = said.calls + 1 /\ s.toolCallIndex = said.calls /\ b.toolCalls = more
      BY <1>2, ClaudeFacts
    <3>2. e.n = said.number
      OBVIOUS
    <3> QED BY <3>1, <3>2 DEF more
  <2> QED BY <1>3, <2>1, ClaudeFacts, BlockCallNew
<1>9. ClaudeOk(b, u, 0)
  BY <1>3, <1>7, <1>8, ClaudeFacts DEF ClaudeOk
<1> QED BY <1>1, <1>6, <1>9 DEF ClaudeDone, Yield

LEMMA ClaudeServerDelta ==
  ASSUME NEW n, NEW v, NEW s, NEW e, NEW y, NEW u, ClaudeCase(n, v, s, e, y, u),
         said.stage = "body", ~e.finish, e.n = said.number, said.block = "server", e.parts = <<>>,
         e.type = "delta"
  PROVE  ClaudeDone(v, s, y, u)
<1>0. s.serverTool = said.number
  BY DEF ClaudeCase, ClaudeOk
<1>1. y = Yield(<<>>, s)
  BY <1>0 DEF ClaudeCase, ClaudeToOpenAi
<1>3. /\ n = 0 /\ u.stage = "body" /\ FinishOk(u, 0) /\ u.calls = said.calls
      /\ u.block = said.block /\ u.number = said.number
  BY ClaudeStill DEF BlockAfter, OpensBlock
<1>4. Alters(s, s, FirstFields)
  BY ClaudeFacts DEF Alters
<1>5. Turned(v, s, y, u, 0)
  BY <1>1, <1>3, <1>4, ClaudeQuiet DEF ClaudeCase, BlockAfter, OpensBlock
<1>7. BlockCalls(s, u)
  BY <1>3, ClaudeFacts, BlockCallsKeep DEF Moves
<1>8. ClaudeOk(s, u, 0)
  BY <1>3, <1>7, ClaudeFacts DEF ClaudeCase, ClaudeOk
<1> QED BY <1>1, <1>5, <1>8 DEF ClaudeDone, Yield

LEMMA ClaudeDelta ==
  ASSUME NEW n, NEW v, NEW s, NEW e, NEW y, NEW u, ClaudeCase(n, v, s, e, y, u),
         said.stage = "body", ~e.finish, e.n = said.number, said.block \notin {"none", "server"},
         NEW p \in Spoken, e.parts = <<p>>, p = IF said.block = "call" THEN "args" ELSE said.block,
         e.type = "delta"
  PROVE  ClaudeDone(v, s, y, u)
<1> DEFINE i == Get(s.toolCalls, said.number)
           call == Call(i, TRUE, TRUE)
           chunk == IF p = "text" THEN Text("text") ELSE IF p = "think" THEN Thought ELSE call
<1>0. s.serverTool = None /\ said.block \in {"text", "think", "call"}
  BY DEF ClaudeCase, ClaudeOk
<1>b. p \in {"text", "think", "args"} /\ (p = "args" <=> said.block = "call")
      /\ (said.block = "think" <=> p = "think")
  BY <1>0
<1>h. said.block = "call" => Has(s.toolCalls, said.number) /\ i \in 0..(said.calls - 1)
  BY ClaudeFacts, BlockCallFound
<1>1. y = Yield(<<chunk>>, s)
  <2>1. said.number # None
    BY ClaudeFacts
  <2>2. y = Yield(CASE e.parts = <<"text">> -> <<Text("text")>>
                    [] e.parts = <<"think">> -> <<Thought>>
                    [] OTHER -> IF Has(s.toolCalls, e.n) THEN <<call>> ELSE <<>>, s)
    BY <1>0, <2>1 DEF ClaudeCase, ClaudeToOpenAi
  <2> HIDE DEF call
  <2>3. CASE p = "text"
    BY <2>2, <2>3
  <2>4. CASE p = "think"
    BY <2>2, <2>4
  <2>5. CASE p = "args"
    <3>1. Has(s.toolCalls, e.n)
      BY <1>b, <1>h, <2>5
    <3>2. e.parts # <<"text">> /\ e.parts # <<"think">>
      BY <2>5
    <3> QED BY <2>2, <2>5, <3>1, <3>2
  <2> QED BY <1>b, <2>3, <2>4, <2>5
<1>4. Alters(s, s, FirstFields)
  BY ClaudeFacts DEF Alters
<1> HIDE DEF i
<1>5. chunk \in Chunk /\ Says(chunk, p, said) /\ ~chunk.finish
  <2>3. CASE p = "text"
    BY <2>3, TextChunk
  <2>4. CASE p = "think"
    BY <2>4, ThoughtChunk
  <2>5. CASE p = "args"
    <3>1. i \in 0..(said.calls - 1) /\ i \in Nat
      BY <1>b, <1>h, <2>5, ClaudeFacts
    <3>2. call \in Chunk /\ ~call.finish /\ Says(call, "args", said)
      BY <3>1, CallChunk
    <3> QED BY <2>5, <3>2
  <2> QED BY <1>b, <2>3, <2>4, <2>5
<1> HIDE DEF chunk
<1>3. /\ n = 0 /\ u.stage = "body" /\ FinishOk(u, 0) /\ u.calls = said.calls
      /\ u.block = said.block /\ u.number = said.number
  BY <1>b, ClaudeSaid DEF BlockAfter, OpensBlock
<1>6. Turned(v, s, y, u, 0)
  BY <1>b, <1>1, <1>3, <1>4, <1>5, ClaudeSays DEF ClaudeCase, BlockAfter, OpensBlock
<1>7. BlockCalls(s, u)
  BY <1>3, ClaudeFacts, BlockCallsKeep DEF Moves
<1>8. ClaudeOk(s, u, 0)
  BY <1>3, <1>7, ClaudeFacts DEF ClaudeCase, ClaudeOk
<1> QED BY <1>1, <1>6, <1>8 DEF ClaudeDone, Yield

LEMMA ClaudeTells ==
  ASSUME NEW n, NEW v, NEW s, NEW e, NEW y, NEW u, ClaudeCase(n, v, s, e, y, u), e.parts = <<>>,
         \/ e.type = "message_delta" /\ said.stage = "body" /\ said.block = "none"
         \/ e.type = "message_stop" /\ said.stage = "delta" /\ e.finish
  PROVE  ClaudeDone(v, s, y, u)
<1> DEFINE b == [s EXCEPT !.finishReasonSent = TRUE]
           now == e.finish /\ ~s.finishReasonSent
           m == IF now THEN 1 ELSE n
<1>1. y = IF now THEN Yield(<<Finish>>, b) ELSE Yield(<<>>, s)
  <2>1. CASE e.type = "message_delta" /\ said.stage = "body"
    <3>1. ~s.finishReasonSent
      BY <2>1, ClaudeFacts
    <3> QED BY <2>1, <3>1 DEF ClaudeCase, ClaudeToOpenAi
  <2>2. CASE e.type = "message_stop" /\ e.finish
    BY <2>2 DEF ClaudeCase, ClaudeToOpenAi, FinishOnce
  <2> QED BY <2>1, <2>2
<1>s. IsState(s)
  BY ClaudeFacts
<1>2. Alters(s, b, {"finishReasonSent"}) /\ b.finishReasonSent
  BY <1>s, SetSent
<1> HIDE DEF b
<1>3. Listed(e) /\ SaidOk(said) /\ said.stage # "over" /\ format = "claude"
  BY DEF Listed, ClaudeCase
<1>4. /\ u.block = said.block /\ u.number = said.number /\ said.block = "none"
      /\ u.stage = StageAfter(e, said.stage)
  <2>1. u.block = BlockAfter(e, said.block) /\ u.number = said.number
    BY <1>3, NextBlock DEF ClaudeCase
  <2>2. u.stage = StageAfter(e, said.stage)
    BY <1>3, SaidKeeps DEF ClaudeCase
  <2>3. said.block = "none"
    BY DEF ClaudeCase, ClaudeOk
  <2> QED BY <2>1, <2>2, <2>3 DEF BlockAfter, OpensBlock
<1>5. Quiet(said, u)
  BY <1>3, NoPart DEF ClaudeCase, BlockAfter, OpensBlock
<1>6. u.calls = said.calls
  BY <1>5 DEF Quiet
<1>7. n = IF s.finishReasonSent THEN 1 ELSE 0
  BY DEF ClaudeCase, ClaudeOk
<1>8. FinishOk(u, m) /\ (said.stage = "body" => n = 0) /\ (now => n = 0)
  BY <1>4, <1>7, ClaudeFacts DEF FinishOk, StageAfter
<1>9. Alters(s, s, FirstFields) /\ Alters(s, b, FirstFields)
  BY <1>2, <1>s, ClaudeFacts DEF Alters, OwnFields
<1>10. Turned(v, s, y, u, m)
  <2>1. CASE now
    <3>1. Speaks(Finish, said, u)
      BY <1>5, EmptyChunk, SaysNothing
    <3>2. Carried(v, s, said, 0) /\ Setting
      BY <1>8, <2>1 DEF ClaudeCase
    <3>3. y = Yield(<<Finish>>, b) /\ m = 1
      BY <1>1, <2>1
    <3> HIDE DEF m, now
    <3> QED BY <1>3, <1>8, <1>9, <3>1, <3>2, <3>3, EmptyChunk, TurnedLive
  <2>2. CASE ~now
    <3>1. y = Yield(<<>>, s) /\ m = n
      BY <1>1, <2>2
    <3> HIDE DEF m, now
    <3> QED BY <1>5, <1>8, <1>9, <3>1, TurnedQuiet DEF ClaudeCase
  <2> QED BY <2>1, <2>2
<1> DEFINE r == y.state
<1>11. r = IF now THEN b ELSE s
  BY <1>1 DEF Yield
<1> HIDE DEF r
<1>12. /\ r.toolCalls = s.toolCalls /\ r.toolCallIndex = s.toolCallIndex
       /\ r.serverTool = s.serverTool /\ r.thinkingBlock = s.thinkingBlock
  BY <1>2, <1>11 DEF Alters, Fields
<1>13. BlockCalls(r, u)
  BY <1>4, <1>6, <1>12, ClaudeFacts, BlockCallsKeep DEF Moves
<1>14. /\ m = IF r.finishReasonSent THEN 1 ELSE 0
       /\ r.finishReasonSent => u.stage \in {"delta", "finished"}
  <2>1. u.stage \in {"delta", "finished"}
    BY <1>4 DEF StageAfter
  <2> QED BY <1>2, <1>7, <1>11, <2>1
<1>15. ClaudeOk(r, u, m)
  <2>1. s.serverTool = None /\ s.thinkingBlock = None
    BY <1>4 DEF ClaudeCase, ClaudeOk
  <2> HIDE DEF m
  <2> QED BY <1>4, <1>12, <1>13, <1>14, <2>1 DEF ClaudeOk
<1> QED BY <1>10, <1>15 DEF ClaudeDone, r

LEMMA ClaudeTurned ==
  ASSUME Setting, format = "claude", SaidOk(said), said.stage # "over",
         NEW n, FinishOk(said, n), NEW v, NEW s, Carried(v, s, said, n), ClaudeOk(s, said, n),
         NEW e \in ClaudeEvents, NEW y, y = ClaudeToOpenAi(e, s), NEW u, u = Said(e)
  PROVE  \E m : Turned(v, s, y, u, m) /\ ClaudeOk(y.state, u, m)
<1>1. ClaudeCase(n, v, s, e, y, u)
  BY DEF ClaudeCase
<1>2. ClaudeDone(v, s, y, u)
  <2>1. CASE e.type = "message_start" /\ said.stage = "new" /\ e.parts = <<>> /\ ~e.finish
    BY <1>1, <2>1, ClaudeStarts
  <2>2. CASE \/ e.type = "message_delta" /\ said.stage = "body" /\ said.block = "none" /\ e.parts = <<>>
             \/ e.type = "message_stop" /\ said.stage = "delta" /\ e.parts = <<>> /\ e.finish
    BY <1>1, <2>2, ClaudeTells
  <2>3. CASE said.stage = "body" /\ ~e.finish /\ e.n = said.number /\ e.type = "stop"
    <3>1. \/ said.block = "think" /\ e.parts = <<"</think>">>
          \/ said.block \notin {"none", "think"} /\ e.parts = <<>>
      BY <2>3, ClaudeShape
    <3> QED BY <1>1, <2>3, <3>1, ClaudeStopsThinking, ClaudeEndsBlock
  <2>4. CASE said.stage = "body" /\ ~e.finish /\ e.n = said.number /\ e.type = "delta"
    <3>1. \/ said.block = "call" /\ e.parts = <<"args">>
          \/ said.block = "server" /\ e.parts = <<>>
          \/ said.block \notin {"none", "call", "server"} /\ e.parts = <<said.block>>
      BY <2>4, ClaudeShape
    <3>2. CASE said.block = "server" /\ e.parts = <<>>
      BY <1>1, <2>4, <3>2, ClaudeServerDelta
    <3>3. CASE \/ said.block = "call" /\ e.parts = <<"args">>
               \/ said.block \notin {"none", "call", "server"} /\ e.parts = <<said.block>>
      <4> DEFINE p == IF said.block = "call" THEN "args" ELSE said.block
      <4>1. said.block \in {"text", "think", "call"}
        BY <1>1, <3>3 DEF ClaudeCase, ClaudeOk
      <4>2. p \in Spoken
        BY <4>1 DEF Spoken
      <4>3. e.parts = <<p>> /\ p = IF said.block = "call" THEN "args" ELSE said.block
        BY <3>3
      <4> HIDE DEF p
      <4>4. said.block \notin {"none", "server"}
        BY <4>1
      <4> QED BY <1>1, <2>4, <4>2, <4>3, <4>4, ClaudeDelta
    <3> QED BY <3>1, <3>2, <3>3
  <2>5. CASE /\ said.stage = "body" /\ ~e.finish /\ e.n = said.number /\ said.block = "none"
             /\ e.type \in {"text_start", "think_start", "server_start", "call_start"}
    <3>1. e.parts = IF e.type = "call_start" THEN <<"call">> ELSE <<>>
      BY <2>5, ClaudeShape
    <3> QED BY <1>1, <2>5, <3>1, ClaudeOpens, ClaudeThinks, ClaudeBeginsCall
  <2> QED BY <2>1, <2>2, <2>3, <2>4, <2>5, ClaudeShape
<1> QED BY <1>2 DEF ClaudeDone

-----------------------------------------------------------------------------
(* Ollama providers: the words of a message in one chunk.                     *)
OllamaChunk(chunk, S) ==
  /\ chunk \in Chunk /\ ~chunk.finish /\ (chunk.think <=> "think" \in S)
  /\ chunk.text = IF "text" \in S THEN "text" ELSE "none"
  /\ chunk.calls # <<>> => "call" \in S
  /\ \A j \in 1..Len(chunk.calls) : chunk.calls[j].index = j - 1

LEMMA OllamaChunkIs ==
  ASSUME NEW e, NEW parts, e.parts = parts, Len(parts) \in Nat, DOMAIN parts = 1..Len(parts),
         ~e.finish, NEW s, NEW S, Lists(parts, S)
  PROVE  \E chunk : OllamaChunk(chunk, S) /\ OllamaToOpenAi(e, s) = Yield(<<chunk>>, s)
<1> DEFINE js == {j \in DOMAIN parts : parts[j] = "call"}
           k == Cardinality(js)
           calls == [i \in 1..k |-> [index |-> i - 1, id |-> TRUE, args |-> TRUE]]
           think == Contains(parts, "think")
           text == IF Contains(parts, "text") THEN "text" ELSE "none"
           chunk == [think |-> think, text |-> text, calls |-> calls, finish |-> FALSE]
<1>1. OllamaToOpenAi(e, s) = Yield(<<chunk>>, s)
  BY DEF OllamaToOpenAi
<1>2. IsFiniteSet(js) /\ k \in Nat /\ (js = {} => k = 0)
  <2>1. IsFiniteSet(1..Len(parts))
    <3> DEFINE l == Len(parts)
    <3>1. 1 \in Int /\ l \in Int
      OBVIOUS
    <3> HIDE DEF l
    <3>2. IsFiniteSet(1..l)
      BY <3>1, FS_Interval
    <3> QED BY <3>2 DEF l
  <2>2. js \subseteq 1..Len(parts)
    OBVIOUS
  <2>3. IsFiniteSet(js)
    BY <2>1, <2>2, FS_Subset
  <2> HIDE DEF js
  <2> QED BY <2>3, FS_CardinalityType, FS_EmptySet
<1>3. js # {} => Contains(parts, "call")
  BY DEF Contains
<1> HIDE DEF js, k
<1>4. /\ calls \in Seq(Piece) /\ Len(calls) = k
      /\ \A j \in 1..Len(calls) : calls[j].index = j - 1
      /\ calls # <<>> => Contains(parts, "call")
  <2>1. \A i \in 1..k : i - 1 \in Nat
    BY <1>2
  <2>2. \A i \in 1..k : [index |-> i - 1, id |-> TRUE, args |-> TRUE] \in Piece
    BY <2>1 DEF Piece
  <2>3. calls \in Seq(Piece) /\ Len(calls) = k
    <3> HIDE DEF Piece
    <3>1. calls \in [1..k -> Piece]
      BY <2>2
    <3> QED BY <1>2, <3>1
  <2>4. k = 0 => calls = <<>>
    OBVIOUS
  <2>5. \A j \in 1..k : calls[j].index = j - 1
    OBVIOUS
  <2> HIDE DEF calls
  <2> QED BY <1>2, <1>3, <2>3, <2>4, <2>5
<1> HIDE DEF calls
<1>5. /\ think \in BOOLEAN /\ (think <=> "think" \in S)
      /\ text = IF "text" \in S THEN "text" ELSE "none"
      /\ Contains(parts, "call") <=> "call" \in S
  BY Zenon DEF Lists, Contains
<1>6. OllamaChunk(chunk, S)
  <2> HIDE DEF think, text, Piece
  <2>1. text \in {"none", "text"}
    BY <1>5
  <2>2. chunk \in Chunk
    BY <1>4, <1>5, <2>1 DEF Chunk
  <2> QED BY <1>4, <1>5, <2>2 DEF OllamaChunk
<1> QED BY <1>1, <1>6

LEMMA OllamaSpeaks ==
  ASSUME format = "ollama", NEW t, t.stage # "over", ~t.marked, NEW u, u.stage # "over", ~u.marked,
         t.buried => u.buried,
         NEW S, NEW chunk, OllamaChunk(chunk, S),
         u.text = IF "text" \in S THEN t.text + 1 ELSE t.text,
         u.think = IF "think" \in S THEN t.think + 1 ELSE t.think,
         t.left \subseteq u.left, "call" \in S => "text" \in u.left,
         ~u.resumed => ~t.resumed /\ S \cap t.left \subseteq {"call"}
  PROVE  Speaks(chunk, t, u)
<1>1. SpeaksCalls(chunk, t, u)
  BY DEF SpeaksCalls, OllamaChunk
<1>2. SpeaksWords(chunk, t, u)
  BY DEF SpeaksWords, OllamaChunk
<1>3. SpeaksOrder(chunk, t, u)
  <2>1. ~u.resumed => /\ chunk.think => "think" \notin t.left
                      /\ chunk.text = "text" => "text" \notin t.left
    BY DEF OllamaChunk
  <2>2. chunk.text # "</think>" /\ (chunk.calls # <<>> => "text" \in u.left)
    BY DEF OllamaChunk
  <2>3. (Order(u) = "kept" => ~u.resumed) /\ (~t.resumed => Order(t) = "kept")
    BY OrderLive
  <2> QED BY <2>1, <2>2, <2>3 DEF SpeaksOrder
<1>4. SpeaksMode(chunk, t, u)
  <2>1. chunk.text \in {"none", "text"}
    BY DEF OllamaChunk
  <2>2. ~Mode(t) /\ ~Mode(u)
    BY DEF Mode
  <2> QED BY <2>1, <2>2 DEF SpeaksMode
<1> QED BY <1>1, <1>2, <1>3, <1>4 DEF Speaks

LEMMA OllamaShape ==
  ASSUME NEW e \in OllamaEvents, NEW parts, parts = e.parts
  PROVE  /\ said.stage # "finished" /\ e.type = "message"
         /\ \/ parts = <<>> /\ e.finish
            \/ ~e.finish /\ \E p \in {"think", "text", "call"} : parts = <<p>>
            \/ ~e.finish /\ \E p \in {"text", "call"} : parts = <<p, "call">>
BY DEF OllamaEvents, Parts, E

LEMMA OllamaTurned ==
  ASSUME Setting, format = "ollama", SaidOk(said), said.stage # "over", NEW n, FinishOk(said, n),
         NEW v, NEW s, Carried(v, s, said, n),
         NEW e \in OllamaEvents, NEW y, y = OllamaToOpenAi(e, s), NEW u, u = Said(e)
  PROVE  \E m : Turned(v, s, y, u, m)
<1>0. IsState(s) /\ Alters(s, s, FirstFields)
  BY CarriedIsState DEF Alters
<1>1. said.stage \in {"new", "body"} /\ n = 0 /\ e.type = "message"
  BY OllamaShape DEF SaidOk, FinishOk
<1>2. Carried(v, s, said, 0) /\ said.stage \notin {"finished", "over"} /\ ~said.marked
  BY <1>1 DEF SaidOk, WordsOk
<1>3. Listed(e)
  <2>1. {"think", "text", "call"} \subseteq Spoken
    BY DEF Spoken
  <2> QED BY <2>1, OllamaShape DEF Listed
<1>4. SaidOk(u) /\ u.stage = StageAfter(e, said.stage) /\ ~u.marked /\ u.stage # "over"
  BY <1>1, <1>3, SaidKeeps DEF SaidOk, WordsOk
<1>5. CASE e.parts = <<>> /\ e.finish
  <2>1. y = Yield(<<Finish>>, s)
    BY <1>5 DEF OllamaToOpenAi
  <2>2. Quiet(said, u)
    BY <1>1, <1>5, NoPart
  <2>3. Speaks(Finish, said, u)
    BY <2>2, EmptyChunk, SaysNothing
  <2>4. FinishOk(u, 1)
    BY <1>1, <1>4, <1>5 DEF FinishOk, StageAfter
  <2>5. Turned(v, s, y, u, 1)
    BY <1>0, <1>2, <2>1, <2>3, <2>4, EmptyChunk, TurnedLive
  <2> QED BY <2>5
<1>6. FinishOk(u, 0) \/ e.finish
  BY <1>1, <1>4 DEF FinishOk, StageAfter
<1>7. ASSUME ~e.finish, NEW S, NEW parts, parts = e.parts, Len(parts) \in Nat, DOMAIN parts = 1..Len(parts),
             Lists(parts, S), said.buried => u.buried,
             u.text = IF "text" \in S THEN said.text + 1 ELSE said.text,
             u.think = IF "think" \in S THEN said.think + 1 ELSE said.think,
             said.left \subseteq u.left, "call" \in S => "text" \in u.left,
             ~u.resumed => ~said.resumed /\ S \cap said.left \subseteq {"call"}
      PROVE  \E m : Turned(v, s, y, u, m)
  <2>1. PICK chunk : OllamaChunk(chunk, S) /\ y = Yield(<<chunk>>, s)
    BY <1>7, OllamaChunkIs
  <2>2. chunk \in Chunk /\ ~chunk.finish
    BY <2>1 DEF OllamaChunk
  <2>3. Speaks(chunk, said, u)
    BY <1>2, <1>4, <1>7, <2>1, OllamaSpeaks
  <2>4. Turned(v, s, y, u, 0)
    BY <1>0, <1>2, <1>6, <1>7, <2>1, <2>2, <2>3, TurnedLive
  <2> QED BY <2>4
<1>8. ASSUME ~e.finish, NEW p \in {"think", "text", "call"}, e.parts = <<p>>
      PROVE  \E m : Turned(v, s, y, u, m)
  <2> DEFINE S == {p}
             parts == <<p>>
  <2>1. Len(parts) \in Nat /\ DOMAIN parts = 1..Len(parts) /\ parts = e.parts
    BY <1>8
  <2>2. Lists(parts, S)
    BY ListsOne
  <2>3. p \in Spoken
    BY <1>8 DEF Spoken
  <2>4. Adds(p, said, u) /\ (said.buried => u.buried)
    BY <1>1, <1>2, <1>8, <2>3, PartSaid
  <2>5. /\ u.text = IF "text" \in S THEN said.text + 1 ELSE said.text
        /\ u.think = IF "think" \in S THEN said.think + 1 ELSE said.think
        /\ said.left \subseteq u.left /\ ("call" \in S => "text" \in u.left)
        /\ ~u.resumed => ~said.resumed /\ S \cap said.left \subseteq {"call"}
    BY <1>8, <2>4 DEF Adds, Leaves
  <2> HIDE DEF S, parts
  <2> QED BY <1>7, <1>8, <2>1, <2>2, <2>4, <2>5
<1>9. ASSUME ~e.finish, NEW p \in {"text", "call"}, e.parts = <<p, "call">>
      PROVE  \E m : Turned(v, s, y, u, m)
  <2> DEFINE q == "call"
             S == {p, q}
             parts == <<p, q>>
             h == SayPart(said, p)
  <2>1. Len(parts) \in Nat /\ DOMAIN parts = 1..Len(parts) /\ parts = e.parts
    BY <1>9
  <2>2. Lists(parts, S)
    BY ListsTwo
  <2>3. p \in Spoken /\ q \in Spoken /\ e.parts = <<p, q>> /\ q = "call"
    BY <1>9 DEF Spoken
  <2> HIDE DEF q, h
  <2>4. Adds(p, said, h) /\ Adds(q, h, u) /\ (said.buried => u.buried)
    BY <1>1, <1>2, <2>3, TwoSaid DEF h
  <2>5. /\ u.text = IF "text" \in S THEN said.text + 1 ELSE said.text
        /\ u.think = IF "think" \in S THEN said.think + 1 ELSE said.think
        /\ said.left \subseteq u.left /\ ("call" \in S => "text" \in u.left)
        /\ ~u.resumed => ~said.resumed /\ S \cap said.left \subseteq {"call"}
    BY <1>9, <2>3, <2>4 DEF Adds, Leaves
  <2> HIDE DEF S, parts
  <2> QED BY <1>7, <1>9, <2>1, <2>2, <2>4, <2>5
<1> QED BY <1>5, <1>8, <1>9, OllamaShape

-----------------------------------------------------------------------------
(* Gemini providers: a chunk per part.                                        *)
GeminiOk(s, t) ==
  s.functionIndex \in Nat /\ (t.stage \in {"new", "body"} => s.functionIndex = t.calls)

GeminiParts == INSTANCE FoldSteps WITH Op <- GeminiPart

LEMMA GeminiPartsFold ==
  ASSUME NEW T, NEW base, NEW seq \in Seq(T)
  PROVE  FoldLeft(GeminiPart, base, seq) = GeminiParts!Result(base, seq, Len(seq))
<1>1. Len(seq) \in Nat /\ DOMAIN seq = 1..Len(seq)
  OBVIOUS
<1> QED
  BY <1>1 DEF FoldLeft, MapThenFoldSet, Max, GeminiParts!Result, GeminiParts!FoldOf, GeminiParts!Max

LEMMA GeminiNothing ==
  ASSUME NEW base
  PROVE  FoldLeft(GeminiPart, base, <<>>) = base
<1>1. <<>> \in Seq(Nat) /\ Len(<<>>) = 0
  OBVIOUS
<1>2. GeminiParts!Result(base, <<>>, 0) = base
  BY GeminiParts!NoStep
<1> QED BY <1>1, <1>2, GeminiPartsFold

LEMMA GeminiMore ==
  ASSUME NEW base, NEW T, NEW seq \in Seq(T), NEW p \in T
  PROVE  FoldLeft(GeminiPart, base, Append(seq, p)) = GeminiPart(FoldLeft(GeminiPart, base, seq), p)
<1> DEFINE n == Len(seq)
           more == Append(seq, p)
<1>1. n \in Nat /\ more \in Seq(T) /\ Len(more) = n + 1 /\ more[n + 1] = p /\ \A k \in 1..n : more[k] = seq[k]
  OBVIOUS
<1>2. FoldLeft(GeminiPart, base, more) = GeminiParts!Result(base, more, n + 1)
  BY <1>1, GeminiPartsFold
<1>3. FoldLeft(GeminiPart, base, seq) = GeminiParts!Result(base, seq, n)
  BY GeminiPartsFold
<1> HIDE DEF n, more
<1>4. GeminiParts!Result(base, more, n + 1) = GeminiPart(GeminiParts!Result(base, seq, n), more[n + 1])
  BY <1>1, GeminiParts!OneMore
<1> QED BY <1>1, <1>2, <1>3, <1>4 DEF more

GeminiFold(base, parts) == FoldLeft(GeminiPart, base, parts)

LEMMA GeminiNone ==
  ASSUME NEW base, NEW parts, parts = <<>>
  PROVE  GeminiFold(base, parts) = base
BY GeminiNothing DEF GeminiFold

LEMMA GeminiOne ==
  ASSUME NEW base, NEW p, NEW parts, parts = <<p>>
  PROVE  GeminiFold(base, parts) = GeminiPart(base, p)
<1> DEFINE T == {p}
<1>1. <<>> \in Seq(T) /\ p \in T /\ Append(<<>>, p) = <<p>>
  OBVIOUS
<1> HIDE DEF T
<1>2. FoldLeft(GeminiPart, base, Append(<<>>, p)) = GeminiPart(FoldLeft(GeminiPart, base, <<>>), p)
  BY <1>1, GeminiMore
<1> QED BY <1>1, <1>2, GeminiNothing DEF GeminiFold

LEMMA GeminiTwo ==
  ASSUME NEW base, NEW p, NEW q, NEW parts, parts = <<p, q>>,
         NEW body, body = GeminiFold(base, parts)
  PROVE  body = GeminiPart(GeminiPart(base, p), q)
<1> DEFINE T == {p, q}
<1>1. p \in T /\ q \in T
  OBVIOUS
<1>2. <<p>> \in Seq(T)
  <2> HIDE DEF T
  <2> QED BY <1>1
<1> HIDE DEF T
<1>3. FoldLeft(GeminiPart, base, Append(<<p>>, q)) = GeminiPart(FoldLeft(GeminiPart, base, <<p>>), q)
  BY <1>1, <1>2, GeminiMore
<1>4. FoldLeft(GeminiPart, base, <<p>>) = GeminiPart(base, p)
  BY GeminiOne DEF GeminiFold
<1> QED BY <1>3, <1>4, Pair DEF GeminiFold

GeminiWords == {"think", "text", "call"}

\* What a part becomes.
LEMMA GeminiPartIs ==
  ASSUME NEW y, IsState(y.state), y.state.functionIndex \in Nat, NEW p \in GeminiWords,
         NEW z, z = GeminiPart(y, p), NEW t
  PROVE  /\ IsState(z.state) /\ Alters(y.state, z.state, {"functionIndex"})
         /\ z.state.functionIndex = y.state.functionIndex + (IF p = "call" THEN 1 ELSE 0)
         /\ \E chunk \in Chunk : /\ z.chunks = Append(y.chunks, chunk) /\ ~chunk.finish
                                 /\ chunk.text \in {"none", "text"}
                                 /\ y.state.functionIndex = t.calls => Says(chunk, p, t)
<1> DEFINE r == y.state
           i == r.functionIndex
           b == [r EXCEPT !.functionIndex = i + 1]
           call == Call(i, TRUE, TRUE)
<1>1. /\ p = "call" => z = Yield(Append(y.chunks, call), b)
      /\ p = "think" => z = Yield(Append(y.chunks, Thought), r)
      /\ p = "text" => z = Yield(Append(y.chunks, Text("text")), r)
  BY DEF GeminiPart
<1>2. Alters(r, b, {"functionIndex"}) /\ b.functionIndex = i + 1
  <2> HIDE DEF r
  <2> QED BY DEF IsState, Alters, Fields, r
<1>3. IsState(r) /\ Alters(r, r, {"functionIndex"}) /\ i \in Nat
  BY DEF Alters
<1> HIDE DEF b, call
<1>4. CASE p = "call"
  <2>1. z.state = b /\ z.chunks = Append(y.chunks, call)
    BY <1>1, <1>4 DEF Yield
  <2>2. call \in Chunk /\ ~call.finish /\ call.text \in {"none", "text"} /\ (i = t.calls => Says(call, "call", t))
    <3>1. call \in Chunk /\ ~call.finish /\ (i = t.calls => Says(call, "call", t))
      BY <1>3, CallChunk DEF call
    <3>2. call.text \in {"none", "text"}
      BY DEF call, Call, Empty
    <3> QED BY <3>1, <3>2
  <2> QED BY <1>2, <1>4, <2>1, <2>2 DEF Alters
<1>5. CASE p = "think"
  <2>1. z.state = r /\ z.chunks = Append(y.chunks, Thought)
    BY <1>1, <1>5 DEF Yield
  <2>2. Thought \in Chunk /\ ~Thought.finish /\ Says(Thought, "think", t)
    BY ThoughtChunk
  <2>3. Thought.text \in {"none", "text"}
    BY <2>2 DEF Says
  <2> QED BY <1>3, <1>5, <2>1, <2>2, <2>3
<1>6. CASE p = "text"
  <2>1. z.state = r /\ z.chunks = Append(y.chunks, Text("text"))
    BY <1>1, <1>6 DEF Yield
  <2>2. Text("text") \in Chunk /\ ~Text("text").finish /\ Says(Text("text"), "text", t)
    BY TextChunk
  <2>3. Text("text").text \in {"none", "text"}
    BY <2>2 DEF Says
  <2> QED BY <1>3, <1>6, <2>1, <2>2, <2>3
<1> QED BY <1>4, <1>5, <1>6 DEF GeminiWords

\* The parts of a candidate before the finish.
LEMMA GeminiLive ==
  ASSUME Setting, format = "gemini", NEW v, NEW base, NEW y, IsState(y.state),
         NEW t, WordsOk(t), t.stage # "over", y.state.functionIndex = t.calls,
         Heard(v, base, y.chunks, t, 0), NEW p \in GeminiWords,
         NEW h, h = SayPart(t, p), NEW z, z = GeminiPart(y, p)
  PROVE  /\ IsState(z.state) /\ Alters(y.state, z.state, {"functionIndex"})
         /\ WordsOk(h) /\ h.stage = t.stage /\ z.state.functionIndex = h.calls
         /\ Heard(v, base, z.chunks, h, 0)
<1>1. Changes(t, h, Words) /\ Adds(p, t, h) /\ p \in Spoken /\ t.calls \in Nat
  BY SayPartAdds DEF WordsOk, Spoken, GeminiWords
<1>2. WordsOk(h)
  BY <1>1, AddsOk
<1>3. h.stage = t.stage /\ h.buried = t.buried
  BY <1>1 DEF Changes, SaidFields, Words
<1>4. /\ IsState(z.state) /\ Alters(y.state, z.state, {"functionIndex"})
      /\ z.state.functionIndex = y.state.functionIndex + (IF p = "call" THEN 1 ELSE 0)
  BY <1>1, GeminiPartIs
<1>5. PICK chunk \in Chunk : /\ z.chunks = Append(y.chunks, chunk) /\ ~chunk.finish
                             /\ chunk.text \in {"none", "text"} /\ Says(chunk, p, t)
  BY <1>1, GeminiPartIs
<1>6. Speaks(chunk, t, h)
  BY <1>1, <1>3, <1>5, SaysPart DEF Speaks
<1>7. Heard(v, base, Append(y.chunks, chunk), h, 0)
  <2>1. ~t.marked
    BY DEF WordsOk
  <2> QED BY <1>1, <1>5, <1>6, <2>1, HeardLive
<1>8. z.state.functionIndex = h.calls
  BY <1>1, <1>4 DEF Adds
<1> QED BY <1>2, <1>3, <1>4, <1>5, <1>7, <1>8

\* The parts of a candidate after it.
LEMMA GeminiLate ==
  ASSUME Setting, format = "gemini", NEW v, NEW base, NEW y, IsState(y.state),
         y.state.functionIndex \in Nat, NEW u, Order(u) # "kept", NEW m \in Nat \ {0},
         Heard(v, base, y.chunks, u, m), NEW p \in GeminiWords, NEW z, z = GeminiPart(y, p)
  PROVE  Heard(v, base, z.chunks, u, m)
<1>1. PICK chunk \in Chunk : /\ z.chunks = Append(y.chunks, chunk) /\ ~chunk.finish
                             /\ chunk.text \in {"none", "text"}
  BY GeminiPartIs
<1> QED BY <1>1, HeardLate

LEMMA GeminiState ==
  ASSUME NEW y, IsState(y.state), y.state.functionIndex \in Nat, NEW p \in GeminiWords,
         NEW z, z = GeminiPart(y, p)
  PROVE  /\ IsState(z.state) /\ Alters(y.state, z.state, {"functionIndex"})
         /\ z.state.functionIndex \in Nat
<1>1. /\ IsState(z.state) /\ Alters(y.state, z.state, {"functionIndex"})
      /\ z.state.functionIndex = y.state.functionIndex + (IF p = "call" THEN 1 ELSE 0)
  BY GeminiPartIs
<1> QED BY <1>1

LEMMA GeminiShape ==
  ASSUME NEW e \in GeminiEvents, NEW parts, parts = e.parts
  PROVE  /\ e.type = "candidate"
         /\ \/ parts = <<>>
            \/ \E p \in GeminiWords : parts = <<p>>
            \/ \E p \in GeminiWords, q \in GeminiWords : parts = <<p, q>>
BY DEF GeminiEvents, Parts, E, GeminiWords

LEMMA QuietPassing ==
  ASSUME format # "claude", NEW e, NEW m, NEW u, Changes(m, u, Beside), Passing(e, m, u),
         m.stage # "over", u.stage # "over"
  PROVE  Quiet(m, u)
<1>1. /\ u.calls = m.calls /\ u.text = m.text /\ u.think = m.think /\ u.left = m.left
      /\ u.resumed = m.resumed /\ u.marked = m.marked
  BY DEF Changes, SaidFields, Beside
<1>2. m.buried => u.buried
  BY DEF Passing
<1>3. Order(u) = Order(m)
  BY <1>1 DEF Order
<1> QED BY <1>1, <1>2, <1>3 DEF Quiet, Mode

\* The state the parts leave, and the chunks they become.
GeminiBody(e, s) ==
  GeminiFold(Yield(IF s.begun THEN <<>> ELSE <<Empty>>, [s EXCEPT !.begun = TRUE]), e.parts)

LEMMA GeminiBegins ==
  ASSUME NEW s, IsState(s), NEW begin,
         begin = Yield(IF s.begun THEN <<>> ELSE <<Empty>>, [s EXCEPT !.begun = TRUE])
  PROVE  /\ IsState(begin.state) /\ Alters(s, begin.state, {"begun"})
         /\ begin.state.functionIndex = s.functionIndex
         /\ begin.chunks = <<>> \/ begin.chunks = Append(<<>>, Empty)
<1>1. begin.state = [s EXCEPT !.begun = TRUE] /\ begin.chunks = IF s.begun THEN <<>> ELSE <<Empty>>
  BY DEF Yield
<1>2. Append(<<>>, Empty) = <<Empty>>
  OBVIOUS
<1>3. Alters(s, begin.state, {"begun"})
  BY <1>1 DEF IsState, Alters, Fields
<1>4. begin.state.functionIndex = s.functionIndex
  BY <1>3 DEF Alters, Fields
<1> QED BY <1>1, <1>2, <1>3, <1>4 DEF Alters

LEMMA GeminiBodyState ==
  ASSUME format = "gemini", NEW s, IsState(s), s.functionIndex \in Nat, NEW e \in GeminiEvents,
         NEW body, body = GeminiBody(e, s)
  PROVE  /\ IsState(body.state) /\ Alters(s, body.state, {"begun", "functionIndex"})
         /\ body.state.functionIndex \in Nat
<1> DEFINE begin == Yield(IF s.begun THEN <<>> ELSE <<Empty>>, [s EXCEPT !.begun = TRUE])
<1>1. body = GeminiFold(begin, e.parts)
  BY DEF GeminiBody
<1>2. /\ IsState(begin.state) /\ Alters(s, begin.state, {"begun"})
      /\ begin.state.functionIndex \in Nat
  BY GeminiBegins
<1> HIDE DEF begin
<1>3. CASE e.parts = <<>>
  <2>1. body = begin
    BY <1>1, <1>3, GeminiNone
  <2> QED BY <1>2, <2>1 DEF Alters
<1>4. ASSUME NEW p \in GeminiWords, e.parts = <<p>>
      PROVE  /\ IsState(body.state) /\ Alters(s, body.state, {"begun", "functionIndex"})
             /\ body.state.functionIndex \in Nat
  <2>1. body = GeminiPart(begin, p)
    BY <1>1, <1>4, GeminiOne
  <2>2. /\ IsState(body.state) /\ Alters(begin.state, body.state, {"functionIndex"})
        /\ body.state.functionIndex \in Nat
    BY <1>2, <2>1, GeminiState
  <2> QED BY <1>2, <2>2 DEF Alters
<1>5. ASSUME NEW p \in GeminiWords, NEW q \in GeminiWords, e.parts = <<p, q>>
      PROVE  /\ IsState(body.state) /\ Alters(s, body.state, {"begun", "functionIndex"})
             /\ body.state.functionIndex \in Nat
  <2> DEFINE one == GeminiPart(begin, p)
  <2>1. body = GeminiPart(one, q)
    BY <1>1, <1>5, GeminiTwo
  <2>2. /\ IsState(one.state) /\ Alters(begin.state, one.state, {"functionIndex"})
        /\ one.state.functionIndex \in Nat
    BY <1>2, GeminiState
  <2> HIDE DEF one
  <2>3. /\ IsState(body.state) /\ Alters(one.state, body.state, {"functionIndex"})
        /\ body.state.functionIndex \in Nat
    BY <2>1, <2>2, GeminiState
  <2> QED BY <1>2, <2>2, <2>3 DEF Alters
<1> QED BY <1>3, <1>4, <1>5, GeminiShape

\* Until the finish the chunks of the parts are heard one by one.
LEMMA GeminiBodyLive ==
  ASSUME Setting, format = "gemini", NEW v, NEW s, IsState(s), NEW base, Carried(v, base, said, 0),
         WordsOk(said), said.stage \in {"new", "body"}, s.functionIndex = said.calls,
         NEW e \in GeminiEvents, NEW body, body = GeminiBody(e, s), NEW m, m = SaidWords(e)
  PROVE  body.state.functionIndex = m.calls /\ Heard(v, base, body.chunks, m, 0)
<1> DEFINE begin == Yield(IF s.begun THEN <<>> ELSE <<Empty>>, [s EXCEPT !.begun = TRUE])
<1>1. body = GeminiFold(begin, e.parts)
  BY DEF GeminiBody
<1>2. /\ IsState(begin.state) /\ begin.state.functionIndex = said.calls
      /\ begin.chunks = <<>> \/ begin.chunks = Append(<<>>, Empty)
  BY GeminiBegins
<1> HIDE DEF begin
<1>3. Heard(v, base, begin.chunks, said, 0)
  <2>1. Heard(v, base, <<>>, said, 0)
    BY HeardNothing
  <2>2. Quiet(said, said)
    BY DEF Quiet
  <2>3. Speaks(Empty, said, said) /\ Empty \in Chunk /\ ~Empty.finish
    BY <2>2, EmptyChunk, SaysNothing
  <2>4. said.calls \in Nat /\ ~said.marked /\ said.stage # "over"
    BY DEF WordsOk
  <2>5. Heard(v, base, Append(<<>>, Empty), said, 0)
    BY <2>1, <2>3, <2>4, HeardLive
  <2> QED BY <1>2, <2>1, <2>5
<1>4. IsSaid(said) /\ said.stage # "finished" /\ said.stage # "over"
  BY DEF WordsOk
<1>5. CASE e.parts = <<>>
  <2>1. body = begin
    BY <1>1, <1>5, GeminiNone
  <2>2. m = said
    BY <1>4, <1>5, SaidNothing
  <2> QED BY <1>2, <1>3, <2>1, <2>2
<1>6. ASSUME NEW p \in GeminiWords, e.parts = <<p>>
      PROVE  body.state.functionIndex = m.calls /\ Heard(v, base, body.chunks, m, 0)
  <2>1. body = GeminiPart(begin, p)
    BY <1>1, <1>6, GeminiOne
  <2>2. m = SayPart(said, p)
    BY <1>4, <1>6, SayOne DEF SaidWords
  <2>3. IsState(begin.state) /\ begin.state.functionIndex = said.calls
    BY <1>2
  <2> QED BY <1>3, <1>4, <2>1, <2>2, <2>3, GeminiLive, SMTT(40)
<1>7. ASSUME NEW p \in GeminiWords, NEW q \in GeminiWords, e.parts = <<p, q>>
      PROVE  body.state.functionIndex = m.calls /\ Heard(v, base, body.chunks, m, 0)
  <2> DEFINE one == GeminiPart(begin, p)
             h == SayPart(said, p)
  <2>1. body = GeminiPart(one, q)
    BY <1>1, <1>7, GeminiTwo
  <2>2. m = SayPart(h, q)
    <3> DEFINE T == {p, q}
    <3>1. p \in T /\ q \in T
      OBVIOUS
    <3>2. <<p>> \in Seq(T)
      <4> HIDE DEF T
      <4> QED BY <3>1
    <3> HIDE DEF T
    <3>3. FoldLeft(SayPart, said, Append(<<p>>, q)) = SayPart(FoldLeft(SayPart, said, <<p>>), q)
      BY <3>1, <3>2, SayMore
    <3>4. FoldLeft(SayPart, said, <<p>>) = SayPart(said, p)
      BY SayOne
    <3>5. Append(<<p>>, q) = <<p, q>>
      BY Pair
    <3>6. m = FoldLeft(SayPart, said, <<p, q>>)
      BY <1>4, <1>7 DEF SaidWords
    <3> QED BY <3>3, <3>4, <3>5, <3>6
  <2>3. /\ IsState(one.state) /\ WordsOk(h) /\ h.stage = said.stage
        /\ one.state.functionIndex = h.calls /\ Heard(v, base, one.chunks, h, 0)
    <3>1. IsState(begin.state) /\ begin.state.functionIndex = said.calls
      BY <1>2
    <3>2. one = GeminiPart(begin, p) /\ h = SayPart(said, p)
      OBVIOUS
    <3> HIDE DEF one, h
    <3> QED BY <1>3, <1>4, <3>1, <3>2, GeminiLive, SMTT(40)
  <2> HIDE DEF one, h
  <2> QED BY <1>4, <2>1, <2>2, <2>3, GeminiLive
<1> QED BY <1>5, <1>6, <1>7, GeminiShape

\* After the finish as well, if for nothing.
LEMMA GeminiBodyLate ==
  ASSUME Setting, format = "gemini", NEW v, NEW s, IsState(s), s.functionIndex \in Nat,
         NEW u, NEW n \in Nat \ {0}, NEW base, Carried(v, base, u, n),
         NEW e \in GeminiEvents, Order(u) = "kept" => e.parts = <<>>,
         NEW body, body = GeminiBody(e, s)
  PROVE  Heard(v, base, body.chunks, u, n)
<1> DEFINE begin == Yield(IF s.begun THEN <<>> ELSE <<Empty>>, [s EXCEPT !.begun = TRUE])
<1>1. body = GeminiFold(begin, e.parts)
  BY DEF GeminiBody
<1>2. /\ IsState(begin.state) /\ begin.state.functionIndex \in Nat
      /\ begin.chunks = <<>> \/ begin.chunks = Append(<<>>, Empty)
  BY GeminiBegins
<1> HIDE DEF begin
<1>3. Heard(v, base, begin.chunks, u, n)
  <2>1. Heard(v, base, <<>>, u, n)
    BY HeardNothing
  <2>2. Empty \in Chunk /\ ~Empty.think /\ Empty.text = "none" /\ Empty.calls = <<>> /\ ~Empty.finish
    BY EmptyChunk DEF Contentless
  <2>3. Heard(v, base, Append(<<>>, Empty), u, n)
    BY <2>1, <2>2, HeardLate
  <2> QED BY <1>2, <2>1, <2>3
<1>4. CASE e.parts = <<>>
  <2>1. body = begin
    BY <1>1, <1>4, GeminiNone
  <2> QED BY <1>3, <2>1
<1>5. ASSUME NEW p \in GeminiWords, e.parts = <<p>>
      PROVE  Heard(v, base, body.chunks, u, n)
  <2>1. body = GeminiPart(begin, p)
    BY <1>1, <1>5, GeminiOne
  <2>2. Order(u) # "kept"
    BY <1>5
  <2> QED BY <1>2, <1>3, <2>1, <2>2, GeminiLate
<1>6. ASSUME NEW p \in GeminiWords, NEW q \in GeminiWords, e.parts = <<p, q>>
      PROVE  Heard(v, base, body.chunks, u, n)
  <2> DEFINE one == GeminiPart(begin, p)
  <2>1. body = GeminiPart(one, q)
    BY <1>1, <1>6, GeminiTwo
  <2>2. Order(u) # "kept"
    BY <1>6
  <2>3. Heard(v, base, one.chunks, u, n)
    BY <1>2, <1>3, <2>2, GeminiLate
  <2>4. IsState(one.state) /\ one.state.functionIndex \in Nat
    BY <1>2, GeminiState
  <2> HIDE DEF one
  <2> QED BY <2>1, <2>2, <2>3, <2>4, GeminiLate
<1> QED BY <1>4, <1>5, <1>6, GeminiShape

LEMMA GeminiTurned ==
  ASSUME Setting, format = "gemini", SaidOk(said), said.stage # "over",
         NEW n, FinishOk(said, n), NEW v, NEW s, Carried(v, s, said, n), GeminiOk(s, said),
         NEW e \in GeminiEvents, NEW y, y = GeminiToOpenAi(e, s), NEW u, u = Said(e)
  PROVE  \E m : Turned(v, s, y, u, m) /\ GeminiOk(y.state, u)
<1> DEFINE body == GeminiBody(e, s)
           base == body.state
           w == SaidWords(e)
<1>0. IsState(s) /\ s.functionIndex \in Nat
  BY CarriedIsState DEF GeminiOk
<1>1. y = IF e.finish THEN Yield(Append(body.chunks, Finish), base) ELSE body
  BY DEF GeminiToOpenAi, GeminiBody, GeminiFold
<1>2. /\ Alters(s, base, {"begun", "functionIndex"}) /\ base.functionIndex \in Nat
  BY <1>0, GeminiBodyState
<1>3. Alters(s, base, FirstFields)
  BY <1>2 DEF Alters, FirstFields, OwnFields
<1>4. y.state = base /\ y.chunks = IF e.finish THEN Append(body.chunks, Finish) ELSE body.chunks
  BY <1>1 DEF Yield
<1>5. Carried(v, base, said, n)
  BY <1>3, AlikeKeeps
<1>6. Listed(e) /\ e.type = "candidate"
  <2>1. GeminiWords \subseteq Spoken
    BY DEF Spoken, GeminiWords
  <2> QED BY <2>1, GeminiShape DEF Listed
<1>7. SaidOk(u) /\ u.stage = StageAfter(e, said.stage) /\ u.stage # "over"
  BY <1>6, SaidKeeps
<1>8. WordsOk(w) /\ Changes(said, w, Words)
  BY <1>6, WordsKeep
<1>9. Changes(w, u, Beside) /\ Passing(e, w, u)
  BY <1>8, SaidPasses DEF WordsOk
<1>10. w.stage = said.stage /\ u.calls = w.calls
  BY <1>8, <1>9 DEF Changes, SaidFields, Words, Beside
<1> HIDE DEF body, w
<1>11. CASE said.stage # "finished"
  <2>1. said.stage \in {"new", "body"} /\ n = 0 /\ WordsOk(said)
    BY <1>11 DEF SaidOk, FinishOk
  <2>2. base.functionIndex = w.calls /\ Heard(v, base, body.chunks, w, 0)
    BY <1>0, <1>5, <2>1, GeminiBodyLive DEF GeminiOk, body, w
  <2>3. Quiet(w, u)
    BY <1>7, <1>9, <1>10, QuietPassing
  <2>4. GeminiOk(base, u)
    BY <1>2, <1>10, <2>2 DEF GeminiOk
  <2>5. CASE e.finish
    <3>1. Speaks(Finish, w, u)
      BY <2>3, EmptyChunk, SaysNothing
    <3>2. ~w.marked /\ w.calls \in Nat /\ w.stage # "over"
      BY <1>8, <1>10 DEF WordsOk
    <3>3. Heard(v, base, Append(body.chunks, Finish), u, 1)
      BY <2>2, <3>1, <3>2, EmptyChunk, HeardLive
    <3>4. FinishOk(u, 1)
      BY <1>6, <1>7, <2>5 DEF FinishOk, StageAfter
    <3>5. Turned(v, s, y, u, 1)
      BY <1>3, <1>4, <2>5, <3>3, <3>4 DEF Turned
    <3> QED BY <1>4, <2>4, <3>5
  <2>6. CASE ~e.finish
    <3>1. Heard(v, base, body.chunks, u, 0)
      BY <2>2, <2>3, HeardQuiet
    <3>2. FinishOk(u, 0)
      BY <1>6, <1>7, <2>1, <2>6 DEF FinishOk, StageAfter
    <3>3. Turned(v, s, y, u, 0)
      BY <1>3, <1>4, <2>6, <3>1, <3>2 DEF Turned
    <3> QED BY <1>4, <2>4, <3>3
  <2> QED BY <2>5, <2>6
<1>12. CASE said.stage = "finished"
  <2>1. n \in Nat \ {0}
    BY <1>12 DEF FinishOk
  <2>2. Quiet(said, u) /\ (Order(u) = "kept" => e.parts = <<>>)
    BY <1>6, <1>12, QuietSaid
  <2>3. Carried(v, base, u, n)
    BY <1>5, <2>2, QuietKeeps
  <2>4. Heard(v, base, body.chunks, u, n)
    BY <1>0, <2>1, <2>2, <2>3, GeminiBodyLate DEF body
  <2>5. u.stage = "finished"
    BY <1>6, <1>7, <1>12 DEF StageAfter
  <2>6. GeminiOk(base, u)
    BY <1>2, <2>5 DEF GeminiOk
  <2>7. CASE e.finish
    <3>1. Finish \in Chunk /\ ~Finish.think /\ Finish.text = "none" /\ Finish.calls = <<>> /\ Finish.finish
      BY EmptyChunk DEF Contentless
    <3>2. Heard(v, base, Append(body.chunks, Finish), u, n + 1)
      BY <2>1, <2>4, <3>1, HeardLate
    <3>3. FinishOk(u, n + 1)
      BY <2>1, <2>5 DEF FinishOk
    <3>4. Turned(v, s, y, u, n + 1)
      BY <1>3, <1>4, <2>7, <3>2, <3>3 DEF Turned
    <3> QED BY <1>4, <2>6, <3>4
  <2>8. CASE ~e.finish
    <3>1. FinishOk(u, n)
      BY <2>1, <2>5 DEF FinishOk
    <3>2. Turned(v, s, y, u, n)
      BY <1>3, <1>4, <2>4, <2>8, <3>1 DEF Turned
    <3> QED BY <1>4, <2>6, <3>2
  <2> QED BY <2>7, <2>8
<1> QED BY <1>11, <1>12

-----------------------------------------------------------------------------
(* An event of the provider goes through both translators.                    *)
\* What the first translator remembers.
FirstOk(s, t, n) ==
  /\ format = "claude" => ClaudeOk(s, t, n)
  /\ format = "responses" => RespOk(s, t, n)
  /\ format = "gemini" => GeminiOk(s, t)

LEMMA EventShape ==
  ASSUME Setting, SaidOk(said),
         format = "claude" => said.block \in {"none", "text", "think", "call", "server"},
         NEW e \in Events
  PROVE  Listed(e) /\ (e.type = "message_delta" => format = "claude")
<1>1. CASE format = "openai"
  <2>1. e \in OpenAiEvents
    BY <1>1 DEF Events
  <2> DEFINE chunk == AsChunk(e)
  <2>2. chunk = AsChunk(e)
    OBVIOUS
  <2> HIDE DEF chunk
  <2>3. /\ e.type = "chunk"
        /\ \/ e.parts = <<>>
           \/ \E p : e.parts = <<p>> /\ p \in {"think", "text", "<think>", "</think>", "call", "args"}
           \/ e.parts = <<"think", "text">>
           \/ e.parts = <<"text", "call">>
    BY <2>1, <2>2, OpenAiShape
  <2> QED BY <1>1, <2>3 DEF Listed, Spoken
<1>2. CASE format = "claude"
  <2>1. e \in ClaudeEvents
    BY <1>2 DEF Events
  <2>2. \/ e.parts = <<>> \/ e.parts = <<"call">> \/ e.parts = <<"</think>">> \/ e.parts = <<"args">>
        \/ e.parts = <<said.block>> /\ said.block \in {"text", "think"}
    BY <1>2, <2>1, ClaudeShape
  <2> QED BY <1>2, <2>2 DEF Listed, Spoken
<1>3. CASE format = "gemini"
  <2>1. e \in GeminiEvents
    BY <1>3 DEF Events
  <2>2. GeminiWords \subseteq Spoken
    BY DEF Spoken, GeminiWords
  <2> QED BY <2>1, <2>2, GeminiShape DEF Listed
<1>4. CASE format = "ollama"
  <2>1. e \in OllamaEvents
    BY <1>4 DEF Events
  <2>2. {"think", "text", "call"} \subseteq Spoken
    BY DEF Spoken
  <2> QED BY <2>1, <2>2, OllamaShape DEF Listed
<1>5. CASE format = "responses"
  <2>1. e \in ResponsesEvents
    BY <1>5 DEF Events
  <2>2. {"think", "text", "call", "args"} \subseteq Spoken
    BY DEF Spoken
  <2> QED BY <2>1, <2>2, ResponsesShape DEF Listed
<1> QED BY <1>1, <1>2, <1>3, <1>4, <1>5 DEF Setting

LEMMA EventTurned ==
  ASSUME Setting, SaidOk(said), said.stage # "over", NEW n, FinishOk(said, n),
         NEW v, NEW s, Carried(v, s, said, n), FirstOk(s, said, n),
         NEW e \in Events, NEW y, y = ToOpenAi(format, e, s), NEW u, u = Said(e)
  PROVE  \E m : Turned(v, s, y, u, m) /\ FirstOk(y.state, u, m)
<1>1. CASE format = "openai"
  <2> DEFINE chunk == AsChunk(e)
  <2>1. e \in OpenAiEvents /\ chunk = AsChunk(e)
    BY <1>1 DEF Events
  <2>2. y.chunks = <<chunk>> /\ y.state = s
    BY <1>1 DEF ToOpenAi, Yield
  <2> HIDE DEF chunk
  <2>3. PICK m : Heard(v, s, <<chunk>>, u, m) /\ FinishOk(u, m)
    BY <1>1, <2>1, OpenAiHeard
  <2>4. Alters(s, s, FirstFields)
    BY CarriedIsState, AltersNothing
  <2>5. Turned(v, s, y, u, m)
    BY <2>2, <2>3, <2>4 DEF Turned
  <2>6. FirstOk(y.state, u, m)
    BY <1>1 DEF FirstOk
  <2> QED BY <2>5, <2>6
<1>2. CASE format = "claude"
  <2>1. e \in ClaudeEvents /\ y = ClaudeToOpenAi(e, s) /\ ClaudeOk(s, said, n)
    BY <1>2 DEF Events, ToOpenAi, FirstOk
  <2>2. PICK m : Turned(v, s, y, u, m) /\ ClaudeOk(y.state, u, m)
    BY <1>2, <2>1, ClaudeTurned
  <2> QED BY <1>2, <2>2 DEF FirstOk
<1>3. CASE format = "gemini"
  <2>1. e \in GeminiEvents /\ y = GeminiToOpenAi(e, s) /\ GeminiOk(s, said)
    BY <1>3 DEF Events, ToOpenAi, FirstOk
  <2>2. PICK m : Turned(v, s, y, u, m) /\ GeminiOk(y.state, u)
    BY <1>3, <2>1, GeminiTurned
  <2> QED BY <1>3, <2>2 DEF FirstOk
<1>4. CASE format = "ollama"
  <2>1. e \in OllamaEvents /\ y = OllamaToOpenAi(e, s)
    BY <1>4 DEF Events, ToOpenAi
  <2>2. PICK m : Turned(v, s, y, u, m)
    BY <1>4, <2>1, OllamaTurned
  <2> QED BY <1>4, <2>2 DEF FirstOk
<1>5. CASE format = "responses"
  <2>1. e \in ResponsesEvents /\ y = ResponsesToOpenAi(e, s) /\ RespOk(s, said, n)
    BY <1>5 DEF Events, ToOpenAi, FirstOk
  <2>2. PICK m : Turned(v, s, y, u, m) /\ RespOk(y.state, u, m)
    BY <1>5, <2>1, ResponsesTurned
  <2> QED BY <1>5, <2>2 DEF FirstOk
<1> QED BY <1>1, <1>2, <1>3, <1>4, <1>5 DEF Setting

LEMMA FirstAlike ==
  ASSUME Setting, NEW s, NEW t, NEW n, FirstOk(s, t, n), NEW r, Alters(s, r, ClientFields)
  PROVE  FirstOk(r, t, n)
<1>1. /\ r.toolCallIndex = s.toolCallIndex /\ r.serverTool = s.serverTool /\ r.thinkingBlock = s.thinkingBlock
      /\ r.finishReasonSent = s.finishReasonSent /\ r.functionIndex = s.functionIndex /\ r.begun = s.begun
  BY DEF Alters, Fields, ClientFields, ClaudeFields, CallFields, WordFields, ResponsesFields, TextFields, ClosedFields
<1>2. format = "claude" => r.toolCalls = s.toolCalls
  BY DEF Alters, Fields, ClientFields, ResponsesFields, TextFields, ClosedFields, Setting
<1>3. format = "claude" => ClaudeOk(r, t, n)
  BY <1>1, <1>2 DEF FirstOk, ClaudeOk, BlockCalls
<1>4. format = "responses" => RespOk(r, t, n)
  BY <1>1 DEF FirstOk, RespOk
<1>5. format = "gemini" => GeminiOk(r, t)
  BY <1>1 DEF FirstOk, GeminiOk
<1> QED BY <1>3, <1>4, <1>5 DEF FirstOk

LEMMA ResumedKeeps ==
  ASSUME SaidOk(said), said.resumed, NEW e, Listed(e), NEW u, u = Said(e)
  PROVE  u.resumed
<1> DEFINE m == SaidWords(e)
<1>0. IsSaid(said) /\ IsSaid(m)
  BY WordsKeep DEF SaidOk, WordsOk
<1>1. m.resumed
  <2>1. CASE said.stage = "finished"
    BY <1>0, <2>1, SaidLate
  <2>2. CASE said.stage # "finished" /\ e.parts = <<>>
    BY <1>0, <2>2, SaidNothing
  <2>3. ASSUME said.stage # "finished", NEW p \in Spoken, e.parts = <<p>> PROVE m.resumed
    BY <1>0, <2>3, SaidOne DEF Adds
  <2>4. ASSUME said.stage # "finished", NEW p \in Spoken, NEW q \in Spoken, e.parts = <<p, q>>
        PROVE  m.resumed
    <3> DEFINE h == SayPart(said, p)
    <3>1. Changes(said, h, Words) /\ Adds(p, said, h) /\ Changes(h, m, Words) /\ Adds(q, h, m)
      BY <1>0, <2>4, SaidTwo
    <3> QED BY <3>1 DEF Adds
  <2> QED BY <2>1, <2>2, <2>3, <2>4 DEF Listed
<1>2. Changes(m, u, Beside)
  BY <1>0, SaidPasses
<1> HIDE DEF m
<1> QED BY <1>1, <1>2 DEF Changes, SaidFields, Beside

-----------------------------------------------------------------------------
(* The end of the stream.                                                     *)
LEMMA QuietItself ==
  ASSUME NEW t
  PROVE  Quiet(t, t)
BY DEF Quiet

LEMMA OverSaid ==
  ASSUME SaidOk(said), said.stage # "over",
         NEW u, u = [said EXCEPT !.stage = "over", !.cut = said.stage]
  PROVE  /\ SaidOk(u) /\ Quiet(said, u) /\ Changes(said, u, {"stage", "cut"})
         /\ u.stage = "over" /\ u.cut = said.stage
<1> DEFINE a == [said EXCEPT !.stage = "over"]
<1>0. WordsOk(said) /\ IsSaid(said)
  BY DEF SaidOk, WordsOk
<1>1. u = [a EXCEPT !.cut = said.stage]
  BY <1>0 DEF IsSaid, SaidFields
<1>2. Changes(said, a, {"stage"}) /\ a.stage = "over"
  BY <1>0, SetSaid DEF SaidFields
<1> DEFINE x == said.stage
<1>b. IsSaid(a) /\ u = [a EXCEPT !.cut = x] /\ x = said.stage /\ "cut" \in SaidFields
  BY <1>1, <1>2 DEF Changes, SaidFields
<1> HIDE DEF a, x
<1>3. Changes(a, u, {"cut"}) /\ u.cut = said.stage
  BY <1>b DEF IsSaid, Changes, SaidFields
<1>4. Changes(said, u, {"stage", "cut"}) /\ u.stage = "over"
  BY <1>2, <1>3 DEF Changes, SaidFields
<1>5. /\ u.events = said.events /\ u.text = said.text /\ u.think = said.think /\ u.calls = said.calls
      /\ u.block = said.block /\ u.number = said.number /\ u.left = said.left
      /\ u.resumed = said.resumed /\ u.marked = said.marked /\ u.buried = said.buried
  BY <1>4 DEF Changes, SaidFields
<1>6. WordsOk(u)
  BY <1>0, <1>4, <1>5 DEF WordsOk, Changes
<1>7. SaidOk(u)
  BY <1>4, <1>5, <1>6 DEF SaidOk
<1>8. Order(u) = "kept" => Order(said) = "kept"
  BY <1>5, OrderLive DEF Order
<1>9. Mode(u) <=> Mode(said)
  BY <1>5 DEF Mode
<1>10. Quiet(said, u)
  BY <1>4, <1>5, <1>8, <1>9 DEF Quiet
<1> QED BY <1>3, <1>4, <1>7, <1>10

\* What must have been told of the end.
OverOk(s, t, m) ==
  /\ m \in Nat /\ (format \in {"claude", "responses"} => m <= 1)
  /\ t.cut = "finished" => m > 0
  /\ t.cut # "new" /\ format = "responses" => m > 0
  /\ t.cut # "new" /\ format = "openai" /\ client = "responses" => s.completedSent

LEMMA FlushedByClient ==
  ASSUME Setting, format = "openai", client = "responses", SaidOk(said), said.stage # "over",
         NEW n, FinishOk(said, n), NEW v, NEW s, Carried(v, s, said, n), said.events > 0 => s.started,
         NEW u, SaidOk(u), Quiet(said, u), Changes(said, u, {"stage", "cut"}),
         u.stage = "over", u.cut = said.stage, NEW r, r = FlushResponses(s)
  PROVE  Carried(v, r, u, n) /\ OverOk(r, u, n)
<1>1. CarriedByResponses(v, s, said, n)
  BY DEF Carried
<1> DEFINE o == Order(u)
<1>2. Shows(o, v, s)
  BY <1>1, ShowsWeaker DEF CarriedByResponses, Quiet
<1>3. o = "kept" => said.events > 0 /\ Order(said) = "kept"
  <2>1. u.events = said.events /\ u.events \in Nat
    BY DEF Changes, SaidFields, SaidOk
  <2> QED BY <2>1 DEF Order, Quiet
<1>4. o = "kept" => s.started
  BY <1>3
<1> HIDE DEF o
<1>5. Alters(s, r, ClosedFields) /\ Shows(o, v, r) /\ r.completedSent
  BY <1>2, <1>4, FlushKeeps
<1>6. r.added = s.added /\ (r.inThinking <=> s.inThinking)
  BY <1>5 DEF Alters, ClosedFields, Fields
<1>7. o = "kept" => Links(r, u)
  BY <1>1, <1>3, <1>5, <1>6 DEF CarriedByResponses, Links, Quiet
<1>8. o = "kept" => (r.inThinking <=> Mode(u))
  BY <1>1, <1>3, <1>6 DEF CarriedByResponses, Quiet
<1>9. CarriedByResponses(v, r, u, n)
  BY <1>5, <1>7, <1>8 DEF CarriedByResponses, o
<1>10. Carried(v, r, u, n)
  BY <1>9 DEF Carried
<1>11. OverOk(r, u, n)
  BY <1>5 DEF OverOk, FinishOk
<1> QED BY <1>10, <1>11

EndsAs(v, u, r) == \E m : Carried(v, r, u, m) /\ OverOk(r, u, m)

LEMMA FlushedByFirst ==
  ASSUME Setting, format = "responses", SaidOk(said), said.stage # "over",
         NEW n, FinishOk(said, n), NEW v, NEW s, Carried(v, s, said, n), RespOk(s, said, n),
         NEW u, SaidOk(u), Quiet(said, u), u.stage = "over", u.cut = said.stage,
         NEW r, r = Translate(FlushToOpenAi(format, s))
  PROVE  EndsAs(v, u, r) /\ (said.events = 0 => r = s)
<1>0. n \in {0, 1} /\ ~(client = "claude" /\ format = "claude") /\ IsState(s)
  BY CarriedIsState DEF RespOk, Setting
<1>1. CASE ~s.begun \/ s.finishReasonSent
  <2>1. FlushToOpenAi(format, s) = Yield(<<>>, s)
    BY <1>1 DEF FlushToOpenAi, FinishOnce
  <2>2. r = s
    BY <2>1, TranslateNothing
  <2>3. Carried(v, r, u, n)
    BY <1>0, <2>2, QuietKeeps
  <2>4. said.stage # "new" => n > 0
    BY <1>0, <1>1 DEF RespOk, SaidOk
  <2>5. OverOk(r, u, n)
    BY <1>0, <2>4 DEF OverOk
  <2> QED BY <2>2, <2>3, <2>5 DEF EndsAs
<1>2. CASE s.begun /\ ~s.finishReasonSent
  <2> DEFINE b == [s EXCEPT !.finishReasonSent = TRUE]
             one == <<Finish>>
  <2>1. FlushToOpenAi(format, s) = Yield(one, b)
    BY <1>2 DEF FlushToOpenAi, FinishOnce
  <2>2. Alters(s, b, {"finishReasonSent"})
    BY <1>0, SetSent
  <2>3. one = Append(<<>>, Finish)
    OBVIOUS
  <2> HIDE DEF b, one
  <2>4. Alters(s, b, FirstFields)
    BY <2>2, AltersLess DEF FirstFields, OwnFields
  <2>5. Carried(v, b, said, 0)
    BY <1>0, <1>2, <2>4, AlikeKeeps DEF RespOk
  <2>6. Heard(v, b, <<>>, said, 0)
    BY <2>5, HeardNothing
  <2>7. Speaks(Finish, said, said) /\ Finish \in Chunk /\ Finish.finish
    BY QuietItself, EmptyChunk, SaysNothing
  <2>8. said.calls \in Nat /\ ~said.marked
    BY DEF SaidOk, WordsOk
  <2>9. Heard(v, b, one, said, 1)
    BY <2>3, <2>6, <2>7, <2>8, HeardLive
  <2>10. Carried(v, r, said, 1)
    BY <2>1, <2>9 DEF Heard
  <2>11. Carried(v, r, u, 1)
    BY <1>0, <2>10, QuietKeeps
  <2>12. OverOk(r, u, 1)
    BY DEF OverOk
  <2>13. said.events # 0
    BY <1>2 DEF RespOk, SaidOk
  <2> QED BY <2>11, <2>12, <2>13 DEF EndsAs
<1> QED BY <1>1, <1>2

LEMMA EndTurned ==
  ASSUME Setting, SaidOk(said), said.stage # "over", NEW n, FinishOk(said, n),
         NEW v, Carried(v, state, said, n), FirstOk(state, said, n),
         format = "openai" /\ client = "responses" /\ said.events > 0 => state.started,
         NEW u, SaidOk(u), Quiet(said, u), Changes(said, u, {"stage", "cut"}),
         u.stage = "over", u.cut = said.stage, NEW r, r = AtEnd
  PROVE  /\ EndsAs(v, u, r)
         /\ said.events = 0 => r = state \/ r = FlushResponses(state)
<1>2. ~(client = "claude" /\ format = "claude")
  BY DEF Setting
<1>3. CASE format = "openai" /\ client = "responses"
  <2>1. r = FlushResponses(state)
    BY <1>3 DEF AtEnd
  <2>2. Carried(v, r, u, n) /\ OverOk(r, u, n)
    BY <1>3, <2>1, FlushedByClient
  <2> QED BY <2>1, <2>2 DEF EndsAs
<1>4. CASE format = "responses"
  <2>1. r = Translate(FlushToOpenAi(format, state)) /\ RespOk(state, said, n)
    BY <1>4 DEF AtEnd, FirstOk
  <2> DEFINE s == state
  <2>2. /\ r = Translate(FlushToOpenAi(format, s)) /\ RespOk(s, said, n) /\ Carried(v, s, said, n)
        /\ s = state
    BY <2>1
  <2> HIDE DEF s
  <2>3. EndsAs(v, u, r) /\ (said.events = 0 => r = s)
    BY <1>4, <2>2, FlushedByFirst
  <2> QED BY <2>2, <2>3
<1>5. CASE ~(format = "openai" /\ client = "responses") /\ format # "responses"
  <2>1. r = Translate(Yield(<<>>, state))
    BY <1>5 DEF AtEnd, FlushToOpenAi
  <2>2. r = state
    BY <2>1, TranslateNothing
  <2>3. Carried(v, r, u, n)
    BY <1>2, <2>2, QuietKeeps
  <2>4. format = "claude" => n <= 1
    BY DEF FirstOk, ClaudeOk
  <2>5. OverOk(r, u, n)
    BY <1>5, <2>4 DEF OverOk, FinishOk
  <2> QED BY <2>2, <2>3, <2>5 DEF EndsAs
<1> QED BY <1>3, <1>4, <1>5

-----------------------------------------------------------------------------
(* The client reads an event.                                                 *)
LEMMA TellsRest ==
  ASSUME NEW c, NEW order, NEW v, NEW s, NEW w, Tells(c, order, v, s, w), s.out # <<>>,
         NEW u, u = Seen(c, v, Head(s.out)), NEW r, Alters(s, r, {"out"}), r.out = Tail(s.out)
  PROVE  Tells(c, order, u, r, w) /\ Fits(c, order, v, Head(s.out))
<1>1. s.out \in Seq(Ev) /\ Reads(c, order, v, s.out, w)
  BY DEF Tells
<1>2. Fits(c, order, v, Head(s.out)) /\ Reads(c, order, Seen(c, v, Head(s.out)), Tail(s.out), w)
  BY <1>1, ReadsOne
<1>3. r.out \in Seq(Ev) /\ IsState(r)
  BY <1>1 DEF Alters
<1> QED BY <1>2, <1>3 DEF Tells

LEMMA ClaudeReadsRest ==
  ASSUME NEW order, NEW v, NEW s, NEW e, NEW x, NEW k, ClaudeReads(order, v, s, e, x, k), s.out # <<>>,
         NEW u, u = Seen("claude", v, Head(s.out)), NEW r, Alters(s, r, {"out"}), r.out = Tail(s.out)
  PROVE  ClaudeReads(order, u, r, e, x, k) /\ FitsClaude(v, Head(s.out))
<1>0. \A w : Tells("claude", order, v, s, w) =>
         Tells("claude", order, u, r, w) /\ FitsClaude(v, Head(s.out))
  <2> TAKE w
  <2> HAVE Tells("claude", order, v, s, w)
  <2>1. Tells("claude", order, u, r, w) /\ Fits("claude", order, v, Head(s.out))
    BY TellsRest
  <2> QED BY <2>1 DEF Fits
<1>1. /\ r.nextBlockIndex = s.nextBlockIndex /\ r.toolCalls = s.toolCalls
      /\ r.thinkingBlockIndex = s.thinkingBlockIndex /\ r.textBlockIndex = s.textBlockIndex
      /\ r.messageStartSent = s.messageStartSent /\ r.responseFinished = s.responseFinished
  BY DEF Alters, Fields
<1> DEFINE F == FitsClaude(v, Head(s.out))
<1> HIDE DEF F
<1>2. ASSUME Ended(order, v, s, e, x, k) PROVE Ended(order, u, r, e, x, k) /\ F
  BY <1>0, <1>1, <1>2 DEF Ended, F
<1>3. ASSUME Continues(order, v, s, e, x, k) PROVE Continues(order, u, r, e, x, k) /\ F
  <2>1. PICK w : Going(order, v, s, w, 0) /\ w.ends = e /\ w.text = x /\ w.think = k
    BY <1>3 DEF Continues
  <2>2. Going(order, u, r, w, 0) /\ F
    BY <1>0, <1>1, <2>1 DEF Going, Blocks, F
  <2> QED BY <2>1, <2>2 DEF Continues
<1>4. ASSUME Waits(order, v, s, e, x, k) PROVE Waits(order, u, r, e, x, k) /\ F
  BY <1>0, <1>1, <1>4 DEF Waits, Blocks, F
<1> QED BY <1>1, <1>2, <1>3, <1>4 DEF ClaudeReads, F

LEMMA CarriedRest ==
  ASSUME Setting, NEW v, NEW s, NEW t, NEW n, Carried(v, s, t, n), s.out # <<>>,
         NEW u, u = Seen(client, v, Head(s.out)), NEW r, Alters(s, r, {"out"}), r.out = Tail(s.out)
  PROVE  Carried(u, r, t, n) /\ Fits(client, Order(t), v, Head(s.out))
<1>1. CASE client = "claude"
  <2>1. CarriedByClaude(v, s, t, n) /\ u = Seen("claude", v, Head(s.out))
    BY <1>1 DEF Carried
  <2> DEFINE e == IF s.responseFinished THEN 1 ELSE 0
  <2>2. ClaudeReads("kept", v, s, e, t.text, t.think)
    BY <2>1 DEF CarriedByClaude
  <2>3. r.responseFinished = s.responseFinished /\ r.toolCalls = s.toolCalls
    BY DEF Alters, Fields
  <2>4. e = IF r.responseFinished THEN 1 ELSE 0
    BY <2>3
  <2> HIDE DEF e
  <2>5. ClaudeReads("kept", u, r, e, t.text, t.think) /\ FitsClaude(v, Head(s.out))
    BY <2>1, <2>2, ClaudeReadsRest
  <2>6. CarriedByClaude(u, r, t, n)
    BY <2>1, <2>3, <2>4, <2>5 DEF CarriedByClaude
  <2> QED BY <1>1, <2>5, <2>6 DEF Carried, Fits
<1>2. CASE client = "responses"
  <2>1. CarriedByResponses(v, s, t, n) /\ u = Seen("responses", v, Head(s.out))
    BY <1>2 DEF Carried
  <2> DEFINE o == Order(t)
  <2>2. PICK w : Shown(o, v, s, w)
    BY <2>1 DEF CarriedByResponses, Shows
  <2> HIDE DEF o
  <2>3. Tells("responses", o, u, r, w) /\ Fits("responses", o, v, Head(s.out))
    BY <2>1, <2>2, TellsRest DEF Shown
  <2>4. /\ r.msgItem = s.msgItem /\ r.reasoning = s.reasoning /\ r.inThinking = s.inThinking
        /\ r.added = s.added /\ r.done = s.done /\ r.started = s.started
        /\ r.completedSent = s.completedSent
    BY DEF Alters, Fields
  <2>5. TypedItems(r) /\ (Items(s, w.parts) => Items(r, w.parts)) /\ Status(r) = Status(s)
    BY <2>2, <2>4 DEF Shown, TypedItems, Items, ItemState, Status
  <2>6. Shown(o, u, r, w)
    BY <2>2, <2>3, <2>4, <2>5 DEF Shown
  <2>7. CarriedByResponses(u, r, t, n)
    BY <2>1, <2>4, <2>6 DEF CarriedByResponses, Shows, Links, o
  <2> QED BY <1>2, <2>3, <2>7 DEF Carried, o
<1>3. CASE client = "openai"
  <2>1. PICK w : Tells("openai", "kept", v, s, w) /\ w.ends = n
    BY <1>3 DEF Carried, Passes
  <2>2. u = Seen("openai", v, Head(s.out))
    BY <1>3
  <2>3. Tells("openai", "kept", u, r, w)
    BY <2>1, <2>2, TellsRest
  <2>4. Passes("kept", u, r, n)
    BY <2>1, <2>3 DEF Passes
  <2> QED BY <1>3, <2>4 DEF Carried, Fits
<1> QED BY <1>1, <1>2, <1>3 DEF Setting

\* Reading only adds ends.
LEMMA ReadsEnds ==
  ASSUME NEW c, NEW order, NEW v, IsView(v), NEW w, NEW out \in Seq(Ev), Reads(c, order, v, out, w)
  PROVE  w.ends \in Nat /\ v.ends <= w.ends
<1> DEFINE n == Len(out)
<1>1. PICK p : Way(c, order, v, out, w, p)
  BY DEF Reads
<1>2. n \in Nat /\ p[0] = v /\ p[n] = w /\ \A i \in 1..n : p[i] = Seen(c, p[i - 1], out[i])
  BY <1>1 DEF Way
<1> HIDE DEF n
<1> DEFINE P(j) == j <= n => p[j].ends \in Nat /\ v.ends <= p[j].ends
<1>3. P(0)
  BY <1>2 DEF IsView
<1>4. ASSUME NEW j \in Nat, P(j) PROVE P(j + 1)
  <2> SUFFICES ASSUME j + 1 <= n PROVE p[j + 1].ends \in Nat /\ v.ends <= p[j + 1].ends
    OBVIOUS
  <2>1. j + 1 \in 1..n /\ (j + 1) - 1 = j /\ j <= n
    BY <1>2
  <2>2. p[j + 1] = Seen(c, p[j], out[j + 1])
    BY <1>2, <2>1
  <2>3. p[j + 1].ends = IF out[j + 1].type = "end" THEN p[j].ends + 1 ELSE p[j].ends
    BY <2>2 DEF Seen
  <2>4. v.ends \in Nat
    BY DEF IsView
  <2> QED BY <1>4, <2>1, <2>3, <2>4
<1> HIDE DEF P
<1>5. \A j \in Nat : P(j)
  <2> DEFINE Bad == {j \in Nat : ~P(j)}
  <2> SUFFICES ASSUME Bad # {} PROVE FALSE
    OBVIOUS
  <2>1. PICK m \in Bad : \A k \in Bad : m <= k
    BY Onwards!LeastNatural
  <2>2. m # 0
    BY <1>3, <2>1
  <2>3. m - 1 \in Nat /\ m - 1 \notin Bad /\ (m - 1) + 1 = m
    BY <2>1, <2>2
  <2>4. P(m - 1)
    BY <2>3
  <2>5. P(m)
    BY <1>4, <2>3, <2>4
  <2> QED BY <2>1, <2>5
<1> QED BY <1>2, <1>5 DEF P

-----------------------------------------------------------------------------
(* The inductive invariant.                                                   *)
\* The provider may still speak.
Telling(v, s, t) ==
  /\ \E n : Carried(v, s, t, n) /\ FinishOk(t, n) /\ FirstOk(s, t, n)
  /\ format = "openai" /\ client = "responses" /\ t.events > 0 => s.started

\* Before the first event nothing is told but an end.
Fresh(v, s, t) ==
  t.events = 0 =>
    /\ DOMAIN v.parts = {} /\ \A i \in 1..Len(s.out) : s.out[i].type = "end"
    /\ t.stage # "over" => s.out = <<>> /\ s.msgItem = "none" /\ s.reasoning = "none" /\ s.added = {}

ViewOk(v, t) ==
  /\ IsView(v) /\ (Straight(v) \/ (client = "responses" /\ Order(t) = "broken"))
  /\ client = "responses" /\ Order(t) = "kept" /\ v.status = "ended" => AllClosed(v)

StreamInv ==
  /\ Setting /\ SaidOk(said) /\ ViewOk(view, said) /\ Fresh(view, state, said)
  /\ said.stage # "over" => Telling(view, state, said)
  /\ said.stage = "over" => EndsAs(view, said, state)

LEMMA InitState ==
  ASSUME Init
  PROVE  /\ IsState(state) /\ state.out = <<>> /\ state.toolCalls = <<>> /\ state.toolCallIndex = 0
         /\ state.serverTool = None /\ state.thinkingBlock = None /\ ~state.finishReasonSent
         /\ state.functionIndex = 0 /\ ~state.begun /\ ~state.messageStartSent
         /\ state.nextBlockIndex = 0 /\ state.thinkingBlockIndex = None /\ state.textBlockIndex = None
         /\ state.toolArgBuffers = {} /\ ~state.responseFinished /\ ~state.started
         /\ state.msgItem = "none" /\ state.reasoning = "none" /\ ~state.inThinking
         /\ state.added = {} /\ state.done = {} /\ ~state.completedSent
<1> DEFINE a == [out |-> <<>>]
           b == ToOpenAiState
           c == ToClaudeState
           d == ToResponsesState
           cd == Both(c, d)
           bcd == Both(b, cd)
<1>1. state = Both(a, bcd)
  BY DEF Init
<1>2. /\ DOMAIN a = {"out"} /\ a.out = <<>>
  OBVIOUS
<1>3. /\ DOMAIN b = {"toolCalls", "toolCallIndex", "serverTool", "thinkingBlock", "finishReasonSent",
                     "functionIndex", "begun"}
      /\ b.toolCalls = <<>> /\ b.toolCallIndex = 0 /\ b.serverTool = None /\ b.thinkingBlock = None
      /\ ~b.finishReasonSent /\ b.functionIndex = 0 /\ ~b.begun
  BY DEF ToOpenAiState
<1>4. /\ DOMAIN c = {"messageStartSent", "nextBlockIndex", "thinkingBlockIndex", "textBlockIndex",
                     "toolArgBuffers", "responseFinished"}
      /\ ~c.messageStartSent /\ c.nextBlockIndex = 0 /\ c.thinkingBlockIndex = None
      /\ c.textBlockIndex = None /\ c.toolArgBuffers = {} /\ ~c.responseFinished
  BY DEF ToClaudeState
<1>5. /\ DOMAIN d = {"started", "msgItem", "reasoning", "inThinking", "added", "done", "completedSent"}
      /\ ~d.started /\ d.msgItem = "none" /\ d.reasoning = "none" /\ ~d.inThinking
      /\ d.added = {} /\ d.done = {} /\ ~d.completedSent
  BY DEF ToResponsesState
<1> HIDE DEF a, b, c, d
<1>6. /\ DOMAIN cd = DOMAIN c \cup DOMAIN d
      /\ \A x \in DOMAIN c : cd[x] = c[x]
      /\ \A x \in DOMAIN d : x \notin DOMAIN c => cd[x] = d[x]
  BY DEF Both
<1> HIDE DEF cd
<1>7. /\ DOMAIN bcd = DOMAIN b \cup DOMAIN cd
      /\ \A x \in DOMAIN b : bcd[x] = b[x]
      /\ \A x \in DOMAIN cd : x \notin DOMAIN b => bcd[x] = cd[x]
  BY DEF Both
<1> HIDE DEF bcd
<1>8. /\ DOMAIN state = DOMAIN a \cup DOMAIN bcd
      /\ state = [x \in DOMAIN a \cup DOMAIN bcd |-> state[x]]
      /\ \A x \in DOMAIN a : state[x] = a[x]
      /\ \A x \in DOMAIN bcd : x \notin DOMAIN a => state[x] = bcd[x]
  BY <1>1 DEF Both
<1>9. DOMAIN a \cup DOMAIN bcd = Fields
  BY <1>2, <1>3, <1>4, <1>5, <1>6, <1>7 DEF Fields
<1>10. IsState(state) /\ state.out = <<>>
  BY <1>2, <1>8, <1>9 DEF IsState
<1>11. /\ state.toolCalls = <<>> /\ state.toolCallIndex = 0 /\ state.serverTool = None
       /\ state.thinkingBlock = None /\ ~state.finishReasonSent /\ state.functionIndex = 0 /\ ~state.begun
  <2>1. \A x \in DOMAIN b : state[x] = b[x]
    BY <1>2, <1>3, <1>7, <1>8
  <2> QED BY <1>3, <2>1
<1>12. /\ ~state.messageStartSent /\ state.nextBlockIndex = 0 /\ state.thinkingBlockIndex = None
       /\ state.textBlockIndex = None /\ state.toolArgBuffers = {} /\ ~state.responseFinished
  <2>1. \A x \in DOMAIN c : state[x] = c[x]
    BY <1>2, <1>3, <1>4, <1>6, <1>7, <1>8
  <2> QED BY <1>4, <2>1
<1>13. /\ ~state.started /\ state.msgItem = "none" /\ state.reasoning = "none" /\ ~state.inThinking
       /\ state.added = {} /\ state.done = {} /\ ~state.completedSent
  <2>1. \A x \in DOMAIN d : state[x] = d[x]
    BY <1>2, <1>3, <1>4, <1>5, <1>6, <1>7, <1>8
  <2> QED BY <1>5, <2>1
<1> QED BY <1>10, <1>11, <1>12, <1>13

LEMMA InitStream ==
  ASSUME Init
  PROVE  StreamInv
<1>1. Setting
  BY StreamAssumption DEF Init, Setting
<1>2. /\ said.events = 0 /\ said.text = 0 /\ said.think = 0 /\ said.calls = 0 /\ said.block = "none"
      /\ said.number = 0 /\ said.stage = "new" /\ said.left = {} /\ ~said.resumed /\ ~said.marked
      /\ IsSaid(said)
  BY DEF Init, IsSaid, SaidFields
<1>3. /\ IsView(view) /\ Straight(view) /\ view.status = "waiting" /\ view.ends = 0
      /\ view.parts = << >> /\ view.text = 0 /\ view.think = 0
  BY DEF Init, IsView, Straight
<1> DEFINE parts == view.parts
<1>4. DOMAIN parts = {} /\ TypedParts(parts)
  BY <1>3 DEF TypedParts
<1> HIDE DEF parts
<1>5. SaidOk(said)
  BY <1>2 DEF SaidOk, WordsOk
<1>6. Order(said) = "kept" /\ ~Mode(said)
  BY <1>2 DEF Order, Mode
<1>7. \A c : Tells(c, "kept", view, state, view)
  <2> TAKE c
  <2>1. Reads(c, "kept", view, <<>>, view)
    BY ReadsNothing
  <2>2. <<>> \in Seq(Ev)
    OBVIOUS
  <2> QED BY <1>3, <2>1, <2>2, InitState DEF Tells
<1>8. CarriedByClaude(view, state, said, 0)
  <2>1. Numbered(0, parts)
    BY <1>4 DEF Numbered
  <2>2. CallBlocks(<<>>, parts)
    <3>1. <<>> \in Seq(CallEntry) /\ Len(<<>>) = 0
      OBVIOUS
    <3> QED BY <1>4, <3>1 DEF CallBlocks, CallsOf
  <2>3. StillOpen(None, None, <<>>, parts, 0)
    <3>1. Len(<<>>) = 0
      OBVIOUS
    <3> QED BY <1>4, <3>1 DEF StillOpen
  <2>4. Blocks(state, parts, 0)
    BY <2>1, <2>2, <2>3, InitState DEF Blocks
  <2>5. Waits("kept", view, state, 0, 0, 0)
    BY <1>3, <1>7, <2>4, InitState DEF Waits, parts
  <2>6. ~state.messageStartSent /\ ~state.responseFinished /\ Len(state.toolCalls) = 0
    BY InitState
  <2>7. ClaudeReads("kept", view, state, 0, 0, 0)
    BY <2>5, <2>6 DEF ClaudeReads
  <2> DEFINE e == IF state.responseFinished THEN 1 ELSE 0
  <2>8. e = 0
    BY <2>6
  <2>9. ClaudeReads("kept", view, state, e, said.text, said.think)
    <3> HIDE DEF e
    <3> QED BY <1>2, <2>7, <2>8
  <2> QED BY <1>2, <2>6, <2>9 DEF CarriedByClaude
<1>9. CarriedByResponses(view, state, said, 0)
  <2>1. TypedItems(state)
    BY InitState, FS_EmptySet DEF TypedItems, ItemStates
  <2>2. Items(state, parts)
    BY <1>4, InitState DEF Items, ItemIs, ItemState
  <2>3. Shown("kept", view, state, view)
    BY <1>3, <1>7, <2>1, <2>2, InitState DEF Shown, Status, parts
  <2>4. Links(state, said)
    <3>1. 0..(said.calls - 1) = {}
      BY <1>2
    <3> QED BY <3>1, InitState DEF Links
  <2>5. ~state.completedSent /\ ~state.inThinking
    BY InitState
  <2> QED BY <1>6, <2>3, <2>4, <2>5 DEF CarriedByResponses, Shows
<1>10. Passes("kept", view, state, 0)
  BY <1>3, <1>7 DEF Passes
<1>11. Carried(view, state, said, 0)
  BY <1>8, <1>9, <1>10 DEF Carried
<1>12. FirstOk(state, said, 0)
  <2>0. /\ state.toolCalls = <<>> /\ state.toolCallIndex = 0 /\ state.serverTool = None
        /\ state.thinkingBlock = None /\ ~state.finishReasonSent /\ state.functionIndex = 0 /\ ~state.begun
    BY InitState
  <2>1. BlockCalls(state, said)
    <3>1. <<>> \in Seq(CallEntry) /\ Len(<<>>) = 0 /\ 1..said.calls = {}
      BY <1>2
    <3> QED BY <1>2, <2>0, <3>1 DEF BlockCalls
  <2>2. ClaudeOk(state, said, 0)
    BY <1>2, <2>0, <2>1 DEF ClaudeOk
  <2>3. RespOk(state, said, 0) /\ GeminiOk(state, said)
    BY <1>2, <2>0 DEF RespOk, GeminiOk
  <2> QED BY <2>2, <2>3 DEF FirstOk
<1>13. FinishOk(said, 0)
  BY <1>2 DEF FinishOk
<1>14. Telling(view, state, said)
  BY <1>2, <1>11, <1>12, <1>13 DEF Telling
<1>15. Fresh(view, state, said)
  <2>1. Len(<<>>) = 0
    OBVIOUS
  <2> QED BY <1>2, <1>4, <2>1, InitState DEF Fresh, parts
<1>16. ViewOk(view, said)
  BY <1>3 DEF ViewOk
<1> QED BY <1>1, <1>2, <1>5, <1>14, <1>15, <1>16 DEF StreamInv

LEMMA TranslateParts ==
  ASSUME NEW y
  PROVE  Translate(y) = Translate(Yield(y.chunks, y.state))
<1> DEFINE z == Yield(y.chunks, y.state)
<1>1. z.chunks = y.chunks /\ z.state = y.state
  BY DEF Yield
<1> HIDE DEF z
<1>2. Translate(y) = Translate(z)
  BY <1>1 DEF Translate, FoldLeft, MapThenFoldSet
<1> QED BY <1>2 DEF z

LEMMA ProvideStream ==
  ASSUME StreamInv, Provide
  PROVE  StreamInv'
<1>0. /\ Setting /\ SaidOk(said) /\ ViewOk(view, said) /\ Fresh(view, state, said)
      /\ state.out = <<>> /\ said.stage # "over"
      /\ Telling(view, state, said)
  BY DEF StreamInv, Provide
<1>1. PICK e \in Events : state' = Translate(ToOpenAi(format, e, state)) /\ said' = Said(e)
  BY DEF Provide
<1>2. format' = format /\ client' = client /\ view' = view
  BY DEF Provide
<1>3. PICK n : Carried(view, state, said, n) /\ FinishOk(said, n) /\ FirstOk(state, said, n)
  BY <1>0 DEF Telling
<1> DEFINE y == ToOpenAi(format, e, state)
           u == Said(e)
           r == Translate(y)
<1>4. u = Said(e) /\ y = ToOpenAi(format, e, state) /\ r = Translate(y) /\ said' = u /\ state' = r
  BY <1>1
<1> HIDE DEF y, u, r
<1>5. PICK m : Turned(view, state, y, u, m) /\ FirstOk(y.state, u, m)
  BY <1>0, <1>3, <1>4, EventTurned
<1>6. Listed(e) /\ (e.type = "message_delta" => format = "claude")
  <2>1. format = "claude" => said.block \in {"none", "text", "think", "call", "server"}
    BY <1>3 DEF FirstOk, ClaudeOk
  <2> QED BY <1>0, <2>1, EventShape
<1>7. SaidOk(u) /\ u.stage \notin {"new", "over"} /\ u.events = said.events + 1
  BY <1>0, <1>4, <1>6, SaidKeeps
<1>8. Order(u) = "kept" => Order(said) = "kept"
  <2>1. said.resumed => u.resumed
    BY <1>0, <1>4, <1>6, ResumedKeeps
  <2> QED BY <1>0, <1>7, <2>1, OrderLive
<1>9. /\ Heard(view, y.state, y.chunks, u, m) /\ FinishOk(u, m)
  BY <1>5 DEF Turned
<1>10. r = Translate(Yield(y.chunks, y.state))
  BY <1>4, TranslateParts
<1>11. Alters(y.state, r, ClientFields) /\ Carried(view, r, u, m)
       /\ (client = "responses" /\ y.chunks # <<>> => r.started)
  BY <1>9, <1>10 DEF Heard
<1>12. FirstOk(r, u, m)
  BY <1>0, <1>5, <1>11, FirstAlike
<1>13. format = "openai" => y.chunks # <<>>
  BY <1>4 DEF ToOpenAi, Yield
<1>14. Telling(view, r, u)
  BY <1>9, <1>11, <1>12, <1>13 DEF Telling
<1>15. Fresh(view, r, u)
  BY <1>0, <1>7 DEF Fresh, SaidOk
<1>16. ViewOk(view, u)
  BY <1>0, <1>8 DEF ViewOk, Order
<1>17. Setting'
  BY <1>0, <1>2 DEF Setting
<1>18. SaidOk(said)'
  BY <1>2, <1>4, <1>7 DEF SaidOk, WordsOk
<1>19. ViewOk(view, said)'
  BY <1>2, <1>4, <1>16 DEF ViewOk
<1>20. Fresh(view, state, said)'
  BY <1>2, <1>4, <1>15 DEF Fresh
<1>21. Telling(view, state, said)'
  BY <1>2, <1>4, <1>14 DEF Telling, Carried, CarriedByClaude, CarriedByResponses, Links, Mode, FirstOk
<1>22. said'.stage # "over"
  BY <1>4, <1>7
<1> QED BY <1>17, <1>18, <1>19, <1>20, <1>21, <1>22 DEF StreamInv

\* A stream that was closed without an event is told nothing but its end.
LEMMA FlushFresh ==
  ASSUME NEW s, IsState(s), s.out = <<>>, s.msgItem = "none", s.reasoning = "none", s.added = {},
         NEW r, r = FlushResponses(s)
  PROVE  \A i \in 1..Len(r.out) : r.out[i].type = "end"
<1>1. CASE s.completedSent
  <2>1. r.out = <<>> /\ 1..Len(<<>>) = {}
    BY <1>1 DEF FlushResponses
  <2> QED BY <2>1
<1>2. CASE ~s.completedSent
  <2> DEFINE nothing == <<>>
             ev == [type |-> "end", kind |-> "none", n |-> 0]
             t == [s EXCEPT !.completedSent = TRUE]
  <2>1. CloseReasoning(CloseMessage(s)) = s /\ Upwards(s.added) = nothing
    BY DEF CloseReasoning, CloseMessage, Upwards
  <2>2. nothing \in Seq(Nat) /\ Len(nothing) = 0
    OBVIOUS
  <2> HIDE DEF nothing
  <2>3. FoldLeft(CloseToolCall, s, nothing) = CloseCalls!Result(s, nothing, 0)
    BY <2>2, CloseCallsFold
  <2>4. CloseCalls!Result(s, nothing, 0) = s
    BY CloseCalls!NoStep
  <2>5. r = SendCompleted(s)
    BY <1>2, <2>1, <2>3, <2>4 DEF FlushResponses, CloseAll
  <2>6. IsState(t) /\ t.out = <<>>
    BY DEF IsState, Fields
  <2>7. r = Emit(t, "end", "none", 0)
    BY <1>2, <2>5 DEF SendCompleted
  <2> HIDE DEF t
  <2>8. r.out = Append(<<>>, ev)
    BY <2>6, <2>7, EmitAlters
  <2> HIDE DEF ev
  <2>9. r.out = <<ev>> /\ Len(<<ev>>) = 1
    BY <2>8
  <2>10. ev.type = "end"
    BY DEF ev
  <2> QED BY <2>9, <2>10
<1> QED BY <1>1, <1>2

LEMMA EndStream ==
  ASSUME StreamInv, EndOfStream
  PROVE  StreamInv'
<1>0. /\ Setting /\ SaidOk(said) /\ ViewOk(view, said) /\ Fresh(view, state, said)
      /\ state.out = <<>> /\ said.stage # "over"
      /\ Telling(view, state, said)
  BY DEF StreamInv, EndOfStream
<1> DEFINE u == [said EXCEPT !.stage = "over", !.cut = said.stage]
           r == AtEnd
<1>1. /\ format' = format /\ client' = client /\ view' = view
      /\ u = [said EXCEPT !.stage = "over", !.cut = said.stage] /\ r = AtEnd /\ said' = u /\ state' = r
  BY DEF EndOfStream
<1> HIDE DEF u, r
<1>2. PICK n : Carried(view, state, said, n) /\ FinishOk(said, n) /\ FirstOk(state, said, n)
  BY <1>0 DEF Telling
<1>3. /\ SaidOk(u) /\ Quiet(said, u) /\ Changes(said, u, {"stage", "cut"})
      /\ u.stage = "over" /\ u.cut = said.stage
  BY <1>0, <1>1, OverSaid
<1>4. EndsAs(view, u, r) /\ (said.events = 0 => r = state \/ r = FlushResponses(state))
  <2>1. format = "openai" /\ client = "responses" /\ said.events > 0 => state.started
    BY <1>0 DEF Telling
  <2>2. r = AtEnd
    BY <1>1
  <2> QED BY <1>0, <1>2, <1>3, <2>1, <2>2, EndTurned
<1>5. IsState(state)
  BY <1>0, <1>2, CarriedIsState
<1>6. u.events = said.events /\ u.resumed = said.resumed
  BY <1>3 DEF Changes, SaidFields
<1>7. Order(u) = "kept" => Order(said) = "kept"
  BY <1>3 DEF Quiet
<1>8. Order(said) = "broken" => Order(u) = "broken"
  BY <1>0, <1>6 DEF Order
<1>9. ViewOk(view, u)
  BY <1>0, <1>7, <1>8 DEF ViewOk
<1>10. Fresh(view, r, u)
  <2>1. ASSUME u.events = 0 PROVE DOMAIN view.parts = {} /\ \A i \in 1..Len(r.out) : r.out[i].type = "end"
    <3>1. /\ DOMAIN view.parts = {} /\ state.msgItem = "none" /\ state.reasoning = "none" /\ state.added = {}
      BY <1>0, <1>6, <2>1 DEF Fresh
    <3>2. CASE r = state
      <4>1. r.out = <<>> /\ 1..Len(<<>>) = {}
        BY <1>0, <3>2
      <4> QED BY <3>1, <4>1
    <3>3. CASE r = FlushResponses(state)
      BY <1>0, <1>5, <3>1, <3>3, FlushFresh
    <3> QED BY <1>4, <1>6, <2>1, <3>2, <3>3
  <2> QED BY <1>3, <2>1 DEF Fresh
<1>11. Setting'
  BY <1>0, <1>1 DEF Setting
<1>12. SaidOk(said)'
  BY <1>1, <1>3 DEF SaidOk, WordsOk
<1>13. ViewOk(view, said)'
  BY <1>1, <1>9 DEF ViewOk
<1>14. Fresh(view, state, said)'
  BY <1>1, <1>10 DEF Fresh
<1>15. EndsAs(view, said, state)'
  BY <1>1, <1>4 DEF EndsAs, OverOk, Carried, CarriedByClaude, CarriedByResponses, Links, Mode
<1>16. said'.stage = "over"
  BY <1>1, <1>3
<1> QED BY <1>11, <1>12, <1>13, <1>14, <1>15, <1>16 DEF StreamInv

LEMMA ReadView ==
  ASSUME Setting, NEW v, NEW t, ViewOk(v, t), NEW ev \in Ev, Fits(client, Order(t), v, ev),
         NEW u, u = Seen(client, v, ev)
  PROVE  ViewOk(u, t)
<1>1. /\ IsView(u)
      /\ u.status = IF ev.type = "start" THEN "open" ELSE IF ev.type = "end" THEN "ended" ELSE v.status
  BY SeenView DEF ViewOk
<1>2. Order(t) \in {"kept", "broken"}
  BY DEF Order
<1>3. Straight(u) \/ (client = "responses" /\ Order(t) = "broken")
  <2>1. CASE client = "openai"
    BY <2>1, SeenStray DEF ViewOk
  <2>2. CASE client = "claude"
    <3>1. InPlace(client, v, ev)
      BY <2>2, FittingIsInPlace DEF Fits
    <3> QED BY <2>2, <3>1, SeenStray DEF ViewOk
  <2>3. CASE client = "responses" /\ Order(t) = "kept"
    <3>1. InPlace(client, v, ev)
      BY <2>3 DEF Fits, FitsResponses
    <3>2. Straight(v)
      BY <2>3 DEF ViewOk
    <3> QED BY <3>1, <3>2, SeenStray
  <2> QED BY <1>2, <2>1, <2>2, <2>3 DEF Setting
<1>4. ASSUME client = "responses", Order(t) = "kept", u.status = "ended" PROVE AllClosed(u)
  <2>1. InPlace("responses", v, ev) /\ (ev.type = "end" => AllClosed(v))
    BY <1>4 DEF Fits, FitsResponses
  <2>2. CASE ev.type = "end"
    <3>1. u.parts = v.parts
      BY <2>2 DEF Seen
    <3> QED BY <2>1, <2>2, <3>1 DEF AllClosed
  <2>3. CASE ev.type # "end"
    <3>1. ev.type \in {"open", "delta", "args", "close"} /\ v.status = "ended"
      BY <1>1, <1>4, <2>3 DEF Ev, EventType
    <3>2. v.status = "open"
      BY <2>1, <3>1 DEF InPlace, Hits
    <3> QED BY <3>1, <3>2
  <2> QED BY <2>2, <2>3
<1> QED BY <1>1, <1>3, <1>4 DEF ViewOk

LEMMA ReadStream ==
  ASSUME StreamInv, Read
  PROVE  StreamInv'
<1>0. /\ Setting /\ SaidOk(said) /\ ViewOk(view, said) /\ Fresh(view, state, said) /\ state.out # <<>>
  BY DEF StreamInv, Read
<1> DEFINE ev == Head(state.out)
           u == Seen(client, view, ev)
           rest == Tail(state.out)
           r == [state EXCEPT !.out = rest]
<1>1. /\ format' = format /\ client' = client /\ said' = said /\ view' = u /\ state' = r
      /\ u = Seen(client, view, ev)
  BY DEF Read
<1>2. PICK n : Carried(view, state, said, n)
  BY DEF StreamInv, Telling, EndsAs
<1>3. IsState(state) /\ state.out \in Seq(Ev)
  BY <1>0, <1>2, CarriedIsState
<1>4. ev \in Ev
  BY <1>0, <1>3
<1> HIDE DEF rest
<1>5. Alters(state, r, {"out"}) /\ r.out = rest
  BY <1>3 DEF IsState, Alters, Fields
<1>6. r.out = Tail(state.out) /\ ev = Head(state.out)
  BY <1>5 DEF rest
<1> HIDE DEF r, u, ev
<1>7. Fits(client, Order(said), view, ev)
  BY <1>0, <1>1, <1>2, <1>5, <1>6, CarriedRest
<1>8. ViewOk(u, said)
  BY <1>0, <1>1, <1>4, <1>7, ReadView
<1>9. Fresh(u, r, said)
  <2>1. ASSUME said.events = 0 PROVE DOMAIN u.parts = {} /\ \A i \in 1..Len(r.out) : r.out[i].type = "end"
    <3>1. DOMAIN view.parts = {} /\ \A i \in 1..Len(state.out) : state.out[i].type = "end"
      BY <1>0, <2>1 DEF Fresh
    <3>2. ev.type = "end"
      <4>1. 1 \in 1..Len(state.out) /\ ev = state.out[1]
        BY <1>0, <1>3, <1>6
      <4> QED BY <3>1, <4>1
    <3>3. u.parts = view.parts
      BY <1>1, <3>2 DEF Seen
    <3>4. ASSUME NEW i \in 1..Len(r.out) PROVE r.out[i].type = "end"
      <4>1. i + 1 \in 1..Len(state.out) /\ r.out[i] = state.out[i + 1]
        BY <1>0, <1>3, <1>6
      <4> QED BY <3>1, <4>1
    <3> QED BY <3>1, <3>3, <3>4
  <2>2. said.events = 0 => said.stage = "over"
    BY <1>0 DEF Fresh
  <2> QED BY <2>1, <2>2 DEF Fresh
<1>10. Alters(state, r, ClientFields)
  <2>1. "out" \in ClientFields
    BY DEF ClientFields, ClaudeFields, CallFields, WordFields, ResponsesFields, TextFields
  <2> QED BY <1>5, <2>1, AltersLess
<1>11. (r.started <=> state.started) /\ (r.completedSent <=> state.completedSent)
  BY <1>5 DEF Alters, Fields
<1>12. ASSUME said.stage # "over" PROVE Telling(u, r, said)
  <2>1. PICK m : Carried(view, state, said, m) /\ FinishOk(said, m) /\ FirstOk(state, said, m)
    BY <1>12 DEF StreamInv, Telling
  <2>2. Carried(u, r, said, m)
    BY <1>0, <1>1, <1>5, <1>6, <2>1, CarriedRest
  <2>3. FirstOk(r, said, m)
    BY <1>0, <1>10, <2>1, FirstAlike
  <2>4. format = "openai" /\ client = "responses" /\ said.events > 0 => r.started
    BY <1>11, <1>12 DEF StreamInv, Telling
  <2> QED BY <2>1, <2>2, <2>3, <2>4 DEF Telling
<1>13. ASSUME said.stage = "over" PROVE EndsAs(u, said, r)
  <2>1. PICK m : Carried(view, state, said, m) /\ OverOk(state, said, m)
    BY <1>13 DEF StreamInv, EndsAs
  <2>2. Carried(u, r, said, m)
    BY <1>0, <1>1, <1>5, <1>6, <2>1, CarriedRest
  <2>3. OverOk(r, said, m)
    BY <1>11, <2>1 DEF OverOk
  <2> QED BY <2>2, <2>3 DEF EndsAs
<1>14. Setting' /\ SaidOk(said)'
  BY <1>0, <1>1 DEF Setting, SaidOk, WordsOk
<1>15. ViewOk(view, said)' /\ Fresh(view, state, said)'
  BY <1>1, <1>8, <1>9 DEF ViewOk, Fresh
<1>16. said'.stage # "over" => Telling(view, state, said)'
  BY <1>1, <1>12 DEF Telling, Carried, CarriedByClaude, CarriedByResponses, Links, Mode, FirstOk
<1>17. said'.stage = "over" => EndsAs(view, said, state)'
  BY <1>1, <1>13 DEF EndsAs, OverOk, Carried, CarriedByClaude, CarriedByResponses, Links, Mode
<1> QED BY <1>14, <1>15, <1>16, <1>17 DEF StreamInv

LEMMA IdleStream ==
  ASSUME StreamInv, UNCHANGED vars
  PROVE  StreamInv'
<1>1. format' = format /\ client' = client /\ said' = said /\ view' = view /\ state' = state
  BY DEF vars
<1>2. Setting' /\ SaidOk(said)' /\ ViewOk(view, said)' /\ Fresh(view, state, said)'
  BY <1>1 DEF StreamInv, Setting, SaidOk, WordsOk, ViewOk, Fresh
<1>3. said'.stage # "over" => Telling(view, state, said)'
  BY <1>1 DEF StreamInv, Telling, Carried, CarriedByClaude, CarriedByResponses, Links, Mode, FirstOk
<1>4. said'.stage = "over" => EndsAs(view, said, state)'
  BY <1>1 DEF StreamInv, EndsAs, OverOk, Carried, CarriedByClaude, CarriedByResponses, Links, Mode
<1> QED BY <1>2, <1>3, <1>4 DEF StreamInv

(* The inductive invariant of a translated stream: what the provider has said *)
(* is what the client has read together with the events on their way, each of *)
(* which it can place, and what either translator of translateResponse        *)
(* remembers tells which parts are open at the client.                        *)
THEOREM StreamInvHolds == Spec => []StreamInv
<1>1. Init => StreamInv
  BY InitStream
<1>2. StreamInv /\ [Next]_vars => StreamInv'
  <2> SUFFICES ASSUME StreamInv, [Next]_vars PROVE StreamInv'
    OBVIOUS
  <2>1. CASE Provide
    BY <2>1, ProvideStream
  <2>2. CASE EndOfStream
    BY <2>2, EndStream
  <2>3. CASE Read
    BY <2>3, ReadStream
  <2>4. CASE UNCHANGED vars
    BY <2>4, IdleStream
  <2> QED BY <2>1, <2>2, <2>3, <2>4 DEF Next
<1> QED BY <1>1, <1>2, PTL DEF Spec

-----------------------------------------------------------------------------
(* What the invariant says of the client's view.                              *)
LEMMA CaughtUp ==
  ASSUME NEW c, NEW order, NEW v, NEW s, NEW w, Tells(c, order, v, s, w), s.out = <<>>
  PROVE  w = v
<1>1. Reads(c, order, v, <<>>, w)
  BY DEF Tells
<1> QED BY <1>1, ReadsNothing

LEMMA ClaudeCaught ==
  ASSUME NEW order, NEW v, NEW s, NEW e, NEW x, NEW k, ClaudeReads(order, v, s, e, x, k), s.out = <<>>
  PROVE  /\ v.ends = e /\ v.text = x /\ v.think = k
         /\ v.status = "ended" => CallBlocks(s.toolCalls, v.parts) /\ AllClosed(v)
<1>1. CASE Ended(order, v, s, e, x, k)
  <2>1. PICK w : /\ Tells("claude", order, v, s, w) /\ CallBlocks(s.toolCalls, w.parts) /\ AllClosed(w)
                 /\ w.ends = e /\ w.text = x /\ w.think = k
    BY <1>1 DEF Ended
  <2>2. w = v
    BY <2>1, CaughtUp
  <2> QED BY <2>1, <2>2
<1>2. CASE Continues(order, v, s, e, x, k)
  <2>1. PICK w : /\ Tells("claude", order, v, s, w) /\ w.status = "open"
                 /\ w.ends = e /\ w.text = x /\ w.think = k
    BY <1>2 DEF Continues, Going
  <2>2. w = v
    BY <2>1, CaughtUp
  <2> QED BY <2>1, <2>2
<1>3. CASE Waits(order, v, s, e, x, k)
  <2>1. PICK w : /\ Tells("claude", order, v, s, w) /\ w.status = "waiting"
                 /\ w.ends = e /\ w.text = x /\ w.think = k
    BY <1>3 DEF Waits
  <2>2. w = v
    BY <2>1, CaughtUp
  <2> QED BY <2>1, <2>2
<1> QED BY <1>1, <1>2, <1>3 DEF ClaudeReads

\* The ends the client reads of once it has read everything.
LEMMA EndsCarried ==
  ASSUME Setting, NEW v, IsView(v), NEW s, NEW t, NEW n \in Nat, Carried(v, s, t, n)
  PROVE  \E ends \in Nat :
           /\ v.ends <= ends /\ (s.out = <<>> => v.ends = ends)
           /\ client = "claude" => ends = IF n > 0 THEN 1 ELSE 0
           /\ client = "responses" => ends = IF s.completedSent THEN 1 ELSE 0
           /\ client = "openai" => ends = n
<1>1. CASE client = "claude"
  <2> DEFINE e == IF s.responseFinished THEN 1 ELSE 0
  <2>1. ClaudeReads("kept", v, s, e, t.text, t.think) /\ (s.responseFinished <=> n > 0)
    BY <1>1 DEF Carried, CarriedByClaude
  <2>2. e = IF n > 0 THEN 1 ELSE 0
    BY <2>1
  <2> HIDE DEF e
  <2>3. PICK w : Tells("claude", "kept", v, s, w) /\ w.ends = e
    BY <2>1 DEF ClaudeReads, Ended, Continues, Going, Waits
  <2>4. w.ends \in Nat /\ v.ends <= w.ends
    BY <2>3, ReadsEnds DEF Tells
  <2>5. s.out = <<>> => v.ends = e
    BY <2>3, CaughtUp
  <2> QED BY <1>1, <2>2, <2>3, <2>4, <2>5
<1>2. CASE client = "responses"
  <2>1. PICK w : Shown(Order(t), v, s, w)
    BY <1>2 DEF Carried, CarriedByResponses, Shows
  <2>2. Tells("responses", Order(t), v, s, w) /\ w.ends = IF s.completedSent THEN 1 ELSE 0
    BY <2>1 DEF Shown
  <2>4. w.ends \in Nat /\ v.ends <= w.ends
    BY <2>2, ReadsEnds DEF Tells
  <2>5. s.out = <<>> => v.ends = w.ends
    BY <2>2, CaughtUp
  <2> QED BY <1>2, <2>2, <2>4, <2>5
<1>3. CASE client = "openai"
  <2>1. PICK w : Tells("openai", "kept", v, s, w) /\ w.ends = n
    BY <1>3 DEF Carried, Passes
  <2>4. w.ends \in Nat /\ v.ends <= w.ends
    BY <2>1, ReadsEnds DEF Tells
  <2>5. s.out = <<>> => v.ends = w.ends
    BY <2>1, CaughtUp
  <2> QED BY <1>3, <2>1, <2>4, <2>5
<1> QED BY <1>1, <1>2, <1>3 DEF Setting

\* How many finishes have passed.
LEMMA Finishes ==
  ASSUME StreamInv
  PROVE  \E n \in Nat :
           /\ Carried(view, state, said, n) /\ (format \in {"claude", "responses"} => n <= 1)
           /\ said.stage = "over" => OverOk(state, said, n)
<1>1. CASE said.stage # "over"
  <2>1. PICK n : Carried(view, state, said, n) /\ FinishOk(said, n) /\ FirstOk(state, said, n)
    BY <1>1 DEF StreamInv, Telling
  <2>2. n \in Nat /\ (format \in {"claude", "responses"} => n <= 1)
    BY <2>1 DEF FinishOk, FirstOk, ClaudeOk, RespOk
  <2> QED BY <1>1, <2>1, <2>2
<1>2. CASE said.stage = "over"
  <2>1. PICK n : Carried(view, state, said, n) /\ OverOk(state, said, n)
    BY <1>2 DEF StreamInv, EndsAs
  <2>2. n \in Nat /\ (format \in {"claude", "responses"} => n <= 1)
    BY <2>1 DEF OverOk
  <2> QED BY <2>1, <2>2
<1> QED BY <1>1, <1>2

LEMMA InvWordsArrive ==
  ASSUME StreamInv
  PROVE  WordsArrive
<1> SUFFICES ASSUME state.out = <<>>, client = "claude" PROVE view.text = said.text /\ view.think = said.think
  BY DEF WordsArrive, Caught
<1>1. PICK n \in Nat : Carried(view, state, said, n)
  BY Finishes
<1> DEFINE e == IF state.responseFinished THEN 1 ELSE 0
<1>2. ClaudeReads("kept", view, state, e, said.text, said.think)
  BY <1>1 DEF Carried, CarriedByClaude
<1> HIDE DEF e
<1> QED BY <1>2, ClaudeCaught

LEMMA InvStraysAreResumed ==
  ASSUME StreamInv
  PROVE  StraysAreResumed
<1>1. ViewOk(view, said)
  BY DEF StreamInv
<1> QED BY <1>1 DEF ViewOk, Straight, Order, StraysAreResumed

LEMMA InvCompletedIsComplete ==
  ASSUME StreamInv
  PROVE  CompletedIsComplete
<1> SUFFICES ASSUME client = "responses", view.status = "ended", ~said.resumed PROVE AllClosed(view)
  BY DEF CompletedIsComplete, AllClosed
<1>1. CASE said.events = 0
  BY <1>1 DEF StreamInv, Fresh, AllClosed
<1>2. CASE said.events # 0
  BY <1>2 DEF StreamInv, ViewOk, Order
<1> QED BY <1>1, <1>2

LEMMA InvOneEnd ==
  ASSUME StreamInv
  PROVE  OneEnd
<1>1. Setting /\ IsView(view)
  BY DEF StreamInv, ViewOk
<1>2. PICK n \in Nat : Carried(view, state, said, n) /\ (format \in {"claude", "responses"} => n <= 1)
  BY Finishes
<1>3. PICK ends \in Nat :
         /\ view.ends <= ends
         /\ client = "claude" => ends = IF n > 0 THEN 1 ELSE 0
         /\ client = "responses" => ends = IF state.completedSent THEN 1 ELSE 0
         /\ client = "openai" => ends = n
  BY <1>1, <1>2, EndsCarried
<1>4. view.ends \in Nat
  BY <1>1 DEF IsView
<1> QED BY <1>1, <1>2, <1>3, <1>4 DEF OneEnd, Setting

LEMMA InvEndIsTold ==
  ASSUME StreamInv
  PROVE  EndIsTold
<1> SUFFICES ASSUME state.out = <<>>, said.stage = "over",
                    \/ said.cut = "finished"
                    \/ said.cut # "new" /\ format = "responses"
                    \/ said.cut # "new" /\ format = "openai" /\ client = "responses"
             PROVE  view.ends >= 1
  BY DEF EndIsTold, Caught
<1>1. Setting /\ IsView(view)
  BY DEF StreamInv, ViewOk
<1>2. PICK n \in Nat : Carried(view, state, said, n) /\ OverOk(state, said, n)
  BY Finishes
<1>3. PICK ends \in Nat :
         /\ view.ends = ends
         /\ client = "claude" => ends = IF n > 0 THEN 1 ELSE 0
         /\ client = "responses" => ends = IF state.completedSent THEN 1 ELSE 0
         /\ client = "openai" => ends = n
  BY <1>1, <1>2, EndsCarried
<1>4. client = "responses" => state.completedSent
  <2>1. ASSUME client = "responses", format # "openai" PROVE state.completedSent
    <3>1. state.completedSent <=> n > 0
      BY <1>2, <2>1 DEF Carried, CarriedByResponses
    <3> QED BY <1>2, <2>1, <3>1 DEF OverOk
  <2>2. ASSUME client = "responses", format = "openai" PROVE state.completedSent
    BY <1>2, <2>2 DEF OverOk
  <2> QED BY <2>1, <2>2
<1>5. client # "responses" => n > 0
  BY <1>2 DEF OverOk
<1> QED BY <1>1, <1>2, <1>3, <1>4, <1>5 DEF Setting

\* As many as there are numbers below l.
LEMMA Counted ==
  ASSUME NEW l \in Nat, NEW S, NEW f, f \in [1..l -> S],
         \A i, j \in 1..l : f[i] = f[j] => i = j, \A x \in S : \E j \in 1..l : f[j] = x
  PROVE  Cardinality(S) = l
<1>1. f \in Bijection(1..l, S)
  BY DEF Bijection, Injection, Surjection, IsInjective
<1>2. ExistsBijection(1..l, S)
  BY <1>1 DEF ExistsBijection
<1> QED BY <1>2, FS_CountingElements

LEMMA BlocksCounted ==
  ASSUME NEW calls, NEW parts, CallBlocks(calls, parts)
  PROVE  Cardinality(CallsOf(parts)) = Len(calls)
<1> DEFINE l == Len(calls)
           S == {Block(calls[j].value) : j \in 1..l}
           f == [j \in 1..l |-> Block(calls[j].value)]
<1>1. l \in Nat /\ CallsOf(parts) = S /\ \A i, j \in 1..l : calls[i].value = calls[j].value => i = j
  BY DEF CallBlocks
<1>2. f \in [1..l -> S] /\ \A x \in S : \E j \in 1..l : f[j] = x
  OBVIOUS
<1>3. \A i, j \in 1..l : f[i] = f[j] => i = j
  BY <1>1, BlockInjective
<1> HIDE DEF l, S, f
<1> QED BY <1>1, <1>2, <1>3, Counted DEF l

LEMMA ItemsCounted ==
  ASSUME NEW s, NEW parts, Items(s, parts), s.done \subseteq s.added,
         NEW l \in Nat, s.added = 0..(l - 1)
  PROVE  Cardinality(CallsOf(parts)) = l
<1> DEFINE S == CallsOf(parts)
           f == [j \in 1..l |-> Item("call", j - 1)]
           call == "call"
<1>1. \A kind \in PartKind, n \in Nat : ItemIs(parts, Item(kind, n), kind, ItemState(s, kind, n))
  BY DEF Items
<1>2. \A n \in Nat : Item(call, n) \in DOMAIN parts <=> n \in s.added
  <2> TAKE n \in Nat
  <2>1. ItemIs(parts, Item(call, n), call, ItemState(s, call, n))
    BY <1>1 DEF PartKind
  <2> QED BY <2>1 DEF ItemIs, ItemState
<1>3. \A n \in Nat : n \in s.added => Item(call, n) \in S
  <2> TAKE n \in Nat
  <2> HAVE n \in s.added
  <2>1. ItemIs(parts, Item(call, n), call, ItemState(s, call, n))
    BY <1>1 DEF PartKind
  <2>2. ItemState(s, call, n) # "none" /\ call = "call"
    BY DEF ItemState
  <2> HIDE DEF call
  <2> QED BY <2>1, <2>2 DEF ItemIs, CallsOf
<1>4. \A p \in S : \E n \in Nat : p = Item(call, n)
  <2> TAKE p \in S
  <2>1. PICK kind \in PartKind, n \in Nat : p = Item(kind, n)
    BY DEF CallsOf, Items
  <2>2. p \in DOMAIN parts /\ parts[p].kind = "call"
    BY DEF CallsOf
  <2>3. parts[p].kind = kind
    BY <1>1, <2>1, <2>2 DEF ItemIs
  <2> QED BY <2>1, <2>2, <2>3
<1>5. f \in [1..l -> S]
  BY <1>3
<1>6. \A i, j \in 1..l : f[i] = f[j] => i = j
  BY ItemInjective
<1>7. \A p \in S : \E j \in 1..l : f[j] = p
  <2> TAKE p \in S
  <2>1. PICK n \in Nat : p = Item(call, n)
    BY <1>4
  <2>2. n \in s.added
    BY <1>2, <2>1 DEF CallsOf
  <2>3. n + 1 \in 1..l /\ (n + 1) - 1 = n
    BY <2>2
  <2> QED BY <2>1, <2>3
<1> HIDE DEF f, S
<1>8. Cardinality(S) = l
  BY <1>5, <1>6, <1>7, Counted
<1> QED BY <1>8 DEF S

LEMMA InvCallsArriveWhole ==
  ASSUME StreamInv
  PROVE  CallsArriveWhole
<1> SUFFICES ASSUME state.out = <<>>, client # "openai", format # "ollama", view.status = "ended",
                    ~said.resumed, ~said.buried
             PROVE  Cardinality(CallsOf(view.parts)) = said.calls /\ AllClosed(view)
  BY DEF CallsArriveWhole, Caught, CallParts, CallsOf, AllClosed
<1>0. Setting /\ SaidOk(said) /\ said.calls \in Nat
  BY DEF StreamInv, SaidOk, WordsOk
<1>1. PICK n \in Nat : Carried(view, state, said, n)
  BY Finishes
<1>2. CASE client = "claude"
  <2> DEFINE e == IF state.responseFinished THEN 1 ELSE 0
  <2>1. ClaudeReads("kept", view, state, e, said.text, said.think) /\ Len(state.toolCalls) = said.calls
    BY <1>1, <1>2 DEF Carried, CarriedByClaude
  <2> HIDE DEF e
  <2>2. CallBlocks(state.toolCalls, view.parts) /\ AllClosed(view)
    BY <2>1, ClaudeCaught
  <2> QED BY <2>1, <2>2, BlocksCounted
<1>3. CASE client = "responses" /\ Order(said) = "kept"
  <2>1. CarriedByResponses(view, state, said, n)
    BY <1>1, <1>3 DEF Carried
  <2>2. PICK w : Shown("kept", view, state, w)
    BY <1>3, <2>1 DEF CarriedByResponses, Shows
  <2>3. Tells("responses", "kept", view, state, w)
    BY <2>2 DEF Shown
  <2>4. w = view
    BY <2>3, CaughtUp
  <2>5. /\ TypedItems(state) /\ Items(state, view.parts) /\ view.status = Status(state)
        /\ state.completedSent => AllClosed(view)
    BY <2>2, <2>4 DEF Shown
  <2>6. state.completedSent
    BY <2>5 DEF Status
  <2>7. state.added = 0..(said.calls - 1) /\ state.done \subseteq state.added
    BY <1>3, <2>1, <2>5 DEF CarriedByResponses, Links, TypedItems
  <2> QED BY <1>0, <2>5, <2>6, <2>7, ItemsCounted
<1>4. CASE client = "responses" /\ Order(said) # "kept"
  <2>1. said.events = 0
    BY <1>4 DEF Order
  <2>2. said.calls = 0 /\ DOMAIN view.parts = {}
    BY <1>0, <2>1 DEF SaidOk, StreamInv, Fresh
  <2>3. CallsOf(view.parts) = {}
    BY <2>2 DEF CallsOf
  <2> QED BY <2>2, <2>3, FS_EmptySet DEF AllClosed
<1> QED BY <1>0, <1>2, <1>3, <1>4 DEF Setting

(* Whatever the provider mixes, repeats or leaves open, and wherever it stops: *)
(* the client reads all the words up to the finish, a part for every call,    *)
(* done at the end, nothing it cannot place, and one end; the chunks of every *)
(* event went through both translators of translateResponse and the flush.    *)
THEOREM ClientReadsHolds == Spec => []ClientReadsWhatWasSaid
<1>1. StreamInv => ClientReadsWhatWasSaid
  BY InvWordsArrive, InvCallsArriveWhole, InvStraysAreResumed, InvCompletedIsComplete, InvOneEnd, InvEndIsTold
     DEF ClientReadsWhatWasSaid, NothingSaidIsLost, ReadsAsOneMessage
<1> QED BY <1>1, StreamInvHolds, PTL

-----------------------------------------------------------------------------
(* A Claude client reads a Claude message.                                    *)
BlocksOf(parts) == [n \in {p.n : p \in DOMAIN parts} |-> parts[Block(n)]]

\* The parts are blocks.
OnlyBlocks(parts) == \A p \in DOMAIN parts : p = Block(p.n)

LEMMA BlocksHas ==
  ASSUME NEW parts, OnlyBlocks(parts), NEW b, b = BlocksOf(parts)
  PROVE  /\ \A n : n \in DOMAIN b <=> Block(n) \in DOMAIN parts
         /\ \A n \in DOMAIN b : b[n] = parts[Block(n)]
         /\ b = [n \in DOMAIN b |-> b[n]]
<1>1. DOMAIN b = {p.n : p \in DOMAIN parts}
  BY DEF BlocksOf
<1>2. \A n : Block(n).n = n
  BY DEF Block
<1>3. \A n : n \in DOMAIN b <=> Block(n) \in DOMAIN parts
  BY <1>1, <1>2 DEF OnlyBlocks
<1> QED BY <1>1, <1>3 DEF BlocksOf

LEMMA SeenBlocks ==
  ASSUME NEW v, OnlyBlocks(v.parts), NEW ev, NEW u, u = Seen("claude", v, ev)
  PROVE  OnlyBlocks(u.parts)
<1>1. Part("claude", ev) = Block(ev.n) /\ Block(ev.n).n = ev.n
  BY DEF Part, Block
<1>2. DOMAIN u.parts = DOMAIN v.parts \/ DOMAIN u.parts = DOMAIN v.parts \cup {Block(ev.n)}
  BY <1>1 DEF Seen, Opened, Mark
<1> QED BY <1>1, <1>2 DEF OnlyBlocks

\* What an event does to the blocks.
BlocksPlus(b, l, kind) ==
  [n \in DOMAIN b \cup {l} |-> IF n = l THEN [kind |-> kind, state |-> "open"] ELSE b[n]]

LEMMA OpenedBlocks ==
  ASSUME NEW v, OnlyBlocks(v.parts), NEW ev \in Ev, ev.type = "open", FitsClaude(v, ev),
         NEW u, u = Seen("claude", v, ev),
         NEW b, b = BlocksOf(v.parts), NEW d, d = BlocksOf(u.parts)
  PROVE  /\ Cardinality(DOMAIN b) = ev.n
         /\ \A n \in DOMAIN b : b[n].kind # "call" => b[n].state = "closed"
         /\ d = BlocksPlus(b, ev.n, ev.kind)
<1> DEFINE l == ev.n
<1>1. OnlyBlocks(u.parts)
  BY SeenBlocks
<1>2. /\ \A n : n \in DOMAIN b <=> Block(n) \in DOMAIN v.parts
      /\ \A n \in DOMAIN b : b[n] = v.parts[Block(n)]
  BY BlocksHas
<1>3. /\ \A n : n \in DOMAIN d <=> Block(n) \in DOMAIN u.parts
      /\ \A n \in DOMAIN d : d[n] = u.parts[Block(n)]
      /\ d = [n \in DOMAIN d |-> d[n]]
  BY <1>1, BlocksHas
<1>4. /\ l \in Nat /\ DOMAIN v.parts = {Block(k) : k \in 0..(l - 1)}
      /\ \A p \in DOMAIN v.parts : v.parts[p].kind # "call" => v.parts[p].state = "closed"
  BY DEF FitsClaude, Ev
<1>5. Part("claude", ev) = Block(ev.n)
  BY DEF Part, Block
<1>6. u.parts = [p \in DOMAIN v.parts \cup {Block(ev.n)} |->
                   IF p = Block(ev.n) THEN [kind |-> ev.kind, state |-> "open"] ELSE v.parts[p]]
  BY <1>5 DEF Seen, Opened
<1>7. \A m, n : Block(m) = Block(n) => m = n
  BY DEF Block
<1> HIDE DEF l
<1>8. DOMAIN b = 0..(l - 1)
  <2>1. \A n : n \in DOMAIN b <=> n \in 0..(l - 1)
    BY <1>2, <1>4, <1>7
  <2> QED BY <2>1
<1>9. Cardinality(DOMAIN b) = l
  <2> DEFINE z == l - 1
  <2>1. z \in Int /\ 0 \in Int /\ (IF 0 > z THEN 0 ELSE z - 0 + 1) = l
    BY <1>4
  <2>2. DOMAIN b = 0..z
    BY <1>8
  <2> HIDE DEF z
  <2> QED BY <2>1, <2>2, FS_Interval
<1>10. \A n \in DOMAIN b : b[n].kind # "call" => b[n].state = "closed"
  BY <1>2, <1>4
<1>11. DOMAIN d = DOMAIN b \cup {ev.n}
  <2>1. DOMAIN u.parts = DOMAIN v.parts \cup {Block(ev.n)}
    BY <1>6
  <2>2. \A n : n \in DOMAIN d <=> n \in DOMAIN b \/ n = ev.n
    BY <1>2, <1>3, <1>7, <2>1
  <2> QED BY <2>2
<1>12. \A n \in DOMAIN d : d[n] = IF n = ev.n THEN [kind |-> ev.kind, state |-> "open"] ELSE b[n]
  BY <1>2, <1>3, <1>6, <1>7, <1>11
<1> QED BY <1>3, <1>9, <1>10, <1>11, <1>12 DEF l, BlocksPlus

LEMMA MarkedBlocks ==
  ASSUME NEW v, OnlyBlocks(v.parts), NEW ev \in Ev, ev.type \in {"args", "close"}, FitsClaude(v, ev),
         NEW u, u = Seen("claude", v, ev), NEW st, st = StateAfter(ev.type),
         NEW b, b = BlocksOf(v.parts), NEW d, d = BlocksOf(u.parts)
  PROVE  /\ ev.n \in DOMAIN b /\ b[ev.n] = v.parts[Block(ev.n)]
         /\ d = [b EXCEPT ![ev.n].state = st]
<1>1. OnlyBlocks(u.parts)
  BY SeenBlocks
<1>2. /\ \A n : n \in DOMAIN b <=> Block(n) \in DOMAIN v.parts
      /\ \A n \in DOMAIN b : b[n] = v.parts[Block(n)]
      /\ b = [n \in DOMAIN b |-> b[n]]
  BY BlocksHas
<1>3. /\ \A n : n \in DOMAIN d <=> Block(n) \in DOMAIN u.parts
      /\ \A n \in DOMAIN d : d[n] = u.parts[Block(n)]
      /\ d = [n \in DOMAIN d |-> d[n]]
  BY <1>1, BlocksHas
<1>4. Block(ev.n) \in DOMAIN v.parts
  BY DEF FitsClaude
<1>5. Part("claude", ev) = Block(ev.n)
  BY DEF Part, Block
<1>6. u.parts = [v.parts EXCEPT ![Block(ev.n)].state = st]
  BY <1>4, <1>5 DEF Seen, Mark, StateAfter
<1>7. \A m, n : Block(m) = Block(n) => m = n
  BY DEF Block
<1>8. DOMAIN d = DOMAIN b
  BY <1>2, <1>3, <1>6
<1>9. \A n \in DOMAIN d : d[n] = IF n = ev.n THEN [b[n] EXCEPT !.state = st] ELSE b[n]
  BY <1>2, <1>3, <1>4, <1>6, <1>7, <1>8
<1>10. ev.n \in DOMAIN b /\ b[ev.n] = v.parts[Block(ev.n)]
  BY <1>2, <1>4
<1> DEFINE x == [b EXCEPT ![ev.n].state = st]
<1>11. DOMAIN x = DOMAIN b /\ x = [n \in DOMAIN x |-> x[n]]
  BY <1>2
<1>12. \A n \in DOMAIN b : x[n] = IF n = ev.n THEN [b[n] EXCEPT !.state = st] ELSE b[n]
  BY <1>2
<1> HIDE DEF x
<1>13. d = x
  <2> DEFINE D == DOMAIN b
  <2>1. \A n \in D : d[n] = x[n]
    BY <1>8, <1>9, <1>12
  <2>2. d = [n \in D |-> d[n]] /\ x = [n \in D |-> x[n]]
    BY <1>3, <1>8, <1>11
  <2> HIDE DEF D
  <2> QED BY <2>1, <2>2
<1> QED BY <1>10, <1>13 DEF x

BlocksInv == client = "claude" => OnlyBlocks(view.parts)

LEMMA ReadFits ==
  ASSUME StreamInv, client = "claude", state.out # <<>>
  PROVE  Head(state.out) \in Ev /\ FitsClaude(view, Head(state.out))
<1> DEFINE ev == Head(state.out)
           u == Seen(client, view, ev)
           rest == Tail(state.out)
           r == [state EXCEPT !.out = rest]
<1>0. Setting
  BY DEF StreamInv
<1>1. PICK n \in Nat : Carried(view, state, said, n)
  BY Finishes
<1>2. IsState(state) /\ state.out \in Seq(Ev)
  BY <1>0, <1>1, CarriedIsState
<1>3. ev \in Ev
  BY <1>2
<1> HIDE DEF rest
<1>4. Alters(state, r, {"out"}) /\ r.out = rest
  BY <1>2 DEF IsState, Alters, Fields
<1>5. r.out = Tail(state.out) /\ u = Seen(client, view, Head(state.out))
  BY <1>4 DEF rest
<1> HIDE DEF r, u
<1>6. Fits(client, Order(said), view, Head(state.out))
  BY <1>0, <1>1, <1>4, <1>5, CarriedRest
<1> QED BY <1>3, <1>6 DEF Fits

\* What the refinement maps a Claude client's view to.
LEMMA MessageOf ==
  ASSUME client = "claude"
  PROVE  messageStatus = view.status /\ messageBlocks = BlocksOf(view.parts)
BY DEF messageStatus, messageBlocks, BlocksOf, Block

LEMMA MessageNext ==
  ASSUME client = "claude", client' = "claude"
  PROVE  /\ messageStatus = view.status /\ messageBlocks = BlocksOf(view.parts)
         /\ messageStatus' = view'.status /\ messageBlocks' = BlocksOf(view'.parts)
<1>1. messageStatus' = view'.status /\ messageBlocks' = BlocksOf(view'.parts)
  BY DEF messageStatus, messageBlocks, BlocksOf, Block
<1> QED BY <1>1, MessageOf

LEMMA SameCardinality ==
  ASSUME NEW S
  PROVE  Message!Cardinality(S) = Cardinality(S)
BY DEF Message!Cardinality, Cardinality

LEMMA MessageStep ==
  ASSUME StreamInv, BlocksInv, client = "claude", Read
  PROVE  Message!Next
<1> DEFINE ev == Head(state.out)
           u == view'
           b == messageBlocks
           d == messageBlocks'
<1>1. client' = "claude" /\ u = Seen("claude", view, ev) /\ ev \in Ev /\ FitsClaude(view, ev)
  BY ReadFits DEF Read
<1>2. OnlyBlocks(view.parts)
  BY DEF BlocksInv
<1>3. /\ messageStatus = view.status /\ messageStatus' = u.status
      /\ b = BlocksOf(view.parts) /\ d = BlocksOf(u.parts)
  BY <1>1, MessageNext
<1>x. b = messageBlocks /\ d = messageBlocks'
  OBVIOUS
<1> HIDE DEF ev, u, b, d
<1>4. /\ \A n : n \in DOMAIN b <=> Block(n) \in DOMAIN view.parts
      /\ \A n \in DOMAIN b : b[n] = view.parts[Block(n)]
  BY <1>2, <1>3, BlocksHas
<1>5. AllClosed(view) => \A n \in DOMAIN b : b[n].state = "closed"
  BY <1>4 DEF AllClosed
<1>6. u.status = IF ev.type = "start" THEN "open" ELSE IF ev.type = "end" THEN "ended" ELSE view.status
  BY <1>1 DEF Seen
<1>7. ev.type \in {"start", "end", "delta"} => d = b
  <2>1. ev.type \in {"start", "end", "delta"} => u.parts = view.parts
    BY <1>1 DEF Seen
  <2> QED BY <1>3, <2>1
<1>8. CASE ev.type = "start"
  <2>1. view.status = "waiting"
    BY <1>1, <1>8 DEF FitsClaude
  <2>2. Message!Start
    BY <1>3, <1>x, <1>6, <1>7, <1>8, <2>1 DEF Message!Start
  <2> QED BY <2>2 DEF Message!Next
<1>9. CASE ev.type = "end"
  <2>1. view.status = "open" /\ AllClosed(view)
    BY <1>1, <1>9 DEF FitsClaude
  <2>2. \A n \in DOMAIN b : b[n].state = "closed"
    BY <1>5, <2>1
  <2>3. Message!End
    BY <1>3, <1>x, <1>6, <1>7, <1>9, <2>1, <2>2 DEF Message!End
  <2> QED BY <2>3 DEF Message!Next
<1>10. CASE ev.type = "open"
  <2>1. /\ Cardinality(DOMAIN b) = ev.n
        /\ \A n \in DOMAIN b : b[n].kind # "call" => b[n].state = "closed"
        /\ d = BlocksPlus(b, ev.n, ev.kind)
    BY <1>1, <1>2, <1>3, <1>10, OpenedBlocks
  <2>2. view.status = "open" /\ ev.kind \in Message!Kind
    BY <1>1, <1>10 DEF FitsClaude, PartKind, Message!Kind
  <2>3. Message!OpenBlock(ev.kind)
    <3>1. Message!Cardinality(DOMAIN b) = ev.n
      BY <2>1, SameCardinality
    <3> QED BY <1>3, <1>x, <1>6, <1>10, <2>1, <2>2, <3>1 DEF Message!OpenBlock, BlocksPlus
  <2> QED BY <2>2, <2>3 DEF Message!Next
<1>11. CASE ev.type = "delta"
  <2>1. view.parts[Block(ev.n)].kind # "call" /\ view.parts[Block(ev.n)].state = "open" /\ Block(ev.n) \in DOMAIN view.parts
    BY <1>1, <1>11 DEF FitsClaude
  <2>2. ev.n \in DOMAIN b /\ b[ev.n].kind # "call" /\ b[ev.n].state = "open"
    BY <1>4, <2>1
  <2>3. Message!Words(ev.n)
    BY <1>3, <1>x, <1>6, <1>7, <1>11, <2>2 DEF Message!Words, Message!messageVars
  <2> QED BY <1>x, <2>2, <2>3 DEF Message!Next
<1>12. CASE ev.type = "args"
  <2>1. view.parts[Block(ev.n)].kind = "call" /\ view.parts[Block(ev.n)].state = "open"
    BY <1>1, <1>12 DEF FitsClaude
  <2> DEFINE st == "filled"
  <2>2. ev.n \in DOMAIN b /\ b[ev.n] = view.parts[Block(ev.n)] /\ d = [b EXCEPT ![ev.n].state = st]
    <3>1. ev.type \in {"args", "close"} /\ st = StateAfter(ev.type)
      BY <1>12 DEF StateAfter
    <3> HIDE DEF st
    <3> QED BY <1>1, <1>2, <1>3, <3>1, MarkedBlocks
  <2>3. Message!Arguments(ev.n)
    BY <1>3, <1>x, <1>6, <1>12, <2>1, <2>2 DEF Message!Arguments
  <2> QED BY <1>x, <2>2, <2>3 DEF Message!Next
<1>13. CASE ev.type = "close"
  <2>1. view.parts[Block(ev.n)].state # "closed"
    BY <1>1, <1>13 DEF FitsClaude
  <2> DEFINE st == "closed"
  <2>2. ev.n \in DOMAIN b /\ b[ev.n] = view.parts[Block(ev.n)] /\ d = [b EXCEPT ![ev.n].state = st]
    <3>1. ev.type \in {"args", "close"} /\ st = StateAfter(ev.type)
      BY <1>13 DEF StateAfter
    <3> HIDE DEF st
    <3> QED BY <1>1, <1>2, <1>3, <3>1, MarkedBlocks
  <2>3. Message!CloseBlock(ev.n)
    BY <1>3, <1>x, <1>6, <1>13, <2>1, <2>2 DEF Message!CloseBlock
  <2> QED BY <1>x, <2>2, <2>3 DEF Message!Next
<1> QED BY <1>1, <1>8, <1>9, <1>10, <1>11, <1>12, <1>13 DEF Ev, EventType

\* A step that leaves client and view alone, or is of another client.
LEMMA MessageIdle ==
  ASSUME client' = client, client = "claude" => view' = view
  PROVE  UNCHANGED <<messageStatus, messageBlocks>>
<1>1. messageStatus' = messageStatus
  BY DEF messageStatus
<1>2. messageBlocks' = messageBlocks
  BY DEF messageBlocks
<1> QED BY <1>1, <1>2

LEMMA MessageInit ==
  ASSUME Init
  PROVE  Message!Init /\ BlocksInv
<1>1. view.status = "waiting" /\ view.parts = << >>
  BY DEF Init
<1>2. DOMAIN view.parts = {}
  BY <1>1
<1>3. messageStatus = "waiting"
  BY <1>1 DEF messageStatus
<1>4. BlocksOf(view.parts) = << >>
  <2>1. {p.n : p \in DOMAIN view.parts} = {}
    BY <1>2
  <2>2. BlocksOf(view.parts) = [n \in {} |-> view.parts[Block(n)]]
    BY <2>1 DEF BlocksOf
  <2> QED BY <2>2
<1>5. messageBlocks = << >>
  <2>1. CASE client = "claude"
    BY <2>1, <1>4, MessageOf
  <2>2. CASE client # "claude"
    BY <2>2 DEF messageBlocks
  <2> QED BY <2>1, <2>2
<1>6. BlocksInv
  BY <1>2 DEF BlocksInv, OnlyBlocks
<1> QED BY <1>3, <1>5, <1>6 DEF Message!Init

LEMMA BlocksStay ==
  ASSUME BlocksInv, [Next]_vars
  PROVE  BlocksInv'
<1>1. client' = client
  BY DEF Next, Provide, EndOfStream, Read, vars
<1>2. client = "claude" => OnlyBlocks(view'.parts)
  <2> SUFFICES ASSUME client = "claude" PROVE OnlyBlocks(view'.parts)
    OBVIOUS
  <2>1. OnlyBlocks(view.parts)
    BY DEF BlocksInv
  <2>2. CASE Read
    <3>1. view' = Seen("claude", view, Head(state.out))
      BY <2>2 DEF Read
    <3> QED BY <2>1, <3>1, SeenBlocks
  <2>3. CASE ~Read
    <3>1. view' = view
      BY <2>3 DEF Next, Provide, EndOfStream, vars
    <3> QED BY <2>1, <3>1
  <2> QED BY <2>2, <2>3
<1>3. client' = "claude" => OnlyBlocks(view'.parts)
  BY <1>1, <1>2
<1> QED BY <1>3 DEF BlocksInv, OnlyBlocks, Block

(* Whatever a provider mixes, repeats or leaves open, a Claude client is sent *)
(* a Claude message: every step of a translated stream starts or ends the     *)
(* message, opens the block of the next number when no text or thought is     *)
(* open, adds to an open block, completes a tool's arguments once, closes a   *)
(* block, or sends nothing: the translators of                                *)
(* open-sse/translator/response and their flush at the end of the stream.     *)
THEOREM ClaudeMessagesHold == Spec => ClaudeMessages
<1>1. Init => Message!Init /\ BlocksInv
  BY MessageInit
<1>2. BlocksInv /\ [Next]_vars => BlocksInv'
  BY BlocksStay
<1>3. StreamInv /\ BlocksInv /\ [Next]_vars => [Message!Next]_<<messageStatus, messageBlocks>>
  <2> SUFFICES ASSUME StreamInv, BlocksInv, [Next]_vars
               PROVE  Message!Next \/ UNCHANGED <<messageStatus, messageBlocks>>
    OBVIOUS
  <2>1. client' = client
    BY DEF Next, Provide, EndOfStream, Read, vars
  <2>2. CASE Read /\ client = "claude"
    BY <2>2, MessageStep
  <2>3. CASE ~Read \/ client # "claude"
    <3>1. client = "claude" => view' = view
      BY <2>3 DEF Next, Provide, EndOfStream, vars
    <3> QED BY <2>1, <3>1, MessageIdle
  <2> QED BY <2>2, <2>3
<1> QED BY <1>1, <1>2, <1>3, StreamInvHolds, PTL DEF Spec, ClaudeMessages, Message!Spec, Message!messageVars

==============================================================================
