---------------------------- MODULE ClaudeMessage ----------------------------
(***************************************************************************)
(* What a Claude client may be sent: one message of consecutively numbered *)
(* content blocks.  It appends text to the open text or thinking block, it *)
(* concatenates whatever arguments a tool block is sent, and it takes the  *)
(* message for complete at its end.                                        *)
(***************************************************************************)
EXTENDS FiniteSets

VARIABLES
  status,  \* of the message: "waiting", "open", "ended"
  blocks   \* the content blocks: kind and state, by number

messageVars == <<status, blocks>>

Kind == {"text", "think", "call"}
Block == [kind : Kind, state : {"open", "filled", "closed"}]

Init == status = "waiting" /\ blocks = << >>

Start ==
  /\ status = "waiting" /\ status' = "open"
  /\ UNCHANGED blocks

(* Tool blocks may stay open, a text or thinking block is closed first. *)
OpenBlock(k) ==
  /\ status = "open"
  /\ \A n \in DOMAIN blocks : blocks[n].kind # "call" => blocks[n].state = "closed"
  /\ LET next == Cardinality(DOMAIN blocks)
     IN  blocks' = [n \in DOMAIN blocks \cup {next} |->
                      IF n = next THEN [kind |-> k, state |-> "open"] ELSE blocks[n]]
  /\ UNCHANGED status

Words(n) ==
  /\ blocks[n].kind # "call" /\ blocks[n].state = "open"
  /\ UNCHANGED messageVars

(* The arguments of a tool come once. *)
Arguments(n) ==
  /\ blocks[n].kind = "call" /\ blocks[n].state = "open"
  /\ blocks' = [blocks EXCEPT ![n].state = "filled"]
  /\ UNCHANGED status

CloseBlock(n) ==
  /\ blocks[n].state # "closed"
  /\ blocks' = [blocks EXCEPT ![n].state = "closed"]
  /\ UNCHANGED status

End ==
  /\ status = "open" /\ status' = "ended"
  /\ \A n \in DOMAIN blocks : blocks[n].state = "closed"
  /\ UNCHANGED blocks

Next ==
  \/ Start \/ End
  \/ \E k \in Kind : OpenBlock(k)
  \/ \E n \in DOMAIN blocks : Words(n) \/ Arguments(n) \/ CloseBlock(n)

Spec == Init /\ [][Next]_messageVars
==============================================================================
