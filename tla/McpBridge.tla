------------------------------- MODULE McpBridge -------------------------------
(***************************************************************************)
(* The bridge between the SSE sessions of one MCP plugin and its child     *)
(* process.  The sessions of a child share it; the last one to leave kills  *)
(* it.  A killed child still has to exit, and its exit event deletes the    *)
(* plugin's entry, whichever child the entry is of by then.                 *)
(***************************************************************************)
EXTENDS Naturals, FiniteSets

CONSTANTS
  Session,      \* requests to the SSE route
  MaxChildren   \* bound

ASSUME McpAssumption == MaxChildren \in Nat

VARIABLES
  entry,      \* of the plugin in the store: its child (0: no entry), its sessions
  child,      \* by number: unborn, running, killed, exited
  session,    \* the child a session reads from (0: not connected), its state
  displaced   \* history: children whose entry another child's exit deleted

mcpVars == <<entry, child, session, displaced>>

Child == 1..MaxChildren
NoBridge == [child |-> 0, sessions |-> {}]

McpTypeOK ==
  /\ entry \in [child : 0..MaxChildren, sessions : SUBSET Session]
  /\ child \in [Child -> {"unborn", "running", "killed", "exited"}]
  /\ session \in [Session -> [state : {"new", "open", "closed"}, from : 0..MaxChildren]]
  /\ displaced \subseteq Child

McpInit ==
  /\ entry = NoBridge
  /\ child = [c \in Child |-> "unborn"]
  /\ session = [s \in Session |-> [state |-> "new", from |-> 0]]
  /\ displaced = {}

\* isRunning
IsRunning == entry.child # 0 /\ child[entry.child] = "running"

Unborn == {c \in Child : child[c] = "unborn"}
NextChild == CHOOSE c \in Unborn : \A d \in Unborn : c <= d

\* Mutant: every session gets a child of its own.
RegisterAndSpawn(s) ==
  /\ session[s].state = "new" /\ Unborn # {}
  /\ child' = [child EXCEPT ![NextChild] = "running"]
  /\ entry' = [child |-> NextChild, sessions |-> entry.sessions \cup {s}]
  /\ session' = [session EXCEPT ![s] = [state |-> "open", from |-> NextChild]]
  /\ UNCHANGED displaced

(* registerSession; getOrSpawn reuses a child that has not been killed.       *)
RegisterSession(s) ==
  /\ session[s].state = "new"
  /\ IF IsRunning
     THEN /\ entry' = [entry EXCEPT !.sessions = @ \cup {s}]
          /\ UNCHANGED child
     ELSE /\ Unborn # {}
          /\ child' = [child EXCEPT ![NextChild] = "running"]
          /\ entry' = [child |-> NextChild, sessions |-> {s}]
  /\ session' = [session EXCEPT ![s] = [state |-> "open", from |-> entry'.child]]
  /\ UNCHANGED displaced

\* Mutant: the entry is deleted, the child is not killed.
UnregisterOnly(s) ==
  LET left == entry.sessions \ {s}
  IN /\ session[s].state = "open"
     /\ session' = [session EXCEPT ![s].state = "closed"]
     /\ entry' = IF left = {} THEN NoBridge ELSE [entry EXCEPT !.sessions = left]
     /\ UNCHANGED <<child, displaced>>

(* unregisterSession, when the client has left.                               *)
UnregisterSession(s) ==
  LET left == entry.sessions \ {s}
  IN /\ session[s].state = "open"
     /\ session' = [session EXCEPT ![s].state = "closed"]
     /\ IF entry.child # 0 /\ left = {}
        THEN /\ child' = [child EXCEPT ![entry.child] = IF @ = "running" THEN "killed" ELSE @]
             /\ entry' = NoBridge
        ELSE /\ entry' = [entry EXCEPT !.sessions = left]
             /\ UNCHANGED child
     /\ UNCHANGED displaced

(* The exit event, of a killed child or of one that ends by itself.           *)
ChildExits(c) ==
  /\ child[c] \in {"running", "killed"}
  /\ child' = [child EXCEPT ![c] = "exited"]
  /\ entry' = NoBridge
  /\ displaced' = displaced \cup ({entry.child} \ {0, c})
  /\ UNCHANGED session

McpNext ==
  \/ \E s \in Session : RegisterSession(s) \/ UnregisterSession(s)
  \/ \E c \in Child : ChildExits(c)

(* killAllBridges, from the signal handlers: the store's children are killed. *)
BridgesKilled ==
  /\ child' = [c \in Child |->
                 IF c = entry.child /\ child[c] = "running" THEN "killed" ELSE child[c]]
  /\ entry' = NoBridge
  /\ session' = [s \in Session |->
                   IF session[s].state = "open" THEN [session[s] EXCEPT !.state = "closed"]
                                                ELSE session[s]]
  /\ UNCHANGED displaced

-----------------------------------------------------------------------------
Orphans == {c \in Child : child[c] = "running" /\
                          \A s \in Session : ~(session[s].state = "open" /\ session[s].from = c)}

(* A child that runs on without a session lost its entry to another child's   *)
(* late exit event; there is no other way to be forgotten.                    *)
OrphansWereDisplaced == Orphans \subseteq displaced

(* A session's child is the one its messages are sent to, unless the child    *)
(* has ended or lost its entry.                                               *)
MessagesReachOwnChild ==
  \A s \in Session :
    session[s].state = "open" /\ entry.child # 0 /\ session[s].from # entry.child
      => child[session[s].from] = "exited" \/ session[s].from \in displaced
===============================================================================
