---------------------------- MODULE MCServerProcess ----------------------------
(***************************************************************************)
(* Instances of ServerProcess for TLC.  The components share the database   *)
(* and the end of the process, nothing else, so a behaviour feeds one of    *)
(* them: scene says which.                                                  *)
(***************************************************************************)
EXTENDS ServerProcess

CONSTANT Scenes

VARIABLE scene

MCEvent == [c \in Call |-> c]

Queues == {"usage", "details", "latency"}

\* The database matters only where something is written, and the providers of
\* the background jobs only to these.
MCInit ==
  /\ Init /\ scene \in Scenes
  /\ scene \in Queues \/ native
  /\ scene = "ping" \/ \A t \in Target : slides[t] /\ window[t] = 0
  /\ scene = "checkin" \/ (season /\ loginState = "good")

\* The end of the process concerns every scene.
MCNext ==
  /\ UNCHANGED scene
  /\ \/ scene = "usage" /\ UsageStep
     \/ scene = "details" /\ DetailStep
     \/ scene = "latency" /\ LatencyStep
     \/ scene = "quota" /\ QuotaStep
     \/ scene = "project" /\ ProjectStep
     \/ scene = "mcp" /\ McpStep
     \/ scene = "ping" /\ PingStep
     \/ scene = "checkin" /\ CheckinStep
     \/ SaveStep
     \/ scene \in Queues /\ (Shutdown \/ Drained)
     \/ ProcessEnds

MCSpec == MCInit /\ [][MCNext]_<<vars, scene>> /\ Fairness
===============================================================================
