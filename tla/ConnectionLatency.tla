--------------------------- MODULE ConnectionLatency ---------------------------
(***************************************************************************)
(* The latency averages behind the "fastest" strategy.  They live in       *)
(* memory; a flush some seconds after a sample replaces the stored map by  *)
(* the one in memory, and hydration brings the stored map back after a     *)
(* restart.  Hydration happens when the strategy first needs the averages  *)
(* or the dashboard shows them, not when the server starts.                *)
(*                                                                         *)
(* An entry is represented by the rank of its last sample (0: no entry):   *)
(* the averages themselves, and the ages that make an entry stale, are     *)
(* left out.                                                               *)
(***************************************************************************)
EXTENDS ServerStore

CONSTANTS
  Conn,        \* connections
  MaxEntries,
  MaxSamples   \* bound

ASSUME LatencyAssumption ==
  IsFiniteSet(Conn) /\ MaxEntries \in Nat \ {0} /\ MaxSamples \in Nat

VARIABLES
  ewma,          \* the map in memory
  clock,         \* samples so far
  latencyDirty,
  latencyTimer,  \* flushTimer
  writes,        \* what flushes in progress are about to write
  flushFailed,   \* history: the last flush failed
  hydrated,
  hydrating,     \* no, reading, or the map that was read
  latencyDrain,  \* whether the shutdown route waits for a write of its own
  born           \* history: the last sample before the process started

latencyVars == <<ewma, clock, latencyDirty, latencyTimer, writes, flushFailed,
                 hydrated, hydrating, latencyDrain, born>>

Averages == [Conn -> 0..MaxSamples]
NoAverages == [c \in Conn |-> 0]

LatencyTypeOK ==
  /\ ewma \in Averages /\ mem.latency \in Averages
  /\ {clock, born} \subseteq 0..MaxSamples
  /\ {latencyDirty, latencyTimer, flushFailed, hydrated, latencyDrain} \subseteq BOOLEAN
  /\ writes \in Seq([map : Averages, whole : BOOLEAN])
  /\ hydrating.at \in {"no", "reading", "read"} /\ hydrating.saved \in Averages

NotHydrating == [at |-> "no", saved |-> NoAverages]

LatencyInit ==
  /\ ewma = NoAverages /\ clock = 0
  /\ latencyDirty = FALSE /\ latencyTimer = FALSE /\ writes = <<>> /\ flushFailed = FALSE
  /\ hydrated = FALSE /\ hydrating = NotHydrating /\ latencyDrain = FALSE
  /\ born = 0

(* recordConnectionLatency *)
RecordLatency(c) ==
  /\ clock < MaxSamples
  /\ clock' = clock + 1
  /\ ewma' = [ewma EXCEPT ![c] = clock + 1]
  /\ latencyDirty' = TRUE /\ latencyTimer' = TRUE
  /\ UNCHANGED <<storeVars, writes, flushFailed, hydrated, hydrating, latencyDrain, born>>

\* pruneStore: the MaxEntries entries with the latest samples stay.
Pruned(map) ==
  [c \in Conn |->
     IF Cardinality({d \in Conn : map[d] > map[c]}) >= MaxEntries THEN 0 ELSE map[c]]

(* flushConnectionLatency up to the write. *)
StartFlush ==
  IF latencyDirty
  THEN /\ latencyDirty' = FALSE
       /\ ewma' = Pruned(ewma)
       /\ writes' = Append(writes, [map |-> ewma', whole |-> hydrated])
  ELSE UNCHANGED <<latencyDirty, ewma, writes>>

LatencyTimer ==
  /\ latencyTimer /\ latencyTimer' = FALSE
  /\ StartFlush
  /\ UNCHANGED <<storeVars, clock, flushFailed, hydrated, hydrating, latencyDrain, born>>

(* writeLatencySnapshots *)
WriteLatency ==
  /\ writes # <<>>
  /\ Commit("latency", Head(writes).map)
  /\ writes' = Tail(writes) /\ flushFailed' = FALSE
  /\ UNCHANGED <<ewma, clock, latencyDirty, latencyTimer, hydrated, hydrating, latencyDrain, born>>

\* Mutant: a failed write leaves the map clean.
WriteFailsClean ==
  /\ writes # <<>>
  /\ writes' = Tail(writes)
  /\ UNCHANGED <<storeVars, ewma, clock, latencyDirty, latencyTimer, flushFailed,
                 hydrated, hydrating, latencyDrain, born>>

(* The write fails: dirty again, but only the next sample sets a timer. *)
WriteFails ==
  /\ writes # <<>>
  /\ writes' = Tail(writes)
  /\ latencyDirty' = TRUE /\ flushFailed' = TRUE
  /\ UNCHANGED <<storeVars, ewma, clock, latencyTimer, hydrated, hydrating, latencyDrain, born>>

(* hydrateConnectionLatency, for the first caller; others share its promise. *)
Hydrate ==
  /\ ~hydrated /\ hydrating.at = "no"
  /\ hydrating' = [hydrating EXCEPT !.at = "reading"]
  /\ UNCHANGED <<storeVars, ewma, clock, latencyDirty, latencyTimer, writes, flushFailed,
                 hydrated, latencyDrain, born>>

HydrateRead ==
  /\ hydrating.at = "reading"
  /\ hydrating' = [at |-> "read", saved |-> mem.latency]
  /\ UNCHANGED <<storeVars, ewma, clock, latencyDirty, latencyTimer, writes, flushFailed,
                 hydrated, latencyDrain, born>>

\* Mutant: the stored entry replaces what came in meanwhile.
RestoredOver == [c \in Conn |-> IF hydrating.saved[c] # 0 THEN hydrating.saved[c] ELSE ewma[c]]

\* A live sample wins over the stored entry.
Restored == [c \in Conn |-> IF ewma[c] # 0 THEN ewma[c] ELSE hydrating.saved[c]]

HydrateApply ==
  /\ hydrating.at = "read"
  /\ ewma' = Pruned(Restored)
  /\ hydrated' = TRUE /\ hydrating' = NotHydrating
  /\ UNCHANGED <<storeVars, clock, latencyDirty, latencyTimer, writes, flushFailed, latencyDrain, born>>

\* Mutant: a failed hydration counts as done.
HydrateFailsForGood ==
  /\ hydrating.at = "reading"
  /\ hydrating' = NotHydrating /\ hydrated' = TRUE
  /\ UNCHANGED <<storeVars, ewma, clock, latencyDirty, latencyTimer, writes, flushFailed, latencyDrain, born>>

(* The store cannot be read: routing starts cold, the next caller tries again. *)
HydrateFails ==
  /\ hydrating.at = "reading"
  /\ hydrating' = NotHydrating
  /\ UNCHANGED <<storeVars, ewma, clock, latencyDirty, latencyTimer, writes, flushFailed,
                 hydrated, latencyDrain, born>>

LatencyNext ==
  \/ \E c \in Conn : RecordLatency(c)
  \/ LatencyTimer \/ WriteLatency \/ WriteFails
  \/ Hydrate \/ HydrateRead \/ HydrateApply \/ HydrateFails

(* The shutdown route flushes once more, and waits for its own write only. *)
LatencyDrains ==
  /\ StartFlush
  /\ latencyDrain' = latencyDirty
  /\ UNCHANGED <<clock, latencyTimer, flushFailed, hydrated, hydrating, born>>

LatencyDrained == latencyDrain => writes = <<>>

\* The map goes with the process.
LatencyLost ==
  /\ ewma' = NoAverages
  /\ latencyDirty' = FALSE /\ latencyTimer' = FALSE /\ writes' = <<>> /\ flushFailed' = FALSE
  /\ hydrated' = FALSE /\ hydrating' = NotHydrating /\ latencyDrain' = FALSE
  /\ born' = clock
  /\ UNCHANGED clock

-----------------------------------------------------------------------------
(* Every sample of this process is in the stored map, or a flush that brings  *)
(* it there is due or running; after a failed flush it waits for the next     *)
(* sample.                                                                    *)
SamplesAreScheduled ==
  (\E c \in Conn : ewma[c] > born /\ ewma[c] > mem.latency[c])
    => latencyTimer \/ writes # <<>> \/ flushFailed

(* Restoring the stored map never takes back a sample made meanwhile: an      *)
(* entry only goes forward, until it is pruned.                               *)
LiveSampleWins ==
  [][\A c \in Conn : ewma'[c] < ewma[c] => ewma'[c] = 0]_<<storeVars, latencyVars>>

(* An account leaves the stored map only because newer ones fill it, or by a  *)
(* flush that started before hydration: that one replaces the stored map by   *)
(* the few samples of the new process.                                        *)
NothingForgottenOnceHydrated ==
  [][\A c \in Conn : mem.latency[c] # 0 /\ mem'.latency[c] = 0 =>
        \/ restarts' # restarts
        \/ ~Head(writes).whole
        \/ Cardinality({d \in Conn : mem'.latency[d] > mem.latency[c]}) >= MaxEntries]_<<storeVars, latencyVars>>
===============================================================================
