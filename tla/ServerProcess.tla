----------------------------- MODULE ServerProcess -----------------------------
(***************************************************************************)
(* One server process: its write-behind queues over one database, the       *)
(* caches beside them, and the ends a process can come to.  The shutdown    *)
(* route drains the queues and exits half a second later; on a signal the   *)
(* process exits at once, and a crash is the same but for the database of   *)
(* sql.js, whose signal handler may still have saved it.  Requests are      *)
(* served until the end.                                                    *)
(***************************************************************************)
EXTENDS UsageQueue, RequestDetails, ConnectionLatency, QuotaFetchCache, ProjectId, McpBridge,
        BackgroundJobs

VARIABLE owed  \* history: request details buffered when the shutdown began

cacheVars == <<quotaVars, projectVars, mcpVars, jobVars>>
vars == <<storeVars, usageVars, detailVars, latencyVars, cacheVars, owed>>

EmptyTables ==
  [details |-> NoDetails, usage |-> {}, latency |-> NoAverages]

TypeOK ==
  /\ StoreTypeOK /\ UsageTypeOK /\ DetailTypeOK /\ LatencyTypeOK
  /\ QuotaTypeOK /\ ProjectTypeOK /\ McpTypeOK /\ PingTypeOK /\ CheckinTypeOK
  /\ owed \subseteq Record

Init ==
  /\ StoreInit(EmptyTables)
  /\ UsageInit /\ DetailInit /\ LatencyInit
  /\ QuotaInit /\ ProjectInit /\ McpInit /\ PingInit /\ CheckinInit
  /\ owed = {}

DetailStep == DetailNext /\ UNCHANGED <<usageVars, latencyVars, cacheVars, owed>>
UsageStep  == UsageNext /\ UNCHANGED <<detailVars, latencyVars, cacheVars, owed>>
LatencyStep == LatencyNext /\ UNCHANGED <<usageVars, detailVars, cacheVars, owed>>

Others == <<storeVars, usageVars, detailVars, latencyVars, owed>>
QuotaStep   == QuotaNext /\ UNCHANGED <<Others, projectVars, mcpVars, jobVars>>
ProjectStep == ProjectNext /\ UNCHANGED <<Others, quotaVars, mcpVars, jobVars>>
McpStep     == McpNext /\ UNCHANGED <<Others, quotaVars, projectVars, jobVars>>
PingStep    == PingNext /\ UNCHANGED <<Others, quotaVars, projectVars, mcpVars, checkinVars>>
CheckinStep == CheckinNext /\ UNCHANGED <<Others, quotaVars, projectVars, mcpVars, pingVars>>

SaveStep ==
  /\ Save \/ SaveFails
  /\ UNCHANGED <<usageVars, detailVars, latencyVars, cacheVars, owed>>

\* Mutant: the buffered details are not flushed.
ShutdownKeepsDetails ==
  /\ stage = "running"
  /\ stage' = "draining"
  /\ owed' = Waiting
  /\ UsageDrains /\ LatencyDrains
  /\ detailDrain' = "own"
  /\ UNCHANGED <<native, mem, disk, dirty, saveTimer, saveFailed, restarts, cacheVars,
                 issued, gone, writeBuffer, batch, isFlushing, flushTimer, detailFailed>>

(* POST /api/app/shutdown: the four drains are started together (the one of   *)
(* the round-robin counters is in StickyRoundRobin).                          *)
Shutdown ==
  /\ stage = "running"
  /\ stage' = "draining"
  /\ owed' = Waiting
  /\ UsageDrains /\ DetailDrains /\ LatencyDrains
  /\ UNCHANGED <<native, mem, disk, dirty, saveTimer, saveFailed, restarts, cacheVars>>

(* The drains have settled: the intervals are cleared, the answer is sent, the *)
(* exit is coming.                                                             *)
Drained ==
  /\ stage = "draining"
  /\ UsageDrained /\ DetailDrained /\ LatencyDrained
  /\ stage' = "exiting"
  /\ PingsStopped /\ CheckinStopped
  /\ UNCHANGED <<native, mem, disk, dirty, saveTimer, saveFailed, restarts,
                 usageVars, detailVars, latencyVars, quotaVars, projectVars, mcpVars, owed>>

(* The exit, a signal or a crash.  The children of the MCP bridge are killed  *)
(* on a signal; what happens to a crashed process's children is not modelled. *)
ProcessEnds ==
  /\ \E file \in {disk, mem} : Lose(file)
  /\ UsageLost /\ DetailsLost /\ LatencyLost
  /\ QuotaLost /\ ProjectsLost /\ BridgesKilled /\ PingsLost /\ CheckinLost
  /\ owed' = {}

Next ==
  \/ UsageStep \/ DetailStep \/ LatencyStep
  \/ QuotaStep \/ ProjectStep \/ McpStep \/ PingStep \/ CheckinStep
  \/ SaveStep \/ Shutdown \/ Drained \/ ProcessEnds

UsageProgress == (UsageTimer \/ UsageKick)
                 /\ UNCHANGED <<detailVars, latencyVars, cacheVars, owed>>
PersistProgress == (PersistEntry \/ PersistFails)
                   /\ UNCHANGED <<detailVars, latencyVars, cacheVars, owed>>
SweepReaches(a) == (\E long \in SUBSET Account : a \in long /\ Sweep(long))
                   /\ UNCHANGED <<Others, quotaVars, mcpVars, jobVars>>

(* Timers fire and a started write settles; the sweep runs every ten minutes  *)
(* and finds a fetch that is still pending.                                   *)
Fairness ==
  /\ WF_vars(UsageProgress) /\ WF_vars(PersistProgress)
  /\ \A a \in Account : WF_vars(SweepReaches(a))

Spec == Init /\ [][Next]_vars /\ Fairness

-----------------------------------------------------------------------------
(* When the shutdown route answers, the request details that were buffered    *)
(* when it was called are written, unless a batch failed or another flush was *)
(* running: that one is not waited for.                                       *)
DrainWrites ==
  stage = "exiting" /\ detailDrain = "own" /\ ~detailFailed => owed \cap Waiting = {}

(* What has been taken in and not yet written is on its way, in each of the   *)
(* write-behind stores: a timer is set, a flush is running that looks again,  *)
(* or the last write failed and the next change will try it once more.        *)
WritesAreScheduled ==
  UnsavedIsScheduled /\ NothingStranded /\ NoEntryStranded /\ SamplesAreScheduled

(* What was taken in is kept until it is written, through failed batches and  *)
(* through the drains of a shutdown, and nothing is reported written before.  *)
TakenIsKept == NoDetailLost /\ SettledIsRecorded /\ DrainWrites

(* What was taken in is neither lost nor left lying.                          *)
TakenIsWritten == WritesAreScheduled /\ TakenIsKept

(* MCP children and sessions belong together, but for what a late exit event  *)
(* has torn apart.                                                            *)
SessionsKeepTheirChild == OrphansWereDisplaced /\ MessagesReachOwnChild

(* Callers that ask for the same thing at the same time share the work of one *)
(* of them, and are not left with its failure; sessions share a child.        *)
WorkIsShared ==
  LoadsAreShared /\ FailureIsNotCached /\ FetchesAreShared /\ SessionsKeepTheirChild

(* The newer of two values stays: a final row over its placeholder, a live    *)
(* sample over a stored one, a later load over an earlier one.                *)
NewerStays ==
  FinalRowStays /\ LiveSampleWins /\ NothingForgottenOnceHydrated /\ NewestLoadWins

(* The background jobs reach their end through failures and rests: an idle    *)
(* window is warmed, and the day's credits are claimed.                       *)
JobsDoTheirWork == WindowsAreWarmed /\ EachDayIsClaimed

(* Nobody waits for ever: not for a usage event to be written, nor for a      *)
(* project id behind a fetch that never comes back.                           *)
WaitsEnd == UsageSettles /\ PendingIsGivenUp
===============================================================================
