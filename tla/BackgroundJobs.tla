---------------------------- MODULE BackgroundJobs ----------------------------
(***************************************************************************)
(* The two jobs of the dashboard server that talk to providers for the     *)
(* user: the auto-ping, which starts the next five-hour window of an       *)
(* account by a tiny request, and the daily check-in of WorkBuddy.  Both   *)
(* are loops over connections, run by an interval and skipped while the    *)
(* loop of an earlier tick is still busy.                                  *)
(*                                                                         *)
(* Points of time are kept relative to the present, in ticks of the job's  *)
(* interval; intervals of the code that are longer become small constants. *)
(***************************************************************************)
EXTENDS Integers, FiniteSets

CONSTANTS
  Target,     \* connections that may opt in to pings
  Window,     \* ticks of a quota window
  Ahead,      \* refreshAheadMs: a stable window is read again so long before its reset
  FarPoll,    \* ticks between readings while the reset is far away
  Cooldown,   \* failureCooldownMs
  MinPing,    \* minPingIntervalMs
  Day,        \* half-hours of a day
  IdleStatus  \* IDLE_STATUS_INTERVAL_MS, in half-hours

ASSUME JobsAssumption ==
  /\ {Window, Ahead, FarPoll, Cooldown, MinPing, Day, IdleStatus} \subseteq Nat \ {0}
  /\ {Ahead, FarPoll, MinPing} \subseteq 1..Window - 1 /\ FarPoll > 1 /\ MinPing <= Cooldown
  /\ IdleStatus + 3 < Day

VARIABLES
  slides,        \* by target: whether its provider's idle window slides (codex)
  window,        \* upstream, by target: ticks left of the active window, 0: none active
  optedIn,       \* the targets whose auto-ping is on in the settings
  scheduled,     \* whether the interval exists
  pingStage,     \* of the loop: idle, between, refresh, usage, ping, record, hung
  todo,          \* targets the loop has still to visit
  visit,         \* the target at hand, its reset, ticks since its visit began
  jobMemory,     \* by target: resetCache, nextQuotaCheckAt, failureCache
  quotaSeen,     \* by target: what getCachedQuotaUsage holds, and its age
  pinged,        \* by target, in its row: lastPingedResetKey, lastPingAt
  startedBy,     \* history, by target: who started the window since the last true reading
  cold,          \* history, by target: ticks served since its sliding window ended or
                 \* there was trouble
  halfHour,      \* of the day
  season,        \* upstream: whether a check-in campaign runs
  claimed,       \* upstream: whether today's credits are claimed
  loginState,    \* in the row: good, expired or none
  armed,         \* whether the check-in interval exists
  call,          \* the call the check-in waits for: none, status, refresh, again, claim
  token,         \* the session its visit began with
  snapshot,      \* the connection's last known check-in state
  calm           \* history: ticks since the last trouble, see Trouble

pingVars == <<slides, window, optedIn, scheduled, pingStage, todo, visit, jobMemory, quotaSeen,
              pinged, startedBy, cold>>
checkinVars == <<halfHour, season, claimed, loginState, armed, call, token, snapshot, calm>>
jobVars == <<pingVars, checkinVars>>

None == 0 - 2   \* no point of time
Past == 0 - 1   \* the reset of an earlier window
When == Past..Window \cup {None}

\* The ticks a window may stay cold: the rest after a failure, and the time from
\* the first reading to the second, which shows that the reset slides.
WarmUp == Cooldown + FarPoll

NoVisit == [of |-> CHOOSE t \in Target : TRUE, reset |-> None, since |-> 0]
NothingKnown == [reset |-> None, check |-> 0, rest |-> 0]
NothingSeen == [reset |-> None, spent |-> FALSE, age |-> 2]
NeverPinged == [key |-> None, quiet |-> 0]

PingTypeOK ==
  /\ slides \in [Target -> BOOLEAN] /\ window \in [Target -> 0..Window]
  /\ optedIn \subseteq Target /\ todo \subseteq Target /\ scheduled \in BOOLEAN
  /\ pingStage \in {"idle", "between", "refresh", "usage", "ping", "record", "hung"}
  /\ visit \in [of : Target, reset : When, since : 0..1]
  /\ jobMemory \in [Target -> [reset : When, check : 0..FarPoll, rest : 0..Cooldown]]
  /\ quotaSeen \in [Target -> [reset : When, spent : BOOLEAN, age : 0..2]]
  /\ pinged \in [Target -> [key : When, quiet : 0..MinPing]]
  /\ startedBy \in [Target -> {"nobody", "user", "ping", "recorded"}]
  /\ cold \in [Target -> 0..WarmUp + 1]

PingInit ==
  /\ slides \in [Target -> BOOLEAN] /\ window \in [Target -> {0, Window}]
  /\ optedIn = {} /\ scheduled = FALSE
  /\ pingStage = "idle" /\ todo = {} /\ visit = NoVisit
  /\ jobMemory = [t \in Target |-> NothingKnown]
  /\ quotaSeen = [t \in Target |-> NothingSeen]
  /\ pinged = [t \in Target |-> NeverPinged]
  /\ startedBy = [t \in Target |-> "nobody"]
  /\ cold = [t \in Target |-> 0]

-----------------------------------------------------------------------------
(* The provider.  An active window has a fixed reset.  Of an idle one, codex  *)
(* reports a reset that moves along with the present; claude is taken to      *)
(* report the reset that has passed until there is a new one.                 *)
Reported(t) == IF window[t] > 0 \/ ~slides[t] THEN window[t] ELSE Window

StartWindow(t, who) ==
  /\ window' = [window EXCEPT ![t] = IF @ = 0 THEN Window ELSE @]
  /\ startedBy' = [startedBy EXCEPT ![t] = IF window[t] = 0 THEN who ELSE @]
  /\ cold' = [cold EXCEPT ![t] = 0]

(* A request of the user's. *)
UserStartsWindow(t) ==
  /\ window[t] = 0 /\ StartWindow(t, "user")
  /\ UNCHANGED <<slides, optedIn, scheduled, pingStage, todo, visit, jobMemory, quotaSeen, pinged>>

Less(n) == IF n > 0 THEN n - 1 ELSE 0

\* A point of time, one tick later.  The passed reset that claude still reports
\* stays told apart from those before it.
Later(t, x) ==
  IF x > 0 THEN x - 1 ELSE IF x = 0 /\ window[t] = 0 /\ ~slides[t] THEN 0 ELSE
  IF x = None THEN None ELSE Past

TicksOn ==
  /\ window' = [t \in Target |-> Less(window[t])]
  /\ jobMemory' = [t \in Target |-> [reset |-> Later(t, jobMemory[t].reset),
                                     check |-> Less(jobMemory[t].check),
                                     rest |-> Less(jobMemory[t].rest)]]
  /\ quotaSeen' = [t \in Target |-> [reset |-> Later(t, quotaSeen[t].reset),
                                     spent |-> quotaSeen[t].spent,
                                     age |-> IF quotaSeen[t].age = 2 THEN 2 ELSE quotaSeen[t].age + 1]]
  /\ pinged' = [t \in Target |-> [key |-> Later(t, pinged[t].key), quiet |-> Less(pinged[t].quiet)]]

Busy == pingStage # "idle"

(* A minute has passed: the interval calls runQuotaAutoPingTick, which reads  *)
(* the settings and the connections, unless it is still busy.                 *)
PingTick ==
  /\ TicksOn
  /\ IF scheduled /\ ~Busy
     THEN pingStage' = "between" /\ todo' = optedIn
     ELSE UNCHANGED <<pingStage, todo>>
  /\ visit' = [visit EXCEPT !.reset = Later(visit.of, @), !.since = IF Busy THEN 1 ELSE 0]
  /\ cold' = [t \in Target |->
                IF window[t] > 0 \/ ~slides[t] THEN 0
                ELSE IF scheduled /\ ~Busy /\ t \in optedIn /\ cold[t] <= WarmUp THEN cold[t] + 1
                ELSE cold[t]]
  /\ UNCHANGED <<slides, optedIn, scheduled, startedBy>>

(* PATCH /api/settings: configureQuotaAutoPing.  Starting runs the loop at    *)
(* once; stopping leaves a busy loop to its end.                              *)
Configure(targets) ==
  /\ targets # optedIn /\ optedIn' = targets
  /\ scheduled' = (targets # {})
  /\ IF ~scheduled /\ targets # {} /\ ~Busy
     THEN pingStage' = "between" /\ todo' = targets
     ELSE UNCHANGED <<pingStage, todo>>
  /\ cold' = [t \in Target |-> IF t \in targets \cap optedIn THEN cold[t] ELSE 0]
  /\ UNCHANGED <<slides, window, visit, jobMemory, quotaSeen, pinged, startedBy>>

(* Somebody looks at the quota in the dashboard, which fills the same cache.  *)
DashboardLoads(t) ==
  /\ quotaSeen' = [quotaSeen EXCEPT ![t] = [reset |-> Reported(t), spent |-> FALSE, age |-> 0]]
  /\ UNCHANGED <<slides, window, optedIn, scheduled, pingStage, todo, visit, jobMemory, pinged,
                 startedBy, cold>>

-----------------------------------------------------------------------------
(* pingConnection *)

\* A stable window far from its reset, one read a short while ago, and one
\* that has failed are left alone.
Spared(t) ==
  \/ ~slides[t] /\ jobMemory[t].reset > Ahead
  \/ jobMemory[t].check > 0
  \/ jobMemory[t].rest > 0

VisitTarget(t) ==
  /\ pingStage = "between" /\ t \in todo
  /\ todo' = todo \ {t}
  /\ IF Spared(t) THEN UNCHANGED <<pingStage, visit>>
     ELSE pingStage' = "refresh" /\ visit' = [of |-> t, reset |-> None, since |-> 0]
  /\ UNCHANGED <<slides, window, optedIn, scheduled, jobMemory, quotaSeen, pinged, startedBy, cold>>

TickEnds ==
  /\ pingStage = "between" /\ todo = {}
  /\ pingStage' = "idle" /\ visit' = NoVisit
  /\ UNCHANGED <<slides, window, optedIn, scheduled, todo, jobMemory, quotaSeen, pinged, startedBy, cold>>

NextTarget == pingStage' = "between" /\ visit' = NoVisit

\* The window stays cold for a reason.
Excused == cold' = [cold EXCEPT ![visit.of] = 0]

(* Any failure on the way to the ping, and the ping's own, are remembered.    *)
VisitFails ==
  /\ pingStage \in {"refresh", "usage", "ping", "record"}
  /\ NextTarget /\ Excused
  /\ jobMemory' = [jobMemory EXCEPT ![visit.of].rest = Cooldown]
  /\ UNCHANGED <<slides, window, optedIn, scheduled, todo, quotaSeen, pinged, startedBy>>

(* refreshAndUpdateCredentials.  A rotation writes the row, and the quota     *)
(* cache has another key from then on.                                        *)
Refreshed(rotated) ==
  /\ pingStage = "refresh" /\ pingStage' = "usage"
  /\ quotaSeen' = IF rotated THEN [quotaSeen EXCEPT ![visit.of] = NothingSeen] ELSE quotaSeen
  /\ UNCHANGED <<slides, window, optedIn, scheduled, todo, visit, jobMemory, pinged, startedBy, cold>>

\* What the cache may answer: a value is as good as new for a minute.
Answers(t, fresh) ==
  (IF quotaSeen[t].age < 2 THEN {quotaSeen[t]} ELSE {})
    \cup (IF quotaSeen[t].age > 0 THEN {fresh} ELSE {})

\* getQuotaPollInterval, in ticks: a minute counted from the reading ends after
\* the next tick.
Poll(x) == IF x <= 1 THEN 0 ELSE IF x = 2 THEN 1 ELSE FarPoll

\* Whether the reading calls for a ping: it is TRUE or FALSE where the fraction
\* of a minute decides, as it does within pingLeadMs of a stable window's reset.
Calls(t, x) ==
  IF slides[t] THEN {jobMemory[t].reset # None /\ x - jobMemory[t].reset >= 1}
  ELSE IF x <= 0 /\ visit.since = 0 THEN {TRUE}
  ELSE IF x <= 0 \/ (x = 1 /\ visit.since = 0) THEN BOOLEAN
  ELSE {FALSE}

\* Mutant: a ping a short while ago does not count.
AnyTime(t, x) == pinged[t].key # x

Unpinged(t, x) == (slides[t] => pinged[t].quiet = 0) /\ pinged[t].key # x

\* Mutant: the reset is remembered with the ping only.
RememberedIfKnown(t, x) ==
  [jobMemory EXCEPT ![t].check = Poll(x), ![t].reset = IF @ = None THEN None ELSE x]

\* resetCache and nextQuotaCheckAt after a reading.
Remembered(t, x) == [jobMemory EXCEPT ![t].check = Poll(x), ![t].reset = x]

(* The usage has come, from the cache or from upstream.                       *)
UsageRead(spent) ==
  LET t == visit.of IN
  /\ pingStage = "usage"
  /\ \E u \in Answers(t, [reset |-> Reported(t), spent |-> spent, age |-> 0]) :
       /\ quotaSeen' = [quotaSeen EXCEPT ![t] = u]
       /\ jobMemory' = Remembered(t, u.reset)
       /\ \E calls \in Calls(t, u.reset) :
            IF calls /\ ~u.spent /\ Unpinged(t, u.reset)
            THEN pingStage' = "ping" /\ visit' = [visit EXCEPT !.reset = u.reset] /\ UNCHANGED startedBy
            ELSE NextTarget /\ startedBy' =
                   [startedBy EXCEPT ![t] = IF u.reset = Reported(t) THEN "nobody" ELSE @]
       /\ IF u.spent THEN Excused ELSE UNCHANGED cold
  /\ UNCHANGED <<slides, window, optedIn, scheduled, todo, pinged>>

(* The answer has no reset for the window.                                    *)
UsageEmpty ==
  /\ pingStage = "usage" /\ NextTarget /\ Excused
  /\ jobMemory' = [jobMemory EXCEPT ![visit.of].check = 1 - visit.since]
  /\ UNCHANGED <<slides, window, optedIn, scheduled, todo, quotaSeen, pinged, startedBy>>

(* sendPing: upstream has accepted the request, and the answer is read.       *)
PingAccepted ==
  /\ pingStage = "ping" /\ pingStage' = "record"
  /\ StartWindow(visit.of, "ping")
  /\ jobMemory' = [jobMemory EXCEPT ![visit.of].rest = 0]
  /\ UNCHANGED <<slides, optedIn, scheduled, todo, visit, quotaSeen, pinged>>

(* Upstream has accepted it, but the answer broke off.                        *)
PingBreaksOff ==
  /\ pingStage = "ping" /\ NextTarget
  /\ StartWindow(visit.of, "ping")
  /\ jobMemory' = [jobMemory EXCEPT ![visit.of].rest = Cooldown]
  /\ UNCHANGED <<slides, optedIn, scheduled, todo, quotaSeen, pinged>>

(* The answer never ends: drainResponseBody has no timeout.                   *)
PingHangs ==
  /\ pingStage = "ping" /\ pingStage' = "hung"
  /\ UNCHANGED <<slides, window, optedIn, scheduled, todo, visit, jobMemory, quotaSeen, pinged,
                 startedBy, cold>>

(* The row remembers the reset and when it was pinged; with its updatedAt the *)
(* quota cache gets another key.                                              *)
PingRecorded ==
  /\ pingStage = "record" /\ NextTarget
  /\ pinged' = [pinged EXCEPT ![visit.of] =
                  [key |-> visit.reset, quiet |-> IF slides[visit.of] THEN MinPing ELSE 0]]
  /\ quotaSeen' = [quotaSeen EXCEPT ![visit.of] = NothingSeen]
  /\ startedBy' = [startedBy EXCEPT ![visit.of] = IF @ = "ping" THEN "recorded" ELSE @]
  /\ UNCHANGED <<slides, window, optedIn, scheduled, todo, jobMemory, cold>>

PingNext ==
  \/ PingTick \/ TickEnds \/ VisitFails \/ UsageEmpty
  \/ PingAccepted \/ PingBreaksOff \/ PingHangs \/ PingRecorded
  \/ \E t \in Target : UserStartsWindow(t) \/ VisitTarget(t) \/ DashboardLoads(t)
  \/ \E targets \in SUBSET Target : Configure(targets)
  \/ \E yes \in BOOLEAN : Refreshed(yes) \/ UsageRead(yes)

(* stopQuotaAutoPing                                                          *)
PingsStopped ==
  /\ scheduled' = FALSE
  /\ UNCHANGED <<slides, window, optedIn, pingStage, todo, visit, jobMemory, quotaSeen, pinged,
                 startedBy, cold>>

\* The process is gone; initializeApp starts the scheduler again.
PingsLost ==
  /\ scheduled' = (optedIn # {})
  /\ IF optedIn # {} THEN pingStage' = "between" /\ todo' = optedIn ELSE pingStage' = "idle" /\ todo' = {}
  /\ visit' = NoVisit
  /\ jobMemory' = [t \in Target |-> NothingKnown]
  /\ quotaSeen' = [t \in Target |-> NothingSeen]
  /\ cold' = [t \in Target |-> 0]
  /\ UNCHANGED <<slides, window, optedIn, pinged, startedBy>>

-----------------------------------------------------------------------------
(* The daily check-in.  A call of its own is bounded by a timeout of seconds, *)
(* so that no visit lasts from one tick to the next.                          *)

NoSnapshot == [age |-> IdleStatus, needClaim |-> FALSE, lastError |-> FALSE]

CheckinTypeOK ==
  /\ halfHour \in 0..Day - 1 /\ {season, claimed, armed} \subseteq BOOLEAN
  /\ {loginState, token} \subseteq {"good", "expired", "none"}
  /\ call \in {"none", "status", "refresh", "again", "claim"}
  /\ snapshot \in [age : 0..IdleStatus, needClaim : BOOLEAN, lastError : BOOLEAN]
  /\ calm \in 0..Day

CheckinInit ==
  /\ halfHour = 0 /\ season \in BOOLEAN /\ claimed = FALSE
  /\ loginState \in {"good", "none"} /\ token = "none"
  /\ armed = FALSE /\ call = "none" /\ snapshot = NoSnapshot /\ calm = 0

\* What the job cannot be blamed for: an upstream or a refresh that fails, a
\* season or a session that comes or goes, a new day or a new process.
Trouble == calm' = 0

upstream == <<halfHour, season, claimed, loginState>>

SeasonTurns ==
  /\ season' = ~season /\ Trouble
  /\ UNCHANGED <<halfHour, claimed, loginState, armed, call, token, snapshot>>

(* The session expires, or the user logs in anew or out.                      *)
SessionTurns(s) ==
  /\ s # loginState /\ loginState' = s /\ Trouble
  /\ token' = IF s = "expired" /\ token = "good" THEN s ELSE token
  /\ UNCHANGED <<halfHour, season, claimed, armed, call, snapshot>>

(* The user checks in by hand.                                                *)
UserClaims ==
  /\ season /\ ~claimed /\ claimed' = TRUE
  /\ UNCHANGED <<halfHour, season, loginState, armed, call, token, snapshot, calm>>

Midnight ==
  /\ halfHour = Day - 1 /\ halfHour' = 0
  /\ claimed' = FALSE /\ Trouble
  /\ UNCHANGED <<season, loginState, armed, call, token, snapshot>>

(* ensureWorkbuddyAutoCheckinStarted, from a chat or from the quota view: the *)
(* first tick comes after five seconds.                                       *)
Visits == call' = "status" /\ token' = loginState

Arm ==
  /\ ~armed /\ armed' = TRUE
  /\ IF loginState = "none"
     THEN snapshot' = [snapshot EXCEPT !.needClaim = FALSE] /\ UNCHANGED <<call, token>>
     ELSE Visits /\ UNCHANGED snapshot
  /\ Trouble /\ UNCHANGED upstream

\* Nothing to claim, and the status was read a short while ago.
Idles(s) == ~s.needClaim /\ ~s.lastError /\ s.age < IdleStatus

(* Half an hour has passed: runWorkbuddyAutoCheckinTick.                      *)
CheckinTick ==
  LET older == [snapshot EXCEPT !.age = IF @ = IdleStatus THEN @ ELSE @ + 1] IN
  /\ call = "none" /\ halfHour < Day - 1
  /\ halfHour' = halfHour + 1
  /\ calm' = IF armed /\ loginState # "none" THEN calm + 1 ELSE 0
  /\ IF ~armed THEN snapshot' = older /\ UNCHANGED <<call, token>>
     ELSE IF loginState = "none"
     THEN snapshot' = [older EXCEPT !.needClaim = FALSE] /\ UNCHANGED <<call, token>>
     ELSE /\ snapshot' = older
          /\ IF Idles(older) THEN UNCHANGED <<call, token>> ELSE Visits
  /\ UNCHANGED <<season, claimed, loginState, armed>>

VisitEnds(need, error) ==
  /\ call' = "none" /\ token' = "none"
  /\ snapshot' = [age |-> 0, needClaim |-> need, lastError |-> error]

(* A call throws: whether a claim was owed is kept.  A throw of the second     *)
(* status is caught and the first refusal stands (StatusRefused).             *)
CallThrows ==
  /\ call \in {"status", "claim"}
  /\ VisitEnds(snapshot.needClaim, TRUE) /\ Trouble
  /\ UNCHANGED <<upstream, armed>>

\* The status with a session that upstream accepts.
StatusRead ==
  /\ IF season /\ ~claimed THEN call' = "claim" /\ UNCHANGED <<token, snapshot>>
                          ELSE VisitEnds(FALSE, FALSE)
  /\ UNCHANGED <<upstream, armed, calm>>

StatusAnswers ==
  /\ call = "status"
  /\ IF token = "good" THEN StatusRead
     ELSE call' = "refresh" /\ UNCHANGED <<upstream, armed, token, snapshot, calm>>

StatusRefused ==
  /\ call \in {"status", "again"}
  /\ VisitEnds(FALSE, TRUE) /\ Trouble
  /\ UNCHANGED <<upstream, armed>>

(* refreshAndUpdateCredentials writes the new session into the row.           *)
SessionRefreshed ==
  /\ call = "refresh" /\ call' = "again"
  /\ loginState' = IF loginState = "expired" THEN "good" ELSE loginState
  /\ UNCHANGED <<halfHour, season, claimed, armed, token, snapshot, calm>>

(* It keeps the old one, which is refused once more, or it throws, and the    *)
(* first refusal stands.                                                      *)
RefreshFails ==
  /\ call = "refresh"
  /\ VisitEnds(FALSE, TRUE) /\ Trouble
  /\ UNCHANGED <<upstream, armed>>

StatusAgain == call = "again" /\ StatusRead

\* Mutant: a claim that is refused is not owed.
ClaimRefusedForgotten ==
  /\ call = "claim" /\ VisitEnds(FALSE, FALSE)
  /\ calm' = IF token = "expired" \/ claimed THEN calm ELSE 0
  /\ UNCHANGED <<upstream, armed>>

(* The claim is made with the session the visit began with, also after a      *)
(* refresh: then it is refused, and owed to the next tick.                    *)
ClaimRefused ==
  /\ call = "claim" /\ VisitEnds(TRUE, FALSE)
  /\ calm' = IF token = "expired" \/ claimed THEN calm ELSE 0
  /\ UNCHANGED <<upstream, armed>>

ClaimAccepted ==
  /\ call = "claim" /\ token = "good" /\ season /\ ~claimed
  /\ claimed' = TRUE /\ VisitEnds(FALSE, FALSE)
  /\ UNCHANGED <<halfHour, season, loginState, armed, calm>>

(* Upstream has booked the claim, the answer is lost.                         *)
ClaimLost ==
  /\ call = "claim" /\ token = "good" /\ season /\ ~claimed
  /\ claimed' = TRUE /\ VisitEnds(snapshot.needClaim, TRUE) /\ Trouble
  /\ UNCHANGED <<halfHour, season, loginState, armed>>

CheckinNext ==
  \/ SeasonTurns \/ UserClaims \/ Midnight \/ Arm \/ CheckinTick
  \/ CallThrows \/ StatusAnswers \/ StatusRefused \/ SessionRefreshed \/ RefreshFails
  \/ StatusAgain \/ ClaimRefused \/ ClaimAccepted \/ ClaimLost
  \/ \E s \in {"good", "expired", "none"} : SessionTurns(s)

(* stopWorkbuddyAutoCheckin                                                   *)
CheckinStopped ==
  /\ armed' = FALSE
  /\ UNCHANGED <<halfHour, season, claimed, loginState, call, token, snapshot, calm>>

\* The process is gone with its interval and snapshots; a chat or the quota
\* view arms the job again.
CheckinLost ==
  /\ armed' = FALSE /\ call' = "none" /\ token' = "none" /\ snapshot' = NoSnapshot
  /\ Trouble /\ UNCHANGED upstream

-----------------------------------------------------------------------------
(* Properties *)

(* A ping is sent into a window that is already active only where the job     *)
(* cannot know better: a user's request, or a ping it could not record, has   *)
(* started the window since its last true reading; its own recorded ping did, *)
(* but the next reading came later than the minimum interval; or a stable     *)
(* window is within the lead of its reset.                                    *)
PingsAreNeeded ==
  [][pingStage' = "ping" /\ pingStage # "ping" /\ window[visit.of] > 0
       => \/ startedBy[visit.of] \in {"user", "ping"}
          \/ startedBy[visit.of] = "recorded" /\ pinged[visit.of].quiet = 0
          \/ ~slides[visit.of] /\ window[visit.of] = 1]_pingVars

(* The sliding window of a target that stays opted in does not stay idle: the *)
(* ticks served since it ended, or since a failure, a spent quota or an empty *)
(* answer, suffice to rest, to see its reset twice and to ping, whatever the  *)
(* cache answers, and the user asks, in between.  A loop that hangs serves no *)
(* tick.                                                                      *)
WindowsAreWarmed == \A t \in Target : cold[t] <= WarmUp

(* While a season runs, and unless there was trouble, the day's credits are   *)
(* claimed two ticks after the idle interval at the latest: an expired        *)
(* session costs a tick, never the day.                                       *)
EachDayIsClaimed == season /\ calm > IdleStatus + 1 => claimed
===============================================================================
