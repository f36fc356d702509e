----------------------------- MODULE HealthProber -----------------------------
(***************************************************************************)
(* The background health prober next to the user requests of RoutingEngine.*)
(* A sweep lists the locks about to expire, with the rows as they are then,*)
(* and pings one after the other through the gateway's own HTTP endpoint:  *)
(* a probe request (slot ProbeSlot) that prefers the target's account.  If *)
(* the ping succeeds the prober itself clears the target's error state.    *)
(*                                                                         *)
(* The bare model name of a ping is taken to be routed to this provider.   *)
(***************************************************************************)
EXTENDS RoutingEngine

CONSTANTS
  ProbeSlot,  \* the request slot the prober's pings occupy
  Lead,       \* PROBE_LEAD_MS in ticks
  NoTarget    \* no ping in flight

ASSUME ProberAssumption ==
  /\ ProbeSlot \in Probe
  /\ Lead \in Nat \ {0}
  /\ NoTarget \notin [conn : Conn, model : Model, row : Row]

VARIABLES
  targets,  \* what the current sweep has still to ping
  probing   \* the target whose ping is in flight

proberVars == <<targets, probing>>
allVars == <<vars, proberVars>>

\* Instance: the longest cooldown a provider can ask for, the only kind of lock
\* that outlives a lead of as many ticks.
LongestReset == {[kind |-> "reset", ticks |-> ResetCap]}

Target == [conn : Conn, model : Model, row : Row]

ProberTypeOK ==
  /\ TypeOK
  /\ targets \subseteq Target
  /\ probing \in Target \cup {NoTarget}

ProberInit == Init /\ targets = {} /\ probing = NoTarget

-----------------------------------------------------------------------------
(* The locks a sweep finds: active, of a real model, within the lead. *)
DueTargets ==
  {t \in [conn : Conn, model : Model, row : {row[c] : c \in Conn}] :
     /\ t.row = row[t.conn]
     /\ t.row.enabled
     /\ t.model \in ActiveLocks(t.row)
     /\ t.row.left[t.model] <= Lead}

(* sweepHealthProber: one sweep at a time. *)
Sweep ==
  /\ targets = {} /\ probing = NoTarget
  /\ targets' = DueTargets
  /\ UNCHANGED <<vars, probing>>

(* probeOne: the ping arrives as a probe request pinned to the account. *)
Ping(t) ==
  /\ probing = NoTarget
  /\ t \in targets
  /\ Begin(ProbeSlot, t.model, t.conn)
  /\ targets' = targets \ {t}
  /\ probing' = t

(* The ping's AbortSignal fires; the request itself goes on. *)
PingTimeout ==
  /\ probing # NoTarget
  /\ pc[ProbeSlot] # "done"
  /\ probing' = NoTarget
  /\ UNCHANGED <<vars, targets>>

\* Mutant: only a success ends the wait for a ping.
SettleSuccess ==
  /\ outcome[ProbeSlot] = "ok"
  /\ probing # NoTarget
  /\ pc[ProbeSlot] = "done"
  /\ row' = [row EXCEPT ![probing.conn] = ClearedRow(@, probing.row, probing.model)]
  /\ probing' = NoTarget
  /\ UNCHANGED <<pc, request, outcome, targets>>

\* Mutant: the answer's status is not looked at.
SettleAnyhow ==
  /\ probing # NoTarget
  /\ pc[ProbeSlot] = "done"
  /\ row' = [row EXCEPT ![probing.conn] = ClearedRow(@, probing.row, probing.model)]
  /\ probing' = NoTarget
  /\ UNCHANGED <<pc, request, outcome, targets>>

(* The ping is answered: a success clears the target on the sweep's row.  A   *)
(* 200 whose body has no completion, or breaks off, is no success to the ping. *)
Settle ==
  /\ probing # NoTarget
  /\ pc[ProbeSlot] = "done"
  /\ \/ /\ outcome[ProbeSlot] = "ok"
        /\ row' = [row EXCEPT ![probing.conn] = ClearedRow(@, probing.row, probing.model)]
     \/ row' = row
  /\ probing' = NoTarget
  /\ UNCHANGED <<pc, request, outcome, targets>>

\* Snapshots age with the clock: expiries are absolute.
AgedTarget(t) == [t EXCEPT !.row = Aged(@)]

TickAll ==
  /\ Tick
  /\ targets' = {AgedTarget(t) : t \in targets}
  /\ probing' = IF probing = NoTarget THEN NoTarget ELSE AgedTarget(probing)

\* An answered ping is settled before its request slot is free again.
Advance(r) ==
  /\ r = ProbeSlot /\ pc[r] = "done" => probing = NoTarget
  /\ Progress(r)
  /\ UNCHANGED proberVars

ServeStep ==
  \/ /\ \/ \E r \in Req \ {ProbeSlot}, m \in Asked, p \in Pins : Begin(r, m, p)
        \/ \E r \in Req : PersistTokens(r)
     /\ UNCHANGED proberVars
  \/ \E r \in Req : Advance(r)

PingStep == \E t \in targets : Ping(t)

ProberNext == ServeStep \/ TickAll \/ Sweep \/ PingStep \/ PingTimeout \/ Settle

ProberSpec == ProberInit /\ [][ProberNext]_allVars

\* Requests progress as in FairSpec; a ping is sent when its turn comes and is
\* settled when it is answered.
FairProber ==
  /\ ProberSpec
  /\ \A r \in Req : WF_allVars(Advance(r))
  /\ WF_allVars(TickAll)
  /\ WF_allVars(PingStep)
  /\ WF_allVars(Settle)

-----------------------------------------------------------------------------
(* Properties *)

\* A sweep comes to its end whatever its pings run into, so the guard against
\* overlapping sweeps cannot keep the prober silent for good.
SweepsEnd == (targets # {} \/ probing # NoTarget) ~> (targets = {} /\ probing = NoTarget)

\* A lock of c that had more than a tick to go is gone.
LiftedEarly(c, k) ==
  row[c].left[k] > 1 /\ k \in ActiveLocks(row[c]) /\ k \notin row'[c].keys

\* A request that c has served heals it.
HealedByRequest(c, k) ==
  \E r \in Req :
    conn[r] = c /\ pc[r] \in {"healing", "blocked"} /\ k \in KeysToClear(seen[r], model[r])

\* The ping sent for c was answered with success, by whichever account.
VouchedFor(c, k) ==
  /\ probing # NoTarget
  /\ probing.conn = c
  /\ outcome[ProbeSlot] = "ok"
  /\ k = probing.model \/ k \in Expired(probing.row)

EarlyUnlock ==
  \A c \in Conn, k \in Model : LiftedEarly(c, k) => HealedByRequest(c, k) \/ VouchedFor(c, k)

\* A lock that is lifted before its time is lifted by a success: of a request
\* for that model on that very account, or of a ping sent for that very lock,
\* never by a ping that failed or timed out or was sent for another.  The ping's
\* success may be another account's: the lock that is due keeps its account out
\* of the selection, its pin notwithstanding.  (Locks the snapshot took for
\* expired are swept too: see the README.)
UnlocksFollowSuccess == [][EarlyUnlock]_allVars

\* What healthProber.js says of a ping, that it is pinned to that exact
\* connection and its success restores the account: where the prober lifts a
\* lock, the account it is lifted from has answered the ping.
ProbedAccountAnswers ==
  [][\A c \in Conn, k \in Model :
       LiftedEarly(c, k) => HealedByRequest(c, k) \/ (VouchedFor(c, k) /\ conn[ProbeSlot] = c)]_allVars

=============================================================================
