------------------------------- MODULE ProjectId -------------------------------
(***************************************************************************)
(* The cache of Google Cloud project ids.  A connection's callers share    *)
(* one fetch; removing the connection aborts the fetch, and so does the    *)
(* periodic sweep when it has been pending for too long.  A fetch asks for  *)
(* the project, and onboards the user when there is none yet.               *)
(***************************************************************************)
EXTENDS Naturals, FiniteSets, Sequences

CONSTANTS
  Account,      \* connections that need a project id
  MaxAttempts,  \* of onboarding
  MaxFetches    \* bound

ASSUME ProjectAssumption ==
  MaxAttempts \in Nat \ {0} /\ MaxFetches \in Nat

VARIABLES
  projects,  \* projectIdCache: the fetch the id is from (0: none), and its freshness
  pending,   \* pendingFetches: a fetch or 0
  fetches,   \* fetches begun: account, stage, attempts to onboard, aborted
  cut        \* history: accounts whose fetch was aborted

projectVars == <<projects, pending, fetches, cut>>

ProjectTypeOK ==
  /\ projects \in [Account -> [from : 0..MaxFetches, fresh : BOOLEAN]]
  /\ pending \in [Account -> 0..MaxFetches]
  /\ fetches \in Seq([account : Account, attempt : 0..MaxAttempts, aborted : BOOLEAN,
                      stage : {"asking", "onboarding", "found", "none", "done"}])
  /\ cut \subseteq Account

NoProject == [from |-> 0, fresh |-> FALSE]

ProjectInit ==
  /\ projects = [a \in Account |-> NoProject]
  /\ pending = [a \in Account |-> 0]
  /\ fetches = <<>> /\ cut = {}

\* Mutant: the pending fetch is not looked at.
GetProjectIdUnshared(a) ==
  /\ Len(fetches) < MaxFetches
  /\ ~projects[a].fresh
  /\ fetches' = Append(fetches, [account |-> a, attempt |-> 0, aborted |-> FALSE, stage |-> "asking"])
  /\ pending' = [pending EXCEPT ![a] = Len(fetches')]
  /\ UNCHANGED <<projects, cut>>

(* getProjectIdForConnection, when neither the cache nor a pending fetch      *)
(* answers.                                                                   *)
GetProjectId(a) ==
  /\ Len(fetches) < MaxFetches
  /\ ~projects[a].fresh /\ pending[a] = 0
  /\ fetches' = Append(fetches, [account |-> a, attempt |-> 0, aborted |-> FALSE, stage |-> "asking"])
  /\ pending' = [pending EXCEPT ![a] = Len(fetches')]
  /\ UNCHANGED <<projects, cut>>

Goes(f, stage) == fetches' = [fetches EXCEPT ![f].stage = stage]

(* loadCodeAssist answers; an aborted request cannot. *)
Asked(f) ==
  /\ fetches[f].stage = "asking"
  /\ \/ Goes(f, "none")  \* the request fails or is aborted
     \/ ~fetches[f].aborted /\ Goes(f, "found")
     \/ ~fetches[f].aborted
        /\ fetches' = [fetches EXCEPT ![f].stage = "onboarding", ![f].attempt = 1]
  /\ UNCHANGED <<projects, pending, cut>>

(* One attempt of onboardUser: done with an id, or any failure, a timeout and *)
(* "not done yet", after which the next one follows unless the connection is  *)
(* gone.                                                                      *)
Onboard(f) ==
  /\ fetches[f].stage = "onboarding"
  /\ \/ ~fetches[f].aborted /\ Goes(f, "found")
     \/ /\ ~fetches[f].aborted /\ fetches[f].attempt < MaxAttempts
        /\ fetches' = [fetches EXCEPT ![f].attempt = @ + 1]
     \/ (fetches[f].aborted \/ fetches[f].attempt = MaxAttempts) /\ Goes(f, "none")
  /\ UNCHANGED <<projects, pending, cut>>

(* The fetch settles; its finally deletes what is pending, be it its own      *)
(* entry or a newer one.                                                      *)
FetchSettles(f) ==
  LET a == fetches[f].account
  IN /\ fetches[f].stage \in {"found", "none"}
     /\ Goes(f, "done")
     /\ projects' = IF fetches[f].stage = "found"
                      THEN [projects EXCEPT ![a] = [from |-> f, fresh |-> TRUE]] ELSE projects
     /\ pending' = [pending EXCEPT ![a] = 0]
     /\ UNCHANGED cut

\* A cached id gets older than an hour.
ProjectAges(a) ==
  /\ projects[a].fresh
  /\ projects' = [projects EXCEPT ![a].fresh = FALSE]
  /\ UNCHANGED <<pending, fetches, cut>>

\* Abort and forget the pending fetch.
Cut(a) ==
  IF pending[a] = 0 THEN UNCHANGED <<pending, fetches, cut>>
  ELSE /\ fetches' = [fetches EXCEPT ![pending[a]].aborted = TRUE]
       /\ pending' = [pending EXCEPT ![a] = 0]
       /\ cut' = cut \cup {a}

\* Mutant: the sweep looks at the cached ids only.
SweepIds(long) ==
  /\ projects' = [a \in Account |-> IF projects[a].fresh THEN projects[a] ELSE NoProject]
  /\ long \subseteq {a \in Account : pending[a] # 0}
  /\ UNCHANGED <<pending, fetches, cut>>

(* cleanupNow: old ids go, and the fetches that have been pending too long.   *)
(* How long a fetch takes is open, so any set of them may have.               *)
Sweep(long) ==
  /\ projects' = [a \in Account |-> IF projects[a].fresh THEN projects[a] ELSE NoProject]
  /\ long \subseteq {a \in Account : pending[a] # 0}
  /\ fetches' = [f \in DOMAIN fetches |->
                   IF \E a \in long : pending[a] = f
                   THEN [fetches[f] EXCEPT !.aborted = TRUE] ELSE fetches[f]]
  /\ pending' = [a \in Account |-> IF a \in long THEN 0 ELSE pending[a]]
  /\ cut' = cut \cup long

(* invalidateProjectId, before the fetch with a refreshed token. *)
InvalidateProjectId(a) ==
  /\ projects[a].from # 0
  /\ projects' = [projects EXCEPT ![a] = NoProject]
  /\ UNCHANGED <<pending, fetches, cut>>

(* removeConnection *)
RemoveConnection(a) ==
  /\ projects' = [projects EXCEPT ![a] = NoProject]
  /\ Cut(a)

ProjectNext ==
  \/ \E a \in Account :
       GetProjectId(a) \/ ProjectAges(a) \/ InvalidateProjectId(a) \/ RemoveConnection(a)
  \/ \E f \in DOMAIN fetches : Asked(f) \/ Onboard(f) \/ FetchSettles(f)
  \/ \E long \in SUBSET Account : Sweep(long)

\* Cache and fetches go with the process.
ProjectsLost ==
  /\ projects' = [a \in Account |-> NoProject]
  /\ pending' = [a \in Account |-> 0]
  /\ fetches' = [f \in DOMAIN fetches |-> [fetches[f] EXCEPT !.stage = "done"]]
  /\ UNCHANGED cut

-----------------------------------------------------------------------------
Live(a) == {f \in DOMAIN fetches : fetches[f].account = a /\ fetches[f].stage # "done"}

(* A connection has one fetch at a time, until one is aborted: what an        *)
(* aborted fetch deletes at its end may be the entry of its successor.        *)
FetchesAreShared == \A a \in Account \ cut : Cardinality(Live(a)) <= 1

(* A fetch that never comes back does not keep its connection without a       *)
(* project id for ever: its entry is given up by the sweep.                   *)
PendingIsGivenUp == \A a \in Account : []<>(pending[a] = 0)
===============================================================================
