---------------------------- MODULE ExecutorRetries ----------------------------
(***************************************************************************)
(* BaseExecutor.execute: one call tries the provider's base URLs in order, *)
(* repeating a URL as long as the answer's status has retries left.  The   *)
(* count of repetitions is kept per URL and shared by all statuses.  The   *)
(* delay between two tries is left out, and so is the abort signal: it is  *)
(* raised only once the answer is being streamed.                          *)
(***************************************************************************)
EXTENDS Naturals

CONSTANTS
  Request,  \* the calls of handleChatCore
  Urls,     \* getFallbackCount: how many base URLs the provider has
  RateLimitedRetries, ServerErrorRetries,  \* attempts of the retry configuration
  NetworkRetries                           \* its entry for 502

ASSUME RetryAssumption ==
  /\ Urls \in Nat \ {0}
  /\ {RateLimitedRetries, ServerErrorRetries, NetworkRetries} \subseteq Nat

VARIABLES
  url,    \* urlIndex of the execute call in progress, from 0
  tries,  \* retryAttemptsByUrl[urlIndex]
  sent    \* history: upstream requests of this execute call

executorVars == <<url, tries, sent>>

Retries ==
  [rateLimited |-> RateLimitedRetries, serverError |-> ServerErrorRetries,
   network |-> NetworkRetries]

(* What fetch brings: a response by status class, or a network failure. A     *)
(* connect timeout is a network failure, too.                                 *)
Result == {"ok", "unauthorized", "overflow", "badRequest"} \cup DOMAIN Retries

MostRetries ==
  CHOOSE n \in {Retries[k] : k \in DOMAIN Retries} : \A k \in DOMAIN Retries : Retries[k] <= n

ExecutorTypeOK ==
  /\ url \in [Request -> 0..Urls - 1]
  /\ tries \in [Request -> 0..MostRetries]
  /\ sent \in [Request -> Nat]

ExecutorInit ==
  /\ url = [r \in Request |-> 0]
  /\ tries = [r \in Request |-> 0]
  /\ sent = [r \in Request |-> 0]

\* A new execute call starts with the first URL and sends its first request.
Launch(r) ==
  /\ url' = [url EXCEPT ![r] = 0]
  /\ tries' = [tries EXCEPT ![r] = 0]
  /\ sent' = [sent EXCEPT ![r] = 1]

\* Mutant: one retry more than the configuration allows.
RetryAlways(r, k) == k \in DOMAIN Retries /\ tries[r] < Retries[k] + 1

\* tryRetry
MayRetry(r, k) == k \in DOMAIN Retries /\ tries[r] < Retries[k]

\* shouldRetry for a response, the fallback in the catch block for a failure.
MayFallBack(r, k) == k \in {"rateLimited", "network"} /\ url[r] + 1 < Urls

(* The same URL once more. *)
Retry(r, k) ==
  /\ MayRetry(r, k)
  /\ tries' = [tries EXCEPT ![r] = @ + 1]
  /\ sent' = [sent EXCEPT ![r] = @ + 1]
  /\ UNCHANGED url

(* The next URL, with a count of its own. *)
FallBack(r, k) ==
  /\ ~MayRetry(r, k) /\ MayFallBack(r, k)
  /\ url' = [url EXCEPT ![r] = @ + 1]
  /\ tries' = [tries EXCEPT ![r] = 0]
  /\ sent' = [sent EXCEPT ![r] = @ + 1]

\* execute returns the response, or throws on a network failure.
Settles(r, k) == ~MayRetry(r, k) /\ ~MayFallBack(r, k)
===============================================================================
