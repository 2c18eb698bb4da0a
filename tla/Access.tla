------------------------------- MODULE Access -------------------------------
(***************************************************************************)
(* The verifier in front of the pages (src/web/auth.rs): a token is looked *)
(* up by the id of its key in a cached key set, which is fetched again     *)
(* when it is old, or when a key is unknown, but then only once in a while.*)
(* Requests overlap, a fetch takes time, and the provider rotates its keys *)
(* meanwhile.                                                              *)
(*                                                                         *)
(* Keys are numbered in the order the provider takes them; 0 is a key it   *)
(* never has.  Signatures, audiences and expiry are jsonwebtoken's.        *)
(***************************************************************************)
EXTENDS Integers

CONSTANTS
  Requests,    \* requests handled at the same time
  Ttl,         \* JWKS_TTL
  Throttle,    \* forced_min_interval
  Timeout,     \* of the client
  MaxKey,      \* bound: keys the provider takes
  MaxClock,    \* bound
  MaxFailures  \* bound: fetches that fail

ASSUME AccessAssumption == {Ttl, Throttle, Timeout, MaxKey} \subseteq Nat \ {0}

VARIABLES
  clock,
  published,   \* the keys in the provider's set; the newest signs
  retired,     \* when each key left it
  cache,       \* the set and when it was stored
  lastForced,  \* of the verifier
  sent,        \* ghost: when a forced fetch was last sent
  request,
  failures

accessVars == <<clock, published, retired, cache, lastForced, sent, request, failures>>

KeyIds == 1..MaxKey
Never == -1 - Throttle - Ttl
Newest == CHOOSE k \in published : \A j \in published : j <= k

Idle == [pc |-> "idle"]

AccessInit ==
  /\ clock = 0
  /\ published = {1}
  /\ retired = [k \in KeyIds |-> Never]
  /\ cache = [keys |-> {}, at |-> Never]
  /\ lastForced = Never
  /\ sent = Never
  /\ request = [r \in Requests |-> Idle]
  /\ failures = 0

-----------------------------------------------------------------------------
(* The provider, and time *)

Rotate ==
  /\ Newest < MaxKey
  /\ published' = published \cup {Newest + 1}
  /\ UNCHANGED <<clock, retired, cache, lastForced, sent, request, failures>>

Retire(k) ==
  /\ k \in published /\ k # Newest
  /\ published' = published \ {k}
  /\ retired' = [retired EXCEPT ![k] = clock]
  /\ UNCHANGED <<clock, cache, lastForced, sent, request, failures>>

\* Only the wait for a fetch takes time.
Waiting(r) == request[r].pc \in {"ask", "landing"}
TimePasses ==
  /\ clock < MaxClock
  /\ \A r \in Requests : request[r].pc # "force" /\ (Waiting(r) => clock < request[r].since + Timeout)
  /\ clock' = clock + 1
  /\ UNCHANGED <<published, retired, cache, lastForced, sent, request, failures>>

-----------------------------------------------------------------------------
(* require_access and verify *)

Cached == cache.at # Never

\* Mutant: what is cached is fresh.
FreshForEver == Cached

Fresh == Cached /\ clock - cache.at < Ttl

Go(r, to) == request' = [request EXCEPT ![r] = to]
Done(r, answer) == Go(r, [pc |-> "done", kid |-> request[r].kid, known |-> request[r].known, answer |-> answer])
\* A set was returned to verify: the key is in it, or is asked for once more.
Decide(r, q, keys) ==
  Go(r, IF q.kid \in keys THEN [pc |-> "done", kid |-> q.kid, known |-> q.known, answer |-> "pass"]
        ELSE IF q.forced THEN [pc |-> "done", kid |-> q.kid, known |-> q.known, answer |-> "401"]
        ELSE [q EXCEPT !.pc = "force"])

(* A request with a token: the cached set, or a fetch. *)
Arrive(r) ==
  /\ request[r].pc \in {"idle", "done"}
  /\ \E kid \in KeyIds \cup {0} :
       LET q == [pc |-> "ask", kid |-> kid, known |-> kid \in published, forced |-> FALSE, since |-> clock, keys |-> {}]
       IN IF Fresh THEN Decide(r, q, cache.keys) ELSE Go(r, q)
  /\ UNCHANGED <<clock, published, retired, cache, lastForced, sent, failures>>

\* The provider answers with the set it has at that moment.
Answer(r) ==
  /\ request[r].pc = "ask"
  /\ Go(r, [request[r] EXCEPT !.pc = "landing", !.keys = published])
  /\ UNCHANGED <<clock, published, retired, cache, lastForced, sent, failures>>

(* fetch_jwks returns: whichever fetch ends last has the cache. *)
Land(r) ==
  /\ request[r].pc = "landing"
  /\ cache' = [keys |-> request[r].keys, at |-> clock]
  /\ Decide(r, request[r], request[r].keys)
  /\ UNCHANGED <<clock, published, retired, lastForced, sent, failures>>

(* The fetch fails: an old set serves, but not one that lacks the key. *)
Fail(r) ==
  /\ request[r].pc = "ask" /\ failures < MaxFailures
  /\ failures' = failures + 1
  /\ IF Cached /\ ~request[r].forced
       THEN Decide(r, request[r], cache.keys)
       ELSE Done(r, "503")
  /\ UNCHANGED <<clock, published, retired, cache, lastForced, sent>>

Throttled == clock - lastForced < Throttle /\ Cached

\* Mutant: an unknown key starts the interval anew.
SlidingForced == clock

ForcedNow == IF Throttled THEN lastForced ELSE clock

(* The key is unknown: one more fetch, unless one was forced of late. *)
ForceFetch(r) ==
  /\ request[r].pc = "force"
  /\ lastForced' = ForcedNow
  /\ IF Throttled
       THEN Decide(r, [request[r] EXCEPT !.forced = TRUE], cache.keys) /\ UNCHANGED sent
       ELSE /\ Go(r, [request[r] EXCEPT !.pc = "ask", !.forced = TRUE, !.since = clock])
            /\ sent' = clock
  /\ UNCHANGED <<clock, published, retired, cache, failures>>

AccessNext ==
  \/ Rotate
  \/ \E k \in KeyIds : Retire(k)
  \/ TimePasses
  \/ \E r \in Requests : Arrive(r) \/ Answer(r) \/ Land(r) \/ Fail(r) \/ ForceFetch(r)

AccessSpec == AccessInit /\ [][AccessNext]_accessVars

-----------------------------------------------------------------------------
(* Properties *)

Decided(r, answer) == request'[r].pc = "done" /\ request'[r].answer = answer /\ request'[r] # request[r]

(* A reader with a token of a key the provider has all along is turned     *)
(* away only while a forced fetch is recent, however many bad tokens come  *)
(* in between and in whatever order overlapping fetches end.               *)
RotationIsLearned ==
  [][\A r \in Requests :
       (Decided(r, "401") /\ request'[r].known /\ request'[r].kid \in published)
       => clock - sent < Throttle]_accessVars

(* A key that the provider took back passes for the lifetime of a cached   *)
(* set and the fetch that stored it, and no longer, unless the provider    *)
(* does not answer: then the old set serves on.                            *)
RetiredKeysGoOut ==
  [][\A r \in Requests :
       (Decided(r, "pass") /\ request'[r].kid \notin published /\ failures' = failures)
       => clock - retired[request'[r].kid] < Ttl + Timeout]_accessVars
=============================================================================
