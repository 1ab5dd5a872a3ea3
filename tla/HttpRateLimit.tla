---------------------------- MODULE HttpRateLimit ----------------------------
(***************************************************************************)
(* The limiter in front of every HTTP request: a token bucket per client   *)
(* (packages/ai/src/rate-limit.ts) in a map that holds a bounded number of *)
(* them and drops the one that was used least recently (packages/api/src/  *)
(* rate-limit.ts).  A request is decided in one synchronous call.          *)
(*                                                                         *)
(* Tokens are counted in parts, Request of which one request costs, so     *)
(* that a refill of less than a token a second is a natural number.  The   *)
(* clock is that of the host, which may be set back.                       *)
(***************************************************************************)
EXTENDS Naturals, Sequences, SequencesExt

CONSTANTS
  Clients,     \* keys of requests
  Watched,     \* the one whose requests are counted
  Request,     \* parts of a token that a request costs
  Capacity,    \* parts a full bucket holds
  Refill,      \* parts a second brings
  MaxBuckets,  \* buckets in the map
  LastSecond,  \* bound: the clock
  MaxBack,     \* bound: seconds by which the clock is set back
  MaxDropped   \* bound: how often the bucket of Watched is dropped in a window

ASSUME LimiterAssumption ==
  /\ Watched \in Clients
  /\ Request \in Nat \ {0} /\ Capacity \in Nat \ {0} /\ Refill \in Nat
  /\ MaxBuckets \in Nat \ {0}
  /\ LastSecond \in Nat /\ MaxBack \in Nat /\ MaxDropped \in Nat

VARIABLES
  second,     \* the clock
  buckets,    \* the map: tokens and the time of the last refill of each client
  recency,    \* the keys of the map, the least recently used first
  window,     \* history: what Watched was granted since some time
  back,       \* history: seconds the clock has been set back
  promise     \* history: when Watched, refused, was told to retry

limiterVars == <<second, buckets, recency, window, back, promise>>

-----------------------------------------------------------------------------
Bucket == [tokens : 0..Capacity, at : 0..LastSecond]
Full == [tokens |-> Capacity, at |-> second]

\* since, and the seconds set back by then, are fixed when the window opens;
\* dropped counts how often the bucket has left the map.
Window == [since : 0..LastSecond, back : 0..MaxBack, granted : Nat, dropped : 0..MaxDropped]
NoPromise == LastSecond + Request + 1

LimiterInit ==
  /\ second = 0
  /\ buckets = [k \in Clients |-> [tokens |-> Capacity, at |-> 0]]
  /\ recency = <<>>
  /\ window = [since |-> 0, back |-> 0, granted |-> 0, dropped |-> 0]
  /\ back = 0
  /\ promise = NoPromise

InMap(k) == \E i \in DOMAIN recency : recency[i] = k

\* The bucket in the map, or a full one.
State(k) == IF InMap(k) THEN buckets[k] ELSE Full

Elapsed(state) == IF second < state.at THEN 0 ELSE second - state.at

\* Slip: the capacity does not bound what is saved up.
Unbounded(state) == state.tokens + Elapsed(state) * Refill

\* What a bucket holds by now.
Refilled(state) ==
  LET tokens == state.tokens + Elapsed(state) * Refill
  IN IF tokens < Capacity THEN tokens ELSE Capacity

\* Slip: rounded down.
RetryFloor(short) == short \div Refill

\* The seconds until that many parts are there, rounded up.
RetryAfter(short) == (short + Refill - 1) \div Refill

\* The map after a call for k: k is the most recently used.
Touch(k) ==
  IF InMap(k) THEN RemoveAt(recency, CHOOSE i \in DOMAIN recency : recency[i] = k) \o <<k>>
  ELSE IF Len(recency) >= MaxBuckets THEN Tail(recency) \o <<k>>
  ELSE Append(recency, k)

Dropped(k) == IF ~InMap(k) /\ Len(recency) >= MaxBuckets THEN {recency[1]} ELSE {}

Consume(k) ==
  LET tokens == Refilled(State(k))
      granted == Request <= Capacity /\ tokens >= Request
  IN /\ buckets' = [buckets EXCEPT ![k] =
          [tokens |-> IF granted THEN tokens - Request ELSE tokens, at |-> second]]
     /\ recency' = Touch(k)
     /\ Watched \in Dropped(k) => window.dropped < MaxDropped
     /\ window' = CASE k = Watched /\ granted -> [window EXCEPT !.granted = @ + 1]
                    [] Watched \in Dropped(k) -> [window EXCEPT !.dropped = @ + 1]
                    [] OTHER -> window
     /\ promise' = CASE k # Watched -> promise
                     [] k = Watched /\ (granted \/ Request > Capacity \/ Refill = 0) -> NoPromise
                     [] OTHER -> second + RetryAfter(Request - tokens)
     /\ UNCHANGED <<second, back>>

Pass ==
  /\ second < LastSecond
  /\ second' = second + 1
  /\ UNCHANGED <<buckets, recency, window, back, promise>>

SetBack ==
  /\ second > 0 /\ back < MaxBack
  /\ second' = second - 1
  /\ back' = back + 1
  /\ UNCHANGED <<buckets, recency, window, promise>>

\* Somebody begins to count what Watched is granted.
OpenWindow ==
  /\ window' = [since |-> second, back |-> back, granted |-> 0, dropped |-> 0]
  /\ UNCHANGED <<second, buckets, recency, back, promise>>

LimiterNext ==
  \/ \E k \in Clients : Consume(k)
  \/ Pass \/ SetBack \/ OpenWindow

LimiterSpec == LimiterInit /\ [][LimiterNext]_limiterVars

-----------------------------------------------------------------------------
(* Properties.                                                             *)

\* The clock, the map and its buckets have their type, and the map is bounded.
LimiterTypeOK ==
  /\ second \in 0..LastSecond /\ back \in 0..MaxBack
  /\ buckets \in [Clients -> Bucket]
  /\ recency \in Seq(Clients) /\ Len(recency) <= MaxBuckets
  /\ window \in Window
  /\ promise \in Nat

\* In no stretch of time is a client granted more than a full bucket and what
\* the time brings, besides a full bucket for every time its own was dropped
\* for other clients and the refill of every second the clock was set back,
\* which is brought twice.
BurstBounded ==
  Request * window.granted + Refill * window.since
    <= Capacity * (1 + window.dropped) + Refill * (second + (back - window.back))

\* A client that was refused and asks again no sooner than it was told, and
\* has not asked in between, is served.
RetryIsServed == second >= promise => Refilled(State(Watched)) >= Request
=============================================================================
