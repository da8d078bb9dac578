----------------------------- MODULE RateLimits -----------------------------
(***************************************************************************)
(* The in-process token buckets: POST /auth/login and POST /embed/session  *)
(* check one bucket, POST /embed/chat checks the conversation's and then   *)
(* the caller's, and a background task forgets idle buckets.               *)
(*                                                                         *)
(* All of it runs on the event loop with no await inside, so a request's   *)
(* checks are one step.  Time is counted in ticks and tokens in credits:   *)
(* a token is Per credits and a bucket earns Capacity credits a tick, so   *)
(* the code's fractions are whole numbers here.                            *)
(***************************************************************************)
EXTENDS Integers

CONSTANTS
  Buckets,     \* the (limiter, key) pairs
  Capacity,    \* capacity of the limiter each belongs to
  Gates,       \* the buckets checked alone: login and session opening
  Chats,       \* the pairs <<conversation, caller>> a chat request checks
  Per,         \* per_seconds, in ticks
  Second,      \* ticks in a second
  IdleFor,     \* older_than_seconds, in ticks
  WindowStarts,
  Horizon      \* bound on the clock

ASSUME BucketsAssumption ==
  /\ Capacity \in [Buckets -> Nat \ {0}]
  /\ Gates \subseteq Buckets
  /\ Chats \subseteq {<<s, i>> : s \in Buckets, i \in Buckets}
  /\ WindowStarts \subseteq Nat
ASSUME TimeAssumption ==
  /\ Per \in Nat \ {0} /\ Second \in Nat \ {0}
  /\ IdleFor \in Nat /\ IdleFor >= Per
  /\ Horizon \in Nat

VARIABLES
  now,       \* time.monotonic()
  kept,      \* the keys of _buckets
  credit,    \* tokens of a kept bucket
  updated,   \* updated_at of a kept bucket
  start,     \* history: when the observed window begins
  taken,     \* history: tokens each bucket gave since then
  waiting,   \* history: buckets whose last check was refused
  due        \* history: when the caller of such a bucket was told to come back

vars == <<now, kept, credit, updated, start, taken, waiting, due>>

Full(b) == Capacity[b] * Per

\* Mutant: an idle key keeps earning past the capacity.
RefilledUncapped(b) == credit[b] + Capacity[b] * (now - updated[b])

Refilled(b) ==
  LET earned == credit[b] + Capacity[b] * (now - updated[b])
  IN  IF earned > Full(b) THEN Full(b) ELSE earned

\* What a key may spend now; one that is not kept has everything.
Level(b) == IF b \in kept THEN Refilled(b) ELSE Full(b)

Grants(b) == Level(b) >= Per

\* Mutant: the fraction of a second is cut off.
RetryAfterTruncated(b) == (Per - Refilled(b)) \div (Capacity[b] * Second)

\* Whole seconds, rounded down and one more.
RetryAfter(b) == (Per - Refilled(b)) \div (Capacity[b] * Second) + 1

TypeOK ==
  /\ now \in Nat
  /\ kept \subseteq Buckets
  /\ credit \in [Buckets -> Nat]
  /\ updated \in [Buckets -> Nat]
  /\ start \in Nat
  /\ taken \in [Buckets -> Nat]
  /\ waiting \subseteq kept
  /\ due \in [Buckets -> Nat]
  /\ \A b \in Buckets : credit[b] <= Full(b) /\ updated[b] <= now

Init ==
  /\ now = 0
  /\ kept = {}
  /\ credit = [b \in Buckets |-> 0]
  /\ updated = [b \in Buckets |-> 0]
  /\ start \in WindowStarts
  /\ taken = [b \in Buckets |-> 0]
  /\ waiting = {}
  /\ due = [b \in Buckets |-> 0]

\* check on each of these buckets: the paid ones give a token, the denied
\* ones raise RateLimitError.
Check(paid, denied) ==
  /\ \A b \in paid : Grants(b)
  /\ \A b \in denied : ~Grants(b)
  /\ kept' = kept \cup paid \cup denied
  /\ credit' = [b \in Buckets |->
       IF b \in paid THEN Level(b) - Per
       ELSE IF b \in denied THEN Level(b) ELSE credit[b]]
  /\ updated' = [b \in Buckets |-> IF b \in paid \cup denied THEN now ELSE updated[b]]
  /\ taken' = [b \in Buckets |->
       IF b \in paid /\ now >= start THEN taken[b] + 1 ELSE taken[b]]
  /\ waiting' = (waiting \ paid) \cup denied
  /\ due' = [b \in Buckets |->
       IF b \in denied THEN now + RetryAfter(b) * Second
       ELSE IF b \in paid THEN 0 ELSE due[b]]
  /\ UNCHANGED <<now, start>>

Gate(b) == Check({b}, {}) \/ Check({}, {b})

\* The conversation's token is gone even when the caller's bucket refuses.
Chat(s, i) == Check({s, i}, {}) \/ Check({s}, {i}) \/ Check({}, {s})

\* Mutant: the pruner ignores how long a bucket has been idle.
PruneAll ==
  /\ kept # {}
  /\ kept' = {}
  /\ credit' = [b \in Buckets |-> 0]
  /\ updated' = [b \in Buckets |-> 0]
  /\ waiting' = {}
  /\ due' = [b \in Buckets |-> 0]
  /\ UNCHANGED <<now, start, taken>>

Prune ==
  LET stale == {b \in kept : updated[b] < now - IdleFor}
  IN  /\ stale # {}
      /\ kept' = kept \ stale
      /\ credit' = [b \in Buckets |-> IF b \in stale THEN 0 ELSE credit[b]]
      /\ updated' = [b \in Buckets |-> IF b \in stale THEN 0 ELSE updated[b]]
      /\ waiting' = waiting \ stale
      /\ due' = [b \in Buckets |-> IF b \in stale THEN 0 ELSE due[b]]
      /\ UNCHANGED <<now, start, taken>>

Tick ==
  /\ now < Horizon
  /\ now' = now + 1
  /\ UNCHANGED <<kept, credit, updated, start, taken, waiting, due>>

Next ==
  \/ \E b \in Gates : Gate(b)
  \/ \E c \in Chats : Chat(c[1], c[2])
  \/ Prune
  \/ Tick

Spec == Init /\ [][Next]_vars

-----------------------------------------------------------------------------
(* Properties.                                                             *)

\* In every window of time a bucket gives at most its capacity and what the
\* window refills, however requests, refusals and pruning fall in it.  The
\* window is any that begins at start.
WindowBound ==
  \A b \in Buckets :
    taken[b] * Per <= Full(b) + Capacity[b] * (IF now > start THEN now - start ELSE 0)

\* Retry-After is honest: a refused caller that comes back when told to is
\* served if nobody else used its bucket.  It is told less than a second too
\* much, but where its token is complete on a whole second: the quotient is
\* exact then, and the one that is added a second too much.
RetryAfterHonest ==
  \A b \in waiting :
    /\ now >= due[b] => Grants(b)
    /\ now <= due[b] - Second /\ Grants(b) => now = due[b] - Second /\ Level(b) = Per

\* Forgetting idle buckets is invisible: the limiter behaves as one that
\* keeps every key for ever.
Ideal == INSTANCE IdealLimiter WITH
  Keys <- Buckets,
  Rate <- Capacity,
  Ceiling <- [b \in Buckets |-> Full(b)],
  Token <- Per,
  level <- [b \in Buckets |-> Level(b)]

ImplementsIdealLimiter == Ideal!Spec
=============================================================================
