---------------------------- MODULE IdealLimiter ----------------------------
(***************************************************************************)
(* A limiter with no memory to manage: every key has a level that rises    *)
(* with time up to its ceiling, and serving a key costs one token.  It is  *)
(* what TokenBucketLimiter promises its callers.                           *)
(***************************************************************************)
EXTENDS Integers

CONSTANTS
  Keys,
  Rate,     \* credits a key earns in one unit of time
  Ceiling,  \* the most credits a key can hold
  Token     \* the credits one request costs

VARIABLE level

Init == level = Ceiling

\* Time passes.
Earn ==
  level' = [k \in Keys |->
    IF level[k] + Rate[k] > Ceiling[k] THEN Ceiling[k] ELSE level[k] + Rate[k]]

\* The keys K are charged together.
Charge(K) ==
  /\ \A k \in K : level[k] >= Token
  /\ level' = [k \in Keys |-> IF k \in K THEN level[k] - Token ELSE level[k]]

Next == Earn \/ \E K \in SUBSET Keys : Charge(K)

Spec == Init /\ [][Next]_level
=============================================================================
