--------------------------- MODULE LoadingRequests ---------------------------
(***************************************************************************)
(* Requests that load sources: each borrows a database connection from the *)
(* engine's pool (app/db/session.py) and keeps it while its downloads, the *)
(* ones SourceService.load_many gathers, borrow theirs from the HTTP       *)
(* client.  Both pools are bounded and both are waited for with a timeout. *)
(***************************************************************************)
EXTENDS Fetch

CONSTANTS
  Requests,
  Owner,     \* the request each download belongs to
  DbSize     \* pool_size + max_overflow

ASSUME LoadingAssumption ==
  /\ Owner \in [Fetches -> Requests]
  /\ DbSize \in Nat \ {0}

VARIABLE pc

loadVars == <<vars, pc>>

Over == {"served", "failed", "refused"}
Mine(r) == {f \in Fetches : Owner[f] = r}
Holders == {r \in Requests : pc[r] \in {"planning", "loading"}}

LoadingTypeOK ==
  /\ TypeOK
  /\ pc \in [Requests -> {"new", "queued", "planning", "loading"} \cup Over]

LoadingInit == Init /\ pc = [r \in Requests |-> "new"]

Become(r, p) == pc' = [pc EXCEPT ![r] = p]

\* The first statement of the request asks for a connection.
Arrive(r) == pc[r] = "new" /\ Become(r, "queued") /\ UNCHANGED vars

Borrow(r) ==
  /\ pc[r] = "queued" /\ Cardinality(Holders) < DbSize
  /\ Become(r, "planning")
  /\ UNCHANGED vars

\* The pool's timeout.
Refuse(r) == pc[r] = "queued" /\ Become(r, "refused") /\ UNCHANGED vars

\* gather makes a task of each source that has to be downloaded.
Launch(r) ==
  /\ pc[r] = "planning"
  /\ Become(r, "loading")
  /\ Start(Mine(r))

Serve(r) ==
  /\ pc[r] = "loading"
  /\ \A f \in Mine(r) : at[f] \in Ended \ {"broken", "cancelled"}
  /\ Become(r, "served")
  /\ UNCHANGED vars

\* One download raised: so does gather, at once, and nobody tells the others.
Raise(r) ==
  /\ pc[r] = "loading"
  /\ \E f \in Mine(r) : at[f] = "broken"
  /\ Become(r, "failed")
  /\ UNCHANGED vars

Held(r) == {f \in Mine(r) : at[f] \in {"new"} \cup Waiting}

\* Mutant: only the request is cancelled.
AbandonAlone(r) ==
  /\ r \in Holders
  /\ Become(r, "failed")
  /\ UNCHANGED vars

\* The client is gone, or the agent's deadline is reached: the request is
\* cancelled, and gather with it, and with that every download.
Abandon(r) ==
  /\ r \in Holders
  /\ Become(r, "failed")
  /\ Cancel(Held(r))

Progress(r) == Borrow(r) \/ Refuse(r) \/ Launch(r) \/ Serve(r) \/ Raise(r)

Download(f) == Step(f) /\ UNCHANGED pc

LoadingNext ==
  \/ \E r \in Requests : Arrive(r) \/ Progress(r) \/ Abandon(r)
  \/ \E f \in Fetches : Download(f)
  \/ \E h \in Hosts : Rebind(h) /\ UNCHANGED pc

LoadingSpec == LoadingInit /\ [][LoadingNext]_loadVars

\* Tasks that were started run, and each wait has a timeout.  Nobody has to
\* arrive or to go away, and names need not change.
LoadingFairSpec ==
  /\ LoadingSpec
  /\ \A r \in Requests : WF_loadVars(Progress(r))
  /\ \A f \in Fetches : WF_loadVars(Download(f))

-----------------------------------------------------------------------------
(* Properties.                                                             *)

ServedHasEverything ==
  \A r \in Requests : pc[r] = "served" =>
    \A f \in Mine(r) : at[f] \in Ended \ {"broken"}

OrphansHaveABrokenSibling ==
  \A f \in Fetches :
    at[f] \in Waiting /\ pc[Owner[f]] \in Over =>
      \E g \in Mine(Owner[f]) : at[g] = "broken"

\* A request that goes on has the outcome of every download it started, and a
\* download outlives its request only because another one of the same request
\* broke: a client that leaves takes its downloads along.
RequestsKeepTheirDownloads == ServedHasEverything /\ OrphansHaveABrokenSibling

\* Whoever asks for a database connection is answered or refused, though its
\* holders wait for servers that hang and for HTTP connections that may all
\* be lost; and every download ends, an orphan's too, though its body may
\* never end and its redirects go round in circles.
EveryCallerIsAnswered ==
  /\ \A r \in Requests : pc[r] = "queued" ~> pc[r] \in Over
  /\ \A f \in Fetches : at[f] = "resolving" ~> at[f] \in Ended
=============================================================================
