-------------------------------- MODULE Fetch --------------------------------
(***************************************************************************)
(* Downloads by fetch_text (app/utils/http_fetch.py) through the one HTTP  *)
(* client of the process.                                                  *)
(*                                                                         *)
(* Each download looks its host up, connects to one of the addresses the   *)
(* lookup gave, follows redirects, each to be looked up anew, and reads    *)
(* the body of the last response up to a ceiling.  The client lends a      *)
(* bounded number of connections; a response keeps its own until it is     *)
(* closed.  Names, servers and the client are external: a name may change  *)
(* its addresses between any two steps, and a server may answer anything,  *)
(* in pieces of any size, or nothing.                                      *)
(*                                                                         *)
(* Left out: the scheme test, and the conversion to text, of which only    *)
(* the outcome is here.  Bytes are counted, not spelled.                   *)
(***************************************************************************)
EXTENDS Integers, FiniteSets

CONSTANTS
  Fetches, Hosts, Addresses,
  Site,          \* the host of each source's URL
  Public,        \* the addresses _is_public accepts
  Answers,       \* what a lookup may give: sets of addresses
  NoPeer,
  MaxRedirects,  \* _MAX_REDIRECTS
  MaxBytes,      \* the smaller of the source's limit and the settings'
  MaxChunk,      \* bound on what aiter_bytes yields at once
  PoolSize,      \* connections the HTTP client lends
  OpenFence      \* settings.source_allow_private_network

ASSUME FetchAssumption ==
  /\ Public \subseteq Addresses /\ Answers \subseteq SUBSET Addresses
  /\ Site \in [Fetches -> Hosts]
  /\ NoPeer \notin Addresses
  /\ MaxRedirects \in Nat
  /\ MaxBytes \in Nat \ {0} /\ MaxChunk \in Nat \ {0}
  /\ PoolSize \in Nat \ {0}
  /\ OpenFence \in BOOLEAN

VARIABLES
  dns,     \* the addresses each name has now
  at,      \* where each download stands
  host,    \* the host of current_url
  addrs,   \* the addresses to connect to
  lookup,  \* the host and the answer of the latest lookup (history)
  hop,     \* requests sent before this one
  peer,    \* the host and the address of the open response, or NoPeer
  total,   \* bytes received
  kept,    \* bytes kept of them
  whole,   \* the body ended by itself (history)
  left     \* where the download stood when it ended (history)

vars == <<dns, at, host, addrs, lookup, hop, peer, total, kept, whole, left>>

Waiting == {"resolving", "sending", "waiting", "redirected", "reading"}
Ended == {"fetched", "unchanged", "failed", "broken", "cancelled"}
Peers == [host : Hosts, addr : Addresses]

TypeOK ==
  /\ dns \in [Hosts -> Answers]
  /\ at \in [Fetches -> {"new"} \cup Waiting \cup Ended]
  /\ host \in [Fetches -> Hosts]
  /\ addrs \in [Fetches -> SUBSET Addresses]
  /\ lookup \in [Fetches -> [host : Hosts, addrs : SUBSET Addresses]]
  /\ hop \in [Fetches -> 0 .. MaxRedirects]
  /\ peer \in [Fetches -> Peers \cup {NoPeer}]
  /\ total \in [Fetches -> Nat] /\ kept \in [Fetches -> Nat]
  /\ whole \in [Fetches -> BOOLEAN]
  /\ left \in [Fetches -> {"new"} \cup Waiting]

Init ==
  /\ dns \in [Hosts -> Answers]
  /\ at = [f \in Fetches |-> "new"]
  /\ host = Site
  /\ addrs = [f \in Fetches |-> {}]
  /\ lookup = [f \in Fetches |-> [host |-> Site[f], addrs |-> {}]]
  /\ hop = [f \in Fetches |-> 0]
  /\ peer = [f \in Fetches |-> NoPeer]
  /\ total = [f \in Fetches |-> 0]
  /\ kept = [f \in Fetches |-> 0]
  /\ whole = [f \in Fetches |-> FALSE]
  /\ left = [f \in Fetches |-> "new"]

-----------------------------------------------------------------------------
(* The client's connections, and the end of a download.                    *)

Busy == {f \in Fetches : peer[f] # NoPeer}

Close(f) == peer' = [peer EXCEPT ![f] = NoPeer]

End(f, how) ==
  /\ at' = [at EXCEPT ![f] = how]
  /\ left' = [left EXCEPT ![f] = at[f]]

-----------------------------------------------------------------------------
(* Lookups.                                                                *)

\* Tasks are created for them, all at once.
Start(F) ==
  /\ F \subseteq {f \in Fetches : at[f] = "new"}
  /\ at' = [f \in Fetches |-> IF f \in F THEN "resolving" ELSE at[f]]
  /\ UNCHANGED <<dns, host, addrs, lookup, hop, peer, total, kept, whole, left>>

\* assert_public_url: every address of the name must be public.
Permitted(h) == OpenFence \/ (dns[h] # {} /\ dns[h] \subseteq Public)

\* What it returns: nothing if the fence is open.
Validated(h) == IF OpenFence THEN {} ELSE dns[h]

LookUp(f) == lookup' = [lookup EXCEPT ![f] = [host |-> host[f], addrs |-> dns[host[f]]]]

Resolve(f) ==
  /\ at[f] = "resolving" /\ Permitted(host[f])
  /\ LookUp(f)
  /\ addrs' = [addrs EXCEPT ![f] = Validated(host[f])]
  /\ at' = [at EXCEPT ![f] = "sending"]
  /\ UNCHANGED <<dns, host, hop, peer, total, kept, whole, left>>

Blocked(f) ==
  /\ at[f] = "resolving" /\ ~Permitted(host[f])
  /\ LookUp(f)
  /\ End(f, "failed")
  /\ UNCHANGED <<dns, host, addrs, hop, peer, total, kept, whole>>

-----------------------------------------------------------------------------
(* Requests.                                                               *)

\* Mutant: the name is handed to the client, which looks it up again.
TargetsByName(f) == dns[host[f]]

\* _pin: the validated addresses; with an open fence, whatever the name has.
Targets(f) == IF addrs[f] = {} THEN dns[host[f]] ELSE addrs[f]

Send(f) ==
  /\ at[f] = "sending" /\ Cardinality(Busy) < PoolSize
  /\ \E a \in Targets(f) :
       peer' = [peer EXCEPT ![f] = [host |-> host[f], addr |-> a]]
  /\ at' = [at EXCEPT ![f] = "waiting"]
  /\ UNCHANGED <<dns, host, addrs, lookup, hop, total, kept, whole, left>>

\* Mutant: no timeout on the wait for a connection.
SendFailsOnceConnected(f) ==
  /\ at[f] = "waiting"
  /\ Close(f)
  /\ End(f, "failed")
  /\ UNCHANGED <<dns, host, addrs, lookup, hop, total, kept, whole>>

\* A timeout (of the pool, too) or another error of the client, which has
\* then taken its connection back.
SendFails(f) ==
  /\ at[f] \in {"sending", "waiting"}
  /\ Close(f)
  /\ End(f, "failed")
  /\ UNCHANGED <<dns, host, addrs, lookup, hop, total, kept, whole>>

\* The headers are there: a redirect, or the last response.
Redirected(f) ==
  /\ at[f] = "waiting"
  /\ \E h \in Hosts : host' = [host EXCEPT ![f] = h]
  /\ at' = [at EXCEPT ![f] = "redirected"]
  /\ UNCHANGED <<dns, addrs, lookup, hop, peer, total, kept, whole, left>>

Answered(f) ==
  /\ at[f] = "waiting"
  /\ at' = [at EXCEPT ![f] = "reading"]
  /\ UNCHANGED <<dns, host, addrs, lookup, hop, peer, total, kept, whole, left>>

\* 304, or a status from 400 on: the body is not read.
Settled(f) ==
  /\ at[f] = "waiting"
  /\ Close(f)
  /\ \E how \in {"unchanged", "failed"} : End(f, how)
  /\ UNCHANGED <<dns, host, addrs, lookup, hop, total, kept, whole>>

\* Mutant: one redirect more than _MAX_REDIRECTS.
FollowOnceMore(f) ==
  /\ at[f] = "redirected" /\ Permitted(host[f])
  /\ LookUp(f)
  /\ addrs' = [addrs EXCEPT ![f] = Validated(host[f])]
  /\ Close(f)
  /\ \/ hop[f] > MaxRedirects /\ End(f, "failed") /\ UNCHANGED hop
     \/ /\ hop[f] <= MaxRedirects
        /\ hop' = [hop EXCEPT ![f] = @ + 1]
        /\ at' = [at EXCEPT ![f] = "sending"]
        /\ UNCHANGED left
  /\ UNCHANGED <<dns, host, total, kept, whole>>

\* The next hop is looked up, then the response of this one is closed.
Follow(f) ==
  /\ at[f] = "redirected" /\ Permitted(host[f])
  /\ LookUp(f)
  /\ addrs' = [addrs EXCEPT ![f] = Validated(host[f])]
  /\ Close(f)
  /\ \/ hop[f] = MaxRedirects /\ End(f, "failed") /\ UNCHANGED hop
     \/ /\ hop[f] < MaxRedirects
        /\ hop' = [hop EXCEPT ![f] = @ + 1]
        /\ at' = [at EXCEPT ![f] = "sending"]
        /\ UNCHANGED left
  /\ UNCHANGED <<dns, host, total, kept, whole>>

\* The next hop is refused, or its URL is none that httpx can parse, which is
\* an error nobody translates: the exception passes by the aclose.
FollowRefused(f) ==
  /\ at[f] = "redirected"
  /\ \/ ~Permitted(host[f]) /\ LookUp(f) /\ End(f, "failed")
     \/ UNCHANGED lookup /\ End(f, "broken")
  /\ UNCHANGED <<dns, host, addrs, hop, peer, total, kept, whole>>

-----------------------------------------------------------------------------
(* The body: _read_limited, inside a try whose finally closes the response. *)

\* Mutant: the cut is computed from the total that includes the chunk.
ReadCutsTwice(f) ==
  /\ at[f] = "reading" /\ total[f] < MaxBytes
  /\ \E n \in 1 .. MaxChunk :
       /\ total' = [total EXCEPT ![f] = @ + n]
       /\ kept' = [kept EXCEPT ![f] =
            @ + IF total[f] + n < MaxBytes THEN n
                ELSE IF total[f] + n = MaxBytes THEN 0 ELSE n]
  /\ UNCHANGED <<dns, at, host, addrs, lookup, hop, peer, whole, left>>

Read(f) ==
  /\ at[f] = "reading" /\ total[f] < MaxBytes
  /\ \E n \in 1 .. MaxChunk :
       /\ total' = [total EXCEPT ![f] = @ + n]
       /\ kept' = [kept EXCEPT ![f] =
            @ + IF total[f] + n >= MaxBytes THEN MaxBytes - total[f] ELSE n]
  /\ UNCHANGED <<dns, at, host, addrs, lookup, hop, peer, whole, left>>

\* The ceiling or the end of the body stops the loop; a content type that is
\* not allowed, or invalid JSON, is found out only now.
Finish(f) ==
  /\ at[f] = "reading"
  /\ \/ total[f] >= MaxBytes /\ UNCHANGED whole
     \/ total[f] < MaxBytes /\ whole' = [whole EXCEPT ![f] = TRUE]
  /\ Close(f)
  /\ \E how \in {"fetched", "failed"} : End(f, how)
  /\ UNCHANGED <<dns, host, addrs, lookup, hop, total, kept>>

\* Mutant: the response is closed only when the body was read well.
BreakLeavesOpen(f) ==
  /\ at[f] = "reading" /\ total[f] < MaxBytes
  /\ End(f, "broken")
  /\ UNCHANGED <<dns, host, addrs, lookup, hop, peer, total, kept, whole>>

\* The client fails while the body is read; that error is not translated.
Break(f) ==
  /\ at[f] = "reading" /\ total[f] < MaxBytes
  /\ Close(f)
  /\ End(f, "broken")
  /\ UNCHANGED <<dns, host, addrs, lookup, hop, total, kept, whole>>

\* Their tasks are cancelled.  The client and the finally close what they
\* know of; a response whose redirect is being looked up is known to neither.
Cancel(F) ==
  /\ F \subseteq {f \in Fetches : at[f] \in {"new"} \cup Waiting}
  /\ at' = [f \in Fetches |-> IF f \in F THEN "cancelled" ELSE at[f]]
  /\ left' = [f \in Fetches |-> IF f \in F THEN at[f] ELSE left[f]]
  /\ peer' = [f \in Fetches |->
       IF f \in F /\ at[f] # "redirected" THEN NoPeer ELSE peer[f]]
  /\ UNCHANGED <<dns, host, addrs, lookup, hop, total, kept, whole>>

-----------------------------------------------------------------------------
\* A name gets other addresses, or none.
Rebind(h) ==
  /\ \E A \in Answers : dns' = [dns EXCEPT ![h] = A]
  /\ UNCHANGED <<at, host, addrs, lookup, hop, peer, total, kept, whole, left>>

Step(f) ==
  \/ Resolve(f) \/ Blocked(f) \/ Send(f) \/ SendFails(f)
  \/ Redirected(f) \/ Answered(f) \/ Settled(f) \/ Follow(f) \/ FollowRefused(f)
  \/ Read(f) \/ Finish(f) \/ Break(f)

Next ==
  \/ \E F \in SUBSET Fetches : Start(F) \/ Cancel(F)
  \/ \E f \in Fetches : Step(f)
  \/ \E h \in Hosts : Rebind(h)

Spec == Init /\ [][Next]_vars

\* Lookups end, and each wait of the client has its timeout.
FairSpec == Spec /\ \A f \in Fetches : WF_vars(Step(f))

-----------------------------------------------------------------------------
(* Properties.                                                             *)

\* An open response comes from an address which the lookup made for its very
\* host gave, all of whose addresses were public, whatever the name has had
\* before and since, and however many redirects led there.
PeerWasValidated ==
  \A f \in Fetches :
    at[f] \in {"waiting", "reading"} /\ ~OpenFence =>
      /\ peer[f].host = lookup[f].host
      /\ peer[f].addr \in lookup[f].addrs
      /\ lookup[f].addrs \subseteq Public

\* No end of a download (an error, a broken body, a cancellation) keeps its
\* connection, except one that comes while a redirect is looked up: that
\* connection is lost to the process.
LostOnlyInRedirect ==
  \A f \in Fetches : at[f] \in Ended /\ peer[f] # NoPeer => left[f] = "redirected"

\* A document is what its server sent up to the ceiling: no more, nothing
\* cut out of it, and cut at all only where the ceiling is.
CutOnlyAtCeiling ==
  \A f \in Fetches :
    /\ kept[f] = IF total[f] < MaxBytes THEN total[f] ELSE MaxBytes
    /\ at[f] = "fetched" => whole[f] \/ kept[f] = MaxBytes
=============================================================================
