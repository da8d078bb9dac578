------------------------ MODULE LoadingRequestsProofs ------------------------
(***************************************************************************)
(* Proofs about downloads (Fetch) and the requests that wait for them      *)
(* (LoadingRequests), for any number of them, any names, any pools.        *)
(***************************************************************************)
EXTENDS LoadingRequests, TLAPS

-----------------------------------------------------------------------------
(* Types.                                                                  *)

LEMMA InitTypes == Init => TypeOK
  BY FetchAssumption DEF Init, TypeOK, Waiting, Ended, Peers

LEMMA StepTypes ==
  ASSUME TypeOK, NEW f \in Fetches, Step(f)
  PROVE  TypeOK'
<1> USE FetchAssumption DEF TypeOK, Waiting, Ended, Peers, LookUp, Close, End
<1>1. CASE Resolve(f)
  BY <1>1 DEF Resolve, Validated
<1>2. CASE Blocked(f)
  BY <1>2 DEF Blocked
<1>3. CASE Send(f)
  <2>1. PICK a \in Targets(f) : peer' = [peer EXCEPT ![f] = [host |-> host[f], addr |-> a]]
    BY <1>3 DEF Send
  <2>2. a \in Addresses
    BY <2>1 DEF Targets
  <2>3. peer' \in [Fetches -> Peers \cup {NoPeer}]
    BY <2>1, <2>2
  <2> QED
    BY <1>3, <2>3 DEF Send
<1>4. CASE SendFails(f)
  BY <1>4 DEF SendFails
<1>5. CASE Redirected(f)
  BY <1>5 DEF Redirected
<1>6. CASE Answered(f)
  BY <1>6 DEF Answered
<1>7. CASE Settled(f)
  BY <1>7 DEF Settled
<1>8. CASE Follow(f)
  <2>1. hop' \in [Fetches -> 0 .. MaxRedirects]
    BY <1>8 DEF Follow
  <2>2. at' \in [Fetches -> {"new"} \cup Waiting \cup Ended] /\ left' \in [Fetches -> {"new"} \cup Waiting]
    BY <1>8 DEF Follow
  <2> QED
    BY <1>8, <2>1, <2>2 DEF Follow, Validated
<1>9. CASE FollowRefused(f)
  <2>1. lookup' = lookup \/ LookUp(f)
    BY <1>9 DEF FollowRefused
  <2>2. lookup' \in [Fetches -> [host : Hosts, addrs : SUBSET Addresses]]
    BY <2>1
  <2>3. at' \in [Fetches -> {"new"} \cup Waiting \cup Ended] /\ left' \in [Fetches -> {"new"} \cup Waiting]
    BY <1>9 DEF FollowRefused
  <2> QED
    BY <1>9, <2>2, <2>3 DEF FollowRefused
<1>10. CASE Read(f)
  BY <1>10 DEF Read
<1>11. CASE Finish(f)
  <2>1. at' \in [Fetches -> {"new"} \cup Waiting \cup Ended] /\ left' \in [Fetches -> {"new"} \cup Waiting]
    BY <1>11 DEF Finish
  <2>2. whole' \in [Fetches -> BOOLEAN]
    BY <1>11 DEF Finish
  <2> QED
    BY <1>11, <2>1, <2>2 DEF Finish
<1>12. CASE Break(f)
  BY <1>12 DEF Break
<1> QED
  BY <1>1, <1>2, <1>3, <1>4, <1>5, <1>6, <1>7, <1>8, <1>9, <1>10, <1>11, <1>12 DEF Step

LEMMA StartTypes ==
  ASSUME TypeOK, NEW F \in SUBSET Fetches, Start(F)
  PROVE  TypeOK'
  BY DEF TypeOK, Start, Waiting, Ended

LEMMA CancelTypes ==
  ASSUME TypeOK, NEW F \in SUBSET Fetches, Cancel(F)
  PROVE  TypeOK'
  BY DEF TypeOK, Cancel, Waiting, Ended

LEMMA RebindTypes ==
  ASSUME TypeOK, NEW h \in Hosts, Rebind(h)
  PROVE  TypeOK'
  BY FetchAssumption DEF TypeOK, Rebind

\* Downloads keep their types; none makes more than MaxRedirects + 1 requests.
THEOREM TypeCorrect == Spec => []TypeOK
<1>1. TypeOK /\ [Next]_vars => TypeOK'
  <2> SUFFICES ASSUME TypeOK, [Next]_vars PROVE TypeOK'
    OBVIOUS
  <2>1. CASE UNCHANGED vars
    BY <2>1 DEF TypeOK, vars
  <2> QED
    BY <2>1, StepTypes, StartTypes, CancelTypes, RebindTypes DEF Next
<1> QED
  BY InitTypes, <1>1, PTL DEF Spec
-----------------------------------------------------------------------------
(* The fence.                                                              *)

\* A download about to connect is pinned to the addresses of its latest
\* lookup, which was made for the host it is about to ask.
PinInv ==
  \A f \in Fetches :
    at[f] = "sending" /\ ~OpenFence =>
      /\ addrs[f] # {}
      /\ lookup[f] = [host |-> host[f], addrs |-> addrs[f]]
      /\ addrs[f] \subseteq Public

\* Whatever names resolve to, and whenever that changes: an open response
\* comes from an address validated for its very host.
THEOREM PeersAreValidated == Spec => []PeerWasValidated
<1>1. Init => PinInv /\ PeerWasValidated
  BY DEF Init, PinInv, PeerWasValidated
<1>2. TypeOK /\ TypeOK' /\ PinInv /\ PeerWasValidated /\ [Next]_vars => PinInv' /\ PeerWasValidated'
  <2> SUFFICES ASSUME TypeOK, TypeOK', PinInv, PeerWasValidated, [Next]_vars
               PROVE  PinInv' /\ PeerWasValidated'
    OBVIOUS
  <2> USE DEF PinInv, PeerWasValidated, TypeOK
  <2>1. CASE UNCHANGED vars
    BY <2>1 DEF vars
  <2>2. ASSUME NEW F \in SUBSET Fetches, Start(F) PROVE PinInv' /\ PeerWasValidated'
    BY <2>2 DEF Start
  <2>3. ASSUME NEW F \in SUBSET Fetches, Cancel(F) PROVE PinInv' /\ PeerWasValidated'
    BY <2>3 DEF Cancel
  <2>4. ASSUME NEW h \in Hosts, Rebind(h) PROVE PinInv' /\ PeerWasValidated'
    BY <2>4 DEF Rebind
  <2>5. ASSUME NEW f \in Fetches, Step(f) PROVE PinInv' /\ PeerWasValidated'
    <3>1. CASE Resolve(f)
      BY <3>1 DEF Resolve, Permitted, Validated, LookUp
    <3>2. CASE Follow(f)
      BY <3>2 DEF Follow, Permitted, Validated, LookUp, Close, End
    <3>3. CASE Send(f)
      <4>1. PICK a \in Targets(f) : peer' = [peer EXCEPT ![f] = [host |-> host[f], addr |-> a]]
        BY <3>3 DEF Send
      <4>2. ~OpenFence => a \in addrs[f]
        BY <3>3, <4>1 DEF Send, Targets
      <4>3. /\ at' = [at EXCEPT ![f] = "waiting"]
            /\ at[f] = "sending" /\ UNCHANGED <<host, addrs, lookup>>
        BY <3>3 DEF Send
      <4>4. PinInv'
        BY <4>3
      <4>5. peer'[f].host = host[f] /\ peer'[f].addr = a
        BY <4>1
      <4>6. ASSUME NEW g \in Fetches, at'[g] \in {"waiting", "reading"}, ~OpenFence
            PROVE  /\ peer'[g].host = lookup[g].host
                   /\ peer'[g].addr \in lookup[g].addrs
                   /\ lookup[g].addrs \subseteq Public
        <5>1. CASE g = f
          BY <5>1, <4>2, <4>3, <4>5, <4>6
        <5>2. CASE g # f
          BY <5>2, <4>1, <4>3, <4>6
        <5> QED
          BY <5>1, <5>2
      <4> QED
        BY <4>3, <4>4, <4>6
    <3>4. CASE Blocked(f) \/ FollowRefused(f)
      BY <3>4 DEF Blocked, FollowRefused, LookUp, End
    <3>5. CASE SendFails(f) \/ Settled(f) \/ Finish(f) \/ Break(f)
      <4>1. /\ UNCHANGED <<host, addrs, lookup>>
            /\ peer' = [peer EXCEPT ![f] = NoPeer]
        BY <3>5 DEF SendFails, Settled, Finish, Break, Close
      <4>2. PICK how \in Ended : at' = [at EXCEPT ![f] = how]
        BY <3>5 DEF SendFails, Settled, Finish, Break, End, Ended
      <4> QED
        BY <4>1, <4>2 DEF Ended
    <3>6. CASE Redirected(f) \/ Answered(f) \/ Read(f)
      BY <3>6 DEF Redirected, Answered, Read
    <3> QED
      BY <2>5, <3>1, <3>2, <3>3, <3>4, <3>5, <3>6 DEF Step
  <2> QED
    BY <2>1, <2>2, <2>3, <2>4, <2>5 DEF Next
<1> QED
  BY TypeCorrect, <1>1, <1>2, PTL DEF Spec

-----------------------------------------------------------------------------
(* Connections.                                                            *)

\* A download that has asked nobody yet holds no connection.
IdleInv == \A f \in Fetches : at[f] \in {"new", "resolving"} => peer[f] = NoPeer

\* A connection is lost in one place only, the lookup of a redirect.
THEOREM ConnectionsComeBack == Spec => []LostOnlyInRedirect
<1>1. Init => IdleInv /\ LostOnlyInRedirect
  BY DEF Init, IdleInv, LostOnlyInRedirect, Ended
<1>2. TypeOK /\ IdleInv /\ LostOnlyInRedirect /\ [Next]_vars => IdleInv' /\ LostOnlyInRedirect'
  <2> SUFFICES ASSUME TypeOK, IdleInv, LostOnlyInRedirect, [Next]_vars
               PROVE  IdleInv' /\ LostOnlyInRedirect'
    OBVIOUS
  <2> USE DEF IdleInv, LostOnlyInRedirect, TypeOK, Ended, Waiting
  <2>1. CASE UNCHANGED vars
    BY <2>1 DEF vars
  <2>2. ASSUME NEW F \in SUBSET Fetches, Start(F) PROVE IdleInv' /\ LostOnlyInRedirect'
    BY <2>2 DEF Start
  <2>3. ASSUME NEW F \in SUBSET Fetches, Cancel(F) PROVE IdleInv' /\ LostOnlyInRedirect'
    BY <2>3 DEF Cancel
  <2>4. ASSUME NEW h \in Hosts, Rebind(h) PROVE IdleInv' /\ LostOnlyInRedirect'
    BY <2>4 DEF Rebind
  <2>5. ASSUME NEW f \in Fetches, Step(f) PROVE IdleInv' /\ LostOnlyInRedirect'
    <3>1. CASE Resolve(f) \/ Blocked(f) \/ FollowRefused(f)
      BY <3>1 DEF Resolve, Blocked, FollowRefused, End
    <3>2. CASE Send(f) \/ Redirected(f) \/ Answered(f) \/ Read(f)
      BY <3>2 DEF Send, Redirected, Answered, Read
    <3>3. CASE Follow(f)
      BY <3>3 DEF Follow, Close, End
    <3>4. CASE SendFails(f) \/ Settled(f) \/ Finish(f) \/ Break(f)
      BY <3>4 DEF SendFails, Settled, Finish, Break, Close, End
    <3> QED
      BY <2>5, <3>1, <3>2, <3>3, <3>4 DEF Step
  <2> QED
    BY <2>1, <2>2, <2>3, <2>4, <2>5 DEF Next
<1> QED
  BY TypeCorrect, <1>1, <1>2, PTL DEF Spec

-----------------------------------------------------------------------------
(* The ceiling.                                                            *)

\* However the body is cut into chunks, the document is its first MaxBytes
\* bytes, or all of it.
THEOREM CutAtCeiling == Spec => []CutOnlyAtCeiling
<1>1. Init => CutOnlyAtCeiling
  BY FetchAssumption DEF Init, CutOnlyAtCeiling
<1>2. TypeOK /\ CutOnlyAtCeiling /\ [Next]_vars => CutOnlyAtCeiling'
  <2> SUFFICES ASSUME TypeOK, CutOnlyAtCeiling, [Next]_vars
               PROVE  CutOnlyAtCeiling'
    OBVIOUS
  <2> USE FetchAssumption DEF CutOnlyAtCeiling, TypeOK
  <2>1. CASE UNCHANGED vars
    BY <2>1 DEF vars
  <2>2. ASSUME NEW F \in SUBSET Fetches, Start(F) PROVE CutOnlyAtCeiling'
    BY <2>2 DEF Start
  <2>3. ASSUME NEW F \in SUBSET Fetches, Cancel(F) PROVE CutOnlyAtCeiling'
    BY <2>3 DEF Cancel
  <2>4. ASSUME NEW h \in Hosts, Rebind(h) PROVE CutOnlyAtCeiling'
    BY <2>4 DEF Rebind
  <2>5. ASSUME NEW f \in Fetches, Step(f) PROVE CutOnlyAtCeiling'
    <3>1. CASE Resolve(f) \/ Blocked(f) \/ FollowRefused(f)
      BY <3>1 DEF Resolve, Blocked, FollowRefused, End
    <3>2. CASE Send(f) \/ Redirected(f) \/ Answered(f)
      BY <3>2 DEF Send, Redirected, Answered
    <3>3. CASE Follow(f)
      BY <3>3 DEF Follow, Close, End
    <3>4. CASE SendFails(f) \/ Settled(f) \/ Break(f)
      BY <3>4 DEF SendFails, Settled, Break, Close, End
    <3>5. CASE Read(f)
      BY <3>5 DEF Read
    <3>6. CASE Finish(f)
      BY <3>6 DEF Finish, Close, End
    <3> QED
      BY <2>5, <3>1, <3>2, <3>3, <3>4, <3>5, <3>6 DEF Step
  <2> QED
    BY <2>1, <2>2, <2>3, <2>4, <2>5 DEF Next
<1> QED
  BY TypeCorrect, <1>1, <1>2, PTL DEF Spec
-----------------------------------------------------------------------------
(* The requests that wait for the downloads.                               *)

\* Whatever requests do with their downloads is something downloads do: all
\* of the above holds of them.
THEOREM LoadingDownloads == LoadingSpec => Spec
<1>1. LoadingInit => Init
  BY DEF LoadingInit
<1>2. [LoadingNext]_loadVars => [Next]_vars
  <2> SUFFICES ASSUME [LoadingNext]_loadVars PROVE [Next]_vars
    OBVIOUS
  <2>1. CASE UNCHANGED loadVars
    BY <2>1 DEF loadVars
  <2>2. ASSUME NEW r \in Requests, Arrive(r) \/ Progress(r) \/ Abandon(r) PROVE [Next]_vars
    <3>1. CASE Launch(r)
      BY <3>1 DEF Launch, Next, Mine
    <3>2. CASE Abandon(r)
      BY <3>2 DEF Abandon, Next, Held, Mine
    <3>3. CASE Arrive(r) \/ Borrow(r) \/ Refuse(r) \/ Serve(r) \/ Raise(r)
      BY <3>3 DEF Arrive, Borrow, Refuse, Serve, Raise
    <3> QED
      BY <2>2, <3>1, <3>2, <3>3 DEF Progress
  <2>3. ASSUME NEW f \in Fetches, Download(f) PROVE [Next]_vars
    BY <2>3 DEF Download, Next
  <2>4. ASSUME NEW h \in Hosts, Rebind(h) PROVE [Next]_vars
    BY <2>4 DEF Next
  <2> QED
    BY <2>1, <2>2, <2>3, <2>4 DEF LoadingNext
<1> QED
  BY <1>1, <1>2, PTL DEF LoadingSpec, Spec

\* Requests that wait, too, keep their types.
THEOREM LoadingTypeCorrect == LoadingSpec => []LoadingTypeOK
<1> DEFINE PcOK == pc \in [Requests -> {"new", "queued", "planning", "loading"} \cup Over]
<1>1. LoadingInit => PcOK
  BY DEF LoadingInit
<1>2. PcOK /\ [LoadingNext]_loadVars => PcOK'
  BY DEF LoadingNext, loadVars, Arrive, Progress, Abandon, Borrow, Refuse, Launch, Serve, Raise,
         Become, Download, Over
<1>3. TypeOK /\ PcOK => LoadingTypeOK
  BY DEF LoadingTypeOK
<1> HIDE DEF PcOK
<1> QED
  BY LoadingDownloads, TypeCorrect, <1>1, <1>2, <1>3, PTL DEF LoadingSpec

\* Nothing is downloaded for a request that has not launched its downloads.
EarlyInv ==
  \A f \in Fetches : pc[Owner[f]] \in {"new", "queued", "planning"} => at[f] = "new"

\* A download goes from one place to another, never back to where no
\* download has been started, and stays where it ended.
LEMMA StepMoves ==
  ASSUME TypeOK, NEW f \in Fetches, Step(f)
  PROVE  /\ at[f] \in Waiting /\ at'[f] \in Waiting \cup Ended
         /\ \A g \in Fetches \ {f} : at'[g] = at[g]
<1> USE DEF TypeOK, Waiting, Ended, End
<1>1. CASE Resolve(f) \/ Send(f) \/ Redirected(f) \/ Answered(f) \/ Read(f)
  BY <1>1 DEF Resolve, Send, Redirected, Answered, Read
<1>2. CASE Blocked(f) \/ SendFails(f) \/ FollowRefused(f) \/ Break(f)
  BY <1>2 DEF Blocked, SendFails, FollowRefused, Break
<1>3. CASE Settled(f)
  BY <1>3 DEF Settled
<1>4. CASE Finish(f)
  BY <1>4 DEF Finish
<1>5. CASE Follow(f)
  BY <1>5 DEF Follow
<1> QED
  BY <1>1, <1>2, <1>3, <1>4, <1>5 DEF Step

\* Requests do not leave their downloads behind, but for those whose sibling
\* broke; and the others go on with every outcome there.
THEOREM DownloadsStayWithRequests ==
  LoadingSpec => []RequestsKeepTheirDownloads
<1> DEFINE Inv == EarlyInv /\ OrphansHaveABrokenSibling /\ ServedHasEverything
<1>1. LoadingInit => Inv
  BY DEF LoadingInit, Init, EarlyInv, OrphansHaveABrokenSibling, ServedHasEverything, Over, Waiting
<1>2. LoadingTypeOK /\ Inv /\ [LoadingNext]_loadVars => Inv'
  <2> SUFFICES ASSUME LoadingTypeOK, Inv, [LoadingNext]_loadVars PROVE Inv'
    OBVIOUS
  <2> USE LoadingAssumption DEF EarlyInv, OrphansHaveABrokenSibling, ServedHasEverything,
          LoadingTypeOK, Over, Mine
  <2>1. CASE UNCHANGED loadVars
    BY <2>1 DEF loadVars, vars
  <2>2. ASSUME NEW r \in Requests, Arrive(r) \/ Borrow(r) PROVE Inv'
    BY <2>2 DEF Arrive, Borrow, Become, vars
  <2>3. ASSUME NEW r \in Requests, Refuse(r) PROVE Inv'
    BY <2>3 DEF Refuse, Become, vars, Waiting
  <2>4. ASSUME NEW r \in Requests, Launch(r) PROVE Inv'
    <3>1. pc[r] = "planning" /\ pc' = [pc EXCEPT ![r] = "loading"]
      BY <2>4 DEF Launch, Become
    <3>2. \A f \in Fetches : at'[f] = IF Owner[f] = r THEN "resolving" ELSE at[f]
      BY <2>4 DEF Launch, Start
    <3> QED
      BY <3>1, <3>2 DEF Waiting, Ended, TypeOK
  <2>5. ASSUME NEW r \in Requests, Serve(r) PROVE Inv'
    BY <2>5 DEF Serve, Become, vars, Waiting, Ended
  <2>6. ASSUME NEW r \in Requests, Raise(r) PROVE Inv'
    BY <2>6 DEF Raise, Become, vars
  <2>7. ASSUME NEW r \in Requests, Abandon(r) PROVE Inv'
    <3>1. pc[r] \in {"planning", "loading"} /\ pc' = [pc EXCEPT ![r] = "failed"]
      BY <2>7 DEF Abandon, Holders, Become
    <3>2. \A f \in Fetches :
            at'[f] = IF Owner[f] = r /\ at[f] \in {"new"} \cup Waiting THEN "cancelled" ELSE at[f]
      BY <2>7 DEF Abandon, Cancel, Held
    <3> QED
      BY <3>1, <3>2 DEF Waiting, Ended
  <2>8. ASSUME NEW f \in Fetches, Download(f) PROVE Inv'
    <3>1. UNCHANGED pc
      BY <2>8 DEF Download
    <3>2. at[f] \in Waiting /\ at'[f] \in Waiting \cup Ended /\ \A g \in Fetches \ {f} : at'[g] = at[g]
      BY <2>8, StepMoves DEF Download
    <3> QED
      BY <3>1, <3>2 DEF Waiting, Ended
  <2>9. ASSUME NEW h \in Hosts, Rebind(h), UNCHANGED pc PROVE Inv'
    BY <2>9 DEF Rebind
  <2> QED
    BY <2>1, <2>2, <2>3, <2>4, <2>5, <2>6, <2>7, <2>8, <2>9 DEF LoadingNext, Progress
<1> QED
  BY LoadingTypeCorrect, <1>1, <1>2, PTL DEF LoadingSpec, RequestsKeepTheirDownloads
=============================================================================
