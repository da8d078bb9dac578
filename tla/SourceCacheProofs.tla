------------------------- MODULE SourceCacheProofs -------------------------
(***************************************************************************)
(* Proofs about SourceCache for any sources, requests of each kind, texts  *)
(* and number of loads a turn makes.                                       *)
(***************************************************************************)
EXTENDS SourceCache, TLAPS

-----------------------------------------------------------------------------
(* Types.                                                                  *)

LEMMA Constants ==
  /\ 1 \in Versions
  /\ [text |-> Published[1], tag |-> 1] \in Document
  /\ Nobody \notin Requests /\ Turns \subseteq Requests
<1>1. Len(Published) \in Nat /\ Len(Published) >= 1
  BY CacheAssumption
<1>2. 1 \in Versions
  BY <1>1 DEF Versions
<1>3. Published[1] \in Nat \ {0}
  BY <1>1, CacheAssumption
<1> QED
  BY <1>2, <1>3, CacheAssumption DEF Document, Requests

LEMMA ShownType ==
  ASSUME TypeOK, NEW s \in Sources
  PROVE  Shown(s) \in Document
<1>1. version[s] \in 1 .. Len(Published) /\ version[s] \in Versions
  BY DEF TypeOK, Versions
<1>2. Published[version[s]] \in Nat \ {0}
  BY <1>1, CacheAssumption
<1> QED
  BY <1>1, <1>2 DEF Shown, Document

LEMMA TypeInit == Init => TypeOK
<1> SUFFICES ASSUME Init PROVE TypeOK
  OBVIOUS
<1>1. version \in [Sources -> Versions]
  BY Constants DEF Init
<1>2. row \in [Sources -> Document \cup {Absent}]
  <2>1. row \in [Sources -> {Absent, [text |-> Published[1], tag |-> 1]}]
    BY DEF Init
  <2> QED
    BY <2>1, Constants
<1> QED
  BY <1>1, <1>2 DEF Init, TypeOK

\* An answer is one; 304 answers a request that named a validator.
ReplyInv ==
  \A r \in Requests, s \in Sources :
    stage[r][s] = "answered" =>
      /\ reply[r][s] # Absent
      /\ reply[r][s] = NotModified => plan[r][s] # Absent

LEMMA WrittenType ==
  ASSUME TypeOK, ReplyInv, NEW r \in Requests, NEW s \in Sources,
         stage[r][s] = "answered", reply[r][s] # Failed, Storable(r, s)
  PROVE  Written(r, s) \in Document
<1> DEFINE new == reply[r][s]
           old == plan[r][s]
           is == Visible(r, s)
<1>1. is \in Document \cup {Absent} /\ old \in Document \cup {Absent}
  BY DEF TypeOK, Visible
<1>2. new \in Document \cup {NotModified} /\ (new = NotModified => old # Absent)
  BY DEF TypeOK, ReplyInv
<1>3. CASE new = NotModified
  BY <1>1, <1>2, <1>3 DEF Written, Storable
<1>4. CASE new # NotModified /\ old = Absent
  BY <1>2, <1>4 DEF Written
<1>5. CASE new # NotModified /\ old # Absent
  <2>1. new \in Document /\ is \in Document
    BY <1>1, <1>2, <1>5 DEF Storable
  <2>2. Written(r, s) = [text |-> IF new.text = old.text THEN is.text ELSE new.text,
                         tag |-> IF new.tag = old.tag THEN is.tag ELSE new.tag]
    BY <1>5 DEF Written
  <2> QED
    BY <2>1, <2>2 DEF Document
<1> QED
  BY <1>3, <1>4, <1>5

LEMMA DiscardType ==
  ASSUME TypeOK, NEW r \in Requests, NEW end \in {"raised", "failed"}, Discard(r, end)
  PROVE  TypeOK'
  BY DEF TypeOK, Discard, Release, Forget

LEMMA RequestType ==
  ASSUME TypeOK, NEW r \in Requests,
         Arrive(r) \/ Progress(r) \/ Rerun(r) \/ Rollback(r),
         ReplyInv
  PROVE  TypeOK'
<1>1. CASE Arrive(r)
  BY <1>1 DEF Arrive, TypeOK, loading
<1>2. CASE Enter(r)
  BY <1>2 DEF Enter, TypeOK, loading
<1>3. CASE TurnedAway(r) \/ NotFound(r) \/ Rollback(r) \/ DeadlockVictim(r)
  BY <1>3, DiscardType DEF TurnedAway, NotFound, Rollback, DeadlockVictim
<1>4. CASE Begin(r)
  <2>1. PICK B \in Batches(r) :
          stage' = [stage EXCEPT ![r] = [s \in Sources |-> IF s \in B THEN "wanted" ELSE "no"]]
    BY <1>4 DEF Begin
  <2>2. stage' \in [Requests -> [Sources -> {"no", "wanted", "asked", "answered"}]]
    BY <2>1 DEF TypeOK
  <2> QED
    BY <1>4, <2>2 DEF Begin, TypeOK
<1>5. ASSUME NEW s \in Sources, Plan(r, s) PROVE TypeOK'
  <2>1. Planned(r, s) \in Document \cup {Absent}
    BY DEF Planned, Visible, TypeOK
  <2>2. stage' \in [Requests -> [Sources -> {"no", "wanted", "asked", "answered"}]]
    <3>1. CASE stage' = [stage EXCEPT ![r][s] = "no"]
      BY <3>1 DEF TypeOK
    <3>2. CASE stage' = [stage EXCEPT ![r][s] = "asked"]
      BY <3>2 DEF TypeOK
    <3> QED
      BY <1>5, <3>1, <3>2 DEF Plan
  <2>3. plan' \in [Requests -> [Sources -> Document \cup {Absent}]]
    BY <1>5, <2>1 DEF Plan, TypeOK
  <2> QED
    BY <1>5, <2>2, <2>3 DEF Plan, TypeOK
<1>6. ASSUME NEW s \in Sources, Fetch(r, s) PROVE TypeOK'
  BY <1>6, ShownType DEF Fetch, TypeOK
<1>7. ASSUME NEW s \in Sources, FetchBreaks(r, s) PROVE TypeOK'
  BY <1>7 DEF FetchBreaks, Forget, TypeOK
<1>8. ASSUME NEW s \in Sources, Store(r, s) PROVE TypeOK'
  <2>1. stage' \in [Requests -> [Sources -> {"no", "wanted", "asked", "answered"}]]
    BY <1>8 DEF Store, TypeOK
  <2>2. CASE UNCHANGED <<writer, draft, object>>
    BY <1>8, <2>1, <2>2 DEF Store, TypeOK
  <2>3. CASE /\ reply[r][s] # Failed /\ CanWrite(r, s) /\ Storable(r, s)
             /\ writer' = [writer EXCEPT ![s] = r]
             /\ draft' = [draft EXCEPT ![s] = Written(r, s)]
             /\ object' = [object EXCEPT ![r][s] =
                  IF @ = Absent \/ reply[r][s] = NotModified THEN @ ELSE reply[r][s]]
    <3>1. Written(r, s) \in Document
      BY <1>8, <2>3, WrittenType DEF Store, Storing, IsNext
    <3>2. writer' \in [Sources -> Requests \cup {Nobody}]
          /\ draft' \in [Sources -> Document \cup {Absent}]
      BY <2>3, <3>1 DEF TypeOK
    <3>3. object' \in [Requests -> [Sources -> Document \cup {Absent}]]
      BY <2>3 DEF TypeOK
    <3> QED
      BY <1>8, <2>1, <3>2, <3>3 DEF Store, TypeOK
  <2> QED
    BY <1>8, <2>2, <2>3 DEF Store
<1>9. ASSUME NEW s \in Sources, StoreRaises(r, s) PROVE TypeOK'
  BY <1>9, DiscardType DEF StoreRaises
<1>10. CASE Rerun(r)
  BY <1>10 DEF Rerun, TypeOK
<1>11. CASE Commit(r)
  <2>1. row' \in [Sources -> Document \cup {Absent}]
    BY <1>11 DEF Commit, TypeOK
  <2>2. /\ writer' \in [Sources -> Requests \cup {Nobody}]
        /\ draft' \in [Sources -> Document \cup {Absent}]
    BY <1>11 DEF Commit, Release, TypeOK
  <2> QED
    BY <1>11, <2>1, <2>2 DEF Commit, Forget, TypeOK
<1> QED
  BY <1>1, <1>2, <1>3, <1>4, <1>5, <1>6, <1>7, <1>8, <1>9, <1>10, <1>11 DEF Progress

LEMMA TypeStep ==
  ASSUME TypeOK, ReplyInv, [Next]_vars
  PROVE  TypeOK'
<1>1. ASSUME NEW s \in Sources, Edit(s) PROVE TypeOK'
  BY <1>1 DEF Edit, TypeOK, loading, Versions
<1>2. ASSUME NEW s \in Sources, Remove(s) PROVE TypeOK'
  BY <1>2 DEF Remove, TypeOK, loading
<1>3. CASE UNCHANGED vars
  BY <1>3 DEF vars, loading, TypeOK
<1> QED
  BY <1>1, <1>2, <1>3, RequestType DEF Next

\* What forgetting a batch does to the stages of all.
LEMMA Forgotten ==
  ASSUME TypeOK, NEW q \in Requests, Forget(q), NEW r \in Requests, NEW s \in Sources
  PROVE  /\ q = r => stage'[r][s] = "no"
         /\ q # r => /\ stage'[r][s] = stage[r][s]
                     /\ reply'[r][s] = reply[r][s]
                     /\ plan'[r][s] = plan[r][s]
<1>1. CASE q = r
  BY <1>1 DEF Forget, TypeOK
<1>2. CASE q # r
  BY <1>2 DEF Forget, TypeOK
<1> QED
  BY <1>1, <1>2

\* Beginning a batch answers nothing.
LEMMA Begun ==
  ASSUME TypeOK, NEW q \in Requests, Begin(q) \/ Rerun(q), NEW r \in Requests, NEW s \in Sources
  PROVE  /\ q = r => stage'[r][s] \in {"no", "wanted"}
         /\ q # r => stage'[r][s] = stage[r][s]
         /\ reply' = reply /\ plan' = plan
<1>1. PICK B \in SUBSET Sources :
        stage' = [stage EXCEPT ![q] = [t \in Sources |-> IF t \in B THEN "wanted" ELSE "no"]]
  <2>1. CASE Begin(q)
    <3>1. \A B \in Batches(q) : B \in SUBSET Sources
      BY DEF Batches, TypeOK
    <3> QED
      BY <2>1, <3>1 DEF Begin
  <2>2. CASE Rerun(q)
    BY <2>2 DEF Rerun, TypeOK
  <2> QED
    BY <2>1, <2>2
<1>2. reply' = reply /\ plan' = plan
  BY DEF Begin, Rerun
<1>3. CASE q = r
  BY <1>1, <1>2, <1>3 DEF TypeOK
<1>4. CASE q # r
  BY <1>1, <1>2, <1>4 DEF TypeOK
<1> QED
  BY <1>3, <1>4, <1>2

LEMMA ReplyStep ==
  ASSUME TypeOK, ReplyInv, [Next]_vars
  PROVE  ReplyInv'
<1> SUFFICES ASSUME NEW r \in Requests, NEW s \in Sources, stage'[r][s] = "answered"
             PROVE  reply'[r][s] # Absent /\ (reply'[r][s] = NotModified => plan'[r][s] # Absent)
  BY DEF ReplyInv
<1>0. ASSUME stage[r][s] = "answered", reply'[r][s] = reply[r][s], plan'[r][s] = plan[r][s]
      PROVE  reply'[r][s] # Absent /\ (reply'[r][s] = NotModified => plan'[r][s] # Absent)
  BY <1>0 DEF ReplyInv
<1>1. ASSUME NEW q \in Requests, Discard(q, "failed") \/ Discard(q, "raised")
      PROVE  stage[r][s] = "answered" /\ reply'[r][s] = reply[r][s] /\ plan'[r][s] = plan[r][s]
  BY <1>1, Forgotten DEF Discard
<1>2. ASSUME NEW q \in Requests, Arrive(q) \/ Enter(q) \/ Begin(q) \/ Rerun(q) \/ Commit(q)
      PROVE  stage[r][s] = "answered" /\ reply'[r][s] = reply[r][s] /\ plan'[r][s] = plan[r][s]
  BY <1>2, Begun, Forgotten DEF Arrive, Enter, Commit, loading
<1>3. ASSUME NEW q \in Requests, NEW t \in Sources, Plan(q, t) \/ FetchBreaks(q, t) \/ Store(q, t)
      PROVE  stage[r][s] = "answered" /\ reply'[r][s] = reply[r][s] /\ plan'[r][s] = plan[r][s]
  <2>1. CASE FetchBreaks(q, t)
    BY <2>1, Forgotten DEF FetchBreaks
  <2>2. CASE Store(q, t)
    BY <2>2 DEF Store, TypeOK
  <2>3. CASE Plan(q, t)
    <3>1. CASE q = r /\ t = s
      BY <2>3, <3>1 DEF Plan, TypeOK
    <3>2. CASE ~(q = r /\ t = s)
      BY <2>3, <3>2 DEF Plan, TypeOK
    <3> QED
      BY <3>1, <3>2
  <2> QED
    BY <1>3, <2>1, <2>2, <2>3
<1>4. ASSUME NEW q \in Requests, NEW t \in Sources, Fetch(q, t)
      PROVE  reply'[r][s] # Absent /\ (reply'[r][s] = NotModified => plan'[r][s] # Absent)
  <2>1. CASE q = r /\ t = s
    <3>1. reply'[r][s] \in {Failed, IF plan[r][s].tag = version[s] THEN NotModified ELSE Shown(s)}
          /\ plan'[r][s] = plan[r][s]
      BY <1>4, <2>1 DEF Fetch, TypeOK
    <3>2. Shown(s) \in Document /\ version[s] # 0
      BY ShownType DEF TypeOK, Versions
    <3>3. plan[r][s] = Absent => plan[r][s].tag = 0
      BY DEF Absent
    <3> QED
      BY <3>1, <3>2, <3>3 DEF Document, Absent, Failed, NotModified
  <2>2. CASE ~(q = r /\ t = s)
    BY <1>0, <1>4, <2>2 DEF Fetch, TypeOK
  <2> QED
    BY <2>1, <2>2
<1>5. ASSUME NEW t \in Sources, Edit(t) \/ Remove(t)
      PROVE  stage[r][s] = "answered" /\ reply'[r][s] = reply[r][s] /\ plan'[r][s] = plan[r][s]
  BY <1>5 DEF Edit, Remove, loading
<1>6. CASE UNCHANGED vars
  BY <1>0, <1>6 DEF vars, loading
<1> QED
  BY <1>0, <1>1, <1>2, <1>3, <1>4, <1>5, <1>6
  DEF Next, Progress, TurnedAway, NotFound, Rollback, DeadlockVictim, StoreRaises

\* Every variable keeps its type; a 304 only ever answers a request that had
\* a document to ask about.
THEOREM TypeCorrect == Spec => [](TypeOK /\ ReplyInv)
<1>1. Init => ReplyInv
  BY DEF Init, ReplyInv
<1> QED
  BY <1>1, TypeInit, TypeStep, ReplyStep, PTL DEF Spec

-----------------------------------------------------------------------------
(* A row's text and its validator belong together.                         *)

\* No origin ever shows a text again under another validator.
NeverTakenBack ==
  \A i \in Versions, j \in Versions : Published[i] = Published[j] => i = j

Right(d) == d \in Document => d.text = Published[d.tag]

RightInv ==
  /\ \A s \in Sources : Right(row[s]) /\ Right(draft[s])
  /\ \A r \in Requests, s \in Sources :
       Right(object[r][s]) /\ Right(plan[r][s]) /\ Right(reply[r][s])

LEMMA NothingIsRight == Right(Absent) /\ Right(Failed) /\ Right(NotModified)
  BY DEF Right, Document, Absent, Failed, NotModified

LEMMA ShownRight ==
  ASSUME TypeOK, NEW s \in Sources
  PROVE  Right(Shown(s))
  BY DEF Right, Shown

LEMMA WrittenRight ==
  ASSUME NeverTakenBack, TypeOK, ReplyInv, RightInv,
         NEW r \in Requests, NEW s \in Sources,
         stage[r][s] = "answered", reply[r][s] # Failed, Storable(r, s)
  PROVE  Right(Written(r, s))
<1> DEFINE new == reply[r][s]
           old == plan[r][s]
           is == Visible(r, s)
<1>1. is \in Document \cup {Absent} /\ old \in Document \cup {Absent}
  BY DEF TypeOK, Visible
<1>2. new \in Document \cup {NotModified} /\ (new = NotModified => old # Absent)
  BY DEF TypeOK, ReplyInv
<1>3. Right(is) /\ Right(old) /\ Right(new)
  BY DEF RightInv, Visible
<1>4. CASE new = NotModified
  BY <1>3, <1>4 DEF Written
<1>5. CASE new # NotModified /\ old = Absent
  BY <1>3, <1>5 DEF Written
<1>6. CASE new # NotModified /\ old # Absent
  <2>1. new \in Document /\ is \in Document /\ old \in Document
    BY <1>1, <1>2, <1>6 DEF Storable
  <2>2. new.text = old.text <=> new.tag = old.tag
    <3>1. new.text = Published[new.tag] /\ old.text = Published[old.tag]
          /\ new.tag \in Versions /\ old.tag \in Versions
      BY <1>3, <2>1 DEF Right, Document
    <3> QED
      BY <3>1 DEF NeverTakenBack
  <2>3. Written(r, s) = [text |-> IF new.text = old.text THEN is.text ELSE new.text,
                         tag |-> IF new.tag = old.tag THEN is.tag ELSE new.tag]
    BY <1>6 DEF Written
  <2>4. Written(r, s).text = (IF new.text = old.text THEN is.text ELSE new.text)
        /\ Written(r, s).tag = (IF new.text = old.text THEN is.tag ELSE new.tag)
    BY <2>2, <2>3
  <2> QED
    BY <1>3, <2>1, <2>4 DEF Right
<1> QED
  BY <1>4, <1>5, <1>6

LEMMA DiscardRight ==
  ASSUME TypeOK, RightInv, NEW q \in Requests, NEW end, Discard(q, end)
  PROVE  RightInv'
<1>1. ASSUME NEW s \in Sources PROVE Right(row[s])' /\ Right(draft[s])'
  BY <1>1, NothingIsRight DEF Discard, Release, RightInv, TypeOK, Right
<1>2. ASSUME NEW r \in Requests, NEW s \in Sources
      PROVE  Right(object[r][s])' /\ Right(plan[r][s])' /\ Right(reply[r][s])'
  <2>1. CASE q = r
    <3>1. object'[r][s] = Absent /\ plan'[r][s] = Absent /\ reply'[r][s] = Absent
      BY <2>1 DEF Discard, Forget, TypeOK
    <3> QED
      BY <3>1, NothingIsRight DEF Right
  <2>2. CASE q # r
    <3>1. object'[r][s] = object[r][s] /\ plan'[r][s] = plan[r][s] /\ reply'[r][s] = reply[r][s]
      BY <2>2 DEF Discard, Forget, TypeOK
    <3> QED
      BY <3>1 DEF RightInv, Right
  <2> QED
    BY <2>1, <2>2
<1> QED
  BY <1>1, <1>2 DEF RightInv

LEMMA RightStep ==
  ASSUME NeverTakenBack, TypeOK, ReplyInv, RightInv, [Next]_vars
  PROVE  RightInv'
<1>1. ASSUME NEW q \in Requests, Arrive(q) PROVE RightInv'
  <2>1. ASSUME NEW r \in Requests, NEW s \in Sources PROVE Right(object'[r][s])
    <3>1. object'[r][s] \in {object[r][s], row[s], Absent}
      BY <1>1 DEF Arrive, TypeOK
    <3> QED
      BY <3>1, NothingIsRight DEF RightInv
  <2> QED
    BY <1>1, <2>1 DEF Arrive, RightInv, Right, loading
<1>2. ASSUME NEW q \in Requests, Enter(q) PROVE RightInv'
  BY <1>2 DEF Enter, RightInv, Right, loading
<1>3. ASSUME NEW q \in Requests, Begin(q) \/ Rerun(q) PROVE RightInv'
  BY <1>3 DEF Begin, Rerun, RightInv, Right
<1>4. ASSUME NEW q \in Requests, NEW t \in Sources, Plan(q, t) PROVE RightInv'
  <2>1. ASSUME NEW r \in Requests, NEW s \in Sources PROVE Right(plan'[r][s])
    <3>1. plan'[r][s] \in {plan[r][s], object[q][t], draft[t], row[t]}
      BY <1>4 DEF Plan, Planned, Visible, TypeOK
    <3> QED
      BY <3>1 DEF RightInv
  <2> QED
    BY <1>4, <2>1 DEF Plan, RightInv, Right
<1>5. ASSUME NEW q \in Requests, NEW t \in Sources, Fetch(q, t) PROVE RightInv'
  <2>1. ASSUME NEW r \in Requests, NEW s \in Sources PROVE Right(reply'[r][s])
    <3>1. reply'[r][s] \in {reply[r][s], Failed, NotModified, Shown(t)}
      BY <1>5 DEF Fetch, TypeOK
    <3> QED
      BY <3>1, NothingIsRight, ShownRight DEF RightInv
  <2> QED
    BY <1>5, <2>1 DEF Fetch, RightInv, Right
<1>6. ASSUME NEW q \in Requests, NEW t \in Sources, FetchBreaks(q, t) PROVE RightInv'
  <2>1. ASSUME NEW r \in Requests, NEW s \in Sources
        PROVE  Right(plan'[r][s]) /\ Right(reply'[r][s])
    <3>1. plan'[r][s] \in {plan[r][s], Absent} /\ reply'[r][s] \in {reply[r][s], Absent}
      BY <1>6 DEF FetchBreaks, Forget, TypeOK
    <3> QED
      BY <3>1, NothingIsRight DEF RightInv
  <2> QED
    BY <1>6, <2>1 DEF FetchBreaks, RightInv, Right
<1>7. ASSUME NEW q \in Requests, NEW t \in Sources, Store(q, t) PROVE RightInv'
  <2>1. CASE UNCHANGED <<writer, draft, object>>
    BY <1>7, <2>1 DEF Store, RightInv, Right
  <2>2. CASE /\ reply[q][t] # Failed /\ CanWrite(q, t) /\ Storable(q, t)
             /\ writer' = [writer EXCEPT ![t] = q]
             /\ draft' = [draft EXCEPT ![t] = Written(q, t)]
             /\ object' = [object EXCEPT ![q][t] =
                  IF @ = Absent \/ reply[q][t] = NotModified THEN @ ELSE reply[q][t]]
    <3>1. Right(Written(q, t))
      BY <1>7, <2>2, WrittenRight DEF Store, Storing, IsNext
    <3>2. ASSUME NEW s \in Sources PROVE Right(draft'[s])
      <4>1. draft'[s] \in {draft[s], Written(q, t)}
        BY <2>2 DEF TypeOK
      <4> QED
        BY <3>1, <4>1 DEF RightInv
    <3>3. ASSUME NEW r \in Requests, NEW s \in Sources PROVE Right(object'[r][s])
      <4>1. object'[r][s] \in {object[r][s], reply[q][t]}
        BY <2>2 DEF TypeOK
      <4> QED
        BY <4>1 DEF RightInv
    <3> QED
      BY <1>7, <3>2, <3>3 DEF Store, RightInv, Right
  <2> QED
    BY <1>7, <2>1, <2>2 DEF Store
<1>8. ASSUME NEW q \in Requests,
             TurnedAway(q) \/ NotFound(q) \/ Rollback(q) \/ DeadlockVictim(q)
               \/ \E t \in Sources : StoreRaises(q, t)
      PROVE  RightInv'
  BY <1>8, DiscardRight DEF TurnedAway, NotFound, Rollback, DeadlockVictim, StoreRaises
<1>9. ASSUME NEW q \in Requests, Commit(q) PROVE RightInv'
  <2>1. ASSUME NEW s \in Sources PROVE Right(row'[s]) /\ Right(draft'[s])
    <3>1. row'[s] \in {row[s], draft[s]} /\ draft'[s] \in {draft[s], Absent}
      BY <1>9 DEF Commit, Release, TypeOK
    <3> QED
      BY <3>1, NothingIsRight DEF RightInv
  <2>2. ASSUME NEW r \in Requests, NEW s \in Sources
        PROVE  Right(object'[r][s]) /\ Right(plan'[r][s]) /\ Right(reply'[r][s])
    <3>1. /\ object'[r][s] \in {object[r][s], Absent}
          /\ plan'[r][s] \in {plan[r][s], Absent} /\ reply'[r][s] \in {reply[r][s], Absent}
      BY <1>9 DEF Commit, Forget, TypeOK
    <3> QED
      BY <3>1, NothingIsRight DEF RightInv
  <2> QED
    BY <2>1, <2>2 DEF RightInv, Right
<1>10. ASSUME NEW t \in Sources, Edit(t) PROVE RightInv'
  BY <1>10 DEF Edit, RightInv, Right, loading
<1>11. ASSUME NEW t \in Sources, Remove(t) PROVE RightInv'
  <2>1. ASSUME NEW s \in Sources PROVE Right(row'[s])
    <3>1. row'[s] \in {row[s], Absent}
      BY <1>11 DEF Remove, TypeOK
    <3> QED
      BY <3>1, NothingIsRight DEF RightInv
  <2> QED
    BY <1>11, <2>1 DEF Remove, RightInv, Right, loading
<1>12. CASE UNCHANGED vars
  BY <1>12 DEF vars, loading, RightInv, Right
<1> QED
  BY <1>1, <1>2, <1>3, <1>4, <1>5, <1>6, <1>7, <1>8, <1>9, <1>10, <1>11, <1>12
  DEF Next, Progress

\* If no origin takes an edit back, the text of a row is the one its
\* validator names, whichever writes of concurrent requests it is made of.
THEOREM RowsAreCoherent ==
  ASSUME NeverTakenBack
  PROVE  Spec => []Coherent
<1>1. Init => RightInv
  <2> SUFFICES ASSUME Init PROVE RightInv
    OBVIOUS
  <2>1. ASSUME NEW s \in Sources PROVE Right(row[s])
    <3>1. row[s] \in {Absent, [text |-> Published[1], tag |-> 1]}
      BY DEF Init
    <3> QED
      BY <3>1, NothingIsRight DEF Right
  <2> QED
    BY <2>1, NothingIsRight DEF Init, RightInv
<1>2. TypeOK /\ ReplyInv /\ RightInv /\ [Next]_vars => RightInv'
  BY RightStep
<1>3. TypeOK /\ RightInv => Coherent
  BY DEF TypeOK, RightInv, Right, Coherent
<1> QED
  BY <1>1, <1>2, <1>3, TypeCorrect, PTL DEF Spec

-----------------------------------------------------------------------------
(* The catalogue's order keeps its readers from deadlock.                  *)

\* A request that is still at its first batch has written only sources that
\* come before all those it has yet to store.
UpwardInv ==
  /\ \A r \in Requests, s \in Sources :
       (writer[s] = r \/ stage[r][s] # "no") => batches[r] > 0
  /\ \A r \in Requests, s \in Sources, t \in Sources :
       writer[s] = r /\ batches[r] <= 1 /\ stage[r][t] # "no" => s < t

\* An ending transaction only takes locks and stages away.
LEMMA LettingGo ==
  ASSUME TypeOK, UpwardInv, batches' = batches, NEW q \in Requests, Forget(q),
         \/ Release(q)
         \/ UNCHANGED writer
  PROVE  UpwardInv'
<1>1. \A s \in Sources, r \in Requests : writer'[s] = r => writer[s] = r
  BY Constants DEF Release, TypeOK
<1>2. \A r \in Requests, s \in Sources : stage'[r][s] # "no" => stage'[r][s] = stage[r][s]
  BY Forgotten
<1> QED
  BY <1>1, <1>2 DEF UpwardInv

LEMMA UpwardStep ==
  ASSUME TypeOK, UpwardInv, [Next]_vars
  PROVE  UpwardInv'
<1>1. ASSUME NEW q \in Requests, Arrive(q) \/ Enter(q) PROVE UpwardInv'
  BY <1>1 DEF Arrive, Enter, UpwardInv, loading
<1>2. ASSUME NEW q \in Requests, Begin(q) \/ Rerun(q) PROVE UpwardInv'
  <2>1. writer' = writer /\ batches' = [batches EXCEPT ![q] = @ + 1]
    BY <1>2 DEF Begin, Rerun
  <2>2. batches[q] \in Nat /\ batches'[q] = batches[q] + 1
    BY <2>1 DEF TypeOK
  <2>3. ASSUME NEW r \in Requests, NEW s \in Sources, writer'[s] = r \/ stage'[r][s] # "no"
        PROVE  batches'[r] > 0
    <3>1. CASE r = q
      BY <2>2, <3>1
    <3>2. CASE r # q
      BY <1>2, <2>1, <2>3, <3>2, Begun DEF UpwardInv, TypeOK
    <3> QED
      BY <3>1, <3>2
  <2>4. ASSUME NEW r \in Requests, NEW s \in Sources, NEW t \in Sources,
               writer'[s] = r, batches'[r] <= 1, stage'[r][t] # "no"
        PROVE  s < t
    <3>1. CASE r = q
      \* It wrote, so it had begun a batch before this one.
      BY <2>1, <2>2, <2>4, <3>1 DEF UpwardInv
    <3>2. CASE r # q
      BY <1>2, <2>1, <2>4, <3>2, Begun DEF UpwardInv, TypeOK
    <3> QED
      BY <3>1, <3>2
  <2> QED
    BY <2>3, <2>4 DEF UpwardInv
<1>3. ASSUME NEW q \in Requests, NEW u \in Sources, Plan(q, u) \/ Fetch(q, u) PROVE UpwardInv'
  <2>1. writer' = writer /\ batches' = batches
    BY <1>3 DEF Plan, Fetch
  <2>2. ASSUME NEW r \in Requests, NEW s \in Sources, stage'[r][s] # "no"
        PROVE  stage[r][s] # "no"
    <3>1. CASE r = q /\ s = u
      BY <1>3, <3>1 DEF Plan, IsNext, Fetch, Asking
    <3>2. CASE ~(r = q /\ s = u)
      <4>1. stage'[r][s] = stage[r][s]
        BY <1>3, <3>2 DEF Plan, Fetch, TypeOK
      <4> QED
        BY <2>2, <4>1
    <3> QED
      BY <3>1, <3>2
  <2> QED
    BY <2>1, <2>2 DEF UpwardInv
<1>4. ASSUME NEW q \in Requests, NEW u \in Sources, FetchBreaks(q, u) PROVE UpwardInv'
  BY <1>4, LettingGo DEF FetchBreaks
<1>5. ASSUME NEW q \in Requests, NEW u \in Sources, Store(q, u) PROVE UpwardInv'
  <2>1. /\ batches' = batches /\ stage[q][u] = "answered"
        /\ \A t \in Sources : t < u => stage[q][t] # "answered"
        /\ \A t \in Sources : stage[q][t] \notin {"wanted", "asked"}
    BY <1>5 DEF Store, Storing, IsNext
  <2>2. /\ stage'[q][u] = "no"
        /\ \A r \in Requests, s \in Sources : stage'[r][s] # "no" => stage'[r][s] = stage[r][s]
    BY <1>5 DEF Store, TypeOK
  <2>3. ASSUME NEW s \in Sources, NEW r \in Requests, writer'[s] = r
        PROVE  writer[s] = r \/ (r = q /\ s = u)
    BY <1>5, <2>3 DEF Store, TypeOK
  <2>4. ASSUME NEW t \in Sources, stage'[q][t] # "no" PROVE u < t
    <3>1. stage[q][t] = "answered" /\ t # u
      BY <2>1, <2>2, <2>4 DEF TypeOK
    <3> QED
      BY <2>1, <3>1, CacheAssumption
  <2> QED
    BY <2>1, <2>2, <2>3, <2>4 DEF UpwardInv
<1>6. ASSUME NEW q \in Requests, NEW end, Discard(q, end) PROVE UpwardInv'
  BY <1>6, LettingGo DEF Discard
<1>7. ASSUME NEW q \in Requests, Commit(q) PROVE UpwardInv'
  BY <1>7, LettingGo DEF Commit
<1>8. ASSUME NEW u \in Sources, Edit(u) \/ Remove(u) PROVE UpwardInv'
  BY <1>8 DEF Edit, Remove, UpwardInv, loading
<1>9. CASE UNCHANGED vars
  BY <1>9 DEF vars, loading, UpwardInv
<1> QED
  BY <1>1, <1>2, <1>3, <1>4, <1>5, <1>6, <1>7, <1>8, <1>9
  DEF Next, Progress, TurnedAway, NotFound, Rollback, DeadlockVictim, StoreRaises

\* Two requests at their first catalogue never wait for each other: load_many
\* stores in the order of created_at, so each waits above all it has locked.
THEOREM FirstCataloguesNeverDeadlock == Spec => []CatalogueNeverDeadlocks
<1>1. Init => UpwardInv
  BY Constants DEF Init, UpwardInv
<1>2. TypeOK /\ UpwardInv /\ [Next]_vars => UpwardInv'
  BY UpwardStep
<1>3. TypeOK /\ UpwardInv => CatalogueNeverDeadlocks
  <2> SUFFICES ASSUME TypeOK, UpwardInv, NEW r \in Requests, NEW q \in Requests,
                      Awaits(r, q), Awaits(q, r), ~(batches[r] > 1), ~(batches[q] > 1)
               PROVE  FALSE
    BY DEF CatalogueNeverDeadlocks
  <2>0. batches[r] <= 1 /\ batches[q] <= 1
    BY DEF TypeOK
  <2>1. PICK s \in Sources : stage[r][s] = "answered" /\ writer[s] = q
    BY DEF Awaits, Storing, IsNext
  <2>2. PICK t \in Sources : stage[q][t] = "answered" /\ writer[t] = r
    BY DEF Awaits, Storing, IsNext
  <2>3. s < t /\ t < s
    BY <2>0, <2>1, <2>2 DEF UpwardInv
  <2> QED
    BY <2>3, CacheAssumption
<1> QED
  BY <1>1, <1>2, <1>3, TypeCorrect, PTL DEF Spec

-----------------------------------------------------------------------------
(* On SQLite, turns alone.                                                 *)

\* One write lock, no request but chat turns, no source that goes away and
\* no body that breaks off.
OnlyTurnsOnSqlite ==
  WholeDb /\ ~Breaks /\ Statuses = {} /\ Refreshes = {} /\ Removable = {}

\* The turn that loads is alone in the database.
AloneInv ==
  /\ \A r \in Requests : pc[r] \in {"new", "arrived", "loading", "done", "failed"}
  /\ \A r \in Requests, q \in Requests : pc[r] = "loading" /\ pc[q] = "loading" => r = q
  /\ \A r \in Requests, s \in Sources :
       (writer[s] = r \/ stage[r][s] # "no") => pc[r] = "loading"

\* What it planned with agrees with what it finds when it stores.
PlanInv ==
  /\ listed = Sources
  /\ \A s \in Sources : writer[s] # Nobody => draft[s] # Absent
  /\ \A r \in Requests, s \in Sources :
       /\ object[r][s] # Absent => row[s] # Absent
       /\ stage[r][s] \in {"asked", "answered"} =>
            (plan[r][s] = Absent <=> Visible(r, s) = Absent)

\* What it downloads is not older than what it finds.
NewerInv ==
  /\ \A s \in Sources :
       /\ row[s].tag <= version[s] /\ draft[s].tag <= version[s]
       /\ writer[s] # Nobody => row[s].tag <= draft[s].tag
  /\ \A r \in Requests, s \in Sources :
       stage[r][s] = "answered" /\ reply[r][s] \notin {Failed, NotModified}
         => Visible(r, s).tag <= reply[r][s].tag /\ reply[r][s].tag <= version[s]

LEMMA TagOf ==
  ASSUME NEW d \in Document \cup {Absent}
  PROVE  d.tag \in Nat
<1>1. CASE d \in Document
  <2>1. d.tag \in Versions
    BY <1>1 DEF Document
  <2>2. Len(Published) \in Nat
    BY CacheAssumption
  <2> QED
    BY <2>1, <2>2 DEF Versions
<1>2. CASE d = Absent
  BY <1>2 DEF Absent
<1> QED
  BY <1>1, <1>2

LEMMA Tags ==
  ASSUME TypeOK, NEW s \in Sources
  PROVE  version[s] \in Nat /\ row[s].tag \in Nat /\ draft[s].tag \in Nat
<1>1. version[s] \in Nat
  <2>1. version[s] \in Versions /\ Len(Published) \in Nat
    BY CacheAssumption DEF TypeOK
  <2> QED
    BY <2>1 DEF Versions
<1>2. row[s] \in Document \cup {Absent} /\ draft[s] \in Document \cup {Absent}
  BY DEF TypeOK
<1> QED
  BY <1>1, <1>2, TagOf

LEMMA OnlyTurns ==
  ASSUME OnlyTurnsOnSqlite
  PROVE  Requests = Turns
  BY DEF OnlyTurnsOnSqlite, Requests

\* A row that is to be stored is there for UPDATE and free for INSERT.
LEMMA StorableAlone ==
  ASSUME OnlyTurnsOnSqlite, AloneInv, PlanInv, NEW r \in Requests, NEW s \in Sources,
         stage[r][s] = "answered"
  PROVE  CanWrite(r, s) /\ Storable(r, s)
<1>1. pc[r] = "loading"
  BY DEF AloneInv
<1>2. ASSUME NEW q \in Requests \ {r} PROVE ~Holds(q)
  BY <1>1, <1>2 DEF AloneInv, Holds
<1>3. CanWrite(r, s)
  BY <1>2 DEF CanWrite, DbFreeFor, OnlyTurnsOnSqlite
<1> QED
  BY <1>3 DEF PlanInv, Storable

LEMMA AloneStep ==
  ASSUME OnlyTurnsOnSqlite, TypeOK, AloneInv, PlanInv, [Next]_vars
  PROVE  AloneInv'
<1>1. ASSUME NEW q \in Requests, Arrive(q) PROVE AloneInv'
  BY <1>1 DEF Arrive, AloneInv, TypeOK, loading
<1>2. ASSUME NEW q \in Requests, Enter(q) PROVE AloneInv'
  <2>1. \A r \in Requests \ {q} : pc[r] # "loading"
    BY <1>2, OnlyTurns DEF Enter, OnlyTurnsOnSqlite, DbFreeFor, Holds
  <2> QED
    BY <1>2, <2>1 DEF Enter, AloneInv, TypeOK, loading
<1>3. ASSUME NEW q \in Requests, Begin(q) \/ Rerun(q) PROVE AloneInv'
  <2>1. pc[q] = "loading" /\ pc' = pc /\ writer' = writer
    BY <1>3 DEF Begin, Loaded, Rerun, AloneInv
  <2> QED
    BY <1>3, <2>1, Begun DEF AloneInv
<1>4. ASSUME NEW q \in Requests, NEW u \in Sources, Plan(q, u) \/ Fetch(q, u) PROVE AloneInv'
  <2>1. pc[q] = "loading" /\ pc' = pc /\ writer' = writer
    BY <1>4 DEF Plan, IsNext, Fetch, Asking
  <2>2. ASSUME NEW r \in Requests, NEW s \in Sources, r # q PROVE stage'[r][s] = stage[r][s]
    BY <1>4, <2>2 DEF Plan, Fetch, TypeOK
  <2> QED
    BY <2>1, <2>2 DEF AloneInv
<1>5. ASSUME NEW q \in Requests, NEW u \in Sources, FetchBreaks(q, u) PROVE FALSE
  BY <1>5 DEF FetchBreaks, OnlyTurnsOnSqlite
<1>6. ASSUME NEW q \in Requests, NEW u \in Sources, Store(q, u) PROVE AloneInv'
  <2>1. pc[q] = "loading" /\ pc' = pc
    BY <1>6 DEF Store, Storing, IsNext
  <2>2. ASSUME NEW r \in Requests, NEW s \in Sources, r # q
        PROVE  stage'[r][s] = stage[r][s] /\ (writer'[s] = r => writer[s] = r)
    BY <1>6, <2>2 DEF Store, TypeOK
  <2> QED
    BY <2>1, <2>2 DEF AloneInv
<1>7. ASSUME NEW q \in Requests, NEW u \in Sources, StoreRaises(q, u) PROVE FALSE
  BY <1>7, StorableAlone DEF StoreRaises, Storing, IsNext
<1>8. ASSUME NEW q \in Requests, NEW end \in {"failed", "done"},
             pc' = [pc EXCEPT ![q] = end], Release(q), Forget(q)
      PROVE  AloneInv'
  <2>1. \A r \in Requests, s \in Sources :
          writer'[s] = r => writer[s] = r /\ r # q
    BY <1>8, Constants DEF Release, TypeOK
  <2>2. \A r \in Requests, s \in Sources :
          stage'[r][s] # "no" => stage'[r][s] = stage[r][s] /\ r # q
    BY <1>8, Forgotten
  <2>3. \A r \in Requests : pc'[r] = IF r = q THEN end ELSE pc[r]
    BY <1>8 DEF TypeOK
  <2> QED
    BY <2>1, <2>2, <2>3 DEF AloneInv
<1>9. ASSUME NEW q \in Requests, TurnedAway(q) \/ NotFound(q) \/ Rollback(q) PROVE AloneInv'
  BY <1>8, <1>9 DEF TurnedAway, NotFound, Rollback, Discard
<1>10. ASSUME NEW q \in Requests, DeadlockVictim(q) PROVE FALSE
  BY <1>10 DEF DeadlockVictim, OnlyTurnsOnSqlite
<1>11. ASSUME NEW q \in Requests, Commit(q) PROVE AloneInv'
  BY <1>8, <1>11 DEF Commit
<1>12. ASSUME NEW u \in Sources, Edit(u) \/ Remove(u) PROVE AloneInv'
  BY <1>12 DEF Edit, Remove, AloneInv, loading
<1>13. CASE UNCHANGED vars
  BY <1>13 DEF vars, loading, AloneInv
<1> QED
  BY <1>1, <1>2, <1>3, <1>4, <1>5, <1>6, <1>7, <1>9, <1>10, <1>11, <1>12, <1>13
  DEF Next, Progress

LEMMA PlanStep ==
  ASSUME OnlyTurnsOnSqlite, TypeOK, ReplyInv, AloneInv, PlanInv, [Next]_vars
  PROVE  PlanInv'
<1>1. ASSUME NEW q \in Requests, Arrive(q) PROVE PlanInv'
  <2>1. ASSUME NEW r \in Requests, NEW s \in Sources, object'[r][s] # Absent
        PROVE  row'[s] # Absent
    <3>1. object'[r][s] \in {object[r][s], row[s]} /\ row' = row
      BY <1>1, <2>1 DEF Arrive, TypeOK, PlanInv
    <3> QED
      BY <2>1, <3>1 DEF PlanInv
  <2> QED
    BY <1>1, <2>1 DEF Arrive, PlanInv, Visible, loading
<1>2. ASSUME NEW q \in Requests, Enter(q) PROVE PlanInv'
  BY <1>2 DEF Enter, PlanInv, Visible, loading
<1>3. ASSUME NEW q \in Requests, Begin(q) \/ Rerun(q) PROVE PlanInv'
  <2>1. UNCHANGED <<listed, row, writer, draft, object, plan>>
    BY <1>3 DEF Begin, Rerun
  <2>2. \A r \in Requests, s \in Sources :
          stage'[r][s] \in {"asked", "answered"} => stage'[r][s] = stage[r][s]
    BY <1>3, Begun
  <2> QED
    BY <2>1, <2>2 DEF PlanInv, Visible
<1>4. ASSUME NEW q \in Requests, NEW u \in Sources, Plan(q, u) PROVE PlanInv'
  <2>1. UNCHANGED <<listed, row, writer, draft, object>>
    BY <1>4 DEF Plan
  <2>2. Planned(q, u) = Absent <=> Visible(q, u) = Absent
    BY Constants DEF Planned, Visible, PlanInv
  <2>3. ASSUME NEW r \in Requests, NEW s \in Sources, stage'[r][s] \in {"asked", "answered"}
        PROVE  plan'[r][s] = Absent <=> Visible(r, s) = Absent
    <3>1. CASE r = q /\ s = u
      BY <1>4, <2>2, <3>1 DEF Plan, TypeOK
    <3>2. CASE ~(r = q /\ s = u)
      <4>1. stage'[r][s] = stage[r][s] /\ plan'[r][s] = plan[r][s]
        BY <1>4, <3>2 DEF Plan, TypeOK
      <4> QED
        BY <2>3, <4>1 DEF PlanInv
    <3> QED
      BY <3>1, <3>2
  <2> QED
    BY <2>1, <2>3 DEF PlanInv, Visible
<1>5. ASSUME NEW q \in Requests, NEW u \in Sources, Fetch(q, u) PROVE PlanInv'
  <2>1. UNCHANGED <<listed, row, writer, draft, object, plan>> /\ stage[q][u] = "asked"
    BY <1>5 DEF Fetch, Asking
  <2>2. \A r \in Requests, s \in Sources :
          stage'[r][s] = stage[r][s] \/ (r = q /\ s = u)
    BY <1>5 DEF Fetch, TypeOK
  <2> QED
    BY <2>1, <2>2 DEF PlanInv, Visible
<1>6. ASSUME NEW q \in Requests, NEW u \in Sources, Store(q, u) PROVE PlanInv'
  <2>1. stage[q][u] = "answered" /\ stage' = [stage EXCEPT ![q][u] = "no"]
        /\ UNCHANGED <<listed, row, plan>> /\ Storable(q, u) /\ pc[q] = "loading"
    BY <1>6, StorableAlone DEF Store, Storing, IsNext
  <2>2. CASE UNCHANGED <<writer, draft, object>>
    BY <2>1, <2>2 DEF PlanInv, Visible, TypeOK
  <2>3. CASE /\ reply[q][u] # Failed
             /\ writer' = [writer EXCEPT ![u] = q]
             /\ draft' = [draft EXCEPT ![u] = Written(q, u)]
             /\ object' = [object EXCEPT ![q][u] =
                  IF @ = Absent \/ reply[q][u] = NotModified THEN @ ELSE reply[q][u]]
    <3>1. Written(q, u) # Absent
      BY <2>1, <2>3, WrittenType, Constants DEF Document, Absent
    <3>2. ASSUME NEW s \in Sources, writer'[s] # Nobody PROVE draft'[s] # Absent
      BY <2>3, <3>1, <3>2 DEF PlanInv, TypeOK
    <3>3. ASSUME NEW r \in Requests, NEW s \in Sources, object'[r][s] # Absent
          PROVE  row'[s] # Absent
      <4>1. object[r][s] # Absent
        BY <2>3, <3>3 DEF TypeOK
      <4> QED
        BY <2>1, <4>1 DEF PlanInv
    <3>4. ASSUME NEW r \in Requests, NEW s \in Sources, stage'[r][s] \in {"asked", "answered"}
          PROVE  plan'[r][s] = Absent <=> Visible(r, s)' = Absent
      <4>1. stage'[r][s] = stage[r][s] /\ ~(r = q /\ s = u)
        BY <2>1, <3>4 DEF TypeOK
      <4>2. r = q /\ s # u
        BY <2>1, <3>4, <4>1 DEF AloneInv
      <4>3. writer'[s] = writer[s] /\ draft'[s] = draft[s]
        BY <2>3, <4>2 DEF TypeOK
      <4> QED
        BY <2>1, <3>4, <4>1, <4>3 DEF PlanInv, Visible
    <3> QED
      BY <2>1, <3>2, <3>3, <3>4 DEF PlanInv
  <2> QED
    BY <1>6, <2>2, <2>3 DEF Store
<1>7. ASSUME NEW q \in Requests, Release(q), Forget(q), listed' = listed,
             \A s \in Sources : row[s] # Absent => row'[s] # Absent,
             \A r \in Requests, s \in Sources : r # q => row'[s] = row[s] \/ pc[r] # "loading",
             object' = [object EXCEPT ![q] = [s \in Sources |-> Absent]]
      PROVE  PlanInv'
  <2>1. ASSUME NEW s \in Sources, writer'[s] # Nobody PROVE draft'[s] # Absent
    BY <1>7, <2>1 DEF Release, PlanInv, TypeOK
  <2>2. ASSUME NEW r \in Requests, NEW s \in Sources, object'[r][s] # Absent
        PROVE  row'[s] # Absent
    <3>1. object[r][s] # Absent
      BY <1>7, <2>2 DEF TypeOK
    <3> QED
      BY <1>7, <3>1 DEF PlanInv
  <2>3. ASSUME NEW r \in Requests, NEW s \in Sources, stage'[r][s] \in {"asked", "answered"}
        PROVE  plan'[r][s] = Absent <=> Visible(r, s)' = Absent
    <3>1. r # q /\ stage'[r][s] = stage[r][s] /\ plan'[r][s] = plan[r][s]
      BY <1>7, <2>3, Forgotten
    <3>2. pc[r] = "loading" /\ row'[s] = row[s]
      BY <1>7, <2>3, <3>1 DEF AloneInv
    <3>3. Visible(r, s)' = Visible(r, s)
      BY <1>7, <3>1, <3>2, Constants DEF Release, Visible, TypeOK
    <3> QED
      BY <2>3, <3>1, <3>3 DEF PlanInv
  <2> QED
    BY <1>7, <2>1, <2>2, <2>3 DEF PlanInv
<1>8. ASSUME NEW q \in Requests, NEW end, Discard(q, end) PROVE PlanInv'
  BY <1>7, <1>8 DEF Discard
<1>9. ASSUME NEW q \in Requests, Commit(q) PROVE PlanInv'
  <2>1. \A s \in Sources : row'[s] = IF writer[s] = q THEN draft[s] ELSE row[s]
    BY <1>9 DEF Commit
  <2>2. \A s \in Sources : row[s] # Absent => row'[s] # Absent
    BY <2>1, Constants DEF PlanInv
  <2>3. \A r \in Requests : r # q => pc[r] # "loading"
    BY <1>9 DEF Commit, Loaded, AloneInv
  <2> QED
    BY <1>7, <1>9, <2>2, <2>3 DEF Commit
<1>10. ASSUME NEW u \in Sources, Edit(u) PROVE PlanInv'
  BY <1>10 DEF Edit, PlanInv, Visible, loading
<1>11. ASSUME NEW u \in Sources, Remove(u) PROVE FALSE
  BY <1>11 DEF Remove, OnlyTurnsOnSqlite
<1>12. ASSUME NEW q \in Requests, NEW u \in Sources, FetchBreaks(q, u) PROVE FALSE
  BY <1>12 DEF FetchBreaks, OnlyTurnsOnSqlite
<1>13. CASE UNCHANGED vars
  BY <1>13 DEF vars, loading, PlanInv, Visible
<1> QED
  BY <1>1, <1>2, <1>3, <1>4, <1>5, <1>6, <1>8, <1>9, <1>10, <1>11, <1>12, <1>13
  DEF Next, Progress, TurnedAway, NotFound, Rollback, DeadlockVictim, StoreRaises

LEMMA InitSqlite == OnlyTurnsOnSqlite /\ Init => AloneInv /\ PlanInv
  BY Constants DEF Init, AloneInv, PlanInv, Visible

\* With SQLite's one lock, loading never fails a chat turn for what another
\* turn did to the cache: the turn that loads is the only one that writes,
\* and plans with what it will find.
THEOREM TurnsNeverRaiseOnSqlite ==
  ASSUME OnlyTurnsOnSqlite
  PROVE  Spec => []LoadNeverRaises
<1>1. Init => AloneInv /\ PlanInv
  BY InitSqlite
<1>2. TypeOK /\ ReplyInv /\ AloneInv /\ PlanInv /\ [Next]_vars => AloneInv' /\ PlanInv'
  BY AloneStep, PlanStep
<1>3. AloneInv => LoadNeverRaises
  BY DEF AloneInv, LoadNeverRaises
<1> QED
  BY <1>1, <1>2, <1>3, TypeCorrect, PTL DEF Spec

-----------------------------------------------------------------------------
(* On SQLite an older document never replaces a newer one.                 *)

LEMMA InitNewer == Init => NewerInv
<1> SUFFICES ASSUME Init PROVE NewerInv
  OBVIOUS
<1>1. ASSUME NEW s \in Sources
      PROVE  /\ row[s].tag <= version[s] /\ draft[s].tag <= version[s]
             /\ writer[s] = Nobody
  <2>1. row[s] \in {Absent, [text |-> Published[1], tag |-> 1]} /\ version[s] = 1
        /\ draft[s] = Absent
    BY DEF Init
  <2> QED
    BY <2>1 DEF Init, Absent
<1> QED
  BY <1>1 DEF Init, NewerInv

\* What a flush leaves is between what it finds and what the origin shows.
LEMMA WrittenTag ==
  ASSUME TypeOK, ReplyInv, NewerInv, NEW r \in Requests, NEW s \in Sources,
         stage[r][s] = "answered", reply[r][s] # Failed, Storable(r, s)
  PROVE  Visible(r, s).tag <= Written(r, s).tag /\ Written(r, s).tag <= version[s]
<1> DEFINE new == reply[r][s]
           old == plan[r][s]
           is == Visible(r, s)
<1>1. is.tag \in Nat /\ is.tag <= version[s] /\ version[s] \in Nat
  BY Tags DEF Visible, NewerInv
<1>2. CASE new = NotModified
  BY <1>1, <1>2 DEF Written
<1>3. CASE new # NotModified
  <2>1. is.tag <= new.tag /\ new.tag <= version[s]
    BY <1>3 DEF NewerInv
  <2>2. Written(r, s).tag = new.tag \/ Written(r, s).tag = is.tag
    <3>1. CASE old = Absent
      BY <1>3, <3>1 DEF Written
    <3>2. CASE old # Absent
      <4>1. Written(r, s) = [text |-> IF new.text = old.text THEN is.text ELSE new.text,
                             tag |-> IF new.tag = old.tag THEN is.tag ELSE new.tag]
        BY <1>3, <3>2 DEF Written
      <4> QED
        BY <4>1
    <3> QED
      BY <3>1, <3>2
  <2> QED
    BY <1>1, <2>1, <2>2
<1> QED
  BY <1>2, <1>3

LEMMA NewerStore ==
  ASSUME TypeOK, ReplyInv, AloneInv, NewerInv, NEW q \in Requests, NEW u \in Sources,
         Store(q, u)
  PROVE  NewerInv'
<1>1. /\ stage[q][u] = "answered" /\ pc[q] = "loading"
      /\ stage' = [stage EXCEPT ![q][u] = "no"]
      /\ UNCHANGED <<version, row, reply>>
  BY DEF Store, Storing, IsNext
<1>2. CASE UNCHANGED <<writer, draft, object>>
  <2>1. ASSUME NEW r \in Requests, NEW s \in Sources, stage'[r][s] = "answered"
        PROVE  stage[r][s] = "answered" /\ Visible(r, s)' = Visible(r, s)
    BY <1>1, <1>2, <2>1 DEF TypeOK, Visible
  <2> QED
    BY <1>1, <1>2, <2>1 DEF NewerInv
<1>3. CASE /\ reply[q][u] # Failed /\ Storable(q, u)
           /\ writer' = [writer EXCEPT ![u] = q]
           /\ draft' = [draft EXCEPT ![u] = Written(q, u)]
  <2>1. Visible(q, u).tag <= Written(q, u).tag /\ Written(q, u).tag <= version[u]
    BY <1>1, <1>3, WrittenTag
  <2>2. row[u].tag <= Visible(q, u).tag /\ row[u].tag \in Nat /\ Visible(q, u).tag \in Nat
    BY Tags, Constants DEF Visible, NewerInv
  <2>3. Written(q, u).tag \in Nat
    BY <1>1, <1>3, WrittenType, TagOf
  <2>4. draft'[u] = Written(q, u) /\ row[u].tag <= draft'[u].tag
    BY <1>3, <2>1, <2>2, <2>3 DEF TypeOK
  <2>5. ASSUME NEW s \in Sources, s # u
        PROVE  draft'[s] = draft[s] /\ writer'[s] = writer[s]
    BY <1>3, <2>5 DEF TypeOK
  <2>6. ASSUME NEW r \in Requests, NEW s \in Sources, stage'[r][s] = "answered"
        PROVE  stage[r][s] = "answered" /\ Visible(r, s)' = Visible(r, s)
    <3>1. stage[r][s] = "answered" /\ ~(r = q /\ s = u)
      BY <1>1, <2>6 DEF TypeOK
    <3>2. r = q /\ s # u
      BY <1>1, <3>1 DEF AloneInv
    <3> QED
      BY <1>1, <2>5, <3>1, <3>2 DEF Visible
  <2> QED
    BY <1>1, <2>1, <2>4, <2>5, <2>6 DEF NewerInv
<1> QED
  BY <1>2, <1>3 DEF Store

\* A request that ends leaves the rows as they are, or its drafts in them.
LEMMA NewerEnd ==
  ASSUME TypeOK, AloneInv, NewerInv, NEW q \in Requests, Release(q), Forget(q),
         version' = version,
         \/ row' = row
         \/ pc[q] = "loading"
            /\ row' = [s \in Sources |-> IF writer[s] = q THEN draft[s] ELSE row[s]]
  PROVE  NewerInv'
<1>1. ASSUME NEW s \in Sources
      PROVE  /\ row'[s].tag <= version[s] /\ draft'[s].tag <= version[s]
             /\ writer'[s] # Nobody => row'[s].tag <= draft'[s].tag
  <2>1. row'[s] = row[s] \/ (writer[s] = q /\ row'[s] = draft[s])
    OBVIOUS
  <2>2. row'[s].tag <= version[s]
    BY <2>1 DEF NewerInv
  <2>3. \/ writer[s] = q /\ writer'[s] = Nobody /\ draft'[s] = Absent
        \/ writer[s] # q /\ writer'[s] = writer[s] /\ draft'[s] = draft[s]
    BY DEF Release
  <2>4. draft'[s].tag <= version[s]
    BY <2>3, Tags DEF NewerInv, Absent
  <2> QED
    BY <2>1, <2>2, <2>3, <2>4 DEF NewerInv
<1>2. ASSUME NEW r \in Requests, NEW s \in Sources, stage'[r][s] = "answered",
             reply'[r][s] \notin {Failed, NotModified}
      PROVE  Visible(r, s)'.tag <= reply'[r][s].tag /\ reply'[r][s].tag <= version[s]
  <2>1. r # q /\ stage[r][s] = "answered" /\ reply'[r][s] = reply[r][s]
    BY <1>2, Forgotten
  <2>2. row'[s] = row[s]
    BY <2>1 DEF AloneInv
  <2>3. Visible(r, s)' = Visible(r, s)
    BY <2>1, <2>2, Constants DEF Release, Visible, TypeOK
  <2> QED
    BY <1>2, <2>1, <2>3 DEF NewerInv
<1> QED
  BY <1>1, <1>2 DEF NewerInv

LEMMA NewerStep ==
  ASSUME OnlyTurnsOnSqlite, TypeOK, ReplyInv, AloneInv, NewerInv, [Next]_vars
  PROVE  NewerInv'
<1>1. ASSUME UNCHANGED <<version, row, writer, draft, reply>>,
             \A r \in Requests, s \in Sources :
               stage'[r][s] = "answered" => stage[r][s] = "answered"
      PROVE  NewerInv'
  BY <1>1 DEF NewerInv, Visible
<1>2. ASSUME NEW q \in Requests, Arrive(q) \/ Enter(q) PROVE NewerInv'
  BY <1>1, <1>2 DEF Arrive, Enter, loading
<1>3. ASSUME NEW q \in Requests, Begin(q) \/ Rerun(q) PROVE NewerInv'
  BY <1>1, <1>3, Begun DEF Begin, Rerun
<1>4. ASSUME NEW q \in Requests, NEW u \in Sources, Plan(q, u) PROVE NewerInv'
  <2>1. \A r \in Requests, s \in Sources :
          stage'[r][s] = "answered" => stage[r][s] = "answered"
    <3>1. \/ stage' = [stage EXCEPT ![q][u] = "no"]
          \/ stage' = [stage EXCEPT ![q][u] = "asked"]
      BY <1>4 DEF Plan
    <3>2. stage \in [Requests -> [Sources -> {"no", "wanted", "asked", "answered"}]]
      BY DEF TypeOK
    <3>3. CASE stage' = [stage EXCEPT ![q][u] = "no"]
      BY <3>2, <3>3
    <3>4. CASE stage' = [stage EXCEPT ![q][u] = "asked"]
      BY <3>2, <3>4
    <3> QED
      BY <3>1, <3>3, <3>4
  <2> QED
    BY <1>1, <1>4, <2>1 DEF Plan
<1>5. ASSUME NEW q \in Requests, NEW u \in Sources, Fetch(q, u) PROVE NewerInv'
  <2>1. UNCHANGED <<version, row, writer, draft>>
    BY <1>5 DEF Fetch
  <2>2. reply'[q][u] \in {Failed, NotModified, Shown(u)}
    BY <1>5 DEF Fetch, TypeOK
  <2>3. \A r \in Requests, s \in Sources : ~(r = q /\ s = u) =>
          reply'[r][s] = reply[r][s] /\ stage'[r][s] = stage[r][s]
    BY <1>5 DEF Fetch, TypeOK
  <2>4. Visible(q, u).tag <= version[u] /\ Shown(u).tag = version[u] /\ version[u] \in Nat
    BY Tags DEF Visible, NewerInv, Shown
  <2>5. ASSUME NEW r \in Requests, NEW s \in Sources, stage'[r][s] = "answered",
               reply'[r][s] \notin {Failed, NotModified}
        PROVE  Visible(r, s).tag <= reply'[r][s].tag /\ reply'[r][s].tag <= version[s]
    <3>1. CASE r = q /\ s = u
      BY <2>2, <2>4, <2>5, <3>1
    <3>2. CASE ~(r = q /\ s = u)
      BY <2>3, <2>5, <3>2 DEF NewerInv
    <3> QED
      BY <3>1, <3>2
  <2> QED
    BY <2>1, <2>5 DEF NewerInv, Visible
<1>6. ASSUME NEW q \in Requests, NEW u \in Sources, Store(q, u) PROVE NewerInv'
  BY <1>6, NewerStore
<1>7. ASSUME NEW q \in Requests, NEW end, Discard(q, end) PROVE NewerInv'
  BY <1>7, NewerEnd DEF Discard
<1>8. ASSUME NEW q \in Requests, Commit(q) PROVE NewerInv'
  BY <1>8, NewerEnd DEF Commit, Loaded
<1>9. ASSUME NEW u \in Sources, Edit(u) PROVE NewerInv'
  <2>1. \A s \in Sources : version[s] \in Nat /\ version'[s] \in Nat /\ version[s] <= version'[s]
    BY <1>9, Tags DEF Edit, TypeOK
  <2>2. UNCHANGED <<row, writer, draft, stage, reply>>
    BY <1>9 DEF Edit, loading
  <2>3. ASSUME NEW s \in Sources
        PROVE  row[s].tag <= version'[s] /\ draft[s].tag <= version'[s]
    BY <2>1, Tags DEF NewerInv
  <2>4. ASSUME NEW r \in Requests, NEW s \in Sources, stage[r][s] = "answered",
               reply[r][s] \notin {Failed, NotModified}
        PROVE  reply[r][s].tag <= version'[s]
    <3>1. reply[r][s] \in Document \cup {Absent}
      BY <2>4 DEF TypeOK
    <3> QED
      BY <2>1, <2>4, <3>1, TagOf DEF NewerInv
  <2> QED
    BY <2>2, <2>3, <2>4 DEF NewerInv, Visible
<1>10. ASSUME NEW u \in Sources, Remove(u) PROVE FALSE
  BY <1>10 DEF Remove, OnlyTurnsOnSqlite
<1>11. ASSUME NEW q \in Requests, NEW u \in Sources, FetchBreaks(q, u) PROVE FALSE
  BY <1>11 DEF FetchBreaks, OnlyTurnsOnSqlite
<1>12. CASE UNCHANGED vars
  BY <1>1, <1>12 DEF vars, loading
<1> QED
  BY <1>2, <1>3, <1>4, <1>5, <1>6, <1>7, <1>8, <1>9, <1>10, <1>11, <1>12
  DEF Next, Progress, TurnedAway, NotFound, Rollback, DeadlockVictim, StoreRaises

\* On SQLite, however long a turn waited for the lock and whatever its tutor
\* object still remembers, what it stores is never older than what is there.
THEOREM TurnsNeverGoBackOnSqlite ==
  ASSUME OnlyTurnsOnSqlite
  PROVE  Spec => NeverGoesBack
<1>1. Init => AloneInv /\ PlanInv /\ NewerInv
  BY InitSqlite, InitNewer
<1>2. TypeOK /\ ReplyInv /\ AloneInv /\ PlanInv /\ NewerInv /\ [Next]_vars
        => AloneInv' /\ PlanInv' /\ NewerInv'
  BY AloneStep, PlanStep, NewerStep
<1>3. TypeOK /\ NewerInv /\ [Next]_vars
        => [\A s \in Sources : row'[s] # Absent => row'[s].tag >= row[s].tag]_vars
  <2> SUFFICES ASSUME TypeOK, NewerInv, [Next]_vars, NEW s \in Sources, row'[s] # Absent
               PROVE  row'[s].tag >= row[s].tag
    OBVIOUS
  <2>1. row[s].tag \in Nat /\ draft[s].tag \in Nat
    BY Tags
  <2>2. CASE row'[s] = row[s]
    BY <2>1, <2>2
  <2>3. ASSUME NEW q \in Requests, Commit(q) PROVE row'[s].tag >= row[s].tag
    <3>1. row'[s] = IF writer[s] = q THEN draft[s] ELSE row[s]
      BY <2>3 DEF Commit
    <3>2. writer[s] = q => row[s].tag <= draft[s].tag
      BY Constants DEF NewerInv
    <3> QED
      BY <2>1, <3>1, <3>2
  <2>4. ASSUME NEW u \in Sources, Remove(u) PROVE row'[s] = row[s]
    BY <2>4 DEF Remove, TypeOK
  <2>5. row' = row \/ (\E q \in Requests : Commit(q)) \/ (\E u \in Sources : Remove(u))
    BY DEF Next, Progress, Arrive, Enter, TurnedAway, Begin, NotFound, DeadlockVictim, Plan,
           Fetch, FetchBreaks, Store, StoreRaises, Rerun, Rollback, Discard, Edit, vars
  <2> QED
    BY <2>2, <2>3, <2>4, <2>5
<1> QED
  BY <1>1, <1>2, <1>3, TypeCorrect, PTL DEF Spec, NeverGoesBack
=============================================================================
