-------------------------- MODULE AgentToolsProofs --------------------------
(***************************************************************************)
(* Proofs about AgentTools for any sources and texts, any number of calls, *)
(* and any choice among the results of a search.                           *)
(***************************************************************************)
EXTENDS AgentTools, AgentRunProofs, SourceTextProofs, FiniteSetTheorems

-----------------------------------------------------------------------------
(* A run with its tools is a run.                                          *)

LEMMA StepOfRun ==
  ASSUME [ToolsNext]_allVars
  PROVE  [Next]_vars
<1>1. CASE Call
  BY <1>1 DEF Call, Next, Framework
<1>2. CASE Elsewhere
  BY <1>2 DEF Elsewhere, Next, Framework
<1>3. ASSUME NEW inDeltas \in BOOLEAN, Instruct(inDeltas) PROVE Next
  BY <1>3 DEF Instruct, Next, Framework
<1>4. ASSUME NEW retryable \in BOOLEAN, Fail(retryable) PROVE Next
  BY <1>4 DEF Fail, Next, Framework
<1>5. ASSUME NEW c \in Calls, Return(c) PROVE Next
  BY <1>5 DEF Return, Next, Framework
<1>6. ASSUME NEW c \in Calls, Work(c) PROVE UNCHANGED vars
  BY <1>6 DEF Work
<1>7. ASSUME NEW s \in Sources, Edit(s) PROVE UNCHANGED vars
  BY <1>7 DEF Edit
<1>8. CASE UNCHANGED allVars
  BY <1>8 DEF allVars
<1> QED
  BY <1>1, <1>2, <1>3, <1>4, <1>5, <1>6, <1>7, <1>8 DEF ToolsNext

\* Whatever the tools do, the run is one of AgentRun: what is proved of those
\* holds of it.
THEOREM ToolsRunIsARun == ToolsSpec => Spec
<1>1. ToolsInit => Init
  BY DEF ToolsInit
<1>2. [ToolsNext]_allVars => [Next]_vars
  BY StepOfRun
<1> QED
  BY <1>1, <1>2, PTL DEF ToolsSpec, Spec

-----------------------------------------------------------------------------
(* Invariants of a call.                                                   *)

Stages == {"none", "planning", "fetching", "storing", "flushing", "clashed", "broken",
           "done", "returned"}
Busy(c) == stage[c] \notin {"none", "returned"}
Doing(c) == stage[c] \in {"planning", "fetching", "storing", "flushing"}

\* A download that is asked for, and what may come of it.
Ask ==
  {a \in [source : Sources \ Inline, had : Nat, got : Nat \cup {Failed}] :
     /\ a.had \in Versions(a.source) /\ a.got \in Versions(a.source) \cup {Failed}
     /\ a.got # 0}

ToolTypes ==
  /\ shown \in [Sources -> Nat] /\ view \in [Sources -> Nat] /\ memo \in [Sources -> Nat]
  /\ \A s \in Sources : shown[s] \in Versions(s) \ {0} /\ {view[s], memo[s]} \subseteq Versions(s)
  /\ flushing \in Calls \cup {0}
  /\ DOMAIN job = Calls /\ DOMAIN outcome = Calls
  /\ \A c \in Calls : job[c].tool \in Tools /\ job[c].source \in Sources \cup {Unknown}
                      /\ job[c].round \in Nat
  /\ stage \in [Calls -> Stages]
  /\ todo \in [Calls -> SUBSET (Sources \cup {Unknown})]
  /\ asks \in [Calls -> Seq(Ask)]
  /\ \A c \in Calls : outcome[c].version # 0 => outcome[c].version \in Versions(job[c].source)

\* Calls are numbered as they come; those under way are of the round that is.
CallsInv ==
  /\ \A c \in Calls : stage[c] = "none" <=> c > calls
  /\ \A c \in Calls : stage[c] = "none" => asks[c] = <<>> /\ outcome[c] = NoOutcome
  /\ open = Cardinality({c \in Calls : Busy(c)})
  /\ \A c \in Calls : Busy(c) => job[c].round = turns

\* A call asks once for a source, and but for the catalogue for its own alone.
SourceInv ==
  \A c \in Calls : Doing(c) =>
    /\ job[c].tool # "list" =>
         todo[c] \subseteq {job[c].source} /\ \A i \in DOMAIN asks[c] : asks[c][i].source = job[c].source
    /\ stage[c] # "planning" => asks[c] # <<>>
    /\ \A i, k \in DOMAIN asks[c] : i # k => asks[c][i].source # asks[c][k].source
    /\ \A i \in DOMAIN asks[c] : asks[c][i].source \notin todo[c]

FlushInv ==
  /\ \A c \in Calls : stage[c] = "flushing" <=> flushing = c
  /\ flushing # 0 => Head(asks[flushing]).got # Failed

CallInv == ToolTypes /\ CallsInv /\ SourceInv /\ FlushInv
RunInv == TypeOK /\ RetryInv /\ CountInv

-----------------------------------------------------------------------------
(* What the steps of a call have in common.                                *)

\* The answer of a call that loaded at version v, over the chunks in cache.
Answered(c, v, cache) ==
  /\ \E o : Record(c, o) /\ o.version \in {0, IF job[c].tool = "list" THEN 0 ELSE v}
  /\ \/ memo' = cache
     \/ /\ job[c].tool # "list" /\ v # 0
        /\ memo' = [cache EXCEPT ![job[c].source] =
                      IF cache[job[c].source] # 0 THEN cache[job[c].source] ELSE v]

LEMMA ToldIs ==
  ASSUME NEW had, NEW v, NEW ok, NEW quote
  PROVE  /\ Told(had, v, ok, quote).version = v /\ Told(had, v, ok, quote).had = had
         /\ Told(had, v, ok, quote).quote = quote /\ Told(had, v, ok, quote).ok = ok
  BY DEF Told

LEMMA AnswersAsBefore ==
  ASSUME NEW c \in Calls, NEW had, NEW v, NEW w \in {0, v}, NEW cache, NEW ok, NEW quote,
         job[c].tool = "list" => w = 0,
         Record(c, Told(had, w, ok, quote)), memo' = cache
  PROVE  Answered(c, v, cache)
<1> DEFINE o == Told(had, w, ok, quote)
<1>2. o.version = w
  BY DEF Told
<1>1. o.version = w /\ Record(c, o)
  BY <1>2, Zenon
<1> HIDE DEF o
<1> QED
  BY <1>1 DEF Answered

\* An answer says the version the call loaded, and leaves the chunks cached as
\* they were or makes those of its source.
LEMMA LoadedRecords ==
  ASSUME NEW c \in Calls, NEW had, NEW v, NEW cache, Loaded(c, had, v, cache)
  PROVE  Answered(c, v, cache)
<1> DEFINE s == job[c].source
           cut == IF cache[s] # 0 THEN cache[s] ELSE v
<1>1. CASE AnswerList(c, cache)
  <2>1. Record(c, Told(0, 0, TRUE, Nothing)) /\ memo' = cache
    BY <1>1 DEF AnswerList
  <2> QED
    BY <2>1, AnswersAsBefore
<1>2. CASE AnswerOutline(c, had, v, cache)
  <2>1. Record(c, Told(had, v, Text(s, v) # <<>>, Nothing)) /\ memo' = cache
    BY <1>2, Zenon DEF AnswerOutline
  <2>2. job[c].tool = "list" => v = 0
    BY <1>2 DEF AnswerOutline
  <2>3. v \in {0, v}
    OBVIOUS
  <2> QED
    BY <2>1, <2>2, <2>3, AnswersAsBefore, Zenon
<1>3. CASE AnswerSearch(c, had, v, cache)
  <2>1. CASE Text(s, v) = <<>>
    <3>1. Record(c, Told(had, v, TRUE, Nothing)) /\ memo' = cache /\ job[c].tool = "search"
      BY <1>3, <2>1 DEF AnswerSearch
    <3> QED
      BY <3>1, AnswersAsBefore
  <2>2. CASE Text(s, v) # <<>>
    <3> DEFINE found == Results(Tidy(Text(s, cut)), job[c].words, Clamp(1, job[c].amount, MaxSnippets))
    <3>1. job[c].tool = "search" /\ memo' = [cache EXCEPT ![s] = cut]
      BY <1>3, <2>2 DEF AnswerSearch
    <3>2. \E f \in found : IF f = {} THEN Record(c, Told(had, v, TRUE, Nothing))
                           ELSE \E k \in f : Record(c, Told(had, v, TRUE, Snippet(cut, k)))
      BY <1>3, <2>2 DEF AnswerSearch
    <3> HIDE DEF found
    <3>3. PICK quote : Record(c, Told(had, v, TRUE, quote))
      BY <3>2
    <3> DEFINE o == Told(had, v, TRUE, quote)
    <3>6. o.version = v
      BY DEF Told
    <3>5. o.version = v /\ Record(c, o)
      BY <3>3, <3>6, Zenon
    <3> HIDE DEF o
    <3>4. v # 0
      BY <2>2 DEF Text
    <3> QED
      BY <3>1, <3>4, <3>5 DEF Answered
  <2> QED
    BY <2>1, <2>2
<1>4. CASE AnswerFetch(c, had, v, cache)
  <2> DEFINE length == Length(s, v)
             from == Clamp(0, job[c].offset, length)
             to == Clamp(0, from + Clamp(MinRead, job[c].amount, MaxRead), length)
             more == to < length
             page == [ok |-> TRUE, had |-> had, version |-> v, quote |-> Page(v, from, to),
                      next |-> to, more |-> more]
             answer1 == IF from = to THEN Told(had, v, FALSE, Nothing) ELSE page
  <2>1. Record(c, answer1) /\ memo' = cache /\ job[c].tool = "fetch"
    BY <1>4 DEF AnswerFetch
  <2> HIDE DEF more, from, to
  <2>2. page.version = v
    OBVIOUS
  <2>4. Told(had, v, FALSE, Nothing).version = v
    BY DEF Told
  <2> HIDE DEF page
  <2>3. answer1.version = v
    BY <2>2, <2>4
  <2> HIDE DEF answer1
  <2> QED
    BY <2>1, <2>3 DEF Answered
<1> QED
  BY <1>1, <1>2, <1>3, <1>4 DEF Loaded

\* What storing leads to, whatever was stored.
LEMMA StoredLeads ==
  ASSUME NEW c \in Calls, NEW v, NEW cache, Stored(c, v, cache)
  PROVE  /\ asks' = [asks EXCEPT ![c] = Tail(@)] /\ todo' = todo
         /\ \/ Tail(asks[c]) = <<>> /\ Answered(c, v, cache)
            \/ Tail(asks[c]) # <<>> /\ To(c, "storing") /\ memo' = cache /\ UNCHANGED <<outcome, deps>>
  BY LoadedRecords DEF Stored

LEMMA AtHandLeads ==
  ASSUME NEW c \in Calls, NEW s \in Sources, PlanAtHand(c, s)
  PROVE  /\ UNCHANGED <<view, flushing, asks>>
         /\ \/ todo[c] = {s} /\ asks[c] = <<>> /\ Answered(c, view[s], memo)
            \/ /\ To(c, IF todo[c] = {s} THEN "fetching" ELSE "planning")
               /\ todo[c] = {s} => asks[c] # <<>>
               /\ UNCHANGED <<memo, outcome, deps>>
  BY LoadedRecords DEF PlanAtHand, Planned

-----------------------------------------------------------------------------
(* A call works for itself: it moves, or it answers and is done.           *)

Moves(c) ==
  /\ \E st \in {"planning", "fetching", "storing", "flushing", "clashed", "broken"} : To(c, st)
  /\ UNCHANGED <<outcome, deps>>

Answers(c) == \E o : Record(c, o)

LEMMA StoredMoves ==
  ASSUME NEW c \in Calls, NEW v, NEW cache, Stored(c, v, cache)
  PROVE  Moves(c) \/ Answers(c)
  BY StoredLeads DEF Answered, Moves, Answers

LEMMA WorkMoves ==
  ASSUME ToolTypes, NEW c \in Calls, Work(c)
  PROVE  /\ Doing(c) /\ at \in {"running", "yielding"} /\ UNCHANGED <<vars, shown, job>>
         /\ Moves(c) \/ Answers(c)
<1>1. ASSUME NEW s \in Sources, PlanAtHand(c, s) PROVE Doing(c) /\ (Moves(c) \/ Answers(c))
  BY <1>1, AtHandLeads DEF PlanAtHand, Planning, Doing, Answered, Moves, Answers
<1>2. ASSUME NEW s \in Sources, PlanDownload(c, s) PROVE Doing(c) /\ Moves(c)
  BY <1>2 DEF PlanDownload, Planning, Planned, Doing, Moves
<1>3. CASE NotFound(c)
  BY <1>3 DEF NotFound, Doing, Answers, Work
<1>4. CASE Refuse(c) \/ Download(c) \/ Break(c) \/ Flush(c) \/ Clash(c)
  BY <1>4 DEF Refuse, Download, Break, Flush, Clash, Doing, Moves, Work
<1>5. CASE Keep(c)
  BY <1>5, StoredMoves DEF Keep, Doing, Work
<1>6. CASE FlushEnds(c)
  BY <1>6, StoredMoves DEF FlushEnds, Doing, Work
<1> QED
  BY <1>1, <1>2, <1>3, <1>4, <1>5, <1>6 DEF Work

\* The other calls are where they were.
LEMMA WorkIsLocal ==
  ASSUME ToolTypes, NEW c \in Calls, Work(c)
  PROVE  /\ stage' \in [Calls -> Stages] /\ stage'[c] \notin {"none", "returned"}
         /\ DOMAIN outcome' = Calls
         /\ \A d \in Calls \ {c} : stage'[d] = stage[d] /\ outcome'[d] = outcome[d]
<1>1. Moves(c) \/ Answers(c)
  BY WorkMoves
<1>2. CASE Moves(c)
  BY <1>2 DEF Moves, To, ToolTypes, Stages
<1>3. CASE Answers(c)
  <2>1. PICK o : Record(c, o)
    BY <1>3 DEF Answers
  <2> QED
    BY <2>1 DEF Record, ToolTypes, Stages
<1> QED
  BY <1>1, <1>2, <1>3

LEMMA WorkAsks ==
  ASSUME ToolTypes, NEW c \in Calls, Work(c)
  PROVE  /\ DOMAIN asks' = Calls /\ DOMAIN todo' = Calls
         /\ \A d \in Calls \ {c} : asks'[d] = asks[d] /\ todo'[d] = todo[d]
<1>1. ASSUME NEW s \in Sources, PlanAtHand(c, s) PROVE UNCHANGED asks /\ todo' = [todo EXCEPT ![c] = @ \ {s}]
  BY <1>1 DEF PlanAtHand, Planning
<1>2. ASSUME NEW s \in Sources, PlanDownload(c, s)
      PROVE  /\ asks' = [asks EXCEPT ![c] = Append(@, [source |-> s, had |-> view[s], got |-> Failed])]
             /\ todo' = [todo EXCEPT ![c] = @ \ {s}]
  BY <1>2 DEF PlanDownload, Planning
<1>3. CASE NotFound(c) \/ Refuse(c) \/ Break(c) \/ Flush(c) \/ Clash(c)
  BY <1>3 DEF NotFound, Refuse, Break, Flush, Clash, ToolTypes
<1>4. CASE Download(c)
  BY <1>4 DEF Download, ToolTypes
<1>5. CASE Keep(c)
  BY <1>5, StoredLeads DEF Keep, ToolTypes
<1>6. CASE FlushEnds(c)
  BY <1>6, StoredLeads DEF FlushEnds, ToolTypes
<1> QED
  BY <1>1, <1>2, <1>3, <1>4, <1>5, <1>6 DEF Work, ToolTypes

-----------------------------------------------------------------------------
(* Types.                                                                  *)

LEMMA RequestTypes ==
  ASSUME RunInv, NEW r \in Requests
  PROVE  r.tool \in Tools /\ r.source \in Sources \cup {Unknown} /\ r.round = turns
<1>1. turns \in Nat
  BY DEF RunInv, TypeOK
<1> QED
  BY <1>1 DEF Requests, Request, Tools

LEMMA VersionTypes ==
  ASSUME NEW s \in Sources
  PROVE  /\ Versions(s) \subseteq Nat /\ 0 \in Versions(s) /\ 1 \in Versions(s)
         /\ Len(Texts[s]) \in Nat /\ Failed \notin Nat
<1>1. Texts[s] \in Seq(Seq(Lines))
  BY ToolsAssumption
<1>2. Len(Texts[s]) \in Nat /\ Len(Texts[s]) > 0
  BY <1>1, LenProperties, ToolsAssumption
<1> QED
  BY <1>2 DEF Versions, Failed

\* What a call asks for next, and what it has at hand.
LEMMA AskTypes ==
  ASSUME ToolTypes, NEW c \in Calls, asks[c] # <<>>
  PROVE  /\ asks[c] \in Seq(Ask) /\ Head(asks[c]) \in Ask /\ Tail(asks[c]) \in Seq(Ask)
         /\ Head(asks[c]) = asks[c][1] /\ Len(asks[c]) \in Nat \ {0}
         /\ DOMAIN asks[c] = 1 .. Len(asks[c])
         /\ Len(Tail(asks[c])) = Len(asks[c]) - 1
         /\ \A i \in 1 .. Len(Tail(asks[c])) : Tail(asks[c])[i] = asks[c][i + 1]
<1>1. asks[c] \in Seq(Ask)
  BY DEF ToolTypes
<1> QED
  BY <1>1, HeadTailProperties, LenProperties, EmptySeq

LEMMA AnswerTypes ==
  ASSUME ToolTypes, NEW c \in Calls, NEW v, NEW cache \in [Sources -> Nat], Answered(c, v, cache),
         \A s \in Sources : cache[s] \in Versions(s),
         job[c].tool # "list" => (job[c].source \in Sources /\ v \in Versions(job[c].source)) \/ v = 0
  PROVE  /\ memo' \in [Sources -> Nat] /\ \A s \in Sources : memo'[s] \in Versions(s)
         /\ \A d \in Calls : outcome'[d].version # 0 => outcome'[d].version \in Versions(job[d].source)
<1>1. PICK o : Record(c, o) /\ o.version \in {0, IF job[c].tool = "list" THEN 0 ELSE v}
  BY DEF Answered
<1>2. /\ outcome'[c] = o
      /\ \A d \in Calls \ {c} : outcome'[d] = outcome[d]
  BY <1>1 DEF Record, ToolTypes
<1>3. o.version # 0 => o.version \in Versions(job[c].source)
  BY <1>1
<1>4. \A d \in Calls : outcome'[d].version # 0 => outcome'[d].version \in Versions(job[d].source)
  BY <1>2, <1>3 DEF ToolTypes
<1>5. memo' \in [Sources -> Nat] /\ \A s \in Sources : memo'[s] \in Versions(s)
  BY VersionTypes DEF Answered
<1> QED
  BY <1>4, <1>5

LEMMA WorkAskTypes ==
  ASSUME CallInv, NEW c \in Calls, Work(c)
  PROVE  asks' \in [Calls -> Seq(Ask)] /\ todo' \in [Calls -> SUBSET (Sources \cup {Unknown})]
<1> USE DEF CallInv
<1>0. asks \in [Calls -> Seq(Ask)] /\ todo \in [Calls -> SUBSET (Sources \cup {Unknown})]
  BY DEF ToolTypes
<1>1. ASSUME NEW s \in Sources, PlanAtHand(c, s) PROVE asks' = asks /\ todo' = [todo EXCEPT ![c] = @ \ {s}]
  BY <1>1 DEF PlanAtHand, Planning
<1>2. ASSUME NEW s \in Sources, PlanDownload(c, s)
      PROVE  asks' \in [Calls -> Seq(Ask)] /\ todo' = [todo EXCEPT ![c] = @ \ {s}]
  <2> DEFINE a == [source |-> s, had |-> view[s], got |-> Failed]
  <2>1. a \in Ask
    BY <1>2, VersionTypes DEF PlanDownload, ToolTypes, Ask, Failed
  <2>2. Append(asks[c], a) \in Seq(Ask)
    BY <1>0, <2>1, AppendProperties
  <2> QED
    BY <1>0, <1>2, <2>2 DEF PlanDownload, Planning
<1>3. CASE NotFound(c)
  BY <1>0, <1>3 DEF NotFound
<1>4. CASE Refuse(c) \/ Break(c) \/ Flush(c) \/ Clash(c)
  BY <1>0, <1>4 DEF Refuse, Break, Flush, Clash
<1>5. CASE Download(c)
  <2>1. PICK good \in SUBSET DOMAIN asks[c] :
          asks' = [asks EXCEPT ![c] = [i \in DOMAIN @ |->
                  [@[i] EXCEPT !.got = IF i \in good THEN shown[asks[c][i].source] ELSE Failed]]]
    BY <1>5 DEF Download
  <2> DEFINE new == [i \in DOMAIN asks[c] |->
                  [asks[c][i] EXCEPT !.got = IF i \in good THEN shown[asks[c][i].source] ELSE Failed]]
  <2>2. asks[c] \in Seq(Ask) /\ Len(asks[c]) \in Nat /\ DOMAIN asks[c] = 1 .. Len(asks[c])
    BY <1>0, LenProperties
  <2>3. ASSUME NEW i \in 1 .. Len(asks[c]) PROVE new[i] \in Ask
    <3>1. asks[c][i] \in Ask
      BY <2>2, ElementOfSeq
    <3>2. shown[asks[c][i].source] \in Versions(asks[c][i].source) \ {0} /\ Failed # 0
      BY <3>1 DEF Ask, ToolTypes, Failed
    <3> QED
      BY <2>2, <3>1, <3>2, VersionTypes DEF Ask
  <2>4. new \in [1 .. Len(asks[c]) -> Ask]
    BY <2>2, <2>3
  <2>5. new \in Seq(Ask)
    BY <2>2, <2>4, SeqDef
  <2>6. asks' = [asks EXCEPT ![c] = new]
    BY <1>0, <2>1
  <2> HIDE DEF new
  <2> QED
    BY <1>0, <1>5, <2>5, <2>6 DEF Download
<1>6. CASE Keep(c) \/ FlushEnds(c)
  <2>1. asks' = [asks EXCEPT ![c] = Tail(@)] /\ todo' = todo
    BY <1>6, StoredLeads DEF Keep, FlushEnds
  <2>2. asks[c] # <<>>
    BY <1>6 DEF Keep, FlushEnds, SourceInv, Doing
  <2>3. Tail(asks[c]) \in Seq(Ask)
    BY <2>2, AskTypes
  <2> QED
    BY <1>0, <2>1, <2>3
<1> QED
  BY <1>0, <1>1, <1>2, <1>3, <1>4, <1>5, <1>6 DEF Work

\* The version a call loaded is one of its own source.
LEMMA HeadIsOwn ==
  ASSUME CallInv, NEW c \in Calls, stage[c] \in {"storing", "flushing"}
  PROVE  /\ asks[c] # <<>> /\ Head(asks[c]) \in Ask
         /\ job[c].tool # "list" => Head(asks[c]).source = job[c].source
<1>1. asks[c] # <<>>
  BY DEF CallInv, SourceInv, Doing
<1>2. Head(asks[c]) \in Ask /\ Head(asks[c]) = asks[c][1] /\ 1 \in DOMAIN asks[c]
  BY <1>1, AskTypes DEF CallInv
<1> QED
  BY <1>1, <1>2 DEF CallInv, SourceInv, Doing

LEMMA WorkTypes ==
  ASSUME CallInv, NEW c \in Calls, Work(c)
  PROVE  ToolTypes'
<1> DEFINE a == Head(asks[c])
           Good == /\ view' \in [Sources -> Nat] /\ \A s \in Sources : view'[s] \in Versions(s)
                   /\ flushing' \in Calls \cup {0}
                   /\ memo' \in [Sources -> Nat] /\ \A s \in Sources : memo'[s] \in Versions(s)
                   /\ \A d \in Calls : outcome'[d].version # 0 => outcome'[d].version \in Versions(job[d].source)
<1>0. ToolTypes /\ memo \in [Sources -> Nat] /\ \A s \in Sources : memo[s] \in Versions(s)
  BY DEF CallInv, ToolTypes
<1>1. ASSUME NEW s \in Sources, PlanAtHand(c, s) PROVE Good
  <2>1. UNCHANGED <<view, flushing>>
    BY <1>1 DEF PlanAtHand
  <2>2. CASE todo[c] = {s} /\ Answered(c, view[s], memo)
    <3>1. job[c].tool # "list" => s = job[c].source
      BY <1>1, <2>2 DEF PlanAtHand, Planning, CallInv, SourceInv, Doing
    <3>2. view[s] \in Versions(s)
      BY <1>0 DEF ToolTypes
    <3> QED
      BY <1>0, <2>1, <2>2, <3>1, <3>2, AnswerTypes DEF ToolTypes
  <2>3. CASE UNCHANGED <<memo, outcome, deps>>
    BY <1>0, <2>1, <2>3 DEF ToolTypes
  <2> QED
    BY <1>1, <2>2, <2>3, AtHandLeads
<1>2. ASSUME NEW s \in Sources, PlanDownload(c, s) PROVE Good
  BY <1>0, <1>2 DEF PlanDownload, ToolTypes
<1>3. ASSUME NotFound(c) PROVE Good
  <2>1. UNCHANGED <<view, memo, flushing>> /\ Record(c, Told(0, 0, FALSE, Nothing))
    BY <1>3 DEF NotFound
  <2>2. Answered(c, 0, memo)
    BY <2>1, AnswersAsBefore
  <2> QED
    BY <1>0, <2>1, <2>2, AnswerTypes DEF ToolTypes
<1>4. ASSUME Refuse(c) \/ Download(c) \/ Break(c) PROVE Good
  BY <1>0, <1>4 DEF Refuse, Download, Break, ToolTypes
<1>5. ASSUME Flush(c) \/ Clash(c) PROVE Good
  <2>1. a \in Ask /\ a.got # Failed
    BY <1>5, HeadIsOwn DEF Flush, Clash
  <2>2. a.source \in Sources /\ a.got \in Versions(a.source) /\ a.got \in Nat
    BY <2>1, VersionTypes DEF Ask
  <2>3. view' = view \/ view' = [view EXCEPT ![a.source] = a.got]
    BY <1>5 DEF Flush, Clash, Assigned
  <2> HIDE DEF a
  <2>4. view' \in [Sources -> Nat] /\ \A s \in Sources : view'[s] \in Versions(s)
    BY <1>0, <2>2, <2>3 DEF ToolTypes
  <2> QED
    BY <1>0, <1>5, <2>4 DEF Flush, Clash, ToolTypes
<1>6. ASSUME Keep(c) PROVE Good
  <2> DEFINE v == IF a.had = 0 THEN 0 ELSE view[a.source]
  <2>1. Stored(c, v, memo) /\ UNCHANGED <<view, flushing>>
    BY <1>6 DEF Keep
  <2>2. CASE Answered(c, v, memo)
    <3>1. v \in Versions(a.source) /\ a.source \in Sources /\ (job[c].tool # "list" => a.source = job[c].source)
      BY <1>0, <1>6, HeadIsOwn, VersionTypes DEF Keep, Ask, ToolTypes
    <3> HIDE DEF v, a
    <3> QED
      BY <1>0, <2>1, <2>2, <3>1, AnswerTypes DEF ToolTypes
  <2>3. CASE memo' = memo /\ UNCHANGED <<outcome, deps>>
    BY <1>0, <2>1, <2>3 DEF ToolTypes
  <2> HIDE DEF v
  <2> QED
    BY <2>1, <2>2, <2>3, StoredLeads
<1>7. ASSUME FlushEnds(c) PROVE Good
  <2> DEFINE v == IF a.got = a.had THEN view[a.source] ELSE a.got
             cache == IF a.got = a.had THEN memo ELSE [memo EXCEPT ![a.source] = 0]
  <2>1. Stored(c, v, cache) /\ view' = view /\ flushing' = 0
    BY <1>7 DEF FlushEnds
  <2>2. flushing = c /\ a.got # Failed
    BY <1>7 DEF FlushEnds, CallInv, FlushInv, Calls
  <2>3. v \in Versions(a.source) /\ a.source \in Sources /\ (job[c].tool # "list" => a.source = job[c].source)
    BY <1>0, <1>7, <2>2, HeadIsOwn DEF FlushEnds, Ask, ToolTypes
  <2>4. cache \in [Sources -> Nat] /\ \A s \in Sources : cache[s] \in Versions(s)
    BY <1>0, <2>3, VersionTypes
  <2> HIDE DEF v, a, cache
  <2>5. CASE Answered(c, v, cache)
    BY <1>0, <2>1, <2>3, <2>4, <2>5, AnswerTypes DEF ToolTypes
  <2>6. CASE memo' = cache /\ UNCHANGED <<outcome, deps>>
    BY <1>0, <2>1, <2>4, <2>6 DEF ToolTypes
  <2> QED
    BY <2>1, <2>5, <2>6, StoredLeads
<1>8. Good
  BY <1>1, <1>2, <1>3, <1>4, <1>5, <1>6, <1>7 DEF Work
<1>9. /\ stage' \in [Calls -> Stages] /\ DOMAIN outcome' = Calls
      /\ asks' \in [Calls -> Seq(Ask)] /\ todo' \in [Calls -> SUBSET (Sources \cup {Unknown})]
      /\ UNCHANGED <<shown, job>>
  BY <1>0, WorkIsLocal, WorkAskTypes, WorkMoves
<1> HIDE DEF a
<1> QED
  BY <1>0, <1>8, <1>9 DEF ToolTypes

-----------------------------------------------------------------------------
(* The calls of a run.                                                     *)

BusyCalls == {c \in Calls : Busy(c)}

LEMMA BusyIsFinite == IsFiniteSet(BusyCalls) /\ Cardinality(BusyCalls) \in Nat
<1>1. IsFiniteSet(Calls)
  BY FS_Interval, AgentAssumption DEF Calls
<1> QED
  BY <1>1, FS_Subset, FS_CardinalityType DEF BusyCalls

\* The instructions of a turn are written while no tool works.
LEMMA NoneOpen ==
  ASSUME CallsInv, open = 0, NEW c \in Calls
  PROVE  ~Busy(c)
<1>1. open = Cardinality(BusyCalls)
  BY DEF CallsInv, BusyCalls
<1> QED
  BY <1>1, BusyIsFinite, FS_EmptySet DEF BusyCalls

\* What the run does apart from its tools.
LEMMA ElsewhereCounts ==
  ASSUME RunInv, CallInv, Elsewhere
  PROVE  UNCHANGED <<turns, calls, open>> \/ (calls = 0 /\ calls' = 0 /\ open' = 0)
<1>1. CASE Retry
  BY <1>1 DEF Retry, RunInv, RetryInv, CountInv
<1>2. CASE Resume \/ Say \/ EndTurn \/ Complete \/ Deadline \/ ClientGone \/ Close
  BY <1>2 DEF Resume, Say, EndTurn, Complete, Deadline, ClientGone, Close, model
<1> QED
  BY <1>1, <1>2 DEF Elsewhere

LEMMA CallsStep ==
  ASSUME RunInv, CallInv, [ToolsNext]_allVars
  PROVE  CallsInv'
<1>0. ToolTypes /\ CallsInv /\ calls \in Nat /\ open \in Nat /\ open = Cardinality(BusyCalls)
  BY DEF CallInv, CallsInv, RunInv, TypeOK, BusyCalls
<1>1. CASE Call
  <2> DEFINE c == calls + 1
  <2>1. PICK r \in Requests : job' = [job EXCEPT ![c] = r]
    BY <1>1 DEF Call
  <2>2. /\ c \in Calls /\ calls' = c /\ open' = open + 1 /\ turns' = turns
        /\ stage' = [stage EXCEPT ![c] = "planning"] /\ UNCHANGED <<asks, outcome>>
    BY <1>0, <1>1, AgentAssumption DEF Call, CallTool, To, Calls
  <2>3. stage[c] = "none"
    BY <1>0, <2>2 DEF CallsInv
  <2>4. \A d \in Calls : stage'[d] = IF d = c THEN "planning" ELSE stage[d]
    BY <1>0, <2>2 DEF ToolTypes
  <2>5. \A d \in Calls : stage'[d] = "none" <=> d > calls'
    BY <1>0, <2>2, <2>4 DEF CallsInv, Calls
  <2>6. \A d \in Calls : stage'[d] = "none" => asks'[d] = <<>> /\ outcome'[d] = NoOutcome
    BY <1>0, <2>2, <2>4 DEF CallsInv
  <2>7. BusyCalls' = BusyCalls \cup {c} /\ c \notin BusyCalls
    BY <2>2, <2>3, <2>4 DEF BusyCalls, Busy
  <2>8. open' = Cardinality(BusyCalls')
    BY <1>0, <2>2, <2>7, BusyIsFinite, FS_AddElement
  <2>9. \A d \in Calls : Busy(d)' => job'[d].round = turns'
    BY <1>0, <2>1, <2>2, <2>4, RequestTypes DEF CallsInv, ToolTypes, Busy
  <2> QED
    BY <2>5, <2>6, <2>8, <2>9 DEF CallsInv, BusyCalls
<1>2. ASSUME NEW c \in Calls, Return(c) PROVE CallsInv'
  <2>1. /\ stage[c] = "done" /\ stage' = [stage EXCEPT ![c] = "returned"]
        /\ open' = open - 1 /\ UNCHANGED <<turns, calls, job, asks, outcome>>
    BY <1>2 DEF Return, ToolReturns, To
  <2>2. \A d \in Calls : stage'[d] = IF d = c THEN "returned" ELSE stage[d]
    BY <1>0, <2>1 DEF ToolTypes
  <2>3. BusyCalls' = BusyCalls \ {c} /\ c \in BusyCalls
    BY <2>1, <2>2 DEF BusyCalls, Busy
  <2>4. open' = Cardinality(BusyCalls')
    BY <1>0, <2>1, <2>3, BusyIsFinite, FS_RemoveElement
  <2> QED
    BY <1>0, <2>1, <2>2, <2>4 DEF CallsInv, BusyCalls, Busy
<1>3. ASSUME NEW inDeltas \in BOOLEAN, Instruct(inDeltas) PROVE CallsInv'
  <2>1. open = 0 /\ UNCHANGED <<calls, open, job, stage, asks, outcome>>
    BY <1>3 DEF Instruct, BeginTurn, work
  <2>2. \A d \in Calls : ~Busy(d)
    BY <1>0, <2>1, NoneOpen
  <2> QED
    BY <1>0, <2>1, <2>2 DEF CallsInv, Busy
<1>4. ASSUME NEW retryable \in BOOLEAN, Fail(retryable) PROVE CallsInv'
  BY <1>0, <1>4 DEF Fail, Raise, model, work, CallsInv, Busy
<1>5. CASE Elsewhere
  <2>1. UNCHANGED <<job, stage, asks, outcome>>
    BY <1>5 DEF Elsewhere, toolVars, work
  <2>2. CASE UNCHANGED <<turns, calls, open>>
    BY <1>0, <2>1, <2>2 DEF CallsInv, Busy
  <2>3. CASE calls = 0 /\ calls' = 0 /\ open' = 0
    <3>1. \A d \in Calls : stage[d] = "none"
      BY <1>0, <2>3 DEF CallsInv, Calls
    <3>2. BusyCalls' = {}
      BY <2>1, <3>1 DEF BusyCalls, Busy
    <3>3. Cardinality(BusyCalls') = 0
      BY <3>2, FS_EmptySet
    <3> QED
      BY <1>0, <2>1, <2>3, <3>1, <3>3 DEF CallsInv, BusyCalls, Busy
  <2> QED
    BY <1>5, <2>2, <2>3, ElsewhereCounts
<1>6. ASSUME NEW c \in Calls, Work(c) PROVE CallsInv'
  <2>1. UNCHANGED <<turns, calls, open, job>> /\ Doing(c)
    BY <1>0, <1>6, WorkMoves DEF vars, model
  <2>2. /\ stage'[c] \notin {"none", "returned"} /\ stage[c] \notin {"none", "returned"}
        /\ \A d \in Calls \ {c} : stage'[d] = stage[d] /\ outcome'[d] = outcome[d] /\ asks'[d] = asks[d]
    BY <1>0, <1>6, <2>1, WorkIsLocal, WorkAsks DEF Doing
  <2>3. \A d \in Calls : Busy(d)' <=> Busy(d)
    BY <2>2 DEF Busy
  <2>4. BusyCalls' = BusyCalls
    BY <2>3 DEF BusyCalls
  <2> QED
    BY <1>0, <2>1, <2>2, <2>3, <2>4 DEF CallsInv, BusyCalls
<1>7. ASSUME NEW s \in Sources, Edit(s) PROVE CallsInv'
  BY <1>0, <1>7 DEF Edit, vars, model, work, CallsInv, Busy
<1>8. CASE UNCHANGED allVars
  BY <1>0, <1>8 DEF allVars, toolVars, vars, model, work, CallsInv, Busy
<1> QED
  BY <1>1, <1>2, <1>3, <1>4, <1>5, <1>6, <1>7, <1>8 DEF ToolsNext

\* The call that is made is the next one, of which nothing is known yet.
LEMMA CallStarts ==
  ASSUME RunInv, CallInv, Call
  PROVE  /\ calls + 1 \in Calls /\ stage[calls + 1] = "none"
         /\ stage' = [stage EXCEPT ![calls + 1] = "planning"]
         /\ UNCHANGED <<shown, view, memo, flushing, asks, outcome, deps>>
<1>1. calls \in Nat /\ calls < MaxCalls
  BY DEF Call, CallTool, RunInv, TypeOK
<1>2. calls + 1 \in Calls
  BY <1>1, AgentAssumption DEF Calls
<1>3. stage[calls + 1] = "none"
  BY <1>1, <1>2 DEF CallInv, CallsInv
<1> QED
  BY <1>2, <1>3 DEF Call, To

LEMMA TypesStep ==
  ASSUME RunInv, CallInv, [ToolsNext]_allVars
  PROVE  ToolTypes'
<1>0. ToolTypes
  BY DEF CallInv
<1>1. CASE Call
  <2> DEFINE c == calls + 1
  <2>1. PICK r \in Requests :
          /\ job' = [job EXCEPT ![c] = r]
          /\ todo' = [todo EXCEPT ![c] = IF r.tool = "list" THEN Sources ELSE {r.source}]
    BY <1>1 DEF Call
  <2>2. /\ r.tool \in Tools /\ r.source \in Sources \cup {Unknown} /\ r.round \in Nat
    BY RequestTypes DEF RunInv, TypeOK
  <2>3. /\ stage' = [stage EXCEPT ![c] = "planning"] /\ stage[c] = "none" /\ c \in Calls
        /\ UNCHANGED <<shown, view, memo, flushing, asks, outcome>>
    BY <1>1, CallStarts
  <2>4. outcome[c].version = 0
    BY <2>3 DEF CallInv, CallsInv, NoOutcome, Told
  <2> HIDE DEF c
  <2>5. /\ DOMAIN job' = Calls
        /\ \A d \in Calls : job'[d] = IF d = c THEN r ELSE job[d]
    BY <1>0, <2>1 DEF ToolTypes
  <2>6. stage' \in [Calls -> Stages] /\ todo' \in [Calls -> SUBSET (Sources \cup {Unknown})]
    BY <1>0, <2>1, <2>2, <2>3 DEF ToolTypes, Stages
  <2> QED
    BY <1>0, <2>2, <2>3, <2>4, <2>5, <2>6 DEF ToolTypes
<1>2. ASSUME NEW c \in Calls, Return(c) PROVE ToolTypes'
  BY <1>0, <1>2 DEF Return, To, ToolTypes, Stages
<1>3. ASSUME NEW inDeltas \in BOOLEAN, Instruct(inDeltas) PROVE ToolTypes'
  <2>1. /\ view' \in [Sources -> Nat] /\ memo' \in [Sources -> Nat]
        /\ \A s \in Sources : {view'[s], memo'[s]} \subseteq Versions(s)
    <3>1. CASE UNCHANGED <<view, memo>>
      BY <1>0, <3>1 DEF ToolTypes
    <3>2. ASSUME NEW new \in SUBSET (Sources \ Inline),
                 view' = [s \in Sources |-> IF s \in new THEN shown[s] ELSE view[s]],
                 memo' = [s \in Sources |-> IF s \in new THEN 0 ELSE memo[s]]
          PROVE  /\ view' \in [Sources -> Nat] /\ memo' \in [Sources -> Nat]
                 /\ \A s \in Sources : {view'[s], memo'[s]} \subseteq Versions(s)
      BY <1>0, <3>2, VersionTypes DEF ToolTypes
    <3> QED
      BY <1>3, <3>1, <3>2 DEF Instruct
  <2> QED
    BY <1>0, <1>3, <2>1 DEF Instruct, work, ToolTypes
<1>4. ASSUME NEW retryable \in BOOLEAN, Fail(retryable) PROVE ToolTypes'
  BY <1>0, <1>4 DEF Fail, work, ToolTypes
<1>5. CASE Elsewhere
  BY <1>0, <1>5 DEF Elsewhere, toolVars, work, ToolTypes
<1>6. ASSUME NEW c \in Calls, Work(c) PROVE ToolTypes'
  BY <1>6, WorkTypes
<1>7. ASSUME NEW s \in Sources, Edit(s) PROVE ToolTypes'
  <2>1. shown[s] + 1 \in Versions(s) \ {0} /\ shown' = [shown EXCEPT ![s] = @ + 1]
    BY <1>0, <1>7, VersionTypes DEF Edit, Versions, ToolTypes
  <2> QED
    BY <1>0, <1>7, <2>1 DEF Edit, work, ToolTypes
<1>8. CASE UNCHANGED allVars
  BY <1>0, <1>8 DEF allVars, toolVars, work, ToolTypes
<1> QED
  BY <1>1, <1>2, <1>3, <1>4, <1>5, <1>6, <1>7, <1>8 DEF ToolsNext

\* Of one call: see SourceInv.
SourcesOf(c) ==
  /\ job[c].tool # "list" =>
       todo[c] \subseteq {job[c].source} /\ \A i \in DOMAIN asks[c] : asks[c][i].source = job[c].source
  /\ stage[c] # "planning" => asks[c] # <<>>
  /\ \A i, k \in DOMAIN asks[c] : i # k => asks[c][i].source # asks[c][k].source
  /\ \A i \in DOMAIN asks[c] : asks[c][i].source \notin todo[c]

LEMMA WorkSources ==
  ASSUME CallInv, NEW c \in Calls, Work(c), Doing(c)'
  PROVE  SourcesOf(c)'
<1>0. ToolTypes /\ asks[c] \in Seq(Ask) /\ Len(asks[c]) \in Nat /\ DOMAIN asks[c] = 1 .. Len(asks[c])
  BY LenProperties DEF CallInv, ToolTypes
<1>1. SourcesOf(c) /\ job' = job /\ stage'[c] \notin {"done", "clashed", "broken"}
  BY <1>0, WorkMoves DEF CallInv, SourceInv, SourcesOf, Doing
<1>2. ASSUME NEW o, Record(c, o) PROVE FALSE
  BY <1>0, <1>1, <1>2 DEF Record, ToolTypes
<1>3. ASSUME NEW v, NEW cache, Answered(c, v, cache) PROVE FALSE
  BY <1>2, <1>3 DEF Answered
<1>4. ASSUME NEW s \in Sources, PlanAtHand(c, s) PROVE SourcesOf(c)'
  <2>1. asks' = asks /\ todo' = [todo EXCEPT ![c] = @ \ {s}]
        /\ To(c, IF todo[c] = {s} THEN "fetching" ELSE "planning")
        /\ (todo[c] = {s} => asks[c] # <<>>)
    BY <1>3, <1>4, AtHandLeads DEF PlanAtHand, Planning
  <2> QED
    BY <1>0, <1>1, <2>1 DEF SourcesOf, To, ToolTypes
<1>5. ASSUME NEW s \in Sources, PlanDownload(c, s) PROVE SourcesOf(c)'
  <2> DEFINE a == [source |-> s, had |-> view[s], got |-> Failed]
  <2>1. /\ asks' = [asks EXCEPT ![c] = Append(@, a)]
        /\ todo' = [todo EXCEPT ![c] = @ \ {s}] /\ s \in todo[c]
    BY <1>5 DEF PlanDownload, Planning
  <2>2. a \in Ask
    BY <1>0, <1>5, VersionTypes DEF PlanDownload, ToolTypes, Ask, Failed
  <2>3. a.source = s
    OBVIOUS
  <2> HIDE DEF a
  <2>4. /\ asks'[c] = Append(asks[c], a) /\ asks'[c] # <<>> /\ asks'[c] \in Seq(Ask)
        /\ Len(asks'[c]) = Len(asks[c]) + 1
        /\ \A i \in 1 .. Len(asks[c]) : asks'[c][i] = asks[c][i]
        /\ asks'[c][Len(asks[c]) + 1] = a
    BY <1>0, <2>1, <2>2, AppendProperties DEF ToolTypes
  <2>5. DOMAIN asks'[c] = 1 .. Len(asks[c]) + 1
    BY <2>4, LenProperties
  <2>6. todo'[c] = todo[c] \ {s}
    BY <1>0, <2>1 DEF ToolTypes
  <2> HIDE DEF ToolTypes
  <2>7. job[c].tool # "list" =>
          /\ todo'[c] \subseteq {job[c].source}
          /\ \A i \in DOMAIN asks'[c] : asks'[c][i].source = job[c].source
    BY <1>0, <1>1, <2>1, <2>3, <2>4, <2>5, <2>6 DEF SourcesOf
  <2>8. \A i, k \in DOMAIN asks'[c] : i # k => asks'[c][i].source # asks'[c][k].source
    BY <1>0, <1>1, <2>1, <2>3, <2>4, <2>5 DEF SourcesOf
  <2>9. \A i \in DOMAIN asks'[c] : asks'[c][i].source \notin todo'[c]
    BY <1>0, <1>1, <2>3, <2>4, <2>5, <2>6 DEF SourcesOf
  <2> QED
    BY <1>1, <2>4, <2>7, <2>8, <2>9 DEF SourcesOf
<1>6. CASE NotFound(c)
  BY <1>2, <1>6 DEF NotFound
<1>7. CASE Download(c)
  <2>1. PICK good \in SUBSET DOMAIN asks[c] :
          asks' = [asks EXCEPT ![c] = [i \in DOMAIN @ |->
                  [@[i] EXCEPT !.got = IF i \in good THEN shown[asks[c][i].source] ELSE Failed]]]
    BY <1>7 DEF Download
  <2>2. /\ DOMAIN asks'[c] = DOMAIN asks[c]
        /\ \A i \in DOMAIN asks[c] :
             asks'[c][i] = [asks[c][i] EXCEPT !.got = IF i \in good THEN shown[asks[c][i].source] ELSE Failed]
    BY <1>0, <2>1 DEF ToolTypes
  <2>3. \A i \in DOMAIN asks[c] : asks'[c][i].source = asks[c][i].source
    <3>1. \A i \in DOMAIN asks[c] : asks[c][i] \in Ask
      BY <1>0, ElementOfSeq
    <3> QED
      BY <2>2, <3>1 DEF Ask
  <2>4. todo' = todo /\ asks[c] # <<>> /\ stage'[c] = "storing"
    BY <1>0, <1>1, <1>7 DEF Download, To, ToolTypes, SourcesOf
  <2>5. asks'[c] # <<>>
    <3>1. 1 \in DOMAIN asks[c]
      BY <1>0, <2>4, AskTypes
    <3> QED
      BY <2>2, <3>1
  <2> QED
    BY <1>1, <2>2, <2>3, <2>4, <2>5 DEF SourcesOf
<1>8. CASE Refuse(c) \/ Break(c) \/ Clash(c)
  BY <1>0, <1>1, <1>8 DEF Refuse, Break, Clash, To, ToolTypes
<1>9. CASE Flush(c)
  BY <1>0, <1>1, <1>9 DEF Flush, To, ToolTypes, SourcesOf
<1>10. CASE Keep(c) \/ FlushEnds(c)
  <2>1. \E v, cache : Stored(c, v, cache)
    BY <1>10 DEF Keep, FlushEnds
  <2>2. asks' = [asks EXCEPT ![c] = Tail(@)] /\ todo' = todo /\ Tail(asks[c]) # <<>>
    BY <1>3, <2>1, StoredLeads
  <2>3. asks[c] # <<>>
    BY <1>10, HeadIsOwn DEF Keep, FlushEnds
  <2>4. /\ asks'[c] = Tail(asks[c]) /\ asks'[c] # <<>> /\ asks'[c] \in Seq(Ask)
        /\ Len(asks'[c]) = Len(asks[c]) - 1 /\ todo'[c] = todo[c]
        /\ \A i \in 1 .. Len(asks'[c]) : asks'[c][i] = asks[c][i + 1]
    BY <1>0, <2>2, <2>3, AskTypes DEF ToolTypes
  <2>5. DOMAIN asks'[c] = 1 .. Len(asks[c]) - 1
    BY <2>4, LenProperties
  <2>6. \A i \in DOMAIN asks'[c] : asks'[c][i] = asks[c][i + 1] /\ i + 1 \in DOMAIN asks[c]
    BY <1>0, <2>4, <2>5
  <2>7. \A i, k \in DOMAIN asks'[c] : i # k => i + 1 # k + 1
    BY <1>0, <2>5
  <2> QED
    BY <1>1, <2>4, <2>6, <2>7 DEF SourcesOf
<1> QED
  BY <1>4, <1>5, <1>6, <1>7, <1>8, <1>9, <1>10 DEF Work

LEMMA SourceStep ==
  ASSUME RunInv, CallInv, [ToolsNext]_allVars
  PROVE  SourceInv'
<1>0. ToolTypes /\ SourceInv /\ \A c \in Calls : Doing(c) => SourcesOf(c)
  BY DEF CallInv, SourceInv, SourcesOf
<1>1. SUFFICES ASSUME NEW d \in Calls, Doing(d)' PROVE SourcesOf(d)'
  BY DEF SourceInv, SourcesOf
<1>2. CASE Call
  <2> DEFINE c == calls + 1
  <2>1. PICK r \in Requests :
          /\ job' = [job EXCEPT ![c] = r]
          /\ todo' = [todo EXCEPT ![c] = IF r.tool = "list" THEN Sources ELSE {r.source}]
    BY <1>2 DEF Call
  <2>2. stage' = [stage EXCEPT ![c] = "planning"] /\ stage[c] = "none" /\ c \in Calls /\ asks' = asks
    BY <1>2, CallStarts
  <2>3. asks[c] = <<>>
    BY <2>2 DEF CallInv, CallsInv
  <2> HIDE DEF c
  <2>4. CASE d = c
    <3>1. job'[d] = r /\ todo'[d] = IF r.tool = "list" THEN Sources ELSE {r.source}
      BY <1>0, <2>1, <2>4 DEF ToolTypes
    <3>2. DOMAIN asks'[d] = {} /\ stage'[d] = "planning"
      BY <1>0, <2>2, <2>3, <2>4 DEF ToolTypes
    <3> QED
      BY <3>1, <3>2 DEF SourcesOf
  <2>5. CASE d # c
    BY <1>0, <1>1, <2>1, <2>2, <2>5 DEF ToolTypes, Doing, SourcesOf
  <2> QED
    BY <2>4, <2>5
<1>3. ASSUME NEW c \in Calls, Return(c) PROVE SourcesOf(d)'
  BY <1>0, <1>1, <1>3 DEF Return, To, ToolTypes, Doing, SourcesOf
<1>4. ASSUME NEW c \in Calls, Work(c) PROVE SourcesOf(d)'
  <2>1. CASE c = d
    BY <1>1, <1>4, <2>1, WorkSources
  <2>2. CASE c # d
    BY <1>0, <1>1, <1>4, <2>2, WorkMoves, WorkIsLocal, WorkAsks DEF Doing, SourcesOf
  <2> QED
    BY <2>1, <2>2
<1>5. CASE UNCHANGED work
  BY <1>0, <1>1, <1>5 DEF work, Doing, SourcesOf
<1> QED
  BY <1>2, <1>3, <1>4, <1>5 DEF ToolsNext, Elsewhere, Instruct, Fail, Edit, toolVars, allVars

LEMMA FlushStep ==
  ASSUME RunInv, CallInv, [ToolsNext]_allVars
  PROVE  FlushInv'
<1>0. ToolTypes /\ FlushInv /\ 0 \notin Calls
  BY DEF CallInv, Calls
<1>1. CASE Call
  <2>1. /\ stage' = [stage EXCEPT ![calls + 1] = "planning"] /\ stage[calls + 1] = "none" /\ calls + 1 \in Calls
        /\ UNCHANGED <<asks, flushing>>
    BY <1>1, CallStarts
  <2> QED
    BY <1>0, <2>1 DEF FlushInv, ToolTypes
<1>2. ASSUME NEW c \in Calls, Return(c) PROVE FlushInv'
  BY <1>0, <1>2 DEF Return, To, FlushInv, ToolTypes
<1>3. ASSUME NEW c \in Calls, Work(c) PROVE FlushInv'
  <2>1. /\ stage' \in [Calls -> Stages] /\ \A d \in Calls \ {c} : stage'[d] = stage[d] /\ asks'[d] = asks[d]
    BY <1>0, <1>3, WorkIsLocal, WorkAsks
  <2>2. CASE flushing' = flushing /\ stage[c] # "flushing" /\ stage'[c] # "flushing"
    <3>1. flushing # c
      BY <1>0, <2>2 DEF FlushInv
    <3> QED
      BY <1>0, <2>1, <2>2, <3>1 DEF FlushInv, ToolTypes
  <2>3. CASE stage[c] = "flushing" /\ flushing' = 0 /\ stage'[c] # "flushing"
    <3>1. \A d \in Calls \ {c} : stage[d] # "flushing"
      BY <1>0, <2>3 DEF FlushInv
    <3> QED
      BY <1>0, <2>1, <2>3, <3>1 DEF FlushInv
  <2>4. CASE Flush(c)
    <3>1. flushing = 0 /\ flushing' = c /\ stage'[c] = "flushing" /\ asks' = asks /\ Head(asks[c]).got # Failed
      BY <1>0, <2>4 DEF Flush, Clashes, To, ToolTypes
    <3> QED
      BY <1>0, <2>1, <3>1 DEF FlushInv
  <2>5. ASSUME NEW o, Record(c, o) PROVE stage'[c] = "done"
    BY <1>0, <2>5 DEF Record, ToolTypes
  <2>6. ASSUME NEW v, NEW cache, Answered(c, v, cache) PROVE stage'[c] = "done"
    BY <2>5, <2>6 DEF Answered
  <2>7. ASSUME NEW s \in Sources, PlanAtHand(c, s) PROVE FlushInv'
    <3>1. stage[c] = "planning"
      BY <2>7 DEF PlanAtHand, Planning
    <3>2. flushing' = flushing
      BY <2>7, AtHandLeads
    <3>3. Answered(c, view[s], memo) \/ \E st \in {"fetching", "planning"} : To(c, st)
      BY <2>7, AtHandLeads
    <3>4. \A st \in {"fetching", "planning"} : To(c, st) => stage'[c] # "flushing"
      BY <1>0 DEF To, ToolTypes
    <3>5. stage'[c] # "flushing"
      BY <2>6, <3>3, <3>4
    <3> QED
      BY <2>2, <3>1, <3>2, <3>5
  <2>8. ASSUME NEW s \in Sources, PlanDownload(c, s) PROVE FlushInv'
    BY <1>0, <2>2, <2>8 DEF PlanDownload, Planning, Planned, To, ToolTypes
  <2>9. CASE NotFound(c)
    BY <2>2, <2>5, <2>9 DEF NotFound
  <2>10. CASE Refuse(c) \/ Download(c) \/ Clash(c)
    BY <1>0, <2>2, <2>10 DEF Refuse, Download, Clash, To, ToolTypes
  <2>11. CASE Break(c)
    <3>1. stage'[c] = "broken" /\ (flushing = c <=> stage[c] = "flushing")
          /\ flushing' = IF flushing = c THEN 0 ELSE flushing
      BY <1>0, <2>11 DEF Break, To, ToolTypes, FlushInv
    <3> QED
      BY <2>2, <2>3, <3>1
  <2>12. ASSUME NEW v, NEW cache, Stored(c, v, cache) PROVE stage'[c] # "flushing"
    BY <1>0, <2>6, <2>12, StoredLeads DEF To, ToolTypes
  <2>13. CASE Keep(c)
    BY <2>2, <2>12, <2>13 DEF Keep
  <2>14. CASE FlushEnds(c)
    BY <2>3, <2>12, <2>14 DEF FlushEnds
  <2> QED
    BY <1>3, <2>4, <2>7, <2>8, <2>9, <2>10, <2>11, <2>13, <2>14 DEF Work
<1>4. CASE UNCHANGED <<flushing, work>>
  BY <1>0, <1>4 DEF work, FlushInv
<1> QED
  BY <1>1, <1>2, <1>3, <1>4 DEF ToolsNext, Elsewhere, Instruct, Fail, Edit, toolVars, allVars

LEMMA CallInit == ToolsInit => CallInv
<1> SUFFICES ASSUME ToolsInit PROVE CallInv
  OBVIOUS
<1>1. /\ \A c \in Calls : job[c] = NoJob /\ stage[c] = "none" /\ asks[c] = <<>> /\ outcome[c] = NoOutcome
      /\ flushing = 0 /\ calls = 0 /\ open = 0 /\ 0 \notin Calls /\ Calls \subseteq Nat
  BY DEF ToolsInit, Init, Calls
<1>2. ToolTypes
  <2>1. <<>> \in Seq(Ask) /\ NoOutcome.version = 0
    BY EmptySeq DEF NoOutcome, Told
  <2>2. NoJob.tool \in Tools /\ NoJob.source \in Sources \cup {Unknown} /\ NoJob.round \in Nat
    BY DEF NoJob, Tools
  <2>3. /\ shown \in [Sources -> Nat] /\ view \in [Sources -> Nat] /\ memo \in [Sources -> Nat]
        /\ \A s \in Sources : shown[s] \in Versions(s) \ {0} /\ {view[s], memo[s]} \subseteq Versions(s)
    BY VersionTypes DEF ToolsInit
  <2> QED
    BY <1>1, <2>1, <2>2, <2>3 DEF ToolTypes, ToolsInit, Stages
<1>3. CallsInv
  <2>1. BusyCalls = {}
    BY <1>1 DEF BusyCalls, Busy
  <2>2. Cardinality(BusyCalls) = 0
    BY <2>1, FS_EmptySet
  <2> QED
    BY <1>1, <2>2 DEF CallsInv, BusyCalls, Busy, Calls
<1>4. SourceInv /\ FlushInv
  BY <1>1 DEF SourceInv, FlushInv, Doing
<1> QED
  BY <1>2, <1>3, <1>4 DEF CallInv

\* The records of a call agree with where it stands: a call downloads only for
\* itself, one flush is under way at a time, and as many calls are at work as
\* the run has tools open.
THEOREM CallsCorrect == ToolsSpec => [](RunInv /\ CallInv)
<1>1. ToolsSpec => []RunInv
  BY ToolsRunIsARun, TypeCorrect, CountsCorrect, PTL DEF RunInv
<1>2. RunInv /\ CallInv /\ [ToolsNext]_allVars => CallInv'
  BY TypesStep, CallsStep, SourceStep, FlushStep DEF CallInv
<1> QED
  BY <1>1, <1>2, CallInit, PTL DEF ToolsSpec

\* Every record keeps its type: only sources with a URL are downloaded, and
\* what the model is told is of a text its source has shown.
THEOREM ToolTypesCorrect == ToolsSpec => []ToolsTypeOK
<1>1. RunInv /\ CallInv => ToolsTypeOK
  <2> SUFFICES ASSUME RunInv, CallInv PROVE ToolsTypeOK
    OBVIOUS
  <2> DEFINE Asked == [source : Sources \ Inline, had : Nat, got : Nat \cup {Failed}]
  <2>1. \A c \in Calls : asks[c] \in Seq(Asked)
    <3>1. Ask \subseteq Asked
      BY DEF Ask
    <3> HIDE DEF Asked
    <3> TAKE c \in Calls
    <3>2. asks[c] \in Seq(Ask) /\ Len(asks[c]) \in Nat
      BY LenProperties DEF CallInv, ToolTypes
    <3>3. asks[c] \in [1 .. Len(asks[c]) -> Ask]
      BY <3>2, LenProperties
    <3>4. asks[c] \in [1 .. Len(asks[c]) -> Asked]
      BY <3>1, <3>3
    <3> QED
      BY <3>2, <3>4, SeqDef
  <2> HIDE DEF Asked
  <2>2. \A s \in Sources : {shown[s], view[s], memo[s]} \subseteq Versions(s)
    BY DEF CallInv, ToolTypes
  <2> QED
    BY <2>1, <2>2 DEF ToolsTypeOK, RunInv, CallInv, ToolTypes, Stages, Asked
<1> QED
  BY <1>1, CallsCorrect, PTL

-----------------------------------------------------------------------------
(* The chunks of a text.                                                   *)

SomeRaised == \E c \in Calls : Raised(c)

\* A text that was assigned to the document and whose flush is awaited.
NewTextOf(s) ==
  /\ flushing # 0
  /\ Head(asks[flushing]).got # Head(asks[flushing]).had
  /\ Head(asks[flushing]).source = s

\* ChunksAreOfText, and what is being flushed is what the document has.
ChunkInv ==
  \/ SomeRaised
  \/ \A s \in Sources :
       /\ memo[s] \in {0, view[s]} \/ NewTextOf(s)
       /\ NewTextOf(s) => view[s] = Head(asks[flushing]).got

\* A call a tool has raised in never goes on.
LEMMA RaisedStays ==
  ASSUME RunInv, CallInv, [ToolsNext]_allVars, NEW d \in Calls, Raised(d)
  PROVE  Raised(d)'
<1>0. ToolTypes
  BY DEF CallInv
<1>1. CASE Call
  <2>1. stage' = [stage EXCEPT ![calls + 1] = "planning"] /\ stage[calls + 1] = "none"
    BY <1>1, CallStarts
  <2> QED
    BY <1>0, <2>1 DEF Raised, ToolTypes
<1>2. ASSUME NEW c \in Calls, Return(c) PROVE Raised(d)'
  BY <1>0, <1>2 DEF Return, To, Raised, ToolTypes
<1>3. ASSUME NEW c \in Calls, Work(c) PROVE Raised(d)'
  <2>1. c # d
    BY <1>0, <1>3, WorkMoves DEF Doing, Raised
  <2> QED
    BY <1>0, <1>3, <2>1, WorkIsLocal DEF Raised
<1>4. CASE UNCHANGED stage
  BY <1>4 DEF Raised
<1> QED
  BY <1>1, <1>2, <1>3, <1>4 DEF ToolsNext, Elsewhere, Instruct, Fail, Edit, work, toolVars, allVars

\* An answer over the right chunks leaves the right chunks.
LEMMA AnswerChunks ==
  ASSUME ToolTypes, NEW c \in Calls, NEW v, NEW cache \in [Sources -> Nat], Answered(c, v, cache),
         job[c].tool # "list" /\ v # 0 => view[job[c].source] = v,
         NEW s \in Sources, cache[s] \in {0, view[s]}
  PROVE  memo'[s] \in {0, view[s]}
  BY DEF Answered

LEMMA WorkChunks ==
  ASSUME CallInv, ChunkInv, NEW c \in Calls, Work(c), ~SomeRaised, ~SomeRaised'
  PROVE  ChunkInv'
<1> DEFINE a == Head(asks[c])
<1>0. /\ ToolTypes /\ FlushInv /\ 0 \notin Calls /\ memo \in [Sources -> Nat]
      /\ \A s \in Sources :
           /\ memo[s] \in {0, view[s]} \/ NewTextOf(s)
           /\ NewTextOf(s) => view[s] = Head(asks[flushing]).got
  BY DEF CallInv, ChunkInv, Calls, ToolTypes
<1>1. \A d \in Calls \ {c} : asks'[d] = asks[d]
  BY <1>0, WorkAsks
<1>2. ASSUME flushing' = flushing, stage[c] # "flushing", NEW s \in Sources PROVE NewTextOf(s)' <=> NewTextOf(s)
  <2>1. flushing # 0 => flushing \in Calls \ {c}
    BY <1>0, <1>2 DEF FlushInv, ToolTypes
  <2> QED
    BY <1>1, <1>2, <2>1 DEF NewTextOf
<1>3. ASSUME flushing' = flushing, stage[c] # "flushing", view' = view, memo' = memo PROVE ChunkInv'
  <2>1. flushing # 0 => flushing \in Calls \ {c}
    BY <1>0, <1>3 DEF FlushInv, ToolTypes
  <2> QED
    BY <1>0, <1>1, <1>2, <1>3, <2>1 DEF ChunkInv, NewTextOf
<1>4. ASSUME flushing' = flushing, stage[c] # "flushing", view' = view,
             NEW v, Answered(c, v, memo), job[c].tool # "list" /\ v # 0 => view[job[c].source] = v
      PROVE  ChunkInv'
  <2>1. flushing # 0 => flushing \in Calls \ {c}
    BY <1>0, <1>4 DEF FlushInv, ToolTypes
  <2>2. \A s \in Sources : memo[s] \in {0, view[s]} => memo'[s] \in {0, view[s]}
    BY <1>0, <1>4, AnswerChunks
  <2>3. \A s \in Sources : memo'[s] \in {0, view'[s]} \/ NewTextOf(s)'
    BY <1>0, <1>2, <1>4, <2>2
  <2>4. \A s \in Sources : NewTextOf(s)' => view'[s] = Head(asks'[flushing']).got
    BY <1>0, <1>1, <1>2, <1>4, <2>1 DEF NewTextOf
  <2> QED
    BY <2>3, <2>4 DEF ChunkInv
<1>5. ASSUME NEW s \in Sources, PlanAtHand(c, s) PROVE ChunkInv'
  <2>1. stage[c] # "flushing" /\ UNCHANGED <<view, flushing, asks>>
    BY <1>5 DEF PlanAtHand, Planning
  <2>2. CASE todo[c] = {s} /\ Answered(c, view[s], memo)
    <3>1. job[c].tool # "list" => s = job[c].source
      BY <1>5, <2>2 DEF PlanAtHand, Planning, CallInv, SourceInv, Doing
    <3> QED
      BY <1>4, <2>1, <2>2, <3>1
  <2>3. CASE UNCHANGED <<memo, outcome, deps>>
    BY <1>3, <2>1, <2>3
  <2> QED
    BY <1>5, <2>2, <2>3, AtHandLeads
<1>6. ASSUME NEW s \in Sources, PlanDownload(c, s) PROVE ChunkInv'
  BY <1>3, <1>6 DEF PlanDownload, Planning
<1>7. CASE NotFound(c)
  BY <1>3, <1>7 DEF NotFound
<1>8. CASE Download(c)
  BY <1>3, <1>8 DEF Download
<1>9. CASE Refuse(c) \/ Break(c) \/ Clash(c)
  BY <1>0, <1>9 DEF Refuse, Break, Clash, To, SomeRaised, Raised, ToolTypes
<1>10. CASE Keep(c)
  <2> DEFINE v == IF a.had = 0 THEN 0 ELSE view[a.source]
  <2>1. Stored(c, v, memo) /\ UNCHANGED <<view, flushing>> /\ stage[c] = "storing"
    BY <1>10 DEF Keep
  <2>2. CASE Answered(c, v, memo)
    <3>1. job[c].tool # "list" => a.source = job[c].source
      BY <2>1, HeadIsOwn
    <3> QED
      BY <1>4, <2>1, <2>2, <3>1
  <2>3. CASE memo' = memo
    BY <1>3, <2>1, <2>3
  <2> HIDE DEF v
  <2> QED
    BY <2>1, <2>2, <2>3, StoredLeads
<1>11. CASE Flush(c)
  <2>1. a \in Ask /\ a.source \in Sources /\ a.got \in Nat /\ a.got # Failed
    BY <1>11, HeadIsOwn DEF Flush, Ask
  <2>2. /\ flushing = 0 /\ flushing' = c /\ asks' = asks /\ memo' = memo
        /\ view' = IF a.got = a.had THEN view ELSE [view EXCEPT ![a.source] = a.got]
    BY <1>11 DEF Flush, Clashes, Assigned
  <2>3. \A s \in Sources : NewTextOf(s)' <=> a.got # a.had /\ a.source = s
    BY <1>0, <2>2 DEF NewTextOf
  <2>4. \A s \in Sources : memo[s] \in {0, view[s]}
    BY <1>0, <2>2 DEF NewTextOf
  <2> HIDE DEF a
  <2>5. \A s \in Sources : view'[s] = IF a.got # a.had /\ a.source = s THEN a.got ELSE view[s]
    BY <1>0, <2>2 DEF ToolTypes
  <2>6. \A s \in Sources : memo'[s] \in {0, view'[s]} \/ NewTextOf(s)'
    BY <2>2, <2>3, <2>4, <2>5
  <2>7. \A s \in Sources : NewTextOf(s)' => view'[s] = Head(asks'[flushing']).got
    BY <2>2, <2>3, <2>5 DEF a
  <2> QED
    BY <2>6, <2>7 DEF ChunkInv
<1>12. CASE FlushEnds(c)
  <2> DEFINE v == IF a.got = a.had THEN view[a.source] ELSE a.got
             cache == IF a.got = a.had THEN memo ELSE [memo EXCEPT ![a.source] = 0]
  <2>1. Stored(c, v, cache) /\ view' = view /\ flushing' = 0 /\ stage[c] = "flushing" /\ flushing = c
    BY <1>0, <1>12 DEF FlushEnds, FlushInv
  <2>2. a.source \in Sources /\ (job[c].tool # "list" => a.source = job[c].source)
    BY <2>1, HeadIsOwn DEF Ask
  <2>3. \A s \in Sources : NewTextOf(s) <=> a.got # a.had /\ a.source = s
    BY <1>0, <2>1 DEF NewTextOf
  <2>4. a.got # a.had => view[a.source] = a.got
    BY <1>0, <2>1, <2>2, <2>3
  <2>5. v = view[a.source]
    BY <2>4
  <2> HIDE DEF a
  <2>6. cache \in [Sources -> Nat] /\ \A s \in Sources : cache[s] \in {0, view[s]}
    BY <1>0, <2>2, <2>3
  <2> HIDE DEF v, cache
  <2>7. \A s \in Sources : memo'[s] \in {0, view[s]}
    <3>1. CASE Answered(c, v, cache)
      BY <1>0, <2>2, <2>5, <2>6, <3>1, AnswerChunks
    <3>2. CASE memo' = cache
      BY <2>6, <3>2
    <3> QED
      BY <2>1, <3>1, <3>2, StoredLeads
  <2> QED
    BY <2>1, <2>7 DEF ChunkInv, NewTextOf
<1> QED
  BY <1>5, <1>6, <1>7, <1>8, <1>9, <1>10, <1>11, <1>12 DEF Work

LEMMA ChunkStep ==
  ASSUME RunInv, CallInv, ChunkInv, [ToolsNext]_allVars
  PROVE  ChunkInv'
<1>1. CASE SomeRaised
  BY <1>1, RaisedStays DEF SomeRaised, ChunkInv
<1>2. CASE SomeRaised'
  BY <1>2 DEF ChunkInv
<1>3. CASE ~SomeRaised /\ ~SomeRaised'
  <2>0. \A s \in Sources :
          /\ memo[s] \in {0, view[s]} \/ NewTextOf(s)
          /\ NewTextOf(s) => view[s] = Head(asks[flushing]).got
    BY <1>3 DEF ChunkInv
  <2>1. ASSUME NEW c \in Calls, Work(c) PROVE ChunkInv'
    BY <1>3, <2>1, WorkChunks
  <2>2. ASSUME NEW inDeltas \in BOOLEAN, Instruct(inDeltas) PROVE ChunkInv'
    <3>1. open = 0 /\ UNCHANGED <<flushing, asks>>
      BY <2>2 DEF Instruct, BeginTurn, work
    <3>2. flushing = 0
      <4>1. \A c \in Calls : stage[c] # "flushing"
        BY <3>1, NoneOpen DEF CallInv, Busy
      <4> QED
        BY <4>1 DEF CallInv, FlushInv, ToolTypes
    <3>3. \A s \in Sources : memo'[s] \in {0, view'[s]}
      <4>1. \A s \in Sources : memo[s] \in {0, view[s]}
        BY <2>0, <3>2 DEF NewTextOf
      <4> QED
        BY <2>2, <4>1 DEF Instruct
    <3> QED
      BY <3>1, <3>2, <3>3 DEF ChunkInv, NewTextOf
  <2>3. CASE UNCHANGED <<view, memo, flushing, asks>>
    BY <2>0, <2>3 DEF ChunkInv, NewTextOf
  <2> QED
    BY <2>1, <2>2, <2>3
    DEF ToolsNext, Call, Return, Elsewhere, Fail, Edit, work, toolVars, allVars
<1> QED
  BY <1>1, <1>2, <1>3

\* Searches go through chunks of the text the session has, unless that text is
\* still being flushed or the run has broken down: the service forgets the
\* chunks of a text that was replaced before anybody can search it.
THEOREM ChunksStayOfText == ToolsSpec => []ChunksAreOfText
<1>1. ToolsInit => ChunkInv
  BY DEF ToolsInit, ChunkInv, NewTextOf
<1>2. CallInv /\ ChunkInv => ChunksAreOfText
  BY DEF ChunkInv, ChunksAreOfText, SomeRaised, NewTextOf
<1>3. RunInv /\ CallInv /\ ChunkInv /\ [ToolsNext]_allVars => ChunkInv'
  BY ChunkStep
<1> QED
  BY <1>1, <1>2, <1>3, CallsCorrect, PTL DEF ToolsSpec

-----------------------------------------------------------------------------
(* Calls at each other's side.                                             *)

Company(c) == \E d \in Calls \ {c} : stage[d] # "none" /\ job[d].round = job[c].round

\* A call holds that there is no document of a source, and there is one: only
\* another call of its round can have made it, or its own flush just did.
MadeMeanwhile(c) ==
  \A i \in DOMAIN asks[c] :
    asks[c][i].had = 0 /\ view[asks[c][i].source] # 0 =>
      Company(c) \/ (stage[c] = "flushing" /\ i = 1)

CompanyInv ==
  \A c \in Calls : (Clashed(c) => Company(c)) /\ (Doing(c) => MadeMeanwhile(c))

LEMMA BusyMeet ==
  ASSUME CallInv, NEW c \in Calls, NEW d \in Calls \ {c}, Busy(c), Busy(d)
  PROVE  Company(c)
  BY DEF CallInv, CallsInv, Busy, Company

LEMMA OccupiedMeets ==
  ASSUME CallInv, NEW c \in Calls, Busy(c), Occupied(c)
  PROVE  Company(c)
  BY BusyMeet DEF Occupied, Busy

LEMMA StartedStays ==
  ASSUME RunInv, CallInv, [ToolsNext]_allVars, NEW d \in Calls, stage[d] # "none"
  PROVE  stage'[d] # "none" /\ job'[d] = job[d]
<1>0. ToolTypes
  BY DEF CallInv
<1>1. CASE Call
  <2>1. PICK r \in Requests : job' = [job EXCEPT ![calls + 1] = r]
    BY <1>1 DEF Call
  <2>2. stage' = [stage EXCEPT ![calls + 1] = "planning"] /\ stage[calls + 1] = "none"
    BY <1>1, CallStarts
  <2> QED
    BY <1>0, <2>1, <2>2 DEF ToolTypes
<1>2. ASSUME NEW c \in Calls, Return(c) PROVE stage'[d] # "none" /\ job'[d] = job[d]
  BY <1>0, <1>2 DEF Return, To, ToolTypes
<1>3. ASSUME NEW c \in Calls, Work(c) PROVE stage'[d] # "none" /\ job'[d] = job[d]
  BY <1>0, <1>3, WorkMoves, WorkIsLocal
<1>4. CASE UNCHANGED <<job, stage>>
  BY <1>4
<1> QED
  BY <1>1, <1>2, <1>3, <1>4 DEF ToolsNext, Elsewhere, Instruct, Fail, Edit, work, toolVars, allVars

LEMMA CompanyStays ==
  ASSUME RunInv, CallInv, [ToolsNext]_allVars, NEW c \in Calls, stage[c] # "none", Company(c)
  PROVE  Company(c)'
<1>1. PICK d \in Calls \ {c} : stage[d] # "none" /\ job[d].round = job[c].round
  BY DEF Company
<1> QED
  BY <1>1, StartedStays DEF Company

LEMMA WorkCompany ==
  ASSUME RunInv, CallInv, CompanyInv, NEW c \in Calls, Work(c)
  PROVE  (Clashed(c)' => Company(c)') /\ (Doing(c)' => MadeMeanwhile(c)')
<1> DEFINE a == Head(asks[c])
           Fine == (Clashed(c)' => Company(c)') /\ (Doing(c)' => MadeMeanwhile(c)')
<1>0. /\ ToolTypes /\ asks[c] \in Seq(Ask) /\ Len(asks[c]) \in Nat /\ DOMAIN asks[c] = 1 .. Len(asks[c])
      /\ Doing(c) /\ MadeMeanwhile(c) /\ stage[c] # "none"
  BY WorkMoves, LenProperties DEF CallInv, ToolTypes, CompanyInv, Doing
<1>1. [ToolsNext]_allVars
  BY DEF ToolsNext
<1>2. Company(c) => Company(c)'
  BY <1>0, <1>1, CompanyStays
<1>3. ASSUME NEW o, Record(c, o) PROVE Fine
  BY <1>0, <1>3 DEF Record, ToolTypes, Clashed, Doing
<1>4. ASSUME NEW v, NEW cache, Answered(c, v, cache) PROVE Fine
  BY <1>3, <1>4 DEF Answered
<1>5. ASSUME asks' = asks, view' = view, stage[c] # "flushing", stage'[c] # "clashed" PROVE Fine
  BY <1>0, <1>2, <1>5 DEF MadeMeanwhile, Clashed
<1>6. ASSUME NEW s \in Sources, PlanAtHand(c, s) PROVE Fine
  <2>1. CASE Answered(c, view[s], memo)
    BY <1>4, <2>1
  <2>2. CASE To(c, IF todo[c] = {s} THEN "fetching" ELSE "planning") /\ UNCHANGED <<view, asks>>
    BY <1>0, <1>5, <1>6, <2>2 DEF PlanAtHand, Planning, To, ToolTypes
  <2> QED
    BY <1>6, <2>1, <2>2, AtHandLeads
<1>7. ASSUME NEW s \in Sources, PlanDownload(c, s) PROVE Fine
  <2> DEFINE b == [source |-> s, had |-> view[s], got |-> Failed]
  <2>1. /\ asks' = [asks EXCEPT ![c] = Append(@, b)] /\ view' = view
        /\ stage[c] = "planning" /\ stage'[c] # "clashed"
    BY <1>0, <1>7 DEF PlanDownload, Planning, Planned, To, ToolTypes
  <2>2. b \in Ask
    BY <1>0, <1>7, VersionTypes DEF PlanDownload, ToolTypes, Ask, Failed
  <2>3. b.source = s /\ b.had = view[s]
    OBVIOUS
  <2> HIDE DEF b
  <2>4. /\ asks'[c] = Append(asks[c], b) /\ asks'[c] \in Seq(Ask)
        /\ Len(asks'[c]) = Len(asks[c]) + 1
        /\ \A i \in 1 .. Len(asks[c]) : asks'[c][i] = asks[c][i]
        /\ asks'[c][Len(asks[c]) + 1] = b
    BY <1>0, <2>1, <2>2, AppendProperties DEF ToolTypes
  <2>5. DOMAIN asks'[c] = 1 .. Len(asks[c]) + 1
    BY <2>4, LenProperties
  <2>6. MadeMeanwhile(c)'
    BY <1>0, <1>2, <2>1, <2>3, <2>4, <2>5 DEF MadeMeanwhile
  <2> QED
    BY <2>1, <2>6 DEF Clashed
<1>8. ASSUME NotFound(c) PROVE Fine
  BY <1>3, <1>8 DEF NotFound
<1>9. ASSUME Download(c) PROVE Fine
  <2>1. PICK good \in SUBSET DOMAIN asks[c] :
          asks' = [asks EXCEPT ![c] = [i \in DOMAIN @ |->
                  [@[i] EXCEPT !.got = IF i \in good THEN shown[asks[c][i].source] ELSE Failed]]]
    BY <1>9 DEF Download
  <2>2. /\ DOMAIN asks'[c] = DOMAIN asks[c]
        /\ \A i \in DOMAIN asks[c] :
             asks'[c][i] = [asks[c][i] EXCEPT !.got = IF i \in good THEN shown[asks[c][i].source] ELSE Failed]
    BY <1>0, <2>1 DEF ToolTypes
  <2>3. \A i \in DOMAIN asks[c] : asks'[c][i].source = asks[c][i].source /\ asks'[c][i].had = asks[c][i].had
    <3>1. \A i \in DOMAIN asks[c] : asks[c][i] \in Ask
      BY <1>0, ElementOfSeq
    <3> QED
      BY <2>2, <3>1 DEF Ask
  <2>4. view' = view /\ stage[c] = "fetching" /\ stage'[c] = "storing"
    BY <1>0, <1>9 DEF Download, To, ToolTypes
  <2>5. MadeMeanwhile(c)'
    BY <1>0, <1>2, <2>2, <2>3, <2>4 DEF MadeMeanwhile
  <2> QED
    BY <2>4, <2>5 DEF Clashed
<1>10. ASSUME Break(c) PROVE Fine
  BY <1>0, <1>10 DEF Break, To, ToolTypes, Clashed, Doing
<1>11. ASSUME Keep(c) \/ FlushEnds(c) PROVE Fine
  <2>1. (\E v, cache : Stored(c, v, cache)) /\ view' = view /\ stage[c] \in {"storing", "flushing"}
    BY <1>11 DEF Keep, FlushEnds
  <2>2. CASE \E v, cache : Answered(c, v, cache)
    BY <1>4, <2>2
  <2>3. CASE To(c, "storing") /\ asks' = [asks EXCEPT ![c] = Tail(@)] /\ Tail(asks[c]) # <<>>
    <3>1. asks[c] # <<>>
      BY <2>1, HeadIsOwn
    <3>2. /\ asks'[c] = Tail(asks[c]) /\ asks'[c] \in Seq(Ask)
          /\ Len(asks'[c]) = Len(asks[c]) - 1
          /\ \A i \in 1 .. Len(asks'[c]) : asks'[c][i] = asks[c][i + 1]
      BY <1>0, <2>3, <3>1, AskTypes DEF ToolTypes
    <3>3. DOMAIN asks'[c] = 1 .. Len(asks[c]) - 1
      BY <3>2, LenProperties
    <3>4. \A i \in DOMAIN asks'[c] : asks'[c][i] = asks[c][i + 1] /\ i + 1 \in DOMAIN asks[c] /\ i + 1 # 1
      BY <1>0, <3>2, <3>3
    <3>5. MadeMeanwhile(c)'
      BY <1>0, <1>2, <2>1, <3>4 DEF MadeMeanwhile
    <3>6. stage'[c] = "storing"
      BY <1>0, <2>3 DEF To, ToolTypes
    <3> QED
      BY <3>5, <3>6 DEF Clashed
  <2> QED
    BY <2>1, <2>2, <2>3, StoredLeads
<1>12. ASSUME Flush(c) PROVE Fine
  <2>1. /\ view' = Assigned(a) /\ stage[c] = "storing" /\ stage'[c] = "flushing" /\ asks' = asks
    BY <1>0, <1>12 DEF Flush, To, ToolTypes
  <2>2. asks[c] # <<>>
    BY <2>1, HeadIsOwn
  <2>3. a = asks[c][1] /\ 1 \in DOMAIN asks[c] /\ a.source \in Sources
    BY <1>0, <2>2, AskTypes DEF Ask
  <2>4. \A i \in DOMAIN asks[c] : i # 1 => asks[c][i].source # a.source
    BY <1>0, <2>3 DEF CallInv, SourceInv
  <2> HIDE DEF a
  <2>5. \A s : s # a.source => view'[s] = view[s]
    BY <1>0, <2>1, <2>3 DEF Assigned, ToolTypes
  <2>6. MadeMeanwhile(c)'
    BY <1>0, <1>2, <2>1, <2>4, <2>5 DEF MadeMeanwhile
  <2> QED
    BY <2>1, <2>6 DEF Clashed
<1>13. ASSUME Clash(c) PROVE Fine
  <2>1. stage[c] = "storing" /\ stage'[c] = "clashed" /\ (Clashes(a) \/ Occupied(c))
    BY <1>0, <1>13 DEF Clash, To, ToolTypes
  <2>2. asks[c] # <<>>
    BY <2>1, HeadIsOwn
  <2>3. a = asks[c][1] /\ 1 \in DOMAIN asks[c]
    BY <1>0, <2>2, AskTypes
  <2>4. Company(c)
    <3>1. CASE flushing # 0
      <4>1. flushing \in Calls \ {c} /\ stage[flushing] = "flushing"
        BY <1>0, <2>1, <3>1 DEF CallInv, FlushInv, ToolTypes
      <4> QED
        BY <2>1, <4>1, BusyMeet DEF Busy
    <3>2. CASE a.had = 0 /\ view[a.source] # 0
      BY <1>0, <2>1, <2>3, <3>2 DEF MadeMeanwhile
    <3>3. CASE Occupied(c)
      BY <2>1, <3>3, OccupiedMeets DEF Busy
    <3> QED
      BY <2>1, <3>1, <3>2, <3>3 DEF Clashes
  <2> QED
    BY <1>2, <2>1, <2>4 DEF Doing
<1>14. ASSUME Refuse(c) PROVE Fine
  <2>1. stage[c] = "planning" /\ stage'[c] = "clashed" /\ Occupied(c)
    BY <1>0, <1>14 DEF Refuse, To, ToolTypes
  <2>2. Company(c)
    BY <2>1, OccupiedMeets DEF Busy
  <2> QED
    BY <1>2, <2>1, <2>2 DEF Doing
<1> QED
  BY <1>6, <1>7, <1>8, <1>9, <1>10, <1>11, <1>12, <1>13, <1>14 DEF Work

LEMMA CompanyStep ==
  ASSUME RunInv, CallInv, CompanyInv, [ToolsNext]_allVars
  PROVE  CompanyInv'
<1>0. ToolTypes
  BY DEF CallInv
<1>1. SUFFICES ASSUME NEW c \in Calls PROVE (Clashed(c)' => Company(c)') /\ (Doing(c)' => MadeMeanwhile(c)')
  BY DEF CompanyInv
<1>2. (Clashed(c) => Company(c)) /\ (Doing(c) => MadeMeanwhile(c))
  BY DEF CompanyInv
<1>3. stage[c] # "none" => (Company(c) => Company(c)')
  BY CompanyStays
<1>4. ASSUME stage'[c] = stage[c], asks'[c] = asks[c], view' = view
      PROVE  (Clashed(c)' => Company(c)') /\ (Doing(c)' => MadeMeanwhile(c)')
  BY <1>2, <1>3, <1>4 DEF Clashed, Doing, MadeMeanwhile
<1>5. CASE Call
  <2>1. /\ stage' = [stage EXCEPT ![calls + 1] = "planning"] /\ stage[calls + 1] = "none"
        /\ UNCHANGED <<view, asks>> /\ calls + 1 \in Calls
    BY <1>5, CallStarts
  <2>2. CASE c = calls + 1
    <3>1. asks'[c] = <<>> /\ stage'[c] = "planning"
      BY <1>0, <2>1, <2>2 DEF CallInv, CallsInv, ToolTypes
    <3>2. DOMAIN asks'[c] = {}
      BY <3>1
    <3> QED
      BY <3>1, <3>2 DEF Clashed, MadeMeanwhile
  <2>3. CASE c # calls + 1
    BY <1>0, <1>4, <2>1, <2>3 DEF ToolTypes
  <2> QED
    BY <2>2, <2>3
<1>6. ASSUME NEW d \in Calls, Return(d)
      PROVE  (Clashed(c)' => Company(c)') /\ (Doing(c)' => MadeMeanwhile(c)')
  <2>1. stage' = [stage EXCEPT ![d] = "returned"] /\ UNCHANGED <<view, asks>>
    BY <1>6 DEF Return, To
  <2>2. CASE c = d
    BY <1>0, <2>1, <2>2 DEF ToolTypes, Clashed, Doing
  <2>3. CASE c # d
    BY <1>0, <1>4, <2>1, <2>3 DEF ToolTypes
  <2> QED
    BY <2>2, <2>3
<1>7. ASSUME NEW inDeltas \in BOOLEAN, Instruct(inDeltas)
      PROVE  (Clashed(c)' => Company(c)') /\ (Doing(c)' => MadeMeanwhile(c)')
  <2>1. open = 0 /\ stage' = stage
    BY <1>7 DEF Instruct, BeginTurn, work
  <2>2. ~Busy(c)
    BY <2>1, NoneOpen DEF CallInv
  <2> QED
    BY <2>1, <2>2 DEF Busy, Clashed, Doing
<1>8. ASSUME NEW d \in Calls, Work(d)
      PROVE  (Clashed(c)' => Company(c)') /\ (Doing(c)' => MadeMeanwhile(c)')
  <2>1. CASE c = d
    BY <1>8, <2>1, WorkCompany
  <2>2. CASE c # d
    <3>1. stage'[c] = stage[c] /\ asks'[c] = asks[c] /\ Doing(d)
      BY <1>0, <1>8, <2>2, WorkIsLocal, WorkAsks, WorkMoves
    <3>2. CASE Doing(c)
      <4>1. Company(c)
        BY <2>2, <3>1, <3>2, BusyMeet DEF Busy, Doing
      <4>2. Company(c)'
        BY <1>3, <3>2, <4>1 DEF Doing
      <4> QED
        BY <4>2 DEF MadeMeanwhile
    <3>3. CASE ~Doing(c)
      BY <1>2, <1>3, <3>1, <3>3 DEF Doing, Clashed
    <3> QED
      BY <3>2, <3>3
  <2> QED
    BY <2>1, <2>2
<1>9. CASE UNCHANGED <<view, stage, asks>>
  BY <1>4, <1>9
<1> QED
  BY <1>5, <1>6, <1>7, <1>8, <1>9 DEF ToolsNext, Elsewhere, Fail, Edit, work, toolVars, allVars

\* The session of the request fails a tool only where two calls of one round
\* share it: a model that calls its tools one by one never meets the error.
THEOREM CallsAloneDoNotClash == ToolsSpec => []OnlyCompanyClashes
<1>1. ToolsInit => CompanyInv
  BY DEF ToolsInit, CompanyInv, Clashed, Doing
<1>2. CompanyInv => OnlyCompanyClashes
  BY DEF CompanyInv, OnlyCompanyClashes, Company
<1>3. RunInv /\ CallInv /\ CompanyInv /\ [ToolsNext]_allVars => CompanyInv'
  BY CompanyStep
<1> QED
  BY <1>1, <1>2, <1>3, CallsCorrect, PTL DEF ToolsSpec

-----------------------------------------------------------------------------
(* What is left for the DONE event.                                        *)

IsSeq(x) == \E S : x \in Seq(S)

LEMMA AppendToSeq ==
  ASSUME NEW x, IsSeq(x), NEW e
  PROVE  /\ Len(x) \in Nat /\ DOMAIN x = 1 .. Len(x)
         /\ IsSeq(Append(x, e)) /\ DOMAIN Append(x, e) = 1 .. Len(x) + 1
         /\ \A i \in 1 .. Len(x) : Append(x, e)[i] = x[i]
         /\ Append(x, e)[Len(x) + 1] = e
<1>1. PICK S : x \in Seq(S)
  BY DEF IsSeq
<1> DEFINE T == S \cup {e}
<1>2. Len(x) \in Nat /\ x \in [1 .. Len(x) -> S] /\ DOMAIN x = 1 .. Len(x)
  BY <1>1, LenProperties
<1>3. x \in [1 .. Len(x) -> T]
  BY <1>2
<1>4. x \in Seq(T) /\ e \in T
  BY <1>2, <1>3, SeqDef
<1> HIDE DEF T
<1>5. Append(x, e) \in Seq(T) /\ Len(Append(x, e)) = Len(x) + 1
  BY <1>4, AppendProperties
<1>6. DOMAIN Append(x, e) = 1 .. Len(x) + 1
  BY <1>5, LenProperties
<1>7. /\ \A i \in 1 .. Len(x) : Append(x, e)[i] = x[i]
      /\ Append(x, e)[Len(x) + 1] = e
  BY <1>4, AppendProperties
<1> QED
  BY <1>2, <1>5, <1>6, <1>7 DEF IsSeq

\* Each call that is over has its record and no other call has one.
ReportInv ==
  /\ IsSeq(invocations)
  /\ \A i \in DOMAIN invocations :
       \E c \in Calls : Over(c) /\ invocations[i] = [call |-> c, ok |-> outcome[c].ok]
  /\ \A c \in Calls : Over(c) => \E i \in DOMAIN invocations : invocations[i].call = c
  /\ \A i, k \in DOMAIN invocations : invocations[i].call = invocations[k].call => i = k

LEMMA RecordReports ==
  ASSUME ToolTypes, ReportInv, NEW c \in Calls, ~Over(c), NEW o, Record(c, o)
  PROVE  ReportInv'
<1> DEFINE r == [call |-> c, ok |-> o.ok]
           n == Len(invocations)
<1>1. /\ outcome'[c] = o /\ stage'[c] = "done" /\ invocations' = Append(invocations, r)
      /\ \A d \in Calls \ {c} : outcome'[d] = outcome[d] /\ stage'[d] = stage[d]
  BY DEF Record, ToolTypes
<1>2. r.call = c /\ r = [call |-> c, ok |-> outcome'[c].ok]
  BY <1>1
<1> HIDE DEF r
<1>3. /\ n \in Nat /\ DOMAIN invocations = 1 .. n /\ IsSeq(invocations') /\ DOMAIN invocations' = 1 .. n + 1
      /\ \A i \in 1 .. n : invocations'[i] = invocations[i]
      /\ invocations'[n + 1] = r
  BY <1>1, AppendToSeq DEF ReportInv
<1> HIDE DEF n
<1>4. \A i \in DOMAIN invocations : invocations[i].call # c
  <2> TAKE i \in DOMAIN invocations
  <2>1. PICK d \in Calls : Over(d) /\ invocations[i] = [call |-> d, ok |-> outcome[d].ok]
    BY DEF ReportInv
  <2>2. invocations[i].call = d
    BY <2>1
  <2> QED
    BY <2>1, <2>2
<1>5. ASSUME NEW i \in DOMAIN invocations'
      PROVE  \E d \in Calls : Over(d)' /\ invocations'[i] = [call |-> d, ok |-> outcome'[d].ok]
  <2>1. CASE i = n + 1
    BY <1>1, <1>2, <1>3, <2>1 DEF Over
  <2>2. CASE i \in 1 .. n
    <3>1. PICK d \in Calls : Over(d) /\ invocations[i] = [call |-> d, ok |-> outcome[d].ok]
      BY <1>3, <2>2 DEF ReportInv
    <3>2. d # c
      BY <3>1
    <3> QED
      BY <1>1, <1>3, <2>2, <3>1, <3>2 DEF Over
  <2> QED
    BY <1>3, <1>5, <2>1, <2>2
<1>6. ASSUME NEW d \in Calls, Over(d)' PROVE \E i \in DOMAIN invocations' : invocations'[i].call = d
  <2>1. CASE d = c
    <3>1. n + 1 \in DOMAIN invocations'
      BY <1>3
    <3> QED
      BY <1>2, <1>3, <2>1, <3>1
  <2>2. CASE d # c
    <3>1. PICK i \in DOMAIN invocations : invocations[i].call = d
      BY <1>1, <1>6, <2>2 DEF Over, ReportInv
    <3> QED
      BY <1>3, <3>1
  <2> QED
    BY <2>1, <2>2
<1>7. ASSUME NEW i \in DOMAIN invocations', NEW k \in DOMAIN invocations',
             invocations'[i].call = invocations'[k].call
      PROVE  i = k
  <2>1. i \in 1 .. n + 1 /\ k \in 1 .. n + 1
    BY <1>3
  <2>2. \A x \in 1 .. n : invocations'[x].call # c /\ invocations'[x] = invocations[x]
    BY <1>3, <1>4
  <2>3. CASE i = n + 1 \/ k = n + 1
    BY <1>2, <1>3, <1>7, <2>1, <2>2, <2>3
  <2>4. CASE i \in 1 .. n /\ k \in 1 .. n
    BY <1>3, <1>7, <2>2, <2>4 DEF ReportInv
  <2> QED
    BY <1>3, <2>1, <2>3, <2>4
<1> QED
  BY <1>3, <1>5, <1>6, <1>7 DEF ReportInv

LEMMA ReportStep ==
  ASSUME RunInv, CallInv, ReportInv, [ToolsNext]_allVars
  PROVE  ReportInv'
<1>0. ToolTypes
  BY DEF CallInv
<1>1. ASSUME \A d \in Calls : (Over(d)' <=> Over(d)) /\ (Over(d) => outcome'[d] = outcome[d]),
             invocations' = invocations
      PROVE  ReportInv'
  BY <1>1 DEF ReportInv
<1>2. CASE Call
  BY <1>0, <1>1, <1>2, CallStarts DEF Over, deps, ToolTypes
<1>3. ASSUME NEW c \in Calls, Return(c) PROVE ReportInv'
  BY <1>0, <1>1, <1>3 DEF Return, To, Over, deps, ToolTypes
<1>4. ASSUME NEW c \in Calls, Work(c) PROVE ReportInv'
  <2>1. Doing(c) /\ (Moves(c) \/ Answers(c))
    BY <1>0, <1>4, WorkMoves
  <2>2. ~Over(c)
    BY <2>1 DEF Doing, Over
  <2>3. CASE Moves(c)
    <3>1. UNCHANGED <<outcome, invocations>> /\ stage'[c] \notin {"done", "returned"}
      BY <1>0, <2>3 DEF Moves, To, deps, ToolTypes
    <3>2. \A d \in Calls \ {c} : stage'[d] = stage[d]
      BY <1>0, <1>4, WorkIsLocal
    <3> QED
      BY <1>1, <2>2, <3>1, <3>2 DEF Over
  <2>4. CASE Answers(c)
    BY <1>0, <2>2, <2>4, RecordReports DEF Answers
  <2> QED
    BY <2>1, <2>3, <2>4
<1>5. ASSUME NEW retryable \in BOOLEAN, Fail(retryable) PROVE ReportInv'
  <2>1. UNCHANGED <<stage, outcome, calls>>
    BY <1>5 DEF Fail, Raise, work, model
  <2>2. CASE at' = "sleeping"
    <3>1. ~emitted /\ calls = 0
      BY <1>5, <2>2 DEF Fail, Raise, RunInv, CountInv
    <3>2. \A d \in Calls : ~Over(d)
      BY <3>1 DEF CallInv, CallsInv, Over, Calls
    <3>3. invocations' = <<>> /\ IsSeq(<<>>) /\ DOMAIN invocations' = {}
      <4>1. <<>> \in Seq({})
        BY EmptySeq
      <4> QED
        BY <1>5, <2>2, <4>1 DEF Fail, IsSeq
    <3> QED
      BY <2>1, <3>2, <3>3 DEF ReportInv, Over
  <2>3. CASE UNCHANGED deps
    BY <1>1, <2>1, <2>3 DEF deps, Over
  <2> QED
    BY <1>5, <2>2, <2>3 DEF Fail
<1>6. CASE UNCHANGED <<stage, outcome, invocations>>
  BY <1>1, <1>6 DEF Over
<1> QED
  BY <1>2, <1>3, <1>4, <1>5, <1>6
  DEF ToolsNext, Elsewhere, Instruct, Edit, work, deps, toolVars, allVars

LEMMA ReportInit == ToolsInit => ReportInv
<1>1. <<>> \in Seq({})
  BY EmptySeq
<1> QED
  BY <1>1 DEF ToolsInit, ReportInv, Over, IsSeq

\* The DONE event of an answer lists every call of the run once, with how it
\* went: the records of an attempt that is repeated are not among them, and no
\* call is still under way when the model has nothing more to ask.
THEOREM ReportsAreComplete == ToolsSpec => []EveryCallReported
<1>1. RunInv /\ CallInv /\ ReportInv => EveryCallReported
  <2> SUFFICES ASSUME RunInv, CallInv, ReportInv, at = "answered" PROVE
        /\ \A c \in 1 .. calls : \E i \in DOMAIN invocations :
             invocations[i] = [call |-> c, ok |-> outcome[c].ok]
        /\ \A i, k \in DOMAIN invocations :
             invocations[i].call \in 1 .. calls /\ (invocations[i].call = invocations[k].call => i = k)
    BY DEF EveryCallReported
  <2>1. open = 0 /\ calls \in Nat /\ calls <= MaxCalls
    BY DEF RunInv, CountInv, TypeOK
  <2>2. ASSUME NEW c \in 1 .. calls PROVE c \in Calls /\ Over(c)
    <3>1. c \in Calls
      BY <2>1, AgentAssumption DEF Calls
    <3>2. ~Busy(c)
      BY <2>1, <3>1, NoneOpen DEF CallInv
    <3>3. stage[c] # "none"
      BY <2>1, <3>1 DEF CallInv, CallsInv
    <3> QED
      BY <3>1, <3>2, <3>3 DEF Busy, Over
  <2>3. ASSUME NEW i \in DOMAIN invocations
        PROVE  /\ invocations[i].call \in Calls /\ Over(invocations[i].call)
               /\ invocations[i] = [call |-> invocations[i].call, ok |-> outcome[invocations[i].call].ok]
    <3>1. PICK d \in Calls : Over(d) /\ invocations[i] = [call |-> d, ok |-> outcome[d].ok]
      BY DEF ReportInv
    <3>2. invocations[i].call = d
      BY <3>1
    <3> QED
      BY <3>1, <3>2
  <2>4. ASSUME NEW c \in 1 .. calls
        PROVE  \E i \in DOMAIN invocations : invocations[i] = [call |-> c, ok |-> outcome[c].ok]
    <3>1. PICK i \in DOMAIN invocations : invocations[i].call = c
      BY <2>2 DEF ReportInv
    <3> QED
      BY <2>3, <3>1
  <2>5. ASSUME NEW i \in DOMAIN invocations PROVE invocations[i].call \in 1 .. calls
    BY <2>1, <2>3 DEF CallInv, CallsInv, Over, Calls
  <2> QED
    BY <2>4, <2>5 DEF ReportInv
<1>2. RunInv /\ CallInv /\ ReportInv /\ [ToolsNext]_allVars => ReportInv'
  BY ReportStep
<1> QED
  BY <1>1, <1>2, ReportInit, CallsCorrect, PTL DEF ToolsSpec

-----------------------------------------------------------------------------
(* Citations.                                                              *)

Cited(s) == \E k \in DOMAIN citations : citations[k].source = s

\* CitationsAreFirstQuotes, of every source a call may name.
FirstQuote(k, i) ==
  /\ Quotes(i, citations[k].source)
  /\ citations[k].quote = outcome[invocations[i].call].quote
  /\ \A e \in 1 .. i - 1 : ~Quotes(e, citations[k].source)

CitationInv ==
  /\ IsSeq(citations)
  /\ \A i \in DOMAIN invocations : \A s : Quotes(i, s) => Cited(s)
  /\ \A k, l \in DOMAIN citations : citations[k].source = citations[l].source => k = l
  /\ \A k \in DOMAIN citations : \E i \in DOMAIN invocations : FirstQuote(k, i)

LEMMA RecordCites ==
  ASSUME ToolTypes, ReportInv, CitationInv, NEW c \in Calls, ~Over(c), NEW o, Record(c, o), job' = job
  PROVE  CitationInv'
<1> DEFINE r == [call |-> c, ok |-> o.ok]
           q == [source |-> job[c].source, quote |-> o.quote]
<1>0. /\ Len(invocations) \in Nat /\ DOMAIN invocations = 1 .. Len(invocations)
      /\ Len(citations) \in Nat /\ DOMAIN citations = 1 .. Len(citations)
  BY AppendToSeq DEF ReportInv, CitationInv
<1> PICK n \in Nat : n = Len(invocations)
  BY <1>0
<1> PICK m \in Nat : m = Len(citations)
  BY <1>0
<1> PICK own : own = job[c].source
  OBVIOUS
<1>1. /\ outcome'[c] = o /\ invocations' = Append(invocations, r)
      /\ citations' = IF o.quote = Nothing \/ Cited(own) THEN citations ELSE Append(citations, q)
      /\ \A d \in Calls \ {c} : outcome'[d] = outcome[d]
  BY DEF Record, Remember, Cited, ToolTypes
<1>2. r.call = c /\ q.source = own /\ q.quote = o.quote
  OBVIOUS
<1> HIDE DEF r, q
<1>3. /\ n \in Nat /\ DOMAIN invocations = 1 .. n /\ DOMAIN invocations' = 1 .. n + 1
      /\ \A i \in 1 .. n : invocations'[i] = invocations[i]
      /\ invocations'[n + 1] = r
  BY <1>1, AppendToSeq DEF ReportInv
<1>4. /\ m \in Nat /\ DOMAIN citations = 1 .. m /\ IsSeq(Append(citations, q))
      /\ DOMAIN Append(citations, q) = 1 .. m + 1
      /\ \A k \in 1 .. m : Append(citations, q)[k] = citations[k]
      /\ Append(citations, q)[m + 1] = q
  BY AppendToSeq DEF CitationInv
<1>5. \A i \in 1 .. n : invocations[i].call \in Calls \ {c}
  <2> TAKE i \in 1 .. n
  <2>1. PICK d \in Calls : Over(d) /\ invocations[i] = [call |-> d, ok |-> outcome[d].ok]
    BY <1>3 DEF ReportInv
  <2>2. invocations[i].call = d
    BY <2>1
  <2> QED
    BY <2>1, <2>2
\* What was quoted stays so; the new record quotes what this call was given.
<1>6. \A i \in 1 .. n : \A s : Quotes(i, s)' <=> Quotes(i, s)
  BY <1>1, <1>3, <1>5 DEF Quotes
<1>7. \A i \in 1 .. n : outcome'[invocations'[i].call] = outcome[invocations[i].call]
  BY <1>1, <1>3, <1>5
<1>8. \A s : Quotes(n + 1, s)' <=> own = s /\ o.quote # Nothing
  BY <1>1, <1>2, <1>3 DEF Quotes
<1>9. \A k \in 1 .. m : k \in DOMAIN citations' /\ citations'[k] = citations[k]
  BY <1>1, <1>4
<1>10. \A s : Cited(s) => Cited(s)'
  BY <1>4, <1>9 DEF Cited
<1>11. ASSUME NEW k \in 1 .. m PROVE \E i \in DOMAIN invocations' : FirstQuote(k, i)'
  <2>1. PICK i \in DOMAIN invocations : FirstQuote(k, i)
    BY <1>4 DEF CitationInv
  <2>2. i \in 1 .. n /\ \A e \in 1 .. i - 1 : e \in 1 .. n
    BY <1>3, <2>1
  <2>3. FirstQuote(k, i)'
    BY <1>6, <1>7, <1>9, <2>1, <2>2 DEF FirstQuote
  <2> QED
    BY <1>3, <2>2, <2>3
<1>12. CASE o.quote = Nothing \/ Cited(own)
  <2>1. citations' = citations
    BY <1>1, <1>12
  <2>2. \A i \in DOMAIN invocations' : \A s : Quotes(i, s)' => Cited(s)'
    <3> TAKE i \in DOMAIN invocations'
    <3> TAKE s
    <3>1. CASE i \in 1 .. n
      BY <1>3, <1>6, <1>10, <3>1 DEF CitationInv
    <3>2. CASE i = n + 1
      BY <1>8, <1>10, <1>12, <3>2
    <3> QED
      BY <1>3, <3>1, <3>2
  <2> QED
    BY <1>4, <1>11, <2>1, <2>2 DEF CitationInv
<1>13. CASE o.quote # Nothing /\ ~Cited(own)
  <2>1. /\ IsSeq(citations') /\ DOMAIN citations' = 1 .. m + 1 /\ citations'[m + 1] = q
    BY <1>1, <1>4, <1>13
  <2>2. Cited(own)'
    <3>1. m + 1 \in DOMAIN citations'
      BY <1>4, <2>1
    <3> QED
      BY <1>2, <2>1, <3>1 DEF Cited
  <2>3. \A i \in DOMAIN invocations' : \A s : Quotes(i, s)' => Cited(s)'
    <3> TAKE i \in DOMAIN invocations'
    <3> TAKE s
    <3>1. CASE i \in 1 .. n
      BY <1>3, <1>6, <1>10, <3>1 DEF CitationInv
    <3>2. CASE i = n + 1
      BY <1>8, <2>2, <3>2
    <3> QED
      BY <1>3, <3>1, <3>2
  <2>4. \A k \in 1 .. m : citations'[k].source # own
    BY <1>4, <1>9, <1>13 DEF Cited
  <2>5. ASSUME NEW k \in DOMAIN citations', NEW l \in DOMAIN citations',
               citations'[k].source = citations'[l].source
        PROVE  k = l
    <3>1. k \in 1 .. m + 1 /\ l \in 1 .. m + 1
      BY <2>1
    <3>2. CASE k = m + 1 \/ l = m + 1
      BY <1>2, <1>4, <2>1, <2>4, <2>5, <3>1, <3>2
    <3>3. CASE k \in 1 .. m /\ l \in 1 .. m
      BY <1>4, <1>9, <2>5, <3>3 DEF CitationInv
    <3> QED
      BY <1>4, <3>1, <3>2, <3>3
  <2>6. \E i \in DOMAIN invocations' : FirstQuote(m + 1, i)'
    <3>1. Quotes(n + 1, own)' /\ outcome'[invocations'[n + 1].call].quote = o.quote
      BY <1>1, <1>2, <1>3, <1>8, <1>13
    <3>2. \A e \in 1 .. n : ~Quotes(e, own)'
      BY <1>3, <1>6, <1>13 DEF CitationInv
    <3>3. (n + 1) - 1 = n /\ n + 1 \in DOMAIN invocations'
      BY <1>3
    <3>4. FirstQuote(m + 1, n + 1)'
      BY <1>2, <2>1, <3>1, <3>2, <3>3 DEF FirstQuote
    <3> QED
      BY <3>3, <3>4
  <2>7. \A k \in DOMAIN citations' : \E i \in DOMAIN invocations' : FirstQuote(k, i)'
    <3> TAKE k \in DOMAIN citations'
    <3>1. CASE k \in 1 .. m
      BY <1>11, <3>1
    <3>2. CASE k = m + 1
      BY <2>6, <3>2
    <3> QED
      BY <1>4, <2>1, <3>1, <3>2
  <2> QED
    BY <2>1, <2>3, <2>5, <2>7 DEF CitationInv
<1> QED
  BY <1>12, <1>13

LEMMA CitationStep ==
  ASSUME RunInv, CallInv, ReportInv, CitationInv, [ToolsNext]_allVars
  PROVE  CitationInv'
<1>0. ToolTypes
  BY DEF CallInv
<1>1. ASSUME \A d \in Calls : Over(d) => job'[d] = job[d] /\ outcome'[d] = outcome[d],
             UNCHANGED deps
      PROVE  CitationInv'
  <2>1. \A i \in DOMAIN invocations : Over(invocations[i].call) /\ invocations[i].call \in Calls
    <3> TAKE i \in DOMAIN invocations
    <3>1. PICK d \in Calls : Over(d) /\ invocations[i] = [call |-> d, ok |-> outcome[d].ok]
      BY DEF ReportInv
    <3>2. invocations[i].call = d
      BY <3>1
    <3> QED
      BY <3>1, <3>2
  <2>2. \A i \in DOMAIN invocations : \A s : Quotes(i, s)' <=> Quotes(i, s)
    BY <1>1, <2>1 DEF Quotes, deps
  <2>3. \A i \in DOMAIN invocations : outcome'[invocations[i].call] = outcome[invocations[i].call]
    BY <1>1, <2>1
  <2>4. \A s : Cited(s)' <=> Cited(s)
    BY <1>1 DEF Cited, deps
  <2>5. ASSUME NEW k \in DOMAIN citations PROVE \E i \in DOMAIN invocations' : FirstQuote(k, i)'
    <3>1. PICK i \in DOMAIN invocations : FirstQuote(k, i)
      BY DEF CitationInv
    <3>2. \A e \in 1 .. i - 1 : e \in DOMAIN invocations
      BY <3>1, AppendToSeq DEF ReportInv
    <3>3. FirstQuote(k, i)'
      BY <1>1, <2>2, <2>3, <3>1, <3>2 DEF FirstQuote, deps
    <3> QED
      BY <1>1, <3>1, <3>3 DEF deps
  <2> QED
    BY <1>1, <2>2, <2>4, <2>5 DEF CitationInv, deps
<1>2. CASE Call
  <2>1. \A d \in Calls : Over(d) => job'[d] = job[d]
    BY <1>2, StartedStays DEF ToolsNext, Over
  <2> QED
    BY <1>1, <1>2, <2>1, CallStarts
<1>3. ASSUME NEW c \in Calls, Work(c) PROVE CitationInv'
  <2>1. Doing(c) /\ (Moves(c) \/ Answers(c)) /\ job' = job
    BY <1>0, <1>3, WorkMoves
  <2>2. ~Over(c)
    BY <2>1 DEF Doing, Over
  <2>3. CASE Moves(c)
    BY <1>1, <2>1, <2>3 DEF Moves
  <2>4. CASE Answers(c)
    BY <1>0, <2>1, <2>2, <2>4, RecordCites DEF Answers
  <2> QED
    BY <2>1, <2>3, <2>4
<1>4. ASSUME NEW retryable \in BOOLEAN, Fail(retryable) PROVE CitationInv'
  <2>1. CASE at' = "sleeping"
    <3>1. invocations' = <<>> /\ citations' = <<>> /\ DOMAIN invocations' = {} /\ DOMAIN citations' = {}
      BY <1>4, <2>1 DEF Fail
    <3>2. IsSeq(<<>>)
      BY EmptySeq DEF IsSeq
    <3> QED
      BY <3>1, <3>2 DEF CitationInv
  <2>2. CASE UNCHANGED deps
    BY <1>1, <1>4, <2>2 DEF Fail, work
  <2> QED
    BY <1>4, <2>1, <2>2 DEF Fail
<1>5. CASE UNCHANGED <<job, outcome, deps>>
  BY <1>1, <1>5
<1> QED
  BY <1>2, <1>3, <1>4, <1>5
  DEF ToolsNext, Return, Elsewhere, Instruct, Edit, work, toolVars, allVars

\* The citations of an answer are the sources the model was given text of, each
\* with the first stretch of it, whatever order the calls of a round end in.
THEOREM CitationsCorrect == ToolsSpec => []CitationsAreFirstQuotes
<1>1. ToolsInit => CitationInv
  <2>1. <<>> \in Seq({})
    BY EmptySeq
  <2> QED
    BY <2>1 DEF ToolsInit, CitationInv, IsSeq
<1>2. CitationInv => CitationsAreFirstQuotes
  BY DEF CitationInv, CitationsAreFirstQuotes, Cited, FirstQuote
<1>3. RunInv /\ CallInv /\ ReportInv /\ CitationInv /\ [ToolsNext]_allVars => CitationInv'
  BY CitationStep
<1>4. ToolsSpec => []ReportInv
  <2>1. RunInv /\ CallInv /\ ReportInv /\ [ToolsNext]_allVars => ReportInv'
    BY ReportStep
  <2> QED
    BY <2>1, ReportInit, CallsCorrect, PTL DEF ToolsSpec
<1> QED
  BY <1>1, <1>2, <1>3, <1>4, CallsCorrect, PTL DEF ToolsSpec

-----------------------------------------------------------------------------
(* What a call tells of the text it loaded.                                *)

\* The answer of fetch_source to j, at version v.
Reading(j, had, v) ==
  LET length == Length(j.source, v)
      from == Clamp(0, j.offset, length)
      to == Clamp(0, from + Clamp(MinRead, j.amount, MaxRead), length)
  IN  IF from = to THEN Told(had, v, FALSE, Nothing)
      ELSE [ok |-> TRUE, had |-> had, version |-> v, quote |-> Page(v, from, to),
            next |-> to, more |-> to < length]

\* o answers j with what its source had, or with a copy that was in hand.
Tells(j, o) ==
  /\ o.next \in Int
  /\ j.source \in Sources =>
       /\ o.version \in Versions(j.source)
       /\ o.version = 0 => o.had = 0
       /\ j.tool = "outline" => o.ok \/ Text(j.source, o.version) = <<>>
       /\ j.tool = "search" => o.ok
       /\ j.tool = "fetch" => o = Reading(j, o.had, o.version)
  /\ j.source = Unknown /\ j.tool = "fetch" => ~o.ok

AnswerInv ==
  \A c \in Calls :
    /\ job[c].offset \in Int /\ job[c].amount \in Int
    /\ job[c].tool = "list" => job[c].source = Unknown
    /\ Over(c) => Tells(job[c], outcome[c])
    /\ Doing(c) => \A i \in DOMAIN asks[c] : asks[c][i].had # 0 => view[asks[c][i].source] # 0

LEMMA LengthIsNat ==
  ASSUME NEW s \in Sources, NEW v \in Versions(s)
  PROVE  /\ Text(s, v) \in Seq(Lines)
         /\ Length(s, v) \in Nat /\ (Length(s, v) = 0 <=> Text(s, v) = <<>>)
<1>1. Texts[s] \in Seq(Seq(Lines)) /\ Len(Texts[s]) \in Nat
  BY VersionTypes, ToolsAssumption
<1>2. v # 0 => v \in 1 .. Len(Texts[s])
  BY <1>1 DEF Versions
<1>3. Text(s, v) \in Seq(Lines)
  BY <1>1, <1>2, ElementOfSeq, EmptySeq DEF Text
<1>4. CASE Text(s, v) = <<>>
  BY <1>3, <1>4 DEF Length
<1>5. CASE Text(s, v) # <<>>
  <2>1. Text(s, v) = Texts[s][v] /\ v # 0
    BY <1>5 DEF Text
  <2>2. ~(Len(Text(s, v)) = 1 /\ Blank(Text(s, v)[1]))
    BY <1>2, <2>1, ToolsAssumption
  <2>3. /\ Size(Text(s, v), UpTo(Len(Text(s, v)))) \in Nat
        /\ Size(Text(s, v), UpTo(Len(Text(s, v)))) # 0
    BY <1>3, <1>5, <2>2, SizeOfText
  <2> QED
    BY <1>3, <1>5, <2>3 DEF Length
<1> QED
  BY <1>4, <1>5

\* o is a page of a text so long, read from offset on.
IsPage(o, offset, length) ==
  /\ o.next \in Int
  /\ o.ok =>
       /\ o.quote[2] \in Nat /\ o.quote[2] < o.quote[3] /\ o.quote[3] <= length
       /\ o.quote[3] = o.next
       /\ offset <= 0 => o.quote[2] = 0
       /\ o.more => o.next < length
       /\ o.more \/ o.quote[3] = length
       /\ 0 <= offset /\ offset < length => o.quote[2] = offset
  /\ ~o.ok => length = 0 \/ offset >= length

LEMMA ReadingIsPage ==
  ASSUME NEW j, j.source \in Sources, j.offset \in Int, j.amount \in Int,
         NEW had, NEW v \in Versions(j.source)
  PROVE  /\ Reading(j, had, v).had = had /\ Reading(j, had, v).version = v
         /\ IsPage(Reading(j, had, v), j.offset, Length(j.source, v))
<1> DEFINE length == Length(j.source, v)
           n == Clamp(MinRead, j.amount, MaxRead)
           from == Clamp(0, j.offset, length)
           to == Clamp(0, from + n, length)
           page == [ok |-> TRUE, had |-> had, version |-> v, quote |-> Page(v, from, to),
                    next |-> to, more |-> to < length]
           none == Told(had, v, FALSE, Nothing)
<1>1. length \in Nat
  BY LengthIsNat
<1>2. n \in Nat /\ n > 0
  BY ToolsAssumption DEF Clamp
<1> HIDE DEF length, n
<1>3. /\ from \in Nat /\ from <= length /\ (j.offset <= 0 => from = 0)
      /\ (0 <= j.offset /\ j.offset <= length => from = j.offset)
      /\ (from = length => length = 0 \/ j.offset >= length)
  BY <1>1 DEF Clamp
<1> HIDE DEF from
<1>4. to \in Nat /\ from <= to /\ to <= length /\ (from < length => from < to)
  BY <1>1, <1>2, <1>3 DEF Clamp
<1> HIDE DEF to
<1>5. Reading(j, had, v) = IF from = to THEN none ELSE page
  BY DEF Reading, length, n, from, to
<1>6. /\ none.ok = FALSE /\ none.had = had /\ none.version = v /\ none.next = 0
  BY DEF Told
<1>7. /\ page.ok = TRUE /\ page.had = had /\ page.version = v /\ page.next = to
      /\ page.quote = <<v, from, to>> /\ page.more = (to < length)
  BY DEF Page
<1> HIDE DEF page, none
<1>8. page.quote[2] = from /\ page.quote[3] = to
  BY <1>7
<1>9. CASE from = to
  <2>1. IsPage(none, j.offset, length)
    BY <1>1, <1>3, <1>4, <1>6, <1>9 DEF IsPage
  <2>2. Reading(j, had, v) = none
    BY <1>5, <1>9
  <2> QED
    BY <1>6, <2>1, <2>2 DEF length
<1>10. CASE from # to
  <2>1. page.more <=> to < length
    BY <1>7
  <2>2. IsPage(page, j.offset, length)
    BY <1>1, <1>3, <1>4, <1>7, <1>8, <1>10, <2>1 DEF IsPage
  <2>3. Reading(j, had, v) = page
    BY <1>5, <1>10
  <2> QED
    BY <1>7, <2>2, <2>3 DEF length
<1> QED
  BY <1>9, <1>10

Tell(c) == \E o : Record(c, o) /\ Tells(job[c], o)

LEMMA ToldTells ==
  ASSUME NEW j, NEW had, NEW v, NEW ok \in BOOLEAN, NEW quote, j.tool # "fetch",
         j.source \in Sources =>
           /\ v \in Versions(j.source) /\ (v = 0 => had = 0)
           /\ j.tool = "outline" => ok \/ Text(j.source, v) = <<>>
           /\ j.tool = "search" => ok
  PROVE  Tells(j, Told(had, v, ok, quote))
<1> DEFINE o == Told(had, v, ok, quote)
<1>1. o.version = v /\ o.had = had /\ o.ok = ok /\ o.next = 0
  BY DEF Told
<1> HIDE DEF o
<1>2. Tells(j, o)
  BY <1>1 DEF Tells
<1> QED
  BY <1>2 DEF o

\* The answer of a call is about the version it loaded.
LEMMA LoadedTells ==
  ASSUME NEW c \in Calls, NEW had, NEW v, NEW cache, Loaded(c, had, v, cache), v = 0 => had = 0,
         job[c].offset \in Int, job[c].amount \in Int,
         job[c].tool = "list" => job[c].source = Unknown,
         job[c].tool # "list" => job[c].source \in Sources /\ v \in Versions(job[c].source)
  PROVE  Tell(c)
<1> DEFINE s == job[c].source
<1>0. Unknown \notin Sources
  BY ToolsAssumption
<1>1. CASE AnswerList(c, cache)
  <2>1. Record(c, Told(0, 0, TRUE, Nothing)) /\ job[c].tool = "list"
    BY <1>1 DEF AnswerList
  <2>2. Tells(job[c], Told(0, 0, TRUE, Nothing))
    BY <1>0, <2>1, ToldTells
  <2> QED
    BY <2>1, <2>2 DEF Tell
<1>2. CASE AnswerOutline(c, had, v, cache)
  <2> DEFINE ok == Text(s, v) # <<>>
  <2>1. Record(c, Told(had, v, ok, Nothing)) /\ job[c].tool = "outline"
    BY <1>2, Zenon DEF AnswerOutline
  <2>2. ok \in BOOLEAN /\ (ok \/ Text(s, v) = <<>>)
    OBVIOUS
  <2> HIDE DEF ok
  <2>3. Tells(job[c], Told(had, v, ok, Nothing))
    BY <2>1, <2>2, ToldTells
  <2> QED
    BY <2>1, <2>3 DEF Tell
<1>3. CASE AnswerSearch(c, had, v, cache)
  <2>1. job[c].tool = "search" /\ \E quote : Record(c, Told(had, v, TRUE, quote))
    <3> DEFINE cut == IF cache[s] # 0 THEN cache[s] ELSE v
               found == Results(Tidy(Text(s, cut)), job[c].words, Clamp(1, job[c].amount, MaxSnippets))
    <3>1. \/ Record(c, Told(had, v, TRUE, Nothing))
          \/ \E f \in found : IF f = {} THEN Record(c, Told(had, v, TRUE, Nothing))
                              ELSE \E k \in f : Record(c, Told(had, v, TRUE, Snippet(cut, k)))
      BY <1>3 DEF AnswerSearch
    <3>2. job[c].tool = "search"
      BY <1>3 DEF AnswerSearch
    <3> HIDE DEF found
    <3> QED
      BY <3>1, <3>2
  <2>2. PICK quote : Record(c, Told(had, v, TRUE, quote))
    BY <2>1
  <2>3. Tells(job[c], Told(had, v, TRUE, quote))
    BY <2>1, ToldTells
  <2> QED
    BY <2>2, <2>3 DEF Tell
<1>4. CASE AnswerFetch(c, had, v, cache)
  <2> DEFINE o == Reading(job[c], had, v)
  <2>1. Record(c, o) /\ job[c].tool = "fetch"
    <3> DEFINE length == Length(s, v)
               from == Clamp(0, job[c].offset, length)
               to == Clamp(0, from + Clamp(MinRead, job[c].amount, MaxRead), length)
               page == [ok |-> TRUE, had |-> had, version |-> v, quote |-> Page(v, from, to),
                        next |-> to, more |-> to < length]
    <3>1. Record(c, IF from = to THEN Told(had, v, FALSE, Nothing) ELSE page)
          /\ job[c].tool = "fetch"
      BY <1>4, Zenon DEF AnswerFetch
    <3>2. o = IF from = to THEN Told(had, v, FALSE, Nothing) ELSE page
      BY Zenon DEF Reading
    <3> HIDE DEF from, to, page, o
    <3> QED
      BY <3>1, <3>2
  <2>2. s \in Sources /\ v \in Versions(s)
    BY <2>1
  <2>3. /\ o.had = had /\ o.version = v
        /\ o.next \in Int
    BY <2>2, ReadingIsPage DEF IsPage
  <2>4. o = Reading(job[c], o.had, o.version)
    BY <2>3
  <2> HIDE DEF o
  <2>5. Tells(job[c], o)
    BY <1>0, <2>1, <2>2, <2>3, <2>4 DEF Tells
  <2> QED
    BY <2>1, <2>5 DEF Tell
<1> QED
  BY <1>1, <1>2, <1>3, <1>4 DEF Loaded

\* What a call had in hand when it asked is still there when it tells.
HadInHand(c) == \A i \in DOMAIN asks[c] : asks[c][i].had # 0 => view[asks[c][i].source] # 0

LEMMA HeadInHand ==
  ASSUME CallInv, AnswerInv, NEW c \in Calls, stage[c] \in {"storing", "flushing"},
         Head(asks[c]).had # 0
  PROVE  view[Head(asks[c]).source] # 0
<1>1. asks[c] # <<>>
  BY HeadIsOwn
<1>2. Head(asks[c]) = asks[c][1] /\ 1 \in DOMAIN asks[c]
  BY <1>1, AskTypes DEF CallInv
<1> QED
  BY <1>2 DEF AnswerInv, Doing

LEMMA WorkTells ==
  ASSUME CallInv, AnswerInv, NEW c \in Calls, Work(c)
  PROVE  Moves(c) \/ Tell(c)
<1> DEFINE a == Head(asks[c])
<1>0. /\ ToolTypes /\ job[c].offset \in Int /\ job[c].amount \in Int
      /\ job[c].tool = "list" => job[c].source = Unknown
      /\ Unknown \notin Sources
  BY ToolsAssumption DEF CallInv, AnswerInv
<1>1. ASSUME NEW s \in Sources, PlanAtHand(c, s) PROVE Moves(c) \/ Tell(c)
  <2>1. CASE todo[c] = {s} /\ Loaded(c, view[s], view[s], memo)
    <3>1. job[c].tool # "list" => s = job[c].source
      BY <1>1, <2>1 DEF PlanAtHand, Planning, CallInv, SourceInv, Doing
    <3>2. view[s] \in Versions(s)
      BY <1>0 DEF ToolTypes
    <3> QED
      BY <1>0, <2>1, <3>1, <3>2, LoadedTells
  <2>2. CASE Planned(c, s) /\ UNCHANGED <<memo, outcome, deps>>
    BY <2>2 DEF Planned, Moves
  <2> QED
    BY <1>1, <2>1, <2>2 DEF PlanAtHand
<1>2. ASSUME NEW s \in Sources, PlanDownload(c, s) PROVE Moves(c)
  BY <1>2 DEF PlanDownload, Planned, Moves
<1>3. CASE NotFound(c)
  <2>1. Record(c, Told(0, 0, FALSE, Nothing)) /\ stage[c] = "planning" /\ todo[c] = {Unknown}
    BY <1>3 DEF NotFound
  <2>2. job[c].source \notin Sources
    BY <1>0, <2>1 DEF CallInv, SourceInv, Doing
  <2> DEFINE o == Told(0, 0, FALSE, Nothing)
  <2>3. o.next = 0 /\ o.ok = FALSE /\ Record(c, o)
    BY <2>1 DEF Told
  <2> HIDE DEF o
  <2>4. Tells(job[c], o)
    BY <2>2, <2>3 DEF Tells
  <2> QED
    BY <2>3, <2>4 DEF Tell
<1>4. CASE Refuse(c) \/ Download(c) \/ Break(c) \/ Flush(c) \/ Clash(c)
  BY <1>4 DEF Refuse, Download, Break, Flush, Clash, Moves
<1>5. ASSUME NEW v, NEW cache, Stored(c, v, cache), a.had # 0 => v # 0,
             a.source \in Sources, v \in Versions(a.source),
             job[c].tool # "list" => a.source = job[c].source
      PROVE  Moves(c) \/ Tell(c)
  <2>1. CASE Loaded(c, a.had, v, cache)
    <3> HIDE DEF a
    <3> QED
      BY <1>0, <1>5, <2>1, LoadedTells
  <2>2. CASE To(c, "storing") /\ UNCHANGED <<outcome, deps>>
    BY <2>2 DEF Moves
  <2> QED
    BY <1>5, <2>1, <2>2 DEF Stored
<1>6. CASE Keep(c)
  <2> DEFINE v == IF a.had = 0 THEN 0 ELSE view[a.source]
  <2>1. Stored(c, v, memo) /\ stage[c] = "storing"
    BY <1>6 DEF Keep
  <2>2. a \in Ask /\ (job[c].tool # "list" => a.source = job[c].source)
    BY <2>1, HeadIsOwn
  <2>3. a.source \in Sources /\ v \in Versions(a.source)
    BY <1>0, <2>2, VersionTypes DEF Ask, ToolTypes
  <2>4. a.had # 0 => v # 0
    BY <2>1, HeadInHand
  <2> HIDE DEF a, v
  <2> QED
    BY <1>5, <2>1, <2>2, <2>3, <2>4
<1>7. CASE FlushEnds(c)
  <2> DEFINE v == IF a.got = a.had THEN view[a.source] ELSE a.got
             cache == IF a.got = a.had THEN memo ELSE [memo EXCEPT ![a.source] = 0]
  <2>1. Stored(c, v, cache) /\ stage[c] = "flushing"
    BY <1>7 DEF FlushEnds
  <2>2. a \in Ask /\ (job[c].tool # "list" => a.source = job[c].source)
    BY <2>1, HeadIsOwn
  <2>3. a.got # Failed
    BY <2>1 DEF CallInv, FlushInv, Calls
  <2>4. a.source \in Sources /\ v \in Versions(a.source)
    BY <1>0, <2>2, <2>3, VersionTypes DEF Ask, ToolTypes
  <2>5. a.had # 0 => v # 0
    BY <2>1, <2>2, HeadInHand DEF Ask
  <2> HIDE DEF a, v, cache
  <2> QED
    BY <1>5, <2>1, <2>2, <2>4, <2>5
<1> QED
  BY <1>1, <1>2, <1>3, <1>4, <1>6, <1>7 DEF Work

\* Once the session has a text of a source it has one.
LEMMA WorkKeepsTexts ==
  ASSUME CallInv, NEW c \in Calls, Work(c), NEW s \in Sources, view[s] # 0
  PROVE  view'[s] # 0
<1> DEFINE a == Head(asks[c])
<1>0. ToolTypes
  BY DEF CallInv
<1>1. CASE Flush(c) \/ Clash(c)
  <2>1. a \in Ask
    BY <1>1, HeadIsOwn DEF Flush, Clash
  <2>2. a.got # 0 /\ a.source \in Sources
    BY <2>1 DEF Ask
  <2>3. view' = view \/ view' = [view EXCEPT ![a.source] = a.got]
    BY <1>1 DEF Flush, Clash, Assigned
  <2> HIDE DEF a
  <2> QED
    BY <1>0, <2>2, <2>3 DEF ToolTypes
<1>2. CASE view' = view
  BY <1>2
<1> QED
  BY <1>1, <1>2
  DEF Work, PlanAtHand, PlanDownload, NotFound, Refuse, Download, Break, Keep, FlushEnds

LEMMA WorkInHand ==
  ASSUME CallInv, AnswerInv, NEW c \in Calls, Work(c), Doing(c)'
  PROVE  HadInHand(c)'
<1>0. ToolTypes /\ asks[c] \in Seq(Ask) /\ Len(asks[c]) \in Nat /\ DOMAIN asks[c] = 1 .. Len(asks[c])
  BY LenProperties DEF CallInv, ToolTypes
<1>1. HadInHand(c) /\ stage'[c] \notin {"done", "clashed", "broken"}
  BY <1>0, WorkMoves DEF CallInv, AnswerInv, HadInHand, Doing
<1>2. \A i \in DOMAIN asks[c] : asks[c][i].source \in Sources
  <2> TAKE i \in DOMAIN asks[c]
  <2>1. asks[c][i] \in Ask
    BY <1>0, ElementOfSeq
  <2> QED
    BY <2>1 DEF Ask
<1>3. \A s \in Sources : view[s] # 0 => view'[s] # 0
  BY WorkKeepsTexts
<1>4. CASE asks' = asks
  BY <1>1, <1>2, <1>3, <1>4 DEF HadInHand
<1>5. ASSUME NEW s \in Sources, PlanDownload(c, s) PROVE HadInHand(c)'
  <2> DEFINE a == [source |-> s, had |-> view[s], got |-> Failed]
  <2>1. asks' = [asks EXCEPT ![c] = Append(@, a)] /\ view' = view
    BY <1>5 DEF PlanDownload
  <2>2. a \in Ask
    BY <1>0, <1>5, VersionTypes DEF PlanDownload, ToolTypes, Ask, Failed
  <2>3. a.source = s /\ a.had = view[s]
    OBVIOUS
  <2> HIDE DEF a
  <2>4. /\ asks'[c] = Append(asks[c], a) /\ asks'[c] \in Seq(Ask)
        /\ Len(asks'[c]) = Len(asks[c]) + 1
        /\ \A i \in 1 .. Len(asks[c]) : asks'[c][i] = asks[c][i]
        /\ asks'[c][Len(asks[c]) + 1] = a
    BY <1>0, <2>1, <2>2, AppendProperties DEF ToolTypes
  <2>5. DOMAIN asks'[c] = 1 .. Len(asks[c]) + 1
    BY <2>4, LenProperties
  <2> QED
    BY <1>0, <1>1, <2>1, <2>3, <2>4, <2>5 DEF HadInHand
<1>6. CASE Download(c)
  <2>1. PICK good \in SUBSET DOMAIN asks[c] :
          asks' = [asks EXCEPT ![c] = [i \in DOMAIN @ |->
                  [@[i] EXCEPT !.got = IF i \in good THEN shown[asks[c][i].source] ELSE Failed]]]
    BY <1>6 DEF Download
  <2>2. DOMAIN asks'[c] = DOMAIN asks[c]
    BY <1>0, <2>1 DEF ToolTypes
  <2>3. ASSUME NEW i \in DOMAIN asks[c]
        PROVE  asks'[c][i].source = asks[c][i].source /\ asks'[c][i].had = asks[c][i].had
    <3>1. asks[c][i] \in Ask
      BY <1>0, ElementOfSeq
    <3>2. asks'[c][i] = [asks[c][i] EXCEPT !.got = IF i \in good THEN shown[asks[c][i].source] ELSE Failed]
      BY <1>0, <2>1 DEF ToolTypes
    <3> QED
      BY <3>1, <3>2 DEF Ask
  <2>4. view' = view
    BY <1>6 DEF Download
  <2> QED
    BY <1>1, <2>2, <2>3, <2>4 DEF HadInHand
<1>7. CASE Keep(c) \/ FlushEnds(c)
  <2>1. asks' = [asks EXCEPT ![c] = Tail(@)] /\ view' = view /\ stage[c] \in {"storing", "flushing"}
    BY <1>7, StoredLeads DEF Keep, FlushEnds
  <2>2. asks[c] # <<>>
    BY <2>1, HeadIsOwn
  <2>3. /\ Tail(asks[c]) \in Seq(Ask) /\ Len(Tail(asks[c])) = Len(asks[c]) - 1
        /\ \A i \in 1 .. Len(Tail(asks[c])) : Tail(asks[c])[i] = asks[c][i + 1]
    BY <1>0, <2>2, AskTypes
  <2>4. asks'[c] = Tail(asks[c]) /\ DOMAIN asks'[c] = 1 .. Len(asks[c]) - 1
    BY <1>0, <2>1, <2>3, LenProperties DEF ToolTypes
  <2>5. \A i \in 1 .. Len(asks[c]) - 1 : asks'[c][i] = asks[c][i + 1] /\ i + 1 \in DOMAIN asks[c]
    BY <1>0, <2>3, <2>4
  <2> QED
    BY <1>1, <2>1, <2>4, <2>5 DEF HadInHand
<1>8. ASSUME NEW o, Record(c, o) PROVE FALSE
  BY <1>0, <1>1, <1>8 DEF Record, ToolTypes
<1>9. CASE NotFound(c)
  BY <1>8, <1>9 DEF NotFound
<1> QED
  BY <1>4, <1>5, <1>6, <1>7, <1>9 DEF Work, PlanAtHand, Refuse, Break, Flush, Clash

LEMMA RequestsAsk ==
  ASSUME RunInv, AnswerInv, NEW r \in Requests
  PROVE  /\ r.offset \in Int /\ r.amount \in Int
         /\ r.tool = "list" => r.source = Unknown
<1>1. Offsets \subseteq Int
  BY DEF Offsets, AnswerInv, Over, Tells
<1>2. Amounts \subseteq Int
  BY ToolsAssumption
<1>3. \/ r = Request("list", Unknown, {}, 0, 0)
      \/ \E s : r = Request("outline", s, {}, 0, 0)
      \/ \E s, words : \E n \in Amounts : r = Request("search", s, words, 0, n)
      \/ \E s : \E o \in Offsets, n \in Amounts : r = Request("fetch", s, {}, o, n)
  BY DEF Requests
<1>4. ASSUME NEW tool, NEW s, NEW words, NEW o, NEW n
      PROVE  /\ Request(tool, s, words, o, n).offset = o /\ Request(tool, s, words, o, n).amount = n
             /\ Request(tool, s, words, o, n).tool = tool /\ Request(tool, s, words, o, n).source = s
  BY DEF Request
<1>5. \/ r.offset = 0 /\ r.amount = 0 /\ (r.tool = "list" => r.source = Unknown)
      \/ (r.offset \in Offsets \/ r.offset = 0) /\ r.amount \in Amounts /\ r.tool # "list"
  BY <1>3, <1>4
<1>6. r.offset \in Int
  <2>1. CASE r.offset = 0
    BY <2>1
  <2>2. CASE r.offset \in Offsets
    BY <1>1, <2>2
  <2> QED
    BY <1>5, <2>1, <2>2
<1>7. r.amount \in Int
  <2>1. CASE r.amount = 0
    BY <2>1
  <2>2. CASE r.amount \in Amounts
    BY <1>2, <2>2
  <2> QED
    BY <1>5, <2>1, <2>2
<1>8. r.tool = "list" => r.source = Unknown
  BY <1>5
<1> QED
  BY <1>6, <1>7, <1>8

LEMMA AnswerStep ==
  ASSUME RunInv, CallInv, AnswerInv, [ToolsNext]_allVars
  PROVE  AnswerInv'
<1>0. ToolTypes
  BY DEF CallInv
<1>1. CASE Call
  <2> DEFINE c == calls + 1
  <2>1. PICK r \in Requests : job' = [job EXCEPT ![c] = r]
    BY <1>1 DEF Call
  <2>2. /\ c \in Calls /\ stage[c] = "none" /\ stage' = [stage EXCEPT ![c] = "planning"]
        /\ UNCHANGED <<view, asks, outcome>>
    BY <1>1, CallStarts
  <2>3. asks[c] = <<>>
    BY <2>2 DEF CallInv, CallsInv
  <2> HIDE DEF c
  <2>4. \A d \in Calls : /\ job'[d] = IF d = c THEN r ELSE job[d]
                         /\ stage'[d] = IF d = c THEN "planning" ELSE stage[d]
    BY <1>0, <2>1, <2>2 DEF ToolTypes
  <2>5. r.offset \in Int /\ r.amount \in Int /\ (r.tool = "list" => r.source = Unknown)
    BY RequestsAsk
  <2>6. ASSUME NEW d \in Calls
        PROVE  /\ job'[d].offset \in Int /\ job'[d].amount \in Int
               /\ job'[d].tool = "list" => job'[d].source = Unknown
    BY <2>4, <2>5 DEF AnswerInv
  <2>7. ASSUME NEW d \in Calls, Over(d)' PROVE Tells(job'[d], outcome'[d])
    BY <2>2, <2>4, <2>7 DEF AnswerInv, Over
  <2>8. ASSUME NEW d \in Calls, Doing(d)'
        PROVE  \A i \in DOMAIN asks'[d] : asks'[d][i].had # 0 => view'[asks'[d][i].source] # 0
    <3>1. DOMAIN <<>> = {}
      OBVIOUS
    <3> QED
      BY <2>2, <2>3, <2>4, <2>8, <3>1 DEF AnswerInv, Doing
  <2> QED
    BY <2>6, <2>7, <2>8 DEF AnswerInv
<1>2. ASSUME NEW c \in Calls, Return(c) PROVE AnswerInv'
  <2>1. /\ \A d \in Calls : stage'[d] = IF d = c THEN "returned" ELSE stage[d]
        /\ stage[c] = "done" /\ UNCHANGED <<view, job, asks, outcome>>
    BY <1>0, <1>2 DEF Return, To, ToolTypes
  <2>2. \A d \in Calls : (Over(d)' <=> Over(d)) /\ (Doing(d)' <=> Doing(d))
    BY <2>1 DEF Over, Doing
  <2> QED
    BY <2>1, <2>2 DEF AnswerInv
<1>3. ASSUME NEW c \in Calls, Work(c) PROVE AnswerInv'
  <2>1. job' = job /\ Doing(c)
    BY <1>0, <1>3, WorkMoves
  <2>2. /\ stage' \in [Calls -> Stages]
        /\ \A d \in Calls \ {c} : stage'[d] = stage[d] /\ outcome'[d] = outcome[d] /\ asks'[d] = asks[d]
    BY <1>0, <1>3, WorkIsLocal, WorkAsks
  <2>3. ASSUME NEW d \in Calls, Over(d)' PROVE Tells(job'[d], outcome'[d])
    <3>1. CASE d # c
      BY <2>1, <2>2, <2>3, <3>1 DEF AnswerInv, Over
    <3>2. CASE d = c
      <4>1. ~Moves(c)
        BY <1>0, <2>3, <3>2 DEF Moves, To, Over, ToolTypes
      <4>2. PICK o : Record(c, o) /\ Tells(job[c], o)
        BY <1>3, <4>1, WorkTells DEF Tell
      <4>3. outcome'[c] = o
        BY <1>0, <4>2 DEF Record, ToolTypes
      <4> QED
        BY <2>1, <3>2, <4>2, <4>3
    <3> QED
      BY <3>1, <3>2
  <2>4. ASSUME NEW d \in Calls, Doing(d)'
        PROVE  \A i \in DOMAIN asks'[d] : asks'[d][i].had # 0 => view'[asks'[d][i].source] # 0
    <3>1. CASE d # c
      <4>1. asks'[d] = asks[d] /\ Doing(d)
        BY <2>2, <2>4, <3>1 DEF Doing
      <4>2. asks[d] \in Seq(Ask) /\ DOMAIN asks[d] = 1 .. Len(asks[d])
        BY <1>0, LenProperties DEF ToolTypes
      <4>3. \A i \in DOMAIN asks[d] : asks[d][i].source \in Sources
        <5> TAKE i \in DOMAIN asks[d]
        <5>1. asks[d][i] \in Ask
          BY <4>2, ElementOfSeq
        <5> QED
          BY <5>1 DEF Ask
      <4>4. \A s \in Sources : view[s] # 0 => view'[s] # 0
        BY <1>3, WorkKeepsTexts
      <4> QED
        BY <4>1, <4>3, <4>4 DEF AnswerInv
    <3>2. CASE d = c
      BY <1>3, <2>4, <3>2, WorkInHand DEF HadInHand
    <3> QED
      BY <3>1, <3>2
  <2> QED
    BY <2>1, <2>3, <2>4 DEF AnswerInv
<1>4. ASSUME NEW inDeltas \in BOOLEAN, Instruct(inDeltas) PROVE AnswerInv'
  <2>1. UNCHANGED <<job, stage, asks, outcome>> /\ open = 0
    BY <1>4 DEF Instruct, work, BeginTurn
  <2>2. \A d \in Calls : ~Doing(d)
    BY <2>1, NoneOpen DEF CallInv, Busy, Doing
  <2> QED
    BY <2>1, <2>2 DEF AnswerInv, Over, Doing
<1>5. CASE UNCHANGED <<work, view>>
  BY <1>5 DEF work, AnswerInv, Over, Doing
<1> QED
  BY <1>1, <1>2, <1>3, <1>4, <1>5
  DEF ToolsNext, Elsewhere, Fail, Edit, toolVars, allVars

LEMMA AnswersHold == ToolsSpec => [](RunInv /\ CallInv /\ AnswerInv)
<1>1. ToolsInit => AnswerInv
  <2> SUFFICES ASSUME ToolsInit PROVE AnswerInv
    OBVIOUS
  <2>1. \A c \in Calls : stage[c] = "none" /\ job[c] = NoJob
    BY DEF ToolsInit
  <2>2. NoJob.offset = 0 /\ NoJob.amount = 0 /\ NoJob.source = Unknown
    BY DEF NoJob
  <2> QED
    BY <2>1, <2>2 DEF AnswerInv, Over, Doing
<1>2. RunInv /\ CallInv /\ AnswerInv /\ [ToolsNext]_allVars => AnswerInv'
  BY AnswerStep
<1> QED
  BY <1>1, <1>2, CallsCorrect, PTL DEF ToolsSpec

\* A model that reads on where it is told to reads a text of one version from
\* its start to its end without a gap or a repetition, whatever lengths it asks
\* for: pages lie within the text, one that is not the last is followed.
THEOREM ReadingCovers == ToolsSpec => []ReadingOnCoversText
<1>1. RunInv /\ CallInv /\ AnswerInv => ReadingOnCoversText
  <2> SUFFICES ASSUME RunInv, CallInv, AnswerInv,
                      NEW c \in Calls, Over(c), job[c].tool = "fetch",
                      NEW d \in Calls, Over(d), job[d].tool = "fetch", outcome[c].ok
               PROVE  LET o == outcome[c]
                          p == outcome[d]
                          length == Length(job[c].source, o.version)
                      IN  /\ 0 <= o.quote[2] /\ o.quote[2] < o.quote[3] /\ o.quote[3] <= length
                          /\ job[c].offset <= 0 => o.quote[2] = 0
                          /\ o.more \/ o.quote[3] = length
                          /\ /\ o.more /\ job[d].offset = o.next
                             /\ job[c].source = job[d].source /\ o.version = p.version
                             => p.ok /\ p.quote[2] = o.quote[3]
    BY DEF ReadingOnCoversText
  <2>1. job[c].source \in Sources
    BY DEF AnswerInv, CallInv, ToolTypes, Tells
  <2>2. ASSUME NEW e \in {c, d}, job[e].source \in Sources
        PROVE  /\ IsPage(outcome[e], job[e].offset, Length(job[e].source, outcome[e].version))
               /\ Length(job[e].source, outcome[e].version) \in Nat
    <3>1. /\ outcome[e].version \in Versions(job[e].source)
          /\ outcome[e] = Reading(job[e], outcome[e].had, outcome[e].version)
          /\ job[e].offset \in Int /\ job[e].amount \in Int
      BY <2>2 DEF AnswerInv, Tells
    <3> QED
      BY <2>2, <3>1, ReadingIsPage, LengthIsNat
  <2> DEFINE length == Length(job[c].source, outcome[c].version)
  <2>3. IsPage(outcome[c], job[c].offset, length) /\ length \in Nat
    BY <2>1, <2>2
  <2>4. ASSUME outcome[c].more, job[d].offset = outcome[c].next,
               job[c].source = job[d].source, outcome[c].version = outcome[d].version
        PROVE  outcome[d].ok /\ outcome[d].quote[2] = outcome[c].quote[3]
    <3>1. IsPage(outcome[d], job[d].offset, length)
      BY <2>1, <2>2, <2>4
    <3> HIDE DEF length
    <3> QED
      BY <2>3, <2>4, <3>1 DEF IsPage
  <2>5. /\ 0 <= outcome[c].quote[2] /\ outcome[c].quote[2] < outcome[c].quote[3]
        /\ outcome[c].quote[3] <= length
        /\ job[c].offset <= 0 => outcome[c].quote[2] = 0
        /\ outcome[c].more \/ outcome[c].quote[3] = length
    <3> HIDE DEF length
    <3> QED
      BY <2>3 DEF IsPage
  <2> QED
    BY <2>4, <2>5
<1> QED
  BY <1>1, AnswersHold, PTL

\* A source is called unavailable only when the session had no copy of it, or
\* one without text; a page is refused only behind the end of the text.
THEOREM UnavailableIsWithoutText == ToolsSpec => []UnavailableOnlyWithoutText
<1>1. RunInv /\ CallInv /\ AnswerInv => UnavailableOnlyWithoutText
  <2> SUFFICES ASSUME RunInv, CallInv, AnswerInv,
                      NEW c \in Calls, Over(c), job[c].source \in Sources, ~outcome[c].ok
               PROVE  /\ outcome[c].version = 0 => outcome[c].had = 0
                      /\ \/ Text(job[c].source, outcome[c].version) = <<>>
                         \/ /\ job[c].tool = "fetch"
                            /\ job[c].offset >= Length(job[c].source, outcome[c].version)
    BY DEF UnavailableOnlyWithoutText
  <2>1. Tells(job[c], outcome[c]) /\ job[c].tool \in Tools /\ Unknown \notin Sources
    BY ToolsAssumption DEF AnswerInv, CallInv, ToolTypes
  <2>2. outcome[c].version \in Versions(job[c].source) /\ (outcome[c].version = 0 => outcome[c].had = 0)
    BY <2>1 DEF Tells
  <2>3. CASE job[c].tool = "fetch"
    <3>1. /\ outcome[c] = Reading(job[c], outcome[c].had, outcome[c].version)
          /\ job[c].offset \in Int /\ job[c].amount \in Int
      BY <2>1, <2>3 DEF AnswerInv, Tells
    <3>2. IsPage(outcome[c], job[c].offset, Length(job[c].source, outcome[c].version))
      BY <2>2, <3>1, ReadingIsPage
    <3>3. \/ Length(job[c].source, outcome[c].version) = 0
          \/ job[c].offset >= Length(job[c].source, outcome[c].version)
      BY <3>2 DEF IsPage
    <3> QED
      BY <2>2, <2>3, <3>3, LengthIsNat
  <2>4. CASE job[c].tool # "fetch"
    <3>1. job[c].tool # "list"
      BY <2>1 DEF AnswerInv
    <3> QED
      BY <2>1, <2>2, <2>4, <3>1 DEF Tells, Tools
  <2> QED
    BY <2>3, <2>4
<1> QED
  BY <1>1, AnswersHold, PTL


-----------------------------------------------------------------------------
(* Texts cut and searched: what is proved of one document in               *)
(* SourceTextProofs, of those there may be and of those searched.          *)

LEMMA DocumentsAre ==
  ASSUME NEW doc \in Documents
  PROVE  doc \in Seq(Lines)
<1>1. PICK m \in 0 .. MaxLines : doc \in [1 .. m -> Lines]
  BY DEF Documents, BoundedSeq, SeqOf
<1>2. m \in Nat
  BY TextAssumption
<1> QED
  BY <1>1, <1>2, SeqDef

LEMMA TidyDocuments ==
  ASSUME NEW doc \in Documents
  PROVE  Tidy(doc) \in Seq(Lines) /\ Written(Tidy(doc)) = Written(doc)
BY DocumentsAre, TidyKeepsLines

LEMMA CutDocuments ==
  ASSUME ToolTypes, NEW doc \in Cut
  PROVE  doc \in Seq(Lines)
<1>1. PICK c \in Calls : Searching(c) /\ doc = Tidy(Text(job[c].source, memo[job[c].source]))
  BY DEF Cut
<1>2. job[c].source \in Sources /\ memo[job[c].source] \in Versions(job[c].source)
  BY <1>1 DEF Searching, ToolTypes
<1>3. Text(job[c].source, memo[job[c].source]) \in Seq(Lines)
  BY <1>2, LengthIsNat
<1> QED
  BY <1>1, <1>3, TidyKeepsLines

\* Each line of body of a text that is searched is in one chunk, in its place
\* and under its heading, and normalising a text loses no line
\* (normalize_whitespace, chunk_document).
THEOREM LinesStayInChunks == ToolsSpec => []EveryLineInItsChunk
<1>1. TidyLosesNothing /\ AllLinesAreKept
  BY TidyDocuments, ChunksKeepLines, ChunksKeepHeadings DEF TidyLosesNothing, AllLinesAreKept
<1>2. ToolTypes => \A doc \in Cut : LinesAreKept(doc) /\ LinesKeepTheirHeading(doc)
  BY CutDocuments, ChunksKeepLines, ChunksKeepHeadings
<1>3. RunInv /\ CallInv => EveryLineInItsChunk
  BY <1>1, <1>2 DEF EveryLineInItsChunk, CallInv
<1> QED
  BY <1>3, CallsCorrect, PTL

\* A chunk of a text that is searched is too long only for a paragraph that is,
\* and too short only at the end of its heading (_split_long_block,
\* _merge_small_chunks).
THEOREM ChunksKeepTheirSize == ToolsSpec => []ChunksHaveTheirSize
<1>1. AllChunksFit
  BY TidyDocuments, ChunksStayShort, ChunksStayLong DEF AllChunksFit
<1>2. ToolTypes => \A doc \in Cut : ChunksAreShort(doc) /\ ChunksAreLong(doc)
  BY CutDocuments, ChunksStayShort, ChunksStayLong
<1>3. RunInv /\ CallInv => ChunksHaveTheirSize
  BY <1>1, <1>2 DEF ChunksHaveTheirSize, CallInv
<1> QED
  BY <1>3, CallsCorrect, PTL

\* A word of a line of body finds a chunk with that line unless it is a stop
\* word, however common it is; stop words find nothing (search_chunks).
THEOREM SearchFinds == ToolsSpec => []SearchFindsEveryWord
<1>1. AllWordsAreFound
  BY TidyDocuments, WordsFind, StopWordsFind DEF AllWordsAreFound
<1>2. ToolTypes => \A doc \in Cut : WordsFindTheirLines(doc) /\ StopWordsFindNothing(doc)
  BY CutDocuments, WordsFind, StopWordsFind
<1>3. RunInv /\ CallInv => SearchFindsEveryWord
  BY <1>1, <1>2 DEF SearchFindsEveryWord, CallInv
<1> QED
  BY <1>3, CallsCorrect, PTL
=============================================================================
