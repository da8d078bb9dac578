--------------------------- MODULE AgentRunProofs ---------------------------
(***************************************************************************)
(* Proofs about AgentRun for any number of attempts, turns, slices and     *)
(* tool calls, for both frameworks and both kinds of consumer.             *)
(***************************************************************************)
EXTENDS AgentRun, SequenceTheorems, TLAPS

-----------------------------------------------------------------------------
(* The inductive invariants.                                               *)

\* Only a run that gave nothing away sleeps before another attempt.
RetryInv == at = "sleeping" => ~emitted /\ attempt < MaxAttempts

\* The answer and what the consumer heard are one; an attempt that emitted
\* nothing left nothing in either.
HeardInv ==
  /\ heard = answer
  /\ ~emitted => answer = <<>>
  /\ at = "answered" => text = answer

\* What a model that does not stream has said and nobody has heard yet.
Unsent == IF turn = "talking" /\ ~deltas THEN spoken ELSE <<>>

\* The answer is what was said but for that; the flag that tells a streamed
\* turn from the other kind is right while the turn lasts.
SaidInv ==
  /\ at \in {"running", "yielding", "leaving"} => answer \o Unsent = said
  /\ at = "answered" => answer = said
  /\ at = "leaving" => turn = "spoke"
  /\ turn = "talking" => (streamed <=> deltas /\ spoken # <<>>)
  /\ ~LangGraph /\ turn = "talking" => deltas

-----------------------------------------------------------------------------
LEMMA Said ==
  ASSUME TypeOK
  PROVE  <<attempt, Len(said) + 1>> \in Slice
<1>1. Len(said) \in Nat
  BY LenProperties DEF TypeOK
<1>2. Len(said) + 1 \in Nat \ {0} /\ attempt \in 1 .. MaxAttempts
  BY <1>1 DEF TypeOK
<1> QED
  BY <1>2 DEF Slice

LEMMA YieldTypes ==
  ASSUME TypeOK, NEW tokens \in Seq(Slice), Yield(tokens)
  PROVE  /\ emitted' \in BOOLEAN
         /\ answer' \in Seq(Slice) /\ heard' \in Seq(Slice)
         /\ at' \in {"running", "yielding"}
  BY ConcatProperties DEF TypeOK, Yield

LEMMA TypeInit == Init => TypeOK
<1>1. <<>> \in Seq(Slice)
  BY EmptySeq
<1>2. 1 \in 1 .. MaxAttempts
  BY AgentAssumption
<1>3. Init => /\ emitted \in BOOLEAN /\ streamed \in BOOLEAN
              /\ deltas \in BOOLEAN /\ gone \in BOOLEAN
  BY Zenon DEF Init
<1> QED
  BY <1>1, <1>2, <1>3 DEF Init, TypeOK, InScope

LEMMA TypeStep ==
  ASSUME TypeOK, RetryInv, [Next]_vars
  PROVE  TypeOK'
<1> USE DEF TypeOK, InScope, Ended
<1>0. <<>> \in Seq(Slice)
  BY EmptySeq
<1>1. ASSUME NEW inDeltas \in BOOLEAN, BeginTurn(inDeltas) PROVE TypeOK'
  <2>1. streamed' \in BOOLEAN /\ deltas' \in BOOLEAN
    BY <1>1, Zenon DEF BeginTurn
  <2> QED
    BY <1>0, <1>1, <2>1 DEF BeginTurn
<1>2. CASE Say
  <2> DEFINE x == <<attempt, Len(said) + 1>>
  <2>1. x \in Slice
    BY Said
  <2>2. <<x>> \in Seq(Slice)
    BY <2>1
  <2>3. spoken' \in Seq(Slice) /\ said' \in Seq(Slice)
    BY <1>2, <2>1, AppendProperties DEF Say
  <2>4. CASE deltas /\ Yield(<<x>>) /\ streamed' = TRUE
    <3>1. /\ emitted' \in BOOLEAN /\ answer' \in Seq(Slice) /\ heard' \in Seq(Slice)
          /\ at' \in {"running", "yielding"}
      BY <2>2, <2>4, YieldTypes
    <3> QED
      BY <1>2, <2>3, <2>4, <3>1 DEF Say
  <2>5. CASE ~deltas /\ UNCHANGED <<at, emitted, answer, heard, streamed>>
    BY <1>2, <2>3, <2>5 DEF Say
  <2> QED
    BY <1>2, <2>4, <2>5 DEF Say
<1>3. CASE EndTurn
  <2>1. CASE LangGraph /\ ~streamed /\ spoken # <<>> /\ Yield(spoken)
    <3>1. /\ emitted' \in BOOLEAN /\ answer' \in Seq(Slice) /\ heard' \in Seq(Slice)
          /\ at' \in {"running", "yielding"}
      BY <2>1, YieldTypes
    <3> QED
      BY <1>3, <3>1 DEF EndTurn
  <2>2. CASE UNCHANGED <<at, emitted, answer, heard>>
    BY <1>3, <2>2 DEF EndTurn
  <2> QED
    BY <1>3, <2>1, <2>2 DEF EndTurn
<1>4. CASE CallTool
  <2>1. /\ emitted' \in BOOLEAN /\ answer' \in Seq(Slice) /\ heard' \in Seq(Slice)
        /\ at' \in {"running", "yielding"}
    BY <1>0, <1>4, YieldTypes DEF CallTool
  <2> QED
    BY <1>4, <2>1 DEF CallTool
<1>5. CASE ToolReturns
  <2>1. /\ emitted' \in BOOLEAN /\ answer' \in Seq(Slice) /\ heard' \in Seq(Slice)
        /\ at' \in {"running", "yielding"}
    BY <1>0, <1>5, YieldTypes DEF ToolReturns
  <2> QED
    BY <1>5, <2>1 DEF ToolReturns
<1>6. CASE Complete
  BY <1>6 DEF Complete, model
<1>7. ASSUME NEW retryable \in BOOLEAN, Raise(retryable) PROVE TypeOK'
  BY <1>7, <1>0 DEF Raise, model
<1>8. CASE Resume
  BY <1>8 DEF Resume, model
<1>9. CASE Retry
  <2>1. attempt' \in 1 .. MaxAttempts
    BY <1>9, AgentAssumption DEF Retry, RetryInv
  <2> QED
    BY <1>9, <1>0, <2>1 DEF Retry
<1>10. CASE Deadline
  BY <1>10 DEF Deadline, model
<1>11. CASE ClientGone
  BY <1>11 DEF ClientGone, model
<1>12. CASE Close
  BY <1>12 DEF Close, model
<1>13. CASE UNCHANGED vars
  BY <1>13 DEF vars, model
<1> QED
  BY <1>1, <1>2, <1>3, <1>4, <1>5, <1>6, <1>7, <1>8, <1>9, <1>10, <1>11, <1>12, <1>13
  DEF Next, Framework

LEMMA RetryStep ==
  ASSUME TypeOK, RetryInv, [Next]_vars
  PROVE  RetryInv'
<1> USE DEF RetryInv
<1>1. ASSUME NEW tokens, Yield(tokens) PROVE RetryInv'
  BY <1>1 DEF Yield
<1>2. ASSUME NEW inDeltas \in BOOLEAN, BeginTurn(inDeltas) PROVE RetryInv'
  BY <1>2 DEF BeginTurn
<1>3. CASE Say
  BY <1>1, <1>3 DEF Say
<1>4. CASE EndTurn
  BY <1>1, <1>4 DEF EndTurn
<1>5. CASE CallTool \/ ToolReturns
  BY <1>1, <1>5 DEF CallTool, ToolReturns
<1>6. ASSUME NEW retryable \in BOOLEAN, Raise(retryable) PROVE RetryInv'
  BY <1>6, AgentAssumption DEF Raise, TypeOK
<1>7. CASE Complete \/ Resume \/ Retry \/ Deadline \/ ClientGone \/ Close
  BY <1>7 DEF Complete, Resume, Retry, Deadline, ClientGone, Close, Ended
<1>8. CASE UNCHANGED vars
  BY <1>8 DEF vars
<1> QED
  BY <1>2, <1>3, <1>4, <1>5, <1>6, <1>7, <1>8 DEF Next, Framework

\* Every variable keeps its type: attempts never exceed agent_max_attempts,
\* and what is said, heard and stored are slices of those attempts.
THEOREM TypeCorrect == Spec => [](TypeOK /\ RetryInv)
<1>1. Init => RetryInv
  BY DEF Init, RetryInv
<1> QED
  BY <1>1, TypeInit, TypeStep, RetryStep, PTL DEF Spec

-----------------------------------------------------------------------------
(* What is heard is what is answered.                                      *)

LEMMA YieldHeard ==
  ASSUME HeardInv, NEW tokens, Yield(tokens)
  PROVE  heard' = answer' /\ emitted' /\ at' \in {"running", "yielding"}
  BY DEF HeardInv, Yield

LEMMA HeardStep ==
  ASSUME TypeOK, RetryInv, HeardInv, [Next]_vars
  PROVE  HeardInv'
<1> USE DEF HeardInv
<1>1. ASSUME NEW inDeltas \in BOOLEAN, BeginTurn(inDeltas) PROVE HeardInv'
  BY <1>1 DEF BeginTurn
<1>2. CASE Say
  BY <1>2, YieldHeard DEF Say
<1>3. CASE EndTurn
  BY <1>3, YieldHeard DEF EndTurn
<1>4. CASE CallTool \/ ToolReturns
  BY <1>4, YieldHeard DEF CallTool, ToolReturns
<1>5. ASSUME NEW retryable \in BOOLEAN, Raise(retryable) PROVE HeardInv'
  BY <1>5 DEF Raise
<1>6. CASE Complete \/ Resume \/ Retry \/ Deadline
  BY <1>6 DEF Complete, Resume, Retry, Deadline
<1>7. CASE ClientGone
  BY <1>7 DEF ClientGone, Ended
<1>8. CASE Close
  BY <1>8 DEF Close
<1>9. CASE UNCHANGED vars
  BY <1>9 DEF vars
<1> QED
  BY <1>1, <1>2, <1>3, <1>4, <1>5, <1>6, <1>7, <1>8, <1>9 DEF Next, Framework

\* The text accumulated for DONE is at every moment the text the consumer
\* heard: what a failed attempt accumulated is never carried into the next.
THEOREM HeardCorrect == Spec => []HeardInv
<1>1. Init => HeardInv
  BY DEF Init, HeardInv
<1>2. TypeOK /\ RetryInv /\ HeardInv /\ [Next]_vars => HeardInv'
  BY HeardStep
<1> QED
  BY <1>1, <1>2, TypeCorrect, PTL DEF Spec

\* More text only adds to what was heard.
LEMMA YieldHears ==
  ASSUME TypeOK, NEW tokens \in Seq(Slice), Yield(tokens), at \in {"running"},
         UNCHANGED text
  PROVE  Reply!Hear
<1>1. /\ Len(heard) \in Nat /\ Len(tokens) \in Nat /\ heard' = heard \o tokens
      /\ Len(heard') = Len(heard) + Len(tokens)
  BY ConcatProperties, LenProperties DEF TypeOK, Yield
<1>2. SubSeq(heard', 1, Len(heard)) = heard
  <2>1. CASE Len(heard) = 0
    <3>1. heard = <<>>
      BY <2>1, EmptySeq DEF TypeOK
    <3> QED
      BY <2>1, <3>1, SubSeqEmpty
  <2>2. CASE Len(heard) > 0
    <3>1. 1 \in 1 .. Len(heard) /\ Len(heard) \in 1 .. Len(heard)
      BY <1>1, <2>2
    <3>2. SubSeq(heard \o tokens, 1, Len(heard)) = SubSeq(heard, 1, Len(heard))
      BY <3>1, SubSeqOfConcat1 DEF TypeOK
    <3> QED
      BY <1>1, <3>2, SubSeqFull DEF TypeOK
  <2> QED
    BY <1>1, <2>1, <2>2
<1>3. at' \notin Ended /\ at \notin Ended
  BY DEF Yield, Ended
<1> QED
  BY <1>1, <1>2, <1>3 DEF Reply!Hear

LEMMA ReplyStep ==
  ASSUME TypeOK, HeardInv, [Next]_vars
  PROVE  [Reply!Next]_(Reply!vars)
<1> USE DEF Reply!vars
<1>0. <<>> \in Seq(Slice)
  BY EmptySeq
<1>1. ASSUME NEW inDeltas \in BOOLEAN, BeginTurn(inDeltas) PROVE UNCHANGED Reply!vars
  BY <1>1 DEF BeginTurn
<1>2. ASSUME Say PROVE Reply!Hear \/ UNCHANGED Reply!vars
  <2>1. <<<<attempt, Len(said) + 1>>>> \in Seq(Slice)
    BY Said
  <2> QED
    BY <1>2, <2>1, YieldHears DEF Say
<1>3. ASSUME EndTurn PROVE Reply!Hear \/ UNCHANGED Reply!vars
  BY <1>3, YieldHears DEF EndTurn, TypeOK
<1>4. ASSUME CallTool \/ ToolReturns PROVE Reply!Hear
  BY <1>4, <1>0, YieldHears DEF CallTool, ToolReturns
<1>5. ASSUME NEW retryable \in BOOLEAN, Raise(retryable) PROVE UNCHANGED Reply!vars
  BY <1>5 DEF Raise, Ended
<1>6. ASSUME Complete \/ Resume \/ Retry PROVE UNCHANGED Reply!vars
  BY <1>6 DEF Complete, Resume, Retry, Ended
<1>7. ASSUME Deadline PROVE Reply!Break \/ UNCHANGED Reply!vars
  BY <1>7 DEF Deadline, Ended, Reply!Break
<1>8. ASSUME ClientGone PROVE Reply!Break
  BY <1>8 DEF ClientGone, Ended, Reply!Break
<1>9. ASSUME Close PROVE Reply!Finish \/ Reply!Break
  BY <1>9 DEF Close, Ended, HeardInv, Reply!Break, Reply!Finish
<1>10. CASE UNCHANGED vars
  BY <1>10 DEF vars
<1> QED
  BY <1>1, <1>2, <1>3, <1>4, <1>5, <1>6, <1>7, <1>8, <1>9, <1>10
  DEF Next, Framework, Reply!Next

\* The run keeps the promise of AgentRunner.stream: whatever is retried, the
\* text of the DONE event is the text the consumer heard, once and in order.
THEOREM AnswerIsWhatWasHeard == Spec => ImplementsReplyStream
<1>1. Init => Reply!Init
  BY DEF Init, Reply!Init, Ended
<1>2. TypeOK /\ HeardInv /\ [Next]_vars => [Reply!Next]_(Reply!vars)
  BY ReplyStep
<1> QED
  BY <1>1, <1>2, TypeCorrect, HeardCorrect, PTL DEF Spec, ImplementsReplyStream, Reply!Spec

-----------------------------------------------------------------------------
(* What is answered is what was said.                                      *)

LEMMA SaidStep ==
  ASSUME TypeOK, RetryInv, HeardInv, SaidInv, [Next]_vars
  PROVE  SaidInv'
<1>0. /\ answer \in Seq(Slice) /\ spoken \in Seq(Slice) /\ said \in Seq(Slice)
      /\ answer \o <<>> = answer
  BY ConcatEmptySeq DEF TypeOK
<1>1. ASSUME NEW inDeltas \in BOOLEAN, BeginTurn(inDeltas) PROVE SaidInv'
  <2>1. Unsent = <<>> /\ Unsent' = <<>>
    BY <1>1 DEF BeginTurn, Unsent
  <2> QED
    BY <1>1, <2>1 DEF BeginTurn, SaidInv
<1>2. CASE Say
  <2> DEFINE x == <<attempt, Len(said) + 1>>
  <2>1. x \in Slice
    BY Said
  <2>2. spoken' = Append(spoken, x) /\ said' = Append(said, x) /\ spoken' # <<>>
    BY <1>0, <1>2, <2>1, AppendProperties DEF Say
  <2>3. at = "running" /\ turn = "talking" /\ turn' = turn /\ deltas' = deltas
        /\ at' \in {"running", "yielding"}
    BY <1>2 DEF Say, Yield
  <2>4. answer \o Unsent = said
    BY <2>3 DEF SaidInv
  <2>5. CASE deltas
    <3>1. answer' = answer \o <<x>> /\ streamed' = TRUE
      BY <1>2, <2>5 DEF Say, Yield
    <3>2. Unsent = <<>> /\ Unsent' = <<>>
      BY <2>3, <2>5 DEF Unsent
    <3>3. answer' = said'
      BY <1>0, <2>1, <2>2, <2>4, <3>1, <3>2, AppendIsConcat
    <3>4. answer' \o Unsent' = said'
      BY <1>0, <2>1, <2>2, <3>2, <3>3, AppendProperties, ConcatEmptySeq
    <3> QED
      BY <2>2, <2>3, <2>5, <3>1, <3>4 DEF SaidInv
  <2>6. CASE ~deltas
    <3>1. answer' = answer /\ streamed' = streamed
      BY <1>2, <2>6 DEF Say
    <3>2. Unsent = spoken /\ Unsent' = spoken'
      BY <2>3, <2>6 DEF Unsent
    <3>3. <<x>> \in Seq(Slice)
      BY <2>1
    <3>4. answer' \o Unsent' = answer \o (spoken \o <<x>>)
      BY <1>0, <2>1, <2>2, <3>1, <3>2, AppendIsConcat
    <3>5. answer \o (spoken \o <<x>>) = (answer \o spoken) \o <<x>>
      BY <1>0, <3>3, ConcatAssociative
    <3>6. answer' \o Unsent' = said'
      BY <1>0, <2>1, <2>2, <2>4, <3>2, <3>4, <3>5, AppendIsConcat
    <3> QED
      BY <2>2, <2>3, <2>6, <3>1, <3>6 DEF SaidInv
  <2> QED
    BY <2>5, <2>6
<1>3. CASE EndTurn
  <2>1. at = "running" /\ turn = "talking" /\ turn' = "spoke" /\ said' = said
        /\ answer \o Unsent = said /\ at' \in {"running", "yielding"} /\ Unsent' = <<>>
    BY <1>3 DEF EndTurn, Yield, SaidInv, Unsent
  <2>2. CASE LangGraph /\ ~streamed /\ spoken # <<>> /\ Yield(spoken)
    <3>1. ~deltas /\ Unsent = spoken
      BY <2>1, <2>2 DEF SaidInv, Unsent, TypeOK
    <3>2. answer' = said
      BY <2>1, <2>2, <3>1 DEF Yield
    <3>3. answer' \o Unsent' = said'
      BY <1>0, <2>1, <3>2, ConcatEmptySeq
    <3> QED
      BY <2>1, <3>3 DEF SaidInv
  <2>3. CASE (~LangGraph \/ streamed \/ spoken = <<>>)
             /\ UNCHANGED <<at, emitted, answer, heard>>
    <3>1. Unsent = <<>>
      BY <2>1, <2>3 DEF SaidInv, Unsent
    <3> QED
      BY <2>1, <2>3, <3>1 DEF SaidInv
  <2> QED
    BY <1>3, <2>2, <2>3 DEF EndTurn
<1>4. CASE CallTool \/ ToolReturns
  <2>1. at = "running" /\ answer' = answer /\ said' = said /\ spoken' = spoken
        /\ streamed' = streamed /\ deltas' = deltas /\ at' \in {"running", "yielding"}
        /\ turn' \in {turn, "acting"} /\ (turn' = turn \/ turn \in {"spoke", "acting"})
    BY <1>0, <1>4 DEF CallTool, ToolReturns, Yield
  <2>2. Unsent' = Unsent
    BY <2>1 DEF Unsent
  <2> QED
    BY <2>1, <2>2 DEF SaidInv
<1>5. ASSUME NEW retryable \in BOOLEAN, Raise(retryable) PROVE SaidInv'
  BY <1>5 DEF Raise, SaidInv, model
<1>6. CASE Complete \/ Resume
  BY <1>6 DEF Complete, Resume, SaidInv, Unsent, model
<1>7. CASE Retry
  <2>1. answer = <<>> /\ answer' = <<>> /\ said' = <<>> /\ Unsent' = <<>>
        /\ at' = "running" /\ turn' = "idle"
    BY <1>7 DEF Retry, RetryInv, HeardInv, Unsent
  <2> QED
    BY <1>0, <2>1 DEF SaidInv
<1>8. CASE Deadline \/ ClientGone
  BY <1>8 DEF Deadline, ClientGone, SaidInv, model
<1>9. CASE Close
  <2>1. answer' = answer /\ said' = said /\ UNCHANGED model /\ streamed' = streamed
        /\ at' \in {"answered", "failed"}
    BY <1>9 DEF Close, model
  <2>2. at' = "answered" => answer = said
    BY <1>0, <1>9 DEF Close, SaidInv, Unsent
  <2> QED
    BY <2>1, <2>2 DEF SaidInv, model
<1>10. CASE UNCHANGED vars
  BY <1>10 DEF vars, model, SaidInv, Unsent
<1> QED
  BY <1>1, <1>2, <1>3, <1>4, <1>5, <1>6, <1>7, <1>8, <1>9, <1>10 DEF Next, Framework

\* A run that ends well answers everything the model said in its last
\* attempt and nothing else, whether each of its turns was streamed or not.
THEOREM NothingLostOrRepeated == Spec => []AnswerIsWhatModelSaid
<1>1. Init => SaidInv
  BY EmptySeq, ConcatEmptySeq DEF Init, SaidInv, Unsent
<1>2. TypeOK /\ RetryInv /\ HeardInv /\ SaidInv /\ [Next]_vars => SaidInv'
  BY SaidStep
<1>3. HeardInv /\ SaidInv => AnswerIsWhatModelSaid
  BY DEF HeardInv, SaidInv, AnswerIsWhatModelSaid
<1> QED
  BY <1>1, <1>2, <1>3, TypeCorrect, HeardCorrect, PTL DEF Spec

-----------------------------------------------------------------------------
(* What a run may take.                                                    *)

\* Nothing is called before something was emitted, tools run in rounds of
\* calls only, and each step of the framework was within its limit.
CountInv ==
  /\ emitted \/ calls = 0
  /\ calls <= MaxCalls
  /\ turn = "idle" <=> turns = 0
  /\ open > 0 => turn = "acting"
  /\ at \in {"leaving", "answered"} => turn = "spoke"
  /\ IF LangGraph THEN turns + Rounds <= RecursionLimit ELSE calls <= MaxToolCalls

LEMMA CountStep ==
  ASSUME TypeOK, CountInv, [Next]_vars
  PROVE  CountInv'
<1> USE AgentAssumption DEF TypeOK, CountInv, Rounds, RecursionLimit, StepLeft
<1>1. ASSUME NEW inDeltas \in BOOLEAN, BeginTurn(inDeltas) PROVE CountInv'
  BY <1>1 DEF BeginTurn
<1>2. CASE Say
  BY <1>2 DEF Say, Yield
<1>3. CASE EndTurn
  BY <1>3 DEF EndTurn, Yield
<1>4. CASE CallTool
  BY <1>4 DEF CallTool, Yield
<1>5. CASE ToolReturns
  BY <1>5 DEF ToolReturns, Yield
<1>6. ASSUME NEW retryable \in BOOLEAN, Raise(retryable) PROVE CountInv'
  BY <1>6 DEF Raise, model
<1>7. CASE Complete \/ Resume \/ Deadline \/ ClientGone \/ Close
  BY <1>7 DEF Complete, Resume, Deadline, ClientGone, Close, model, Ended
<1>8. CASE Retry
  BY <1>8 DEF Retry
<1>9. CASE UNCHANGED vars
  BY <1>9 DEF vars, model
<1> QED
  BY <1>1, <1>2, <1>3, <1>4, <1>5, <1>6, <1>7, <1>8, <1>9 DEF Next, Framework

\* What the frameworks count (turns, calls, rounds of calls) stays within the
\* limits they are given, from the first attempt to the last.
THEOREM CountsCorrect == Spec => []CountInv
<1>1. Init => CountInv
  BY AgentAssumption DEF Init, CountInv, Rounds, RecursionLimit
<1>2. TypeOK /\ CountInv /\ [Next]_vars => CountInv'
  BY CountStep
<1> QED
  BY <1>1, <1>2, TypeCorrect, PTL DEF Spec

\* max_tool_calls bounds every answer: the calls of Pydantic AI and, by way of
\* the recursion limit derived from it, the rounds of calls of LangGraph.
THEOREM AnswersStayWithinLimit == Spec => []RoundsWithinLimit
<1>1. TypeOK /\ CountInv => RoundsWithinLimit
  BY AgentAssumption DEF TypeOK, CountInv, RoundsWithinLimit, Rounds, RecursionLimit
<1> QED
  BY <1>1, TypeCorrect, CountsCorrect, PTL
=============================================================================
