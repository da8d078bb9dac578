------------------------------ MODULE AgentRun ------------------------------
(***************************************************************************)
(* One run of an agent runner: PydanticAIRunner.stream or                  *)
(* LangGraphRunner.stream, an async generator that turns what a framework  *)
(* does into events, retries a failed attempt as long as nothing was       *)
(* emitted, and lives under one deadline.                                  *)
(*                                                                         *)
(* The framework and its model are external: turn after turn the model     *)
(* says slices of text and calls tools, or fails, or hangs.  A slice is    *)
(* <<attempt, n>>, the n-th the model said in that attempt.                *)
(***************************************************************************)
EXTENDS Integers, Sequences

CONSTANTS
  MaxAttempts,   \* settings.agent_max_attempts
  MaxToolCalls,  \* deps.max_tool_calls
  LangGraph,     \* TRUE: LangGraphRunner; FALSE: PydanticAIRunner
  Suspends,      \* TRUE: the consumer awaits between two events (a stream)
  MaxTurns,      \* bound on the model turns of an attempt
  MaxCalls,      \* bound on its tool calls
  MaxSlices      \* bound on the slices of a turn

ASSUME AgentAssumption ==
  /\ MaxAttempts \in Nat \ {0} /\ MaxToolCalls \in Nat
  /\ LangGraph \in BOOLEAN /\ Suspends \in BOOLEAN
  /\ MaxTurns \in Nat /\ MaxCalls \in Nat /\ MaxSlices \in Nat

VARIABLES
  at,        \* where the generator stands
  attempt,
  emitted,   \* emitted_anything
  answer,    \* the text accumulated for the DONE event
  streamed,  \* _StreamState.streamed_this_turn
  heard,     \* text the consumer received
  text,      \* text of the DONE event
  turn,      \* what the model is doing
  deltas,    \* whether the model streams this turn
  spoken,    \* what it said this turn
  said,      \* what it said this attempt
  turns, calls, open,  \* turns begun, tools called, tools running
  gone       \* the client disconnected

model == <<turn, deltas, spoken, said, turns, calls, open>>
vars == <<at, attempt, emitted, answer, streamed, heard, text, model, gone>>

Slice == (1 .. MaxAttempts) \X (Nat \ {0})
InScope == {"running", "yielding", "sleeping"}
Ended == {"answered", "failed", "aborted"}

TypeOK ==
  /\ at \in InScope \cup {"leaving", "failing"} \cup Ended
  /\ attempt \in 1 .. MaxAttempts
  /\ emitted \in BOOLEAN /\ streamed \in BOOLEAN
  /\ deltas \in BOOLEAN /\ gone \in BOOLEAN
  /\ answer \in Seq(Slice) /\ heard \in Seq(Slice) /\ text \in Seq(Slice)
  /\ spoken \in Seq(Slice) /\ said \in Seq(Slice)
  /\ turn \in {"idle", "talking", "spoke", "acting"}
  /\ turns \in Nat /\ calls \in Nat /\ open \in Nat

Init ==
  /\ at = "running" /\ attempt = 1
  /\ emitted = FALSE /\ streamed = FALSE
  /\ answer = <<>> /\ heard = <<>> /\ text = <<>>
  /\ turn = "idle" /\ deltas = FALSE /\ spoken = <<>> /\ said = <<>>
  /\ turns = 0 /\ calls = 0 /\ open = 0
  /\ gone = FALSE

-----------------------------------------------------------------------------
(* Events.  _translate appends to the answer and the event is yielded; the *)
(* generator stays suspended in its yield, inside the deadline, until the  *)
(* consumer asks for the next event.                                       *)

Yield(tokens) ==
  /\ emitted' = TRUE
  /\ answer' = answer \o tokens
  /\ heard' = heard \o tokens
  /\ at' = IF Suspends THEN "yielding" ELSE "running"

Resume ==
  /\ at = "yielding"
  /\ at' = "running"
  /\ UNCHANGED <<attempt, emitted, answer, streamed, heard, text, model, gone>>

\* Mutant: a step more.
RecursionLimitOff == 2 * MaxToolCalls + 3

\* What LangGraph counts are its steps, model turns and rounds of tools alike.
RecursionLimit == 2 * MaxToolCalls + 2

Rounds == IF turn = "idle" THEN 0 ELSE IF turn = "acting" THEN turns ELSE turns - 1

StepLeft == LangGraph => turns + Rounds < RecursionLimit

\* A model turn begins; only Gemini-like models send it in deltas to
\* LangGraph, Pydantic AI always does.
BeginTurn(inDeltas) ==
  /\ at = "running" /\ turn \in {"idle", "acting"} /\ open = 0
  /\ turns < MaxTurns /\ StepLeft
  /\ LangGraph \/ inDeltas
  /\ turn' = "talking" /\ deltas' = inDeltas /\ spoken' = <<>> /\ turns' = turns + 1
  /\ streamed' = FALSE
  /\ UNCHANGED <<at, attempt, emitted, answer, heard, text, said, calls, open, gone>>

\* PartStartEvent and PartDeltaEvent, or on_chat_model_stream; a model that
\* does not stream only accumulates.
Say ==
  LET x == <<attempt, Len(said) + 1>>
  IN  /\ at = "running" /\ turn = "talking" /\ Len(spoken) < MaxSlices
      /\ spoken' = Append(spoken, x) /\ said' = Append(said, x)
      /\ \/ deltas /\ Yield(<<x>>) /\ streamed' = TRUE
         \/ ~deltas /\ UNCHANGED <<at, emitted, answer, heard, streamed>>
      /\ UNCHANGED <<attempt, text, turn, deltas, turns, calls, open, gone>>

\* Mutant: on_chat_model_end is always read for text.
EndTurnRepeats ==
  /\ at = "running" /\ turn = "talking"
  /\ turn' = "spoke"
  /\ \/ LangGraph /\ spoken # <<>> /\ Yield(spoken)
     \/ (~LangGraph \/ spoken = <<>>)
        /\ UNCHANGED <<at, emitted, answer, heard>>
  /\ UNCHANGED <<attempt, streamed, text, deltas, spoken, said, turns, calls, open, gone>>

\* on_chat_model_end carries the whole turn: it counts only if no delta did.
EndTurn ==
  /\ at = "running" /\ turn = "talking"
  /\ turn' = "spoke"
  /\ \/ LangGraph /\ ~streamed /\ spoken # <<>> /\ Yield(spoken)
     \/ (~LangGraph \/ streamed \/ spoken = <<>>)
        /\ UNCHANGED <<at, emitted, answer, heard>>
  /\ UNCHANGED <<attempt, streamed, text, deltas, spoken, said, turns, calls, open, gone>>

\* Pydantic AI counts calls; the calls of a round are one step of LangGraph.
CallTool ==
  /\ at = "running" /\ turn \in {"spoke", "acting"}
  /\ calls < MaxCalls
  /\ IF LangGraph THEN turn = "spoke" => StepLeft ELSE calls < MaxToolCalls
  /\ turn' = "acting" /\ calls' = calls + 1 /\ open' = open + 1
  /\ Yield(<<>>)
  /\ UNCHANGED <<attempt, streamed, text, deltas, spoken, said, turns, gone>>

ToolReturns ==
  /\ at = "running" /\ open > 0
  /\ open' = open - 1
  /\ Yield(<<>>)
  /\ UNCHANGED <<attempt, streamed, text, turn, deltas, spoken, said, turns, calls, gone>>

\* The model spoke without calling a tool: the framework's stream ends, the
\* retry loop breaks and the deadline is left behind.
Complete ==
  /\ at = "running" /\ turn = "spoke"
  /\ at' = "leaving"
  /\ UNCHANGED <<attempt, emitted, answer, streamed, heard, text, model, gone>>

-----------------------------------------------------------------------------
(* Failures.                                                               *)

\* Mutant: an attempt is retried although the client has some of it.
RaiseRetriesPartial(retryable) ==
  /\ at = "running"
  /\ IF attempt >= MaxAttempts \/ ~retryable
     THEN at' = "failing" /\ UNCHANGED answer
     ELSE at' = "sleeping" /\ answer' = <<>>
  /\ UNCHANGED <<attempt, emitted, streamed, heard, text, model, gone>>

\* The framework raises: a transient provider error, a refused request, a
\* tool, the tool-call limit.
Raise(retryable) ==
  /\ at = "running"
  /\ IF emitted \/ attempt >= MaxAttempts \/ ~retryable
     THEN at' = "failing" /\ UNCHANGED answer
     ELSE at' = "sleeping" /\ answer' = <<>>
  /\ UNCHANGED <<attempt, emitted, streamed, heard, text, model, gone>>

\* The backoff is over and the framework starts again from nothing.
Retry ==
  /\ at = "sleeping"
  /\ at' = "running" /\ attempt' = attempt + 1
  /\ turn' = "idle" /\ spoken' = <<>> /\ said' = <<>>
  /\ turns' = 0 /\ calls' = 0 /\ open' = 0
  /\ UNCHANGED <<emitted, answer, streamed, heard, text, deltas, gone>>

\* Mutant: the deadline is only looked at between two attempts.
DeadlineBetweenAttempts ==
  /\ at = "sleeping"
  /\ at' = "failing"
  /\ UNCHANGED <<attempt, emitted, answer, streamed, heard, text, model, gone>>

\* asyncio.timeout cancels the task.  In the generator that becomes a
\* TimeoutError; but while the generator is suspended in a yield the task
\* is in its consumer's hands, and it is the consumer that is cancelled.
Deadline ==
  /\ \/ at \in {"running", "sleeping"} /\ at' = "failing"
     \/ at = "yielding" /\ at' = "aborted"
  /\ UNCHANGED <<attempt, emitted, answer, streamed, heard, text, model, gone>>

\* The client goes away and the consumer's task is cancelled.
ClientGone ==
  /\ Suspends /\ at \notin Ended
  /\ at' = "aborted" /\ gone' = TRUE
  /\ UNCHANGED <<attempt, emitted, answer, streamed, heard, text, model>>

\* The last event, outside the deadline.
Close ==
  /\ \/ at = "leaving" /\ at' = "answered" /\ text' = answer
     \/ at = "failing" /\ at' = "failed" /\ UNCHANGED text
  /\ UNCHANGED <<attempt, emitted, answer, streamed, heard, model, gone>>

-----------------------------------------------------------------------------
Framework ==
  \/ \E inDeltas \in BOOLEAN : BeginTurn(inDeltas)
  \/ Say \/ EndTurn \/ CallTool \/ ToolReturns \/ Complete
  \/ \E retryable \in BOOLEAN : Raise(retryable)

Next == Framework \/ Resume \/ Retry \/ Deadline \/ ClientGone \/ Close

Spec == Init /\ [][Next]_vars

\* Only the event loop is fair: its timer fires and a generator that has
\* left the deadline goes on.  The model may hang and the reader may stall.
FairSpec == Spec /\ WF_vars(Deadline) /\ WF_vars(Close)

-----------------------------------------------------------------------------
(* Properties.                                                             *)

\* What is stored as the answer is what the client was shown: the slices it
\* heard, in order, nothing twice although attempts are retried, and one end.
Reply == INSTANCE ReplyStream WITH
  ending <- IF at \in Ended THEN at ELSE "none"

ImplementsReplyStream == Reply!Spec

\* The answer is everything the model said in the attempt that succeeded:
\* not without its opening, nor with a turn repeated because the framework
\* reports it again when it ends.
AnswerIsWhatModelSaid == at = "answered" => text = said

\* What max_tool_calls bounds in the end: for Pydantic AI the calls an answer
\* took, for LangGraph the rounds of calls, whatever happens in each.
RoundsWithinLimit ==
  at = "answered" => IF LangGraph THEN Rounds <= MaxToolCalls ELSE calls <= MaxToolCalls

\* What the README says of AGENT_MAX_TOOL_CALLS, and the comment on the limits
\* of LangGraphRunner: it is a ceiling on the tool calls of an answer, the same
\* for both runners.
CallsWithinLimit == at = "answered" => calls <= MaxToolCalls

\* A run ends however long the model hangs, the provider fails or the reader
\* of the stream stalls.
EveryRunEnds == <>(at \in Ended)

\* What AgentRunner promises: a timeout is an ERROR event, so only a client
\* that went away leaves a stream without its end.
TimeoutIsReported == at = "aborted" => gone
=============================================================================
