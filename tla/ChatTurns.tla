----------------------------- MODULE ChatTurns -----------------------------
(***************************************************************************)
(* The embed chat runtime: POST /embed/session, POST /embed/chat, the      *)
(* administrator's revocation, activation and deletion, and the retention  *)
(* script, all over one database.                                          *)
(*                                                                         *)
(* A turn is one POST /embed/chat.  Everything it writes stays in its own  *)
(* database transaction until the transport commits or rolls it back; the  *)
(* transaction holds the row lock of its chat session from the first flush *)
(* on, because resolve_session always updates last_seen_at and that UPDATE *)
(* is flushed together with the user's message.                            *)
(*                                                                         *)
(* Messages are rows [turn, role, blank, at]: what they say is abstracted  *)
(* to whether it is empty, and created_at to a stamp taken at the flush.   *)
(***************************************************************************)
EXTENDS Integers, FiniteSets

CONSTANTS
  Tutors, Keys, Sessions, Turns,
  TutorOf,        \* the tutor an embed key belongs to
  KeyOf,          \* the embed key a chat session is opened with
  SessionOf,      \* the chat session a turn is sent on
  Streamed,       \* the turns sent with "stream": true
  HistoryMax,     \* settings.history_max_messages
  WholeDatabase   \* TRUE: SQLite, one write lock; FALSE: PostgreSQL, row locks

ASSUME ShapeAssumption ==
  /\ TutorOf \in [Keys -> Tutors]
  /\ KeyOf \in [Sessions -> Keys]
  /\ SessionOf \in [Turns -> Sessions]
  /\ Streamed \subseteq Turns
  /\ WholeDatabase \in BOOLEAN
ASSUME HistoryAssumption == HistoryMax \in Nat

VARIABLES
  tutor,      \* tutors table: is_active, or the row deleted
  key,        \* embed_keys table: is_active, or the row deleted
  session,    \* chat_sessions table, and the open_session handler in progress
  expired,    \* whether expires_at has passed
  messages,   \* committed chat_messages rows of each session
  now,        \* source of created_at stamps
  phase,      \* where each turn's handler stands
  dirty,      \* the turn's ORM session holds an unflushed last_seen_at
  locked,     \* the turn's transaction holds its chat_sessions row lock
  pending,    \* rows the turn's transaction inserted and has not committed
  history,    \* what the turn handed the agent as history
  late        \* the request arrived when its key was no longer active

tables == <<tutor, key, session, expired>>
private == <<dirty, locked, pending, history>>
vars == <<tutor, key, session, expired, messages, now,
          phase, dirty, locked, pending, history, late>>

Role == {"user", "assistant"}
Message == [turn : Turns, role : Role, blank : BOOLEAN, at : Nat]

Final == {"finished", "refused", "failed", "dropped"}
InFlight == {"admitted", "stored", "running", "answered", "shown", "erring"}
Phase == {"new", "sent"} \cup InFlight \cup Final

TypeOK ==
  /\ tutor \in [Tutors -> {"active", "inactive", "deleted"}]
  /\ key \in [Keys -> {"active", "revoked", "deleted"}]
  /\ session \in [Sessions -> {"none", "opening", "open", "gone"}]
  /\ expired \in [Sessions -> BOOLEAN]
  /\ messages \in [Sessions -> SUBSET Message]
  /\ now \in Nat
  /\ phase \in [Turns -> Phase]
  /\ dirty \in [Turns -> BOOLEAN]
  /\ locked \in [Turns -> BOOLEAN]
  /\ pending \in [Turns -> SUBSET Message]
  /\ history \in [Turns -> SUBSET Message]
  /\ late \in [Turns -> BOOLEAN]
  /\ \A s \in Sessions : \A m \in messages[s] : m.at < now
  /\ \A t \in Turns : \A m \in pending[t] : m.at < now

Init ==
  /\ tutor = [u \in Tutors |-> "active"]
  /\ key = [k \in Keys |-> "active"]
  /\ session = [s \in Sessions |-> "none"]
  /\ expired = [s \in Sessions |-> FALSE]
  /\ messages = [s \in Sessions |-> {}]
  /\ now = 0
  /\ phase = [t \in Turns |-> "new"]
  /\ dirty = [t \in Turns |-> FALSE]
  /\ locked = [t \in Turns |-> FALSE]
  /\ pending = [t \in Turns |-> {}]
  /\ history = [t \in Turns |-> {}]
  /\ late = [t \in Turns |-> FALSE]

-----------------------------------------------------------------------------
(* Locks.                                                                  *)

Writing(t) == pending[t] # {}

\* A write of t to its chat_sessions row (or, on SQLite, to anything) can
\* proceed.
CanLock(t) ==
  \A u \in Turns \ {t} :
    /\ SessionOf[u] = SessionOf[t] => ~locked[u]
    /\ WholeDatabase => ~Writing(u)

\* A writer other than a turn can touch rows that are not chat sessions.
CanWrite == WholeDatabase => \A t \in Turns : ~Writing(t)

\* A writer other than a turn can delete the chat sessions S.
CanDelete(S) ==
  \A t \in Turns : WholeDatabase \/ SessionOf[t] \in S => ~Writing(t)

-----------------------------------------------------------------------------
(* Opening a chat session: EmbedService.authorize reads the key and the    *)
(* tutor, then the session row is inserted and committed.                  *)

Authorize(s) ==
  /\ session[s] = "none"
  /\ key[KeyOf[s]] = "active"
  /\ tutor[TutorOf[KeyOf[s]]] = "active"
  /\ session' = [session EXCEPT ![s] = "opening"]
  /\ UNCHANGED <<tutor, key, expired, messages, now, phase, private, late>>

Open(s) ==
  /\ session[s] = "opening"
  /\ key[KeyOf[s]] # "deleted"
  /\ CanWrite
  /\ session' = [session EXCEPT ![s] = "open"]
  /\ UNCHANGED <<tutor, key, expired, messages, now, phase, private, late>>

\* The key's row is gone, or SQLite stayed locked past the busy timeout.
OpenFails(s) ==
  /\ session[s] = "opening"
  /\ key[KeyOf[s]] = "deleted" \/ ~CanWrite
  /\ session' = [session EXCEPT ![s] = "none"]
  /\ UNCHANGED <<tutor, key, expired, messages, now, phase, private, late>>

-----------------------------------------------------------------------------
(* The administrator, the clock and the retention script.                  *)

RevokeKey(k) ==
  /\ key[k] = "active"
  /\ CanWrite
  /\ key' = [key EXCEPT ![k] = "revoked"]
  /\ UNCHANGED <<tutor, session, expired, messages, now, phase, private, late>>

SetStatus(u, active) ==
  /\ tutor[u] # "deleted"
  /\ CanWrite
  /\ tutor' = [tutor EXCEPT ![u] = IF active THEN "active" ELSE "inactive"]
  /\ UNCHANGED <<key, session, expired, messages, now, phase, private, late>>

\* Mutant: foreign keys are not enforced, so nothing cascades.
DeleteWithoutCascade(S) ==
  /\ session' = [s \in Sessions |-> IF s \in S THEN "gone" ELSE session[s]]
  /\ UNCHANGED messages

\* What ON DELETE CASCADE does below a set of chat_sessions rows.
DeleteSessions(S) ==
  /\ session' = [s \in Sessions |-> IF s \in S THEN "gone" ELSE session[s]]
  /\ messages' = [s \in Sessions |-> IF s \in S THEN {} ELSE messages[s]]

DeleteTutor(u) ==
  LET own == {s \in Sessions : TutorOf[KeyOf[s]] = u /\ session[s] = "open"}
  IN  /\ tutor[u] # "deleted"
      /\ CanWrite /\ CanDelete(own)
      /\ tutor' = [tutor EXCEPT ![u] = "deleted"]
      /\ key' = [k \in Keys |-> IF TutorOf[k] = u THEN "deleted" ELSE key[k]]
      /\ DeleteSessions(own)
      /\ UNCHANGED <<expired, now, phase, private, late>>

Expire(s) ==
  /\ session[s] = "open"
  /\ ~expired[s]
  /\ expired' = [expired EXCEPT ![s] = TRUE]
  /\ UNCHANGED <<tutor, key, session, messages, now, phase, private, late>>

Cleanup ==
  LET past == {s \in Sessions : session[s] = "open" /\ expired[s]}
  IN  /\ past # {}
      /\ CanDelete(past)
      /\ DeleteSessions(past)
      /\ UNCHANGED <<tutor, key, expired, now, phase, private, late>>

-----------------------------------------------------------------------------
(* A turn.                                                                 *)

Moves(t, from, to) ==
  /\ phase[t] = from
  /\ phase' = [phase EXCEPT ![t] = to]

\* Mutant: the transaction outlives the handler and keeps its row lock.
ReleaseWithoutRollback(t) ==
  /\ dirty' = [dirty EXCEPT ![t] = FALSE]
  /\ pending' = [pending EXCEPT ![t] = {}]
  /\ history' = [history EXCEPT ![t] = {}]
  /\ UNCHANGED locked

\* The session closes: whatever the transaction held is released.
Release(t) ==
  /\ dirty' = [dirty EXCEPT ![t] = FALSE]
  /\ locked' = [locked EXCEPT ![t] = FALSE]
  /\ pending' = [pending EXCEPT ![t] = {}]
  /\ history' = [history EXCEPT ![t] = {}]

\* The request arrives; its token was issued when the session was opened.
Send(t) ==
  /\ session[SessionOf[t]] \in {"open", "gone"}
  /\ Moves(t, "new", "sent")
  /\ late' = [late EXCEPT ![t] = key[KeyOf[SessionOf[t]]] # "active"]
  /\ UNCHANGED <<tables, messages, now, private>>

\* Mutant: the session token alone is trusted for its whole TTL.
AdmissibleByToken(t) ==
  LET s == SessionOf[t]
  IN  /\ session[s] = "open"
      /\ ~expired[s]
      /\ tutor[TutorOf[KeyOf[s]]] = "active"

Admissible(t) ==
  LET s == SessionOf[t]
      k == KeyOf[s]
  IN  /\ session[s] = "open"
      /\ ~expired[s]
      /\ key[k] = "active"
      /\ tutor[TutorOf[k]] = "active"

\* Mutant: resolve_session no longer touches last_seen_at.
AdmitUntouched(t) ==
  /\ Admissible(t)
  /\ Moves(t, "sent", "admitted")
  /\ UNCHANGED <<tables, messages, now, private, late>>

\* resolve_session accepts, leaving a new last_seen_at in the ORM session.
Admit(t) ==
  /\ Admissible(t)
  /\ Moves(t, "sent", "admitted")
  /\ dirty' = [dirty EXCEPT ![t] = TRUE]
  /\ UNCHANGED <<tables, messages, now, locked, pending, history, late>>

Refuse(t) ==
  /\ ~Admissible(t)
  /\ Moves(t, "sent", "refused")
  /\ UNCHANGED <<tables, messages, now, private, late>>

\* One of the two chat limiters raises RateLimitError on a resolved session.
Throttle(t) ==
  /\ Admissible(t)
  /\ Moves(t, "sent", "refused")
  /\ UNCHANGED <<tables, messages, now, private, late>>

\* The first flush of answer(): UPDATE chat_sessions if the ORM session is
\* dirty, which takes the row lock, then INSERT the user's message.
StoreQuestion(t) ==
  /\ session[SessionOf[t]] = "open"
  /\ dirty[t] \/ WholeDatabase => CanLock(t)
  /\ Moves(t, "admitted", "stored")
  /\ locked' = [locked EXCEPT ![t] = dirty[t]]
  /\ dirty' = [dirty EXCEPT ![t] = FALSE]
  /\ pending' = [pending EXCEPT ![t] =
       {[turn |-> t, role |-> "user", blank |-> FALSE, at |-> now]}]
  /\ now' = now + 1
  /\ UNCHANGED <<tables, messages, history, late>>

\* The UPDATE matches no row (StaleDataError), or SQLite stayed locked.
StoreFails(t) ==
  /\ session[SessionOf[t]] # "open" \/ (WholeDatabase /\ ~CanLock(t))
  /\ Moves(t, "admitted", "failed")
  /\ Release(t)
  /\ UNCHANGED <<tables, messages, now, late>>

\* recent_messages: the newest n rows by created_at.
Newest(rows, n) ==
  {m \in rows : Cardinality({r \in rows : r.at > m.at}) < n}

\* Mutant: _to_history is called without drop_last.
KeepLast(rows) == rows

\* messages[:-1] of _to_history(drop_last=True).
AllButLast(rows) == {m \in rows : \E r \in rows : r.at > m.at}

NonBlank(rows) == {m \in rows : ~m.blank}

LoadHistory(t) ==
  /\ Moves(t, "stored", "running")
  /\ history' = [history EXCEPT ![t] =
       NonBlank(AllButLast(
         Newest(messages[SessionOf[t]] \cup pending[t], HistoryMax)))]
  /\ UNCHANGED <<tables, messages, now, dirty, locked, pending, late>>

\* The runner emits DONE: _persist_answer adds the assistant's message,
\* touches last_seen_at and flushes.
Answer(t, empty) ==
  /\ CanLock(t)
  /\ Moves(t, "running", "answered")
  /\ locked' = [locked EXCEPT ![t] = TRUE]
  /\ pending' = [pending EXCEPT ![t] = @ \cup
       {[turn |-> t, role |-> "assistant", blank |-> empty, at |-> now]}]
  /\ now' = now + 1
  /\ UNCHANGED <<tables, messages, dirty, history, late>>

\* The runner emits ERROR (a timeout, a model error): the event goes to the
\* client first, the rollback comes after the loop.
RunFails(t) ==
  /\ Moves(t, "running", "erring")
  /\ UNCHANGED <<tables, messages, now, private, late>>

\* Mutant: the transport commits after an ERROR event as after DONE.
CommitOnError(t) ==
  /\ Moves(t, "erring", "failed")
  /\ messages' = [messages EXCEPT ![SessionOf[t]] = @ \cup pending[t]]
  /\ Release(t)
  /\ UNCHANGED <<tables, now, late>>

Rollback(t) ==
  /\ Moves(t, "erring", "failed")
  /\ Release(t)
  /\ UNCHANGED <<tables, messages, now, late>>

\* Anything else raised by answer(): rollback, then an error event or body.
Raise(t) ==
  /\ phase[t] \in {"stored", "running"}
  /\ phase' = [phase EXCEPT ![t] = "failed"]
  /\ Release(t)
  /\ UNCHANGED <<tables, messages, now, late>>

\* The stream hands the client the done event, before the commit.
SendDone(t) ==
  /\ t \in Streamed
  /\ Moves(t, "answered", "shown")
  /\ UNCHANGED <<tables, messages, now, private, late>>

ReadyToCommit(t) == phase[t] = IF t \in Streamed THEN "shown" ELSE "answered"

Commit(t) ==
  /\ ReadyToCommit(t)
  /\ phase' = [phase EXCEPT ![t] = "finished"]
  /\ messages' = [messages EXCEPT ![SessionOf[t]] = @ \cup pending[t]]
  /\ Release(t)
  /\ UNCHANGED <<tables, now, late>>

CommitFails(t) ==
  /\ ReadyToCommit(t)
  /\ phase' = [phase EXCEPT ![t] = "failed"]
  /\ Release(t)
  /\ UNCHANGED <<tables, messages, now, late>>

\* The client goes away and the streaming response is cancelled: the
\* CancelledError passes every "except Exception", the session just closes.
Disconnect(t) ==
  /\ t \in Streamed
  /\ phase[t] \in InFlight
  /\ phase' = [phase EXCEPT ![t] = "dropped"]
  /\ Release(t)
  /\ UNCHANGED <<tables, messages, now, late>>

\* The process dies: the database rolls back every open transaction.
Crash ==
  /\ \E t \in Turns : phase[t] \in InFlight
  /\ phase' = [t \in Turns |->
       IF phase[t] \in InFlight \cup {"sent"} THEN "dropped" ELSE phase[t]]
  /\ session' = [s \in Sessions |->
       IF session[s] = "opening" THEN "none" ELSE session[s]]
  /\ dirty' = [t \in Turns |-> FALSE]
  /\ locked' = [t \in Turns |-> FALSE]
  /\ pending' = [t \in Turns |-> {}]
  /\ history' = [t \in Turns |-> {}]
  /\ UNCHANGED <<tutor, key, expired, messages, now, late>>

-----------------------------------------------------------------------------
\* The steps the server takes by itself once a request has arrived.
Progress(t) ==
  \/ Admit(t) \/ Refuse(t) \/ Throttle(t)
  \/ StoreQuestion(t) \/ StoreFails(t) \/ LoadHistory(t)
  \/ \E empty \in BOOLEAN : Answer(t, empty)
  \/ RunFails(t) \/ Rollback(t) \/ Raise(t)
  \/ SendDone(t) \/ Commit(t) \/ CommitFails(t)

Administer ==
  \/ \E k \in Keys : RevokeKey(k)
  \/ \E u \in Tutors : DeleteTutor(u) \/ \E active \in BOOLEAN : SetStatus(u, active)
  \/ \E s \in Sessions : Authorize(s) \/ Open(s) \/ OpenFails(s) \/ Expire(s)
  \/ Cleanup

Next ==
  \/ Administer
  \/ \E t \in Turns : Send(t) \/ Progress(t) \/ Disconnect(t)
  \/ Crash

Spec == Init /\ [][Next]_vars

\* Every handler keeps running: the agent run is bounded by
\* agent_timeout_seconds, lock waits end when their holder does, and the
\* client of a stream reads its events or goes away.
FairSpec == Spec /\ \A t \in Turns : WF_vars(Progress(t))

-----------------------------------------------------------------------------
(* Properties.                                                             *)

\* Exchanges never interleave: between two messages of one turn a session's
\* transcript, read by created_at, holds nothing else.  Two requests of the
\* same session may run at once; only the row lock taken through
\* last_seen_at keeps their rows apart.
ExchangesAdjacent ==
  \A s \in Sessions : \A q, a, m \in messages[s] :
    q.turn = a.turn => ~(q.at < m.at /\ m.at < a.at)

\* A turn is stored whole or not at all: every stored message belongs to a
\* turn that was committed, and its question and its answer are both there.
OnlyWholeExchanges ==
  \A s \in Sessions : \A m \in messages[s] :
    /\ phase[m.turn] = "finished"
    /\ {r.role : r \in {n \in messages[s] : n.turn = m.turn}} = Role

\* What the agent is given as history is the newest HistoryMax - 1 stored
\* messages of its session, less the blank ones, and it stays so until the
\* turn ends: neither its own prompt, nor a hole, nor a rival turn's row.
HistoryIsLatestPast ==
  \A t \in Turns : phase[t] \in {"running", "answered", "shown", "erring"} =>
    history[t] = NonBlank(Newest(messages[SessionOf[t]], HistoryMax - 1))

\* A request that arrives after its key was revoked (or deleted) never
\* reaches the agent, also on a session that was being opened at the time.
LateRequestNeverRuns ==
  \A t \in Turns : late[t] => phase[t] \notin InFlight \cup {"finished", "failed"}

\* Nothing outlives its session: a deleted or unborn session has neither
\* stored messages nor a turn still writing to it.
GoneSessionHoldsNothing ==
  \A s \in Sessions : session[s] # "open" =>
    /\ messages[s] = {}
    /\ \A t \in Turns : SessionOf[t] = s => ~Writing(t)

\* A transcript is append-only: while its session exists no message leaves
\* it, and every message that joins it is later than those already there.
TranscriptAppendOnly ==
  [][\A s \in Sessions : session'[s] = "open" =>
       /\ messages[s] \subseteq messages'[s]
       /\ \A m \in messages'[s] \ messages[s], r \in messages[s] : r.at < m.at]_vars

\* Every request that arrives gets an end: no handler waits forever for the
\* row lock of a turn that failed, was cancelled or was refused.
EveryRequestEnds ==
  \A t \in Turns : phase[t] = "sent" ~> phase[t] \in Final

\* What the docstring of ChatService.answer promises: the question of an
\* answer that was interrupted stays in the transcript.
InterruptedTurnKeepsQuestion ==
  [][\A t \in Turns :
       phase[t] \in {"running", "answered", "shown", "erring"}
         /\ phase'[t] \in {"failed", "dropped"}
       => \E m \in messages'[SessionOf[t]] : m.turn = t /\ m.role = "user"]_vars
=============================================================================
