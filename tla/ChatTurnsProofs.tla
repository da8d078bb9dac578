-------------------------- MODULE ChatTurnsProofs --------------------------
(***************************************************************************)
(* Proofs about ChatTurns for any number of tutors, keys, sessions and     *)
(* turns, for SQLite's lock and for PostgreSQL's.                          *)
(***************************************************************************)
EXTENDS ChatTurnsRefinement, FiniteSetTheorems, SequenceTheorems, TLAPS

-----------------------------------------------------------------------------
(* The ways a turn can end without committing are one to the database.     *)

Ends(t) ==
  /\ phase[t] \in InFlight
  /\ \E x \in {"failed", "dropped"} : phase' = [phase EXCEPT ![t] = x]
  /\ Release(t)
  /\ UNCHANGED <<tables, messages, now, late>>

LEMMA Endings ==
  ASSUME NEW t \in Turns,
         StoreFails(t) \/ Rollback(t) \/ Raise(t) \/ CommitFails(t) \/ Disconnect(t)
  PROVE  Ends(t)
<1>1. CASE StoreFails(t)
  BY <1>1 DEF StoreFails, Moves, Ends, InFlight
<1>2. CASE Rollback(t)
  BY <1>2 DEF Rollback, Moves, Ends, InFlight
<1>3. CASE Raise(t)
  BY <1>3 DEF Raise, Ends, InFlight
<1>4. CASE CommitFails(t)
  BY <1>4 DEF CommitFails, ReadyToCommit, Ends, InFlight
<1>5. CASE Disconnect(t)
  BY <1>5 DEF Disconnect, Ends
<1> QED
  BY <1>1, <1>2, <1>3, <1>4, <1>5

-----------------------------------------------------------------------------
(* Type correctness.                                                       *)

\* The rows a turn inserts are messages.
LEMMA RowsAreMessages ==
  ASSUME NEW t \in Turns, NEW r \in Role, NEW b \in BOOLEAN, NEW n \in Nat
  PROVE  [turn |-> t, role |-> r, blank |-> b, at |-> n] \in Message
  BY DEF Message

\* What is read of a set of rows is rows of that set.
LEMMA ReadsAreRows ==
  ASSUME NEW rows, NEW n
  PROVE  NonBlank(AllButLast(Newest(rows, n))) \subseteq rows
  BY DEF NonBlank, AllButLast, Newest

LEMMA TypeInit == Init => TypeOK
  BY DEF Init, TypeOK, Phase

LEMMA TypeStep == TypeOK /\ [Next]_vars => TypeOK'
<1> SUFFICES ASSUME TypeOK, [Next]_vars PROVE TypeOK'
  OBVIOUS
<1> USE ShapeAssumption DEF TypeOK, Phase, InFlight, Final
<1>1. ASSUME NEW s \in Sessions, Authorize(s) PROVE TypeOK'
  BY <1>1 DEF Authorize, private
<1>2. ASSUME NEW s \in Sessions, Open(s) PROVE TypeOK'
  BY <1>2 DEF Open, private
<1>3. ASSUME NEW s \in Sessions, OpenFails(s) PROVE TypeOK'
  BY <1>3 DEF OpenFails, private
<1>4. ASSUME NEW s \in Sessions, Expire(s) PROVE TypeOK'
  BY <1>4 DEF Expire, private
<1>5. ASSUME NEW k \in Keys, RevokeKey(k) PROVE TypeOK'
  BY <1>5 DEF RevokeKey, private
<1>6. ASSUME NEW u \in Tutors, NEW active \in BOOLEAN, SetStatus(u, active)
      PROVE  TypeOK'
  BY <1>6 DEF SetStatus, private
<1>7. ASSUME NEW u \in Tutors, DeleteTutor(u) PROVE TypeOK'
  BY <1>7 DEF DeleteTutor, DeleteSessions, private
<1>8. ASSUME Cleanup PROVE TypeOK'
  BY <1>8 DEF Cleanup, DeleteSessions, private
<1>9. ASSUME NEW t \in Turns, Send(t) PROVE TypeOK'
  BY <1>9 DEF Send, Moves, tables, private
<1>10. ASSUME NEW t \in Turns, Admit(t) \/ Refuse(t) \/ Throttle(t) PROVE TypeOK'
  <2>1. CASE Admit(t)
    BY <2>1 DEF Admit, Moves, tables
  <2>2. CASE Refuse(t) \/ Throttle(t)
    BY <2>2 DEF Refuse, Throttle, Moves, tables, private
  <2> QED
    BY <1>10, <2>1, <2>2
<1>11. ASSUME NEW t \in Turns, StoreQuestion(t) PROVE TypeOK'
  <2> DEFINE row == [turn |-> t, role |-> "user", blank |-> FALSE, at |-> now]
  <2>1. row \in Message /\ row.at = now
    BY RowsAreMessages DEF Role
  <2>2. pending' = [pending EXCEPT ![t] = {row}] /\ now' = now + 1
    BY <1>11 DEF StoreQuestion
  <2>3. pending' \in [Turns -> SUBSET Message]
    BY <2>1, <2>2
  <2>4. \A u \in Turns : \A m \in pending'[u] : m.at < now'
    BY <2>1, <2>2 DEF Message
  <2>5. \A s \in Sessions : \A m \in messages[s] : m.at < now'
    BY <2>2 DEF Message
  <2> QED
    BY <1>11, <2>2, <2>3, <2>4, <2>5 DEF StoreQuestion, Moves, tables
<1>12. ASSUME NEW t \in Turns, NEW empty \in BOOLEAN, Answer(t, empty) PROVE TypeOK'
  <2> DEFINE row == [turn |-> t, role |-> "assistant", blank |-> empty, at |-> now]
  <2>1. row \in Message /\ row.at = now
    BY RowsAreMessages DEF Role
  <2>2. pending' = [pending EXCEPT ![t] = @ \cup {row}] /\ now' = now + 1
    BY <1>12 DEF Answer
  <2>3. pending' \in [Turns -> SUBSET Message]
    BY <2>1, <2>2
  <2>4. \A u \in Turns : \A m \in pending'[u] : m.at < now'
    BY <2>1, <2>2 DEF Message
  <2>5. \A s \in Sessions : \A m \in messages[s] : m.at < now'
    BY <2>2 DEF Message
  <2> QED
    BY <1>12, <2>2, <2>3, <2>4, <2>5 DEF Answer, Moves, tables
<1>13. ASSUME NEW t \in Turns, LoadHistory(t) PROVE TypeOK'
  <2>1. messages[SessionOf[t]] \cup pending[t] \in SUBSET Message
    OBVIOUS
  <2>2. history'[t] \in SUBSET Message
    BY <1>13, <2>1, ReadsAreRows DEF LoadHistory
  <2> QED
    BY <1>13, <2>2 DEF LoadHistory, Moves, tables
<1>14. ASSUME NEW t \in Turns, RunFails(t) \/ SendDone(t) PROVE TypeOK'
  BY <1>14 DEF RunFails, SendDone, Moves, tables, private
<1>15. ASSUME NEW t \in Turns,
              StoreFails(t) \/ Rollback(t) \/ Raise(t) \/ CommitFails(t) \/ Disconnect(t)
       PROVE  TypeOK'
  <2>1. Ends(t)
    BY <1>15, Endings
  <2> QED
    BY <2>1 DEF Ends, Release, tables
<1>16. ASSUME NEW t \in Turns, Commit(t) PROVE TypeOK'
  BY <1>16 DEF Commit, Release, tables
<1>17. ASSUME Crash PROVE TypeOK'
  BY <1>17 DEF Crash
<1>18. CASE UNCHANGED vars
  BY <1>18 DEF vars
<1> HIDE DEF TypeOK
<1> QED
  BY <1>1, <1>2, <1>3, <1>4, <1>5, <1>6, <1>7, <1>8, <1>9, <1>10, <1>11, <1>12,
     <1>13, <1>14, <1>15, <1>16, <1>17, <1>18
  DEF Next, Administer, Progress

\* Every variable keeps its type, and no row is stamped with a time still
\* to come, whatever the handlers, the administrator and the clock do.
THEOREM TypeCorrect == Spec => []TypeOK
  BY TypeInit, TypeStep, PTL DEF Spec

-----------------------------------------------------------------------------
(* Locking: a turn holds its session's row from its first flush to its end, *)
(* nobody else does meanwhile, and the session is not deleted under it.    *)

Holds == {"stored", "running", "answered", "shown", "erring"}

TouchedWhenAdmitted == \A t \in Turns : phase[t] = "admitted" => dirty[t] = TRUE
HeldWhileWriting ==
  \A t \in Turns : phase[t] \in Holds =>
    /\ locked[t] = TRUE
    /\ Writing(t)
    /\ session[SessionOf[t]] = "open"
FreeOtherwise ==
  \A t \in Turns : phase[t] \notin Holds => locked[t] = FALSE /\ ~Writing(t)
Exclusive ==
  \A t, u \in Turns :
    t # u /\ SessionOf[t] = SessionOf[u] => ~(phase[t] \in Holds /\ phase[u] \in Holds)
EmptyUnlessOpen == \A s \in Sessions : session[s] # "open" => messages[s] = {}

LockInv ==
  /\ TouchedWhenAdmitted
  /\ HeldWhileWriting
  /\ FreeOtherwise
  /\ Exclusive
  /\ EmptyUnlessOpen

LEMMA LockInit == Init => LockInv
  BY ShapeAssumption
  DEF Init, LockInv, TouchedWhenAdmitted, HeldWhileWriting, FreeOtherwise,
      Exclusive, EmptyUnlessOpen, Holds, Writing

\* Steps of the administrator and the clock that neither delete a session
\* nor close an open one leave the locking alone.
LEMMA QuietTablesKeepLocks ==
  ASSUME TypeOK, LockInv,
         UNCHANGED <<messages, phase, private>>,
         \A s \in Sessions : session[s] = "open" => session'[s] = "open"
  PROVE  LockInv'
  BY ShapeAssumption
  DEF TypeOK, LockInv, TouchedWhenAdmitted, HeldWhileWriting, FreeOtherwise,
      Exclusive, EmptyUnlessOpen, Writing, private

\* Deleting sessions nobody writes to does, too.
LEMMA DeletionKeepsLocks ==
  ASSUME TypeOK, LockInv, NEW S \in SUBSET Sessions,
         CanDelete(S), DeleteSessions(S), UNCHANGED <<phase, private>>
  PROVE  LockInv'
<1>1. TouchedWhenAdmitted' /\ FreeOtherwise' /\ Exclusive'
  BY DEF LockInv, TouchedWhenAdmitted, FreeOtherwise, Exclusive, Writing, private
<1>2. HeldWhileWriting'
  BY ShapeAssumption
  DEF TypeOK, LockInv, HeldWhileWriting, Writing, CanDelete, DeleteSessions, private
<1>3. EmptyUnlessOpen'
  BY DEF TypeOK, LockInv, EmptyUnlessOpen, DeleteSessions
<1> QED
  BY <1>1, <1>2, <1>3 DEF LockInv

LEMMA LockStep == TypeOK /\ LockInv /\ [Next]_vars => LockInv'
<1> SUFFICES ASSUME TypeOK, LockInv, [Next]_vars PROVE LockInv'
  OBVIOUS
<1>1. ASSUME NEW s \in Sessions, Authorize(s) \/ Open(s) \/ OpenFails(s) \/ Expire(s)
      PROVE  LockInv'
  BY <1>1, QuietTablesKeepLocks DEF Authorize, Open, OpenFails, Expire, TypeOK
<1>2. ASSUME NEW k \in Keys, RevokeKey(k) PROVE LockInv'
  BY <1>2, QuietTablesKeepLocks DEF RevokeKey
<1>3. ASSUME NEW u \in Tutors, NEW active \in BOOLEAN, SetStatus(u, active)
      PROVE  LockInv'
  BY <1>3, QuietTablesKeepLocks DEF SetStatus
<1>4. ASSUME NEW u \in Tutors, DeleteTutor(u) PROVE LockInv'
  BY <1>4, DeletionKeepsLocks DEF DeleteTutor
<1>5. ASSUME Cleanup PROVE LockInv'
  BY <1>5, DeletionKeepsLocks DEF Cleanup
<1>6. ASSUME NEW t \in Turns, Send(t) \/ Refuse(t) \/ Throttle(t) PROVE LockInv'
  BY <1>6
  DEF Send, Refuse, Throttle, Moves, tables, private, TypeOK, LockInv, TouchedWhenAdmitted,
      HeldWhileWriting, FreeOtherwise, Exclusive, EmptyUnlessOpen, Holds, Writing
<1>7. ASSUME NEW t \in Turns, Admit(t) PROVE LockInv'
  BY <1>7
  DEF Admit, Moves, tables, TypeOK, LockInv, TouchedWhenAdmitted,
      HeldWhileWriting, FreeOtherwise, Exclusive, EmptyUnlessOpen, Holds, Writing
<1>8. ASSUME NEW t \in Turns, StoreQuestion(t) PROVE LockInv'
  <2> USE <1>8 DEF StoreQuestion, Moves, tables, TypeOK
  <2>1. TouchedWhenAdmitted' /\ EmptyUnlessOpen'
    BY DEF LockInv, TouchedWhenAdmitted, EmptyUnlessOpen
  <2>2. HeldWhileWriting' /\ FreeOtherwise'
    <3>1. phase'[t] = "stored" /\ locked'[t] = TRUE /\ pending'[t] # {}
      BY DEF LockInv, TouchedWhenAdmitted
    <3>2. \A u \in Turns \ {t} :
            phase'[u] = phase[u] /\ locked'[u] = locked[u] /\ pending'[u] = pending[u]
      OBVIOUS
    <3> QED
      BY <3>1, <3>2 DEF LockInv, HeldWhileWriting, FreeOtherwise, Holds, Writing
  <2>3. \A u \in Turns \ {t} : SessionOf[u] = SessionOf[t] => phase[u] \notin Holds
    BY DEF LockInv, TouchedWhenAdmitted, HeldWhileWriting, CanLock
  <2>4. Exclusive'
    BY <2>3 DEF LockInv, Exclusive
  <2> QED
    BY <2>1, <2>2, <2>4 DEF LockInv
<1>9. ASSUME NEW t \in Turns, NEW empty \in BOOLEAN, Answer(t, empty) PROVE LockInv'
  BY <1>9
  DEF Answer, Moves, tables, TypeOK, LockInv, TouchedWhenAdmitted,
      HeldWhileWriting, FreeOtherwise, Exclusive, EmptyUnlessOpen, Holds, Writing
<1>10. ASSUME NEW t \in Turns, LoadHistory(t) \/ RunFails(t) \/ SendDone(t)
       PROVE  LockInv'
  BY <1>10
  DEF LoadHistory, RunFails, SendDone, Moves, tables, private, TypeOK, LockInv,
      TouchedWhenAdmitted, HeldWhileWriting, FreeOtherwise, Exclusive, EmptyUnlessOpen,
      Holds, Writing
<1>11. ASSUME NEW t \in Turns, Ends(t) PROVE LockInv'
  BY <1>11
  DEF Ends, Release, tables, TypeOK, LockInv, TouchedWhenAdmitted, HeldWhileWriting,
      FreeOtherwise, Exclusive, EmptyUnlessOpen, Holds, Writing
<1>12. ASSUME NEW t \in Turns, Commit(t) PROVE LockInv'
  BY <1>12, ShapeAssumption
  DEF Commit, ReadyToCommit, Release, tables, TypeOK, LockInv, TouchedWhenAdmitted,
      HeldWhileWriting, FreeOtherwise, Exclusive, EmptyUnlessOpen, Holds, Writing
<1>13. ASSUME Crash PROVE LockInv'
  BY <1>13, ShapeAssumption
  DEF Crash, TypeOK, LockInv, TouchedWhenAdmitted, HeldWhileWriting, FreeOtherwise,
      Exclusive, EmptyUnlessOpen, Holds, InFlight, Writing
<1>14. CASE UNCHANGED vars
  BY <1>14, QuietTablesKeepLocks DEF vars, private
<1> QED
  BY <1>1, <1>2, <1>3, <1>4, <1>5, <1>6, <1>7, <1>8, <1>9, <1>10, <1>11, <1>12,
     <1>13, <1>14, Endings
  DEF Next, Administer, Progress

\* No deleted session is still written to or still has messages.
THEOREM SessionsCoverTheirRows == Spec => []GoneSessionHoldsNothing
<1>1. LockInv => GoneSessionHoldsNothing
  BY DEF LockInv, HeldWhileWriting, FreeOtherwise, EmptyUnlessOpen, GoneSessionHoldsNothing
<1> QED
  BY <1>1, LockInit, LockStep, TypeCorrect, PTL DEF Spec

-----------------------------------------------------------------------------
(* Rows: what is stored came from finished turns, two rows each, and what  *)
(* a turn is about to add is later than all of it.                         *)

StoredRows ==
  \A s \in Sessions : \A m \in messages[s] :
    /\ SessionOf[m.turn] = s
    /\ phase[m.turn] = "finished"
    /\ \E n \in messages[s] : n.turn = m.turn /\ n.role # m.role
PendingRows ==
  \A t \in Turns : \A m \in pending[t] :
    /\ m.turn = t
    /\ \A r \in messages[SessionOf[t]] : r.at < m.at
PendingShape ==
  \A t \in Turns : \A x, y \in pending[t] :
    /\ x.role = y.role => x = y
    /\ x.role = "user" /\ y.role = "assistant" => x.at < y.at
PendingRoles ==
  \A t \in Turns :
    /\ phase[t] \in {"stored", "running", "erring"} =>
         \A m \in pending[t] : m.role = "user"
    /\ phase[t] \in {"answered", "shown"} =>
         \E q, a \in pending[t] : q.role = "user" /\ a.role = "assistant"

RowsInv ==
  /\ StoredRows
  /\ ExchangesAdjacent
  /\ PendingRows
  /\ PendingShape
  /\ PendingRoles

LEMMA RowsInit == Init => RowsInv
  BY DEF Init, RowsInv, StoredRows, ExchangesAdjacent, PendingRows, PendingShape, PendingRoles

\* Steps that move no row, end no turn and leave the roles due in each phase.
LEMMA NoRowMoves ==
  ASSUME TypeOK, RowsInv, UNCHANGED <<messages, pending>>,
         \A t \in Turns :
           /\ phase[t] = "finished" => phase'[t] = "finished"
           /\ phase'[t] \in {"stored", "running", "erring"} =>
                phase[t] \in {"stored", "running", "erring"}
           /\ phase'[t] \in {"answered", "shown"} => phase[t] \in {"answered", "shown"}
  PROVE  RowsInv'
<1>1. StoredRows'
  BY DEF TypeOK, RowsInv, StoredRows, Message
<1>2. ExchangesAdjacent' /\ PendingRows' /\ PendingShape'
  BY DEF RowsInv, ExchangesAdjacent, PendingRows, PendingShape
<1>3. PendingRoles'
  BY DEF RowsInv, PendingRoles
<1> QED
  BY <1>1, <1>2, <1>3 DEF RowsInv

LEMMA DeletionKeepsRows ==
  ASSUME TypeOK, RowsInv, NEW S \in SUBSET Sessions,
         DeleteSessions(S), UNCHANGED <<phase, pending>>
  PROVE  RowsInv'
<1>1. \A s \in Sessions : messages'[s] = {} \/ messages'[s] = messages[s]
  BY DEF DeleteSessions
<1>2. StoredRows' /\ ExchangesAdjacent'
  BY <1>1 DEF RowsInv, StoredRows, ExchangesAdjacent
<1>3. PendingRows'
  BY <1>1, ShapeAssumption DEF RowsInv, PendingRows
<1>4. PendingShape' /\ PendingRoles'
  BY DEF RowsInv, PendingShape, PendingRoles
<1> QED
  BY <1>2, <1>3, <1>4 DEF RowsInv

\* Steps that throw a turn's rows away.
LEMMA DroppedRows ==
  ASSUME TypeOK, RowsInv, UNCHANGED messages,
         \A t \in Turns :
           /\ phase[t] = "finished" => phase'[t] = "finished"
           /\ \/ pending'[t] = {} /\ phase'[t] \notin Holds
              \/ pending'[t] = pending[t] /\ phase'[t] = phase[t]
  PROVE  RowsInv'
<1>1. StoredRows' /\ ExchangesAdjacent'
  BY DEF TypeOK, RowsInv, StoredRows, ExchangesAdjacent, Message
<1>2. PendingRows'
  BY DEF RowsInv, PendingRows
<1>3. PendingShape'
  BY DEF RowsInv, PendingShape
<1>4. PendingRoles'
  BY DEF RowsInv, PendingRoles, Holds
<1> QED
  BY <1>1, <1>2, <1>3, <1>4 DEF RowsInv

LEMMA QuestionKeepsRows ==
  ASSUME TypeOK, RowsInv, NEW t \in Turns, StoreQuestion(t)
  PROVE  RowsInv'
<1> DEFINE row == [turn |-> t, role |-> "user", blank |-> FALSE, at |-> now]
<1>1. /\ pending' = [pending EXCEPT ![t] = {row}]
      /\ phase' = [phase EXCEPT ![t] = "stored"] /\ phase[t] = "admitted"
      /\ messages' = messages
  BY DEF StoreQuestion, Moves
<1>2. pending'[t] = {row} /\ \A u \in Turns \ {t} : pending'[u] = pending[u]
  BY <1>1 DEF TypeOK
<1>3. \A r \in messages[SessionOf[t]] : r.at < row.at
  BY ShapeAssumption DEF TypeOK
<1>4. StoredRows' /\ ExchangesAdjacent'
  BY <1>1 DEF TypeOK, RowsInv, StoredRows, ExchangesAdjacent, Message
<1>5. PendingRows'
  BY <1>1, <1>2, <1>3 DEF RowsInv, PendingRows
<1>6. PendingShape'
  <2>1. \A x, y \in pending'[t] : x = y /\ ~(x.role = "user" /\ y.role = "assistant")
    BY <1>2
  <2> QED
    BY <1>2, <2>1 DEF RowsInv, PendingShape
<1>7. PendingRoles'
  BY <1>1, <1>2 DEF TypeOK, RowsInv, PendingRoles
<1> QED
  BY <1>4, <1>5, <1>6, <1>7 DEF RowsInv

LEMMA AnswerKeepsRows ==
  ASSUME TypeOK, LockInv, RowsInv, NEW t \in Turns, NEW empty \in BOOLEAN,
         Answer(t, empty)
  PROVE  RowsInv'
<1> DEFINE row == [turn |-> t, role |-> "assistant", blank |-> empty, at |-> now]
<1>1. /\ pending' = [pending EXCEPT ![t] = @ \cup {row}]
      /\ phase' = [phase EXCEPT ![t] = "answered"] /\ phase[t] = "running"
      /\ messages' = messages
  BY DEF Answer, Moves
<1>2. pending'[t] = pending[t] \cup {row} /\ \A u \in Turns \ {t} : pending'[u] = pending[u]
  BY <1>1 DEF TypeOK
<1>3. /\ \A r \in messages[SessionOf[t]] : r.at < row.at
      /\ \A m \in pending[t] : m.role = "user" /\ m.at < row.at
      /\ \E q \in pending[t] : TRUE
  BY <1>1, ShapeAssumption
  DEF TypeOK, RowsInv, PendingRoles, LockInv, HeldWhileWriting, Holds, Writing
<1>4. StoredRows' /\ ExchangesAdjacent'
  BY <1>1 DEF TypeOK, RowsInv, StoredRows, ExchangesAdjacent, Message
<1>5. PendingRows'
  BY <1>1, <1>2, <1>3 DEF RowsInv, PendingRows
<1>6. PendingShape'
  BY <1>2, <1>3 DEF RowsInv, PendingShape
<1>7. PendingRoles'
  <2>1. \E q, a \in pending'[t] : q.role = "user" /\ a.role = "assistant"
    <3>1. PICK q \in pending[t] : q.role = "user"
      BY <1>3
    <3>2. q \in pending'[t] /\ row \in pending'[t] /\ row.role = "assistant"
      BY <1>2
    <3> QED
      BY <3>1, <3>2
  <2> QED
    BY <1>1, <1>2, <2>1 DEF TypeOK, RowsInv, PendingRoles
<1> QED
  BY <1>4, <1>5, <1>6, <1>7 DEF RowsInv

\* Where a commit puts its rows: after all the others, and only there.
LEMMA CommitAppends ==
  ASSUME TypeOK, LockInv, RowsInv, NEW t \in Turns, Commit(t)
  PROVE  /\ messages' = [messages EXCEPT ![SessionOf[t]] = @ \cup pending[t]]
         /\ phase' = [phase EXCEPT ![t] = "finished"]
         /\ phase[t] \in {"answered", "shown"}
         /\ pending' = [pending EXCEPT ![t] = {}]
         /\ session' = session
         /\ SessionOf[t] \in Sessions
         /\ \A m \in pending[t] :
              m.turn = t /\ \A r \in messages[SessionOf[t]] : r.at < m.at /\ r.turn # t
<1>1. phase[t] \in {"answered", "shown"}
  BY DEF Commit, ReadyToCommit
<1>2. SessionOf[t] \in Sessions
  BY ShapeAssumption
<1>3. \A r \in messages[SessionOf[t]] : r.turn # t
  BY <1>1, <1>2 DEF RowsInv, StoredRows
<1> QED
  BY <1>1, <1>2, <1>3 DEF Commit, Release, tables, RowsInv, PendingRows

LEMMA CommitKeepsRows ==
  ASSUME TypeOK, LockInv, RowsInv, NEW t \in Turns, Commit(t)
  PROVE  RowsInv'
<1> DEFINE s == SessionOf[t]
           old == messages[s]
           new == pending[t]
<1>1. /\ messages'[s] = old \cup new
      /\ \A x \in Sessions \ {s} : messages'[x] = messages[x]
      /\ s \in Sessions
  BY CommitAppends DEF TypeOK
<1>2. \A m \in new : m.turn = t /\ \A r \in old : r.at < m.at /\ r.turn # t
  BY CommitAppends
<1>3. /\ phase[t] \in {"answered", "shown"}
      /\ phase'[t] = "finished"
      /\ \A u \in Turns \ {t} : phase'[u] = phase[u]
      /\ pending'[t] = {}
      /\ \A u \in Turns \ {t} : pending'[u] = pending[u]
  BY CommitAppends DEF TypeOK
<1>4. old \subseteq Message /\ new \subseteq Message
  BY <1>1 DEF TypeOK
<1>5. StoredRows'
  <2>1. \A m \in new : \E n \in new : n.turn = m.turn /\ n.role # m.role
    <3>1. PICK q \in new, a \in new : q.role = "user" /\ a.role = "assistant"
      BY <1>3 DEF RowsInv, PendingRoles
    <3> QED
      BY <3>1, <1>2
  <2>2. \A x \in Sessions : \A m \in messages[x] :
          SessionOf[m.turn] = x /\ phase'[m.turn] = "finished"
    BY <1>3 DEF TypeOK, RowsInv, StoredRows, Message
  <2>3. \A x \in Sessions : \A m \in messages'[x] :
          SessionOf[m.turn] = x /\ phase'[m.turn] = "finished"
    BY <1>1, <1>2, <1>3, <2>2
  <2>4. \A x \in Sessions : \A m \in messages'[x] :
          \E n \in messages'[x] : n.turn = m.turn /\ n.role # m.role
    BY <1>1, <2>1 DEF RowsInv, StoredRows
  <2> QED
    BY <2>3, <2>4 DEF StoredRows
<1>6. ExchangesAdjacent'
  <2> SUFFICES ASSUME NEW q \in messages'[s], NEW a \in messages'[s], NEW m \in messages'[s],
                      q.turn = a.turn, q.at < m.at, m.at < a.at
               PROVE  FALSE
    BY <1>1 DEF RowsInv, ExchangesAdjacent
  <2>1. CASE q \in old
    <3>1. a \in old
      BY <1>1, <1>2, <2>1
    <3>2. m \in old
      BY <1>1, <1>2, <1>4, <3>1 DEF Message
    <3> QED
      BY <2>1, <3>1, <3>2, <1>1 DEF RowsInv, ExchangesAdjacent
  <2>2. CASE q \in new
    <3>1. a \in new
      BY <1>1, <1>2, <2>2
    <3>2. m \in new
      BY <1>1, <1>2, <1>4, <2>2 DEF Message
    <3>3. {q.role, a.role, m.role} \subseteq Role
      BY <1>4, <2>2, <3>1, <3>2 DEF Message
    <3>4. q = a \/ q = m \/ a = m
      BY <2>2, <3>1, <3>2, <3>3 DEF RowsInv, PendingShape, Role
    <3> QED
      BY <3>4, <1>4, <2>2, <3>1, <3>2 DEF Message
  <2> QED
    BY <1>1, <2>1, <2>2
<1>7. PendingRows'
  <2>1. \A u \in Turns \ {t} : SessionOf[u] = s => pending[u] = {}
    BY <1>3 DEF LockInv, Exclusive, FreeOtherwise, Holds, Writing
  <2> QED
    BY <1>1, <1>3, <2>1, ShapeAssumption DEF RowsInv, PendingRows
<1>8. PendingShape' /\ PendingRoles'
  BY <1>3 DEF RowsInv, PendingShape, PendingRoles
<1> QED
  BY <1>5, <1>6, <1>7, <1>8 DEF RowsInv

LEMMA RowsStep == TypeOK /\ LockInv /\ RowsInv /\ [Next]_vars => RowsInv'
<1> SUFFICES ASSUME TypeOK, LockInv, RowsInv, [Next]_vars PROVE RowsInv'
  OBVIOUS
<1>1. ASSUME NEW s \in Sessions, Authorize(s) \/ Open(s) \/ OpenFails(s) \/ Expire(s)
      PROVE  RowsInv'
  BY <1>1, NoRowMoves DEF Authorize, Open, OpenFails, Expire, private
<1>2. ASSUME NEW k \in Keys, RevokeKey(k) PROVE RowsInv'
  BY <1>2, NoRowMoves DEF RevokeKey, private
<1>3. ASSUME NEW u \in Tutors, NEW active \in BOOLEAN, SetStatus(u, active)
      PROVE  RowsInv'
  BY <1>3, NoRowMoves DEF SetStatus, private
<1>4. ASSUME NEW u \in Tutors, DeleteTutor(u) PROVE RowsInv'
  BY <1>4, DeletionKeepsRows DEF DeleteTutor, private
<1>5. ASSUME Cleanup PROVE RowsInv'
  BY <1>5, DeletionKeepsRows DEF Cleanup, private
<1>6. ASSUME NEW t \in Turns, Send(t) \/ Admit(t) \/ Refuse(t) \/ Throttle(t)
      PROVE  RowsInv'
  BY <1>6, NoRowMoves DEF Send, Admit, Refuse, Throttle, Moves, private, TypeOK
<1>7. ASSUME NEW t \in Turns, LoadHistory(t) \/ RunFails(t) \/ SendDone(t)
      PROVE  RowsInv'
  BY <1>7, NoRowMoves DEF LoadHistory, RunFails, SendDone, Moves, private, TypeOK
<1>8. ASSUME NEW t \in Turns, Ends(t) PROVE RowsInv'
  BY <1>8, DroppedRows DEF Ends, Release, InFlight, Holds, TypeOK
<1>9. ASSUME Crash PROVE RowsInv'
  <2>1. \A t \in Turns : phase'[t] \notin Holds /\ pending'[t] = {}
    BY <1>9 DEF Crash, Holds, InFlight
  <2>2. \A t \in Turns : phase[t] = "finished" => phase'[t] = "finished"
    BY <1>9 DEF Crash, InFlight
  <2> QED
    BY <1>9, <2>1, <2>2, DroppedRows DEF Crash
<1>10. CASE UNCHANGED vars
  BY <1>10, NoRowMoves DEF vars
<1> QED
  BY <1>1, <1>2, <1>3, <1>4, <1>5, <1>6, <1>7, <1>8, <1>9, <1>10,
     QuestionKeepsRows, AnswerKeepsRows, CommitKeepsRows, Endings
  DEF Next, Administer, Progress

LEMMA RowsAlways == Spec => [](TypeOK /\ LockInv /\ RowsInv)
  BY TypeInit, TypeStep, LockInit, LockStep, RowsInit, RowsStep, PTL DEF Spec

\* No message is ever stored inside another turn's exchange.
THEOREM ExchangesNeverInterleave == Spec => []ExchangesAdjacent
<1>1. RowsInv => ExchangesAdjacent
  BY DEF RowsInv
<1> QED
  BY <1>1, RowsAlways, PTL

\* What is stored is whole exchanges of committed turns.
THEOREM ExchangesAreWhole == Spec => []OnlyWholeExchanges
<1>1. TypeOK /\ RowsInv => OnlyWholeExchanges
  <2> SUFFICES ASSUME TypeOK, RowsInv, NEW s \in Sessions, NEW m \in messages[s]
               PROVE  /\ phase[m.turn] = "finished"
                      /\ {r.role : r \in {n \in messages[s] : n.turn = m.turn}} = Role
    BY DEF OnlyWholeExchanges
  <2>1. PICK n \in messages[s] : n.turn = m.turn /\ n.role # m.role
    BY DEF RowsInv, StoredRows
  <2>2. \A r \in messages[s] : r.role \in Role
    BY DEF TypeOK, Message
  <2>3. {m.role, n.role} = Role
    BY <2>1, <2>2 DEF Role
  <2> QED
    BY <2>1, <2>2, <2>3 DEF RowsInv, StoredRows
<1> QED
  BY <1>1, RowsAlways, PTL

\* A transcript only ever grows, and at its end.
THEOREM TranscriptsAppend == Spec => TranscriptAppendOnly
<1> DEFINE Grows ==
      \A s \in Sessions : session'[s] = "open" =>
        /\ messages[s] \subseteq messages'[s]
        /\ \A m \in messages'[s] \ messages[s], r \in messages[s] : r.at < m.at
<1>1. TypeOK /\ LockInv /\ RowsInv /\ [Next]_vars => Grows
  <2> SUFFICES ASSUME TypeOK, LockInv, RowsInv, [Next]_vars PROVE Grows
    OBVIOUS
  <2>1. CASE \E t \in Turns : Commit(t)
    BY <2>1, CommitAppends DEF TypeOK
  <2>2. CASE UNCHANGED messages
    BY <2>2
  <2>3. ASSUME NEW S \in SUBSET Sessions, DeleteSessions(S) PROVE Grows
    BY <2>3 DEF DeleteSessions
  <2> QED
    BY <2>1, <2>2, <2>3
    DEF Next, vars, Administer, Progress, Authorize, Open, OpenFails, Expire, RevokeKey,
        SetStatus, DeleteTutor, Cleanup, Send, Admit, Refuse, Throttle, StoreQuestion,
        StoreFails, LoadHistory, Answer, RunFails, Rollback, Raise, SendDone, CommitFails,
        Disconnect, Crash
<1>2. TypeOK /\ LockInv /\ RowsInv /\ [Next]_vars => [Grows]_vars
  BY <1>1
<1> QED
  BY <1>2, RowsAlways, PTL DEF Spec, TranscriptAppendOnly

-----------------------------------------------------------------------------
(* History: dropping the last of the newest N rows, when the last one is   *)
(* the prompt, leaves the newest N - 1 of the others.                      *)

LEMMA NewestWithoutPrompt ==
  ASSUME NEW old \in SUBSET Message, IsFiniteSet(old), NEW q \in Message,
         \A m \in old : m.at < q.at
  PROVE  AllButLast(Newest(old \cup {q}, HistoryMax)) = Newest(old, HistoryMax - 1)
<1> DEFINE rows == old \cup {q}
           After(R, m) == {r \in R : r.at > m.at}
<1>1. \A m \in old :
        /\ Cardinality(After(rows, m)) = Cardinality(After(old, m)) + 1
        /\ Cardinality(After(old, m)) \in Nat
  <2> TAKE m \in old
  <2>1. IsFiniteSet(After(old, m))
    BY FS_Subset
  <2>2. After(rows, m) = After(old, m) \cup {q} /\ q \notin After(old, m)
    BY DEF Message
  <2>3. Cardinality(After(old, m) \cup {q}) = Cardinality(After(old, m)) + 1
    BY <2>1, <2>2, FS_AddElement
  <2>4. Cardinality(After(old, m)) \in Nat
    BY <2>1, FS_CardinalityType
  <2> QED
    BY <2>2, <2>3, <2>4
<1>2. After(rows, q) = {} /\ Cardinality(After(rows, q)) = 0
  <2>1. After(rows, q) = {}
    BY DEF Message
  <2> QED
    BY <2>1, FS_EmptySet
<1>3. Newest(rows, HistoryMax) = {m \in rows : Cardinality(After(rows, m)) < HistoryMax}
  BY DEF Newest
<1>4. Newest(old, HistoryMax - 1) = {m \in old : Cardinality(After(old, m)) < HistoryMax - 1}
  BY DEF Newest
<1> HIDE DEF After
<1>5. \A m \in old : m \in Newest(rows, HistoryMax) <=> m \in Newest(old, HistoryMax - 1)
  <2> TAKE m \in old
  <2>1. m \in Newest(rows, HistoryMax) <=> Cardinality(After(rows, m)) < HistoryMax
    BY <1>3
  <2>2. m \in Newest(old, HistoryMax - 1) <=> Cardinality(After(old, m)) < HistoryMax - 1
    BY <1>4
  <2>3. /\ Cardinality(After(rows, m)) = Cardinality(After(old, m)) + 1
        /\ Cardinality(After(old, m)) \in Nat
    BY <1>1
  <2> HIDE DEF rows
  <2> QED
    BY <2>1, <2>2, <2>3, HistoryAssumption
<1>6. CASE HistoryMax = 0
  <2>1. Newest(rows, HistoryMax) = {}
    <3>1. \A m \in rows : Cardinality(After(rows, m)) \in Nat
      BY <1>1, <1>2
    <3> HIDE DEF rows
    <3> QED
      BY <1>3, <1>6, <3>1
  <2> QED
    BY <1>4, <1>5, <2>1 DEF AllButLast
<1>7. CASE HistoryMax > 0
  <2>1. q \in Newest(rows, HistoryMax)
    BY <1>2, <1>3, <1>7
  <2>2. Newest(rows, HistoryMax) \subseteq rows /\ Newest(old, HistoryMax - 1) \subseteq old
    BY <1>3, <1>4
  <2>3. \A m \in old : m \in Newest(rows, HistoryMax) => q.at > m.at
    BY DEF Message
  <2>4. \A r \in rows : ~(r.at > q.at)
    BY DEF Message
  <2>5. q \notin old
    BY DEF Message
  <2> QED
    BY <1>5, <2>1, <2>2, <2>3, <2>4, <2>5 DEF AllButLast
<1> QED
  BY <1>6, <1>7, HistoryAssumption

FiniteRows ==
  /\ \A s \in Sessions : IsFiniteSet(messages[s])
  /\ \A t \in Turns : IsFiniteSet(pending[t])

Reading == {"running", "answered", "shown", "erring"}

HistInv == FiniteRows /\ HistoryIsLatestPast

LEMMA HistInit == Init => HistInv
  BY FS_EmptySet, ShapeAssumption DEF Init, HistInv, FiniteRows, HistoryIsLatestPast

LEMMA FiniteStep == TypeOK /\ FiniteRows /\ [Next]_vars => FiniteRows'
<1> SUFFICES ASSUME TypeOK, FiniteRows, [Next]_vars PROVE FiniteRows'
  OBVIOUS
<1> USE FS_EmptySet
<1>1. CASE UNCHANGED <<messages, pending>>
  BY <1>1 DEF FiniteRows
<1>2. ASSUME NEW S \in SUBSET Sessions, DeleteSessions(S), UNCHANGED pending
      PROVE  FiniteRows'
  BY <1>2 DEF DeleteSessions, FiniteRows
<1>3. ASSUME NEW t \in Turns, StoreQuestion(t) PROVE FiniteRows'
  <2> DEFINE row == [turn |-> t, role |-> "user", blank |-> FALSE, at |-> now]
  <2>1. IsFiniteSet({row})
    BY FS_Singleton
  <2> QED
    BY <1>3, <2>1 DEF StoreQuestion, FiniteRows, TypeOK
<1>4. ASSUME NEW t \in Turns, NEW empty \in BOOLEAN, Answer(t, empty)
      PROVE  FiniteRows'
  <2> DEFINE row == [turn |-> t, role |-> "assistant", blank |-> empty, at |-> now]
  <2>1. IsFiniteSet(pending[t] \cup {row})
    BY FS_AddElement DEF FiniteRows
  <2> QED
    BY <1>4, <2>1 DEF Answer, FiniteRows, TypeOK
<1>5. ASSUME NEW t \in Turns, Ends(t) PROVE FiniteRows'
  BY <1>5 DEF Ends, Release, FiniteRows, TypeOK
<1>6. ASSUME NEW t \in Turns, Commit(t) PROVE FiniteRows'
  <2>1. SessionOf[t] \in Sessions
    BY ShapeAssumption
  <2>2. IsFiniteSet(messages[SessionOf[t]] \cup pending[t])
    BY <2>1, FS_Union DEF FiniteRows
  <2> QED
    BY <1>6, <2>2 DEF Commit, Release, FiniteRows, TypeOK
<1>7. ASSUME Crash PROVE FiniteRows'
  BY <1>7 DEF Crash, FiniteRows
<1> QED
  BY <1>1, <1>2, <1>3, <1>4, <1>5, <1>6, <1>7, Endings
  DEF Next, vars, private, Administer, Progress, Authorize, Open, OpenFails, Expire,
      RevokeKey, SetStatus, DeleteTutor, Cleanup, Send, Admit, Refuse, Throttle,
      LoadHistory, RunFails, SendDone

\* A turn keeps the history it read as long as neither that nor what is
\* stored in its session changes.
LEMMA HistoryKept ==
  ASSUME HistoryIsLatestPast,
         \A t \in Turns : phase'[t] \in Reading =>
           /\ phase[t] \in Reading
           /\ history'[t] = history[t]
           /\ messages'[SessionOf[t]] = messages[SessionOf[t]]
  PROVE  HistoryIsLatestPast'
  BY DEF HistoryIsLatestPast, Reading

\* Reading it: the only row of its own the turn can see is its prompt.
LEMMA HistoryRead ==
  ASSUME TypeOK, LockInv, RowsInv, FiniteRows, NEW t \in Turns, LoadHistory(t)
  PROVE  history'[t] = NonBlank(Newest(messages[SessionOf[t]], HistoryMax - 1))
<1> DEFINE old == messages[SessionOf[t]]
<1>1. phase[t] = "stored"
  BY DEF LoadHistory, Moves
<1>2. PICK q \in pending[t] : TRUE
  BY <1>1 DEF LockInv, HeldWhileWriting, Holds, Writing
<1>3. \A m \in pending[t] : m = q
  BY <1>1, <1>2 DEF RowsInv, PendingRoles, PendingShape
<1>4. pending[t] = {q} /\ q \in Message
  BY <1>2, <1>3 DEF TypeOK
<1>5. \A m \in old : m.at < q.at
  BY <1>2 DEF RowsInv, PendingRows
<1>6. IsFiniteSet(old) /\ old \in SUBSET Message
  BY ShapeAssumption DEF FiniteRows, TypeOK
<1>7. AllButLast(Newest(old \cup {q}, HistoryMax)) = Newest(old, HistoryMax - 1)
  BY <1>4, <1>5, <1>6, NewestWithoutPrompt
<1> QED
  BY <1>4, <1>7 DEF LoadHistory, TypeOK

LEMMA HistoryStep ==
  TypeOK /\ LockInv /\ RowsInv /\ HistInv /\ [Next]_vars => HistoryIsLatestPast'
<1> SUFFICES ASSUME TypeOK, LockInv, RowsInv, HistInv, [Next]_vars
             PROVE  HistoryIsLatestPast'
  OBVIOUS
<1> USE HistoryKept DEF HistInv
<1>1. CASE UNCHANGED <<messages, phase, history>>
  BY <1>1
<1>2. ASSUME NEW S \in SUBSET Sessions,
             DeleteSessions(S), CanDelete(S), UNCHANGED <<phase, history>>
      PROVE  HistoryIsLatestPast'
  <2>1. \A t \in Turns : phase[t] \in Reading => SessionOf[t] \notin S
    BY <1>2 DEF LockInv, HeldWhileWriting, Holds, Reading, CanDelete
  <2> QED
    BY <1>2, <2>1, ShapeAssumption DEF DeleteSessions
<1>3. ASSUME NEW t \in Turns,
             Send(t) \/ Admit(t) \/ Refuse(t) \/ Throttle(t) \/ StoreQuestion(t)
      PROVE  HistoryIsLatestPast'
  BY <1>3
  DEF Send, Admit, Refuse, Throttle, StoreQuestion, Moves, private, TypeOK, Reading
<1>4. ASSUME NEW t \in Turns, NEW empty \in BOOLEAN,
             RunFails(t) \/ SendDone(t) \/ Answer(t, empty)
      PROVE  HistoryIsLatestPast'
  BY <1>4 DEF RunFails, SendDone, Answer, Moves, private, TypeOK, Reading
<1>5. ASSUME NEW t \in Turns, LoadHistory(t) PROVE HistoryIsLatestPast'
  <2>1. history'[t] = NonBlank(Newest(messages[SessionOf[t]], HistoryMax - 1))
    BY <1>5, HistoryRead
  <2>2. \A u \in Turns \ {t} : phase'[u] = phase[u] /\ history'[u] = history[u]
    BY <1>5 DEF LoadHistory, Moves, TypeOK
  <2>3. messages' = messages
    BY <1>5 DEF LoadHistory
  <2> QED
    BY <2>1, <2>2, <2>3 DEF HistoryIsLatestPast
<1>6. ASSUME NEW t \in Turns, Ends(t) PROVE HistoryIsLatestPast'
  BY <1>6 DEF Ends, Release, TypeOK, Reading
<1>7. ASSUME NEW t \in Turns, Commit(t) PROVE HistoryIsLatestPast'
  <2>1. /\ phase'[t] = "finished"
        /\ \A u \in Turns \ {t} : phase'[u] = phase[u] /\ history'[u] = history[u]
    BY <1>7 DEF Commit, Release, TypeOK
  <2>2. \A u \in Turns \ {t} : phase[u] \in Reading => SessionOf[u] # SessionOf[t]
    BY <1>7 DEF Commit, ReadyToCommit, LockInv, Exclusive, Holds, Reading
  <2>3. \A s \in Sessions \ {SessionOf[t]} : messages'[s] = messages[s]
    BY <1>7 DEF Commit, TypeOK
  <2> QED
    BY <2>1, <2>2, <2>3, ShapeAssumption DEF Reading
<1>8. ASSUME Crash PROVE HistoryIsLatestPast'
  BY <1>8 DEF Crash, InFlight, Reading
<1> QED
  BY <1>1, <1>2, <1>3, <1>4, <1>5, <1>6, <1>7, <1>8, Endings
  DEF Next, vars, private, Administer, Progress, Authorize, Open, OpenFails, Expire,
      RevokeKey, SetStatus, DeleteTutor, Cleanup

\* The agent is handed the newest HistoryMax - 1 messages stored before its
\* prompt, and they are still the newest when its turn ends.
THEOREM HistoryCorrect == Spec => []HistoryIsLatestPast
<1>1. TypeOK /\ LockInv /\ RowsInv /\ HistInv /\ [Next]_vars => HistInv'
  BY FiniteStep, HistoryStep DEF HistInv
<1>2. HistInv => HistoryIsLatestPast
  BY DEF HistInv
<1> QED
  BY <1>1, <1>2, HistInit, RowsAlways, PTL DEF Spec

-----------------------------------------------------------------------------
(* Revocation: a key never becomes active again, so a request that found   *)
(* it inactive on arrival can only be refused, or dropped by a crash.      *)

LateInv ==
  \A t \in Turns : late[t] = TRUE =>
    /\ key[KeyOf[SessionOf[t]]] # "active"
    /\ phase[t] \in {"sent", "refused", "dropped"}

LEMMA LateInit == Init => LateInv
  BY DEF Init, LateInv

LEMMA LateStep == TypeOK /\ LateInv /\ [Next]_vars => LateInv'
<1> SUFFICES ASSUME TypeOK, LateInv, [Next]_vars PROVE LateInv'
  OBVIOUS
<1> USE ShapeAssumption
<1>1. CASE UNCHANGED <<key, phase, late>>
  BY <1>1 DEF LateInv
<1>2. ASSUME NEW k \in Keys, RevokeKey(k) PROVE LateInv'
  BY <1>2 DEF RevokeKey, LateInv, TypeOK
<1>3. ASSUME NEW u \in Tutors, DeleteTutor(u) PROVE LateInv'
  BY <1>3 DEF DeleteTutor, LateInv, TypeOK
<1>4. ASSUME NEW t \in Turns, Send(t) PROVE LateInv'
  BY <1>4 DEF Send, Moves, tables, LateInv, TypeOK
<1>5. ASSUME NEW t \in Turns, Admit(t) \/ Refuse(t) \/ Throttle(t) PROVE LateInv'
  BY <1>5 DEF Admit, Refuse, Throttle, Admissible, Moves, tables, LateInv, TypeOK
<1>6. ASSUME NEW t \in Turns, NEW empty \in BOOLEAN,
             \/ StoreQuestion(t) \/ LoadHistory(t) \/ Answer(t, empty)
             \/ RunFails(t) \/ SendDone(t) \/ Commit(t)
      PROVE  LateInv'
  <2>1. /\ phase[t] \in InFlight
        /\ \A u \in Turns \ {t} : phase'[u] = phase[u]
        /\ UNCHANGED <<key, late>>
    BY <1>6
    DEF StoreQuestion, LoadHistory, Answer, RunFails, SendDone, Commit, ReadyToCommit,
        Moves, tables, InFlight, TypeOK
  <2>2. late[t] # TRUE
    BY <2>1 DEF LateInv, InFlight
  <2> QED
    BY <2>1, <2>2 DEF LateInv
<1>7. ASSUME NEW t \in Turns, Ends(t) PROVE LateInv'
  BY <1>7 DEF Ends, tables, LateInv, InFlight, TypeOK
<1>8. ASSUME Crash PROVE LateInv'
  BY <1>8 DEF Crash, LateInv, TypeOK
<1> QED
  BY <1>1, <1>2, <1>3, <1>4, <1>5, <1>6, <1>7, <1>8, Endings
  DEF Next, vars, Administer, Progress, Authorize, Open, OpenFails, Expire, SetStatus,
      Cleanup

\* A revoked key serves no request that arrives after the revocation.
THEOREM RevocationHolds == Spec => []LateRequestNeverRuns
<1>1. LateInv => LateRequestNeverRuns
  BY DEF LateInv, LateRequestNeverRuns, InFlight
<1> QED
  BY <1>1, LateInit, LateStep, TypeCorrect, PTL DEF Spec
-----------------------------------------------------------------------------
(* Refinement: a transcript in created_at order is the dialogue of         *)
(* Conversation.  Every row has a place in it, and a row later than all    *)
(* the others comes last without moving them.                              *)

Before(rows, m) == {r \in rows : r.at < m.at}

Ranked(rows) ==
  /\ rows \in SUBSET Message
  /\ IsFiniteSet(rows)
  /\ \A m, r \in rows : m.at = r.at => m = r
  /\ \A n \in 0 .. Cardinality(rows) - 1 : \E m \in rows : Cardinality(Before(rows, m)) = n

\* The row at a place, and the place of a row.
LEMMA NthRow ==
  ASSUME NEW rows, Ranked(rows), NEW n \in 0 .. Cardinality(rows) - 1
  PROVE  Nth(rows, n) \in rows /\ Cardinality(Before(rows, Nth(rows, n))) = n
<1>1. \E m \in rows : Cardinality({r \in rows : r.at < m.at}) = n
  BY DEF Ranked, Before
<1> QED
  BY <1>1 DEF Nth, Before

LEMMA RowNth ==
  ASSUME NEW rows, Ranked(rows), NEW m \in rows
  PROVE  /\ Cardinality(Before(rows, m)) \in 0 .. Cardinality(rows) - 1
         /\ Nth(rows, Cardinality(Before(rows, m))) = m
<1>1. \A x \in rows : IsFiniteSet(Before(rows, x)) /\ Cardinality(Before(rows, x)) \in Nat
  BY FS_Subset, FS_CardinalityType DEF Ranked, Before
<1>2. \A x, y \in rows : x.at < y.at =>
        Cardinality(Before(rows, x)) < Cardinality(Before(rows, y))
  <2> TAKE x, y \in rows
  <2> HAVE x.at < y.at
  <2>1. x.at \in Nat /\ y.at \in Nat /\ \A r \in rows : r.at \in Nat
    BY DEF Ranked, Message
  <2>2. Before(rows, x) \cup {x} \in SUBSET Before(rows, y) /\ x \notin Before(rows, x)
    BY <2>1 DEF Before
  <2>3. Cardinality(Before(rows, x) \cup {x}) = Cardinality(Before(rows, x)) + 1
    BY <1>1, <2>2, FS_AddElement
  <2>4. Cardinality(Before(rows, x) \cup {x}) <= Cardinality(Before(rows, y))
    BY <1>1, <2>2, FS_Subset
  <2> QED
    BY <1>1, <2>3, <2>4
<1>3. Cardinality(Before(rows, m)) < Cardinality(rows)
  <2>1. Before(rows, m) \in SUBSET rows /\ m \notin Before(rows, m)
    BY DEF Ranked, Message, Before
  <2>2. Cardinality(Before(rows, m)) <= Cardinality(rows)
        /\ (Cardinality(rows) = Cardinality(Before(rows, m)) => rows = Before(rows, m))
    BY <2>1, FS_Subset DEF Ranked
  <2> QED
    BY <1>1, <2>1, <2>2, FS_CardinalityType DEF Ranked
<1>4. Cardinality(Before(rows, m)) \in 0 .. Cardinality(rows) - 1
  BY <1>1, <1>3, FS_CardinalityType DEF Ranked
<1>5. \A x \in rows : Cardinality(Before(rows, x)) = Cardinality(Before(rows, m)) => x = m
  <2> TAKE x \in rows
  <2> HAVE Cardinality(Before(rows, x)) = Cardinality(Before(rows, m))
  <2>1. ~(x.at < m.at) /\ ~(m.at < x.at)
    BY <1>1, <1>2
  <2>2. x.at \in Nat /\ m.at \in Nat
    BY DEF Ranked, Message
  <2> QED
    BY <2>1, <2>2 DEF Ranked
<1> QED
  BY <1>4, <1>5, NthRow

\* A later row joins behind all the others.
LEMMA NewRow ==
  ASSUME NEW rows, Ranked(rows), NEW q \in Message, \A r \in rows : r.at < q.at
  PROVE  /\ Ranked(rows \cup {q})
         /\ Cardinality(rows \cup {q}) = Cardinality(rows) + 1
         /\ \A n \in 0 .. Cardinality(rows) - 1 : Nth(rows \cup {q}, n) = Nth(rows, n)
         /\ Nth(rows \cup {q}, Cardinality(rows)) = q
<1> DEFINE all == rows \cup {q}
<1>1. /\ \A r \in all : r.at \in Nat
      /\ q \notin rows
      /\ Cardinality(rows) \in Nat
  BY FS_CardinalityType DEF Ranked, Message
<1>2. IsFiniteSet(all) /\ Cardinality(all) = Cardinality(rows) + 1
  BY <1>1, FS_AddElement DEF Ranked
<1>3. \A m \in rows : Before(all, m) = Before(rows, m)
  BY <1>1 DEF Before
<1>4. Before(all, q) = rows
  BY <1>1 DEF Before
<1>5. Ranked(all)
  <2>1. all \in SUBSET Message
    BY DEF Ranked
  <2>2. \A m, r \in all : m.at = r.at => m = r
    BY <1>1 DEF Ranked
  <2>3. \A n \in 0 .. Cardinality(all) - 1 : \E m \in all : Cardinality(Before(all, m)) = n
    <3> TAKE n \in 0 .. Cardinality(all) - 1
    <3>1. CASE n = Cardinality(rows)
      BY <1>4, <3>1
    <3>2. CASE n # Cardinality(rows)
      <4>1. n \in 0 .. Cardinality(rows) - 1
        BY <1>1, <1>2, <3>2
      <4> QED
        BY <1>3, <4>1 DEF Ranked
    <3> QED
      BY <3>1, <3>2
  <2> QED
    BY <1>2, <2>1, <2>2, <2>3 DEF Ranked
<1>6. \A n \in 0 .. Cardinality(rows) - 1 : Nth(all, n) = Nth(rows, n)
  <2> TAKE n \in 0 .. Cardinality(rows) - 1
  <2>1. Nth(rows, n) \in all /\ Cardinality(Before(all, Nth(rows, n))) = n
    BY <1>3, NthRow
  <2> QED
    BY <1>5, <2>1, RowNth
<1>7. Nth(all, Cardinality(rows)) = q
  BY <1>4, <1>5, RowNth
<1> QED
  BY <1>2, <1>5, <1>6, <1>7

\* What a dialogue keeps of a row.
Said(m) == [turn |-> m.turn, role |-> m.role]

LEMMA DialogueIs ==
  ASSUME NEW rows, Ranked(rows)
  PROVE  /\ Dialogue(rows) \in Seq([turn : Turns, role : Role])
         /\ Len(Dialogue(rows)) = Cardinality(rows)
         /\ \A i \in 1 .. Cardinality(rows) : Dialogue(rows)[i] = Said(Nth(rows, i - 1))
<1>1. Cardinality(rows) \in Nat
  BY FS_CardinalityType DEF Ranked
<1>2. Dialogue(rows) = [i \in 1 .. Cardinality(rows) |-> Said(Nth(rows, i - 1))]
  BY DEF Dialogue, Ordered, Said
<1>3. \A i \in 1 .. Cardinality(rows) : Said(Nth(rows, i - 1)) \in [turn : Turns, role : Role]
  <2> TAKE i \in 1 .. Cardinality(rows)
  <2>1. Nth(rows, i - 1) \in rows
    BY <1>1, NthRow
  <2> QED
    BY <2>1 DEF Ranked, Message, Said
<1>4. Dialogue(rows) \in [1 .. Cardinality(rows) -> [turn : Turns, role : Role]]
  BY <1>2, <1>3
<1>5. Dialogue(rows) \in Seq([turn : Turns, role : Role])
  <2> DEFINE n == Cardinality(rows)
             T == [turn : Turns, role : Role]
  <2>1. n \in Nat /\ Dialogue(rows) \in [1 .. n -> T]
    BY <1>1, <1>4
  <2> HIDE DEF n, T
  <2>2. Dialogue(rows) \in Seq(T)
    BY <2>1, SeqDef
  <2> QED
    BY <2>2 DEF T
<1>6. Len(Dialogue(rows)) = Cardinality(rows)
  <2>1. DOMAIN Dialogue(rows) = 1 .. Cardinality(rows)
    BY <1>2
  <2> QED
    BY <1>1, <1>5, <2>1
<1> QED
  BY <1>2, <1>5, <1>6

LEMMA DialogueGrows ==
  ASSUME NEW rows, Ranked(rows), NEW q \in Message, \A r \in rows : r.at < q.at
  PROVE  Ranked(rows \cup {q}) /\ Dialogue(rows \cup {q}) = Append(Dialogue(rows), Said(q))
<1> DEFINE n == Cardinality(rows)
           old == Dialogue(rows)
           new == Dialogue(rows \cup {q})
<1>1. n \in Nat
  BY FS_CardinalityType DEF Ranked
<1>2. Ranked(rows \cup {q}) /\ Cardinality(rows \cup {q}) = n + 1
  BY NewRow
<1>3. old \in Seq([turn : Turns, role : Role]) /\ Len(old) = n
  BY DialogueIs
<1>4. new \in Seq([turn : Turns, role : Role]) /\ Len(new) = n + 1
  BY <1>2, DialogueIs
<1>5. \A i \in 1 .. n : new[i] = old[i]
  <2> TAKE i \in 1 .. n
  <2>1. i - 1 \in 0 .. n - 1 /\ i \in 1 .. n + 1
    BY <1>1
  <2>2. new[i] = Said(Nth(rows \cup {q}, i - 1)) /\ old[i] = Said(Nth(rows, i - 1))
    BY <1>2, <2>1, DialogueIs
  <2> QED
    BY <2>1, <2>2, NewRow
<1>6. new[n + 1] = Said(q)
  <2>1. n + 1 \in 1 .. n + 1 /\ (n + 1) - 1 = n
    BY <1>1
  <2>2. new[n + 1] = Said(Nth(rows \cup {q}, n))
    BY <1>2, <2>1, DialogueIs
  <2> QED
    BY <2>2, NewRow
<1>7. Said(q) \in [turn : Turns, role : Role]
  BY DEF Said, Message
<1> HIDE DEF old, new, n
<1>8. new = Append(old, Said(q))
  BY <1>1, <1>3, <1>4, <1>5, <1>6, <1>7
<1> QED
  BY <1>2, <1>8 DEF old, new

\* The strengthening the refinement needs.
RankInv == \A s \in Sessions : Ranked(messages[s])

LEMMA NothingRanked == Ranked({}) /\ Dialogue({}) = <<>>
<1>1. Ranked({})
  BY FS_EmptySet DEF Ranked
<1>2. Cardinality({}) = 0
  BY FS_EmptySet
<1>3. Dialogue({}) \in Seq([turn : Turns, role : Role]) /\ Len(Dialogue({})) = 0
  BY <1>1, <1>2, DialogueIs
<1> QED
  BY <1>1, <1>3

\* What a turn commits is its question and then its answer.
LEMMA CommitsExchange ==
  ASSUME TypeOK, LockInv, RowsInv, NEW t \in Turns, Commit(t)
  PROVE  \E q, a \in Message :
           /\ pending[t] = {q, a}
           /\ q.at < a.at
           /\ Said(q) = [turn |-> t, role |-> "user"]
           /\ Said(a) = [turn |-> t, role |-> "assistant"]
<1>1. phase[t] \in {"answered", "shown"} /\ \A m \in pending[t] : m.turn = t
  BY CommitAppends
<1>2. PICK q, a \in pending[t] : q.role = "user" /\ a.role = "assistant"
  BY <1>1 DEF RowsInv, PendingRoles
<1>3. \A m \in pending[t] : m = q \/ m = a
  BY <1>2 DEF RowsInv, PendingShape, TypeOK, Message, Role
<1>4. q.at < a.at
  BY <1>2 DEF RowsInv, PendingShape
<1>5. pending[t] = {q, a} /\ q \in Message /\ a \in Message
  BY <1>2, <1>3 DEF TypeOK
<1> QED
  BY <1>1, <1>2, <1>4, <1>5 DEF Said

LEMMA CommitGrowsDialogue ==
  ASSUME TypeOK, LockInv, RowsInv, RankInv, NEW t \in Turns, Commit(t)
  PROVE  LET s == SessionOf[t]
         IN  /\ Ranked(messages'[s])
             /\ Dialogue(messages'[s]) = Dialogue(messages[s])
                  \o << [turn |-> t, role |-> "user"], [turn |-> t, role |-> "assistant"] >>
<1> DEFINE s == SessionOf[t]
           old == messages[s]
<1>1. /\ s \in Sessions
      /\ messages'[s] = old \cup pending[t]
      /\ \A m \in pending[t] : \A r \in old : r.at < m.at
  BY CommitAppends DEF TypeOK
<1>2. PICK q, a \in Message :
           /\ pending[t] = {q, a}
           /\ q.at < a.at
           /\ Said(q) = [turn |-> t, role |-> "user"]
           /\ Said(a) = [turn |-> t, role |-> "assistant"]
  BY CommitsExchange
<1>3. messages'[s] = (old \cup {q}) \cup {a}
  BY <1>1, <1>2
<1>4. Ranked(old)
  BY <1>1 DEF RankInv
<1>5. Ranked(old \cup {q}) /\ Dialogue(old \cup {q}) = Append(Dialogue(old), Said(q))
  BY <1>1, <1>2, <1>4, DialogueGrows
<1>6. \A r \in old \cup {q} : r.at < a.at
  BY <1>1, <1>2
<1>7. /\ Ranked(messages'[s])
      /\ Dialogue(messages'[s]) = Append(Dialogue(old \cup {q}), Said(a))
  BY <1>3, <1>5, <1>6, DialogueGrows
<1>8. Dialogue(old) \in Seq([turn : Turns, role : Role])
  BY <1>4, DialogueIs
<1>9. /\ [turn |-> t, role |-> "user"] \in [turn : Turns, role : Role]
      /\ [turn |-> t, role |-> "assistant"] \in [turn : Turns, role : Role]
  BY DEF Role
<1>10. \A d \in Seq([turn : Turns, role : Role]), x, y \in [turn : Turns, role : Role] :
         Append(Append(d, x), y) = d \o <<x, y>>
  OBVIOUS
<1>11. Dialogue(messages'[s]) = Append(Append(Dialogue(old), Said(q)), Said(a))
  BY <1>5, <1>7
<1>12. Dialogue(messages'[s]) = Dialogue(old) \o <<Said(q), Said(a)>>
  BY <1>2, <1>8, <1>9, <1>10, <1>11
<1> QED
  BY <1>2, <1>7, <1>12

\* The steps as Conversation sees them: an exchange is committed, sessions
\* are deleted, or neither.
LEMMA Moved ==
  ASSUME TypeOK, [Next]_vars
  PROVE  \/ \E t \in Turns : Commit(t)
         \/ \E S \in SUBSET Sessions : DeleteSessions(S)
         \/ /\ UNCHANGED messages
            /\ \A s \in Sessions : session'[s] = "gone" <=> session[s] = "gone"
<1> DEFINE Goal ==
      \/ \E t \in Turns : Commit(t)
      \/ \E S \in SUBSET Sessions : DeleteSessions(S)
      \/ /\ UNCHANGED messages
         /\ \A s \in Sessions : session'[s] = "gone" <=> session[s] = "gone"
<1>1. ASSUME NEW s \in Sessions, Authorize(s) \/ Open(s) \/ OpenFails(s) \/ Expire(s)
      PROVE  Goal
  BY <1>1 DEF TypeOK, Authorize, Open, OpenFails, Expire
<1>2. CASE UNCHANGED <<messages, session>>
  BY <1>2
<1>3. ASSUME NEW t \in Turns, Ends(t) PROVE Goal
  BY <1>3 DEF Ends, tables
<1>4. CASE Crash
  BY <1>4 DEF TypeOK, Crash
<1>5. ASSUME NEW u \in Tutors, DeleteTutor(u) PROVE Goal
  BY <1>5 DEF DeleteTutor
<1>6. CASE Cleanup
  BY <1>6 DEF Cleanup
<1> QED
  BY <1>1, <1>2, <1>3, <1>4, <1>5, <1>6, Endings
  DEF Next, vars, tables, Administer, Progress, RevokeKey, SetStatus, Send, Admit, Refuse,
      Throttle, StoreQuestion, LoadHistory, Answer, RunFails, SendDone

LEMMA RankInit == Init => RankInv
  BY NothingRanked DEF Init, RankInv

LEMMA RankStep == TypeOK /\ LockInv /\ RowsInv /\ RankInv /\ [Next]_vars => RankInv'
<1> SUFFICES ASSUME TypeOK, LockInv, RowsInv, RankInv, [Next]_vars PROVE RankInv'
  OBVIOUS
<1>1. ASSUME NEW t \in Turns, Commit(t) PROVE RankInv'
  <2>1. Ranked(messages'[SessionOf[t]])
    BY <1>1, CommitGrowsDialogue
  <2>2. \A s \in Sessions \ {SessionOf[t]} : messages'[s] = messages[s]
    BY <1>1, CommitAppends DEF TypeOK
  <2> QED
    BY <2>1, <2>2 DEF RankInv
<1>2. ASSUME NEW S \in SUBSET Sessions, DeleteSessions(S) PROVE RankInv'
  BY <1>2, NothingRanked DEF DeleteSessions, RankInv
<1>3. CASE UNCHANGED messages
  BY <1>3 DEF RankInv
<1> QED
  BY <1>1, <1>2, <1>3, Moved

LEMMA RankAlways == Spec => [](TypeOK /\ LockInv /\ RowsInv /\ RankInv)
  BY RankInit, RankStep, RowsAlways, PTL DEF Spec

LEMMA StartsEmpty == Init => Abstract!Init
<1> SUFFICES ASSUME Init PROVE Abstract!Init
  OBVIOUS
<1>1. \A s \in Sessions : Dialogue(messages[s]) = <<>>
  BY NothingRanked DEF Init
<1>2. {s \in Sessions : session[s] = "gone"} = {}
  BY DEF Init
<1> QED
  BY <1>1, <1>2 DEF Abstract!Init

\* No turn whose rows are still to be committed is in any dialogue.
LEMMA CommitIsFresh ==
  ASSUME TypeOK, LockInv, RowsInv, RankInv, NEW t \in Turns, Commit(t)
  PROVE  Abstract!Fresh(t)
<1>1. phase[t] # "finished"
  BY CommitAppends
<1> SUFFICES ASSUME NEW s \in Sessions, NEW i \in DOMAIN Dialogue(messages[s])
             PROVE  Dialogue(messages[s])[i].turn # t
  BY DEF Abstract!Fresh
<1>2. Ranked(messages[s])
  BY DEF RankInv
<1>3. i \in 1 .. Cardinality(messages[s]) /\ Cardinality(messages[s]) \in Nat
  BY <1>2, DialogueIs, FS_CardinalityType DEF Ranked
<1>4. Nth(messages[s], i - 1) \in messages[s]
  BY <1>2, <1>3, NthRow
<1>5. Dialogue(messages[s])[i] = Said(Nth(messages[s], i - 1))
  BY <1>2, <1>3, DialogueIs
<1>6. Dialogue(messages[s])[i].turn = Nth(messages[s], i - 1).turn
  BY <1>5 DEF Said
<1> QED
  BY <1>1, <1>4, <1>6 DEF RowsInv, StoredRows

LEMMA CommitConverses ==
  ASSUME TypeOK, LockInv, RowsInv, RankInv, NEW t \in Turns, Commit(t)
  PROVE  Abstract!Converse(SessionOf[t], t)
<1> DEFINE s == SessionOf[t]
           dialogue == [c \in Sessions |-> Dialogue(messages[c])]
<1>1. /\ s \in Sessions
      /\ session' = session
      /\ \A c \in Sessions \ {s} : messages'[c] = messages[c]
  BY CommitAppends DEF TypeOK
<1>2. s \notin {c \in Sessions : session[c] = "gone"}
  <2>1. phase[t] \in {"answered", "shown"}
    BY CommitAppends
  <2> QED
    BY <2>1 DEF LockInv, HeldWhileWriting, Holds
<1>3. Abstract!Fresh(t)
  BY CommitIsFresh
<1>4. Dialogue(messages'[s]) = Dialogue(messages[s]) \o <<Abstract!Question(t), Abstract!Reply(t)>>
  BY CommitGrowsDialogue DEF Abstract!Question, Abstract!Reply
<1>5. dialogue' = [dialogue EXCEPT ![s] = @ \o <<Abstract!Question(t), Abstract!Reply(t)>>]
  BY <1>1, <1>4
<1> QED
  BY <1>1, <1>2, <1>3, <1>5 DEF Abstract!Converse

LEMMA DeletionForgets ==
  ASSUME TypeOK, NEW S \in SUBSET Sessions, DeleteSessions(S)
  PROVE  Abstract!Forget(S)
<1>1. \A s \in Sessions : Dialogue(messages'[s]) = IF s \in S THEN <<>> ELSE Dialogue(messages[s])
  BY NothingRanked DEF DeleteSessions
<1>2. {s \in Sessions : session'[s] = "gone"} = {s \in Sessions : session[s] = "gone"} \cup S
  BY DEF DeleteSessions
<1> QED
  BY <1>1, <1>2 DEF Abstract!Forget

LEMMA StepsConverse ==
  TypeOK /\ LockInv /\ RowsInv /\ RankInv /\ [Next]_vars => [Abstract!Next]_Abstract!vars
<1> SUFFICES ASSUME TypeOK, LockInv, RowsInv, RankInv, [Next]_vars
             PROVE  [Abstract!Next]_Abstract!vars
  OBVIOUS
<1>1. ASSUME NEW t \in Turns, Commit(t) PROVE Abstract!Next
  <2>1. SessionOf[t] \in Sessions
    BY ShapeAssumption
  <2> QED
    BY <1>1, <2>1, CommitConverses DEF Abstract!Next
<1>2. ASSUME NEW S \in SUBSET Sessions, DeleteSessions(S) PROVE Abstract!Next
  BY <1>2, DeletionForgets DEF Abstract!Next
<1>3. ASSUME UNCHANGED messages,
             \A s \in Sessions : session'[s] = "gone" <=> session[s] = "gone"
      PROVE  UNCHANGED Abstract!vars
  BY <1>3 DEF Abstract!vars
<1> QED
  BY <1>1, <1>2, <1>3, Moved

\* Whatever the handlers, the administrator and the retention script do to a
\* transcript is one whole exchange at its end, or its removal for good.
THEOREM ChatIsConversation == Spec => ImplementsConversation
  BY StartsEmpty, StepsConverse, RankAlways, PTL DEF Spec, ImplementsConversation, Abstract!Spec
=============================================================================
