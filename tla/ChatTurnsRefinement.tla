------------------------ MODULE ChatTurnsRefinement ------------------------
(***************************************************************************)
(* The chat runtime implements Conversation: the dialogue of a session is  *)
(* its stored messages in created_at order, the order every reader of the  *)
(* table asks for, and a session is forgotten once its row is deleted.     *)
(***************************************************************************)
EXTENDS ChatTurns, Sequences

\* The row that has n others before it in created_at order.
Nth(rows, n) ==
  CHOOSE m \in rows : Cardinality({r \in rows : r.at < m.at}) = n

Ordered(rows) == [i \in 1 .. Cardinality(rows) |-> Nth(rows, i - 1)]

Dialogue(rows) ==
  [i \in DOMAIN Ordered(rows) |->
     [turn |-> Ordered(rows)[i].turn, role |-> Ordered(rows)[i].role]]

Abstract == INSTANCE Conversation WITH
  Conversations <- Sessions,
  Exchanges <- Turns,
  dialogue <- [s \in Sessions |-> Dialogue(messages[s])],
  forgotten <- {s \in Sessions : session[s] = "gone"}

\* Every step of the handlers, the administrator and the retention script is
\* one exchange added at the end of a dialogue, a set of sessions forgotten,
\* or invisible.
ImplementsConversation == Abstract!Spec
=============================================================================
