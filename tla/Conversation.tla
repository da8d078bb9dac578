---------------------------- MODULE Conversation ----------------------------
(***************************************************************************)
(* What the chat runtime promises about a conversation, with no request,   *)
(* transaction or lock in sight: a dialogue grows by one whole exchange at *)
(* a time, question first, until the conversation is forgotten for good.   *)
(***************************************************************************)
EXTENDS Sequences

CONSTANTS
  Conversations,
  Exchanges

VARIABLES
  dialogue,   \* the messages of each conversation, oldest first
  forgotten   \* the conversations removed with everything in them

vars == <<dialogue, forgotten>>

Question(x) == [turn |-> x, role |-> "user"]
Reply(x) == [turn |-> x, role |-> "assistant"]

Init ==
  /\ dialogue = [c \in Conversations |-> <<>>]
  /\ forgotten = {}

Fresh(x) == \A c \in Conversations : \A i \in DOMAIN dialogue[c] : dialogue[c][i].turn # x

Converse(c, x) ==
  /\ c \notin forgotten
  /\ Fresh(x)
  /\ dialogue' = [dialogue EXCEPT ![c] = @ \o <<Question(x), Reply(x)>>]
  /\ UNCHANGED forgotten

Forget(C) ==
  /\ forgotten' = forgotten \cup C
  /\ dialogue' = [c \in Conversations |-> IF c \in C THEN <<>> ELSE dialogue[c]]

Next ==
  \/ \E c \in Conversations, x \in Exchanges : Converse(c, x)
  \/ \E C \in SUBSET Conversations : Forget(C)

Spec == Init /\ [][Next]_vars
=============================================================================
