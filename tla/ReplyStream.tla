---------------------------- MODULE ReplyStream -----------------------------
(***************************************************************************)
(* What AgentRunner.stream promises whoever consumes it: slices of text,   *)
(* then one end.  A reply that ends well ends with the whole text, and     *)
(* that text is exactly what was heard on the way.                         *)
(***************************************************************************)
EXTENDS Integers, Sequences

VARIABLES
  heard,   \* the text so far, as the consumer received it
  ending,  \* "none", or how the stream ended
  text     \* the text its DONE event carried

vars == <<heard, ending, text>>

Init ==
  /\ heard = <<>>
  /\ ending = "none"
  /\ text = <<>>

\* More text arrives; what was heard stays.
Hear ==
  /\ ending = "none"
  /\ Len(heard') >= Len(heard)
  /\ SubSeq(heard', 1, Len(heard)) = heard
  /\ UNCHANGED <<ending, text>>

Finish ==
  /\ ending = "none"
  /\ ending' = "answered"
  /\ text' = heard
  /\ UNCHANGED heard

Break ==
  /\ ending = "none"
  /\ ending' \in {"failed", "aborted"}
  /\ UNCHANGED <<heard, text>>

Next == Hear \/ Finish \/ Break

Spec == Init /\ [][Next]_vars
=============================================================================
