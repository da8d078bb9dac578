--------------------------- MODULE MCSourceCache ---------------------------
(***************************************************************************)
(* Instances of SourceCache for TLC: an origin that never shows a text     *)
(* twice, and one whose author takes an edit back.                         *)
(***************************************************************************)
EXTENDS SourceCache

CONSTANTS t1, t2, p1, r1

TwoTexts == <<1, 2>>
TakenBack == <<1, 2, 1>>

\* Two cases in one instance: a turn and the status page meet over two
\* sources that stay as they are and answer whole; or all kinds of requests
\* meet over one that is edited and removed, the other one being gone before
\* anybody comes.
Untouched == \A r \in Requests : pc[r] = "new"

TwoCases ==
  IF 2 \in listed
  THEN /\ \A r \in Refreshes : pc'[r] = "new"
       /\ \A r \in Requests : pc'[r] # "broken"
       /\ version' = version
       /\ listed' # listed => Untouched /\ listed' = listed \ {2}
  ELSE version'[2] = version[2]
=============================================================================
