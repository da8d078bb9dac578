---------------------------- MODULE MCChatTurns ----------------------------
(* Instances of ChatTurns for TLC.                                         *)
EXTENDS ChatTurnsRefinement, TLC

CONSTANTS u1, k1, s1, t1, t2, t3

\* One tutor, one key, one session, three turns on it; two of them stream.
OneTutor == [k \in Keys |-> u1]
OneKey == [s \in Sessions |-> k1]
OneSession == [t \in Turns |-> s1]
=============================================================================
