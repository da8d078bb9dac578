---------------------------- MODULE MCAgentTools ----------------------------
(* Small instances of AgentTools. *)
EXTENDS AgentTools

blank == [kind |-> "blank", size |-> 0, words |-> {}]
bare == [kind |-> "bare", size |-> 1, words |-> {}]
title == [kind |-> "heading", size |-> 3, words |-> {"a"}]
short == [kind |-> "body", size |-> 1, words |-> {"a"}]
longer == [kind |-> "body", size |-> 2, words |-> {"b"}]
huge == [kind |-> "body", size |-> 5, words |-> {"a", "the"}]
AllLines == {blank, bare, title, short, longer, huge}

\* A source with a URL whose text is replaced once, and one with inline text.
TwoTexts ==
  <<<< <<longer, title, short>>, <<short, blank, huge, title, bare, longer>> >>, << <<longer>> >>>>
Asked == {{"b"}}

\* What is said, and the ends of a run, are looked at with calls of list_sources;
\* the other tools in runs of a silent model that nothing but they stops.
TwoCases ==
  (\E c \in Calls : job'[c].tool # "list") =>
    attempt' = 1 /\ at' \notin {"failing", "aborted"} /\ said' = <<>>
=============================================================================
