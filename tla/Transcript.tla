----------------------------- MODULE Transcript -----------------------------
(***************************************************************************)
(* What a conversation's memory promises: a transcript of whole exchanges, *)
(* of which the last Limit messages are kept.  Recording a turn adds its   *)
(* question and its answer to the transcript; the memory may forget        *)
(* everything at any time.                                                 *)
(*                                                                         *)
(* A memory whose save is one step adds to the transcript there is.  One   *)
(* whose save reads first and writes later may add to a transcript of the  *)
(* past, which loses what was recorded in between: it never mixes two      *)
(* transcripts, and never keeps half of what a turn said.                  *)
(***************************************************************************)
EXTENDS Integers, Sequences

CONSTANTS
  Turns,     \* the turns of one conversation
  Places,    \* where a transcript of it may be kept
  Shared,    \* the places a save reads and writes in two steps
  Limit      \* how many messages are kept

VARIABLES
  kept,      \* the transcript of each place
  past       \* every transcript each place has kept

Message == [role : {"user", "assistant"}, turn : Turns]

\* What a turn adds: its question and its answer.
Exchange(t) == << [role |-> "user", turn |-> t], [role |-> "assistant", turn |-> t] >>

\* The last n messages, messages[-n:].
KeepLast(messages, n) ==
  SubSeq(messages, IF Len(messages) > n THEN Len(messages) - n + 1 ELSE 1, Len(messages))

Init ==
  /\ kept = [p \in Places |-> << >>]
  /\ past = [p \in Places |-> {<< >>}]

Record(p, t) ==
  \E base \in IF p \in Shared THEN past[p] ELSE {kept[p]} :
    LET new == KeepLast(base \o Exchange(t), Limit) IN
    /\ kept' = [kept EXCEPT ![p] = new]
    /\ past' = [past EXCEPT ![p] = @ \union {new}]

Forget(p) == kept' = [kept EXCEPT ![p] = << >>] /\ UNCHANGED past

Next == \E p \in Places : Forget(p) \/ \E t \in Turns : Record(p, t)

Spec == Init /\ [][Next]_<< kept, past >>
=============================================================================
