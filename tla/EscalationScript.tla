-------------------------- MODULE EscalationScript --------------------------
(***************************************************************************)
(* What the hand-off to a human promises, whoever carries it out: one      *)
(* request reads the stage of the conversation and writes a stage that     *)
(* follows it.  The customer is verified before the issue is taken, the    *)
(* issue is taken before a reply is promised, and every stage can be left. *)
(*                                                                         *)
(* The promise is about what a turn read, because the memory is allowed to *)
(* fail: a turn may find nothing, write nothing, or find its stage gone    *)
(* from under it.                                                          *)
(***************************************************************************)
EXTENDS IntentLabels

VARIABLES
  stage,   \* the stage kept between turns
  seen     \* the stage the turn in progress read, or NoTurn

NoTurn == "NoTurn"

\* The moves within the script: a stage may be repeated while its answer is
\* missing, except the last one, and none is skipped.
Moves == {<< None, "verifying" >>,
          << "verifying", "verifying" >>, << "verifying", "awaiting_issue" >>,
          << "awaiting_issue", "awaiting_issue" >>, << "awaiting_issue", "resolved" >>}

\* The stages a turn may write after reading s.
Follow(s) == {None} \union {t \in ScriptStage : << s, t >> \in Moves}

Init == stage = None /\ seen = NoTurn

\* A turn reads the stage, or nothing from a memory that does not answer.
Read ==
  /\ seen = NoTurn
  /\ seen' \in {stage, None}
  /\ UNCHANGED stage

\* The turn writes a stage that follows the one it read.
Write ==
  /\ seen # NoTurn
  /\ stage' \in Follow(seen)
  /\ seen' = NoTurn

\* The turn ends without a write.
Abandon ==
  /\ seen # NoTurn
  /\ seen' = NoTurn
  /\ UNCHANGED stage

\* The memory forgets the conversation.
Forget ==
  /\ stage' = None
  /\ UNCHANGED seen

Next == Read \/ Write \/ Abandon \/ Forget

Spec == Init /\ [][Next]_<< stage, seen >>
=============================================================================
