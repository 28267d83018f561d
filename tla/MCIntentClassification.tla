----------------------- MODULE MCIntentClassification -----------------------
(* The classifier over every combination of up to two keywords a label. *)
EXTENDS IntentClassification

\* A phrase of several words is one of its label's keywords; only the labels
\* that act are asked for one.
Spoken(counts) ==
  {[hits |-> hits, phrases |-> phrases, tone |-> tone] :
     hits    \in {h \in [ScoredLabel -> counts] : h["SMALL_TALK"] < 2},
     phrases \in SUBSET ToolDrivenIntents, tone \in {"complaint", "plain"}}

\* A shorthand greeting is the whole message: it has no keyword but its own.
Shorthand ==
  {[hits |-> [label \in ScoredLabel |-> IF label = "SMALL_TALK" THEN n ELSE 0],
    phrases |-> {}, tone |-> "greeting_shorthand"] : n \in 0 .. 1}

MCTexts == Shorthand \union (Spoken(0 .. 2) \cap Text)
=============================================================================
