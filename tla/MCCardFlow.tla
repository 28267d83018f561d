----------------------------- MODULE MCCardFlow -----------------------------
(* Two own cards, an unknown number, and a message of every kind. *)
EXTENDS CardFlow

CONSTANTS a, b, x

MCOwn   == {a, b}
MCCards == {a, b, x}

Spoken(counts) ==
  [hits |-> [label \in ScoredLabel |-> IF label \in DOMAIN counts THEN counts[label] ELSE 0],
   phrases |-> {"CARD_ACTION"} \cap DOMAIN counts, tone |-> "plain"]

Nothing  == Spoken(<< >>)
Block    == Spoken([label \in {"CARD_ACTION"} |-> 1])
Ask      == Spoken([label \in {"RAG_QUERY"} |-> 1])
Compound == Spoken([label \in {"CARD_ACTION", "RAG_QUERY"} |-> 1])

Plain(text, named) == [cancel |-> "none", text |-> text, named |-> named,
                       digits |-> NoCard, affirms |-> FALSE, follows |-> FALSE]

MCMessages ==
  {Plain(text, named) : text \in {Nothing, Block, Ask}, named \in {a, NoCard}}
    \union {Plain(Compound, NoCard), Plain(Nothing, x)}
    \union {[Plain(Nothing, NoCard) EXCEPT !.digits = c] : c \in {b, x}}
    \union {[Plain(Nothing, NoCard) EXCEPT !.affirms = TRUE, !.follows = f] : f \in BOOLEAN}
    \union {[Plain(Nothing, NoCard) EXCEPT !.cancel = "only"]}
    \union {[Plain(text, NoCard) EXCEPT !.cancel = "and_more"] : text \in {Nothing, Block, Ask}}
    \union {[Plain(Block, a) EXCEPT !.cancel = "and_more"]}

MCFaultsButLoad == Fault \ {"load"}
=============================================================================
