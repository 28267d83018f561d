---------------------------- MODULE MCTurnGraph -----------------------------
(* TurnGraph on an instance small enough for TLC. *)
EXTENDS TurnInvariant

\* Without an LLM, with and without a session account; with an LLM; and a
\* deployment whose recursion limit (the default is 25) is below what a turn
\* may need.
MCDeployments == {[fake |-> TRUE,  session |-> TRUE,  recursion_limit |-> 25],
                  [fake |-> TRUE,  session |-> FALSE, recursion_limit |-> 25],
                  [fake |-> FALSE, session |-> TRUE,  recursion_limit |-> 25],
                  [fake |-> TRUE,  session |-> FALSE, recursion_limit |-> 12]}

\* TRANSACTION_ACTION is queued like ACCOUNT_ACTION: it asks for the same slot.
MCQueued == IntentLabel \ {"TRANSACTION_ACTION"}

\* Every list of at most two labels, and one with a label repeated, a label
\* that cannot be chained and more labels than are taken.
MCRawExtras == UNION {[1 .. n -> MCQueued] : n \in 0 .. 2}
                 \union {<< "CARD_ACTION", "CARD_ACTION", "ESCALATE", "RAG_QUERY",
                            "TRANSACTION_ACTION", "SMALL_TALK" >>}
=============================================================================
