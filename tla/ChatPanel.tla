----------------------------- MODULE ChatPanel ------------------------------
(***************************************************************************)
(* The chat panel in front of the conversation's memory: it has at most    *)
(* one request on the way, and shows an answer only if the request it is   *)
(* waiting for brings one.  A request whose connection breaks is given up; *)
(* what the server does with it goes on.                                   *)
(***************************************************************************)
EXTENDS ConversationMemory

VARIABLES
  waiting,    \* isSending: the turn whose request is on the way, or NoTurn
  messages,   \* what the panel shows
  \* history, for the properties
  requested,  \* the turns whose request was sent
  abandoned   \* those given up before their turn had ended

panelVars == << waiting, messages, requested, abandoned >>
panelAll  == << vars, panelVars >>

PanelInit ==
  /\ Init
  /\ waiting = NoTurn /\ messages = << >>
  /\ requested = {} /\ abandoned = {}

Question(t) == [role |-> "user", turn |-> t]

\* The user's message is shown at once, before its request is sent.
Send(t) ==
  /\ t \notin requested
  /\ messages' = Append(messages, Question(t))
  /\ waiting' = t
  /\ requested' = requested \union {t}
  /\ UNCHANGED << vars, abandoned >>

\* Mutant: the panel sends while a request is on the way.
HandleSendUnlocked(t) == Send(t)

HandleSend(t) == waiting = NoTurn /\ Send(t)

\* The request reaches the process that serves it.
Arrive(t) == t \in requested /\ BeginTurn(t) /\ UNCHANGED panelVars

ShowAnswer ==
  /\ waiting # NoTurn /\ phase[waiting] \in Answered
  /\ messages' = Append(messages, [role |-> "assistant", turn |-> waiting])
  /\ waiting' = NoTurn
  /\ UNCHANGED << vars, requested, abandoned >>

\* Mutant: only an answer unlocks the panel.
ShowErrorOnly == waiting # NoTurn /\ UNCHANGED panelAll

\* The request fails: with its turn, or because the connection breaks, at
\* whatever point the turn is.  An error line takes the answer's place and the
\* panel is unlocked.
ShowError ==
  /\ waiting # NoTurn
  /\ waiting' = NoTurn
  /\ abandoned' = abandoned \union IF phase[waiting] \in Ended THEN {} ELSE {waiting}
  /\ UNCHANGED << vars, messages, requested >>

ServerStep == \/ \E t \in Turns : Arrive(t)
              \/ MemoryStep /\ UNCHANGED panelVars

PanelNext == ServerStep \/ ShowAnswer \/ ShowError \/ \E t \in Turns : HandleSend(t)

PanelSpec == PanelInit /\ [][PanelNext]_panelAll

\* A request that was sent arrives and its turn is carried through by the
\* process, and the browser settles the request; the user owes nothing, and no
\* connection has to break.
FairPanelSpec ==
  /\ PanelSpec
  /\ \A t \in Turns : WF_panelAll(Arrive(t)) /\ WF_panelAll(TurnStep(t) /\ UNCHANGED panelVars)
  /\ WF_panelAll(ShowAnswer)
  /\ WF_panelAll(ShowError /\ phase[waiting] = "failed")

-----------------------------------------------------------------------------
\* Properties.

PanelTypeOK ==
  /\ TypeOK
  /\ waiting \in requested \union {NoTurn}
  /\ messages \in Seq(Message)
  /\ abandoned \subseteq requested /\ requested \subseteq Turns

\* A slot request is answered, and a hand-off stage continued, by one recorded
\* turn only: of the turns that found the same context, and were not given up
\* on while they ran, at most one is recorded, whatever was lost in between.
\* load and save_turn take no lock; the panel's one request at a time is what
\* makes this so.
ContextUsedOnce ==
  \A t, u \in Turns \ abandoned :
    /\ phase[t] = "saved" /\ phase[u] = "saved"
    /\ carried[t] = carried[u] /\ carried[t] # NoTurn
    => t = u

\* The position of a turn's question on the panel.
Shown(t) == CHOOSE i \in DOMAIN messages : messages[i] = Question(t)

\* Wherever the conversation is remembered it is remembered in the order the
\* panel shows it, but for turns given up while they ran, so that "the last
\* question" and "the last answer" mean the same on both sides.
MemoryInPanelOrder ==
  \A p \in Place :
    LET h == store[p].turns IN
    \A i, j \in DOMAIN h :
      i < j /\ {h[i].turn, h[j].turn} \cap abandoned = {}
        => Shown(h[i].turn) <= Shown(h[j].turn)

\* The inductive invariant of the proofs.  A turn that has not ended and was not
\* given up is the one the panel waits for.
OneAtATime ==
  /\ \A t \in Turns \ requested : phase[t] = "new"
  /\ \A t \in requested \ abandoned : phase[t] \in Ended \/ t = waiting

\* Each question is shown once, and the one waited for is the last.
PanelShows ==
  /\ \A i \in DOMAIN messages : messages[i].turn \in requested
  /\ \A t \in requested : \E i \in DOMAIN messages :
       /\ messages[i] = Question(t)
       /\ \A j \in DOMAIN messages : messages[j] = Question(t) => j = i
  /\ waiting # NoTurn => \A t \in requested : Shown(t) <= Shown(waiting)

\* A context is found where the turn that wrote it was served.
CarriesAtHome ==
  /\ \A p \in Place : LET c == store[p].carry IN
       c # NoTurn => phase[c] = "saved" /\ Home(replica[c]) = p
  /\ \A t \in Turns : LET c == carried[t] IN
       c # NoTurn => phase[c] = "saved" /\ Home(replica[c]) = Home(replica[t])

\* A turn that was recorded has replaced the context it found.
CarriesUsedUp ==
  \A t \in Turns, p \in Place :
    phase[t] = "saved" /\ carried[t] # NoTurn => store[p].carry # carried[t]

\* Of two turns that found the same context one failed, was given up, or was
\* answered without a record.
CarriesApart ==
  \A t, u \in Turns \ abandoned :
    /\ {phase[t], phase[u]} \subseteq {"running", "saving", "saved"}
    /\ carried[t] = carried[u] /\ carried[t] # NoTurn
    => t = u

\* Every transcript any place has kept is in the panel's order.
PastInOrder ==
  \A p \in Place : \A h \in past[p] : \A i, j \in DOMAIN h :
    i < j /\ h[i].turn \notin abandoned /\ h[j].turn \notin abandoned
      => Shown(h[i].turn) <= Shown(h[j].turn)

PanelInv ==
  /\ MemoryInv /\ PanelTypeOK /\ OneAtATime /\ PanelShows
  /\ CarriesAtHome /\ CarriesUsedUp /\ CarriesApart /\ PastInOrder

\* The panel never stays locked: each request ends in an answer or an error.
PanelUnlocks == waiting # NoTurn ~> waiting = NoTurn
=============================================================================
