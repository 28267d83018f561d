-------------------------- MODULE ChatPanel_proofs --------------------------
(***************************************************************************)
(* Proofs about the conversation's memory and the panel in front of it,    *)
(* for every number of turns and replicas, every history limit, both       *)
(* backends and every combination of faults.  The first half is about      *)
(* ConversationMemory alone.                                               *)
(***************************************************************************)
EXTENDS ChatPanel, SequenceTheorems, TLAPS

-----------------------------------------------------------------------------
\* The memory: what adding a turn to a history gives.

\* Adding a turn to a history and cutting it gives a history that ends with the
\* turn's answer and otherwise repeats the history it was added to.
LEMMA AddedTurn ==
  ASSUME NEW h \in History, NEW t \in Turns
  PROVE  LET k == KeptHistory(h \o Messages(t)) IN
         /\ k \in History
         /\ Len(k) \in Nat \ {0}
         /\ k[Len(k)] = [role |-> "assistant", turn |-> t]
         /\ Len(k) > 1 => k[Len(k) - 1] = [role |-> "user", turn |-> t]
         /\ \E d \in Int : /\ d + Len(k) = Len(h) + 2
                           /\ d >= 0
                           /\ \A i \in 1 .. Len(k) - 2 : k[i] = h[d + i]
PROOF
<1> DEFINE c == h \o Messages(t)
           m == IF Len(c) > HistoryLimit THEN Len(c) - HistoryLimit + 1 ELSE 1
           k == KeptHistory(c)
<1>1. h \in Seq(Message) /\ Len(h) \in Nat /\ HistoryLimit \in Nat \ {0}
  BY MemoryAssumption, LenProperties DEF History
<1>2. /\ Messages(t) \in Seq(Message) /\ Len(Messages(t)) = 2
      /\ Messages(t)[1] = [role |-> "user", turn |-> t]
      /\ Messages(t)[2] = [role |-> "assistant", turn |-> t]
  BY DEF Messages, Message
<1>3. /\ c \in Seq(Message) /\ Len(c) = Len(h) + 2
      /\ \A i \in 1 .. Len(h) : c[i] = h[i]
      /\ c[Len(h) + 1] = Messages(t)[1] /\ c[Len(h) + 2] = Messages(t)[2]
  <2> DEFINE q == Messages(t)
  <2>1. q \in Seq(Message) /\ Len(q) = 2
    BY <1>2
  <2> HIDE DEF q
  <2>2. /\ h \o q \in Seq(Message) /\ Len(h \o q) = Len(h) + Len(q)
        /\ \A i \in 1 .. Len(h) + Len(q) :
             (h \o q)[i] = IF i <= Len(h) THEN h[i] ELSE q[i - Len(h)]
    BY <1>1, <2>1, ConcatProperties
  <2>3. /\ \A i \in 1 .. Len(h) : (h \o q)[i] = h[i]
        /\ (h \o q)[Len(h) + 1] = q[1] /\ (h \o q)[Len(h) + 2] = q[2]
    BY <1>1, <2>1, <2>2
  <2> QED BY <2>1, <2>2, <2>3 DEF q
<1>4. m \in Nat /\ m >= 1 /\ m <= Len(c) /\ Len(c) - m + 1 <= HistoryLimit
  BY <1>1, <1>3
<1>5. \A i \in m .. Len(c) : c[i] \in Message
  BY <1>1, <1>3, <1>4, ElementOfSeq
<1>6. k = SubSeq(c, m, Len(c))
  BY DEF KeptHistory
<1>7. /\ k \in Seq(Message)
      /\ Len(k) = Len(c) - m + 1
      /\ \A i \in 1 .. Len(c) - m + 1 : k[i] = c[m + i - 1]
  <2>1. m \in Int /\ Len(c) \in Int /\ m <= Len(c)
    BY <1>1, <1>3, <1>4
  <2> HIDE DEF c, m, k
  <2> QED BY <1>5, <1>6, <2>1, SubSeqProperties
<1> HIDE DEF c, m, k
<1>8. Len(k) \in Nat \ {0} /\ Len(k) <= HistoryLimit
  BY <1>1, <1>3, <1>4, <1>7
<1>9. k[Len(k)] = c[Len(h) + 2] /\ c[Len(h) + 2] = Messages(t)[2]
  BY <1>1, <1>3, <1>4, <1>7
<1>10. Len(k) > 1 => k[Len(k) - 1] = c[Len(h) + 1] /\ c[Len(h) + 1] = Messages(t)[1]
  BY <1>1, <1>3, <1>4, <1>7
<1>11. \E d \in Int : /\ d + Len(k) = Len(h) + 2
                      /\ d >= 0
                      /\ \A i \in 1 .. Len(k) - 2 : k[i] = h[d + i]
  <2>1. m - 1 \in Int /\ (m - 1) + Len(k) = Len(h) + 2 /\ m - 1 >= 0
    BY <1>1, <1>3, <1>4, <1>7
  <2>2. ASSUME NEW i \in 1 .. Len(k) - 2 PROVE k[i] = h[(m - 1) + i]
    <3>1. k[i] = c[m + i - 1] /\ m + i - 1 \in 1 .. Len(h)
      BY <1>1, <1>3, <1>4, <1>7, <1>8
    <3>2. c[m + i - 1] = h[m + i - 1]
      BY <1>1, <1>3, <3>1
    <3>3. (m - 1) + i = m + i - 1
      BY <1>4
    <3> QED BY <3>1, <3>2, <3>3
  <2> QED BY <2>1, <2>2
<1>12. k \in History
  BY <1>7, <1>8 DEF History
<1>13. KeptHistory(h \o Messages(t)) = k
  BY DEF k, c
<1> QED BY <1>2, <1>8, <1>9, <1>10, <1>11, <1>12, <1>13

\* The turns of the new history are those of the old one and the added one.
LEMMA AddedTurnMembers ==
  ASSUME NEW h \in History, NEW t \in Turns,
         NEW i \in DOMAIN KeptHistory(h \o Messages(t))
  PROVE  LET k == KeptHistory(h \o Messages(t)) IN
         k[i].turn = t \/ \E j \in DOMAIN h : k[i] = h[j]
PROOF
<1> DEFINE k == KeptHistory(h \o Messages(t))
           n == Len(k)
<1>1. /\ k \in History
      /\ n \in Nat \ {0}
      /\ k[n] = [role |-> "assistant", turn |-> t]
      /\ n > 1 => k[n - 1] = [role |-> "user", turn |-> t]
      /\ \E d \in Int : /\ d + n = Len(h) + 2
                        /\ d >= 0
                        /\ \A l \in 1 .. n - 2 : k[l] = h[d + l]
  BY AddedTurn
<1>2. PICK d \in Int : /\ d + n = Len(h) + 2
                      /\ d >= 0
                      /\ \A l \in 1 .. n - 2 : k[l] = h[d + l]
  BY <1>1
<1>3. DOMAIN k = 1 .. n /\ DOMAIN h = 1 .. Len(h) /\ Len(h) \in Nat
  BY <1>1, LenProperties DEF History
<1> HIDE DEF k, n
<1>4. i \in 1 .. n
  BY <1>3 DEF k
<1>5. CASE i <= n - 2
  <2>1. i \in 1 .. n - 2 /\ d + i \in 1 .. Len(h)
    BY <1>1, <1>2, <1>3, <1>4, <1>5
  <2>2. k[i] = h[d + i]
    BY <1>2, <2>1
  <2> QED BY <1>3, <2>1, <2>2 DEF k
<1>6. CASE i > n - 2
  <2>1. i = n \/ (i = n - 1 /\ n > 1)
    BY <1>1, <1>4, <1>6
  <2>2. k[i].turn = t
    BY <1>1, <2>1
  <2> QED BY <2>2 DEF k
<1> QED BY <1>1, <1>4, <1>5, <1>6

\* A turn that is not in a well-formed history yet leaves a well-formed one.
LEMMA AddedTurnWellFormed ==
  ASSUME NEW h \in History, NEW t \in Turns,
         WellFormed(h), \A i \in DOMAIN h : h[i].turn # t
  PROVE  WellFormed(KeptHistory(h \o Messages(t)))
PROOF
<1> DEFINE k == KeptHistory(h \o Messages(t))
           n == Len(k)
<1>1. /\ k \in History
      /\ n \in Nat \ {0}
      /\ k[n] = [role |-> "assistant", turn |-> t]
      /\ n > 1 => k[n - 1] = [role |-> "user", turn |-> t]
      /\ \E d \in Int : /\ d + n = Len(h) + 2
                        /\ d >= 0
                        /\ \A l \in 1 .. n - 2 : k[l] = h[d + l]
  BY AddedTurn
<1>2. PICK d \in Int : /\ d + n = Len(h) + 2
                      /\ d >= 0
                      /\ \A l \in 1 .. n - 2 : k[l] = h[d + l]
  BY <1>1
<1>3. DOMAIN k = 1 .. n /\ DOMAIN h = 1 .. Len(h) /\ Len(h) \in Nat /\ k \in Seq(Message)
  BY <1>1, LenProperties DEF History
<1>4. \A l \in 1 .. n - 2 : d + l \in 1 .. Len(h) /\ k[l] = h[d + l] /\ k[l].turn # t
  BY <1>1, <1>2, <1>3
<1> HIDE DEF k, n
<1>5. ASSUME NEW i \in 1 .. n - 1
      PROVE  IF k[i].role = "user" THEN k[i + 1] = [k[i] EXCEPT !.role = "assistant"]
             ELSE k[i + 1].role = "user"
  <2>1. CASE i < n - 2
    <3>1. i \in 1 .. n - 2 /\ i + 1 \in 1 .. n - 2 /\ d + i \in 1 .. Len(h) - 1
      BY <1>1, <1>2, <1>3, <2>1
    <3>2. k[i] = h[d + i] /\ k[i + 1] = h[(d + i) + 1]
      BY <1>2, <3>1
    <3> QED BY <3>1, <3>2 DEF WellFormed
  <2>2. CASE i = n - 2
    <3>1. n - 2 \in 1 .. n - 2 /\ d + (n - 2) = Len(h) /\ n > 1 /\ Len(h) >= 1
      BY <1>1, <1>2, <1>3, <2>2
    <3>2. k[n - 2] = h[Len(h)]
      BY <1>2, <3>1
    <3>3. h # << >>
      BY <3>1
    <3>4. h[Len(h)].role = "assistant"
      BY <3>3 DEF WellFormed
    <3>5. k[i].role = "assistant" /\ k[i + 1] = [role |-> "user", turn |-> t]
      <4>1. i + 1 = n - 1
        BY <1>1, <2>2
      <4> QED BY <1>1, <2>2, <3>1, <3>2, <3>4, <4>1
    <3> QED BY <3>5
  <2>3. CASE i = n - 1
    <3>1. n > 1 /\ i + 1 = n
      BY <1>1, <2>3
    <3>2. k[i] = [role |-> "user", turn |-> t] /\ k[i + 1] = [role |-> "assistant", turn |-> t]
      BY <1>1, <2>3, <3>1
    <3> QED BY <3>2
  <2> QED BY <1>1, <2>1, <2>2, <2>3
<1>6. k[n].role = "assistant"
  BY <1>1
<1>7. ASSUME NEW i \in 1 .. n, NEW j \in 1 .. n, k[i] = k[j]
      PROVE  i = j
  <2>1. CASE i <= n - 2 /\ j <= n - 2
    <3>1. i \in 1 .. n - 2 /\ j \in 1 .. n - 2
      BY <1>1, <2>1
    <3>2. h[d + i] = h[d + j] /\ d + i \in DOMAIN h /\ d + j \in DOMAIN h
      BY <1>3, <1>4, <1>7, <3>1
    <3>3. d + i = d + j
      BY <3>2 DEF WellFormed
    <3> QED BY <1>2, <3>1, <3>3
  <2>2. ASSUME NEW l \in 1 .. n, l > n - 2
        PROVE  k[l].turn = t /\ (k[l].role = "user" => l = n - 1) /\ (k[l].role # "user" => l = n)
    BY <1>1, <2>2
  <2>3. CASE i > n - 2 /\ j > n - 2
    BY <1>7, <2>2, <2>3
  <2>4. CASE ~ (i <= n - 2 <=> j <= n - 2)
    BY <1>1, <1>4, <1>7, <2>2, <2>4
  <2> QED BY <1>1, <2>1, <2>3, <2>4
<1>8. WellFormed(k)
  BY <1>1, <1>3, <1>5, <1>6, <1>7 DEF WellFormed, n
<1> QED BY <1>8 DEF k

-----------------------------------------------------------------------------
\* The inductive invariant.

LEMMA EmptyHistory ==
  << >> \in History /\ EmptyContext \in Context /\ WellFormed(<< >>)
PROOF
<1>1. << >> \in Seq(Message) /\ Len(<< >>) = 0 /\ DOMAIN << >> = {}
  OBVIOUS
<1>2. << >> \in History
  BY <1>1, MemoryAssumption DEF History
<1>3. WellFormed(<< >>)
  BY <1>1 DEF WellFormed
<1> QED BY <1>2, <1>3 DEF EmptyContext, Context

\* A place may keep a context of one turn more than a transcript it has kept,
\* once that turn is saved.
LEMMA KeepPreserves ==
  ASSUME MemoryInv,
         NEW t \in Turns, NEW p \in Place, NEW base \in past[p], NEW context,
         context = [turns |-> KeptHistory(base \o Messages(t)), carry |-> t],
         phase[t] \in {"running", "saving"},
         Keep(p, context),
         phase' = [phase EXCEPT ![t] = "saved"],
         UNCHANGED << backend, replica, carried, draft >>
  PROVE  MemoryInv'
PROOF
<1> DEFINE k == KeptHistory(base \o Messages(t))
<1> USE DEF MemoryInv
<1>1. base \in History /\ past \in [Place -> SUBSET History]
  BY DEF TypeOK
<1>2. k \in History /\ Len(k) \in Nat \ {0} /\ k[Len(k)] = [role |-> "assistant", turn |-> t]
  BY <1>1, AddedTurn
<1>3. \A i \in DOMAIN base : base[i].turn # t
  BY DEF PastSaved
<1>4. WellFormed(k)
  BY <1>1, <1>3, AddedTurnWellFormed DEF PastWellFormed
<1>5. \A i \in DOMAIN k : k[i].turn = t \/ \E j \in DOMAIN base : k[i] = base[j]
  BY <1>1, AddedTurnMembers
<1> HIDE DEF k
<1>6. /\ context.turns = k /\ context.carry = t /\ context \in Context
  BY <1>2 DEF Context, k
<1>7. /\ store' = [store EXCEPT ![p] = context]
      /\ past' = [past EXCEPT ![p] = @ \union {k}]
  BY <1>6 DEF Keep
<1>8. TypeOK'
  BY <1>1, <1>2, <1>6, <1>7 DEF TypeOK, Phase, Ended, Answered
<1>9. past'[p] = past[p] \union {k} /\ \A q \in Place \ {p} : past'[q] = past[q]
  BY <1>1, <1>7
<1>10. store'[p] = context /\ \A q \in Place \ {p} : store'[q] = store[q]
  BY <1>7 DEF TypeOK
<1>11. Current'
  BY <1>6, <1>9, <1>10 DEF Current
<1>12. DraftAdds'
  <2> SUFFICES ASSUME NEW u \in Turns, phase'[u] = "saving"
               PROVE  \E b \in past'[Redis] :
                        draft'[u] = [turns |-> KeptHistory(b \o Messages(u)), carry |-> u]
    BY DEF DraftAdds
  <2>1. phase[u] = "saving"
    BY DEF TypeOK
  <2>2. past[Redis] \subseteq past'[Redis]
    BY <1>1, <1>7 DEF Place
  <2> QED BY <2>1, <2>2 DEF DraftAdds
<1>13. \A u \in Turns : phase[u] = "saved" => phase'[u] = "saved"
  BY DEF TypeOK
<1>14. phase'[t] = "saved"
  BY DEF TypeOK
<1>15. PastSaved'
  <2> SUFFICES ASSUME NEW q \in Place, NEW h \in past'[q], NEW i \in DOMAIN h
               PROVE  phase'[h[i].turn] = "saved"
    BY DEF PastSaved
  <2>1. ASSUME NEW r \in Place, NEW g \in past[r], NEW j \in DOMAIN g
        PROVE  phase'[g[j].turn] = "saved"
    <3>1. phase[g[j].turn] = "saved"
      BY DEF PastSaved
    <3>2. g \in Seq(Message)
      BY <1>1 DEF History
    <3>3. g[j].turn \in Turns
      <4>1. g[j] \in Message
        BY <3>2, LenProperties, ElementOfSeq
      <4> QED BY <4>1 DEF Message
    <3> QED BY <1>13, <3>1, <3>3
  <2>2. CASE h \in past[q]
    BY <2>1, <2>2
  <2>3. CASE q = p /\ h = k
    <3>1. h[i].turn = t \/ \E j \in DOMAIN base : h[i] = base[j]
      BY <1>5, <2>3
    <3> QED BY <1>14, <2>1, <3>1
  <2> QED BY <1>9, <2>2, <2>3
<1>16. PastWellFormed'
  BY <1>4, <1>9 DEF PastWellFormed, WellFormed
<1>17. CarryOfLastAnswer'
  <2>1. k # << >>
    BY <1>2
  <2>2. store'[p].carry = k[Len(k)].turn /\ store'[p].turns = k
    BY <1>2, <1>6, <1>10
  <2> QED BY <1>10, <2>1, <2>2 DEF CarryOfLastAnswer
<1> QED BY <1>8, <1>11, <1>12, <1>15, <1>16, <1>17

\* A step that keeps or empties what the places hold and saves no turn.
LEMMA NoKeepPreserves ==
  ASSUME MemoryInv,
         phase' \in [Turns -> Phase],
         \A t \in Turns : phase'[t] = phase[t] \/ (phase[t] # "saved" /\ phase'[t] # "saving"),
         store' \in [Place -> Context],
         \A p \in Place : store'[p] \in {store[p], EmptyContext},
         carried' \in [Turns -> Turns \union {NoTurn}],
         UNCHANGED << backend, replica, draft, past >>
  PROVE  MemoryInv'
PROOF
<1> USE DEF MemoryInv
<1>1. TypeOK'
  BY DEF TypeOK
<1>2. Current'
  BY DEF Current, EmptyContext
<1>3. DraftAdds'
  BY DEF DraftAdds
<1>4. PastSaved'
  <2> SUFFICES ASSUME NEW q \in Place, NEW h \in past[q], NEW i \in DOMAIN h
               PROVE  phase'[h[i].turn] = "saved"
    BY DEF PastSaved
  <2>1. phase[h[i].turn] = "saved"
    BY DEF PastSaved
  <2>2. h[i] \in Message
    BY LenProperties, ElementOfSeq DEF TypeOK, History
  <2>3. h[i].turn \in Turns
    BY <2>2 DEF Message
  <2> QED BY <2>1, <2>3
<1>5. PastWellFormed'
  BY DEF PastWellFormed, WellFormed
<1>6. CarryOfLastAnswer'
  BY DEF CarryOfLastAnswer, EmptyContext
<1> QED BY <1>1, <1>2, <1>3, <1>4, <1>5, <1>6

LEMMA MemoryInvInit == Init => MemoryInv
PROOF
<1> SUFFICES ASSUME Init PROVE MemoryInv
  OBVIOUS
<1>1. TypeOK
  BY EmptyHistory DEF Init, TypeOK, Phase, Ended, Answered
<1>2. Current /\ DraftAdds /\ PastSaved
  BY DEF Init, Current, DraftAdds, PastSaved, EmptyContext
<1>3. PastWellFormed
  BY EmptyHistory DEF Init, PastWellFormed, Place
<1>4. CarryOfLastAnswer
  BY DEF Init, CarryOfLastAnswer, EmptyContext
<1> QED BY <1>1, <1>2, <1>3, <1>4 DEF MemoryInv

\* What a read returns adds nothing: it is what the place keeps, or nothing.
LEMMA ReadsKept ==
  ASSUME MemoryInv, NEW p \in Place, NEW fault, NEW context \in Reads(p, fault)
  PROVE  context \in Context /\ context.turns \in past[p]
PROOF
<1>1. store[p] \in Context /\ store[p].turns \in past[p] /\ << >> \in past[p]
  BY DEF MemoryInv, TypeOK, Current
<1> QED BY <1>1, EmptyHistory DEF Reads, EmptyContext

LEMMA MemoryInvStep == MemoryInv /\ [Next]_vars => MemoryInv'
PROOF
<1> SUFFICES ASSUME MemoryInv, [Next]_vars PROVE MemoryInv'
  OBVIOUS
<1>0. TypeOK
  BY DEF MemoryInv
<1>1. ASSUME NEW t \in Turns, BeginTurn(t) PROVE MemoryInv'
  <2>1. Home(replica[t]) \in Place
    BY <1>0 DEF TypeOK, Home, Place
  <2>2. PICK context \in Reads(Home(replica[t]), "load") :
          carried' = [carried EXCEPT ![t] = context.carry]
    BY <1>1 DEF BeginTurn
  <2>3. context.carry \in Turns \union {NoTurn}
    BY <2>1, <2>2, ReadsKept DEF Context
  <2>4. carried' \in [Turns -> Turns \union {NoTurn}]
    BY <1>0, <2>2, <2>3 DEF TypeOK
  <2>5. /\ phase' \in [Turns -> Phase]
        /\ \A u \in Turns : phase'[u] = phase[u] \/ (phase[u] # "saved" /\ phase'[u] # "saving")
    BY <1>0, <1>1 DEF BeginTurn, TypeOK, Phase, Ended, Answered
  <2> QED BY <1>0, <1>1, <2>4, <2>5, NoKeepPreserves DEF BeginTurn, TypeOK
<1>2. ASSUME NEW t \in Turns, SaveInMemory(t) PROVE MemoryInv'
  <2>1. replica[t] \in Place /\ store[replica[t]].turns \in past[replica[t]]
    BY <1>0 DEF TypeOK, Place, MemoryInv, Current
  <2>2. /\ phase[t] \in {"running", "saving"}
        /\ Keep(replica[t], After(store[replica[t]], t))
        /\ phase' = [phase EXCEPT ![t] = "saved"]
        /\ UNCHANGED << backend, replica, carried, draft >>
    BY <1>2 DEF SaveInMemory
  <2>3. After(store[replica[t]], t)
          = [turns |-> KeptHistory(store[replica[t]].turns \o Messages(t)), carry |-> t]
    BY DEF After
  <2> QED BY <2>1, <2>2, <2>3, KeepPreserves
<1>3. ASSUME NEW t \in Turns, SaveRead(t) PROVE MemoryInv'
  <2>1. PICK context \in Reads(Redis, "save_read") :
          draft' = [draft EXCEPT ![t] = After(context, t)]
    BY <1>3 DEF SaveRead
  <2>2. Redis \in Place
    BY DEF Place
  <2>3. context.turns \in past[Redis]
    BY <2>1, <2>2, ReadsKept
  <2>4. context.turns \in History
    BY <1>0, <2>2, <2>3 DEF TypeOK
  <2>5. After(context, t) \in Context
    <3>1. KeptHistory(context.turns \o Messages(t)) \in History
      BY <2>4, AddedTurn
    <3> QED BY <3>1 DEF After, Context
  <2>6. TypeOK'
    BY <1>0, <1>3, <2>1, <2>5 DEF SaveRead, TypeOK, Phase, Ended, Answered
  <2>7. DraftAdds'
    <3> SUFFICES ASSUME NEW u \in Turns, phase'[u] = "saving"
                 PROVE  \E b \in past[Redis] :
                          draft'[u] = [turns |-> KeptHistory(b \o Messages(u)), carry |-> u]
      BY <1>3 DEF DraftAdds, SaveRead
    <3>1. CASE u = t
      <4>1. draft'[u] = [turns |-> KeptHistory(context.turns \o Messages(u)), carry |-> u]
        BY <1>0, <2>1, <3>1 DEF TypeOK, After
      <4> QED BY <2>3, <4>1
    <3>2. CASE u # t
      <4>1. phase[u] = "saving" /\ draft'[u] = draft[u]
        BY <1>0, <1>3, <2>1, <3>2 DEF SaveRead, TypeOK
      <4> QED BY <4>1 DEF MemoryInv, DraftAdds
    <3> QED BY <3>1, <3>2
  <2>8. PastSaved'
    <3> SUFFICES ASSUME NEW q \in Place, NEW h \in past[q], NEW i \in DOMAIN h
                 PROVE  phase'[h[i].turn] = "saved"
      BY <1>3 DEF PastSaved, SaveRead
    <3>1. phase[h[i].turn] = "saved"
      BY DEF MemoryInv, PastSaved
    <3> QED BY <1>0, <1>3, <3>1 DEF SaveRead, TypeOK
  <2>9. Current' /\ PastWellFormed' /\ CarryOfLastAnswer'
    BY <1>3 DEF SaveRead, MemoryInv, Current, PastWellFormed, WellFormed, CarryOfLastAnswer
  <2> QED BY <2>6, <2>7, <2>8, <2>9 DEF MemoryInv
<1>4. ASSUME NEW t \in Turns, SaveWrite(t) PROVE MemoryInv'
  <2>1. PICK base \in past[Redis] :
          draft[t] = [turns |-> KeptHistory(base \o Messages(t)), carry |-> t]
    BY <1>4 DEF SaveWrite, MemoryInv, DraftAdds
  <2>2. /\ phase[t] \in {"running", "saving"}
        /\ Keep(Redis, draft[t])
        /\ phase' = [phase EXCEPT ![t] = "saved"]
        /\ UNCHANGED << backend, replica, carried, draft >>
    BY <1>4 DEF SaveWrite
  <2>3. Redis \in Place
    BY DEF Place
  <2> QED BY <2>1, <2>2, <2>3, KeepPreserves
<1>5. ASSUME NEW t \in Turns, SaveLost(t) \/ TurnFails(t) PROVE MemoryInv'
  <2>1. /\ phase' \in [Turns -> Phase]
        /\ \A u \in Turns : phase'[u] = phase[u] \/ (phase[u] # "saved" /\ phase'[u] # "saving")
    BY <1>0, <1>5 DEF SaveLost, TurnFails, TypeOK, Phase, Ended, Answered
  <2> QED BY <1>0, <1>5, <2>1, NoKeepPreserves DEF SaveLost, TurnFails, TypeOK
<1>6. ASSUME NEW r \in Replicas, Restart(r) PROVE MemoryInv'
  <2>1. /\ phase' \in [Turns -> Phase]
        /\ \A u \in Turns : phase'[u] = phase[u] \/ (phase[u] # "saved" /\ phase'[u] # "saving")
    BY <1>0, <1>6 DEF Restart, TypeOK, Phase, Ended, Answered
  <2>2. /\ store' \in [Place -> Context]
        /\ \A p \in Place : store'[p] \in {store[p], EmptyContext}
    BY <1>0, <1>6, EmptyHistory DEF Restart, TypeOK
  <2> QED BY <1>0, <1>6, <2>1, <2>2, NoKeepPreserves DEF Restart, TypeOK
<1>7. ASSUME Expire PROVE MemoryInv'
  <2>1. /\ store' \in [Place -> Context]
        /\ \A p \in Place : store'[p] \in {store[p], EmptyContext}
    BY <1>0, <1>7, EmptyHistory DEF Expire, TypeOK
  <2> QED BY <1>0, <1>7, <2>1, NoKeepPreserves DEF Expire, TypeOK
<1>8. CASE UNCHANGED vars
  BY <1>0, <1>8, NoKeepPreserves DEF vars, TypeOK
<1> QED
  BY <1>1, <1>2, <1>3, <1>4, <1>5, <1>6, <1>7, <1>8 DEF Next, MemoryStep, TurnStep

\* Every reachable state satisfies the inductive invariant.
THEOREM MemoryInvariant == Spec => []MemoryInv
PROOF
<1> QED BY MemoryInvInit, MemoryInvStep, PTL DEF Spec

\* The memory keeps its types; in particular no place ever keeps more than
\* HistoryLimit messages (the cut in save_turn).
THEOREM MemoryTypeCorrect == Spec => []TypeOK
PROOF
<1>1. MemoryInv => TypeOK
  BY DEF MemoryInv
<1> QED BY <1>1, MemoryInvariant, PTL

\* However saves interleave and fail, what a turn loads is a history of whole
\* exchanges, each of them once.
THEOREM HistoriesWellFormed == Spec => []HistoryWellFormed
PROOF
<1>1. MemoryInv => HistoryWellFormed
  BY DEF MemoryInv, Current, PastWellFormed, HistoryWellFormed
<1> QED BY <1>1, MemoryInvariant, PTL

\* The slot request and stage a turn finds are those of the last answer it finds.
THEOREM CarryIsLastAnswers == Spec => []CarryOfLastAnswer
PROOF
<1>1. MemoryInv => CarryOfLastAnswer
  BY DEF MemoryInv
<1> QED BY <1>1, MemoryInvariant, PTL

-----------------------------------------------------------------------------
\* Refinement of Transcript.

\* A place that keeps a context of one turn more records that turn.
LEMMA KeepRecords ==
  ASSUME MemoryInv,
         NEW t \in Turns, NEW p \in Place, NEW base,
         base \in IF p = Redis THEN past[p] ELSE {store[p].turns},
         NEW context,
         context = [turns |-> KeptHistory(base \o Messages(t)), carry |-> t],
         Keep(p, context)
  PROVE  Promise!Next
PROOF
<1> DEFINE new == KeptHistory(base \o Messages(t))
<1>1. new = Promise!KeepLast(base \o Promise!Exchange(t), HistoryLimit)
  BY DEF KeptHistory, Messages, Promise!KeepLast, Promise!Exchange
<1>2. /\ store' = [store EXCEPT ![p] = context] /\ context.turns = new
      /\ past' = [past EXCEPT ![p] = @ \union {new}]
  BY DEF Keep
<1> HIDE DEF new
<1>3. store \in [Place -> Context]
  BY DEF MemoryInv, TypeOK
<1>4. [q \in Place |-> store'[q].turns]
        = [[q \in Place |-> store[q].turns] EXCEPT ![p] = new]
  BY <1>2, <1>3
<1>5. [q \in Place |-> store[q].turns][p] = store[p].turns
  OBVIOUS
<1>6. Promise!Record(p, t)
  BY <1>1, <1>2, <1>4, <1>5 DEF Promise!Record
<1> QED BY <1>6 DEF Promise!Next

\* Every step records a turn, forgets a transcript or leaves all as they are.
LEMMA StepImplements ==
  MemoryInv /\ [Next]_vars =>
    [Promise!Next]_<< [p \in Place |-> store[p].turns], past >>
PROOF
<1> SUFFICES ASSUME MemoryInv, [Next]_vars
             PROVE  [Promise!Next]_<< [p \in Place |-> store[p].turns], past >>
  OBVIOUS
<1> DEFINE Stutter == UNCHANGED << [p \in Place |-> store[p].turns], past >>
<1>0. store \in [Place -> Context] /\ replica \in [Turns -> Replicas]
  BY DEF MemoryInv, TypeOK
<1>1. ASSUME NEW t \in Turns, SaveInMemory(t) PROVE Promise!Next
  <2>1. /\ replica[t] \in Place /\ replica[t] # Redis
        /\ Keep(replica[t], After(store[replica[t]], t))
    BY <1>0, <1>1, MemoryAssumption DEF SaveInMemory, Place
  <2>2. After(store[replica[t]], t)
          = [turns |-> KeptHistory(store[replica[t]].turns \o Messages(t)), carry |-> t]
    BY DEF After
  <2> QED BY <2>1, <2>2, KeepRecords
<1>2. ASSUME NEW t \in Turns, SaveWrite(t) PROVE Promise!Next
  <2>1. PICK base \in past[Redis] :
          draft[t] = [turns |-> KeptHistory(base \o Messages(t)), carry |-> t]
    BY <1>2 DEF SaveWrite, MemoryInv, DraftAdds
  <2>2. Redis \in Place /\ Keep(Redis, draft[t])
    BY <1>2 DEF SaveWrite, Place
  <2> QED BY <2>1, <2>2, KeepRecords
<1>3. ASSUME NEW q \in Place, store' = [store EXCEPT ![q] = EmptyContext], UNCHANGED past
      PROVE  Promise!Next
  <2>1. [p \in Place |-> store'[p].turns]
          = [[p \in Place |-> store[p].turns] EXCEPT ![q] = << >>]
    BY <1>0, <1>3 DEF EmptyContext
  <2>2. Promise!Forget(q)
    BY <1>3, <2>1 DEF Promise!Forget
  <2> QED BY <2>2 DEF Promise!Next
<1>4. ASSUME NEW r \in Replicas, Restart(r) PROVE Promise!Next
  BY <1>3, <1>4 DEF Restart, Place
<1>5. ASSUME Expire PROVE Promise!Next
  BY <1>3, <1>5 DEF Expire, Place
<1>6. ASSUME NEW t \in Turns, BeginTurn(t) \/ SaveRead(t) \/ SaveLost(t) \/ TurnFails(t)
      PROVE  Stutter
  BY <1>6 DEF BeginTurn, SaveRead, SaveLost, TurnFails
<1>7. CASE UNCHANGED vars
  BY <1>7 DEF vars
<1> QED
  BY <1>1, <1>2, <1>4, <1>5, <1>6, <1>7 DEF Next, MemoryStep, TurnStep

\* The memory keeps its promise: a save adds a whole turn to the transcript
\* there is (in memory) or to one there has been (Redis), whatever interleaves
\* and whatever fails.
THEOREM TranscriptImplemented == Spec => ImplementsTranscript
PROOF
<1>1. Init => Promise!Init
  BY DEF Init, Promise!Init, EmptyContext
<1> QED BY <1>1, StepImplements, MemoryInvariant, PTL DEF Spec, ImplementsTranscript, Promise!Spec

-----------------------------------------------------------------------------
\* What the panel shows.

\* A question that is shown is found at its one position.
LEMMA ShownAt ==
  ASSUME PanelShows, NEW t \in requested
  PROVE  /\ Shown(t) \in DOMAIN messages /\ messages[Shown(t)] = Question(t)
         /\ \A i \in DOMAIN messages : messages[i] = Question(t) => i = Shown(t)
PROOF
<1>1. PICK i \in DOMAIN messages :
        /\ messages[i] = Question(t)
        /\ \A j \in DOMAIN messages : messages[j] = Question(t) => j = i
  BY DEF PanelShows
<1>2. Shown(t) \in DOMAIN messages /\ messages[Shown(t)] = Question(t)
  BY <1>1, Zenon DEF Shown
<1> QED BY <1>1, <1>2

\* Another message leaves every question where it is.
LEMMA ShownStays ==
  ASSUME PanelTypeOK, PanelShows, NEW m \in Message,
         \A t \in requested : m # Question(t),
         messages' = Append(messages, m)
  PROVE  \A t \in requested :
           /\ Shown(t)' = Shown(t)
           /\ Shown(t) \in DOMAIN messages' /\ messages'[Shown(t)] = Question(t)
           /\ \A i \in DOMAIN messages' : messages'[i] = Question(t) => i = Shown(t)
PROOF
<1>1. messages \in Seq(Message) /\ Len(messages) \in Nat
  BY LenProperties DEF PanelTypeOK
<1>2. /\ Len(messages') = Len(messages) + 1
      /\ \A i \in 1 .. Len(messages) : messages'[i] = messages[i]
      /\ messages'[Len(messages) + 1] = m
      /\ messages' \in Seq(Message)
  BY <1>1, AppendProperties
<1>3. DOMAIN messages = 1 .. Len(messages) /\ DOMAIN messages' = 1 .. Len(messages) + 1
  BY <1>1, <1>2, LenProperties
<1> TAKE t \in requested
<1>4. /\ Shown(t) \in DOMAIN messages /\ messages[Shown(t)] = Question(t)
      /\ \A i \in DOMAIN messages : messages[i] = Question(t) => i = Shown(t)
  BY ShownAt
<1>5. Shown(t) \in DOMAIN messages' /\ messages'[Shown(t)] = Question(t)
  BY <1>1, <1>2, <1>3, <1>4
<1>6. ASSUME NEW i \in DOMAIN messages', messages'[i] = Question(t) PROVE i = Shown(t)
  <2>1. i # Len(messages) + 1
    BY <1>2, <1>6
  <2>2. i \in DOMAIN messages
    BY <1>1, <1>3, <2>1
  <2> QED BY <1>2, <1>3, <1>4, <1>6, <2>2
<1>7. Shown(t)' = Shown(t)
  <2>1. Shown(t)' = CHOOSE i \in DOMAIN messages' : messages'[i] = Question(t)
    BY DEF Shown, Question
  <2> DEFINE s == Shown(t)
  <2>2. s \in DOMAIN messages' /\ messages'[s] = Question(t)
    BY <1>5
  <2>3. \A i \in DOMAIN messages' : messages'[i] = Question(t) => i = s
    BY <1>6
  <2> HIDE DEF s
  <2>4. (CHOOSE i \in DOMAIN messages' : messages'[i] = Question(t)) = s
    BY <2>2, <2>3, Zenon
  <2> QED BY <2>1, <2>4 DEF s
<1> QED BY <1>5, <1>6, <1>7

LEMMA ShownSame ==
  ASSUME UNCHANGED messages
  PROVE  \A t : Shown(t)' = Shown(t)
PROOF
<1> TAKE t
<1>1. Shown(t)' = CHOOSE i \in DOMAIN messages' : messages'[i] = Question(t)
  BY DEF Shown, Question
<1>2. Shown(t) = CHOOSE i \in DOMAIN messages : messages[i] = Question(t)
  BY DEF Shown
<1> QED BY <1>1, <1>2, Zenon

\* The order of what is kept does not change with the turns given up.
LEMMA OrderStays ==
  ASSUME PastInOrder, UNCHANGED << past, messages >>, abandoned \subseteq abandoned'
  PROVE  PastInOrder'
PROOF
<1>1. \A t : Shown(t)' = Shown(t)
  BY ShownSame
<1> SUFFICES ASSUME NEW p \in Place, NEW h \in past[p],
                    NEW i \in DOMAIN h, NEW j \in DOMAIN h, i < j,
                    h[i].turn \notin abandoned', h[j].turn \notin abandoned'
             PROVE  Shown(h[i].turn)' <= Shown(h[j].turn)'
  BY DEF PastInOrder
<1>2. Shown(h[i].turn) <= Shown(h[j].turn)
  BY DEF PastInOrder
<1> QED BY <1>1, <1>2

-----------------------------------------------------------------------------
\* The steps of the server.  No step of it shows a message.

LEMMA ServerStepOfMemory == [PanelNext]_panelAll => [Next]_vars
PROOF
<1> USE DEF PanelNext, panelAll
<1>1. ServerStep => Next
  BY DEF ServerStep, Arrive, Next
<1>2. ShowAnswer \/ ShowError \/ (\E t \in Turns : HandleSend(t)) => UNCHANGED vars
  BY DEF ShowAnswer, ShowError, HandleSend, Send
<1> QED BY <1>1, <1>2

\* Turns are taken up one by one, and one that has ended stays so.
Progress ==
  \A t \in Turns :
    \/ phase'[t] = phase[t]
    \/ phase[t] = "running" /\ phase'[t] \in {"saving"} \union Ended
    \/ phase[t] = "saving" /\ phase'[t] \in Ended

\* What holds of the panel and of the order of its turns survives any step in
\* which the server only goes on with turns it has taken up.
LEMMA ServerKeepsPanel ==
  ASSUME PanelInv, Progress, TypeOK', UNCHANGED panelVars
  PROVE  PanelTypeOK' /\ OneAtATime' /\ PanelShows'
PROOF
<1>1. UNCHANGED << waiting, messages, requested, abandoned >>
  BY DEF panelVars
<1>2. PanelTypeOK'
  BY <1>1 DEF PanelInv, PanelTypeOK, Message
<1>3. OneAtATime'
  BY <1>1 DEF PanelInv, PanelTypeOK, OneAtATime, Progress, Ended, Answered
<1>4. PanelShows'
  BY <1>1 DEF PanelInv, PanelShows, Shown, Question
<1> QED BY <1>2, <1>3, <1>4

\* A step that records no turn and starts none.
LEMMA QuietServer ==
  ASSUME PanelInv, MemoryInv', Progress,
         \A t \in Turns : phase'[t] = "saved" => phase[t] = "saved",
         \A p \in Place : store'[p] \in {store[p], EmptyContext},
         UNCHANGED << backend, replica, carried, past >>, UNCHANGED panelVars
  PROVE  PanelInv'
PROOF
<1>1. UNCHANGED << waiting, messages, requested, abandoned >>
  BY DEF panelVars
<1>2. TypeOK /\ TypeOK'
  BY DEF PanelInv, MemoryInv
<1>3. PanelTypeOK' /\ OneAtATime' /\ PanelShows'
  BY <1>2, ServerKeepsPanel
<1>4. CarriesAtHome'
  <2>1. \A t \in Turns : phase[t] = "saved" => phase'[t] = "saved"
    BY DEF Progress
  <2>2. \A r : Home(r)' = Home(r)
    BY DEF Home
  <2>3. \A p \in Place : store[p].carry \in Turns \union {NoTurn}
    BY <1>2 DEF TypeOK, Context
  <2>4. \A p \in Place : store'[p].carry \in {store[p].carry, NoTurn}
    BY DEF EmptyContext
  <2>5. \A t \in Turns : carried[t] \in Turns \union {NoTurn}
    BY <1>2 DEF TypeOK
  <2>6. ASSUME NEW p \in Place, store'[p].carry # NoTurn
        PROVE  /\ phase'[store'[p].carry] = "saved"
               /\ Home(replica[store'[p].carry]) = p
    <3>1. store'[p].carry = store[p].carry /\ store[p].carry # NoTurn
      BY <2>4, <2>6
    <3>2. phase[store[p].carry] = "saved" /\ Home(replica[store[p].carry]) = p
      BY <3>1 DEF PanelInv, CarriesAtHome
    <3> QED BY <2>1, <2>3, <3>1, <3>2
  <2>7. ASSUME NEW t \in Turns, carried[t] # NoTurn
        PROVE  /\ phase'[carried[t]] = "saved"
               /\ Home(replica[carried[t]]) = Home(replica[t])
    BY <2>1, <2>5, <2>7 DEF PanelInv, CarriesAtHome
  <2> QED BY <2>2, <2>6, <2>7 DEF CarriesAtHome
<1>5. CarriesUsedUp'
  BY <1>2 DEF PanelInv, CarriesUsedUp, EmptyContext, TypeOK
<1>6. CarriesApart'
  BY <1>1, <1>2 DEF PanelInv, CarriesApart, Progress, TypeOK, Phase, Ended, Answered
<1>7. PastInOrder'
  BY <1>1, OrderStays DEF PanelInv
<1> QED BY <1>3, <1>4, <1>5, <1>6, <1>7 DEF PanelInv

\* Of two messages of a history a turn was added to, the second is no earlier
\* on the panel than the first, if the turn is the one the panel waits for or
\* was given up.
LEMMA AddedInOrder ==
  ASSUME PanelInv, NEW p \in Place, NEW base \in past[p],
         NEW t \in Turns, t \in abandoned \/ t = waiting, t \in requested
  PROVE  LET k == KeptHistory(base \o Messages(t)) IN
         \A i, j \in DOMAIN k :
           i < j /\ k[i].turn \notin abandoned /\ k[j].turn \notin abandoned
             => Shown(k[i].turn) <= Shown(k[j].turn)
PROOF
<1> DEFINE k == KeptHistory(base \o Messages(t))
           n == Len(k)
<1>1. base \in History /\ t # NoTurn
  BY MemoryAssumption DEF PanelInv, MemoryInv, TypeOK
<1>2. /\ k \in History
      /\ n \in Nat \ {0}
      /\ k[n] = [role |-> "assistant", turn |-> t]
      /\ n > 1 => k[n - 1] = [role |-> "user", turn |-> t]
      /\ \E d \in Int : /\ d + n = Len(base) + 2
                        /\ d >= 0
                        /\ \A l \in 1 .. n - 2 : k[l] = base[d + l]
  BY <1>1, AddedTurn
<1>3. PICK d \in Int : /\ d + n = Len(base) + 2
                      /\ d >= 0
                      /\ \A l \in 1 .. n - 2 : k[l] = base[d + l]
  BY <1>2
<1>4. /\ DOMAIN k = 1 .. n /\ DOMAIN base = 1 .. Len(base) /\ Len(base) \in Nat
      /\ base \in Seq(Message)
  BY <1>1, <1>2, LenProperties DEF History
<1>5. \A i \in DOMAIN base : base[i].turn \in requested
  <2> TAKE i \in DOMAIN base
  <2>1. base[i] \in Message
    BY <1>4, ElementOfSeq
  <2>2. base[i].turn \in Turns /\ phase[base[i].turn] = "saved"
    BY <2>1 DEF Message, PanelInv, MemoryInv, PastSaved
  <2> QED BY <2>2 DEF PanelInv, OneAtATime
<1>6. \A i \in DOMAIN k : k[i].turn = t \/ \E j \in DOMAIN base : k[i] = base[j]
  BY <1>1, AddedTurnMembers
<1> HIDE DEF k, n
<1> SUFFICES ASSUME NEW i \in DOMAIN k, NEW j \in DOMAIN k, i < j,
                    k[i].turn \notin abandoned, k[j].turn \notin abandoned
             PROVE  Shown(k[i].turn) <= Shown(k[j].turn)
  BY DEF k
<1>7. k[i].turn \in requested
  BY <1>5, <1>6
<1>8. CASE j <= n - 2
  <2>1. /\ i \in 1 .. n - 2 /\ j \in 1 .. n - 2
        /\ d + i \in DOMAIN base /\ d + j \in DOMAIN base /\ d + i < d + j
    BY <1>2, <1>3, <1>4, <1>8
  <2>2. k[i] = base[d + i] /\ k[j] = base[d + j]
    BY <1>3, <2>1
  <2> QED BY <2>1, <2>2 DEF PanelInv, PastInOrder
<1>9. CASE j > n - 2
  <2>1. j = n \/ (j = n - 1 /\ n > 1)
    <3>1. n \in Nat \ {0} /\ i \in 1 .. n /\ j \in 1 .. n
      BY <1>2, <1>4
    <3> QED BY <1>9, <3>1
  <2>2. k[j].turn = t
    BY <1>2, <2>1
  <2>3. t = waiting
    BY <2>2
  <2> QED BY <1>1, <1>7, <2>2, <2>3 DEF PanelInv, PanelShows
<1>10. i \in Nat /\ j \in Nat /\ n \in Nat
  BY <1>2, <1>4
<1> QED BY <1>8, <1>9, <1>10

\* A turn is recorded where it is served.
LEMMA ServerRecords ==
  ASSUME PanelInv, MemoryInv',
         NEW t \in Turns, NEW p \in Place, NEW base \in past[p], NEW context,
         Home(replica[t]) = p,
         context = [turns |-> KeptHistory(base \o Messages(t)), carry |-> t],
         phase[t] \in {"running", "saving"},
         Keep(p, context),
         phase' = [phase EXCEPT ![t] = "saved"],
         UNCHANGED << backend, replica, carried, draft >>, UNCHANGED panelVars
  PROVE  PanelInv'
PROOF
<1> DEFINE k == KeptHistory(base \o Messages(t))
<1>1. UNCHANGED << waiting, messages, requested, abandoned >>
  BY DEF panelVars
<1>2. TypeOK /\ TypeOK'
  BY DEF PanelInv, MemoryInv
<1>3. t \in requested /\ (t \in abandoned \/ t = waiting)
  BY DEF PanelInv, OneAtATime, Ended, Answered
<1>4. /\ phase'[t] = "saved"
      /\ \A u \in Turns \ {t} : phase'[u] = phase[u]
  BY <1>2 DEF TypeOK
<1>5. Progress
  BY <1>4 DEF Progress, Ended, Answered
<1>6. PanelTypeOK' /\ OneAtATime' /\ PanelShows'
  BY <1>2, <1>5, ServerKeepsPanel
<1>7. \A i, j \in DOMAIN k :
        i < j /\ k[i].turn \notin abandoned /\ k[j].turn \notin abandoned
          => Shown(k[i].turn) <= Shown(k[j].turn)
  BY <1>3, AddedInOrder
<1> HIDE DEF k
<1>8. context.turns = k /\ context.carry = t
  BY DEF k
<1>9. /\ store' = [store EXCEPT ![p] = context]
      /\ past' = [past EXCEPT ![p] = @ \union {k}]
  BY <1>8 DEF Keep
<1>10. /\ store'[p].carry = t
       /\ \A q \in Place \ {p} : store'[q] = store[q]
       /\ past'[p] = past[p] \union {k}
       /\ \A q \in Place \ {p} : past'[q] = past[q]
  BY <1>2, <1>8, <1>9 DEF TypeOK
<1>11. t # NoTurn /\ phase[t] # "saved"
  BY MemoryAssumption
<1>12. CarriesAtHome'
  BY <1>2, <1>4, <1>10, <1>11 DEF PanelInv, CarriesAtHome, Home, TypeOK
<1>13. CarriesUsedUp'
  <2> SUFFICES ASSUME NEW u \in Turns, NEW q \in Place, phase'[u] = "saved",
                      carried[u] # NoTurn
               PROVE  store'[q].carry # carried[u]
    BY DEF CarriesUsedUp
  <2>1. phase[carried[u]] = "saved" /\ Home(replica[carried[u]]) = Home(replica[u])
    BY DEF PanelInv, CarriesAtHome
  <2>2. CASE q = p
    BY <1>10, <1>11, <2>1, <2>2
  <2>3. CASE q # p /\ u = t
    <3>1. store[q].carry # NoTurn => Home(replica[store[q].carry]) = q
      BY DEF PanelInv, CarriesAtHome
    <3> QED BY <1>10, <2>1, <2>3, <3>1
  <2>4. CASE q # p /\ u # t
    BY <1>4, <1>10, <2>4 DEF PanelInv, CarriesUsedUp
  <2> QED BY <2>2, <2>3, <2>4
<1>14. CarriesApart'
  BY <1>1, <1>2, <1>4 DEF PanelInv, CarriesApart, TypeOK
<1>15. PastInOrder'
  <2> SUFFICES ASSUME NEW q \in Place, NEW h \in past'[q],
                      NEW i \in DOMAIN h, NEW j \in DOMAIN h, i < j,
                      h[i].turn \notin abandoned, h[j].turn \notin abandoned
               PROVE  Shown(h[i].turn) <= Shown(h[j].turn)
    <3>1. \A u : Shown(u)' = Shown(u)
      BY <1>1, ShownSame
    <3> QED BY <1>1, <3>1 DEF PastInOrder
  <2>1. CASE h \in past[q]
    BY <2>1 DEF PanelInv, PastInOrder
  <2>2. CASE h = k
    BY <1>7, <2>2
  <2> QED BY <1>10, <2>1, <2>2
<1> QED BY <1>6, <1>12, <1>13, <1>14, <1>15 DEF PanelInv

\* A turn that begins.  If the panel has not given it up, it is the one the
\* panel waits for, and no other turn is on the way; one that was recorded has
\* replaced the context it found.
LEMMA ServerBegins ==
  ASSUME PanelInv, MemoryInv', NEW t \in Turns, Arrive(t)
  PROVE  PanelInv'
PROOF
<1>1. /\ UNCHANGED << waiting, messages, requested, abandoned >>
      /\ UNCHANGED << backend, store, replica, past >>
      /\ t \in requested /\ phase[t] = "new"
      /\ phase' = [phase EXCEPT ![t] = "running"]
  BY DEF Arrive, BeginTurn, panelVars
<1>2. TypeOK /\ TypeOK'
  BY DEF PanelInv, MemoryInv
<1>3. PICK context \in Reads(Home(replica[t]), "load") :
        carried' = [carried EXCEPT ![t] = context.carry]
  BY DEF Arrive, BeginTurn
<1>4. Home(replica[t]) \in Place
  BY <1>2 DEF TypeOK, Home, Place
<1>5. /\ carried'[t] \in {store[Home(replica[t])].carry, NoTurn}
      /\ \A u \in Turns \ {t} : carried'[u] = carried[u]
      /\ phase'[t] = "running"
      /\ \A u \in Turns \ {t} : phase'[u] = phase[u]
  BY <1>1, <1>2, <1>3 DEF TypeOK, Reads, EmptyContext
<1>6. PanelTypeOK'
  BY <1>1, <1>2 DEF PanelInv, PanelTypeOK, Message
<1>7. OneAtATime'
  BY <1>1, <1>5 DEF PanelInv, PanelTypeOK, OneAtATime, Ended, Answered
<1>8. PanelShows'
  BY <1>1 DEF PanelInv, PanelShows, Shown, Question
<1>9. ASSUME carried'[t] # NoTurn
      PROVE  /\ phase[carried'[t]] = "saved"
             /\ Home(replica[carried'[t]]) = Home(replica[t])
  BY <1>4, <1>5, <1>9 DEF PanelInv, CarriesAtHome
<1>10. CarriesAtHome'
  BY <1>1, <1>2, <1>5, <1>9 DEF PanelInv, CarriesAtHome, Home, TypeOK
<1>11. CarriesUsedUp'
  BY <1>1, <1>5 DEF PanelInv, CarriesUsedUp
<1>12. ASSUME NEW u \in Turns \ abandoned, u # t, t \notin abandoned,
              phase[u] \in {"running", "saving", "saved"},
              carried[u] = carried'[t], carried[u] # NoTurn
       PROVE  FALSE
  <2>1. phase[u] # "saved"
    BY <1>4, <1>5, <1>12 DEF PanelInv, CarriesUsedUp
  <2>2. u \in requested
    BY <1>12 DEF PanelInv, OneAtATime
  <2>3. u = waiting /\ t = waiting
    BY <1>1, <1>12, <2>1, <2>2 DEF PanelInv, OneAtATime, Ended, Answered
  <2> QED BY <1>12, <2>3
<1>13. CarriesApart'
  <2> SUFFICES ASSUME NEW u \in Turns \ abandoned, NEW v \in Turns \ abandoned, u # v,
                      {phase'[u], phase'[v]} \subseteq {"running", "saving", "saved"},
                      carried'[u] = carried'[v], carried'[u] # NoTurn
               PROVE  FALSE
    BY <1>1 DEF CarriesApart
  <2>1. CASE u = t
    BY <1>5, <1>12, <2>1
  <2>2. CASE v = t
    BY <1>5, <1>12, <2>2
  <2>3. CASE u # t /\ v # t
    BY <1>5, <2>3 DEF PanelInv, CarriesApart
  <2> QED BY <2>1, <2>2, <2>3
<1>14. PastInOrder'
  BY <1>1, OrderStays DEF PanelInv
<1> QED BY <1>6, <1>7, <1>8, <1>10, <1>11, <1>13, <1>14 DEF PanelInv

LEMMA ServerStepKeeps ==
  ASSUME PanelInv, ServerStep
  PROVE  PanelInv'
PROOF
<1>1. TypeOK /\ MemoryInv'
  <2>1. [PanelNext]_panelAll /\ MemoryInv
    BY DEF PanelNext, PanelInv
  <2> QED BY <2>1, ServerStepOfMemory, MemoryInvStep DEF MemoryInv
<1>2. ASSUME NEW t \in Turns, Arrive(t) PROVE PanelInv'
  BY <1>1, <1>2, ServerBegins
<1>3. ASSUME UNCHANGED panelVars, NEW t \in Turns, SaveInMemory(t) PROVE PanelInv'
  <2>1. /\ replica[t] \in Place /\ store[replica[t]].turns \in past[replica[t]]
        /\ Home(replica[t]) = replica[t]
    BY <1>1, <1>3 DEF TypeOK, Place, PanelInv, MemoryInv, Current, SaveInMemory, Home, Redis
  <2>2. /\ phase[t] \in {"running", "saving"}
        /\ Keep(replica[t], After(store[replica[t]], t))
        /\ phase' = [phase EXCEPT ![t] = "saved"]
        /\ UNCHANGED << backend, replica, carried, draft >>
    BY <1>3 DEF SaveInMemory
  <2>3. After(store[replica[t]], t)
          = [turns |-> KeptHistory(store[replica[t]].turns \o Messages(t)), carry |-> t]
    BY DEF After
  <2> QED BY <1>1, <1>3, <2>1, <2>2, <2>3, ServerRecords
<1>4. ASSUME UNCHANGED panelVars, NEW t \in Turns, SaveWrite(t) PROVE PanelInv'
  <2>1. PICK base \in past[Redis] :
          draft[t] = [turns |-> KeptHistory(base \o Messages(t)), carry |-> t]
    BY <1>4 DEF SaveWrite, PanelInv, MemoryInv, DraftAdds
  <2>2. /\ phase[t] \in {"running", "saving"}
        /\ Keep(Redis, draft[t])
        /\ phase' = [phase EXCEPT ![t] = "saved"]
        /\ UNCHANGED << backend, replica, carried, draft >>
    BY <1>4 DEF SaveWrite
  <2>3. Redis \in Place /\ Home(replica[t]) = Redis
    BY <1>4 DEF Place, SaveWrite, Home
  <2> QED BY <1>1, <1>4, <2>1, <2>2, <2>3, ServerRecords
<1>5. ASSUME UNCHANGED panelVars, NEW t \in Turns, SaveRead(t) \/ SaveLost(t) \/ TurnFails(t)
      PROVE  PanelInv'
  <2>1. /\ Progress
        /\ \A u \in Turns : phase'[u] = "saved" => phase[u] = "saved"
        /\ \A p \in Place : store'[p] \in {store[p], EmptyContext}
        /\ UNCHANGED << backend, replica, carried, past >>
    BY <1>1, <1>5 DEF SaveRead, SaveLost, TurnFails, TypeOK, Progress, Ended, Answered
  <2> QED BY <1>1, <1>5, <2>1, QuietServer
<1>6. ASSUME UNCHANGED panelVars, NEW r \in Replicas, Restart(r) PROVE PanelInv'
  <2>1. /\ Progress
        /\ \A u \in Turns : phase'[u] = "saved" => phase[u] = "saved"
        /\ \A p \in Place : store'[p] \in {store[p], EmptyContext}
        /\ UNCHANGED << backend, replica, carried, past >>
    BY <1>1, <1>6 DEF Restart, TypeOK, Progress, Ended
  <2> QED BY <1>1, <1>6, <2>1, QuietServer
<1>7. ASSUME UNCHANGED panelVars, Expire PROVE PanelInv'
  <2>1. /\ Progress
        /\ \A u \in Turns : phase'[u] = "saved" => phase[u] = "saved"
        /\ \A p \in Place : store'[p] \in {store[p], EmptyContext}
        /\ UNCHANGED << backend, replica, carried, past >>
    BY <1>1, <1>7 DEF Expire, TypeOK, Progress
  <2> QED BY <1>1, <1>7, <2>1, QuietServer
<1> QED
  BY <1>2, <1>3, <1>4, <1>5, <1>6, <1>7 DEF ServerStep, MemoryStep, TurnStep

-----------------------------------------------------------------------------
\* The steps of the panel.

\* What the panel does leaves the turns and their contexts as they are; an
\* answer or a new question does not move the questions that are shown.
LEMMA PanelStepKeeps ==
  ASSUME PanelInv, UNCHANGED vars, requested \subseteq requested',
         abandoned \subseteq abandoned', OneAtATime', PanelTypeOK', PanelShows',
         \A t \in requested : Shown(t)' = Shown(t)
  PROVE  PanelInv'
PROOF
<1>1. MemoryInv'
  BY MemoryInvStep DEF PanelInv
<1>2. UNCHANGED << backend, store, phase, replica, carried, draft, past >>
  BY DEF vars
<1>3. CarriesAtHome'
  BY <1>2 DEF PanelInv, CarriesAtHome, Home
<1>4. CarriesUsedUp'
  BY <1>2 DEF PanelInv, CarriesUsedUp
<1>5. CarriesApart'
  BY <1>2 DEF PanelInv, CarriesApart
<1>6. PastInOrder'
  <2> SUFFICES ASSUME NEW p \in Place, NEW h \in past[p],
                      NEW i \in DOMAIN h, NEW j \in DOMAIN h, i < j,
                      h[i].turn \notin abandoned', h[j].turn \notin abandoned'
               PROVE  Shown(h[i].turn)' <= Shown(h[j].turn)'
    BY <1>2 DEF PastInOrder
  <2>1. ASSUME NEW l \in DOMAIN h PROVE h[l].turn \in requested
    <3>1. h \in Seq(Message)
      BY DEF PanelInv, MemoryInv, TypeOK, History
    <3>2. h[l] \in Message
      BY <3>1, LenProperties, ElementOfSeq
    <3>3. h[l].turn \in Turns /\ phase[h[l].turn] = "saved"
      BY <3>2 DEF Message, PanelInv, MemoryInv, PastSaved
    <3> QED BY <3>3 DEF PanelInv, OneAtATime
  <2>2. Shown(h[i].turn) <= Shown(h[j].turn)
    BY DEF PanelInv, PastInOrder
  <2>3. h[i].turn \in requested /\ h[j].turn \in requested
    BY <2>1
  <2> QED BY <2>2, <2>3
<1> QED BY <1>1, <1>3, <1>4, <1>5, <1>6 DEF PanelInv

LEMMA SendKeeps ==
  ASSUME PanelInv, NEW t \in Turns, HandleSend(t)
  PROVE  PanelInv'
PROOF
<1> DEFINE n == Len(messages)
<1>1. /\ waiting = NoTurn /\ t \notin requested
      /\ messages' = Append(messages, Question(t))
      /\ waiting' = t /\ requested' = requested \union {t}
      /\ UNCHANGED vars /\ UNCHANGED abandoned
  BY DEF HandleSend, Send
<1>2. /\ messages \in Seq(Message) /\ n \in Nat /\ Question(t) \in Message
      /\ requested \subseteq Turns /\ waiting \in requested \union {NoTurn}
      /\ t # NoTurn /\ NoTurn \notin requested
  BY LenProperties, MemoryAssumption DEF PanelInv, PanelTypeOK, Question, Message
<1>3. /\ messages' \in Seq(Message) /\ Len(messages') = n + 1
      /\ \A i \in 1 .. n : messages'[i] = messages[i]
      /\ messages'[n + 1] = Question(t)
  BY <1>1, <1>2, AppendProperties
<1>4. DOMAIN messages = 1 .. n /\ DOMAIN messages' = 1 .. n + 1
  BY <1>2, <1>3, LenProperties
<1>5. \A u \in requested : Question(t) # Question(u)
  BY <1>1 DEF Question
<1>6. \A u \in requested :
        /\ Shown(u)' = Shown(u)
        /\ Shown(u) \in DOMAIN messages' /\ messages'[Shown(u)] = Question(u)
        /\ \A i \in DOMAIN messages' : messages'[i] = Question(u) => i = Shown(u)
  BY <1>1, <1>2, <1>5, ShownStays DEF PanelInv
<1>7. PanelTypeOK'
  <2>1. TypeOK'
    BY <1>1 DEF PanelInv, PanelTypeOK, TypeOK, vars
  <2> QED BY <1>1, <1>2, <1>3, <2>1 DEF PanelInv, PanelTypeOK, Message
<1>8. OneAtATime'
  BY <1>1, <1>2 DEF PanelInv, OneAtATime, vars
<1>9. \A i \in DOMAIN messages' : messages'[i] = Question(t) => i = n + 1
  <2> SUFFICES ASSUME NEW i \in 1 .. n, messages'[i] = Question(t) PROVE FALSE
    BY <1>2, <1>4
  <2>1. messages[i].turn \in requested /\ messages[i] = Question(t)
    BY <1>3, <1>4 DEF PanelInv, PanelShows
  <2> QED BY <1>1, <2>1 DEF Question
<1>10. n + 1 \in DOMAIN messages' /\ messages'[n + 1] = Question(t)
  BY <1>2, <1>3, <1>4
<1>11. Shown(t)' = n + 1
  <2>1. Shown(t)' = CHOOSE i \in DOMAIN messages' : messages'[i] = Question(t)
    BY DEF Shown, Question
  <2> DEFINE last == n + 1
  <2>2. last \in DOMAIN messages' /\ messages'[last] = Question(t)
    BY <1>10
  <2>3. \A i \in DOMAIN messages' : messages'[i] = Question(t) => i = last
    BY <1>9
  <2> HIDE DEF last
  <2>4. (CHOOSE i \in DOMAIN messages' : messages'[i] = Question(t)) = last
    BY <2>2, <2>3, Zenon
  <2> QED BY <2>1, <2>4 DEF last
<1>12. PanelShows'
  <2>1. \A i \in DOMAIN messages' : messages'[i].turn \in requested'
    <3> SUFFICES ASSUME NEW i \in 1 .. n + 1 PROVE messages'[i].turn \in requested'
      BY <1>4
    <3>1. CASE i \in 1 .. n
      <4>1. messages[i].turn \in requested
        BY <1>4, <3>1 DEF PanelInv, PanelShows
      <4> QED BY <1>1, <1>3, <3>1, <4>1
    <3>2. CASE i = n + 1
      BY <1>1, <1>3, <3>2 DEF Question
    <3> QED BY <1>2, <3>1, <3>2
  <2>2. \A u \in requested' : \E i \in DOMAIN messages' :
          /\ messages'[i] = Question(u)
          /\ \A j \in DOMAIN messages' : messages'[j] = Question(u) => j = i
    BY <1>1, <1>6, <1>9, <1>10
  <2>3. \A u \in requested' : Shown(u)' <= Shown(t)'
    <3> SUFFICES ASSUME NEW u \in requested PROVE Shown(u)' <= n + 1
      BY <1>1, <1>2, <1>11
    <3>1. Shown(u)' \in 1 .. n + 1
      BY <1>4, <1>6
    <3> QED BY <1>2, <3>1
  <2>4. \A u : Question(u)' = Question(u)
    BY DEF Question
  <2> QED BY <1>1, <2>1, <2>2, <2>3, <2>4 DEF PanelShows
<1>13. \A u \in requested : Shown(u)' = Shown(u)
  BY <1>6
<1> QED BY <1>1, <1>7, <1>8, <1>12, <1>13, PanelStepKeeps

LEMMA AnswerKeeps ==
  ASSUME PanelInv, ShowAnswer
  PROVE  PanelInv'
PROOF
<1> DEFINE n == Len(messages)
           m == [role |-> "assistant", turn |-> waiting]
<1>1. /\ waiting # NoTurn /\ phase[waiting] \in Answered
      /\ messages' = Append(messages, m) /\ waiting' = NoTurn
      /\ UNCHANGED vars /\ UNCHANGED << requested, abandoned >>
  BY DEF ShowAnswer
<1>2. /\ messages \in Seq(Message) /\ n \in Nat /\ m \in Message
      /\ waiting \in requested /\ m.turn = waiting /\ m.role = "assistant"
  BY <1>1, LenProperties DEF PanelInv, PanelTypeOK, Message
<1> HIDE DEF m
<1>3. /\ messages' \in Seq(Message) /\ Len(messages') = n + 1
      /\ \A i \in 1 .. n : messages'[i] = messages[i]
      /\ messages'[n + 1] = m
  BY <1>1, <1>2, AppendProperties
<1>4. DOMAIN messages = 1 .. n /\ DOMAIN messages' = 1 .. n + 1
  BY <1>2, <1>3, LenProperties
<1>5. \A u \in requested : m # Question(u)
  BY <1>2 DEF Question
<1>6. \A u \in requested :
        /\ Shown(u)' = Shown(u)
        /\ Shown(u) \in DOMAIN messages' /\ messages'[Shown(u)] = Question(u)
        /\ \A i \in DOMAIN messages' : messages'[i] = Question(u) => i = Shown(u)
  BY <1>1, <1>2, <1>5, ShownStays DEF PanelInv
<1>7. PanelTypeOK'
  <2>1. TypeOK'
    BY <1>1 DEF PanelInv, PanelTypeOK, TypeOK, vars
  <2> QED BY <1>1, <1>2, <1>3, <2>1 DEF PanelInv, PanelTypeOK, Message
<1>8. OneAtATime'
  BY <1>1 DEF PanelInv, OneAtATime, vars, Ended, Answered
<1>9. PanelShows'
  <2>1. \A i \in DOMAIN messages' : messages'[i].turn \in requested
    <3> SUFFICES ASSUME NEW i \in 1 .. n + 1 PROVE messages'[i].turn \in requested
      BY <1>4
    <3>1. CASE i \in 1 .. n
      <4>1. messages[i].turn \in requested
        BY <1>4, <3>1 DEF PanelInv, PanelShows
      <4> QED BY <1>3, <3>1, <4>1
    <3>2. CASE i = n + 1
      BY <1>2, <1>3, <3>2
    <3> QED BY <1>2, <3>1, <3>2
  <2>2. \A u \in requested : \E i \in DOMAIN messages' :
          /\ messages'[i] = Question(u)
          /\ \A j \in DOMAIN messages' : messages'[j] = Question(u) => j = i
    BY <1>6
  <2>3. \A u : Question(u)' = Question(u)
    BY DEF Question
  <2> QED BY <1>1, <2>1, <2>2, <2>3 DEF PanelShows
<1>10. \A u \in requested : Shown(u)' = Shown(u)
  BY <1>6
<1> QED BY <1>1, <1>7, <1>8, <1>9, <1>10, PanelStepKeeps

LEMMA ErrorKeeps ==
  ASSUME PanelInv, ShowError
  PROVE  PanelInv'
PROOF
<1>1. /\ waiting # NoTurn /\ waiting' = NoTurn
      /\ abandoned' = abandoned \union IF phase[waiting] \in Ended THEN {} ELSE {waiting}
      /\ UNCHANGED vars /\ UNCHANGED << messages, requested >>
  BY DEF ShowError
<1>2. PanelTypeOK'
  <2>1. TypeOK'
    BY <1>1 DEF PanelInv, PanelTypeOK, TypeOK, vars
  <2> QED BY <1>1, <2>1 DEF PanelInv, PanelTypeOK, Message
<1>3. OneAtATime'
  BY <1>1 DEF PanelInv, OneAtATime, vars
<1>4. PanelShows'
  BY <1>1 DEF PanelInv, PanelShows, Question
<1>5. \A u \in requested : Shown(u)' = Shown(u)
  BY <1>1, ShownSame
<1> QED BY <1>1, <1>2, <1>3, <1>4, <1>5, PanelStepKeeps

-----------------------------------------------------------------------------

LEMMA PanelInvInit == PanelInit => PanelInv
PROOF
<1> SUFFICES ASSUME PanelInit PROVE PanelInv
  OBVIOUS
<1>1. /\ MemoryInv /\ waiting = NoTurn /\ messages = << >>
      /\ requested = {} /\ abandoned = {}
      /\ \A t \in Turns : phase[t] = "new" /\ carried[t] = NoTurn
      /\ \A p \in Place : store[p].carry = NoTurn /\ past[p] = {<< >>}
  BY MemoryInvInit DEF PanelInit, Init, EmptyContext
<1>2. PanelTypeOK
  BY <1>1 DEF PanelTypeOK, MemoryInv
<1>3. OneAtATime /\ PanelShows
  BY <1>1 DEF OneAtATime, PanelShows
<1>4. CarriesAtHome /\ CarriesUsedUp /\ CarriesApart
  BY <1>1 DEF CarriesAtHome, CarriesUsedUp, CarriesApart
<1>5. PastInOrder
  BY <1>1 DEF PastInOrder
<1> QED BY <1>1, <1>2, <1>3, <1>4, <1>5 DEF PanelInv

LEMMA PanelInvStep == PanelInv /\ [PanelNext]_panelAll => PanelInv'
PROOF
<1> SUFFICES ASSUME PanelInv, [PanelNext]_panelAll PROVE PanelInv'
  OBVIOUS
<1>1. CASE UNCHANGED panelAll
  <2>1. UNCHANGED vars /\ UNCHANGED << waiting, messages, requested, abandoned >>
    BY <1>1 DEF panelAll, panelVars
  <2>2. PanelTypeOK'
    <3>1. TypeOK'
      BY <2>1 DEF PanelInv, PanelTypeOK, TypeOK, vars
    <3> QED BY <2>1, <3>1 DEF PanelInv, PanelTypeOK, Message
  <2>3. OneAtATime'
    BY <2>1 DEF PanelInv, OneAtATime, vars
  <2>4. \A t : Shown(t)' = Shown(t) /\ Question(t)' = Question(t)
    BY <2>1, ShownSame DEF Question
  <2>5. PanelShows'
    BY <2>1, <2>4 DEF PanelInv, PanelShows
  <2> QED BY <2>1, <2>2, <2>3, <2>4, <2>5, PanelStepKeeps
<1> QED
  BY <1>1, ServerStepKeeps, SendKeeps, AnswerKeeps, ErrorKeeps DEF PanelNext

\* The panel has one turn on the way, and what the places keep follows it.
THEOREM PanelInvariant == PanelSpec => []PanelInv
PROOF
<1> QED BY PanelInvInit, PanelInvStep, PTL DEF PanelSpec

\* A slot request is answered, and a stage of the hand-off continued, by one
\* recorded turn only, however requests break off, fail, lose their record and
\* are carried on without the panel.
THEOREM ContextsUsedOnce == PanelSpec => []ContextUsedOnce
PROOF
<1>1. PanelInv => ContextUsedOnce
  BY DEF PanelInv, CarriesApart, ContextUsedOnce
<1> QED BY <1>1, PanelInvariant, PTL

\* What is remembered is in the order of the panel, but for turns given up.
THEOREM MemoryOrdered == PanelSpec => []MemoryInPanelOrder
PROOF
<1>1. PanelInv => MemoryInPanelOrder
  BY DEF PanelInv, MemoryInv, Current, PastInOrder, MemoryInPanelOrder
<1> QED BY <1>1, PanelInvariant, PTL

\* Behind a panel the memory does nothing it would not do for any requests: all
\* that is proved of it, its promise included, holds in the composition.
THEOREM PanelRunsMemory == PanelSpec => Spec /\ ImplementsTranscript
PROOF
<1>1. PanelInit => Init
  BY DEF PanelInit
<1> QED BY <1>1, ServerStepOfMemory, TranscriptImplemented, PTL DEF PanelSpec, Spec
=============================================================================
