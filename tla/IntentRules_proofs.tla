-------------------------- MODULE IntentRules_proofs -------------------------
(***************************************************************************)
(* What the rules of the classifier decide, for every text and every set   *)
(* of entity types, and what the filter on further intents keeps.          *)
(***************************************************************************)
EXTENDS IntentRules, FiniteSetTheorems, WellFoundedInduction, TLAPS

-----------------------------------------------------------------------------
\* The filter on the queue of further intents (_clean_extra_intents), whatever
\* list a classifier returns.

\* A set of positions that is not empty has a first one.
LEMMA EarliestIsLeast ==
  ASSUME NEW S \in SUBSET Nat, S # {}
  PROVE  Earliest(S) \in S /\ \A j \in S : Earliest(S) <= j
<1> DEFINE Less == {ss \in Nat \X Nat : ss[1] < ss[2]}
<1>1. IsWellFoundedOn(Less, Nat)
  BY NatLessThanWellFounded, Zenon DEF OpToRel
<1>2. \E i \in S : \A j \in S : ~ (<< j, i >> \in Less)
  <2> HIDE DEF Less
  <2> QED  BY <1>1, WFMin, Zenon
<1>3. \A i, j \in Nat : << j, i >> \in Less <=> j < i
  OBVIOUS
<1> HIDE DEF Less
<1>4. \E i \in S : \A j \in S : i <= j
  <2>1. PICK i \in S : \A j \in S : ~ (<< j, i >> \in Less)
    BY <1>2
  <2>2. \A j \in S : ~ (j < i)
    BY <1>3, <2>1
  <2> QED  BY <2>2
<1> QED
  BY <1>4, Zenon DEF Earliest

\* The positions that are kept hold chainable labels, each label once, and of
\* every chainable label other than the primary its first position is kept.
LEMMA KeptPositionsFit ==
  ASSUME NEW primary, NEW raw, NEW n \in Nat, DOMAIN raw = 1 .. n
  PROVE  /\ KeptPositions(primary, raw) \in SUBSET Nat
         /\ \A i \in KeptPositions(primary, raw) :
              i \in DOMAIN raw /\ raw[i] \in ChainableIntents \ {primary}
         /\ \A i, j \in KeptPositions(primary, raw) : i # j => raw[i] # raw[j]
         /\ \A p \in DOMAIN raw : raw[p] \in ChainableIntents \ {primary} =>
              \E i \in KeptPositions(primary, raw) : i <= p /\ raw[i] = raw[p]
<1>1. \A i, j \in KeptPositions(primary, raw) : i # j => raw[i] # raw[j]
  <2>1. SUFFICES ASSUME NEW i \in KeptPositions(primary, raw),
                        NEW j \in KeptPositions(primary, raw), i < j
                 PROVE  raw[i] # raw[j]
    <3>1. KeptPositions(primary, raw) \subseteq Nat
      BY DEF KeptPositions
    <3> QED  BY <2>1, <3>1
  <2>2. i \in 1 .. (j - 1)
    BY <2>1 DEF KeptPositions
  <2> QED  BY <2>2 DEF KeptPositions
<1>2. ASSUME NEW p \in DOMAIN raw, raw[p] \in ChainableIntents \ {primary}
      PROVE  \E i \in KeptPositions(primary, raw) : i <= p /\ raw[i] = raw[p]
  <2> DEFINE same == {i \in DOMAIN raw : raw[i] = raw[p]}
             i    == Earliest(same)
  <2>1. same \in SUBSET Nat /\ same # {} /\ p \in same
    OBVIOUS
  <2>2. i \in same /\ \A j \in same : i <= j
    <3> HIDE DEF same
    <3> QED  BY <2>1, EarliestIsLeast
  <2>3. i \in DOMAIN raw /\ raw[i] = raw[p] /\ i <= p /\ i \in Nat \ {0} /\ p \in Nat
    BY <2>1, <2>2
  <2> HIDE DEF i
  <2>4. ASSUME NEW j \in 1 .. (i - 1)
        PROVE  j \in DOMAIN raw /\ raw[j] # raw[p]
    <3>1. j \in 1 .. n /\ j \in Nat /\ ~ (i <= j)
      BY <2>3
    <3> QED  BY <2>2, <3>1
  <2>5. \A j \in 1 .. (i - 1) : raw[j] # raw[i]
    BY <2>3, <2>4
  <2> QED  BY <1>2, <2>3, <2>5 DEF KeptPositions
<1> QED
  BY <1>1, <1>2 DEF KeptPositions

\* The queue holds chainable labels of the list, none twice and never the
\* primary intent, and what it leaves out comes later in the list.
FilteredQueue(primary, raw, queue) ==
  /\ queue \in Seq(ChainableIntents) /\ Len(queue) <= 2
  /\ \A i \in DOMAIN queue : queue[i] # primary
  /\ \A i, j \in DOMAIN queue : i # j => queue[i] # queue[j]
  /\ \A i \in DOMAIN queue : \E position \in DOMAIN raw :
       /\ queue[i] = raw[position]
       /\ \A p \in DOMAIN raw :
            \/ raw[p] \notin ChainableIntents \ {primary}
            \/ \E j \in DOMAIN queue : queue[j] = raw[p]
            \/ position <= p

LEMMA CleanExtraIntentsQueue ==
  ASSUME NEW primary, NEW raw, NEW n \in Nat, DOMAIN raw = 1 .. n
  PROVE  FilteredQueue(primary, raw, CleanExtraIntents(primary, raw))
<1> DEFINE kept   == KeptPositions(primary, raw)
           first  == Earliest(kept)
           second == Earliest(kept \ {first})
           queue  == CleanExtraIntents(primary, raw)
<1>1. /\ kept \in SUBSET Nat
      /\ \A i \in kept : i \in DOMAIN raw /\ raw[i] \in ChainableIntents \ {primary}
      /\ \A i, j \in kept : i # j => raw[i] # raw[j]
      /\ \A p \in DOMAIN raw : raw[p] \in ChainableIntents \ {primary} =>
           \E i \in kept : i <= p /\ raw[i] = raw[p]
  BY KeptPositionsFit
<1>2. kept # {} => first \in kept /\ \A j \in kept : first <= j
  <2> HIDE DEF kept
  <2> QED  BY <1>1, EarliestIsLeast
<1>3. kept # {} /\ kept # {first} =>
        second \in kept /\ second # first /\ \A j \in kept \ {first} : second <= j
  <2>1. SUFFICES ASSUME kept # {}, kept # {first}
                 PROVE  /\ second \in kept \ {first}
                        /\ \A j \in kept \ {first} : second <= j
    OBVIOUS
  <2>2. kept \ {first} \in SUBSET Nat /\ kept \ {first} # {}
    BY <1>1, <1>2, <2>1
  <2> HIDE DEF kept, first
  <2> QED  BY <2>2, EarliestIsLeast
<1>4. \/ kept = {} /\ queue = << >>
      \/ kept # {} /\ kept = {first} /\ queue = << raw[first] >>
      \/ kept # {} /\ kept # {first} /\ queue = << raw[first], raw[second] >>
  <2>1. queue = CASE kept = {}      -> << >>
                  [] kept = {first} -> << raw[first] >>
                  [] OTHER          -> << raw[first], raw[second] >>
    BY Zenon DEF CleanExtraIntents
  <2> HIDE DEF kept, first, second
  <2> QED  BY <2>1, <1>2, Zenon
<1> HIDE DEF kept, first, second, queue
<1> SUFFICES FilteredQueue(primary, raw, queue)
  BY DEF queue
<1> USE DEF FilteredQueue
<1>5. CASE kept = {} /\ queue = << >>
  BY <1>5
<1>6. CASE kept # {} /\ kept = {first} /\ queue = << raw[first] >>
  <2>1. first \in DOMAIN raw /\ raw[first] \in ChainableIntents \ {primary}
    BY <1>1, <1>2, <1>6
  <2>2. /\ queue \in Seq(ChainableIntents) /\ Len(queue) = 1
        /\ DOMAIN queue = {1} /\ queue[1] = raw[first]
    BY <1>6, <2>1
  <2>3. \A p \in DOMAIN raw : raw[p] \in ChainableIntents \ {primary} => raw[p] = queue[1]
    BY <1>1, <1>6, <2>2
  <2> QED  BY <2>1, <2>2, <2>3
<1>7. CASE kept # {} /\ kept # {first} /\ queue = << raw[first], raw[second] >>
  <2>1. /\ first \in DOMAIN raw /\ raw[first] \in ChainableIntents \ {primary}
        /\ second \in DOMAIN raw /\ raw[second] \in ChainableIntents \ {primary}
        /\ raw[first] # raw[second]
    BY <1>1, <1>2, <1>3, <1>7
  <2>2. /\ queue \in Seq(ChainableIntents) /\ Len(queue) = 2
        /\ DOMAIN queue = {1, 2} /\ queue[1] = raw[first] /\ queue[2] = raw[second]
    BY <1>7, <2>1
  <2>3. ASSUME NEW p \in DOMAIN raw, raw[p] \in ChainableIntents \ {primary},
               raw[p] # queue[1], raw[p] # queue[2]
        PROVE  first <= p /\ second <= p
    <3>1. PICK i \in kept : i <= p /\ raw[i] = raw[p]
      BY <1>1, <2>3
    <3>2. first <= i /\ second <= i
      BY <1>2, <1>3, <1>7, <2>2, <2>3, <3>1
    <3>3. first \in kept /\ second \in kept /\ p \in Nat
      BY <1>2, <1>3, <1>7
    <3>4. first \in Nat /\ second \in Nat /\ i \in Nat
      BY <1>1, <3>3
    <3> QED  BY <3>1, <3>2, <3>3, <3>4
  <2> QED  BY <2>1, <2>2, <2>3
<1> QED
  BY <1>4, <1>5, <1>6, <1>7

-----------------------------------------------------------------------------
\* The labels and their order.

LEMMA SixLabels ==
  ScoredLabel = {"RAG_QUERY", "ACCOUNT_ACTION", "TRANSACTION_ACTION", "CARD_ACTION",
                 "SMALL_TALK", "ESCALATE"}
<1>1. DOMAIN LabelOrder = {1, 2, 3, 4, 5, 6}
  BY DEF LabelOrder
<1> QED
  BY <1>1 DEF ScoredLabel, LabelOrder

\* The dictionary lists each label at one position.
LEMMA RankIsPosition ==
  ASSUME NEW label \in ScoredLabel
  PROVE  Rank(label) \in 1 .. 6 /\ LabelOrder[Rank(label)] = label
<1>1. DOMAIN LabelOrder = 1 .. 6
  BY DEF LabelOrder
<1>2. \E i \in DOMAIN LabelOrder : LabelOrder[i] = label
  BY DEF ScoredLabel
<1>3. Rank(label) \in DOMAIN LabelOrder /\ LabelOrder[Rank(label)] = label
  BY <1>2, Zenon DEF Rank
<1> QED  BY <1>1, <1>3

LEMMA FirstOfBelongs ==
  ASSUME NEW labels \in SUBSET ScoredLabel, labels # {}
  PROVE  FirstOf(labels) \in labels
<1> DEFINE ranks == {Rank(label) : label \in labels}
           least == Earliest(ranks)
<1>1. ranks \in SUBSET Nat /\ ranks # {}
  BY RankIsPosition
<1>2. least \in ranks /\ \A rank \in ranks : least <= rank
  <2> HIDE DEF ranks
  <2> QED  BY <1>1, EarliestIsLeast
<1> HIDE DEF least
<1>3. \E label \in labels : \A other \in labels : Rank(label) <= Rank(other)
  BY <1>2
<1> QED  BY <1>3, Zenon DEF FirstOf

-----------------------------------------------------------------------------
\* The scores and the tie-break.

LEMMA ScoresType ==
  ASSUME NEW text \in Text, NEW types
  PROVE  /\ Scores(text, types) \in [ScoredLabel -> Nat]
         /\ \A label \in ScoredLabel :
              /\ Scores(text, types)[label] >= text.hits[label]
              /\ BoostTypes[label] \cap types = {} =>
                   Scores(text, types)[label] = text.hits[label]
              /\ BoostTypes[label] \cap types # {} =>
                   Scores(text, types)[label] = text.hits[label] + 1
<1>1. text.hits \in [ScoredLabel -> Nat]
  BY DEF Text
<1> QED  BY <1>1 DEF Scores

\* Of the labels one has the best score.
LEMMA BestExists ==
  ASSUME NEW scores \in [ScoredLabel -> Nat]
  PROVE  \E label \in ScoredLabel : \A other \in ScoredLabel : scores[other] <= scores[label]
  BY SixLabels

\* The label chosen has the best score, and acts only if every label with that
\* score does.
LEMMA TieResolved ==
  ASSUME NEW scores \in [ScoredLabel -> Nat]
  PROVE  /\ ResolveTie(scores) \in ScoredLabel
         /\ \A other \in ScoredLabel : scores[other] <= scores[ResolveTie(scores)]
         /\ ResolveTie(scores) \in ToolDrivenIntents =>
              \A other \in ScoredLabel \ ToolDrivenIntents :
                scores[other] < scores[ResolveTie(scores)]
<1> DEFINE tied == {label \in ScoredLabel :
                      \A other \in ScoredLabel : scores[other] <= scores[label]}
           nonAction == tied \ ToolDrivenIntents
<1>1. tied \in SUBSET ScoredLabel /\ tied # {}
  BY BestExists
<1>2. ResolveTie(scores) = IF nonAction # {} THEN FirstOf(nonAction) ELSE FirstOf(tied)
  BY DEF ResolveTie
<1>3. CASE nonAction # {}
  <2>1. FirstOf(nonAction) \in nonAction
    <3>1. nonAction \in SUBSET ScoredLabel
      OBVIOUS
    <3> HIDE DEF nonAction
    <3> QED  BY <1>3, <3>1, FirstOfBelongs
  <2> QED  BY <1>2, <1>3, <2>1
<1>4. CASE nonAction = {}
  <2>1. FirstOf(tied) \in tied
    <3> HIDE DEF tied
    <3> QED  BY <1>1, FirstOfBelongs
  <2>2. ResolveTie(scores) \in tied
    BY <1>2, <1>4, <2>1
  <2>3. ASSUME NEW other \in ScoredLabel \ ToolDrivenIntents
        PROVE  scores[other] < scores[ResolveTie(scores)]
    <3>1. other \notin tied
      BY <1>4
    <3>2. PICK better \in ScoredLabel : ~ (scores[better] <= scores[other])
      BY <3>1
    <3> QED  BY <2>2, <3>2
  <2> QED  BY <2>2, <2>3
<1> QED  BY <1>3, <1>4

\* What the primary intent tells about the text it was found in.
LEMMA PrimaryIntent ==
  ASSUME NEW text \in Text, NEW types, NEW primary,
         primary = ClassifyIntentRuleBased(text, types)
  PROVE  /\ primary \in IntentLabel
         /\ primary \in ToolDrivenIntents =>
              /\ Scores(text, types)[primary] > 0
              /\ \A label \in ScoredLabel \ ToolDrivenIntents :
                   Scores(text, types)[label] < Scores(text, types)[primary]
         /\ primary = "OUT_OF_SCOPE" =>
              \A label \in ScoredLabel : Scores(text, types)[label] = 0
<1> DEFINE scores == Scores(text, types)
           best   == ResolveTie(scores)
<1>1. scores \in [ScoredLabel -> Nat]
  BY ScoresType
<1>2. /\ best \in ScoredLabel
      /\ \A other \in ScoredLabel : scores[other] <= scores[best]
      /\ best \in ToolDrivenIntents =>
           \A other \in ScoredLabel \ ToolDrivenIntents : scores[other] < scores[best]
  <2> HIDE DEF scores
  <2> QED  BY <1>1, TieResolved
<1>3. \/ primary = "SMALL_TALK" \/ primary = "ESCALATE"
      \/ primary = "OUT_OF_SCOPE" /\ scores[best] = 0
      \/ primary = best /\ scores[best] # 0
  BY DEF ClassifyIntentRuleBased
<1> HIDE DEF scores, best
<1>4. scores[best] \in Nat /\ \A label \in ScoredLabel : scores[label] \in Nat
  BY <1>1, <1>2
<1>5. /\ ScoredLabel \subseteq IntentLabel /\ "OUT_OF_SCOPE" \notin ScoredLabel
      /\ {"SMALL_TALK", "ESCALATE", "OUT_OF_SCOPE"} \subseteq IntentLabel \ ToolDrivenIntents
  BY SixLabels DEF IntentLabel, ChainableIntents, ToolDrivenIntents
<1>6. /\ primary \in IntentLabel
      /\ primary \in ToolDrivenIntents => primary = best /\ scores[best] # 0
      /\ primary = "OUT_OF_SCOPE" => scores[best] = 0
  BY <1>2, <1>3, <1>5
<1>7. scores = Scores(text, types)
  BY DEF scores
<1> QED  BY <1>2, <1>4, <1>6, <1>7

-----------------------------------------------------------------------------
\* The queue of further intents.

LEMMA FiniteLabels == IsFiniteSet(ScoredLabel)
<1> DEFINE order == [i \in 1 .. 6 |-> LabelOrder[i]]
<1>1. DOMAIN LabelOrder = 1 .. 6
  BY DEF LabelOrder
<1>2. order \in Surjection(1 .. 6, ScoredLabel)
  BY <1>1 DEF ScoredLabel, Surjection
<1>3. IsFiniteSet(1 .. 6)
  <2>1. 1 \in Int /\ 6 \in Int
    OBVIOUS
  <2> QED  BY <2>1, FS_Interval, Zenon
<1> HIDE DEF order
<1> QED  BY <1>2, <1>3, FS_Surjection

\* Sorting loses no candidate and invents none.  (The place of a candidate is
\* one more than the number of those before it; no two share a place.)
LEMMA ExtrasAreCandidates ==
  ASSUME NEW text \in Text, NEW types, NEW primary,
         NEW extras, extras = RuleBasedExtraIntents(text, types, primary)
  PROVE  \E n \in Nat :
           /\ DOMAIN extras = 1 .. n
           /\ \A i \in 1 .. n : extras[i] \in ExtraCandidates(text, types, primary)
           /\ \A label \in ExtraCandidates(text, types, primary) :
                \E i \in 1 .. n : extras[i] = label
           /\ \A i, j \in 1 .. n : i < j =>
                Scores(text, types)[extras[j]] <= Scores(text, types)[extras[i]]
<1> DEFINE candidates  == ExtraCandidates(text, types, primary)
           scores      == Scores(text, types)
           Precedes(a, b) == \/ scores[a] > scores[b]
                             \/ scores[a] = scores[b] /\ Rank(a) < Rank(b)
           Before(label)  == {other \in candidates : Precedes(other, label)}
           n           == Cardinality(candidates)
           place       == [label \in candidates |-> Cardinality(Before(label)) + 1]
<1>1. extras = [k \in 1 .. n |->
                  CHOOSE label \in candidates : Cardinality(Before(label)) = k - 1]
  BY Zenon DEF RuleBasedExtraIntents
<1>2. candidates \subseteq ScoredLabel /\ scores \in [ScoredLabel -> Nat]
  BY ScoresType DEF ExtraCandidates
<1>3. IsFiniteSet(candidates) /\ n \in Nat
  BY <1>2, FiniteLabels, FS_Subset, FS_CardinalityType
<1>4. \A label \in candidates : scores[label] \in Nat /\ Rank(label) \in Nat
  BY <1>2, RankIsPosition
<1>5. \A a, b \in candidates : Rank(a) = Rank(b) => a = b
  BY <1>2, RankIsPosition
<1>6. /\ \A a \in candidates : ~ Precedes(a, a)
      /\ \A a, b \in candidates : a # b => Precedes(a, b) \/ Precedes(b, a)
      /\ \A a, b, c \in candidates : Precedes(a, b) /\ Precedes(b, c) => Precedes(a, c)
      /\ \A a, b \in candidates : ~ Precedes(b, a) => scores[b] <= scores[a]
  <2> HIDE DEF candidates, scores
  <2> QED  BY <1>4, <1>5
<1> HIDE DEF candidates, scores, Precedes, n
<1>7. \A label \in candidates :
        /\ IsFiniteSet(Before(label)) /\ Cardinality(Before(label)) \in 0 .. (n - 1)
  <2>1. TAKE label \in candidates
  <2>2. Before(label) \in SUBSET candidates /\ label \notin Before(label)
    BY <1>6
  <2>3. /\ IsFiniteSet(Before(label)) /\ Cardinality(Before(label)) <= Cardinality(candidates)
        /\ Cardinality(candidates) = Cardinality(Before(label)) => candidates = Before(label)
    <3> HIDE DEF Before
    <3> QED  BY <1>3, <2>2, FS_Subset
  <2>4. Cardinality(Before(label)) \in Nat
    BY <2>3, FS_CardinalityType
  <2> HIDE DEF Before
  <2> QED  BY <1>3, <2>2, <2>3, <2>4 DEF n
\* Whoever precedes has fewer before it.
<1>8. \A a, b \in candidates : Precedes(a, b) =>
        Cardinality(Before(a)) < Cardinality(Before(b))
  <2>1. SUFFICES ASSUME NEW a \in candidates, NEW b \in candidates, Precedes(a, b)
                 PROVE  Cardinality(Before(a)) < Cardinality(Before(b))
    OBVIOUS
  <2>2. Before(a) \in SUBSET Before(b) /\ a \in Before(b) /\ a \notin Before(a)
    BY <1>6, <2>1
  <2>3. /\ Cardinality(Before(a)) <= Cardinality(Before(b))
        /\ Cardinality(Before(b)) = Cardinality(Before(a)) => Before(b) = Before(a)
    <3> HIDE DEF Before
    <3> QED  BY <1>7, <2>2, FS_Subset
  <2> HIDE DEF Before
  <2> QED  BY <1>7, <2>2, <2>3
<1> HIDE DEF Before
<1>9. place \in Injection(candidates, 1 .. n)
  <2>1. place \in [candidates -> 1 .. n]
    BY <1>3, <1>7
  <2>2. \A a, b \in candidates : a # b => place[a] # place[b]
    BY <1>6, <1>7, <1>8
  <2> QED  BY <2>1, <2>2 DEF Injection, IsInjective
<1>10. place \in Surjection(candidates, 1 .. n)
  <2>1. IsFiniteSet(1 .. n) /\ Cardinality(1 .. n) = n
    BY <1>3, FS_Interval
  <2> HIDE DEF place
  <2> QED  BY <1>9, <2>1, FS_Injection DEF n
<1>11. \A k \in 1 .. n : extras[k] \in candidates /\ Cardinality(Before(extras[k])) = k - 1
  <2>1. TAKE k \in 1 .. n
  <2>2. PICK label \in candidates : place[label] = k
    BY <1>10 DEF Surjection
  <2>3. Cardinality(Before(label)) = k - 1
    BY <1>3, <1>7, <2>2
  <2>4. extras[k] = CHOOSE other \in candidates : Cardinality(Before(other)) = k - 1
    BY <1>1
  <2> QED  BY <2>3, <2>4, Zenon
<1>12. \A label \in candidates : \E i \in 1 .. n : extras[i] = label
  <2>1. TAKE label \in candidates
  <2>2. place[label] \in 1 .. n /\ Cardinality(Before(label)) = place[label] - 1
    BY <1>3, <1>7
  <2>3. extras[place[label]] \in candidates /\
        Cardinality(Before(extras[place[label]])) = place[label] - 1
    BY <1>11, <2>2
  <2>4. extras[place[label]] = label
    BY <1>6, <1>7, <1>8, <2>2, <2>3
  <2> QED  BY <2>2, <2>4
<1>13. \A i, j \in 1 .. n : i < j => scores[extras[j]] <= scores[extras[i]]
  <2>1. SUFFICES ASSUME NEW i \in 1 .. n, NEW j \in 1 .. n, i < j
                 PROVE  ~ Precedes(extras[j], extras[i])
    BY <1>6, <1>11
  <2> QED  BY <1>3, <1>8, <1>11, <2>1
<1>14. DOMAIN extras = 1 .. n
  BY <1>1
<1> QED
  BY <1>3, <1>11, <1>12, <1>13, <1>14 DEF candidates, scores
=============================================================================
