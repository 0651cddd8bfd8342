---------------------------- MODULE PromptProofs ----------------------------
(***************************************************************************)
(* What the scanners of Prompt.tla return, for a console of any tokens:    *)
(* nothing, or a position after the cursor at which the match ends.        *)
(***************************************************************************)
EXTENDS Prompt, TLAPS, FiniteSetTheorems, WellFoundedInduction

\* A set of naturals that is not empty has a least element.
LEMMA LeastExists ==
    ASSUME NEW S \in SUBSET Nat, S # {}
    PROVE  LET least == CHOOSE e \in S : \A other \in S : e <= other
           IN  least \in S /\ \A other \in S : least <= other
<1> DEFINE Below == {0..e : e \in S}
<1> DEFINE Order == StrictSubsetOrdering(Nat)
<1>1. Below \subseteq FiniteSubsetsOf(Nat) /\ Below # {}
  <2>1. ASSUME NEW e \in S
        PROVE  0..e \in SUBSET Nat /\ IsFiniteSet(0..e)
    BY FS_Interval
  <2>2. Below \subseteq FiniteSubsetsOf(Nat)
    BY <2>1 DEF FiniteSubsetsOf
  <2> QED
    BY <2>2
<1>2. PICK e \in S : \A T \in Below : <<T, 0..e>> \notin Order
  <2>1. IsWellFoundedOn(Order, FiniteSubsetsOf(Nat))
    BY FS_StrictSubsetOrderingWellFounded
  <2> HIDE DEF Order
  <2>2. \E B \in Below : \A T \in Below : <<T, B>> \notin Order
    <3> HIDE DEF Below
    <3> QED
      BY <1>1, <2>1, WFMin
  <2> QED
    BY <2>2
<1>3. ASSUME NEW other \in S, other < e
      PROVE  FALSE
  <2>1. 0..other \in Below /\ 0..other \subseteq 0..e /\ e \in 0..e /\ e \notin 0..other
    BY <1>3
  <2>2. 0..other \in SUBSET Nat /\ 0..e \in SUBSET Nat /\ 0..other # 0..e
    BY <2>1
  <2>3. <<0..other, 0..e>> \in StrictSubsetOrdering(Nat)
    BY <2>1, <2>2 DEF StrictSubsetOrdering
  <2> QED
    BY <1>2, <2>1, <2>3
<1>4. \A other \in S : e <= other
  BY <1>3
<1> QED
  BY <1>4

\* A prompt that is found lies after the cursor, and ends with the last token of its pattern.
LEMMA FindPromptFinds ==
    ASSUME NEW T, NEW buffer \in Seq(T), NEW from \in Nat, NEW pattern \in Seq(T), pattern # <<>>,
           NEW space \in BOOLEAN
    PROVE  LET found == FindPrompt(buffer, from, pattern, space)
           IN  \/ found = NoMatch
               \/ found \in from + 1..Len(buffer) /\ buffer[found] = pattern[Len(pattern)]
<1> DEFINE accepted == {end \in from + Len(pattern)..Len(buffer) :
                           OccursAt(buffer, pattern, end) /\ Terminated(buffer, end, space)}
<1>1. Len(pattern) \in Nat /\ Len(pattern) > 0 /\ Len(buffer) \in Nat
  OBVIOUS
<1>2. CASE accepted = {}
  BY <1>2 DEF FindPrompt
<1>3. CASE accepted # {}
  <2> DEFINE found == CHOOSE end \in accepted : \A other \in accepted : end <= other
  <2>1. accepted \in SUBSET Nat
    BY <1>1
  <2>2. found \in accepted
    BY <1>3, <2>1, LeastExists
  <2>3. found \in from + 1..Len(buffer) /\ OccursAt(buffer, pattern, found)
    BY <1>1, <2>2
  <2>4. found = FindPrompt(buffer, from, pattern, space)
    BY <1>3 DEF FindPrompt
  <2> HIDE DEF found
  <2>5. buffer[found - Len(pattern) + Len(pattern)] = pattern[Len(pattern)]
    BY <1>1, <2>3 DEF OccursAt
  <2>6. buffer[found] = pattern[Len(pattern)]
    BY <1>1, <2>3, <2>5
  <2> QED
    BY <2>3, <2>4, <2>6
<1> QED
  BY <1>2, <1>3

\* Readiness that is found lies after the cursor, and so does a C it is made of.
LEMMA FindCrcReadyFinds ==
    ASSUME NEW T, NEW buffer \in Seq(T), NEW from \in Nat
    PROVE  LET found == FindCrcReady(buffer, from)
           IN  \/ found = NoMatch
               \/ found \in from + 1..Len(buffer) /\ \E i \in from + 1..found : buffer[i] = CRC
<1> DEFINE ready == {end \in from + 1..Len(buffer) : ReadyAt(buffer, from, end)}
<1>1. CASE ready = {}
  BY <1>1 DEF FindCrcReady
<1>2. CASE ready # {}
  <2> DEFINE found == CHOOSE end \in ready : \A other \in ready : end <= other
  <2>1. ready \in SUBSET Nat
    OBVIOUS
  <2>2. found \in ready
    BY <1>2, <2>1, LeastExists
  <2>3. found = FindCrcReady(buffer, from)
    BY <1>2 DEF FindCrcReady
  <2> HIDE DEF found
  <2>4. PICK first \in from + 1..found : Cardinality({i \in first..found : buffer[i] = CRC}) >= 3
    BY <2>2 DEF ReadyAt, ReadyMin
  <2>5. {i \in first..found : buffer[i] = CRC} # {}
    <3> DEFINE run == {i \in first..found : buffer[i] = CRC}
    <3>1. Cardinality(run) # 0
      BY <2>4
    <3> HIDE DEF run
    <3>2. run # {}
      BY <3>1, FS_EmptySet
    <3> QED
      BY <3>2 DEF run
  <2>6. \E i \in from + 1..found : buffer[i] = CRC
    BY <2>2, <2>4, <2>5
  <2> QED
    BY <2>2, <2>3, <2>6
<1> QED
  BY <1>1, <1>2

\* A wait that finds no prompt has none ahead of its cursor.
LEMMA NoPromptOverlooked ==
    ASSUME NEW T, NEW buffer \in Seq(T), NEW from \in Nat, NEW pattern \in Seq(T), pattern # <<>>,
           NEW space \in BOOLEAN, FindPrompt(buffer, from, pattern, space) = NoMatch,
           NEW end \in from + Len(pattern)..Len(buffer)
    PROVE  ~(OccursAt(buffer, pattern, end) /\ Terminated(buffer, end, space))
<1> SUFFICES ASSUME OccursAt(buffer, pattern, end) /\ Terminated(buffer, end, space)
             PROVE  FALSE
  OBVIOUS
<1> DEFINE accepted == {stop \in from + Len(pattern)..Len(buffer) :
                           OccursAt(buffer, pattern, stop) /\ Terminated(buffer, stop, space)}
           found == CHOOSE stop \in accepted : \A other \in accepted : stop <= other
<1>1. Len(pattern) \in Nat /\ Len(pattern) > 0 /\ Len(buffer) \in Nat
  OBVIOUS
<1>2. accepted \in SUBSET Nat /\ accepted # {} /\ \A stop \in accepted : stop > 0
  BY <1>1
<1>3. found = NoMatch
  BY <1>2 DEF FindPrompt
<1>4. found \in accepted
  BY <1>2, LeastExists
<1> HIDE DEF found, accepted
<1> QED
  BY <1>2, <1>3, <1>4 DEF NoMatch

\* Three C in a row are readiness.
LEMMA NoReadinessOverlooked ==
    ASSUME NEW T, NEW buffer \in Seq(T), NEW from \in Nat, FindCrcReady(buffer, from) = NoMatch,
           NEW k \in from..Len(buffer) - 3
    PROVE  ~(buffer[k + 1] = CRC /\ buffer[k + 2] = CRC /\ buffer[k + 3] = CRC)
<1> SUFFICES ASSUME buffer[k + 1] = CRC, buffer[k + 2] = CRC, buffer[k + 3] = CRC
             PROVE  FALSE
  OBVIOUS
<1> DEFINE ready == {end \in from + 1..Len(buffer) : ReadyAt(buffer, from, end)}
           found == CHOOSE end \in ready : \A other \in ready : end <= other
<1>1. Len(buffer) \in Nat /\ k \in Nat /\ k + 1 \in from + 1..k + 3 /\ k + 3 \in from + 1..Len(buffer)
      /\ k + 1..k + 3 = {k + 1, k + 2, k + 3}
  OBVIOUS
<1>2. Cardinality({i \in k + 1..k + 3 : buffer[i] = CRC}) = 3
  <2>1. {i \in k + 1..k + 3 : buffer[i] = CRC} = k + 1..k + 3
    BY <1>1
  <2>2. Cardinality(k + 1..k + 3) = 3
    <3>1. Cardinality(k + 1..k + 3) = (k + 3) - (k + 1) + 1
      BY <1>1, FS_Interval
    <3> QED
      BY <1>1, <3>1
  <2> QED
    BY <2>1, <2>2
<1>3. ReadyAt(buffer, from, k + 3)
  <2>1. \A i \in k + 1..k + 3 : buffer[i] = CRC \/ IsControl(buffer[i])
    BY <1>1
  <2>2. Cardinality({i \in k + 1..k + 3 : buffer[i] = CRC}) >= ReadyMin
    BY <1>2 DEF ReadyMin
  <2> QED
    BY <1>1, <2>1, <2>2 DEF ReadyAt
<1>4. ready \in SUBSET Nat /\ ready # {} /\ \A end \in ready : end > 0
  BY <1>1, <1>3
<1>5. found = NoMatch
  BY <1>4 DEF FindCrcReady
<1>6. found \in ready
  BY <1>4, LeastExists
<1> HIDE DEF found, ready
<1> QED
  BY <1>4, <1>5, <1>6 DEF NoMatch
=============================================================================
