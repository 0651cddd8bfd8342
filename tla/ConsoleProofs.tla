--------------------------- MODULE ConsoleProofs ---------------------------
(***************************************************************************)
(* Console.tla for every terminal, every operator and every board: the     *)
(* board gets what is typed, the screen shows what the board prints, and   *)
(* the transcript holds what crossed the port, however the handoff ends.   *)
(***************************************************************************)
EXTENDS Console, TLAPS, FiniteSetTheorems, SequenceTheorems

-----------------------------------------------------------------------------
(* Sequences: prefixes, and pieces put together *)

\* A prefix is a sequence that is not longer and agrees as far as it goes.
LEMMA PrefixIs ==
    ASSUME NEW S, NEW s \in Seq(S), NEW t \in Seq(S)
    PROVE  IsPrefix(s, t) <=> Len(s) <= Len(t) /\ \A i \in 1..Len(s) : s[i] = t[i]
<1>1. Len(s) \in Nat /\ Len(t) \in Nat /\ SubSeq(s, 1, Len(s)) = s
  BY SubSeqFull
<1>2. CASE Len(s) <= Len(t)
  <2>1. /\ SubSeq(t, 1, Len(s)) \in Seq(S)
        /\ Len(SubSeq(t, 1, Len(s))) = Len(s)
        /\ \A i \in 1..Len(s) : SubSeq(t, 1, Len(s))[i] = t[i]
    BY <1>1, <1>2
  <2>2. (\A i \in 1..Len(s) : s[i] = t[i]) => s = SubSeq(t, 1, Len(s))
    BY <2>1, SeqEqual
  <2> QED
    BY <1>1, <1>2, <2>1, <2>2 DEF IsPrefix
<1>3. CASE ~(Len(s) <= Len(t))
  BY <1>3 DEF IsPrefix
<1> QED
  BY <1>2, <1>3

\* A prefix stays one when the longer sequence grows.
LEMMA PrefixOfLonger ==
    ASSUME NEW S, NEW s \in Seq(S), NEW t \in Seq(S), NEW u \in Seq(S), IsPrefix(s, t)
    PROVE  IsPrefix(s, t \o u)
<1>1. /\ t \o u \in Seq(S) /\ Len(t \o u) = Len(t) + Len(u)
      /\ \A i \in 1..Len(t) : (t \o u)[i] = t[i]
      /\ Len(s) \in Nat /\ Len(t) \in Nat /\ Len(u) \in Nat
  OBVIOUS
<1>2. Len(s) <= Len(t) /\ \A i \in 1..Len(s) : s[i] = t[i]
  BY PrefixIs
<1>3. Len(s) <= Len(t \o u) /\ \A i \in 1..Len(s) : s[i] = (t \o u)[i]
  BY <1>1, <1>2
<1>4. t \o u \in Seq(S)
  BY <1>1
<1> DEFINE longer == t \o u
<1> HIDE DEF longer
<1>5. longer \in Seq(S) /\ Len(s) <= Len(longer) /\ \A i \in 1..Len(s) : s[i] = longer[i]
  BY <1>3, <1>4 DEF longer
<1>6. IsPrefix(s, longer)
  BY <1>5, PrefixIs
<1> QED
  BY <1>6 DEF longer

\* What is put in front of both leaves a prefix a prefix.
LEMMA PrefixAfter ==
    ASSUME NEW S, NEW s \in Seq(S), NEW t \in Seq(S), NEW u \in Seq(S), IsPrefix(t, u)
    PROVE  IsPrefix(s \o t, s \o u)
<1>1. Len(s) \in Nat /\ Len(t) \in Nat /\ Len(u) \in Nat
  OBVIOUS
<1>2. s \o t \in Seq(S) /\ s \o u \in Seq(S) /\ Len(s \o t) = Len(s) + Len(t) /\ Len(s \o u) = Len(s) + Len(u)
  OBVIOUS
<1>3. Len(t) <= Len(u) /\ \A i \in 1..Len(t) : t[i] = u[i]
  BY PrefixIs
<1>4. ASSUME NEW i \in 1..Len(s) + Len(t)
      PROVE  (s \o t)[i] = (s \o u)[i]
  <2>1. CASE i <= Len(s)
    BY <1>1, <2>1
  <2>2. CASE i > Len(s)
    <3>1. i - Len(s) \in 1..Len(t)
      BY <1>1, <2>2
    <3>2. (s \o t)[i] = t[i - Len(s)] /\ (s \o u)[i] = u[i - Len(s)]
      BY <1>1, <1>3, <2>2, <3>1
    <3> QED
      BY <1>3, <3>1, <3>2
  <2> HIDE DEF IsPrefix
  <2>3. i <= Len(s) \/ i > Len(s)
    BY <1>1
  <2> QED
    BY <2>1, <2>2, <2>3, Zenon
<1> DEFINE left == s \o t
           right == s \o u
<1>5. /\ left \in Seq(S) /\ right \in Seq(S) /\ Len(left) <= Len(right)
      /\ \A i \in 1..Len(left) : left[i] = right[i]
  BY <1>1, <1>2, <1>3, <1>4
<1> HIDE DEF left, right
<1>6. IsPrefix(left, right)
  BY <1>5, PrefixIs
<1> QED
  BY <1>6 DEF left, right

LEMMA PrefixTransitive ==
    ASSUME NEW S, NEW s \in Seq(S), NEW t \in Seq(S), NEW u \in Seq(S), IsPrefix(s, t), IsPrefix(t, u)
    PROVE  IsPrefix(s, u)
<1>1. Len(s) \in Nat /\ Len(t) \in Nat /\ Len(u) \in Nat
  OBVIOUS
<1> QED
  BY <1>1, PrefixIs

\* The first n elements of a sequence are a prefix of it.
LEMMA PrefixOfWhole ==
    ASSUME NEW S, NEW s \in Seq(S), NEW n \in 0..Len(s)
    PROVE  SubSeq(s, 1, n) \in Seq(S) /\ Len(SubSeq(s, 1, n)) = n /\ IsPrefix(SubSeq(s, 1, n), s)
<1>1. Len(s) \in Nat
  OBVIOUS
<1>2. /\ SubSeq(s, 1, n) \in Seq(S) /\ Len(SubSeq(s, 1, n)) = n
      /\ \A i \in 1..n : SubSeq(s, 1, n)[i] = s[i]
  BY <1>1
<1> DEFINE part == SubSeq(s, 1, n)
<1>3. part \in Seq(S) /\ Len(part) <= Len(s) /\ \A i \in 1..Len(part) : part[i] = s[i]
  BY <1>1, <1>2
<1> HIDE DEF part
<1>4. IsPrefix(part, s)
  BY <1>3, PrefixIs
<1> QED
  BY <1>2, <1>4 DEF part

\* What comes after them are the others, in their order.
LEMMA RestOfWhole ==
    ASSUME NEW S, NEW s \in Seq(S), NEW n \in 0..Len(s)
    PROVE  /\ SubSeq(s, n + 1, Len(s)) \in Seq(S) /\ Len(SubSeq(s, n + 1, Len(s))) = Len(s) - n
           /\ \A i \in 1..Len(s) - n : SubSeq(s, n + 1, Len(s))[i] = s[n + i]
<1>1. Len(s) \in Nat
  OBVIOUS
<1> QED
  BY <1>1

\* A set of naturals that is not empty has a least element.
LEMMA LeastElement ==
    ASSUME NEW S \in SUBSET Nat, S # {}
    PROVE  \E least \in S : \A other \in S : least <= other
<1>1. PICK least \in S : \A other \in S : ~ (<<other, least>> \in OpToRel(<, Nat))
  BY NatLessThanWellFounded, WFMin
<1>2. ASSUME NEW other \in S
      PROVE  least <= other
  <2>1. <<other, least>> \in Nat \X Nat /\ <<other, least>>[1] = other /\ <<other, least>>[2] = least
    OBVIOUS
  <2>2. ~(other < least)
    BY <1>1, <2>1 DEF OpToRel
  <2> QED
    BY <2>2
<1> QED
  BY <1>2

\* FlattenSeq puts the pieces together one after another: `joined` holds the first i of them.
Joins(joined, pieces) ==
    \A i \in 1..Len(pieces) : joined[i] = IF i = 1 THEN pieces[i] ELSE joined[i - 1] \o pieces[i]

\* There is one way of doing so.
LEMMA JoinedOnce ==
    ASSUME NEW n \in Nat, NEW pieces, Len(pieces) = n,
           NEW one, NEW other, Joins(one, pieces), Joins(other, pieces)
    PROVE  \A i \in 1..n : one[i] = other[i]
<1> DEFINE Wrong == {i \in 1..n : one[i] # other[i]}
<1>1. SUFFICES ASSUME Wrong # {}
               PROVE  FALSE
  OBVIOUS
<1>2. PICK i \in Wrong : \A k \in Wrong : i <= k
  <2>1. Wrong \in SUBSET Nat
    OBVIOUS
  <2> HIDE DEF Wrong
  <2> QED
    BY <1>1, <2>1, LeastElement
<1>3. i \in 1..n /\ one[i] # other[i]
  BY <1>2
<1>4. CASE i = 1
  BY <1>3, <1>4 DEF Joins
<1>5. CASE i # 1
  <2>1. i - 1 \in 1..n /\ i - 1 \notin Wrong
    BY <1>2, <1>3, <1>5
  <2>2. one[i - 1] = other[i - 1]
    BY <2>1
  <2> QED
    BY <1>3, <1>5, <2>2 DEF Joins
<1> QED
  BY <1>3, <1>4, <1>5

\* There is a way: of a shortest sequence without one, all but the last piece could be joined.
LEMMA JoinedAtAll ==
    ASSUME NEW T, NEW pieces \in Seq(Seq(T))
    PROVE  \E joined \in [1..Len(pieces) -> Seq(T)] : Joins(joined, pieces)
<1> DEFINE Way(m, joined) == \A i \in 1..m : joined[i] = IF i = 1 THEN pieces[i] ELSE joined[i - 1] \o pieces[i]
           Bad == {m \in 0..Len(pieces) : \A joined \in [1..m -> Seq(T)] : ~Way(m, joined)}
<1>1. SUFFICES ASSUME Bad # {}
               PROVE  FALSE
  <2>1. Len(pieces) \in 0..Len(pieces)
    OBVIOUS
  <2>2. \E joined \in [1..Len(pieces) -> Seq(T)] : Way(Len(pieces), joined)
    BY <2>1
  <2> QED
    BY <2>2 DEF Joins
<1>2. Len(pieces) \in Nat /\ \A i \in 1..Len(pieces) : pieces[i] \in Seq(T)
  OBVIOUS
<1>3. PICK m \in Bad : \A k \in Bad : m <= k
  <2>1. Bad \in SUBSET Nat
    BY <1>2
  <2> HIDE DEF Bad
  <2> QED
    BY <1>1, <2>1, LeastElement
<1>4. m \in 0..Len(pieces) /\ \A joined \in [1..m -> Seq(T)] : ~Way(m, joined)
  BY <1>3
<1>5. m # 0
  <2>1. [i \in 1..0 |-> <<>>] \in [1..0 -> Seq(T)] /\ Way(0, [i \in 1..0 |-> <<>>])
    OBVIOUS
  <2> QED
    BY <1>4, <2>1
<1>6. PICK most \in [1..m - 1 -> Seq(T)] : Way(m - 1, most)
  <2>1. m - 1 \in 0..Len(pieces) /\ ~(m <= m - 1)
    BY <1>2, <1>4, <1>5
  <2> QED
    BY <1>3, <2>1
<1> DEFINE all == [i \in 1..m |-> IF i < m THEN most[i]
                                  ELSE IF m = 1 THEN pieces[m] ELSE most[m - 1] \o pieces[m]]
<1>7. all \in [1..m -> Seq(T)]
  <2>1. pieces[m] \in Seq(T) /\ (m # 1 => most[m - 1] \in Seq(T))
    BY <1>2, <1>4, <1>5
  <2>2. m # 1 => most[m - 1] \o pieces[m] \in Seq(T)
    BY <2>1
  <2>3. \A i \in 1..m : i < m => most[i] \in Seq(T)
    BY <1>4
  <2> QED
    BY <2>1, <2>2, <2>3
<1>8. Way(m, all)
  <2> SUFFICES ASSUME NEW i \in 1..m
               PROVE  all[i] = IF i = 1 THEN pieces[i] ELSE all[i - 1] \o pieces[i]
    OBVIOUS
  <2>1. CASE i < m
    <3>1. i \in 1..m - 1 /\ all[i] = most[i] /\ (i # 1 => i - 1 \in 1..m /\ i - 1 < m /\ all[i - 1] = most[i - 1])
      BY <1>4, <2>1
    <3> QED
      BY <1>6, <3>1
  <2>2. CASE i = m
    <3>1. m # 1 => m - 1 \in 1..m /\ m - 1 < m /\ all[m - 1] = most[m - 1]
      BY <1>4, <1>5
    <3> QED
      BY <2>2, <3>1
  <2> QED
    BY <1>4, <2>1, <2>2
<1> QED
  BY <1>4, <1>7, <1>8

\* That way is FlattenSeq.
LEMMA FlattenIs ==
    ASSUME NEW T, NEW pieces \in Seq(Seq(T)), NEW joined \in [1..Len(pieces) -> Seq(T)],
           Joins(joined, pieces)
    PROVE  FlattenSeq(pieces) = IF pieces = <<>> THEN <<>> ELSE joined[Len(pieces)]
<1> DEFINE n == Len(pieces)
           Made(f) == [i \in 1..n |-> IF i = 1 THEN pieces[i] ELSE f[i - 1] \o pieces[i]]
           flat == CHOOSE f : f = Made(f)
<1>1. n \in Nat /\ (pieces = <<>> <=> n = 0)
  OBVIOUS
<1>2. joined = Made(joined)
  <2>1. \A i \in 1..n : joined[i] = Made(joined)[i]
    BY DEF Joins
  <2> QED
    BY <2>1
<1>3. flat = Made(flat)
  <2> HIDE DEF Made
  <2> QED
    BY <1>2
<1>4. Joins(flat, pieces)
  <2>1. \A i \in 1..n : Made(flat)[i] = IF i = 1 THEN pieces[i] ELSE flat[i - 1] \o pieces[i]
    OBVIOUS
  <2> HIDE DEF flat, Made
  <2> QED
    BY <1>3, <2>1 DEF Joins
<1>5. pieces # <<>> => flat[n] = joined[n]
  <2> HIDE DEF flat
  <2>1. \A i \in 1..n : flat[i] = joined[i]
    BY <1>1, <1>4, JoinedOnce
  <2> QED
    BY <1>1, <2>1
<1>6. FlattenSeq(pieces) = IF n = 0 THEN pieces ELSE flat[n]
  BY DEF FlattenSeq
<1> HIDE DEF flat
<1> QED
  BY <1>1, <1>5, <1>6

\* Flattened pieces are a sequence, and one more piece comes after them.
LEMMA FlattenOneMore ==
    ASSUME NEW T, NEW pieces \in Seq(Seq(T)), NEW piece \in Seq(T)
    PROVE  /\ FlattenSeq(pieces) \in Seq(T)
           /\ FlattenSeq(Append(pieces, piece)) = FlattenSeq(pieces) \o piece
<1> DEFINE n == Len(pieces)
           more == Append(pieces, piece)
<1>1. /\ n \in Nat /\ (pieces = <<>> <=> n = 0)
      /\ more \in Seq(Seq(T)) /\ Len(more) = n + 1 /\ more # <<>>
      /\ more[n + 1] = piece /\ \A i \in 1..n : more[i] = pieces[i]
  <2>1. n \in Nat /\ (pieces = <<>> <=> n = 0)
    OBVIOUS
  <2>2. /\ more \in Seq(Seq(T)) /\ more # <<>> /\ Len(more) = n + 1
        /\ more[n + 1] = piece /\ \A i \in 1..n : more[i] = pieces[i]
    <3> DEFINE pieceSet == Seq(T)
    <3> HIDE DEF pieceSet
    <3>1. pieces \in Seq(pieceSet) /\ piece \in pieceSet
      BY DEF pieceSet
    <3>2. /\ more \in Seq(pieceSet) /\ more # <<>> /\ Len(more) = n + 1
          /\ more[n + 1] = piece /\ \A i \in 1..n : more[i] = pieces[i]
      BY <3>1, AppendProperties
    <3> QED
      BY <3>2 DEF pieceSet
  <2> QED
    BY <2>1, <2>2
<1> HIDE DEF more
<1>2. PICK all \in [1..n + 1 -> Seq(T)] : Joins(all, more)
  <2>1. \E joined \in [1..Len(more) -> Seq(T)] : Joins(joined, more)
    BY <1>1, JoinedAtAll
  <2> QED
    BY <1>1, <2>1
<1>3. /\ \A i \in 1..n + 1 : i = 1 => all[i] = more[i]
      /\ \A i \in 1..n + 1 : i # 1 => all[i] = all[i - 1] \o more[i]
  BY <1>1, <1>2 DEF Joins
<1>4. FlattenSeq(more) = all[n + 1]
  <2>1. all \in [1..Len(more) -> Seq(T)]
    BY <1>1
  <2> QED
    BY <1>1, <1>2, <2>1, FlattenIs
<1> DEFINE most == [i \in 1..n |-> all[i]]
<1>5. most \in [1..n -> Seq(T)]
  BY <1>1
<1>6. Joins(most, pieces)
  <2> SUFFICES ASSUME NEW i \in 1..n
               PROVE  most[i] = IF i = 1 THEN pieces[i] ELSE most[i - 1] \o pieces[i]
    BY DEF Joins
  <2>1. i \in 1..n + 1 /\ more[i] = pieces[i] /\ most[i] = all[i]
    BY <1>1
  <2>2. i # 1 => i - 1 \in 1..n /\ most[i - 1] = all[i - 1]
    BY <1>1
  <2> HIDE DEF most
  <2> QED
    BY <1>3, <2>1, <2>2
<1>7. FlattenSeq(pieces) = IF pieces = <<>> THEN <<>> ELSE most[n]
  <2> HIDE DEF most
  <2> QED
    BY <1>5, <1>6, FlattenIs
<1>8. CASE pieces = <<>>
  <2>1. n = 0 /\ FlattenSeq(pieces) = <<>> /\ all[n + 1] = piece
    BY <1>1, <1>3, <1>7, <1>8
  <2> QED
    BY <1>4, <2>1 DEF more
<1>9. CASE pieces # <<>>
  <2>1. n \in 1..n /\ n + 1 # 1 /\ n + 1 \in 1..n + 1
    BY <1>1, <1>9
  <2>2. all[n + 1] = all[n] \o piece
    <3> DEFINE last == n + 1
    <3>1. last \in 1..n + 1 /\ last # 1 /\ last - 1 = n
      BY <1>1, <2>1
    <3> HIDE DEF last
    <3>2. all[last] = all[last - 1] \o more[last]
      BY <1>3, <3>1
    <3>3. all[last] = all[n] \o more[last]
      BY <3>1, <3>2
    <3> QED
      BY <1>1, <3>3 DEF last
  <2>3. FlattenSeq(pieces) = all[n] /\ all[n] \in Seq(T)
    BY <1>1, <1>7, <1>9, <2>1
  <2> QED
    BY <1>4, <2>2, <2>3 DEF more
<1> QED
  BY <1>8, <1>9

-----------------------------------------------------------------------------
(* What the operator types, and what the board prints *)

\* The bytes that a key or a paste can stand for.
Typable == Characters \cup {"^A", "^B", "CR", "ESC", "[", "A"}

\* A key sends nothing, ends the console, or sends bytes (console_action_for_key_event).
LEMMA KeyMeans ==
    ASSUME NEW key \in Keys
    PROVE  KeyAction(key) \in {Ignore, Leave} \/ \E bytes \in Seq(Typable) : KeyAction(key) = Send(bytes)
<1>1. key.code \in Characters \cup {"Enter", "Up", "F1"}
  BY DEF Keys
<1>2. /\ DOMAIN Control = {"a", "b"} /\ Control["a"] = "^A" /\ Control["b"] = "^B"
  BY DEF Control
<1>3. /\ DOMAIN Named = {"Enter", "Up"} /\ Named["Enter"] = <<"CR">> /\ Named["Up"] = <<"ESC", "[", "A">>
  BY DEF Named
<1>4. CASE key.control /\ key.code \in {"c", "d"}
  <2>1. KeyAction(key) = Leave
    BY <1>2, <1>4 DEF KeyAction
  <2> QED
    BY <2>1
<1>5. CASE key.control /\ key.code \in {"a", "b"}
  <2>1. <<Control[key.code]>> \in Seq(Typable)
    BY <1>2, <1>5 DEF Typable
  <2>2. KeyAction(key) = Send(<<Control[key.code]>>)
    BY <1>2, <1>5 DEF KeyAction
  <2> QED
    BY <2>1, <2>2
<1>6. CASE ~key.control /\ key.code \in Characters
  <2>1. <<key.code>> \in Seq(Typable)
    BY <1>6 DEF Typable
  <2>2. KeyAction(key) = Send(<<key.code>>)
    BY <1>3, <1>6 DEF KeyAction, Characters
  <2> QED
    BY <2>1, <2>2
<1>7. CASE ~key.control /\ key.code \in {"Enter", "Up"}
  <2>1. Named[key.code] \in Seq(Typable)
    <3>1. <<"CR">> \in Seq(Typable) /\ <<"ESC", "[", "A">> \in Seq(Typable)
      BY DEF Typable
    <3> QED
      BY <1>3, <1>7, <3>1
  <2>2. KeyAction(key) = Send(Named[key.code])
    BY <1>3, <1>7 DEF KeyAction, Characters
  <2> QED
    BY <2>1, <2>2
<1>8. CASE (key.control /\ key.code \in {"Enter", "Up"}) \/ key.code = "F1"
  BY <1>2, <1>3, <1>8 DEF KeyAction, Characters
<1> QED
  BY <1>1, <1>4, <1>5, <1>6, <1>7, <1>8 DEF Characters

\* A key that is let go is ignored like any event that stands for nothing, so that an event means
\* what the relay makes of it: bytes for the board, the end, or nothing.
LEMMA EventMeans ==
    ASSUME NEW event \in TerminalEvents
    PROVE  /\ Meant(event) = ConsoleAction(event)
           /\ ConsoleAction(event).action \in {"Ignore", "Exit", "Send"}
           /\ ConsoleAction(event) = Leave <=> ConsoleAction(event).action = "Exit"
           /\ ConsoleAction(event).action = "Send" => BytesOf(event) = ConsoleAction(event).bytes
           /\ ConsoleAction(event).action # "Send" => BytesOf(event) = <<>>
           /\ BytesOf(event) \in Seq(Typable)
<1> DEFINE act == ConsoleAction(event)
<1>1. \/ event \in Keys /\ event.kind \in {"Press", "Repeat", "Release"}
      \/ event.kind = "Paste" /\ event.contents \in Seq(Characters)
      \/ event.kind = "Resize"
  BY ConsoleAssumption DEF Keys, Pastes, Resize
<1>2. Meant(event) = act
  BY <1>1 DEF Meant, ConsoleAction
<1>3. act \in {Ignore, Leave} \/ \E bytes \in Seq(Typable) : act = Send(bytes)
  <2>1. CASE event \in Keys /\ event.kind \in {"Press", "Repeat", "Release"}
    BY <2>1, KeyMeans DEF ConsoleAction
  <2>2. CASE event.kind = "Paste" /\ event.contents \in Seq(Characters)
    <3>1. event.contents \in Seq(Typable)
      BY <2>2 DEF Typable
    <3> QED
      BY <2>2, <3>1 DEF ConsoleAction
  <2>3. CASE event.kind = "Resize"
    BY <2>3 DEF ConsoleAction
  <2> QED
    BY <1>1, <2>1, <2>2, <2>3
<1> HIDE DEF act
<1>4. CASE act \in {Ignore, Leave}
  <2>1. act.action \in {"Ignore", "Exit"} /\ (act = Leave <=> act.action = "Exit")
    BY <1>4 DEF Ignore, Leave
  <2>2. BytesOf(event) = <<>> /\ <<>> \in Seq(Typable)
    BY <1>2, <2>1 DEF BytesOf
  <2> QED
    BY <1>2, <2>1, <2>2 DEF act
<1>5. CASE \E bytes \in Seq(Typable) : act = Send(bytes)
  <2>1. PICK bytes \in Seq(Typable) : act = Send(bytes)
    BY <1>5
  <2>2. act.action = "Send" /\ act.bytes = bytes /\ act # Leave
    BY <2>1 DEF Send, Leave
  <2>3. BytesOf(event) = bytes
    BY <1>2, <2>2 DEF BytesOf
  <2> QED
    BY <1>2, <2>2, <2>3 DEF act
<1> QED
  BY <1>3, <1>4, <1>5

\* What was typed and taken is a sequence, and one more event adds what it stands for.
LEMMA KeyedGrows ==
    ASSUME NEW events \in Seq(TerminalEvents), NEW n \in 0..Len(events)
    PROVE  /\ FlattenSeq([i \in 1..n |-> BytesOf(events[i])]) \in Seq(Typable)
           /\ n < Len(events) =>
                 FlattenSeq([i \in 1..n + 1 |-> BytesOf(events[i])])
                    = FlattenSeq([i \in 1..n |-> BytesOf(events[i])]) \o BytesOf(events[n + 1])
<1> DEFINE pieces == [i \in 1..n |-> BytesOf(events[i])]
           more == [i \in 1..n + 1 |-> BytesOf(events[i])]
<1>1. Len(events) \in Nat /\ \A i \in 1..Len(events) : events[i] \in TerminalEvents
  OBVIOUS
<1>2. \A i \in 1..Len(events) : BytesOf(events[i]) \in Seq(Typable)
  BY <1>1, EventMeans
<1>3. pieces \in Seq(Seq(Typable)) /\ Len(pieces) = n
  BY <1>1, <1>2
<1>4. FlattenSeq(pieces) \in Seq(Typable)
  <2>1. <<>> \in Seq(Typable)
    OBVIOUS
  <2> HIDE DEF pieces
  <2> QED
    BY <1>3, <2>1, FlattenOneMore
<1>5. ASSUME n < Len(events)
      PROVE  FlattenSeq(more) = FlattenSeq(pieces) \o BytesOf(events[n + 1])
  <2> DEFINE piece == BytesOf(events[n + 1])
  <2>1. piece \in Seq(Typable)
    BY <1>1, <1>2, <1>5
  <2>2. more \in Seq(Seq(Typable)) /\ Len(more) = n + 1
    BY <1>1, <1>2, <1>5
  <2>3. more[n + 1] = piece /\ \A i \in 1..n : more[i] = pieces[i]
    BY <1>1
  <2> HIDE DEF piece, pieces, more
  <2>4. Append(pieces, piece) = more
    <3> DEFINE P == Seq(Typable)
    <3>1. pieces \in Seq(P) /\ piece \in P /\ more \in Seq(P)
      BY <1>3, <2>1, <2>2
    <3> HIDE DEF P
    <3>2. /\ Append(pieces, piece) \in Seq(P) /\ Len(Append(pieces, piece)) = n + 1
          /\ \A i \in 1..n : Append(pieces, piece)[i] = pieces[i]
          /\ Append(pieces, piece)[n + 1] = piece
      BY <1>3, <3>1, AppendProperties
    <3>3. \A i \in 1..n + 1 : Append(pieces, piece)[i] = more[i]
      BY <2>3, <3>2
    <3> QED
      BY <2>2, <3>1, <3>2, <3>3, SeqEqual
  <2>5. FlattenSeq(Append(pieces, piece)) = FlattenSeq(pieces) \o piece
    BY <1>3, <2>1, FlattenOneMore
  <2> QED
    BY <2>4, <2>5 DEF piece
<1> QED
  BY <1>4, <1>5

\* The tracked bytes of a piece that starts with k of them.
LEMMA TracedIs ==
    ASSUME NEW bytes \in Seq(Nat), NEW k \in 0..Len(bytes),
           \A i \in 1..Len(bytes) : bytes[i] # NOISE <=> i <= k
    PROVE  /\ Cardinality({i \in DOMAIN bytes : bytes[i] # NOISE}) = k
           /\ Traced(bytes) \in Seq(Nat) /\ Len(Traced(bytes)) = k
           /\ \A i \in 1..k : Traced(bytes)[i] = bytes[i]
<1>1. Len(bytes) \in Nat /\ DOMAIN bytes = 1..Len(bytes)
  OBVIOUS
<1>2. {i \in DOMAIN bytes : bytes[i] # NOISE} = 1..k
  BY <1>1
<1>3. Cardinality(1..k) = k
  BY FS_Interval
<1>4. Traced(bytes) = SubSeq(bytes, 1, k)
  BY <1>2, <1>3 DEF Traced
<1>5. /\ SubSeq(bytes, 1, k) \in Seq(Nat) /\ Len(SubSeq(bytes, 1, k)) = k
      /\ \A i \in 1..k : SubSeq(bytes, 1, k)[i] = bytes[i]
  BY <1>1
<1>6. Cardinality({i \in DOMAIN bytes : bytes[i] # NOISE}) = k
  BY <1>2, <1>3
<1> QED
  BY <1>4, <1>5, <1>6

\* In any case they are a sequence of bytes.
LEMMA TracedType ==
    ASSUME NEW bytes \in Seq(Nat)
    PROVE  Traced(bytes) \in Seq(Nat)
<1> DEFINE Heard == {i \in DOMAIN bytes : bytes[i] # NOISE}
<1>1. Len(bytes) \in Nat /\ DOMAIN bytes = 1..Len(bytes)
  OBVIOUS
<1>2. IsFiniteSet(1..Len(bytes)) /\ Cardinality(1..Len(bytes)) = Len(bytes)
  BY <1>1, FS_Interval
<1>3. Cardinality(Heard) \in Nat /\ Cardinality(Heard) <= Len(bytes)
  <2>1. Heard \subseteq 1..Len(bytes)
    BY <1>1
  <2>2. IsFiniteSet(Heard) /\ Cardinality(Heard) <= Cardinality(1..Len(bytes))
    BY <1>2, <2>1, FS_Subset
  <2> QED
    BY <1>2, <2>2, FS_CardinalityType
<1>4. SubSeq(bytes, 1, Cardinality(Heard)) \in Seq(Nat)
  <2> HIDE DEF Heard
  <2> QED
    BY <1>1, <1>3
<1> QED
  BY <1>4 DEF Traced

\* What crosses the port: a byte of the board, or one for it.
Exchanged == ({"rx"} \X Nat) \cup ({"tx"} \X Typable)

LEMMA TaggedRx ==
    ASSUME NEW bytes \in Seq(Nat)
    PROVE  /\ Tagged(Rx, bytes) \in Seq(Exchanged) /\ Len(Tagged(Rx, bytes)) = Len(bytes)
           /\ \A i \in 1..Len(bytes) : Tagged(Rx, bytes)[i] = Rx(bytes[i])
<1>1. Len(bytes) \in Nat /\ DOMAIN bytes = 1..Len(bytes)
  OBVIOUS
<1>2. \A i \in 1..Len(bytes) : Rx(bytes[i]) \in Exchanged
  BY DEF Rx, Exchanged
<1>3. Tagged(Rx, bytes) = [i \in 1..Len(bytes) |-> Rx(bytes[i])]
  BY <1>1 DEF Tagged
<1> QED
  BY <1>1, <1>2, <1>3

LEMMA TaggedTx ==
    ASSUME NEW bytes \in Seq(Typable)
    PROVE  Tagged(Tx, bytes) \in Seq(Exchanged)
<1>1. Len(bytes) \in Nat /\ DOMAIN bytes = 1..Len(bytes)
  OBVIOUS
<1>2. \A i \in 1..Len(bytes) : Tx(bytes[i]) \in Exchanged
  BY DEF Tx, Exchanged
<1>3. Tagged(Tx, bytes) = [i \in 1..Len(bytes) |-> Tx(bytes[i])]
  BY <1>1 DEF Tagged
<1> QED
  BY <1>1, <1>2, <1>3

-----------------------------------------------------------------------------
(* The transcript *)

\* What the file takes and what the buffer keeps are what they had and what was offered.
LEMMA TakenKeepsAll ==
    ASSUME file \in Seq(Exchanged), NEW offered \in Seq(Exchanged), NEW n \in 0..Len(offered),
           Taken(offered, n)
    PROVE  /\ file' \in Seq(Exchanged) /\ buffer' \in Seq(Exchanged)
           /\ file' \o buffer' = file \o offered
           /\ IsPrefix(file, file')
<1>1. Len(offered) \in Nat
  OBVIOUS
<1> DEFINE first == SubSeq(offered, 1, n)
           rest == SubSeq(offered, n + 1, Len(offered))
<1>2. first \in Seq(Exchanged) /\ rest \in Seq(Exchanged)
  BY <1>1
<1>3. first \o rest = offered
  <2>1. 1 \in 1..Len(offered) + 1 /\ n \in 1 - 1..Len(offered) /\ Len(offered) \in n..Len(offered)
    BY <1>1
  <2>2. first \o rest = SubSeq(offered, 1, Len(offered))
    BY <2>1, ConcatAdjacentSubSeq
  <2> QED
    BY <2>2, SubSeqFull
<1>4. file' = file \o first /\ buffer' = rest
  BY DEF Taken
<1> HIDE DEF first, rest
<1>5. file' \o buffer' = file \o offered
  <2>1. (file \o first) \o rest = file \o (first \o rest)
    BY <1>2, ConcatAssociative
  <2> QED
    BY <1>3, <1>4, <2>1
<1>6. IsPrefix(file, file)
  BY PrefixIs
<1>7. IsPrefix(file, file \o first)
  BY <1>2, <1>6, PrefixOfLonger
<1> QED
  BY <1>2, <1>4, <1>5, <1>7

\* record_transcript: bytes that are recorded are in the file, after all that was there or waited ...
LEMMA RecordedKeepsAll ==
    ASSUME file \in Seq(Exchanged), buffer \in Seq(Exchanged), NEW bytes \in Seq(Exchanged),
           Recorded(bytes)
    PROVE  /\ file' \in Seq(Exchanged) /\ buffer' = <<>>
           /\ file' = (file \o buffer) \o bytes
           /\ IsPrefix(file, file')
<1> DEFINE offered == buffer \o bytes
<1>1. offered \in Seq(Exchanged) /\ Len(offered) \in Nat
  OBVIOUS
<1>2. Taken(offered, Len(offered))
  BY DEF Recorded
<1>3. file \o offered = (file \o buffer) \o bytes
  BY ConcatAssociative
<1> HIDE DEF offered
<1>4. buffer' = <<>>
  BY <1>1, <1>2 DEF Taken
<1>5. Len(offered) \in 0..Len(offered)
  BY <1>1
<1>6. /\ file' \in Seq(Exchanged) /\ file' \o buffer' = file \o offered /\ IsPrefix(file, file')
  BY <1>1, <1>2, <1>5, TakenKeepsAll
<1>7. file' \o buffer' = file'
  BY <1>4, <1>6, ConcatEmptySeq
<1> QED
  BY <1>3, <1>4, <1>6, <1>7

\* ... and when recording fails the file has a part of them and the buffer the rest.
LEMMA RecordFailsKeepsAll ==
    ASSUME file \in Seq(Exchanged), buffer \in Seq(Exchanged), NEW bytes \in Seq(Exchanged),
           RecordFails(bytes)
    PROVE  /\ file' \in Seq(Exchanged) /\ buffer' \in Seq(Exchanged)
           /\ file' \o buffer' = (file \o buffer) \o bytes
           /\ IsPrefix(file, file')
<1> DEFINE offered == buffer \o bytes
<1>1. offered \in Seq(Exchanged) /\ Len(offered) \in Nat
  OBVIOUS
<1>2. PICK n \in 0..Len(offered) : Taken(offered, n)
  BY DEF RecordFails
<1>3. file \o offered = (file \o buffer) \o bytes
  BY ConcatAssociative
<1> HIDE DEF offered
<1> QED
  BY <1>1, <1>2, <1>3, TakenKeepsAll

\* Either way nothing is dropped or put out of order.
LEMMA RecordingKeepsAll ==
    ASSUME file \in Seq(Exchanged), buffer \in Seq(Exchanged), NEW bytes \in Seq(Exchanged),
           Recorded(bytes) \/ RecordFails(bytes)
    PROVE  /\ file' \in Seq(Exchanged) /\ buffer' \in Seq(Exchanged)
           /\ file' \o buffer' = (file \o buffer) \o bytes
           /\ IsPrefix(file, file')
<1>1. CASE Recorded(bytes)
  <2>1. /\ file' \in Seq(Exchanged) /\ buffer' = <<>>
        /\ file' = (file \o buffer) \o bytes
        /\ IsPrefix(file, file')
    BY <1>1, RecordedKeepsAll
  <2>2. file' \o buffer' = file' /\ buffer' \in Seq(Exchanged)
    BY <2>1
  <2> QED
    BY <2>1, <2>2
<1>2. CASE RecordFails(bytes)
  BY <1>2, RecordFailsKeepsAll
<1> QED
  BY <1>1, <1>2

\* The transport is dropped: the file takes a part of what the buffer has.
LEMMA DroppedKeepsOrder ==
    ASSUME file \in Seq(Exchanged), buffer \in Seq(Exchanged), Dropped
    PROVE  /\ file' \in Seq(Exchanged) /\ buffer' = <<>>
           /\ IsPrefix(file', file \o buffer) /\ IsPrefix(file, file')
<1>1. PICK n \in 0..Len(buffer) : file' = file \o SubSeq(buffer, 1, n)
  BY DEF Dropped
<1> DEFINE first == SubSeq(buffer, 1, n)
<1>2. first \in Seq(Exchanged) /\ IsPrefix(first, buffer)
  BY PrefixOfWhole
<1> HIDE DEF first
<1>3. file' = file \o first
  BY <1>1 DEF first
<1>4. IsPrefix(file \o first, file \o buffer)
  BY <1>2, PrefixAfter
<1>5. IsPrefix(file, file)
  BY PrefixIs
<1>6. IsPrefix(file, file \o first)
  BY <1>2, <1>5, PrefixOfLonger
<1>7. file \o first \in Seq(Exchanged) /\ buffer' = <<>>
  BY <1>2 DEF Dropped
<1> QED
  BY <1>3, <1>4, <1>6, <1>7

-----------------------------------------------------------------------------
(* The inductive invariant *)

Phases == {"banner", "raw", "timeout", "poll", "read", "show", "footer", "ended"}

TypeInv ==
    /\ phase \in Phases /\ raw \in BOOLEAN
    /\ typed \in Seq(TerminalEvents) /\ taken \in 0..Len(typed)
    /\ toHost \in Seq(Nat) /\ printed \in 0..MaxTracked
    /\ atBoard \in Seq(Typable)
    /\ read \in Seq(Nat) /\ screen \in Seq(Nat)
    /\ lost \in BOOLEAN /\ stdoutOpen \in BOOLEAN /\ portOpen \in BOOLEAN
    /\ result \in {"running", "killed", "ok", "Io", "Serial"}
    /\ phase = "ended" <=> result # "running"
    /\ crossed \in Seq(Exchanged) /\ buffer \in Seq(Exchanged) /\ file \in Seq(Exchanged)

\* While the relay runs, the board has got all that was taken, and nobody has told it to leave.
KeysInv ==
    /\ phase \in {"banner", "raw", "timeout"} => taken = 0
    /\ result = "running" => atBoard = Keyed
    /\ IsPrefix(atBoard, Keyed)
    /\ \A i \in 1..taken : Meant(typed[i]) = Leave => i = taken /\ phase \in {"footer", "ended"}

\* The port holds the last tracked bytes that were printed, and the NOISE after them; all that was
\* printed before those has been read.
Unread == Cardinality({i \in DOMAIN toHost : toHost[i] # NOISE})
PortInv ==
    /\ Unread \in 0..Len(toHost) /\ Unread <= printed
    /\ \A i \in 1..Unread : toHost[i] = printed - Unread + i
    /\ \A i \in Unread + 1..Len(toHost) : toHost[i] = NOISE
    /\ Unread < Len(toHost) => printed = MaxTracked

\* The screen and what is on its way there are in order, and without a loss all that was read.
Shown == IF phase = "show" THEN screen \o read ELSE screen
ScreenInv ==
    /\ \A i \in 1..Len(Shown) : Shown[i] \in 1..printed - Unread
    /\ \A i, j \in 1..Len(Shown) : i < j => Shown[i] < Shown[j]
    /\ ~lost => \A i \in 1..Len(Shown) : Shown[i] = i
    /\ ~lost /\ result = "running" => Len(Shown) = printed - Unread

\* File and buffer hold what crossed the port as long as the relay runs, and then the first of it;
\* until something fails nothing waits in the buffer.
TranscriptInv ==
    /\ IsPrefix(file \o buffer, crossed)
    /\ result = "running" => file \o buffer = crossed
    /\ result \in {"running", "ok"} /\ ~lost => buffer = <<>> /\ file = crossed
    /\ \A i \in 1..Len(Shown) : \E k \in 1..Len(file) : file[k] = Rx(Shown[i])

-----------------------------------------------------------------------------
(* Types *)

LEMMA TypeStep ==
    ASSUME TypeInv, [Next]_vars
    PROVE  TypeInv'
<1> USE DEF TypeInv, Phases, terminalVars, boardVars, transcript
<1>1. CASE Banner
  BY <1>1 DEF Banner, End
<1>2. CASE EnableRawMode
  BY <1>2 DEF EnableRawMode, End
<1>3. CASE SetTimeout
  BY <1>3 DEF SetTimeout, End
<1>4. CASE PollNothing
  BY <1>4 DEF PollNothing, End
<1>5. CASE TakeEvent
  <2> DEFINE act == ConsoleAction(typed[taken + 1])
  <2>1. /\ taken < Len(typed) /\ taken' = taken + 1 /\ phase = "poll" /\ result = "running"
        /\ UNCHANGED <<terminalVars, boardVars, toHost, read, screen, lost>>
    BY <1>5 DEF TakeEvent
  <2>2. taken' \in 0..Len(typed') /\ typed[taken + 1] \in TerminalEvents
    BY <2>1
  <2>3. CASE act.action # "Send"
    BY <1>5, <2>1, <2>2, <2>3 DEF TakeEvent
  <2>4. CASE act.action = "Send"
    <3> DEFINE bytes == act.bytes
    <3>1. bytes \in Seq(Typable)
      BY <2>2, <2>4, EventMeans
    <3>2. Written(bytes) \/ WriteFails(bytes)
      BY <1>5, <2>4 DEF TakeEvent
    <3> HIDE DEF bytes, act
    <3>3. CASE Written(bytes)
      <4>1. Tagged(Tx, bytes) \in Seq(Exchanged)
        BY <3>1, TaggedTx
      <4> DEFINE tagged == Tagged(Tx, bytes)
      <4>2. /\ atBoard' = atBoard \o bytes /\ crossed' = crossed \o tagged
            /\ \/ Recorded(tagged) /\ phase' = "read" /\ UNCHANGED <<raw, result>>
               \/ RecordFails(tagged) /\ (End("Serial") \/ Kill)
        BY <3>3 DEF Written
      <4> HIDE DEF tagged
      <4>3. tagged \in Seq(Exchanged)
        BY <4>1 DEF tagged
      <4>4. file' \in Seq(Exchanged) /\ buffer' \in Seq(Exchanged)
        <5>1. Recorded(tagged) \/ RecordFails(tagged)
          BY <4>2
        <5> QED
          BY <4>3, <5>1, RecordingKeepsAll
      <4>5. atBoard' \in Seq(Typable) /\ crossed' \in Seq(Exchanged)
        BY <3>1, <4>2, <4>3
      <4>6. /\ phase' \in Phases /\ raw' \in BOOLEAN /\ result' \in {"running", "killed", "Serial"}
            /\ phase' = "ended" <=> result' # "running"
        BY <2>1, <4>2 DEF End, Kill
      <4> QED
        BY <2>1, <2>2, <4>4, <4>5, <4>6
    <3>4. CASE WriteFails(bytes)
      <4>1. PICK n \in 0..Len(bytes) : /\ atBoard' = atBoard \o SubSeq(bytes, 1, n)
                                       /\ crossed' = crossed \o Tagged(Tx, SubSeq(bytes, 1, n))
        BY <3>4 DEF WriteFails
      <4>2. SubSeq(bytes, 1, n) \in Seq(Typable)
        BY <3>1, PrefixOfWhole
      <4>3. Tagged(Tx, SubSeq(bytes, 1, n)) \in Seq(Exchanged)
        BY <4>2, TaggedTx
      <4>4. atBoard' \in Seq(Typable) /\ crossed' \in Seq(Exchanged)
        BY <4>1, <4>2, <4>3
      <4>5. /\ phase' = "ended" /\ raw' \in BOOLEAN /\ result' \in {"killed", "Serial"}
            /\ UNCHANGED transcript
        BY <3>4 DEF WriteFails, End, Kill
      <4> QED
        BY <2>1, <2>2, <4>4, <4>5
    <3> QED
      BY <3>2, <3>3, <3>4
  <2> QED
    BY <2>3, <2>4
<1>6. CASE ReadPort
  <2>1. PICK n \in 1..Len(toHost) :
           LET bytes == Traced(SubSeq(toHost, 1, n))
           IN  /\ toHost' = SubSeq(toHost, n + 1, Len(toHost))
               /\ crossed' = crossed \o Tagged(Rx, bytes)
               /\ \/ /\ Recorded(Tagged(Rx, bytes))
                     /\ read' = bytes /\ phase' = "show"
                     /\ UNCHANGED <<raw, result, lost>>
                  \/ /\ RecordFails(Tagged(Rx, bytes))
                     /\ End("Serial") \/ Kill
                     /\ UNCHANGED <<read, lost>>
                  \/ /\ RecordFails(Tagged(Rx, bytes))
                     /\ lost' = TRUE /\ phase' = "poll"
                     /\ UNCHANGED <<raw, result, read>>
    BY <1>6 DEF ReadPort
  <2> DEFINE bytes == Traced(SubSeq(toHost, 1, n))
             tagged == Tagged(Rx, bytes)
  <2>2. bytes \in Seq(Nat) /\ toHost' \in Seq(Nat)
    <3>1. n \in 0..Len(toHost) /\ Len(toHost) \in Nat /\ toHost' = SubSeq(toHost, n + 1, Len(toHost))
      BY <2>1
    <3>2. SubSeq(toHost, 1, n) \in Seq(Nat)
      BY <3>1, PrefixOfWhole
    <3>3. SubSeq(toHost, n + 1, Len(toHost)) \in Seq(Nat)
      BY <3>1, RestOfWhole
    <3> QED
      BY <3>1, <3>2, <3>3, TracedType
  <2>3. tagged \in Seq(Exchanged)
    BY <2>2, TaggedRx
  <2>4. /\ crossed' = crossed \o tagged
        /\ \/ /\ Recorded(tagged)
              /\ read' = bytes /\ phase' = "show"
              /\ UNCHANGED <<raw, result, lost>>
           \/ /\ RecordFails(tagged)
              /\ End("Serial") \/ Kill
              /\ UNCHANGED <<read, lost>>
           \/ /\ RecordFails(tagged)
              /\ lost' = TRUE /\ phase' = "poll"
              /\ UNCHANGED <<raw, result, read>>
    BY <2>1
  <2> HIDE DEF bytes, tagged
  <2>5. file' \in Seq(Exchanged) /\ buffer' \in Seq(Exchanged) /\ crossed' \in Seq(Exchanged)
    <3>1. Recorded(tagged) \/ RecordFails(tagged)
      BY <2>4
    <3>2. file' \in Seq(Exchanged) /\ buffer' \in Seq(Exchanged)
      BY <2>3, <3>1, RecordingKeepsAll
    <3>3. crossed \o tagged \in Seq(Exchanged)
      BY <2>3
    <3> QED
      BY <2>4, <3>2, <3>3
  <2>6. /\ UNCHANGED <<terminalVars, boardVars, taken, atBoard, screen>>
        /\ phase = "read" /\ result = "running"
    BY <1>6 DEF ReadPort
  <2>7. /\ phase' \in Phases /\ raw' \in BOOLEAN /\ result' \in {"running", "killed", "Serial"}
        /\ read' \in Seq(Nat) /\ lost' \in BOOLEAN
        /\ phase' = "ended" <=> result' # "running"
    BY <2>2, <2>4, <2>6 DEF End, Kill
  <2> QED
    BY <2>2, <2>5, <2>6, <2>7
<1>7. CASE ReadNothing
  BY <1>7 DEF ReadNothing, End
<1>8. CASE Show
  BY <1>8 DEF Show
<1>9. CASE ShowFails
  <2>1. PICK n \in 0..Len(read) : screen' = screen \o SubSeq(read, 1, n)
    BY <1>9 DEF ShowFails
  <2>2. SubSeq(read, 1, n) \in Seq(Nat)
    BY PrefixOfWhole
  <2>3. screen' \in Seq(Nat)
    BY <2>1, <2>2
  <2> QED
    BY <1>9, <2>3 DEF ShowFails, End
<1>10. CASE Footer
  BY <1>10 DEF Footer, End
<1>11. CASE DropTransport
  <2>1. file' \in Seq(Exchanged) /\ buffer' \in Seq(Exchanged)
    BY <1>11, DroppedKeepsOrder DEF DropTransport
  <2> QED
    BY <1>11, <2>1 DEF DropTransport
<1>12. CASE Type
  <2>1. PICK event \in TerminalEvents : typed' = Append(typed, event)
    BY <1>12 DEF Type
  <2>2. typed' \in Seq(TerminalEvents) /\ taken \in 0..Len(typed')
    BY <2>1
  <2> QED
    BY <1>12, <2>2 DEF Type
<1>13. CASE StdoutCloses
  BY <1>13 DEF StdoutCloses
<1>14. CASE Killed
  BY <1>14 DEF Killed, Kill
<1>15. CASE BoardPrints
  <2>1. /\ IF printed < MaxTracked
           THEN toHost' = Append(toHost, printed + 1) /\ printed' = printed + 1
           ELSE toHost' = Append(toHost, NOISE) /\ UNCHANGED printed
        /\ UNCHANGED <<portOpen, transcript, terminalVars, phase, raw, taken, atBoard, crossed, read,
                       screen, lost, result>>
    BY <1>15 DEF BoardPrints
  <2>2. printed \in Nat /\ printed + 1 \in Nat /\ NOISE \in Nat /\ MaxTracked \in Nat
    BY ConsoleAssumption DEF NOISE
  <2>3. Append(toHost, printed + 1) \in Seq(Nat) /\ Append(toHost, NOISE) \in Seq(Nat)
    BY <2>2
  <2>4. toHost' \in Seq(Nat)
    BY <2>1, <2>3
  <2>5. printed' \in 0..MaxTracked
    BY <2>1, <2>2
  <2> QED
    BY <2>1, <2>4, <2>5
<1>16. CASE PortCloses
  BY <1>16 DEF PortCloses
<1>17. CASE UNCHANGED vars
  BY <1>17 DEF vars
<1> QED
  BY <1>1, <1>2, <1>3, <1>4, <1>5, <1>6, <1>7, <1>8, <1>9, <1>10, <1>11, <1>12, <1>13, <1>14, <1>15,
     <1>16, <1>17 DEF Next, Relay, Environment

-----------------------------------------------------------------------------
(* The keys *)

Early == {"banner", "raw", "timeout"}
Late == {"footer", "ended"}

\* A step that takes no event and gives the board nothing.
LEMMA KeysKept ==
    ASSUME TypeInv, KeysInv, taken' = taken, atBoard' = atBoard,
           \A i \in 1..taken : typed'[i] = typed[i],
           result' = "running" => result = "running",
           phase' \in Early => phase \in Early, phase \in Late => phase' \in Late
    PROVE  KeysInv'
<1>1. Keyed' = Keyed
  <2>1. \A i \in 1..taken : BytesOf(typed'[i]) = BytesOf(typed[i])
    OBVIOUS
  <2>2. [i \in 1..taken' |-> BytesOf(typed'[i])] = [i \in 1..taken |-> BytesOf(typed[i])]
    BY <2>1
  <2> QED
    BY <2>2 DEF Keyed
<1>2. \A i \in 1..taken : Meant(typed'[i]) = Meant(typed[i])
  OBVIOUS
<1> QED
  BY <1>1, <1>2 DEF KeysInv, Early, Late

LEMMA KeysStep ==
    ASSUME TypeInv, KeysInv, [Next]_vars
    PROVE  KeysInv'
<1> USE DEF terminalVars, boardVars, Early, Late
<1> DEFINE Quiet == /\ taken' = taken /\ atBoard' = atBoard /\ typed' = typed
                    /\ result' = "running" => result = "running"
                    /\ phase' \in Early => phase \in Early
                    /\ phase \in Late => phase' \in Late
<1>0. ASSUME Quiet
      PROVE  KeysInv'
  BY <1>0, KeysKept
<1>1. CASE Banner
  <2>1. Quiet
    BY <1>1 DEF Banner, End
  <2> QED
    BY <1>0, <2>1
<1>2. CASE EnableRawMode
  <2>1. Quiet
    BY <1>2 DEF EnableRawMode, End
  <2> QED
    BY <1>0, <2>1
<1>3. CASE SetTimeout
  <2>1. Quiet
    BY <1>3 DEF SetTimeout, End
  <2> QED
    BY <1>0, <2>1
<1>4. CASE PollNothing
  <2>1. Quiet
    BY <1>4 DEF PollNothing, End
  <2> QED
    BY <1>0, <2>1
<1>5. CASE TakeEvent
  <2> DEFINE event == typed[taken + 1]
             act == ConsoleAction(event)
  <2>1. /\ taken < Len(typed) /\ taken' = taken + 1 /\ typed' = typed
        /\ phase = "poll" /\ result = "running"
    BY <1>5 DEF TakeEvent, TypeInv
  <2>2. /\ typed \in Seq(TerminalEvents) /\ taken \in 0..Len(typed) /\ Len(typed) \in Nat
        /\ event \in TerminalEvents /\ atBoard \in Seq(Typable)
    BY <2>1 DEF TypeInv
  <2>3. Keyed \in Seq(Typable) /\ Keyed' = Keyed \o BytesOf(event) /\ BytesOf(event) \in Seq(Typable)
    <3>1. Keyed \in Seq(Typable)
      BY <2>2, KeyedGrows DEF Keyed
    <3>2. FlattenSeq([i \in 1..taken + 1 |-> BytesOf(typed[i])])
             = FlattenSeq([i \in 1..taken |-> BytesOf(typed[i])]) \o BytesOf(event)
      BY <2>1, <2>2, KeyedGrows
    <3>3. Keyed' = FlattenSeq([i \in 1..taken + 1 |-> BytesOf(typed[i])])
      BY <2>1 DEF Keyed
    <3>4. BytesOf(event) \in Seq(Typable)
      BY <2>2, EventMeans
    <3> QED
      BY <3>1, <3>2, <3>3, <3>4 DEF Keyed
  <2>4. atBoard = Keyed /\ \A i \in 1..taken : Meant(typed[i]) # Leave
    BY <2>1 DEF KeysInv
  <2>5. (Meant(event) = Leave <=> act.action = "Exit") /\ act.action \in {"Ignore", "Exit", "Send"}
    BY <2>2, EventMeans
  <2> HIDE DEF event, act
  <2>6. ASSUME Meant(event) # Leave \/ phase' = "footer"
        PROVE  \A i \in 1..taken' : Meant(typed'[i]) = Leave => i = taken' /\ phase' \in Late
    <3>1. \A i \in 1..taken + 1 : i \in 1..taken \/ i = taken + 1
      BY <2>2
    <3> QED
      BY <2>1, <2>2, <2>4, <2>6, <3>1 DEF event
  <2>7. CASE act.action # "Send"
    <3>1. /\ UNCHANGED <<result, atBoard>>
          /\ phase' = IF act.action = "Exit" THEN "footer" ELSE "read"
      BY <1>5, <2>5, <2>7 DEF TakeEvent, act, event
    <3>2. BytesOf(event) = <<>>
      BY <2>2, <2>7, EventMeans DEF act
    <3>3. Keyed' = Keyed
      BY <2>3, <3>2
    <3>4. IsPrefix(atBoard, Keyed)
      BY <2>2, <2>4, PrefixIs
    <3> QED
      BY <2>4, <2>5, <2>6, <3>1, <3>3, <3>4 DEF KeysInv
  <2>8. CASE act.action = "Send"
    <3>1. Written(BytesOf(event)) \/ WriteFails(BytesOf(event))
      <4>1. BytesOf(event) = act.bytes
        BY <2>2, <2>8, EventMeans DEF act
      <4> QED
        BY <1>5, <2>8, <4>1 DEF TakeEvent, act, event
    <3>2. CASE Written(BytesOf(event))
      <4>1. atBoard' = atBoard \o BytesOf(event) /\ phase' \in {"read", "ended"}
        BY <3>2 DEF Written, End, Kill
      <4>2. atBoard' = Keyed'
        BY <2>3, <2>4, <4>1
      <4>3. Keyed' \in Seq(Typable)
        BY <2>3
      <4>4. IsPrefix(atBoard', Keyed')
        BY <4>2, <4>3, PrefixIs
      <4> QED
        BY <2>5, <2>6, <2>8, <4>1, <4>2, <4>4 DEF KeysInv
    <3>3. CASE WriteFails(BytesOf(event))
      <4>1. PICK n \in 0..Len(BytesOf(event)) : atBoard' = atBoard \o SubSeq(BytesOf(event), 1, n)
        BY <3>3 DEF WriteFails
      <4>2. phase' = "ended" /\ result' # "running"
        BY <3>3 DEF WriteFails, End, Kill
      <4> DEFINE sent == SubSeq(BytesOf(event), 1, n)
      <4>3. sent \in Seq(Typable) /\ IsPrefix(sent, BytesOf(event))
        BY <2>3, PrefixOfWhole
      <4> HIDE DEF sent
      <4>4. IsPrefix(Keyed \o sent, Keyed \o BytesOf(event))
        BY <2>3, <4>3, PrefixAfter
      <4>5. IsPrefix(atBoard', Keyed')
        BY <2>3, <2>4, <4>1, <4>4 DEF sent
      <4> QED
        BY <2>5, <2>6, <2>8, <4>2, <4>5 DEF KeysInv
    <3> QED
      BY <3>1, <3>2, <3>3
  <2> QED
    BY <2>7, <2>8
<1>6. CASE ReadPort
  <2>1. Quiet
    BY <1>6 DEF ReadPort, End, Kill
  <2> QED
    BY <1>0, <2>1
<1>7. CASE ReadNothing
  <2>1. Quiet
    BY <1>7 DEF ReadNothing, End
  <2> QED
    BY <1>0, <2>1
<1>8. CASE Show
  <2>1. Quiet
    BY <1>8 DEF Show
  <2> QED
    BY <1>0, <2>1
<1>9. CASE ShowFails
  <2>1. Quiet
    BY <1>9 DEF ShowFails, End
  <2> QED
    BY <1>0, <2>1
<1>10. CASE Footer
  <2>1. Quiet
    BY <1>10 DEF Footer, End
  <2> QED
    BY <1>0, <2>1
<1>11. CASE DropTransport
  <2>1. Quiet
    BY <1>11 DEF DropTransport
  <2> QED
    BY <1>0, <2>1
<1>12. CASE Type
  <2>1. PICK event \in TerminalEvents : typed' = Append(typed, event)
    BY <1>12 DEF Type
  <2>2. \A i \in 1..taken : typed'[i] = typed[i]
    BY <2>1 DEF TypeInv
  <2> QED
    BY <1>12, <2>2, KeysKept DEF Type
<1>13. CASE StdoutCloses \/ BoardPrints \/ PortCloses
  <2>1. Quiet
    BY <1>13 DEF StdoutCloses, BoardPrints, PortCloses
  <2> QED
    BY <1>0, <2>1
<1>14. CASE Killed
  <2>1. Quiet
    BY <1>14 DEF Killed, Kill
  <2> QED
    BY <1>0, <2>1
<1>15. CASE UNCHANGED vars
  <2>1. Quiet
    BY <1>15 DEF vars
  <2> QED
    BY <1>0, <2>1
<1> QED
  BY <1>1, <1>2, <1>3, <1>4, <1>5, <1>6, <1>7, <1>8, <1>9, <1>10, <1>11, <1>12, <1>13, <1>14, <1>15
  DEF Next, Relay, Environment

-----------------------------------------------------------------------------
(* The port *)

\* The tracked bytes wait before the NOISE.
LEMMA TrackedFirst ==
    ASSUME TypeInv, PortInv
    PROVE  /\ Unread \in Nat /\ Len(toHost) \in Nat /\ Unread <= Len(toHost) /\ printed \in Nat
           /\ \A i \in 1..Len(toHost) : toHost[i] # NOISE <=> i <= Unread
<1>1. Unread \in Nat /\ Len(toHost) \in Nat /\ Unread <= Len(toHost) /\ printed \in Nat /\ Unread <= printed
  BY ConsoleAssumption DEF TypeInv, PortInv
<1>2. ASSUME NEW i \in 1..Len(toHost)
      PROVE  toHost[i] # NOISE <=> i <= Unread
  <2>1. CASE i <= Unread
    <3>1. toHost[i] = printed - Unread + i
      BY <2>1 DEF PortInv
    <3> QED
      BY <1>1, <2>1, <3>1 DEF NOISE
  <2>2. CASE ~(i <= Unread)
    <3>1. i \in Unread + 1..Len(toHost)
      BY <1>1, <2>2
    <3> QED
      BY <2>2, <3>1 DEF PortInv
  <2> QED
    BY <2>1, <2>2
<1> QED
  BY <1>1, <1>2

\* A port that holds u tracked bytes: the last ones that were printed, and NOISE only if no more
\* will be.
LEMMA PortHolds ==
    ASSUME TypeInv', NEW u \in 0..Len(toHost'), u <= printed',
           \A i \in 1..Len(toHost') : i <= u => toHost'[i] = printed' - u + i,
           \A i \in 1..Len(toHost') : ~(i <= u) => toHost'[i] = NOISE,
           u < Len(toHost') => printed' = MaxTracked
    PROVE  Unread' = u /\ PortInv'
<1>1. toHost' \in Seq(Nat) /\ Len(toHost') \in Nat /\ u \in Nat /\ printed' \in Nat
  BY ConsoleAssumption DEF TypeInv
<1>2. \A i \in 1..Len(toHost') : toHost'[i] # NOISE <=> i <= u
  BY <1>1 DEF NOISE
<1>3. Unread' = u
  <2>1. Cardinality({i \in DOMAIN toHost' : toHost'[i] # NOISE}) = u
    BY <1>1, <1>2, TracedIs
  <2> QED
    BY <2>1 DEF Unread
<1>4. \A i \in 1..u : i \in 1..Len(toHost') /\ i <= u
  BY <1>1
<1>5. \A i \in u + 1..Len(toHost') : i \in 1..Len(toHost') /\ ~(i <= u)
  BY <1>1
<1> QED
  BY <1>3, <1>4, <1>5 DEF PortInv

\* A read takes tracked bytes from the front: the next ones that were printed.
LEMMA PortReads ==
    ASSUME TypeInv, TypeInv', PortInv, NEW n \in 1..Len(toHost),
           toHost' = SubSeq(toHost, n + 1, Len(toHost)), printed' = printed
    PROVE  LET bytes == Traced(SubSeq(toHost, 1, n))
           IN  /\ PortInv' /\ Unread' \in Nat /\ Unread \in Nat /\ Unread' <= Unread
               /\ bytes \in Seq(Nat) /\ Len(bytes) = Unread - Unread'
               /\ \A i \in 1..Len(bytes) : bytes[i] = printed - Unread + i
<1> DEFINE k == IF n <= Unread THEN n ELSE Unread
           first == SubSeq(toHost, 1, n)
           bytes == Traced(first)
<1>1. /\ Unread \in Nat /\ Len(toHost) \in Nat /\ Unread <= Len(toHost) /\ printed \in Nat
      /\ \A i \in 1..Len(toHost) : toHost[i] # NOISE <=> i <= Unread
  BY TrackedFirst
<1>2. toHost \in Seq(Nat) /\ n \in 0..Len(toHost) /\ n \in Nat
  BY <1>1 DEF TypeInv
<1>3. k \in Nat /\ k <= n /\ k <= Unread /\ (\A i \in 1..n : i <= k <=> i <= Unread)
  BY <1>1, <1>2
<1>4. first \in Seq(Nat) /\ Len(first) = n /\ \A i \in 1..n : first[i] = toHost[i]
  BY <1>2
<1>5. /\ toHost' \in Seq(Nat) /\ Len(toHost') = Len(toHost) - n
      /\ \A i \in 1..Len(toHost) - n : toHost'[i] = toHost[n + i]
  BY <1>2, RestOfWhole
<1> HIDE DEF first
<1>6. \A i \in 1..Len(first) : first[i] # NOISE <=> i <= k
  <2>1. \A i \in 1..n : i \in 1..Len(toHost)
    BY <1>1, <1>2
  <2> HIDE DEF k
  <2> QED
    BY <1>1, <1>3, <1>4, <2>1
<1> DEFINE u == Unread - k
<1>7. u \in Nat /\ u <= printed' /\ u \in 0..Len(toHost')
  <2>1. Unread <= printed
    BY DEF PortInv
  <2> QED
    BY <1>1, <1>2, <1>3, <1>5, <2>1
<1>8. ASSUME NEW i \in 1..Len(toHost'), i <= u
      PROVE  toHost'[i] = printed' - u + i
  <2>1. n <= Unread /\ k = n
    BY <1>1, <1>2, <1>8
  <2>2. n + i \in 1..Unread /\ i \in 1..Len(toHost) - n
    BY <1>1, <1>2, <1>5, <1>8, <2>1
  <2>3. toHost'[i] = printed - Unread + (n + i)
    BY <1>5, <2>2 DEF PortInv
  <2> QED
    BY <1>1, <1>2, <2>1, <2>2, <2>3
<1>9. ASSUME NEW i \in 1..Len(toHost'), ~(i <= u)
      PROVE  toHost'[i] = NOISE
  <2>1. n + i \in 1..Len(toHost) /\ ~(n + i <= Unread) /\ i \in 1..Len(toHost) - n
    BY <1>1, <1>2, <1>3, <1>5, <1>9
  <2> QED
    BY <1>1, <1>5, <2>1
<1>10. u < Len(toHost') => printed' = MaxTracked
  <2>1. u < Len(toHost') => Unread < Len(toHost)
    BY <1>1, <1>2, <1>3, <1>5
  <2> QED
    BY <2>1 DEF PortInv
<1> HIDE DEF u
<1>11. Unread' = u /\ PortInv'
  BY <1>7, <1>8, <1>9, <1>10, PortHolds
<1>12. k \in 0..Len(first)
  BY <1>2, <1>3, <1>4
<1> HIDE DEF k
<1>13. bytes \in Seq(Nat) /\ Len(bytes) = k /\ \A i \in 1..k : bytes[i] = first[i]
  BY <1>4, <1>6, <1>12, TracedIs
<1>14. \A i \in 1..k : bytes[i] = printed - Unread + i
  <2>1. \A i \in 1..k : i \in 1..n /\ i \in 1..Unread
    BY <1>1, <1>2, <1>3
  <2> QED
    BY <1>4, <1>13, <2>1 DEF PortInv
<1>15. k = Unread - Unread' /\ Unread' \in Nat /\ Unread' <= Unread
  BY <1>1, <1>3, <1>7, <1>11 DEF u
<1> QED
  BY <1>1, <1>11, <1>13, <1>14, <1>15 DEF first

\* What the board prints comes last; a tracked byte is the next one.
LEMMA PortFills ==
    ASSUME TypeInv, TypeInv', PortInv, BoardPrints
    PROVE  /\ PortInv' /\ Unread' \in Nat /\ Unread \in Nat
           /\ printed' - Unread' = printed - Unread /\ printed <= printed'
<1>1. /\ Unread \in Nat /\ Len(toHost) \in Nat /\ Unread <= Len(toHost) /\ printed \in Nat
      /\ \A i \in 1..Len(toHost) : toHost[i] # NOISE <=> i <= Unread
  BY TrackedFirst
<1>2. toHost \in Seq(Nat) /\ printed <= MaxTracked /\ MaxTracked \in Nat /\ Unread <= printed
  BY <1>1, ConsoleAssumption DEF TypeInv, PortInv
<1>3. CASE printed < MaxTracked
  <2>1. toHost' = Append(toHost, printed + 1) /\ printed' = printed + 1
    BY <1>3 DEF BoardPrints
  <2>2. Unread = Len(toHost)
    BY <1>1, <1>2, <1>3 DEF PortInv
  <2>3. /\ Len(toHost') = Len(toHost) + 1 /\ toHost'[Len(toHost) + 1] = printed + 1
        /\ \A i \in 1..Len(toHost) : toHost'[i] = toHost[i]
    BY <1>2, <2>1
  <2> DEFINE u == Unread + 1
  <2>4. u \in 0..Len(toHost') /\ u <= printed' /\ ~(u < Len(toHost'))
    BY <1>1, <1>2, <2>1, <2>2, <2>3
  <2>5. ASSUME NEW i \in 1..Len(toHost')
        PROVE  i <= u /\ toHost'[i] = printed' - u + i
    <3>1. CASE i = Len(toHost) + 1
      BY <1>1, <2>1, <2>2, <2>3, <3>1
    <3>2. CASE i # Len(toHost) + 1
      <4>1. i \in 1..Len(toHost) /\ i \in 1..Unread
        BY <1>1, <2>2, <2>3, <3>2
      <4>2. toHost'[i] = printed - Unread + i
        BY <2>3, <4>1 DEF PortInv
      <4> QED
        BY <1>1, <2>1, <4>1, <4>2
    <3> QED
      BY <3>1, <3>2
  <2> HIDE DEF u
  <2>6. Unread' = u /\ PortInv'
    BY <2>4, <2>5, PortHolds
  <2> QED
    BY <1>1, <2>1, <2>6 DEF u
<1>4. CASE ~(printed < MaxTracked)
  <2>1. toHost' = Append(toHost, NOISE) /\ printed' = printed
    BY <1>4 DEF BoardPrints
  <2>2. /\ Len(toHost') = Len(toHost) + 1 /\ toHost'[Len(toHost) + 1] = NOISE
        /\ \A i \in 1..Len(toHost) : toHost'[i] = toHost[i]
    <3>1. NOISE \in Nat
      BY DEF NOISE
    <3> QED
      BY <1>2, <2>1, <3>1
  <2>3. Unread \in 0..Len(toHost') /\ Unread <= printed' /\ printed' = MaxTracked
    BY <1>1, <1>2, <1>4, <2>1, <2>2
  <2>4. ASSUME NEW i \in 1..Len(toHost'), i <= Unread
        PROVE  toHost'[i] = printed' - Unread + i
    <3>1. i \in 1..Unread /\ i \in 1..Len(toHost)
      BY <1>1, <2>2, <2>4
    <3> QED
      BY <2>1, <2>2, <3>1 DEF PortInv
  <2>5. ASSUME NEW i \in 1..Len(toHost'), ~(i <= Unread)
        PROVE  toHost'[i] = NOISE
    <3>1. i \in 1..Len(toHost) \/ i = Len(toHost) + 1
      BY <1>1, <2>2
    <3> QED
      BY <1>1, <2>2, <2>5, <3>1
  <2> DEFINE u == Unread
  <2> HIDE DEF u
  <2>6. Unread' = u /\ PortInv'
    <3>1. /\ u \in 0..Len(toHost') /\ u <= printed'
          /\ \A i \in 1..Len(toHost') : i <= u => toHost'[i] = printed' - u + i
          /\ \A i \in 1..Len(toHost') : ~(i <= u) => toHost'[i] = NOISE
      BY <2>3, <2>4, <2>5 DEF u
    <3> QED
      BY <2>3, <3>1, PortHolds
  <2> QED
    BY <1>1, <2>1, <2>6 DEF u
<1> QED
  BY <1>3, <1>4

LEMMA PortStep ==
    ASSUME TypeInv, TypeInv', PortInv, [Next]_vars
    PROVE  PortInv'
<1> USE DEF terminalVars, boardVars
<1>0. ASSUME toHost' = toHost, printed' = printed
      PROVE  PortInv'
  BY <1>0 DEF PortInv, Unread
<1>1. CASE ReadPort
  <2>1. PICK n \in 1..Len(toHost) : toHost' = SubSeq(toHost, n + 1, Len(toHost))
    BY <1>1 DEF ReadPort
  <2>2. printed' = printed
    BY <1>1 DEF ReadPort
  <2> QED
    BY <2>1, <2>2, PortReads
<1>2. CASE BoardPrints
  BY <1>2, PortFills
<1>3. CASE ~ReadPort /\ ~BoardPrints
  <2>1. toHost' = toHost /\ printed' = printed
    BY <1>3 DEF Next, Relay, Environment, vars, Banner, EnableRawMode, SetTimeout, PollNothing, TakeEvent,
       ReadNothing, Show, ShowFails, Footer, DropTransport, Type, StdoutCloses, Killed, PortCloses
  <2> QED
    BY <1>0, <2>1
<1> QED
  BY <1>1, <1>2, <1>3

-----------------------------------------------------------------------------
(* The screen *)

LEMMA ShownType ==
    ASSUME TypeInv
    PROVE  Shown \in Seq(Nat) /\ Len(Shown) \in Nat
  BY DEF TypeInv, Shown

LEMMA ShownTypeNext ==
    ASSUME TypeInv'
    PROVE  Shown' \in Seq(Nat) /\ Len(Shown') \in Nat
<1>1. screen' \in Seq(Nat) /\ read' \in Seq(Nat)
  BY DEF TypeInv
<1>2. (screen \o read)' \in Seq(Nat)
  BY <1>1
<1>3. Shown' \in Seq(Nat)
  BY <1>1, <1>2 DEF Shown
<1> QED
  BY <1>3

\* Only a read brings something new on its way to the screen; only the end takes some of it away.
LEMMA ShownKept ==
    ASSUME TypeInv, TypeInv', [Next]_vars, ~ReadPort
    PROVE  /\ IsPrefix(Shown', Shown)
           /\ result' = "running" => result = "running" /\ Shown' = Shown
<1> USE DEF terminalVars, boardVars
<1>1. Shown \in Seq(Nat) /\ Shown' \in Seq(Nat)
  BY ShownType, ShownTypeNext
<1>2. IsPrefix(Shown, Shown)
  BY <1>1, PrefixIs
<1>3. ASSUME NEW part \in Seq(Nat), IsPrefix(part, read)
      PROVE  IsPrefix(screen \o part, screen \o read)
  <2>1. screen \in Seq(Nat) /\ read \in Seq(Nat)
    BY DEF TypeInv
  <2> QED
    BY <1>3, <2>1, PrefixAfter
<1>4. CASE Show
  <2>1. Shown' = Shown /\ (result' = "running" => result = "running")
    BY <1>4 DEF Show, Shown
  <2> QED
    BY <1>2, <2>1
<1>5. CASE ShowFails
  <2>1. PICK n \in 0..Len(read) : screen' = screen \o SubSeq(read, 1, n)
    BY <1>5 DEF ShowFails
  <2>2. SubSeq(read, 1, n) \in Seq(Nat) /\ IsPrefix(SubSeq(read, 1, n), read)
    <3>1. read \in Seq(Nat)
      BY DEF TypeInv
    <3> QED
      BY <3>1, PrefixOfWhole
  <2>3. Shown = screen \o read /\ Shown' = screen' /\ result' # "running"
    BY <1>5 DEF ShowFails, Shown, End
  <2> QED
    BY <1>3, <2>1, <2>2, <2>3
<1>6. CASE Killed
  <2>1. screen' = screen /\ read' = read /\ phase' = "ended" /\ result' # "running"
    BY <1>6 DEF Killed, Kill
  <2>2. Shown' = screen
    BY <2>1 DEF Shown
  <2>3. IsPrefix(screen, Shown)
    <3>1. screen \in Seq(Nat) /\ read \in Seq(Nat)
      BY DEF TypeInv
    <3>2. IsPrefix(screen, screen)
      BY <3>1, PrefixIs
    <3>3. IsPrefix(screen, screen \o read)
      BY <3>1, <3>2, PrefixOfLonger
    <3> QED
      BY <3>2, <3>3 DEF Shown
  <2> QED
    BY <2>1, <2>2, <2>3
<1>7. CASE Banner \/ EnableRawMode \/ SetTimeout \/ PollNothing \/ ReadNothing \/ Footer \/ DropTransport
  <2>1. /\ phase # "show" /\ phase' # "show" /\ screen' = screen
        /\ result' = "running" => result = "running"
    BY <1>7 DEF Banner, EnableRawMode, SetTimeout, PollNothing, ReadNothing, Footer, DropTransport, End,
                TypeInv
  <2> QED
    BY <1>2, <2>1 DEF Shown
<1>8. CASE TakeEvent
  <2>1. phase = "poll" /\ phase' # "show" /\ screen' = screen /\ (result' = "running" => result = "running")
    BY <1>8 DEF TakeEvent, Written, WriteFails, End, Kill
  <2> QED
    BY <1>2, <2>1 DEF Shown
<1>9. CASE Type \/ StdoutCloses \/ BoardPrints \/ PortCloses \/ UNCHANGED vars
  <2>1. phase' = phase /\ screen' = screen /\ read' = read /\ result' = result
    BY <1>9 DEF Type, StdoutCloses, BoardPrints, PortCloses, vars
  <2> QED
    BY <1>2, <2>1 DEF Shown
<1> QED
  BY <1>4, <1>5, <1>6, <1>7, <1>8, <1>9 DEF Next, Relay, Environment

\* A read adds the next bytes that were printed, unless it fails.
LEMMA ReadShows ==
    ASSUME TypeInv, TypeInv', PortInv, ReadPort
    PROVE  \E bytes \in Seq(Nat) :
              /\ PortInv' /\ Unread' \in Nat /\ Unread \in Nat /\ Unread' <= Unread /\ printed' = printed
              /\ Len(bytes) = Unread - Unread'
              /\ \A i \in 1..Len(bytes) : bytes[i] = printed - Unread + i
              /\ crossed' = crossed \o Tagged(Rx, bytes)
              /\ phase = "read" /\ result = "running" /\ Shown = screen
              /\ \/ /\ Recorded(Tagged(Rx, bytes))
                    /\ Shown' = Shown \o bytes /\ result' = "running" /\ lost' = lost
                 \/ /\ RecordFails(Tagged(Rx, bytes))
                    /\ Shown' = Shown /\ result' \in {"killed", "Serial"} /\ lost' = lost
                 \/ /\ RecordFails(Tagged(Rx, bytes))
                    /\ Shown' = Shown /\ result' = "running" /\ lost'
<1>1. PICK n \in 1..Len(toHost) :
         LET bytes == Traced(SubSeq(toHost, 1, n))
         IN  /\ toHost' = SubSeq(toHost, n + 1, Len(toHost))
             /\ crossed' = crossed \o Tagged(Rx, bytes)
             /\ \/ /\ Recorded(Tagged(Rx, bytes))
                   /\ read' = bytes /\ phase' = "show"
                   /\ UNCHANGED <<raw, result, lost>>
                \/ /\ RecordFails(Tagged(Rx, bytes))
                   /\ End("Serial") \/ Kill
                   /\ UNCHANGED <<read, lost>>
                \/ /\ RecordFails(Tagged(Rx, bytes))
                   /\ lost' = TRUE /\ phase' = "poll"
                   /\ UNCHANGED <<raw, result, read>>
  BY DEF ReadPort
<1> DEFINE bytes == Traced(SubSeq(toHost, 1, n))
<1>2. printed' = printed /\ screen' = screen /\ phase = "read" /\ result = "running" /\ Shown = screen
  BY DEF ReadPort, boardVars, Shown, TypeInv
<1>3. /\ PortInv' /\ Unread' \in Nat /\ Unread \in Nat /\ Unread' <= Unread
      /\ bytes \in Seq(Nat) /\ Len(bytes) = Unread - Unread'
      /\ \A i \in 1..Len(bytes) : bytes[i] = printed - Unread + i
  BY <1>1, <1>2, PortReads
<1>4. /\ crossed' = crossed \o Tagged(Rx, bytes)
      /\ \/ /\ Recorded(Tagged(Rx, bytes))
            /\ read' = bytes /\ phase' = "show"
            /\ UNCHANGED <<raw, result, lost>>
         \/ /\ RecordFails(Tagged(Rx, bytes))
            /\ End("Serial") \/ Kill
            /\ UNCHANGED <<read, lost>>
         \/ /\ RecordFails(Tagged(Rx, bytes))
            /\ lost' = TRUE /\ phase' = "poll"
            /\ UNCHANGED <<raw, result, read>>
  BY <1>1
<1> HIDE DEF bytes
<1>5. \/ /\ Recorded(Tagged(Rx, bytes))
         /\ Shown' = Shown \o bytes /\ result' = "running" /\ lost' = lost
      \/ /\ RecordFails(Tagged(Rx, bytes))
         /\ Shown' = Shown /\ result' \in {"killed", "Serial"} /\ lost' = lost
      \/ /\ RecordFails(Tagged(Rx, bytes))
         /\ Shown' = Shown /\ result' = "running" /\ lost'
  <2> DEFINE tagged == Tagged(Rx, bytes)
  <2> HIDE DEF tagged
  <2>1. \/ /\ Recorded(tagged)
           /\ read' = bytes /\ phase' = "show"
           /\ UNCHANGED <<raw, result, lost>>
        \/ /\ RecordFails(tagged)
           /\ End("Serial") \/ Kill
           /\ UNCHANGED <<read, lost>>
        \/ /\ RecordFails(tagged)
           /\ lost' = TRUE /\ phase' = "poll"
           /\ UNCHANGED <<raw, result, read>>
    BY <1>4 DEF tagged
  <2>2. \/ /\ Recorded(tagged)
           /\ Shown' = Shown \o bytes /\ result' = "running" /\ lost' = lost
        \/ /\ RecordFails(tagged)
           /\ Shown' = Shown /\ result' \in {"killed", "Serial"} /\ lost' = lost
        \/ /\ RecordFails(tagged)
           /\ Shown' = Shown /\ result' = "running" /\ lost'
    BY <1>2, <2>1 DEF End, Kill, Shown
  <2> QED
    BY <2>2 DEF tagged
<1> QED
  BY <1>2, <1>3, <1>4, <1>5

LEMMA ScreenStep ==
    ASSUME TypeInv, TypeInv', PortInv, PortInv', ScreenInv, [Next]_vars
    PROVE  ScreenInv'
<1> USE DEF terminalVars, boardVars
<1>1. /\ Shown \in Seq(Nat) /\ Len(Shown) \in Nat /\ Shown' \in Seq(Nat) /\ Len(Shown') \in Nat
      /\ Unread \in Nat /\ printed \in Nat /\ Unread' \in Nat /\ printed' \in Nat
  <2>1. /\ Unread \in Nat /\ printed \in Nat /\ Unread' \in Nat /\ printed' \in Nat
    BY ConsoleAssumption DEF TypeInv, PortInv
  <2>2. Shown' \in Seq(Nat) /\ Len(Shown') \in Nat
    BY ShownTypeNext
  <2> QED
    BY <2>1, <2>2, ShownType
<1>2. CASE ReadPort
  <2>1. PICK bytes \in Seq(Nat) :
           /\ Unread' <= Unread /\ printed' = printed
           /\ Len(bytes) = Unread - Unread'
           /\ \A i \in 1..Len(bytes) : bytes[i] = printed - Unread + i
           /\ result = "running"
           /\ \/ Shown' = Shown \o bytes /\ result' = "running" /\ lost' = lost
              \/ Shown' = Shown /\ result' # "running" /\ lost' = lost
              \/ Shown' = Shown /\ lost'
    <3>1. \A bytes \in Seq(Nat) : Len(bytes) \in Nat
      OBVIOUS
    <3> QED
      BY <1>2, ReadShows
  <2>2. CASE Shown' = Shown \o bytes /\ result' = "running" /\ lost' = lost
    <3>1. /\ Len(Shown') = Len(Shown) + Len(bytes) /\ Len(bytes) \in Nat
          /\ \A i \in 1..Len(Shown) : Shown'[i] = Shown[i]
          /\ \A i \in 1..Len(bytes) : Shown'[Len(Shown) + i] = bytes[i]
      BY <1>1, <2>2
    <3> DEFINE seen == printed - Unread
    <3>2. seen \in Int /\ printed' - Unread' = seen + Len(bytes)
      BY <1>1, <2>1
    <3>3. /\ \A i \in 1..Len(Shown) : Shown[i] \in 1..seen
          /\ \A i, j \in 1..Len(Shown) : i < j => Shown[i] < Shown[j]
          /\ ~lost => Len(Shown) = seen /\ \A i \in 1..Len(Shown) : Shown[i] = i
          /\ \A i \in 1..Len(bytes) : bytes[i] = seen + i
          /\ seen >= 0
      <4>1. Unread <= printed
        BY DEF PortInv
      <4>2. seen >= 0
        BY <1>1, <4>1
      <4> HIDE DEF seen
      <4>3. /\ \A i \in 1..Len(Shown) : Shown[i] \in 1..seen
            /\ \A i, j \in 1..Len(Shown) : i < j => Shown[i] < Shown[j]
            /\ ~lost => \A i \in 1..Len(Shown) : Shown[i] = i
            /\ ~lost /\ result = "running" => Len(Shown) = seen
        BY DEF ScreenInv, seen
      <4>4. result = "running" /\ \A i \in 1..Len(bytes) : bytes[i] = seen + i
        BY <2>1 DEF seen
      <4> QED
        BY <4>2, <4>3, <4>4
    <3> HIDE DEF seen
    <3>4. \A i \in 1..Len(Shown') : \/ i \in 1..Len(Shown) /\ Shown'[i] = Shown[i] /\ Shown'[i] \in 1..seen
                                    \/ /\ i - Len(Shown) \in 1..Len(bytes)
                                       /\ Shown'[i] = seen + (i - Len(Shown))
      <4> SUFFICES ASSUME NEW i \in 1..Len(Shown'), ~(i <= Len(Shown))
                   PROVE  /\ i - Len(Shown) \in 1..Len(bytes)
                          /\ Shown'[i] = seen + (i - Len(Shown))
        BY <1>1, <3>1, <3>3
      <4> DEFINE k == i - Len(Shown)
      <4>1. k \in 1..Len(bytes) /\ i = Len(Shown) + k
        BY <1>1, <3>1
      <4> HIDE DEF k
      <4>2. Shown'[i] = seen + k
        BY <3>1, <3>3, <4>1
      <4> QED
        BY <4>1, <4>2 DEF k
    <3>5. \A i \in 1..Len(Shown') : Shown'[i] \in 1..printed' - Unread'
      <4>1. ASSUME NEW i \in 1..Len(Shown')
            PROVE  Shown'[i] \in 1..seen + Len(bytes)
        <5>1. CASE i \in 1..Len(Shown) /\ Shown'[i] \in 1..seen
          BY <3>1, <3>2, <5>1
        <5>2. CASE i - Len(Shown) \in 1..Len(bytes) /\ Shown'[i] = seen + (i - Len(Shown))
          <6> DEFINE k == i - Len(Shown)
          <6>1. k \in 1..Len(bytes) /\ Shown'[i] = seen + k
            BY <5>2
          <6> HIDE DEF k
          <6>2. seen >= 0
            BY <3>3
          <6> QED
            BY <3>1, <3>2, <6>1, <6>2
        <5> QED
          BY <3>4, <5>1, <5>2
      <4> QED
        BY <3>2, <4>1
    <3>6. ASSUME NEW i \in 1..Len(Shown'), NEW j \in 1..Len(Shown'), i < j
          PROVE  Shown'[i] < Shown'[j]
      <4>1. CASE j \in 1..Len(Shown)
        <5>1. i \in 1..Len(Shown)
          BY <1>1, <3>6, <4>1
        <5> QED
          BY <3>1, <3>3, <3>6, <4>1, <5>1
      <4>2. CASE j \notin 1..Len(Shown)
        <5>1. j - Len(Shown) \in 1..Len(bytes) /\ Shown'[j] = seen + (j - Len(Shown))
          BY <3>4, <4>2
        <5>2. CASE i \in 1..Len(Shown)
          <6>1. Shown'[i] \in 1..seen
            BY <3>1, <3>3, <5>2
          <6> QED
            BY <1>1, <3>1, <3>2, <5>1, <6>1
        <5>3. CASE i \notin 1..Len(Shown)
          <6>1. i - Len(Shown) \in 1..Len(bytes) /\ Shown'[i] = seen + (i - Len(Shown))
            BY <3>4, <5>3
          <6> QED
            BY <1>1, <3>1, <3>2, <3>6, <5>1, <6>1
        <5> QED
          BY <5>2, <5>3
      <4> QED
        BY <4>1, <4>2
    <3>7. ~lost' => Len(Shown') = printed' - Unread' /\ \A i \in 1..Len(Shown') : Shown'[i] = i
      <4> SUFFICES ASSUME ~lost
                   PROVE  Len(Shown') = printed' - Unread' /\ \A i \in 1..Len(Shown') : Shown'[i] = i
        BY <2>2
      <4>1. Len(Shown) = seen /\ \A i \in 1..Len(Shown) : Shown[i] = i
        BY <3>3
      <4>2. Len(Shown') = printed' - Unread'
        BY <3>1, <3>2, <4>1
      <4>3. ASSUME NEW i \in 1..Len(Shown')
            PROVE  Shown'[i] = i
        <5>1. CASE i \in 1..Len(Shown)
          BY <3>1, <4>1, <5>1
        <5>2. CASE i \notin 1..Len(Shown)
          <6>1. Shown'[i] = seen + (i - Len(Shown))
            BY <3>4, <5>2
          <6>2. i \in Int
            OBVIOUS
          <6> QED
            BY <3>2, <4>1, <6>1, <6>2
        <5> QED
          BY <5>1, <5>2
      <4> QED
        BY <4>2, <4>3
    <3> QED
      BY <3>5, <3>6, <3>7 DEF ScreenInv
  <2>3. CASE Shown' = Shown /\ (lost' \/ (result' # "running" /\ lost' = lost))
    <3>1. Unread' <= Unread /\ printed' = printed
      BY <2>1
    <3>2. \A i \in 1..Len(Shown') : Shown'[i] \in 1..printed' - Unread'
      <4> DEFINE seen == printed - Unread
                 seenNow == printed' - Unread'
      <4>1. seen \in Int /\ seenNow \in Int /\ seen <= seenNow
        <5>1. \A all, were, are \in Nat : are <= were => all - were \in Int /\ all - are \in Int /\ all - were <= all - are
          OBVIOUS
        <5>2. seenNow = printed - Unread'
          BY <3>1
        <5> QED
          BY <1>1, <3>1, <5>1, <5>2
      <4>2. \A i \in 1..Len(Shown') : Shown'[i] \in 1..seen
        BY <2>3 DEF ScreenInv
      <4> HIDE DEF seen, seenNow
      <4>3. \A i \in 1..Len(Shown') : Shown'[i] \in 1..seenNow
        BY <4>1, <4>2
      <4> QED
        BY <4>3 DEF seenNow
    <3>3. \A i, j \in 1..Len(Shown') : i < j => Shown'[i] < Shown'[j]
      BY <2>3 DEF ScreenInv
    <3>4. ~lost' => \A i \in 1..Len(Shown') : Shown'[i] = i
      BY <2>3 DEF ScreenInv
    <3> QED
      BY <2>3, <3>2, <3>3, <3>4 DEF ScreenInv
  <2> QED
    BY <2>1, <2>2, <2>3
<1>3. CASE ~ReadPort
  <2>1. /\ Len(Shown') <= Len(Shown) /\ \A i \in 1..Len(Shown') : Shown'[i] = Shown[i]
        /\ result' = "running" => result = "running" /\ Shown' = Shown
    BY <1>1, <1>3, ShownKept, PrefixIs
  <2>2. printed' - Unread' = printed - Unread
    <3>1. CASE BoardPrints
      BY <3>1, PortFills
    <3>2. CASE ~BoardPrints
      <4>1. toHost' = toHost /\ printed' = printed
        BY <1>3, <3>2 DEF Next, Relay, Environment, vars, Banner, EnableRawMode, SetTimeout, PollNothing,
           TakeEvent, ReadNothing, Show, ShowFails, Footer, DropTransport, Type, StdoutCloses, Killed, PortCloses
      <4> QED
        BY <4>1 DEF Unread
    <3> QED
      BY <3>1, <3>2
  <2>3. lost' = lost
    BY <1>3 DEF Next, Relay, Environment, vars, Banner, EnableRawMode, SetTimeout, PollNothing,
       TakeEvent, ReadNothing, Show, ShowFails, Footer, DropTransport, Type, StdoutCloses, Killed, BoardPrints,
       PortCloses
  <2>4. \A i \in 1..Len(Shown') : i \in 1..Len(Shown) /\ Shown'[i] = Shown[i]
    BY <1>1, <2>1
  <2>5. \A i \in 1..Len(Shown') : Shown'[i] \in 1..printed' - Unread'
    BY <2>2, <2>4 DEF ScreenInv
  <2>6. \A i, j \in 1..Len(Shown') : i < j => Shown'[i] < Shown'[j]
    BY <2>4 DEF ScreenInv
  <2>7. ~lost' => \A i \in 1..Len(Shown') : Shown'[i] = i
    BY <2>3, <2>4 DEF ScreenInv
  <2>8. ~lost' /\ result' = "running" => Len(Shown') = printed' - Unread'
    BY <2>1, <2>2, <2>3 DEF ScreenInv
  <2> QED
    BY <2>5, <2>6, <2>7, <2>8 DEF ScreenInv
<1> QED
  BY <1>2, <1>3

-----------------------------------------------------------------------------
(* The transcript, step by step *)

SeenIsKept == \A i \in 1..Len(Shown) : \E k \in 1..Len(file) : file[k] = Rx(Shown[i])

\* A file that only grows goes on holding what the operator has seen.
LEMMA SeenStaysKept ==
    ASSUME TypeInv, TypeInv', SeenIsKept, IsPrefix(file, file'), IsPrefix(Shown', Shown)
    PROVE  SeenIsKept'
<1>1. file \in Seq(Exchanged) /\ file' \in Seq(Exchanged) /\ Len(file) \in Nat /\ Len(file') \in Nat
  BY DEF TypeInv
<1>2. Shown \in Seq(Nat) /\ Shown' \in Seq(Nat) /\ Len(Shown) \in Nat /\ Len(Shown') \in Nat
  BY ShownType, ShownTypeNext
<1>3. Len(file) <= Len(file') /\ \A k \in 1..Len(file) : file[k] = file'[k]
  BY <1>1, PrefixIs
<1>4. Len(Shown') <= Len(Shown) /\ \A i \in 1..Len(Shown') : Shown'[i] = Shown[i]
  BY <1>2, PrefixIs
<1>5. ASSUME NEW i \in 1..Len(Shown')
      PROVE  \E k \in 1..Len(file') : file'[k] = Rx(Shown'[i])
  <2>1. i \in 1..Len(Shown)
    BY <1>2, <1>4
  <2>2. PICK k \in 1..Len(file) : file[k] = Rx(Shown[i])
    BY <2>1 DEF SeenIsKept
  <2>3. k \in 1..Len(file') /\ file'[k] = file[k]
    BY <1>1, <1>3
  <2> QED
    BY <1>4, <2>2, <2>3
<1> QED
  BY <1>5 DEF SeenIsKept

\* Steps that leave the port and the transcript alone.
LEMMA TranscriptKept ==
    ASSUME TypeInv, TypeInv', TranscriptInv, UNCHANGED <<buffer, file, crossed, lost>>,
           IsPrefix(Shown', Shown),
           result' = "running" => result = "running", result' = "ok" => result \in {"running", "ok"}
    PROVE  TranscriptInv'
<1>1. SeenIsKept
  BY DEF TranscriptInv, SeenIsKept
<1>2. IsPrefix(file, file')
  BY PrefixIs DEF TypeInv
<1>3. SeenIsKept'
  BY <1>1, <1>2, SeenStaysKept
<1> QED
  BY <1>3 DEF TranscriptInv, SeenIsKept

\* Bytes cross the port and are recorded, or recording them fails.
LEMMA CrossingIsRecorded ==
    ASSUME TypeInv, TypeInv', TranscriptInv, result = "running", NEW bytes \in Seq(Exchanged),
           crossed' = crossed \o bytes,
           \/ Recorded(bytes) /\ lost' = lost
           \/ RecordFails(bytes) /\ (result' \notin {"running", "ok"} \/ lost')
    PROVE  /\ IsPrefix(file, file')
           /\ SeenIsKept' => TranscriptInv'
           /\ Recorded(bytes) => file' = crossed'
<1>1. /\ file \in Seq(Exchanged) /\ buffer \in Seq(Exchanged) /\ crossed \in Seq(Exchanged)
      /\ file' \in Seq(Exchanged) /\ buffer' \in Seq(Exchanged) /\ crossed' \in Seq(Exchanged)
  BY DEF TypeInv
<1>2. file \o buffer = crossed
  BY DEF TranscriptInv
<1>3. file' \o buffer' = crossed' /\ IsPrefix(file, file')
  <2>1. file' \o buffer' = (file \o buffer) \o bytes /\ IsPrefix(file, file')
    BY <1>1, RecordingKeepsAll
  <2> QED
    BY <1>2, <2>1
<1>4. IsPrefix(file' \o buffer', crossed')
  <2> DEFINE s == crossed'
  <2>1. s \in Seq(Exchanged)
    BY <1>1
  <2> HIDE DEF s
  <2>2. IsPrefix(s, s)
    BY <2>1, PrefixIs
  <2> QED
    BY <1>3, <2>2 DEF s
<1>5. Recorded(bytes) => buffer' = <<>> /\ file' = crossed'
  <2> SUFFICES ASSUME Recorded(bytes)
               PROVE  buffer' = <<>> /\ file' = crossed'
    OBVIOUS
  <2>1. buffer' = <<>> /\ file' = (file \o buffer) \o bytes
    BY <1>1, RecordedKeepsAll
  <2> QED
    BY <1>2, <2>1
<1>6. result' \in {"running", "ok"} /\ ~lost' => buffer' = <<>> /\ file' = crossed'
  BY <1>5
<1> QED
  BY <1>3, <1>4, <1>5, <1>6 DEF TranscriptInv, SeenIsKept

LEMMA TranscriptStep ==
    ASSUME TypeInv, TypeInv', PortInv, TranscriptInv, [Next]_vars
    PROVE  TranscriptInv'
<1> USE DEF terminalVars, boardVars, transcript
<1>1. CASE TakeEvent
  <2>1. IsPrefix(Shown', Shown) /\ (result' = "running" => result = "running")
    <3>1. ~ReadPort
      BY <1>1 DEF TakeEvent, ReadPort
    <3> QED
      BY <3>1, ShownKept
  <2>2. lost' = lost /\ result = "running"
    BY <1>1 DEF TakeEvent, TypeInv
  <2> DEFINE event == typed[taken + 1]
             act == ConsoleAction(event)
  <2>3. event \in TerminalEvents
    BY <1>1 DEF TakeEvent, TypeInv
  <2>4. CASE act.action # "Send"
    <3>1. UNCHANGED <<buffer, file, crossed, result>>
      BY <1>1, <2>4 DEF TakeEvent
    <3> QED
      BY <2>1, <2>2, <3>1, TranscriptKept
  <2>5. CASE act.action = "Send"
    <3> DEFINE bytes == act.bytes
    <3>1. bytes \in Seq(Typable)
      BY <2>3, <2>5, EventMeans
    <3>2. Written(bytes) \/ WriteFails(bytes)
      BY <1>1, <2>5 DEF TakeEvent
    <3> HIDE DEF bytes, act, event
    <3>3. CASE Written(bytes)
      <4> DEFINE tagged == Tagged(Tx, bytes)
      <4>1. tagged \in Seq(Exchanged)
        BY <3>1, TaggedTx
      <4>2. /\ crossed' = crossed \o tagged
            /\ \/ Recorded(tagged) /\ phase' = "read" /\ UNCHANGED <<raw, result>>
               \/ RecordFails(tagged) /\ (End("Serial") \/ Kill)
        BY <3>3 DEF Written
      <4> HIDE DEF tagged
      <4>3. Recorded(tagged) \/ (RecordFails(tagged) /\ result' \notin {"running", "ok"})
        BY <4>2 DEF End, Kill
      <4>4. IsPrefix(file, file') /\ (SeenIsKept' => TranscriptInv')
        BY <2>2, <4>1, <4>2, <4>3, CrossingIsRecorded
      <4>5. SeenIsKept'
        <5>1. SeenIsKept
          BY DEF TranscriptInv, SeenIsKept
        <5> QED
          BY <2>1, <4>4, <5>1, SeenStaysKept
      <4> QED
        BY <4>4, <4>5
    <3>4. CASE WriteFails(bytes)
      <4>1. PICK n \in 0..Len(bytes) : crossed' = crossed \o Tagged(Tx, SubSeq(bytes, 1, n))
        BY <3>4 DEF WriteFails
      <4>2. SubSeq(bytes, 1, n) \in Seq(Typable)
        BY <3>1, PrefixOfWhole
      <4> DEFINE tagged == Tagged(Tx, SubSeq(bytes, 1, n))
      <4>3. tagged \in Seq(Exchanged)
        BY <4>2, TaggedTx
      <4>4. crossed' = crossed \o tagged
        BY <4>1
      <4> HIDE DEF tagged
      <4>5. file' = file /\ buffer' = buffer /\ result' \notin {"running", "ok"}
        BY <3>4 DEF WriteFails, End, Kill
      <4>6. IsPrefix(file' \o buffer', crossed')
        <5>1. file \o buffer \in Seq(Exchanged) /\ crossed \in Seq(Exchanged)
          BY DEF TypeInv
        <5>2. IsPrefix(file \o buffer, crossed)
          BY DEF TranscriptInv
        <5>3. IsPrefix(file \o buffer, crossed \o tagged)
          BY <4>3, <5>1, <5>2, PrefixOfLonger
        <5> QED
          BY <4>4, <4>5, <5>3
      <4>7. SeenIsKept'
        <5>1. SeenIsKept
          BY DEF TranscriptInv, SeenIsKept
        <5>2. IsPrefix(file, file')
          BY <4>5, PrefixIs DEF TypeInv
        <5> QED
          BY <2>1, <5>1, <5>2, SeenStaysKept
      <4> QED
        BY <4>5, <4>6, <4>7 DEF TranscriptInv, SeenIsKept
    <3> QED
      BY <3>2, <3>3, <3>4
  <2> QED
    BY <2>4, <2>5
<1>2. CASE ReadPort
  <2>1. PICK bytes \in Seq(Nat) :
           /\ crossed' = crossed \o Tagged(Rx, bytes)
           /\ result = "running"
           /\ \/ /\ Recorded(Tagged(Rx, bytes))
                 /\ Shown' = Shown \o bytes /\ result' = "running" /\ lost' = lost
              \/ /\ RecordFails(Tagged(Rx, bytes))
                 /\ Shown' = Shown /\ result' \in {"killed", "Serial"} /\ lost' = lost
              \/ /\ RecordFails(Tagged(Rx, bytes))
                 /\ Shown' = Shown /\ result' = "running" /\ lost'
    BY <1>2, ReadShows
  <2> DEFINE tagged == Tagged(Rx, bytes)
  <2>2. /\ tagged \in Seq(Exchanged) /\ Len(tagged) = Len(bytes)
        /\ \A i \in 1..Len(bytes) : tagged[i] = Rx(bytes[i])
    BY TaggedRx
  <2> HIDE DEF tagged
  <2>3. /\ crossed' = crossed \o tagged
        /\ \/ Recorded(tagged) /\ Shown' = Shown \o bytes /\ lost' = lost
           \/ /\ RecordFails(tagged) /\ Shown' = Shown
              /\ result' \notin {"running", "ok"} \/ lost'
    BY <2>1 DEF tagged
  <2>4. /\ IsPrefix(file, file') /\ (SeenIsKept' => TranscriptInv')
        /\ Recorded(tagged) => file' = crossed'
    <3>1. \/ Recorded(tagged) /\ lost' = lost
          \/ RecordFails(tagged) /\ (result' \notin {"running", "ok"} \/ lost')
      BY <2>3
    <3> QED
      BY <2>1, <2>2, <2>3, <3>1, CrossingIsRecorded
  <2>5. SeenIsKept /\ Shown \in Seq(Nat) /\ Len(Shown) \in Nat /\ crossed \in Seq(Exchanged)
    BY ShownType DEF TranscriptInv, SeenIsKept, TypeInv
  <2>6. CASE Shown' = Shown
    <3>1. IsPrefix(Shown', Shown)
      BY <2>5, <2>6, PrefixIs
    <3> QED
      BY <2>4, <2>5, <3>1, SeenStaysKept
  <2>7. CASE Recorded(tagged) /\ Shown' = Shown \o bytes
    <3>1. file' = crossed \o tagged
      BY <2>3, <2>4, <2>7
    <3>2. /\ Len(file') = Len(crossed) + Len(bytes) /\ Len(crossed) \in Nat /\ Len(bytes) \in Nat
          /\ \A i \in 1..Len(bytes) : file'[Len(crossed) + i] = Rx(bytes[i])
      <4>1. Len(bytes) \in Nat /\ Len(crossed) \in Nat /\ Len(tagged) = Len(bytes)
        BY <2>2, <2>5
      <4>2. /\ Len(file') = Len(crossed) + Len(bytes)
            /\ \A i \in 1..Len(bytes) : file'[Len(crossed) + i] = tagged[i]
        <5>1. Len(crossed \o tagged) = Len(crossed) + Len(tagged)
          BY <2>2, <2>5, ConcatProperties
        <5>2. ASSUME NEW i \in 1..Len(bytes)
              PROVE  (crossed \o tagged)[Len(crossed) + i] = tagged[i]
          <6>1. /\ Len(crossed) + i \in 1..Len(crossed) + Len(tagged)
                /\ ~(Len(crossed) + i <= Len(crossed)) /\ Len(crossed) + i - Len(crossed) = i
            BY <4>1
          <6> QED
            BY <2>2, <2>5, <6>1, ConcatProperties
        <5> QED
          BY <3>1, <4>1, <5>1, <5>2
      <4> QED
        BY <2>2, <4>1, <4>2
    <3>3. /\ Len(Shown') = Len(Shown) + Len(bytes)
          /\ \A i \in 1..Len(Shown) : Shown'[i] = Shown[i]
          /\ \A i \in 1..Len(bytes) : Shown'[Len(Shown) + i] = bytes[i]
      BY <2>5, <2>7, <3>2
    <3>4. ASSUME NEW i \in 1..Len(Shown')
          PROVE  \E k \in 1..Len(file') : file'[k] = Rx(Shown'[i])
      <4>1. CASE i \in 1..Len(Shown)
        <5>1. PICK k \in 1..Len(file) : file[k] = Rx(Shown[i])
          BY <2>5, <4>1 DEF SeenIsKept
        <5>2. /\ file \in Seq(Exchanged) /\ file' \in Seq(Exchanged)
              /\ Len(file) \in Nat /\ Len(file') \in Nat
          <6>1. file \in Seq(Exchanged) /\ file' \in Seq(Exchanged)
            BY DEF TypeInv
          <6> QED
            BY <6>1
        <5>3. Len(file) <= Len(file') /\ \A j \in 1..Len(file) : file[j] = file'[j]
          BY <2>4, <5>2, PrefixIs
        <5>4. k \in 1..Len(file') /\ file'[k] = file[k]
          BY <5>2, <5>3
        <5> QED
          BY <3>3, <4>1, <5>1, <5>4
      <4>2. CASE i \notin 1..Len(Shown)
        <5> DEFINE j == i - Len(Shown)
        <5>1. j \in 1..Len(bytes) /\ i = Len(Shown) + j
          BY <2>5, <3>2, <3>3, <4>2
        <5> HIDE DEF j
        <5>2. Len(crossed) + j \in 1..Len(file')
          BY <3>2, <5>1
        <5>3. Shown'[i] = bytes[j] /\ file'[Len(crossed) + j] = Rx(bytes[j])
          BY <3>2, <3>3, <5>1
        <5> QED
          BY <5>2, <5>3
      <4> QED
        BY <4>1, <4>2
    <3>5. SeenIsKept'
      BY <3>4 DEF SeenIsKept
    <3> QED
      BY <2>4, <3>5
  <2> QED
    BY <2>3, <2>6, <2>7
<1>3. CASE DropTransport
  <2>1. /\ buffer # <<>> /\ Dropped /\ result # "running"
        /\ UNCHANGED <<phase, result, crossed, screen, read, lost>>
    BY <1>3 DEF DropTransport, TypeInv
  <2>2. /\ file \in Seq(Exchanged) /\ buffer \in Seq(Exchanged) /\ crossed \in Seq(Exchanged)
        /\ file \o buffer \in Seq(Exchanged)
    BY DEF TypeInv
  <2>3. /\ file' \in Seq(Exchanged) /\ buffer' = <<>>
        /\ IsPrefix(file', file \o buffer) /\ IsPrefix(file, file')
    BY <2>1, <2>2, DroppedKeepsOrder
  <2>4. IsPrefix(file \o buffer, crossed)
    BY DEF TranscriptInv
  <2>5. IsPrefix(file', crossed)
    BY <2>2, <2>3, <2>4, PrefixTransitive
  <2>6. file' \o buffer' = file'
    BY <2>3, ConcatEmptySeq
  <2>7. SeenIsKept'
    <3>1. Shown' = Shown /\ Shown \in Seq(Nat)
      BY <2>1, ShownType DEF Shown
    <3>2. IsPrefix(Shown', Shown) /\ SeenIsKept
      BY <3>1, PrefixIs DEF TranscriptInv, SeenIsKept
    <3> QED
      BY <2>3, <3>2, SeenStaysKept
  <2>8. ~(result' \in {"running", "ok"} /\ ~lost')
    BY <2>1 DEF TranscriptInv
  <2>9. IsPrefix(file' \o buffer', crossed') /\ result' # "running"
    BY <2>1, <2>5, <2>6
  <2> QED
    BY <2>7, <2>8, <2>9 DEF TranscriptInv, SeenIsKept
<1>4. CASE ~TakeEvent /\ ~ReadPort /\ ~DropTransport
  <2>1. UNCHANGED <<buffer, file, crossed, lost>>
    BY <1>4 DEF Next, Relay, Environment, vars, Banner, EnableRawMode, SetTimeout, PollNothing,
       ReadNothing, Show, ShowFails, Footer, Type, StdoutCloses, Killed, BoardPrints, PortCloses
  <2>2. result' = "ok" => result \in {"running", "ok"}
    BY <1>4 DEF Next, Relay, Environment, vars, Banner, EnableRawMode, SetTimeout, PollNothing,
       ReadNothing, Show, ShowFails, Footer, Type, StdoutCloses, Killed, BoardPrints, PortCloses, End, Kill, TypeInv
  <2>3. IsPrefix(Shown', Shown) /\ (result' = "running" => result = "running")
    BY <1>4, ShownKept
  <2> QED
    BY <2>1, <2>2, <2>3, TranscriptKept
<1> QED
  BY <1>1, <1>2, <1>3, <1>4

-----------------------------------------------------------------------------
(* The theorems *)

ConsoleInv == TypeInv /\ KeysInv /\ PortInv /\ ScreenInv /\ TranscriptInv

LEMMA InvInit == Init => ConsoleInv
<1> SUFFICES ASSUME Init
             PROVE  ConsoleInv
  OBVIOUS
<1> USE DEF Init, TranscriptInit
<1>1. TypeInv
  <2>1. /\ typed \in Seq(TerminalEvents) /\ toHost \in Seq(Nat) /\ atBoard \in Seq(Typable)
        /\ read \in Seq(Nat) /\ screen \in Seq(Nat)
        /\ crossed \in Seq(Exchanged) /\ buffer \in Seq(Exchanged) /\ file \in Seq(Exchanged)
    OBVIOUS
  <2>2. taken \in 0..Len(typed) /\ printed \in 0..MaxTracked
    BY ConsoleAssumption
  <2> QED
    BY <2>1, <2>2 DEF TypeInv, Phases
<1>2. Keyed = <<>>
  BY DEF Keyed, FlattenSeq
<1>3. KeysInv
  <2>1. <<>> \in Seq(Typable) /\ IsPrefix(<<>>, <<>>)
    BY DEF IsPrefix
  <2> QED
    BY <1>2, <2>1 DEF KeysInv
<1>4. Unread = 0
  <2>1. {i \in DOMAIN toHost : toHost[i] # NOISE} = {}
    OBVIOUS
  <2> QED
    BY <2>1, FS_EmptySet DEF Unread
<1>5. PortInv
  BY <1>4 DEF PortInv
<1>6. Shown = <<>> /\ Len(Shown) = 0
  BY DEF Shown
<1>7. ScreenInv
  BY <1>4, <1>6 DEF ScreenInv
<1>8. TranscriptInv
  <2>1. file \o buffer = <<>> /\ IsPrefix(<<>>, <<>>)
    BY DEF IsPrefix
  <2> QED
    BY <1>6, <2>1 DEF TranscriptInv
<1> QED
  BY <1>1, <1>3, <1>5, <1>7, <1>8 DEF ConsoleInv

LEMMA InvStep == ConsoleInv /\ [Next]_vars => ConsoleInv'
<1> SUFFICES ASSUME ConsoleInv, [Next]_vars
             PROVE  ConsoleInv'
  OBVIOUS
<1>1. TypeInv'
  BY TypeStep DEF ConsoleInv
<1>2. KeysInv'
  BY KeysStep DEF ConsoleInv
<1>3. PortInv'
  BY <1>1, PortStep DEF ConsoleInv
<1>4. ScreenInv'
  BY <1>1, <1>3, ScreenStep DEF ConsoleInv
<1>5. TranscriptInv'
  BY <1>1, TranscriptStep DEF ConsoleInv
<1> QED
  BY <1>1, <1>2, <1>3, <1>4, <1>5 DEF ConsoleInv

\* The invariant above holds in every state of every handoff.
THEOREM ConsoleInvariant == Spec => []ConsoleInv
<1> QED
  BY InvInit, InvStep, PTL DEF Spec

\* What the operator types reaches the board: all that the relay has taken, in order and once, and
\* after the exit key nothing (handoff_console, console_action_for_key_event).
THEOREM KeysAreHeeded == Spec => []KeysReachTheBoard
<1>1. ConsoleInv => KeysReachTheBoard
  <2> SUFFICES ASSUME ConsoleInv
               PROVE  KeysReachTheBoard
    OBVIOUS
  <2>1. IsPrefix(atBoard, Keyed) /\ \A i \in 1..taken : Meant(typed[i]) = Leave => i = taken
    BY DEF ConsoleInv, KeysInv
  <2>2. phase = "poll" => atBoard = Keyed
    BY DEF ConsoleInv, TypeInv, KeysInv
  <2> QED
    BY <2>1, <2>2 DEF KeysReachTheBoard
<1> QED
  BY <1>1, ConsoleInvariant, PTL

\* What the board prints is on the screen: from the start of the handoff, in order, and all that
\* was read (handoff_console).
THEOREM ScreenIsTrue == Spec => []ScreenShowsThePort
<1>1. ConsoleInv => ScreenShowsThePort
  <2> SUFFICES ASSUME ConsoleInv
               PROVE  ScreenShowsThePort
    OBVIOUS
  <2>1. /\ screen \in Seq(Nat) /\ read \in Seq(Nat) /\ Shown \in Seq(Nat)
        /\ Len(screen) \in Nat /\ Len(Shown) \in Nat /\ DOMAIN screen = 1..Len(screen)
    BY ShownType DEF ConsoleInv, TypeInv
  <2>2. Len(screen) <= Len(Shown) /\ \A i \in 1..Len(screen) : Shown[i] = screen[i]
    <3>1. Shown = screen \/ Shown = screen \o read
      BY DEF Shown
    <3> QED
      BY <2>1, <3>1
  <2>3. \A i \in 1..Len(screen) : i \in 1..Len(Shown)
    BY <2>1, <2>2
  <2>4. \A i, j \in DOMAIN screen : i < j => screen[i] < screen[j]
    BY <2>1, <2>2, <2>3 DEF ConsoleInv, ScreenInv
  <2>5. ~lost => screen = [i \in DOMAIN screen |-> i]
    <3> SUFFICES ASSUME ~lost
                 PROVE  screen = [i \in DOMAIN screen |-> i]
      OBVIOUS
    <3>1. \A i \in 1..Len(screen) : screen[i] = i
      BY <2>2, <2>3 DEF ConsoleInv, ScreenInv
    <3> QED
      BY <2>1, <3>1
  <2>6. phase = "poll" /\ ~lost => Len(screen) + Len(Traced(toHost)) = printed
    <3> SUFFICES ASSUME phase = "poll", ~lost
                 PROVE  Len(screen) + Len(Traced(toHost)) = printed
      OBVIOUS
    <3>1. Shown = screen /\ Len(Shown) = printed - Unread
      BY DEF ConsoleInv, TypeInv, ScreenInv, Shown
    <3>2. /\ Unread \in Nat /\ Len(toHost) \in Nat /\ Unread <= Len(toHost) /\ printed \in Nat
          /\ \A i \in 1..Len(toHost) : toHost[i] # NOISE <=> i <= Unread
      BY TrackedFirst DEF ConsoleInv
    <3>3. Len(Traced(toHost)) = Unread
      <4>1. toHost \in Seq(Nat) /\ Unread \in 0..Len(toHost)
        BY <3>2 DEF ConsoleInv, TypeInv
      <4> QED
        BY <3>2, <4>1, TracedIs
    <3> QED
      BY <3>1, <3>2, <3>3
  <2> QED
    BY <2>4, <2>5, <2>6 DEF ScreenShowsThePort
<1> QED
  BY <1>1, ConsoleInvariant, PTL

\* The transcript is the first of what crossed the port, in order, with all that the operator has
\* seen, and all of it after a console left in order (TranscriptTransport, handoff_console).
THEOREM TranscriptHolds == Spec => []TranscriptIsHonest
<1>1. ConsoleInv => TranscriptIsHonest
  <2> SUFFICES ASSUME ConsoleInv
               PROVE  TranscriptIsHonest
    OBVIOUS
  <2>1. /\ screen \in Seq(Nat) /\ read \in Seq(Nat) /\ Shown \in Seq(Nat)
        /\ Len(screen) \in Nat /\ Len(Shown) \in Nat /\ DOMAIN screen = 1..Len(screen)
    BY ShownType DEF ConsoleInv, TypeInv
  <2>2. /\ file \in Seq(Exchanged) /\ buffer \in Seq(Exchanged) /\ crossed \in Seq(Exchanged)
        /\ file \o buffer \in Seq(Exchanged) /\ DOMAIN file = 1..Len(file)
    BY DEF ConsoleInv, TypeInv
  <2>3. IsPrefix(file, crossed)
    <3>1. IsPrefix(file, file)
      BY <2>2, PrefixIs
    <3>2. IsPrefix(file, file \o buffer)
      BY <2>2, <3>1, PrefixOfLonger
    <3>3. IsPrefix(file \o buffer, crossed)
      BY DEF ConsoleInv, TranscriptInv
    <3> QED
      BY <2>2, <3>2, <3>3, PrefixTransitive
  <2>4. ASSUME NEW i \in DOMAIN screen
        PROVE  Rx(screen[i]) \in {file[k] : k \in DOMAIN file}
    <3>1. Shown = screen \/ Shown = screen \o read
      BY DEF Shown
    <3>2. i \in 1..Len(Shown) /\ Shown[i] = screen[i]
      BY <2>1, <3>1
    <3>3. PICK k \in 1..Len(file) : file[k] = Rx(Shown[i])
      BY <3>2 DEF ConsoleInv, TranscriptInv
    <3> QED
      BY <2>2, <3>2, <3>3
  <2>5. result = "ok" /\ ~lost => file = crossed
    BY DEF ConsoleInv, TranscriptInv
  <2> QED
    BY <2>3, <2>4, <2>5 DEF TranscriptIsHonest
<1> QED
  BY <1>1, ConsoleInvariant, PTL
===============================================================================
