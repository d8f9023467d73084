---------------------------- MODULE Input_proofs ----------------------------
(* What the parser makes of a request, whole or in parts, and the types of a *)
(* connection's input, proved.                                               *)
EXTENDS ConnectionInput, WellFoundedInduction, TLAPS

-----------------------------------------------------------------------------
(* Sequences. *)

(* More elements, more sequences. *)
LEMMA SeqMonotonic ==
  ASSUME NEW S, NEW T, S \subseteq T, NEW s \in Seq(S)
  PROVE  s \in Seq(T)
OBVIOUS

(* The empty sequence is the one of length 0. *)
LEMMA EmptySeq ==
  ASSUME NEW S
  PROVE  <<>> \in Seq(S) /\ Len(<<>>) = 0 /\ \A s \in Seq(S) : s # <<>> => Len(s) \in Nat \ {0}
OBVIOUS

(* A sequence has a length, and an element at every place. *)
LEMMA LenProperties ==
  ASSUME NEW S, NEW s \in Seq(S)
  PROVE  Len(s) \in Nat /\ DOMAIN s = 1..Len(s)
OBVIOUS

(* Sequences of one length with the same elements are equal. *)
LEMMA SeqEqual ==
  ASSUME NEW S, NEW s \in Seq(S), NEW t \in Seq(S), Len(s) = Len(t), \A i \in 1..Len(s) : s[i] = t[i]
  PROVE  s = t
OBVIOUS

(* The part of s from m to n. *)
LEMMA SubSeqProperties ==
  ASSUME NEW S, NEW s, NEW m \in Int, NEW n \in Int, \A i \in m..n : s[i] \in S
  PROVE  /\ SubSeq(s, m, n) \in Seq(S) /\ Len(SubSeq(s, m, n)) = IF m <= n THEN n - m + 1 ELSE 0
         /\ \A i \in 1..(n - m + 1) : SubSeq(s, m, n)[i] = s[m + i - 1]
OBVIOUS

(* Append is the concatenation with one element. *)
LEMMA AppendIsConcat ==
  ASSUME NEW S, NEW s \in Seq(S), NEW c \in S
  PROVE  Append(s, c) = s \o <<c>>
OBVIOUS

(* Every other sequence has a last element. *)
LEMMA SequenceEmptyOrAppend ==
  ASSUME NEW S, NEW s \in Seq(S), s # <<>>
  PROVE  \E t \in Seq(S), c \in S : s = Append(t, c)
<1> DEFINE t == SubSeq(s, 1, Len(s) - 1)
           c == s[Len(s)]
<1>1. Len(s) \in Nat \ {0} /\ \A i \in 1..Len(s) : s[i] \in S
  OBVIOUS
<1>2. t \in Seq(S) /\ Len(t) = Len(s) - 1 /\ \A i \in 1..Len(t) : t[i] = s[i]
  <2>1. Len(s) - 1 \in Int /\ \A i \in 1..(Len(s) - 1) : s[i] \in S
    BY <1>1
  <2>2. /\ t \in Seq(S) /\ Len(t) = IF 1 <= Len(s) - 1 THEN Len(s) - 1 - 1 + 1 ELSE 0
        /\ \A i \in 1..(Len(s) - 1 - 1 + 1) : t[i] = s[1 + i - 1]
    BY <2>1, SubSeqProperties
  <2> HIDE DEF t
  <2>3. Len(t) = Len(s) - 1
    <3>1. \A n \in Nat \ {0} : n - 1 = IF 1 <= n - 1 THEN n - 1 - 1 + 1 ELSE 0
      OBVIOUS
    <3>2. QED
      BY <1>1, <2>2, <3>1
  <2>4. QED
    BY <1>1, <2>2, <2>3
<1>3. c \in S
  BY <1>1
<1> HIDE DEF t
<1>4. Append(t, c) \in Seq(S) /\ Len(Append(t, c)) = Len(s) /\ \A i \in 1..Len(s) : Append(t, c)[i] = s[i]
  BY <1>1, <1>2, <1>3
<1>5. s = Append(t, c)
  BY <1>4, SeqEqual
<1>6. QED
  BY <1>2, <1>3, <1>5

-----------------------------------------------------------------------------
(* Induction, over a set in place of a predicate. *)

(* A set with 0 that is closed under + 1 has all the natural numbers. *)
LEMMA NatSet ==
  ASSUME NEW S, 0 \in S, \A n \in Nat : n \in S => n + 1 \in S
  PROVE  Nat \subseteq S
<1> SUFFICES ASSUME Nat \ S # {} PROVE FALSE
  OBVIOUS
<1> DEFINE Less == {ss \in Nat \X Nat : ss[1] < ss[2]}
<1>0. IsWellFoundedOn(Less, Nat)
  BY NatLessThanWellFounded DEF OpToRel
<1> HIDE DEF Less
<1>1. PICK x \in Nat \ S : \A y \in Nat \ S : ~(<<y, x>> \in Less)
  BY <1>0, WFMin
<1>2. x # 0 /\ x - 1 \in Nat
  OBVIOUS
<1>3. x - 1 \in S
  <2>1. <<x - 1, x>> \in Nat \X Nat /\ x - 1 < x
    BY <1>2
  <2>2. <<x - 1, x>> \in Less
    BY <2>1 DEF Less
  <2>3. QED
    BY <1>1, <1>2, <2>2
<1>4. QED
  BY <1>2, <1>3

(* A set with the empty sequence that is closed under Append has all the     *)
(* sequences.                                                                *)
LEMMA SeqSet ==
  ASSUME NEW C, NEW S, <<>> \in S, \A s \in Seq(C), c \in C : s \in S => Append(s, c) \in S
  PROVE  Seq(C) \subseteq S
<1> DEFINE N == {n \in Nat : \A s \in Seq(C) : Len(s) = n => s \in S}
<1>1. 0 \in N
  BY EmptySeq
<1>2. ASSUME NEW n \in Nat, n \in N PROVE n + 1 \in N
  <2> SUFFICES ASSUME NEW s \in Seq(C), Len(s) = n + 1 PROVE s \in S
    OBVIOUS
  <2>1. s # <<>>
    OBVIOUS
  <2>2. PICK t \in Seq(C), c \in C : s = Append(t, c)
    BY <2>1, SequenceEmptyOrAppend
  <2>3. Len(t) = n
    BY <2>2
  <2>4. QED
    BY <1>2, <2>2, <2>3
<1> HIDE DEF N
<1>3. Nat \subseteq N
  BY <1>1, <1>2, NatSet
<1>4. QED
  BY <1>3 DEF N

-----------------------------------------------------------------------------
(* Parse and Decimal, character by character. *)

IsRun(g, p, s) ==
  g = [n \in 0..Len(s) |-> IF n = 0 THEN [parser |-> p, parsed |-> 0] ELSE Advance(g[n - 1], s[n])]

(* The loop of Parse runs to its end. *)
LEMMA RunExists ==
  ASSUME NEW p, NEW s \in Seq(Char)
  PROVE  \E g : IsRun(g, p, s)
<1> DEFINE S == {t \in Seq(Char) : \E g : IsRun(g, p, t)}
<1>1. <<>> \in S
  <2> DEFINE g == [n \in 0..0 |-> [parser |-> p, parsed |-> 0]]
  <2>1. IsRun(g, p, <<>>)
    BY DEF IsRun
  <2>2. QED
    BY <2>1
<1>2. ASSUME NEW t \in Seq(Char), NEW c \in Char, t \in S PROVE Append(t, c) \in S
  <2>1. PICK g : IsRun(g, p, t)
    BY <1>2
  <2> DEFINE u == Append(t, c)
             h == [n \in 0..Len(u) |-> IF n <= Len(t) THEN g[n] ELSE Advance(g[Len(t)], c)]
  <2>2. u \in Seq(Char) /\ Len(u) = Len(t) + 1 /\ u[Len(u)] = c /\ \A n \in 1..Len(t) : u[n] = t[n]
    OBVIOUS
  <2>3. \A n \in 0..Len(t) :
          g[n] = IF n = 0 THEN [parser |-> p, parsed |-> 0] ELSE Advance(g[n - 1], t[n])
    BY <2>1 DEF IsRun
  <2> HIDE DEF u
  <2>4. ASSUME NEW n \in 0..Len(u)
        PROVE  h[n] = IF n = 0 THEN [parser |-> p, parsed |-> 0] ELSE Advance(h[n - 1], u[n])
    <3>1. CASE n <= Len(t)
      <4>1. h[n] = g[n] /\ (n # 0 => h[n - 1] = g[n - 1] /\ u[n] = t[n])
        BY <3>1, <2>2
      <4>2. QED
        BY <3>1, <4>1, <2>3
    <3>2. CASE ~(n <= Len(t))
      <4>0. n = Len(t) + 1 /\ n # 0 /\ Len(t) \in 0..Len(u)
        BY <3>2, <2>2
      <4>1. h[n] = Advance(g[Len(t)], c) /\ h[n - 1] = g[Len(t)] /\ u[n] = c
        BY <4>0, <2>2
      <4> HIDE DEF h
      <4>2. QED
        BY <4>0, <4>1
    <3>3. QED
      BY <3>1, <3>2
  <2>5. IsRun(h, p, u)
    <3>1. h = [n \in 0..Len(u) |-> h[n]]
      OBVIOUS
    <3> HIDE DEF h
    <3>2. QED
      BY <2>4, <3>1 DEF IsRun
  <2>6. QED
    BY <2>2, <2>5 DEF u
<1> HIDE DEF S
<1>3. Seq(Char) \subseteq S
  BY <1>1, <1>2, SeqSet
<1>4. QED
  BY <1>3 DEF S

(* The first turns of the loop do not depend on the characters that follow. *)
LEMMA RunUnique ==
  ASSUME NEW p, NEW s \in Seq(Char), NEW g, IsRun(g, p, s), NEW t \in Seq(Char), NEW h, IsRun(h, p, t),
         Len(s) <= Len(t), \A n \in 1..Len(s) : s[n] = t[n]
  PROVE  g[Len(s)] = h[Len(s)]
<1> DEFINE N == {n \in Nat : n <= Len(s) => g[n] = h[n]}
<1>0. /\ \A n \in 0..Len(s) :
           g[n] = IF n = 0 THEN [parser |-> p, parsed |-> 0] ELSE Advance(g[n - 1], s[n])
      /\ \A n \in 0..Len(t) :
           h[n] = IF n = 0 THEN [parser |-> p, parsed |-> 0] ELSE Advance(h[n - 1], t[n])
  BY DEF IsRun
<1>1. 0 \in N
  BY <1>0
<1>2. ASSUME NEW n \in Nat, n \in N PROVE n + 1 \in N
  <2> SUFFICES ASSUME n + 1 <= Len(s) PROVE g[n + 1] = h[n + 1]
    OBVIOUS
  <2>1. g[n + 1] = Advance(g[n], s[n + 1]) /\ h[n + 1] = Advance(h[n], t[n + 1])
    BY <1>0
  <2>2. g[n] = h[n] /\ s[n + 1] = t[n + 1]
    BY <1>2
  <2>3. QED
    BY <2>1, <2>2
<1> HIDE DEF N
<1>3. Nat \subseteq N
  BY <1>1, <1>2, NatSet
<1>4. QED
  BY <1>3 DEF N

(* Parse is the end of the run. *)
LEMMA ParseIsRun ==
  ASSUME NEW p, NEW s \in Seq(Char)
  PROVE  \E g : IsRun(g, p, s) /\ Parse(p, s) = g[Len(s)]
<1> DEFINE run == CHOOSE g : IsRun(g, p, s)
<1>1. \E g : IsRun(g, p, s)
  BY RunExists
<1>2. IsRun(run, p, s)
  BY <1>1, Zenon
<1>3. Parse(p, s) = run[Len(s)]
  BY Zenon DEF Parse, IsRun
<1>4. QED
  BY <1>2, <1>3, Zenon

(* Nothing is read of the empty input. *)
LEMMA ParseEmpty ==
  ASSUME NEW p
  PROVE  Parse(p, <<>>) = [parser |-> p, parsed |-> 0]
<1>1. PICK g : IsRun(g, p, <<>>) /\ Parse(p, <<>>) = g[Len(<<>>)]
  BY ParseIsRun, EmptySeq
<1>2. QED
  BY <1>1 DEF IsRun

(* One more character is one more turn of the loop. *)
LEMMA ParseAppend ==
  ASSUME NEW p, NEW s \in Seq(Char), NEW c \in Char
  PROVE  Parse(p, Append(s, c)) = Advance(Parse(p, s), c)
<1> DEFINE t == Append(s, c)
<1>0. t \in Seq(Char) /\ Len(t) = Len(s) + 1 /\ t[Len(t)] = c /\ \A n \in 1..Len(s) : t[n] = s[n]
  OBVIOUS
<1> HIDE DEF t
<1>1. PICK g : IsRun(g, p, s) /\ Parse(p, s) = g[Len(s)]
  BY ParseIsRun
<1>2. PICK h : IsRun(h, p, t) /\ Parse(p, t) = h[Len(t)]
  BY <1>0, ParseIsRun
<1>3. g[Len(s)] = h[Len(s)]
  <2>1. Len(s) <= Len(t) /\ \A n \in 1..Len(s) : s[n] = t[n]
    BY <1>0
  <2>2. QED
    BY <1>0, <1>1, <1>2, <2>1, RunUnique
<1>4. h[Len(t)] = Advance(h[Len(s)], c)
  BY <1>0, <1>2 DEF IsRun
<1>5. QED
  BY <1>1, <1>2, <1>3, <1>4 DEF t

(* One more digit. *)
Shift(v, c) == 10 * v + DigitValue[c]

IsValue(g, s) ==
  g = [n \in 0..Len(s) |-> IF n = 0 THEN 0 ELSE Shift(g[n - 1], s[n])]

(* Every numeral has a value. *)
LEMMA ValueExists ==
  ASSUME NEW s \in Seq(Digit)
  PROVE  \E g : IsValue(g, s)
<1> DEFINE S == {t \in Seq(Digit) : \E g : IsValue(g, t)}
<1>1. <<>> \in S
  <2> DEFINE g == [n \in 0..0 |-> 0]
  <2>1. IsValue(g, <<>>)
    BY DEF IsValue
  <2>2. QED
    BY <2>1
<1>2. ASSUME NEW t \in Seq(Digit), NEW c \in Digit, t \in S PROVE Append(t, c) \in S
  <2>1. PICK g : IsValue(g, t)
    BY <1>2
  <2> DEFINE u == Append(t, c)
             h == [n \in 0..Len(u) |-> IF n <= Len(t) THEN g[n] ELSE Shift(g[Len(t)], c)]
  <2>2. u \in Seq(Digit) /\ Len(u) = Len(t) + 1 /\ u[Len(u)] = c /\ \A n \in 1..Len(t) : u[n] = t[n]
    OBVIOUS
  <2>3. \A n \in 0..Len(t) :
          g[n] = IF n = 0 THEN 0 ELSE Shift(g[n - 1], t[n])
    BY <2>1 DEF IsValue
  <2> HIDE DEF u
  <2>4. ASSUME NEW n \in 0..Len(u)
        PROVE  h[n] = IF n = 0 THEN 0 ELSE Shift(h[n - 1], u[n])
    <3>1. CASE n <= Len(t)
      <4>1. h[n] = g[n] /\ (n # 0 => h[n - 1] = g[n - 1] /\ u[n] = t[n])
        BY <3>1, <2>2
      <4>2. QED
        BY <3>1, <4>1, <2>3
    <3>2. CASE ~(n <= Len(t))
      <4>0. n = Len(t) + 1 /\ n # 0 /\ Len(t) \in 0..Len(u)
        BY <3>2, <2>2
      <4>1. h[n] = Shift(g[Len(t)], c) /\ h[n - 1] = g[Len(t)] /\ u[n] = c
        BY <4>0, <2>2
      <4> HIDE DEF h
      <4>2. QED
        BY <4>0, <4>1
    <3>3. QED
      BY <3>1, <3>2
  <2>5. IsValue(h, u)
    <3>1. h = [n \in 0..Len(u) |-> h[n]]
      OBVIOUS
    <3> HIDE DEF h
    <3>2. QED
      BY <2>4, <3>1 DEF IsValue
  <2>6. QED
    BY <2>2, <2>5 DEF u
<1> HIDE DEF S
<1>3. Seq(Digit) \subseteq S
  BY <1>1, <1>2, SeqSet
<1>4. QED
  BY <1>3 DEF S

(* The values of the first digits do not depend on the digits that follow. *)
LEMMA ValueUnique ==
  ASSUME NEW s \in Seq(Digit), NEW g, IsValue(g, s), NEW t \in Seq(Digit), NEW h, IsValue(h, t),
         Len(s) <= Len(t), \A n \in 1..Len(s) : s[n] = t[n]
  PROVE  g[Len(s)] = h[Len(s)]
<1> DEFINE N == {n \in Nat : n <= Len(s) => g[n] = h[n]}
<1>0. /\ \A n \in 0..Len(s) :
           g[n] = IF n = 0 THEN 0 ELSE Shift(g[n - 1], s[n])
      /\ \A n \in 0..Len(t) :
           h[n] = IF n = 0 THEN 0 ELSE Shift(h[n - 1], t[n])
  BY DEF IsValue
<1>1. 0 \in N
  BY <1>0
<1>2. ASSUME NEW n \in Nat, n \in N PROVE n + 1 \in N
  <2> SUFFICES ASSUME n + 1 <= Len(s) PROVE g[n + 1] = h[n + 1]
    OBVIOUS
  <2>1. g[n + 1] = Shift(g[n], s[n + 1]) /\ h[n + 1] = Shift(h[n], t[n + 1])
    BY <1>0
  <2>2. g[n] = h[n] /\ s[n + 1] = t[n + 1]
    BY <1>2
  <2>3. QED
    BY <2>1, <2>2
<1> HIDE DEF N
<1>3. Nat \subseteq N
  BY <1>1, <1>2, NatSet
<1>4. QED
  BY <1>3 DEF N

(* Decimal is the value of all digits. *)
LEMMA DecimalIsValue ==
  ASSUME NEW s \in Seq(Digit)
  PROVE  \E g : IsValue(g, s) /\ Decimal(s) = g[Len(s)]
BY ValueExists DEF Decimal, IsValue, Shift

(* No digits are zero. *)
LEMMA DecimalEmpty == Decimal(<<>>) = 0
<1>1. PICK g : IsValue(g, <<>>) /\ Decimal(<<>>) = g[Len(<<>>)]
  BY DecimalIsValue, EmptySeq
<1>2. QED
  BY <1>1 DEF IsValue

(* One more digit is one more decimal place. *)
LEMMA DecimalAppend ==
  ASSUME NEW s \in Seq(Digit), NEW c \in Digit
  PROVE  Decimal(Append(s, c)) = Shift(Decimal(s), c)
<1> DEFINE t == Append(s, c)
<1>0. t \in Seq(Digit) /\ Len(t) = Len(s) + 1 /\ t[Len(t)] = c /\ \A n \in 1..Len(s) : t[n] = s[n]
  OBVIOUS
<1> HIDE DEF t
<1>1. PICK g : IsValue(g, s) /\ Decimal(s) = g[Len(s)]
  BY DecimalIsValue
<1>2. PICK h : IsValue(h, t) /\ Decimal(t) = h[Len(t)]
  BY <1>0, DecimalIsValue
<1>3. g[Len(s)] = h[Len(s)]
  <2>1. Len(s) <= Len(t) /\ \A n \in 1..Len(s) : s[n] = t[n]
    BY <1>0
  <2>2. QED
    BY <1>0, <1>1, <1>2, <2>1, ValueUnique
<1>4. h[Len(t)] = Shift(h[Len(s)], c)
  BY <1>0, <1>2 DEF IsValue
<1>5. QED
  BY <1>1, <1>2, <1>3, <1>4 DEF t

-----------------------------------------------------------------------------
(* The keys of a request, one by one. *)

(* One more key. *)
Join(t, k) == t \o (<<SP>> \o k)

IsText(g, s) ==
  g = [n \in 0..Len(s) |-> IF n = 0 THEN <<>> ELSE Join(g[n - 1], s[n])]

(* Every list of keys has a text. *)
LEMMA TextExists ==
  ASSUME NEW s \in Seq(Word)
  PROVE  \E g : IsText(g, s)
<1> DEFINE S == {t \in Seq(Word) : \E g : IsText(g, t)}
<1>1. <<>> \in S
  <2> DEFINE g == [n \in 0..0 |-> <<>>]
  <2>1. IsText(g, <<>>)
    BY DEF IsText
  <2>2. QED
    BY <2>1
<1>2. ASSUME NEW t \in Seq(Word), NEW c \in Word, t \in S PROVE Append(t, c) \in S
  <2>1. PICK g : IsText(g, t)
    BY <1>2
  <2> DEFINE u == Append(t, c)
             h == [n \in 0..Len(u) |-> IF n <= Len(t) THEN g[n] ELSE Join(g[Len(t)], c)]
  <2>2. u \in Seq(Word) /\ Len(u) = Len(t) + 1 /\ u[Len(u)] = c /\ \A n \in 1..Len(t) : u[n] = t[n]
    OBVIOUS
  <2>3. \A n \in 0..Len(t) :
          g[n] = IF n = 0 THEN <<>> ELSE Join(g[n - 1], t[n])
    BY <2>1 DEF IsText
  <2> HIDE DEF u
  <2>4. ASSUME NEW n \in 0..Len(u)
        PROVE  h[n] = IF n = 0 THEN <<>> ELSE Join(h[n - 1], u[n])
    <3>1. CASE n <= Len(t)
      <4>1. h[n] = g[n] /\ (n # 0 => h[n - 1] = g[n - 1] /\ u[n] = t[n])
        BY <3>1, <2>2
      <4>2. QED
        BY <3>1, <4>1, <2>3
    <3>2. CASE ~(n <= Len(t))
      <4>0. n = Len(t) + 1 /\ n # 0 /\ Len(t) \in 0..Len(u)
        BY <3>2, <2>2
      <4>1. h[n] = Join(g[Len(t)], c) /\ h[n - 1] = g[Len(t)] /\ u[n] = c
        BY <4>0, <2>2
      <4> HIDE DEF h
      <4>2. QED
        BY <4>0, <4>1
    <3>3. QED
      BY <3>1, <3>2
  <2>5. IsText(h, u)
    <3>1. h = [n \in 0..Len(u) |-> h[n]]
      OBVIOUS
    <3> HIDE DEF h
    <3>2. QED
      BY <2>4, <3>1 DEF IsText
  <2>6. QED
    BY <2>2, <2>5 DEF u
<1> HIDE DEF S
<1>3. Seq(Word) \subseteq S
  BY <1>1, <1>2, SeqSet
<1>4. QED
  BY <1>3 DEF S

(* The text of the first keys does not depend on the keys that follow. *)
LEMMA TextUnique ==
  ASSUME NEW s \in Seq(Word), NEW g, IsText(g, s), NEW t \in Seq(Word), NEW h, IsText(h, t),
         Len(s) <= Len(t), \A n \in 1..Len(s) : s[n] = t[n]
  PROVE  g[Len(s)] = h[Len(s)]
<1> DEFINE N == {n \in Nat : n <= Len(s) => g[n] = h[n]}
<1>0. /\ \A n \in 0..Len(s) :
           g[n] = IF n = 0 THEN <<>> ELSE Join(g[n - 1], s[n])
      /\ \A n \in 0..Len(t) :
           h[n] = IF n = 0 THEN <<>> ELSE Join(h[n - 1], t[n])
  BY DEF IsText
<1>1. 0 \in N
  BY <1>0
<1>2. ASSUME NEW n \in Nat, n \in N PROVE n + 1 \in N
  <2> SUFFICES ASSUME n + 1 <= Len(s) PROVE g[n + 1] = h[n + 1]
    OBVIOUS
  <2>1. g[n + 1] = Join(g[n], s[n + 1]) /\ h[n + 1] = Join(h[n], t[n + 1])
    BY <1>0
  <2>2. g[n] = h[n] /\ s[n + 1] = t[n + 1]
    BY <1>2
  <2>3. QED
    BY <2>1, <2>2
<1> HIDE DEF N
<1>3. Nat \subseteq N
  BY <1>1, <1>2, NatSet
<1>4. QED
  BY <1>3 DEF N

(* Keys is the text of all keys. *)
LEMMA KeysIsText ==
  ASSUME NEW s \in Seq(Word)
  PROVE  \E g : IsText(g, s) /\ Keys(s) = g[Len(s)]
BY TextExists DEF Keys, IsText, Join

(* No keys, no characters. *)
LEMMA KeysEmpty == Keys(<<>>) = <<>>
<1>1. PICK g : IsText(g, <<>>) /\ Keys(<<>>) = g[Len(<<>>)]
  BY KeysIsText, EmptySeq
<1>2. QED
  BY <1>1 DEF IsText

(* One more key follows a space. *)
LEMMA KeysJoin ==
  ASSUME NEW s \in Seq(Word), NEW c \in Word
  PROVE  Keys(Append(s, c)) = Join(Keys(s), c)
<1> DEFINE t == Append(s, c)
<1>0. t \in Seq(Word) /\ Len(t) = Len(s) + 1 /\ t[Len(t)] = c /\ \A n \in 1..Len(s) : t[n] = s[n]
  OBVIOUS
<1> HIDE DEF t
<1>1. PICK g : IsText(g, s) /\ Keys(s) = g[Len(s)]
  BY KeysIsText
<1>2. PICK h : IsText(h, t) /\ Keys(t) = h[Len(t)]
  BY <1>0, KeysIsText
<1>3. g[Len(s)] = h[Len(s)]
  <2>1. Len(s) <= Len(t) /\ \A n \in 1..Len(s) : s[n] = t[n]
    BY <1>0
  <2>2. QED
    BY <1>0, <1>1, <1>2, <2>1, TextUnique
<1>4. h[Len(t)] = Join(h[Len(s)], c)
  BY <1>0, <1>2 DEF IsText
<1>5. QED
  BY <1>1, <1>2, <1>3, <1>4 DEF t

-----------------------------------------------------------------------------
(* The types of the parser. *)

(* The value of a digit. *)
LEMMA DigitValues == \A d \in Digit : DigitValue[d] \in 0..9
BY DEF DigitValue, Digit

(* A numeral denotes a natural number. *)
LEMMA DecimalType ==
  ASSUME NEW s \in Seq(Digit)
  PROVE  Decimal(s) \in Nat
<1> DEFINE S == {t \in Seq(Digit) : Decimal(t) \in Nat}
<1>1. <<>> \in S
  BY DecimalEmpty
<1>2. ASSUME NEW t \in Seq(Digit), NEW c \in Digit, t \in S PROVE Append(t, c) \in S
  <2>1. Decimal(Append(t, c)) = 10 * Decimal(t) + DigitValue[c]
    BY DecimalAppend DEF Shift
  <2>2. DigitValue[c] \in 0..9 /\ Decimal(t) \in Nat
    BY <1>2, DigitValues
  <2>3. \A x \in Nat, d \in 0..9 : 10 * x + d \in Nat
    OBVIOUS
  <2>4. Append(t, c) \in Seq(Digit)
    OBVIOUS
  <2>5. QED
    BY <2>1, <2>2, <2>3, <2>4, Zenon
<1> HIDE DEF S
<1>3. Seq(Digit) \subseteq S
  BY <1>1, <1>2, SeqSet
<1>4. QED
  BY <1>3 DEF S

(* A number below the modulus is its own remainder. *)
LEMMA SmallMod ==
  ASSUME NEW a \in Nat, NEW m \in Nat, a < m
  PROVE  a % m = a
OBVIOUS

(* A field stays within its width. *)
LEMMA AddDigitType ==
  ASSUME NEW v \in Unsigned, NEW c \in Digit
  PROVE  AddDigit(v, c) \in Unsigned
<1> USE DEF Unsigned
<1>1. v * 10 + DigitValue[c] \in Nat /\ 2^Width \in Nat /\ 2^Width > 0
  BY DigitValues, WidthAssumption
<1>2. \A a, m \in Nat : m > 0 => a % m \in 0..(m - 1)
  OBVIOUS
<1>3. QED
  BY <1>1, <1>2 DEF AddDigit

(* A turn of the loop leaves the fields with their types. *)
LEMMA ConsumeType ==
  ASSUME NEW p \in ParserFields, NEW c \in Char
  PROVE  Consume(p, c) \in ParserFields
<1>0. p.state \in {"sName", "spKey", "sgKey", "spFlags", "spExprTimeStart", "spExprTime", "spBytes", "sLF"}
  BY DEF ParserFields
<1>a. /\ p.name \in Seq(Char) /\ p.keys \in Seq(Seq(Char)) /\ p.curKey \in Seq(Char)
      /\ p.flags \in Unsigned /\ p.bytes \in Unsigned /\ p.exprtime \in Int
  BY DEF ParserFields
<1>b. /\ Append(p.name, c) \in Seq(Char) /\ Append(p.keys, p.curKey) \in Seq(Seq(Char))
      /\ Append(p.curKey, c) \in Seq(Char) /\ <<>> \in Seq(Char)
  BY <1>a
<1>c. c \in Digit => /\ AddDigit(p.flags, c) \in Unsigned /\ AddDigit(p.bytes, c) \in Unsigned
                     /\ DigitValue[c] \in Int
                     /\ p.exprtime - DigitValue[c] \in Int /\ p.exprtime + DigitValue[c] \in Int
  <2> SUFFICES ASSUME c \in Digit
               PROVE  /\ AddDigit(p.flags, c) \in Unsigned /\ AddDigit(p.bytes, c) \in Unsigned
                      /\ DigitValue[c] \in Int
                      /\ p.exprtime - DigitValue[c] \in Int /\ p.exprtime + DigitValue[c] \in Int
    OBVIOUS
  <2>1. DigitValue[c] \in 0..9
    BY DigitValues
  <2>2. AddDigit(p.flags, c) \in Unsigned /\ AddDigit(p.bytes, c) \in Unsigned
    BY <1>a, AddDigitType
  <2>3. \A e \in Int, d \in 0..9 : d \in Int /\ e - d \in Int /\ e + d \in Int
    OBVIOUS
  <2>4. QED
    BY <1>a, <2>1, <2>2, <2>3
<1>d. Throw(p) \in ParserFields
  BY DEF ParserFields, Throw
<1>1. CASE p.state = "sName"
  <2>1. Consume(p, c) \in {[p EXCEPT !.state = "spKey"], [p EXCEPT !.state = "sgKey"],
                           [p EXCEPT !.state = "sLF"], Throw(p), [p EXCEPT !.name = Append(@, c)]}
    BY <1>1 DEF Consume, EndOfName
  <2>2. [p EXCEPT !.name = Append(@, c)] \in ParserFields
    BY <1>b DEF ParserFields
  <2>3. \A st \in {"spKey", "sgKey", "sLF"} : [p EXCEPT !.state = st] \in ParserFields
    BY DEF ParserFields
  <2>4. QED
    BY <1>d, <2>1, <2>2, <2>3, Zenon
<1>2. CASE p.state = "spKey"
  <2>1. Consume(p, c) = IF c = SP THEN [p EXCEPT !.state = "spFlags", !.keys = Append(@, p.curKey)]
                                  ELSE [p EXCEPT !.curKey = Append(@, c)]
    BY <1>2 DEF Consume
  <2>2. [p EXCEPT !.state = "spFlags", !.keys = Append(@, p.curKey)] \in ParserFields
    BY <1>b DEF ParserFields
  <2>3. [p EXCEPT !.curKey = Append(@, c)] \in ParserFields
    BY <1>b DEF ParserFields
  <2>4. QED
    BY <2>1, <2>2, <2>3, Zenon
<1>3. CASE p.state = "sgKey"
  <2>1. Consume(p, c) = IF c \in {SP, CR} THEN EndOfKey(p, c) ELSE [p EXCEPT !.curKey = Append(@, c)]
    BY <1>3 DEF Consume
  <2>2. EndOfKey(p, c) \in ParserFields
    BY <1>b DEF EndOfKey, ParserFields
  <2>3. [p EXCEPT !.curKey = Append(@, c)] \in ParserFields
    BY <1>b DEF ParserFields
  <2>4. QED
    BY <2>1, <2>2, <2>3, Zenon
<1>4. CASE p.state = "spFlags"
  <2>1. Consume(p, c) \in {[p EXCEPT !.state = "spExprTimeStart", !.negative = FALSE], p, Throw(p)}
          \/ (c \in Digit /\ Consume(p, c) = [p EXCEPT !.flags = AddDigit(@, c)])
    BY <1>4 DEF Consume
  <2>2. [p EXCEPT !.state = "spExprTimeStart", !.negative = FALSE] \in ParserFields
    BY DEF ParserFields
  <2>3. c \in Digit => [p EXCEPT !.flags = AddDigit(@, c)] \in ParserFields
    BY <1>c DEF ParserFields
  <2>4. QED
    BY <1>d, <2>1, <2>2, <2>3, Zenon
<1>5. CASE p.state = "spExprTimeStart"
  BY <1>5, <1>c DEF Consume, ParserFields
<1>6. CASE p.state = "spExprTime"
  <2>1. Consume(p, c) \in {[p EXCEPT !.state = "spBytes"], p}
          \/ (c \in Digit /\ Consume(p, c) = AddToTime(p, c))
    BY <1>6 DEF Consume
  <2>2. c \in Digit => AddToTime(p, c) \in ParserFields
    BY <1>c DEF AddToTime, ParserFields
  <2>3. [p EXCEPT !.state = "spBytes"] \in ParserFields
    BY DEF ParserFields
  <2>4. QED
    BY <2>1, <2>2, <2>3, Zenon
<1>7. CASE p.state = "spBytes"
  <2>1. Consume(p, c) \in {[p EXCEPT !.state = "sLF"], p, Throw(p)}
          \/ (c \in Digit /\ Consume(p, c) = [p EXCEPT !.bytes = AddDigit(@, c)])
    BY <1>7 DEF Consume
  <2>2. [p EXCEPT !.state = "sLF"] \in ParserFields
    BY DEF ParserFields
  <2>3. c \in Digit => [p EXCEPT !.bytes = AddDigit(@, c)] \in ParserFields
    BY <1>c DEF ParserFields
  <2>4. QED
    BY <1>d, <2>1, <2>2, <2>3, Zenon
<1>8. CASE p.state = "sLF"
  <2>1. Consume(p, c) \in {[p EXCEPT !.parse_complete = TRUE], Throw(p)}
    BY <1>8 DEF Consume
  <2>2. [p EXCEPT !.parse_complete = TRUE] \in ParserFields
    BY DEF ParserFields
  <2>3. QED
    BY <1>d, <2>1, <2>2, Zenon
<1>9. QED
  BY <1>0, <1>1, <1>2, <1>3, <1>4, <1>5, <1>6, <1>7, <1>8

(* Parse leaves the fields with their types and consumes no more than it is  *)
(* given.                                                                    *)
LEMMA ParseType ==
  ASSUME NEW p \in ParserFields, NEW s \in Seq(Char)
  PROVE  Parse(p, s) \in [parser : ParserFields, parsed : 0..Len(s)]
<1> DEFINE S == {t \in Seq(Char) : Parse(p, t) \in [parser : ParserFields, parsed : 0..Len(t)]}
<1>1. <<>> \in S
  BY ParseEmpty
<1>2. ASSUME NEW t \in Seq(Char), NEW c \in Char, t \in S PROVE Append(t, c) \in S
  <2>1. Parse(p, Append(t, c)) = Advance(Parse(p, t), c)
    BY ParseAppend
  <2>2. Consume(Parse(p, t).parser, c) \in ParserFields
    BY <1>2, ConsumeType
  <2>3. Len(Append(t, c)) = Len(t) + 1 /\ Append(t, c) \in Seq(Char)
    OBVIOUS
  <2>4. QED
    BY <1>2, <2>1, <2>2, <2>3 DEF Advance
<1> HIDE DEF S
<1>3. Seq(Char) \subseteq S
  BY <1>1, <1>2, SeqSet
<1>4. QED
  BY <1>3 DEF S

(* A parser that is not done has consumed all it was given. *)
LEMMA ParsedAll ==
  ASSUME NEW p, NEW s \in Seq(Char)
  PROVE  LET r == Parse(p, s)
         IN  /\ r = [parser |-> r.parser, parsed |-> r.parsed]
             /\ ~Done(r.parser) => r.parsed = Len(s)
<1> DEFINE Good(r, n) == /\ r = [parser |-> r.parser, parsed |-> r.parsed]
                         /\ ~Done(r.parser) => r.parsed = n
           S == {t \in Seq(Char) : Good(Parse(p, t), Len(t))}
<1>1. <<>> \in S
  BY ParseEmpty
<1>2. ASSUME NEW t \in Seq(Char), NEW c \in Char, t \in S PROVE Append(t, c) \in S
  <2>1. Parse(p, Append(t, c)) = Advance(Parse(p, t), c)
    BY ParseAppend
  <2>2. ASSUME NEW r, NEW n \in Nat, Good(r, n) PROVE Good(Advance(r, c), n + 1)
    BY <2>2 DEF Advance
  <2>3. Append(t, c) \in Seq(Char) /\ Len(Append(t, c)) = Len(t) + 1 /\ Len(t) \in Nat
    OBVIOUS
  <2> HIDE DEF Good
  <2>4. QED
    BY <1>2, <2>1, <2>2, <2>3
<1> HIDE DEF S
<1>3. Seq(Char) \subseteq S
  BY <1>1, <1>2, SeqSet
<1>4. QED
  BY <1>3 DEF S

(* A text may be given to Parse in two parts. *)
LEMMA ParseParts ==
  ASSUME NEW p, NEW s \in Seq(Char), NEW t \in Seq(Char), NEW r, r = Parse(p, s)
  PROVE  Parse(p, s \o t) =
           IF Done(r.parser) THEN r
           ELSE [parser |-> Parse(r.parser, t).parser, parsed |-> Len(s) + Parse(r.parser, t).parsed]
<1> DEFINE Both(q) == IF Done(r.parser) THEN r ELSE [parser |-> q.parser, parsed |-> Len(s) + q.parsed]
           S == {u \in Seq(Char) : Parse(p, s \o u) = Both(Parse(r.parser, u))}
<1>1. <<>> \in S
  <2>1. s \o <<>> = s /\ <<>> \in Seq(Char)
    OBVIOUS
  <2>2. Parse(r.parser, <<>>) = [parser |-> r.parser, parsed |-> 0]
    BY ParseEmpty
  <2>3. r = [parser |-> r.parser, parsed |-> r.parsed] /\ (~Done(r.parser) => r.parsed = Len(s))
    BY ParsedAll
  <2>4. Both([parser |-> r.parser, parsed |-> 0]) = r
    BY <2>3
  <2> HIDE DEF Both
  <2>5. QED
    BY <2>1, <2>2, <2>4
<1>2. ASSUME NEW u \in Seq(Char), NEW c \in Char, u \in S PROVE Append(u, c) \in S
  <2> DEFINE q == Parse(r.parser, u)
  <2>1. Parse(p, s \o Append(u, c)) = Advance(Both(q), c)
    <3>1. s \o Append(u, c) = Append(s \o u, c) /\ s \o u \in Seq(Char)
      OBVIOUS
    <3>2. Parse(p, s \o u) = Both(q)
      BY <1>2
    <3>3. Parse(p, Append(s \o u, c)) = Advance(Parse(p, s \o u), c)
      BY <3>1, ParseAppend
    <3> HIDE DEF Both, q
    <3>4. QED
      BY <3>1, <3>2, <3>3
  <2>2. Parse(r.parser, Append(u, c)) = Advance(q, c)
    BY ParseAppend
  <2>3. q = [parser |-> q.parser, parsed |-> q.parsed] /\ (~Done(q.parser) => q.parsed = Len(u))
    BY ParsedAll
  <2>4. Append(u, c) \in Seq(Char) /\ Len(u) \in Nat /\ Len(s) \in Nat
    OBVIOUS
  <2> HIDE DEF q
  <2>5. Advance(Both(q), c) = Both(Advance(q, c))
    BY <2>3, <2>4 DEF Advance
  <2> HIDE DEF Both
  <2>6. QED
    BY <2>1, <2>2, <2>4, <2>5
<1> HIDE DEF S
<1>3. Seq(Char) \subseteq S
  BY <1>1, <1>2, SeqSet
<1>4. QED
  BY <1>3 DEF S

-----------------------------------------------------------------------------
(* The parts of a request's first line. *)

(* p consumes all of s and becomes q. *)
Fed(p, s, q) == Parse(p, s) = [parser |-> q, parsed |-> Len(s)]

(* One character. *)
LEMMA FedOne ==
  ASSUME NEW p, NEW c \in Char, ~Done(p)
  PROVE  Fed(p, <<c>>, Consume(p, c))
<1>1. <<c>> = Append(<<>>, c) /\ <<>> \in Seq(Char) /\ Len(<<c>>) = 1
  OBVIOUS
<1>2. Parse(p, Append(<<>>, c)) = Advance(Parse(p, <<>>), c)
  BY <1>1, ParseAppend
<1>3. Parse(p, <<>>) = [parser |-> p, parsed |-> 0]
  BY ParseEmpty
<1>4. QED
  BY <1>1, <1>2, <1>3 DEF Fed, Advance

(* A part and the next one. *)
LEMMA FedBoth ==
  ASSUME NEW p, NEW q, NEW u, NEW s \in Seq(Char), NEW t \in Seq(Char),
         Fed(p, s, q), ~Done(q), Fed(q, t, u)
  PROVE  Fed(p, s \o t, u)
<1>1. Parse(p, s \o t) = [parser |-> u, parsed |-> Len(s) + Len(t)]
  BY ParseParts DEF Fed
<1>2. Len(s \o t) = Len(s) + Len(t)
  OBVIOUS
<1>3. QED
  BY <1>1, <1>2 DEF Fed

(* Parse takes one more character. *)
LEMMA FedAppend ==
  ASSUME NEW p, NEW q, NEW s \in Seq(Char), NEW c \in Char, Fed(p, s, q), ~Done(q)
  PROVE  Fed(p, Append(s, c), Consume(q, c))
<1>1. Parse(p, Append(s, c)) = Advance(Parse(p, s), c)
  BY ParseAppend
<1>2. QED
  BY <1>1 DEF Fed, Advance

(* A character appended to the second of two parts. *)
LEMMA AppendConcat ==
  ASSUME NEW s \in Seq(Char), NEW t \in Seq(Char), NEW c \in Char
  PROVE  Append(s \o t, c) = s \o Append(t, c)
OBVIOUS

(* Parts of a text put together. *)
LEMMA Concat ==
  ASSUME NEW s \in Seq(Char), NEW t \in Seq(Char), NEW u \in Seq(Char)
  PROVE  (s \o t) \o u = s \o (t \o u) /\ s \o t \in Seq(Char) /\ s \o <<>> = s /\ <<>> \o s = s
OBVIOUS

(* Parts may be put together in any order. *)
LEMMA Assoc ==
  ASSUME NEW s \in Seq(Char), NEW t \in Seq(Char), NEW u \in Seq(Char)
  PROVE  (s \o t) \o u = s \o (t \o u)
OBVIOUS

(* Two characters put together. *)
LEMMA Two ==
  ASSUME NEW a \in Char, NEW b \in Char
  PROVE  <<a>> \o <<b>> = <<a, b>>
<1>1. <<a>> \in Seq(Char)
  OBVIOUS
<1>2. Append(<<a>>, b) = <<a>> \o <<b>>
  BY <1>1, AppendIsConcat
<1>3. Append(<<a>>, b) = <<a, b>>
  <2>1. <<a, b>> \in Seq(Char) /\ Append(<<a>>, b) \in Seq(Char)
    OBVIOUS
  <2>2. Len(<<a, b>>) = 2 /\ Len(Append(<<a>>, b)) = 2
    OBVIOUS
  <2>3. \A i \in 1..2 : <<a, b>>[i] = Append(<<a>>, b)[i]
    OBVIOUS
  <2>4. QED
    BY <2>1, <2>2, <2>3, SeqEqual
<1>4. QED
  BY <1>2, <1>3, Zenon

(* The end of a line. *)
LEMMA LineBreak == <<CR>> \o <<LF>> = <<CR, LF>>
BY Two, CharAssumption

(* Concatenation under a name of its own: the provers then leave it alone. *)
Cat(s, t) == s \o t

(* Two texts make a text, as long as both together. *)
LEMMA CatProps ==
  ASSUME NEW s \in Seq(Char), NEW t \in Seq(Char)
  PROVE  /\ Cat(s, t) \in Seq(Char) /\ Len(Cat(s, t)) = Len(s) + Len(t)
         /\ Cat(s, <<>>) = s /\ Cat(<<>>, s) = s
         /\ Cat(s, t) = <<>> => s = <<>> /\ t = <<>>
BY DEF Cat

(* Texts may be put together in any order. *)
LEMMA CatAssoc ==
  ASSUME NEW s \in Seq(Char), NEW t \in Seq(Char), NEW u \in Seq(Char)
  PROVE  Cat(Cat(s, t), u) = Cat(s, Cat(t, u))
BY DEF Cat

(* Four parts put together from the right or from the left. *)
LEMMA Concat4 ==
  ASSUME NEW s \in Seq(Char), NEW t \in Seq(Char), NEW u \in Seq(Char), NEW v \in Seq(Char)
  PROVE  s \o (t \o (u \o v)) = ((s \o t) \o u) \o v /\ s \o (t \o (u \o v)) \in Seq(Char)
<1>1. Cat(t, u) \in Seq(Char) /\ Cat(u, v) \in Seq(Char)
  BY CatProps
<1>2. Cat(t, Cat(u, v)) \in Seq(Char)
  BY <1>1, CatProps
<1>3. Cat(s, Cat(t, Cat(u, v))) \in Seq(Char)
  BY <1>2, CatProps
<1>4. Cat(s, Cat(t, Cat(u, v))) = Cat(Cat(Cat(s, t), u), v)
  <2>1. Cat(Cat(t, u), v) = Cat(t, Cat(u, v)) /\ Cat(Cat(s, t), u) = Cat(s, Cat(t, u))
    BY CatAssoc
  <2>2. Cat(Cat(s, Cat(t, u)), v) = Cat(s, Cat(Cat(t, u), v))
    BY <1>1, CatAssoc
  <2>3. QED
    BY <2>1, <2>2, Zenon
<1>5. QED
  BY <1>3, <1>4, Zenon DEF Cat

(* A sequence of one element. *)
LEMMA Singleton ==
  ASSUME NEW C, NEW s \in Seq(C), Len(s) = 1
  PROVE  s[1] \in C /\ s = <<s[1]>>
OBVIOUS

(* A word is made of characters. *)
LEMMA Words == Word \subseteq Seq(Char) /\ Seq(Word) \subseteq Seq(Seq(Char))
<1>1. Char \ {SP, CR} \subseteq Char
  OBVIOUS
<1>2. Word \subseteq Seq(Char)
  BY <1>1, SeqMonotonic DEF Word
<1>3. QED
  BY <1>2, SeqMonotonic

(* The name of a command. *)
LEMMA FedName ==
  ASSUME NEW p \in ParserFields, p.state = "sName", ~Done(p), NEW s \in Word
  PROVE  Fed(p, s, [p EXCEPT !.name = @ \o s])
<1>0. /\ p.name \in Seq(Char)
      /\ \A t \in Seq(Char), c \in Char : Append(p.name \o t, c) = p.name \o Append(t, c)
  <2>1. p.name \in Seq(Char)
    BY DEF ParserFields
  <2>2. QED
    BY <2>1, AppendConcat
<1> DEFINE Q(t) == [p EXCEPT !.name = @ \o t]
           S == {t \in Word : Fed(p, t, Q(t))}
<1>1. <<>> \in S
  <2>1. Q(<<>>) = p
    BY <1>0 DEF ParserFields
  <2>2. Fed(p, <<>>, p) /\ <<>> \in Word
    BY ParseEmpty DEF Fed, Word
  <2> HIDE DEF Q
  <2>3. QED
    BY <2>1, <2>2
<1>2. ASSUME NEW t \in Word, NEW c \in Char \ {SP, CR}, t \in S PROVE Append(t, c) \in S
  <2> DEFINE q == Q(t)
  <2>0. t \in Seq(Char) /\ c \in Char
    BY Words
  <2>1. Fed(p, t, q)
    BY <1>2
  <2>2. ~Done(q) /\ q.state = "sName"
    BY DEF Done, ParserFields
  <2>3. Consume(q, c) = [q EXCEPT !.name = Append(@, c)]
    BY <2>2 DEF Consume
  <2>4. [q EXCEPT !.name = Append(@, c)] = Q(Append(t, c))
    <3>1. Append(p.name \o t, c) = p.name \o Append(t, c)
      BY <1>0, <2>0
    <3>2. QED
      BY <3>1 DEF ParserFields
  <2>5. Append(t, c) \in Word
    BY DEF Word
  <2> HIDE DEF q, Q
  <2>6. QED
    BY <2>0, <2>1, <2>2, <2>3, <2>4, <2>5, FedAppend
<1> HIDE DEF S
<1>3. Word \subseteq S
  BY <1>1, <1>2, SeqSet DEF Word
<1>4. QED
  BY <1>3 DEF S

(* A key. *)
LEMMA FedKey ==
  ASSUME NEW p \in ParserFields, p.state \in {"spKey", "sgKey"}, ~Done(p), NEW s \in Word
  PROVE  Fed(p, s, [p EXCEPT !.curKey = @ \o s])
<1>0. /\ p.curKey \in Seq(Char)
      /\ \A t \in Seq(Char), c \in Char : Append(p.curKey \o t, c) = p.curKey \o Append(t, c)
  <2>1. p.curKey \in Seq(Char)
    BY DEF ParserFields
  <2>2. QED
    BY <2>1, AppendConcat
<1> DEFINE Q(t) == [p EXCEPT !.curKey = @ \o t]
           S == {t \in Word : Fed(p, t, Q(t))}
<1>1. <<>> \in S
  <2>1. Q(<<>>) = p
    BY <1>0 DEF ParserFields
  <2>2. Fed(p, <<>>, p) /\ <<>> \in Word
    BY ParseEmpty DEF Fed, Word
  <2> HIDE DEF Q
  <2>3. QED
    BY <2>1, <2>2
<1>2. ASSUME NEW t \in Word, NEW c \in Char \ {SP, CR}, t \in S PROVE Append(t, c) \in S
  <2> DEFINE q == Q(t)
  <2>0. t \in Seq(Char) /\ c \in Char
    BY Words
  <2>1. Fed(p, t, q)
    BY <1>2
  <2>2. ~Done(q) /\ q.state \in {"spKey", "sgKey"}
    BY DEF Done, ParserFields
  <2>3. Consume(q, c) = [q EXCEPT !.curKey = Append(@, c)]
    BY <2>2 DEF Consume
  <2>4. [q EXCEPT !.curKey = Append(@, c)] = Q(Append(t, c))
    <3>1. Append(p.curKey \o t, c) = p.curKey \o Append(t, c)
      BY <1>0, <2>0
    <3>2. QED
      BY <3>1 DEF ParserFields
  <2>5. Append(t, c) \in Word
    BY DEF Word
  <2> HIDE DEF q, Q
  <2>6. Fed(p, Append(t, c), Consume(q, c))
    BY <2>0, <2>1, <2>2, FedAppend
  <2>7. QED
    BY <2>3, <2>4, <2>5, <2>6
<1> HIDE DEF S
<1>3. Word \subseteq S
  BY <1>1, <1>2, SeqSet DEF Word
<1>4. QED
  BY <1>3 DEF S

(* A numeral is made of characters, none of which ends it. *)
LEMMA Numerals ==
  /\ Seq(Digit) \subseteq Seq(Char) /\ Digit \subseteq Char
  /\ SP \notin Digit /\ CR \notin Digit /\ LF \notin Digit /\ "-" \notin Digit
<1>1. Digit \subseteq Char
  BY CharAssumption
<1>2. Seq(Digit) \subseteq Seq(Char)
  BY <1>1, SeqMonotonic
<1>3. QED
  BY <1>1, <1>2 DEF SP, CR, LF, Digit

(* The flags, which are in range. *)
LEMMA FedFlags ==
  ASSUME NEW p \in ParserFields, p.state = "spFlags", p.flags = 0, ~Done(p),
         NEW s \in Seq(Digit), Decimal(s) < 2^Width
  PROVE  Fed(p, s, [p EXCEPT !.flags = Decimal(s)])
<1> DEFINE Q(t) == [p EXCEPT !.flags = Decimal(t)]
           S == {t \in Seq(Digit) : Decimal(t) < 2^Width => Fed(p, t, Q(t))}
<1>1. <<>> \in S
  <2>1. Decimal(<<>>) = 0
    BY DecimalEmpty
  <2>2. Q(<<>>) = p
    BY <2>1 DEF ParserFields
  <2>3. Fed(p, <<>>, p) /\ <<>> \in Seq(Digit)
    BY ParseEmpty DEF Fed
  <2> HIDE DEF Q
  <2>4. QED
    BY <2>1, <2>2, <2>3
<1>2. ASSUME NEW t \in Seq(Digit), NEW c \in Digit, t \in S PROVE Append(t, c) \in S
  <2> DEFINE v == Decimal(t)
             w == Decimal(Append(t, c))
             q == Q(t)
  <2>1. v \in Nat /\ (v < 2^Width => Fed(p, t, q))
    BY <1>2, DecimalType
  <2>2. DigitValue[c] \in 0..9 /\ w = 10 * v + DigitValue[c]
    BY DigitValues, DecimalAppend DEF Shift
  <2>3. w \in Nat /\ v <= w
    <3>1. \A x \in Nat, d \in 0..9 : 10 * x + d \in Nat /\ x <= 10 * x + d
      OBVIOUS
    <3> HIDE DEF v, w
    <3>2. QED
      BY <2>1, <2>2, <3>1, Zenon
  <2>4. Append(t, c) \in Seq(Digit)
    OBVIOUS
  <2>5. ASSUME w < 2^Width PROVE Fed(p, Append(t, c), Q(Append(t, c)))
    <3>1. v < 2^Width /\ AddDigit(v, c) = w /\ ~Overflows(v, c)
      <4> HIDE DEF v, w
      <4>1. v * 10 + DigitValue[c] = w /\ v < 2^Width
        BY <2>1, <2>2, <2>3, <2>5, WidthAssumption
      <4>2. \A a, m \in Nat : a < m => a % m = a
        OBVIOUS
      <4>3. w % 2^Width = w
        BY <2>3, <2>5, <4>2, WidthAssumption
      <4>4. QED
        BY <2>1, <2>3, <4>1, <4>3 DEF AddDigit, Overflows
    <3>2. ~Done(q) /\ q.state = "spFlags" /\ q.flags = v
      BY DEF Done, ParserFields
    <3>3. c \in Char /\ c # SP /\ t \in Seq(Char)
      BY Numerals
    <3>4. Fed(p, Append(t, c), Consume(q, c))
      <4> HIDE DEF q
      <4> QED BY <2>1, <3>1, <3>2, <3>3, FedAppend
    <3>5. Consume(q, c) = [q EXCEPT !.flags = w]
      <4> HIDE DEF q, v, w
      <4> QED BY <3>1, <3>2, <3>3 DEF Consume
    <3>6. [q EXCEPT !.flags = w] = Q(Append(t, c))
      BY DEF ParserFields
    <3>7. QED
      BY <3>4, <3>5, <3>6
  <2> HIDE DEF Q
  <2>6. QED
    BY <2>3, <2>4, <2>5
<1> HIDE DEF S
<1>3. Seq(Digit) \subseteq S
  BY <1>1, <1>2, SeqSet
<1>4. QED
  BY <1>3 DEF S

(* The number of bytes, likewise. *)
LEMMA FedSize ==
  ASSUME NEW p \in ParserFields, p.state = "spBytes", p.bytes = 0, ~Done(p),
         NEW s \in Seq(Digit), Decimal(s) < 2^Width
  PROVE  Fed(p, s, [p EXCEPT !.bytes = Decimal(s)])
<1> DEFINE Q(t) == [p EXCEPT !.bytes = Decimal(t)]
           S == {t \in Seq(Digit) : Decimal(t) < 2^Width => Fed(p, t, Q(t))}
<1>1. <<>> \in S
  <2>1. Decimal(<<>>) = 0
    BY DecimalEmpty
  <2>2. Q(<<>>) = p
    BY <2>1 DEF ParserFields
  <2>3. Fed(p, <<>>, p) /\ <<>> \in Seq(Digit)
    BY ParseEmpty DEF Fed
  <2> HIDE DEF Q
  <2>4. QED
    BY <2>1, <2>2, <2>3
<1>2. ASSUME NEW t \in Seq(Digit), NEW c \in Digit, t \in S PROVE Append(t, c) \in S
  <2> DEFINE v == Decimal(t)
             w == Decimal(Append(t, c))
             q == Q(t)
  <2>1. v \in Nat /\ (v < 2^Width => Fed(p, t, q))
    BY <1>2, DecimalType
  <2>2. DigitValue[c] \in 0..9 /\ w = 10 * v + DigitValue[c]
    BY DigitValues, DecimalAppend DEF Shift
  <2>3. w \in Nat /\ v <= w
    <3>1. \A x \in Nat, d \in 0..9 : 10 * x + d \in Nat /\ x <= 10 * x + d
      OBVIOUS
    <3> HIDE DEF v, w
    <3>2. QED
      BY <2>1, <2>2, <3>1, Zenon
  <2>4. Append(t, c) \in Seq(Digit)
    OBVIOUS
  <2>5. ASSUME w < 2^Width PROVE Fed(p, Append(t, c), Q(Append(t, c)))
    <3>1. v < 2^Width /\ AddDigit(v, c) = w /\ ~Overflows(v, c)
      <4> HIDE DEF v, w
      <4>1. v * 10 + DigitValue[c] = w /\ v < 2^Width
        BY <2>1, <2>2, <2>3, <2>5, WidthAssumption
      <4>2. \A a, m \in Nat : a < m => a % m = a
        OBVIOUS
      <4>3. w % 2^Width = w
        BY <2>3, <2>5, <4>2, WidthAssumption
      <4>4. QED
        BY <2>1, <2>3, <4>1, <4>3 DEF AddDigit, Overflows
    <3>2. ~Done(q) /\ q.state = "spBytes" /\ q.bytes = v
      BY DEF Done, ParserFields
    <3>3. c \in Char /\ c # CR /\ t \in Seq(Char)
      BY Numerals
    <3>4. Fed(p, Append(t, c), Consume(q, c))
      <4> HIDE DEF q
      <4> QED BY <2>1, <3>1, <3>2, <3>3, FedAppend
    <3>5. Consume(q, c) = [q EXCEPT !.bytes = w]
      <4> HIDE DEF q, v, w
      <4> QED BY <3>1, <3>2, <3>3 DEF Consume
    <3>6. [q EXCEPT !.bytes = w] = Q(Append(t, c))
      BY DEF ParserFields
    <3>7. QED
      BY <3>4, <3>5, <3>6
  <2> HIDE DEF Q
  <2>6. QED
    BY <2>3, <2>4, <2>5
<1> HIDE DEF S
<1>3. Seq(Digit) \subseteq S
  BY <1>1, <1>2, SeqSet
<1>4. QED
  BY <1>3 DEF S

(* What `unusual' calls a time of several digits *)
ManyDigits(e) == \E i, j \in DOMAIN e : i # j /\ {e[i], e[j]} \subseteq Digit

(* A time that has not several digits has one. *)
LEMMA ShortTime ==
  ASSUME NEW e \in Seq(Digit \cup {"-"}), e # <<>>, ~ManyDigits(e),
         Number(e) \/ (Head(e) = "-" /\ Number(Tail(e)))
  PROVE  \E d \in Digit : e = <<d>> \/ e = <<"-", d>>
<1> DEFINE S == {i \in DOMAIN e : e[i] \in Digit}
<1>1. Len(e) \in Nat /\ Len(e) >= 1 /\ S \subseteq 1..Len(e) /\ DOMAIN e = 1..Len(e)
  OBVIOUS
<1>2. ASSUME NEW i \in S, NEW j \in S, i # j PROVE FALSE
  BY <1>2 DEF ManyDigits
<1>3. CASE Number(e)
  <2>1. \A i \in 1..Len(e) : e[i] \in Digit
    BY <1>3 DEF Number
  <2>2. ~(Len(e) >= 2)
    BY <1>1, <1>2, <2>1
  <2>3. e = <<e[1]>>
    BY <1>1, <2>2
  <2>4. e[1] \in Digit
    BY <1>1, <2>1
  <2>5. QED
    BY <2>3, <2>4, Zenon
<1>4. CASE Head(e) = "-" /\ Number(Tail(e))
  <2>1. Len(Tail(e)) = Len(e) - 1 /\ Len(e) >= 2 /\ \A i \in 2..Len(e) : e[i] = Tail(e)[i - 1]
    BY <1>1, <1>4 DEF Number
  <2>2. \A i \in 2..Len(e) : e[i] \in Digit
    BY <1>1, <1>4, <2>1 DEF Number
  <2>3. ~(Len(e) >= 3)
    BY <1>1, <1>2, <2>2
  <2>4. e = <<"-", e[2]>>
    BY <1>1, <1>4, <2>1, <2>3
  <2>5. e[2] \in Digit
    BY <2>1, <2>2
  <2>6. QED
    BY <2>4, <2>5, Zenon
<1>5. QED
  BY <1>3, <1>4

(* The value of one digit. *)
LEMMA DecimalOne ==
  ASSUME NEW d \in Digit
  PROVE  Decimal(<<d>>) = DigitValue[d]
<1>1. <<d>> = Append(<<>>, d) /\ <<>> \in Seq(Digit)
  OBVIOUS
<1>2. Decimal(Append(<<>>, d)) = Shift(Decimal(<<>>), d)
  BY <1>1, DecimalAppend
<1>3. QED
  BY <1>1, <1>2, DecimalEmpty, DigitValues DEF Shift

(* Its type *)
LEMMA TimeType ==
  ASSUME NEW e, NEW d \in Digit, e = <<d>> \/ e = <<"-", d>>
  PROVE  e \in Seq(Char) /\ Time(e) \in Int
<1>1. DigitValue[d] \in 0..9 /\ d # "-" /\ Decimal(<<d>>) = DigitValue[d] /\ d \in Char /\ "-" \in Char
  BY DigitValues, Numerals, DecimalOne, CharAssumption
<1>2. CASE e = <<d>>
  <2>1. Head(e) = d /\ e \in Seq(Char)
    BY <1>1, <1>2
  <2>2. Time(e) = DigitValue[d]
    BY <1>1, <1>2, <2>1 DEF Time
  <2>3. QED
    BY <1>1, <2>1, <2>2
<1>3. CASE e = <<"-", d>>
  <2>1. Head(e) = "-" /\ Tail(e) = <<d>> /\ e \in Seq(Char)
    BY <1>1, <1>3
  <2>2. Time(e) = 0 - DigitValue[d]
    BY <1>1, <2>1 DEF Time
  <2>3. QED
    BY <1>1, <2>1, <2>2
<1>4. QED
  BY <1>2, <1>3

(* The time, which has one digit. *)
LEMMA FedTime ==
  ASSUME NEW p \in ParserFields, p.state = "spExprTimeStart", p.exprtime = 0, ~Done(p),
         NEW e, NEW d \in Digit, e = <<d>> \/ e = <<"-", d>>
  PROVE  \E b \in BOOLEAN :
           Fed(p, e, [p EXCEPT !.state = "spExprTime", !.exprtime = Time(e), !.negative = b])
<1>0. d \in Char /\ d # "-" /\ d # SP /\ "-" \in Char /\ DigitValue[d] \in 0..9
  BY Numerals, CharAssumption, DigitValues
<1>1. CASE e = <<d>>
  <2> DEFINE q == [p EXCEPT !.state = "spExprTime", !.exprtime = DigitValue[d]]
  <2>1. Consume(p, d) = q
    BY <1>0 DEF Consume
  <2>2. Time(e) = DigitValue[d]
    BY <1>0, <1>1, DecimalOne DEF Time
  <2>3. q = [p EXCEPT !.state = "spExprTime", !.exprtime = DigitValue[d], !.negative = p.negative]
    BY DEF ParserFields
  <2>4. Fed(p, <<d>>, q)
    BY <1>0, <2>1, FedOne
  <2>5. p.negative \in BOOLEAN
    BY DEF ParserFields
  <2>6. QED
    BY <1>1, <2>2, <2>3, <2>4, <2>5
<1>2. CASE e = <<"-", d>>
  <2> DEFINE q == [p EXCEPT !.state = "spExprTime", !.negative = TRUE]
             u == [p EXCEPT !.state = "spExprTime", !.exprtime = 0 - DigitValue[d], !.negative = TRUE]
  <2>1. Consume(p, "-") = q
    BY DEF Consume
  <2>2. Fed(p, <<"-">>, q)
    BY <1>0, <2>1, FedOne
  <2>3. ~Done(q) /\ q.state = "spExprTime" /\ q.negative /\ q.exprtime = 0
    BY DEF Done, ParserFields
  <2>4. Consume(q, d) = [q EXCEPT !.exprtime = 0 - DigitValue[d]]
    <3> HIDE DEF q
    <3> QED BY <1>0, <2>3 DEF Consume, AddToTime
  <2>5. [q EXCEPT !.exprtime = 0 - DigitValue[d]] = u
    BY DEF ParserFields
  <2>6. <<"-", d>> = Append(<<"-">>, d) /\ <<"-">> \in Seq(Char)
    BY <1>0
  <2>7. Fed(p, Append(<<"-">>, d), Consume(q, d))
    <3> HIDE DEF q
    <3> QED BY <1>0, <2>2, <2>3, <2>6, FedAppend
  <2>8. Time(e) = 0 - DigitValue[d]
    <3>1. Head(e) = "-" /\ Tail(e) = <<d>>
      BY <1>2
    <3>2. QED
      BY <3>1, DecimalOne DEF Time
  <2>9. Fed(p, e, u)
    BY <1>2, <2>4, <2>5, <2>6, <2>7
  <2>10. QED
    BY <2>8, <2>9
<1>3. QED
  BY <1>1, <1>2

-----------------------------------------------------------------------------
(* What Parse makes of a request's first line. *)

(* A parser as the constructor or Reset leaves it. *)
Fresh(p) == \E b \in BOOLEAN : p = [NewParser EXCEPT !.negative = b]

(* The fields of a parser in the course of a line. *)
At(p, s, name, keys, curKey, flags, time, bytes, complete) ==
  /\ p \in ParserFields /\ p.state = s /\ p.name = name /\ p.keys = keys /\ p.curKey = curKey
  /\ p.flags = flags /\ p.exprtime = time /\ p.bytes = bytes
  /\ p.parse_complete = complete /\ ~p.thrown

(* Zero fits into a field. *)
LEMMA Zero == 0 \in Unsigned
BY WidthAssumption DEF Unsigned

(* The fields are empty in the beginning. *)
LEMMA FreshAt ==
  ASSUME NEW p, Fresh(p)
  PROVE  At(p, "sName", <<>>, <<>>, <<>>, 0, 0, 0, FALSE) /\ ~Done(p)
<1>1. 0 \in Unsigned /\ <<>> \in Seq(Char) /\ <<>> \in Seq(Seq(Char))
  BY Zero
<1>2. NewParser \in ParserFields
  BY <1>1 DEF NewParser, ParserFields
<1>3. p \in ParserFields
  BY <1>2 DEF Fresh, ParserFields
<1>4. QED
  BY <1>3 DEF At, Done, Fresh, NewParser

(* A character after a part. *)
LEMMA FedChar ==
  ASSUME NEW p, NEW q \in ParserFields, NEW h \in Seq(Char), NEW c \in Char, Fed(p, h, q), ~Done(q)
  PROVE  Fed(p, h \o <<c>>, Consume(q, c)) /\ h \o <<c>> \in Seq(Char) /\ Consume(q, c) \in ParserFields
<1>1. Fed(q, <<c>>, Consume(q, c)) /\ <<c>> \in Seq(Char)
  BY FedOne
<1>2. Fed(p, h \o <<c>>, Consume(q, c))
  BY <1>1, FedBoth
<1>3. h \o <<c>> \in Seq(Char)
  BY <1>1
<1>4. QED
  BY <1>2, <1>3, ConsumeType

(* The end of a line. *)
LEMMA LineEnd ==
  ASSUME NEW p, NEW h \in Seq(Char), NEW q \in ParserFields, Fed(p, h, q), ~Done(q), NEW n, NEW ks, NEW k,
         NEW f, NEW t, NEW m, At(Consume(q, CR), "sLF", n, ks, k, f, t, m, FALSE)
  PROVE  \E u : Fed(p, h \o <<CR, LF>>, u) /\ At(u, "sLF", n, ks, k, f, t, m, TRUE)
<1> DEFINE v == Consume(q, CR)
           u == Consume(v, LF)
<1>0. CR \in Char /\ LF \in Char
  BY CharAssumption
<1>1. Fed(p, h \o <<CR>>, v) /\ h \o <<CR>> \in Seq(Char)
  BY <1>0, FedChar
<1>2. v \in ParserFields /\ ~Done(v) /\ At(v, "sLF", n, ks, k, f, t, m, FALSE)
  BY DEF At, Done
<1> HIDE DEF v
<1>3. Fed(p, (h \o <<CR>>) \o <<LF>>, u) /\ u \in ParserFields
  BY <1>0, <1>1, <1>2, FedChar
<1>4. At(u, "sLF", n, ks, k, f, t, m, TRUE)
  BY <1>2, <1>3 DEF At, Consume, ParserFields
<1>5. (h \o <<CR>>) \o <<LF>> = h \o <<CR, LF>>
  <2> DEFINE a == <<CR>>
             b == <<LF>>
  <2>1. a \in Seq(Char) /\ b \in Seq(Char) /\ a \o b = <<CR, LF>>
    BY <1>0, LineBreak
  <2> HIDE DEF a, b
  <2>2. (h \o a) \o b = h \o (a \o b)
    BY <2>1, Assoc, Zenon
  <2>3. QED
    BY <2>1, <2>2 DEF a, b
<1>6. QED
  BY <1>3, <1>4, <1>5

(* What the parser is to be at the end of a request's first line. *)
Understood(q, r) ==
  /\ q.parse_complete /\ ~q.thrown /\ q.name = r.name
  /\ q.bytes = (IF r.name \in PutNames THEN Len(r.data) ELSE 0)
  /\ Build(q) = Meaning(r).command

(* The first line of set, add, append or prepend, part by part. *)
LEMMA FedPut ==
  ASSUME NEW n \in Word, n \in PutNames, NEW k \in Word, NEW fs \in Seq(Digit), Decimal(fs) < 2^Width,
         NEW e, NEW d \in Digit, e = <<d>> \/ e = <<"-", d>>, NEW bs \in Seq(Digit), Decimal(bs) < 2^Width,
         NEW p, Fresh(p)
  PROVE  \E q : /\ Fed(p, n \o <<SP>> \o k \o <<SP>> \o fs \o <<SP>> \o e \o <<SP>> \o bs \o <<CR, LF>>, q)
                /\ At(q, "sLF", n, <<k>>, k, Decimal(fs), Time(e), Decimal(bs), TRUE)
<1>1. n \in Seq(Char) /\ k \in Seq(Char) /\ <<k>> \in Seq(Seq(Char)) /\ fs \in Seq(Char)
      /\ bs \in Seq(Char) /\ SP \in Char /\ CR \in Char
  BY Words, Numerals, CharAssumption
<1>2. e \in Seq(Char)
  BY TimeType
<1> DEFINE h1 == n \o <<SP>>
           h2 == h1 \o k
           h3 == h2 \o <<SP>>
           h4 == h3 \o fs
           h5 == h4 \o <<SP>>
           h6 == h5 \o e
           h7 == h6 \o <<SP>>
           h8 == h7 \o bs
<1>3. PICK q1 : Fed(p, h1, q1) /\ h1 \in Seq(Char) /\ At(q1, "spKey", n, <<>>, <<>>, 0, 0, 0, FALSE)
  <2> DEFINE q0 == [p EXCEPT !.name = @ \o n]
  <2>1. At(p, "sName", <<>>, <<>>, <<>>, 0, 0, 0, FALSE) /\ ~Done(p)
    BY FreshAt
  <2>2. Fed(p, n, q0)
    BY <2>1, FedName DEF At
  <2>3. At(q0, "sName", n, <<>>, <<>>, 0, 0, 0, FALSE)
    <3>1. <<>> \o n = n
      BY <1>1
    <3>2. QED
      BY <1>1, <2>1, <3>1 DEF At, ParserFields
  <2> HIDE DEF q0
  <2>4. ~Done(q0) /\ q0 \in ParserFields
    BY <2>3 DEF At, Done
  <2>5. Fed(p, h1, Consume(q0, SP)) /\ h1 \in Seq(Char) /\ Consume(q0, SP) \in ParserFields
    BY <1>1, <2>2, <2>4, FedChar
  <2>6. Consume(q0, SP) = [q0 EXCEPT !.state = "spKey"]
    BY <2>3 DEF At, Consume, EndOfName
  <2>7. At(Consume(q0, SP), "spKey", n, <<>>, <<>>, 0, 0, 0, FALSE)
    BY <2>3, <2>5, <2>6 DEF At, ParserFields
  <2>8. QED
    BY <2>5, <2>7
<1> HIDE DEF h1
<1>4. PICK q2 : Fed(p, h2, q2) /\ h2 \in Seq(Char) /\ At(q2, "spKey", n, <<>>, k, 0, 0, 0, FALSE)
  <2> DEFINE q == [q1 EXCEPT !.curKey = @ \o k]
  <2>1. ~Done(q1) /\ q1 \in ParserFields /\ q1.state = "spKey"
    BY <1>3 DEF At, Done
  <2>2. Fed(q1, k, q)
    BY <2>1, FedKey
  <2>3. At(q, "spKey", n, <<>>, k, 0, 0, 0, FALSE)
    <3>1. <<>> \o k = k
      BY <1>1
    <3>2. QED
      BY <1>1, <1>3, <3>1 DEF At, ParserFields
  <2> HIDE DEF q
  <2>4. h2 \in Seq(Char)
    BY <1>1, <1>3
  <2>5. Fed(p, h2, q)
    BY <1>1, <1>3, <2>1, <2>2, FedBoth
  <2>6. QED
    BY <2>3, <2>4, <2>5
<1> HIDE DEF h2
<1>5. PICK q3 : Fed(p, h3, q3) /\ h3 \in Seq(Char) /\ At(q3, "spFlags", n, <<k>>, k, 0, 0, 0, FALSE)
  <2> DEFINE q == Consume(q2, SP)
  <2>1. ~Done(q2) /\ q2 \in ParserFields
    BY <1>4 DEF At, Done
  <2>2. Fed(p, h3, q) /\ h3 \in Seq(Char) /\ q \in ParserFields
    BY <1>1, <1>4, <2>1, FedChar
  <2>3. q = [q2 EXCEPT !.state = "spFlags", !.keys = Append(@, q2.curKey)]
    BY <1>4 DEF At, Consume
  <2> HIDE DEF q
  <2>4. At(q, "spFlags", n, <<k>>, k, 0, 0, 0, FALSE)
    <3>1. Append(<<>>, k) = <<k>>
      OBVIOUS
    <3>2. QED
      BY <1>4, <2>2, <2>3, <3>1 DEF At, ParserFields
  <2>5. QED
    BY <2>2, <2>4
<1> HIDE DEF h3
<1>6. PICK q4 : Fed(p, h4, q4) /\ h4 \in Seq(Char) /\ At(q4, "spFlags", n, <<k>>, k, Decimal(fs), 0, 0, FALSE)
  <2> DEFINE q == [q3 EXCEPT !.flags = Decimal(fs)]
  <2>1. ~Done(q3) /\ q3 \in ParserFields /\ q3.state = "spFlags" /\ q3.flags = 0
    BY <1>5 DEF At, Done
  <2>2. Fed(q3, fs, q)
    BY <2>1, FedFlags
  <2>3. Decimal(fs) \in Unsigned
    BY DecimalType, WidthAssumption DEF Unsigned
  <2>4. At(q, "spFlags", n, <<k>>, k, Decimal(fs), 0, 0, FALSE)
    BY <1>5, <2>3 DEF At, ParserFields
  <2> HIDE DEF q
  <2>5. h4 \in Seq(Char)
    BY <1>1, <1>5
  <2>6. Fed(p, h4, q)
    BY <1>1, <1>5, <2>1, <2>2, FedBoth
  <2>7. QED
    BY <2>4, <2>5, <2>6
<1> HIDE DEF h4
<1>7. PICK q5 : /\ Fed(p, h5, q5) /\ h5 \in Seq(Char)
                /\ At(q5, "spExprTimeStart", n, <<k>>, k, Decimal(fs), 0, 0, FALSE)
  <2> DEFINE q == Consume(q4, SP)
  <2>1. ~Done(q4) /\ q4 \in ParserFields
    BY <1>6 DEF At, Done
  <2>2. Fed(p, h5, q) /\ h5 \in Seq(Char) /\ q \in ParserFields
    BY <1>1, <1>6, <2>1, FedChar
  <2>3. q = [q4 EXCEPT !.state = "spExprTimeStart", !.negative = FALSE]
    BY <1>6 DEF At, Consume
  <2> HIDE DEF q
  <2>4. At(q, "spExprTimeStart", n, <<k>>, k, Decimal(fs), 0, 0, FALSE)
    BY <1>6, <2>2, <2>3 DEF At, ParserFields
  <2>5. QED
    BY <2>2, <2>4
<1> HIDE DEF h5
<1>8. PICK q6 : /\ Fed(p, h6, q6) /\ h6 \in Seq(Char)
                /\ At(q6, "spExprTime", n, <<k>>, k, Decimal(fs), Time(e), 0, FALSE)
  <2>1. ~Done(q5) /\ q5 \in ParserFields /\ q5.state = "spExprTimeStart" /\ q5.exprtime = 0
    BY <1>7 DEF At, Done
  <2>2. PICK b \in BOOLEAN :
          Fed(q5, e, [q5 EXCEPT !.state = "spExprTime", !.exprtime = Time(e), !.negative = b])
    BY <2>1, FedTime
  <2> DEFINE q == [q5 EXCEPT !.state = "spExprTime", !.exprtime = Time(e), !.negative = b]
  <2>3. Time(e) \in Int
    BY TimeType
  <2>4. At(q, "spExprTime", n, <<k>>, k, Decimal(fs), Time(e), 0, FALSE)
    BY <1>7, <2>3 DEF At, ParserFields
  <2>5. Fed(q5, e, q)
    BY <2>2
  <2> HIDE DEF q
  <2>6. h6 \in Seq(Char)
    BY <1>2, <1>7
  <2>7. Fed(p, h6, q)
    BY <1>2, <1>7, <2>1, <2>5, FedBoth
  <2>8. QED
    BY <2>4, <2>6, <2>7
<1> HIDE DEF h6
<1>9. PICK q7 : /\ Fed(p, h7, q7) /\ h7 \in Seq(Char)
                /\ At(q7, "spBytes", n, <<k>>, k, Decimal(fs), Time(e), 0, FALSE)
  <2> DEFINE q == Consume(q6, SP)
  <2>1. ~Done(q6) /\ q6 \in ParserFields
    BY <1>8 DEF At, Done
  <2>2. Fed(p, h7, q) /\ h7 \in Seq(Char) /\ q \in ParserFields
    BY <1>1, <1>8, <2>1, FedChar
  <2>3. q = [q6 EXCEPT !.state = "spBytes"]
    BY <1>8 DEF At, Consume
  <2> HIDE DEF q
  <2>4. At(q, "spBytes", n, <<k>>, k, Decimal(fs), Time(e), 0, FALSE)
    BY <1>8, <2>2, <2>3 DEF At, ParserFields
  <2>5. QED
    BY <2>2, <2>4
<1> HIDE DEF h7
<1>10. PICK q8 : /\ Fed(p, h8, q8) /\ h8 \in Seq(Char)
                 /\ At(q8, "spBytes", n, <<k>>, k, Decimal(fs), Time(e), Decimal(bs), FALSE)
  <2> DEFINE q == [q7 EXCEPT !.bytes = Decimal(bs)]
  <2>1. ~Done(q7) /\ q7 \in ParserFields /\ q7.state = "spBytes" /\ q7.bytes = 0
    BY <1>9 DEF At, Done
  <2>2. Fed(q7, bs, q)
    BY <2>1, FedSize
  <2>3. Decimal(bs) \in Unsigned
    BY DecimalType, WidthAssumption DEF Unsigned
  <2>4. At(q, "spBytes", n, <<k>>, k, Decimal(fs), Time(e), Decimal(bs), FALSE)
    BY <1>9, <2>3 DEF At, ParserFields
  <2> HIDE DEF q
  <2>5. h8 \in Seq(Char)
    BY <1>1, <1>9
  <2>6. Fed(p, h8, q)
    BY <1>1, <1>9, <2>1, <2>2, FedBoth
  <2>7. QED
    BY <2>4, <2>5, <2>6
<1> HIDE DEF h8
<1>11. QED
  <2>1. ~Done(q8) /\ q8 \in ParserFields
    BY <1>10 DEF At, Done
  <2>2. At(Consume(q8, CR), "sLF", n, <<k>>, k, Decimal(fs), Time(e), Decimal(bs), FALSE)
    <3>1. Consume(q8, CR) \in ParserFields
      BY <1>1, <2>1, ConsumeType
    <3>2. Consume(q8, CR) = [q8 EXCEPT !.state = "sLF"]
      BY <1>10 DEF At, Consume
    <3>3. QED
      BY <1>10, <3>1, <3>2 DEF At, ParserFields
  <2>3. \E q : /\ Fed(p, h8 \o <<CR, LF>>, q)
               /\ At(q, "sLF", n, <<k>>, k, Decimal(fs), Time(e), Decimal(bs), TRUE)
    BY <1>10, <2>1, <2>2, LineEnd
  <2>4. QED
    BY <2>3 DEF h1, h2, h3, h4, h5, h6, h7, h8

(* The first line of a request to store. *)
LEMMA PutLine ==
  ASSUME NEW r, WellFormed(r), r.name \in PutNames, Decimal(r.flags) < 2^Width,
         Decimal(r.bytes) < 2^Width, ~ManyDigits(r.exptime), NEW p, Fresh(p)
  PROVE  \E q : Fed(p, Header(r), q) /\ Understood(q, r)
<1>1. /\ r \in [name : Word, keys : Seq(Word), flags : Seq(Digit), exptime : Seq(Digit \cup {"-"}),
              bytes : Seq(Digit), data : Seq(Char)]
      /\ Len(r.keys) = 1 /\ Number(r.flags) /\ r.exptime # <<>> /\ Decimal(r.bytes) = Len(r.data)
      /\ Number(r.exptime) \/ (Head(r.exptime) = "-" /\ Number(Tail(r.exptime)))
  BY DEF WellFormed
<1>2. /\ r.name \in Word /\ r.keys \in Seq(Word) /\ r.flags \in Seq(Digit) /\ r.data \in Seq(Char)
      /\ r.exptime \in Seq(Digit \cup {"-"})
  BY <1>1
<1>3. r.bytes \in Seq(Digit)
  BY <1>1
<1>4. r.keys[1] \in Word /\ r.keys = <<r.keys[1]>>
  BY <1>1, <1>2, Singleton
<1>5. PICK d \in Digit : r.exptime = <<d>> \/ r.exptime = <<"-", d>>
  BY <1>1, <1>2, ShortTime
<1>6. PICK q : /\ Fed(p, Header(r), q)
               /\ At(q, "sLF", r.name, <<r.keys[1]>>, r.keys[1], Decimal(r.flags), Time(r.exptime),
                     Decimal(r.bytes), TRUE)
  BY <1>2, <1>3, <1>4, <1>5, FedPut DEF Header
<1>7. Understood(q, r)
  BY <1>1, <1>4, <1>6 DEF Understood, At, Build, Meaning
<1>8. QED
  BY <1>6, <1>7

-----------------------------------------------------------------------------
(* The keys of get and gets. *)

(* One more key follows a space, and all are characters. *)
LEMMA KeysAppend ==
  ASSUME NEW ks \in Seq(Word), NEW k \in Word, Keys(ks) \in Seq(Char)
  PROVE  Keys(Append(ks, k)) = Keys(ks) \o (<<SP>> \o k) /\ Keys(Append(ks, k)) \in Seq(Char)
<1> DEFINE c == <<SP>> \o k
<1>1. k \in Seq(Char) /\ <<SP>> \in Seq(Char)
  BY Words, CharAssumption
<1>2. c \in Seq(Char)
  BY <1>1
<1>3. Keys(Append(ks, k)) = Keys(ks) \o c
  BY KeysJoin DEF Join
<1> HIDE DEF c
<1>4. Keys(ks) \o c \in Seq(Char)
  BY <1>2
<1>5. QED
  BY <1>3, <1>4 DEF c

(* After the name and some keys, the last of them is being read. *)
KeysRead(q, n, ks) ==
  IF ks = <<>> THEN At(q, "sName", n, <<>>, <<>>, 0, 0, 0, FALSE)
  ELSE \E us \in Seq(Word), k \in Word : ks = Append(us, k) /\ At(q, "sgKey", n, us, k, 0, 0, 0, FALSE)

(* A space ends the name or a key, and a key follows. *)
LEMMA NextKey ==
  ASSUME NEW n \in GetNames, NEW ks \in Seq(Word), NEW q, KeysRead(q, n, ks)
  PROVE  At(Consume(q, SP), "sgKey", n, ks, <<>>, 0, 0, 0, FALSE) /\ ~Done(q) /\ q \in ParserFields
<1>0. SP \in Char /\ n \notin PutNames
  BY CharAssumption DEF PutNames, GetNames
<1>1. CASE ks = <<>>
  <2>1. At(q, "sName", n, <<>>, <<>>, 0, 0, 0, FALSE)
    BY <1>1 DEF KeysRead
  <2>2. ~Done(q) /\ q \in ParserFields
    BY <2>1 DEF At, Done
  <2>3. Consume(q, SP) \in ParserFields
    BY <1>0, <2>2, ConsumeType
  <2>4. Consume(q, SP) = [q EXCEPT !.state = "sgKey"]
    BY <1>0, <2>1 DEF At, Consume, EndOfName
  <2>5. QED
    BY <1>1, <2>1, <2>2, <2>3, <2>4 DEF At, ParserFields
<1>2. CASE ks # <<>>
  <2>1. PICK us \in Seq(Word), k \in Word : ks = Append(us, k) /\ At(q, "sgKey", n, us, k, 0, 0, 0, FALSE)
    BY <1>2 DEF KeysRead
  <2>2. ~Done(q) /\ q \in ParserFields
    BY <2>1 DEF At, Done
  <2>3. Consume(q, SP) \in ParserFields
    BY <1>0, <2>2, ConsumeType
  <2>4. Consume(q, SP) = [q EXCEPT !.keys = Append(@, q.curKey), !.curKey = <<>>, !.state = "sgKey"]
    <3>1. SP # CR
      BY DEF SP, CR
    <3>2. QED
      BY <2>1, <3>1 DEF At, Consume, EndOfKey
  <2>5. QED
    BY <2>1, <2>2, <2>3, <2>4 DEF At, ParserFields
<1>3. QED
  BY <1>1, <1>2

(* The name and the keys of get or gets. *)
LEMMA FedKeys ==
  ASSUME NEW n \in Word, n \in GetNames, NEW ks \in Seq(Word), NEW p, Fresh(p)
  PROVE  /\ Keys(ks) \in Seq(Char) /\ n \o Keys(ks) \in Seq(Char)
         /\ \E q : Fed(p, n \o Keys(ks), q) /\ KeysRead(q, n, ks)
<1> DEFINE Read(us) == /\ Keys(us) \in Seq(Char) /\ n \o Keys(us) \in Seq(Char)
                       /\ \E q : Fed(p, n \o Keys(us), q) /\ KeysRead(q, n, us)
           S == {us \in Seq(Word) : Read(us)}
<1>0. n \in Seq(Char) /\ SP \in Char
  BY Words, CharAssumption
<1>1. Read(<<>>)
  <2> DEFINE q == [p EXCEPT !.name = @ \o n]
  <2>1. At(p, "sName", <<>>, <<>>, <<>>, 0, 0, 0, FALSE) /\ ~Done(p)
    BY FreshAt
  <2>2. Fed(p, n, q)
    BY <2>1, FedName DEF At
  <2>3. At(q, "sName", n, <<>>, <<>>, 0, 0, 0, FALSE)
    <3>1. <<>> \o n = n
      BY <1>0
    <3>2. QED
      BY <1>0, <2>1, <3>1 DEF At, ParserFields
  <2> HIDE DEF q
  <2>4. n \o Keys(<<>>) = n /\ Keys(<<>>) \in Seq(Char)
    <3>1. <<>> \in Seq(Char)
      OBVIOUS
    <3>2. QED
      BY <1>0, <3>1, KeysEmpty, Concat, Zenon
  <2>5. KeysRead(q, n, <<>>)
    BY <2>3 DEF KeysRead
  <2>6. QED
    BY <1>0, <2>2, <2>4, <2>5
<1>2. ASSUME NEW us \in Seq(Word), NEW k \in Word, Read(us) PROVE Read(Append(us, k))
  <2> DEFINE h == n \o Keys(us)
  <2>1. PICK q : Fed(p, h, q) /\ KeysRead(q, n, us)
    BY <1>2
  <2>2. Keys(us) \in Seq(Char) /\ h \in Seq(Char) /\ k \in Seq(Char)
    BY <1>2, Words
  <2>3. Keys(Append(us, k)) = Keys(us) \o (<<SP>> \o k) /\ Keys(Append(us, k)) \in Seq(Char)
    BY <2>2, KeysAppend
  <2>4. n \o Keys(Append(us, k)) = (h \o <<SP>>) \o k /\ n \o Keys(Append(us, k)) \in Seq(Char)
    <3> DEFINE sp == <<SP>>
               all == Keys(Append(us, k))
    <3>1. sp \in Seq(Char) /\ all = Keys(us) \o (sp \o k)
      BY <1>0, <2>3
    <3> HIDE DEF sp, all
    <3>2. n \o (Keys(us) \o (sp \o k)) = ((n \o Keys(us)) \o sp) \o k /\ n \o (Keys(us) \o (sp \o k)) \in Seq(Char)
      BY <1>0, <2>2, <3>1, Concat4
    <3>3. n \o all = (h \o sp) \o k /\ n \o all \in Seq(Char)
      BY <3>1, <3>2
    <3>4. QED
      BY <3>3 DEF sp, all
  <2> HIDE DEF h
  <2> DEFINE u == Consume(q, SP)
             v == [u EXCEPT !.curKey = @ \o k]
  <2>5. At(u, "sgKey", n, us, <<>>, 0, 0, 0, FALSE) /\ ~Done(q) /\ q \in ParserFields
    BY <2>1, NextKey
  <2>6. Fed(p, h \o <<SP>>, u) /\ h \o <<SP>> \in Seq(Char)
    BY <1>0, <2>1, <2>2, <2>5, FedChar
  <2> HIDE DEF u
  <2>7. Fed(u, k, v) /\ ~Done(u)
    <3>1. ~Done(u) /\ u \in ParserFields /\ u.state = "sgKey"
      BY <2>5 DEF At, Done
    <3>2. QED
      BY <3>1, FedKey
  <2>8. At(v, "sgKey", n, us, k, 0, 0, 0, FALSE)
    <3>1. <<>> \o k = k
      BY <2>2
    <3>2. QED
      BY <2>2, <2>5, <3>1 DEF At, ParserFields
  <2> HIDE DEF v
  <2>9. Fed(p, (h \o <<SP>>) \o k, v)
    BY <2>2, <2>6, <2>7, FedBoth
  <2>10. KeysRead(v, n, Append(us, k))
    <3>1. Append(us, k) # <<>>
      OBVIOUS
    <3>2. QED
      BY <2>8, <3>1 DEF KeysRead
  <2>11. QED
    BY <2>3, <2>4, <2>9, <2>10
<1> HIDE DEF Read
<1>3. <<>> \in S
  BY <1>1
<1>4. ASSUME NEW us \in Seq(Word), NEW k \in Word, us \in S PROVE Append(us, k) \in S
  BY <1>2, <1>4
<1> HIDE DEF S
<1>5. Seq(Word) \subseteq S
  BY <1>3, <1>4, SeqSet
<1>6. Read(ks)
  BY <1>5 DEF S
<1>7. QED
  BY <1>6 DEF Read

(* The line of get and gets. *)
LEMMA FedGet ==
  ASSUME NEW n \in Word, n \in GetNames, NEW ks \in Seq(Word), ks # <<>>, NEW p, Fresh(p)
  PROVE  \E q : Fed(p, n \o Keys(ks) \o <<CR, LF>>, q) /\ At(q, "sLF", n, ks, <<>>, 0, 0, 0, TRUE)
<1> DEFINE h == n \o Keys(ks)
<1>1. h \in Seq(Char) /\ \E q : Fed(p, h, q) /\ KeysRead(q, n, ks)
  BY FedKeys
<1>2. PICK q : Fed(p, h, q) /\ KeysRead(q, n, ks)
  BY <1>1
<1>3. PICK us \in Seq(Word), k \in Word : ks = Append(us, k) /\ At(q, "sgKey", n, us, k, 0, 0, 0, FALSE)
  BY <1>2 DEF KeysRead
<1>4. ~Done(q) /\ q \in ParserFields
  BY <1>3 DEF At, Done
<1>5. At(Consume(q, CR), "sLF", n, ks, <<>>, 0, 0, 0, FALSE)
  <2>1. Consume(q, CR) \in ParserFields
    BY <1>4, ConsumeType, CharAssumption
  <2>2. Consume(q, CR) = [q EXCEPT !.keys = Append(@, q.curKey), !.curKey = <<>>, !.state = "sLF"]
    BY <1>3 DEF At, Consume, EndOfKey
  <2>3. QED
    BY <1>3, <2>1, <2>2 DEF At, ParserFields
<1> HIDE DEF h
<1>6. \E u : Fed(p, h \o <<CR, LF>>, u) /\ At(u, "sLF", n, ks, <<>>, 0, 0, 0, TRUE)
  BY <1>1, <1>2, <1>4, <1>5, LineEnd
<1>7. QED
  BY <1>6 DEF h

(* The line of stats. *)
LEMMA FedStats ==
  ASSUME NEW n \in Word, n = <<"stats">>, NEW p, Fresh(p)
  PROVE  \E q : Fed(p, n \o Keys(<<>>) \o <<CR, LF>>, q) /\ At(q, "sLF", n, <<>>, <<>>, 0, 0, 0, TRUE)
<1> DEFINE q == [p EXCEPT !.name = @ \o n]
<1>1. At(p, "sName", <<>>, <<>>, <<>>, 0, 0, 0, FALSE) /\ ~Done(p)
  BY FreshAt
<1>2. n \in Seq(Char)
  BY Words
<1>3. Fed(p, n, q)
  BY <1>1, FedName DEF At
<1>4. At(q, "sName", n, <<>>, <<>>, 0, 0, 0, FALSE)
  <2>1. <<>> \o n = n
    BY <1>2
  <2>2. QED
    BY <1>1, <1>2, <2>1 DEF At, ParserFields
<1> HIDE DEF q
<1>5. ~Done(q) /\ q \in ParserFields
  BY <1>4 DEF At, Done
<1>6. At(Consume(q, CR), "sLF", n, <<>>, <<>>, 0, 0, 0, FALSE)
  <2>1. Consume(q, CR) \in ParserFields
    BY <1>5, ConsumeType, CharAssumption
  <2>2. n \notin PutNames /\ n \notin GetNames
    BY DEF PutNames, GetNames
  <2>3. Consume(q, CR) = [q EXCEPT !.state = "sLF"]
    BY <1>4, <2>2 DEF At, Consume, EndOfName
  <2>4. QED
    BY <1>4, <2>1, <2>3 DEF At, ParserFields
<1>7. n \o Keys(<<>>) = n
  BY <1>2, KeysEmpty, Concat
<1>8. QED
  BY <1>2, <1>3, <1>5, <1>6, <1>7, LineEnd

(* The lines of the requests that carry no data. *)
LEMMA OtherLine ==
  ASSUME NEW r, WellFormed(r), r.name \in GetNames \cup {<<"stats">>}, NEW p, Fresh(p)
  PROVE  \E q : Fed(p, Header(r), q) /\ Understood(q, r)
<1>0. r.name \notin PutNames
  BY DEF PutNames, GetNames
<1>1. /\ r \in [name : Word, keys : Seq(Word), flags : Seq(Digit), exptime : Seq(Digit \cup {"-"}),
              bytes : Seq(Digit), data : Seq(Char)]
      /\ r.name \in GetNames => r.keys # <<>>
      /\ r.name = <<"stats">> => r.keys = <<>>
  BY DEF WellFormed
<1>2. r.name \in Word /\ r.keys \in Seq(Word)
  BY <1>1
<1>3. Header(r) = r.name \o Keys(r.keys) \o <<CR, LF>>
  BY <1>0 DEF Header
<1>4. PICK q : Fed(p, Header(r), q) /\ At(q, "sLF", r.name, r.keys, <<>>, 0, 0, 0, TRUE)
  <2>1. CASE r.name \in GetNames
    BY <1>1, <1>2, <1>3, <2>1, FedGet
  <2>2. CASE r.name = <<"stats">>
    <3>1. \E q : Fed(p, r.name \o Keys(<<>>) \o <<CR, LF>>, q) /\ At(q, "sLF", r.name, <<>>, <<>>, 0, 0, 0, TRUE)
      BY <1>2, <2>2, FedStats
    <3>2. QED
      BY <1>1, <1>3, <2>2, <3>1
  <2>3. QED
    BY <2>1, <2>2
<1>5. Understood(q, r)
  BY <1>0, <1>4 DEF Understood, At, Build, Meaning
<1>6. QED
  BY <1>4, <1>5

(* The spaced keys are characters, and a line without data goes on after its *)
(* name with a space or with CR.                                             *)
LEMMA KeysType ==
  ASSUME NEW ks \in Seq(Word)
  PROVE  Keys(ks) \in Seq(Char) /\ (ks # <<>> => \E t \in Seq(Char) : Keys(ks) = <<SP>> \o t)
<1> DEFINE Spaced(us) == Keys(us) \in Seq(Char) /\ (us # <<>> => \E t \in Seq(Char) : Keys(us) = <<SP>> \o t)
           S == {us \in Seq(Word) : Spaced(us)}
<1>1. <<>> \in S
  <2>1. Keys(<<>>) \in Seq(Char)
    <3>1. <<>> \in Seq(Char)
      OBVIOUS
    <3>2. QED
      BY <3>1, KeysEmpty, Zenon
  <2>2. <<>> \in Seq(Word)
    OBVIOUS
  <2>3. QED
    BY <2>1, <2>2, Zenon
<1>2. ASSUME NEW us \in Seq(Word), NEW k \in Word, us \in S PROVE Append(us, k) \in S
  <2> DEFINE sp == <<SP>>
  <2>1. k \in Seq(Char) /\ sp \in Seq(Char)
    BY Words, CharAssumption
  <2>2. Keys(us) \in Seq(Char) /\ (us # <<>> => \E t \in Seq(Char) : Keys(us) = sp \o t)
    BY <1>2
  <2>3. Keys(Append(us, k)) = Keys(us) \o (sp \o k) /\ Keys(Append(us, k)) \in Seq(Char)
    BY <2>2, KeysAppend
  <2> HIDE DEF sp
  <2>4. \E t \in Seq(Char) : Keys(Append(us, k)) = sp \o t
    <3>1. CASE us = <<>>
      <4>1. Keys(Append(us, k)) = sp \o k
        BY <2>1, <2>3, <3>1, KeysEmpty, Concat
      <4>2. QED
        BY <2>1, <4>1
    <3>2. CASE us # <<>>
      <4>1. PICK t \in Seq(Char) : Keys(us) = sp \o t
        BY <2>2, <3>2
      <4>2. sp \o k \in Seq(Char)
        BY <2>1, Concat
      <4>3. (sp \o t) \o (sp \o k) = sp \o (t \o (sp \o k)) /\ t \o (sp \o k) \in Seq(Char)
        <5>1. (sp \o t) \o (sp \o k) = sp \o (t \o (sp \o k))
          BY <2>1, <4>2, Assoc, Zenon
        <5>2. QED
          BY <4>2, <5>1, Concat, Zenon
      <4>4. QED
        BY <2>3, <4>1, <4>3
    <3>3. QED
      BY <3>1, <3>2
  <2>5. Append(us, k) \in Seq(Word)
    OBVIOUS
  <2>6. QED
    BY <2>3, <2>4, <2>5 DEF sp
<1> HIDE DEF S
<1>3. Seq(Word) \subseteq S
  BY <1>1, <1>2, SeqSet
<1>4. QED
  BY <1>3 DEF S

(* A line with an unknown name is refused at the character after the name. *)
LEMMA UnknownLine ==
  ASSUME NEW n \in Word, n \notin PutNames \cup GetNames \cup {<<"stats">>}, NEW ks \in Seq(Word),
         NEW p, Fresh(p)
  PROVE  \E w, v \in Seq(Char) : \E q :
           /\ n \o Keys(ks) \o <<CR, LF>> = w \o v
           /\ Fed(p, w, q) /\ q.thrown /\ ~q.parse_complete
<1> DEFINE q == [p EXCEPT !.name = @ \o n]
           e == <<CR, LF>>
<1>1. At(p, "sName", <<>>, <<>>, <<>>, 0, 0, 0, FALSE) /\ ~Done(p)
  BY FreshAt
<1>2. n \in Seq(Char) /\ e \in Seq(Char) /\ CR \in Char /\ SP \in Char /\ LF \in Char
  BY Words, CharAssumption
<1>3. Fed(p, n, q)
  BY <1>1, FedName DEF At
<1>4. At(q, "sName", n, <<>>, <<>>, 0, 0, 0, FALSE)
  <2>1. <<>> \o n = n
    BY <1>2
  <2>2. QED
    BY <1>1, <1>2, <2>1 DEF At, ParserFields
<1> HIDE DEF q
<1>5. ~Done(q) /\ q \in ParserFields
  BY <1>4 DEF At, Done
<1>6. ASSUME NEW c \in {SP, CR} PROVE Consume(q, c).thrown /\ ~Consume(q, c).parse_complete
  <2>1. Consume(q, c) = [q EXCEPT !.thrown = TRUE]
    BY <1>4 DEF At, Consume, EndOfName, Throw
  <2>2. QED
    BY <1>4, <2>1 DEF At, ParserFields
<1>7. PICK c \in {SP, CR}, v \in Seq(Char) : Keys(ks) \o e = <<c>> \o v
  <2>1. CASE ks = <<>>
    <3>1. Keys(ks) \o e = <<CR>> \o <<LF>>
      <4>1. Keys(ks) \o e = e
        <5> HIDE DEF e
        <5> QED BY <1>2, <2>1, KeysEmpty, Concat
      <4>2. QED
        BY <4>1, LineBreak
    <3>2. <<LF>> \in Seq(Char)
      BY <1>2
    <3>3. QED
      BY <3>1, <3>2
  <2>2. CASE ks # <<>>
    <3> DEFINE sp == <<SP>>
    <3>1. PICK t \in Seq(Char) : Keys(ks) = sp \o t
      BY <2>2, KeysType
    <3>2. sp \in Seq(Char)
      BY <1>2
    <3> HIDE DEF sp, e
    <3>3. (sp \o t) \o e = sp \o (t \o e)
      BY <1>2, <3>2, Assoc
    <3>4. t \o e \in Seq(Char)
      BY <1>2
    <3>5. QED
      BY <3>1, <3>3, <3>4 DEF sp
  <2>3. QED
    BY <2>1, <2>2
<1>8. Fed(p, n \o <<c>>, Consume(q, c)) /\ n \o <<c>> \in Seq(Char)
  BY <1>2, <1>3, <1>5, FedChar
<1>9. (n \o Keys(ks)) \o e = (n \o <<c>>) \o v
  <2> DEFINE a == <<c>>
  <2>1. Keys(ks) \o e = a \o v
    BY <1>7
  <2>2. Keys(ks) \in Seq(Char)
    BY KeysType
  <2>a. a \in Seq(Char)
    BY <1>2
  <2> HIDE DEF a, e
  <2>3. (n \o Keys(ks)) \o e = n \o (Keys(ks) \o e)
    <3>1. n \in Seq(Char) /\ e \in Seq(Char)
      BY <1>2
    <3>2. Cat(Cat(n, Keys(ks)), e) = Cat(n, Cat(Keys(ks), e))
      BY <2>2, <3>1, CatAssoc
    <3>3. QED
      BY <3>2, Zenon DEF Cat
  <2>4. (n \o a) \o v = n \o (a \o v)
    <3>1. v \in Seq(Char)
      BY <1>7
    <3>a. n \in Seq(Char)
      BY <1>2
    <3>2. QED
      BY <3>a, <2>a, <3>1, Assoc, SMT
  <2>5. QED
    BY <2>1, <2>3, <2>4 DEF a
<1>10. QED
  BY <1>6, <1>8, <1>9

-----------------------------------------------------------------------------
(* A whole request. *)

(* What follows the first line. *)
Rest(r) == IF r.name \in PutNames THEN r.data \o <<CR, LF>> ELSE <<>>

(* Requests that the servers provide for. *)
Usual(r) ==
  /\ r.name \in PutNames => r.data # <<>>
  /\ Decimal(r.flags) < 2^Width /\ Len(r.data) + 2 < 2^Width
  /\ ~ManyDigits(r.exptime)

(* The first line of a request to store consists of characters. *)
LEMMA PutType ==
  ASSUME NEW n \in Seq(Char), NEW k \in Seq(Char), NEW f \in Seq(Char), NEW e \in Seq(Char),
         NEW b \in Seq(Char), NEW w \in Seq(Char)
  PROVE  n \o <<SP>> \o k \o <<SP>> \o f \o <<SP>> \o e \o <<SP>> \o b \o w \in Seq(Char)
<1> DEFINE sp == <<SP>>
<1>1. sp \in Seq(Char)
  BY CharAssumption
<1> HIDE DEF sp
<1>2. n \o sp \o k \o sp \in Seq(Char)
  BY <1>1
<1>3. n \o sp \o k \o sp \o f \o sp \in Seq(Char)
  BY <1>1, <1>2, Concat
<1>4. n \o sp \o k \o sp \o f \o sp \o e \o sp \in Seq(Char)
  BY <1>1, <1>3, Concat
<1>5. n \o sp \o k \o sp \o f \o sp \o e \o sp \o b \o w \in Seq(Char)
  BY <1>4, Concat
<1>6. QED
  BY <1>5 DEF sp

(* A request is its first line and the rest, and consists of characters. *)
LEMMA EncodeParts ==
  ASSUME NEW r, WellFormed(r)
  PROVE  /\ Header(r) \in Seq(Char) /\ Rest(r) \in Seq(Char)
         /\ Encode(r) = Header(r) \o Rest(r) /\ Encode(r) \in Seq(Char)
<1> DEFINE e == <<CR, LF>>
<1>1. e \in Seq(Char)
  BY CharAssumption
<1>2. r \in [name : Word, keys : Seq(Word), flags : Seq(Digit), exptime : Seq(Digit \cup {"-"}),
             bytes : Seq(Digit), data : Seq(Char)]
  BY DEF WellFormed
<1>3. /\ r.name \in Word /\ r.keys \in Seq(Word) /\ r.flags \in Seq(Digit) /\ r.data \in Seq(Char)
      /\ r.exptime \in Seq(Digit \cup {"-"})
  BY <1>2
<1>4. r.name \in Seq(Char) /\ r.data \in Seq(Char)
  BY <1>3, Words
<1>5. CASE r.name \in PutNames
  <2>1. Len(r.keys) = 1 /\ r.bytes \in Seq(Digit)
    BY <1>2, <1>5 DEF WellFormed
  <2>2. r.keys[1] \in Seq(Char)
    BY <1>3, <2>1, Singleton, Words
  <2>3. r.flags \in Seq(Char) /\ r.exptime \in Seq(Char) /\ r.bytes \in Seq(Char)
    <3>1. Digit \subseteq Char /\ Digit \cup {"-"} \subseteq Char
      BY CharAssumption
    <3>2. Seq(Digit) \subseteq Seq(Char) /\ Seq(Digit \cup {"-"}) \subseteq Seq(Char)
      BY <3>1, SeqMonotonic
    <3>3. QED
      BY <1>3, <2>1, <3>2
  <2>4. Header(r) = r.name \o <<SP>> \o r.keys[1] \o <<SP>> \o r.flags \o <<SP>> \o r.exptime
                      \o <<SP>> \o r.bytes \o e
    BY <1>5 DEF Header
  <2> HIDE DEF e
  <2>5. Header(r) \in Seq(Char)
    BY <1>1, <1>4, <2>2, <2>3, <2>4, PutType
  <2>6. Rest(r) = r.data \o e /\ Encode(r) = (Header(r) \o r.data) \o e
    BY <1>5 DEF Rest, Encode, e
  <2>7. (Header(r) \o r.data) \o e = Header(r) \o (r.data \o e)
    BY <1>1, <1>4, <2>5, Assoc
  <2>8. r.data \o e \in Seq(Char)
    BY <1>1, <1>4, Concat
  <2>9. Header(r) \o (r.data \o e) \in Seq(Char)
    BY <2>5, <2>8, Concat
  <2>10. QED
    BY <2>5, <2>6, <2>7, <2>8, <2>9, Zenon
<1>6. CASE r.name \notin PutNames
  <2>1. Keys(r.keys) \in Seq(Char)
    BY <1>3, KeysType
  <2>2. Header(r) = (r.name \o Keys(r.keys)) \o e /\ Rest(r) = <<>> /\ Encode(r) = Header(r)
    BY <1>6 DEF Header, Keys, Rest, Encode
  <2> HIDE DEF e
  <2>3. r.name \o Keys(r.keys) \in Seq(Char)
    BY <1>4, <2>1, Concat
  <2>4. Header(r) \in Seq(Char)
    BY <1>1, <2>2, <2>3, Concat
  <2>5. Header(r) \o <<>> = Header(r)
    BY <2>4, Concat
  <2>6. <<>> \in Seq(Char)
    OBVIOUS
  <2>7. QED
    BY <2>2, <2>4, <2>5, <2>6, Zenon
<1>7. QED
  BY <1>5, <1>6

(* What Parse has to say of a request, of which v is left. *)
Verdict(q, v, r) ==
  \/ Understood(q, r) /\ v = Rest(r)
  \/ q.thrown /\ ~q.parse_complete /\ ~Supported(r)

(* Parse takes its first line, or its beginning when the name is unknown. *)
LEMMA RequestRead ==
  ASSUME NEW r, WellFormed(r), Usual(r), NEW p, Fresh(p)
  PROVE  \E w, v \in Seq(Char) : \E q : Encode(r) = w \o v /\ Fed(p, w, q) /\ Verdict(q, v, r)
<1>1. Header(r) \in Seq(Char) /\ Rest(r) \in Seq(Char) /\ Encode(r) = Header(r) \o Rest(r)
  BY EncodeParts
<1>2. CASE r.name \in PutNames \cup GetNames \cup {<<"stats">>}
  <2>1. PICK q : Fed(p, Header(r), q) /\ Understood(q, r)
    <3>1. CASE r.name \in PutNames
      <4>1. r.data \in Seq(Char) /\ Decimal(r.bytes) = Len(r.data)
        BY <3>1 DEF WellFormed
      <4>2. Len(r.data) \in Nat /\ Len(r.data) + 2 < 2^Width
        BY <4>1, LenProperties DEF Usual
      <4>3. \A x, y \in Nat : x + 2 < y => x < y
        OBVIOUS
      <4>4. Decimal(r.bytes) < 2^Width
        BY <4>1, <4>2, <4>3, WidthAssumption, Zenon
      <4>5. QED
        BY <3>1, <4>4, PutLine DEF Usual
    <3>2. CASE r.name \in GetNames \cup {<<"stats">>}
      BY <3>2, OtherLine
    <3>3. QED
      BY <1>2, <3>1, <3>2
  <2>2. Verdict(q, Rest(r), r)
    BY <2>1 DEF Verdict
  <2>3. QED
    BY <1>1, <2>1, <2>2
<1>3. CASE r.name \notin PutNames \cup GetNames \cup {<<"stats">>}
  <2>1. r.name \in Word /\ r.keys \in Seq(Word)
    BY DEF WellFormed
  <2>2. r.name \notin PutNames
    BY <1>3
  <2>3. Encode(r) = r.name \o Keys(r.keys) \o <<CR, LF>>
    BY <2>2 DEF Encode, Header, Keys
  <2>a. PICK w \in Seq(Char), v \in Seq(Char) : \E q :
           /\ r.name \o Keys(r.keys) \o <<CR, LF>> = w \o v
           /\ Fed(p, w, q) /\ q.thrown /\ ~q.parse_complete
    BY <1>3, <2>1, UnknownLine
  <2>4. PICK q :
           /\ r.name \o Keys(r.keys) \o <<CR, LF>> = w \o v
           /\ Fed(p, w, q) /\ q.thrown /\ ~q.parse_complete
    BY <2>a
  <2>5. ~Supported(r)
    BY <1>3 DEF Supported, PutNames, GetNames
  <2>6. Verdict(q, v, r)
    BY <2>4, <2>5 DEF Verdict
  <2>7. QED
    BY <2>3, <2>4, <2>6, Zenon
<1>4. QED
  BY <1>2, <1>3

-----------------------------------------------------------------------------
(* A request that comes in parts. *)

(* A text from a place on. *)
LEMMA DropProps ==
  ASSUME NEW s \in Seq(Char), NEW n \in 0..Len(s)
  PROVE  /\ Drop(s, n) \in Seq(Char) /\ Len(Drop(s, n)) = Len(s) - n
         /\ \A i \in 1..(Len(s) - n) : Drop(s, n)[i] = s[n + i]
         /\ SubSeq(s, 1, n) \in Seq(Char) /\ Len(SubSeq(s, 1, n)) = n
         /\ \A i \in 1..n : SubSeq(s, 1, n)[i] = s[i]
BY DEF Drop

(* The characters of two texts put together. *)
LEMMA ConcatAt ==
  ASSUME NEW s \in Seq(Char), NEW t \in Seq(Char)
  PROVE  /\ s \o t \in Seq(Char) /\ Len(s \o t) = Len(s) + Len(t)
         /\ Len(s) \in Nat /\ Len(t) \in Nat
         /\ \A i \in 1..Len(s) : (s \o t)[i] = s[i]
         /\ \A i \in 1..Len(t) : (s \o t)[Len(s) + i] = t[i]
OBVIOUS

(* Cutting a text and putting it together again. *)
LEMMA Cut ==
  ASSUME NEW s \in Seq(Char), NEW n \in 0..Len(s)
  PROVE  SubSeq(s, 1, n) \o Drop(s, n) = s
<1> DEFINE a == SubSeq(s, 1, n)
           b == Drop(s, n)
           u == a \o b
<1>1. /\ b \in Seq(Char) /\ Len(b) = Len(s) - n /\ \A i \in 1..(Len(s) - n) : b[i] = s[n + i]
      /\ a \in Seq(Char) /\ Len(a) = n /\ \A i \in 1..n : a[i] = s[i]
  BY DropProps
<1> HIDE DEF a, b
<1>2. /\ u \in Seq(Char) /\ Len(u) = Len(a) + Len(b)
      /\ \A i \in 1..Len(a) : u[i] = a[i]
      /\ \A i \in 1..Len(b) : u[Len(a) + i] = b[i]
  BY <1>1, ConcatAt
<1> HIDE DEF u
<1>3. Len(s) \in Nat /\ Len(u) = Len(s)
  BY <1>1, <1>2
<1>4. ASSUME NEW i \in 1..Len(s) PROVE u[i] = s[i]
  <2>1. CASE i <= n
    <3>1. i \in 1..n
      BY <2>1
    <3>2. QED
      BY <1>1, <1>2, <3>1
  <2>2. CASE i > n
    <3>1. i - n \in 1..(Len(s) - n) /\ n + (i - n) = i
      BY <2>2
    <3>2. u[n + (i - n)] = b[i - n] /\ b[i - n] = s[n + (i - n)]
      BY <1>1, <1>2, <3>1
    <3>3. QED
      BY <3>1, <3>2
  <2>3. QED
    BY <2>1, <2>2
<1>5. u = s
  BY <1>2, <1>3, <1>4, SeqEqual
<1>6. QED
  BY <1>5 DEF a, b, u

(* Two ways to cut a text in the same place. *)
LEMMA SamePlace ==
  ASSUME NEW a \in Seq(Char), NEW b \in Seq(Char), NEW w \in Seq(Char), NEW v \in Seq(Char),
         Len(a) = Len(w)
  PROVE  a \o b = w \o v => b = v
<1> DEFINE x == a \o b
           y == w \o v
<1>1. Len(x) = Len(a) + Len(b) /\ \A i \in 1..Len(b) : x[Len(a) + i] = b[i]
  BY ConcatAt
<1>2. Len(y) = Len(w) + Len(v) /\ \A i \in 1..Len(v) : y[Len(w) + i] = v[i]
  BY ConcatAt
<1> HIDE DEF x, y
<1>3. ASSUME x = y PROVE b = v
  <2>1. Len(a) \in Nat /\ Len(b) \in Nat /\ Len(v) \in Nat /\ Len(b) = Len(v)
    BY <1>1, <1>2, <1>3
  <2>2. QED
    BY <1>1, <1>2, <1>3, <2>1, SeqEqual
<1>4. QED
  BY <1>3 DEF x, y

(* All of a text dropped, and nothing of it. *)
LEMMA DropAll ==
  ASSUME NEW s \in Seq(Char)
  PROVE  Drop(s, Len(s)) = <<>> /\ Drop(s, 0) = s
BY DEF Drop

(* First parts of the same length leave the same second part. *)
LEMMA CatSame ==
  ASSUME NEW s \in Seq(Char), NEW t \in Seq(Char), NEW u \in Seq(Char), NEW v \in Seq(Char),
         Len(s) = Len(u), Cat(s, t) = Cat(u, v)
  PROVE  t = v
BY SamePlace DEF Cat

(* A text cut in two and put together again. *)
LEMMA CatCut ==
  ASSUME NEW s \in Seq(Char), NEW n \in 0..Len(s)
  PROVE  Cat(SubSeq(s, 1, n), Drop(s, n)) = s
BY Cut DEF Cat

(* The parts h, c and t make w and v, and w ends after n characters of c. *)
LEMMA DropMiddle ==
  ASSUME NEW h \in Seq(Char), NEW c \in Seq(Char), NEW t \in Seq(Char), NEW w \in Seq(Char),
         NEW v \in Seq(Char), NEW n \in 0..Len(c), Len(h) + n = Len(w),
         Cat(Cat(h, c), t) = Cat(w, v)
  PROVE  Cat(Drop(c, n), t) = v
<1> DEFINE d == Drop(c, n)
           b == SubSeq(c, 1, n)
<1>1. d \in Seq(Char) /\ b \in Seq(Char) /\ Len(b) = n
  BY DropProps
<1>2. c = Cat(b, d)
  BY CatCut
<1> HIDE DEF d, b
<1>3. Cat(h, b) \in Seq(Char) /\ Len(Cat(h, b)) = Len(w)
  <2>1. Cat(h, b) \in Seq(Char) /\ Len(Cat(h, b)) = Len(h) + Len(b)
    BY <1>1, CatProps, Zenon
  <2>2. QED
    BY <1>1, <2>1, Zenon
<1>4. Cat(d, t) \in Seq(Char)
  BY <1>1, CatProps
<1>5. Cat(Cat(h, c), t) = Cat(Cat(h, b), Cat(d, t))
  BY <1>1, <1>2, <1>3, CatAssoc
<1>6. Cat(d, t) = v
  BY <1>3, <1>4, <1>5, CatSame
<1>7. QED
  BY <1>6 DEF d

(* A parser that is done takes no more. *)
LEMMA ParseDone ==
  ASSUME NEW p, NEW s \in Seq(Char), NEW t \in Seq(Char), Done(Parse(p, s).parser)
  PROVE  Parse(p, Cat(s, t)) = Parse(p, s)
<1>1. Parse(p, s \o t) = Parse(p, s)
  BY ParseParts
<1>2. QED
  BY <1>1, Zenon DEF Cat

(* Parse goes on where it stopped.  Of a text that it takes up to the end of *)
(* w it has read h, c is the next part and t is still to come: it either     *)
(* takes all of c and waits for more, or ends as it would have in one go and *)
(* leaves v.                                                                 *)
LEMMA NextPart ==
  ASSUME NEW p \in ParserFields, NEW h \in Seq(Char), NEW c \in Seq(Char), NEW t \in Seq(Char),
         NEW w \in Seq(Char), NEW v \in Seq(Char), NEW q, NEW x, NEW res,
         x = Parse(p, h).parser, ~Done(x), res = Parse(x, c), Fed(p, w, q), Done(q),
         Cat(Cat(h, c), t) = Cat(w, v)
  PROVE  /\ ~Done(res.parser) => res.parsed = Len(c) /\ res.parser = Parse(p, Cat(h, c)).parser /\ t # <<>>
         /\ Done(res.parser) => res.parser = q /\ Cat(Drop(c, res.parsed), t) = v
<1> DEFINE hc == Cat(h, c)
<1>1. hc \in Seq(Char) /\ Cat(hc, t) = Cat(w, v)
  BY CatProps
<1>2. x \in ParserFields
  BY ParseType
<1>3. res \in [parser : ParserFields, parsed : 0..Len(c)]
  BY <1>2, ParseType
<1>4. Parse(p, hc) = [parser |-> res.parser, parsed |-> Len(h) + res.parsed]
  <2>1. Parse(p, h \o c) = [parser |-> Parse(x, c).parser, parsed |-> Len(h) + Parse(x, c).parsed]
    BY ParseParts
  <2>2. QED
    BY <2>1 DEF Cat
<1>5. Parse(p, Cat(w, v)) = [parser |-> q, parsed |-> Len(w)]
  <2>1. Parse(p, w) = [parser |-> q, parsed |-> Len(w)]
    BY DEF Fed
  <2>2. Done(Parse(p, w).parser)
    BY <2>1
  <2>3. Parse(p, Cat(w, v)) = Parse(p, w)
    BY <2>2, ParseDone
  <2>4. QED
    BY <2>1, <2>3, Zenon
<1>6. ASSUME ~Done(res.parser) PROVE res.parsed = Len(c)
  BY <1>6, <1>2, ParsedAll
<1>7. res.parser = Parse(p, hc).parser
  BY <1>4
<1> HIDE DEF hc
<1>8. ASSUME ~Done(res.parser), t = <<>> PROVE FALSE
  <2>1. Cat(hc, t) = hc
    BY <1>1, <1>8, CatProps
  <2>2. Parse(p, hc) = [parser |-> q, parsed |-> Len(w)]
    BY <1>1, <1>5, <2>1, Zenon
  <2>3. QED
    BY <1>7, <1>8, <2>2
<1>9. ASSUME Done(res.parser)
      PROVE  res.parser = q /\ Cat(Drop(c, res.parsed), t) = v
  <2>1. Parse(p, Cat(hc, t)) = Parse(p, hc)
    <3>1. Done(Parse(p, hc).parser)
      BY <1>7, <1>9
    <3>2. QED
      BY <1>1, <3>1, ParseDone
  <2>2. Parse(p, hc) = [parser |-> q, parsed |-> Len(w)]
    BY <1>1, <1>5, <2>1, Zenon
  <2>3. res.parser = q /\ Len(h) + res.parsed = Len(w)
    BY <1>4, <2>2
  <2>4. res.parsed \in 0..Len(c)
    BY <1>3
  <2>5. Cat(Drop(c, res.parsed), t) = v
    BY <2>3, <2>4, DropMiddle
  <2>6. QED
    BY <2>3, <2>5
<1>10. QED
  BY <1>6, <1>7, <1>8, <1>9 DEF hc

(* The two sides of a text put together. *)
LEMMA CatSides ==
  ASSUME NEW s \in Seq(Char), NEW t \in Seq(Char)
  PROVE  SubSeq(Cat(s, t), 1, Len(s)) = s /\ Drop(Cat(s, t), Len(s)) = t
<1> DEFINE x == Cat(s, t)
           n == Len(s)
<1>1. x \in Seq(Char) /\ Len(x) = n + Len(t) /\ Len(t) \in Nat /\ n \in Nat
  <2>1. Len(t) \in Nat /\ n \in Nat
    OBVIOUS
  <2>2. QED
    BY <2>1, CatProps, Zenon
<1>2. n \in 0..Len(x)
  BY <1>1
<1>3. \A i \in 1..n : x[i] = s[i]
  BY ConcatAt DEF Cat
<1>4. x = Cat(s, t)
  OBVIOUS
<1> HIDE DEF x
<1>5. SubSeq(x, 1, n) \in Seq(Char) /\ Len(SubSeq(x, 1, n)) = n /\ \A i \in 1..n : SubSeq(x, 1, n)[i] = x[i]
  BY <1>1, <1>2, DropProps
<1>6. SubSeq(x, 1, n) = s
  BY <1>3, <1>5, SeqEqual
<1>7. Cat(SubSeq(x, 1, n), Drop(x, n)) = x /\ Drop(x, n) \in Seq(Char)
  BY <1>1, <1>2, CatCut, DropProps
<1>8. Drop(x, n) = t
  BY <1>4, <1>6, <1>7, CatSame
<1>9. QED
  BY <1>6, <1>8 DEF x

(* Cutting a piece out of a text. *)
LEMMA DropPiece ==
  ASSUME NEW s \in Seq(Char), NEW m \in Nat, NEW n \in Nat, m + n \in 0..Len(s)
  PROVE  /\ SubSeq(s, m + 1, m + n) \in Seq(Char) /\ Len(SubSeq(s, m + 1, m + n)) = n
         /\ Drop(s, m + n) \in Seq(Char)
         /\ Drop(s, m) = Cat(SubSeq(s, m + 1, m + n), Drop(s, m + n))
<1> DEFINE a == Drop(s, m)
           b == SubSeq(s, m + 1, m + n)
           c == Drop(s, m + n)
<1>1. Len(s) \in Nat /\ m \in 0..Len(s) /\ n \in 0..(Len(s) - m)
  OBVIOUS
<1>2. a \in Seq(Char) /\ Len(a) = Len(s) - m /\ \A i \in 1..(Len(s) - m) : a[i] = s[m + i]
  BY <1>1, DropProps
<1>3. c \in Seq(Char) /\ Len(c) = Len(s) - (m + n) /\ \A i \in 1..(Len(s) - (m + n)) : c[i] = s[(m + n) + i]
  BY <1>1, DropProps
<1>4. b \in Seq(Char) /\ Len(b) = n /\ \A i \in 1..n : b[i] = s[m + i]
  OBVIOUS
<1> HIDE DEF a, b, c
<1>5. n \in 0..Len(a)
  BY <1>1, <1>2
<1>6. /\ Drop(a, n) \in Seq(Char) /\ Len(Drop(a, n)) = Len(a) - n
      /\ \A i \in 1..(Len(a) - n) : Drop(a, n)[i] = a[n + i]
      /\ SubSeq(a, 1, n) \in Seq(Char) /\ Len(SubSeq(a, 1, n)) = n
      /\ \A i \in 1..n : SubSeq(a, 1, n)[i] = a[i]
  BY <1>2, <1>5, DropProps
<1>7. SubSeq(a, 1, n) = b
  <2>1. ASSUME NEW i \in 1..n PROVE SubSeq(a, 1, n)[i] = b[i]
    <3>1. i \in 1..(Len(s) - m)
      BY <1>1
    <3>2. SubSeq(a, 1, n)[i] = a[i] /\ a[i] = s[m + i] /\ b[i] = s[m + i]
      BY <1>2, <1>4, <1>6, <3>1
    <3>3. QED
      BY <3>2
  <2>2. QED
    BY <1>4, <1>6, <2>1, SeqEqual
<1>8. Drop(a, n) = c
  <2>1. Len(Drop(a, n)) = Len(c) /\ Len(c) \in Nat
    BY <1>1, <1>2, <1>3, <1>6
  <2>2. ASSUME NEW i \in 1..Len(c) PROVE Drop(a, n)[i] = c[i]
    <3>1. i \in 1..(Len(a) - n) /\ n + i \in 1..(Len(s) - m) /\ m + (n + i) = (m + n) + i /\ i \in 1..(Len(s) - (m + n))
      BY <1>1, <1>2, <1>3
    <3>2. Drop(a, n)[i] = a[n + i] /\ a[n + i] = s[m + (n + i)] /\ c[i] = s[(m + n) + i]
      BY <1>2, <1>3, <1>6, <3>1
    <3>3. QED
      BY <3>1, <3>2
  <2>3. QED
    BY <1>3, <1>6, <2>1, <2>2, SeqEqual
<1>9. Cat(SubSeq(a, 1, n), Drop(a, n)) = a
  BY <1>2, <1>5, CatCut
<1>10. QED
  BY <1>3, <1>4, <1>7, <1>8, <1>9 DEF a, b, c

(* The first character of a text put together. *)
LEMMA FirstChar ==
  ASSUME NEW c \in Char, NEW d \in Char, NEW u \in Seq(Char), NEW t \in Seq(Char), NEW v \in Seq(Char),
         Cat(Cat(<<c>>, u), t) = Cat(<<d>>, v)
  PROVE  c = d /\ Cat(u, t) = v
<1> DEFINE x == <<c>>
           y == <<d>>
<1>1. x \in Seq(Char) /\ y \in Seq(Char) /\ Len(x) = 1 /\ Len(y) = 1 /\ (x = y => c = d)
  OBVIOUS
<1>2. Cat(Cat(x, u), t) = Cat(y, v)
  OBVIOUS
<1> HIDE DEF x, y
<1>3. Cat(u, t) \in Seq(Char)
  BY CatProps
<1>4. Cat(x, Cat(u, t)) = Cat(y, v)
  BY <1>1, <1>2, CatAssoc
<1>5. Cat(u, t) = v
  BY <1>1, <1>3, <1>4, CatSame
<1>6. SubSeq(Cat(x, Cat(u, t)), 1, Len(x)) = x
  BY <1>1, <1>3, CatSides
<1>7. SubSeq(Cat(y, v), 1, Len(y)) = y
  BY <1>1, CatSides
<1>8. QED
  BY <1>1, <1>4, <1>5, <1>6, <1>7, Zenon

-----------------------------------------------------------------------------
(* Types. *)

(* What a read returns. *)
LEMMA ChunkProps ==
  ASSUME stream \in Seq(Char), NEW chunk \in Chunks
  PROVE  /\ chunk \in Seq(Char) /\ Len(chunk) \in 1..Len(stream)
         /\ Drop(stream, Len(chunk)) \in Seq(Char) /\ Cat(chunk, Drop(stream, Len(chunk))) = stream
         /\ Len(Drop(stream, Len(chunk))) = Len(stream) - Len(chunk)
<1>1. PICK n \in 1..(IF Len(stream) < BufSize THEN Len(stream) ELSE BufSize) : chunk = SubSeq(stream, 1, n)
  BY DEF Chunks
<1>2. n \in 1..Len(stream)
  BY <1>1, BoundsAssumption
<1>3. n \in 0..Len(stream)
  BY <1>2
<1>4. chunk \in Seq(Char) /\ Len(chunk) = n /\ Drop(stream, n) \in Seq(Char) /\ Len(Drop(stream, n)) = Len(stream) - n
  BY <1>1, <1>3, DropProps
<1>5. Cat(chunk, Drop(stream, n)) = stream
  BY <1>1, <1>3, CatCut
<1>6. QED
  BY <1>2, <1>4, <1>5

(* What is seen of the array it was read into. *)
LEMMA StringProps ==
  ASSUME NEW chunk \in Seq(Char), NEW old \in Seq(Char), NEW str \in AsString(chunk, old)
  PROVE  /\ str \in Seq(Char) /\ Len(chunk) <= Len(str)
         /\ Len(chunk) # BufSize => \E junk \in Seq(Char) : str = Cat(chunk, junk)
         /\ Len(chunk) # BufSize /\ old = <<>> => str = chunk
<1> DEFINE d == Drop(old, Len(chunk))
<1>1. d \in Seq(Char) /\ (old = <<>> => d = <<>>)
  <2>1. \A i \in (Len(chunk) + 1)..Len(old) : old[i] \in Char
    OBVIOUS
  <2>2. d \in Seq(Char)
    BY <2>1, SubSeqProperties DEF Drop
  <2>3. ASSUME old = <<>> PROVE d = <<>>
    <3>1. Len(old) = 0 /\ Len(chunk) \in Nat
      BY <2>3
    <3>2. Len(d) = 0
      BY <2>1, <3>1, SubSeqProperties DEF Drop
    <3>3. QED
      BY <2>2, <3>2, EmptySeq
  <2>4. QED
    BY <2>2, <2>3
<1>2. "?" \in Char
  BY CharAssumption
<1>3. str = chunk \/ str = Append(chunk, "?") \/ (Len(chunk) # BufSize /\ str = Cat(chunk, d))
  BY DEF AsString, Cat
<1>4. Len(chunk) # BufSize => str = Cat(chunk, d)
  BY DEF AsString, Cat
<1> HIDE DEF d
<1>5. Cat(chunk, d) \in Seq(Char) /\ Len(Cat(chunk, d)) = Len(chunk) + Len(d) /\ Cat(chunk, <<>>) = chunk
  BY <1>1, CatProps
<1>6. Append(chunk, "?") \in Seq(Char) /\ Len(Append(chunk, "?")) = Len(chunk) + 1
  BY <1>2
<1>7. str \in Seq(Char) /\ Len(chunk) <= Len(str)
  <2>1. Len(chunk) \in Nat /\ Len(d) \in Nat
    BY <1>1
  <2>2. Len(chunk) <= Len(chunk) + Len(d) /\ Len(chunk) <= Len(chunk) + 1 /\ Len(chunk) <= Len(chunk)
    BY <2>1
  <2>3. QED
    BY <1>3, <1>5, <1>6, <2>2, Zenon
<1>8. QED
  BY <1>1, <1>4, <1>5, <1>7

(* What Parse returns. *)
LEMMA OutcomeProps ==
  ASSUME NEW p \in ParserFields, NEW s \in Seq(Char), NEW res, res = Parse(p, s)
  PROVE  /\ res.parser \in ParserFields /\ res.parsed \in 0..Len(s)
         /\ Build(res.parser) \in Command /\ res.parser.bytes \in Unsigned
         /\ res.parser.thrown \in BOOLEAN /\ res.parser.parse_complete \in BOOLEAN
<1>1. res.parser \in ParserFields /\ res.parsed \in 0..Len(s)
  BY ParseType
<1>2. Build(res.parser) \in Command
  BY <1>1 DEF Build, Command, ParserFields
<1>3. QED
  BY <1>1, <1>2 DEF ParserFields

(* Reset leaves a fresh parser. *)
LEMMA ResetProps ==
  ASSUME NEW p \in ParserFields
  PROVE  Fresh(Reset(p)) /\ Reset(p) \in ParserFields
<1>1. Fresh(Reset(p))
  BY DEF Fresh, Reset, ParserFields
<1>2. QED
  BY <1>1, FreshAt DEF At

(* The socket servers do not use input_parsed. *)
Unparsed == server # "uv" => parsed = 0

(* Requests are characters. *)
LEMMA RequestType ==
  ASSUME NEW r \in Request
  PROVE  WellFormed(r) /\ Encode(r) \in Seq(Char)
BY RequestAssumption, EncodeParts

(* The first lines of SocketRead, SocketBody and UVRead. *)
LEMMA TakesType ==
  ASSUME ITypeOK, NEW chunk \in Chunks, Takes(chunk)
  PROVE  stream' \in Seq(Char) /\ unusual' \subseteq {"pipelined", "empty", "range", "time", "cut", "full"}
BY ChunkProps DEF ITypeOK, Takes

(* No command yet. *)
LEMMA NoCommandType == NoCommand \in Command
<1>1. <<>> \in Seq(Char) /\ <<>> \in Seq(Seq(Char)) /\ 0 \in Int
  OBVIOUS
<1>2. 0 \in Unsigned
  BY Zero
<1>3. QED
  BY <1>1, <1>2 DEF NoCommand, Command

(* A connection begins with its fields in their types. *)
LEMMA TypeInit == IInit => ITypeOK /\ Unparsed
<1> SUFFICES ASSUME IInit PROVE ITypeOK /\ Unparsed
  OBVIOUS
<1>1. 0 \in Unsigned
  BY Zero
<1>2. NewParser \in ParserFields
  BY <1>1 DEF NewParser, ParserFields
<1>3. NoCommand \in Command
  BY NoCommandType
<1>4. <<>> \in Seq(Char) /\ <<>> \in Seq(Request) /\ <<>> \in Seq([command : Command, data : Seq(Char)])
  OBVIOUS
<1>5. Len(<<>>) <= MaxRequests /\ Len(<<>>) <= MaxExecuted /\ 0 \in 0..Len(<<>>)
  BY BoundsAssumption
<1>6. QED
  BY <1>1, <1>2, <1>3, <1>4, <1>5, Zenon DEF IInit, ITypeOK, Unparsed

(* ClientSends: what is sent are characters. *)
LEMMA TypeClient ==
  ASSUME ITypeOK, Unparsed, ClientSends
  PROVE  ITypeOK' /\ Unparsed'
<1>1. PICK r \in Request :
        sent' = Append(sent, r) /\ stream' = stream \o Encode(r) /\ unusual' = unusual \cup Unusual(r)
  BY DEF ClientSends
<1>2. Encode(r) \in Seq(Char)
  BY RequestType
<1>3. stream' \in Seq(Char)
  BY <1>1, <1>2, Concat DEF ITypeOK
<1>4. sent' \in Seq(Request) /\ Len(sent') <= MaxRequests
  BY <1>1, BoundsAssumption DEF ITypeOK, ClientSends
<1>5. unusual' \subseteq {"pipelined", "empty", "range", "time", "cut", "full"}
  BY <1>1 DEF ITypeOK, Unusual
<1>6. QED
  BY <1>3, <1>4, <1>5 DEF ITypeOK, Unparsed, ClientSends

(* SocketRead: what Parse returns has the types of the fields. *)
LEMMA TypeSocketRead ==
  ASSUME ITypeOK, Unparsed, SocketRead
  PROVE  ITypeOK' /\ Unparsed'
<1>0. /\ parser \in ParserFields /\ stream \in Seq(Char) /\ command \in Seq(Char) /\ buf \in Seq(Char)
      /\ cmd \in Command /\ body_size \in Unsigned
  BY DEF ITypeOK
<1>a. PICK chunk \in Chunks : \E str \in AsString(chunk, <<>>) : Takes(chunk) /\ SocketParse(chunk, str)
  BY DEF SocketRead
<1>1. PICK str \in AsString(chunk, <<>>) : Takes(chunk) /\ SocketParse(chunk, str)
  BY <1>a
<1> DEFINE text == command \o str
           part == SubSeq(text, 1, Len(chunk))
           r == Parse(parser, part)
           p == r.parser
<1>3. chunk \in Seq(Char) /\ Len(chunk) \in 1..Len(stream)
  BY <1>0, ChunkProps
<1>4. str \in Seq(Char) /\ Len(chunk) <= Len(str)
  <2>1. <<>> \in Seq(Char)
    OBVIOUS
  <2>2. QED
    BY <1>3, <2>1, StringProps
<1>5. text \in Seq(Char) /\ Len(chunk) \in 0..Len(text)
  <2>1. text \in Seq(Char) /\ Len(text) = Len(command) + Len(str) /\ Len(command) \in Nat /\ Len(str) \in Nat
    BY <1>0, <1>4, ConcatAt
  <2> HIDE DEF text
  <2>2. QED
    BY <1>3, <1>4, <2>1
<1> HIDE DEF text
<1>6. part \in Seq(Char) /\ Len(part) = Len(chunk)
  BY <1>5, DropProps
<1> HIDE DEF part
<1>7. p \in ParserFields /\ r.parsed \in 0..Len(chunk) /\ Build(p) \in Command /\ p.bytes \in Unsigned
  BY <1>0, <1>6, OutcomeProps
<1>8. Reset(p) \in ParserFields
  BY <1>7, ResetProps
<1>9. Drop(text, r.parsed) \in Seq(Char)
  <2>1. r.parsed \in 0..Len(text)
    BY <1>5, <1>7
  <2>2. QED
    BY <1>5, <2>1, DropProps
<1>10. \/ p.thrown /\ Reject
       \/ /\ ~p.thrown /\ ~p.parse_complete
          /\ parser' = p /\ command' = Drop(text, r.parsed)
          /\ UNCHANGED <<pc, buf, cmd, body_size, rejected>>
       \/ p.parse_complete /\ ~CanBuild(p) /\ Crash
       \/ /\ p.parse_complete /\ CanBuild(p)
          /\ cmd' = Build(p) /\ body_size' = p.bytes /\ parser' = Reset(p)
          /\ command' = Drop(text, r.parsed) /\ buf' = str
          /\ pc' = IF p.bytes > 0 THEN "body" ELSE "execute"
          /\ UNCHANGED rejected
  BY <1>1 DEF SocketParse, text, part
<1> HIDE DEF r, p
<1>11. /\ parser' \in ParserFields /\ command' \in Seq(Char) /\ buf' \in Seq(Char) /\ cmd' \in Command
       /\ body_size' \in Unsigned
  BY <1>0, <1>4, <1>7, <1>8, <1>9, <1>10 DEF Reject, Crash, p
<1>12. pc' \in {"read", "body", "loop", "execute", "closed", "crashed"} /\ rejected' \in BOOLEAN
  BY <1>10 DEF Reject, Crash, ITypeOK
<1>13. stream' \in Seq(Char) /\ unusual' \subseteq {"pipelined", "empty", "range", "time", "cut", "full"}
  BY <1>1, TakesType
<1>14. UNCHANGED <<server, sent, parsed, state, body, executed>> /\ server # "uv"
  BY DEF SocketRead, Socket
<1>15. parsed' \in 0..Len(command')
  BY <1>11, <1>14 DEF Unparsed
<1>16. QED
  BY <1>11, <1>12, <1>13, <1>14, <1>15 DEF ITypeOK, Unparsed

(* SocketBody: buf and command are characters. *)
LEMMA TypeSocketBody ==
  ASSUME ITypeOK, Unparsed, SocketBody
  PROVE  ITypeOK' /\ Unparsed'
<1>0. stream \in Seq(Char) /\ command \in Seq(Char) /\ buf \in Seq(Char)
  BY DEF ITypeOK
<1>1. /\ command' \in Seq(Char) /\ buf' \in Seq(Char) /\ stream' \in Seq(Char)
      /\ unusual' \subseteq {"pipelined", "empty", "range", "time", "cut", "full"}
  <2>1. ASSUME NEW chunk \in Chunks, NEW str \in AsString(chunk, buf),
               Takes(chunk) /\ buf' = str /\ command' = command \o str
        PROVE  <1>1!:
    <3>1. chunk \in Seq(Char)
      BY <1>0, ChunkProps
    <3>2. str \in Seq(Char)
      BY <1>0, <3>1, StringProps
    <3>3. command \o str \in Seq(Char)
      BY <1>0, <3>2, Concat
    <3>4. QED
      BY <2>1, <3>2, <3>3, TakesType
  <2>2. ASSUME unusual' = unusual \cup {"cut"}, command' = command \o buf, UNCHANGED <<stream, buf>>
        PROVE  <1>1!:
    <3>1. command \o buf \in Seq(Char)
      BY <1>0, Concat
    <3>2. QED
      BY <1>0, <2>2, <3>1 DEF ITypeOK
  <2>3. QED
    BY <2>1, <2>2 DEF SocketBody
<1>2. UNCHANGED <<server, sent, pc, parser, parsed, state, cmd, body_size, body, executed, rejected>> /\ server # "uv"
  BY DEF SocketBody, Socket
<1>3. parsed' \in 0..Len(command')
  BY <1>1, <1>2 DEF Unparsed
<1>4. QED
  BY <1>1, <1>2, <1>3 DEF ITypeOK, Unparsed

(* SocketArgs: the argument is a part of command. *)
LEMMA TypeSocketArgs ==
  ASSUME ITypeOK, Unparsed, SocketArgs
  PROVE  ITypeOK' /\ Unparsed'
<1>1. command \in Seq(Char) /\ body_size \in Nat
  BY WidthAssumption DEF ITypeOK, Unsigned
<1>2. body_size <= Len(command) => SubSeq(command, 1, body_size) \in Seq(Char)
  <2>1. body_size <= Len(command) => body_size \in 0..Len(command)
    BY <1>1
  <2>2. QED
    BY <1>1, <2>1, DropProps
<1>3. body' \in Seq(Char)
  BY <1>1, <1>2 DEF SocketArgs
<1>4. QED
  BY <1>3 DEF ITypeOK, Unparsed, SocketArgs

(* UVRead: the buffer is used from its beginning again. *)
LEMMA TypeUVRead ==
  ASSUME ITypeOK, Unparsed, UVRead
  PROVE  ITypeOK' /\ Unparsed'
<1>1. PICK chunk \in Chunks : Takes(chunk) /\ command' = Drop(command, parsed) \o chunk
  BY DEF UVRead
<1>2. stream \in Seq(Char) /\ command \in Seq(Char) /\ parsed \in 0..Len(command)
  BY DEF ITypeOK
<1>3. chunk \in Seq(Char) /\ Drop(command, parsed) \in Seq(Char)
  BY <1>2, ChunkProps, DropProps
<1>4. command' \in Seq(Char)
  BY <1>1, <1>3, Concat
<1>5. stream' \in Seq(Char) /\ unusual' \subseteq {"pipelined", "empty", "range", "time", "cut", "full"}
  BY <1>1, TakesType
<1>6. parsed' = 0 /\ 0 \in 0..Len(command')
  BY <1>4 DEF UVRead
<1>7. QED
  BY <1>4, <1>5, <1>6 DEF ITypeOK, Unparsed, UVRead

(* UVHeader: Parse does not run past the end of the buffer. *)
LEMMA TypeUVHeader ==
  ASSUME ITypeOK, Unparsed, UVHeader
  PROVE  ITypeOK' /\ Unparsed'
<1> DEFINE r == Parse(parser, command)
           p == r.parser
<1>1. \/ (p.thrown \/ (p.parse_complete /\ ~CanBuild(p))) /\ Reject /\ UNCHANGED <<parsed, state>>
      \/ /\ ~p.thrown /\ ~p.parse_complete
         /\ parser' = p /\ parsed' = r.parsed
         /\ UNCHANGED <<pc, command, buf, state, cmd, body_size, rejected>>
      \/ /\ p.parse_complete /\ CanBuild(p)
         /\ parser' = p /\ parsed' = r.parsed
         /\ cmd' = Build(p) /\ body_size' = p.bytes
         /\ IF p.bytes > 0 THEN state' = "sRecvBody" /\ UNCHANGED pc
                           ELSE state' = "sExecute" /\ pc' = "execute"
         /\ UNCHANGED <<command, buf, rejected>>
  BY DEF UVHeader
<1>2. /\ parser \in ParserFields /\ command \in Seq(Char) /\ parsed \in 0..Len(command) /\ cmd \in Command
      /\ body_size \in Unsigned /\ buf \in Seq(Char)
  BY DEF ITypeOK
<1>3. p \in ParserFields /\ r.parsed \in 0..Len(command) /\ Build(p) \in Command /\ p.bytes \in Unsigned
  BY <1>2, OutcomeProps
<1> HIDE DEF r, p
<1>4. command' = command /\ buf' = buf
  BY <1>1 DEF Reject
<1>5. parser' \in ParserFields /\ cmd' \in Command /\ body_size' \in Unsigned
  BY <1>1, <1>2, <1>3 DEF Reject
<1>6. parsed' \in 0..Len(command')
  BY <1>1, <1>2, <1>3, <1>4
<1>7. /\ pc' \in {"read", "body", "loop", "execute", "closed", "crashed"} /\ rejected' \in BOOLEAN
      /\ state' \in {"sRecvHeader", "sRecvBody", "sRecvTrailerCR", "sRecvTrailerLF", "sExecute"}
  BY <1>1 DEF Reject, ITypeOK
<1>8. UNCHANGED <<server, sent, stream, body, executed, unusual>> /\ server = "uv"
  BY DEF UVHeader, InLoop
<1>9. QED
  BY <1>2, <1>4, <1>5, <1>6, <1>7, <1>8 DEF ITypeOK, Unparsed

(* UVBody copies the smaller of what is there and what is missing. *)
LEMMA ForCopy ==
  ASSUME ITypeOK, UVBody
  PROVE  \E n \in Nat :
           /\ parsed + n \in 0..Len(command) /\ n <= body_size /\ (n > 0 \/ body_size = 0)
           /\ n = body_size \/ parsed + n = Len(command)
           /\ body' = body \o SubSeq(command, parsed + 1, parsed + n)
           /\ SubSeq(command, parsed + 1, parsed + n) \in Seq(Char)
           /\ body_size' = body_size - n /\ parsed' = parsed + n
<1> DEFINE rest == Len(command) - parsed
           n == IF rest < body_size THEN rest ELSE body_size
<1>1. body' = body \o SubSeq(command, parsed + 1, parsed + n) /\ body_size' = body_size - n /\ parsed' = parsed + n
  BY DEF UVBody
<1>2. command \in Seq(Char) /\ Len(command) \in Nat /\ parsed \in 0..Len(command) /\ body_size \in Nat
  BY WidthAssumption DEF ITypeOK, Unsigned
<1>3. parsed < Len(command)
  BY DEF UVBody, InLoop
<1>4. /\ n \in Nat /\ parsed + n \in 0..Len(command) /\ n <= body_size /\ (n > 0 \/ body_size = 0)
      /\ n = body_size \/ parsed + n = Len(command)
  BY <1>2, <1>3
<1> HIDE DEF n
<1>5. SubSeq(command, parsed + 1, parsed + n) \in Seq(Char)
  <2>1. \A i \in (parsed + 1)..(parsed + n) : command[i] \in Char
    BY <1>2, <1>4
  <2>2. parsed + 1 \in Int /\ parsed + n \in Int
    BY <1>2, <1>4
  <2>3. QED
    BY <2>1, <2>2, SubSeqProperties
<1>6. QED
  BY <1>1, <1>4, <1>5

(* UVBody: neither input_parsed nor body_size passes its limit. *)
LEMMA TypeUVBody ==
  ASSUME ITypeOK, Unparsed, UVBody
  PROVE  ITypeOK' /\ Unparsed'
<1>1. PICK n \in Nat :
           /\ parsed + n \in 0..Len(command) /\ n <= body_size /\ (n > 0 \/ body_size = 0)
           /\ n = body_size \/ parsed + n = Len(command)
           /\ body' = body \o SubSeq(command, parsed + 1, parsed + n)
           /\ SubSeq(command, parsed + 1, parsed + n) \in Seq(Char)
           /\ body_size' = body_size - n /\ parsed' = parsed + n
  BY ForCopy
<1>2. body' \in Seq(Char)
  BY <1>1, Concat DEF ITypeOK
<1>3. body_size' \in Unsigned
  BY <1>1, WidthAssumption DEF ITypeOK, Unsigned
<1>4. command' = command /\ parsed' \in 0..Len(command') /\ server' = "uv"
  BY <1>1 DEF UVBody, InLoop
<1>5. state' \in {"sRecvHeader", "sRecvBody", "sRecvTrailerCR", "sRecvTrailerLF", "sExecute"}
  BY DEF UVBody, ITypeOK
<1>6. QED
  BY <1>2, <1>3, <1>4, <1>5 DEF ITypeOK, Unparsed, UVBody

(* UVTrailer: one character at a time, within the buffer. *)
LEMMA TypeUVTrailer ==
  ASSUME ITypeOK, Unparsed, UVTrailer
  PROVE  ITypeOK' /\ Unparsed'
<1>1. command \in Seq(Char) /\ Len(command) \in Nat /\ parsed \in 0..Len(command)
  BY DEF ITypeOK
<1>2. server = "uv" /\ parsed < Len(command)
  BY DEF UVTrailer, InLoop
<1>3. /\ UNCHANGED <<server, sent, stream, parser, command, buf, cmd, body_size, body, executed, unusual>>
      /\ parsed' = parsed \/ parsed' = parsed + 1
  BY DEF UVTrailer, Reject
<1>4. parsed' \in 0..Len(command')
  BY <1>1, <1>2, <1>3
<1>5. /\ pc' \in {"read", "body", "loop", "execute", "closed", "crashed"} /\ rejected' \in BOOLEAN
      /\ state' \in {"sRecvHeader", "sRecvBody", "sRecvTrailerCR", "sRecvTrailerLF", "sExecute"}
  BY DEF UVTrailer, Reject, ITypeOK
<1>6. QED
  BY <1>2, <1>3, <1>4, <1>5 DEF ITypeOK, Unparsed

(* Execute: the fields are reset, the command is recorded. *)
LEMMA TypeExecute ==
  ASSUME ITypeOK, Unparsed, Execute
  PROVE  ITypeOK' /\ Unparsed'
<1>1. /\ parser \in ParserFields /\ cmd \in Command /\ body \in Seq(Char) /\ command \in Seq(Char)
      /\ parsed \in 0..Len(command) /\ executed \in Seq([command : Command, data : Seq(Char)])
  BY DEF ITypeOK
<1>2. parser' \in ParserFields
  BY <1>1, ResetProps DEF Execute
<1>3. 0 \in Unsigned
  BY Zero
<1>4. cmd' \in Command
  BY NoCommandType DEF Execute
<1>5. /\ executed' \in Seq([command : Command, data : Seq(Char)]) /\ Len(executed') <= MaxExecuted
  <2> DEFINE e == [command |-> cmd, data |-> body]
  <2>1. e \in [command : Command, data : Seq(Char)]
    BY <1>1
  <2> HIDE DEF e
  <2>2. executed' = Append(executed, e) /\ Len(executed) < MaxExecuted
    BY DEF Execute, e
  <2>3. QED
    BY <1>1, <2>1, <2>2, BoundsAssumption
<1>6. command' \in Seq(Char) /\ parsed' \in 0..Len(command')
  <2>1. CASE server = "uv"
    BY <1>1, <2>1 DEF Execute
  <2>2. CASE server # "uv"
    BY <2>2 DEF Execute, Unparsed
  <2>3. QED
    BY <2>1, <2>2
<1>7. <<>> \in Seq(Char)
  OBVIOUS
<1>8. body' \in Seq(Char) /\ buf' \in Seq(Char) /\ body_size' \in Unsigned /\ state' = "sRecvHeader"
  BY <1>3, <1>7 DEF Execute
<1>9. pc' \in {"loop", "read"} /\ UNCHANGED <<server, sent, stream, parsed, rejected, unusual>>
  BY DEF Execute
<1>10. QED
  BY <1>2, <1>4, <1>5, <1>6, <1>8, <1>9 DEF ITypeOK, Unparsed

(* Every step keeps the types. *)
LEMMA TypeStep ==
  ASSUME ITypeOK, Unparsed, [INext]_ivars
  PROVE  ITypeOK' /\ Unparsed'
<1>1. CASE ClientSends
  BY <1>1, TypeClient
<1>2. CASE SocketAgain
  BY <1>2 DEF SocketAgain, ITypeOK, Unparsed
<1>3. CASE SocketRead
  BY <1>3, TypeSocketRead
<1>4. CASE SocketBody
  BY <1>4, TypeSocketBody
<1>5. CASE SocketArgs
  BY <1>5, TypeSocketArgs
<1>6. CASE UVRead
  BY <1>6, TypeUVRead
<1>7. CASE UVHeader
  BY <1>7, TypeUVHeader
<1>8. CASE UVBody
  BY <1>8, TypeUVBody
<1>9. CASE UVTrailer
  BY <1>9, TypeUVTrailer
<1>10. CASE UVLoopEnds
  BY <1>10 DEF UVLoopEnds, ITypeOK, Unparsed
<1>11. CASE Execute
  BY <1>11, TypeExecute
<1>12. CASE UNCHANGED ivars
  BY <1>12 DEF ivars, ITypeOK, Unparsed
<1>13. QED
  BY <1>1, <1>2, <1>3, <1>4, <1>5, <1>6, <1>7, <1>8, <1>9, <1>10, <1>11, <1>12 DEF INext, Server

(* The fields of a connection keep their types, whatever is sent and however *)
(* it is cut: a number fits into its field, input_parsed lies within the     *)
(* buffer.                                                                   *)
THEOREM InputTypes == ISpec => []ITypeOK
<1>1. IInit => ITypeOK /\ Unparsed
  BY TypeInit
<1>2. ITypeOK /\ Unparsed /\ [INext]_ivars => (ITypeOK /\ Unparsed)'
  BY TypeStep
<1>3. QED
  BY <1>1, <1>2, PTL DEF ISpec

=============================================================================
