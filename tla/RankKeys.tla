------------------------------ MODULE RankKeys ------------------------------
(***************************************************************************)
(* The order keys of src/domain/rank.ts: strings that name the place of a  *)
(* card inside its lane, and the function that makes a new one between two *)
(* others.                                                                 *)
(*                                                                         *)
(* A key is written <<h, d1, ..., dn>>.  h stands for the head letter: 0   *)
(* for 'a', 1 for 'b', ..., Heads - 1 for 'z', and -1 for 'Z', ..., -Heads *)
(* for 'A'.  The d's stand for the digit characters.  Upper-case letters   *)
(* precede lower-case ones in ASCII and the digits of BASE_62_DIGITS are   *)
(* in ASCII order, so the order of the strings is the lexicographic order  *)
(* of these sequences.  The code has Heads = 26 and Base = 62; the         *)
(* algorithm depends on neither.                                           *)
(***************************************************************************)
EXTENDS Integers, Sequences

CONSTANTS Base,    \* digits.length
          Heads    \* letters per case

ASSUME KeyParameters == Base \in Nat \ {0, 1} /\ Heads \in Nat \ {0}

\* null, and a call that throws: the empty sequence is no key.
NoKey == <<>>

Digits == 0 .. Base - 1

Repeat(d, n) == [i \in 1 .. n |-> d]

-----------------------------------------------------------------------------
(* Integer part and fraction.                                              *)

\* getIntegerLength: letters and digits of an integer part with head h
IntegerLength(h) == IF h >= 0 THEN h + 2 ELSE 1 - h

\* smallestInteger: 'A' and as many zeros as an 'A' integer has
SmallestInteger == <<-Heads>> \o Repeat(0, IntegerLength(-Heads) - 1)

IntegerPart(k) == SubSeq(k, 1, IntegerLength(k[1]))
Fraction(k)    == SubSeq(k, IntegerLength(k[1]) + 1, Len(k))

EndsInZero(f) == f # <<>> /\ f[Len(f)] = 0

\* A string of the right alphabet, and what validateOrderKey accepts.
IsOrderKey(k) ==
  /\ k # <<>>
  /\ k[1] \in -Heads .. Heads - 1
  /\ \A i \in 2 .. Len(k) : k[i] \in Digits
  /\ k # SmallestInteger
  /\ IntegerLength(k[1]) <= Len(k)
  /\ ~ EndsInZero(Fraction(k))

\* Variant: the rank column without COLLATE "C".  A locale sorts by letter
\* first and by case second.
LessInLocale(a, b) ==
  LET Weight(h) == IF h >= 0 THEN 2 * h ELSE 2 * (Heads + h) + 1
  IN  IF a[1] # b[1] THEN Weight(a[1]) < Weight(b[1])
      ELSE \E i \in 2 .. Len(b) :
             /\ i <= Len(a) + 1
             /\ \A j \in 2 .. i - 1 : a[j] = b[j]
             /\ i <= Len(a) => a[i] < b[i]

\* a < b on strings
Less(a, b) ==
  \E i \in 1 .. Len(b) :
     /\ i <= Len(a) + 1
     /\ \A j \in 1 .. i - 1 : a[j] = b[j]
     /\ i <= Len(a) => a[i] < b[i]

-----------------------------------------------------------------------------
(* incrementInteger and decrementInteger: the next integer up or down.  A  *)
(* carry out of the digits moves on to the next head letter, whose         *)
(* integers have one digit more or less.                                   *)

\* the place of the last digit other than d, 1 (the head) when there is none
LastOther(x, d) ==
  CHOOSE i \in 1 .. Len(x) :
     /\ i = 1 \/ x[i] # d
     /\ \A j \in i + 1 .. Len(x) : x[j] = d

\* the smallest and the largest integer with head h
FirstOfHead(h) == <<h>> \o Repeat(0, IntegerLength(h) - 1)
LastOfHead(h)  == <<h>> \o Repeat(Base - 1, IntegerLength(h) - 1)

Increment(x) ==
  LET i == LastOther(x, Base - 1)
  IN  IF i > 1
      THEN [j \in 1 .. Len(x) |->
              IF j < i THEN x[j] ELSE IF j = i THEN x[j] + 1 ELSE 0]
      ELSE IF x[1] = Heads - 1 THEN NoKey ELSE FirstOfHead(x[1] + 1)

\* Variant: a borrow out of the digits leaves zeros behind.
DecrementToZeros(x) ==
  LET i == LastOther(x, 0)
  IN  IF i > 1
      THEN [j \in 1 .. Len(x) |->
              IF j < i THEN x[j] ELSE IF j = i THEN x[j] - 1 ELSE Base - 1]
      ELSE IF x[1] = -Heads THEN NoKey ELSE FirstOfHead(x[1] - 1)

Decrement(x) ==
  LET i == LastOther(x, 0)
  IN  IF i > 1
      THEN [j \in 1 .. Len(x) |->
              IF j < i THEN x[j] ELSE IF j = i THEN x[j] - 1 ELSE Base - 1]
      ELSE IF x[1] = -Heads THEN NoKey ELSE LastOfHead(x[1] - 1)

-----------------------------------------------------------------------------
(* midpoint: a fraction between two fractions, as short as it can be.  The *)
(* recursion of the code runs along a common prefix and then along the     *)
(* leading largest digits of a; each stretch is one definition here.       *)

DigitAt(f, i) == IF i <= Len(f) THEN f[i] ELSE 0

\* Math.round(0.5 * (x + y)) rounds a half up
RoundedMean(x, y) == (x + y + 1) \div 2

\* midpoint(a, null)
MidAbove(a) ==
  LET i == CHOOSE i \in 1 .. Len(a) + 1 :
             /\ DigitAt(a, i) # Base - 1
             /\ \A j \in 1 .. i - 1 : a[j] = Base - 1
  IN  SubSeq(a, 1, i - 1) \o <<RoundedMean(DigitAt(a, i), Base)>>

\* Variant: takes a mean also of two digits that have none between them.
MidBetweenTight(a, b) ==
  LET i == CHOOSE i \in 1 .. Len(b) :
             /\ DigitAt(a, i) # b[i]
             /\ \A j \in 1 .. i - 1 : DigitAt(a, j) = b[j]
  IN  SubSeq(b, 1, i - 1) \o <<RoundedMean(DigitAt(a, i), b[i])>>

\* midpoint(a, b), a < b and neither ending in a zero
MidBetween(a, b) ==
  LET i  == CHOOSE i \in 1 .. Len(b) :
              /\ DigitAt(a, i) # b[i]
              /\ \A j \in 1 .. i - 1 : DigitAt(a, j) = b[j]
      da == DigitAt(a, i)
  IN  SubSeq(b, 1, i - 1) \o
      (IF b[i] - da > 1 THEN <<RoundedMean(da, b[i])>>
       ELSE IF Len(b) > i THEN <<b[i]>>
       ELSE <<da>> \o MidAbove(SubSeq(a, i + 1, Len(a))))

-----------------------------------------------------------------------------
(* generateKeyBetween.                                                     *)

KeyBefore(b) ==
  LET ib == IntegerPart(b)
  IN  IF ib = SmallestInteger THEN ib \o MidBetween(<<>>, Fraction(b))
      ELSE IF Less(ib, b) THEN ib
      ELSE Decrement(ib)

\* Variant: no fraction behind the largest integer.
KeyAfterNoFraction(a) == Increment(IntegerPart(a))

KeyAfter(a) ==
  LET up == Increment(IntegerPart(a))
  IN  IF up = NoKey THEN IntegerPart(a) \o MidAbove(Fraction(a)) ELSE up

KeyInside(a, b) ==
  LET ia == IntegerPart(a)
      up == Increment(ia)
  IN  IF ia = IntegerPart(b) THEN ia \o MidBetween(Fraction(a), Fraction(b))
      ELSE IF up = NoKey \/ Less(up, b) THEN up
      ELSE ia \o MidAbove(Fraction(a))

\* A call the code answers with a throw returns NoKey.
GenerateKeyBetween(a, b) ==
  IF \/ a # NoKey /\ ~ IsOrderKey(a)
     \/ b # NoKey /\ ~ IsOrderKey(b)
     \/ a # NoKey /\ b # NoKey /\ ~ Less(a, b)
  THEN NoKey
  ELSE IF a = NoKey THEN IF b = NoKey THEN <<0, 0>> ELSE KeyBefore(b)
  ELSE IF b = NoKey THEN KeyAfter(a)
  ELSE KeyInside(a, b)

\* generateNKeysBetween(a, b, n), as a function of n and of the gap <<a, b>>.
\* A call that throws adds no keys: the result is shorter than n.
GenerateNKeysBetween[n \in Nat] ==
  [gap \in Seq(Int) \X Seq(Int) |->
     LET a   == gap[1]
         b   == gap[2]
         c   == GenerateKeyBetween(a, b)
         mid == n \div 2
     IN  IF n = 0 \/ c = NoKey THEN <<>>
         ELSE IF n = 1 THEN <<c>>
         ELSE IF b = NoKey THEN <<c>> \o GenerateNKeysBetween[n - 1][<<c, b>>]
         ELSE IF a = NoKey THEN GenerateNKeysBetween[n - 1][<<a, c>>] \o <<c>>
         ELSE GenerateNKeysBetween[mid][<<a, c>>] \o <<c>>
                \o GenerateNKeysBetween[n - mid - 1][<<c, b>>]]
=============================================================================
