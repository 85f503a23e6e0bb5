------------------------------ MODULE RankLane ------------------------------
(***************************************************************************)
(* One lane whose cards are placed with generateKeyBetween: a card goes    *)
(* into any gap and cards leave, in any order and for as long as one       *)
(* likes.  The lane is kept in the order its users gave it, so that the    *)
(* order of the keys can be compared with it.                              *)
(***************************************************************************)
EXTENDS RankKeys, SequencesExt, FiniteSets

CONSTANTS MaxCards,      \* bound: cards in the lane at once
          MaxFraction,   \* bound: longest fraction of a stored key
          MaxBulk        \* bound: keys generated at once

ASSUME LaneBounds == MaxCards \in Nat \ {0} /\ MaxFraction \in Nat /\ MaxBulk \in Nat

VARIABLE lane            \* the ranks of the cards, first card first

KeyAt(i) == IF i \in DOMAIN lane THEN lane[i] ELSE NoKey

\* what moveCard computes for the gap behind card i (in front of the lane: 0)
Generated(i) == GenerateKeyBetween(KeyAt(i), KeyAt(i + 1))

Init == lane = <<>>

\* Variant: the caller ignores that no key was generated.
InsertUnchecked(i) ==
  /\ Len(lane) < MaxCards
  /\ lane' = InsertAt(lane, i + 1, Generated(i))

\* A call that throws leaves the lane as it is.
InsertBehind(i) ==
  /\ Len(lane) < MaxCards
  /\ Generated(i) # NoKey
  /\ Len(Fraction(Generated(i))) <= MaxFraction
  /\ lane' = InsertAt(lane, i + 1, Generated(i))

Leave(i) == lane' = RemoveAt(lane, i)

Next == \/ \E i \in 0 .. Len(lane) : InsertBehind(i)
        \/ \E i \in 1 .. Len(lane) : Leave(i)

Spec == Init /\ [][Next]_lane

-----------------------------------------------------------------------------
(* Reference: a key read as a number.                                      *)

\* Base^n
Power[n \in Nat] == IF n = 0 THEN 1 ELSE Base * Power[n - 1]

\* the first n digits of f as a number, zeros behind its end
Digital[n \in Nat] ==
  [f \in Seq(Int) |-> IF n = 0 THEN 0 ELSE Base * Digital[n - 1][f] + DigitAt(f, n)]

\* how many integers have a head of the sign of h, nearer to 'a' or 'Z'
Smaller[h \in Nat] == IF h = 0 THEN 0 ELSE Smaller[h - 1] + Power[h]

\* the number of FirstOfHead(h), counted from 'a0'
FirstNumber(h) == IF h >= 0 THEN Smaller[h] ELSE -Smaller[-h]

IntegerNumber(x) == FirstNumber(x[1]) + Digital[Len(x) - 1][Tail(x)]

Number(k) == IntegerNumber(IntegerPart(k)) * Power[MaxFraction + 1]
               + Digital[MaxFraction + 1][Fraction(k)]

-----------------------------------------------------------------------------
\* The lane is a list of at most MaxCards keys (clients.rank is NOT NULL).
TypeOK == /\ lane \in Seq(Seq(Int))
          /\ Len(lane) <= MaxCards
          /\ \A i \in DOMAIN lane : lane[i] # NoKey

\* ORDER BY rank gives the order in which the cards were placed, whatever
\* the history of insertions and departures: each key generateKeyBetween
\* returned went strictly between its neighbours.
KeysFollowLane ==
  \A i, j \in DOMAIN lane : i < j => Less(lane[i], lane[j])

\* "A new key can ALWAYS be generated strictly between any two existing keys"
\* (rank.ts:6), made exact: every gap of every reachable lane gets a valid
\* key strictly inside it, except at the floor of the key space.  There a
\* card put in front of the integer one above the smallest is given the
\* smallest integer itself, which validateOrderKey refuses from then on.
Floor == {SmallestInteger, Increment(SmallestInteger)}

EveryGapOpens ==
  \A i \in 0 .. Len(lane) :
     LET k == Generated(i)
     IN  \/ /\ IsOrderKey(k)
            /\ i > 0 => Less(lane[i], k)
            /\ i < Len(lane) => Less(k, lane[i + 1])
         \/ /\ i = 0 /\ Len(lane) > 0 /\ lane[1] \in Floor
            /\ k \in {NoKey, SmallestInteger}
         \/ i = 1 /\ lane[1] = SmallestInteger /\ k = NoKey

\* The string order is the numeric order of the integers and fractions the
\* keys denote: the head letters order integers of different lengths right.
\* It relates what was stored to what may be generated next to it.
OrderIsNumeric ==
  LET keys == Range(lane) \cup ({Generated(i) : i \in 0 .. Len(lane)} \ {NoKey})
      fits == {k \in keys : Len(Fraction(k)) <= MaxFraction + 1}
  IN  \A a, b \in fits : Less(a, b) <=> Number(a) < Number(b)

\* The integers in front of a key: there are as many places left.
AllIntegers ==
  UNION {{<<h>> \o ds : ds \in [1 .. IntegerLength(h) - 1 -> Digits]} : h \in -Heads .. Heads - 1}

Room(k) == Cardinality({x \in AllIntegers : Less(x, k)})

ReachesFloor(i, n) ==
  \/ i = 0 /\ Len(lane) > 0 /\ Room(lane[1]) <= n
  \/ i = 1 /\ lane[1] = SmallestInteger

\* generateNKeysBetween fills any gap with n distinct keys in order, all
\* strictly inside the gap and all valid (the backfill of a lane relies on
\* it), unless the n keys run into the floor.
BulkKeysFit ==
  \A i \in 0 .. Len(lane), n \in 1 .. MaxBulk :
     LET a  == KeyAt(i)
         b  == KeyAt(i + 1)
         ks == GenerateNKeysBetween[n][<<a, b>>]
     IN  ReachesFloor(i, n) \/
           /\ Len(ks) = n
           /\ \A j \in 1 .. n : IsOrderKey(ks[j])
           /\ \A j \in 1 .. n - 1 : Less(ks[j], ks[j + 1])
           /\ a # NoKey => Less(a, ks[1])
           /\ b # NoKey => Less(ks[n], b)
=============================================================================
