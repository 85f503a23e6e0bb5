--------------------------- MODULE RankLaneProofs ----------------------------
(***************************************************************************)
(* generateKeyBetween returns a key strictly between its bounds, whatever  *)
(* the digits and the letters are and however long the keys have grown;    *)
(* hence a lane that is built with it stays in the order of its keys, and  *)
(* this is the order of the numbers that the keys denote.                  *)
(* generateNKeysBetween fills a gap with as many keys as one asks for,     *)
(* unless they run out of the integers in front of the lane.               *)
(***************************************************************************)
EXTENDS RankLane, FiniteSetTheorems, SequenceTheorems, WellFoundedInduction, TLAPS

\* The integer part of a key, and what may follow it.
IsInteger(x) ==
  /\ x \in Seq(Int) /\ x # <<>>
  /\ x[1] \in -Heads .. Heads - 1
  /\ Len(x) = IntegerLength(x[1])
  /\ \A i \in 2 .. Len(x) : x[i] \in Digits

IsFraction(f) == f \in Seq(Digits) /\ ~ EndsInZero(f)

Valid(k) == k \in Seq(Int) /\ IsOrderKey(k)

\* x and y part at i, where x is smaller.
PartAt(x, y, i) ==
  /\ i \in 1 .. Len(x) /\ i \in 1 .. Len(y)
  /\ \A j \in 1 .. i - 1 : x[j] = y[j]
  /\ x[i] < y[i]

-----------------------------------------------------------------------------
(* The first and the last of some places.                                  *)

LEMMA MinimalSet ==
  ASSUME NEW S, IsFiniteSet(S), NEW F, F \subseteq SUBSET S, F # {}
  PROVE  \E A \in F : \A B \in F : B \subseteq A => B = A
<1> DEFINE R == StrictSubsetOrdering(S)
<1>1. IsWellFoundedOn(R, FiniteSubsetsOf(S))
  BY FS_StrictSubsetOrderingWellFounded
<1>2. FiniteSubsetsOf(S) = SUBSET S
  BY FS_FiniteSubsetsOfFinite
<1>3. \E A \in F : \A B \in F : ~ (<<B, A>> \in R)
  <2> HIDE DEF R
  <2> QED
    BY <1>1, <1>2, WFMin
<1> QED
  BY <1>3 DEF StrictSubsetOrdering

LEMMA Least ==
  ASSUME NEW n \in Nat, NEW T, T \subseteq 1 .. n, T # {}
  PROVE  \E x \in T : \A y \in T : x <= y
<1> DEFINE F == {1 .. m : m \in T}
           S == 1 .. n
<1>1. F \subseteq SUBSET S /\ F # {}
  <2>1. \A m \in T : 1 .. m \subseteq S
    OBVIOUS
  <2> QED
    BY <2>1
<1>2. IsFiniteSet(S)
  BY FS_Interval
<1>3. PICK A \in F : \A B \in F : B \subseteq A => B = A
  <2> HIDE DEF F, S
  <2> QED
    BY <1>1, <1>2, MinimalSet
<1>4. PICK x \in T : A = 1 .. x
  BY <1>3
<1>5. ASSUME NEW y \in T, y < x
      PROVE  FALSE
  <2>1. 1 .. y \in F /\ 1 .. y \subseteq 1 .. x
    BY <1>5
  <2>2. 1 .. y = 1 .. x
    BY <1>3, <1>4, <2>1
  <2>3. x \in 1 .. x /\ x \notin 1 .. y
    BY <1>5
  <2> QED
    BY <2>2, <2>3
<1> QED
  BY <1>5

LEMMA Greatest ==
  ASSUME NEW n \in Nat, NEW T, T \subseteq 1 .. n, T # {}
  PROVE  \E x \in T : \A y \in T : y <= x
<1> DEFINE U == {n + 1 - m : m \in T}
<1>1. U \subseteq 1 .. n /\ U # {}
  <2>1. \A m \in T : n + 1 - m \in 1 .. n
    OBVIOUS
  <2> QED
    BY <2>1
<1>2. PICK u \in U : \A v \in U : u <= v
  <2> HIDE DEF U
  <2> QED
    BY <1>1, Least
<1>3. PICK x \in T : u = n + 1 - x
  BY <1>2
<1>4. ASSUME NEW y \in T
      PROVE  y <= x
  <2>1. n + 1 - y \in U
    OBVIOUS
  <2>2. u <= n + 1 - y
    BY <1>2, <2>1
  <2> QED
    BY <1>3, <2>2
<1> QED
  BY <1>4

-----------------------------------------------------------------------------
(* Numbers and recursion.                                                  *)

\* Induction over numbers, for a set: it has every number whose predecessors it
\* has, so it has all of them.
LEMMA EveryNumber ==
  ASSUME NEW P, P \subseteq Nat, \A n \in Nat : (\A m \in 0 .. n - 1 : m \in P) => n \in P
  PROVE  P = Nat
<1> SUFFICES ASSUME NEW n \in Nat, n \notin P PROVE FALSE
  OBVIOUS
<1> DEFINE U == {t + 1 : t \in {s \in 0 .. n : s \notin P}}
<1>1. U \subseteq 1 .. n + 1 /\ U # {} /\ n + 1 \in Nat
  OBVIOUS
<1>2. PICK u \in U : \A y \in U : u <= y
  <2> HIDE DEF U
  <2> QED
    BY <1>1, Least
<1>3. PICK k \in 0 .. n : u = k + 1 /\ k \notin P
  OBVIOUS
<1>4. ASSUME NEW m \in 0 .. k - 1 PROVE m \in P
  <2> SUFFICES ASSUME m \notin P PROVE FALSE
    OBVIOUS
  <2>1. m + 1 \in U /\ m \in Nat /\ k \in Nat /\ m < k
    OBVIOUS
  <2>2. k + 1 <= m + 1
    BY <1>2, <1>3, <2>1
  <2> QED
    BY <2>1, <2>2
<1> QED
  BY <1>3, <1>4

\* The same for the step from a number to the next.
LEMMA EveryNext ==
  ASSUME NEW P, P \subseteq Nat, 0 \in P, \A n \in Nat : n \in P => n + 1 \in P
  PROVE  P = Nat
<1>1. ASSUME NEW n \in Nat, \A m \in 0 .. n - 1 : m \in P PROVE n \in P
  <2>1. CASE n = 0
    BY <2>1
  <2>2. CASE n # 0
    <3>1. PICK m \in 0 .. n - 1 : n = m + 1
      BY <2>2
    <3> QED
      BY <1>1, <3>1
  <2> QED
    BY <2>1, <2>2
<1> QED
  BY <1>1, EveryNumber

\* A definition of each value from those before it defines a function.
Recursions(R) ==
  {step \in [Nat -> [[Nat -> R] -> R]] :
     \A n \in Nat : \A f, g \in [Nat -> R] :
        (\A m \in 0 .. n - 1 : f[m] = g[m]) => step[n][f] = step[n][g]}

Solutions(R, step) == {f \in [Nat -> R] : \A n \in Nat : f[n] = step[n][f]}

LEMMA RecursionDefines ==
  ASSUME NEW R, NEW r \in R, NEW step \in Recursions(R)
  PROVE  Solutions(R, step) # {}
<1>0. /\ step \in [Nat -> [[Nat -> R] -> R]]
      /\ \A n \in Nat : \A f, g \in [Nat -> R] :
            (\A m \in 0 .. n - 1 : f[m] = g[m]) => step[n][f] = step[n][g]
  BY DEF Recursions
<1> SUFFICES \E f \in [Nat -> R] : \A n \in Nat : f[n] = step[n][f]
  BY DEF Solutions
<1> USE <1>0
<1> DEFINE F == [Nat -> R]
           Upto(n) == {g \in F : \A m \in 0 .. n - 1 : g[m] = step[m][g]}
<1>1. \A n \in Nat : \A g \in F : step[n][g] \in R
  OBVIOUS
<1>2. ASSUME NEW n \in Nat, NEW g \in Upto(n), NEW h \in Upto(n), NEW m \in 0 .. n - 1
      PROVE  g[m] = h[m]
  <2> DEFINE P == {k \in Nat : k < n => g[k] = h[k]}
  <2>1. ASSUME NEW k \in Nat, \A l \in 0 .. k - 1 : l \in P PROVE k \in P
    <3> SUFFICES ASSUME k < n PROVE g[k] = h[k]
      OBVIOUS
    <3>1. \A l \in 0 .. k - 1 : g[l] = h[l]
      BY <2>1
    <3>2. g \in [Nat -> R] /\ h \in [Nat -> R]
      OBVIOUS
    <3>3. step[k][g] = step[k][h]
      BY ONLY <1>0, <3>1, <3>2, k \in Nat
    <3>4. k \in 0 .. n - 1
      OBVIOUS
    <3> QED
      BY <3>3, <3>4
  <2>2. P = Nat
    <3> HIDE DEF P
    <3>1. P \subseteq Nat
      BY DEF P
    <3> QED
      BY <2>1, <3>1, EveryNumber
  <2> QED
    BY <2>2
<1>3. ASSUME NEW n \in Nat, NEW g \in Upto(n)
      PROVE  Upto(n + 1) # {}
  <2> DEFINE h == [g EXCEPT ![n] = step[n][g]]
  <2>1. h \in F /\ h[n] = step[n][g] /\ \A m \in Nat : m # n => h[m] = g[m]
    BY <1>1
  <2> HIDE DEF h
  <2>2. \A m \in 0 .. n - 1 : g[m] = step[m][g]
    OBVIOUS
  <2>3. ASSUME NEW m \in 0 .. n PROVE h[m] = step[m][h]
    <3>1. m \in Nat /\ \A l \in 0 .. m - 1 : h[l] = g[l]
      BY <2>1
    <3>2. step[m][h] = step[m][g]
      BY <2>1, <3>1
    <3>3. CASE m = n
      BY <2>1, <3>2, <3>3
    <3>4. CASE m # n
      BY <2>1, <2>2, <3>2, <3>4
    <3> QED
      BY <3>3, <3>4
  <2>4. h \in Upto(n + 1)
    BY <2>1, <2>3
  <2> QED
    BY <2>4
<1>4. \A n \in Nat : Upto(n) # {}
  <2> DEFINE P == {n \in Nat : Upto(n) # {}}
  <2>1. [m \in Nat |-> r] \in Upto(0)
    OBVIOUS
  <2>2. 0 \in P
    BY <2>1
  <2>3. ASSUME NEW n \in Nat, n \in P PROVE n + 1 \in P
    <3>1. Upto(n) # {} /\ n + 1 \in Nat
      BY <2>3
    <3> HIDE DEF Upto
    <3> QED
      BY <1>3, <3>1
  <2>4. P = Nat
    <3> HIDE DEF P
    <3>1. P \subseteq Nat
      BY DEF P
    <3> QED
      BY <2>2, <2>3, <3>1, EveryNext
  <2> QED
    BY <2>4
<1> DEFINE f == [n \in Nat |-> (CHOOSE g \in Upto(n + 1) : TRUE)[n]]
<1>5. ASSUME NEW n \in Nat
      PROVE  \E g \in Upto(n + 1) : \A m \in 0 .. n : f[m] = g[m]
  <2> DEFINE c(m) == CHOOSE g \in Upto(m + 1) : TRUE
  <2>1. \A m \in Nat : c(m) \in Upto(m + 1)
    <3> SUFFICES ASSUME NEW m \in Nat PROVE c(m) \in Upto(m + 1)
      OBVIOUS
    <3> HIDE DEF Upto
    <3>1. m + 1 \in Nat
      OBVIOUS
    <3>2. Upto(m + 1) # {}
      BY ONLY <1>4, <3>1
    <3> QED
      BY <3>2
  <2>2. ASSUME NEW m \in 0 .. n PROVE f[m] = c(n)[m]
    <3>1. m \in Nat /\ f[m] = c(m)[m] /\ m \in 0 .. (m + 1) - 1
      OBVIOUS
    <3>2. c(n) \in Upto(m + 1)
      <4>1. Upto(n + 1) \subseteq Upto(m + 1)
        OBVIOUS
      <4> QED
        BY <2>1, <4>1
    <3>3. c(m) \in Upto(m + 1)
      BY <2>1, <3>1
    <3> HIDE DEF Upto, c, f
    <3> QED
      BY <1>2, <3>1, <3>2, <3>3
  <2> HIDE DEF Upto, c, f
  <2> QED
    BY <2>1, <2>2
<1>6. f \in F
  <2> SUFFICES ASSUME NEW n \in Nat PROVE f[n] \in R
    OBVIOUS
  <2>1. PICK g \in Upto(n + 1) : \A m \in 0 .. n : f[m] = g[m]
    BY <1>5
  <2>2. g[n] \in R /\ n \in 0 .. n
    OBVIOUS
  <2> HIDE DEF f
  <2> QED
    BY <2>1, <2>2
<1>7. ASSUME NEW n \in Nat PROVE f[n] = step[n][f]
  <2>1. PICK g \in Upto(n + 1) : \A m \in 0 .. n : f[m] = g[m]
    BY <1>5
  <2> HIDE DEF f
  <2>2. g \in F /\ n \in 0 .. n /\ g[n] = step[n][g] /\ \A m \in 0 .. n - 1 : f[m] = g[m]
    BY <2>1
  <2>3. step[n][f] = step[n][g]
    BY <1>6, <2>2
  <2> QED
    BY <2>1, <2>2, <2>3
<1> HIDE DEF f
<1> QED
  BY <1>6, <1>7

Iterations(R, r, step) ==
  {f \in [Nat -> R] : \A n \in Nat : f[n] = IF n = 0 THEN r ELSE step[n][f[n - 1]]}

\* So does a definition of each value from the one before it.
LEMMA IterationDefines ==
  ASSUME NEW R, NEW r \in R, NEW step \in [Nat -> [R -> R]]
  PROVE  Iterations(R, r, step) # {}
<1> DEFINE F == [Nat -> R]
           next == [n \in Nat |-> [f \in F |-> IF n = 0 THEN r ELSE step[n][f[n - 1]]]]
<1>1. \A n \in Nat : \A f \in F : (IF n = 0 THEN r ELSE step[n][f[n - 1]]) \in R
  <2> SUFFICES ASSUME NEW n \in Nat, NEW f \in F, n # 0 PROVE step[n][f[n - 1]] \in R
    OBVIOUS
  <2>1. n - 1 \in Nat
    OBVIOUS
  <2> QED
    BY <2>1
<1>2. next \in [Nat -> [F -> R]]
  BY <1>1
<1>3. \A n \in Nat : \A f, g \in F : (\A m \in 0 .. n - 1 : f[m] = g[m]) => next[n][f] = next[n][g]
  <2> SUFFICES ASSUME NEW n \in Nat, NEW f \in F, NEW g \in F, \A m \in 0 .. n - 1 : f[m] = g[m], n # 0
               PROVE  step[n][f[n - 1]] = step[n][g[n - 1]]
    OBVIOUS
  <2>1. n - 1 \in 0 .. n - 1
    OBVIOUS
  <2> QED
    BY <2>1
<1>4. PICK f \in F : \A n \in Nat : f[n] = next[n][f]
  <2> HIDE DEF next
  <2>1. next \in Recursions(R)
    BY <1>2, <1>3 DEF Recursions
  <2>2. Solutions(R, next) # {}
    BY <2>1, RecursionDefines
  <2> QED
    BY <2>2 DEF Solutions
<1>5. \A n \in Nat : f[n] = IF n = 0 THEN r ELSE step[n][f[n - 1]]
  BY <1>4
<1> QED
  BY <1>5 DEF Iterations

-----------------------------------------------------------------------------
(* The order of the keys.                                                  *)

LEMMA PartIsLess ==
  ASSUME NEW x, NEW y, Len(x) \in Nat, Len(y) \in Nat, NEW i, PartAt(x, y, i)
  PROVE  Less(x, y)
BY DEF PartAt, Less

\* A sequence is less than what extends it.
LEMMA ExtensionIsMore ==
  ASSUME NEW x \in Seq(Int), NEW y \in Seq(Int), Len(x) < Len(y),
         \A j \in 1 .. Len(x) : x[j] = y[j]
  PROVE  Less(x, y)
<1>1. Len(x) + 1 \in 1 .. Len(y) /\ ~ (Len(x) + 1 <= Len(x))
  OBVIOUS
<1> QED
  BY <1>1 DEF Less

LEMMA LessIsTransitive ==
  ASSUME NEW x \in Seq(Int), NEW y \in Seq(Int), NEW z \in Seq(Int), Less(x, y), Less(y, z)
  PROVE  Less(x, z)
<1>1. PICK i \in 1 .. Len(y) : /\ i <= Len(x) + 1
                               /\ \A j \in 1 .. i - 1 : x[j] = y[j]
                               /\ i <= Len(x) => x[i] < y[i]
  BY DEF Less
<1>2. PICK k \in 1 .. Len(z) : /\ k <= Len(y) + 1
                               /\ \A j \in 1 .. k - 1 : y[j] = z[j]
                               /\ k <= Len(y) => y[k] < z[k]
  BY DEF Less
<1>3. Len(x) \in Nat /\ Len(y) \in Nat /\ Len(z) \in Nat
  OBVIOUS
<1>4. CASE i < k
  <2>1. i \in 1 .. Len(z) /\ y[i] = z[i]
    BY <1>2, <1>3, <1>4
  <2>2. \A j \in 1 .. i - 1 : x[j] = z[j]
    BY <1>1, <1>2, <1>4
  <2> QED
    BY <1>1, <2>1, <2>2 DEF Less
<1>5. CASE i = k
  <2>1. y[i] < z[i]
    BY <1>2, <1>5
  <2>2. \A j \in 1 .. i - 1 : x[j] = z[j]
    BY <1>1, <1>2, <1>5
  <2>3. i <= Len(x) => x[i] < z[i]
    <3>1. i <= Len(x) => x[i] \in Int /\ y[i] \in Int /\ z[i] \in Int
      BY <1>3, <1>5
    <3> QED
      BY <1>1, <2>1, <3>1, SMTT(30)
  <2> QED
    BY <1>1, <1>5, <2>2, <2>3 DEF Less
<1>6. CASE k < i
  <2>1. k <= Len(x) /\ k <= Len(y) /\ x[k] = y[k] /\ y[k] < z[k]
    BY <1>1, <1>2, <1>3, <1>6, SMTT(30)
  <2>2. \A j \in 1 .. k - 1 : x[j] = z[j]
    BY <1>1, <1>2, <1>6
  <2>3. k <= Len(x) + 1 /\ x[k] < z[k]
    BY <1>3, <2>1
  <2> QED
    BY <2>2, <2>3 DEF Less
<1> QED
  BY <1>4, <1>5, <1>6

LEMMA LessIsStrict ==
  ASSUME NEW x \in Seq(Int)
  PROVE  ~ Less(x, x)
<1> SUFFICES ASSUME NEW i \in 1 .. Len(x), x[i] < x[i]
             PROVE  FALSE
  BY DEF Less
<1>1. x[i] \in Int
  OBVIOUS
<1> QED
  BY <1>1

LEMMA LessIsTotal ==
  ASSUME NEW x \in Seq(Int), NEW y \in Seq(Int), x # y
  PROVE  Less(x, y) \/ Less(y, x)
<1> DEFINE T == {i \in 1 .. Len(x) : i <= Len(y) /\ x[i] # y[i]}
<1>1. Len(x) \in Nat /\ Len(y) \in Nat /\ T \subseteq 1 .. Len(x)
  OBVIOUS
<1>2. CASE T # {}
  <2>1. PICK i \in T : \A j \in T : i <= j
    BY <1>1, <1>2, Least
  <2>2. i \in 1 .. Len(x) /\ i \in 1 .. Len(y) /\ x[i] # y[i]
    BY <1>1, <2>1
  <2>3. ASSUME NEW j \in 1 .. i - 1 PROVE x[j] = y[j]
    <3>1. j \in 1 .. Len(x) /\ j <= Len(y) /\ ~ (i <= j)
      BY <1>1, <2>2
    <3> QED
      BY <2>1, <3>1
  <2>4. x[i] \in Int /\ y[i] \in Int
    BY <2>2
  <2>5. x[i] < y[i] \/ y[i] < x[i]
    BY <2>2, <2>4
  <2> QED
    BY <1>1, <2>2, <2>3, <2>5, PartIsLess DEF PartAt
<1>3. CASE T = {}
  <2>1. \A j \in 1 .. Len(x) : j <= Len(y) => x[j] = y[j]
    BY <1>3
  <2>2. CASE Len(x) < Len(y)
    BY <1>1, <2>1, <2>2, ExtensionIsMore
  <2>3. CASE Len(y) < Len(x)
    <3>1. \A j \in 1 .. Len(y) : y[j] = x[j]
      BY <1>1, <2>1, <2>3
    <3> QED
      BY <2>3, <3>1, ExtensionIsMore
  <2>4. CASE Len(x) = Len(y)
    <3>1. \A j \in 1 .. Len(x) : x[j] = y[j]
      BY <1>1, <2>1, <2>4
    <3>2. x = y
      BY <2>4, <3>1, SeqEqual
    <3> QED
      BY <3>2
  <2> QED
    BY <1>1, <2>2, <2>3, <2>4
<1> QED
  BY <1>2, <1>3

-----------------------------------------------------------------------------
(* Integer part and fraction.                                              *)

LEMMA IntegerLengths ==
  ASSUME NEW h \in Int
  PROVE  IntegerLength(h) \in Nat /\ IntegerLength(h) >= 2
BY DEF IntegerLength

LEMMA HeadLengths ==
  ASSUME NEW h \in -Heads .. Heads - 1
  PROVE  h \in Int /\ IntegerLength(h) \in Nat /\ IntegerLength(h) >= 2
<1>1. h \in Int
  BY KeyParameters
<1> QED
  BY <1>1, IntegerLengths

LEMMA RepeatIs ==
  ASSUME NEW d \in Int, NEW n \in Nat
  PROVE  /\ Repeat(d, n) \in Seq(Int) /\ Len(Repeat(d, n)) = n
         /\ \A i \in 1 .. n : Repeat(d, n)[i] = d
BY DEF Repeat

\* A head letter and digits that are all the same.
LEMMA HeadAndDigits ==
  ASSUME NEW h \in -Heads .. Heads - 1, NEW d \in Digits
  PROVE  LET x == <<h>> \o Repeat(d, IntegerLength(h) - 1)
         IN  /\ IsInteger(x) /\ x[1] = h /\ Len(x) = IntegerLength(h)
             /\ \A i \in 2 .. Len(x) : x[i] = d
<1> USE KeyParameters DEF Digits
<1> DEFINE n == IntegerLength(h) - 1
           r == Repeat(d, n)
           x == <<h>> \o r
<1>1. h \in Int /\ d \in Int /\ n \in Nat /\ n >= 1 /\ IntegerLength(h) = n + 1
  BY IntegerLengths
<1>2. r \in Seq(Int) /\ Len(r) = n /\ \A i \in 1 .. n : r[i] = d
  BY <1>1, RepeatIs
<1>3. <<h>> \in Seq(Int) /\ Len(<<h>>) = 1 /\ <<h>>[1] = h
  BY <1>1
<1> HIDE DEF r, n
<1>4. /\ x \in Seq(Int) /\ Len(x) = n + 1 /\ x[1] = h
      /\ \A i \in 2 .. n + 1 : x[i] = r[i - 1]
  BY <1>1, <1>2, <1>3, ConcatProperties
<1> HIDE DEF x
<1>5. \A i \in 2 .. n + 1 : x[i] = d
  <2> SUFFICES ASSUME NEW i \in 2 .. n + 1
               PROVE  x[i] = d
    OBVIOUS
  <2>1. i - 1 \in 1 .. n
    BY <1>1
  <2> QED
    BY <1>2, <1>4, <2>1
<1>6. x # <<>>
  BY <1>1, <1>4
<1>7. IsInteger(x) /\ x[1] = h /\ Len(x) = IntegerLength(h) /\ \A i \in 2 .. Len(x) : x[i] = d
  BY <1>1, <1>4, <1>5, <1>6 DEF IsInteger
<1> QED
  BY <1>7 DEF x, r, n

LEMMA SmallestIs ==
  /\ IsInteger(SmallestInteger) /\ SmallestInteger[1] = -Heads
  /\ \A i \in 2 .. Len(SmallestInteger) : SmallestInteger[i] = 0
  /\ Len(SmallestInteger) >= 2
<1>1. -Heads \in -Heads .. Heads - 1 /\ 0 \in Digits /\ -Heads \in Int
  BY KeyParameters DEF Digits
<1> QED
  BY <1>1, HeadAndDigits, IntegerLengths DEF SmallestInteger

LEMMA IntegerIsOne ==
  ASSUME NEW x, NEW y, IsInteger(x), IsInteger(y), x[1] = y[1], \A i \in 2 .. Len(x) : x[i] = y[i]
  PROVE  x = y
<1>1. x \in Seq(Int) /\ y \in Seq(Int) /\ Len(x) = Len(y) /\ Len(x) \in Nat
  BY DEF IsInteger
<1>2. \A i \in 1 .. Len(x) : x[i] = y[i]
  BY <1>1
<1> QED
  BY <1>1, <1>2, SeqEqual

LEMMA Parts ==
  ASSUME NEW k, Valid(k)
  PROVE  /\ IsInteger(IntegerPart(k)) /\ IsFraction(Fraction(k))
         /\ Len(IntegerPart(k)) + Len(Fraction(k)) = Len(k)
         /\ \A i \in 1 .. Len(IntegerPart(k)) : IntegerPart(k)[i] = k[i]
         /\ \A i \in 1 .. Len(Fraction(k)) : Fraction(k)[i] = k[Len(IntegerPart(k)) + i]
         /\ k = IntegerPart(k) \o Fraction(k)
<1> USE KeyParameters
<1> DEFINE n == IntegerLength(k[1])
           x == IntegerPart(k)
           f == Fraction(k)
<1>1. /\ k \in Seq(Int) /\ k # <<>> /\ k[1] \in -Heads .. Heads - 1 /\ k[1] \in Int
      /\ \A i \in 2 .. Len(k) : k[i] \in Digits
      /\ n \in Nat /\ n >= 2 /\ n <= Len(k) /\ Len(k) \in Nat
      /\ ~ EndsInZero(f)
  <2>1. /\ k \in Seq(Int) /\ k # <<>> /\ k[1] \in -Heads .. Heads - 1
        /\ \A i \in 2 .. Len(k) : k[i] \in Digits
        /\ n <= Len(k) /\ ~ EndsInZero(f)
    BY DEF Valid, IsOrderKey
  <2>2. k[1] \in Int /\ n \in Nat /\ n >= 2
    BY <2>1, HeadLengths
  <2>3. Len(k) \in Nat
    BY <2>1
  <2> QED
    BY <2>1, <2>2, <2>3
<1> HIDE DEF n
<1>2. /\ x \in Seq(Int) /\ Len(x) = n
      /\ \A i \in 1 .. n : x[i] = k[i]
  BY <1>1 DEF IntegerPart, n
<1>3. \A i \in n + 1 .. Len(k) : k[i] \in Digits
  BY <1>1
<1>4. /\ f \in Seq(Digits) /\ Len(f) = Len(k) - n
      /\ \A i \in 1 .. Len(k) - n : f[i] = k[n + i]
  <2>1. f = SubSeq(k, n + 1, Len(k))
    BY DEF Fraction, n
  <2>2. /\ f \in Seq(Digits)
        /\ Len(f) = IF n + 1 <= Len(k) THEN Len(k) - (n + 1) + 1 ELSE 0
        /\ \A i \in 1 .. Len(k) - (n + 1) + 1 : f[i] = k[n + 1 + i - 1]
    BY <1>1, <1>3, <2>1, SubSeqProperties
  <2> HIDE DEF f
  <2> QED
    BY <1>1, <2>2
<1>5. k = x \o f
  <2>1. k = SubSeq(k, 1, Len(k))
    BY <1>1, SubSeqFull
  <2>2. SubSeq(k, 1, n) \o SubSeq(k, n + 1, Len(k)) = SubSeq(k, 1, Len(k))
    <3>1. 1 \in 1 .. Len(k) + 1 /\ n \in 1 - 1 .. Len(k) /\ Len(k) \in n .. Len(k)
      BY <1>1
    <3> QED
      BY <1>1, <3>1, ConcatAdjacentSubSeq
  <2> QED
    BY <2>1, <2>2 DEF IntegerPart, Fraction, n
<1>6. IsInteger(x)
  <2>1. x # <<>> /\ x[1] = k[1] /\ \A i \in 2 .. n : x[i] \in Digits
    BY <1>1, <1>2
  <2> QED
    BY <1>1, <1>2, <2>1 DEF IsInteger, n
<1>7. IsFraction(f)
  BY <1>1, <1>4 DEF IsFraction
<1> HIDE DEF x, f
<1>8. Len(x) + Len(f) = Len(k)
  BY <1>1, <1>2, <1>4
<1> QED
  BY <1>2, <1>4, <1>5, <1>6, <1>7, <1>8 DEF x, f

\* An integer with a fraction is a key, with these parts.
LEMMA Compose ==
  ASSUME NEW x, NEW f, IsInteger(x), IsFraction(f), x # SmallestInteger \/ f # <<>>
  PROVE  /\ Valid(x \o f) /\ IntegerPart(x \o f) = x /\ Fraction(x \o f) = f
         /\ Len(x \o f) = Len(x) + Len(f)
         /\ \A i \in 1 .. Len(x) : (x \o f)[i] = x[i]
         /\ \A i \in 1 .. Len(f) : (x \o f)[Len(x) + i] = f[i]
<1> USE KeyParameters
<1> DEFINE k == x \o f
           n == Len(x)
           m == Len(f)
<1>1. /\ x \in Seq(Int) /\ x # <<>> /\ x[1] \in -Heads .. Heads - 1 /\ x[1] \in Int
      /\ n = IntegerLength(x[1])
      /\ \A i \in 2 .. n : x[i] \in Digits
  BY HeadLengths DEF IsInteger
<1>2. f \in Seq(Digits) /\ f \in Seq(Int) /\ ~ EndsInZero(f)
  BY DEF IsFraction, Digits
<1>12. n \in Nat /\ n >= 2 /\ m \in Nat
  BY <1>1, <1>2, HeadLengths
<1>3. /\ k \in Seq(Int) /\ Len(k) = n + m
      /\ \A i \in 1 .. n + m : k[i] = IF i <= n THEN x[i] ELSE f[i - n]
  BY <1>1, <1>2, ConcatProperties
<1>13. Len(k) = n + m
  BY <1>3
<1> HIDE DEF k, n, m
<1>4. \A i \in 1 .. n : k[i] = x[i]
  <2> SUFFICES ASSUME NEW i \in 1 .. n
               PROVE  k[i] = x[i]
    OBVIOUS
  <2>1. i \in 1 .. n + m /\ i <= n
    BY <1>12
  <2> QED
    BY <1>3, <2>1
<1>5. \A i \in 1 .. m : k[n + i] = f[i]
  <2> SUFFICES ASSUME NEW i \in 1 .. m
               PROVE  k[n + i] = f[i]
    OBVIOUS
  <2>1. n + i \in 1 .. n + m /\ ~ (n + i <= n) /\ (n + i) - n = i
    BY <1>12
  <2> QED
    BY <1>3, <2>1
<1>6. k # <<>> /\ k[1] = x[1] /\ IntegerLength(k[1]) = n
  BY <1>1, <1>3, <1>4, <1>12
<1>7. IntegerPart(k) = x
  <2>1. SubSeq(x \o f, 1, n) = SubSeq(x, 1, n)
    BY <1>1, <1>2, SubSeqOfConcat1 DEF n
  <2>2. SubSeq(x, 1, n) = x
    BY <1>1, SubSeqFull DEF n
  <2> QED
    BY <1>6, <2>1, <2>2 DEF IntegerPart, k
<1>8. Fraction(k) = f
  <2>1. /\ SubSeq(k, n + 1, Len(k)) \in Seq(Int)
        /\ Len(SubSeq(k, n + 1, Len(k))) = IF n + 1 <= Len(k) THEN Len(k) - (n + 1) + 1 ELSE 0
        /\ \A i \in 1 .. Len(k) - (n + 1) + 1 : SubSeq(k, n + 1, Len(k))[i] = k[(n + 1) + i - 1]
    <3>1. n + 1 \in Int /\ Len(k) \in Int /\ \A i \in n + 1 .. Len(k) : k[i] \in Int
      BY <1>3, <1>12
    <3> QED
      BY <3>1, SubSeqProperties
  <2> DEFINE g == SubSeq(k, n + 1, Len(k))
  <2> HIDE DEF g
  <2>2. g \in Seq(Int) /\ Len(g) = m
    <3>1. (IF n + 1 <= Len(k) THEN Len(k) - (n + 1) + 1 ELSE 0) = m
      BY <1>12, <1>13
    <3> QED
      BY <2>1, <3>1 DEF g
  <2>3. ASSUME NEW i \in 1 .. m
        PROVE  g[i] = f[i]
    <3>1. i \in 1 .. Len(k) - (n + 1) + 1 /\ (n + 1) + i - 1 = n + i
      BY <1>12, <1>13
    <3> QED
      BY <1>5, <2>1, <3>1 DEF g
  <2>4. g = f
    BY <1>2, <2>2, <2>3, SeqEqual DEF m
  <2> QED
    BY <1>6, <2>4 DEF Fraction, g
<1>9. \A i \in 2 .. Len(k) : k[i] \in Digits
  <2> SUFFICES ASSUME NEW i \in 2 .. Len(k)
               PROVE  k[i] \in Digits
    OBVIOUS
  <2>1. CASE i <= n
    BY <1>1, <1>4, <2>1
  <2>2. CASE i > n
    <3>1. i - n \in 1 .. m /\ n + (i - n) = i
      BY <1>12, <1>13, <2>2
    <3>2. f[i - n] \in Digits
      BY <1>2, <3>1 DEF m
    <3> QED
      BY <1>5, <3>1, <3>2
  <2> QED
    BY <1>12, <2>1, <2>2
<1>10. k # SmallestInteger
  <2> SUFFICES ASSUME k = SmallestInteger
               PROVE  FALSE
    OBVIOUS
  <2>1. IsInteger(k)
    BY SmallestIs
  <2>2. Len(k) = n
    BY <1>6, <2>1 DEF IsInteger
  <2>5. m = 0
    BY <1>12, <1>13, <2>2
  <2>3. f = <<>>
    BY <1>2, <2>5 DEF m
  <2>4. x = k
    BY <1>1, <2>3, ConcatEmptySeq DEF k
  <2> QED
    BY <2>3, <2>4
<1>11. IsOrderKey(k)
  <2>1. k[1] \in -Heads .. Heads - 1 /\ IntegerLength(k[1]) <= Len(k)
    BY <1>1, <1>6, <1>12, <1>13
  <2> QED
    BY <1>2, <1>6, <1>8, <1>9, <1>10, <2>1 DEF IsOrderKey
<1> QED
  BY <1>3, <1>4, <1>5, <1>7, <1>8, <1>11 DEF Valid, k, n, m

-----------------------------------------------------------------------------
(* The next integer up and down.                                           *)

LEMMA LastOtherIs ==
  ASSUME NEW x, IsInteger(x), NEW d
  PROVE  /\ LastOther(x, d) \in 1 .. Len(x)
         /\ LastOther(x, d) = 1 \/ x[LastOther(x, d)] # d
         /\ \A j \in LastOther(x, d) + 1 .. Len(x) : x[j] = d
<1> DEFINE T == {i \in 1 .. Len(x) : i = 1 \/ x[i] # d}
           Is(i) == /\ i = 1 \/ x[i] # d
                    /\ \A j \in i + 1 .. Len(x) : x[j] = d
<1>1. Len(x) \in Nat /\ 1 \in 1 .. Len(x)
  BY DEF IsInteger
<1>2. PICK i \in T : \A j \in T : j <= i
  <2>1. T \subseteq 1 .. Len(x) /\ T # {}
    BY <1>1
  <2> HIDE DEF T
  <2> QED
    BY <1>1, <2>1, Greatest
<1>3. i \in 1 .. Len(x) /\ Is(i)
  <2>1. i \in 1 .. Len(x) /\ (i = 1 \/ x[i] # d)
    OBVIOUS
  <2>2. ASSUME NEW j \in i + 1 .. Len(x), x[j] # d
        PROVE  FALSE
    <3>1. j \in T
      BY <1>1, <2>1, <2>2
    <3> QED
      BY <1>1, <1>2, <2>1, <3>1
  <2> QED
    BY <2>1, <2>2
<1> QED
  BY <1>3 DEF LastOther

LEMMA IncrementIs ==
  ASSUME NEW x, IsInteger(x)
  PROVE  \/ /\ Increment(x) = NoKey /\ x[1] = Heads - 1
            /\ \A j \in 2 .. Len(x) : x[j] = Base - 1
         \/ /\ IsInteger(Increment(x)) /\ Increment(x) # SmallestInteger
            /\ \E i \in 1 .. Len(x) : PartAt(x, Increment(x), i)
<1> USE KeyParameters
<1> DEFINE i == LastOther(x, Base - 1)
           up == Increment(x)
           n == Len(x)
<1>1. /\ i \in 1 .. n /\ (i = 1 \/ x[i] # Base - 1)
      /\ \A j \in i + 1 .. n : x[j] = Base - 1
  BY LastOtherIs
<1>2. /\ x \in Seq(Int) /\ x # <<>> /\ x[1] \in -Heads .. Heads - 1 /\ x[1] \in Int
      /\ n = IntegerLength(x[1])
      /\ \A j \in 2 .. n : x[j] \in Digits
  BY HeadLengths DEF IsInteger
<1>3. n \in Nat /\ n >= 2 /\ i \in Nat /\ i >= 1 /\ i <= n
  BY <1>1, <1>2, HeadLengths
<1>4. up = IF i > 1
           THEN [j \in 1 .. n |-> IF j < i THEN x[j] ELSE IF j = i THEN x[j] + 1 ELSE 0]
           ELSE IF x[1] = Heads - 1 THEN NoKey ELSE FirstOfHead(x[1] + 1)
  BY DEF Increment
<1> HIDE DEF i, up, n
<1>5. CASE i > 1
  <2>1. up = [j \in 1 .. n |-> IF j < i THEN x[j] ELSE IF j = i THEN x[j] + 1 ELSE 0]
    BY <1>4, <1>5
  <2>2. x[i] \in Digits /\ x[i] # Base - 1
    BY <1>1, <1>2, <1>3, <1>5
  <2>3. x[i] \in 0 .. Base - 2 /\ x[i] + 1 \in Digits /\ x[i] + 1 # 0 /\ x[i] < x[i] + 1
    BY <2>2 DEF Digits
  <2>4. /\ \A j \in 1 .. i - 1 : up[j] = x[j]
        /\ up[i] = x[i] + 1
        /\ \A j \in i + 1 .. n : up[j] = 0
    <3>1. \A j \in 1 .. i - 1 : j \in 1 .. n /\ j < i
      BY <1>3
    <3>2. \A j \in i + 1 .. n : j \in 1 .. n /\ ~ (j < i) /\ j # i
      BY <1>3
    <3>3. i \in 1 .. n /\ ~ (i < i)
      BY <1>3
    <3>4. \A j \in 1 .. i - 1 : up[j] = x[j]
      BY <2>1, <3>1
    <3>5. up[i] = x[i] + 1
      BY <2>1, <3>3
    <3>6. \A j \in i + 1 .. n : up[j] = 0
      BY <2>1, <3>2
    <3> QED
      BY <3>4, <3>5, <3>6
  <2>5. \A j \in 2 .. n : up[j] \in Digits
    <3> SUFFICES ASSUME NEW j \in 2 .. n
                 PROVE  up[j] \in Digits
      OBVIOUS
    <3>1. 0 \in Digits
      BY DEF Digits
    <3>2. j \in 1 .. i - 1 \/ j = i \/ j \in i + 1 .. n
      BY <1>3
    <3> QED
      BY <1>2, <2>3, <2>4, <3>1, <3>2
  <2>6. up[1] = x[1]
    BY <1>3, <1>5, <2>4
  <2>7. up \in Seq(Int) /\ Len(up) = n
    <3>1. \A j \in 1 .. n : up[j] \in Int
      <4> SUFFICES ASSUME NEW j \in 1 .. n
                   PROVE  up[j] \in Int
        OBVIOUS
      <4>1. j = 1 \/ j \in 2 .. n
        BY <1>3
      <4> QED
        BY <1>2, <2>5, <2>6, <4>1 DEF Digits
    <3>2. up \in [1 .. n -> Int]
      BY <2>1, <3>1
    <3> QED
      BY <1>3, <3>2
  <2>8. IsInteger(up)
    BY <1>2, <1>3, <2>5, <2>6, <2>7 DEF IsInteger
  <2>9. up # SmallestInteger
    <3>1. i \in 2 .. n /\ up[i] # 0
      BY <1>3, <1>5, <2>3, <2>4
    <3> QED
      BY <2>7, <3>1, SmallestIs
  <2>10. PartAt(x, up, i)
    BY <1>1, <2>3, <2>4, <2>7 DEF PartAt, n
  <2> QED
    BY <1>1, <2>8, <2>9, <2>10 DEF up, n
<1>6. CASE i = 1 /\ x[1] = Heads - 1
  <2>1. up = NoKey
    BY <1>4, <1>6
  <2>2. \A j \in 2 .. n : x[j] = Base - 1
    BY <1>1, <1>6
  <2> QED
    BY <1>6, <2>1, <2>2 DEF up, n
<1>7. CASE i = 1 /\ x[1] # Heads - 1
  <2> DEFINE h == x[1] + 1
  <2>1. up = FirstOfHead(h)
    BY <1>4, <1>7
  <2>2. h \in -Heads .. Heads - 1 /\ h # -Heads /\ x[1] < h
    BY <1>2, <1>7
  <2>3. 0 \in Digits
    BY DEF Digits
  <2> HIDE DEF h
  <2>4. IsInteger(up) /\ up[1] = h
    BY <2>1, <2>2, <2>3, HeadAndDigits DEF FirstOfHead
  <2>5. up # SmallestInteger
    BY <2>2, <2>4, SmallestIs
  <2>6. 1 \in 1 .. Len(up)
    BY <2>4 DEF IsInteger
  <2>7. PartAt(x, up, 1)
    BY <1>3, <2>2, <2>4, <2>6 DEF PartAt, n
  <2>8. 1 \in 1 .. n
    BY <1>3
  <2> QED
    BY <2>4, <2>5, <2>7, <2>8 DEF up, n
<1> QED
  BY <1>3, <1>5, <1>6, <1>7

LEMMA SmallestUp == \* the integer above the smallest differs in its last digit
  /\ LastOther(SmallestInteger, Base - 1) = Len(SmallestInteger)
  /\ Increment(SmallestInteger) =
       [j \in 1 .. Len(SmallestInteger) |->
          IF j < Len(SmallestInteger) THEN SmallestInteger[j]
          ELSE SmallestInteger[j] + 1]
<1> USE KeyParameters
<1> DEFINE x == SmallestInteger
           n == Len(x)
           i == LastOther(x, Base - 1)
<1>1. IsInteger(x) /\ (\A j \in 2 .. n : x[j] = 0) /\ n >= 2 /\ n \in Nat
  BY SmallestIs DEF IsInteger
<1>2. i \in 1 .. n /\ \A j \in i + 1 .. n : x[j] = Base - 1
  BY <1>1, LastOtherIs
<1>3. Increment(x) = IF i > 1
           THEN [j \in 1 .. n |-> IF j < i THEN x[j] ELSE IF j = i THEN x[j] + 1 ELSE 0]
           ELSE IF x[1] = Heads - 1 THEN NoKey ELSE FirstOfHead(x[1] + 1)
  BY DEF Increment
<1> HIDE DEF x, n, i
<1>4. i = n
  <2> SUFFICES ASSUME i < n
               PROVE  FALSE
    BY <1>1, <1>2
  <2>1. n \in i + 1 .. n /\ n \in 2 .. n
    BY <1>1, <1>2
  <2>2. x[n] = 0 /\ x[n] = Base - 1
    BY <1>1, <1>2, <2>1
  <2> QED
    BY <2>2
<1>5. Increment(x) = [j \in 1 .. n |-> IF j < n THEN x[j] ELSE x[j] + 1]
  <2>1. Increment(x) = [j \in 1 .. n |-> IF j < n THEN x[j] ELSE IF j = n THEN x[j] + 1 ELSE 0]
    BY <1>1, <1>3, <1>4
  <2>2. \A j \in 1 .. n : ~ (j < n) => j = n
    BY <1>1
  <2> QED
    BY <2>1, <2>2
<1> QED
  BY <1>4, <1>5 DEF x, n, i

\* y takes one from x at i and has the largest digits from there on.
BorrowsAt(y, x, i) ==
  /\ PartAt(y, x, i) /\ y[i] = x[i] - 1
  /\ \A j \in i + 1 .. Len(x) : x[j] = 0
  /\ \A j \in i + 1 .. Len(y) : y[j] = Base - 1

LEMMA DecrementIs ==
  ASSUME NEW x, IsInteger(x), x # SmallestInteger
  PROVE  /\ IsInteger(Decrement(x))
         /\ \E i \in 1 .. Len(x) : BorrowsAt(Decrement(x), x, i)
         /\ Decrement(x) = SmallestInteger => x = Increment(SmallestInteger)
<1> USE KeyParameters
<1> DEFINE i == LastOther(x, 0)
           dn == Decrement(x)
           n == Len(x)
<1>1. /\ i \in 1 .. n /\ (i = 1 \/ x[i] # 0)
      /\ \A j \in i + 1 .. n : x[j] = 0
  BY LastOtherIs
<1>2. /\ x \in Seq(Int) /\ x # <<>> /\ x[1] \in -Heads .. Heads - 1 /\ x[1] \in Int
      /\ n = IntegerLength(x[1])
      /\ \A j \in 2 .. n : x[j] \in Digits
  BY HeadLengths DEF IsInteger
<1>3. n \in Nat /\ n >= 2 /\ i \in Nat /\ i >= 1 /\ i <= n
  <2>1. n \in Nat /\ n >= 2
    BY <1>2, HeadLengths
  <2> HIDE DEF n, i
  <2> QED
    BY <1>1, <2>1
<1>4. dn = IF i > 1
           THEN [j \in 1 .. n |-> IF j < i THEN x[j] ELSE IF j = i THEN x[j] - 1 ELSE Base - 1]
           ELSE IF x[1] = -Heads THEN NoKey ELSE LastOfHead(x[1] - 1)
  BY DEF Decrement
<1> HIDE DEF i, dn, n
<1>5. CASE i > 1
  <2>1. dn = [j \in 1 .. n |-> IF j < i THEN x[j] ELSE IF j = i THEN x[j] - 1 ELSE Base - 1]
    BY <1>4, <1>5
  <2>2. x[i] \in Digits /\ x[i] # 0
    BY <1>1, <1>2, <1>3, <1>5
  <2>3. x[i] \in Int /\ x[i] - 1 \in Digits /\ x[i] - 1 < x[i]
    BY <2>2 DEF Digits
  <2>4. /\ \A j \in 1 .. i - 1 : dn[j] = x[j]
        /\ dn[i] = x[i] - 1
        /\ \A j \in i + 1 .. n : dn[j] = Base - 1
    <3>1. \A j \in 1 .. i - 1 : j \in 1 .. n /\ j < i
      BY <1>3
    <3>2. \A j \in i + 1 .. n : j \in 1 .. n /\ ~ (j < i) /\ j # i
      BY <1>3
    <3>3. i \in 1 .. n /\ ~ (i < i)
      BY <1>3
    <3>4. \A j \in 1 .. i - 1 : dn[j] = x[j]
      BY <2>1, <3>1
    <3>5. dn[i] = x[i] - 1
      BY <2>1, <3>3
    <3>6. \A j \in i + 1 .. n : dn[j] = Base - 1
      BY <2>1, <3>2
    <3> QED
      BY <3>4, <3>5, <3>6
  <2>5. \A j \in 2 .. n : dn[j] \in Digits
    <3> SUFFICES ASSUME NEW j \in 2 .. n
                 PROVE  dn[j] \in Digits
      OBVIOUS
    <3>1. Base - 1 \in Digits
      BY DEF Digits
    <3>2. j \in 1 .. i - 1 \/ j = i \/ j \in i + 1 .. n
      BY <1>3
    <3> QED
      BY <1>2, <2>3, <2>4, <3>1, <3>2
  <2>6. dn[1] = x[1]
    BY <1>3, <1>5, <2>4
  <2>7. dn \in Seq(Int) /\ Len(dn) = n
    <3>1. \A j \in 1 .. n : dn[j] \in Int
      <4> SUFFICES ASSUME NEW j \in 1 .. n
                   PROVE  dn[j] \in Int
        OBVIOUS
      <4>1. j = 1 \/ j \in 2 .. n
        BY <1>3
      <4> QED
        BY <1>2, <2>5, <2>6, <4>1 DEF Digits
    <3>2. dn \in [1 .. n -> Int]
      BY <2>1, <3>1
    <3> QED
      BY <1>3, <3>2
  <2>8. IsInteger(dn)
    BY <1>2, <1>3, <2>5, <2>6, <2>7 DEF IsInteger
  <2>9. BorrowsAt(dn, x, i)
    <3>1. PartAt(dn, x, i)
      BY <1>1, <2>3, <2>4, <2>7 DEF PartAt, n
    <3> QED
      BY <1>1, <2>4, <2>7, <3>1 DEF BorrowsAt, n
  <2>10. ASSUME dn = SmallestInteger
         PROVE  x = Increment(SmallestInteger)
    <3>1. \A j \in 2 .. n : dn[j] = 0
      BY <2>7, <2>10, SmallestIs
    <3>2. i = n
      <4> SUFFICES ASSUME i < n
                   PROVE  FALSE
        BY <1>3
      <4>1. n \in i + 1 .. n /\ n \in 2 .. n
        BY <1>3
      <4>2. dn[n] = 0 /\ dn[n] = Base - 1
        BY <2>4, <3>1, <4>1
      <4> QED
        BY <4>2
    <3>3. x[n] = dn[n] + 1
      <4>1. x[n] \in Int /\ dn[n] = x[n] - 1
        BY <2>3, <2>4, <3>2
      <4> QED
        BY <4>1
    <3>4. \A j \in 1 .. n : x[j] = IF j < n THEN dn[j] ELSE dn[j] + 1
      <4> SUFFICES ASSUME NEW j \in 1 .. n
                   PROVE  x[j] = IF j < n THEN dn[j] ELSE dn[j] + 1
        OBVIOUS
      <4>1. j \in 1 .. i - 1 \/ j = n
        BY <1>3, <3>2
      <4>2. j \in 1 .. i - 1 => j < n
        BY <3>2, <1>3
      <4> QED
        BY <2>4, <3>3, <4>1, <4>2, <1>3
    <3>5. x = [j \in 1 .. n |-> x[j]]
      BY <1>2 DEF n
    <3>6. x = [j \in 1 .. n |-> IF j < n THEN dn[j] ELSE dn[j] + 1]
      BY <3>4, <3>5
    <3> QED
      BY <2>7, <2>10, <3>6, SmallestUp
  <2> QED
    BY <1>1, <2>8, <2>9, <2>10 DEF dn, n
<1>6. CASE i = 1 /\ x[1] = -Heads
  <2>1. \A j \in 2 .. n : x[j] = 0
    BY <1>1, <1>6
  <2>2. x = SmallestInteger
    <3>1. IsInteger(SmallestInteger) /\ SmallestInteger[1] = x[1]
          /\ \A j \in 2 .. Len(SmallestInteger) : SmallestInteger[j] = 0
      BY <1>6, SmallestIs
    <3>2. Len(SmallestInteger) = n
      BY <1>2, <3>1 DEF IsInteger
    <3>3. \A j \in 2 .. Len(x) : x[j] = SmallestInteger[j]
      BY <2>1, <3>1, <3>2 DEF n
    <3> QED
      BY <3>1, <3>3, IntegerIsOne
  <2> QED
    BY <2>2
<1>7. CASE i = 1 /\ x[1] # -Heads
  <2> DEFINE h == x[1] - 1
  <2>1. dn = LastOfHead(h)
    BY <1>4, <1>7
  <2>2. h \in -Heads .. Heads - 1 /\ h < x[1]
    BY <1>2, <1>7
  <2>3. Base - 1 \in Digits /\ Base - 1 # 0
    BY DEF Digits
  <2> HIDE DEF h
  <2>4. IsInteger(dn) /\ dn[1] = h /\ \A j \in 2 .. Len(dn) : dn[j] = Base - 1
    BY <2>1, <2>2, <2>3, HeadAndDigits DEF LastOfHead
  <2>5. dn # SmallestInteger
    <3>1. dn = SmallestInteger => 2 \in 2 .. Len(dn) /\ dn[2] = 0
      BY SmallestIs DEF IsInteger
    <3> QED
      BY <2>3, <2>4, <3>1
  <2>6. 1 \in 1 .. Len(dn)
    BY <2>4 DEF IsInteger
  <2>7. PartAt(dn, x, 1)
    BY <1>3, <2>2, <2>4, <2>6 DEF PartAt, n
  <2>8. 1 \in 1 .. n /\ \A j \in 2 .. n : x[j] = 0
    BY <1>1, <1>3, <1>7
  <2>9. BorrowsAt(dn, x, 1)
    BY <2>4, <2>7, <2>8 DEF BorrowsAt, h, n
  <2> QED
    BY <2>4, <2>5, <2>8, <2>9 DEF dn, n
<1> QED
  BY <1>3, <1>5, <1>6, <1>7

-----------------------------------------------------------------------------
(* Fractions.                                                              *)

LEMMA DigitsAreInts ==
  ASSUME NEW f \in Seq(Digits)
  PROVE  f \in Seq(Int) /\ Len(f) \in Nat
<1>1. Digits \subseteq Int
  BY DEF Digits
<1>2. Seq(Digits) \subseteq Seq(Int)
  BY <1>1, SeqMonotonic
<1> QED
  BY <1>2

LEMMA RoundedMeanIs ==
  ASSUME NEW x \in Int, NEW y \in Int, y - x > 1
  PROVE  RoundedMean(x, y) \in Int /\ x < RoundedMean(x, y) /\ RoundedMean(x, y) < y
BY DEF RoundedMean

LEMMA DigitAtIs ==
  ASSUME NEW f \in Seq(Digits), NEW i \in Nat \ {0}
  PROVE  DigitAt(f, i) \in Digits
<1>1. 0 \in Digits
  BY KeyParameters DEF Digits
<1>2. i <= Len(f) => i \in 1 .. Len(f)
  OBVIOUS
<1> QED
  BY <1>1, <1>2 DEF DigitAt

\* A tail that is not empty decides whether a fraction ends in a zero.
LEMMA JoinIs ==
  ASSUME NEW p \in Seq(Digits), NEW t \in Seq(Digits), t # <<>>, ~ EndsInZero(t)
  PROVE  /\ IsFraction(p \o t) /\ p \o t # <<>> /\ Len(p \o t) = Len(p) + Len(t)
         /\ \A j \in 1 .. Len(p) : (p \o t)[j] = p[j]
         /\ \A j \in 1 .. Len(t) : (p \o t)[Len(p) + j] = t[j]
<1> DEFINE m == p \o t
           k == Len(p)
           l == Len(t)
<1>1. k \in Nat /\ l \in Nat /\ l >= 1 /\ t[l] # 0
  BY DEF EndsInZero
<1>2. /\ m \in Seq(Digits) /\ Len(m) = k + l
      /\ \A j \in 1 .. k + l : m[j] = IF j <= k THEN p[j] ELSE t[j - k]
  BY ConcatProperties
<1>3. Len(m) = k + l
  BY <1>2
<1> HIDE DEF m, k, l
<1>4. \A j \in 1 .. k : m[j] = p[j]
  <2> SUFFICES ASSUME NEW j \in 1 .. k
               PROVE  m[j] = p[j]
    OBVIOUS
  <2>1. j \in 1 .. k + l /\ j <= k
    BY <1>1
  <2> QED
    BY <1>2, <2>1
<1>5. \A j \in 1 .. l : m[k + j] = t[j]
  <2> SUFFICES ASSUME NEW j \in 1 .. l
               PROVE  m[k + j] = t[j]
    OBVIOUS
  <2>1. k + j \in 1 .. k + l /\ ~ (k + j <= k) /\ (k + j) - k = j
    BY <1>1
  <2> QED
    BY <1>2, <2>1
<1>6. m[Len(m)] # 0
  BY <1>1, <1>3, <1>5
<1>7. m # <<>>
  BY <1>1, <1>3
<1>8. IsFraction(m)
  BY <1>2, <1>6 DEF IsFraction, EndsInZero
<1> QED
  BY <1>3, <1>4, <1>5, <1>7, <1>8 DEF m, k, l

\* A common beginning does not matter to the order.
LEMMA PrefixKeepsOrder ==
  ASSUME NEW p \in Seq(Int), NEW x \in Seq(Int), NEW y \in Seq(Int), Less(x, y)
  PROVE  Less(p \o x, p \o y)
<1> DEFINE px == p \o x
           py == p \o y
           k == Len(p)
           lx == Len(x)
           ly == Len(y)
<1>1. k \in Nat /\ lx \in Nat /\ ly \in Nat
  OBVIOUS
<1>2. /\ Len(px) = k + lx
      /\ \A j \in 1 .. k + lx : px[j] = IF j <= k THEN p[j] ELSE x[j - k]
  BY ConcatProperties
<1>3. /\ Len(py) = k + ly
      /\ \A j \in 1 .. k + ly : py[j] = IF j <= k THEN p[j] ELSE y[j - k]
  BY ConcatProperties
<1>4. PICK i \in 1 .. ly : /\ i <= lx + 1
                           /\ \A j \in 1 .. i - 1 : x[j] = y[j]
                           /\ i <= lx => x[i] < y[i]
  BY DEF Less
<1> HIDE DEF px, py, k, lx, ly
<1>5. k + i \in 1 .. k + ly /\ k + i <= k + lx + 1
  BY <1>1, <1>4
<1>6. \A j \in 1 .. k + i - 1 : px[j] = py[j]
  <2> SUFFICES ASSUME NEW j \in 1 .. k + i - 1
               PROVE  px[j] = py[j]
    OBVIOUS
  <2>1. j \in 1 .. k + lx /\ j \in 1 .. k + ly
    BY <1>1, <1>4
  <2>2. CASE j <= k
    BY <1>2, <1>3, <2>1, <2>2
  <2>3. CASE ~ (j <= k)
    <3>1. j - k \in 1 .. i - 1
      BY <1>1, <2>3
    <3>2. px[j] = x[j - k] /\ py[j] = y[j - k]
      BY <1>2, <1>3, <2>1, <2>3
    <3> QED
      BY <1>4, <3>1, <3>2
  <2> QED
    BY <2>2, <2>3
<1>7. k + i <= k + lx => px[k + i] < py[k + i]
  <2> SUFFICES ASSUME k + i <= k + lx
               PROVE  px[k + i] < py[k + i]
    OBVIOUS
  <2>1. /\ k + i \in 1 .. k + lx /\ k + i \in 1 .. k + ly /\ ~ (k + i <= k)
        /\ (k + i) - k = i /\ i <= lx
    BY <1>1, <1>4
  <2>2. px[k + i] = x[i] /\ py[k + i] = y[i]
    BY <1>2, <1>3, <2>1
  <2> QED
    BY <1>4, <2>1, <2>2
<1>8. k + i <= Len(px) + 1 /\ k + i \in 1 .. Len(py) /\ (k + i <= Len(px) => k + i <= k + lx)
  BY <1>1, <1>2, <1>3, <1>5
<1>9. Less(px, py)
  <2> DEFINE q == k + i
  <2>1. q \in 1 .. Len(py) /\ q <= Len(px) + 1
    BY <1>8
  <2>2. \A j \in 1 .. q - 1 : px[j] = py[j]
    BY <1>1, <1>6
  <2>3. q <= Len(px) => px[q] < py[q]
    BY <1>7, <1>8
  <2> HIDE DEF q
  <2> QED
    BY <2>1, <2>2, <2>3 DEF Less
<1> QED
  BY <1>9 DEF px, py

\* Padded with zeros as DigitAt does, m is not behind a before i: a is less,
\* if it is less at i or ends before i.
LEMMA PaddedIsLess ==
  ASSUME NEW a \in Seq(Digits), NEW m \in Seq(Digits), NEW i \in 1 .. Len(m),
         \A j \in 1 .. i - 1 : DigitAt(a, j) = m[j],
         DigitAt(a, i) < m[i] \/ Len(a) < i
  PROVE  Less(a, m)
<1>1. a \in Seq(Int) /\ m \in Seq(Int) /\ Len(a) \in Nat /\ Len(m) \in Nat
  BY DigitsAreInts
<1>2. CASE Len(a) < i
  <2>1. \A j \in 1 .. Len(a) : a[j] = m[j]
    <3> SUFFICES ASSUME NEW j \in 1 .. Len(a)
                 PROVE  a[j] = m[j]
      OBVIOUS
    <3>1. j \in 1 .. i - 1 /\ j <= Len(a)
      BY <1>1, <1>2
    <3> QED
      BY <3>1 DEF DigitAt
  <2>2. Len(a) < Len(m)
    BY <1>1, <1>2
  <2> QED
    BY <1>1, <2>1, <2>2, ExtensionIsMore
<1>3. CASE i <= Len(a)
  <2>1. i \in 1 .. Len(a) /\ a[i] < m[i]
    BY <1>1, <1>3 DEF DigitAt
  <2>2. \A j \in 1 .. i - 1 : a[j] = m[j]
    <3> SUFFICES ASSUME NEW j \in 1 .. i - 1
                 PROVE  a[j] = m[j]
      OBVIOUS
    <3>1. j <= Len(a)
      BY <1>1, <1>3
    <3> QED
      BY <3>1 DEF DigitAt
  <2> QED
    BY <1>1, <2>1, <2>2, PartIsLess DEF PartAt
<1> QED
  BY <1>1, <1>2, <1>3

LEMMA MidAboveIs ==
  ASSUME NEW a \in Seq(Digits)
  PROVE  IsFraction(MidAbove(a)) /\ MidAbove(a) # <<>> /\ Less(a, MidAbove(a))
<1> USE KeyParameters
<1> DEFINE Is(i) == /\ DigitAt(a, i) # Base - 1
                    /\ \A j \in 1 .. i - 1 : a[j] = Base - 1
           i == CHOOSE k \in 1 .. Len(a) + 1 : Is(k)
           T == {k \in 1 .. Len(a) + 1 : DigitAt(a, k) # Base - 1}
           n == Len(a)
<1>1. n \in Nat /\ n + 1 \in Nat
  OBVIOUS
<1>2. \E k \in 1 .. n + 1 : Is(k)
  <2>1. T \subseteq 1 .. n + 1
    OBVIOUS
  <2>2. n + 1 \in T
    BY <1>1 DEF DigitAt
  <2>3. PICK k \in T : \A j \in T : k <= j
    <3> HIDE DEF T, n
    <3> QED
      BY <1>1, <2>1, <2>2, Least
  <2>4. ASSUME NEW j \in 1 .. k - 1
        PROVE  a[j] = Base - 1
    <3>1. j \in 1 .. n + 1 /\ ~ (k <= j) /\ j <= n
      BY <1>1, <2>1
    <3>2. j \notin T
      BY <2>3, <3>1
    <3> QED
      BY <3>1, <3>2 DEF DigitAt
  <2> QED
    BY <2>4
<1>3. i \in 1 .. n + 1 /\ Is(i)
  BY <1>2
<1> DEFINE p == SubSeq(a, 1, i - 1)
           d == DigitAt(a, i)
           r == RoundedMean(d, Base)
<1>4. MidAbove(a) = p \o <<r>>
  BY DEF MidAbove
<1> HIDE DEF i, n
<1>5. /\ i \in 1 .. n + 1 /\ d # Base - 1
      /\ \A j \in 1 .. i - 1 : a[j] = Base - 1
  BY <1>3
<1>6. d \in Digits
  BY <1>1, <1>5, DigitAtIs
<1>7. r \in Int /\ d < r /\ r < Base /\ d \in Int /\ d >= 0
  <2>1. d \in Int /\ Base \in Int /\ Base - d > 1 /\ d >= 0
    BY <1>5, <1>6 DEF Digits
  <2> QED
    BY <2>1, RoundedMeanIs
<1> HIDE DEF d, r
<1>8. r \in Digits /\ r # 0
  BY <1>7 DEF Digits
<1>9. p \in Seq(Digits) /\ Len(p) = i - 1 /\ \A j \in 1 .. i - 1 : p[j] = a[j]
  <2>1. \A j \in 1 .. i - 1 : j \in 1 .. Len(a)
    BY <1>1, <1>5 DEF n
  <2>2. \A j \in 1 .. i - 1 : a[j] \in Digits
    BY <2>1
  <2>3. 1 \in Int /\ i - 1 \in Int
    BY <1>1, <1>5
  <2>4. /\ p \in Seq(Digits) /\ Len(p) = IF 1 <= i - 1 THEN (i - 1) - 1 + 1 ELSE 0
        /\ \A j \in 1 .. (i - 1) - 1 + 1 : p[j] = a[1 + j - 1]
    BY <2>2, <2>3, SubSeqProperties
  <2> HIDE DEF p
  <2>5. Len(p) = i - 1
    BY <1>1, <1>5, <2>4
  <2>6. \A j \in 1 .. i - 1 : j \in 1 .. (i - 1) - 1 + 1 /\ 1 + j - 1 = j
    BY <1>1, <1>5
  <2> QED
    BY <2>4, <2>5, <2>6
<1>10. <<r>> \in Seq(Digits) /\ <<r>> # <<>> /\ ~ EndsInZero(<<r>>) /\ Len(<<r>>) = 1 /\ <<r>>[1] = r
  BY <1>8 DEF EndsInZero
<1> DEFINE m == p \o <<r>>
<1> HIDE DEF p
<1>11. /\ IsFraction(m) /\ m # <<>> /\ Len(m) = (i - 1) + 1
       /\ \A j \in 1 .. i - 1 : m[j] = p[j]
       /\ m[(i - 1) + 1] = r
  <2> DEFINE t == <<r>>
  <2>1. /\ IsFraction(p \o t) /\ p \o t # <<>> /\ Len(p \o t) = Len(p) + Len(t)
        /\ \A j \in 1 .. Len(p) : (p \o t)[j] = p[j]
        /\ \A j \in 1 .. Len(t) : (p \o t)[Len(p) + j] = t[j]
    <3> HIDE DEF t
    <3> QED
      BY <1>9, <1>10, JoinIs DEF t
  <2>2. 1 \in 1 .. Len(t)
    BY <1>10
  <2> QED
    BY <1>9, <1>10, <2>1, <2>2
<1>12. i \in 1 .. Len(m) /\ m[i] = r /\ m \in Seq(Digits)
  <2>1. (i - 1) + 1 = i /\ i >= 1
    BY <1>1, <1>5
  <2> QED
    BY <1>11, <2>1 DEF IsFraction
<1>13. \A j \in 1 .. i - 1 : DigitAt(a, j) = m[j]
  <2> SUFFICES ASSUME NEW j \in 1 .. i - 1
               PROVE  DigitAt(a, j) = m[j]
    OBVIOUS
  <2>1. j <= Len(a)
    BY <1>1, <1>5 DEF n
  <2> QED
    BY <1>9, <1>11, <2>1 DEF DigitAt
<1>14. Less(a, m)
  <2> HIDE DEF m
  <2> QED
    BY <1>7, <1>12, <1>13, PaddedIsLess DEF d
<1> QED
  BY <1>4, <1>11, <1>14 DEF m

\* The beginning of a sequence of digits, and what follows it.
LEMMA BeginningIs ==
  ASSUME NEW b \in Seq(Digits), NEW i \in 1 .. Len(b) + 1
  PROVE  /\ SubSeq(b, 1, i - 1) \in Seq(Digits) /\ Len(SubSeq(b, 1, i - 1)) = i - 1
         /\ \A j \in 1 .. i - 1 : SubSeq(b, 1, i - 1)[j] = b[j]
<1> DEFINE p == SubSeq(b, 1, i - 1)
<1>1. Len(b) \in Nat /\ i \in Nat /\ i >= 1
  OBVIOUS
<1>2. \A j \in 1 .. i - 1 : j \in 1 .. Len(b)
  BY <1>1
<1>3. \A j \in 1 .. i - 1 : b[j] \in Digits
  BY <1>2
<1>4. 1 \in Int /\ i - 1 \in Int
  BY <1>1
<1>5. /\ p \in Seq(Digits) /\ Len(p) = IF 1 <= i - 1 THEN (i - 1) - 1 + 1 ELSE 0
      /\ \A j \in 1 .. (i - 1) - 1 + 1 : p[j] = b[1 + j - 1]
  BY <1>3, <1>4, SubSeqProperties
<1> HIDE DEF p
<1>6. Len(p) = i - 1
  BY <1>1, <1>5
<1>7. \A j \in 1 .. i - 1 : j \in 1 .. (i - 1) - 1 + 1 /\ 1 + j - 1 = j
  BY <1>1
<1>8. p \in Seq(Digits) /\ Len(p) = i - 1 /\ \A j \in 1 .. i - 1 : p[j] = b[j]
  BY <1>5, <1>6, <1>7
<1> QED
  BY <1>8 DEF p

\* What midpoint puts at and behind the first place where the bounds differ.
MidTail(a, b, i) ==
  IF b[i] - DigitAt(a, i) > 1 THEN <<RoundedMean(DigitAt(a, i), b[i])>>
  ELSE IF Len(b) > i THEN <<b[i]>>
  ELSE <<DigitAt(a, i)>> \o MidAbove(SubSeq(a, i + 1, Len(a)))

LEMMA FirstDifference ==
  ASSUME NEW a \in Seq(Digits), NEW b \in Seq(Digits), Less(a, b), ~ EndsInZero(b)
  PROVE  \E i \in 1 .. Len(b) :
            /\ DigitAt(a, i) < b[i]
            /\ \A j \in 1 .. i - 1 : DigitAt(a, j) = b[j]
            /\ MidBetween(a, b) = SubSeq(b, 1, i - 1) \o MidTail(a, b, i)
<1> USE KeyParameters
<1> DEFINE n == Len(b)
           Is(i) == /\ DigitAt(a, i) # b[i]
                    /\ \A j \in 1 .. i - 1 : DigitAt(a, j) = b[j]
           i == CHOOSE k \in 1 .. Len(b) : Is(k)
           T == {k \in 1 .. Len(b) : DigitAt(a, k) # b[k]}
<1>1. n \in Nat /\ Len(a) \in Nat
  OBVIOUS
<1>2. PICK k \in 1 .. n : /\ k <= Len(a) + 1
                          /\ \A j \in 1 .. k - 1 : a[j] = b[j]
                          /\ k <= Len(a) => a[k] < b[k]
  BY DEF Less
<1>3. \A j \in 1 .. k - 1 : DigitAt(a, j) = b[j]
  BY <1>1, <1>2 DEF DigitAt
<1>4. T # {}
  <2>1. CASE k <= Len(a)
    <3>1. a[k] < b[k] /\ a[k] \in Int /\ DigitAt(a, k) = a[k]
      <4>1. k \in 1 .. Len(a)
        BY <1>1, <2>1
      <4> QED
        BY <1>2, <2>1, <4>1 DEF DigitAt, Digits
    <3>2. b[k] \in Int
      BY DEF Digits
    <3> QED
      BY <3>1, <3>2
  <2>2. CASE ~ (k <= Len(a))
    <3>1. n \in 1 .. n /\ ~ (n <= Len(a))
      BY <1>1, <2>2
    <3>2. b # <<>> /\ b[n] # 0
      BY <3>1 DEF EndsInZero
    <3>3. DigitAt(a, n) = 0
      BY <3>1 DEF DigitAt
    <3> QED
      BY <3>1, <3>2, <3>3
  <2> QED
    BY <2>1, <2>2
<1>5. \E l \in 1 .. n : Is(l)
  <2>1. T \subseteq 1 .. n
    OBVIOUS
  <2>2. PICK l \in T : \A j \in T : l <= j
    <3> HIDE DEF T, n
    <3> QED
      BY <1>1, <1>4, <2>1, Least
  <2>3. ASSUME NEW j \in 1 .. l - 1
        PROVE  DigitAt(a, j) = b[j]
    <3>1. j \in 1 .. n /\ ~ (l <= j)
      BY <1>1, <2>1
    <3>2. j \notin T
      BY <2>2, <3>1
    <3> QED
      BY <3>1, <3>2
  <2> QED
    BY <2>3
<1>6. i \in 1 .. n /\ Is(i)
  BY <1>5
<1>7. MidBetween(a, b) = SubSeq(b, 1, i - 1) \o MidTail(a, b, i)
  BY DEF MidBetween, MidTail
<1> HIDE DEF i
<1>8. DigitAt(a, i) < b[i]
  <2>1. ~ (i < k)
    <3> SUFFICES ASSUME i < k
                 PROVE  FALSE
      OBVIOUS
    <3>1. i \in 1 .. k - 1
      BY <1>1, <1>6
    <3> QED
      BY <1>3, <1>6, <3>1
  <2>2. DigitAt(a, i) \in Int /\ DigitAt(a, i) >= 0 /\ b[i] \in Int /\ b[i] >= 0
    <3>1. DigitAt(a, i) \in Digits /\ b[i] \in Digits
      BY <1>1, <1>6, DigitAtIs
    <3> QED
      BY <3>1 DEF Digits
  <2>3. CASE k < i
    <3>1. k \in 1 .. i - 1
      BY <1>1, <1>6, <2>3
    <3>2. DigitAt(a, k) = b[k]
      BY <1>6, <3>1
    <3>3. ~ (k <= Len(a))
      <4> SUFFICES ASSUME k <= Len(a)
                   PROVE  FALSE
        OBVIOUS
      <4>1. a[k] < b[k] /\ a[k] = b[k] /\ b[k] \in Int
        BY <1>2, <3>2 DEF DigitAt, Digits
      <4> QED
        BY <4>1
    <3>4. DigitAt(a, i) = 0
      <4>1. ~ (i <= Len(a))
        BY <1>1, <1>6, <2>3, <3>3
      <4> QED
        BY <4>1 DEF DigitAt
    <3> QED
      BY <1>6, <2>2, <3>4
  <2>4. CASE k = i
    <3>1. CASE i <= Len(a)
      BY <1>2, <2>4, <3>1 DEF DigitAt
    <3>2. CASE ~ (i <= Len(a))
      BY <1>6, <2>2, <3>2 DEF DigitAt
    <3> QED
      BY <3>1, <3>2
  <2> QED
    BY <1>1, <1>6, <2>1, <2>3, <2>4
<1> QED
  BY <1>6, <1>7, <1>8

\* A common beginning followed by a smaller digit.
LEMMA SmallerAt ==
  ASSUME NEW m \in Seq(Digits), NEW b \in Seq(Digits), NEW i \in 1 .. Len(m), i \in 1 .. Len(b),
         \A j \in 1 .. i - 1 : m[j] = b[j], m[i] < b[i]
  PROVE  Less(m, b)
BY DigitsAreInts, PartIsLess DEF PartAt

LEMMA JoinsAssociate ==
  ASSUME NEW x \in Seq(Digits), NEW y \in Seq(Digits), NEW z \in Seq(Digits)
  PROVE  (x \o y) \o z = x \o (y \o z)
<1> DEFINE S == Digits
<1>1. x \in Seq(S) /\ y \in Seq(S) /\ z \in Seq(S)
  OBVIOUS
<1> HIDE DEF S
<1> QED
  BY <1>1, ConcatAssociative

LEMMA MidBetweenIs ==
  ASSUME NEW a \in Seq(Digits), NEW b \in Seq(Digits), Less(a, b), ~ EndsInZero(b)
  PROVE  /\ IsFraction(MidBetween(a, b)) /\ MidBetween(a, b) # <<>>
         /\ Less(a, MidBetween(a, b)) /\ Less(MidBetween(a, b), b)
<1> USE KeyParameters
<1> PICK i \in 1 .. Len(b) :
       /\ DigitAt(a, i) < b[i]
       /\ \A j \in 1 .. i - 1 : DigitAt(a, j) = b[j]
       /\ MidBetween(a, b) = SubSeq(b, 1, i - 1) \o MidTail(a, b, i)
  BY FirstDifference
<1> DEFINE d == DigitAt(a, i)
           p == SubSeq(b, 1, i - 1)
           t == MidTail(a, b, i)
           m == p \o t
<1>1. Len(b) \in Nat /\ Len(a) \in Nat /\ i \in Nat /\ i >= 1 /\ i <= Len(b)
  OBVIOUS
<1>2. d \in Digits /\ b[i] \in Digits /\ d < b[i] /\ d \in Int /\ b[i] \in Int /\ d >= 0 /\ b[i] < Base
  <2>1. d \in Digits /\ b[i] \in Digits
    BY <1>1, DigitAtIs
  <2> QED
    BY <2>1 DEF Digits
<1>3. \A j \in 1 .. i - 1 : DigitAt(a, j) = b[j]
  OBVIOUS
<1>4. p \in Seq(Digits) /\ Len(p) = i - 1 /\ \A j \in 1 .. i - 1 : p[j] = b[j]
  <2>1. i \in 1 .. Len(b) + 1
    BY <1>1
  <2> QED
    BY <2>1, BeginningIs
<1>5. t = IF b[i] - d > 1 THEN <<RoundedMean(d, b[i])>>
          ELSE IF Len(b) > i THEN <<b[i]>>
          ELSE <<d>> \o MidAbove(SubSeq(a, i + 1, Len(a)))
  BY DEF MidTail
<1> HIDE DEF d, p, t
<1>6. ASSUME t \in Seq(Digits), t # <<>>, ~ EndsInZero(t)
      PROVE  /\ IsFraction(m) /\ m # <<>> /\ m \in Seq(Digits)
             /\ Len(m) = (i - 1) + Len(t) /\ Len(t) \in Nat /\ Len(t) >= 1
             /\ i \in 1 .. Len(m)
             /\ \A j \in 1 .. i - 1 : m[j] = b[j] /\ DigitAt(a, j) = m[j]
             /\ m[i] = t[1]
  <2>1. /\ IsFraction(m) /\ m # <<>> /\ Len(m) = Len(p) + Len(t)
        /\ \A j \in 1 .. Len(p) : m[j] = p[j]
        /\ \A j \in 1 .. Len(t) : m[Len(p) + j] = t[j]
    BY <1>4, <1>6, JoinIs
  <2>2. Len(t) \in Nat /\ Len(t) >= 1
    BY <1>6
  <2> HIDE DEF m
  <2>3. Len(m) = (i - 1) + Len(t) /\ i \in 1 .. Len(m) /\ (i - 1) + 1 = i /\ 1 \in 1 .. Len(t)
    BY <1>1, <1>4, <2>1, <2>2
  <2>4. m[i] = t[1]
    BY <1>4, <2>1, <2>3
  <2>5. \A j \in 1 .. i - 1 : m[j] = b[j] /\ DigitAt(a, j) = m[j]
    BY <1>3, <1>4, <2>1
  <2> QED
    BY <2>1, <2>2, <2>3, <2>4, <2>5 DEF IsFraction
<1> HIDE DEF m
<1>7. ASSUME NEW e \in Digits, e # 0
      PROVE  <<e>> \in Seq(Digits) /\ <<e>> # <<>> /\ ~ EndsInZero(<<e>>) /\ Len(<<e>>) = 1 /\ <<e>>[1] = e
  BY <1>7 DEF EndsInZero
<1>8. CASE b[i] - d > 1
  <2> DEFINE r == RoundedMean(d, b[i])
  <2>1. t = <<r>>
    BY <1>5, <1>8
  <2>2. r \in Int /\ d < r /\ r < b[i]
    BY <1>2, <1>8, RoundedMeanIs
  <2> HIDE DEF r
  <2>3. r \in Digits /\ r # 0
    BY <1>2, <2>2 DEF Digits
  <2>4. t \in Seq(Digits) /\ t # <<>> /\ ~ EndsInZero(t) /\ t[1] = r
    BY <1>7, <2>1, <2>3
  <2>5. /\ IsFraction(m) /\ m # <<>> /\ m \in Seq(Digits) /\ i \in 1 .. Len(m)
        /\ \A j \in 1 .. i - 1 : m[j] = b[j] /\ DigitAt(a, j) = m[j]
        /\ m[i] = r
    BY <1>6, <2>4
  <2>6. Less(a, m)
    BY <2>2, <2>5, PaddedIsLess DEF d
  <2>7. Less(m, b)
    BY <2>2, <2>5, SmallerAt
  <2> QED
    BY <2>5, <2>6, <2>7 DEF m, p, t
<1>9. CASE ~ (b[i] - d > 1) /\ Len(b) > i
  <2>1. t = <<b[i]>>
    BY <1>5, <1>9
  <2>2. b[i] # 0
    BY <1>2
  <2>3. t \in Seq(Digits) /\ t # <<>> /\ ~ EndsInZero(t) /\ Len(t) = 1 /\ t[1] = b[i]
    BY <1>2, <1>7, <2>1, <2>2
  <2>4. /\ IsFraction(m) /\ m # <<>> /\ m \in Seq(Digits) /\ i \in 1 .. Len(m)
        /\ \A j \in 1 .. i - 1 : m[j] = b[j] /\ DigitAt(a, j) = m[j]
        /\ m[i] = b[i] /\ Len(m) = i
    <3>1. Len(m) = i
      BY <1>1, <1>6, <2>3
    <3> QED
      BY <1>6, <2>3, <3>1
  <2>5. Less(a, m)
    BY <1>2, <2>4, PaddedIsLess DEF d
  <2>6. Less(m, b)
    <3>1. \A j \in 1 .. Len(m) : m[j] = b[j]
      <4>1. \A j \in 1 .. Len(m) : j \in 1 .. i - 1 \/ j = i
        BY <1>1, <2>4
      <4> QED
        BY <2>4, <4>1
    <3>2. Len(m) < Len(b)
      BY <1>1, <1>9, <2>4
    <3> QED
      BY <2>4, <3>1, <3>2, ExtensionIsMore, DigitsAreInts
  <2> QED
    BY <2>4, <2>5, <2>6 DEF m, p, t
<1>10. CASE ~ (b[i] - d > 1) /\ ~ (Len(b) > i)
  <2> DEFINE rest == SubSeq(a, i + 1, Len(a))
             u == MidAbove(rest)
  <2>1. t = <<d>> \o u
    BY <1>5, <1>10
  <2>2. rest \in Seq(Digits)
    <3>1. \A j \in i + 1 .. Len(a) : a[j] \in Digits
      <4>1. \A j \in i + 1 .. Len(a) : j \in 1 .. Len(a)
        BY <1>1
      <4> QED
        BY <4>1
    <3>2. i + 1 \in Int /\ Len(a) \in Int
      BY <1>1
    <3> QED
      BY <3>1, <3>2, SubSeqProperties
  <2>3. IsFraction(u) /\ u # <<>> /\ Less(rest, u)
    BY <2>2, MidAboveIs
  <2> HIDE DEF u, rest
  <2>4. <<d>> \in Seq(Digits) /\ Len(<<d>>) = 1 /\ <<d>>[1] = d
    BY <1>2
  <2>5. t \in Seq(Digits) /\ t # <<>> /\ ~ EndsInZero(t) /\ t[1] = d
    <3> DEFINE s == <<d>>
    <3>1. s \in Seq(Digits) /\ Len(s) = 1 /\ s[1] = d
      BY <2>4
    <3> HIDE DEF s
    <3>2. /\ IsFraction(s \o u) /\ s \o u # <<>>
          /\ \A j \in 1 .. Len(s) : (s \o u)[j] = s[j]
      BY <2>3, <3>1, JoinIs DEF IsFraction
    <3>3. t = s \o u
      BY <2>1 DEF s
    <3> QED
      BY <3>1, <3>2, <3>3 DEF IsFraction
  <2>6. /\ IsFraction(m) /\ m # <<>> /\ m \in Seq(Digits) /\ i \in 1 .. Len(m)
        /\ \A j \in 1 .. i - 1 : m[j] = b[j] /\ DigitAt(a, j) = m[j]
        /\ m[i] = d
    BY <1>6, <2>5
  <2>7. Less(m, b)
    BY <1>2, <2>6, SmallerAt
  <2>8. Less(a, m)
    <3>1. CASE Len(a) < i
      BY <2>6, <3>1, PaddedIsLess
    <3>2. CASE i <= Len(a)
      <4> DEFINE q == SubSeq(a, 1, i)
                 s == <<d>>
      <4>1. q \in Seq(Digits) /\ Len(q) = i /\ \A j \in 1 .. i : q[j] = a[j]
        <5>1. i + 1 \in 1 .. Len(a) + 1 /\ (i + 1) - 1 = i
          BY <1>1, <3>2
        <5> QED
          BY <5>1, BeginningIs
      <4>2. a = q \o rest
        <5>1. 1 \in 1 .. Len(a) + 1 /\ i \in 1 - 1 .. Len(a) /\ Len(a) \in i .. Len(a)
          BY <1>1, <3>2
        <5>2. SubSeq(a, 1, i) \o SubSeq(a, i + 1, Len(a)) = SubSeq(a, 1, Len(a))
          BY <5>1, ConcatAdjacentSubSeq
        <5>3. SubSeq(a, 1, Len(a)) = a
          BY SubSeqFull
        <5> QED
          BY <5>2, <5>3 DEF rest
      <4>3. s \in Seq(Digits) /\ Len(s) = 1 /\ s[1] = d
        BY <2>4
      <4> HIDE DEF q, s
      <4>4. p \o s = q
        <5>1. /\ p \o s \in Seq(Digits) /\ Len(p \o s) = Len(p) + Len(s)
              /\ \A j \in 1 .. Len(p) + Len(s) :
                   (p \o s)[j] = IF j <= Len(p) THEN p[j] ELSE s[j - Len(p)]
          BY <1>4, <4>3, ConcatProperties
        <5> DEFINE ps == p \o s
        <5> HIDE DEF ps
        <5>2. Len(p) + Len(s) = i /\ Len(p) = i - 1
          BY <1>1, <1>4, <4>3
        <5>3. \A j \in 1 .. i - 1 : ps[j] = q[j]
          <6> SUFFICES ASSUME NEW j \in 1 .. i - 1
                       PROVE  ps[j] = q[j]
            OBVIOUS
          <6>1. j \in 1 .. i /\ j <= i - 1 /\ j <= Len(a)
            BY <1>1, <3>2
          <6>2. ps[j] = b[j]
            BY <1>4, <5>1, <5>2, <6>1 DEF ps
          <6>3. q[j] = a[j] /\ DigitAt(a, j) = a[j] /\ DigitAt(a, j) = b[j]
            BY <1>3, <4>1, <6>1 DEF DigitAt
          <6> QED
            BY <6>2, <6>3
        <5>4. ps[i] = q[i]
          <6>1. i \in 1 .. i /\ ~ (i <= i - 1) /\ i - (i - 1) = 1
            BY <1>1
          <6>2. ps[i] = d
            BY <4>3, <5>1, <5>2, <6>1 DEF ps
          <6>3. q[i] = a[i] /\ a[i] = d
            BY <3>2, <4>1, <6>1 DEF DigitAt, d
          <6> QED
            BY <6>2, <6>3
        <5>5. \A j \in 1 .. i : j \in 1 .. i - 1 \/ j = i
          BY <1>1
        <5>6. \A j \in 1 .. i : ps[j] = q[j]
          BY <5>3, <5>4, <5>5
        <5>7. ps \in Seq(Digits) /\ Len(ps) = i
          BY <5>1, <5>2 DEF ps
        <5>8. ps = q
          BY <4>1, <5>6, <5>7, SeqEqual
        <5> QED
          BY <5>8 DEF ps
      <4>5. m = q \o u
        <5>1. u \in Seq(Digits)
          BY <2>3 DEF IsFraction
        <5>2. p \in Seq(Digits) /\ s \in Seq(Digits)
          BY <1>4, <4>3
        <5>3. (p \o s) \o u = p \o (s \o u)
          BY <5>1, <5>2, JoinsAssociate, ZenonT(60)
        <5> QED
          BY <2>1, <4>4, <5>3 DEF m, s
      <4>6. Less(q \o rest, q \o u)
        BY <2>2, <2>3, <4>1, PrefixKeepsOrder, DigitsAreInts DEF IsFraction
      <4>7. Less(a, m)
        BY <4>2, <4>5, <4>6
      <4> QED
        BY <4>7
    <3> QED
      BY <1>1, <3>1, <3>2
  <2> QED
    BY <2>6, <2>7, <2>8 DEF m, p, t
<1> QED
  BY <1>8, <1>9, <1>10

-----------------------------------------------------------------------------
(* generateKeyBetween.                                                     *)

\* The order of two keys with a common integer part is that of their
\* fractions.
LEMMA CommonPrefixDoesNotDecide ==
  ASSUME NEW p \in Seq(Int), NEW x \in Seq(Int), NEW y \in Seq(Int), Less(p \o x, p \o y)
  PROVE  Less(x, y)
<1> DEFINE px == p \o x
           py == p \o y
           k == Len(p)
           lx == Len(x)
           ly == Len(y)
<1>1. k \in Nat /\ lx \in Nat /\ ly \in Nat
  OBVIOUS
<1>2. /\ Len(px) = k + lx
      /\ \A j \in 1 .. k + lx : px[j] = IF j <= k THEN p[j] ELSE x[j - k]
  BY ConcatProperties
<1>3. /\ Len(py) = k + ly
      /\ \A j \in 1 .. k + ly : py[j] = IF j <= k THEN p[j] ELSE y[j - k]
  BY ConcatProperties
<1>4. PICK i \in 1 .. Len(py) : /\ i <= Len(px) + 1
                                /\ \A j \in 1 .. i - 1 : px[j] = py[j]
                                /\ i <= Len(px) => px[i] < py[i]
  BY DEF Less
<1>5. \A j \in 1 .. k : p[j] \in Int
  OBVIOUS
<1> HIDE DEF px, py, k, lx, ly
<1>6. i \in Nat /\ i >= 1 /\ i <= k + ly /\ i <= k + lx + 1
  BY <1>1, <1>2, <1>3, <1>4
<1>7. ~ (i <= k)
  <2> SUFFICES ASSUME i <= k
               PROVE  FALSE
    OBVIOUS
  <2>1. i \in 1 .. k /\ i \in 1 .. k + lx /\ i \in 1 .. k + ly
    BY <1>1, <1>6
  <2>2. px[i] < py[i]
    BY <1>2, <1>4, <2>1
  <2>3. px[i] = p[i] /\ py[i] = p[i] /\ p[i] \in Int
    BY <1>2, <1>3, <1>5, <2>1
  <2> QED
    BY <2>2, <2>3
<1> DEFINE q == i - k
<1>8. q \in 1 .. ly /\ q <= lx + 1
  BY <1>1, <1>6, <1>7
<1>9. \A j \in 1 .. q - 1 : x[j] = y[j]
  <2> SUFFICES ASSUME NEW j \in 1 .. q - 1
               PROVE  x[j] = y[j]
    OBVIOUS
  <2>1. /\ k + j \in 1 .. i - 1 /\ k + j \in 1 .. k + lx /\ k + j \in 1 .. k + ly
        /\ ~ (k + j <= k) /\ (k + j) - k = j
    BY <1>1, <1>6, <1>7
  <2>2. px[k + j] = x[j] /\ py[k + j] = y[j]
    BY <1>2, <1>3, <2>1
  <2> QED
    BY <1>4, <2>1, <2>2
<1>10. q <= lx => x[q] < y[q]
  <2> SUFFICES ASSUME q <= lx
               PROVE  x[q] < y[q]
    OBVIOUS
  <2>1. i \in 1 .. k + lx /\ i \in 1 .. k + ly
    BY <1>1, <1>6
  <2>2. px[i] = x[q] /\ py[i] = y[q]
    BY <1>2, <1>3, <1>7, <2>1
  <2> QED
    BY <1>2, <1>4, <2>1, <2>2
<1> HIDE DEF q
<1> QED
  BY <1>8, <1>9, <1>10 DEF Less, lx, ly

\* What is decided inside the integer part is decided for the key.
LEMMA IntegerDecides ==
  ASSUME NEW a, Valid(a), NEW y, NEW i
  PROVE  /\ PartAt(IntegerPart(a), y, i) => PartAt(a, y, i)
         /\ PartAt(y, IntegerPart(a), i) => PartAt(y, a, i)
<1> DEFINE x == IntegerPart(a)
<1>1. /\ Len(x) \in Nat /\ Len(Fraction(a)) \in Nat /\ Len(a) \in Nat
      /\ Len(x) + Len(Fraction(a)) = Len(a)
      /\ \A j \in 1 .. Len(x) : x[j] = a[j]
  BY Parts DEF IsInteger, IsFraction, Valid
<1> HIDE DEF x
<1>2. ASSUME i \in 1 .. Len(x)
      PROVE  i \in 1 .. Len(a) /\ x[i] = a[i] /\ \A j \in 1 .. i - 1 : x[j] = a[j]
  <2>1. i \in 1 .. Len(a) /\ \A j \in 1 .. i - 1 : j \in 1 .. Len(x)
    BY <1>1, <1>2
  <2> QED
    BY <1>1, <1>2, <2>1
<1>3. PartAt(x, y, i) => PartAt(a, y, i)
  BY <1>2 DEF PartAt
<1>4. PartAt(y, x, i) => PartAt(y, a, i)
  BY <1>2 DEF PartAt
<1> QED
  BY <1>3, <1>4 DEF x

\* Every integer but the smallest is a key.
LEMMA IntegerIsKey ==
  ASSUME NEW x, IsInteger(x), x # SmallestInteger
  PROVE  Valid(x)
<1>1. IsFraction(<<>>)
  BY DEF IsFraction, EndsInZero
<1>2. x \o <<>> = x
  BY DEF IsInteger
<1> QED
  BY <1>1, <1>2, Compose

LEMMA KeyAfterIs ==
  ASSUME NEW a, Valid(a)
  PROVE  Valid(KeyAfter(a)) /\ Less(a, KeyAfter(a))
<1> DEFINE x == IntegerPart(a)
           f == Fraction(a)
           up == Increment(x)
<1>1. IsInteger(x) /\ IsFraction(f) /\ a = x \o f
  BY Parts
<1>2. KeyAfter(a) = IF up = NoKey THEN x \o MidAbove(f) ELSE up
  BY DEF KeyAfter
<1>3. CASE up = NoKey
  <2>1. IsFraction(MidAbove(f)) /\ MidAbove(f) # <<>> /\ Less(f, MidAbove(f))
    BY <1>1, MidAboveIs DEF IsFraction
  <2>2. Valid(x \o MidAbove(f))
    BY <1>1, <2>1, Compose
  <2>3. Less(x \o f, x \o MidAbove(f))
    BY <1>1, <2>1, PrefixKeepsOrder, DigitsAreInts DEF IsFraction, IsInteger
  <2> QED
    BY <1>1, <1>2, <1>3, <2>2, <2>3
<1>4. CASE up # NoKey
  <2>1. IsInteger(up) /\ up # SmallestInteger /\ \E i \in 1 .. Len(x) : PartAt(x, up, i)
    BY <1>1, <1>4, IncrementIs
  <2>2. PICK i \in 1 .. Len(x) : PartAt(x, up, i)
    BY <2>1
  <2>3. PartAt(a, up, i)
    BY <2>2, IntegerDecides
  <2>4. Less(a, up)
    BY <2>1, <2>3, PartIsLess DEF Valid, IsInteger
  <2> QED
    BY <1>2, <1>4, <2>1, <2>4, IntegerIsKey
<1> QED
  BY <1>3, <1>4

LEMMA KeyBeforeIs ==
  ASSUME NEW b, Valid(b)
  PROVE  /\ KeyBefore(b) \in Seq(Int) /\ KeyBefore(b) # NoKey /\ Less(KeyBefore(b), b)
         /\ \/ Valid(KeyBefore(b))
            \/ KeyBefore(b) = SmallestInteger /\ b = Increment(SmallestInteger)
<1> DEFINE x == IntegerPart(b)
           f == Fraction(b)
           k == KeyBefore(b)
           Good == \/ Valid(k) /\ Less(k, b)
                   \/ /\ k = SmallestInteger /\ b = Increment(SmallestInteger)
                      /\ Less(k, b)
<1>1. /\ IsInteger(x) /\ IsFraction(f) /\ b = x \o f /\ Len(x) + Len(f) = Len(b)
      /\ \A j \in 1 .. Len(x) : x[j] = b[j]
  BY Parts
<1>2. b \in Seq(Int) /\ b # SmallestInteger /\ x \in Seq(Int) /\ f \in Seq(Int) /\ f \in Seq(Digits)
  BY <1>1, DigitsAreInts DEF Valid, IsOrderKey, IsInteger, IsFraction
<1>3. k = IF x = SmallestInteger THEN x \o MidBetween(<<>>, f)
          ELSE IF Less(x, b) THEN x ELSE Decrement(x)
  BY DEF KeyBefore
<1>4. f = <<>> => b = x
  BY <1>1, <1>2
<1>5. f # <<>> => Less(x, b)
  <2> SUFFICES ASSUME f # <<>>
               PROVE  Less(x, b)
    OBVIOUS
  <2>1. Len(x) < Len(b)
    <3>1. Len(f) \in Nat /\ Len(f) > 0 /\ Len(x) \in Nat
      BY <1>2
    <3> QED
      BY <1>1, <3>1
  <2> QED
    BY <1>1, <1>2, <2>1, ExtensionIsMore
<1> HIDE DEF x, f, k
<1>6. Good
  <2>1. CASE x = SmallestInteger
    <3> DEFINE e == <<>>
               mid == MidBetween(e, f)
    <3>1. f # <<>>
      BY <1>2, <1>4, <2>1
    <3>2. e \in Seq(Digits) /\ e \in Seq(Int)
      OBVIOUS
    <3>3. Less(e, f)
      <4>1. Len(e) < Len(f) /\ \A j \in 1 .. Len(e) : e[j] = f[j]
        BY <1>2, <3>1
      <4> QED
        BY <1>2, <3>2, <4>1, ExtensionIsMore
    <3>4. k = x \o mid
      BY <1>3, <2>1
    <3> HIDE DEF e
    <3>5. IsFraction(mid) /\ mid # <<>> /\ Less(mid, f)
      BY <1>1, <1>2, <3>2, <3>3, MidBetweenIs DEF IsFraction
    <3> HIDE DEF mid
    <3>6. Valid(x \o mid)
      BY <1>1, <3>5, Compose
    <3>7. Less(x \o mid, x \o f)
      BY <1>2, <3>5, PrefixKeepsOrder, DigitsAreInts DEF IsFraction
    <3> QED
      BY <1>1, <3>4, <3>6, <3>7
  <2>2. CASE x # SmallestInteger /\ Less(x, b)
    BY <1>1, <1>3, <2>2, IntegerIsKey
  <2>3. CASE x # SmallestInteger /\ ~ Less(x, b)
    <3>1. b = x /\ k = Decrement(x)
      BY <1>3, <1>4, <1>5, <2>3
    <3>2. /\ IsInteger(k) /\ \E i \in 1 .. Len(x) : PartAt(k, x, i)
          /\ k = SmallestInteger => x = Increment(SmallestInteger)
      <4>1. \A i : BorrowsAt(k, x, i) => PartAt(k, x, i)
        BY DEF BorrowsAt
      <4> QED
        BY <1>1, <2>3, <3>1, <4>1, DecrementIs
    <3>3. Less(k, b)
      BY <1>2, <3>1, <3>2, PartIsLess DEF IsInteger
    <3> QED
      BY <3>1, <3>2, <3>3, IntegerIsKey
  <2> QED
    BY <2>1, <2>2, <2>3
<1>7. k \in Seq(Int) /\ k # NoKey
  BY <1>6, SmallestIs DEF Valid, IsOrderKey, IsInteger, NoKey
<1> QED
  BY <1>6, <1>7 DEF k

\* Keys with different integer parts differ inside the first one's.
LEMMA IntegersPart ==
  ASSUME NEW a, NEW b, Valid(a), Valid(b), Less(a, b), IntegerPart(a) # IntegerPart(b)
  PROVE  \E i \in 1 .. Len(IntegerPart(a)) : PartAt(IntegerPart(a), b, i)
<1> DEFINE x == IntegerPart(a)
           y == IntegerPart(b)
<1>1. /\ IsInteger(x) /\ Len(x) + Len(Fraction(a)) = Len(a)
      /\ IsInteger(y) /\ Len(y) + Len(Fraction(b)) = Len(b)
      /\ \A j \in 1 .. Len(x) : x[j] = a[j]
      /\ \A j \in 1 .. Len(y) : y[j] = b[j]
      /\ IsFraction(Fraction(a)) /\ IsFraction(Fraction(b))
  BY Parts
<1>2. /\ Len(Fraction(a)) \in Nat /\ Len(Fraction(b)) \in Nat /\ Len(a) \in Nat /\ Len(b) \in Nat
      /\ Len(x) \in Nat /\ Len(x) >= 2 /\ Len(y) \in Nat /\ Len(y) >= 2
      /\ Len(x) = IntegerLength(x[1]) /\ Len(y) = IntegerLength(y[1])
  <2>1. ASSUME NEW z, IsInteger(z)
        PROVE  Len(z) \in Nat /\ Len(z) >= 2 /\ Len(z) = IntegerLength(z[1])
    BY <2>1, HeadLengths DEF IsInteger
  <2>2. ASSUME NEW z, IsFraction(z)
        PROVE  Len(z) \in Nat
    BY <2>2 DEF IsFraction
  <2>3. Len(a) \in Nat /\ Len(b) \in Nat
    BY DEF Valid
  <2> HIDE DEF x, y
  <2> QED
    BY <1>1, <2>1, <2>2, <2>3
<1>3. PICK i \in 1 .. Len(b) : /\ i <= Len(a) + 1
                               /\ \A j \in 1 .. i - 1 : a[j] = b[j]
                               /\ i <= Len(a) => a[i] < b[i]
  BY DEF Less
<1> HIDE DEF x, y
<1>4. i <= Len(x)
  <2> SUFFICES ASSUME ~ (i <= Len(x))
               PROVE  FALSE
    OBVIOUS
  <2>1. \A j \in 1 .. Len(x) : j \in 1 .. i - 1
    BY <1>2, <1>3
  <2>2. \A j \in 1 .. Len(x) : x[j] = b[j]
    BY <1>1, <1>3, <2>1
  <2>3. x[1] = y[1]
    <3>1. 1 \in 1 .. Len(x) /\ 1 \in 1 .. Len(y)
      BY <1>2
    <3> QED
      BY <1>1, <2>2, <3>1
  <2>4. Len(x) = Len(y)
    BY <1>2, <2>3
  <2>5. \A j \in 2 .. Len(x) : x[j] = y[j]
    <3>1. \A j \in 2 .. Len(x) : j \in 1 .. Len(x) /\ j \in 1 .. Len(y)
      BY <1>2, <2>4
    <3> QED
      BY <1>1, <2>2, <3>1
  <2>6. x = y
    BY <1>1, <2>3, <2>5, IntegerIsOne
  <2> QED
    BY <2>6 DEF x, y
<1>5. i \in 1 .. Len(x) /\ i <= Len(a)
  BY <1>1, <1>2, <1>3, <1>4
<1>6. \A j \in 1 .. i - 1 : j \in 1 .. Len(x)
  BY <1>2, <1>4
<1>7. PartAt(x, b, i)
  BY <1>1, <1>3, <1>5, <1>6 DEF PartAt
<1> QED
  BY <1>5, <1>7 DEF x

LEMMA KeyInsideIs ==
  ASSUME NEW a, NEW b, Valid(a), Valid(b), Less(a, b)
  PROVE  Valid(KeyInside(a, b)) /\ Less(a, KeyInside(a, b)) /\ Less(KeyInside(a, b), b)
<1> USE KeyParameters
<1> DEFINE x == IntegerPart(a)
           f == Fraction(a)
           y == IntegerPart(b)
           g == Fraction(b)
           up == Increment(x)
           k == KeyInside(a, b)
           Good == Valid(k) /\ Less(a, k) /\ Less(k, b)
<1>1. IsInteger(x) /\ IsFraction(f) /\ a = x \o f /\ IsInteger(y) /\ IsFraction(g) /\ b = y \o g
  BY Parts
<1>2. /\ x \in Seq(Int) /\ f \in Seq(Digits) /\ f \in Seq(Int) /\ g \in Seq(Digits) /\ g \in Seq(Int)
      /\ ~ EndsInZero(g) /\ a \in Seq(Int) /\ b \in Seq(Int)
  BY <1>1, DigitsAreInts DEF IsInteger, IsFraction, Valid
<1>3. k = IF x = y THEN x \o MidBetween(f, g)
          ELSE IF up = NoKey \/ Less(up, b) THEN up ELSE x \o MidAbove(f)
  BY DEF KeyInside
<1>4. x # y => \E i \in 1 .. Len(x) : PartAt(x, b, i)
  BY IntegersPart
<1>5. \A z : \A i \in 1 .. Len(x) : PartAt(x, z, i) => PartAt(a, z, i)
  BY IntegerDecides
<1>6. b[1] \in -Heads .. Heads - 1 /\ \A i \in 2 .. Len(b) : b[i] \in Digits
  BY DEF Valid, IsOrderKey
<1>7. up # NoKey => /\ IsInteger(up) /\ up # SmallestInteger
                    /\ \E i \in 1 .. Len(x) : PartAt(x, up, i)
  BY <1>1, IncrementIs
<1>8. up = NoKey => /\ x[1] = Heads - 1
                    /\ \A j \in 2 .. Len(x) : x[j] = Base - 1
  <2>1. ~ IsInteger(NoKey)
    BY DEF IsInteger, NoKey
  <2> QED
    BY <1>1, <2>1, IncrementIs
<1> HIDE DEF x, f, y, g, up, k
<1>9. Good
  <2>1. CASE x = y
    <3> DEFINE mid == MidBetween(f, g)
    <3>1. Less(f, g)
      BY <1>1, <1>2, <2>1, CommonPrefixDoesNotDecide
    <3>2. IsFraction(mid) /\ mid # <<>> /\ Less(f, mid) /\ Less(mid, g)
      BY <1>2, <3>1, MidBetweenIs
    <3>3. k = x \o mid
      BY <1>3, <2>1
    <3> HIDE DEF mid
    <3>4. Valid(k)
      BY <1>1, <3>2, <3>3, Compose
    <3>5. mid \in Seq(Int)
      BY <3>2, DigitsAreInts DEF IsFraction
    <3>6. Less(x \o f, x \o mid)
      BY <1>2, <3>2, <3>5, PrefixKeepsOrder
    <3>7. Less(x \o mid, x \o g)
      BY <1>2, <3>2, <3>5, PrefixKeepsOrder
    <3> QED
      BY <1>1, <2>1, <3>3, <3>4, <3>6, <3>7
  <2>2. CASE x # y
    <3>1. PICK i \in 1 .. Len(x) : PartAt(x, b, i)
      BY <1>4, <2>2
    <3>2. i \in 1 .. Len(b) /\ x[i] < b[i] /\ \A j \in 1 .. i - 1 : x[j] = b[j]
      BY <3>1 DEF PartAt
    <3>3. up # NoKey
      <4> SUFFICES ASSUME up = NoKey
                   PROVE  FALSE
        OBVIOUS
      <4>1. CASE i = 1
        <5>1. x[1] = Heads - 1 /\ x[1] < b[1] /\ b[1] \in -Heads .. Heads - 1
          BY <1>6, <1>8, <3>2, <4>1
        <5> QED
          BY <5>1
      <4>2. CASE i # 1
        <5>1. i \in 2 .. Len(x) /\ i \in 2 .. Len(b)
          BY <1>2, <3>2, <4>2
        <5>2. x[i] = Base - 1 /\ b[i] \in Digits
          BY <1>6, <1>8, <5>1
        <5> QED
          BY <3>2, <5>2 DEF Digits
      <4> QED
        BY <4>1, <4>2
    <3>4. CASE Less(up, b)
      <4>1. k = up
        BY <1>3, <2>2, <3>4
      <4>2. PICK l \in 1 .. Len(x) : PartAt(x, up, l)
        BY <1>7, <3>3
      <4>3. Less(a, up)
        <5>1. PartAt(a, up, l) /\ up \in Seq(Int)
          BY <1>5, <1>7, <3>3, <4>2 DEF IsInteger
        <5>2. Len(a) \in Nat /\ Len(up) \in Nat
          BY <1>2, <5>1
        <5> QED
          BY <5>1, <5>2, PartIsLess
      <4> QED
        BY <1>7, <3>3, <3>4, <4>1, <4>3, IntegerIsKey
    <3>5. CASE ~ Less(up, b)
      <4> DEFINE mid == MidAbove(f)
      <4>1. k = x \o mid
        BY <1>3, <2>2, <3>3, <3>5
      <4>2. IsFraction(mid) /\ mid # <<>> /\ Less(f, mid)
        BY <1>2, MidAboveIs
      <4> HIDE DEF mid
      <4>3. /\ Valid(k) /\ Len(k) = Len(x) + Len(mid) /\ \A j \in 1 .. Len(x) : k[j] = x[j]
        BY <1>1, <4>1, <4>2, Compose
      <4>4. Less(a, k)
        <5>1. mid \in Seq(Int)
          BY <4>2, DigitsAreInts DEF IsFraction
        <5> QED
          BY <1>1, <1>2, <4>1, <4>2, <5>1, PrefixKeepsOrder
      <4>5. PartAt(k, b, i)
        <5>1. Len(mid) \in Nat /\ Len(x) \in Nat
          BY <1>2, <4>2 DEF IsFraction
        <5>2. i \in 1 .. Len(k) /\ \A j \in 1 .. i - 1 : j \in 1 .. Len(x)
          BY <4>3, <5>1
        <5> QED
          BY <3>2, <4>3, <5>2 DEF PartAt
      <4>6. Less(k, b)
        <5>1. Len(k) \in Nat /\ Len(b) \in Nat
          BY <1>2, <4>3 DEF Valid
        <5> QED
          BY <4>5, <5>1, PartIsLess
      <4> QED
        BY <4>3, <4>4, <4>6
    <3> QED
      BY <3>4, <3>5
  <2> QED
    BY <2>1, <2>2
<1> QED
  BY <1>9 DEF k

\* What generateKeyBetween answers to two stored keys, or to one and an open
\* end: a key that goes between them.  The one exception is the smallest
\* integer, handed out in front of its successor and refused ever after.
THEOREM KeyGoesBetween ==
  ASSUME NEW a, a = NoKey \/ Valid(a), NEW b, b = NoKey \/ Valid(b),
         a # NoKey /\ b # NoKey => Less(a, b)
  PROVE  LET k == GenerateKeyBetween(a, b)
         IN  /\ k \in Seq(Int) /\ k # NoKey
             /\ a # NoKey => Less(a, k)
             /\ b # NoKey => Less(k, b)
             /\ \/ Valid(k)
                \/ a = NoKey /\ b = Increment(SmallestInteger) /\ k = SmallestInteger
<1> DEFINE k == GenerateKeyBetween(a, b)
           Answer(c) == /\ c \in Seq(Int) /\ c # NoKey
                        /\ a # NoKey => Less(a, c)
                        /\ b # NoKey => Less(c, b)
                        /\ \/ Valid(c)
                           \/ a = NoKey /\ b = Increment(SmallestInteger) /\ c = SmallestInteger
<1>1. k = IF a = NoKey THEN IF b = NoKey THEN <<0, 0>> ELSE KeyBefore(b)
          ELSE IF b = NoKey THEN KeyAfter(a) ELSE KeyInside(a, b)
  BY DEF GenerateKeyBetween, Valid
<1>2. ASSUME NEW c, Valid(c)
      PROVE  c \in Seq(Int) /\ c # NoKey
  BY <1>2 DEF Valid, IsOrderKey, NoKey
<1> HIDE DEF k
<1>3. Answer(k)
  <2>1. CASE a = NoKey /\ b = NoKey
    <3> DEFINE z == <<0, 0>>
    <3>1. IsInteger(z)
      BY KeyParameters DEF IsInteger, IntegerLength, Digits
    <3>2. z # SmallestInteger
      <4>1. z[1] = 0 /\ SmallestInteger[1] = -Heads /\ -Heads # 0
        BY SmallestIs, KeyParameters
      <4> QED
        BY <4>1
    <3>3. k = z
      BY <1>1, <2>1
    <3> HIDE DEF z
    <3> QED
      BY <1>2, <2>1, <3>1, <3>2, <3>3, IntegerIsKey
  <2>2. CASE a = NoKey /\ b # NoKey
    BY <1>1, <2>2, KeyBeforeIs
  <2>3. CASE a # NoKey /\ b = NoKey
    BY <1>1, <1>2, <2>3, KeyAfterIs
  <2>4. CASE a # NoKey /\ b # NoKey
    BY <1>1, <1>2, <2>4, KeyInsideIs
  <2> QED
    BY <2>1, <2>2, <2>3, <2>4
<1> QED
  BY <1>3 DEF k

\* What ClientsTable assumes of ranks (OrderAssumption, KeyAssumption) holds of
\* the keys of rank.ts, of which there is no end: their order is a strict total
\* order, and when generateKeyBetween answers with a key, this lies in the gap.
THEOREM KeysServeAsRanks ==
  LET Rank == {k \in Seq(Int) : IsOrderKey(k)}
  IN  /\ NoKey \notin Rank
      /\ \A j, k \in Rank : j # k => Less(j, k) \/ Less(k, j)
      /\ \A j, k \in Rank : Less(j, k) => ~ Less(k, j)
      /\ \A i, j, k \in Rank : Less(i, j) /\ Less(j, k) => Less(i, k)
      /\ \A j, k \in Rank \cup {NoKey} :
           GenerateKeyBetween(j, k) \in Rank =>
              /\ j # NoKey => Less(j, GenerateKeyBetween(j, k))
              /\ k # NoKey => Less(GenerateKeyBetween(j, k), k)
<1> DEFINE Rank == {k \in Seq(Int) : IsOrderKey(k)}
<1>1. NoKey \notin Rank
  BY DEF NoKey, IsOrderKey
<1>2. Rank \subseteq Seq(Int) /\ \A k \in Rank : Valid(k)
  BY DEF Valid
<1>3. \A j, k \in Rank : j # k => Less(j, k) \/ Less(k, j)
  BY <1>2, LessIsTotal
<1>4. \A i, j, k \in Rank : Less(i, j) /\ Less(j, k) => Less(i, k)
  BY <1>2, LessIsTransitive
<1>5. \A j, k \in Rank : Less(j, k) => ~ Less(k, j)
  BY <1>2, <1>4, LessIsStrict
<1>6. ASSUME NEW j \in Rank \cup {NoKey}, NEW k \in Rank \cup {NoKey},
             GenerateKeyBetween(j, k) \in Rank
      PROVE  /\ j # NoKey => Less(j, GenerateKeyBetween(j, k))
             /\ k # NoKey => Less(GenerateKeyBetween(j, k), k)
  <2>1. (j = NoKey \/ Valid(j)) /\ (k = NoKey \/ Valid(k))
    BY <1>2
  <2>2. j # NoKey /\ k # NoKey => Less(j, k)
    BY <1>1, <1>6 DEF GenerateKeyBetween
  <2> QED
    BY <2>1, <2>2, KeyGoesBetween
<1> QED
  BY <1>1, <1>3, <1>4, <1>5, <1>6

-----------------------------------------------------------------------------
(* The integers in front of a key.                                         *)

LEMMA WordsAreFinite ==
  ASSUME NEW D, IsFiniteSet(D), NEW n \in Nat
  PROVE  IsFiniteSet([1 .. n -> D])
<1> DEFINE W(m) == [1 .. m -> D]
           P == {m \in Nat : IsFiniteSet(W(m))}
<1>1. 0 \in P
  <2> DEFINE e == [i \in 1 .. 0 |-> 0]
  <2>1. W(0) \in SUBSET {e}
    OBVIOUS
  <2>2. IsFiniteSet({e})
    BY FS_Singleton
  <2>3. IsFiniteSet(W(0))
    BY ONLY <2>1, <2>2, FS_Subset
  <2> QED
    BY <2>3
<1>2. ASSUME NEW m \in Nat, IsFiniteSet(W(m))
      PROVE  IsFiniteSet(W(m + 1))
  <2> DEFINE S == W(m) \X D
             add == [p \in S |-> [i \in 1 .. m + 1 |-> IF i = m + 1 THEN p[2] ELSE p[1][i]]]
  <2>1. IsFiniteSet(S)
    BY <1>2, FS_Product
  <2>2. add \in [S -> W(m + 1)]
    <3> SUFFICES ASSUME NEW p \in S, NEW i \in 1 .. m + 1
                 PROVE  (IF i = m + 1 THEN p[2] ELSE p[1][i]) \in D
      OBVIOUS
    <3>1. p[1] \in W(m) /\ p[2] \in D /\ (i # m + 1 => i \in 1 .. m)
      OBVIOUS
    <3> QED
      BY <3>1
  <2>3. ASSUME NEW w \in W(m + 1) PROVE \E p \in S : add[p] = w
    <3> DEFINE p == <<[i \in 1 .. m |-> w[i]], w[m + 1]>>
    <3>1. /\ \A i \in 1 .. m : w[i] \in D
          /\ w[m + 1] \in D
      OBVIOUS
    <3>2. p \in S
      BY <3>1
    <3>3. \A i \in 1 .. m + 1 : i = m + 1 \/ i \in 1 .. m
      OBVIOUS
    <3>4. [i \in 1 .. m + 1 |-> IF i = m + 1 THEN p[2] ELSE p[1][i]] = [i \in 1 .. m + 1 |-> w[i]]
      BY <3>3
    <3>5. add[p] = [i \in 1 .. m + 1 |-> w[i]]
      BY <3>2, <3>4
    <3> QED
      BY <3>2, <3>5
  <2>4. add \in Surjection(S, W(m + 1))
    <3> HIDE DEF add, S, W
    <3> QED
      BY <2>2, <2>3 DEF Surjection
  <2> HIDE DEF add, S, W
  <2> QED
    BY <2>1, <2>4, FS_Surjection
<1>3. ASSUME NEW m \in Nat, \A l \in 0 .. m - 1 : l \in P PROVE m \in P
  <2>1. CASE m = 0
    BY <1>1, <2>1
  <2>2. CASE m # 0
    <3>1. PICK l \in 0 .. m - 1 : m = l + 1
      BY <2>2
    <3>2. l \in Nat /\ IsFiniteSet(W(l))
      BY <1>3
    <3> HIDE DEF W
    <3>3. IsFiniteSet(W(m))
      BY <1>2, <3>1, <3>2
    <3> QED
      BY <3>3
  <2> QED
    BY <2>1, <2>2
<1>4. P = Nat
  <2> HIDE DEF P
  <2>1. P \subseteq Nat
    BY DEF P
  <2> QED
    BY <1>3, <2>1, EveryNumber
<1> QED
  BY <1>4

LEMMA IntegersAreFinite == IsFiniteSet(AllIntegers)
<1> DEFINE H == -Heads .. Heads - 1
           W(h) == [1 .. IntegerLength(h) - 1 -> Digits]
           X(h) == {<<h>> \o ds : ds \in W(h)}
           F == {X(h) : h \in H}
<1>1. IsFiniteSet(H)
  <2>1. -Heads \in Int /\ Heads - 1 \in Int
    BY KeyParameters
  <2> QED
    BY <2>1, FS_Interval
<1>2. IsFiniteSet(Digits)
  <2>1. 0 \in Int /\ Base - 1 \in Int
    BY KeyParameters
  <2> QED
    BY <2>1, FS_Interval DEF Digits
<1>3. ASSUME NEW h \in H PROVE IsFiniteSet(X(h))
  <2>1. IntegerLength(h) - 1 \in Nat
    BY HeadLengths
  <2>2. IsFiniteSet(W(h))
    BY <1>2, <2>1, WordsAreFinite
  <2> DEFINE g == [ds \in W(h) |-> <<h>> \o ds]
  <2> HIDE DEF W
  <2>3. g \in Surjection(W(h), X(h))
    BY DEF Surjection
  <2> HIDE DEF g, X
  <2> QED
    BY <2>2, <2>3, FS_Surjection
<1>4. IsFiniteSet(F)
  <2> DEFINE g == [h \in H |-> X(h)]
  <2> HIDE DEF X, H
  <2>1. g \in Surjection(H, F)
    BY DEF Surjection
  <2> HIDE DEF g, F
  <2> QED
    BY <1>1, <2>1, FS_Surjection
<1>5. AllIntegers = UNION F
  BY Zenon DEF AllIntegers
<1> HIDE DEF X, H
<1>6. \A T \in F : IsFiniteSet(T)
  BY <1>3
<1> HIDE DEF F
<1> QED
  BY <1>4, <1>5, <1>6, FS_UNION

LEMMA AllAreIntegers ==
  ASSUME NEW x \in AllIntegers
  PROVE  IsInteger(x)
<1>1. PICK h \in -Heads .. Heads - 1 :
          \E ds \in [1 .. IntegerLength(h) - 1 -> Digits] : x = <<h>> \o ds
  BY DEF AllIntegers
<1>0. PICK ds \in [1 .. IntegerLength(h) - 1 -> Digits] : x = <<h>> \o ds
  BY <1>1
<1> DEFINE n == IntegerLength(h)
<1>2. h \in Int /\ n \in Nat /\ n >= 2
  BY HeadLengths
<1> HIDE DEF n
<1>3. \A i \in 1 .. n - 1 : ds[i] \in Digits /\ ds[i] \in Int
  <2>1. \A i \in 1 .. n - 1 : ds[i] \in Digits
    BY <1>0 DEF n
  <2>2. \A d \in Digits : d \in Int
    BY KeyParameters DEF Digits
  <2> QED
    BY <2>1, <2>2
<1>4. ds \in Seq(Int) /\ Len(ds) = n - 1
  BY <1>0, <1>2, <1>3 DEF n
<1>5. /\ x \in Seq(Int) /\ Len(x) = n /\ x[1] = h
      /\ \A i \in 2 .. n : x[i] = ds[i - 1]
  <2>1. <<h>> \in Seq(Int) /\ Len(<<h>>) = 1 /\ <<h>>[1] = h
    BY <1>2
  <2> QED
    BY <1>0, <1>2, <1>4, <2>1, ConcatProperties
<1>6. \A i \in 2 .. n : i - 1 \in 1 .. n - 1
  BY <1>2
<1>7. x # <<>>
  BY <1>2, <1>5
<1> QED
  BY <1>3, <1>5, <1>6, <1>7 DEF IsInteger, n

Ahead(k) == {x \in AllIntegers : Less(x, k)}

LEMMA IntegerEntries ==
  ASSUME NEW x, IsInteger(x)
  PROVE  /\ Len(x) \in Nat
         /\ \A j \in 1 .. Len(x) : x[j] \in Int
         /\ \A j \in 2 .. Len(x) : x[j] >= 0 /\ x[j] <= Base - 1
<1>1. x \in Seq(Int) /\ \A j \in 2 .. Len(x) : x[j] \in Digits
  BY DEF IsInteger
<1>2. \A d \in Digits : d >= 0 /\ d <= Base - 1
  BY KeyParameters DEF Digits
<1> QED
  BY <1>1, <1>2

LEMMA IntegersDiffer ==
  ASSUME NEW x, NEW y, IsInteger(x), IsInteger(y), Less(x, y)
  PROVE  \E i \in 1 .. Len(x) : PartAt(x, y, i)
<1>1. /\ Len(x) \in Nat /\ Len(x) >= 2 /\ Len(x) = IntegerLength(x[1])
      /\ Len(y) \in Nat /\ Len(y) = IntegerLength(y[1])
  BY HeadLengths DEF IsInteger
<1>2. PICK i \in 1 .. Len(y) : /\ i <= Len(x) + 1
                               /\ \A j \in 1 .. i - 1 : x[j] = y[j]
                               /\ i <= Len(x) => x[i] < y[i]
  BY DEF Less
<1> DEFINE m == Len(x)
           n == Len(y)
<1> HIDE DEF m, n
<1>3. i <= m
  <2> SUFFICES ASSUME ~ (i <= m) PROVE FALSE
    OBVIOUS
  <2>1. m \in Nat /\ m >= 2 /\ n \in Nat /\ i \in 1 .. n
    BY <1>1, <1>2 DEF m, n
  <2>2. 1 \in 1 .. i - 1 /\ n > m
    BY <2>1
  <2>3. x[1] = y[1]
    BY <1>2, <2>2
  <2>4. m = n
    BY <1>1, <2>3 DEF m, n
  <2> QED
    BY <2>1, <2>2, <2>4
<1>4. i \in 1 .. m
  BY <1>1, <1>2, <1>3 DEF m, n
<1> QED
  BY <1>2, <1>3, <1>4 DEF PartAt, m

\* The next integer down is the next: none lies between.
LEMMA NothingBetween ==
  ASSUME NEW x, IsInteger(x), x # SmallestInteger, NEW y, IsInteger(y), Less(y, x)
  PROVE  y = Decrement(x) \/ Less(y, Decrement(x))
<1> DEFINE d == Decrement(x)
<1>1. IsInteger(d) /\ \E i \in 1 .. Len(x) : BorrowsAt(d, x, i)
  BY DecrementIs
<1> HIDE DEF d
<1> SUFFICES ASSUME Less(d, y) PROVE FALSE
  BY <1>1, LessIsTotal DEF IsInteger, d
<1>2. PICK i \in 1 .. Len(x) : BorrowsAt(d, x, i)
  BY <1>1
<1>3. PICK q \in 1 .. Len(d) : PartAt(d, y, q)
  BY <1>1, IntegersDiffer
<1>4. PICK p \in 1 .. Len(y) : PartAt(y, x, p)
  BY IntegersDiffer
<1>5. /\ Len(x) \in Nat /\ Len(y) \in Nat /\ Len(d) \in Nat
      /\ \A j \in 1 .. Len(x) : x[j] \in Int
      /\ \A j \in 1 .. Len(y) : y[j] \in Int
      /\ \A j \in 1 .. Len(d) : d[j] \in Int
  BY <1>1, IntegerEntries
<1>6. /\ i \in Nat /\ q \in Nat /\ p \in Nat /\ i >= 1 /\ p >= 1 /\ q >= 1
      /\ i <= Len(x) /\ i <= Len(d) /\ q <= Len(d) /\ q <= Len(y) /\ p <= Len(y) /\ p <= Len(x)
  BY <1>2, <1>3, <1>4, <1>5 DEF PartAt, BorrowsAt
<1>7. /\ \A j \in 1 .. i - 1 : d[j] = x[j]
      /\ d[i] = x[i] - 1
      /\ \A j \in i + 1 .. Len(x) : x[j] = 0
      /\ \A j \in i + 1 .. Len(d) : d[j] = Base - 1
  BY <1>2 DEF BorrowsAt, PartAt
<1>8. (\A j \in 1 .. q - 1 : d[j] = y[j]) /\ d[q] < y[q]
  BY <1>3 DEF PartAt
<1>9. (\A j \in 1 .. p - 1 : y[j] = x[j]) /\ y[p] < x[p]
  BY <1>4 DEF PartAt
<1>10. \A j \in 2 .. Len(y) : y[j] >= 0 /\ y[j] <= Base - 1
  BY IntegerEntries
<1>11. CASE q > i
  <2>1. q \in i + 1 .. Len(d) /\ q \in 2 .. Len(y) /\ q \in 1 .. Len(d)
    BY <1>5, <1>6, <1>11
  <2>2. d[q] = Base - 1 /\ y[q] <= Base - 1 /\ y[q] \in Int
    BY <1>5, <1>7, <1>10, <2>1
  <2> QED
    BY <1>8, <2>2, KeyParameters
<1>12. CASE p > i
  <2>1. p \in i + 1 .. Len(x) /\ p \in 2 .. Len(y)
    BY <1>5, <1>6, <1>12
  <2>2. x[p] = 0 /\ y[p] >= 0 /\ y[p] \in Int
    BY <1>5, <1>7, <1>10, <2>1
  <2> QED
    BY <1>9, <2>2
<1>13. CASE q <= i /\ p < q
  <2>1. p \in 1 .. q - 1 /\ p \in 1 .. i - 1 /\ p \in 1 .. Len(y)
    BY <1>6, <1>13
  <2>2. d[p] = y[p] /\ d[p] = x[p] /\ y[p] \in Int
    BY <1>5, <1>7, <1>8, <2>1
  <2> QED
    BY <1>9, <2>2
<1>14. CASE q < i /\ q < p
  <2>1. q \in 1 .. p - 1 /\ q \in 1 .. i - 1 /\ q \in 1 .. Len(y)
    BY <1>6, <1>14
  <2>2. y[q] = x[q] /\ d[q] = x[q] /\ y[q] \in Int
    BY <1>5, <1>7, <1>9, <2>1
  <2> QED
    BY <1>8, <2>2
<1>15. CASE p = q /\ q <= i
  <2>1. q \in 1 .. Len(x) /\ q \in 1 .. Len(y) /\ q \in 1 .. Len(d)
    BY <1>3, <1>4, <1>15 DEF PartAt
  <2>2. d[q] = x[q] \/ d[q] = x[q] - 1
    BY <1>6, <1>7, <1>15
  <2>3. d[q] < y[q] /\ y[q] < x[q] /\ x[q] \in Int /\ y[q] \in Int /\ d[q] \in Int
    BY <1>5, <1>8, <1>9, <1>15, <2>1
  <2> QED
    BY <2>2, <2>3
<1> QED
  BY <1>6, <1>11, <1>12, <1>13, <1>14, <1>15

\* Going down by one key uses up one integer.
LEMMA OneIntegerLess ==
  ASSUME NEW b, Valid(b)
  PROVE  \E z : Ahead(b) \subseteq Ahead(KeyBefore(b)) \cup {z}
<1> DEFINE x == IntegerPart(b)
           f == Fraction(b)
           k == KeyBefore(b)
<1>1. /\ IsInteger(x) /\ x \in Seq(Int) /\ b \in Seq(Int) /\ k \in Seq(Int)
      /\ IsFraction(f) /\ b = x \o f
  BY Parts, KeyBeforeIs DEF IsInteger, Valid
<1>2. k = IF x = SmallestInteger THEN x \o MidBetween(<<>>, f)
          ELSE IF Less(x, b) THEN x ELSE Decrement(x)
  BY DEF KeyBefore
<1>3. ASSUME NEW y, IsInteger(y), Less(y, b) PROVE y = x \/ Less(y, x)
  <2> SUFFICES ASSUME Less(x, y) PROVE FALSE
    <3> HIDE DEF x
    <3> QED
      BY <1>1, <1>3, LessIsTotal DEF IsInteger
  <2>1. PICK i \in 1 .. Len(x) : PartAt(x, y, i)
    <3> HIDE DEF x
    <3> QED
      BY <1>1, <1>3, IntegersDiffer
  <2>2. PartAt(b, y, i)
    BY <2>1, IntegerDecides
  <2>3. y \in Seq(Int)
    BY <1>3 DEF IsInteger
  <2>4. Less(b, y)
    <3>1. Len(b) \in Nat /\ Len(y) \in Nat
      BY <1>1, <2>3
    <3> QED
      BY <2>2, <3>1, PartIsLess
  <2>5. Less(b, b)
    BY ONLY <1>1, <1>3, <2>3, <2>4, LessIsTransitive
  <2> QED
    BY <1>1, <2>5, LessIsStrict
<1> HIDE DEF k
<1>4. CASE x = SmallestInteger
  <2>1. k = x \o MidBetween(<<>>, f)
    BY <1>2, <1>4
  <2>2. f # <<>>
    <3>1. b # SmallestInteger
      BY DEF Valid, IsOrderKey
    <3>2. f = <<>> => x \o f = x
      BY <1>1
    <3> QED
      BY <1>1, <1>4, <3>1, <3>2
  <2>3. Less(x, k)
    <3>1. MidBetween(<<>>, f) \in Seq(Int) /\ MidBetween(<<>>, f) # <<>>
      <4> DEFINE e == <<>>
      <4>1. e \in Seq(Digits) /\ e \in Seq(Int) /\ ~ EndsInZero(e) /\ Len(e) = 0
        BY DEF EndsInZero
      <4>2. f \in Seq(Digits) /\ f \in Seq(Int) /\ ~ EndsInZero(f)
        BY <1>1, DigitsAreInts DEF IsFraction
      <4>3. Less(e, f)
        <5>1. Len(e) < Len(f) /\ \A j \in 1 .. Len(e) : e[j] = f[j]
          BY <2>2, <4>1, <4>2
        <5> QED
          BY <4>1, <4>2, <5>1, ExtensionIsMore
      <4> HIDE DEF e, f
      <4>4. IsFraction(MidBetween(e, f)) /\ MidBetween(e, f) # <<>>
        BY <4>1, <4>2, <4>3, MidBetweenIs DEF IsFraction
      <4> QED
        BY <4>4, DigitsAreInts DEF IsFraction, e
    <3> DEFINE m == MidBetween(<<>>, f)
    <3> HIDE DEF m, x
    <3>2. m \in Seq(Int) /\ m # <<>> /\ k = x \o m
      BY <2>1, <3>1 DEF m
    <3>3. Len(x) < Len(k) /\ \A j \in 1 .. Len(x) : x[j] = k[j]
      BY <1>1, <3>2
    <3> QED
      BY <1>1, <3>3, ExtensionIsMore
  <2>4. ASSUME NEW y \in Ahead(b) PROVE y \in Ahead(k) \cup {x}
    <3>1. IsInteger(y) /\ Less(y, b) /\ y \in Seq(Int) /\ y \in AllIntegers
      BY <2>4, AllAreIntegers DEF Ahead, IsInteger
    <3> HIDE DEF x
    <3> QED
      BY <1>1, <1>3, <2>3, <3>1, LessIsTransitive DEF Ahead
  <2> QED
    BY <2>4 DEF k
<1>5. CASE x # SmallestInteger /\ Less(x, b)
  <2>1. k = x
    BY <1>2, <1>5
  <2>2. ASSUME NEW y \in Ahead(b) PROVE y \in Ahead(k) \cup {x}
    <3>1. IsInteger(y) /\ Less(y, b) /\ y \in AllIntegers
      BY <2>2, AllAreIntegers DEF Ahead
    <3> HIDE DEF x
    <3> QED
      BY <1>3, <2>1, <3>1 DEF Ahead
  <2> QED
    BY <2>2 DEF k
<1>6. CASE x # SmallestInteger /\ ~ Less(x, b)
  <2>1. k = Decrement(x)
    BY <1>2, <1>6
  <2>2. ASSUME NEW y \in Ahead(b) PROVE y \in Ahead(k) \cup {k}
    <3>1. IsInteger(y) /\ Less(y, b) /\ y \in AllIntegers
      BY <2>2, AllAreIntegers DEF Ahead
    <3> HIDE DEF x
    <3>2. Less(y, x)
      BY <1>3, <1>6, <3>1
    <3>3. y = k \/ Less(y, k)
      BY <1>1, <1>6, <2>1, <3>1, <3>2, NothingBetween
    <3> QED
      BY <3>1, <3>3 DEF Ahead
  <2> QED
    BY <2>2 DEF k
<1> QED
  BY <1>4, <1>5, <1>6

LEMMA RoomIs ==
  ASSUME NEW k
  PROVE  IsFiniteSet(Ahead(k)) /\ Room(k) = Cardinality(Ahead(k)) /\ Room(k) \in Nat
<1>1. Ahead(k) \subseteq AllIntegers
  BY DEF Ahead
<1>2. IsFiniteSet(Ahead(k))
  BY <1>1, IntegersAreFinite, FS_Subset
<1>3. Room(k) = Cardinality(Ahead(k))
  BY DEF Room, Ahead
<1> QED
  BY <1>2, <1>3, FS_CardinalityType

\* A key further up has as much room in front of it.
LEMMA RoomGrows ==
  ASSUME NEW a \in Seq(Int), NEW b \in Seq(Int), Less(a, b)
  PROVE  Room(a) <= Room(b)
<1>1. ASSUME NEW y \in Ahead(a) PROVE y \in Ahead(b)
  <2>1. y \in AllIntegers /\ y \in Seq(Int) /\ Less(y, a)
    BY AllAreIntegers DEF Ahead, IsInteger
  <2> QED
    BY <2>1, LessIsTransitive DEF Ahead
<1>2. Ahead(a) \in SUBSET Ahead(b)
  BY <1>1
<1> QED
  BY <1>2, RoomIs, FS_Subset

\* A key put in front has room for one integer less at most.
LEMMA RoomShrinks ==
  ASSUME NEW b, Valid(b)
  PROVE  Room(b) <= Room(KeyBefore(b)) + 1
<1> DEFINE k == KeyBefore(b)
<1>1. PICK z : Ahead(b) \subseteq Ahead(k) \cup {z}
  BY OneIntegerLess
<1> HIDE DEF k
<1>2. IsFiniteSet(Ahead(k) \cup {z}) /\ Cardinality(Ahead(k) \cup {z}) <= Room(k) + 1
  BY RoomIs, FS_AddElement
<1>3. Cardinality(Ahead(b)) <= Cardinality(Ahead(k) \cup {z})
  BY <1>1, <1>2, FS_Subset
<1>4. Cardinality(Ahead(k) \cup {z}) \in Nat
  BY <1>2, FS_CardinalityType
<1> QED
  BY <1>2, <1>3, <1>4, RoomIs DEF k

LEMMA NoRoomAtFloor == Room(SmallestInteger) = 0
<1>1. ASSUME NEW y \in Ahead(SmallestInteger) PROVE FALSE
  <2> DEFINE s == SmallestInteger
  <2>1. /\ IsInteger(y) /\ IsInteger(s) /\ Less(y, s)
        /\ s[1] = -Heads /\ \A i \in 2 .. Len(s) : s[i] = 0
    BY AllAreIntegers, SmallestIs DEF Ahead
  <2> HIDE DEF s
  <2>2. PICK p \in 1 .. Len(y) : PartAt(y, s, p)
    BY <2>1, IntegersDiffer
  <2>3. p \in 1 .. Len(s) /\ y[p] < s[p] /\ Len(y) \in Nat /\ Len(s) \in Nat
    BY <2>1, <2>2 DEF PartAt, IsInteger
  <2>4. CASE p = 1
    BY <2>1, <2>3, <2>4, KeyParameters DEF IsInteger
  <2>5. CASE p # 1
    <3>1. p \in 2 .. Len(y) /\ p \in 2 .. Len(s)
      BY <2>3, <2>5
    <3>2. y[p] \in Digits /\ s[p] = 0
      BY <2>1, <3>1 DEF IsInteger
    <3> QED
      BY <2>3, <3>2, KeyParameters DEF Digits
  <2> QED
    BY <2>4, <2>5
<1>2. Ahead(SmallestInteger) = {}
  BY <1>1
<1> QED
  BY <1>2, RoomIs, FS_EmptySet

-----------------------------------------------------------------------------
(* generateNKeysBetween: its definition defines it, and its keys fit.      *)

Gaps == Seq(Int) \X Seq(Int)
Lists == [Gaps -> Seq(Seq(Int))]

\* The keys for one gap, when f has the keys for fewer cards.
Keys(f, n, a, b) ==
  LET c   == GenerateKeyBetween(a, b)
      mid == n \div 2
  IN  IF n = 0 \/ c = NoKey THEN <<>>
      ELSE IF n = 1 THEN <<c>>
      ELSE IF b = NoKey THEN <<c>> \o f[n - 1][<<c, b>>]
      ELSE IF a = NoKey THEN f[n - 1][<<a, c>>] \o <<c>>
      ELSE f[mid][<<a, c>>] \o <<c>> \o f[n - mid - 1][<<c, b>>]

Bulk(f) == f = [n \in Nat |-> [gap \in Gaps |-> Keys(f, n, gap[1], gap[2])]]

LEMMA AnswerIsSeq ==
  ASSUME NEW a \in Seq(Int), NEW b \in Seq(Int)
  PROVE  GenerateKeyBetween(a, b) \in Seq(Int)
<1>1. CASE /\ a = NoKey \/ Valid(a)
           /\ b = NoKey \/ Valid(b)
           /\ a # NoKey /\ b # NoKey => Less(a, b)
  BY <1>1, KeyGoesBetween
<1>2. CASE ~ (/\ a = NoKey \/ Valid(a)
              /\ b = NoKey \/ Valid(b)
              /\ a # NoKey /\ b # NoKey => Less(a, b))
  <2>1. GenerateKeyBetween(a, b) = NoKey
    BY <1>2 DEF GenerateKeyBetween, Valid
  <2> QED
    BY <2>1 DEF NoKey
<1> QED
  BY <1>1, <1>2

\* The halves are smaller than the whole.
LEMMA HalvesAreLess ==
  ASSUME NEW n \in Nat, n # 0, n # 1
  PROVE  /\ n - 1 \in 0 .. n - 1 /\ n \div 2 \in 0 .. n - 1 /\ n - n \div 2 - 1 \in 0 .. n - 1
         /\ n \div 2 + 1 + (n - n \div 2 - 1) = n
OBVIOUS

LEMMA KeysAreList ==
  ASSUME NEW f \in [Nat -> Lists], NEW n \in Nat, NEW a \in Seq(Int), NEW b \in Seq(Int)
  PROVE  Keys(f, n, a, b) \in Seq(Seq(Int))
<1> DEFINE c == GenerateKeyBetween(a, b)
<1>1. c \in Seq(Int)
  BY AnswerIsSeq
<1> HIDE DEF c
<1>2. \A m \in Nat : \A x, y \in Seq(Int) : f[m][<<x, y>>] \in Seq(Seq(Int))
  BY DEF Lists, Gaps
<1>3. <<c>> \in Seq(Seq(Int)) /\ <<>> \in Seq(Seq(Int))
  BY <1>1
<1>4. \A s, t \in Seq(Seq(Int)) : s \o t \in Seq(Seq(Int))
  OBVIOUS
<1>5. CASE n = 0 \/ n = 1
  BY <1>3, <1>5 DEF Keys, c
<1>6. CASE n # 0 /\ n # 1
  <2> DEFINE mid == n \div 2
  <2>1. n - 1 \in Nat /\ mid \in Nat /\ n - mid - 1 \in Nat
    BY <1>6, HalvesAreLess
  <2> HIDE DEF mid
  <2>2. /\ <<c>> \o f[n - 1][<<c, b>>] \in Seq(Seq(Int))
        /\ f[n - 1][<<a, c>>] \o <<c>> \in Seq(Seq(Int))
        /\ f[mid][<<a, c>>] \o <<c>> \o f[n - mid - 1][<<c, b>>] \in Seq(Seq(Int))
    BY ONLY <1>1, <1>2, <1>3, <1>4, <2>1, a \in Seq(Int), b \in Seq(Int)
  <2> QED
    BY <1>3, <1>6, <2>2, Zenon DEF Keys, c, mid
<1> QED
  BY <1>5, <1>6

LEMMA KeysFromFewer ==
  ASSUME NEW f, NEW g, NEW n \in Nat, \A m \in 0 .. n - 1 : f[m] = g[m], NEW a, NEW b
  PROVE  Keys(f, n, a, b) = Keys(g, n, a, b)
<1>1. CASE n = 0 \/ n = 1
  BY <1>1 DEF Keys
<1>2. CASE n # 0 /\ n # 1
  <2>1. f[n - 1] = g[n - 1] /\ f[n \div 2] = g[n \div 2] /\ f[n - n \div 2 - 1] = g[n - n \div 2 - 1]
    BY <1>2, HalvesAreLess
  <2> QED
    BY <2>1, Zenon DEF Keys
<1> QED
  BY <1>1, <1>2

\* The definition of generateNKeysBetween defines it.
LEMMA BulkIsDefined == Bulk(GenerateNKeysBetween)
<1> DEFINE F == [Nat -> Lists]
           step == [n \in Nat |-> [f \in F |-> [gap \in Gaps |-> Keys(f, n, gap[1], gap[2])]]]
           none == [gap \in Gaps |-> <<>>]
<1>1. \A gap \in Gaps : gap[1] \in Seq(Int) /\ gap[2] \in Seq(Int)
  BY DEF Gaps
<1>2. \A n \in Nat : \A f \in F : [gap \in Gaps |-> Keys(f, n, gap[1], gap[2])] \in Lists
  BY <1>1, KeysAreList DEF Lists
<1>3. step \in [Nat -> [F -> Lists]]
  BY <1>2
<1>4. none \in Lists
  BY DEF Lists
<1>5. \A n \in Nat : \A f, g \in F :
         (\A m \in 0 .. n - 1 : f[m] = g[m]) => step[n][f] = step[n][g]
  BY KeysFromFewer
<1>6. PICK f \in F : \A n \in Nat : f[n] = step[n][f]
  <2> HIDE DEF step, none
  <2>1. step \in Recursions(Lists)
    BY <1>3, <1>5 DEF Recursions
  <2>2. Solutions(Lists, step) # {}
    BY <1>4, <2>1, RecursionDefines
  <2> QED
    BY <2>2 DEF Solutions
<1>7. \A n \in Nat : f[n] = [gap \in Gaps |-> Keys(f, n, gap[1], gap[2])]
  BY <1>6
<1>8. Bulk(f)
  BY <1>7 DEF Bulk
<1>9. GenerateNKeysBetween = CHOOSE g : Bulk(g)
  BY Zenon DEF GenerateNKeysBetween, Bulk, Keys, Gaps
<1> QED
  BY <1>8, <1>9

LEMMA BulkIs ==
  ASSUME NEW n \in Nat, NEW a \in Seq(Int), NEW b \in Seq(Int)
  PROVE  GenerateNKeysBetween[n][<<a, b>>] = Keys(GenerateNKeysBetween, n, a, b)
<1>1. <<a, b>> \in Gaps /\ <<a, b>>[1] = a /\ <<a, b>>[2] = b
  BY DEF Gaps
<1> DEFINE g == GenerateNKeysBetween
<1>2. Bulk(g)
  BY BulkIsDefined
<1> HIDE DEF g
<1>3. g[n] = [gap \in Gaps |-> Keys(g, n, gap[1], gap[2])]
  BY <1>2 DEF Bulk
<1> QED
  BY <1>1, <1>3 DEF g

\* Bounds that n keys fit between.
Opens(n, a, b) ==
  /\ a = NoKey \/ Valid(a)
  /\ b = NoKey \/ Valid(b)
  /\ a # NoKey /\ b # NoKey => Less(a, b)
  /\ a = NoKey /\ b # NoKey => n < Room(b)

Inside(a, k, b) == (a # NoKey => Less(a, k)) /\ (b # NoKey => Less(k, b))

\* The keys ks are n keys in order between a and b.
Fits(n, a, b, ks) ==
  /\ ks \in Seq(Seq(Int)) /\ Len(ks) = n
  /\ \A j \in 1 .. n : Valid(ks[j]) /\ Inside(a, ks[j], b)
  /\ \A i, j \in 1 .. n : i < j => Less(ks[i], ks[j])

LEMMA ValidIs ==
  ASSUME NEW k, Valid(k)
  PROVE  k \in Seq(Int) /\ k # NoKey
BY DEF Valid, IsOrderKey, NoKey

LEMMA BoundsAre ==
  ASSUME NEW n, NEW a, NEW b, Opens(n, a, b)
  PROVE  a \in Seq(Int) /\ b \in Seq(Int)
<1>1. NoKey \in Seq(Int)
  BY DEF NoKey
<1>2. (a = NoKey \/ Valid(a)) /\ (b = NoKey \/ Valid(b))
  BY DEF Opens
<1> QED
  BY <1>1, <1>2, ValidIs

\* The first key for a gap that n keys fit into.
LEMMA MiddleKey ==
  ASSUME NEW n \in Nat, n # 0, NEW a, NEW b, Opens(n, a, b)
  PROVE  LET c == GenerateKeyBetween(a, b)
         IN  /\ Valid(c) /\ Inside(a, c, b) /\ a \in Seq(Int) /\ b \in Seq(Int)
             /\ a = NoKey /\ b # NoKey => n - 1 < Room(c)
<1> DEFINE c == GenerateKeyBetween(a, b)
<1>1. a \in Seq(Int) /\ b \in Seq(Int)
  BY BoundsAre
<1>2. /\ Inside(a, c, b)
      /\ \/ Valid(c)
         \/ a = NoKey /\ b = Increment(SmallestInteger) /\ c = SmallestInteger
  BY KeyGoesBetween DEF Opens, Inside
<1>3. ASSUME a = NoKey, b # NoKey PROVE n - 1 < Room(c)
  <2>1. c = KeyBefore(b) /\ Valid(b) /\ n < Room(b)
    BY <1>3 DEF GenerateKeyBetween, Opens, Valid
  <2> HIDE DEF c
  <2>2. Room(b) <= Room(c) + 1 /\ Room(b) \in Nat /\ Room(c) \in Nat
    BY <2>1, RoomShrinks, RoomIs
  <2> QED
    BY <2>1, <2>2
<1> HIDE DEF c
<1>4. Valid(c)
  <2> SUFFICES ASSUME a = NoKey, b = Increment(SmallestInteger), c = SmallestInteger PROVE FALSE
    BY <1>2
  <2>1. Increment(SmallestInteger) # NoKey
    BY SmallestUp, SmallestIs DEF NoKey
  <2> QED
    BY <1>3, <2>1, NoRoomAtFloor
<1> QED
  BY <1>1, <1>2, <1>3, <1>4 DEF c

\* Keys in front of a key, this key and keys behind it.
LEMMA FitsTogether ==
  ASSUME NEW m \in Nat, NEW n \in Nat, NEW a \in Seq(Int), NEW b \in Seq(Int), NEW c,
         Valid(c), Inside(a, c, b), NEW s, NEW t, Fits(m, a, c, s), Fits(n, c, b, t)
  PROVE  Fits(m + 1 + n, a, b, s \o <<c>> \o t)
<1> DEFINE k == m + 1 + n
           ks == s \o <<c>> \o t
<1>1. /\ s \in Seq(Seq(Int)) /\ Len(s) = m /\ t \in Seq(Seq(Int)) /\ Len(t) = n
      /\ c \in Seq(Int) /\ c # NoKey
  BY ValidIs DEF Fits
<1>2. /\ ks \in Seq(Seq(Int)) /\ Len(ks) = k
      /\ \A j \in 1 .. m : ks[j] = s[j]
      /\ ks[m + 1] = c
      /\ \A j \in m + 2 .. k : ks[j] = t[j - (m + 1)]
  <2> DEFINE u == s \o <<c>>
  <2>1. /\ u \in Seq(Seq(Int)) /\ Len(u) = m + 1
        /\ \A j \in 1 .. m : u[j] = s[j]
        /\ u[m + 1] = c
    BY <1>1
  <2> HIDE DEF u
  <2>2. /\ u \o t \in Seq(Seq(Int)) /\ Len(u \o t) = m + 1 + n
        /\ \A j \in 1 .. m + 1 : (u \o t)[j] = u[j]
        /\ \A j \in m + 2 .. m + 1 + n : (u \o t)[j] = t[j - (m + 1)]
    <3> DEFINE l == m + 1
    <3>1. l \in Nat /\ m + 2 = l + 1 /\ m + 1 + n = l + n /\ Len(u) = l
      BY <2>1
    <3> HIDE DEF l
    <3>2. /\ u \o t \in Seq(Seq(Int)) /\ Len(u \o t) = l + n
          /\ \A j \in 1 .. l + n : (u \o t)[j] = IF j <= l THEN u[j] ELSE t[j - l]
      BY <1>1, <2>1, <3>1, ConcatProperties
    <3>3. \A j \in 1 .. l : (u \o t)[j] = u[j]
      BY <3>1, <3>2
    <3>4. \A j \in l + 1 .. l + n : (u \o t)[j] = t[j - l]
      <4>1. \A j \in l + 1 .. l + n : j \in 1 .. l + n /\ ~ (j <= l)
        BY ONLY <3>1, n \in Nat
      <4> QED
        BY ONLY <3>2, <4>1
    <3> QED
      BY <3>1, <3>2, <3>3, <3>4 DEF l
  <2>3. \A j \in 1 .. m : j \in 1 .. m + 1
    OBVIOUS
  <2>4. m + 1 \in 1 .. m + 1
    OBVIOUS
  <2> QED
    BY <2>1, <2>2, <2>3, <2>4 DEF u
<1> HIDE DEF ks
<1>3. \A j \in 1 .. m : Valid(s[j]) /\ Inside(a, s[j], c) /\ s[j] \in Seq(Int)
  BY ValidIs DEF Fits
<1>4. \A j \in 1 .. n : Valid(t[j]) /\ Inside(c, t[j], b) /\ t[j] \in Seq(Int)
  BY ValidIs DEF Fits
<1>5. \A j \in m + 2 .. k : j - (m + 1) \in 1 .. n
  OBVIOUS
<1>6. \A j \in 1 .. k : j \in 1 .. m \/ j = m + 1 \/ j \in m + 2 .. k
  OBVIOUS
<1>7. ASSUME NEW j \in 1 .. m
      PROVE  Valid(ks[j]) /\ Inside(a, ks[j], b) /\ ks[j] \in Seq(Int) /\ Less(ks[j], c)
  <2>1. ks[j] = s[j] /\ Less(s[j], c)
    BY <1>1, <1>2, <1>3 DEF Inside
  <2>2. b # NoKey => Less(s[j], b)
    BY <1>1, <1>3, <2>1, LessIsTransitive DEF Inside
  <2> QED
    BY <1>3, <2>1, <2>2 DEF Inside
<1>8. ASSUME NEW j \in m + 2 .. k
      PROVE  Valid(ks[j]) /\ Inside(a, ks[j], b) /\ ks[j] \in Seq(Int) /\ Less(c, ks[j])
  <2> DEFINE l == j - (m + 1)
  <2>1. ks[j] = t[l] /\ l \in 1 .. n
    BY <1>2, <1>5
  <2> HIDE DEF l
  <2>2. Less(c, t[l])
    BY <1>1, <1>4, <2>1 DEF Inside
  <2>3. a # NoKey => Less(a, t[l])
    BY <1>1, <1>4, <2>1, <2>2, LessIsTransitive DEF Inside
  <2> QED
    BY <1>4, <2>1, <2>3, <2>2 DEF Inside
<1>9. \A j \in 1 .. k : Valid(ks[j]) /\ Inside(a, ks[j], b)
  BY <1>2, <1>6, <1>7, <1>8
<1>10. ASSUME NEW i \in 1 .. k, NEW j \in 1 .. k, i < j
       PROVE  Less(ks[i], ks[j])
  <2>1. CASE i \in 1 .. m /\ j \in 1 .. m
    <3>1. Less(s[i], s[j])
      BY <1>10, <2>1 DEF Fits
    <3> QED
      BY <1>2, <2>1, <3>1
  <2>2. CASE i \in 1 .. m /\ j = m + 1
    BY <1>2, <1>7, <2>2
  <2>3. CASE i \in 1 .. m /\ j \in m + 2 .. k
    BY <1>1, <1>7, <1>8, <2>3, LessIsTransitive
  <2>4. CASE i = m + 1 /\ j \in m + 2 .. k
    BY <1>2, <1>8, <2>4
  <2>5. CASE i \in m + 2 .. k /\ j \in m + 2 .. k
    <3> DEFINE p == i - (m + 1)
               q == j - (m + 1)
    <3>1. p \in 1 .. n /\ q \in 1 .. n /\ p < q
      BY <1>10, <2>5
    <3>2. ks[i] = t[p] /\ ks[j] = t[q]
      BY <1>2, <2>5
    <3> HIDE DEF p, q
    <3>3. Less(t[p], t[q])
      BY <3>1 DEF Fits
    <3> QED
      BY <3>2, <3>3
  <2>6. \/ i \in 1 .. m /\ j \in 1 .. m
        \/ i \in 1 .. m /\ j = m + 1
        \/ i \in 1 .. m /\ j \in m + 2 .. k
        \/ i = m + 1 /\ j \in m + 2 .. k
        \/ i \in m + 2 .. k /\ j \in m + 2 .. k
    BY <1>10
  <2> QED
    BY <2>1, <2>2, <2>3, <2>4, <2>5, <2>6
<1>11. Fits(k, a, b, ks)
  BY <1>2, <1>9, <1>10 DEF Fits
<1> QED
  BY <1>11 DEF k, ks

LEMMA NoneFit == \A a, b : Fits(0, a, b, <<>>)
BY DEF Fits

\* generateNKeysBetween, for every n and every gap: n keys in order, all valid
\* and all strictly inside the gap.
LEMMA BulkFits ==
  ASSUME NEW n \in Nat, NEW a, NEW b, Opens(n, a, b)
  PROVE  Fits(n, a, b, GenerateNKeysBetween[n][<<a, b>>])
<1> DEFINE g == GenerateNKeysBetween
           P == {m \in Nat : \A x, y \in Seq(Int) : Opens(m, x, y) => Fits(m, x, y, g[m][<<x, y>>])}
<1>1. ASSUME NEW m \in Nat, \A l \in 0 .. m - 1 : l \in P PROVE m \in P
  <2> SUFFICES ASSUME NEW x \in Seq(Int), NEW y \in Seq(Int), Opens(m, x, y)
               PROVE  Fits(m, x, y, g[m][<<x, y>>])
    OBVIOUS
  <2> DEFINE c == GenerateKeyBetween(x, y)
  <2>1. g[m][<<x, y>>] = Keys(g, m, x, y)
    BY BulkIs
  <2>2. \A l \in 0 .. m - 1 : \A u, v \in Seq(Int) : Opens(l, u, v) => Fits(l, u, v, g[l][<<u, v>>])
    BY <1>1
  <2> HIDE DEF g
  <2>3. CASE m = 0
    <3>1. Keys(g, m, x, y) = <<>>
      BY <2>3 DEF Keys
    <3> QED
      BY <2>1, <2>3, <3>1, NoneFit
  <2>4. CASE m # 0
    <3>1. /\ Valid(c) /\ Inside(x, c, y) /\ c \in Seq(Int) /\ c # NoKey
          /\ x = NoKey /\ y # NoKey => m - 1 < Room(c)
      BY <2>4, MiddleKey, ValidIs
    <3>2. Keys(g, m, x, y) =
            IF m = 1 THEN <<c>>
            ELSE IF y = NoKey THEN <<c>> \o g[m - 1][<<c, y>>]
            ELSE IF x = NoKey THEN g[m - 1][<<x, c>>] \o <<c>>
            ELSE g[m \div 2][<<x, c>>] \o <<c>> \o g[m - m \div 2 - 1][<<c, y>>]
      BY <2>4, <3>1, Zenon DEF Keys
    <3>3. \A l : Opens(l, c, y)
      BY <2>4, <3>1 DEF Opens, Inside
    <3>4. \A l : x # NoKey \/ l < Room(c) => Opens(l, x, c)
      BY <2>4, <3>1 DEF Opens, Inside
    <3> HIDE DEF c
    <3>5. CASE m = 1
      <4>1. Fits(0 + 1 + 0, x, y, <<>> \o <<c>> \o <<>>)
        BY <3>1, NoneFit, FitsTogether
      <4>2. <<>> \o <<c>> \o <<>> = <<c>> /\ 0 + 1 + 0 = 1
        BY <3>1
      <4>3. Fits(1, x, y, <<c>>)
        BY <4>1, <4>2
      <4> QED
        BY <2>1, <3>2, <3>5, <4>3
    <3>6. CASE m # 1 /\ y = NoKey
      <4> DEFINE l == m - 1
                 t == g[l][<<c, y>>]
      <4>1. l \in Nat /\ l \in 0 .. m - 1 /\ 0 + 1 + l = m
        BY <2>4
      <4> HIDE DEF l
      <4>2. Fits(l, c, y, t)
        BY <2>2, <3>1, <3>3, <4>1
      <4> HIDE DEF t
      <4>3. Fits(0 + 1 + l, x, y, <<>> \o <<c>> \o t)
        BY <3>1, <4>1, <4>2, NoneFit, FitsTogether
      <4>4. <<>> \o <<c>> \o t = <<c>> \o t
        BY <3>1
      <4> QED
        BY <2>1, <3>2, <3>6, <4>1, <4>3, <4>4 DEF l, t
    <3>7. CASE m # 1 /\ y # NoKey /\ x = NoKey
      <4> DEFINE l == m - 1
                 s == g[l][<<x, c>>]
      <4>1. l \in Nat /\ l \in 0 .. m - 1 /\ l + 1 + 0 = m
        BY <2>4
      <4>2. l < Room(c)
        BY <3>1, <3>7
      <4> HIDE DEF l
      <4>3. Fits(l, x, c, s)
        BY <2>2, <3>1, <3>4, <4>1, <4>2
      <4>4. s \in Seq(Seq(Int))
        BY <4>3 DEF Fits
      <4> HIDE DEF s
      <4>5. Fits(l + 1 + 0, x, y, s \o <<c>> \o <<>>)
        BY <3>1, <4>1, <4>3, NoneFit, FitsTogether
      <4>6. s \o <<c>> \o <<>> = s \o <<c>>
        BY <3>1, <4>4
      <4> QED
        BY <2>1, <3>2, <3>7, <4>1, <4>5, <4>6 DEF l, s
    <3>8. CASE m # 1 /\ y # NoKey /\ x # NoKey
      <4> DEFINE k == m \div 2
                 l == m - m \div 2 - 1
                 s == g[k][<<x, c>>]
                 t == g[l][<<c, y>>]
      <4>1. k \in 0 .. m - 1 /\ l \in 0 .. m - 1 /\ k + 1 + l = m
        BY <2>4, <3>8, HalvesAreLess
      <4> HIDE DEF k, l
      <4>2. k \in Nat /\ l \in Nat
        BY <4>1
      <4>3. Fits(k, x, c, s) /\ Fits(l, c, y, t)
        BY <2>2, <3>1, <3>3, <3>4, <3>8, <4>1
      <4> HIDE DEF s, t
      <4>4. Fits(k + 1 + l, x, y, s \o <<c>> \o t)
        BY <3>1, <4>2, <4>3, FitsTogether
      <4> QED
        BY <2>1, <3>2, <3>8, <4>1, <4>4 DEF k, l, s, t
    <3> QED
      BY <3>5, <3>6, <3>7, <3>8
  <2> QED
    BY <2>3, <2>4
<1>2. P = Nat
  <2> HIDE DEF P
  <2>1. P \subseteq Nat
    BY DEF P
  <2> QED
    BY <1>1, <2>1, EveryNumber
<1>3. a \in Seq(Int) /\ b \in Seq(Int)
  BY BoundsAre
<1> HIDE DEF g
<1> QED
  BY <1>2, <1>3 DEF g

\* Behind a key, or in an empty lane, the keys come one behind the other: the
\* number of keys asked for does not change the first ones.
LEMMA BulkExtends ==
  ASSUME NEW n \in Nat, NEW m \in 0 .. n, NEW j \in 1 .. m, NEW a, Opens(n, a, NoKey)
  PROVE  GenerateNKeysBetween[m][<<a, NoKey>>][j] = GenerateNKeysBetween[n][<<a, NoKey>>][j]
<1> DEFINE g == GenerateNKeysBetween
           Same(x, k, l, i) == g[k][<<x, NoKey>>][i] = g[l][<<x, NoKey>>][i]
           P == {l \in Nat : \A x \in Seq(Int) : Opens(l, x, NoKey) =>
                               \A k \in 0 .. l : \A i \in 1 .. k : Same(x, k, l, i)}
<1>1. ASSUME NEW l \in Nat, NEW x \in Seq(Int), Opens(l, x, NoKey), l # 0
      PROVE  LET c == GenerateKeyBetween(x, NoKey)
                 t == g[l - 1][<<c, NoKey>>]
             IN  /\ c \in Seq(Int) /\ Valid(c)
                 /\ t \in Seq(Seq(Int)) /\ Len(t) = l - 1
                 /\ g[l][<<x, NoKey>>] = <<c>> \o t
  <2> DEFINE c == GenerateKeyBetween(x, NoKey)
             t == g[l - 1][<<c, NoKey>>]
             d == NoKey
  <2>1. d \in Seq(Int) /\ d = NoKey
    BY DEF NoKey
  <2> HIDE DEF d
  <2>2. Valid(c) /\ c \in Seq(Int) /\ c # NoKey
    BY <1>1, MiddleKey, ValidIs
  <2>3. g[l][<<x, d>>] = Keys(g, l, x, d)
    BY <2>1, BulkIs
  <2>4. l - 1 \in Nat /\ Opens(l - 1, c, d)
    BY <1>1, <2>1, <2>2 DEF Opens
  <2>5. Fits(l - 1, c, d, g[l - 1][<<c, d>>])
    BY <2>4, BulkFits
  <2>6. t \in Seq(Seq(Int)) /\ Len(t) = l - 1
    BY <2>1, <2>5 DEF Fits
  <2> HIDE DEF g
  <2>7. Keys(g, l, x, d) = IF l = 1 THEN <<c>> ELSE <<c>> \o t
    BY <1>1, <2>1, <2>2, Zenon DEF Keys
  <2> HIDE DEF c, t
  <2>8. l = 1 => <<c>> \o t = <<c>>
    <3> SUFFICES ASSUME l = 1 PROVE <<c>> \o t = <<c>>
      OBVIOUS
    <3>1. t = <<>>
      BY <2>6
    <3> QED
      BY <2>2, <3>1
  <2>9. g[l][<<x, d>>] = <<c>> \o t
    BY <2>3, <2>7, <2>8
  <2> QED
    BY <2>1, <2>2, <2>6, <2>9 DEF c, t
<1>2. ASSUME NEW l \in Nat, \A k \in 0 .. l - 1 : k \in P PROVE l \in P
  <2> SUFFICES ASSUME NEW x \in Seq(Int), Opens(l, x, NoKey), NEW k \in 0 .. l, NEW i \in 1 .. k
               PROVE  Same(x, k, l, i)
    OBVIOUS
  <2> DEFINE c == GenerateKeyBetween(x, NoKey)
             s == g[k - 1][<<c, NoKey>>]
             t == g[l - 1][<<c, NoKey>>]
  <2>1. k \in Nat /\ k # 0 /\ l # 0 /\ k - 1 \in 0 .. l - 1 /\ l - 1 \in 0 .. l - 1 /\ Opens(k, x, NoKey)
    BY DEF Opens
  <2> HIDE DEF Same
  <2>2. /\ c \in Seq(Int) /\ Valid(c) /\ t \in Seq(Seq(Int)) /\ Len(t) = l - 1
        /\ g[l][<<x, NoKey>>] = <<c>> \o t
    BY <1>1, <2>1
  <2>3. /\ s \in Seq(Seq(Int)) /\ Len(s) = k - 1
        /\ g[k][<<x, NoKey>>] = <<c>> \o s
    BY <1>1, <2>1
  <2>4. ASSUME i # 1 PROVE s[i - 1] = t[i - 1]
    <3>1. Opens(l - 1, c, NoKey)
      BY <2>2, ValidIs DEF Opens
    <3>2. i - 1 \in 1 .. k - 1
      BY <2>1, <2>4
    <3>3. Same(c, k - 1, l - 1, i - 1)
      BY <1>2, <2>1, <2>2, <3>1, <3>2
    <3> QED
      BY <3>3 DEF Same
  <2> HIDE DEF c, s, t, g
  <2>5. \A u \in Seq(Seq(Int)) : \A p \in 1 .. Len(u) + 1 :
           (<<c>> \o u)[p] = IF p = 1 THEN c ELSE u[p - 1]
    BY <2>2
  <2>6. i \in 1 .. Len(s) + 1 /\ i \in 1 .. Len(t) + 1
    BY <2>1, <2>2, <2>3
  <2>7. (<<c>> \o s)[i] = (<<c>> \o t)[i]
    BY <2>2, <2>3, <2>4, <2>5, <2>6
  <2> QED
    BY <2>2, <2>3, <2>7 DEF Same
<1>3. P = Nat
  <2> HIDE DEF P
  <2>1. P \subseteq Nat
    BY DEF P
  <2> QED
    BY <1>2, <2>1, EveryNumber
<1>4. a \in Seq(Int)
  BY BoundsAre
<1> HIDE DEF g
<1>5. Same(a, m, n, j)
  BY <1>3, <1>4
<1> QED
  BY <1>5 DEF g

\* What the backfill relies on, for every number of cards: the keys of
\* generateNKeysBetween(null, null, n) are n valid keys in order, and the key
\* of a number is the same whatever n is (Backfill's ranks).
THEOREM KeysNumberTheCards ==
  ASSUME NEW n \in Nat
  PROVE  LET ks == GenerateNKeysBetween[n][<<NoKey, NoKey>>]
         IN  /\ Len(ks) = n
             /\ \A j \in 1 .. n : IsOrderKey(ks[j])
             /\ \A i, j \in 1 .. n : i < j => Less(ks[i], ks[j])
             /\ \A m \in 0 .. n : \A j \in 1 .. m :
                  GenerateNKeysBetween[m][<<NoKey, NoKey>>][j] = ks[j]
<1>1. Opens(n, NoKey, NoKey)
  BY DEF Opens
<1>2. Fits(n, NoKey, NoKey, GenerateNKeysBetween[n][<<NoKey, NoKey>>])
  BY <1>1, BulkFits
<1>3. \A m \in 0 .. n : \A j \in 1 .. m :
         GenerateNKeysBetween[m][<<NoKey, NoKey>>][j] = GenerateNKeysBetween[n][<<NoKey, NoKey>>][j]
  BY <1>1, BulkExtends
<1> QED
  BY <1>2, <1>3 DEF Fits, Valid

\* The keys of rank.ts have the room that MoveServiceProofs asks of ranks
\* (Roomy, BackstopsHold), the height of a key being the number of integers in
\* front of it: as many moves as there are integers in front of the first key,
\* 'a0'.  A lane that was seeded with generateNKeysBetween lies as far up.
THEOREM KeysHaveRoom ==
  LET Rank   == {k \in Seq(Int) : IsOrderKey(k)}
      height == [k \in Rank |-> Room(k)]
      start  == <<0, 0>>
  IN  /\ height \in [Rank -> Nat]
      /\ \A j, k \in Rank \cup {NoKey}, m \in 1 .. Room(start) :
           /\ j # NoKey /\ k # NoKey => Less(j, k)
           /\ j # NoKey => height[j] > m
           /\ k # NoKey => height[k] > m
           => GenerateKeyBetween(j, k) \in Rank /\ height[GenerateKeyBetween(j, k)] >= m
      /\ \A n \in Nat : \A i \in 1 .. n :
           /\ GenerateNKeysBetween[n][<<NoKey, NoKey>>][i] \in Rank
           /\ height[GenerateNKeysBetween[n][<<NoKey, NoKey>>][i]] >= Room(start)
<1> DEFINE Rank   == {k \in Seq(Int) : IsOrderKey(k)}
           height == [k \in Rank |-> Room(k)]
           start  == <<0, 0>>
<1>1. /\ \A k : k \in Rank <=> Valid(k)
      /\ height \in [Rank -> Nat] /\ \A k \in Rank : height[k] = Room(k)
  BY RoomIs DEF Valid
<1>2. ~ Valid(NoKey) /\ GenerateKeyBetween(NoKey, NoKey) = start
  BY DEF Valid, IsOrderKey, NoKey, GenerateKeyBetween
<1> HIDE DEF Rank, height, start
<1>3. ASSUME NEW j \in Rank \cup {NoKey}, NEW k \in Rank \cup {NoKey}, NEW m \in 1 .. Room(start),
             j # NoKey /\ k # NoKey => Less(j, k),
             j # NoKey => height[j] > m,
             k # NoKey => height[k] > m
      PROVE  GenerateKeyBetween(j, k) \in Rank /\ height[GenerateKeyBetween(j, k)] >= m
  <2> DEFINE c == GenerateKeyBetween(j, k)
  <2>1. m \in Nat /\ m # 0 /\ m <= Room(start) /\ Room(start) \in Nat
    BY RoomIs
  <2>2. /\ j # NoKey => Valid(j) /\ m < Room(j)
        /\ k # NoKey => Valid(k) /\ m < Room(k)
    BY <1>1, <1>3, <2>1, RoomIs
  <2>3. Opens(m, j, k)
    BY <1>3, <2>2 DEF Opens
  <2>4. /\ Valid(c) /\ Inside(j, c, k) /\ j \in Seq(Int)
        /\ j = NoKey /\ k # NoKey => m - 1 < Room(c)
    BY <2>1, <2>3, MiddleKey
  <2>5. c \in Seq(Int) /\ Room(c) \in Nat /\ (j # NoKey => Room(j) \in Nat)
    BY <2>4, ValidIs, RoomIs
  <2>6. CASE j # NoKey
    <3>1. Room(j) <= Room(c)
      BY <2>4, <2>5, <2>6, RoomGrows DEF Inside
    <3>2. Room(c) >= m
      BY <2>1, <2>2, <2>5, <2>6, <3>1
    <3> QED
      BY <1>1, <2>4, <3>2
  <2>7. CASE j = NoKey /\ k # NoKey
    <3>1. Room(c) >= m
      BY <2>1, <2>4, <2>5, <2>7
    <3> QED
      BY <1>1, <2>4, <3>1
  <2>8. CASE j = NoKey /\ k = NoKey
    <3>1. c = start
      BY <1>2, <2>8
    <3> QED
      BY <1>1, <2>1, <2>4, <3>1
  <2> QED
    BY <2>6, <2>7, <2>8
<1>4. ASSUME NEW n \in Nat, NEW i \in 1 .. n
      PROVE  /\ GenerateNKeysBetween[n][<<NoKey, NoKey>>][i] \in Rank
             /\ height[GenerateNKeysBetween[n][<<NoKey, NoKey>>][i]] >= Room(start)
  <2> DEFINE ks == GenerateNKeysBetween[n][<<NoKey, NoKey>>]
  <2>1. Opens(n, NoKey, NoKey) /\ 1 \in 0 .. n /\ 1 \in 1 .. 1 /\ 1 \in 1 .. n
    BY DEF Opens
  <2>2. Fits(n, NoKey, NoKey, ks)
    BY <2>1, BulkFits
  <2>3. ks[1] = GenerateNKeysBetween[1][<<NoKey, NoKey>>][1]
    BY <2>1, BulkExtends
  <2>4. GenerateNKeysBetween[1][<<NoKey, NoKey>>] = <<start>>
    <3> DEFINE d == NoKey
               g == GenerateNKeysBetween
    <3>1. d \in Seq(Int) /\ 1 \in Nat
      BY DEF NoKey
    <3>2. g[1][<<d, d>>] = Keys(g, 1, d, d)
      BY <3>1, BulkIs
    <3>3. start # NoKey
      BY DEF start, NoKey
    <3> HIDE DEF g
    <3>4. Keys(g, 1, d, d) = <<start>>
      BY <1>2, <3>3 DEF Keys
    <3> QED
      BY <3>2, <3>4 DEF g
  <2> HIDE DEF ks
  <2>5. Valid(ks[i]) /\ Valid(ks[1]) /\ (i # 1 => Less(ks[1], ks[i])) /\ ks[1] = start
    BY <2>1, <2>2, <2>3, <2>4 DEF Fits
  <2>6. Room(start) \in Nat /\ (i # 1 => Room(start) <= Room(ks[i]))
    BY <2>5, ValidIs, RoomIs, RoomGrows
  <2>7. Room(ks[i]) >= Room(start)
    BY <2>5, <2>6, RoomIs
  <2> QED
    BY <1>1, <2>5, <2>7 DEF ks
<1> QED
  BY <1>1, <1>3, <1>4 DEF Rank, height, start

-----------------------------------------------------------------------------
(* A key read as a number.                                                 *)

\* The definitions of Power, Smaller and Digital define them.
LEMMA PowerIs ==
  /\ Power[0] = 1
  /\ \A n \in Nat : Power[n + 1] = Base * Power[n] /\ Power[n] \in Nat /\ Power[n] > 0
<1> DEFINE R == Nat \ {0}
           step == [n \in Nat |-> [x \in R |-> Base * x]]
           Is(f) == f = [n \in Nat |-> IF n = 0 THEN 1 ELSE Base * f[n - 1]]
<1>1. \A x \in R : Base * x \in R
  <2> SUFFICES ASSUME NEW x \in R PROVE Base * x \in R
    OBVIOUS
  <2>1. Base \in Nat /\ Base >= 2 /\ x \in Nat /\ x >= 1
    BY KeyParameters
  <2>2. Base * x \in Nat /\ Base * x >= 1
    BY <2>1
  <2> QED
    BY <2>2
<1>2. step \in [Nat -> [R -> R]]
  BY <1>1
<1>3. PICK f \in [Nat -> R] : \A n \in Nat : f[n] = IF n = 0 THEN 1 ELSE step[n][f[n - 1]]
  <2> HIDE DEF step
  <2>1. 1 \in R
    OBVIOUS
  <2> HIDE DEF R
  <2>2. Iterations(R, 1, step) # {}
    BY <1>2, <2>1, IterationDefines
  <2> QED
    BY <2>2 DEF Iterations
<1>4. \A n \in Nat : n # 0 => n - 1 \in Nat /\ step[n][f[n - 1]] = Base * f[n - 1]
  OBVIOUS
<1>5. Is(f)
  <2>1. \A n \in Nat : f[n] = IF n = 0 THEN 1 ELSE Base * f[n - 1]
    BY <1>3, <1>4
  <2> HIDE DEF step
  <2> QED
    BY <2>1
<1>6. Power = CHOOSE g : Is(g)
  BY Zenon DEF Power
<1>7. Is(Power)
  <2> HIDE DEF Is
  <2> QED
    BY <1>5, <1>6
<1> DEFINE g == Power
<1>8. g = [n \in Nat |-> IF n = 0 THEN 1 ELSE Base * g[n - 1]]
  BY <1>7
<1> HIDE DEF g
<1>9. g[0] = 1 /\ \A n \in Nat : g[n + 1] = Base * g[n]
  <2>1. 0 \in Nat /\ \A n \in Nat : n + 1 \in Nat /\ n + 1 # 0 /\ (n + 1) - 1 = n
    OBVIOUS
  <2> QED
    BY <1>8, <2>1
<1> DEFINE P == {n \in Nat : g[n] \in R}
<1>10. 0 \in P /\ \A n \in Nat : n \in P => n + 1 \in P
  BY <1>1, <1>9
<1>11. P = Nat
  <2> HIDE DEF P
  <2>1. P \subseteq Nat
    BY DEF P
  <2> QED
    BY <1>10, <2>1, EveryNext
<1>12. \A n \in Nat : g[n] \in Nat /\ g[n] > 0
  BY <1>11
<1> QED
  BY <1>9, <1>12 DEF g

LEMMA SmallerIs ==
  /\ Smaller[0] = 0
  /\ \A n \in Nat : Smaller[n + 1] = Smaller[n] + Power[n + 1] /\ Smaller[n] \in Nat
<1> DEFINE step == [n \in Nat |-> [x \in Nat |-> x + Power[n]]]
           Is(f) == f = [n \in Nat |-> IF n = 0 THEN 0 ELSE f[n - 1] + Power[n]]
<1>1. \A n, x \in Nat : x + Power[n] \in Nat
  <2>1. \A n \in Nat : Power[n] \in Nat
    BY PowerIs
  <2> QED
    BY <2>1
<1>2. step \in [Nat -> [Nat -> Nat]]
  BY <1>1
<1>3. PICK f \in [Nat -> Nat] : \A n \in Nat : f[n] = IF n = 0 THEN 0 ELSE step[n][f[n - 1]]
  <2> HIDE DEF step
  <2>1. Iterations(Nat, 0, step) # {}
    BY <1>2, IterationDefines
  <2> QED
    BY <2>1 DEF Iterations
<1>4. \A n \in Nat : n # 0 => n - 1 \in Nat /\ step[n][f[n - 1]] = f[n - 1] + Power[n]
  OBVIOUS
<1>5. Is(f)
  <2>1. \A n \in Nat : f[n] = IF n = 0 THEN 0 ELSE f[n - 1] + Power[n]
    BY <1>3, <1>4
  <2> HIDE DEF step
  <2> QED
    BY <2>1
<1>6. Smaller = CHOOSE g : Is(g)
  BY Zenon DEF Smaller
<1>7. Is(Smaller)
  <2> HIDE DEF Is
  <2> QED
    BY <1>5, <1>6
<1> DEFINE g == Smaller
<1>8. g = [n \in Nat |-> IF n = 0 THEN 0 ELSE g[n - 1] + Power[n]]
  BY <1>7
<1> HIDE DEF g
<1>9. g[0] = 0 /\ \A n \in Nat : g[n + 1] = g[n] + Power[n + 1]
  <2>1. 0 \in Nat /\ \A n \in Nat : n + 1 \in Nat /\ n + 1 # 0 /\ (n + 1) - 1 = n
    OBVIOUS
  <2> QED
    BY <1>8, <2>1
<1> DEFINE P == {n \in Nat : g[n] \in Nat}
<1>10. 0 \in P /\ \A n \in Nat : n \in P => n + 1 \in P
  <2>1. \A n \in Nat : n + 1 \in Nat
    OBVIOUS
  <2> QED
    BY <1>1, <1>9, <2>1
<1>11. P = Nat
  <2> HIDE DEF P
  <2>1. P \subseteq Nat
    BY DEF P
  <2> QED
    BY <1>10, <2>1, EveryNext
<1>12. \A n \in Nat : g[n] \in Nat
  BY <1>11
<1> QED
  BY <1>9, <1>12 DEF g

Numbers == [Seq(Int) -> Int]

LEMMA DigitalIs ==
  /\ \A f \in Seq(Int) : Digital[0][f] = 0
  /\ \A n \in Nat : \A f \in Seq(Int) :
        Digital[n + 1][f] = Base * Digital[n][f] + DigitAt(f, n + 1)
<1> DEFINE zero == [f \in Seq(Int) |-> 0]
           With(v, n) == [f \in Seq(Int) |-> Base * v[f] + DigitAt(f, n)]
           step == [n \in Nat |-> [v \in Numbers |-> IF n = 0 THEN zero ELSE With(v, n)]]
           Is(g) == g = [n \in Nat |-> [f \in Seq(Int) |->
                           IF n = 0 THEN 0 ELSE Base * g[n - 1][f] + DigitAt(f, n)]]
<1>1. ASSUME NEW n \in Nat \ {0}, NEW v \in Numbers, NEW f \in Seq(Int)
      PROVE  Base * v[f] + DigitAt(f, n) \in Int
  <2>1. v[f] \in Int /\ DigitAt(f, n) \in Int /\ Base \in Int
    <3>1. n <= Len(f) => n \in 1 .. Len(f)
      OBVIOUS
    <3> QED
      BY <3>1, KeyParameters DEF Numbers, DigitAt
  <2>2. \A x, y, z \in Int : x * y + z \in Int
    OBVIOUS
  <2> QED
    BY <2>1, <2>2
<1>2. zero \in Numbers
  BY DEF Numbers
<1>3. step \in [Nat -> [Numbers -> Numbers]]
  <2>1. ASSUME NEW n \in Nat, NEW v \in Numbers
        PROVE  (IF n = 0 THEN zero ELSE With(v, n)) \in Numbers
    <3>1. CASE n = 0
      BY <1>2, <3>1
    <3>2. CASE n # 0
      <4>1. With(v, n) \in [Seq(Int) -> Int]
        BY <1>1, <3>2
      <4> QED
        BY <3>2, <4>1 DEF Numbers
    <3> QED
      BY <3>1, <3>2
  <2> QED
    BY <2>1
<1>4. PICK g \in [Nat -> Numbers] : \A n \in Nat : g[n] = IF n = 0 THEN zero ELSE step[n][g[n - 1]]
  <2> HIDE DEF step, zero
  <2>1. Iterations(Numbers, zero, step) # {}
    BY <1>2, <1>3, IterationDefines
  <2> QED
    BY <2>1 DEF Iterations
<1>5. \A n \in Nat : n # 0 => step[n][g[n - 1]] = With(g[n - 1], n)
  <2> SUFFICES ASSUME NEW n \in Nat, n # 0 PROVE step[n][g[n - 1]] = With(g[n - 1], n)
    OBVIOUS
  <2>1. n - 1 \in Nat /\ g[n - 1] \in Numbers
    OBVIOUS
  <2> HIDE DEF With, zero
  <2> QED
    BY <2>1
<1>6. Is(g)
  <2>1. \A n \in Nat : g[n] = [f \in Seq(Int) |-> IF n = 0 THEN 0 ELSE Base * g[n - 1][f] + DigitAt(f, n)]
    <3> SUFFICES ASSUME NEW n \in Nat
                 PROVE  g[n] = [f \in Seq(Int) |-> IF n = 0 THEN 0 ELSE Base * g[n - 1][f] + DigitAt(f, n)]
      OBVIOUS
    <3>1. CASE n = 0
      BY <1>4, <3>1
    <3>2. CASE n # 0
      BY <1>4, <1>5, <3>2
    <3> QED
      BY <3>1, <3>2
  <2> HIDE DEF step
  <2> QED
    BY <2>1
<1>7. Digital = CHOOSE h : Is(h)
  BY Zenon DEF Digital
<1>8. Is(Digital)
  <2> HIDE DEF Is
  <2> QED
    BY <1>6, <1>7
<1> DEFINE d == Digital
<1>9. d = [n \in Nat |-> [f \in Seq(Int) |-> IF n = 0 THEN 0 ELSE Base * d[n - 1][f] + DigitAt(f, n)]]
  BY <1>8
<1> HIDE DEF d
<1>10. ASSUME NEW n \in Nat, NEW f \in Seq(Int)
       PROVE  d[n][f] = IF n = 0 THEN 0 ELSE Base * d[n - 1][f] + DigitAt(f, n)
  BY <1>9
<1>11. \A n \in Nat : n + 1 \in Nat /\ n + 1 # 0 /\ (n + 1) - 1 = n
  OBVIOUS
<1>12. \A f \in Seq(Int) : d[0][f] = 0
  BY <1>10
<1>13. \A n \in Nat : \A f \in Seq(Int) : d[n + 1][f] = Base * d[n][f] + DigitAt(f, n + 1)
  BY <1>10, <1>11, Zenon
<1> QED
  BY <1>12, <1>13 DEF d

\* The value of n digits has n digits.
LEMMA DigitalFits ==
  ASSUME NEW f \in Seq(Digits), NEW n \in Nat
  PROVE  Digital[n][f] \in Nat /\ Digital[n][f] < Power[n]
<1> DEFINE P == {m \in Nat : Digital[m][f] \in Nat /\ Digital[m][f] < Power[m]}
<1>1. f \in Seq(Int)
  BY DigitsAreInts
<1>2. 0 \in P
  <2>1. Digital[0][f] = 0 /\ Power[0] = 1
    BY <1>1, DigitalIs, PowerIs
  <2> QED
    BY <2>1
<1>3. ASSUME NEW m \in Nat, m \in P PROVE m + 1 \in P
  <2> DEFINE x == Digital[m][f]
             p == Power[m]
             z == DigitAt(f, m + 1)
  <2>1. x \in Nat /\ p \in Nat /\ x < p /\ Base \in Nat /\ z \in Nat /\ z < Base
    <3>1. m + 1 \in Nat \ {0}
      OBVIOUS
    <3>2. z \in Digits
      BY <3>1, DigitAtIs
    <3>3. x \in Nat /\ x < p
      BY <1>3
    <3>4. p \in Nat
      BY PowerIs
    <3> HIDE DEF x, p, z
    <3>5. z \in Nat /\ z < Base /\ Base \in Nat
      BY <3>2, KeyParameters DEF Digits
    <3> QED
      BY <3>3, <3>4, <3>5
  <2>2. Digital[m + 1][f] = Base * x + z /\ Power[m + 1] = Base * p
    BY <1>1, DigitalIs, PowerIs
  <2> HIDE DEF x, p, z
  <2>3. Base * x + z \in Nat /\ Base * x + z < Base * p
    <3>1. PICK k \in Nat : p = x + 1 + k
      <4>1. p - x - 1 \in Nat /\ p = x + 1 + (p - x - 1)
        BY <2>1
      <4> QED
        BY <4>1
    <3>2. Base * p = Base * x + Base + Base * k
      BY <2>1, <3>1
    <3>3. Base * x \in Nat /\ Base * k \in Nat
      BY <2>1
    <3> QED
      BY <2>1, <3>2, <3>3
  <2> QED
    BY <2>2, <2>3
<1>4. P = Nat
  <2> HIDE DEF P
  <2>1. P \subseteq Nat
    BY DEF P
  <2> QED
    BY <1>2, <1>3, <2>1, EveryNext
<1> QED
  BY <1>4

\* A digit more does not overtake a number that is greater by one.
LEMMA OneMoreDigit ==
  ASSUME NEW x \in Int, NEW y \in Int, x < y, NEW b \in Nat,
         NEW d \in Int, d < b, NEW e \in Int, e >= 0
  PROVE  b * x + d < b * y + e
<1>1. PICK k \in Nat : y = x + 1 + k
  <2>1. y - x - 1 \in Nat /\ y = x + 1 + (y - x - 1)
    OBVIOUS
  <2> QED
    BY <2>1
<1>2. b * y = b * x + b + b * k
  BY <1>1
<1>3. b * x \in Int /\ b * k \in Nat
  BY <1>1
<1> DEFINE bx == b * x
           by == b * y
           bk == b * k
<1> HIDE DEF bx, by, bk
<1>4. by = bx + b + bk /\ bx \in Int /\ bk \in Nat
  BY <1>2, <1>3 DEF bx, by, bk
<1>5. bx + d < by + e
  BY <1>4
<1> QED
  BY <1>5 DEF bx, by

\* What lies behind the first n digits does not count.
LEMMA SameDigits ==
  ASSUME NEW f \in Seq(Int), NEW g \in Seq(Int), NEW n \in Nat,
         \A j \in 1 .. n : DigitAt(f, j) = DigitAt(g, j)
  PROVE  Digital[n][f] = Digital[n][g]
<1> DEFINE P == {m \in Nat : m <= n => Digital[m][f] = Digital[m][g]}
<1>1. 0 \in P
  BY DigitalIs
<1>2. ASSUME NEW m \in Nat, m \in P PROVE m + 1 \in P
  <2> SUFFICES ASSUME m + 1 <= n PROVE Digital[m + 1][f] = Digital[m + 1][g]
    OBVIOUS
  <2>1. m <= n /\ m + 1 \in 1 .. n
    OBVIOUS
  <2>2. Digital[m][f] = Digital[m][g] /\ DigitAt(f, m + 1) = DigitAt(g, m + 1)
    BY <1>2, <2>1
  <2> QED
    BY <2>2, DigitalIs
<1>3. P = Nat
  <2> HIDE DEF P
  <2>1. P \subseteq Nat
    BY DEF P
  <2> QED
    BY <1>1, <1>2, <2>1, EveryNext
<1>4. n \in P /\ n <= n
  BY ONLY <1>3, n \in Nat
<1> QED
  BY <1>4

\* The first digit in which they differ orders two numbers.
LEMMA FirstDigitDecides ==
  ASSUME NEW f \in Seq(Digits), NEW g \in Seq(Digits), NEW n \in Nat, NEW i \in 1 .. n,
         \A j \in 1 .. i - 1 : DigitAt(f, j) = DigitAt(g, j), DigitAt(f, i) < DigitAt(g, i)
  PROVE  Digital[n][f] < Digital[n][g]
<1> DEFINE P == {m \in Nat : m >= i => Digital[m][f] < Digital[m][g]}
<1>1. f \in Seq(Int) /\ g \in Seq(Int) /\ i \in Nat /\ i >= 1
  BY DigitsAreInts
<1>2. ASSUME NEW m \in Nat
      PROVE  /\ Digital[m][f] \in Int /\ Digital[m][g] \in Int
             /\ DigitAt(f, m + 1) \in Int /\ DigitAt(f, m + 1) < Base
             /\ DigitAt(g, m + 1) \in Int /\ DigitAt(g, m + 1) >= 0
             /\ Digital[m + 1][f] = Base * Digital[m][f] + DigitAt(f, m + 1)
             /\ Digital[m + 1][g] = Base * Digital[m][g] + DigitAt(g, m + 1)
  <2>1. m + 1 \in Nat \ {0}
    OBVIOUS
  <2>2. DigitAt(f, m + 1) \in Digits /\ DigitAt(g, m + 1) \in Digits
    BY <2>1, DigitAtIs
  <2>3. \A d \in Digits : d \in Int /\ d < Base /\ d >= 0
    BY KeyParameters DEF Digits
  <2>4. Digital[m][f] \in Int /\ Digital[m][g] \in Int
    BY DigitalFits
  <2> QED
    BY <1>1, <2>2, <2>3, <2>4, DigitalIs
<1>3. 0 \in P
  BY <1>1
<1>4. ASSUME NEW m \in Nat, m \in P PROVE m + 1 \in P
  <2> SUFFICES ASSUME m + 1 >= i PROVE Digital[m + 1][f] < Digital[m + 1][g]
    OBVIOUS
  <2>1. CASE m >= i
    <3> DEFINE x == Digital[m][f]
               y == Digital[m][g]
               d == DigitAt(f, m + 1)
               e == DigitAt(g, m + 1)
    <3>1. x < y
      BY <1>4, <2>1
    <3>2. /\ x \in Int /\ y \in Int /\ d \in Int /\ d < Base /\ e \in Int /\ e >= 0
          /\ Digital[m + 1][f] = Base * x + d /\ Digital[m + 1][g] = Base * y + e
      BY <1>2
    <3> HIDE DEF x, y, d, e
    <3>3. Base \in Nat
      BY KeyParameters
    <3>4. Base * x + d < Base * y + e
      BY ONLY <3>1, <3>2, <3>3, OneMoreDigit
    <3> QED
      BY <3>2, <3>4
  <2>2. CASE ~ (m >= i)
    <3>1. i = m + 1 /\ m = i - 1
      BY <1>1, <2>2
    <3> DEFINE x == Digital[m][f]
               y == Digital[m][g]
               d == DigitAt(f, m + 1)
               e == DigitAt(g, m + 1)
    <3>2. x = y
      BY <1>1, <3>1, SameDigits
    <3>3. d < e
      BY <3>1
    <3>4. /\ x \in Int /\ d \in Int /\ e \in Int
          /\ Digital[m + 1][f] = Base * x + d /\ Digital[m + 1][g] = Base * y + e
      BY <1>2
    <3> HIDE DEF x, y, d, e
    <3>5. Base * x \in Int
      BY <3>4, KeyParameters
    <3>6. Base * x + d < Base * x + e
      BY <3>3, <3>4, <3>5
    <3> QED
      BY <3>2, <3>4, <3>6
  <2> QED
    BY <2>1, <2>2
<1>5. P = Nat
  <2> HIDE DEF P
  <2>1. P \subseteq Nat
    BY DEF P
  <2> QED
    BY <1>3, <1>4, <2>1, EveryNext
<1>6. n \in P /\ n >= i
  BY <1>1, <1>5
<1> QED
  BY <1>6

\* The integers of the next head begin where those of a head end.
LEMMA NextHead ==
  ASSUME NEW h \in Int
  PROVE  /\ FirstNumber(h) \in Int
         /\ FirstNumber(h + 1) = FirstNumber(h) + Power[IntegerLength(h) - 1]
<1>1. /\ Smaller[0] = 0
      /\ \A n \in Nat : Smaller[n + 1] = Smaller[n] + Power[n + 1] /\ Smaller[n] \in Nat
      /\ \A n \in Nat : Power[n] \in Nat
  BY SmallerIs, PowerIs
<1>2. CASE h >= 0
  <2>1. h \in Nat /\ h + 1 \in Nat /\ h + 1 >= 0 /\ IntegerLength(h) - 1 = h + 1
    BY <1>2 DEF IntegerLength
  <2>2. FirstNumber(h) = Smaller[h] /\ FirstNumber(h + 1) = Smaller[h + 1]
    BY <1>2, <2>1 DEF FirstNumber
  <2>3. Smaller[h] \in Nat /\ Smaller[h + 1] = Smaller[h] + Power[h + 1]
    BY <1>1, <2>1
  <2> QED
    BY <2>1, <2>2, <2>3
<1>3. CASE h < 0
  <2>1. PICK m \in Nat : h = -(m + 1) /\ -h = m + 1
    <3>1. -h - 1 \in Nat /\ h = -((-h - 1) + 1) /\ -h = (-h - 1) + 1
      BY <1>3
    <3> QED
      BY <3>1
  <2>2. ~ (h >= 0) /\ IntegerLength(h) - 1 = m + 1 /\ h + 1 = -m
    BY <1>3, <2>1 DEF IntegerLength
  <2>3. FirstNumber(h) = -Smaller[m + 1]
    BY <2>1, <2>2 DEF FirstNumber
  <2>4. FirstNumber(h + 1) = -Smaller[m]
    <3>1. CASE m = 0
      <4>1. h + 1 = 0
        BY <2>2, <3>1
      <4>2. FirstNumber(0) = Smaller[0]
        BY DEF FirstNumber
      <4> QED
        BY <1>1, <3>1, <4>1, <4>2
    <3>2. CASE m # 0
      <4>1. ~ (h + 1 >= 0) /\ -(h + 1) = m
        BY <2>2, <3>2
      <4> QED
        BY <4>1 DEF FirstNumber
    <3> QED
      BY <3>1, <3>2
  <2>5. Smaller[m] \in Nat /\ Smaller[m + 1] = Smaller[m] + Power[m + 1] /\ Power[m + 1] \in Nat
    BY <1>1
  <2>6. -Smaller[m] = -Smaller[m + 1] + Power[m + 1] /\ -Smaller[m + 1] \in Int
    BY <2>5
  <2> QED
    BY <2>2, <2>3, <2>4, <2>6
<1> QED
  BY <1>2, <1>3

\* The integers of a head lie below those of every later head.
LEMMA HeadsAscend ==
  ASSUME NEW h \in Int, NEW k \in Int, h < k
  PROVE  FirstNumber(h) + Power[IntegerLength(h) - 1] <= FirstNumber(k)
<1> DEFINE end == FirstNumber(h) + Power[IntegerLength(h) - 1]
           P == {n \in Nat : end <= FirstNumber(h + 1 + n)}
<1>1. end = FirstNumber(h + 1) /\ end \in Int
  <2>1. h + 1 \in Int
    OBVIOUS
  <2> QED
    BY <2>1, NextHead
<1> HIDE DEF end
<1>2. 0 \in P
  <2>1. h + 1 + 0 = h + 1
    OBVIOUS
  <2> QED
    BY <1>1, <2>1
<1>3. ASSUME NEW n \in Nat, n \in P PROVE n + 1 \in P
  <2> DEFINE g == h + 1 + n
  <2>1. g \in Int /\ h + 1 + (n + 1) = g + 1
    OBVIOUS
  <2>2. end <= FirstNumber(g)
    BY <1>3
  <2> HIDE DEF g
  <2>3. IntegerLength(g) - 1 \in Nat
    BY <2>1, IntegerLengths
  <2>4. Power[IntegerLength(g) - 1] \in Nat
    BY <2>3, PowerIs
  <2>5. FirstNumber(g) \in Int /\ FirstNumber(g + 1) = FirstNumber(g) + Power[IntegerLength(g) - 1]
    BY <2>1, NextHead
  <2>6. end <= FirstNumber(g + 1)
    BY <1>1, <2>2, <2>4, <2>5
  <2> QED
    BY <2>1, <2>6
<1>4. P = Nat
  <2> HIDE DEF P
  <2>1. P \subseteq Nat
    BY DEF P
  <2> QED
    BY <1>2, <1>3, <2>1, EveryNext
<1>5. k - h - 1 \in Nat /\ h + 1 + (k - h - 1) = k
  OBVIOUS
<1>6. end <= FirstNumber(k)
  BY <1>4, <1>5
<1> QED
  BY <1>6 DEF end

LEMMA DigitsBehindHead ==
  ASSUME NEW x, IsInteger(x)
  PROVE  /\ Tail(x) \in Seq(Digits) /\ Len(Tail(x)) = Len(x) - 1
         /\ Len(x) - 1 \in Nat /\ Len(x) = IntegerLength(x[1]) /\ x[1] \in Int
         /\ \A j \in 1 .. Len(x) - 1 : DigitAt(Tail(x), j) = x[j + 1]
<1>1. /\ x \in Seq(Int) /\ x # <<>> /\ Len(x) = IntegerLength(x[1])
      /\ \A i \in 2 .. Len(x) : x[i] \in Digits
  BY DEF IsInteger
<1>2. x[1] \in Int /\ Len(x) \in Nat /\ Len(x) >= 2
  BY HeadLengths DEF IsInteger
<1>3. /\ Tail(x) \in Seq(Int) /\ Len(Tail(x)) = Len(x) - 1
      /\ \A j \in 1 .. Len(Tail(x)) : Tail(x)[j] = x[j + 1]
  BY <1>1, HeadTailProperties
<1>4. \A j \in 1 .. Len(x) - 1 : j + 1 \in 2 .. Len(x) /\ j <= Len(x) - 1
  BY <1>2
<1>5. \A j \in 1 .. Len(Tail(x)) : Tail(x)[j] \in Digits
  BY <1>1, <1>3, <1>4
<1>6. Tail(x) \in Seq(Digits)
  <2> DEFINE t == Tail(x)
             n == Len(x) - 1
  <2>1. n \in Nat /\ Len(t) = n /\ t \in Seq(Int) /\ \A j \in 1 .. n : t[j] \in Digits
    BY <1>2, <1>3, <1>5
  <2> HIDE DEF t, n
  <2>2. t \in [1 .. n -> Int]
    BY <2>1, LenProperties
  <2>3. t \in [1 .. n -> Digits]
    BY <2>1, <2>2
  <2>4. t \in Seq(Digits)
    BY <2>1, <2>3, SeqDef
  <2> QED
    BY <2>4 DEF t
<1>7. \A j \in 1 .. Len(x) - 1 : DigitAt(Tail(x), j) = x[j + 1]
  BY <1>3, <1>4 DEF DigitAt
<1> QED
  BY <1>1, <1>2, <1>3, <1>6, <1>7

\* Integers are numbered in their order.
LEMMA IntegersAscend ==
  ASSUME NEW x, NEW y, IsInteger(x), IsInteger(y), NEW i, PartAt(x, y, i)
  PROVE  IntegerNumber(x) < IntegerNumber(y)
<1> DEFINE f == Tail(x)
           g == Tail(y)
           m == Len(x) - 1
           n == Len(y) - 1
<1>1. /\ f \in Seq(Digits) /\ m \in Nat /\ m = IntegerLength(x[1]) - 1 /\ x[1] \in Int
      /\ g \in Seq(Digits) /\ n \in Nat /\ n = IntegerLength(y[1]) - 1 /\ y[1] \in Int
      /\ \A j \in 1 .. m : DigitAt(f, j) = x[j + 1]
      /\ \A j \in 1 .. n : DigitAt(g, j) = y[j + 1]
  BY DigitsBehindHead
<1>2. IntegerNumber(x) = FirstNumber(x[1]) + Digital[m][f] /\ IntegerNumber(y) = FirstNumber(y[1]) + Digital[n][g]
  BY DEF IntegerNumber
<1>3. /\ i \in 1 .. Len(x) /\ i \in 1 .. Len(y) /\ x[i] < y[i]
      /\ \A j \in 1 .. i - 1 : x[j] = y[j]
  BY DEF PartAt
<1>4. i \in Nat /\ i >= 1 /\ i - 1 <= m /\ i - 1 <= n
  <2>1. Len(x) \in Nat /\ Len(y) \in Nat
    BY DEF IsInteger
  <2> QED
    BY <1>3, <2>1
<1>5. /\ Digital[m][f] \in Nat /\ Digital[m][f] < Power[m] /\ Power[m] \in Nat
      /\ Digital[n][g] \in Nat
  BY <1>1, DigitalFits, PowerIs
<1>6. FirstNumber(x[1]) \in Int /\ FirstNumber(y[1]) \in Int
  BY <1>1, NextHead
<1> HIDE DEF f, g, m, n
<1>7. CASE i = 1
  <2>1. x[1] < y[1]
    BY <1>3, <1>7
  <2>2. FirstNumber(x[1]) + Power[m] <= FirstNumber(y[1])
    BY <1>1, <2>1, HeadsAscend
  <2> QED
    BY <1>2, <1>5, <1>6, <2>2
<1>8. CASE i # 1
  <2> DEFINE q == i - 1
  <2>1. q \in 1 .. m /\ q \in 1 .. n /\ q + 1 = i
    BY <1>1, <1>4, <1>8
  <2>2. x[1] = y[1] /\ m = n
    <3>1. 1 \in 1 .. i - 1
      BY <1>4, <1>8
    <3> QED
      BY <1>1, <1>3, <3>1
  <2>3. DigitAt(f, q) < DigitAt(g, q)
    BY <1>1, <1>3, <2>1
  <2>4. \A j \in 1 .. q - 1 : DigitAt(f, j) = DigitAt(g, j)
    <3> SUFFICES ASSUME NEW j \in 1 .. q - 1 PROVE DigitAt(f, j) = DigitAt(g, j)
      OBVIOUS
    <3>1. j \in 1 .. m /\ j \in 1 .. n /\ j + 1 \in 1 .. i - 1
      BY <1>1, <1>4, <2>1
    <3> QED
      BY <1>1, <1>3, <3>1
  <2> HIDE DEF q
  <2>5. Digital[m][f] < Digital[m][g]
    BY <1>1, <2>1, <2>3, <2>4, FirstDigitDecides
  <2> QED
    BY <1>2, <1>5, <1>6, <2>2, <2>5
<1> QED
  BY <1>7, <1>8

LEMMA IntegerNumberIs ==
  ASSUME NEW x, IsInteger(x)
  PROVE  IntegerNumber(x) \in Int
<1>1. Tail(x) \in Seq(Digits) /\ Len(x) - 1 \in Nat /\ x[1] \in Int
  BY DigitsBehindHead
<1>2. Digital[Len(x) - 1][Tail(x)] \in Nat /\ FirstNumber(x[1]) \in Int
  BY <1>1, DigitalFits, NextHead
<1> QED
  BY <1>2 DEF IntegerNumber

\* What follows the place where two sequences part does not matter.
LEMMA JoinsPart ==
  ASSUME NEW x \in Seq(Int), NEW y \in Seq(Int), NEW f \in Seq(Int), NEW g \in Seq(Int), NEW i,
         PartAt(x, y, i)
  PROVE  PartAt(x \o f, y \o g, i)
<1>1. /\ i \in 1 .. Len(x) /\ i \in 1 .. Len(y) /\ x[i] < y[i]
      /\ \A j \in 1 .. i - 1 : x[j] = y[j]
  BY DEF PartAt
<1>2. /\ Len(x) \in Nat /\ Len(y) \in Nat /\ Len(f) \in Nat /\ Len(g) \in Nat
      /\ Len(x \o f) = Len(x) + Len(f) /\ Len(y \o g) = Len(y) + Len(g)
  BY ConcatProperties
<1>3. /\ \A j \in 1 .. Len(x) : (x \o f)[j] = x[j]
      /\ \A j \in 1 .. Len(y) : (y \o g)[j] = y[j]
  BY <1>2, ConcatProperties
<1>4. \A j \in 1 .. i - 1 : j \in 1 .. Len(x) /\ j \in 1 .. Len(y)
  BY <1>1, <1>2
<1>5. i \in 1 .. Len(x \o f) /\ i \in 1 .. Len(y \o g)
  BY <1>1, <1>2
<1> QED
  BY <1>1, <1>3, <1>4, <1>5 DEF PartAt

\* What Number reads: an integer part and a fraction.  The smallest integer
\* has them, though it is no key.
Readable(k) ==
  IsInteger(IntegerPart(k)) /\ IsFraction(Fraction(k)) /\ k = IntegerPart(k) \o Fraction(k)

LEMMA KeysAreReadable ==
  ASSUME NEW k, Valid(k) \/ k = SmallestInteger
  PROVE  Readable(k)
<1>1. CASE Valid(k)
  BY <1>1, Parts DEF Readable
<1>2. CASE k = SmallestInteger
  <2>1. IsInteger(k) /\ k \in Seq(Int) /\ Len(k) = IntegerLength(k[1]) /\ Len(k) \in Nat
    BY <1>2, SmallestIs DEF IsInteger
  <2>2. SubSeq(k, 1, Len(k)) = k
    BY <2>1
  <2>3. SubSeq(k, Len(k) + 1, Len(k)) = <<>>
    BY <2>1
  <2>4. IntegerPart(k) = k /\ Fraction(k) = <<>>
    BY <2>1, <2>2, <2>3 DEF IntegerPart, Fraction
  <2>5. IsFraction(<<>>)
    BY DEF IsFraction, EndsInZero
  <2>6. k \o <<>> = k
    BY <2>1
  <2> QED
    BY <2>1, <2>4, <2>5, <2>6 DEF Readable
<1> QED
  BY <1>1, <1>2

LEMMA NumberIs ==
  ASSUME NEW k, Readable(k)
  PROVE  Number(k) \in Int
<1> DEFINE u == IntegerNumber(IntegerPart(k))
           p == Power[MaxFraction + 1]
           d == Digital[MaxFraction + 1][Fraction(k)]
<1>1. MaxFraction + 1 \in Nat
  BY LaneBounds
<1>2. u \in Int /\ p \in Nat /\ d \in Nat
  BY <1>1, IntegerNumberIs, DigitalFits, PowerIs DEF Readable, IsFraction
<1>3. Number(k) = u * p + d
  BY DEF Number
<1> HIDE DEF u, p, d
<1> QED
  BY <1>2, <1>3

\* Numbers with enough places for their fractions ascend as the keys do.
LEMMA NumbersAscend ==
  ASSUME NEW a, NEW b, Readable(a), Readable(b), Less(a, b), Len(Fraction(b)) <= MaxFraction + 1
  PROVE  Number(a) < Number(b)
<1> DEFINE x == IntegerPart(a)
           y == IntegerPart(b)
           f == Fraction(a)
           g == Fraction(b)
           n == MaxFraction + 1
<1>1. /\ IsInteger(x) /\ IsFraction(f) /\ a = x \o f
      /\ IsInteger(y) /\ IsFraction(g) /\ b = y \o g
  BY DEF Readable
<1>2. n \in Nat /\ Len(g) <= n
  BY LaneBounds
<1>3. /\ Number(a) = IntegerNumber(x) * Power[n] + Digital[n][f]
      /\ Number(b) = IntegerNumber(y) * Power[n] + Digital[n][g]
  BY DEF Number
<1> HIDE DEF x, y, f, g, n
<1>4. /\ f \in Seq(Digits) /\ g \in Seq(Digits) /\ ~ EndsInZero(g)
      /\ f \in Seq(Int) /\ g \in Seq(Int) /\ x \in Seq(Int) /\ y \in Seq(Int)
  BY <1>1, DigitsAreInts DEF IsFraction, IsInteger
<1>5. /\ Digital[n][f] \in Nat /\ Digital[n][f] < Power[n]
      /\ Digital[n][g] \in Nat
      /\ Power[n] \in Nat
  BY <1>2, <1>4, DigitalFits, PowerIs
<1>6. IntegerNumber(x) \in Int /\ IntegerNumber(y) \in Int
  BY <1>1, IntegerNumberIs
<1>7. IntegerNumber(x) * Power[n] \in Int /\ IntegerNumber(y) * Power[n] \in Int
  BY <1>5, <1>6
<1>8. CASE x = y
  <2>1. Less(f, g)
    BY <1>1, <1>4, <1>8, CommonPrefixDoesNotDecide
  <2>2. PICK i \in 1 .. Len(g) : /\ DigitAt(f, i) < g[i]
                                 /\ \A j \in 1 .. i - 1 : DigitAt(f, j) = g[j]
    BY <1>4, <2>1, FirstDifference
  <2>3. Len(g) \in Nat /\ i \in 1 .. n /\ \A j \in 1 .. i : j <= Len(g)
    BY <1>2, <1>4
  <2>4. DigitAt(f, i) < DigitAt(g, i) /\ \A j \in 1 .. i - 1 : DigitAt(f, j) = DigitAt(g, j)
    BY <2>2, <2>3 DEF DigitAt
  <2>5. Digital[n][f] < Digital[n][g]
    BY <1>2, <1>4, <2>3, <2>4, FirstDigitDecides
  <2> QED
    BY <1>3, <1>5, <1>7, <1>8, <2>5
<1>9. CASE x # y
  <2>1. ~ Less(y, x)
    <3> SUFFICES ASSUME Less(y, x) PROVE FALSE
      OBVIOUS
    <3>1. PICK i \in 1 .. Len(y) : PartAt(y, x, i)
      BY <1>1, IntegersDiffer
    <3>2. PartAt(b, a, i)
      BY <1>1, <1>4, <3>1, JoinsPart
    <3>3. a \in Seq(Int) /\ b \in Seq(Int)
      BY <1>1, <1>4, ConcatProperties
    <3>4. Less(b, a)
      BY <3>2, <3>3, PartIsLess
    <3> QED
      BY <3>3, <3>4, LessIsTransitive, LessIsStrict
  <2>2. Less(x, y)
    BY <1>4, <1>9, <2>1, LessIsTotal
  <2>3. PICK i \in 1 .. Len(x) : PartAt(x, y, i)
    BY <1>1, <2>2, IntegersDiffer
  <2>4. IntegerNumber(x) < IntegerNumber(y)
    BY <1>1, <2>3, IntegersAscend
  <2> DEFINE u == IntegerNumber(x)
             v == IntegerNumber(y)
             p == Power[n]
             d == Digital[n][f]
             e == Digital[n][g]
  <2>5. u \in Int /\ v \in Int /\ u < v /\ p \in Nat /\ d \in Int /\ d < p /\ e \in Int /\ e >= 0
    BY <1>5, <1>6, <2>4
  <2>6. Number(a) = u * p + d /\ Number(b) = v * p + e
    BY <1>3
  <2> HIDE DEF u, v, p, d, e
  <2>7. p * u + d < p * v + e
    BY ONLY <2>5, OneMoreDigit
  <2>8. p * u = u * p /\ p * v = v * p
    BY <2>5
  <2> QED
    BY <2>6, <2>7, <2>8
<1> QED
  BY <1>8, <1>9

-----------------------------------------------------------------------------
(* Sequences with an element more or less.                                 *)

LEMMA PutIntoList ==
  ASSUME NEW C, NEW r \in Seq(C), NEW c \in C, NEW slot \in 1 .. Len(r) + 1
  PROVE  /\ InsertAt(r, slot, c) \in Seq(C)
         /\ Len(InsertAt(r, slot, c)) = Len(r) + 1
         /\ \A j \in 1 .. Len(r) + 1 : InsertAt(r, slot, c)[j] =
               IF j < slot THEN r[j] ELSE IF j = slot THEN c ELSE r[j - 1]
<1> DEFINE a == SubSeq(r, 1, slot - 1)
           b == SubSeq(r, slot, Len(r))
           m == <<c>>
<1>1. a \in Seq(C) /\ Len(a) = slot - 1
  OBVIOUS
<1>2. b \in Seq(C) /\ Len(b) = Len(r) - slot + 1
  OBVIOUS
<1>3. \A j \in 1 .. slot - 1 : a[j] = r[j]
  OBVIOUS
<1>4. \A j \in 1 .. Len(r) - slot + 1 : b[j] = r[slot + j - 1]
  OBVIOUS
<1>5. m \in Seq(C) /\ Len(m) = 1 /\ m[1] = c
  OBVIOUS
<1>6. InsertAt(r, slot, c) = (a \o m) \o b
  BY DEF InsertAt
<1> HIDE DEF a, b, m
<1> DEFINE am == a \o m
           n == am \o b
<1>7. /\ am \in Seq(C) /\ Len(am) = slot
      /\ \A j \in 1 .. slot : am[j] = IF j < slot THEN r[j] ELSE c
  <2>1. /\ am \in Seq(C) /\ Len(am) = Len(a) + Len(m)
        /\ \A j \in 1 .. Len(a) + Len(m) : am[j] = IF j <= Len(a) THEN a[j] ELSE m[j - Len(a)]
    BY <1>1, <1>5, ConcatProperties
  <2> HIDE DEF am
  <2>2. Len(a) + Len(m) = slot
    BY <1>1, <1>5
  <2>3. ASSUME NEW j \in 1 .. slot
        PROVE  am[j] = IF j < slot THEN r[j] ELSE c
    BY <1>1, <1>3, <1>5, <2>1, <2>2
  <2> QED
    BY <2>1, <2>2, <2>3
<1> HIDE DEF am
<1>9. /\ n \in Seq(C) /\ Len(n) = Len(am) + Len(b)
      /\ \A j \in 1 .. Len(am) + Len(b) : n[j] = IF j <= Len(am) THEN am[j] ELSE b[j - Len(am)]
  BY <1>2, <1>7, ConcatProperties
<1>10. Len(am) + Len(b) = Len(r) + 1
  BY <1>2, <1>7
<1> HIDE DEF n
<1>11. ASSUME NEW j \in 1 .. Len(r) + 1
       PROVE  n[j] = IF j < slot THEN r[j] ELSE IF j = slot THEN c ELSE r[j - 1]
  <2>1. CASE j <= slot
    BY <1>7, <1>9, <1>10, <2>1
  <2>2. CASE j > slot
    <3>1. n[j] = b[j - slot]
      BY <1>7, <1>9, <1>10, <2>2
    <3>2. j - slot \in 1 .. Len(r) - slot + 1 /\ slot + (j - slot) - 1 = j - 1
      BY <2>2
    <3> QED
      BY <1>4, <2>2, <3>1, <3>2
  <2> QED
    BY <2>1, <2>2
<1> QED
  BY <1>6, <1>9, <1>10, <1>11 DEF n, am

LEMMA RemovedFromList ==
  ASSUME NEW C, NEW q \in Seq(C), NEW i \in 1 .. Len(q)
  PROVE  /\ RemoveAt(q, i) \in Seq(C)
         /\ Len(RemoveAt(q, i)) = Len(q) - 1
         /\ \A j \in 1 .. Len(q) - 1 : RemoveAt(q, i)[j] = q[IF j < i THEN j ELSE j + 1]
<1> DEFINE a == SubSeq(q, 1, i - 1)
           b == SubSeq(q, i + 1, Len(q))
<1>1. a \in Seq(C) /\ Len(a) = i - 1
  OBVIOUS
<1>2. b \in Seq(C) /\ Len(b) = Len(q) - i
  OBVIOUS
<1>3. \A j \in 1 .. i - 1 : a[j] = q[j]
  OBVIOUS
<1>4. \A j \in 1 .. Len(q) - i : b[j] = q[i + j]
  OBVIOUS
<1>5. RemoveAt(q, i) = a \o b
  BY DEF RemoveAt
<1> HIDE DEF a, b
<1>6. /\ a \o b \in Seq(C) /\ Len(a \o b) = Len(a) + Len(b)
      /\ \A j \in 1 .. Len(a) + Len(b) : (a \o b)[j] = IF j <= Len(a) THEN a[j] ELSE b[j - Len(a)]
  BY <1>1, <1>2, ConcatProperties
<1> DEFINE r == a \o b
<1> HIDE DEF r
<1>7. Len(a) + Len(b) = Len(q) - 1
  BY <1>1, <1>2
<1>8. ASSUME NEW j \in 1 .. Len(q) - 1
      PROVE  r[j] = q[IF j < i THEN j ELSE j + 1]
  <2>1. CASE j < i
    BY <1>1, <1>3, <1>6, <1>7, <2>1 DEF r
  <2>2. CASE ~ (j < i)
    <3>1. r[j] = b[j - (i - 1)]
      BY <1>1, <1>6, <1>7, <2>2 DEF r
    <3>2. j - (i - 1) \in 1 .. Len(q) - i /\ i + (j - (i - 1)) = j + 1
      BY <2>2
    <3> QED
      BY <1>4, <2>2, <3>1, <3>2
  <2> QED
    BY <2>1, <2>2
<1> QED
  BY <1>5, <1>6, <1>7, <1>8 DEF r

-----------------------------------------------------------------------------
(* The lane.  Its cards hold keys that generateKeyBetween accepts as       *)
(* bounds, but for a first card at the floor.                              *)

Stored(i) == Valid(lane[i]) \/ (i = 1 /\ lane[i] = SmallestInteger)

Lane == /\ lane \in Seq(Seq(Int)) /\ Len(lane) <= MaxCards
        /\ \A i \in DOMAIN lane : Stored(i)

Inv == Lane /\ KeysFollowLane

\* Whatever the lane has been through, what a gap gets is one of these.
GapGets(i, k) ==
  \/ /\ Valid(k)
     /\ i > 0 => Less(lane[i], k)
     /\ i < Len(lane) => Less(k, lane[i + 1])
  \/ /\ i = 0 /\ Len(lane) > 0 /\ lane[1] = Increment(SmallestInteger)
     /\ k = SmallestInteger /\ Less(k, lane[1])
  \/ /\ i \in {0, 1} /\ Len(lane) > 0 /\ lane[1] = SmallestInteger
     /\ k = NoKey

LEMMA StoredIsKey ==
  ASSUME Inv, NEW i \in DOMAIN lane
  PROVE  lane[i] \in Seq(Int) /\ lane[i] # NoKey
<1>1. Stored(i)
  BY DEF Inv, Lane
<1> QED
  BY <1>1, SmallestIs DEF Stored, Valid, IsOrderKey, NoKey, IsInteger

\* The bounds of a gap are its neighbours, where it has any.
LEMMA GapBounds ==
  ASSUME Inv, NEW i \in 0 .. Len(lane)
  PROVE  LET a == KeyAt(i)
             b == KeyAt(i + 1)
         IN  /\ i = 0 \/ i > 0
             /\ i = Len(lane) \/ i < Len(lane)
             /\ i = 0 => a = NoKey
             /\ i > 0 => i \in DOMAIN lane /\ a = lane[i] /\ a # NoKey
             /\ i = Len(lane) => b = NoKey
             /\ i < Len(lane) => i + 1 \in DOMAIN lane /\ b = lane[i + 1] /\ b # NoKey
             /\ a # NoKey /\ b # NoKey => Less(a, b)
<1> DEFINE a == KeyAt(i)
           b == KeyAt(i + 1)
<1>1. Len(lane) \in Nat /\ DOMAIN lane = 1 .. Len(lane)
  BY DEF Inv, Lane
<1>2. /\ i = 0 \/ i > 0
      /\ i = Len(lane) \/ i < Len(lane)
      /\ i = 0 => a = NoKey
      /\ i > 0 => i \in DOMAIN lane /\ a = lane[i] /\ a # NoKey
      /\ i = Len(lane) => b = NoKey
      /\ i < Len(lane) => i + 1 \in DOMAIN lane /\ b = lane[i + 1] /\ b # NoKey
  <2> DEFINE n == Len(lane)
  <2>1. /\ i \in Nat /\ i <= Len(lane)
        /\ i = 0 \/ i > 0
        /\ i = Len(lane) \/ i < Len(lane)
    <3>1. n \in Nat /\ i \in 0 .. n
      BY <1>1
    <3> HIDE DEF n
    <3>2. i \in Nat /\ i <= n /\ (i = 0 \/ i > 0) /\ (i = n \/ i < n)
      BY <3>1
    <3> QED
      BY <3>2 DEF n
  <2>2. i = 0 => i \notin DOMAIN lane
    BY <1>1
  <2>3. i > 0 => i \in DOMAIN lane
    BY <1>1
  <2>4. i = Len(lane) => i + 1 \notin DOMAIN lane
    BY <1>1
  <2>5. i < Len(lane) => i + 1 \in DOMAIN lane
    <3>1. n \in Nat /\ DOMAIN lane = 1 .. n
      BY ONLY <1>1
    <3>2. i \in Nat
      BY ONLY <2>1
    <3> HIDE DEF n
    <3>3. i < n => i + 1 \in 1 .. n
      BY ONLY <3>1, <3>2
    <3> QED
      BY <3>1, <3>3 DEF n
  <2>6. \A j \in DOMAIN lane : lane[j] # NoKey
    BY StoredIsKey
  <2>7. i = 0 => a = NoKey
    BY <2>2 DEF KeyAt
  <2>8. i > 0 => a = lane[i] /\ a # NoKey
    BY <2>3, <2>6 DEF KeyAt
  <2>9. i = Len(lane) => b = NoKey
    BY <2>4 DEF KeyAt
  <2>10. i < Len(lane) => b = lane[i + 1] /\ b # NoKey
    BY <2>5, <2>6 DEF KeyAt
  <2> QED
    BY <2>1, <2>3, <2>5, <2>7, <2>8, <2>9, <2>10
<1> HIDE DEF a, b
<1>3. a # NoKey /\ b # NoKey => Less(a, b)
  <2> SUFFICES ASSUME a # NoKey, b # NoKey
               PROVE  Less(a, b)
    OBVIOUS
  <2>1. i > 0 /\ i < Len(lane)
    BY <1>2
  <2>2. i < i + 1
    OBVIOUS
  <2>3. \A j \in DOMAIN lane : \A l \in DOMAIN lane : j < l => Less(lane[j], lane[l])
    BY DEF Inv, KeysFollowLane
  <2> QED
    BY <1>2, <2>1, <2>2, <2>3
<1> QED
  BY <1>2, <1>3 DEF a, b

LEMMA EveryGapGets ==
  ASSUME Inv, NEW i \in 0 .. Len(lane)
  PROVE  GapGets(i, Generated(i))
<1> DEFINE a == KeyAt(i)
           b == KeyAt(i + 1)
           k == GenerateKeyBetween(a, b)
<1>1. Len(lane) \in Nat /\ DOMAIN lane = 1 .. Len(lane)
  BY DEF Inv, Lane
<1>2. /\ i = 0 \/ i > 0
      /\ i = Len(lane) \/ i < Len(lane)
      /\ i = 0 => a = NoKey
      /\ i > 0 => i \in DOMAIN lane /\ a = lane[i] /\ a # NoKey
      /\ i = Len(lane) => b = NoKey
      /\ i < Len(lane) => i + 1 \in DOMAIN lane /\ b = lane[i + 1] /\ b # NoKey
  BY GapBounds
<1>3. \A j \in DOMAIN lane : Valid(lane[j]) \/ (j = 1 /\ lane[j] = SmallestInteger)
  BY DEF Inv, Lane, Stored
<1>4. a # NoKey /\ b # NoKey => Less(a, b)
  BY GapBounds
<1> HIDE DEF a, b
<1>5. Generated(i) = k
  BY DEF Generated, a, b
<1>6. CASE (a = NoKey \/ Valid(a)) /\ (b = NoKey \/ Valid(b))
  <2>1. /\ a # NoKey => Less(a, k)
        /\ b # NoKey => Less(k, b)
        /\ \/ Valid(k)
           \/ a = NoKey /\ b = Increment(SmallestInteger) /\ k = SmallestInteger
    BY ONLY <1>4, <1>6, KeyGoesBetween
  <2> HIDE DEF k
  <2>2. Increment(SmallestInteger) # NoKey
    BY SmallestUp, SmallestIs DEF NoKey
  <2>3. CASE Valid(k)
    BY <1>1, <1>2, <1>5, <2>1, <2>3 DEF GapGets
  <2>4. CASE a = NoKey /\ b = Increment(SmallestInteger) /\ k = SmallestInteger
    <3>1. i = 0 /\ i < Len(lane)
      <4>1. ~ (i > 0) /\ i # Len(lane)
        BY <1>2, <2>2, <2>4
      <4> QED
        BY <1>2, <4>1
    <3> QED
      BY <1>2, <1>5, <2>1, <2>2, <2>4, <3>1 DEF GapGets
  <2> QED
    BY <2>1, <2>3, <2>4
<1>7. CASE ~ ((a = NoKey \/ Valid(a)) /\ (b = NoKey \/ Valid(b)))
  <2>1. k = NoKey
    BY <1>7, StoredIsKey, <1>2 DEF GenerateKeyBetween, Valid
  <2> HIDE DEF k
  <2>2. i \in {0, 1} /\ Len(lane) > 0 /\ lane[1] = SmallestInteger
    <3>1. CASE a # NoKey /\ ~ Valid(a)
      <4>1. i > 0
        BY <1>2, <3>1
      <4>2. i = 1 /\ lane[1] = SmallestInteger
        BY <1>2, <1>3, <3>1, <4>1
      <4> QED
        BY <1>1, <4>2
    <3>2. CASE b # NoKey /\ ~ Valid(b)
      <4>1. i < Len(lane)
        BY <1>2, <3>2
      <4>2. i + 1 = 1 /\ lane[i + 1] = SmallestInteger
        BY <1>2, <1>3, <3>2, <4>1
      <4>3. i = 0
        BY <1>1, <4>2
      <4> QED
        BY <1>1, <4>1, <4>2, <4>3
    <3> QED
      BY <1>7, <3>1, <3>2
  <2> QED
    BY <1>5, <2>1, <2>2 DEF GapGets
<1> QED
  BY <1>6, <1>7

\* n keys fit into every gap of a reachable lane that is not at the floor.
LEMMA GapsOpen ==
  ASSUME Inv, NEW i \in 0 .. Len(lane), NEW n \in Nat \ {0}, ~ ReachesFloor(i, n)
  PROVE  Opens(n, KeyAt(i), KeyAt(i + 1))
<1> DEFINE a == KeyAt(i)
           b == KeyAt(i + 1)
<1>1. /\ i = 0 \/ i > 0
      /\ i = Len(lane) \/ i < Len(lane)
      /\ i = 0 => a = NoKey
      /\ i > 0 => i \in DOMAIN lane /\ a = lane[i] /\ a # NoKey
      /\ i = Len(lane) => b = NoKey
      /\ i < Len(lane) => i + 1 \in DOMAIN lane /\ b = lane[i + 1] /\ b # NoKey
      /\ a # NoKey /\ b # NoKey => Less(a, b)
  BY GapBounds
<1>2. \A j \in DOMAIN lane : Valid(lane[j]) \/ (j = 1 /\ lane[j] = SmallestInteger)
  BY DEF Inv, Lane, Stored
<1>3. Len(lane) \in Nat /\ i \in Nat /\ (i > 0 => i # 0)
  BY DEF Inv, Lane
<1> HIDE DEF a, b
<1>4. i = 0 /\ Len(lane) > 0 => n < Room(lane[1])
  BY RoomIs DEF ReachesFloor
<1>5. i = 1 => lane[1] # SmallestInteger
  BY DEF ReachesFloor
<1>6. ASSUME i < Len(lane) PROVE b = lane[i + 1] /\ Valid(b) /\ (i = 0 => n < Room(b))
  <2>1. b = lane[i + 1] /\ i + 1 \in DOMAIN lane /\ (i = 0 => i + 1 = 1 /\ Len(lane) > 0)
    BY <1>1, <1>6
  <2>2. i = 0 => n < Room(b)
    BY <1>4, <2>1
  <2>3. i # 0 => i + 1 # 1
    BY <1>3
  <2>4. i = 0 => b # SmallestInteger
    BY <2>2, NoRoomAtFloor
  <2> QED
    BY <1>2, <2>1, <2>2, <2>3, <2>4
<1>7. i > 0 => Valid(a)
  BY <1>1, <1>2, <1>5
<1>8. a = NoKey => ~ (i > 0)
  BY <1>1
<1>9. b # NoKey => i < Len(lane)
  BY <1>1
<1>10. Opens(n, a, b)
  BY <1>1, <1>6, <1>7, <1>8, <1>9 DEF Opens
<1> QED
  BY <1>10 DEF a, b

LEMMA InsertStep ==
  ASSUME Inv, NEW i \in 0 .. Len(lane), InsertBehind(i)
  PROVE  Inv'
<1> DEFINE k == Generated(i)
           n == Len(lane)
           s == i + 1
<1>1. n \in Nat /\ i \in Nat /\ i <= n /\ lane \in Seq(Seq(Int)) /\ DOMAIN lane = 1 .. n
  BY DEF Inv, Lane
<1>2. n < MaxCards /\ k # NoKey /\ lane' = InsertAt(lane, s, k)
  BY DEF InsertBehind
<1>3. GapGets(i, k)
  BY EveryGapGets
<1>4. /\ k \in Seq(Int)
      /\ i > 0 => Less(lane[i], k)
      /\ i < n => Less(k, lane[i + 1])
      /\ Valid(k) \/ (i = 0 /\ k = SmallestInteger)
  BY <1>2, <1>3, SmallestIs, <1>1 DEF GapGets, Valid, IsInteger
<1>5. \A j \in 1 .. n : lane[j] \in Seq(Int) /\ (Valid(lane[j]) \/ (j = 1 /\ lane[j] = SmallestInteger))
  BY <1>1, StoredIsKey DEF Inv, Lane, Stored
<1>6. \A j \in 1 .. n : \A l \in 1 .. n : j < l => Less(lane[j], lane[l])
  BY <1>1 DEF Inv, KeysFollowLane
<1>7. i = 0 /\ n > 0 => lane[1] # SmallestInteger
  <2> SUFFICES ASSUME i = 0, n > 0, lane[1] = SmallestInteger
               PROVE  FALSE
    OBVIOUS
  <2>1. 1 \in DOMAIN lane /\ 0 \notin DOMAIN lane
    BY <1>1
  <2>2. KeyAt(i) = NoKey /\ KeyAt(i + 1) = SmallestInteger
    BY <2>1 DEF KeyAt
  <2>3. SmallestInteger # NoKey /\ ~ IsOrderKey(SmallestInteger)
    BY SmallestIs DEF IsInteger, NoKey, IsOrderKey
  <2>4. k = NoKey
    BY <2>2, <2>3 DEF Generated, GenerateKeyBetween
  <2> QED
    BY <1>2, <2>4
<1>8. s \in 1 .. n + 1
  BY <1>1
<1> HIDE DEF k, s
<1>9. /\ lane' \in Seq(Seq(Int)) /\ Len(lane') = n + 1
      /\ \A j \in 1 .. n + 1 :
           lane'[j] = IF j < s THEN lane[j] ELSE IF j = s THEN k ELSE lane[j - 1]
  <2> DEFINE C == Seq(Int)
  <2>1. lane \in Seq(C) /\ k \in C /\ s \in 1 .. Len(lane) + 1
    BY <1>1, <1>4, <1>8
  <2> HIDE DEF C
  <2>2. LET r == InsertAt(lane, s, k)
        IN  /\ r \in Seq(C) /\ Len(r) = Len(lane) + 1
            /\ \A j \in 1 .. Len(lane) + 1 :
                 r[j] = IF j < s THEN lane[j] ELSE IF j = s THEN k ELSE lane[j - 1]
    BY <2>1, PutIntoList
  <2> QED
    BY <1>2, <2>2 DEF C
<1>10. s = i + 1
  BY DEF s
<1> HIDE DEF n
<1>11. \A j \in 1 .. n + 1 :
         /\ j < s => j \in 1 .. n /\ j \in 1 .. i
         /\ j > s => j - 1 \in 1 .. n /\ j - 1 \in i + 1 .. n /\ ~ (j < s) /\ j # s
         /\ j < s \/ j = s \/ j > s
         /\ j = s => ~ (j < s)
  BY <1>1, <1>10
<1>12. \A j \in 1 .. n + 1 :
         /\ j < s => lane'[j] = lane[j]
         /\ j = s => lane'[j] = k
         /\ j > s => lane'[j] = lane[j - 1]
  BY <1>9, <1>11
<1>13. DOMAIN lane' = 1 .. n + 1 /\ Len(lane') <= MaxCards
  <2>1. n + 1 <= MaxCards
    BY <1>1, <1>2, LaneBounds
  <2> QED
    BY <1>9, <2>1
<1>14. \A j \in 1 .. n + 1 : Stored(j)'
  <2> SUFFICES ASSUME NEW j \in 1 .. n + 1
               PROVE  Valid(lane'[j]) \/ (j = 1 /\ lane'[j] = SmallestInteger)
    BY DEF Stored
  <2>1. CASE j < s
    <3>1. j \in 1 .. n /\ lane'[j] = lane[j]
      BY <1>11, <1>12, <2>1
    <3> QED
      BY <1>5, <3>1
  <2>2. CASE j = s
    <3>1. lane'[j] = k
      BY <1>12, <2>2
    <3>2. i = 0 => j = 1
      BY <1>10, <2>2
    <3> QED
      BY <1>4, <3>1, <3>2
  <2>3. CASE j > s
    <3>1. j - 1 \in 1 .. n /\ lane'[j] = lane[j - 1]
      BY <1>11, <1>12, <2>3
    <3>2. j - 1 # 1 \/ lane[1] # SmallestInteger
      <4>1. j - 1 = 1 => i = 0 /\ n > 0
        BY <1>1, <1>10, <2>3, <3>1
      <4> QED
        BY <1>7, <4>1
    <3> QED
      BY <1>5, <3>1, <3>2
  <2> QED
    BY <1>11, <2>1, <2>2, <2>3
<1>15. \A j \in 1 .. i : Less(lane[j], k)
  <2> SUFFICES ASSUME NEW j \in 1 .. i
               PROVE  Less(lane[j], k)
    OBVIOUS
  <2>1. j \in 1 .. n /\ i \in 1 .. n /\ i > 0 /\ (j = i \/ j < i)
    BY <1>1
  <2>2. Less(lane[i], k) /\ (j < i => Less(lane[j], lane[i]))
    BY <1>4, <1>6, <2>1
  <2> QED
    BY <1>4, <1>5, <2>1, <2>2, LessIsTransitive
<1>16. \A j \in i + 1 .. n : Less(k, lane[j])
  <2> SUFFICES ASSUME NEW j \in i + 1 .. n
               PROVE  Less(k, lane[j])
    OBVIOUS
  <2>1. j \in 1 .. n /\ i + 1 \in 1 .. n /\ i < n /\ (j = i + 1 \/ i + 1 < j)
    BY <1>1
  <2>2. Less(k, lane[i + 1]) /\ (i + 1 < j => Less(lane[i + 1], lane[j]))
    BY <1>4, <1>6, <2>1
  <2> QED
    BY <1>4, <1>5, <2>1, <2>2, LessIsTransitive
<1>17. ASSUME NEW j \in 1 .. n + 1, NEW l \in 1 .. n + 1, j < l
       PROVE  Less(lane'[j], lane'[l])
  <2>1. CASE l < s
    <3>1. j \in 1 .. n /\ l \in 1 .. n /\ lane'[j] = lane[j] /\ lane'[l] = lane[l]
      BY <1>11, <1>12, <1>17, <2>1
    <3> QED
      BY <1>6, <1>17, <3>1
  <2>2. CASE l = s
    <3>1. j \in 1 .. i /\ lane'[j] = lane[j] /\ lane'[l] = k
      BY <1>11, <1>12, <1>17, <2>2
    <3> QED
      BY <1>15, <3>1
  <2>3. CASE l > s /\ j < s
    <3>1. /\ j \in 1 .. n /\ l - 1 \in 1 .. n /\ j < l - 1
          /\ lane'[j] = lane[j] /\ lane'[l] = lane[l - 1]
      BY <1>11, <1>12, <2>3
    <3> QED
      BY <1>6, <3>1
  <2>4. CASE l > s /\ j = s
    <3>1. l - 1 \in i + 1 .. n /\ lane'[j] = k /\ lane'[l] = lane[l - 1]
      BY <1>11, <1>12, <2>4
    <3> QED
      BY <1>16, <3>1
  <2>5. CASE l > s /\ j > s
    <3>1. /\ j - 1 \in 1 .. n /\ l - 1 \in 1 .. n /\ j - 1 < l - 1
          /\ lane'[j] = lane[j - 1] /\ lane'[l] = lane[l - 1]
      BY <1>11, <1>12, <1>17, <2>5
    <3> QED
      BY <1>6, <3>1
  <2> QED
    BY <1>11, <2>1, <2>2, <2>3, <2>4, <2>5
<1> QED
  BY <1>9, <1>13, <1>14, <1>17 DEF Inv, Lane, KeysFollowLane

LEMMA LeaveStep ==
  ASSUME Inv, NEW i \in 1 .. Len(lane), Leave(i)
  PROVE  Inv'
<1> DEFINE n == Len(lane)
<1>1. n \in Nat /\ lane \in Seq(Seq(Int)) /\ DOMAIN lane = 1 .. n /\ n <= MaxCards /\ i \in 1 .. n
  BY DEF Inv, Lane
<1>2. \A j \in 1 .. n : Valid(lane[j]) \/ (j = 1 /\ lane[j] = SmallestInteger)
  BY <1>1 DEF Inv, Lane, Stored
<1>3. \A j \in 1 .. n : \A l \in 1 .. n : j < l => Less(lane[j], lane[l])
  BY <1>1 DEF Inv, KeysFollowLane
<1>4. /\ lane' \in Seq(Seq(Int)) /\ Len(lane') = n - 1
      /\ \A j \in 1 .. n - 1 : lane'[j] = lane[IF j < i THEN j ELSE j + 1]
  BY <1>1, RemovedFromList DEF Leave
<1> HIDE DEF n
<1>5. DOMAIN lane' = 1 .. n - 1 /\ Len(lane') <= MaxCards
  <2>1. n - 1 <= MaxCards
    BY <1>1, LaneBounds
  <2> QED
    BY <1>4, <2>1
<1>6. \A j \in 1 .. n - 1 : Stored(j)'
  <2> SUFFICES ASSUME NEW j \in 1 .. n - 1
               PROVE  Valid(lane'[j]) \/ (j = 1 /\ lane'[j] = SmallestInteger)
    BY DEF Stored
  <2>1. CASE j < i
    <3>1. j \in 1 .. n /\ lane'[j] = lane[j]
      BY <1>1, <1>4, <2>1
    <3> QED
      BY <1>2, <3>1
  <2>2. CASE ~ (j < i)
    <3>1. j + 1 \in 1 .. n /\ j + 1 # 1 /\ lane'[j] = lane[j + 1]
      BY <1>1, <1>4, <2>2
    <3> QED
      BY <1>2, <3>1
  <2> QED
    BY <2>1, <2>2
<1>7. ASSUME NEW j \in 1 .. n - 1, NEW l \in 1 .. n - 1, j < l
      PROVE  Less(lane'[j], lane'[l])
  <2> DEFINE p == IF j < i THEN j ELSE j + 1
             q == IF l < i THEN l ELSE l + 1
  <2>1. p \in 1 .. n /\ q \in 1 .. n /\ p < q
    BY <1>1, <1>7
  <2>2. lane'[j] = lane[p] /\ lane'[l] = lane[q]
    BY <1>4
  <2> QED
    BY <1>3, <2>1, <2>2
<1> QED
  BY <1>4, <1>5, <1>6, <1>7 DEF Inv, Lane, KeysFollowLane

LEMMA InvHolds == Spec => []Inv
<1>1. Init => Inv
  BY LaneBounds DEF Init, Inv, Lane, KeysFollowLane
<1>2. Inv /\ [Next]_lane => Inv'
  <2> SUFFICES ASSUME Inv, [Next]_lane
               PROVE  Inv'
    OBVIOUS
  <2>1. CASE \E i \in 0 .. Len(lane) : InsertBehind(i)
    BY <2>1, InsertStep
  <2>2. CASE \E i \in 1 .. Len(lane) : Leave(i)
    BY <2>2, LeaveStep
  <2>3. CASE UNCHANGED lane
    BY <2>3 DEF Inv, Lane, Stored, KeysFollowLane
  <2> QED
    BY <2>1, <2>2, <2>3 DEF Next
<1> QED
  BY <1>1, <1>2, PTL DEF Spec

-----------------------------------------------------------------------------
\* The lane is always a list of at most MaxCards keys, and no card is ever
\* given the key of a call that threw.
THEOREM TypeCorrect == Spec => []TypeOK
<1>1. Inv => TypeOK
  <2> SUFFICES ASSUME Inv
               PROVE  TypeOK
    OBVIOUS
  <2> QED
    BY StoredIsKey DEF TypeOK, Inv, Lane
<1> QED
  BY <1>1, InvHolds, PTL

\* After any history of insertions and departures the keys are in the order
\* in which the cards were placed, for keys of any length.
THEOREM OrderIsKept == Spec => []KeysFollowLane
<1>1. Inv => KeysFollowLane
  BY DEF Inv
<1> QED
  BY <1>1, InvHolds, PTL

\* Every gap of every reachable lane gets a valid key strictly inside it; the
\* only exceptions are at the floor of the key space.
THEOREM GapsStayOpen == Spec => []EveryGapOpens
<1>1. Inv => EveryGapOpens
  <2> SUFFICES ASSUME Inv, NEW i \in 0 .. Len(lane)
               PROVE  LET k == Generated(i)
                      IN  \/ /\ IsOrderKey(k)
                             /\ i > 0 => Less(lane[i], k)
                             /\ i < Len(lane) => Less(k, lane[i + 1])
                          \/ /\ i = 0 /\ Len(lane) > 0 /\ lane[1] \in Floor
                             /\ k \in {NoKey, SmallestInteger}
                          \/ i = 1 /\ lane[1] = SmallestInteger /\ k = NoKey
    BY DEF EveryGapOpens
  <2>1. GapGets(i, Generated(i))
    BY EveryGapGets
  <2> QED
    BY <2>1 DEF GapGets, Floor, Valid
<1> QED
  BY <1>1, InvHolds, PTL

\* The order of the strings in every reachable lane, and of what goes into its
\* gaps, is the order of the numbers they denote.
THEOREM StringOrderIsNumeric == Spec => []OrderIsNumeric
<1>1. ASSUME Inv PROVE OrderIsNumeric
  <2> DEFINE keys == Range(lane) \cup ({Generated(i) : i \in 0 .. Len(lane)} \ {NoKey})
  <2>1. ASSUME NEW k \in keys PROVE Valid(k) \/ k = SmallestInteger
    <3>1. CASE k \in Range(lane)
      <4>1. PICK i \in DOMAIN lane : k = lane[i]
        BY <3>1 DEF Range
      <4>2. Stored(i)
        BY <1>1 DEF Inv, Lane
      <4> QED
        BY <4>1, <4>2 DEF Stored
    <3>2. CASE k \notin Range(lane)
      <4>1. PICK i \in 0 .. Len(lane) : k = Generated(i) /\ k # NoKey
        BY <3>2
      <4>2. GapGets(i, k)
        BY <1>1, <4>1, EveryGapGets
      <4> QED
        BY <4>1, <4>2 DEF GapGets
    <3> QED
      BY <3>1, <3>2
  <2> HIDE DEF keys
  <2>2. \A k \in keys : k \in Seq(Int) /\ Readable(k)
    BY <2>1, KeysAreReadable, SmallestIs DEF Valid, IsInteger
  <2> DEFINE fits == {k \in keys : Len(Fraction(k)) <= MaxFraction + 1}
  <2>3. ASSUME NEW a \in fits, NEW b \in fits, Less(a, b)
        PROVE  Number(a) < Number(b)
    BY <2>2, <2>3, NumbersAscend
  <2>4. ASSUME NEW a \in fits, NEW b \in fits PROVE Less(a, b) <=> Number(a) < Number(b)
    <3>1. /\ a \in Seq(Int) /\ b \in Seq(Int)
          /\ Number(a) \in Int /\ Number(b) \in Int
      BY <2>2, NumberIs
    <3>2. ASSUME Number(a) < Number(b) PROVE Less(a, b)
      <4>1. CASE a = b
        BY <3>1, <3>2, <4>1
      <4>2. CASE a # b
        BY <2>3, <3>1, <3>2, <4>2, LessIsTotal
      <4> QED
        BY <4>1, <4>2
    <3> QED
      BY <2>3, <3>2
  <2> QED
    BY <2>4 DEF OrderIsNumeric, keys
<1> QED
  BY <1>1, InvHolds, PTL

\* generateNKeysBetween fills every gap of every reachable lane with as many
\* keys as one asks for, unless they run into the floor.
THEOREM GapsTakeMany == Spec => []BulkKeysFit
<1>1. ASSUME Inv PROVE BulkKeysFit
  <2> SUFFICES ASSUME NEW i \in 0 .. Len(lane), NEW n \in 1 .. MaxBulk, ~ ReachesFloor(i, n)
               PROVE  LET a  == KeyAt(i)
                          b  == KeyAt(i + 1)
                          ks == GenerateNKeysBetween[n][<<a, b>>]
                      IN  /\ Len(ks) = n
                          /\ \A j \in 1 .. n : IsOrderKey(ks[j])
                          /\ \A j \in 1 .. n - 1 : Less(ks[j], ks[j + 1])
                          /\ a # NoKey => Less(a, ks[1])
                          /\ b # NoKey => Less(ks[n], b)
    BY DEF BulkKeysFit
  <2> DEFINE a  == KeyAt(i)
             b  == KeyAt(i + 1)
             ks == GenerateNKeysBetween[n][<<a, b>>]
  <2>1. n \in Nat \ {0} /\ n \in Nat
    BY LaneBounds
  <2>2. Opens(n, a, b)
    BY <1>1, <2>1, GapsOpen
  <2>3. Fits(n, a, b, ks)
    BY <2>1, <2>2, BulkFits
  <2> HIDE DEF a, b, ks
  <2>4. 1 \in 1 .. n /\ n \in 1 .. n /\ \A j \in 1 .. n - 1 : j \in 1 .. n /\ j + 1 \in 1 .. n /\ j < j + 1
    BY <2>1
  <2>5. /\ Len(ks) = n
        /\ \A j \in 1 .. n : IsOrderKey(ks[j]) /\ Inside(a, ks[j], b)
        /\ \A j \in 1 .. n - 1 : Less(ks[j], ks[j + 1])
    BY <2>3, <2>4 DEF Fits, Valid
  <2>6. (a # NoKey => Less(a, ks[1])) /\ (b # NoKey => Less(ks[n], b))
    BY <2>4, <2>5 DEF Inside
  <2> QED
    BY <2>5, <2>6 DEF a, b, ks
<1> QED
  BY <1>1, InvHolds, PTL

\* No two cards of the lane have the same key: UNIQUE (status, rank)
\* (0001_init.sql:25-28) never refuses what generateKeyBetween made.
THEOREM KeysDiffer == Spec => [](\A i, j \in DOMAIN lane : i # j => lane[i] # lane[j])
<1>1. ASSUME Inv
      PROVE  \A i, j \in DOMAIN lane : i # j => lane[i] # lane[j]
  <2> SUFFICES ASSUME NEW i \in DOMAIN lane, NEW j \in DOMAIN lane, i # j, lane[i] = lane[j]
               PROVE  FALSE
    OBVIOUS
  <2>1. i \in Int /\ j \in Int /\ lane[i] \in Seq(Int)
    BY <1>1, StoredIsKey DEF Inv, Lane
  <2>2. ~ Less(lane[i], lane[j]) /\ ~ Less(lane[j], lane[i])
    BY <2>1, LessIsStrict
  <2>3. i < j \/ j < i
    BY <2>1
  <2> QED
    BY <1>1, <2>2, <2>3 DEF Inv, KeysFollowLane
<1> QED
  BY <1>1, InvHolds, PTL
=============================================================================
