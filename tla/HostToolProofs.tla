--------------------------- MODULE HostToolProofs ---------------------------
(***************************************************************************)
(* Proofs about HostArguments, for every size of a key ID and a number,    *)
(* every set of characters and all texts over it; and, in the second part, *)
(* about HostTool, for every number of processes, paths, cells of a file   *)
(* and runs, and every set of commands.                                    *)
(***************************************************************************)
EXTENDS HostTool, HostArguments, WellFoundedInduction, TLAPS

\* The texts of HostArguments: recursion and induction over numbers.

\* A set of numbers that is not empty has a least one: the induction the
\* library offers for an operator, for a set.
LEMMA Least ==
  ASSUME NEW T \in SUBSET Nat, T # {}
  PROVE  \E m \in T : \A n \in T : m <= n
<1>1. PICK m \in T : \A n \in T : ~(<<n, m>> \in OpToRel(<, Nat))
  BY WFMin, NatLessThanWellFounded
<1>2. ASSUME NEW n \in T
      PROVE  ~(n < m)
  BY <1>1 DEF OpToRel
<1>3. \A n \in T : m <= n
  BY <1>2
<1> QED  BY <1>3

\* A set of numbers that each number is in if those below it are.
LEMMA InductionBelow ==
  ASSUME NEW N \in Nat, NEW T,
         \A n \in 0 .. N : (\A m \in 0 .. n - 1 : m \in T) => n \in T
  PROVE  \A n \in 0 .. N : n \in T
<1> DEFINE Left == {n \in 0 .. N : n \notin T}
<1>1. ASSUME NEW m \in Left, \A n \in Left : m <= n
      PROVE  FALSE
  BY <1>1
<1>2. Left \in SUBSET Nat
  OBVIOUS
<1> HIDE DEF Left
<1>3. Left = {}
  BY <1>1, <1>2, Least
<1> QED  BY <1>3 DEF Left

\* The same with the step from each number to the next.
LEMMA InductionStep ==
  ASSUME NEW N \in Nat, NEW T, 0 \in T, \A n \in 1 .. N : n - 1 \in T => n \in T
  PROVE  \A n \in 0 .. N : n \in T
<1>1. ASSUME NEW n \in 0 .. N, \A m \in 0 .. n - 1 : m \in T
      PROVE  n \in T
  BY <1>1
<1> QED  BY <1>1, InductionBelow

\* A recursion over 0 .. N with values in T: at n it stops with B[n] or goes on
\* from its value at p[n], which is less.
Recurses(N, T, stop, p, B, F) ==
  /\ stop \in SUBSET (0 .. N) /\ B \in [0 .. N -> T] /\ F \in [(0 .. N) \X T -> T]
  /\ p \in [0 .. N -> 0 .. N] /\ \A n \in (0 .. N) \ stop : p[n] < n

Solves(g, N, stop, p, B, F) ==
  \A n \in 0 .. N : g[n] = IF n \in stop THEN B[n] ELSE F[<<n, g[p[n]]>>]

\* The function that such a recursion defines exists.
LEMMA Recursion ==
  ASSUME NEW N \in Nat, NEW T, NEW stop, NEW p, NEW B, NEW F,
         Recurses(N, T, stop, p, B, F)
  PROVE  \E g \in [0 .. N -> T] : Solves(g, N, stop, p, B, F)
<1> USE DEF Recurses, Solves
<1> DEFINE Reached == {k \in 0 .. N : \E g \in [0 .. k -> T] : Solves(g, k, stop, p, B, F)}
<1>1. 0 \in Reached
  <2>1. 0 \in stop
    OBVIOUS
  <2>2. [n \in 0 .. 0 |-> B[n]] \in [0 .. 0 -> T]
    OBVIOUS
  <2>3. Solves([n \in 0 .. 0 |-> B[n]], 0, stop, p, B, F)
    BY <2>1
  <2>4. \E g \in [0 .. 0 -> T] : Solves(g, 0, stop, p, B, F)
    BY <2>2, <2>3
  <2> QED  BY <2>4
<1>2. ASSUME NEW k \in 1 .. N, k - 1 \in Reached
      PROVE  k \in Reached
  <2>1. PICK r \in [0 .. k - 1 -> T] : Solves(r, k - 1, stop, p, B, F)
    BY <1>2
  <2> DEFINE h == [n \in 0 .. k |->
                     IF n < k THEN r[n] ELSE IF n \in stop THEN B[n] ELSE F[<<n, r[p[n]]>>]]
  <2>2. k \notin stop => p[k] \in 0 .. k - 1
    OBVIOUS
  <2>3. ASSUME NEW n \in 0 .. k PROVE h[n] \in T
    <3>1. CASE n < k
      BY <3>1
    <3>2. CASE n = k /\ n \in stop
      BY <3>2
    <3>3. CASE n = k /\ n \notin stop
      <4>1. r[p[n]] \in T
        BY <3>3, <2>2
      <4>2. n \in 0 .. N
        OBVIOUS
      <4>3. <<n, r[p[n]]>> \in (0 .. N) \X T
        BY <4>1, <4>2
      <4> QED  BY <3>3, <4>3
    <3> QED  BY <3>1, <3>2, <3>3
  <2>4. h \in [0 .. k -> T]
    BY <2>3
  <2>5. ASSUME NEW n \in 0 .. k
        PROVE  h[n] = IF n \in stop THEN B[n] ELSE F[<<n, h[p[n]]>>]
    <3>1. n \notin stop => p[n] \in 0 .. k - 1 /\ h[p[n]] = r[p[n]]
      <4>1. n \notin stop => p[n] \in 0 .. k - 1
        BY SMTT(60)
      <4>2. \A m \in 0 .. k - 1 : h[m] = r[m]
        OBVIOUS
      <4> HIDE DEF h
      <4> QED  BY <4>1, <4>2
    <3>2. CASE n < k
      <4>1. n \in 0 .. k - 1 /\ h[n] = r[n]
        BY <3>2
      <4>2. r[n] = IF n \in stop THEN B[n] ELSE F[<<n, r[p[n]]>>]
        BY <2>1, <4>1
      <4> HIDE DEF h
      <4> QED  BY <3>1, <4>1, <4>2
    <3>3. CASE n = k
      <4>1. h[n] = IF n \in stop THEN B[n] ELSE F[<<n, r[p[n]]>>]
        BY <3>3
      <4> HIDE DEF h
      <4> QED  BY <3>1, <4>1
    <3> QED  BY <3>2, <3>3
  <2> HIDE DEF h
  <2>6. Solves(h, k, stop, p, B, F)
    BY <2>5
  <2>7. \E g \in [0 .. k -> T] : Solves(g, k, stop, p, B, F)
    BY <2>4, <2>6
  <2> HIDE DEF Solves
  <2> QED  BY <2>7
<1> HIDE DEF Reached
<1>3. \A n \in 0 .. N : n \in Reached
  BY <1>1, <1>2, InductionStep
<1>4. N \in Reached
  BY <1>3
<1> QED  BY <1>4 DEF Reached
-----------------------------------------------------------------------------
\* The recursive functions of the model, each as the steps it takes.
LEMMA NumeralSteps ==
  ASSUME NEW number \in Nat, NEW radix \in {10, 16}
  PROVE  \E g \in [0 .. number -> Seq(Characters)] :
           /\ Numeral(number, radix) = g[number]
           /\ \A n \in 0 .. number :
                g[n] = IF n < radix THEN <<Lower[n + 1]>>
                       ELSE Append(g[n \div radix], Lower[(n % radix) + 1])
<1> DEFINE R(g) == g = [n \in 0 .. number |->
                          IF n < radix THEN <<Lower[n + 1]>>
                          ELSE Append(g[n \div radix], Lower[(n % radix) + 1])]
           stop == {n \in 0 .. number : n < radix}
           p == [n \in 0 .. number |-> n \div radix]
           B == [n \in 0 .. number |-> IF n < radix THEN <<Lower[n + 1]>> ELSE << >>]
           F == [x \in (0 .. number) \X Seq(Characters) |->
                   Append(x[2], Lower[(x[1] % radix) + 1])]
<1>1. ASSUME NEW n \in 0 .. 15 PROVE Lower[n + 1] \in Characters
  BY TextsAssumption
<1>2. ASSUME NEW n \in 0 .. number
      PROVE  /\ n \div radix \in 0 .. number /\ n % radix \in 0 .. 15
             /\ n >= radix => n \div radix < n
  OBVIOUS
<1>3. p \in [0 .. number -> 0 .. number] /\ \A n \in (0 .. number) \ stop : p[n] < n
  BY <1>2
<1>4. B \in [0 .. number -> Seq(Characters)]
  <2>1. ASSUME NEW n \in 0 .. number
        PROVE  (IF n < radix THEN <<Lower[n + 1]>> ELSE << >>) \in Seq(Characters)
    <3>1. CASE n < radix
      <4>1. Lower[n + 1] \in Characters
        BY <3>1, <1>1
      <4> QED  BY <3>1, <4>1
    <3>2. CASE ~(n < radix)
      BY <3>2
    <3> QED  BY <3>1, <3>2
  <2> QED  BY <2>1
<1>5. F \in [(0 .. number) \X Seq(Characters) -> Seq(Characters)]
  <2>1. ASSUME NEW x \in (0 .. number) \X Seq(Characters)
        PROVE  Append(x[2], Lower[(x[1] % radix) + 1]) \in Seq(Characters)
    <3>1. x[1] \in 0 .. number /\ x[2] \in Seq(Characters)
      OBVIOUS
    <3>2. Lower[(x[1] % radix) + 1] \in Characters
      BY <3>1, <1>1, <1>2
    <3> QED  BY <3>1, <3>2
  <2> QED  BY <2>1
<1>6. \E g \in [0 .. number -> Seq(Characters)] :
        \A n \in 0 .. number : g[n] = IF n \in stop THEN B[n] ELSE F[<<n, g[p[n]]>>]
  <2>1. stop \in SUBSET (0 .. number)
    OBVIOUS
  <2>2. Recurses(number, Seq(Characters), stop, p, B, F)
    <3> HIDE DEF p, B, F, stop
    <3> QED  BY <1>3, <1>4, <1>5, <2>1 DEF Recurses
  <2> HIDE DEF p, B, F, stop
  <2>3. \E g \in [0 .. number -> Seq(Characters)] : Solves(g, number, stop, p, B, F)
    BY <2>2, Recursion
  <2> QED  BY <2>3 DEF Solves
<1>7. \E g \in [0 .. number -> Seq(Characters)] : R(g)
  <2>1. PICK g \in [0 .. number -> Seq(Characters)] :
          \A n \in 0 .. number : g[n] = IF n \in stop THEN B[n] ELSE F[<<n, g[p[n]]>>]
    BY <1>6
  <2>2. ASSUME NEW n \in 0 .. number
        PROVE  g[n] = IF n < radix THEN <<Lower[n + 1]>>
                      ELSE Append(g[n \div radix], Lower[(n % radix) + 1])
    BY <1>2, <2>1
  <2>3. R(g)
    BY <2>2
  <2> QED  BY <2>3
<1> DEFINE f == CHOOSE g : R(g)
<1>8. Numeral(number, radix) = f[number]
  BY Zenon DEF Numeral
<1>9. R(f)
  BY <1>7, Zenon
<1> HIDE DEF f
<1>10. \A n \in 0 .. number :
         f[n] = IF n < radix THEN <<Lower[n + 1]>>
                ELSE Append(f[n \div radix], Lower[(n % radix) + 1])
  BY <1>9
<1>11. f \in [0 .. number -> Seq(Characters)]
  <2> DEFINE S == {n \in 0 .. number : f[n] \in Seq(Characters)}
  <2>1. ASSUME NEW n \in 0 .. number, \A m \in 0 .. n - 1 : m \in S
        PROVE  n \in S
    <3>1. CASE n < radix
      <4>1. Lower[n + 1] \in Characters
        BY <3>1, <1>1
      <4> DEFINE c == Lower[n + 1]
      <4>2. f[n] = <<c>> /\ c \in Characters
        BY <3>1, <4>1, <1>10
      <4> HIDE DEF c
      <4>3. <<c>> \in Seq(Characters)
        BY <4>2
      <4> QED  BY <4>2, <4>3
    <3>2. CASE ~(n < radix)
      <4>1. f[n \div radix] \in Seq(Characters)
        BY <3>2, <1>2, <2>1
      <4>2. Lower[(n % radix) + 1] \in Characters
        BY <1>1, <1>2
      <4>3. f[n] = Append(f[n \div radix], Lower[(n % radix) + 1])
        BY <3>2, <1>10
      <4>4. f[n] \in Seq(Characters)
        <5> DEFINE e == f[n \div radix]
                   c == Lower[(n % radix) + 1]
        <5>1. e \in Seq(Characters) /\ c \in Characters /\ f[n] = Append(e, c)
          BY <4>1, <4>2, <4>3
        <5> HIDE DEF e, c
        <5>2. Append(e, c) \in Seq(Characters)
          BY <5>1
        <5> QED  BY <5>1, <5>2
      <4> QED  BY <4>4
    <3> QED  BY <3>1, <3>2
  <2> HIDE DEF S
  <2>2. \A n \in 0 .. number : n \in S
    BY <2>1, InductionBelow
  <2>3. \A n \in 0 .. number : f[n] \in Seq(Characters)
    BY <2>2 DEF S
  <2> QED  BY <1>9, <2>3
<1> QED  BY <1>8, <1>10, <1>11

\* Two digits are the same in either case.
LEMMA DigitsApart ==
  ASSUME NEW c, NEW d \in DigitsOf(c), NEW e \in DigitsOf(c)
  PROVE  d = e
<1>1. \A n, m \in 1 .. 16 : n # m => Lower[n] # Lower[m]
  BY DEF Lower
<1>2. \A n, m \in 1 .. 16 : n # m => Lower[n] # Upper[m]
  BY DEF Lower, Upper
<1>3. \A n, m \in 1 .. 16 : n # m => Upper[n] # Upper[m]
  BY DEF Upper
<1>4. d \in 0 .. 15 /\ e \in 0 .. 15 /\ c \in {Lower[d + 1], Upper[d + 1]}
      /\ c \in {Lower[e + 1], Upper[e + 1]}
  BY DEF DigitsOf
<1>5. d + 1 \in 1 .. 16 /\ e + 1 \in 1 .. 16
  BY <1>4
<1> QED  BY <1>1, <1>2, <1>3, <1>4, <1>5

LEMMA DigitOfLower ==
  ASSUME NEW d \in 0 .. 15
  PROVE  DigitsOf(Lower[d + 1]) = {d}
<1>1. d \in DigitsOf(Lower[d + 1])
  BY DEF DigitsOf
<1> QED  BY <1>1, DigitsApart

\* No sign, dot or x is a digit.
LEMMA NoDigits ==
  ASSUME NEW c \in {"+", ".", "x", "X"}
  PROVE  DigitsOf(c) = {}
<1>1. \A n \in 1 .. 16 : Lower[n] # c /\ Upper[n] # c
  BY DEF Lower, Upper
<1> QED  BY <1>1 DEF DigitsOf

\* A numeral is that of all but the last digit, and the last digit.
LEMMA NumeralIs ==
  ASSUME NEW m \in Nat, NEW radix \in {10, 16}
  PROVE  /\ Numeral(m, radix) \in Seq(Characters)
         /\ m < radix => Numeral(m, radix) = <<Lower[m + 1]>>
         /\ m >= radix =>
              Numeral(m, radix) = Append(Numeral(m \div radix, radix), Lower[(m % radix) + 1])
<1> DEFINE q == m \div radix
<1>1. q \in 0 .. m /\ q \in Nat
  OBVIOUS
<1> HIDE DEF q
<1>2. PICK g \in [0 .. m -> Seq(Characters)] :
        /\ Numeral(m, radix) = g[m]
        /\ \A n \in 0 .. m :
             g[n] = IF n < radix THEN <<Lower[n + 1]>>
                    ELSE Append(g[n \div radix], Lower[(n % radix) + 1])
  BY NumeralSteps
<1>3. PICK h \in [0 .. q -> Seq(Characters)] :
        /\ Numeral(q, radix) = h[q]
        /\ \A n \in 0 .. q :
             h[n] = IF n < radix THEN <<Lower[n + 1]>>
                    ELSE Append(h[n \div radix], Lower[(n % radix) + 1])
  BY <1>1, NumeralSteps, ZenonT(60)
<1> DEFINE Same == {n \in 0 .. q : g[n] = h[n]}
<1>4. ASSUME NEW n \in 0 .. q, \A k \in 0 .. n - 1 : k \in Same
      PROVE  n \in Same
  <2>1. n \in 0 .. m
    BY <1>1
  <2>2. CASE n < radix
    BY <2>1, <2>2, <1>2, <1>3
  <2>3. CASE n >= radix
    <3>1. n \div radix \in 0 .. n - 1
      BY <2>3
    <3>2. g[n \div radix] = h[n \div radix]
      BY <3>1, <1>4
    <3>3. g[n] = Append(g[n \div radix], Lower[(n % radix) + 1])
      BY <2>1, <2>3, <1>2
    <3>4. h[n] = Append(h[n \div radix], Lower[(n % radix) + 1])
      BY <2>3, <1>3
    <3> QED  BY <3>2, <3>3, <3>4
  <2> QED  BY <2>2, <2>3
<1> HIDE DEF Same
<1>5. \A n \in 0 .. q : n \in Same
  <2>1. q \in Nat
    BY <1>1
  <2> QED  BY <2>1, <1>4, InductionBelow
<1>6. Numeral(q, radix) = g[q]
  BY <1>1, <1>3, <1>5 DEF Same
<1>7. m \in 0 .. m
  OBVIOUS
<1>8. m >= radix => g[m] = Append(g[q], Lower[(m % radix) + 1])
  BY <1>2, <1>7 DEF q
<1>9. m < radix => g[m] = <<Lower[m + 1]>>
  BY <1>2, <1>7
<1>10. g[m] \in Seq(Characters)
  BY <1>7
<1> QED  BY <1>2, <1>6, <1>8, <1>9, <1>10 DEF q

\* Each character of a numeral is a digit of its radix in lower case.
LEMMA NumeralDigits ==
  ASSUME NEW m \in Nat, NEW radix \in {10, 16}
  PROVE  /\ Len(Numeral(m, radix)) \in Nat \ {0}
         /\ \A i \in 1 .. Len(Numeral(m, radix)) :
              \E d \in 0 .. radix - 1 : Numeral(m, radix)[i] = Lower[d + 1]
<1> DEFINE P(n) == /\ Len(Numeral(n, radix)) \in Nat \ {0}
                   /\ \A i \in 1 .. Len(Numeral(n, radix)) :
                        \E d \in 0 .. radix - 1 : Numeral(n, radix)[i] = Lower[d + 1]
           T == {n \in 0 .. m : P(n)}
<1>1. ASSUME NEW n \in 0 .. m, \A k \in 0 .. n - 1 : k \in T
      PROVE  n \in T
  <2> n \in Nat
    OBVIOUS
  <2>1. CASE n < radix
    <3>1. Numeral(n, radix) = <<Lower[n + 1]>>
      BY <2>1, NumeralIs
    <3>2. n \in 0 .. radix - 1
      BY <2>1
    <3>3. P(n)
      BY <3>1, <3>2
    <3> QED  BY <3>3
  <2>2. CASE n >= radix
    <3> DEFINE a == Numeral(n \div radix, radix)
               c == Lower[(n % radix) + 1]
    <3>1. n \div radix \in 0 .. n - 1 /\ n % radix \in 0 .. radix - 1
      BY <2>2
    <3>2. P(n \div radix)
      BY <3>1, <1>1
    <3>3. a \in Seq(Characters) /\ Numeral(n, radix) = Append(a, c)
      <4>1. n \div radix \in Nat
        BY <3>1
      <4>2. a \in Seq(Characters)
        BY <4>1, NumeralIs
      <4>3. Numeral(n, radix) = Append(a, c)
        BY <2>2, NumeralIs
      <4> QED  BY <4>2, <4>3
    <3>4. Len(a) \in Nat \ {0} /\ \A i \in 1 .. Len(a) : \E d \in 0 .. radix - 1 : a[i] = Lower[d + 1]
      BY <3>2
    <3>5. \E d \in 0 .. radix - 1 : c = Lower[d + 1]
      BY <3>1
    <3> HIDE DEF a, c
    <3>6. P(n)
      BY <3>3, <3>4, <3>5
    <3> QED  BY <3>6
  <2> QED  BY <2>1, <2>2
<1> HIDE DEF T
<1>2. \A n \in 0 .. m : n \in T
  BY <1>1, InductionBelow
<1>3. P(m)
  BY <1>2 DEF T
<1> QED  BY <1>3

-----------------------------------------------------------------------------
\* Numbers as they are read: digit by digit, and as a whole.

\* What is read of the first n digits is what was read of one less, and a digit.
LEMMA ReadSteps ==
  ASSUME NEW t \in Seq(Characters), NEW radix \in {10, 16}, NEW max \in Nat
  PROVE  \E v \in [0 .. Len(Unsigned(t)) -> SUBSET Nat] :
           /\ v[0] = {0}
           /\ \A n \in 1 .. Len(Unsigned(t)) :
                v[n] = Pushed(v[n - 1], Unsigned(t)[n], radix, max)
           /\ from_str_radix(t, radix, max) =
                IF Unsigned(t) = << >> THEN {} ELSE v[Len(Unsigned(t))]
<1> DEFINE u == Unsigned(t)
           N == Len(u)
           R(g) == g = [n \in 0 .. N |->
                          IF n = 0 THEN {0} ELSE Pushed(g[n - 1], u[n], radix, max)]
           stop == {0}
           p == [n \in 0 .. N |-> IF n = 0 THEN 0 ELSE n - 1]
           B == [n \in 0 .. N |-> {0}]
           F == [x \in (0 .. N) \X SUBSET Nat |-> Pushed(x[2], u[x[1]], radix, max)]
<1>1. u \in Seq(Characters) /\ N \in Nat
  BY DEF Unsigned
<1> DEFINE f == CHOOSE g : R(g)
<1>2. from_str_radix(t, radix, max) = IF u = << >> THEN {} ELSE f[N]
  BY Zenon DEF from_str_radix
<1> HIDE DEF u, N, f
<1>3. Recurses(N, SUBSET Nat, stop, p, B, F)
  <2>1. stop \in SUBSET (0 .. N)
    BY <1>1
  <2>2. B \in [0 .. N -> SUBSET Nat]
    OBVIOUS
  <2>3. p \in [0 .. N -> 0 .. N] /\ \A n \in (0 .. N) \ stop : p[n] < n
    BY <1>1
  <2>4. ASSUME NEW x \in (0 .. N) \X SUBSET Nat
        PROVE  Pushed(x[2], u[x[1]], radix, max) \in SUBSET Nat
    BY DEF Pushed
  <2>5. F \in [(0 .. N) \X SUBSET Nat -> SUBSET Nat]
    BY <2>4
  <2> HIDE DEF stop, p, B, F
  <2> QED  BY <2>1, <2>2, <2>3, <2>5 DEF Recurses
<1>4. \E g \in [0 .. N -> SUBSET Nat] : Solves(g, N, stop, p, B, F)
  <2> HIDE DEF stop, p, B, F
  <2> QED  BY <1>1, <1>3, Recursion
<1>5. PICK g \in [0 .. N -> SUBSET Nat] : Solves(g, N, stop, p, B, F)
  BY <1>4
<1>6. ASSUME NEW n \in 0 .. N
      PROVE  g[n] = IF n = 0 THEN {0} ELSE Pushed(g[n - 1], u[n], radix, max)
  <2>1. CASE n = 0
    BY <2>1, <1>5 DEF Solves
  <2>2. CASE n # 0
    <3>1. p[n] = n - 1 /\ n - 1 \in 0 .. N
      BY <2>2, <1>1
    <3>2. g[n] = F[<<n, g[n - 1]>>]
      BY <2>2, <3>1, <1>5 DEF Solves
    <3>3. <<n, g[n - 1]>> \in (0 .. N) \X SUBSET Nat
      BY <3>1
    <3> QED  BY <2>2, <3>2, <3>3
  <2> QED  BY <2>1, <2>2
<1>7. R(g)
  BY <1>6
<1>8. R(f)
  BY <1>7, Zenon DEF f
<1>9. \A n \in 0 .. N : f[n] = IF n = 0 THEN {0} ELSE Pushed(f[n - 1], u[n], radix, max)
  BY <1>8
<1>10. f[0] = {0} /\ \A n \in 1 .. N : f[n] = Pushed(f[n - 1], u[n], radix, max)
  BY <1>1, <1>9
<1>11. ASSUME NEW n \in 0 .. N PROVE f[n] \in SUBSET Nat
  <2>1. CASE n = 0
    BY <2>1, <1>9
  <2>2. CASE n # 0
    <3>1. f[n] = Pushed(f[n - 1], u[n], radix, max)
      BY <2>2, <1>9
    <3> QED  BY <3>1 DEF Pushed
  <2> QED  BY <2>1, <2>2
<1>12. f \in [0 .. N -> SUBSET Nat]
  BY <1>8, <1>11
<1> QED  BY <1>2, <1>10, <1>12 DEF u, N
-----------------------------------------------------------------------------
\* The first k characters of t are m with zeros before it.
Same(c, x) == DigitsOf(c) \cap DigitsOf(x) # {}

Spelt(t, k, m, radix) ==
  \E z \in 0 .. k :
    /\ k = z + Len(Numeral(m, radix))
    /\ \A i \in 1 .. k : Same(t[i], IF i <= z THEN "0" ELSE Numeral(m, radix)[i - z])

\* Digits are the same exactly if their values are.
LEMMA SameDigit ==
  ASSUME NEW c, NEW d \in 0 .. 15
  PROVE  Same(c, Lower[d + 1]) <=> d \in DigitsOf(c)
BY DigitOfLower DEF Same

LEMMA SameZero ==
  ASSUME NEW c
  PROVE  Same(c, "0") <=> 0 \in DigitsOf(c)
<1>1. Lower[0 + 1] = "0"
  BY DEF Lower
<1>2. 0 \in 0 .. 15
  OBVIOUS
<1> QED  BY <1>1, <1>2, SameDigit

\* One character spells a digit, ...
LEMMA SpeltOne ==
  ASSUME NEW t, NEW m \in Nat, NEW radix \in {10, 16}
  PROVE  Spelt(t, 1, m, radix) <=> m < radix /\ m \in DigitsOf(t[1])
<1> DEFINE a == Numeral(m, radix)
<1>1. a \in Seq(Characters) /\ Len(a) \in Nat \ {0}
  BY NumeralIs, NumeralDigits
<1>2. CASE m < radix
  <2>1. a = <<Lower[m + 1]>>
    BY <1>2, NumeralIs
  <2>5. m \in 0 .. 15
    BY <1>2
  <2>2. Len(a) = 1 /\ a[1] = Lower[m + 1]
    BY <2>1
  <2> HIDE DEF a
  <2>3. Spelt(t, 1, m, radix) <=> Same(t[1], a[1])
    <3>1. ASSUME Spelt(t, 1, m, radix) PROVE Same(t[1], a[1])
      <4>1. PICK z \in 0 .. 1 : /\ 1 = z + Len(a)
              /\ \A i \in 1 .. 1 : Same(t[i], IF i <= z THEN "0" ELSE a[i - z])
        BY <3>1 DEF Spelt, a
      <4>2. z = 0
        BY <4>1, <2>2
      <4> QED  BY <4>1, <4>2
    <3>2. ASSUME Same(t[1], a[1]) PROVE Spelt(t, 1, m, radix)
      <4>1. 0 \in 0 .. 1 /\ 1 = 0 + Len(a)
        BY <2>2
      <4>2. \A i \in 1 .. 1 : Same(t[i], IF i <= 0 THEN "0" ELSE a[i - 0])
        BY <3>2
      <4> QED  BY <4>1, <4>2 DEF Spelt, a
    <3> QED  BY <3>1, <3>2
  <2> QED  BY <1>2, <2>5, <2>2, <2>3, SameDigit
<1>3. CASE m >= radix
  <2> DEFINE b == Numeral(m \div radix, radix)
  <2>1. m \div radix \in Nat
    BY <1>3
  <2>2. b \in Seq(Characters) /\ Len(b) \in Nat \ {0}
    BY <2>1, NumeralIs, NumeralDigits
  <2>3. a = Append(b, Lower[(m % radix) + 1])
    BY <1>3, NumeralIs
  <2> HIDE DEF a, b
  <2>4. Len(a) > 1
    BY <2>2, <2>3
  <2> QED  BY <1>3, <2>4, <1>1 DEF Spelt, a
<1> QED  BY <1>2, <1>3

\* ... and more characters spell a number exactly if all but the last spell its
\* quotient and the last is its remainder.
LEMMA SpeltMore ==
  ASSUME NEW t, NEW k \in Nat, k > 1, NEW m \in Nat, NEW radix \in {10, 16}
  PROVE  Spelt(t, k, m, radix) <=>
           Spelt(t, k - 1, m \div radix, radix) /\ m % radix \in DigitsOf(t[k])
<1> DEFINE q == m \div radix
           a == Numeral(m, radix)
           b == Numeral(q, radix)
           d == m % radix
           c == Lower[d + 1]
<1>1. q \in Nat /\ d \in 0 .. 15 /\ k - 1 \in Nat
  OBVIOUS
<1>2. /\ a \in Seq(Characters) /\ Len(a) \in Nat \ {0}
      /\ b \in Seq(Characters) /\ Len(b) \in Nat \ {0}
  BY <1>1, NumeralIs, NumeralDigits
<1>3. Same(t[k], c) <=> d \in DigitsOf(t[k])
  BY <1>1, SameDigit
<1>4. CASE m >= radix
  <2>1. a = Append(b, c)
    BY <1>4, NumeralIs
  <2> HIDE DEF a, b, c, d, q
  <2>2. Len(a) = Len(b) + 1 /\ a[Len(a)] = c /\ \A i \in 1 .. Len(b) : a[i] = b[i]
    BY <1>2, <2>1
  <2>3. ASSUME Spelt(t, k, m, radix)
        PROVE  Spelt(t, k - 1, q, radix) /\ d \in DigitsOf(t[k])
    <3>1. PICK z \in 0 .. k :
            /\ k = z + Len(a)
            /\ \A i \in 1 .. k : Same(t[i], IF i <= z THEN "0" ELSE a[i - z])
      BY <2>3 DEF Spelt, a
    <3>2. z \in 0 .. k - 1 /\ k - 1 = z + Len(b) /\ k - z = Len(a) /\ ~(k <= z)
      BY <3>1, <2>2, <1>2
    <3>3. Same(t[k], c)
      BY <3>1, <3>2, <2>2
    <3>4. ASSUME NEW i \in 1 .. k - 1
          PROVE  Same(t[i], IF i <= z THEN "0" ELSE b[i - z])
      <4>1. ~(i <= z) => a[i - z] = b[i - z]
        BY <2>2, <3>2
      <4>2. i \in 1 .. k
        OBVIOUS
      <4> QED  BY <3>1, <4>1, <4>2
    <3> QED  BY <3>2, <3>3, <3>4, <1>3 DEF Spelt, b
  <2>4. ASSUME Spelt(t, k - 1, q, radix), d \in DigitsOf(t[k])
        PROVE  Spelt(t, k, m, radix)
    <3>1. PICK z \in 0 .. k - 1 :
            /\ k - 1 = z + Len(b)
            /\ \A i \in 1 .. k - 1 : Same(t[i], IF i <= z THEN "0" ELSE b[i - z])
      BY <2>4 DEF Spelt, b
    <3>2. z \in 0 .. k /\ k = z + Len(a) /\ k - z = Len(a) /\ ~(k <= z)
      BY <3>1, <2>2, <1>2
    <3>3. ASSUME NEW i \in 1 .. k
          PROVE  Same(t[i], IF i <= z THEN "0" ELSE a[i - z])
      <4>1. CASE i = k
        BY <4>1, <3>2, <2>2, <2>4, <1>3
      <4>2. CASE i # k
        <5>1. ~(i <= z) => a[i - z] = b[i - z]
          BY <4>2, <2>2, <3>1
        <5>2. i \in 1 .. k - 1
          BY <4>2
        <5> QED  BY <3>1, <5>1, <5>2
      <4> QED  BY <4>1, <4>2
    <3> QED  BY <3>2, <3>3 DEF Spelt, a
  <2> QED  BY <2>3, <2>4 DEF q, d
<1>5. CASE m < radix
  <2>1. a = <<c>> /\ b = <<"0">> /\ q = 0 /\ d = m
    <3>1. q = 0 /\ d = m
      BY <1>5
    <3>2. Numeral(m, radix) = <<Lower[m + 1]>>
      BY <1>5, NumeralIs
    <3>3. 0 \in Nat /\ 0 < radix
      OBVIOUS
    <3>4. Numeral(0, radix) = <<Lower[0 + 1]>>
      BY <3>3, NumeralIs
    <3>5. Lower[0 + 1] = "0"
      BY DEF Lower
    <3> HIDE DEF q, d
    <3> QED  BY <3>1, <3>2, <3>4, <3>5
  <2> HIDE DEF a, b, c, d, q
  <2>2. Len(a) = 1 /\ a[1] = c /\ Len(b) = 1 /\ b[1] = "0"
    BY <2>1
  <2>3. ASSUME Spelt(t, k, m, radix)
        PROVE  Spelt(t, k - 1, q, radix) /\ d \in DigitsOf(t[k])
    <3>1. PICK z \in 0 .. k :
            /\ k = z + Len(a)
            /\ \A i \in 1 .. k : Same(t[i], IF i <= z THEN "0" ELSE a[i - z])
      BY <2>3 DEF Spelt, a
    <3>2. z = k - 1 /\ k - 2 \in 0 .. k - 1 /\ k - 1 = (k - 2) + Len(b) /\ k - z = 1 /\ ~(k <= z)
      BY <3>1, <2>2
    <3>3. Same(t[k], c)
      BY <3>1, <3>2, <2>2
    <3>4. ASSUME NEW i \in 1 .. k - 1
          PROVE  Same(t[i], IF i <= k - 2 THEN "0" ELSE b[i - (k - 2)])
      <4>1. ~(i <= k - 2) => b[i - (k - 2)] = "0"
        BY <2>2
      <4>2. Same(t[i], "0")
        BY <3>1, <3>2
      <4> QED  BY <4>1, <4>2
    <3> QED  BY <3>2, <3>3, <3>4, <1>3 DEF Spelt, b
  <2>4. ASSUME Spelt(t, k - 1, q, radix), d \in DigitsOf(t[k])
        PROVE  Spelt(t, k, m, radix)
    <3>1. PICK z \in 0 .. k - 1 :
            /\ k - 1 = z + Len(b)
            /\ \A i \in 1 .. k - 1 : Same(t[i], IF i <= z THEN "0" ELSE b[i - z])
      BY <2>4 DEF Spelt, b
    <3>2. z = k - 2 /\ k - 1 \in 0 .. k /\ k = (k - 1) + Len(a) /\ ~(k <= k - 1)
      BY <3>1, <2>2
    <3>3. ASSUME NEW i \in 1 .. k
          PROVE  Same(t[i], IF i <= k - 1 THEN "0" ELSE a[i - (k - 1)])
      <4>1. CASE i = k
        BY <4>1, <3>2, <2>2, <2>4, <1>3
      <4>2. CASE i # k
        <5>1. ~(i <= z) => b[i - z] = "0"
          BY <4>2, <2>2, <3>2
        <5>2. i \in 1 .. k - 1
          BY <4>2
        <5> QED  BY <3>1, <5>1, <5>2
      <4> QED  BY <4>1, <4>2
    <3> QED  BY <3>2, <3>3 DEF Spelt, a
  <2> QED  BY <2>3, <2>4 DEF q, d
<1> QED  BY <1>4, <1>5

\* x is a number of S with the digit c more.
Pushes(x, S, c, radix, max) ==
  \E y \in S, d \in DigitsOf(c) : d < radix /\ x = y * radix + d /\ x <= max

LEMMA PushedIs ==
  ASSUME NEW S \in SUBSET Nat, NEW c, NEW radix \in {10, 16}, NEW max \in Nat, NEW x \in Nat
  PROVE  x \in Pushed(S, c, radix, max) <=> Pushes(x, S, c, radix, max)
<1> DEFINE D == {e \in DigitsOf(c) : e < radix}
           P == {y * radix + d : y \in S, d \in D}
<1>1. x \in P <=> \E y \in S, d \in D : x = y * radix + d
  OBVIOUS
<1>2. x \in Pushed(S, c, radix, max) <=> x \in P /\ x \in 0 .. max
  BY DEF Pushed
<1>3. x \in 0 .. max <=> x <= max
  OBVIOUS
<1>4. \A d : d \in D <=> d \in DigitsOf(c) /\ d < radix
  OBVIOUS
<1> HIDE DEF D, P
<1> QED  BY <1>1, <1>2, <1>3, <1>4, Zenon DEF Pushes

\* Reading digits gives the number they spell and no other.
LEMMA ReadIffSpelt ==
  ASSUME NEW t \in Seq(Characters), NEW radix \in {10, 16}, NEW max \in Nat, NEW m
  PROVE  m \in from_str_radix(t, radix, max) <=>
           /\ m \in 0 .. max
           /\ Unsigned(t) # << >> /\ Spelt(Unsigned(t), Len(Unsigned(t)), m, radix)
<1> DEFINE u == Unsigned(t)
           N == Len(u)
<1>1. u \in Seq(Characters) /\ N \in Nat
  BY DEF Unsigned
<1>2. PICK v \in [0 .. N -> SUBSET Nat] :
        /\ v[0] = {0}
        /\ \A n \in 1 .. N : v[n] = Pushed(v[n - 1], u[n], radix, max)
        /\ from_str_radix(t, radix, max) = IF u = << >> THEN {} ELSE v[N]
  BY ReadSteps, ZenonT(60)
<1> HIDE DEF u, N
<1> DEFINE Right(n) == \A x \in Nat : x \in v[n] <=> x <= max /\ Spelt(u, n, x, radix)
           T == {n \in 0 .. N : n > 0 => Right(n)}
<1>3. 0 \in T
  BY <1>1
<1>4. ASSUME NEW n \in 1 .. N, n - 1 \in T
      PROVE  n \in T
  <2>1. ASSUME NEW x \in Nat
        PROVE  x \in v[n] <=> \E y \in v[n - 1], d \in DigitsOf(u[n]) :
                                d < radix /\ x = y * radix + d /\ x <= max
    <3>1. v[n] = Pushed(v[n - 1], u[n], radix, max) /\ v[n - 1] \in SUBSET Nat
      BY <1>1, <1>2
    <3>2. x \in Pushed(v[n - 1], u[n], radix, max) <=> Pushes(x, v[n - 1], u[n], radix, max)
      BY <3>1, PushedIs
    <3> QED  BY <3>1, <3>2 DEF Pushes
  <2>2. CASE n = 1
    <3>1. ASSUME NEW x \in Nat
          PROVE  x \in v[n] <=> x <= max /\ x < radix /\ x \in DigitsOf(u[1])
      <4>1. v[n - 1] = {0}
        BY <2>2, <1>2
      <4>2. \A d \in DigitsOf(u[n]) : d \in 0 .. 15 /\ 0 * radix + d = d
        BY DEF DigitsOf
      <4> QED  BY <2>1, <2>2, <4>1, <4>2
    <3>2. Right(1)
      BY <2>2, <3>1, SpeltOne
    <3> QED  BY <2>2, <3>2
  <2>3. CASE n > 1
    <3>1. Right(n - 1)
      BY <1>4, <2>3
    <3>2. ASSUME NEW x \in Nat
          PROVE  x \in v[n] <=> x <= max /\ Spelt(u, n, x, radix)
      <4> DEFINE q == x \div radix
                 r == x % radix
      <4>1. q \in Nat /\ r \in 0 .. radix - 1 /\ x = q * radix + r
        OBVIOUS
      <4>2. Spelt(u, n, x, radix) <=> Spelt(u, n - 1, q, radix) /\ r \in DigitsOf(u[n])
        BY <2>3, SpeltMore
      <4>3. ASSUME NEW y \in Nat, NEW d \in 0 .. radix - 1, x = y * radix + d
            PROVE  y = q /\ d = r
        BY <4>3
      <4> HIDE DEF q, r
      <4>4. ASSUME x \in v[n] PROVE x <= max /\ q \in v[n - 1] /\ r \in DigitsOf(u[n])
        <5>1. PICK y \in v[n - 1], d \in DigitsOf(u[n]) :
                d < radix /\ x = y * radix + d /\ x <= max
          BY <4>4, <2>1
        <5>2. y \in Nat /\ d \in 0 .. radix - 1
          <6>1. v[n - 1] \in SUBSET Nat
            BY <1>1
          <6> QED  BY <5>1, <6>1 DEF DigitsOf
        <5> QED  BY <5>1, <5>2, <4>3
      <4>5. ASSUME x <= max, q \in v[n - 1], r \in DigitsOf(u[n]) PROVE x \in v[n]
        BY <4>1, <4>5, <2>1
      <4>6. x <= max => q <= max
        BY <4>1
      <4> QED  BY <3>1, <4>1, <4>2, <4>4, <4>5, <4>6
    <3> QED  BY <3>2
  <2> QED  BY <2>2, <2>3
<1> HIDE DEF T
<1>5. \A n \in 0 .. N : n \in T
  BY <1>1, <1>3, <1>4, InductionStep
<1>6. CASE u = << >>
  BY <1>2, <1>6 DEF u
<1>7. CASE u # << >>
  <2>1. N > 0
    BY <1>1, <1>7 DEF N
  <2>2. Right(N)
    BY <1>1, <1>5, <2>1 DEF T
  <2>3. v[N] \in SUBSET Nat
    BY <1>1
  <2>4. m \in v[N] <=> m \in 0 .. max /\ Spelt(u, N, m, radix)
    BY <2>2, <2>3
  <2> QED  BY <1>2, <1>7, <2>4 DEF u, N
<1> QED  BY <1>6, <1>7

\* A sign, zeros and a numeral, character by character.
Spelling(sign, z, a) == sign \o Zeros(z) \o a

LEMMA SpellingIs ==
  ASSUME NEW sign \in {<< >>, <<"+">>}, NEW z \in Nat, NEW a \in Seq(Characters)
  PROVE  /\ Len(sign) \in 0 .. 1 /\ Len(Spelling(sign, z, a)) = Len(sign) + z + Len(a)
         /\ \A i \in 1 .. Len(sign) + z + Len(a) :
              Spelling(sign, z, a)[i] =
                IF i <= Len(sign) THEN "+"
                ELSE IF i - Len(sign) <= z THEN "0" ELSE a[i - Len(sign) - z]
<1>1. "0" \in Characters /\ "+" \in Characters
  <2>1. Lower[1] = "0"
    BY DEF Lower
  <2> QED  BY <2>1, TextsAssumption, SMTT(60)
<1>2. Zeros(z) \in Seq(Characters) /\ Len(Zeros(z)) = z /\ \A i \in 1 .. z : Zeros(z)[i] = "0"
  BY <1>1 DEF Zeros
<1>3. sign \in Seq(Characters) /\ Len(sign) \in 0 .. 1 /\ \A i \in 1 .. Len(sign) : sign[i] = "+"
  <2>1. CASE sign = << >>
    BY <2>1
  <2>2. CASE sign = <<"+">>
    BY <2>2, <1>1
  <2> QED  BY <2>1, <2>2
<1> DEFINE s == Zeros(z)
<1> HIDE DEF s
<1>4. s \in Seq(Characters) /\ Len(s) = z /\ \A i \in 1 .. z : s[i] = "0"
  BY <1>2 DEF s
<1> DEFINE w == sign \o s
<1>5. w \in Seq(Characters) /\ Len(w) = Len(sign) + z
      /\ \A i \in 1 .. Len(sign) + z : w[i] = IF i <= Len(sign) THEN "+" ELSE "0"
  BY <1>3, <1>4
<1> HIDE DEF w
<1>6. /\ w \o a \in Seq(Characters) /\ Len(w \o a) = Len(w) + Len(a)
      /\ \A i \in 1 .. Len(w) + Len(a) : (w \o a)[i] = IF i <= Len(w) THEN w[i] ELSE a[i - Len(w)]
  BY <1>5, SMTT(30)
<1>7. Len(w \o a) = Len(sign) + z + Len(a)
  BY <1>3, <1>5, <1>6
<1>8. ASSUME NEW i \in 1 .. Len(sign) + z + Len(a)
      PROVE  (w \o a)[i] = IF i <= Len(sign) THEN "+"
                            ELSE IF i - Len(sign) <= z THEN "0" ELSE a[i - Len(sign) - z]
  <2> DEFINE k == Len(sign)
             l == Len(a)
  <2>1. k \in 0 .. 1 /\ l \in Nat /\ Len(w) = k + z
    BY <1>3, <1>5
  <2>2. i \in 1 .. k + z + l
    OBVIOUS
  <2> HIDE DEF k, l
  <2>3. (w \o a)[i] = IF i <= k + z THEN w[i] ELSE a[i - (k + z)]
    BY <1>6, <2>1, <2>2 DEF l
  <2>4. i <= k + z => i \in 1 .. k + z /\ w[i] = IF i <= k THEN "+" ELSE "0"
    BY <1>5, <2>1, <2>2 DEF k
  <2>5. i - (k + z) = i - k - z /\ (i <= k + z <=> i - k <= z) /\ (i <= k => i <= k + z)
    BY <2>1, <2>2
  <2>6. (w \o a)[i] = IF i <= k THEN "+" ELSE IF i - k <= z THEN "0" ELSE a[i - k - z]
    BY <2>3, <2>4, <2>5
  <2> QED  BY <2>6 DEF k
<1> QED  BY <1>3, <1>7, <1>8 DEF w, s, Spelling

\* Every character of zeros and a numeral is a digit.
LEMMA AllDigits ==
  ASSUME NEW m \in Nat, NEW radix \in {10, 16}, NEW z \in Nat,
         NEW i \in 1 .. z + Len(Numeral(m, radix)),
         NEW c, NEW x, x = IF i <= z THEN "0" ELSE Numeral(m, radix)[i - z]
  PROVE  /\ DigitsOf(x) # {}
         /\ c = x => Same(c, x)
<1>1. DigitsOf(x) # {}
  <2>1. CASE i <= z
    <3>1. Lower[0 + 1] = "0" /\ 0 \in 0 .. 15
      BY DEF Lower
    <3> QED  BY <2>1, <3>1, DigitOfLower
  <2>2. CASE ~(i <= z)
    <3>1. Len(Numeral(m, radix)) \in Nat
      BY NumeralDigits
    <3>2. i - z \in 1 .. Len(Numeral(m, radix))
      BY <2>2, <3>1
    <3>3. PICK d \in 0 .. radix - 1 : Numeral(m, radix)[i - z] = Lower[d + 1]
      BY <3>2, NumeralDigits, ZenonT(60)
    <3>4. d \in 0 .. 15
      OBVIOUS
    <3> QED  BY <2>2, <3>3, <3>4, DigitOfLower
  <2> QED  BY <2>1, <2>2
<1> QED  BY <1>1 DEF Same

LEMMA SpellsIff ==
  ASSUME NEW t \in Seq(Characters), NEW m \in Nat, NEW radix \in {10, 16}
  PROVE  Spells(t, m, radix) <=>
           Unsigned(t) # << >> /\ Spelt(Unsigned(t), Len(Unsigned(t)), m, radix)
<1> DEFINE a == Numeral(m, radix)
           Fits(sign, z) ==
             /\ Len(t) = Len(Spelling(sign, z, a))
             /\ \A n \in 1 .. Len(t) :
                  \/ t[n] = Spelling(sign, z, a)[n]
                  \/ Same(t[n], Spelling(sign, z, a)[n])
<1>1. a \in Seq(Characters) /\ Len(a) \in Nat \ {0}
  BY NumeralIs, NumeralDigits
<1>2. Spells(t, m, radix) <=> \E sign \in {<< >>, <<"+">>}, z \in 0 .. Len(t) : Fits(sign, z)
  BY DEF Spells, Same, Spelling
<1>3. DigitsOf("+") = {}
  BY NoDigits
<1>4. Len(t) \in Nat /\ t # << >> => Len(t) > 0
  OBVIOUS
<1> DEFINE Char(z, i) == IF i <= z THEN "0" ELSE a[i - z]
<1>5. ASSUME NEW z \in Nat
      PROVE  /\ Fits(<< >>, z) <=>
                  Len(t) = z + Len(a) /\ \A n \in 1 .. Len(t) : t[n] = Char(z, n) \/ Same(t[n], Char(z, n))
             /\ Fits(<<"+">>, z) <=>
                  /\ Len(t) = 1 + z + Len(a)
                  /\ t[1] = "+" \/ Same(t[1], "+")
                  /\ \A n \in 2 .. Len(t) : t[n] = Char(z, n - 1) \/ Same(t[n], Char(z, n - 1))
  <2> DEFINE e == Spelling(<< >>, z, a)
             g == Spelling(<<"+">>, z, a)
  <2> HIDE DEF a
  <2>1. Len(e) = z + Len(a) /\ \A i \in 1 .. z + Len(a) : e[i] = Char(z, i)
    <3> DEFINE o == << >>
    <3> HIDE DEF e, o
    <3>2. /\ Len(Spelling(o, z, a)) = Len(o) + z + Len(a)
          /\ \A i \in 1 .. Len(o) + z + Len(a) :
               Spelling(o, z, a)[i] =
                 IF i <= Len(o) THEN "+" ELSE IF i - Len(o) <= z THEN "0" ELSE a[i - Len(o) - z]
      <4>1. o \in {<< >>, <<"+">>}
        BY DEF o
      <4> QED  BY <1>1, <4>1, SpellingIs, ZenonT(60)
    <3>3. Len(o) = 0 /\ Spelling(o, z, a) = e
      BY DEF e, o
    <3> QED  BY <1>1, <3>2, <3>3
  <2>2. /\ Len(g) = 1 + z + Len(a) /\ g[1] = "+"
        /\ \A i \in 2 .. 1 + z + Len(a) : g[i] = Char(z, i - 1)
    <3> DEFINE o == <<"+">>
    <3> HIDE DEF g, o
    <3>2. /\ Len(Spelling(o, z, a)) = Len(o) + z + Len(a)
          /\ \A i \in 1 .. Len(o) + z + Len(a) :
               Spelling(o, z, a)[i] =
                 IF i <= Len(o) THEN "+" ELSE IF i - Len(o) <= z THEN "0" ELSE a[i - Len(o) - z]
      <4>1. o \in {<< >>, <<"+">>}
        BY DEF o
      <4> QED  BY <1>1, <4>1, SpellingIs, ZenonT(60)
    <3>3. Len(o) = 1 /\ Spelling(o, z, a) = g
      BY DEF g, o
    <3> QED  BY <1>1, <3>2, <3>3
  <2> HIDE DEF Char, e, g
  <2>3. Fits(<< >>, z) <=>
          Len(t) = z + Len(a) /\ \A n \in 1 .. Len(t) : t[n] = Char(z, n) \/ Same(t[n], Char(z, n))
    BY <1>1, <1>4, <2>1 DEF e
  <2>4. Fits(<<"+">>, z) <=>
          /\ Len(t) = 1 + z + Len(a)
          /\ t[1] = "+" \/ Same(t[1], "+")
          /\ \A n \in 2 .. Len(t) : t[n] = Char(z, n - 1) \/ Same(t[n], Char(z, n - 1))
    <3>1. Fits(<<"+">>, z) <=>
            Len(t) = Len(g) /\ \A n \in 1 .. Len(t) : t[n] = g[n] \/ Same(t[n], g[n])
      BY DEF g
    <3>2. ASSUME Len(t) = 1 + z + Len(a), NEW n \in 1 .. Len(t)
          PROVE  n = 1 \/ (n \in 2 .. Len(t) /\ g[n] = Char(z, n - 1))
      BY <1>1, <2>2, <3>2
    <3>3. Len(t) = 1 + z + Len(a) => 1 \in 1 .. Len(t) /\ \A n \in 2 .. Len(t) : n \in 1 .. Len(t) /\ g[n] = Char(z, n - 1)
      BY <1>1, <2>2
    <3> QED  BY <2>2, <3>1, <3>2, <3>3
  <2> QED  BY <2>3, <2>4
<1>6. ASSUME NEW z \in Nat, NEW i \in 1 .. z + Len(a), NEW c
      PROVE  DigitsOf(Char(z, i)) # {} /\ (c = Char(z, i) => Same(c, Char(z, i)))
  BY AllDigits
<1>7. ASSUME NEW u, NEW k \in Nat
      PROVE  Spelt(u, k, m, radix) <=>
               \E z \in 0 .. k : k = z + Len(a) /\ \A i \in 1 .. k : Same(u[i], Char(z, i))
  BY DEF Spelt
<1> HIDE DEF a, Fits, Char
<1>8. ASSUME NEW z \in 0 .. Len(t), Fits(<< >>, z)
      PROVE  Unsigned(t) # << >> /\ Spelt(Unsigned(t), Len(Unsigned(t)), m, radix)
  <2>1. Len(t) = z + Len(a) /\ \A n \in 1 .. Len(t) : Same(t[n], Char(z, n))
    BY <1>4, <1>5, <1>6, <1>8
  <2>2. Len(t) > 0 /\ t # << >> /\ Same(t[1], Char(z, 1))
    BY <2>1, <1>1
  <2>3. t[1] # "+"
    BY <2>2, <1>3 DEF Same
  <2>4. Unsigned(t) = t
    BY <2>3 DEF Unsigned
  <2> QED  BY <2>1, <2>2, <2>4, <1>4, <1>7
<1>9. ASSUME NEW z \in 0 .. Len(t), Fits(<<"+">>, z)
      PROVE  Unsigned(t) # << >> /\ Spelt(Unsigned(t), Len(Unsigned(t)), m, radix)
  <2>1. /\ Len(t) = 1 + z + Len(a) /\ t[1] = "+"
        /\ \A n \in 2 .. Len(t) : Same(t[n], Char(z, n - 1))
    <3>1. /\ Len(t) = 1 + z + Len(a)
          /\ t[1] = "+" \/ Same(t[1], "+")
          /\ \A n \in 2 .. Len(t) : t[n] = Char(z, n - 1) \/ Same(t[n], Char(z, n - 1))
      BY <1>5, <1>9
    <3>2. ASSUME NEW n \in 2 .. Len(t) PROVE Same(t[n], Char(z, n - 1))
      <4>1. n - 1 \in 1 .. z + Len(a)
        BY <3>1, <1>1
      <4> QED  BY <3>1, <4>1, <1>6
    <3> QED  BY <3>1, <3>2, <1>3 DEF Same
  <2>2. Unsigned(t) = Tail(t) /\ Len(t) > 1
    BY <2>1, <1>1 DEF Unsigned
  <2>3. Len(Tail(t)) = z + Len(a) /\ Tail(t) # << >> /\ \A i \in 1 .. z + Len(a) : Tail(t)[i] = t[i + 1]
    <3>1. Len(t) = 1 + (z + Len(a)) /\ z + Len(a) \in Nat \ {0}
      BY <2>1, <1>1
    <3>2. Len(Tail(t)) = Len(t) - 1 /\ \A i \in 1 .. Len(t) - 1 : Tail(t)[i] = t[i + 1]
      BY <2>2
    <3>3. Tail(t) # << >>
      <4> DEFINE u == Tail(t)
      <4>1. Len(u) > 0
        BY <2>2, <3>2
      <4> HIDE DEF u
      <4>2. u # << >>
        BY <4>1
      <4> QED  BY <4>2 DEF u
    <3> QED  BY <3>1, <3>2, <3>3
  <2>4. \A i \in 1 .. z + Len(a) : Same(Tail(t)[i], Char(z, i))
    <3>1. ASSUME NEW i \in 1 .. z + Len(a) PROVE Same(Tail(t)[i], Char(z, i))
      <4>1. i + 1 \in 2 .. Len(t) /\ (i + 1) - 1 = i
        BY <2>1, <1>1
      <4> QED  BY <2>1, <2>3, <4>1
    <3> QED  BY <3>1
  <2>5. z + Len(a) \in Nat /\ z \in 0 .. z + Len(a)
    BY <1>1
  <2> QED  BY <2>2, <2>3, <2>4, <2>5, <1>7
<1>10. ASSUME Unsigned(t) # << >>, Spelt(Unsigned(t), Len(Unsigned(t)), m, radix)
       PROVE  \E sign \in {<< >>, <<"+">>}, z \in 0 .. Len(t) : Fits(sign, z)
  <2> DEFINE u == Unsigned(t)
  <2>1. u \in Seq(Characters) /\ Len(u) \in Nat
    BY DEF Unsigned
  <2>2. PICK z \in 0 .. Len(u) : Len(u) = z + Len(a) /\ \A i \in 1 .. Len(u) : Same(u[i], Char(z, i))
    BY <1>7, <1>10, <2>1
  <2>3. CASE Len(t) > 1 /\ t[1] = "+"
    <3>1. u = Tail(t)
      BY <2>3 DEF Unsigned
    <3>2. Len(t) = 1 + Len(u) /\ \A i \in 1 .. Len(u) : u[i] = t[i + 1]
      BY <3>1, <2>3
    <3>3. \A n \in 2 .. Len(t) : Same(t[n], Char(z, n - 1))
      <4>1. ASSUME NEW n \in 2 .. Len(t) PROVE Same(t[n], Char(z, n - 1))
        <5>1. n - 1 \in 1 .. Len(u) /\ (n - 1) + 1 = n
          BY <3>2, <2>1
        <5> QED  BY <2>2, <3>2, <5>1
      <4> QED  BY <4>1
    <3>4. z \in 0 .. Len(t) /\ Len(t) = 1 + z + Len(a)
      BY <2>1, <2>2, <3>2, <1>1
    <3>5. Fits(<<"+">>, z)
      BY <1>5, <2>3, <3>3, <3>4
    <3> QED  BY <3>4, <3>5
  <2>4. CASE ~(Len(t) > 1 /\ t[1] = "+")
    <3>1. u = t
      BY <2>4 DEF Unsigned
    <3>2. Fits(<< >>, z)
      BY <1>5, <2>2, <3>1
    <3> QED  BY <2>2, <3>1, <3>2
  <2> QED  BY <2>3, <2>4
<1> QED  BY <1>2, <1>8, <1>9, <1>10

\* from_str_radix reads a text as a number exactly if the text spells it and it is
\* within the limit, for every text, every limit and both bases the tool reads
\* (keys.rs:46, main.rs:402-408, format.rs:914).
THEOREM ReadIffSpells ==
  ASSUME NEW t \in Seq(Characters), NEW radix \in {10, 16}, NEW max \in Nat, NEW m
  PROVE  m \in from_str_radix(t, radix, max) <=> m \in 0 .. max /\ Spells(t, m, radix)
<1>1. m \in 0 .. max => m \in Nat
  OBVIOUS
<1> QED  BY <1>1, ReadIffSpelt, SpellsIff

-----------------------------------------------------------------------------
\* Numbers as they are printed, and read back.

\* A text spells one number at most.
LEMMA SpeltUnique ==
  ASSUME NEW t, NEW N \in Nat \ {0}, NEW radix \in {10, 16},
         NEW m \in Nat, NEW n \in Nat, Spelt(t, N, m, radix), Spelt(t, N, n, radix)
  PROVE  m = n
<1> DEFINE One(k) == \A x, y \in Nat : Spelt(t, k, x, radix) /\ Spelt(t, k, y, radix) => x = y
           T == {k \in 0 .. N : k > 0 => One(k)}
<1>1. 0 \in T
  OBVIOUS
<1>2. ASSUME NEW k \in 1 .. N, k - 1 \in T
      PROVE  k \in T
  <2>1. ASSUME NEW x \in Nat, NEW y \in Nat, Spelt(t, k, x, radix), Spelt(t, k, y, radix)
        PROVE  x = y
    <3>1. CASE k = 1
      <4>1. x \in DigitsOf(t[1]) /\ y \in DigitsOf(t[1])
        BY <2>1, <3>1, SpeltOne
      <4> QED  BY <4>1, DigitsApart
    <3>2. CASE k > 1
      <4> DEFINE q == x \div radix
                 r == x % radix
                 s == y \div radix
                 u == y % radix
      <4>1. /\ Spelt(t, k - 1, q, radix) /\ r \in DigitsOf(t[k])
            /\ Spelt(t, k - 1, s, radix) /\ u \in DigitsOf(t[k])
        BY <2>1, <3>2, SpeltMore
      <4>2. q \in Nat /\ s \in Nat /\ x = q * radix + r /\ y = s * radix + u
        OBVIOUS
      <4> HIDE DEF q, r, s, u
      <4>3. r = u
        BY <4>1, DigitsApart
      <4>4. q = s
        BY <1>2, <3>2, <4>1, <4>2
      <4> QED  BY <4>2, <4>3, <4>4
    <3> QED  BY <3>1, <3>2
  <2> QED  BY <2>1
<1> HIDE DEF T
<1>3. \A k \in 0 .. N : k \in T
  BY <1>1, <1>2, InductionStep
<1>4. N \in T
  BY <1>3
<1> QED  BY <1>4 DEF T

\* No text is read as two numbers.
LEMMA ReadUnique ==
  ASSUME NEW t \in Seq(Characters), NEW radix \in {10, 16}, NEW max \in Nat,
         NEW m \in from_str_radix(t, radix, max), NEW n \in from_str_radix(t, radix, max)
  PROVE  m = n
<1>1. m \in Nat /\ n \in Nat
  BY ReadIffSpelt
<1>2. /\ Unsigned(t) # << >>
      /\ Spelt(Unsigned(t), Len(Unsigned(t)), m, radix)
      /\ Spelt(Unsigned(t), Len(Unsigned(t)), n, radix)
  BY ReadIffSpelt
<1>3. Unsigned(t) \in Seq(Characters)
  BY DEF Unsigned
<1>4. Len(Unsigned(t)) \in Nat \ {0}
  BY <1>2, <1>3
<1> QED  BY <1>1, <1>2, <1>4, SpeltUnique

\* A numeral, with zeros before it, is read back.
ReadsBack(z, m, radix, max) ==
  /\ Zeros(z) \o Numeral(m, radix) \in Seq(Characters)
  /\ from_str_radix(Zeros(z) \o Numeral(m, radix), radix, max) = {m}

LEMMA NumeralIsRead ==
  ASSUME NEW z \in Nat, NEW radix \in {10, 16}, NEW max \in Nat, NEW m \in 0 .. max
  PROVE  ReadsBack(z, m, radix, max)
<1> DEFINE a == Numeral(m, radix)
           s == Zeros(z)
           t == s \o a
<1> m \in Nat
  OBVIOUS
<1>1. a \in Seq(Characters) /\ m \in Nat /\ Len(a) \in Nat \ {0}
  BY NumeralIs, NumeralDigits
<1>2. "0" \in Characters
  <2>1. Lower[1] = "0"
    BY DEF Lower
  <2> QED  BY <2>1, TextsAssumption, SMTT(60)
<1>3. s \in Seq(Characters) /\ Len(s) = z
  BY <1>2 DEF Zeros
<1> HIDE DEF s, a
<1>4. t \in Seq(Characters) /\ Len(t) = z + Len(a)
  BY <1>1, <1>3
<1>5. << >> \o s = s
  BY <1>3
<1>6. Spells(t, m, radix)
  <2>1. /\ Len(t) = Len(<< >> \o Zeros(z) \o a)
        /\ \A n \in 1 .. Len(t) : t[n] = (<< >> \o Zeros(z) \o a)[n]
    BY <1>5 DEF s
  <2>2. z \in 0 .. Len(t)
    BY <1>1, <1>4
  <2>3. << >> \in {<< >>, <<"+">>}
    OBVIOUS
  <2> HIDE DEF t
  <2> QED  BY <2>1, <2>2, <2>3 DEF Spells, a
<1>7. m \in from_str_radix(t, radix, max)
  BY <1>4, <1>6, ReadIffSpells
<1>8. \A n \in from_str_radix(t, radix, max) : n = m
  BY <1>4, <1>7, ReadUnique
<1>9. from_str_radix(t, radix, max) = {m}
  BY <1>7, <1>8
<1> QED  BY <1>4, <1>9 DEF s, a, ReadsBack

\* The padded form is a numeral with zeros before it, as long as the width if the
\* numeral is not longer.
LEMMA PadHexIs ==
  ASSUME NEW m \in Nat, NEW w \in Nat
  PROVE  \E z \in Nat : /\ PadHex(m, w) = Zeros(z) \o Numeral(m, 16)
                        /\ Len(Numeral(m, 16)) <= w => z + Len(Numeral(m, 16)) = w
<1> DEFINE n == Len(Numeral(m, 16))
<1>1. n \in Nat
  BY NumeralDigits
<1>2. PadHex(m, w) = Zeros(w - n) \o Numeral(m, 16)
  BY DEF PadHex
<1> HIDE DEF n
<1>3. CASE n <= w
  <2>1. w - n \in Nat /\ (w - n) + n = w
    BY <1>1, <1>3
  <2> QED  BY <1>2, <2>1 DEF n
<1>4. CASE ~(n <= w)
  <2>1. 1 .. (w - n) = 1 .. 0
    BY <1>1, <1>4
  <2>2. Zeros(w - n) = Zeros(0)
    BY <2>1, Zenon DEF Zeros
  <2>3. 0 \in Nat /\ PadHex(m, w) = Zeros(0) \o Numeral(m, 16)
    BY <1>2, <2>2
  <2> QED  BY <1>4, <2>3 DEF n
<1> QED  BY <1>3, <1>4

\* Two sequences one behind the other.
LEMMA Joined ==
  ASSUME NEW C, NEW s \in Seq(C), NEW u \in Seq(C)
  PROVE  /\ s \o u \in Seq(C) /\ Len(s \o u) = Len(s) + Len(u)
         /\ \A i \in 1 .. Len(s) : (s \o u)[i] = s[i]
         /\ \A i \in 1 .. Len(u) : (s \o u)[i + Len(s)] = u[i]
<1> DEFINE t == s \o u
<1>1. t \in Seq(C) /\ Len(t) = Len(s) + Len(u)
  OBVIOUS
<1>2. \A i \in 1 .. Len(s) + Len(u) : t[i] = IF i <= Len(s) THEN s[i] ELSE u[i - Len(s)]
  OBVIOUS
<1> HIDE DEF t
<1>3. ASSUME NEW i \in 1 .. Len(s) PROVE t[i] = s[i]
  BY <1>2
<1>4. ASSUME NEW i \in 1 .. Len(u) PROVE t[i + Len(s)] = u[i]
  <2>1. i + Len(s) \in 1 .. Len(s) + Len(u) /\ ~(i + Len(s) <= Len(s))
        /\ (i + Len(s)) - Len(s) = i
    BY SMTT(60)
  <2> QED  BY <1>2, <2>1
<1> QED  BY <1>1, <1>3, <1>4 DEF t

\* What is left of a text that begins with 0x.
LEMMA StrippedPrefix ==
  ASSUME NEW u \in Seq(Characters), NEW x \in {"x", "X"}
  PROVE  /\ <<"0", x>> \o u \in Seq(Characters)
         /\ Stripped(<<"0", x>> \o u) = u /\ Stripped(<<"0", x>> \o u) # <<"0", x>> \o u
<1>1. "0" \in Characters /\ x \in Characters
  <2>1. Lower[1] = "0"
    BY DEF Lower
  <2> QED  BY <2>1, TextsAssumption, SMTT(60)
<1> DEFINE p == <<"0", x>>
           t == p \o u
<1>2. p \in Seq(Characters) /\ Len(p) = 2 /\ p[1] = "0" /\ p[2] = x
  BY <1>1
<1> HIDE DEF p
<1>3. /\ t \in Seq(Characters) /\ Len(t) = 2 + Len(u) /\ t[1] = "0" /\ t[2] = x
      /\ \A i \in 1 .. Len(u) : t[i + 2] = u[i]
  <2>1. /\ t \in Seq(Characters) /\ Len(t) = Len(p) + Len(u)
        /\ \A i \in 1 .. Len(p) : t[i] = p[i]
        /\ \A i \in 1 .. Len(u) : t[i + Len(p)] = u[i]
    BY <1>2, Joined, SMTT(60)
  <2> HIDE DEF t
  <2> QED  BY <1>2, <2>1
<1> HIDE DEF t
<1>4. Stripped(t) = SubSeq(t, 3, Len(t))
  BY <1>3 DEF Stripped
<1>5. SubSeq(t, 3, Len(t)) = u
  <2> DEFINE v == SubSeq(t, 3, Len(t))
  <2>1. v \in Seq(Characters) /\ Len(v) = Len(u) /\ \A i \in 1 .. Len(u) : v[i] = t[i + 2]
    BY <1>3
  <2> HIDE DEF v
  <2>2. v = u
    BY <1>3, <2>1
  <2> QED  BY <2>2 DEF v
<1>6. u # t
  BY <1>3
<1> QED  BY <1>3, <1>4, <1>5, <1>6 DEF t, p

\* u32 values are read back from their hexadecimal form.
LEMMA U32IsRead ==
  ASSUME NEW m \in 0 .. U32_MAX
  PROVE  /\ <<"0", "x">> \o PadHex(m, U32_DIGITS) \in Seq(Characters)
         /\ parse_u32_value(<<"0", "x">> \o PadHex(m, U32_DIGITS)) = {m}
<1>1. U32_MAX \in Nat /\ U32_DIGITS \in Nat /\ m \in Nat
  BY TextsAssumption
<1>2. PICK z \in Nat : PadHex(m, U32_DIGITS) = Zeros(z) \o Numeral(m, 16)
  BY <1>1, PadHexIs
<1> DEFINE u == PadHex(m, U32_DIGITS)
<1>3. u \in Seq(Characters) /\ from_str_radix(u, 16, U32_MAX) = {m}
  <2>1. 16 \in {10, 16}
    OBVIOUS
  <2>2. ReadsBack(z, m, 16, U32_MAX)
    BY <1>1, <2>1, NumeralIsRead
  <2> QED  BY <1>2, <2>2 DEF ReadsBack
<1> HIDE DEF u
<1> DEFINE t == <<"0", "x">> \o u
<1>4. t \in Seq(Characters) /\ Stripped(t) = u /\ Stripped(t) # t
  BY <1>3, StrippedPrefix
<1> HIDE DEF t
<1>5. parse_u32_value(t) = {m}
  BY <1>3, <1>4 DEF parse_u32_value
<1> QED  BY <1>4, <1>5 DEF t, u

-----------------------------------------------------------------------------
\* Versions: what Split cuts a text into.

\* A function that begins with b and takes step F from each number to the next.
Iterates(g, N, b, F) == g[0] = b /\ \A n \in 1 .. N : g[n] = F[<<n, g[n - 1]>>]

\* There is such a function.
LEMMA Iteration ==
  ASSUME NEW N \in Nat, NEW T, NEW b \in T, NEW F, F \in [(0 .. N) \X T -> T]
  PROVE  \E g \in [0 .. N -> T] : Iterates(g, N, b, F)
<1> DEFINE stop == {0}
           p == [n \in 0 .. N |-> IF n = 0 THEN 0 ELSE n - 1]
           B == [n \in 0 .. N |-> b]
<1>1. Recurses(N, T, stop, p, B, F)
  <2>1. B \in [0 .. N -> T]
    OBVIOUS
  <2>2. p \in [0 .. N -> 0 .. N] /\ \A n \in (0 .. N) \ stop : p[n] < n
    OBVIOUS
  <2>3. stop \in SUBSET (0 .. N)
    OBVIOUS
  <2> HIDE DEF p, B, stop
  <2> QED  BY <2>1, <2>2, <2>3 DEF Recurses
<1>2. \E g \in [0 .. N -> T] : Solves(g, N, stop, p, B, F)
  <2> HIDE DEF p, B, stop
  <2> QED  BY <1>1, Recursion
<1>3. PICK g \in [0 .. N -> T] : Solves(g, N, stop, p, B, F)
  BY <1>2
<1>4. g[0] = b
  <2>1. 0 \in 0 .. N /\ 0 \in stop /\ B[0] = b
    OBVIOUS
  <2> HIDE DEF p, B, stop
  <2> QED  BY <1>3, <2>1 DEF Solves
<1>5. ASSUME NEW n \in 1 .. N
      PROVE  g[n] = F[<<n, g[n - 1]>>]
  <2>1. p[n] = n - 1 /\ n \notin stop /\ n \in 0 .. N
    OBVIOUS
  <2> HIDE DEF p, B, stop
  <2> QED  BY <1>3, <2>1 DEF Solves
<1> QED  BY <1>4, <1>5 DEF Iterates

\* The parts after each character.
LEMMA SplitSteps ==
  ASSUME NEW t \in Seq(Characters), NEW at
  PROVE  \E v \in [0 .. Len(t) -> Seq(Seq(Characters)) \ {<< >>}] :
           /\ v[0] = << << >> >>
           /\ \A n \in 1 .. Len(t) : v[n] = Added(v[n - 1], t[n], at)
           /\ Split(t, at) = v[Len(t)]
<1> DEFINE N == Len(t)
           T == Seq(Seq(Characters)) \ {<< >>}
           R(g) == g = [n \in 0 .. N |->
                          IF n = 0 THEN << << >> >> ELSE Added(g[n - 1], t[n], at)]
           f == CHOOSE g : R(g)
           F == [x \in (0 .. N) \X T |-> IF x[1] = 0 THEN x[2] ELSE Added(x[2], t[x[1]], at)]
<1>1. N \in Nat
  OBVIOUS
<1>2. Split(t, at) = f[N]
  BY Zenon DEF Split
<1>3. ASSUME NEW q \in T, NEW c \in Characters
      PROVE  Added(q, c, at) \in T
  <2>1. q \in Seq(Seq(Characters)) /\ Len(q) \in Nat \ {0}
    OBVIOUS
  <2>2. CASE c = at
    <3>1. << >> \in Seq(Characters)
      OBVIOUS
    <3> DEFINE w == Append(q, << >>)
    <3>2. w \in Seq(Seq(Characters)) /\ Len(w) = Len(q) + 1
      BY <2>1, <3>1
    <3>3. w # << >>
      <4> HIDE DEF w
      <4> QED  BY <2>1, <3>2
    <3> QED  BY <2>2, <3>2, <3>3 DEF Added
  <2>3. CASE c # at
    <3>1. q[Len(q)] \in Seq(Characters)
      BY <2>1
    <3>2. Append(q[Len(q)], c) \in Seq(Characters)
      BY <3>1
    <3> DEFINE w == [q EXCEPT ![Len(q)] = Append(@, c)]
    <3>3. w \in Seq(Seq(Characters)) /\ Len(w) = Len(q)
      BY <2>1, <3>2
    <3>4. w # << >>
      <4> HIDE DEF w
      <4> QED  BY <2>1, <3>3
    <3> QED  BY <2>3, <3>3, <3>4 DEF Added
  <2> QED  BY <2>2, <2>3
<1>4. << << >> >> \in T
  <2>1. << >> \in Seq(Characters)
    OBVIOUS
  <2>2. << << >> >> \in Seq(Seq(Characters)) /\ Len(<< << >> >>) = 1
    BY <2>1
  <2> QED  BY <2>2
<1> HIDE DEF T, f
<1>5. F \in [(0 .. N) \X T -> T]
  <2>1. ASSUME NEW x \in (0 .. N) \X T
        PROVE  (IF x[1] = 0 THEN x[2] ELSE Added(x[2], t[x[1]], at)) \in T
    <3>1. x[1] \in 0 .. N /\ x[2] \in T
      OBVIOUS
    <3>2. x[1] # 0 => t[x[1]] \in Characters
      BY <3>1
    <3> QED  BY <3>1, <3>2, <1>3
  <2> QED  BY <2>1
<1>6. \E g \in [0 .. N -> T] : Iterates(g, N, << << >> >>, F)
  <2> HIDE DEF F, N
  <2> QED  BY <1>1, <1>4, <1>5, Iteration
<1>7. PICK g \in [0 .. N -> T] : Iterates(g, N, << << >> >>, F)
  BY <1>6
<1>8. ASSUME NEW n \in 1 .. N
      PROVE  g[n] = Added(g[n - 1], t[n], at)
  <2>1. g[n] = F[<<n, g[n - 1]>>]
    <3> HIDE DEF F, N
    <3> QED  BY <1>7 DEF Iterates
  <2>2. <<n, g[n - 1]>> \in (0 .. N) \X T /\ n # 0
    BY <1>1, SMTT(60)
  <2> QED  BY <2>1, <2>2
<1>9. R(g)
  <2>1. g[0] = << << >> >>
    BY <1>7 DEF Iterates
  <2>2. \A n \in 0 .. N : g[n] = IF n = 0 THEN << << >> >> ELSE Added(g[n - 1], t[n], at)
    <3> HIDE DEF N, F
    <3> SUFFICES ASSUME NEW n \in 0 .. N
                 PROVE  g[n] = IF n = 0 THEN << << >> >> ELSE Added(g[n - 1], t[n], at)
      OBVIOUS
    <3>1. CASE n = 0
      BY <2>1, <3>1
    <3>2. CASE n # 0
      <4>1. n \in 1 .. N
        BY <1>1, <3>2
      <4> QED  BY <1>8, <3>2, <4>1
    <3> QED  BY <3>1, <3>2
  <2> HIDE DEF N, F
  <2> QED  BY <2>2
<1>10. R(f)
  BY <1>9, Zenon DEF f
<1>11. f[0] = << << >> >> /\ \A n \in 1 .. N : f[n] = Added(f[n - 1], t[n], at)
  BY <1>1, <1>10
<1>12. f \in [0 .. N -> T]
  <2> DEFINE S == {n \in 0 .. N : f[n] \in T}
  <2>1. 0 \in S
    BY <1>1, <1>4, <1>11
  <2>2. ASSUME NEW n \in 1 .. N, n - 1 \in S PROVE n \in S
    <3>1. t[n] \in Characters /\ f[n - 1] \in T /\ f[n] = Added(f[n - 1], t[n], at)
      BY <1>11, <2>2
    <3> HIDE DEF N
    <3>2. f[n] \in T
      BY <3>1, <1>3
    <3> QED  BY <1>1, <3>2
  <2> HIDE DEF S
  <2>3. \A n \in 0 .. N : n \in S
    BY <1>1, <2>1, <2>2, InductionStep
  <2>4. \A n \in 0 .. N : f[n] \in T
    BY <2>3 DEF S
  <2> QED  BY <1>10, <2>4
<1> QED  BY <1>2, <1>11, <1>12 DEF T

LEMMA SliceIs ==
  ASSUME NEW C, NEW t \in Seq(C), NEW a \in Nat \ {0}, NEW b \in Nat, b <= Len(t), a <= b + 1
  PROVE  /\ SubSeq(t, a, b) \in Seq(C) /\ Len(SubSeq(t, a, b)) = b + 1 - a
         /\ \A i \in 1 .. b + 1 - a : SubSeq(t, a, b)[i] = t[a + i - 1]
BY SMTT(30)

LEMMA SliceAfter ==
  ASSUME NEW C, NEW t \in Seq(C), NEW a \in 1 .. Len(t)
  PROVE  /\ SubSeq(t, a + 1, Len(t)) \in Seq(C) /\ Len(SubSeq(t, a + 1, Len(t))) = Len(t) - a
         /\ \A i \in 1 .. Len(t) - a : SubSeq(t, a + 1, Len(t))[i] = t[a + i]
BY SMTT(30)

\* Two sequences of one length and the same elements are one.
LEMMA SameSequence ==
  ASSUME NEW C, NEW s \in Seq(C), NEW u \in Seq(C), Len(s) = Len(u),
         \A i \in 1 .. Len(s) : s[i] = u[i]
  PROVE  s = u
OBVIOUS

\* A slice with the next element is the longer slice.
LEMMA SliceMore ==
  ASSUME NEW t \in Seq(Characters), NEW a \in Nat \ {0}, NEW n \in 1 .. Len(t), a <= n
  PROVE  Append(SubSeq(t, a, n - 1), t[n]) = SubSeq(t, a, n)
<1> DEFINE s == SubSeq(t, a, n - 1)
           u == SubSeq(t, a, n)
           v == Append(s, t[n])
<1>1. /\ s \in Seq(Characters) /\ Len(s) = n - a
      /\ \A i \in 1 .. n - a : s[i] = t[a + i - 1]
  BY SliceIs
<1>2. /\ u \in Seq(Characters) /\ Len(u) = n + 1 - a
      /\ \A i \in 1 .. n + 1 - a : u[i] = t[a + i - 1]
  BY SliceIs
<1>3. /\ v \in Seq(Characters) /\ Len(v) = n - a + 1
      /\ v[n - a + 1] = t[n]
      /\ \A i \in 1 .. n - a : v[i] = s[i]
  <2>1. t[n] \in Characters
    OBVIOUS
  <2> HIDE DEF s
  <2> QED  BY <1>1, <2>1
<1> HIDE DEF s, u, v
<1>4. Len(u) = Len(v) /\ \A i \in 1 .. Len(u) : u[i] = v[i]
  BY <1>1, <1>2, <1>3, SMTT(60)
<1>5. u = v
  BY <1>2, <1>3, <1>4, SameSequence
<1> QED  BY <1>5 DEF u, v, s

\* q holds what the first n characters of t are cut into at their dots, which
\* are d in order.
Dots(t, n, d) ==
  /\ d \in Seq(Nat)
  /\ \A j \in 1 .. Len(d) : d[j] \in 1 .. n /\ t[d[j]] = "."
  /\ \A i, j \in 1 .. Len(d) : i < j => d[i] < d[j]
  /\ \A i \in 1 .. n : t[i] = "." => \E j \in 1 .. Len(d) : d[j] = i

\* q are the parts between the first dots d.
Cut(t, n, d, q) ==
  /\ q \in Seq(Seq(Characters)) /\ Len(q) = Len(d) + 1
  /\ \A j \in 1 .. Len(d) + 1 :
       q[j] = SubSeq(t, IF j = 1 THEN 1 ELSE d[j - 1] + 1, IF j = Len(d) + 1 THEN n ELSE d[j] - 1)

\* At a dot a part ends and an empty one begins; ...
LEMMA CutAtDot ==
  ASSUME NEW t \in Seq(Characters), NEW n \in 1 .. Len(t), NEW d, NEW q, t[n] = ".",
         Dots(t, n - 1, d), Cut(t, n - 1, d, q)
  PROVE  /\ Dots(t, n, Append(d, n)) /\ Cut(t, n, Append(d, n), Added(q, t[n], "."))
<1> DEFINE e == Append(d, n)
           w == Append(q, << >>)
<1>1. d \in Seq(Nat) /\ Len(d) \in Nat /\ n \in Nat
  BY DEF Dots
<1>2. /\ e \in Seq(Nat) /\ Len(e) = Len(d) + 1 /\ e[Len(d) + 1] = n
      /\ \A j \in 1 .. Len(d) : e[j] = d[j]
  BY <1>1
<1>3. << >> \in Seq(Characters) /\ q \in Seq(Seq(Characters)) /\ Len(q) = Len(d) + 1
  BY DEF Cut
<1>4. /\ w \in Seq(Seq(Characters)) /\ Len(w) = Len(d) + 2 /\ w[Len(d) + 2] = << >>
      /\ \A j \in 1 .. Len(d) + 1 : w[j] = q[j]
  BY <1>1, <1>3
<1>5. Added(q, t[n], ".") = w
  BY DEF Added
<1> HIDE DEF e, w
<1>6. Dots(t, n, e)
  <2>1. \A j \in 1 .. Len(e) : e[j] \in 1 .. n /\ t[e[j]] = "."
    <3> SUFFICES ASSUME NEW j \in 1 .. Len(e)  PROVE  e[j] \in 1 .. n /\ t[e[j]] = "."
      OBVIOUS
    <3>1. CASE j = Len(d) + 1
      BY <1>1, <1>2, <3>1
    <3>2. CASE j # Len(d) + 1
      <4>1. j \in 1 .. Len(d) /\ e[j] = d[j]
        BY <1>1, <1>2, <3>2, SMTT(60)
      <4>2. d[j] \in 1 .. n - 1 /\ t[d[j]] = "."
        BY <4>1 DEF Dots
      <4> QED  BY <4>1, <4>2
    <3> QED  BY <3>1, <3>2
  <2>2. \A i, j \in 1 .. Len(e) : i < j => e[i] < e[j]
    <3> SUFFICES ASSUME NEW i \in 1 .. Len(e), NEW j \in 1 .. Len(e), i < j
                 PROVE  e[i] < e[j]
      OBVIOUS
    <3>1. i \in 1 .. Len(d) /\ e[i] = d[i] /\ d[i] \in 1 .. n - 1
      BY <1>1, <1>2, SMTT(60) DEF Dots
    <3>2. CASE j = Len(d) + 1
      BY <1>1, <1>2, <3>1, <3>2
    <3>3. CASE j # Len(d) + 1
      <4>0. Len(e) = Len(d) + 1 /\ Len(d) \in Nat
        BY <1>1, <1>2
      <4>1. j \in 1 .. Len(d)
        BY <3>3, <4>0
      <4>2. e[j] = d[j]
        BY <1>2, <4>1
      <4> QED  BY <3>1, <4>1, <4>2 DEF Dots
    <3> QED  BY <3>2, <3>3
  <2>3. \A i \in 1 .. n : t[i] = "." => \E j \in 1 .. Len(e) : e[j] = i
    <3> SUFFICES ASSUME NEW i \in 1 .. n, t[i] = "."  PROVE  \E j \in 1 .. Len(e) : e[j] = i
      OBVIOUS
    <3>1. CASE i = n
      BY <1>1, <1>2, <3>1
    <3>2. CASE i # n
      <4>1. PICK j \in 1 .. Len(d) : d[j] = i
        BY <1>1, <3>2 DEF Dots
      <4> QED  BY <1>1, <1>2, <4>1, SMTT(60)
    <3> QED  BY <3>1, <3>2
  <2> QED  BY <1>2, <2>1, <2>2, <2>3 DEF Dots
<1>7. SubSeq(t, n + 1, n) = << >>
  OBVIOUS
<1>8. ASSUME NEW j \in 1 .. Len(e) + 1
      PROVE  w[j] = SubSeq(t, IF j = 1 THEN 1 ELSE e[j - 1] + 1,
                              IF j = Len(e) + 1 THEN n ELSE e[j] - 1)
  <2>1. CASE j = Len(d) + 2
    <3>1. e[j - 1] = n /\ j # 1 /\ j = Len(e) + 1
      BY <1>1, <1>2, <2>1
    <3> QED  BY <1>4, <1>7, <2>1, <3>1
  <2>2. CASE j \in 1 .. Len(d) + 1
    <3>1. Len(e) = Len(d) + 1 /\ Len(d) \in Nat
      BY <1>1, <1>2
    <3>2. j # Len(e) + 1 /\ w[j] = q[j]
      BY <1>4, <2>2, <3>1, SMTT(60)
    <3>3. ASSUME j # 1 PROVE e[j - 1] = d[j - 1]
      <4>1. j - 1 \in 1 .. Len(d)
        BY <2>2, <3>1, <3>3
      <4> QED  BY <1>2, <4>1
    <3>4. e[j] = IF j = Len(d) + 1 THEN n ELSE d[j]
      <4>1. j # Len(d) + 1 => j \in 1 .. Len(d)
        BY <2>2, <3>1
      <4> QED  BY <1>2, <4>1
    <3>5. q[j] = SubSeq(t, IF j = 1 THEN 1 ELSE d[j - 1] + 1,
                           IF j = Len(d) + 1 THEN n - 1 ELSE d[j] - 1)
      BY <2>2 DEF Cut
    <3> QED  BY <3>2, <3>3, <3>4, <3>5
  <2> QED  BY <1>1, <1>2, <2>1, <2>2
<1>9. Cut(t, n, e, w)
  BY <1>2, <1>4, <1>8 DEF Cut
<1> QED  BY <1>5, <1>6, <1>9 DEF e

\* ... any other character goes to the last part.
LEMMA CutElsewhere ==
  ASSUME NEW t \in Seq(Characters), NEW n \in 1 .. Len(t), NEW d, NEW q, t[n] # ".",
         Dots(t, n - 1, d), Cut(t, n - 1, d, q)
  PROVE  Dots(t, n, d) /\ Cut(t, n, d, Added(q, t[n], "."))
<1> DEFINE k == Len(d) + 1
           from(j) == IF j = 1 THEN 1 ELSE d[j - 1] + 1
           w == [q EXCEPT ![k] = Append(@, t[n])]
<1>1. d \in Seq(Nat) /\ Len(d) \in Nat /\ n \in Nat /\ t[n] \in Characters
  BY DEF Dots
<1>2. q \in Seq(Seq(Characters)) /\ Len(q) = k /\ k \in 1 .. k /\ k \in Nat
  BY <1>1 DEF Cut
<1>3. from(k) \in Nat \ {0} /\ from(k) <= n
  <2>1. CASE Len(d) = 0
    BY <1>1, <2>1
  <2>2. CASE Len(d) # 0
    <3>1. d[Len(d)] \in 1 .. n - 1
      BY <1>1, <2>2 DEF Dots
    <3> QED  BY <1>1, <2>2, <3>1
  <2> QED  BY <2>1, <2>2
<1>4. q[k] = SubSeq(t, from(k), n - 1)
  BY <1>1, <1>2 DEF Cut
<1>5. Append(q[k], t[n]) = SubSeq(t, from(k), n)
  <2> HIDE DEF from, k
  <2> QED  BY <1>3, <1>4, SliceMore
<1>6. q[k] \in Seq(Characters) /\ Append(q[k], t[n]) \in Seq(Characters)
  <2>1. q[k] \in Seq(Characters)
    BY <1>2
  <2> QED  BY <1>1, <2>1
<1>7. /\ w \in Seq(Seq(Characters)) /\ Len(w) = k /\ w[k] = Append(q[k], t[n])
      /\ \A j \in 1 .. Len(d) : w[j] = q[j]
  BY <1>1, <1>2, <1>6
<1>8. Added(q, t[n], ".") = w
  BY <1>2 DEF Added
<1> HIDE DEF w
<1>9. ASSUME NEW j \in 1 .. Len(d) + 1
      PROVE  w[j] = SubSeq(t, IF j = 1 THEN 1 ELSE d[j - 1] + 1,
                              IF j = Len(d) + 1 THEN n ELSE d[j] - 1)
  <2>1. CASE j = k
    BY <1>5, <1>7, <2>1
  <2>2. CASE j # k
    <3>1. j \in 1 .. Len(d) /\ w[j] = q[j]
      BY <1>1, <1>7, <2>2, SMTT(60)
    <3>2. q[j] = SubSeq(t, IF j = 1 THEN 1 ELSE d[j - 1] + 1, d[j] - 1)
      BY <2>2 DEF Cut
    <3> QED  BY <2>2, <3>1, <3>2
  <2> QED  BY <2>1, <2>2
<1>10. Cut(t, n, d, w)
  BY <1>7, <1>9 DEF Cut
<1>11. Dots(t, n, d)
  BY <1>1 DEF Dots
<1> QED  BY <1>8, <1>10, <1>11

\* Split cuts a text at its dots.
LEMMA SplitCuts ==
  ASSUME NEW t \in Seq(Characters)
  PROVE  \E d : Dots(t, Len(t), d) /\ Cut(t, Len(t), d, Split(t, "."))
<1> DEFINE N == Len(t)
<1>1. PICK v \in [0 .. N -> Seq(Seq(Characters)) \ {<< >>}] :
        /\ v[0] = << << >> >>
        /\ \A n \in 1 .. N : v[n] = Added(v[n - 1], t[n], ".")
        /\ Split(t, ".") = v[N]
  BY SplitSteps
<1>2. N \in Nat
  OBVIOUS
<1> DEFINE T == {n \in 0 .. N : \E d : Dots(t, n, d) /\ Cut(t, n, d, v[n])}
<1>3. 0 \in T
  <2> DEFINE none == << >>
             q == << << >> >>
  <2>1. none \in Seq(Nat) /\ Len(none) = 0
    OBVIOUS
  <2>2. Dots(t, 0, none)
    <3> HIDE DEF none
    <3> QED  BY <2>1 DEF Dots
  <2>3. << >> \in Seq(Characters)
    OBVIOUS
  <2>4. q \in Seq(Seq(Characters)) /\ Len(q) = 1 /\ q[1] = << >>
    BY <2>3
  <2>5. SubSeq(t, 1, 0) = << >>
    OBVIOUS
  <2>6. Cut(t, 0, none, q)
    <3> HIDE DEF none, q
    <3> QED  BY <2>1, <2>4, <2>5 DEF Cut
  <2>7. v[0] = q /\ 0 \in 0 .. N
    BY <1>1, <1>2
  <2> HIDE DEF none, q
  <2> QED  BY <2>2, <2>6, <2>7
<1>4. ASSUME NEW n \in 1 .. N, n - 1 \in T
      PROVE  n \in T
  <2>1. PICK d : Dots(t, n - 1, d) /\ Cut(t, n - 1, d, v[n - 1])
    BY <1>4
  <2>2. v[n] = Added(v[n - 1], t[n], ".")
    BY <1>1
  <2>3. \E e : Dots(t, n, e) /\ Cut(t, n, e, v[n])
    BY <2>1, <2>2, CutAtDot, CutElsewhere
  <2>4. n \in 0 .. N
    BY <1>2
  <2> QED  BY <2>3, <2>4
<1>5. N \in T
  <2> HIDE DEF T, N
  <2>1. \A n \in 0 .. N : n \in T
    BY <1>2, <1>3, <1>4, InductionStep
  <2> QED  BY <1>2, <2>1
<1> QED  BY <1>1, <1>5

\* A character of a spelling is a sign or a digit.
LEMMA SpellsNo ==
  ASSUME NEW t \in Seq(Characters), NEW m \in Nat, NEW radix \in {10, 16}, Spells(t, m, radix),
         NEW i \in 1 .. Len(t), DigitsOf(t[i]) = {}
  PROVE  t[i] = "+"
<1> DEFINE u == Unsigned(t)
<1>1. u # << >> /\ Spelt(u, Len(u), m, radix)
  BY SpellsIff
<1>2. \A j \in 1 .. Len(u) : DigitsOf(u[j]) # {}
  <2> HIDE DEF u
  <2> QED  BY <1>1 DEF Spelt, Same
<1>3. CASE Len(t) > 1 /\ t[1] = "+"
  <2>1. Len(u) = Len(t) - 1 /\ \A j \in 1 .. Len(t) - 1 : u[j] = t[j + 1]
    BY <1>3 DEF Unsigned
  <2> HIDE DEF u
  <2>2. CASE i = 1
    BY <1>3, <2>2
  <2>3. CASE i # 1
    <3>1. i - 1 \in 1 .. Len(t) - 1 /\ (i - 1) + 1 = i
      BY <2>3
    <3>2. u[i - 1] = t[i] /\ i - 1 \in 1 .. Len(u)
      BY <2>1, <3>1
    <3> QED  BY <1>2, <3>2
  <2> QED  BY <2>2, <2>3
<1>4. CASE ~(Len(t) > 1 /\ t[1] = "+")
  <2>1. u = t
    BY <1>4 DEF Unsigned
  <2> QED  BY <1>2, <2>1
<1> QED  BY <1>3, <1>4

Dotted(t, d, e) ==
  d \in 1 .. Len(t) /\ e \in 1 .. Len(t) /\ d < e /\ t[d] = "." /\ t[e] = "."

ThreeParts(t, d, e, q) ==
  /\ Len(q) = 3 /\ q[1] = SubSeq(t, 1, d - 1) /\ q[2] = SubSeq(t, d + 1, e - 1)
  /\ q[3] = SubSeq(t, e + 1, Len(t))

\* Three parts lie before, between and behind two dots.
LEMMA SplitThree ==
  ASSUME NEW t \in Seq(Characters), Len(Split(t, ".")) = 3
  PROVE  \E d, e : Dotted(t, d, e) /\ ThreeParts(t, d, e, Split(t, "."))
<1> DEFINE q == Split(t, ".")
<1>1. PICK d : Dots(t, Len(t), d) /\ Cut(t, Len(t), d, q)
  BY SplitCuts
<1>2. Len(d) = 2 /\ Len(q) = 3
  <2>1. Len(q) = Len(d) + 1 /\ d \in Seq(Nat)
    BY <1>1 DEF Cut, Dots
  <2>2. Len(d) \in Nat
    BY <2>1
  <2>3. Len(q) = 3
    OBVIOUS
  <2> DEFINE n == Len(d)
             l == Len(q)
  <2>4. n \in Nat /\ l = n + 1 /\ l = 3
    BY <2>1, <2>2, <2>3
  <2> HIDE DEF n, l
  <2>5. n = 2
    BY <2>4
  <2> QED  BY <2>3, <2>5 DEF n
<1>3. Dotted(t, d[1], d[2])
  BY <1>1, <1>2 DEF Dots, Dotted
<1>4. /\ q[1] = SubSeq(t, 1, d[1] - 1) /\ q[2] = SubSeq(t, d[1] + 1, d[2] - 1)
      /\ q[3] = SubSeq(t, d[2] + 1, Len(t))
  <2> HIDE DEF q
  <2> QED  BY <1>1, <1>2 DEF Cut
<1>5. ThreeParts(t, d[1], d[2], q)
  BY <1>2, <1>4 DEF ThreeParts
<1> QED  BY <1>3, <1>5

LEMMA TwoDots ==
  ASSUME NEW t \in Seq(Characters), NEW d, NEW e, Dotted(t, d, e),
         \A i \in 1 .. Len(t) : t[i] = "." => i \in {d, e}
  PROVE  ThreeParts(t, d, e, Split(t, "."))
<1> DEFINE q == Split(t, ".")
           N == Len(t)
<1>1. PICK x : Dots(t, N, x) /\ Cut(t, N, x, q)
  BY SplitCuts
<1> HIDE DEF q
<1>2. x \in Seq(Nat) /\ Len(x) \in Nat /\ d \in 1 .. N /\ e \in 1 .. N /\ d < e /\ N \in Nat
  BY <1>1 DEF Dots, Dotted
<1>3. \A j \in 1 .. Len(x) : x[j] \in {d, e}
  BY <1>1 DEF Dots
<1>4. PICK j \in 1 .. Len(x) : x[j] = d
  BY <1>1 DEF Dots, Dotted
<1>5. PICK k \in 1 .. Len(x) : x[k] = e
  BY <1>1 DEF Dots, Dotted
<1>6. \A a, b \in 1 .. Len(x) : a < b => x[a] < x[b]
  BY <1>1 DEF Dots
<1>7. j = 1
  <2>1. ASSUME j # 1 PROVE FALSE
    <3>1. 1 \in 1 .. Len(x) /\ 1 < j
      BY <1>2, <2>1
    <3>2. x[1] < x[j] /\ x[1] \in {d, e}
      BY <1>3, <1>6, <3>1
    <3> QED  BY <1>2, <1>4, <3>2
  <2> QED  BY <2>1
<1>8. Len(x) >= 2
  BY <1>2, <1>4, <1>5, <1>7
<1>9. x[1] = d /\ x[2] = e
  <2>1. 1 \in 1 .. Len(x) /\ 2 \in 1 .. Len(x)
    BY <1>2, <1>8
  <2>2. x[1] < x[2] /\ x[2] \in {d, e}
    BY <1>3, <1>6, <2>1
  <2> QED  BY <1>2, <1>4, <1>7, <2>2
<1>10. Len(x) = 2
  <2>1. ASSUME Len(x) > 2 PROVE FALSE
    <3>1. 2 \in 1 .. Len(x) /\ 3 \in 1 .. Len(x)
      BY <1>2, <2>1
    <3>2. x[2] < x[3] /\ x[3] \in {d, e}
      BY <1>3, <1>6, <3>1
    <3> QED  BY <1>2, <1>9, <3>2, SMTT(60)
  <2> DEFINE n == Len(x)
  <2>2. n \in Nat /\ n >= 2 /\ ~(n > 2)
    BY <1>2, <1>8, <2>1
  <2> HIDE DEF n
  <2>3. n = 2
    BY <2>2
  <2> QED  BY <2>3 DEF n
<1>11. /\ Len(q) = 3 /\ q[1] = SubSeq(t, 1, d - 1) /\ q[2] = SubSeq(t, d + 1, e - 1)
       /\ q[3] = SubSeq(t, e + 1, N)
  BY <1>1, <1>9, <1>10 DEF Cut
<1> QED  BY <1>11 DEF ThreeParts, q

\* A version is read exactly if there are just two dots, and a number in each part.
LEMMA VersionParts ==
  ASSUME NEW t \in Seq(Characters), NEW version \in parse_semver_core(t)
  PROVE  \E d, e : /\ Dotted(t, d, e) /\ version = <<version[1], version[2], version[3]>>
                   /\ version[1] \in from_str_radix(SubSeq(t, 1, d - 1), 10, U16_MAX)
                   /\ version[2] \in from_str_radix(SubSeq(t, d + 1, e - 1), 10, U16_MAX)
                   /\ version[3] \in from_str_radix(SubSeq(t, e + 1, Len(t)), 10, U16_MAX)
<1> DEFINE q == Split(t, ".")
           P(n) == from_str_radix(q[n], 10, U16_MAX)
<1>1. Len(q) = 3 /\ \E a \in P(1), b \in P(2), c \in P(3) : version = <<a, b, c>>
  <2>1. version \in IF Len(q) # 3 THEN {}
                    ELSE {<<a, b, c>> : a \in P(1), b \in P(2), c \in P(3)}
    BY DEF parse_semver_core
  <2> HIDE DEF P, q
  <2> QED  BY <2>1
<1>2. PICK a \in P(1), b \in P(2), c \in P(3) : version = <<a, b, c>>
  BY <1>1
<1>3. PICK d, e : Dotted(t, d, e) /\ ThreeParts(t, d, e, q)
  BY <1>1, SplitThree
<1>4. version[1] = a /\ version[2] = b /\ version[3] = c
  BY <1>2
<1> HIDE DEF q
<1> QED  BY <1>2, <1>3, <1>4 DEF ThreeParts

LEMMA VersionIsRead ==
  ASSUME NEW t \in Seq(Characters), NEW d, NEW e, Dotted(t, d, e),
         \A i \in 1 .. Len(t) : t[i] = "." => i \in {d, e},
         NEW a \in from_str_radix(SubSeq(t, 1, d - 1), 10, U16_MAX),
         NEW b \in from_str_radix(SubSeq(t, d + 1, e - 1), 10, U16_MAX),
         NEW c \in from_str_radix(SubSeq(t, e + 1, Len(t)), 10, U16_MAX)
  PROVE  <<a, b, c>> \in parse_semver_core(t)
<1> DEFINE q == Split(t, ".")
           P(n) == from_str_radix(q[n], 10, U16_MAX)
<1>1. ThreeParts(t, d, e, q)
  BY TwoDots
<1>2. parse_semver_core(t) = IF Len(q) # 3 THEN {}
                             ELSE {<<i, j, k>> : i \in P(1), j \in P(2), k \in P(3)}
  BY DEF parse_semver_core
<1> HIDE DEF q
<1>3. Len(q) = 3 /\ a \in P(1) /\ b \in P(2) /\ c \in P(3)
  BY <1>1 DEF ThreeParts
<1> HIDE DEF P
<1> QED  BY <1>2, <1>3

\* What the two alternatives of ReadIsWhatItSpells say of a reading.
SpellsAll(r, v) ==
  \A n \in DOMAIN r : v[n] <= r[n].max /\ Spells(r[n].text, v[n], r[n].radix)
SpellsNothing(r) ==
  \E n \in DOMAIN r : \A m \in 0 .. r[n].max : ~Spells(r[n].text, m, r[n].radix)

Version(t, d, e) ==
  <<Field(SubSeq(t, 1, d - 1), 10, U16_MAX), Field(SubSeq(t, d + 1, e - 1), 10, U16_MAX),
    Field(SubSeq(t, e + 1, Len(t)), 10, U16_MAX)>>

\* The readings of a version are its choices of two dots.
LEMMA VersionReadings ==
  ASSUME NEW r, kind = "version"
  PROVE  r \in Readings <=>
           \E d, e : /\ d \in DOMAIN text /\ e \in DOMAIN text /\ d < e
                     /\ text[d] = "." /\ text[e] = "." /\ r = Version(text, d, e)
<1> DEFINE dots == {n \in DOMAIN text : text[n] = "."}
<1>1. Readings = {Version(text, d[1], d[2]) : d \in {e \in dots \X dots : e[1] < e[2]}}
  BY DEF Readings, Version
<1>2. ASSUME r \in Readings
      PROVE  \E d, e : /\ d \in dots /\ e \in dots /\ d < e /\ r = Version(text, d, e)
  <2> HIDE DEF dots
  <2>1. PICK d \in dots \X dots : d[1] < d[2] /\ r = Version(text, d[1], d[2])
    BY <1>1, <1>2
  <2> QED  BY <2>1
<1>3. ASSUME NEW d, NEW e, d \in dots, e \in dots, d < e, r = Version(text, d, e)
      PROVE  r \in Readings
  <2> DEFINE p == <<d, e>>
  <2>1. p \in dots \X dots /\ p[1] = d /\ p[2] = e
    BY <1>3
  <2> HIDE DEF dots, p
  <2> QED  BY <1>1, <1>3, <2>1
<1> QED  BY <1>2, <1>3

LEMMA VersionFields ==
  ASSUME NEW t, NEW d, NEW e
  PROVE  LET r == Version(t, d, e)
         IN /\ DOMAIN r = 1 .. 3
            /\ \A n \in 1 .. 3 : r[n].max = U16_MAX /\ r[n].radix = 10
            /\ r[1].text = SubSeq(t, 1, d - 1) /\ r[2].text = SubSeq(t, d + 1, e - 1)
            /\ r[3].text = SubSeq(t, e + 1, Len(t))
<1> DEFINE x == SubSeq(t, 1, d - 1)
           y == SubSeq(t, d + 1, e - 1)
           z == SubSeq(t, e + 1, Len(t))
           r == <<Field(x, 10, U16_MAX), Field(y, 10, U16_MAX), Field(z, 10, U16_MAX)>>
<1>1. r = Version(t, d, e)
  BY DEF Version
<1> HIDE DEF x, y, z
<1>2. /\ DOMAIN r = 1 .. 3
      /\ \A n \in 1 .. 3 : r[n].max = U16_MAX /\ r[n].radix = 10
      /\ r[1].text = x /\ r[2].text = y /\ r[3].text = z
  BY DEF Field
<1> HIDE DEF r
<1> QED  BY <1>1, <1>2 DEF x, y, z

\* A version that is read is spelled by its parts, ...
LEMMA VersionRead ==
  ASSUME text \in Seq(Characters), kind = "version", value \in parse_semver_core(text)
  PROVE  \E r \in Readings : SpellsAll(r, value)
<1>1. PICK d, e : /\ Dotted(text, d, e)
                  /\ value[1] \in from_str_radix(SubSeq(text, 1, d - 1), 10, U16_MAX)
                  /\ value[2] \in from_str_radix(SubSeq(text, d + 1, e - 1), 10, U16_MAX)
                  /\ value[3] \in from_str_radix(SubSeq(text, e + 1, Len(text)), 10, U16_MAX)
  BY VersionParts
<1> DEFINE r == Version(text, d, e)
<1>2. DOMAIN text = 1 .. Len(text) /\ Len(text) \in Nat
  OBVIOUS
<1>3. r \in Readings
  BY <1>1, <1>2, VersionReadings DEF Dotted
<1>4. U16_MAX \in Nat
  BY TextsAssumption
<1>5. d \in Nat /\ e \in Nat /\ d \in 1 .. Len(text) /\ e \in 1 .. Len(text) /\ d < e
  BY <1>1, <1>2 DEF Dotted
<1>6. /\ SubSeq(text, 1, d - 1) \in Seq(Characters)
      /\ SubSeq(text, d + 1, e - 1) \in Seq(Characters)
      /\ SubSeq(text, e + 1, Len(text)) \in Seq(Characters)
  BY <1>2, <1>5, SliceIs
<1>7. \A n \in 1 .. 3 : value[n] \in 0 .. U16_MAX /\ Spells(r[n].text, value[n], 10)
  <2> HIDE DEF r
  <2>1. /\ r[1].text = SubSeq(text, 1, d - 1) /\ r[2].text = SubSeq(text, d + 1, e - 1)
        /\ r[3].text = SubSeq(text, e + 1, Len(text))
    BY VersionFields DEF r
  <2>2. 10 \in {10, 16}
    OBVIOUS
  <2>3. value[1] \in 0 .. U16_MAX /\ Spells(r[1].text, value[1], 10)
    BY <1>1, <1>4, <1>6, <2>1, <2>2, ReadIffSpells
  <2>4. value[2] \in 0 .. U16_MAX /\ Spells(r[2].text, value[2], 10)
    BY <1>1, <1>4, <1>6, <2>1, <2>2, ReadIffSpells
  <2>5. value[3] \in 0 .. U16_MAX /\ Spells(r[3].text, value[3], 10)
    BY <1>1, <1>4, <1>6, <2>1, <2>2, ReadIffSpells
  <2>6. 1 .. 3 = {1, 2, 3}
    OBVIOUS
  <2> QED  BY <2>3, <2>4, <2>5, <2>6
<1>8. DOMAIN r = 1 .. 3 /\ \A n \in 1 .. 3 : r[n].max = U16_MAX /\ r[n].radix = 10
  BY VersionFields
<1> HIDE DEF r
<1>9. SpellsAll(r, value)
  BY <1>4, <1>7, <1>8 DEF SpellsAll
<1> QED  BY <1>3, <1>9

\* ... and one that is refused by no choice of dots.
LEMMA VersionRefused ==
  ASSUME text \in Seq(Characters), kind = "version", parse_semver_core(text) = {},
         NEW r \in Readings
  PROVE  SpellsNothing(r)
<1>1. DOMAIN text = 1 .. Len(text) /\ Len(text) \in Nat /\ U16_MAX \in Nat /\ 10 \in {10, 16}
  BY TextsAssumption
<1>2. PICK d, e : /\ d \in DOMAIN text /\ e \in DOMAIN text /\ d < e
                  /\ text[d] = "." /\ text[e] = "." /\ r = Version(text, d, e)
  BY VersionReadings
<1>3. Dotted(text, d, e) /\ d \in Nat /\ e \in Nat
  BY <1>1, <1>2 DEF Dotted
<1> DEFINE x == SubSeq(text, 1, d - 1)
           y == SubSeq(text, d + 1, e - 1)
           z == SubSeq(text, e + 1, Len(text))
<1>4. /\ DOMAIN r = 1 .. 3 /\ \A n \in 1 .. 3 : r[n].max = U16_MAX /\ r[n].radix = 10
      /\ r[1].text = x /\ r[2].text = y /\ r[3].text = z
  <2> DEFINE v == Version(text, d, e)
  <2>1. /\ DOMAIN v = 1 .. 3 /\ \A n \in 1 .. 3 : v[n].max = U16_MAX /\ v[n].radix = 10
        /\ v[1].text = x /\ v[2].text = y /\ v[3].text = z
    BY VersionFields
  <2> HIDE DEF v, x, y, z
  <2>2. r = v
    BY <1>2 DEF v
  <2> QED  BY <2>1, <2>2
<1>5. /\ x \in Seq(Characters) /\ Len(x) = d - 1 /\ \A i \in 1 .. d - 1 : x[i] = text[i]
      /\ y \in Seq(Characters) /\ Len(y) = e - d - 1
      /\ \A i \in 1 .. e - d - 1 : y[i] = text[d + i]
      /\ z \in Seq(Characters) /\ Len(z) = Len(text) - e
      /\ \A i \in 1 .. Len(text) - e : z[i] = text[e + i]
  <2>1. d \in 1 .. Len(text) /\ e \in 1 .. Len(text) /\ d < e
    BY <1>3 DEF Dotted
  <2>2. x \in Seq(Characters) /\ Len(x) = d - 1 /\ \A i \in 1 .. d - 1 : x[i] = text[i]
    BY <1>1, <1>3, <2>1, SliceIs
  <2>3. /\ y \in Seq(Characters) /\ Len(y) = e - d - 1
        /\ \A i \in 1 .. e - d - 1 : y[i] = text[d + i]
    BY <1>1, <1>3, <2>1, SliceIs
  <2>4. /\ z \in Seq(Characters) /\ Len(z) = Len(text) - e
        /\ \A i \in 1 .. Len(text) - e : z[i] = text[e + i]
    BY <2>1, SliceAfter
  <2> QED  BY <2>2, <2>3, <2>4
<1> HIDE DEF x, y, z
<1>6. SUFFICES ASSUME ~SpellsNothing(r)
               PROVE  FALSE
  OBVIOUS
<1>7. /\ \E m \in 0 .. U16_MAX : Spells(x, m, 10)
      /\ \E m \in 0 .. U16_MAX : Spells(y, m, 10)
      /\ \E m \in 0 .. U16_MAX : Spells(z, m, 10)
  <2>1. \A n \in 1 .. 3 : \E m \in 0 .. U16_MAX : Spells(r[n].text, m, 10)
    BY <1>4, <1>6 DEF SpellsNothing
  <2>2. 1 \in 1 .. 3 /\ 2 \in 1 .. 3 /\ 3 \in 1 .. 3
    OBVIOUS
  <2> QED  BY <1>4, <2>1, <2>2
<1>8. PICK a \in 0 .. U16_MAX : Spells(x, a, 10)
  BY <1>7
<1>9. PICK b \in 0 .. U16_MAX : Spells(y, b, 10)
  BY <1>7
<1>10. PICK c \in 0 .. U16_MAX : Spells(z, c, 10)
  BY <1>7
<1>11. a \in Nat /\ b \in Nat /\ c \in Nat
  BY <1>1
<1>12. DigitsOf(".") = {} /\ "." # "+"
  BY NoDigits
<1>13. ASSUME NEW i \in 1 .. Len(text), text[i] = "."
       PROVE  i \in {d, e}
  <2>1. CASE i < d
    <3>1. i \in 1 .. Len(x) /\ x[i] = "."
      BY <1>1, <1>3, <1>5, <1>13, <2>1
    <3> QED  BY <1>1, <1>5, <1>8, <1>11, <1>12, <3>1, SpellsNo
  <2>2. CASE d < i /\ i < e
    <3>1. i - d \in 1 .. e - d - 1 /\ d + (i - d) = i
      BY <1>1, <1>3, <2>2
    <3>2. i - d \in 1 .. Len(y) /\ y[i - d] = "."
      BY <1>5, <1>13, <3>1
    <3> QED  BY <1>1, <1>5, <1>9, <1>11, <1>12, <3>2, SpellsNo
  <2>3. CASE e < i
    <3>1. i - e \in 1 .. Len(text) - e /\ e + (i - e) = i
      BY <1>1, <1>3, <2>3
    <3>2. i - e \in 1 .. Len(z) /\ z[i - e] = "."
      BY <1>5, <1>13, <3>1
    <3> QED  BY <1>1, <1>5, <1>10, <1>11, <1>12, <3>2, SpellsNo
  <2> QED  BY <1>1, <1>3, <2>1, <2>2, <2>3
<1>14. /\ a \in from_str_radix(x, 10, U16_MAX)
       /\ b \in from_str_radix(y, 10, U16_MAX)
       /\ c \in from_str_radix(z, 10, U16_MAX)
  BY <1>1, <1>5, <1>8, <1>9, <1>10, ReadIffSpells
<1>15. <<a, b, c>> \in parse_semver_core(text)
  <2>1. \A i \in 1 .. Len(text) : text[i] = "." => i \in {d, e}
    BY <1>13
  <2> QED  BY <1>3, <1>14, <2>1, VersionIsRead DEF x, y, z
<1> QED  BY <1>15

LEMMA NumeralAlone ==
  ASSUME NEW max \in Nat, NEW m \in 0 .. max
  PROVE  from_str_radix(Numeral(m, 10), 10, max) = {m}
<1> DEFINE a == Numeral(m, 10)
<1>1. 10 \in {10, 16} /\ 16 \in {10, 16}
  OBVIOUS
<1>2. a \in Seq(Characters)
  <2>1. m \in Nat
    OBVIOUS
  <2> QED  BY <1>1, <2>1, NumeralIs
<1>3. PICK w \in Nat : w = 0
  OBVIOUS
<1>4. Zeros(w) = << >>
  BY <1>3 DEF Zeros
<1>5. Zeros(w) \o a = a
  <2> HIDE DEF a
  <2> QED  BY <1>2, <1>4
<1>6. ReadsBack(w, m, 10, max)
  BY <1>1, NumeralIsRead
<1> QED  BY <1>5, <1>6 DEF ReadsBack

LEMMA NumeralNoDot ==
  ASSUME NEW m \in Nat, NEW radix \in {10, 16}, NEW i \in 1 .. Len(Numeral(m, radix))
  PROVE  Numeral(m, radix)[i] # "."
<1>1. PICK d \in 0 .. radix - 1 : Numeral(m, radix)[i] = Lower[d + 1]
  BY NumeralDigits
<1>2. d \in 0 .. 15
  OBVIOUS
<1>3. DigitsOf(Numeral(m, radix)[i]) = {d} /\ DigitsOf(".") = {}
  BY <1>1, <1>2, DigitOfLower, NoDigits
<1> QED  BY <1>3

Joins(t, s, u) ==
  /\ t \in Seq(Characters) /\ Len(t) = Len(s) + Len(u)
  /\ \A i \in 1 .. Len(s) : t[i] = s[i]
  /\ \A i \in 1 .. Len(u) : t[i + Len(s)] = u[i]

LEMMA JoinedIs ==
  ASSUME NEW s \in Seq(Characters), NEW u \in Seq(Characters)
  PROVE  Joins(s \o u, s, u)
BY Joined DEF Joins

Slices(s, t, a, b) ==
  /\ s \in Seq(Characters) /\ Len(s) = b + 1 - a
  /\ \A i \in 1 .. b + 1 - a : s[i] = t[a + i - 1]

LEMMA SlicedIs ==
  ASSUME NEW t \in Seq(Characters), NEW a \in Nat \ {0}, NEW b \in Nat, b <= Len(t), a <= b + 1
  PROVE  Slices(SubSeq(t, a, b), t, a, b)
BY SliceIs DEF Slices

\* Three texts with dots between them.
LEMMA DottedText ==
  ASSUME NEW a \in Seq(Characters), NEW b \in Seq(Characters), NEW c \in Seq(Characters)
  PROVE  LET t == a \o <<".">> \o b \o <<".">> \o c
             d == Len(a) + 1
             e == Len(a) + Len(b) + 2
         IN /\ t \in Seq(Characters) /\ Len(t) = Len(a) + Len(b) + Len(c) + 2
            /\ t[d] = "." /\ t[e] = "."
            /\ \A i \in 1 .. Len(a) : t[i] = a[i]
            /\ \A i \in 1 .. Len(b) : t[i + d] = b[i]
            /\ \A i \in 1 .. Len(c) : t[i + e] = c[i]
<1> DEFINE dot == <<".">>
           s == a \o dot
           u == s \o b
           w == u \o dot
           t == w \o c
           la == Len(a)
           lb == Len(b)
           lc == Len(c)
<1>1. dot \in Seq(Characters) /\ Len(dot) = 1 /\ dot[1] = "."
  BY TextsAssumption
<1>2. la \in Nat /\ lb \in Nat /\ lc \in Nat
  OBVIOUS
<1> HIDE DEF dot
<1>3. /\ s \in Seq(Characters) /\ Len(s) = la + 1
      /\ \A i \in 1 .. la : s[i] = a[i]
      /\ s[1 + la] = "."
  <2>1. /\ s \in Seq(Characters) /\ Len(s) = Len(a) + Len(dot)
        /\ \A i \in 1 .. Len(a) : s[i] = a[i]
        /\ \A i \in 1 .. Len(dot) : s[i + Len(a)] = dot[i]
    <3>1. Joins(s, a, dot)
      BY <1>1, JoinedIs
    <3> HIDE DEF s
    <3> QED  BY <3>1 DEF Joins
  <2> HIDE DEF s, la
  <2>2. 1 \in 1 .. Len(dot)
    BY <1>1
  <2> QED  BY <1>1, <2>1, <2>2 DEF la
<1> HIDE DEF s
<1>4. /\ u \in Seq(Characters) /\ Len(u) = la + 1 + lb
      /\ \A i \in 1 .. la + 1 : u[i] = s[i]
      /\ \A i \in 1 .. lb : u[i + (la + 1)] = b[i]
  <2>1. /\ u \in Seq(Characters) /\ Len(u) = Len(s) + lb
        /\ \A i \in 1 .. Len(s) : u[i] = s[i]
        /\ \A i \in 1 .. lb : u[i + Len(s)] = b[i]
    <3>1. Joins(u, s, b)
      BY <1>3, JoinedIs
    <3> HIDE DEF u
    <3> QED  BY <3>1 DEF Joins
  <2> HIDE DEF u, la, lb
  <2> QED  BY <1>3, <2>1
<1> HIDE DEF u
<1>5. /\ w \in Seq(Characters) /\ Len(w) = la + lb + 2
      /\ \A i \in 1 .. la + 1 + lb : w[i] = u[i]
      /\ w[la + lb + 2] = "."
  <2>1. /\ w \in Seq(Characters) /\ Len(w) = Len(u) + Len(dot)
        /\ \A i \in 1 .. Len(u) : w[i] = u[i]
        /\ \A i \in 1 .. Len(dot) : w[i + Len(u)] = dot[i]
    <3>1. Joins(w, u, dot)
      BY <1>1, <1>4, JoinedIs
    <3> HIDE DEF w
    <3> QED  BY <3>1 DEF Joins
  <2>2. w[1 + Len(u)] = "."
    BY <1>1, <2>1
  <2> HIDE DEF w, la, lb
  <2>3. 1 + Len(u) = la + lb + 2
    BY <1>2, <1>4
  <2> QED  BY <1>1, <1>2, <1>4, <2>1, <2>2, <2>3
<1> HIDE DEF w
<1>6. /\ t \in Seq(Characters) /\ Len(t) = la + lb + lc + 2
      /\ \A i \in 1 .. la + lb + 2 : t[i] = w[i]
      /\ \A i \in 1 .. lc : t[i + (la + lb + 2)] = c[i]
  <2>1. /\ t \in Seq(Characters) /\ Len(t) = Len(w) + lc
        /\ \A i \in 1 .. Len(w) : t[i] = w[i]
        /\ \A i \in 1 .. lc : t[i + Len(w)] = c[i]
    <3>1. Joins(t, w, c)
      BY <1>5, JoinedIs
    <3> HIDE DEF t
    <3> QED  BY <3>1 DEF Joins
  <2> HIDE DEF t, la, lb, lc
  <2> QED  BY <1>2, <1>5, <2>1
<1> HIDE DEF t, la, lb, lc
<1>7. t[la + 1] = "." /\ \A i \in 1 .. la : t[i] = a[i]
  <2>1. t[la + 1] = w[la + 1] /\ w[la + 1] = u[la + 1] /\ u[la + 1] = s[la + 1] /\ s[la + 1] = "."
    BY <1>2, <1>3, <1>4, <1>5, <1>6
  <2>2. ASSUME NEW i \in 1 .. la PROVE t[i] = a[i]
    <3>1. i \in 1 .. la + lb + 2 /\ i \in 1 .. la + 1 + lb /\ i \in 1 .. la + 1
      BY <1>2
    <3> QED  BY <1>3, <1>4, <1>5, <1>6, <3>1
  <2> QED  BY <2>1, <2>2
<1>8. t[la + lb + 2] = "."
  BY <1>2, <1>5, <1>6
<1>9. ASSUME NEW i \in 1 .. lb PROVE t[i + (la + 1)] = b[i]
  <2>1. i + (la + 1) \in 1 .. la + lb + 2 /\ i + (la + 1) \in 1 .. la + 1 + lb
    BY <1>2
  <2> QED  BY <1>4, <1>5, <1>6, <2>1
<1> QED  BY <1>6, <1>7, <1>8, <1>9 DEF t, w, u, s, dot, la, lb, lc

\* A printed version has two dots and is read back.
LEMMA VersionPrinted ==
  ASSUME NEW i \in 0 .. U16_MAX, NEW j \in 0 .. U16_MAX, NEW k \in 0 .. U16_MAX
  PROVE  /\ version_string(<<i, j, k>>) \in Seq(Characters)
         /\ parse_semver_core(version_string(<<i, j, k>>)) = {<<i, j, k>>}
<1> DEFINE a == Numeral(i, 10)
           b == Numeral(j, 10)
           c == Numeral(k, 10)
           t == a \o <<".">> \o b \o <<".">> \o c
           d == Len(a) + 1
           e == Len(a) + Len(b) + 2
<1>1. U16_MAX \in Nat /\ i \in Nat /\ j \in Nat /\ k \in Nat /\ 10 \in {10, 16}
  BY TextsAssumption
<1>2. version_string(<<i, j, k>>) = t
  BY DEF version_string
<1>3. a \in Seq(Characters) /\ b \in Seq(Characters) /\ c \in Seq(Characters)
  BY <1>1, NumeralIs
<1>4. Len(a) \in Nat /\ Len(b) \in Nat /\ Len(c) \in Nat
  BY <1>3
<1>5. /\ \A n \in 1 .. Len(a) : a[n] # "."
      /\ \A n \in 1 .. Len(b) : b[n] # "."
      /\ \A n \in 1 .. Len(c) : c[n] # "."
  BY <1>1, NumeralNoDot
<1>6. /\ from_str_radix(a, 10, U16_MAX) = {i}
      /\ from_str_radix(b, 10, U16_MAX) = {j}
      /\ from_str_radix(c, 10, U16_MAX) = {k}
  BY <1>1, NumeralAlone
<1> HIDE DEF a, b, c
<1>7. /\ t \in Seq(Characters) /\ Len(t) = Len(a) + Len(b) + Len(c) + 2
      /\ t[d] = "." /\ t[e] = "."
      /\ \A n \in 1 .. Len(a) : t[n] = a[n]
      /\ \A n \in 1 .. Len(b) : t[n + d] = b[n]
      /\ \A n \in 1 .. Len(c) : t[n + e] = c[n]
  BY <1>3, DottedText, ZenonT(60)
<1> HIDE DEF t
<1> DEFINE N == Len(t)
<1>8. /\ d \in 1 .. N /\ e \in 1 .. N /\ d < e /\ N \in Nat /\ d \in Nat /\ e \in Nat
      /\ d - 1 = Len(a) /\ e - d - 1 = Len(b) /\ N - e = Len(c)
  BY <1>4, <1>7
<1> HIDE DEF d, e, N
<1>9. Dotted(t, d, e)
  BY <1>7, <1>8 DEF Dotted, N
<1>10. SubSeq(t, 1, d - 1) = a
  <2> DEFINE x == SubSeq(t, 1, d - 1)
  <2>1. d - 1 \in Nat /\ d - 1 <= Len(t) /\ 1 <= d - 1 + 1 /\ d - 1 + 1 - 1 = Len(a)
    BY <1>8 DEF N
  <2>2. /\ x \in Seq(Characters) /\ Len(x) = d - 1 + 1 - 1
        /\ \A n \in 1 .. d - 1 + 1 - 1 : x[n] = t[1 + n - 1]
    BY <1>7, <2>1, SliceIs
  <2> HIDE DEF x
  <2>3. Len(x) = Len(a) /\ \A n \in 1 .. Len(x) : x[n] = a[n]
    BY <1>4, <1>7, <2>1, <2>2
  <2>4. x = a
    BY <1>3, <2>2, <2>3, SameSequence
  <2> QED  BY <2>4 DEF x
<1>11. SubSeq(t, d + 1, e - 1) = b
  <2> DEFINE x == SubSeq(t, d + 1, e - 1)
  <2>1. /\ d + 1 \in Nat \ {0} /\ e - 1 \in Nat /\ e - 1 <= Len(t) /\ d + 1 <= e - 1 + 1
        /\ e - 1 + 1 - (d + 1) = Len(b)
    BY <1>8 DEF N
  <2>2. /\ x \in Seq(Characters) /\ Len(x) = e - 1 + 1 - (d + 1)
        /\ \A n \in 1 .. e - 1 + 1 - (d + 1) : x[n] = t[(d + 1) + n - 1]
    <3>1. Slices(x, t, d + 1, e - 1)
      BY <1>7, <2>1, SlicedIs
    <3> HIDE DEF x
    <3> QED  BY <3>1 DEF Slices
  <2> HIDE DEF x
  <2>3. ASSUME NEW n \in 1 .. Len(b) PROVE x[n] = b[n]
    <3>1. (d + 1) + n - 1 = n + d
      BY <1>8
    <3> QED  BY <1>7, <2>1, <2>2, <3>1
  <2>4. x = b
    BY <1>3, <2>1, <2>2, <2>3, SameSequence
  <2> QED  BY <2>4 DEF x
<1>12. SubSeq(t, e + 1, Len(t)) = c
  <2> DEFINE x == SubSeq(t, e + 1, Len(t))
  <2>1. /\ x \in Seq(Characters) /\ Len(x) = Len(t) - e
        /\ \A n \in 1 .. Len(t) - e : x[n] = t[e + n]
    BY <1>7, <1>8, SliceAfter, ZenonT(60) DEF N
  <2>2. Len(t) - e = Len(c)
    BY <1>8 DEF N
  <2> HIDE DEF x
  <2>3. ASSUME NEW n \in 1 .. Len(c) PROVE x[n] = c[n]
    <3>1. e + n = n + e
      BY <1>8
    <3> QED  BY <1>7, <2>1, <2>2, <3>1
  <2>4. x = c
    BY <1>3, <2>1, <2>2, <2>3, SameSequence
  <2> QED  BY <2>4 DEF x
<1>13. ASSUME NEW n \in 1 .. N, t[n] = "."
       PROVE  n \in {d, e}
  <2>1. CASE n < d
    <3>1. n \in 1 .. Len(a)
      BY <1>8, <2>1
    <3> QED  BY <1>5, <1>7, <1>13, <3>1
  <2>2. CASE d < n /\ n < e
    <3>1. n - d \in 1 .. Len(b) /\ (n - d) + d = n
      BY <1>8, <2>2
    <3> QED  BY <1>5, <1>7, <1>13, <3>1
  <2>3. CASE e < n
    <3>1. n - e \in 1 .. Len(c) /\ (n - e) + e = n
      BY <1>8, <2>3
    <3> QED  BY <1>5, <1>7, <1>13, <3>1
  <2> QED  BY <1>8, <2>1, <2>2, <2>3
<1>14. \A n \in 1 .. Len(t) : t[n] = "." => n \in {d, e}
  BY <1>13 DEF N
<1>15. <<i, j, k>> \in parse_semver_core(t)
  BY <1>6, <1>7, <1>9, <1>10, <1>11, <1>12, <1>14, VersionIsRead
<1>16. ASSUME NEW v \in parse_semver_core(t)
       PROVE  v = <<i, j, k>>
  <2>1. PICK x, y : /\ Dotted(t, x, y) /\ v = <<v[1], v[2], v[3]>>
                    /\ v[1] \in from_str_radix(SubSeq(t, 1, x - 1), 10, U16_MAX)
                    /\ v[2] \in from_str_radix(SubSeq(t, x + 1, y - 1), 10, U16_MAX)
                    /\ v[3] \in from_str_radix(SubSeq(t, y + 1, Len(t)), 10, U16_MAX)
    BY <1>7, VersionParts
  <2>2. x = d /\ y = e
    <3>1. /\ x \in 1 .. N /\ y \in 1 .. N /\ x < y /\ t[x] = "." /\ t[y] = "."
      BY <2>1 DEF Dotted, N
    <3>2. x \in {d, e} /\ y \in {d, e}
      BY <1>13, <3>1
    <3> QED  BY <1>8, <3>1, <3>2
  <2>3. v[1] = i /\ v[2] = j /\ v[3] = k
    BY <1>6, <1>10, <1>11, <1>12, <2>1, <2>2
  <2> QED  BY <2>1, <2>3
<1> QED  BY <1>2, <1>7, <1>15, <1>16

-----------------------------------------------------------------------------
\* Key IDs: bytes strung together and taken two by two.

\* Texts strung together one after the other.
Strung(f, N, e) == f = [n \in 0 .. N |-> IF n = 0 THEN << >> ELSE f[n - 1] \o e[n]]

LEMMA StrungTogether ==
  ASSUME NEW N \in Nat, NEW e, e \in [1 .. N -> Seq(Characters)]
  PROVE  \E g \in [0 .. N -> Seq(Characters)] : Strung(g, N, e)
<1> DEFINE T == Seq(Characters)
           F == [x \in (0 .. N) \X T |-> IF x[1] = 0 THEN << >> ELSE x[2] \o e[x[1]]]
<1>1. << >> \in T
  OBVIOUS
<1>2. F \in [(0 .. N) \X T -> T]
  <2>1. ASSUME NEW x \in (0 .. N) \X T
        PROVE  (IF x[1] = 0 THEN << >> ELSE x[2] \o e[x[1]]) \in T
    <3>1. x[1] \in 0 .. N /\ x[2] \in Seq(Characters)
      OBVIOUS
    <3>2. CASE x[1] # 0
      <4>1. e[x[1]] \in Seq(Characters)
        BY <3>1, <3>2
      <4> DEFINE s == x[2]
                 u == e[x[1]]
      <4> HIDE DEF s, u
      <4>2. s \o u \in Seq(Characters)
        BY <3>1, <4>1 DEF s, u
      <4> QED  BY <3>2, <4>2 DEF s, u
    <3> QED  BY <1>1, <3>2
  <2> QED  BY <2>1
<1> HIDE DEF T
<1>3. PICK g \in [0 .. N -> T] : Iterates(g, N, << >>, F)
  <2> HIDE DEF F
  <2> QED  BY <1>1, <1>2, Iteration
<1>4. ASSUME NEW n \in 0 .. N
      PROVE  g[n] = IF n = 0 THEN << >> ELSE g[n - 1] \o e[n]
  <2>1. CASE n = 0
    BY <1>3, <2>1 DEF Iterates
  <2>2. CASE n # 0
    <3>1. n \in 1 .. N
      BY <2>2
    <3>2. g[n] = F[<<n, g[n - 1]>>]
      <4> HIDE DEF F
      <4> QED  BY <1>3, <3>1 DEF Iterates
    <3>3. <<n, g[n - 1]>> \in (0 .. N) \X T
      BY <3>1
    <3> QED  BY <2>2, <3>2, <3>3
  <2> QED  BY <2>1, <2>2
<1>5. g = [n \in 0 .. N |-> IF n = 0 THEN << >> ELSE g[n - 1] \o e[n]]
  <2> HIDE DEF F
  <2> QED  BY <1>3, <1>4
<1> QED  BY <1>3, <1>5 DEF Strung, T

\* They are, step by step.
LEMMA StrungSteps ==
  ASSUME NEW N \in Nat, NEW e, e \in [1 .. N -> Seq(Characters)], NEW f, Strung(f, N, e)
  PROVE  /\ f \in [0 .. N -> Seq(Characters)] /\ f[0] = << >>
         /\ \A n \in 1 .. N : Joins(f[n], f[n - 1], e[n])
<1>1. f = [n \in 0 .. N |-> IF n = 0 THEN << >> ELSE f[n - 1] \o e[n]]
  BY DEF Strung
<1>2. f[0] = << >> /\ \A n \in 1 .. N : f[n] = f[n - 1] \o e[n]
  BY <1>1
<1> DEFINE S == {n \in 0 .. N : f[n] \in Seq(Characters)}
<1>3. 0 \in S
  <2>1. << >> \in Seq(Characters) /\ 0 \in 0 .. N
    OBVIOUS
  <2> QED  BY <1>2, <2>1
<1>4. ASSUME NEW n \in 1 .. N, n - 1 \in S PROVE n \in S
  <2>1. f[n - 1] \in Seq(Characters) /\ e[n] \in Seq(Characters)
    BY <1>4
  <2>2. f[n - 1] \o e[n] \in Seq(Characters)
    BY <2>1, JoinedIs DEF Joins
  <2>3. f[n] \in Seq(Characters) /\ n \in 0 .. N
    <3> DEFINE w == f[n - 1] \o e[n]
    <3>1. f[n] = w /\ w \in Seq(Characters)
      BY <1>2, <2>2
    <3> HIDE DEF w
    <3> QED  BY <3>1
  <2> QED  BY <2>3
<1>5. \A n \in 0 .. N : f[n] \in Seq(Characters)
  <2> HIDE DEF S
  <2>1. \A n \in 0 .. N : n \in S
    BY <1>3, <1>4, InductionStep
  <2> QED  BY <2>1 DEF S
<1>6. f \in [0 .. N -> Seq(Characters)]
  BY <1>1, <1>5
<1>7. ASSUME NEW n \in 1 .. N
      PROVE  Joins(f[n], f[n - 1], e[n])
  <2>1. n - 1 \in 0 .. N
    OBVIOUS
  <2>2. f[n - 1] \in Seq(Characters)
    BY <1>5, <2>1
  <2>3. e[n] \in Seq(Characters)
    OBVIOUS
  <2>4. f[n] = f[n - 1] \o e[n]
    BY <1>2
  <2> QED  BY <2>2, <2>3, <2>4, JoinedIs
<1> QED  BY <1>2, <1>6, <1>7

\* The bytes of a text are strung together.
LEMMA Utf8Steps ==
  ASSUME NEW t \in Seq(Characters)
  PROVE  \E f, e : /\ e = [n \in 1 .. Len(t) |-> Encoded(t[n])]
                   /\ e \in [1 .. Len(t) -> Seq(Characters)]
                   /\ Strung(f, Len(t), e) /\ Utf8(t) = f[Len(t)]
<1> DEFINE N == Len(t)
           e == [n \in 1 .. N |-> Encoded(t[n])]
           R(g) == g = [n \in 0 .. N |-> IF n = 0 THEN << >> ELSE g[n - 1] \o Encoded(t[n])]
           f == CHOOSE g : R(g)
<1>1. N \in Nat
  OBVIOUS
<1>2. Utf8(t) = f[N]
  BY Zenon DEF Utf8
<1>3. e \in [1 .. N -> Seq(Characters)]
  <2>1. ASSUME NEW n \in 1 .. N PROVE Encoded(t[n]) \in Seq(Characters)
    <3>1. t[n] \in Characters /\ Continuation \in Characters
      BY TextsAssumption, SMTT(60)
    <3> QED  BY <3>1 DEF Encoded
  <2> QED  BY <2>1
<1> HIDE DEF f
<1>4. ASSUME NEW g PROVE Strung(g, N, e) <=> R(g)
  <2>1. ASSUME NEW n \in 0 .. N
        PROVE  (IF n = 0 THEN << >> ELSE g[n - 1] \o e[n])
                 = (IF n = 0 THEN << >> ELSE g[n - 1] \o Encoded(t[n]))
    <3>1. CASE n = 0
      BY <3>1
    <3>2. CASE n # 0
      <4>1. e[n] = Encoded(t[n])
        BY <1>1, <3>2
      <4> HIDE DEF e
      <4> QED  BY <3>2, <4>1
    <3> QED  BY <3>1, <3>2
  <2>2. [n \in 0 .. N |-> IF n = 0 THEN << >> ELSE g[n - 1] \o e[n]]
          = [n \in 0 .. N |-> IF n = 0 THEN << >> ELSE g[n - 1] \o Encoded(t[n])]
    <3> HIDE DEF e, N
    <3> QED  BY <2>1
  <2> HIDE DEF e, N
  <2> QED  BY <2>2 DEF Strung
<1>5. \E g : R(g)
  <2>1. \E g \in [0 .. N -> Seq(Characters)] : Strung(g, N, e)
    <3> HIDE DEF N, e
    <3> QED  BY <1>1, <1>3, StrungTogether
  <2> HIDE DEF R, e, N
  <2> QED  BY <1>4, <2>1
<1>6. R(f)
  BY <1>5, Zenon DEF f
<1>7. Strung(f, N, e)
  <2> HIDE DEF R, e, N
  <2> QED  BY <1>4, <1>6
<1> QED  BY <1>2, <1>3, <1>7

\* A text without a wide character is its own bytes, and any other has a byte
\* that no number is written with.
LEMMA Utf8Is ==
  ASSUME NEW t \in Seq(Characters)
  PROVE  /\ Utf8(t) \in Seq(Characters)
         /\ (\A i \in 1 .. Len(t) : t[i] \notin Wide) => Utf8(t) = t
         /\ (\A i \in 1 .. Len(Utf8(t)) : Utf8(t)[i] \notin Wide) => Utf8(t) = t
<1> DEFINE N == Len(t)
<1>1. PICK f, e : /\ e = [n \in 1 .. N |-> Encoded(t[n])]
                  /\ e \in [1 .. N -> Seq(Characters)]
                  /\ Strung(f, N, e) /\ Utf8(t) = f[N]
  BY Utf8Steps
<1>2. N \in Nat
  OBVIOUS
<1>3. /\ f \in [0 .. N -> Seq(Characters)] /\ f[0] = << >>
      /\ \A n \in 1 .. N : Joins(f[n], f[n - 1], e[n])
  BY <1>1, <1>2, StrungSteps
<1> DEFINE Plain(n) == Len(f[n]) = n /\ \A i \in 1 .. n : f[n][i] = t[i]
           Marked(n) == \E i \in 1 .. Len(f[n]) : f[n][i] \in Wide
           S == {n \in 0 .. N : \/ Plain(n) /\ \A i \in 1 .. n : t[i] \notin Wide
                                \/ Marked(n) /\ \E i \in 1 .. n : t[i] \in Wide}
<1>4. 0 \in S
  BY <1>3
<1>5. ASSUME NEW n \in 1 .. N, n - 1 \in S
      PROVE  n \in S
  <2>0. n \in 0 .. N /\ n - 1 \in 0 .. N /\ n \in Nat
    BY <1>2
  <2>1. /\ f[n] \in Seq(Characters) /\ f[n - 1] \in Seq(Characters)
        /\ Len(f[n]) \in Nat /\ Len(f[n - 1]) \in Nat
    <3>1. f[n] \in Seq(Characters) /\ f[n - 1] \in Seq(Characters)
      BY <1>3, <2>0
    <3> QED  BY <3>1
  <2>2. e[n] = IF t[n] \in Wide THEN <<t[n], Continuation>> ELSE <<t[n]>>
    BY <1>1 DEF Encoded
  <2>3. /\ Len(f[n]) = Len(f[n - 1]) + Len(e[n])
        /\ \A i \in 1 .. Len(f[n - 1]) : f[n][i] = f[n - 1][i]
        /\ \A i \in 1 .. Len(e[n]) : f[n][i + Len(f[n - 1])] = e[n][i]
    BY <1>3 DEF Joins
  <2>4. Len(e[n]) >= 1 /\ e[n][1] = t[n] /\ Len(e[n]) \in Nat
    BY <2>2
  <2>9. 1 + Len(f[n - 1]) \in 1 .. Len(f[n]) /\ Len(f[n - 1]) <= Len(f[n])
    <3> DEFINE l == Len(f[n])
               k == Len(f[n - 1])
               h == Len(e[n])
    <3>1. l \in Nat /\ k \in Nat /\ h \in Nat /\ l = k + h /\ h >= 1
      BY <2>1, <2>3, <2>4
    <3> HIDE DEF l, k, h
    <3>2. 1 + k \in 1 .. l /\ k <= l
      BY <3>1
    <3> QED  BY <3>2 DEF k, l
  <2>5. f[n][1 + Len(f[n - 1])] = t[n]
    BY <2>3, <2>4
  <2>6. CASE t[n] \in Wide
    <3>1. Marked(n)
      BY <2>5, <2>6, <2>9
    <3> QED  BY <2>0, <2>6, <3>1
  <2>7. CASE t[n] \notin Wide /\ Marked(n - 1) /\ \E i \in 1 .. n - 1 : t[i] \in Wide
    <3>1. PICK j \in 1 .. Len(f[n - 1]) : f[n - 1][j] \in Wide
      BY <2>7
    <3>2. j \in 1 .. Len(f[n]) /\ f[n][j] \in Wide
      <4> DEFINE l == Len(f[n])
                 k == Len(f[n - 1])
      <4>1. f[n][j] \in Wide /\ j \in 1 .. k /\ k \in Nat /\ l \in Nat /\ k <= l
        BY <2>1, <2>3, <2>9, <3>1
      <4> HIDE DEF l, k
      <4>2. j \in 1 .. l
        BY <4>1
      <4> QED  BY <4>1, <4>2 DEF l
    <3>3. \E i \in 1 .. n : t[i] \in Wide
      BY <2>0, <2>7
    <3> QED  BY <2>0, <3>2, <3>3
  <2>8. CASE t[n] \notin Wide /\ Plain(n - 1) /\ \A i \in 1 .. n - 1 : t[i] \notin Wide
    <3>1. Len(e[n]) = 1
      BY <2>2, <2>8
    <3>2. Len(f[n]) = n
      BY <2>0, <2>3, <2>8, <3>1
    <3>3. ASSUME NEW i \in 1 .. n PROVE f[n][i] = t[i] /\ t[i] \notin Wide
      <4>1. CASE i = n
        BY <2>0, <2>5, <2>8, <4>1
      <4>2. CASE i # n
        <5>1. i \in 1 .. n - 1 /\ i \in 1 .. Len(f[n - 1])
          BY <2>0, <2>8, <4>2
        <5> QED  BY <2>3, <2>8, <5>1
      <4> QED  BY <4>1, <4>2
    <3> QED  BY <2>0, <3>2, <3>3
  <2> QED  BY <1>5, <2>6, <2>7, <2>8
<1>6. N \in S
  <2> HIDE DEF S, N
  <2>1. \A n \in 0 .. N : n \in S
    BY <1>2, <1>4, <1>5, InductionStep
  <2> QED  BY <1>2, <2>1
<1>7. Utf8(t) \in Seq(Characters)
  BY <1>1, <1>2, <1>3
<1>8. Plain(N) => Utf8(t) = t
  <2>1. ASSUME Plain(N) PROVE Len(Utf8(t)) = Len(t) /\ \A i \in 1 .. Len(Utf8(t)) : Utf8(t)[i] = t[i]
    BY <1>1, <2>1
  <2> QED  BY <1>7, <2>1, SameSequence
<1> QED  BY <1>1, <1>6, <1>7, <1>8

\* The text of a key ID is strung together of its bytes'.
LEMMA HexSteps ==
  ASSUME NEW id, NEW e, e \in [1 .. KEY_ID_SIZE -> Seq(Characters)],
         \A n \in 1 .. KEY_ID_SIZE : e[n] = PadHex(id[n], 2)
  PROVE  \E f : Strung(f, KEY_ID_SIZE, e) /\ key_id_hex(id) = f[KEY_ID_SIZE]
<1> DEFINE N == KEY_ID_SIZE
           R(g) == g = [n \in 0 .. N |-> IF n = 0 THEN << >> ELSE g[n - 1] \o PadHex(id[n], 2)]
           f == CHOOSE g : R(g)
<1>1. N \in Nat
  BY TextsAssumption
<1>2. key_id_hex(id) = f[N]
  BY Zenon DEF key_id_hex
<1> HIDE DEF f
<1>3. ASSUME NEW g PROVE Strung(g, N, e) <=> R(g)
  <2>1. ASSUME NEW n \in 0 .. N
        PROVE  (IF n = 0 THEN << >> ELSE g[n - 1] \o e[n])
                 = (IF n = 0 THEN << >> ELSE g[n - 1] \o PadHex(id[n], 2))
    <3>1. CASE n = 0
      BY <3>1
    <3>2. CASE n # 0
      <4>1. e[n] = PadHex(id[n], 2)
        BY <1>1, <3>2
      <4> QED  BY <3>2, <4>1
    <3> QED  BY <3>1, <3>2
  <2>2. [n \in 0 .. N |-> IF n = 0 THEN << >> ELSE g[n - 1] \o e[n]]
          = [n \in 0 .. N |-> IF n = 0 THEN << >> ELSE g[n - 1] \o PadHex(id[n], 2)]
    BY <2>1
  <2> QED  BY <2>2 DEF Strung
<1>4. \E g : R(g)
  <2>1. \E g \in [0 .. N -> Seq(Characters)] : Strung(g, N, e)
    BY <1>1, StrungTogether
  <2> HIDE DEF R
  <2> QED  BY <1>3, <2>1
<1>5. R(f)
  BY <1>4, Zenon DEF f
<1>6. Strung(f, N, e)
  <2> HIDE DEF R
  <2> QED  BY <1>3, <1>5
<1> QED  BY <1>2, <1>6

\* The n-th two of a sequence.
LEMMA PairIs ==
  ASSUME NEW C, NEW s \in Seq(C), NEW K \in Nat, Len(s) = 2 * K, NEW n \in 1 .. K
  PROVE  /\ SubSeq(s, 2 * n - 1, 2 * n) \in Seq(C) /\ Len(SubSeq(s, 2 * n - 1, 2 * n)) = 2
         /\ SubSeq(s, 2 * n - 1, 2 * n)[1] = s[2 * n - 1]
         /\ SubSeq(s, 2 * n - 1, 2 * n)[2] = s[2 * n]
<1>1. /\ 2 * n - 1 \in Nat \ {0} /\ 2 * n \in Nat /\ 2 * n <= Len(s) /\ 2 * n - 1 <= 2 * n + 1
      /\ 2 * n + 1 - (2 * n - 1) = 2
      /\ (2 * n - 1) + 1 - 1 = 2 * n - 1 /\ (2 * n - 1) + 2 - 1 = 2 * n
  OBVIOUS
<1> DEFINE from == 2 * n - 1
           to == 2 * n
           p == SubSeq(s, from, to)
<1>2. from \in Nat \ {0} /\ to \in Nat /\ to <= Len(s) /\ from <= to + 1
      /\ to + 1 - from = 2 /\ from + 1 - 1 = from /\ from + 2 - 1 = to
  BY <1>1
<1> HIDE DEF from, to
<1>3. p \in Seq(C) /\ Len(p) = to + 1 - from
      /\ \A i \in 1 .. to + 1 - from : p[i] = s[from + i - 1]
  BY <1>2, SliceIs
<1> HIDE DEF p
<1>4. 1 \in 1 .. to + 1 - from /\ 2 \in 1 .. to + 1 - from
  BY <1>2
<1>5. p \in Seq(C) /\ Len(p) = 2 /\ p[1] = s[from] /\ p[2] = s[to]
  BY <1>2, <1>3, <1>4
<1> QED  BY <1>5 DEF p, from, to

\* Bytes that spell a number two by two are all signs and digits.
LEMMA PairsSpelled ==
  ASSUME NEW s \in Seq(Characters), Len(s) = 2 * KEY_ID_SIZE,
         \A n \in 1 .. KEY_ID_SIZE : \E m \in Nat : Spells(SubSeq(s, 2 * n - 1, 2 * n), m, 16)
  PROVE  \A i \in 1 .. Len(s) : s[i] \notin Wide /\ s[i] # Continuation
<1> SUFFICES ASSUME NEW i \in 1 .. Len(s), s[i] \in Wide \cup {Continuation}
             PROVE  FALSE
  OBVIOUS
<1> DEFINE n == (i + 1) \div 2
           p == SubSeq(s, 2 * n - 1, 2 * n)
<1>1. KEY_ID_SIZE \in Nat /\ 16 \in {10, 16}
  BY TextsAssumption
<1>2. n \in 1 .. KEY_ID_SIZE /\ (i = 2 * n - 1 \/ i = 2 * n)
  BY <1>1
<1> HIDE DEF n
<1>3. p \in Seq(Characters) /\ Len(p) = 2 /\ p[1] = s[2 * n - 1] /\ p[2] = s[2 * n]
  BY <1>1, <1>2, PairIs
<1>4. PICK m \in Nat : Spells(p, m, 16)
  BY <1>2
<1> HIDE DEF p
<1>5. PICK j \in 1 .. Len(p) : p[j] = s[i]
  <2>1. 1 \in 1 .. Len(p) /\ 2 \in 1 .. Len(p)
    BY <1>3
  <2>2. CASE i = 2 * n - 1
    BY <1>3, <2>1, <2>2
  <2>3. CASE i = 2 * n
    BY <1>3, <2>1, <2>3
  <2> QED  BY <1>2, <2>2, <2>3
<1>6. DigitsOf(s[i]) = {} /\ s[i] # "+"
  BY TextsAssumption
<1> QED  BY <1>1, <1>3, <1>4, <1>5, <1>6, SpellsNo

\* A pair is read exactly if it spells a byte.
LEMMA PairValueIs ==
  ASSUME NEW s \in Seq(Characters), Len(s) = 2 * KEY_ID_SIZE, NEW n \in 1 .. KEY_ID_SIZE, NEW m
  PROVE  m \in PairValue(s, n) <=>
           m \in 0 .. 255 /\ Spells(SubSeq(s, 2 * n - 1, 2 * n), m, 16)
<1>1. KEY_ID_SIZE \in Nat /\ 16 \in {10, 16} /\ 255 \in Nat
  BY TextsAssumption
<1>2. SubSeq(s, 2 * n - 1, 2 * n) \in Seq(Characters)
  BY <1>1, PairIs
<1> QED  BY <1>1, <1>2, ReadIffSpells DEF PairValue

LEMMA StrippedIs ==
  ASSUME NEW t \in Seq(Characters)
  PROVE  Stripped(t) \in Seq(Characters)
<1>1. CASE Len(t) >= 2
  <2>1. 3 \in Nat \ {0} /\ Len(t) \in Nat /\ Len(t) <= Len(t) /\ 3 <= Len(t) + 1
    BY <1>1
  <2>2. SubSeq(t, 3, Len(t)) \in Seq(Characters)
    BY <2>1, SliceIs
  <2> QED  BY <2>2 DEF Stripped
<1>2. CASE ~(Len(t) >= 2)
  BY <1>2 DEF Stripped
<1> QED  BY <1>1, <1>2

\* A key ID is read exactly if the text has twice its bytes and each pair is read
\* as the byte.
LEMMA KeyIdIs ==
  ASSUME NEW t \in Seq(Characters), NEW id
  PROVE  id \in parse_key_id_hex(t) <=>
           /\ Len(KeyIdBytes(t)) = 2 * KEY_ID_SIZE
           /\ id \in [1 .. KEY_ID_SIZE -> 0 .. 255]
           /\ \A n \in 1 .. KEY_ID_SIZE : id[n] \in PairValue(KeyIdBytes(t), n)
<1> DEFINE b == KeyIdBytes(t)
           U == UNION {PairValue(b, n) : n \in 1 .. KEY_ID_SIZE}
<1>1. b \in Seq(Characters)
  BY StrippedIs, Utf8Is DEF KeyIdBytes
<1>2. parse_key_id_hex(t) =
        IF Len(b) # 2 * KEY_ID_SIZE THEN {}
        ELSE {x \in [1 .. KEY_ID_SIZE -> U] : \A n \in 1 .. KEY_ID_SIZE : x[n] \in PairValue(b, n)}
  BY DEF parse_key_id_hex
<1> HIDE DEF b
<1>3. CASE Len(b) # 2 * KEY_ID_SIZE
  BY <1>2, <1>3 DEF b
<1>4. CASE Len(b) = 2 * KEY_ID_SIZE
  <2>1. \A n \in 1 .. KEY_ID_SIZE : PairValue(b, n) \subseteq 0 .. 255
    BY <1>1, <1>4, PairValueIs
  <2>2. \A n \in 1 .. KEY_ID_SIZE : PairValue(b, n) \subseteq U
    OBVIOUS
  <2>3. U \subseteq 0 .. 255
    BY <2>1
  <2> HIDE DEF U
  <2>4. id \in parse_key_id_hex(t) <=>
          /\ id \in [1 .. KEY_ID_SIZE -> U]
          /\ \A n \in 1 .. KEY_ID_SIZE : id[n] \in PairValue(b, n)
    BY <1>2, <1>4
  <2> QED  BY <1>4, <2>1, <2>2, <2>3, <2>4 DEF b
<1> QED  BY <1>3, <1>4

KeyIdReading(t) == [n \in 1 .. KEY_ID_SIZE |-> Field(SubSeq(t, 2 * n - 1, 2 * n), 16, 255)]

LEMMA KeyIdReadings ==
  ASSUME kind = "key_id", NEW r
  PROVE  r \in Readings <=>
           Len(Stripped(text)) = 2 * KEY_ID_SIZE /\ r = KeyIdReading(Stripped(text))
<1>1. Readings = {KeyIdReading(t) : t \in {u \in {Stripped(text)} : Len(u) = 2 * KEY_ID_SIZE}}
  BY DEF Readings, KeyIdReading
<1> QED  BY <1>1

\* A key ID that is read is spelled pair by pair, ...
LEMMA KeyIdRead ==
  ASSUME text \in Seq(Characters), kind = "key_id", value \in parse_key_id_hex(text)
  PROVE  \E r \in Readings : SpellsAll(r, value)
<1> DEFINE t == Stripped(text)
           r == KeyIdReading(t)
<1>1. t \in Seq(Characters) /\ KEY_ID_SIZE \in Nat
  BY StrippedIs, TextsAssumption
<1>2. KeyIdBytes(text) = Utf8(t) /\ Utf8(t) \in Seq(Characters)
  BY <1>1, Utf8Is DEF KeyIdBytes
<1> HIDE DEF t
<1>3. /\ Len(Utf8(t)) = 2 * KEY_ID_SIZE
      /\ \A n \in 1 .. KEY_ID_SIZE : value[n] \in PairValue(Utf8(t), n)
  BY <1>2, KeyIdIs
<1>4. \A n \in 1 .. KEY_ID_SIZE :
        value[n] \in 0 .. 255 /\ Spells(SubSeq(Utf8(t), 2 * n - 1, 2 * n), value[n], 16)
  BY <1>2, <1>3, PairValueIs
<1>5. \A n \in 1 .. KEY_ID_SIZE : value[n] \in Nat /\ value[n] <= 255
  <2>1. \A m \in 0 .. 255 : m \in Nat /\ m <= 255
    OBVIOUS
  <2> QED  BY <1>4, <2>1
<1>6. \A i \in 1 .. Len(Utf8(t)) : Utf8(t)[i] \notin Wide
  BY <1>2, <1>3, <1>4, <1>5, PairsSpelled
<1>7. Utf8(t) = t
  BY <1>1, <1>6, Utf8Is
<1>8. r \in Readings
  BY <1>3, <1>7, KeyIdReadings DEF t
<1>9. DOMAIN r = 1 .. KEY_ID_SIZE
  BY DEF KeyIdReading
<1>10. ASSUME NEW n \in 1 .. KEY_ID_SIZE
       PROVE  r[n].max = 255 /\ r[n].radix = 16 /\ r[n].text = SubSeq(t, 2 * n - 1, 2 * n)
  BY DEF KeyIdReading, Field
<1> HIDE DEF r
<1>11. SpellsAll(r, value)
  <2> SUFFICES ASSUME NEW n \in 1 .. KEY_ID_SIZE
               PROVE  value[n] <= r[n].max /\ Spells(r[n].text, value[n], r[n].radix)
    BY <1>9 DEF SpellsAll
  <2>1. Spells(SubSeq(t, 2 * n - 1, 2 * n), value[n], 16)
    BY <1>4, <1>7
  <2> QED  BY <1>5, <1>10, <2>1, ZenonT(60)
<1> QED  BY <1>8, <1>11

\* ... and what is refused or panics spells none.
LEMMA KeyIdRefused ==
  ASSUME text \in Seq(Characters), kind = "key_id", NEW r \in Readings,
         KeyIdPanics(text) \/ parse_key_id_hex(text) = {}
  PROVE  SpellsNothing(r)
<1> DEFINE t == Stripped(text)
           K == KEY_ID_SIZE
           p(n) == SubSeq(t, 2 * n - 1, 2 * n)
<1>1. t \in Seq(Characters) /\ K \in Nat
  BY StrippedIs, TextsAssumption
<1>2. KeyIdBytes(text) = Utf8(t)
  BY DEF KeyIdBytes
<1>3. Len(t) = 2 * K /\ r = KeyIdReading(t)
  BY KeyIdReadings
<1> HIDE DEF t
<1>4. DOMAIN r = 1 .. K
  BY <1>3 DEF KeyIdReading
<1>5. ASSUME NEW n \in 1 .. K
      PROVE  r[n].max = 255 /\ r[n].radix = 16 /\ r[n].text = p(n)
  BY <1>3 DEF KeyIdReading, Field
<1>6. SUFFICES ASSUME ~SpellsNothing(r)
               PROVE  FALSE
  OBVIOUS
<1>7. \A n \in 1 .. K : \E m \in 0 .. 255 : Spells(p(n), m, 16)
  <2> HIDE DEF p
  <2> SUFFICES ASSUME NEW n \in 1 .. K
               PROVE  \E m \in 0 .. 255 : Spells(p(n), m, 16)
    OBVIOUS
  <2>1. \E m \in 0 .. r[n].max : Spells(r[n].text, m, r[n].radix)
    BY <1>4, <1>6 DEF SpellsNothing
  <2> QED  BY <1>5, <2>1
<1>8. \A m \in 0 .. 255 : m \in Nat
  OBVIOUS
<1>9. \A i \in 1 .. Len(t) : t[i] \notin Wide /\ t[i] # Continuation
  BY <1>1, <1>3, <1>7, <1>8, PairsSpelled
<1>10. Utf8(t) = t
  BY <1>1, <1>9, Utf8Is
<1>11. \A n \in 1 .. K : PairValue(t, n) # {}
  BY <1>1, <1>3, <1>7, PairValueIs
<1>12. parse_key_id_hex(text) # {}
  <2> DEFINE id == [n \in 1 .. K |-> CHOOSE m : m \in PairValue(t, n)]
  <2>1. \A n \in 1 .. K : id[n] \in PairValue(t, n)
    BY <1>11
  <2>2. \A n \in 1 .. K : id[n] \in 0 .. 255
    <3> HIDE DEF id
    <3> QED  BY <1>1, <1>3, <2>1, PairValueIs
  <2>3. id \in [1 .. K -> 0 .. 255]
    BY <2>2
  <2> HIDE DEF id
  <2>4. id \in parse_key_id_hex(text)
    BY <1>2, <1>3, <1>10, <2>1, <2>3, KeyIdIs
  <2> QED  BY <2>4
<1>13. PICK n \in 1 .. K : Splits(t, n)
  BY <1>2, <1>6, <1>10, <1>12 DEF KeyIdPanics
<1>14. 2 * n - 1 \in 1 .. 2 * K
  BY <1>1
<1>15. 2 * n < 2 * K => 2 * n + 1 \in 1 .. 2 * K
  BY <1>1
<1> QED  BY <1>3, <1>9, <1>13, <1>14, <1>15 DEF Splits

\* A byte is printed in two digits.
LEMMA PadHexTwo ==
  ASSUME NEW m \in 0 .. 255
  PROVE  /\ PadHex(m, 2) \in Seq(Characters) /\ Len(PadHex(m, 2)) = 2
         /\ from_str_radix(PadHex(m, 2), 16, 255) = {m}
<1> DEFINE a == Numeral(m, 16)
<1>1. 16 \in {10, 16} /\ 255 \in Nat /\ 2 \in Nat
  OBVIOUS
<1>2. m \in Nat /\ m \div 16 \in Nat /\ m \div 16 < 16
  OBVIOUS
<1>3. a \in Seq(Characters) /\ Len(a) \in Nat /\ Len(a) <= 2
  <2>1. a \in Seq(Characters) /\ Len(a) \in Nat \ {0}
    BY <1>1, <1>2, NumeralIs, NumeralDigits
  <2>2. CASE m < 16
    <3>1. a = <<Lower[m + 1]>>
      BY <1>1, <1>2, <2>2, NumeralIs
    <3>2. Len(a) = 1
      BY <3>1
    <3> HIDE DEF a
    <3> QED  BY <2>1, <3>2
  <2>3. CASE m >= 16
    <3> DEFINE q == m \div 16
               b == Numeral(q, 16)
    <3>1. a = Append(b, Lower[(m % 16) + 1])
      BY <1>1, <1>2, <2>3, NumeralIs
    <3>2. b = <<Lower[q + 1]>>
      <4> HIDE DEF q
      <4> QED  BY <1>1, <1>2, NumeralIs DEF q
    <3>3. Len(a) = 2
      <4> HIDE DEF a, b, q
      <4> QED  BY <3>1, <3>2
    <3> HIDE DEF a
    <3> QED  BY <2>1, <3>3
  <2> QED  BY <1>2, <2>2, <2>3
<1>4. PICK z \in Nat : PadHex(m, 2) = Zeros(z) \o a /\ (Len(a) <= 2 => z + Len(a) = 2)
  BY <1>1, <1>2, PadHexIs
<1>5. ReadsBack(z, m, 16, 255)
  BY <1>1, NumeralIsRead
<1>6. Len(Zeros(z)) = z /\ Zeros(z) \in Seq(Characters)
  <2>1. Lower[1] = "0"
    BY DEF Lower
  <2>2. "0" \in Characters
    BY <2>1, TextsAssumption, SMTT(60)
  <2> QED  BY <2>2 DEF Zeros
<1>7. Len(PadHex(m, 2)) = 2
  <2> DEFINE s == Zeros(z)
             t == s \o a
  <2> HIDE DEF s, a
  <2>1. Joins(t, s, a)
    BY <1>3, <1>6, JoinedIs DEF s
  <2> HIDE DEF t
  <2>2. Len(t) = z + Len(a)
    BY <1>6, <2>1 DEF Joins, s
  <2>3. PadHex(m, 2) = t
    BY <1>4 DEF t, s
  <2> QED  BY <1>3, <1>4, <2>2, <2>3
<1> QED  BY <1>4, <1>5, <1>7 DEF ReadsBack

\* A printed key ID is two digits for each byte, one pair behind the other, ...
LEMMA HexIs ==
  ASSUME NEW id \in [1 .. KEY_ID_SIZE -> 0 .. 255]
  PROVE  /\ key_id_hex(id) \in Seq(Characters) /\ Len(key_id_hex(id)) = 2 * KEY_ID_SIZE
         /\ \A n \in 1 .. KEY_ID_SIZE :
              SubSeq(key_id_hex(id), 2 * n - 1, 2 * n) = PadHex(id[n], 2)
<1> DEFINE K == KEY_ID_SIZE
           e == [n \in 1 .. K |-> PadHex(id[n], 2)]
           h == key_id_hex(id)
<1>1. K \in Nat
  BY TextsAssumption
<1>2. /\ e \in [1 .. K -> Seq(Characters)]
      /\ \A n \in 1 .. K : e[n] = PadHex(id[n], 2) /\ Len(e[n]) = 2
  <2>1. ASSUME NEW n \in 1 .. K
        PROVE  PadHex(id[n], 2) \in Seq(Characters) /\ Len(PadHex(id[n], 2)) = 2
    <3>1. id[n] \in 0 .. 255
      OBVIOUS
    <3> QED  BY <3>1, PadHexTwo
  <2> QED  BY <2>1
<1> HIDE DEF e
<1>3. PICK f : Strung(f, K, e) /\ h = f[K]
  BY <1>2, HexSteps
<1>4. /\ f \in [0 .. K -> Seq(Characters)] /\ f[0] = << >>
      /\ \A n \in 1 .. K : Joins(f[n], f[n - 1], e[n])
  BY <1>1, <1>2, <1>3, StrungSteps
<1> HIDE DEF K, h
<1> DEFINE S == {n \in 0 .. K : /\ Len(f[n]) = 2 * n
                                /\ \A k \in 1 .. n : /\ f[n][2 * k - 1] = e[k][1]
                                                     /\ f[n][2 * k] = e[k][2]}
<1>5. 0 \in S
  BY <1>1, <1>4
<1>6. ASSUME NEW n \in 1 .. K, n - 1 \in S
      PROVE  n \in S
  <2>1. n \in 0 .. K /\ n \in Nat
    BY <1>1
  <2>2. Len(f[n - 1]) = 2 * (n - 1)
    BY <1>6
  <2>3. ASSUME NEW k \in 1 .. n - 1
        PROVE  f[n - 1][2 * k - 1] = e[k][1] /\ f[n - 1][2 * k] = e[k][2]
    BY <1>6
  <2>4. /\ Len(f[n]) = Len(f[n - 1]) + Len(e[n])
        /\ \A i \in 1 .. Len(f[n - 1]) : f[n][i] = f[n - 1][i]
        /\ \A i \in 1 .. Len(e[n]) : f[n][i + Len(f[n - 1])] = e[n][i]
    BY <1>4 DEF Joins
  <2>5. Len(e[n]) = 2
    BY <1>2
  <2>6. Len(f[n]) = 2 * n
    BY <2>1, <2>2, <2>4, <2>5
  <2>7. f[n][1 + 2 * (n - 1)] = e[n][1] /\ f[n][2 + 2 * (n - 1)] = e[n][2]
    BY <2>2, <2>4, <2>5
  <2>8. 1 + 2 * (n - 1) = 2 * n - 1 /\ 2 + 2 * (n - 1) = 2 * n
    BY <2>1
  <2>9. ASSUME NEW k \in 1 .. n
        PROVE  f[n][2 * k - 1] = e[k][1] /\ f[n][2 * k] = e[k][2]
    <3>1. CASE k = n
      BY <2>7, <2>8, <3>1
    <3>2. CASE k # n
      <4>1. /\ k \in 1 .. n - 1 /\ 2 * k - 1 \in 1 .. 2 * (n - 1)
            /\ 2 * k \in 1 .. 2 * (n - 1)
        BY <2>1, <3>2
      <4> QED  BY <2>2, <2>3, <2>4, <4>1
    <3> QED  BY <3>1, <3>2
  <2> QED  BY <2>1, <2>6, <2>9
<1>7. K \in S
  <2> HIDE DEF S
  <2>1. \A n \in 0 .. K : n \in S
    BY <1>1, <1>5, <1>6, InductionStep
  <2> QED  BY <1>1, <2>1
<1>8. /\ h \in Seq(Characters) /\ Len(h) = 2 * K
      /\ \A k \in 1 .. K : h[2 * k - 1] = e[k][1] /\ h[2 * k] = e[k][2]
  BY <1>1, <1>3, <1>4, <1>7
<1>9. ASSUME NEW n \in 1 .. K
      PROVE  SubSeq(h, 2 * n - 1, 2 * n) = PadHex(id[n], 2)
  <2> DEFINE p == SubSeq(h, 2 * n - 1, 2 * n)
  <2>1. p \in Seq(Characters) /\ Len(p) = 2 /\ p[1] = h[2 * n - 1] /\ p[2] = h[2 * n]
    BY <1>1, <1>8, PairIs, ZenonT(60)
  <2>2. e[n] \in Seq(Characters) /\ Len(e[n]) = 2
    BY <1>2
  <2> HIDE DEF p
  <2>3. \A i \in 1 .. 2 : i = 1 \/ i = 2
    OBVIOUS
  <2>4. \A i \in 1 .. Len(p) : p[i] = e[n][i]
    BY <1>8, <2>1, <2>3
  <2>5. p = e[n]
    BY <2>1, <2>2, <2>4, SameSequence
  <2> QED  BY <1>2, <2>5 DEF p
<1> QED  BY <1>8, <1>9 DEF h, K

\* ... and is read back.
LEMMA KeyIdPrinted ==
  ASSUME NEW id \in [1 .. KEY_ID_SIZE -> 0 .. 255]
  PROVE  LET t == <<"0", "x">> \o key_id_hex(id)
         IN t \in Seq(Characters) /\ parse_key_id_hex(t) = {id} /\ ~KeyIdPanics(t)
<1> DEFINE h == key_id_hex(id)
           t == <<"0", "x">> \o h
           K == KEY_ID_SIZE
<1>1. /\ h \in Seq(Characters) /\ Len(h) = 2 * K
      /\ \A n \in 1 .. K : SubSeq(h, 2 * n - 1, 2 * n) = PadHex(id[n], 2)
  BY HexIs
<1> HIDE DEF h
<1>2. t \in Seq(Characters) /\ Stripped(t) = h
  BY <1>1, StrippedPrefix
<1> HIDE DEF t
<1>3. \A n \in 1 .. K : PairValue(h, n) = {id[n]}
  <2>1. ASSUME NEW n \in 1 .. K PROVE id[n] \in 0 .. 255
    OBVIOUS
  <2> QED  BY <1>1, <2>1, PadHexTwo DEF PairValue
<1>4. \A n \in 1 .. K : \E m \in Nat : Spells(SubSeq(h, 2 * n - 1, 2 * n), m, 16)
  <2> SUFFICES ASSUME NEW n \in 1 .. K
               PROVE  \E m \in Nat : Spells(SubSeq(h, 2 * n - 1, 2 * n), m, 16)
    OBVIOUS
  <2>1. id[n] \in Nat
    <3>1. id[n] \in 0 .. 255
      OBVIOUS
    <3>2. \A m \in 0 .. 255 : m \in Nat
      OBVIOUS
    <3> QED  BY <3>1, <3>2
  <2>2. Spells(SubSeq(h, 2 * n - 1, 2 * n), id[n], 16)
    BY <1>1, <1>3, PairValueIs
  <2> QED  BY <2>1, <2>2
<1>5. \A i \in 1 .. Len(h) : h[i] \notin Wide /\ h[i] # Continuation
  BY <1>1, <1>4, PairsSpelled
<1>6. KeyIdBytes(t) = h
  BY <1>1, <1>2, <1>5, Utf8Is DEF KeyIdBytes
<1>7. K \in Nat
  BY TextsAssumption
<1>8. ASSUME NEW n \in 1 .. K PROVE ~Splits(h, n)
  <2>1. 2 * n - 1 \in 1 .. 2 * K /\ (2 * n < 2 * K => 2 * n + 1 \in 1 .. 2 * K)
    BY <1>7
  <2> QED  BY <1>1, <1>5, <2>1 DEF Splits
<1>9. ~KeyIdPanics(t)
  BY <1>6, <1>8 DEF KeyIdPanics
<1>10. id \in parse_key_id_hex(t)
  BY <1>1, <1>2, <1>3, <1>6, KeyIdIs, ZenonT(60)
<1>11. ASSUME NEW x \in parse_key_id_hex(t) PROVE x = id
  <2>1. x \in [1 .. K -> 0 .. 255] /\ \A n \in 1 .. K : x[n] \in PairValue(h, n)
    BY <1>2, <1>6, KeyIdIs, SMTT(60)
  <2>2. \A n \in 1 .. K : x[n] = id[n]
    BY <1>3, <2>1
  <2>3. x = [n \in 1 .. K |-> x[n]] /\ id = [n \in 1 .. K |-> id[n]]
    BY <2>1
  <2>4. [n \in 1 .. K |-> x[n]] = [n \in 1 .. K |-> id[n]]
    BY <2>2
  <2> QED  BY <2>3, <2>4, Zenon
<1> QED  BY <1>2, <1>9, <1>10, <1>11 DEF t, h

-----------------------------------------------------------------------------
\* Options, names, and the invariant of HostArguments.

HexPrefix(t) == Len(t) >= 2 /\ t[1] = "0" /\ t[2] \in {"x", "X"}

LEMMA HexPrefixIs ==
  ASSUME NEW t \in Seq(Characters)
  PROVE  /\ HexPrefix(t) => Stripped(t) # t /\ Stripped(t) = SubSeq(t, 3, Len(t))
         /\ ~HexPrefix(t) => Stripped(t) = t
<1>1. CASE HexPrefix(t)
  <2> DEFINE u == SubSeq(t, 3, Len(t))
  <2>1. Stripped(t) = u
    BY <1>1 DEF HexPrefix, Stripped
  <2>2. 3 \in Nat \ {0} /\ Len(t) \in Nat /\ Len(t) <= Len(t) /\ 3 <= Len(t) + 1
    BY <1>1 DEF HexPrefix
  <2>3. Slices(u, t, 3, Len(t))
    BY <2>2, SlicedIs
  <2> HIDE DEF u
  <2>4. u # t
    BY <2>2, <2>3 DEF Slices
  <2> QED  BY <1>1, <2>1, <2>4 DEF u
<1>2. CASE ~HexPrefix(t)
  BY <1>2 DEF HexPrefix, Stripped
<1> QED  BY <1>1, <1>2

LEMMA FirstTwo ==
  ASSUME NEW C, NEW s \in Seq(C), Len(s) >= 2
  PROVE  SubSeq(s, 1, 2) = <<s[1], s[2]>>
<1> DEFINE u == SubSeq(s, 1, 2)
           v == <<s[1], s[2]>>
<1>1. u \in Seq(C) /\ Len(u) = 2 /\ u[1] = s[1] /\ u[2] = s[2]
  OBVIOUS
<1>2. s[1] \in C /\ s[2] \in C
  OBVIOUS
<1>3. v \in Seq(C) /\ Len(v) = 2 /\ v[1] = s[1] /\ v[2] = s[2]
  BY <1>2
<1> HIDE DEF u, v
<1>4. \A i \in 1 .. 2 : i = 1 \/ i = 2
  OBVIOUS
<1>5. u = v
  BY <1>1, <1>3, <1>4, SameSequence
<1> QED  BY <1>5 DEF u, v

Decimal(t) == <<Field(t, 10, U32_MAX)>>
Hexadecimal(t) == <<Field(SubSeq(t, 3, Len(t)), 16, U32_MAX)>>

LEMMA NumberReadings ==
  ASSUME text \in Seq(Characters), kind = "u32", NEW r
  PROVE  r \in Readings <=> r = Decimal(text) \/ (HexPrefix(text) /\ r = Hexadecimal(text))
<1> DEFINE X == {"x", "X"} \cap {c \in ToSet(text) : IsPrefix(<<"0", c>>, text)}
<1>1. Readings = {Decimal(text)} \cup {Hexadecimal(text) : x \in X}
  BY DEF Readings, Decimal, Hexadecimal
<1>2. ASSUME NEW c
      PROVE  IsPrefix(<<"0", c>>, text) <=> Len(text) >= 2 /\ text[1] = "0" /\ text[2] = c
  <2> DEFINE p == <<"0", c>>
             C == {"0", c}
  <2>1. p \in Seq(C) /\ Len(p) = 2 /\ p[1] = "0" /\ p[2] = c
    OBVIOUS
  <2> HIDE DEF p, C
  <2>2. CASE Len(text) >= 2
    <3>1. SubSeq(p, 1, 2) = <<"0", c>>
      <4>1. SubSeq(p, 1, 2) = <<p[1], p[2]>>
        <5>1. Len(p) >= 2
          BY <2>1
        <5> QED  BY <2>1, <5>1, FirstTwo
      <4> QED  BY <2>1, <4>1
    <3>2. SubSeq(text, 1, 2) = <<text[1], text[2]>>
      BY <2>2, FirstTwo
    <3>3. IsPrefix(p, text) <=> <<"0", c>> = <<text[1], text[2]>>
      BY <2>1, <2>2, <3>1, <3>2 DEF IsPrefix
    <3> QED  BY <2>2, <3>3 DEF p
  <2>3. CASE ~(Len(text) >= 2)
    BY <2>1, <2>3 DEF IsPrefix, p
  <2> QED  BY <2>2, <2>3
<1>3. X # {} <=> HexPrefix(text)
  <2>1. ASSUME HexPrefix(text) PROVE text[2] \in X
    <3>1. text[2] \in ToSet(text)
      BY <2>1 DEF HexPrefix, ToSet
    <3>2. IsPrefix(<<"0", text[2]>>, text) /\ text[2] \in {"x", "X"}
      BY <1>2, <2>1 DEF HexPrefix
    <3> QED  BY <3>1, <3>2
  <2>2. ASSUME NEW c \in X PROVE HexPrefix(text)
    <3>1. c \in {"x", "X"} /\ IsPrefix(<<"0", c>>, text)
      BY <2>2
    <3> QED  BY <1>2, <3>1 DEF HexPrefix
  <2> QED  BY <2>1, <2>2
<1> HIDE DEF X
<1> QED  BY <1>1, <1>3

LEMMA NumberIs ==
  ASSUME NEW t \in Seq(Characters), NEW m
  PROVE  m \in parse_u32_value(t) <=>
           /\ m \in 0 .. U32_MAX
           /\ IF HexPrefix(t) THEN Spells(SubSeq(t, 3, Len(t)), m, 16) ELSE Spells(t, m, 10)
<1>1. U32_MAX \in Nat /\ 10 \in {10, 16} /\ 16 \in {10, 16}
  BY TextsAssumption
<1>2. Stripped(t) \in Seq(Characters)
  BY StrippedIs
<1>3. CASE HexPrefix(t)
  <2>1. parse_u32_value(t) = from_str_radix(Stripped(t), 16, U32_MAX)
    BY <1>3, HexPrefixIs DEF parse_u32_value
  <2>2. m \in from_str_radix(Stripped(t), 16, U32_MAX) <=>
          m \in 0 .. U32_MAX /\ Spells(Stripped(t), m, 16)
    BY <1>1, <1>2, ReadIffSpells
  <2> QED  BY <1>3, <2>1, <2>2, HexPrefixIs
<1>4. CASE ~HexPrefix(t)
  <2>1. parse_u32_value(t) = from_str_radix(t, 10, U32_MAX)
    BY <1>4, HexPrefixIs DEF parse_u32_value
  <2>2. m \in from_str_radix(t, 10, U32_MAX) <=> m \in 0 .. U32_MAX /\ Spells(t, m, 10)
    BY <1>1, ReadIffSpells
  <2> QED  BY <1>4, <2>1, <2>2
<1> QED  BY <1>3, <1>4

LEMMA NumberFields ==
  ASSUME NEW t
  PROVE  LET d == Decimal(t)
             h == Hexadecimal(t)
         IN /\ DOMAIN d = {1} /\ d[1].max = U32_MAX /\ d[1].radix = 10 /\ d[1].text = t
            /\ DOMAIN h = {1} /\ h[1].max = U32_MAX /\ h[1].radix = 16
            /\ h[1].text = SubSeq(t, 3, Len(t))
<1> DEFINE u == SubSeq(t, 3, Len(t))
           d == <<Field(t, 10, U32_MAX)>>
           h == <<Field(u, 16, U32_MAX)>>
<1>1. d = Decimal(t) /\ h = Hexadecimal(t)
  BY DEF Decimal, Hexadecimal
<1> HIDE DEF u
<1>2. DOMAIN d = {1} /\ d[1] = Field(t, 10, U32_MAX) /\ DOMAIN h = {1} /\ h[1] = Field(u, 16, U32_MAX)
  OBVIOUS
<1> HIDE DEF d, h
<1> QED  BY <1>1, <1>2 DEF Field, u

\* An option that is read is spelled, with a prefix or without, ...
LEMMA NumberRead ==
  ASSUME text \in Seq(Characters), kind = "u32", NEW m \in parse_u32_value(text), value = <<m>>
  PROVE  \E r \in Readings : SpellsAll(r, value)
<1>1. m \in 0 .. U32_MAX /\ U32_MAX \in Nat /\ value[1] = m
  BY NumberIs, TextsAssumption
<1>2. m <= U32_MAX
  BY <1>1
<1>3. CASE HexPrefix(text)
  <2>1. Hexadecimal(text) \in Readings
    BY <1>3, NumberReadings
  <2>2. Spells(SubSeq(text, 3, Len(text)), m, 16)
    BY <1>3, NumberIs
  <2>3. SpellsAll(Hexadecimal(text), value)
    <3> DEFINE r == Hexadecimal(text)
    <3>1. DOMAIN r = {1} /\ r[1].max = U32_MAX /\ r[1].radix = 16 /\ r[1].text = SubSeq(text, 3, Len(text))
      BY NumberFields
    <3> HIDE DEF r
    <3> QED  BY <1>1, <1>2, <2>2, <3>1 DEF SpellsAll, r
  <2> QED  BY <2>1, <2>3
<1>4. CASE ~HexPrefix(text)
  <2>1. Decimal(text) \in Readings
    BY <1>4, NumberReadings
  <2>2. Spells(text, m, 10)
    BY <1>4, NumberIs
  <2>3. SpellsAll(Decimal(text), value)
    <3> DEFINE r == Decimal(text)
    <3>1. DOMAIN r = {1} /\ r[1].max = U32_MAX /\ r[1].radix = 10 /\ r[1].text = text
      BY NumberFields
    <3> HIDE DEF r
    <3> QED  BY <1>1, <1>2, <2>2, <3>1 DEF SpellsAll, r
  <2> QED  BY <2>1, <2>3
<1> QED  BY <1>3, <1>4

\* ... and one that is refused is spelled in neither way.
LEMMA NumberRefused ==
  ASSUME text \in Seq(Characters), kind = "u32", NEW r \in Readings,
         parse_u32_value(text) = {}
  PROVE  SpellsNothing(r)
<1>1. U32_MAX \in Nat /\ 10 \in {10, 16}
  BY TextsAssumption
<1>2. CASE r = Decimal(text)
  <2>1. ASSUME NEW m \in 0 .. U32_MAX, Spells(text, m, 10) PROVE FALSE
    <3>1. HexPrefix(text)
      BY <2>1, NumberIs
    <3>2. 2 \in 1 .. Len(text) /\ text[2] \in {"x", "X"} /\ text[2] # "+"
      BY <3>1 DEF HexPrefix
    <3>3. DigitsOf(text[2]) = {}
      BY <3>2, NoDigits
    <3>4. m \in Nat
      BY <1>1
    <3> QED  BY <1>1, <2>1, <3>2, <3>3, <3>4, SpellsNo
  <2>2. DOMAIN r = {1} /\ r[1].max = U32_MAX /\ r[1].radix = 10 /\ r[1].text = text
    BY <1>2, NumberFields
  <2> QED  BY <2>1, <2>2 DEF SpellsNothing
<1>3. CASE HexPrefix(text) /\ r = Hexadecimal(text)
  <2>1. \A m \in 0 .. U32_MAX : ~Spells(SubSeq(text, 3, Len(text)), m, 16)
    BY <1>3, NumberIs
  <2>2. /\ DOMAIN r = {1} /\ r[1].max = U32_MAX /\ r[1].radix = 16
        /\ r[1].text = SubSeq(text, 3, Len(text))
    BY <1>3, NumberFields
  <2> QED  BY <2>1, <2>2 DEF SpellsNothing
<1> QED  BY <1>2, <1>3, NumberReadings

\* The values of each kind.
ValuesOf(k) ==
  CASE k = "key_id" -> [1 .. KEY_ID_SIZE -> 0 .. 255]
    [] k = "u32" -> {<<n>> : n \in 0 .. U32_MAX}
    [] k = "version" ->
         {<<i, j, n>> : i \in 0 .. U16_MAX, j \in 0 .. U16_MAX, n \in 0 .. U16_MAX}
    [] k = "role" -> {<<n>> : n \in 1 .. 6}
    [] k = "label" -> {<<l>> : l \in key_role_labels}
    [] k = "rollback" -> {<<n>> : n \in {0, 1}}

LEMMA LabelTable ==
  /\ key_role_labels \subseteq Characters /\ "none" \in Characters /\ "fallback" \in Characters
  /\ \A n \in 1 .. 6 : role_name[n] \in key_role_labels
BY TextsAssumption DEF role_name, key_role_labels, parse_rollback_policy

\* The tables of roles and policies are each other's inverses (format.rs:918-968).
LEMMA RoleTable ==
  /\ \A n \in 1 .. 6 : role_name[n] \in DOMAIN parse_role /\ parse_role[role_name[n]] = n
  /\ \A c \in DOMAIN parse_role : parse_role[c] \in 1 .. 6
  /\ "RELEASE" \in DOMAIN parse_role
BY DEF role_name, parse_role

LEMMA PolicyTable ==
  /\ \A n \in {0, 1} : /\ rollback_policy_name(n) \in DOMAIN parse_rollback_policy
                       /\ parse_rollback_policy[rollback_policy_name(n)] = n
  /\ \A c \in DOMAIN parse_rollback_policy : parse_rollback_policy[c] \in {0, 1}
  /\ "fallback" \in DOMAIN parse_rollback_policy
BY DEF rollback_policy_name, parse_rollback_policy

LEMMA ReadRange ==
  ASSUME NEW t \in Seq(Characters), NEW radix \in {10, 16}, NEW max \in Nat,
         NEW m \in from_str_radix(t, radix, max)
  PROVE  m \in 0 .. max
BY ReadIffSpells

LEMMA VersionRange ==
  ASSUME NEW t \in Seq(Characters), NEW v \in parse_semver_core(t)
  PROVE  v \in ValuesOf("version")
<1>1. PICK d, e : /\ Dotted(t, d, e) /\ v = <<v[1], v[2], v[3]>>
                  /\ v[1] \in from_str_radix(SubSeq(t, 1, d - 1), 10, U16_MAX)
                  /\ v[2] \in from_str_radix(SubSeq(t, d + 1, e - 1), 10, U16_MAX)
                  /\ v[3] \in from_str_radix(SubSeq(t, e + 1, Len(t)), 10, U16_MAX)
  BY VersionParts
<1>2. U16_MAX \in Nat /\ 10 \in {10, 16} /\ Len(t) \in Nat
  BY TextsAssumption
<1>3. d \in 1 .. Len(t) /\ e \in 1 .. Len(t) /\ d < e
  BY <1>1 DEF Dotted
<1>4. /\ SubSeq(t, 1, d - 1) \in Seq(Characters) /\ SubSeq(t, d + 1, e - 1) \in Seq(Characters)
      /\ SubSeq(t, e + 1, Len(t)) \in Seq(Characters)
  BY <1>2, <1>3, SliceIs
<1>5. v[1] \in 0 .. U16_MAX /\ v[2] \in 0 .. U16_MAX /\ v[3] \in 0 .. U16_MAX
  BY <1>1, <1>2, <1>4, ReadRange
<1> QED  BY <1>1, <1>5 DEF ValuesOf

LEMMA LookedUp ==
  ASSUME NEW table, NEW t, NEW default, default \in DOMAIN table,
         NEW v \in Lookup(table, t, default)
  PROVE  \E c \in DOMAIN table : v = <<table[c]>>
<1>1. CASE t = << >>
  BY <1>1 DEF Lookup
<1>2. CASE t # << >>
  <2>1. Len(t) = 1 /\ t[1] \in DOMAIN table /\ v = <<table[t[1]]>>
    BY <1>2 DEF Lookup
  <2> QED  BY <2>1
<1> QED  BY <1>1, <1>2

\* What is read is a value of its kind.
LEMMA ValuesTyped ==
  ASSUME NEW k \in Kinds, NEW t \in Seq(Characters), NEW v \in Values(k, t)
  PROVE  v \in ValuesOf(k)
<1>1. CASE k = "key_id"
  <2>1. v \in parse_key_id_hex(t)
    BY <1>1 DEF Values
  <2> QED  BY <1>1, <2>1, KeyIdIs DEF ValuesOf
<1>2. CASE k = "u32"
  <2>1. PICK n \in parse_u32_value(t) : v = <<n>>
    BY <1>2 DEF Values
  <2>2. n \in 0 .. U32_MAX
    BY NumberIs
  <2> QED  BY <1>2, <2>1, <2>2 DEF ValuesOf
<1>3. CASE k = "version"
  <2>1. v \in parse_semver_core(t)
    BY <1>3 DEF Values
  <2> QED  BY <1>3, <2>1, VersionRange
<1>4. CASE k = "role"
  <2>1. v \in Lookup(parse_role, t, "RELEASE")
    BY <1>4 DEF Values
  <2>2. \E n \in 1 .. 6 : v = <<n>>
    <3>1. \E c \in DOMAIN parse_role : v = <<parse_role[c]>>
      BY <2>1, RoleTable, LookedUp
    <3> QED  BY <3>1, RoleTable
  <2> QED  BY <1>4, <2>2 DEF ValuesOf
<1>5. CASE k = "label"
  <2>1. v = t /\ Len(t) = 1 /\ t[1] \in key_role_labels
    BY <1>5 DEF Values
  <2>2. v = <<t[1]>>
    BY <2>1
  <2> QED  BY <1>5, <2>1, <2>2 DEF ValuesOf
<1>6. CASE k = "rollback"
  <2>1. v \in Lookup(parse_rollback_policy, t, "fallback")
    BY <1>6 DEF Values
  <2>2. \E n \in {0, 1} : v = <<n>>
    <3>1. \E c \in DOMAIN parse_rollback_policy : v = <<parse_rollback_policy[c]>>
      BY <2>1, PolicyTable, LookedUp
    <3> QED  BY <3>1, PolicyTable
  <2> QED  BY <1>6, <2>2 DEF ValuesOf
<1> QED  BY <1>1, <1>2, <1>3, <1>4, <1>5, <1>6 DEF Kinds

LEMMA FoundAgain ==
  ASSUME NEW table, NEW c, c \in DOMAIN table, NEW default
  PROVE  Lookup(table, <<c>>, default) = {<<table[c]>>}
<1>1. Len(<<c>>) = 1 /\ <<c>> # << >> /\ <<c>>[1] = c
  OBVIOUS
<1> QED  BY <1>1 DEF Lookup

ReadsAs(k, t, v) ==
  t \in Seq(Characters) /\ Values(k, t) = {v} /\ ~(k = "key_id" /\ KeyIdPanics(t))

\* A value is printed as a text that is read as this value.
LEMMA PrintedReads ==
  ASSUME NEW k \in Kinds, NEW v \in ValuesOf(k)
  PROVE  ReadsAs(k, Printed(k, v), v)
<1>1. CASE k = "key_id"
  <2>1. v \in [1 .. KEY_ID_SIZE -> 0 .. 255]
    BY <1>1 DEF ValuesOf
  <2> DEFINE t == <<"0", "x">> \o key_id_hex(v)
  <2>2. t \in Seq(Characters) /\ parse_key_id_hex(t) = {v} /\ ~KeyIdPanics(t)
    BY <2>1, KeyIdPrinted
  <2>3. Printed(k, v) = t
    BY <1>1 DEF Printed
  <2> HIDE DEF t
  <2>4. Values(k, t) = parse_key_id_hex(t)
    BY <1>1 DEF Values
  <2> QED  BY <2>2, <2>3, <2>4 DEF ReadsAs
<1>2. CASE k = "u32"
  <2>1. PICK n \in 0 .. U32_MAX : v = <<n>>
    BY <1>2 DEF ValuesOf
  <2> DEFINE t == <<"0", "x">> \o PadHex(n, U32_DIGITS)
  <2>2. t \in Seq(Characters) /\ parse_u32_value(t) = {n}
    BY U32IsRead
  <2>3. Printed(k, v) = t
    BY <1>2, <2>1 DEF Printed
  <2> HIDE DEF t
  <2>4. Values(k, t) = {<<m>> : m \in parse_u32_value(t)}
    BY <1>2 DEF Values
  <2>5. Values(k, t) = {v}
    BY <2>1, <2>2, <2>4
  <2> QED  BY <1>2, <2>2, <2>3, <2>5 DEF ReadsAs
<1>3. CASE k = "version"
  <2>1. PICK i \in 0 .. U16_MAX, j \in 0 .. U16_MAX, n \in 0 .. U16_MAX : v = <<i, j, n>>
    BY <1>3 DEF ValuesOf
  <2> DEFINE t == version_string(<<i, j, n>>)
  <2>2. t \in Seq(Characters) /\ parse_semver_core(t) = {<<i, j, n>>}
    BY VersionPrinted
  <2>3. Printed(k, v) = t
    BY <1>3, <2>1 DEF Printed
  <2> HIDE DEF t
  <2>4. Values(k, t) = parse_semver_core(t)
    BY <1>3 DEF Values
  <2> QED  BY <1>3, <2>1, <2>2, <2>3, <2>4 DEF ReadsAs
<1>4. CASE k = "role"
  <2>1. PICK n \in 1 .. 6 : v = <<n>>
    BY <1>4 DEF ValuesOf
  <2> DEFINE c == role_name[n]
             t == <<c>>
  <2>2. c \in DOMAIN parse_role /\ parse_role[c] = n /\ c \in Characters
    BY RoleTable, LabelTable
  <2>3. Printed(k, v) = t
    BY <1>4, <2>1 DEF Printed
  <2>4. t \in Seq(Characters)
    BY <2>2
  <2>5. Values(k, t) = Lookup(parse_role, t, "RELEASE")
    BY <1>4 DEF Values
  <2> HIDE DEF c
  <2>6. Values(k, t) = {<<parse_role[c]>>}
    BY <2>2, <2>5, FoundAgain
  <2> HIDE DEF t
  <2> QED  BY <1>4, <2>1, <2>2, <2>3, <2>4, <2>6 DEF ReadsAs
<1>5. CASE k = "label"
  <2>1. PICK l \in key_role_labels : v = <<l>>
    BY <1>5 DEF ValuesOf
  <2>2. Printed(k, v) = v /\ v \in Seq(Characters) /\ Len(v) = 1 /\ v[1] \in key_role_labels
    BY <1>5, <2>1, LabelTable DEF Printed
  <2>3. Values(k, v) = {v}
    BY <1>5, <2>2 DEF Values
  <2> QED  BY <1>5, <2>2, <2>3 DEF ReadsAs
<1>6. CASE k = "rollback"
  <2>1. PICK n \in {0, 1} : v = <<n>>
    BY <1>6 DEF ValuesOf
  <2> DEFINE c == rollback_policy_name(n)
             t == <<c>>
  <2>2. c \in DOMAIN parse_rollback_policy /\ parse_rollback_policy[c] = n
    BY PolicyTable
  <2>3. c \in Characters
    BY LabelTable DEF rollback_policy_name
  <2>4. Printed(k, v) = t
    BY <1>6, <2>1 DEF Printed
  <2>5. t \in Seq(Characters)
    BY <2>3
  <2>6. Values(k, t) = Lookup(parse_rollback_policy, t, "fallback")
    BY <1>6 DEF Values
  <2> HIDE DEF c
  <2>7. Values(k, t) = {<<parse_rollback_policy[c]>>}
    BY <2>2, <2>6, FoundAgain
  <2> HIDE DEF t
  <2> QED  BY <1>6, <2>1, <2>2, <2>4, <2>5, <2>7 DEF ReadsAs
<1> QED  BY <1>1, <1>2, <1>3, <1>4, <1>5, <1>6 DEF Kinds

\* The name of a role is also a label.
LEMMA RoleIsLabel ==
  ASSUME NEW v \in ValuesOf("role")
  PROVE  ReadsAs("label", Printed("role", v), Printed("role", v))
<1>1. PICK n \in 1 .. 6 : v = <<n>>
  BY DEF ValuesOf
<1> DEFINE l == role_name[n]
           t == <<l>>
<1>2. Printed("role", v) = t
  BY <1>1 DEF Printed
<1>3. l \in key_role_labels /\ l \in Characters
  BY LabelTable
<1> HIDE DEF l
<1>4. t \in Seq(Characters) /\ Len(t) = 1 /\ t[1] \in key_role_labels
  BY <1>3
<1> HIDE DEF t
<1>5. Values("label", t) = {t}
  BY <1>4 DEF Values
<1> QED  BY <1>2, <1>4, <1>5 DEF ReadsAs

\* The outcome is the one that the text has.
ValueRead ==
  CASE outcome = "given" -> TRUE
    [] outcome = "read" -> value \in Values(kind, text)
    [] outcome = "refused" -> Values(kind, text) = {}
    [] outcome = "panic" -> kind = "key_id" /\ KeyIdPanics(text)

\* A text that was printed is that of a value, and given for what it is a value
\* of, or a role for a label.
TextShown ==
  \A v \in shown :
    \E k \in Kinds : /\ v \in ValuesOf(k) /\ text = Printed(k, v)
                     /\ k = kind \/ (k = "role" /\ kind = "label")

\* The inductive invariant.
ArgumentsInvariant ==
  /\ kind \in Kinds /\ text \in Seq(Characters)
  /\ outcome \in {"given", "read", "refused", "panic"}
  /\ ValueRead /\ TextShown

LEMMA ArgumentsBegin ==
  ASSUME TextInit
  PROVE  ArgumentsInvariant
BY TextsAssumption DEF TextInit, ArgumentsInvariant, ValueRead, TextShown

\* The two actions keep the invariant.
LEMMA ReadKeeps ==
  ASSUME ArgumentsInvariant, Read
  PROVE  ArgumentsInvariant'
<1> USE DEF Read
<1>1. (TextShown)' /\ kind' \in Kinds /\ text' \in Seq(Characters)
  BY DEF ArgumentsInvariant, TextShown
<1>2. CASE kind = "key_id" /\ KeyIdPanics(text)
  <2>1. outcome' = "panic" /\ kind' = kind /\ text' = text
    BY <1>2
  <2>2. ValueRead'
    BY <1>2, <2>1 DEF ValueRead
  <2> QED  BY <1>1, <2>1, <2>2 DEF ArgumentsInvariant
<1>3. CASE ~(kind = "key_id" /\ KeyIdPanics(text)) /\ Values(kind, text) = {}
  <2>1. outcome' = "refused" /\ kind' = kind /\ text' = text
    BY <1>3
  <2>2. ValueRead'
    BY <1>3, <2>1 DEF ValueRead
  <2> QED  BY <1>1, <2>1, <2>2 DEF ArgumentsInvariant
<1>4. CASE ~(kind = "key_id" /\ KeyIdPanics(text)) /\ Values(kind, text) # {}
  <2>1. outcome' = "read" /\ value' \in Values(kind, text) /\ kind' = kind /\ text' = text
    BY <1>4
  <2>2. ValueRead'
    BY <2>1 DEF ValueRead
  <2> QED  BY <1>1, <2>1, <2>2 DEF ArgumentsInvariant
<1> QED  BY <1>2, <1>3, <1>4

LEMMA GiveBackKeeps ==
  ASSUME ArgumentsInvariant, NEW k \in Kinds, GiveBack(k)
  PROVE  ArgumentsInvariant'
<1>1. /\ outcome = "read" /\ (k = kind \/ (kind = "role" /\ k = "label"))
      /\ kind' = k /\ text' = Printed(kind, value) /\ shown' = {value} /\ outcome' = "given"
  BY DEF GiveBack
<1>2. kind \in Kinds /\ value \in Values(kind, text) /\ text \in Seq(Characters)
  BY <1>1 DEF ArgumentsInvariant, ValueRead
<1>3. value \in ValuesOf(kind)
  BY <1>2, ValuesTyped
<1>4. text' \in Seq(Characters)
  BY <1>1, <1>2, <1>3, PrintedReads DEF ReadsAs
<1>5. TextShown'
  BY <1>1, <1>2, <1>3 DEF TextShown
<1>6. ValueRead'
  BY <1>1 DEF ValueRead
<1> QED  BY <1>1, <1>4, <1>5, <1>6 DEF ArgumentsInvariant

\* Whatever is given and given back, the outcome is what its text alone decides,
\* and what was printed is the text of a value of its kind (main.rs:246-256).
THEOREM ArgumentsKept == TextSpec => []ArgumentsInvariant
<1>1. TextInit => ArgumentsInvariant
  BY ArgumentsBegin
<1>2. ArgumentsInvariant /\ [TextNext]_text_vars => ArgumentsInvariant'
  <2> SUFFICES ASSUME ArgumentsInvariant, [TextNext]_text_vars
               PROVE  ArgumentsInvariant'
    OBVIOUS
  <2>1. CASE Read
    BY <2>1, ReadKeeps
  <2>2. ASSUME NEW k \in Kinds, GiveBack(k) PROVE ArgumentsInvariant'
    BY <2>2, GiveBackKeeps
  <2>3. CASE UNCHANGED text_vars
    BY <2>3 DEF text_vars, ArgumentsInvariant, ValueRead, TextShown
  <2> QED  BY <2>1, <2>2, <2>3 DEF TextNext
<1> QED  BY <1>1, <1>2, PTL DEF TextSpec

\* The two properties follow from it and from what was shown of the texts.
LEMMA ReadBackHolds ==
  ASSUME ArgumentsInvariant
  PROVE  PrintedIsReadBack
<1> SUFFICES ASSUME shown # {}, outcome # "given"
             PROVE  outcome = "read" /\ (kind # "label" => value \in shown)
  BY DEF PrintedIsReadBack
<1>1. PICK v \in shown : TRUE
  OBVIOUS
<1>2. PICK k \in Kinds : /\ v \in ValuesOf(k) /\ text = Printed(k, v)
                         /\ k = kind \/ (k = "role" /\ kind = "label")
  BY <1>1 DEF ArgumentsInvariant, TextShown
<1>3. \E x : ReadsAs(kind, text, x) /\ (kind # "label" => x = v)
  <2>1. CASE k = kind
    <3>1. ReadsAs(k, Printed(k, v), v)
      BY <1>2, PrintedReads
    <3> QED  BY <1>2, <2>1, <3>1
  <2>2. CASE k = "role" /\ kind = "label"
    <3>1. ReadsAs("label", Printed("role", v), Printed("role", v))
      BY <1>2, <2>2, RoleIsLabel
    <3> QED  BY <1>2, <2>2, <3>1
  <2> QED  BY <1>2, <2>1, <2>2
<1>4. PICK x : ReadsAs(kind, text, x) /\ (kind # "label" => x = v)
  BY <1>3
<1>5. Values(kind, text) = {x} /\ ~(kind = "key_id" /\ KeyIdPanics(text))
  BY <1>4 DEF ReadsAs
<1>6. outcome = "read"
  BY <1>5 DEF ArgumentsInvariant, ValueRead
<1>7. value = x
  BY <1>5, <1>6 DEF ArgumentsInvariant, ValueRead
<1> QED  BY <1>1, <1>4, <1>6, <1>7

LEMMA SpelledHolds ==
  ASSUME ArgumentsInvariant
  PROVE  ReadIsWhatItSpells
<1> SUFFICES ASSUME kind \in {"u32", "key_id", "version"}, outcome # "given"
             PROVE  IF outcome = "read" THEN \E r \in Readings : SpellsAll(r, value)
                    ELSE \A r \in Readings : SpellsNothing(r)
  BY DEF ReadIsWhatItSpells, SpellsAll, SpellsNothing
<1>1. text \in Seq(Characters) /\ outcome \in {"read", "refused", "panic"} /\ ValueRead
  BY DEF ArgumentsInvariant
<1>2. CASE outcome = "read"
  <2>1. value \in Values(kind, text)
    BY <1>1, <1>2 DEF ValueRead
  <2>2. CASE kind = "u32"
    <3>1. PICK m \in parse_u32_value(text) : value = <<m>>
      BY <2>1, <2>2 DEF Values
    <3> QED  BY <1>1, <1>2, <2>2, <3>1, NumberRead
  <2>3. CASE kind = "key_id"
    <3>1. value \in parse_key_id_hex(text)
      BY <2>1, <2>3 DEF Values
    <3> QED  BY <1>1, <1>2, <2>3, <3>1, KeyIdRead
  <2>4. CASE kind = "version"
    <3>1. value \in parse_semver_core(text)
      BY <2>1, <2>4 DEF Values
    <3> QED  BY <1>1, <1>2, <2>4, <3>1, VersionRead
  <2> QED  BY <2>2, <2>3, <2>4
<1>3. CASE outcome # "read"
  <2> SUFFICES ASSUME NEW r \in Readings
               PROVE  SpellsNothing(r)
    BY <1>3
  <2>1. (kind = "key_id" /\ KeyIdPanics(text)) \/ Values(kind, text) = {}
    BY <1>1, <1>3 DEF ValueRead
  <2>2. CASE kind = "u32"
    <3>1. {<<n>> : n \in parse_u32_value(text)} = {}
      BY <2>1, <2>2 DEF Values
    <3>2. parse_u32_value(text) = {}
      BY <3>1
    <3> QED  BY <1>1, <2>2, <3>2, NumberRefused
  <2>3. CASE kind = "key_id"
    <3>1. KeyIdPanics(text) \/ parse_key_id_hex(text) = {}
      BY <2>1, <2>3 DEF Values
    <3> QED  BY <1>1, <2>3, <3>1, KeyIdRefused
  <2>4. CASE kind = "version"
    <3>1. parse_semver_core(text) = {}
      BY <2>1, <2>4 DEF Values
    <3> QED  BY <1>1, <2>4, <3>1, VersionRefused
  <2> QED  BY <2>2, <2>3, <2>4
<1> QED  BY <1>2, <1>3

\* What the tool prints it reads back as the same value, for key IDs of any size,
\* numbers and versions up to any limit, and all names: no digit is lost to the
\* padding, none is misread, and no printed key ID panics (format.rs:863-975,
\* keys.rs:19-51, main.rs:391-410).
THEOREM PrintedIsReadBackAlways == TextSpec => []PrintedIsReadBack
BY ArgumentsKept, ReadBackHolds, PTL

\* Any text of any length is read as a number, a key ID or a version exactly if the
\* whole of it spells this value within its limits; what is refused or panics
\* spells none (keys.rs:29-51, main.rs:398-410, format.rs:894-916).
THEOREM ReadIsWhatItSpellsAlways == TextSpec => []ReadIsWhatItSpells
BY ArgumentsKept, SpelledHolds, PTL
-----------------------------------------------------------------------------
\* Runs of the tool.

USE ToolAssumption, AbsentAssumption

\* The first k cells of the file of d.
Prefix(d, k) == [n \in 1 .. k |-> [data |-> d, part |-> n]]

Content == Cell \cup {Hole}

LEMMA IsBytes ==
  ASSUME NEW n \in 0 .. CELLS, NEW b \in [1 .. n -> Content]
  PROVE  b \in Bytes /\ b \in Seq(Content) /\ Len(b) = n /\ DOMAIN b = 1 .. n
<1>1. b \in Seq(Content) /\ Len(b) = n /\ DOMAIN b = 1 .. n
  OBVIOUS
<1>2. b \in Bytes
  BY DEF Bytes, Content
<1> QED  BY <1>1, <1>2

LEMMA BytesAre ==
  ASSUME NEW b \in Bytes
  PROVE  /\ b \in Seq(Content) /\ Len(b) \in 0 .. CELLS
         /\ DOMAIN b = 1 .. Len(b)
         /\ b \in [1 .. Len(b) -> Content]
<1>1. PICK n \in 0 .. CELLS : b \in [1 .. n -> Content]
  BY DEF Bytes, Content
<1> QED  BY <1>1, IsBytes

LEMMA PrefixBytes ==
  ASSUME NEW d \in Data, NEW k \in 0 .. CELLS
  PROVE  /\ Prefix(d, k) \in Bytes /\ Prefix(d, k) \in Seq(Content)
         /\ Len(Prefix(d, k)) = k
         /\ \A n \in 1 .. k : Prefix(d, k)[n] = [data |-> d, part |-> n]
<1>1. Prefix(d, k) \in [1 .. k -> Content]
  BY DEF Prefix, Content, Cell
<1> QED  BY <1>1, IsBytes DEF Prefix

LEMMA EmptyFile ==
  ASSUME NEW d \in Data
  PROVE  << >> = Prefix(d, 0) /\ Prefix(d, 0) \in Bytes
<1>1. 0 \in 0 .. CELLS
  OBVIOUS
<1>2. << >> \in [1 .. 0 -> Content]
  OBVIOUS
<1>3. << >> = Prefix(d, 0)
  BY <1>2 DEF Prefix
<1> QED  BY <1>1, <1>3, PrefixBytes

\* A file is about what its first cell is about, and as long as it is.
LEMMA PrefixUnique ==
  ASSUME NEW d \in Data, NEW e \in Data, NEW k \in 0 .. CELLS, NEW j \in 0 .. CELLS,
         Prefix(d, k) = Prefix(e, j)
  PROVE  k = j /\ (k # 0 => d = e)
<1>1. k = j
  BY PrefixBytes
<1>2. ASSUME k # 0  PROVE d = e
  <2>1. Prefix(d, k)[1] = [data |-> d, part |-> 1] /\ Prefix(e, j)[1] = [data |-> e, part |-> 1]
    BY <1>1, <1>2, PrefixBytes
  <2> QED  BY <2>1
<1> QED  BY <1>1, <1>2

\* Writing the next cell, and reading it.
LEMMA OverlayGrows ==
  ASSUME NEW d \in Data, NEW k \in 0 .. CELLS - 1
  PROVE  Overlay(Prefix(d, k), Whole(d)[k + 1], k + 1) = Prefix(d, k + 1)
<1>1. Whole(d)[k + 1] = [data |-> d, part |-> k + 1]
  BY DEF Whole
<1>2. Len(Prefix(d, k)) = k /\ \A n \in 1 .. k : Prefix(d, k)[n] = [data |-> d, part |-> n]
  BY PrefixBytes, SMTT(60)
<1>3. (IF k + 1 > k THEN k + 1 ELSE k) = k + 1
  OBVIOUS
<1>4. Overlay(Prefix(d, k), Whole(d)[k + 1], k + 1) =
        [n \in 1 .. k + 1 |->
           IF n = k + 1 THEN [data |-> d, part |-> k + 1]
           ELSE IF n <= k THEN Prefix(d, k)[n] ELSE Hole]
  BY <1>1, <1>2, <1>3 DEF Overlay
<1>5. \A n \in 1 .. k + 1 :
        (IF n = k + 1 THEN [data |-> d, part |-> k + 1]
         ELSE IF n <= k THEN Prefix(d, k)[n] ELSE Hole) = [data |-> d, part |-> n]
  BY <1>2
<1> QED  BY <1>4, <1>5 DEF Prefix

LEMMA AppendGrows ==
  ASSUME NEW d \in Data, NEW k \in 0 .. CELLS, NEW j \in 0 .. k - 1
  PROVE  Append(Prefix(d, j), Prefix(d, k)[j + 1]) = Prefix(d, j + 1)
<1> DEFINE a == Append(Prefix(d, j), Prefix(d, k)[j + 1])
<1>1. Prefix(d, j) \in Seq(Content) /\ Len(Prefix(d, j)) = j
      /\ \A n \in 1 .. j : Prefix(d, j)[n] = [data |-> d, part |-> n]
  BY PrefixBytes
<1>2. Prefix(d, k)[j + 1] = [data |-> d, part |-> j + 1] /\ Prefix(d, k)[j + 1] \in Content
  BY PrefixBytes, SMTT(60) DEF Content, Cell
<1>4. a \in Seq(Content) /\ Len(a) = j + 1
      /\ \A n \in 1 .. j + 1 : a[n] = [data |-> d, part |-> n]
  BY <1>1, <1>2
<1> HIDE DEF a
<1>5. a = [n \in 1 .. j + 1 |-> a[n]]
  BY <1>4
<1>6. a = [n \in 1 .. j + 1 |-> [data |-> d, part |-> n]]
  BY <1>4, <1>5
<1> QED  BY <1>6 DEF a, Prefix

LEMMA OverlayBytes ==
  ASSUME NEW b \in Bytes, NEW cell \in Cell, NEW at \in 1 .. CELLS
  PROVE  /\ Overlay(b, cell, at) \in Bytes
         /\ \A n \in DOMAIN Overlay(b, cell, at) :
              \/ n = at /\ Overlay(b, cell, at)[n] = cell
              \/ n \in DOMAIN b /\ Overlay(b, cell, at)[n] = b[n]
              \/ Overlay(b, cell, at)[n] = Hole
<1> DEFINE m == IF at > Len(b) THEN at ELSE Len(b)
           o == Overlay(b, cell, at)
<1>1. b \in Seq(Content) /\ Len(b) \in 0 .. CELLS /\ DOMAIN b = 1 .. Len(b)
  BY BytesAre
<1>2. m \in 0 .. CELLS
  BY <1>1
<1>3. o = [n \in 1 .. m |->
             IF n = at THEN cell ELSE IF n <= Len(b) THEN b[n] ELSE Hole]
  BY DEF Overlay
<1> HIDE DEF m, o
<1>4. \A n \in 1 .. m :
        \/ n = at /\ o[n] = cell
        \/ n \in DOMAIN b /\ o[n] = b[n]
        \/ o[n] = Hole
  BY <1>1, <1>2, <1>3
<1>5. \A n \in 1 .. m : o[n] \in Content
  BY <1>1, <1>4 DEF Content
<1>6. o \in [1 .. m -> Content]
  BY <1>3, <1>5
<1>7. o \in Bytes /\ DOMAIN o = 1 .. m
  BY <1>2, <1>6, IsBytes
<1> QED  BY <1>4, <1>7 DEF o

State ==
  [pc: {"check", "read", "open", "write"}, cmd: Commands, run: Runs, key: Runs,
   buf: Bytes, at: 0 .. CELLS - 1]

\* The types, and the shape of a process at each point.
Types ==
  /\ proc \in [Procs -> {Idle} \cup State]
  /\ files \in [Paths -> {Absent} \cup Bytes]
  /\ runs \in 0 .. MaxRuns
  /\ reports \subseteq [data: Data, path: Paths]
  /\ raced \subseteq Paths

Placed ==
  \A f \in Paths : files[f] # Absent =>
    \A n \in DOMAIN files[f] : files[f][n] # Hole => files[f][n].part = n

Shaped ==
  \A p \in Procs :
    /\ ~At(p, "idle") /\ ~At(p, "read") => cmd(p).out # None
    /\ At(p, "read") => cmd(p).in # None
    /\ ~At(p, "idle") /\ ~At(p, "write") => proc[p].at = 0
    /\ At(p, "check") => Len(proc[p].buf) = 0

Basics == Types /\ Placed /\ Shaped

LEMMA Running ==
  ASSUME Basics, NEW p \in Procs, ~At(p, "idle")
  PROVE  /\ proc[p] \in State /\ cmd(p) \in Commands
         /\ cmd(p).in \in Paths \cup {None} /\ cmd(p).out \in Paths \cup {None}
         /\ At(p, "read") => cmd(p).in \in Paths
         /\ ~At(p, "read") => cmd(p).out \in Paths
         /\ At(p, "check") \/ At(p, "read") \/ At(p, "open") \/ At(p, "write")
<1>1. proc[p] \in State
  BY DEF Basics, Types, At, Idle
<1>2. cmd(p) \in Command
  BY <1>1 DEF State, cmd
<1> QED  BY <1>1, <1>2 DEF State, cmd, Command, At, Basics, Shaped

LEMMA OutputIsData ==
  ASSUME Basics, NEW p \in Procs, ~At(p, "idle"), cmd(p).out # None
  PROVE  Output(p) \in Data
<1>1. proc[p] \in State /\ cmd(p) \in Commands
  BY Running
<1>2. cmd(p).op \in {"generate", "public", "sign"}
  BY <1>1 DEF Command
<1>3. Written(cmd(p).op) \in {"private", "public", "artifact"}
  BY <1>2 DEF Written
<1> QED  BY <1>1, <1>3 DEF Output, Data, State

LEMMA TypesHold == Basics => TypeOK
<1> SUFFICES ASSUME Basics  PROVE TypeOK
  OBVIOUS
<1>1. ASSUME NEW f \in Paths, files[f] # Absent
      PROVE  /\ DOMAIN files[f] = 1 .. Len(files[f]) /\ Len(files[f]) <= CELLS
             /\ \A n \in DOMAIN files[f] : files[f][n] # Hole =>
                  files[f][n] \in Cell /\ files[f][n].part = n
  <2>1. files[f] \in Bytes
    BY <1>1 DEF Basics, Types
  <2> QED  BY <1>1, <2>1, BytesAre DEF Basics, Placed, Content
<1>2. ASSUME NEW p \in Procs, proc[p] # Idle
      PROVE  /\ proc[p].pc \in {"check", "read", "open", "write"}
             /\ cmd(p) \in Commands /\ proc[p].run \in Runs /\ proc[p].key \in Runs
             /\ Len(proc[p].buf) <= CELLS /\ proc[p].at \in 0 .. CELLS - 1
  <2>1. proc[p] \in State
    BY <1>2 DEF Basics, Types
  <2> QED  BY <2>1, BytesAre DEF State, cmd
<1> QED  BY <1>1, <1>2 DEF TypeOK, Basics, Types

Unraced(f) == f \in Paths /\ f \notin raced

\* No two processes are about to write a file that was not raced for, ...
Alone == \A f \in Paths : Unraced(f) => \A p, q \in Writers(f) : p = q

\* ... it is written front to back, ...
Grown ==
  \A f \in Paths : Unraced(f) /\ files[f] # Absent =>
    \E d \in Data, k \in 0 .. CELLS : files[f] = Prefix(d, k)

\* ... by a process that found it absent and knows all that it holds, ...
WriterKnows ==
  \A f \in Paths : Unraced(f) => \A p \in Writers(f) :
    IF At(p, "write") THEN files[f] = Prefix(Output(p), proc[p].at)
    ELSE files[f] = Absent

\* ... and what was read of it still is its beginning.
ReaderKnows ==
  \A p \in Procs :
    At(p, "read") /\ Unraced(cmd(p).in) /\ Len(proc[p].buf) # 0 =>
      \E d \in Data, k \in 0 .. CELLS : \E j \in 0 .. k :
        files[cmd(p).in] = Prefix(d, k) /\ proc[p].buf = Prefix(d, j)

\* A file is there once it has been opened.
Created == \A p \in Procs : At(p, "write") => files[cmd(p).out] # Absent

\* The inductive invariant.
IInv ==
  /\ Basics /\ Created /\ Alone /\ Grown /\ WriterKnows /\ ReaderKnows /\ ReportedIsOnDisk

\* A whole file that was not raced for has no writer.
LEMMA WholeIsSettled ==
  ASSUME IInv, NEW f \in Paths, Unraced(f), NEW d \in Data, files[f] = Whole(d)
  PROVE  Writers(f) = {} /\ files[f] # Absent
<1>1. Whole(d) = Prefix(d, CELLS) /\ Prefix(d, CELLS) \in Bytes
  BY PrefixBytes DEF Whole, Prefix
<1>2. SUFFICES ASSUME NEW p \in Writers(f)  PROVE FALSE
  BY <1>1
<1>3. p \in Procs /\ ~At(p, "idle") /\ cmd(p).out = f
  BY DEF Writers, At
<1>4. At(p, "write") /\ files[f] = Prefix(Output(p), proc[p].at)
  BY <1>1 DEF IInv, WriterKnows
<1>5. Output(p) \in Data /\ proc[p].at \in 0 .. CELLS - 1
  BY <1>3, OutputIsData, Running DEF IInv, State
<1>6. CELLS = proc[p].at
  BY <1>1, <1>4, <1>5, PrefixUnique
<1> QED  BY <1>5, <1>6

LEMMA InitStep ==
  ASSUME Init
  PROVE  IInv
<1>1. \A p \in Procs : proc[p] = Idle /\ At(p, "idle") /\ proc[p].pc = "idle"
  BY DEF Init, At, Idle
<1>2. Basics
  BY <1>1 DEF Init, Basics, Types, Placed, Shaped, At
<1>3. \A f \in Paths : Writers(f) = {}
  BY <1>1 DEF Writers
<1>4. Alone /\ WriterKnows
  BY <1>3 DEF Alone, WriterKnows
<1>5. Grown /\ ReportedIsOnDisk
  BY DEF Init, Grown, ReportedIsOnDisk
<1>6. ReaderKnows /\ Created
  BY <1>1 DEF ReaderKnows, Created, At
<1> QED  BY <1>2, <1>4, <1>5, <1>6 DEF IInv

\* What a step of one process leaves of the others.
Others(p) == \A q \in Procs : q # p => proc'[q] = proc[q]

LEMMA StartStep ==
  ASSUME IInv, NEW p \in Procs, NEW c \in Commands, Start(p, c)
  PROVE  IInv'
<1> DEFINE new == [pc |-> IF c.out = None THEN "read" ELSE "check", cmd |-> c,
                   run |-> runs + 1, key |-> runs + 1, buf |-> << >>, at |-> 0]
<1>1. << >> \in Bytes /\ Len(<< >>) = 0
  <2>1. << >> \in [1 .. 0 -> Content] /\ 0 \in 0 .. CELLS
    OBVIOUS
  <2> QED  BY <2>1, IsBytes
<1>2. runs + 1 \in Runs /\ runs' = runs + 1 /\ runs' \in 0 .. MaxRuns
  BY DEF Start, IInv, Basics, Types, Runs
<1>3. new \in State
  BY <1>1, <1>2 DEF State
<1>4. /\ proc'[p] = new /\ Others(p) /\ proc' \in [Procs -> {Idle} \cup State]
      /\ UNCHANGED <<files, reports, raced>>
  BY <1>3 DEF Start, IInv, Basics, Types, Others
<1>5. At(p, "idle") /\ proc[p].pc = "idle"
  BY DEF Start, At
<1>6. (c.out = None => c.in # None) /\ c.out \in Paths \cup {None}
  BY DEF Command
<1>7. Basics'
  <2>1. Types' /\ Placed'
    BY <1>2, <1>4 DEF IInv, Basics, Types, Placed
  <2>2. Shaped'
    BY <1>4, <1>6 DEF IInv, Basics, Shaped, At, cmd, Others
  <2> QED  BY <2>1, <2>2 DEF Basics
<1>8. ASSUME NEW f \in Paths
      PROVE  /\ Writers(f)' = Writers(f)
             /\ \A q \in Writers(f) : proc'[q] = proc[q]
  <2>1. p \notin Writers(f) /\ p \notin Writers(f)'
    BY <1>4, <1>5 DEF Writers, cmd
  <2> QED  BY <1>4, <2>1 DEF Writers, cmd, Others
<1>9. Alone' /\ Grown' /\ ReportedIsOnDisk'
  BY <1>4, <1>8 DEF IInv, Alone, Grown, ReportedIsOnDisk, Unraced
<1>10. WriterKnows'
  BY <1>4, <1>8 DEF IInv, WriterKnows, Unraced, At, Output, cmd
<1>11. ReaderKnows' /\ Created'
  BY <1>1, <1>4 DEF IInv, ReaderKnows, Created, Unraced, At, cmd, Others
<1> QED  BY <1>7, <1>9, <1>10, <1>11 DEF IInv

\* A process that gives up, or has finished, is no writer and no reader.
LEMMA IdleStep ==
  ASSUME IInv, NEW p \in Procs, proc' = [proc EXCEPT ![p] = Idle],
         UNCHANGED <<files, runs, reports, raced>>
  PROVE  IInv'
<1>1. /\ proc'[p] = Idle /\ proc'[p].pc = "idle" /\ Others(p)
      /\ proc' \in [Procs -> {Idle} \cup State]
  BY DEF IInv, Basics, Types, Others, Idle
<1>2. Basics'
  <2>1. Types' /\ Placed'
    BY <1>1 DEF IInv, Basics, Types, Placed
  <2>2. Shaped'
    BY <1>1 DEF IInv, Basics, Shaped, At, cmd, Others
  <2> QED  BY <2>1, <2>2 DEF Basics
<1>3. ASSUME NEW f \in Paths
      PROVE  /\ Writers(f)' \subseteq Writers(f)
             /\ \A q \in Writers(f)' : proc'[q] = proc[q]
  <2>1. p \notin Writers(f)'
    BY <1>1 DEF Writers
  <2> QED  BY <1>1, <2>1 DEF Writers, cmd, Others
<1>4. Alone' /\ Grown' /\ ReportedIsOnDisk'
  BY <1>3 DEF IInv, Alone, Grown, ReportedIsOnDisk, Unraced
<1>5. WriterKnows'
  BY <1>3 DEF IInv, WriterKnows, Unraced, At, Output, cmd
<1>6. ReaderKnows' /\ Created'
  BY <1>1 DEF IInv, ReaderKnows, Created, Unraced, At, cmd, Others
<1> QED  BY <1>2, <1>4, <1>5, <1>6 DEF IInv

\* A process finds its path absent: it is the only writer, or the path is raced.
LEMMA AbsentStep ==
  ASSUME IInv, NEW p \in Procs, Check(p), ~Exists(cmd(p).out)
  PROVE  IInv'
<1> DEFINE to == IF cmd(p).in = None THEN "open" ELSE "read"
<1>0. At(p, "check") /\ ~At(p, "idle") /\ ~At(p, "read")
  BY DEF Check, At
<1>00. PICK path \in Paths : path = cmd(p).out
  BY <1>0, Running DEF IInv
<1>1. /\ At(p, "check") /\ proc[p] \in State /\ path # None
      /\ proc[p].pc = "check" /\ proc[p].at = 0 /\ files[path] = Absent
      /\ cmd(p).in \in Paths \cup {None} /\ Len(proc[p].buf) = 0
  BY <1>0, <1>00, Running DEF Check, At, Exists, IInv, Basics, Shaped
<1>2. proc' = [proc EXCEPT ![p].pc = to] /\ UNCHANGED <<files, runs, reports>>
  BY DEF Check, Going
<1>3. /\ proc'[p] = [proc[p] EXCEPT !.pc = to] /\ proc'[p] \in State /\ Others(p)
      /\ proc' \in [Procs -> {Idle} \cup State]
      /\ proc'[p].cmd = proc[p].cmd /\ proc'[p].pc = to /\ proc'[p].at = 0
      /\ proc'[p].buf = proc[p].buf /\ cmd(p)' = cmd(p) /\ to \in {"open", "read"}
  BY <1>1, <1>2 DEF IInv, Basics, Types, State, Others, cmd
<1>4. raced' = IF Writers(path) = {} THEN raced ELSE raced \cup {path}
  BY <1>00, <1>1 DEF Check, Exists
<1>5. Basics'
  <2>1. Types' /\ Placed'
    BY <1>1, <1>2, <1>3, <1>4 DEF IInv, Basics, Types, Placed
  <2>2. Shaped'
    <3> SUFFICES ASSUME NEW q \in Procs
                 PROVE  (/\ ~At(q, "idle") /\ ~At(q, "read") => cmd(q).out # None
                         /\ At(q, "read") => cmd(q).in # None
                         /\ ~At(q, "idle") /\ ~At(q, "write") => proc[q].at = 0
                         /\ At(q, "check") => Len(proc[q].buf) = 0)'
      BY DEF Shaped
    <3>1. CASE q = p
      BY <1>00, <1>1, <1>3, <3>1 DEF At
    <3>2. CASE q # p
      BY <1>3, <3>2 DEF IInv, Basics, Shaped, At, cmd, Others
    <3> QED  BY <3>1, <3>2
  <2> QED  BY <2>1, <2>2 DEF Basics
<1>6. ASSUME NEW f \in Paths, f # path
      PROVE  /\ Writers(f)' = Writers(f)
             /\ \A q \in Writers(f) : proc'[q] = proc[q]
             /\ Unraced(f)' <=> Unraced(f)
  <2>1. p \notin Writers(f) /\ p \notin Writers(f)'
    BY <1>00, <1>1, <1>3, <1>6 DEF Writers
  <2> QED  BY <1>3, <1>4, <1>6, <2>1 DEF Writers, cmd, Others, Unraced
<1>7. ASSUME Unraced(path)'
      PROVE  Unraced(path) /\ Writers(path)' = {p}
  <2>1. Unraced(path) /\ Writers(path) = {}
    BY <1>4, <1>7 DEF Unraced
  <2>2. p \in Writers(path)'
    BY <1>00, <1>3 DEF Writers
  <2> QED  BY <1>3, <2>1, <2>2 DEF Writers, cmd, Others
<1>8. \A f \in Paths : Unraced(f)' => Unraced(f)
  BY <1>6, <1>7
<1>9. Alone'
  <2> SUFFICES ASSUME NEW f \in Paths, Unraced(f)', NEW q \in Writers(f)', NEW r \in Writers(f)'
               PROVE  q = r
    BY DEF Alone
  <2> QED  BY <1>6, <1>7 DEF IInv, Alone
<1>10. WriterKnows'
  <2> SUFFICES ASSUME NEW f \in Paths, Unraced(f)', NEW q \in Writers(f)'
               PROVE  (IF At(q, "write") THEN files[f] = Prefix(Output(q), proc[q].at)
                       ELSE files[f] = Absent)'
    BY DEF WriterKnows
  <2>1. CASE f = path
    <3>1. q = p /\ files'[f] = Absent
      BY <1>1, <1>2, <1>7, <2>1
    <3>2. proc'[q].pc # "write"
      BY <1>3, <3>1
    <3> QED  BY <3>1, <3>2 DEF At
  <2>2. CASE f # path
    <3>1. /\ q \in Writers(f) /\ Unraced(f)
          /\ proc'[q] = proc[q] /\ files'[f] = files[f]
      BY <1>2, <1>6, <2>2
    <3>2. Output(q)' = Output(q)
      BY <3>1 DEF Output, cmd
    <3> QED  BY <3>1, <3>2 DEF IInv, WriterKnows, At
  <2> QED  BY <2>1, <2>2
<1>11. Grown' /\ ReportedIsOnDisk'
  <2>1. Grown'
    BY <1>2, <1>8 DEF IInv, Grown
  <2>2. ASSUME NEW r \in reports, r.path \notin raced'  PROVE files[r.path] = Whole(r.data)
    <3>1. r.path \notin raced
      BY <1>4, <2>2
    <3> QED  BY <3>1 DEF IInv, ReportedIsOnDisk
  <2> QED  BY <1>2, <2>1, <2>2 DEF ReportedIsOnDisk
<1>12. ReaderKnows'
  <2> SUFFICES ASSUME NEW q \in Procs, At(q, "read")', Unraced(cmd(q).in)',
                      Len(proc[q].buf)' # 0
               PROVE  (\E d \in Data, k \in 0 .. CELLS : \E j \in 0 .. k :
                         files[cmd(q).in] = Prefix(d, k) /\ proc[q].buf = Prefix(d, j))'
    BY DEF ReaderKnows
  <2>1. CASE q = p
    BY <1>1, <1>3, <2>1 DEF IInv, Basics, Shaped
  <2>2. CASE q # p
    <3>1. proc'[q] = proc[q] /\ Unraced(cmd(q).in)
      BY <1>3, <1>8, <2>2 DEF Others, cmd, Unraced
    <3> QED  BY <1>2, <3>1, ZenonT(60) DEF IInv, ReaderKnows, At, cmd
  <2> QED  BY <2>1, <2>2
<1>13. Created'
  BY <1>2, <1>3 DEF IInv, Created, At, cmd, Others
<1> QED  BY <1>5, <1>9, <1>10, <1>11, <1>12, <1>13 DEF IInv

LEMMA ReadStep ==
  ASSUME IInv, NEW p \in Procs, ReadCell(p)
  PROVE  IInv'
<1> DEFINE bytes == files[cmd(p).in]
           n == Len(proc[p].buf) + 1
           buf == Append(proc[p].buf, bytes[n])
<1>1. /\ At(p, "read") /\ proc[p] \in State /\ cmd(p).in \in Paths
      /\ proc[p].pc = "read"
  BY Running DEF ReadCell, At, IInv
<1>2. /\ bytes # Absent /\ n <= Len(bytes)
      /\ proc' = [proc EXCEPT ![p].buf = buf]
      /\ UNCHANGED <<files, runs, reports, raced>>
  BY DEF ReadCell
<1>3. bytes \in Bytes /\ proc[p].buf \in Bytes
  BY <1>1, <1>2 DEF IInv, Basics, Types, State
<1>4. buf \in Bytes /\ Len(buf) = n /\ n \in 1 .. Len(bytes) /\ Len(bytes) \in 0 .. CELLS
  <2>1. /\ proc[p].buf \in Seq(Content) /\ Len(proc[p].buf) \in Nat
        /\ bytes \in Seq(Content) /\ Len(bytes) \in 0 .. CELLS
    BY <1>3, BytesAre
  <2>2. n \in 1 .. Len(bytes) /\ bytes[n] \in Content
    BY <1>2, <2>1, SMTT(60)
  <2>3. buf \in Seq(Content) /\ Len(buf) = n
    BY <2>1, <2>2
  <2>4. n \in 0 .. CELLS
    BY <2>1, <2>2
  <2> HIDE DEF n, buf
  <2>5. buf \in [1 .. n -> Content]
    BY <2>3
  <2> QED  BY <2>1, <2>2, <2>3, <2>4, <2>5, IsBytes
<1> HIDE DEF buf
<1>5. /\ proc'[p] = [proc[p] EXCEPT !.buf = buf] /\ proc'[p] \in State /\ Others(p)
      /\ proc' \in [Procs -> {Idle} \cup State]
      /\ proc'[p].cmd = proc[p].cmd /\ proc'[p].pc = "read"
      /\ proc'[p].at = proc[p].at /\ proc'[p].run = proc[p].run
      /\ proc'[p].key = proc[p].key /\ proc'[p].buf = buf
  BY <1>1, <1>2, <1>4 DEF IInv, Basics, Types, State, Others
<1>6. Basics'
  <2>1. Types' /\ Placed'
    BY <1>2, <1>5 DEF IInv, Basics, Types, Placed
  <2>2. cmd(p).in # None
    BY <1>1
  <2>3. Shaped'
    <3> SUFFICES ASSUME NEW q \in Procs
                 PROVE  (/\ ~At(q, "idle") /\ ~At(q, "read") => cmd(q).out # None
                         /\ At(q, "read") => cmd(q).in # None
                         /\ ~At(q, "idle") /\ ~At(q, "write") => proc[q].at = 0
                         /\ At(q, "check") => Len(proc[q].buf) = 0)'
      BY DEF Shaped
    <3>1. CASE q = p
      BY <1>1, <1>5, <2>2, <3>1 DEF IInv, Basics, Shaped, At, cmd
    <3>2. CASE q # p
      BY <1>5, <3>2 DEF IInv, Basics, Shaped, At, cmd, Others
    <3> QED  BY <3>1, <3>2
  <2> QED  BY <2>1, <2>3 DEF Basics
<1>7. \A q \in Procs :
        /\ proc'[q].pc = proc[q].pc
        /\ proc[q].pc # "idle" => cmd(q)' = cmd(q) /\ Output(q)' = Output(q)
        /\ proc[q].pc # "read" => proc'[q] = proc[q]
  BY <1>1, <1>5 DEF Others, cmd, Output
<1>8. \A f \in Paths : Writers(f)' = Writers(f)
  BY <1>7 DEF Writers
<1>9. Alone' /\ Grown' /\ ReportedIsOnDisk'
  BY <1>2, <1>8 DEF IInv, Alone, Grown, ReportedIsOnDisk, Unraced
<1>10. WriterKnows'
  <2> SUFFICES ASSUME NEW f \in Paths, Unraced(f), NEW q \in Writers(f)
               PROVE  (IF At(q, "write") THEN files[f] = Prefix(Output(q), proc[q].at)
                       ELSE files[f] = Absent)'
    BY <1>2, <1>8 DEF WriterKnows, Unraced
  <2>1. q \in Procs /\ proc[q].pc # "idle"
    BY DEF Writers
  <2> QED  BY <1>2, <1>7, <2>1 DEF IInv, WriterKnows, At
<1>11. ReaderKnows'
  <2> SUFFICES ASSUME NEW q \in Procs, At(q, "read")', Unraced(cmd(q).in)',
                      Len(proc[q].buf)' # 0
               PROVE  (\E d \in Data, k \in 0 .. CELLS : \E j \in 0 .. k :
                         files[cmd(q).in] = Prefix(d, k) /\ proc[q].buf = Prefix(d, j))'
    BY DEF ReaderKnows
  <2>1. CASE q = p
    <3>1. \E d \in Data, k \in 0 .. CELLS : \E j \in 0 .. k :
            bytes = Prefix(d, k) /\ proc[p].buf = Prefix(d, j)
      <4>1. Unraced(cmd(p).in)
        BY <1>2, <1>5, <2>1 DEF Unraced, cmd
      <4>2. CASE Len(proc[p].buf) # 0
        BY <1>1, <4>1, <4>2 DEF IInv, ReaderKnows
      <4>3. CASE Len(proc[p].buf) = 0
        <5>1. PICK d \in Data, k \in 0 .. CELLS : bytes = Prefix(d, k)
          BY <1>1, <1>2, <4>1 DEF IInv, Grown
        <5>2. proc[p].buf \in [1 .. 0 -> Content]
          BY <1>3, <4>3, BytesAre
        <5>3. proc[p].buf = Prefix(d, 0) /\ 0 \in 0 .. k
          BY <5>2 DEF Prefix
        <5> QED  BY <5>1, <5>3
      <4> QED  BY <4>2, <4>3
    <3>2. PICK d \in Data, k \in 0 .. CELLS : \E j \in 0 .. k :
            bytes = Prefix(d, k) /\ proc[p].buf = Prefix(d, j)
      BY <3>1
    <3>3. PICK j \in 0 .. k : bytes = Prefix(d, k) /\ proc[p].buf = Prefix(d, j)
      BY <3>2
    <3>4. Len(bytes) = k /\ n = j + 1
      BY <3>3, PrefixBytes
    <3>5. j \in 0 .. k - 1 /\ j + 1 \in 0 .. k
      BY <1>4, <3>4
    <3>6. buf = Prefix(d, j + 1)
      BY <3>3, <3>4, <3>5, AppendGrows DEF buf
    <3> QED  BY <1>2, <1>5, <2>1, <3>3, <3>5, <3>6 DEF cmd
  <2>2. CASE q # p
    BY <1>2, <1>5, <2>2 DEF IInv, ReaderKnows, At, cmd, Others, Unraced
  <2> QED  BY <2>1, <2>2
<1>12. Created'
  BY <1>2, <1>7 DEF IInv, Created, At
<1> QED  BY <1>6, <1>9, <1>10, <1>11, <1>12 DEF IInv

\* What an operation reports of its input it has read whole, and so it still is.
LEMMA ReadWhole ==
  ASSUME IInv, NEW p \in Procs, At(p, "read"), Unraced(cmd(p).in),
         files[cmd(p).in] # Absent,
         Len(files[cmd(p).in]) <= Len(proc[p].buf),
         NEW d \in Decodes(proc[p].buf)
  PROVE  files[cmd(p).in] = Whole(d)
<1>1. d \in Data /\ proc[p].buf = Prefix(d, CELLS)
  BY DEF Decodes, Whole, Prefix
<1>2. Len(proc[p].buf) = CELLS /\ CELLS # 0
  BY <1>1, PrefixBytes
<1>3. PICK e \in Data, k \in 0 .. CELLS : \E j \in 0 .. k :
        files[cmd(p).in] = Prefix(e, k) /\ proc[p].buf = Prefix(e, j)
  BY <1>2 DEF IInv, ReaderKnows
<1>4. PICK j \in 0 .. k :
        files[cmd(p).in] = Prefix(e, k) /\ proc[p].buf = Prefix(e, j)
  BY <1>3
<1>5. j = CELLS /\ k = CELLS /\ e = d
  <2>1. j \in 0 .. CELLS /\ CELLS \in 0 .. CELLS /\ Prefix(d, CELLS) = Prefix(e, j)
    BY <1>1, <1>4
  <2>2. CELLS = j /\ d = e
    BY <1>1, <1>2, <2>1, PrefixUnique
  <2> QED  BY <2>2
<1> QED  BY <1>4, <1>5 DEF Whole, Prefix

LEMMA ShowStep ==
  ASSUME IInv, NEW p \in Procs, Decode(p), cmd(p).out = None
  PROVE  IInv'
<1>1. /\ At(p, "read") /\ proc[p] \in State /\ cmd(p).in \in Paths
      /\ proc[p].pc = "read"
  BY Running DEF Decode, At, IInv
<1>2. PICK d \in Decodes(proc[p].buf) :
        /\ proc' = [proc EXCEPT ![p] = Idle]
        /\ reports' = reports \cup {[data |-> d, path |-> cmd(p).in]}
        /\ UNCHANGED <<files, runs, raced>>
  BY DEF Decode
<1>3. /\ proc'[p] = Idle /\ proc'[p].pc = "idle" /\ Others(p)
      /\ proc' \in [Procs -> {Idle} \cup State]
  BY <1>2 DEF IInv, Basics, Types, Others, Idle
<1>4. Basics'
  <2>1. Types' /\ Placed'
    BY <1>1, <1>2, <1>3 DEF IInv, Basics, Types, Placed, Decodes
  <2>2. Shaped'
    BY <1>3 DEF IInv, Basics, Shaped, At, cmd, Others
  <2> QED  BY <2>1, <2>2 DEF Basics
<1>5. ASSUME NEW f \in Paths
      PROVE  /\ Writers(f)' \subseteq Writers(f)
             /\ \A q \in Writers(f)' : proc'[q] = proc[q]
  <2>1. p \notin Writers(f)'
    BY <1>3 DEF Writers
  <2> QED  BY <1>3, <2>1 DEF Writers, cmd, Others
<1>6. Alone' /\ Grown'
  BY <1>2, <1>5 DEF IInv, Alone, Grown, Unraced
<1>7. WriterKnows'
  BY <1>2, <1>5 DEF IInv, WriterKnows, Unraced, At, Output, cmd
<1>8. ReaderKnows' /\ Created'
  BY <1>2, <1>3 DEF IInv, ReaderKnows, Created, Unraced, At, cmd, Others
<1>9. ReportedIsOnDisk'
  <2> SUFFICES ASSUME NEW r \in reports', r.path \notin raced
               PROVE  files[r.path] = Whole(r.data)
    BY <1>2 DEF ReportedIsOnDisk
  <2>1. CASE r \in reports
    BY <2>1 DEF IInv, ReportedIsOnDisk
  <2>2. CASE r = [data |-> d, path |-> cmd(p).in]
    <3>1. Unraced(cmd(p).in)
      BY <1>1, <2>2 DEF Unraced
    <3> QED  BY <1>1, <2>2, <3>1, ReadWhole DEF Decode
  <2> QED  BY <1>2, <2>1, <2>2
<1> QED  BY <1>4, <1>6, <1>7, <1>8, <1>9 DEF IInv

LEMMA AcceptStep ==
  ASSUME IInv, NEW p \in Procs, Decode(p), cmd(p).out # None
  PROVE  IInv'
<1>1. /\ At(p, "read") /\ proc[p] \in State /\ proc[p].pc = "read"
      /\ cmd(p).out \in Paths /\ proc[p].at = 0
  BY Running DEF Decode, At, IInv, Basics, Shaped
<1>2. PICK d \in Decodes(proc[p].buf) :
        /\ proc' = [proc EXCEPT ![p].pc = "open", ![p].key = d.key]
        /\ UNCHANGED <<files, runs, reports, raced>>
  BY DEF Decode
<1>3. d \in Data /\ d.key \in Runs
  BY DEF Decodes, Data
<1>4. /\ proc'[p] = [proc[p] EXCEPT !.pc = "open", !.key = d.key]
      /\ proc'[p] \in State /\ Others(p)
      /\ proc' \in [Procs -> {Idle} \cup State]
      /\ proc'[p].cmd = proc[p].cmd /\ proc'[p].pc = "open" /\ proc'[p].at = 0
  BY <1>1, <1>2, <1>3 DEF IInv, Basics, Types, State, Others
<1>5. Basics'
  <2>1. Types' /\ Placed'
    BY <1>2, <1>4 DEF IInv, Basics, Types, Placed
  <2>2. Shaped'
    BY <1>4, ZenonT(60) DEF IInv, Basics, Shaped, At, cmd, Others
  <2> QED  BY <2>1, <2>2 DEF Basics
<1>6. \A f \in Paths : Writers(f)' = Writers(f)
  <2> SUFFICES ASSUME NEW f \in Paths, NEW q \in Procs
               PROVE  q \in Writers(f)' <=> q \in Writers(f)
    BY DEF Writers
  <2>1. CASE q = p
    BY <1>1, <1>4, <2>1 DEF Writers, cmd
  <2>2. CASE q # p
    BY <1>4, <2>2 DEF Writers, cmd, Others
  <2> QED  BY <2>1, <2>2
<1>7. Alone' /\ Grown' /\ ReportedIsOnDisk'
  BY <1>2, <1>6 DEF IInv, Alone, Grown, ReportedIsOnDisk, Unraced
<1>8. WriterKnows'
  <2> SUFFICES ASSUME NEW f \in Paths, Unraced(f), NEW q \in Writers(f)
               PROVE  (IF At(q, "write") THEN files[f] = Prefix(Output(q), proc[q].at)
                       ELSE files[f] = Absent)'
    BY <1>2, <1>6 DEF WriterKnows, Unraced
  <2>1. files'[f] = files[f]
    BY <1>2
  <2>2. CASE q = p
    <3>1. files[f] = Absent
      BY <1>1, <2>2 DEF IInv, WriterKnows, At
    <3> QED  BY <1>4, <2>1, <2>2, <3>1 DEF At
  <2>3. CASE q # p
    <3>1. proc'[q] = proc[q] /\ Output(q)' = Output(q)
      BY <1>4, <2>3 DEF Others, Output, cmd, Writers
    <3> QED  BY <2>1, <3>1 DEF IInv, WriterKnows, At
  <2> QED  BY <2>2, <2>3
<1>9. ReaderKnows' /\ Created'
  BY <1>2, <1>4 DEF IInv, ReaderKnows, Created, Unraced, At, cmd, Others
<1> QED  BY <1>5, <1>7, <1>8, <1>9 DEF IInv

\* Open and Write write one file, of which the process is a writer.
LEMMA OpenStep ==
  ASSUME IInv, NEW p \in Procs, Open(p)
  PROVE  IInv'
<1>0. At(p, "open") /\ ~At(p, "idle") /\ ~At(p, "read")
  BY DEF Open, At
<1>1. PICK f \in Paths : f = cmd(p).out
  BY <1>0, Running DEF IInv
<1>2. /\ proc[p] \in State /\ proc[p].pc = "open" /\ proc[p].at = 0 /\ p \in Writers(f)
      /\ Output(p) \in Data /\ f # None
  BY <1>0, <1>1, Running, OutputIsData DEF At, IInv, Basics, Shaped, Writers
<1>3. /\ files' = [files EXCEPT ![f] = << >>]
      /\ proc' = [proc EXCEPT ![p].pc = "write"]
      /\ UNCHANGED <<runs, reports, raced>>
  BY <1>1 DEF Open, Going
<1>4. << >> = Prefix(Output(p), 0) /\ Prefix(Output(p), 0) \in Bytes
  BY <1>2, EmptyFile
<1>5. /\ files'[f] = Prefix(Output(p), 0) /\ files' \in [Paths -> {Absent} \cup Bytes]
      /\ \A g \in Paths : g # f => files'[g] = files[g]
  BY <1>3, <1>4 DEF IInv, Basics, Types
<1>6. /\ proc'[p] = [proc[p] EXCEPT !.pc = "write"] /\ proc'[p] \in State /\ Others(p)
      /\ proc' \in [Procs -> {Idle} \cup State] /\ proc'[p].pc = "write"
      /\ proc'[p].cmd = proc[p].cmd /\ proc'[p].at = 0
      /\ cmd(p)' = cmd(p) /\ Output(p)' = Output(p)
  BY <1>2, <1>3 DEF IInv, Basics, Types, State, Others, cmd, Output
<1>7. Basics'
  <2>1. Types'
    BY <1>3, <1>5, <1>6 DEF IInv, Basics, Types
  <2>2. Placed'
    BY <1>4, <1>5 DEF IInv, Basics, Placed, Prefix
  <2>3. Shaped'
    <3> SUFFICES ASSUME NEW q \in Procs
                 PROVE  (/\ ~At(q, "idle") /\ ~At(q, "read") => cmd(q).out # None
                         /\ At(q, "read") => cmd(q).in # None
                         /\ ~At(q, "idle") /\ ~At(q, "write") => proc[q].at = 0
                         /\ At(q, "check") => Len(proc[q].buf) = 0)'
      BY DEF Shaped
    <3>1. CASE q = p
      BY <1>1, <1>2, <1>6, <3>1 DEF At
    <3>2. CASE q # p
      BY <1>6, <3>2 DEF IInv, Basics, Shaped, At, cmd, Others
    <3> QED  BY <3>1, <3>2
  <2> QED  BY <2>1, <2>2, <2>3 DEF Basics
<1>8. \A g \in Paths : Writers(g)' = Writers(g)
  <2> SUFFICES ASSUME NEW g \in Paths, NEW q \in Procs
               PROVE  q \in Writers(g)' <=> q \in Writers(g)
    BY DEF Writers
  <2>1. CASE q = p
    BY <1>2, <1>6, <2>1 DEF Writers, cmd
  <2>2. CASE q # p
    BY <1>6, <2>2 DEF Writers, cmd, Others
  <2> QED  BY <2>1, <2>2
<1>9. Unraced(f) => files[f] = Absent
  BY <1>2 DEF IInv, WriterKnows, At
<1>10. Alone'
  BY <1>3, <1>8 DEF IInv, Alone, Unraced
<1>11. Grown'
  <2> SUFFICES ASSUME NEW g \in Paths, Unraced(g), files'[g] # Absent
               PROVE  \E d \in Data, k \in 0 .. CELLS : files'[g] = Prefix(d, k)
    BY <1>3 DEF Grown, Unraced
  <2>1. CASE g = f
    <3>1. 0 \in 0 .. CELLS
      OBVIOUS
    <3> QED  BY <1>2, <1>5, <2>1, <3>1
  <2>2. CASE g # f
    BY <1>5, <2>2 DEF IInv, Grown
  <2> QED  BY <2>1, <2>2
<1>12. WriterKnows'
  <2> SUFFICES ASSUME NEW g \in Paths, Unraced(g), NEW q \in Writers(g)
               PROVE  (IF At(q, "write") THEN files[g] = Prefix(Output(q), proc[q].at)
                       ELSE files[g] = Absent)'
    BY <1>3, <1>8 DEF WriterKnows, Unraced
  <2>1. CASE q = p
    <3>1. g = f
      BY <1>1, <2>1 DEF Writers
    <3> QED  BY <1>5, <1>6, <2>1, <3>1 DEF At
  <2>2. CASE q # p
    <3>1. g # f
      BY <1>2, <2>2 DEF IInv, Alone
    <3>2. proc'[q] = proc[q] /\ Output(q)' = Output(q) /\ files'[g] = files[g]
      BY <1>5, <1>6, <2>2, <3>1 DEF Others, Output, cmd, Writers
    <3> QED  BY <3>2 DEF IInv, WriterKnows, At
  <2> QED  BY <2>1, <2>2
<1>13. ReaderKnows'
  <2> SUFFICES ASSUME NEW q \in Procs, At(q, "read")', Unraced(cmd(q).in)',
                      Len(proc[q].buf)' # 0
               PROVE  (\E d \in Data, k \in 0 .. CELLS : \E j \in 0 .. k :
                         files[cmd(q).in] = Prefix(d, k) /\ proc[q].buf = Prefix(d, j))'
    BY DEF ReaderKnows
  <2>1. q # p /\ proc'[q] = proc[q] /\ Unraced(cmd(q).in) /\ At(q, "read")
    BY <1>3, <1>6 DEF At, Others, Unraced, cmd
  <2>2. PICK d \in Data, k \in 0 .. CELLS : \E j \in 0 .. k :
          files[cmd(q).in] = Prefix(d, k) /\ proc[q].buf = Prefix(d, j)
    BY <2>1 DEF IInv, ReaderKnows
  <2>3. cmd(q).in # f
    BY <1>9, <2>1, <2>2, PrefixBytes
  <2> QED  BY <1>5, <2>1, <2>2, <2>3 DEF cmd, Unraced
<1>14. ReportedIsOnDisk'
  <2> SUFFICES ASSUME NEW r \in reports, r.path \notin raced
               PROVE  files'[r.path] = Whole(r.data)
    BY <1>3 DEF ReportedIsOnDisk
  <2>1. files[r.path] = Whole(r.data) /\ Unraced(r.path) /\ r.data \in Data
    BY DEF IInv, ReportedIsOnDisk, Basics, Types, Unraced
  <2>2. r.path # f
    BY <1>2, <2>1, WholeIsSettled
  <2> QED  BY <1>5, <2>1, <2>2 DEF Unraced
<1>15. Created'
  <2> SUFFICES ASSUME NEW q \in Procs, At(q, "write")'
               PROVE  files'[cmd(q)'.out] # Absent
    BY DEF Created
  <2>1. CASE q = p
    BY <1>1, <1>4, <1>5, <1>6, <2>1
  <2>2. CASE q # p
    <3>1. At(q, "write") /\ cmd(q)' = cmd(q) /\ cmd(q).out \in Paths
      BY <1>6, <2>2, Running DEF At, cmd, Others, IInv
    <3> QED  BY <1>4, <1>5, <3>1 DEF IInv, Created
  <2> QED  BY <2>1, <2>2
<1> QED  BY <1>7, <1>10, <1>11, <1>12, <1>13, <1>14, <1>15 DEF IInv

\* What one cell more makes of a file that was not raced for.
LEMMA FileGrows ==
  ASSUME IInv, NEW p \in Procs, Write(p)
  PROVE  \E f \in Paths, new \in Bytes :
           /\ f = cmd(p).out /\ p \in Writers(f) /\ Output(p) \in Data
           /\ files' = [files EXCEPT ![f] = new]
           /\ Unraced(f) => /\ files[f] = Prefix(Output(p), proc[p].at)
                            /\ new = Prefix(Output(p), proc[p].at + 1)
           /\ \A n \in DOMAIN new : new[n] # Hole => new[n].part = n
<1>0. At(p, "write") /\ ~At(p, "idle") /\ ~At(p, "read")
  BY DEF Write, At
<1>1. PICK f \in Paths : f = cmd(p).out
  BY <1>0, Running DEF IInv
<1> DEFINE k == proc[p].at
           d == Output(p)
           cell == Whole(d)[k + 1]
           new == Overlay(files[f], cell, k + 1)
<1>2. /\ proc[p] \in State /\ p \in Writers(f) /\ d \in Data
      /\ k \in 0 .. CELLS - 1 /\ f # None
  BY <1>0, <1>1, Running, OutputIsData DEF At, IInv, Writers, State
<1>3. cell = [data |-> d, part |-> k + 1] /\ cell \in Cell
  BY <1>2 DEF Whole, Cell
<1>4. files[f] # Absent /\ files[f] \in Bytes
  BY <1>0, <1>1 DEF IInv, Created, Basics, Types
<1>5. new \in Bytes /\ \A n \in DOMAIN new : new[n] # Hole => new[n].part = n
  <2> HIDE DEF new, cell
  <2>1. /\ new \in Bytes
        /\ \A n \in DOMAIN new :
             \/ n = k + 1 /\ new[n] = cell
             \/ n \in DOMAIN files[f] /\ new[n] = files[f][n]
             \/ new[n] = Hole
    BY <1>2, <1>3, <1>4, OverlayBytes DEF new
  <2>2. \A n \in DOMAIN files[f] : files[f][n] # Hole => files[f][n].part = n
    BY <1>4 DEF IInv, Basics, Placed
  <2> QED  BY <1>3, <2>1, <2>2
<1>6. files' = [files EXCEPT ![f] = new]
  BY <1>1 DEF Write
<1>7. ASSUME Unraced(f)
      PROVE  files[f] = Prefix(d, k) /\ new = Prefix(d, k + 1)
  <2>1. files[f] = Prefix(d, k)
    BY <1>0, <1>2, <1>7 DEF IInv, WriterKnows
  <2> QED  BY <1>2, <2>1, OverlayGrows
<1> HIDE DEF new
<1> QED  BY <1>1, <1>2, <1>5, <1>6, <1>7

LEMMA WriteStep ==
  ASSUME IInv, NEW p \in Procs, Write(p)
  PROVE  IInv'
<1> DEFINE k == proc[p].at
           d == Output(p)
<1>1. PICK f \in Paths, new \in Bytes :
        /\ f = cmd(p).out /\ p \in Writers(f) /\ d \in Data
        /\ files' = [files EXCEPT ![f] = new]
        /\ Unraced(f) => files[f] = Prefix(d, k) /\ new = Prefix(d, k + 1)
        /\ \A n \in DOMAIN new : new[n] # Hole => new[n].part = n
  BY FileGrows
<1>2. At(p, "write") /\ proc[p].pc = "write" /\ proc[p] \in State
      /\ k \in 0 .. CELLS - 1 /\ k + 1 \in 1 .. CELLS
  <2>1. At(p, "write") /\ proc[p].pc = "write" /\ ~At(p, "idle")
    BY DEF Write, At
  <2>2. proc[p] \in State
    BY <2>1, Running DEF IInv
  <2> QED  BY <2>1, <2>2 DEF State
<1>3. /\ files'[f] = new /\ new # Absent /\ files' \in [Paths -> {Absent} \cup Bytes]
      /\ \A g \in Paths : g # f => files'[g] = files[g]
  BY <1>1 DEF IInv, Basics, Types
<1>4. UNCHANGED <<runs, raced>>
  BY DEF Write
<1>5. \/ /\ k + 1 < CELLS /\ reports' = reports
         /\ proc' = [proc EXCEPT ![p].at = k + 1]
      \/ /\ k + 1 = CELLS /\ proc' = [proc EXCEPT ![p] = Idle]
         /\ reports' = reports \cup {[data |-> d, path |-> f]}
  BY <1>1, <1>2 DEF Write
<1>6. /\ Others(p) /\ proc' \in [Procs -> {Idle} \cup State]
      /\ \/ /\ k + 1 < CELLS /\ reports' = reports
            /\ proc'[p].pc = "write" /\ proc'[p].at = k + 1
            /\ cmd(p)' = cmd(p) /\ Output(p)' = Output(p)
         \/ /\ k + 1 = CELLS /\ proc'[p].pc = "idle"
            /\ reports' = reports \cup {[data |-> d, path |-> f]}
  <2>1. CASE proc' = [proc EXCEPT ![p].at = k + 1] /\ k + 1 < CELLS /\ reports' = reports
    <3>1. /\ proc'[p] = [proc[p] EXCEPT !.at = k + 1] /\ Others(p)
          /\ \A q \in Procs : q # p => proc'[q] = proc[q]
      BY <2>1 DEF IInv, Basics, Types, Others
    <3>2. [proc[p] EXCEPT !.at = k + 1] \in State
      BY <1>2, <2>1 DEF State
    <3>3. proc' \in [Procs -> {Idle} \cup State]
      BY <2>1, <3>2 DEF IInv, Basics, Types
    <3> QED  BY <1>2, <2>1, <3>1, <3>3 DEF State, cmd, Output
  <2>2. CASE proc' = [proc EXCEPT ![p] = Idle] /\ k + 1 = CELLS
             /\ reports' = reports \cup {[data |-> d, path |-> f]}
    BY <2>2 DEF IInv, Basics, Types, Others, Idle
  <2> QED  BY <1>5, <2>1, <2>2
<1> HIDE DEF k, d
<1>7. Basics'
  <2>1. Types'
    <3>1. reports' \subseteq [data: Data, path: Paths]
      BY <1>1, <1>6 DEF IInv, Basics, Types
    <3> QED  BY <1>3, <1>4, <1>6, <3>1 DEF IInv, Basics, Types
  <2>2. Placed'
    BY <1>1, <1>3 DEF IInv, Basics, Placed
  <2>3. Shaped'
    <3> SUFFICES ASSUME NEW q \in Procs
                 PROVE  (/\ ~At(q, "idle") /\ ~At(q, "read") => cmd(q).out # None
                         /\ At(q, "read") => cmd(q).in # None
                         /\ ~At(q, "idle") /\ ~At(q, "write") => proc[q].at = 0
                         /\ At(q, "check") => Len(proc[q].buf) = 0)'
      BY DEF Shaped
    <3>1. CASE q = p
      BY <1>1, <1>6, <3>1 DEF At
    <3>2. CASE q # p
      BY <1>6, <3>2 DEF IInv, Basics, Shaped, At, cmd, Others
    <3> QED  BY <3>1, <3>2
  <2> QED  BY <2>1, <2>2, <2>3 DEF Basics
<1>8. \A g \in Paths : Writers(g)' \subseteq Writers(g)
  <2> SUFFICES ASSUME NEW g \in Paths, NEW q \in Procs, q \in Writers(g)'
               PROVE  q \in Writers(g)
    BY DEF Writers
  <2>1. CASE q = p
    BY <1>1, <1>2, <1>6, <2>1 DEF Writers
  <2>2. CASE q # p
    BY <1>6, <2>2 DEF Writers, cmd, Others
  <2> QED  BY <2>1, <2>2
<1>9. Alone'
  BY <1>4, <1>8 DEF IInv, Alone, Unraced
<1>10. Grown'
  <2> SUFFICES ASSUME NEW g \in Paths, Unraced(g), files'[g] # Absent
               PROVE  \E e \in Data, j \in 0 .. CELLS : files'[g] = Prefix(e, j)
    BY <1>4 DEF Grown, Unraced
  <2>1. CASE g = f
    BY <1>1, <1>2, <1>3, <2>1
  <2>2. CASE g # f
    BY <1>3, <2>2 DEF IInv, Grown
  <2> QED  BY <2>1, <2>2
<1>11. WriterKnows'
  <2> SUFFICES ASSUME NEW g \in Paths, Unraced(g), NEW q \in Writers(g)'
               PROVE  (IF At(q, "write") THEN files[g] = Prefix(Output(q), proc[q].at)
                       ELSE files[g] = Absent)'
    BY <1>4 DEF WriterKnows, Unraced
  <2>0. q \in Writers(g) /\ q \in Procs /\ proc'[q].pc # "idle"
    BY <1>8 DEF Writers
  <2>1. CASE q = p
    <3>1. g = f
      BY <1>1, <2>0, <2>1 DEF Writers
    <3> QED  BY <1>1, <1>3, <1>6, <2>0, <2>1, <3>1 DEF At, d
  <2>2. CASE q # p
    <3>1. g # f
      BY <1>1, <2>0, <2>2 DEF IInv, Alone
    <3>2. proc'[q] = proc[q] /\ Output(q)' = Output(q) /\ files'[g] = files[g]
      BY <1>3, <1>6, <2>0, <2>2, <3>1 DEF Others, Output, cmd
    <3> QED  BY <2>0, <3>2 DEF IInv, WriterKnows, At
  <2> QED  BY <2>1, <2>2
<1>12. ReaderKnows'
  <2> SUFFICES ASSUME NEW q \in Procs, At(q, "read")', Unraced(cmd(q).in)',
                      Len(proc[q].buf)' # 0
               PROVE  (\E e \in Data, m \in 0 .. CELLS : \E j \in 0 .. m :
                         files[cmd(q).in] = Prefix(e, m) /\ proc[q].buf = Prefix(e, j))'
    BY DEF ReaderKnows
  <2>1. q # p /\ proc'[q] = proc[q] /\ Unraced(cmd(q).in) /\ At(q, "read")
    BY <1>4, <1>6 DEF At, Others, Unraced, cmd
  <2>2. PICK e \in Data, m \in 0 .. CELLS : \E j \in 0 .. m :
          files[cmd(q).in] = Prefix(e, m) /\ proc[q].buf = Prefix(e, j)
    BY <2>1 DEF IInv, ReaderKnows
  <2>3. PICK j \in 0 .. m : files[cmd(q).in] = Prefix(e, m) /\ proc[q].buf = Prefix(e, j)
    BY <2>2
  <2>4. CASE cmd(q).in = f
    <3>1. files[f] = Prefix(e, m) /\ files[f] = Prefix(d, k) /\ files'[f] = Prefix(d, k + 1)
      BY <1>1, <1>3, <2>1, <2>3, <2>4
    <3>2. k \in 0 .. CELLS /\ j \in 0 .. CELLS
      BY <1>2
    <3>3. m = k /\ (m # 0 => e = d)
      BY <1>1, <3>1, <3>2, PrefixUnique, ZenonT(60)
    <3>4. j # 0
      BY <2>1, <2>3, <3>2, PrefixBytes
    <3>5. e = d /\ j \in 0 .. k + 1
      BY <1>2, <3>3, <3>4
    <3>6. cmd(q)' = cmd(q) /\ proc'[q].buf = Prefix(d, j)
      BY <2>1, <2>3, <3>5 DEF cmd
    <3> QED  BY <1>1, <1>2, <2>4, <3>1, <3>5, <3>6
  <2>5. CASE cmd(q).in # f
    BY <1>3, <2>1, <2>3, <2>5 DEF cmd, Unraced
  <2> QED  BY <2>4, <2>5
<1>13. ReportedIsOnDisk'
  <2> SUFFICES ASSUME NEW r \in reports', r.path \notin raced
               PROVE  files'[r.path] = Whole(r.data)
    BY <1>4 DEF ReportedIsOnDisk
  <2>1. CASE r \in reports
    <3>1. files[r.path] = Whole(r.data) /\ Unraced(r.path) /\ r.data \in Data
      BY <2>1 DEF IInv, ReportedIsOnDisk, Basics, Types, Unraced
    <3>2. r.path # f
      BY <1>1, <3>1, WholeIsSettled
    <3> QED  BY <1>3, <3>1, <3>2 DEF Unraced
  <2>2. CASE r = [data |-> d, path |-> f] /\ k + 1 = CELLS
    BY <1>1, <1>3, <2>2 DEF Unraced, Prefix, Whole
  <2> QED  BY <1>6, <2>1, <2>2
<1>14. Created'
  <2> SUFFICES ASSUME NEW q \in Procs, At(q, "write")'
               PROVE  files'[cmd(q)'.out] # Absent
    BY DEF Created
  <2>1. CASE q = p
    BY <1>1, <1>3, <1>6, <2>1 DEF At
  <2>2. CASE q # p
    <3>1. At(q, "write") /\ cmd(q)' = cmd(q) /\ cmd(q).out \in Paths
      BY <1>6, <2>2, Running DEF At, cmd, Others, IInv
    <3> QED  BY <1>3, <3>1 DEF IInv, Created
  <2> QED  BY <2>1, <2>2
<1> QED  BY <1>7, <1>9, <1>10, <1>11, <1>12, <1>13, <1>14 DEF IInv

LEMMA Preserved ==
  ASSUME IInv, [Next]_vars
  PROVE  IInv'
<1>1. CASE UNCHANGED vars
  <2>1. UNCHANGED <<files, proc, runs, reports, raced>>
    BY <1>1 DEF vars
  <2>2. \A f \in Paths : Writers(f)' = Writers(f)
    BY <2>1 DEF Writers, cmd
  <2>3. Basics'
    BY <2>1 DEF IInv, Basics, Types, Placed, Shaped, At, cmd
  <2>4. Alone' /\ Grown' /\ WriterKnows'
    BY <2>1, <2>2 DEF IInv, Alone, Grown, WriterKnows, Unraced, At, Output, cmd
  <2>5. ReaderKnows' /\ Created' /\ ReportedIsOnDisk'
    BY <2>1 DEF IInv, ReaderKnows, Created, ReportedIsOnDisk, Unraced, At, cmd
  <2> QED  BY <2>3, <2>4, <2>5 DEF IInv
<1>2. ASSUME NEW p \in Procs, Check(p), Exists(cmd(p).out)
      PROVE  IInv'
  BY <1>2, IdleStep DEF Check
<1>3. ASSUME NEW p \in Procs, Stop(p)
      PROVE  IInv'
  BY <1>3, IdleStep DEF Stop
<1> QED
  BY <1>1, <1>2, <1>3, StartStep, AbsentStep, ReadStep, ShowStep, AcceptStep, OpenStep,
     WriteStep DEF Next

LEMMA Invariant == Spec => []IInv
<1>1. Init => IInv
  BY InitStep
<1>2. IInv /\ [Next]_vars => IInv'
  BY Preserved
<1> QED  BY <1>1, <1>2, PTL DEF Spec

\* Type correctness for every set of processes, paths and commands.
THEOREM Typed == Spec => []TypeOK
<1>1. IInv => TypeOK
  BY TypesHold DEF IInv
<1> QED  BY <1>1, Invariant, PTL

\* What any number of interleaved, failing and killed runs printed of a file
\* stays true of it, for files of any length, unless two runs had found its path
\* absent together (keys.rs:66-83, 99-122, format.rs:232-282).
THEOREM ReportsHold == Spec => []ReportedIsOnDisk
<1>1. IInv => ReportedIsOnDisk
  BY DEF IInv
<1> QED  BY <1>1, Invariant, PTL

\* A settled file is not written, and no process comes to be about to.
LEMMA SettledStep ==
  ASSUME IInv, [Next]_vars, NEW f \in Paths, Settled(f)
  PROVE  files'[f] = files[f] /\ Settled(f)'
<1>1. files[f] # Absent /\ \A p \in Procs : p \notin Writers(f)
  BY DEF Settled, Writers
<1>2. SUFFICES files'[f] = files[f] /\ \A q \in Procs : q \notin Writers(f)'
  BY <1>1 DEF Settled, Writers
<1>3. CASE UNCHANGED vars
  BY <1>1, <1>3 DEF vars, Writers, cmd
<1>4. ASSUME NEW p \in Procs, NEW c \in Commands, Start(p, c)
      PROVE  files'[f] = files[f] /\ \A q \in Procs : q \notin Writers(f)'
  <2>1. /\ files' = files /\ Others(p) /\ cmd(p)' = c
        /\ proc'[p].pc = IF c.out = None THEN "read" ELSE "check"
    BY <1>4 DEF Start, IInv, Basics, Types, Others, cmd
  <2>2. p \notin Writers(f)'
    BY <2>1 DEF Writers
  <2> QED  BY <1>1, <2>1, <2>2 DEF Writers, cmd, Others
<1>5. ASSUME NEW p \in Procs, Check(p)
      PROVE  files'[f] = files[f] /\ \A q \in Procs : q \notin Writers(f)'
  <2>1. files' = files
    BY <1>5 DEF Check
  <2>2. Others(p) /\ p \notin Writers(f)'
    <3>1. CASE Exists(cmd(p).out)
      BY <1>5, <3>1 DEF Check, IInv, Basics, Types, Others, Writers, Idle
    <3>2. CASE ~Exists(cmd(p).out)
      <4>1. cmd(p).out # f
        BY <1>1, <3>2 DEF Exists
      <4>2. proc'[p].cmd = proc[p].cmd /\ Others(p)
        <5>1. proc[p] \in State
          BY <1>5, Running DEF Check, At, IInv
        <5> QED  BY <1>5, <3>2, <5>1 DEF Check, Going, IInv, Basics, Types, Others, State
      <4> QED  BY <4>1, <4>2 DEF Writers, cmd
    <3> QED  BY <3>1, <3>2
  <2> QED  BY <1>1, <2>1, <2>2 DEF Writers, cmd, Others
<1>6. ASSUME NEW p \in Procs, ReadCell(p) \/ Decode(p) \/ Open(p) \/ Write(p)
      PROVE  files'[f] = files[f] /\ \A q \in Procs : q \notin Writers(f)'
  <2>1. ~At(p, "idle") /\ cmd(p).out # f
    <3>1. ~At(p, "idle") /\ (At(p, "read") \/ At(p, "open") \/ At(p, "write"))
      BY <1>6 DEF ReadCell, Decode, Open, Write, At
    <3>2. cmd(p).out # f
      BY <1>1, <3>1 DEF Writers, At
    <3> QED  BY <3>1, <3>2
  <2>2. files'[f] = files[f]
    BY <1>6, <2>1 DEF ReadCell, Decode, Open, Write, IInv, Basics, Types
  <2>3. Others(p) /\ (proc'[p] = Idle \/ proc'[p].cmd = proc[p].cmd)
    <3>1. proc[p] \in State
      BY <2>1, Running DEF IInv
    <3> QED
      BY <1>6, <3>1 DEF ReadCell, Decode, Open, Write, Going, IInv, Basics, Types, Others, State
  <2>4. p \notin Writers(f)'
    BY <2>1, <2>3 DEF Writers, cmd, Idle
  <2> QED  BY <1>1, <2>2, <2>3, <2>4 DEF Writers, cmd, Others
<1>7. ASSUME NEW p \in Procs, Stop(p)
      PROVE  files'[f] = files[f] /\ \A q \in Procs : q \notin Writers(f)'
  <2>1. files' = files /\ Others(p) /\ proc'[p].pc = "idle"
    BY <1>7 DEF Stop, IInv, Basics, Types, Others, Idle
  <2> QED  BY <1>1, <2>1 DEF Writers, cmd, Others
<1> QED  BY <1>3, <1>4, <1>5, <1>6, <1>7 DEF Next

\* A file that no run has found absent and is about to write is never touched
\* again, whole or torn, for any number of runs (keys.rs:66-71, 100-105).
THEOREM SettledForever == Spec => SettledStays
<1>1. IInv /\ [Next]_vars =>
        [\A f \in Paths : Settled(f) => files'[f] = files[f] /\ Settled(f)']_vars
  BY SettledStep
<1> QED  BY <1>1, Invariant, PTL DEF Spec, SettledStays

\* Every output has one source: no two commands write the same path from
\* different keys.
OneSource == \A c, e \in Commands : c.out # None /\ c.out = e.out => c.in = e.in

\* A run about to write has the key of the file it read.
KnowsKey ==
  \A p \in Procs :
    (At(p, "open") \/ At(p, "write")) /\ cmd(p).in # None /\ Unraced(cmd(p).in) =>
      \E k \in Data : files[cmd(p).in] = Whole(k) /\ k.key = proc[p].key

LEMMA RacedGrows ==
  ASSUME IInv, [Next]_vars, NEW f \in Paths, Unraced(f)'
  PROVE  Unraced(f)
<1>1. raced \subseteq raced'
  BY DEF Next, vars, Start, Check, ReadCell, Decode, Open, Write, Stop
<1> QED  BY <1>1 DEF Unraced

LEMMA WholeStays ==
  ASSUME IInv, [Next]_vars, NEW f \in Paths, Unraced(f), NEW d \in Data,
         files[f] = Whole(d)
  PROVE  files'[f] = Whole(d)
BY WholeIsSettled, SettledStep DEF Settled

\* A process comes to write by accepting its input.
LEMMA KnowsKeyStep ==
  ASSUME IInv, KnowsKey, [Next]_vars
  PROVE  KnowsKey'
<1> SUFFICES ASSUME NEW p \in Procs, (At(p, "open") \/ At(p, "write"))',
                    cmd(p)'.in # None, Unraced(cmd(p).in)'
             PROVE  \E k \in Data : files'[cmd(p)'.in] = Whole(k) /\ k.key = proc'[p].key
  BY DEF KnowsKey
<1>1. CASE /\ At(p, "open") \/ At(p, "write")
           /\ cmd(p)' = cmd(p) /\ proc'[p].key = proc[p].key
  <2>1. cmd(p).in \in Paths /\ Unraced(cmd(p).in)
    BY <1>1, RacedGrows DEF Unraced
  <2>2. PICK k \in Data : files[cmd(p).in] = Whole(k) /\ k.key = proc[p].key
    BY <1>1, <2>1 DEF KnowsKey
  <2> QED  BY <1>1, <2>1, <2>2, WholeStays
<1>2. CASE UNCHANGED vars
  BY <1>1, <1>2 DEF vars, At, cmd
<1>3. ASSUME NEW q \in Procs, NEW c \in Commands, Start(q, c)
      PROVE  /\ At(p, "open") \/ At(p, "write")
             /\ cmd(p)' = cmd(p) /\ proc'[p].key = proc[p].key
  BY <1>3 DEF Start, At, cmd, IInv, Basics, Types
<1>4. ASSUME NEW q \in Procs, ReadCell(q)
      PROVE  /\ At(p, "open") \/ At(p, "write")
             /\ cmd(p)' = cmd(p) /\ proc'[p].key = proc[p].key
  <2>1. proc[q] \in State
    BY <1>4, Running DEF ReadCell, At, IInv
  <2> QED  BY <1>4, <2>1 DEF ReadCell, At, cmd, IInv, Basics, Types, State
<1>5. ASSUME NEW q \in Procs, Open(q) \/ Write(q) \/ Stop(q)
      PROVE  /\ At(p, "open") \/ At(p, "write")
             /\ cmd(p)' = cmd(p) /\ proc'[p].key = proc[p].key
  <2>1. proc[q] \in State
    BY <1>5, Running DEF Open, Write, Stop, At, IInv
  <2> QED
    BY <1>5, <2>1 DEF Open, Write, Stop, Going, At, cmd, Idle, IInv, Basics, Types, State
<1>6. ASSUME NEW q \in Procs, Check(q)
      PROVE  /\ At(p, "open") \/ At(p, "write")
             /\ cmd(p)' = cmd(p) /\ proc'[p].key = proc[p].key
  <2>1. proc[q] \in State
    BY <1>6, Running DEF Check, At, IInv
  <2>2. CASE q = p
    <3>1. proc'[p] = Idle \/ proc'[p] = [proc[p] EXCEPT !.pc = IF cmd(p).in = None THEN "open" ELSE "read"]
      BY <1>6, <2>2 DEF Check, Going, IInv, Basics, Types
    <3>2. cmd(p)' = cmd(p) /\ cmd(p).in = None
      BY <2>1, <2>2, <3>1 DEF State, cmd, At, Idle
    <3> QED  BY <3>2
  <2>3. CASE q # p
    BY <1>6, <2>3 DEF Check, Going, At, cmd, IInv, Basics, Types
  <2> QED  BY <2>2, <2>3
<1>7. ASSUME NEW q \in Procs, Decode(q)
      PROVE  \E k \in Data : files'[cmd(p)'.in] = Whole(k) /\ k.key = proc'[p].key
  <2>1. proc[q] \in State /\ At(q, "read") /\ files' = files /\ raced' = raced
    BY <1>7, Running DEF Decode, At, IInv
  <2>2. CASE q # p
    <3>1. proc'[p] = proc[p]
      BY <1>7, <2>2 DEF Decode, IInv, Basics, Types
    <3> QED  BY <1>1, <3>1 DEF At, cmd
  <2>3. CASE q = p
    <3>1. PICK d \in Decodes(proc[p].buf) :
            proc' = [proc EXCEPT ![p].pc = "open", ![p].key = d.key]
      BY <1>7, <2>3 DEF Decode, At, IInv, Basics, Types, Idle
    <3>2. cmd(p)' = cmd(p) /\ proc'[p].key = d.key /\ d \in Data
      BY <2>1, <2>3, <3>1 DEF cmd, Decodes, State, IInv, Basics, Types
    <3>3. Unraced(cmd(p).in)
      BY <2>1, <3>2 DEF Unraced
    <3>4. files[cmd(p).in] = Whole(d)
      BY <1>7, <2>1, <2>3, <3>3, ReadWhole DEF Decode
    <3> QED  BY <2>1, <3>2, <3>4
  <2> QED  BY <2>2, <2>3
<1> QED  BY <1>1, <1>2, <1>3, <1>4, <1>5, <1>6, <1>7 DEF Next

\* A file becomes whole by the last write of its writer.
LEMMA BecomesWhole ==
  ASSUME IInv, [Next]_vars, NEW f \in Paths, Unraced(f), NEW d \in Data,
         files'[f] = Whole(d), files[f] # Whole(d)
  PROVE  \E p \in Procs : At(p, "write") /\ cmd(p).out = f /\ d = Output(p)
<1>1. Whole(d) = Prefix(d, CELLS)
  BY DEF Whole, Prefix
<1>2. PICK p \in Procs : Open(p) \/ Write(p)
  BY DEF Next, vars, Start, Check, ReadCell, Decode, Stop
<1>3. ~At(p, "idle") /\ ~At(p, "read")
  BY <1>2 DEF Open, Write, At
<1>4. cmd(p).out = f
  BY <1>2 DEF Open, Write, IInv, Basics, Types
<1>5. Output(p) \in Data
  BY <1>3, <1>4, OutputIsData DEF IInv
<1>6. CASE Open(p)
  <2>1. files'[f] = Prefix(Output(p), 0) /\ 0 \in 0 .. CELLS /\ CELLS \in 0 .. CELLS
    BY <1>4, <1>5, <1>6, EmptyFile DEF Open, IInv, Basics, Types
  <2> QED  BY <1>1, <1>5, <2>1, PrefixUnique
<1>7. CASE Write(p)
  <2>1. PICK new \in Bytes :
          /\ files' = [files EXCEPT ![f] = new]
          /\ new = Prefix(Output(p), proc[p].at + 1)
    BY <1>4, <1>7, FileGrows
  <2>2. proc[p].at + 1 \in 1 .. CELLS /\ CELLS \in 1 .. CELLS
    BY <1>3, Running DEF IInv, State
  <2>3. Prefix(d, CELLS) = Prefix(Output(p), proc[p].at + 1)
    BY <1>1, <2>1 DEF IInv, Basics, Types
  <2>4. d = Output(p)
    BY <1>5, <2>2, <2>3, PrefixUnique
  <2> QED  BY <1>4, <1>7, <2>4 DEF Write
<1> QED  BY <1>2, <1>6, <1>7

\* An exported key is that of the private key file, an artifact is signed with
\* it, as long as neither path was raced for and every output has one source:
\* the key a run read is not replaced behind it (keys.rs:99-122,
\* format.rs:246-265).
THEOREM DerivedKeyMatches ==
  ASSUME OneSource
  PROVE  Spec => []DerivedMatchesKey
<1>1. Init => KnowsKey /\ DerivedMatchesKey
  <2> SUFFICES ASSUME Init  PROVE KnowsKey /\ DerivedMatchesKey
    OBVIOUS
  <2>1. KnowsKey
    BY DEF Init, KnowsKey, At, Idle
  <2>2. \A d \in Data : Whole(d) \in Bytes
    BY PrefixBytes DEF Whole, Prefix
  <2>3. DerivedMatchesKey
    BY <2>2 DEF Init, DerivedMatchesKey, Command
  <2> QED  BY <2>1, <2>3
<1>2. IInv /\ KnowsKey /\ DerivedMatchesKey /\ [Next]_vars => (KnowsKey /\ DerivedMatchesKey)'
  <2> SUFFICES ASSUME IInv, KnowsKey, DerivedMatchesKey, [Next]_vars
               PROVE  KnowsKey' /\ DerivedMatchesKey'
    OBVIOUS
  <2>1. KnowsKey'
    BY KnowsKeyStep
  <2>2. DerivedMatchesKey'
    <3> SUFFICES ASSUME NEW c \in Commands, c.in # None, c.out # None,
                        {c.in, c.out} \cap raced' = {},
                        NEW d \in Data, files'[c.out] = Whole(d)
                 PROVE  \E k \in Data : files'[c.in] = Whole(k) /\ k.key = d.key
      BY DEF DerivedMatchesKey
    <3>1. c.in \in Paths /\ c.out \in Paths
      BY DEF Command
    <3>2. Unraced(c.in) /\ Unraced(c.out)
      BY <3>1, RacedGrows DEF Unraced
    <3>3. \E k \in Data : files[c.in] = Whole(k) /\ k.key = d.key
      <4>1. CASE files[c.out] = Whole(d)
        BY <3>2, <4>1 DEF DerivedMatchesKey, Unraced
      <4>2. CASE files[c.out] # Whole(d)
        <5>1. PICK p \in Procs : At(p, "write") /\ cmd(p).out = c.out /\ d = Output(p)
          BY <3>1, <3>2, <4>2, BecomesWhole
        <5>2. cmd(p) \in Commands
          BY <5>1, Running DEF IInv, At
        <5>3. cmd(p).in = c.in /\ d.key = proc[p].key
          BY <5>1, <5>2 DEF OneSource, Output
        <5> QED  BY <3>2, <5>1, <5>3 DEF KnowsKey
      <4> QED  BY <4>1, <4>2
    <3> QED  BY <3>1, <3>2, <3>3, WholeStays
  <2> QED  BY <2>1, <2>2
<1> QED  BY <1>1, <1>2, Invariant, PTL DEF Spec
=============================================================================
