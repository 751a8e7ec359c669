-------------------------- MODULE RespParserProofs --------------------------
(***************************************************************************)
(* A stream of replies, for every set of values, every nesting, every      *)
(* number of replies and every cut: the parser returns what was sent.      *)
(* Readable, in RespParser, says which replies these are.                  *)
(***************************************************************************)
EXTENDS RespParser, SequenceTheorems, WellFoundedInduction, TLAPS

-----------------------------------------------------------------------------
(* Induction over the naturals and definition by recursion, from the well-   *)
(* foundedness of <: what the recursive functions below rest on.             *)

(* A set of numbers that is not empty has a least member.                    *)
LEMMA LeastNat ==
    ASSUME NEW T, T \subseteq Nat, T # {}
    PROVE  \E n \in T : \A m \in T : n <= m
<1> DEFINE R == {p \in Nat \X Nat : p[1] < p[2]}
<1>1. IsWellFoundedOn(R, Nat)
  BY NatLessThanWellFounded DEF OpToRel
<1>2. PICK n \in T : \A m \in T : <<m, n>> \notin R
  <2> HIDE DEF R
  <2> QED BY <1>1, WFMin
<1>3. \A m \in T : ~(m < n)
  BY <1>2
<1> QED
  BY <1>3

LEMMA Predecessor == \A n \in Nat : n # 0 => n - 1 \in Nat /\ n - 1 < n
OBVIOUS

(* What holds of a number when it holds of all smaller ones holds of all.    *)
LEMMA Induction ==
    ASSUME NEW S, \A n \in Nat : (\A m \in Nat : m < n => m \in S) => n \in S
    PROVE  \A n \in Nat : n \in S
<1>1. SUFFICES ASSUME Nat \ S # {} PROVE FALSE
  OBVIOUS
<1>2. PICK n \in Nat \ S : \A m \in Nat \ S : n <= m
  BY <1>1, LeastNat
<1>3. \A m \in Nat : m < n => m \in S
  BY <1>2
<1> QED
  BY <1>2, <1>3

(* A recursive definition whose arguments get smaller has a solution.        *)
(* B defines a function from D to V by the values at arguments of lower rank. *)
Descends(D, V, rank, B) ==
    /\ rank \in [D -> Nat]
    /\ [D -> V] # {}
    /\ B \in [D \X [D -> V] -> V]
    /\ \A x \in D : \A f, g \in [D -> V] :
           (\A y \in D : rank[y] < rank[x] => f[y] = g[y]) => B[<<x, f>>] = B[<<x, g>>]

(* A recursive definition whose arguments get smaller has a solution.        *)
LEMMA Recursion ==
    ASSUME NEW D, NEW V, NEW rank, NEW B, Descends(D, V, rank, B)
    PROVE  \E f \in [D -> V] : \A x \in D : f[x] = B[<<x, f>>]
<1> USE DEF Descends
<1> DEFINE Solves(f, n) == \A x \in D : rank[x] < n => f[x] = B[<<x, f>>]
           H == {n \in Nat : \E f \in [D -> V] : Solves(f, n)}
           Same == {n \in Nat : \A f, g \in [D -> V] :
                        Solves(f, n) /\ Solves(g, n) => \A x \in D : rank[x] < n => f[x] = g[x]}
<1>1. ASSUME NEW f \in [D -> V], NEW x \in D PROVE B[<<x, f>>] \in V
  OBVIOUS
<1>2. \A n \in Nat : n \in H
  <2>1. ASSUME NEW n \in Nat, \A m \in Nat : m < n => m \in H PROVE n \in H
    <3>1. CASE n = 0
      BY <3>1
    <3>2. CASE n # 0
      <4>0. n - 1 \in H
        <5> HIDE DEF H
        <5>1. n - 1 \in Nat /\ n - 1 < n
          BY <3>2, Predecessor
        <5> QED BY <2>1, <5>1
      <4>1. PICK f \in [D -> V] : Solves(f, n - 1)
        BY <4>0
      <4> DEFINE g == [x \in D |-> B[<<x, f>>]]
      <4>2. g \in [D -> V]
        BY <1>1
      <4>3. \A y \in D : rank[y] < n - 1 => g[y] = f[y]
        BY <4>1
      <4>4. ASSUME NEW x \in D, rank[x] < n PROVE g[x] = B[<<x, g>>]
        <5>1. \A y \in D : rank[y] < rank[x] => f[y] = g[y]
          BY <4>3, <4>4
        <5> HIDE DEF g
        <5>2. B[<<x, f>>] = B[<<x, g>>]
          BY <4>2, <5>1
        <5> QED
          BY <5>2 DEF g
      <4> QED
        BY <4>2, <4>4
    <3> QED
      BY <3>1, <3>2
  <2> HIDE DEF H
  <2> QED
    BY <2>1, Induction
<1>3. \A n \in Nat : n \in Same
  <2>1. ASSUME NEW n \in Nat, \A m \in Nat : m < n => m \in Same PROVE n \in Same
    <3> SUFFICES ASSUME NEW f \in [D -> V], NEW g \in [D -> V], Solves(f, n), Solves(g, n),
                        NEW x \in D, rank[x] < n
                 PROVE  f[x] = g[x]
      OBVIOUS
    <3>1. rank[x] \in Same
      BY <2>1
    <3>2. \A y \in D : rank[y] < rank[x] => f[y] = g[y]
      BY <3>1
    <3> QED
      BY <3>2
  <2> HIDE DEF Same
  <2> QED
    BY <2>1, Induction
<1> DEFINE At(n) == CHOOSE f \in [D -> V] : Solves(f, n)
           F == [x \in D |-> At(rank[x] + 1)[x]]
<1>4. ASSUME NEW n \in Nat PROVE At(n) \in [D -> V] /\ Solves(At(n), n)
  <2>1. n \in H
    BY <1>2
  <2> QED
    BY <2>1
<1>5. \A x \in D : rank[x] + 1 \in Nat
  OBVIOUS
<1>6. \A x \in D : /\ At(rank[x] + 1) \in [D -> V]
                 /\ \A y \in D : rank[y] < rank[x] + 1 => At(rank[x] + 1)[y] = B[<<y, At(rank[x] + 1)>>]
  <2> HIDE DEF At
  <2> QED BY <1>4, <1>5
<1>7. \A n \in Nat : \A f, g \in [D -> V] :
         Solves(f, n) /\ Solves(g, n) => \A x \in D : rank[x] < n => f[x] = g[x]
  BY <1>3
<1> HIDE DEF At
<1>8. F \in [D -> V]
  BY <1>6
<1>9. ASSUME NEW x \in D PROVE F[x] = B[<<x, F>>]
  <2> DEFINE f == At(rank[x] + 1)
  <2>1. f \in [D -> V] /\ f[x] = B[<<x, f>>] /\ F[x] = f[x]
    <3>1. rank[x] < rank[x] + 1
      BY <1>5, <1>9
    <3> QED BY <1>6, <1>9, <3>1
  <2>2. ASSUME NEW y \in D, rank[y] < rank[x] PROVE f[y] = F[y]
    <3> DEFINE k == rank[y] + 1
               g == At(k)
    <3>1. k \in Nat /\ k < rank[x] + 1 /\ rank[y] < k
      BY <2>2
    <3>2. g \in [D -> V] /\ Solves(g, k)
      BY <1>6
    <3>3. ASSUME NEW z \in D, rank[z] < k PROVE f[z] = B[<<z, f>>]
      <4>1. rank[z] < rank[x] + 1
        BY <3>1, <3>3, <1>5, <1>9
      <4> QED BY <1>6, <1>9, <3>3, <4>1
    <3> HIDE DEF g, f
    <3>4. f[y] = g[y]
      BY <1>7, <2>1, <3>1, <3>2, <3>3
    <3> QED
      BY <3>4 DEF g
  <2> HIDE DEF F, f
  <2>5. B[<<x, f>>] = B[<<x, F>>]
    BY <1>8, <2>1, <2>2
  <2> QED
    BY <2>1, <2>5
<1> QED
  BY <1>8, <1>9

-----------------------------------------------------------------------------
(* Digits, and what the recursion of Number computes.                        *)

Numerals == Seq(Range(Digits))

LEMMA DigitFact ==
    /\ \A n \in 0..9 : Digits[n + 1] \in Range(Digits) /\ Digit(Digits[n + 1]) = n
    /\ \A c \in Range(Digits) : Digit(c) \in 0..9
    /\ \A n \in 0..9 : Digits[n + 1] = "0" <=> n = 0
    /\ \A c \in Range(Digits) : c \notin {"CR", "LF", "-"}
<1>1. DOMAIN Digits = 1..10
  BY DEF Digits
<1>2. ASSUME NEW n \in 0..9 PROVE n \in {0,1,2,3,4,5,6,7,8,9}
  OBVIOUS
<1>3. \A m, n \in 0..9 : Digits[m + 1] = Digits[n + 1] => m = n
  BY <1>2 DEF Digits
<1>4. \A c \in Range(Digits) : \E n \in 0..9 : Digits[n + 1] = c
  <2>1. ASSUME NEW c \in Range(Digits) PROVE \E n \in 0..9 : Digits[n + 1] = c
    <3>1. PICK i \in 1..10 : Digits[i] = c
      BY <1>1 DEF Range
    <3>2. i - 1 \in 0..9 /\ (i - 1) + 1 = i
      OBVIOUS
    <3> QED BY <3>1, <3>2
  <2> QED BY <2>1
<1>5. \A c \in Range(Digits) : Digit(c) \in 0..9
  BY <1>4 DEF Digit
<1>6. ASSUME NEW n \in 0..9 PROVE Digits[n + 1] \in Range(Digits)
  BY <1>1 DEF Range
<1>7. ASSUME NEW n \in 0..9 PROVE Digit(Digits[n + 1]) = n
  BY <1>3 DEF Digit
<1>8. \A n \in 0..9 : Digits[n + 1] \notin {"CR", "LF", "-"}
  BY <1>2 DEF Digits
<1>9. \A n \in 0..9 : Digits[n + 1] = "0" <=> n = 0
  BY <1>2 DEF Digits
<1> QED
  BY <1>4, <1>5, <1>6, <1>7, <1>8, <1>9

LEMMA FrontLast ==
    ASSUME NEW S, NEW s \in Seq(S), s # <<>>
    PROVE  /\ Front(s) \in Seq(S) /\ Len(Front(s)) = Len(s) - 1
           /\ Last(s) \in S
           /\ s = Front(s) \o <<Last(s)>>
           /\ Len(s) \in Nat /\ Len(s) > 0
<1>1. Len(s) \in Nat /\ Len(s) > 0
  BY EmptySeq
<1>2. SubSeq(s, 1, Len(s)) = SubSeq(s, 1, Len(s) - 1) \o <<s[Len(s)]>>
  BY <1>1, SubSeqRecursiveSecond
<1>3. SubSeq(s, 1, Len(s)) = s
  BY SubSeqFull
<1>4. \A i \in 1 .. Len(s) - 1 : s[i] \in S
  BY <1>1, ElementOfSeq
<1>5. SubSeq(s, 1, Len(s) - 1) \in Seq(S) /\ Len(SubSeq(s, 1, Len(s) - 1)) = Len(s) - 1
  <2> DEFINE n == Len(s) - 1
  <2>1. n \in Nat /\ \A i \in 1 .. n : s[i] \in S
    BY <1>1, <1>4
  <2> HIDE DEF n
  <2>2. SubSeq(s, 1, n) \in Seq(S) /\ Len(SubSeq(s, 1, n)) = n
    BY <2>1, SubSeqProperties
  <2> QED BY <2>2 DEF n
<1>6. s[Len(s)] \in S
  BY <1>1, ElementOfSeq
<1> QED
  BY <1>1, <1>2, <1>3, <1>5, <1>6 DEF Front, Last

(* Number is the function its recursive definition says, and a number.       *)
LEMMA NumberDef ==
    \A s \in Numerals : /\ Number[s] \in Nat
                        /\ Number[s] = IF s = <<>> THEN 0 ELSE 10 * Number[Front(s)] + Digit(Last(s))
<1> DEFINE D == Numerals
           rank == [s \in D |-> Len(s)]
           B == [p \in D \X [D -> Nat] |->
                    IF p[1] = <<>> THEN 0 ELSE 10 * p[2][Front(p[1])] + Digit(Last(p[1]))]
<1>1. rank \in [D -> Nat]
  BY LenProperties DEF Numerals
<1>2. ASSUME NEW s \in D, s # <<>>
      PROVE  Front(s) \in D /\ rank[Front(s)] < rank[s] /\ Digit(Last(s)) \in Nat
  <2>1. Front(s) \in D /\ Len(Front(s)) = Len(s) - 1 /\ Last(s) \in Range(Digits) /\ Len(s) \in Nat
    BY <1>2, FrontLast DEF Numerals
  <2> QED BY <2>1, DigitFact
<1> HIDE DEF rank
<1>3. B \in [D \X [D -> Nat] -> Nat]
  <2>1. ASSUME NEW s \in D, NEW f \in [D -> Nat]
        PROVE  (IF s = <<>> THEN 0 ELSE 10 * f[Front(s)] + Digit(Last(s))) \in Nat
    BY <1>2
  <2> QED BY <2>1
<1>4. \A s \in D : \A f \in [D -> Nat] :
          B[<<s, f>>] = IF s = <<>> THEN 0 ELSE 10 * f[Front(s)] + Digit(Last(s))
  OBVIOUS
<1>5. \A s \in D : \A f, g \in [D -> Nat] :
          (\A y \in D : rank[y] < rank[s] => f[y] = g[y]) => B[<<s, f>>] = B[<<s, g>>]
  <2> HIDE DEF B
  <2> QED BY <1>2, <1>4
<1>6. [D -> Nat] # {}
  <2>1. [s \in D |-> 0] \in [D -> Nat]
    OBVIOUS
  <2> QED BY <2>1
<1>7. PICK f \in [D -> Nat] : \A s \in D : f[s] = B[<<s, f>>]
  <2>1. Descends(D, Nat, rank, B)
    <3> HIDE DEF B, D
    <3> QED BY <1>1, <1>3, <1>5, <1>6 DEF Descends
  <2> HIDE DEF B, D
  <2> QED BY <2>1, Recursion
<1>8. f = [s \in D |-> IF s = <<>> THEN 0 ELSE 10 * f[Front(s)] + Digit(Last(s))]
  <2>1. f = [s \in D |-> f[s]]
    OBVIOUS
  <2> HIDE DEF B
  <2> QED BY <1>4, <1>7, <2>1
<1>9. Number = [s \in D |-> IF s = <<>> THEN 0 ELSE 10 * Number[Front(s)] + Digit(Last(s))]
  BY <1>8 DEF Number, Numerals
<1>10. \A s \in D : Number[s] = IF s = <<>> THEN 0 ELSE 10 * Number[Front(s)] + Digit(Last(s))
  <2> HIDE DEF D
  <2> QED BY <1>9
<1> DEFINE H == {n \in Nat : \A s \in D : Len(s) = n => Number[s] \in Nat}
<1>11. ASSUME NEW n \in Nat, \A m \in Nat : m < n => m \in H PROVE n \in H
  <2> SUFFICES ASSUME NEW s \in D, Len(s) = n PROVE Number[s] \in Nat
    OBVIOUS
  <2>1. CASE s = <<>>
    BY <1>10, <2>1
  <2>2. CASE s # <<>>
    <3>1. Front(s) \in D /\ Len(Front(s)) < n /\ Len(Front(s)) \in Nat /\ Digit(Last(s)) \in Nat
      <4>1. Front(s) \in D /\ Digit(Last(s)) \in Nat
        BY <1>2, <2>2
      <4>2. Len(Front(s)) = Len(s) - 1 /\ Len(s) \in Nat /\ Len(s) > 0
        BY <2>2, FrontLast DEF Numerals
      <4> QED BY <4>1, <4>2
    <3>2. Number[Front(s)] \in Nat
      BY <1>11, <3>1
    <3> HIDE DEF D
    <3>3. Number[s] = 10 * Number[Front(s)] + Digit(Last(s))
      BY <1>10, <2>2
    <3> QED BY <3>1, <3>2, <3>3
  <2> QED BY <2>1, <2>2
<1>12. \A n \in Nat : n \in H
  <2> HIDE DEF H
  <2> QED BY <1>11, Induction
<1>13. \A s \in D : Len(s) \in Nat
  BY LenProperties DEF Numerals
<1>14. \A s \in D : Number[s] \in Nat
  <2> HIDE DEF D
  <2> QED BY <1>12, <1>13
<1> QED
  BY <1>10, <1>14

-----------------------------------------------------------------------------
(* How a server writes a number, and that the parser reads it back.          *)

LEMMA FrontLastOfAppended ==
    ASSUME NEW S, NEW s \in Seq(S), NEW c \in S
    PROVE  /\ s \o <<c>> \in Seq(S) /\ s \o <<c>> # <<>> /\ Len(s \o <<c>>) = Len(s) + 1
           /\ Front(s \o <<c>>) = s
           /\ Last(s \o <<c>>) = c
           /\ s # <<>> => (s \o <<c>>)[1] = s[1]
<1> DEFINE t == s \o <<c>>
<1>1. <<c>> \in Seq(S) /\ Len(<<c>>) = 1 /\ <<c>>[1] = c /\ Len(s) \in Nat
  BY LenProperties
<1>2. t \in Seq(S) /\ Len(t) = Len(s) + 1
        /\ \A i \in 1 .. Len(s) + 1 : t[i] = IF i <= Len(s) THEN s[i] ELSE <<c>>[i - Len(s)]
  BY <1>1, ConcatProperties
<1> HIDE DEF t
<1>3. t # <<>> /\ t[Len(t)] = c
  BY <1>1, <1>2
<1>4. Front(t) \in Seq(S) /\ Len(Front(t)) = Len(s)
  <2>1. Front(t) \in Seq(S) /\ Len(Front(t)) = Len(t) - 1
    BY <1>2, <1>3, FrontLast
  <2> QED BY <1>1, <1>2, <2>1
<1>5. \A i \in 1 .. Len(s) : Front(t)[i] = s[i]
  <2>1. \A i \in 1 .. Len(t) : t[i] \in S
    BY <1>2, ElementOfSeq
  <2>2. \A i \in 1 .. Len(s) : SubSeq(t, 1, Len(s))[i] = t[i]
    BY <1>1, <1>2, <2>1, SubSeqProperties
  <2> QED BY <1>1, <1>2, <2>2 DEF Front
<1>6. Front(t) = s
  BY <1>4, <1>5, SeqEqual
<1>7. s # <<>> => t[1] = s[1]
  BY <1>1, <1>2, EmptySeq
<1> QED
  BY <1>2, <1>3, <1>6, <1>7 DEF t, Last

(* So is Decimal.                                                            *)
LEMMA DecimalDef ==
    \A n \in Nat : Decimal[n] = IF n < 10 THEN <<Digits[n + 1]>>
                                ELSE Decimal[n \div 10] \o <<Digits[(n % 10) + 1]>>
<1> DEFINE rank == [n \in Nat |-> n]
           B == [p \in Nat \X [Nat -> Numerals] |->
                    IF p[1] < 10 THEN <<Digits[p[1] + 1]>>
                    ELSE p[2][p[1] \div 10] \o <<Digits[(p[1] % 10) + 1]>>]
<1>1. ASSUME NEW n \in Nat, n >= 10
      PROVE  n \div 10 \in Nat /\ n \div 10 < n /\ n % 10 \in 0..9
  BY <1>1
<1>2. ASSUME NEW n \in 0..9 PROVE <<Digits[n + 1]>> \in Numerals /\ Digits[n + 1] \in Range(Digits)
  BY DigitFact DEF Numerals
<1>3. \A n \in Nat : \A f \in [Nat -> Numerals] :
          B[<<n, f>>] = IF n < 10 THEN <<Digits[n + 1]>>
                        ELSE f[n \div 10] \o <<Digits[(n % 10) + 1]>>
  OBVIOUS
<1>4. B \in [Nat \X [Nat -> Numerals] -> Numerals]
  <2>1. ASSUME NEW n \in Nat, NEW f \in [Nat -> Numerals]
        PROVE  (IF n < 10 THEN <<Digits[n + 1]>>
                ELSE f[n \div 10] \o <<Digits[(n % 10) + 1]>>) \in Numerals
    <3>1. CASE n < 10
      BY <1>2, <3>1
    <3>2. CASE n >= 10
      <4>1. f[n \div 10] \in Numerals /\ Digits[(n % 10) + 1] \in Range(Digits)
        BY <1>1, <1>2, <3>2
      <4>2. f[n \div 10] \o <<Digits[(n % 10) + 1]>> \in Numerals
        BY <4>1, FrontLastOfAppended DEF Numerals
      <4> QED BY <3>2, <4>2
    <3> QED BY <3>1, <3>2
  <2> QED BY <2>1
<1>5. \A n \in Nat : \A f, g \in [Nat -> Numerals] :
          (\A y \in Nat : rank[y] < rank[n] => f[y] = g[y]) => B[<<n, f>>] = B[<<n, g>>]
  <2>1. \A n \in Nat : rank[n] = n
    OBVIOUS
  <2> HIDE DEF B, rank
  <2> SUFFICES ASSUME NEW n \in Nat, NEW f \in [Nat -> Numerals], NEW g \in [Nat -> Numerals],
                      \A y \in Nat : rank[y] < rank[n] => f[y] = g[y]
               PROVE  B[<<n, f>>] = B[<<n, g>>]
    OBVIOUS
  <2>2. CASE n < 10
    <3>1. B[<<n, f>>] = <<Digits[n + 1]>> /\ B[<<n, g>>] = <<Digits[n + 1]>>
      BY <1>3, <2>2
    <3> QED BY <3>1
  <2>3. CASE n >= 10
    <3>1. f[n \div 10] = g[n \div 10]
      BY <1>1, <2>1, <2>3
    <3> QED BY <1>3, <2>3, <3>1
  <2> QED BY <2>2, <2>3
<1>6. [Nat -> Numerals] # {} /\ rank \in [Nat -> Nat]
  <2>1. [n \in Nat |-> <<>>] \in [Nat -> Numerals]
    BY EmptySeq DEF Numerals
  <2> QED BY <2>1
<1>7. PICK f \in [Nat -> Numerals] : \A n \in Nat : f[n] = B[<<n, f>>]
  <2>1. Descends(Nat, Numerals, rank, B)
    <3> HIDE DEF B, rank
    <3> QED BY <1>4, <1>5, <1>6 DEF Descends
  <2> HIDE DEF B, rank
  <2> QED BY <2>1, Recursion
<1>8. f = [n \in Nat |-> IF n < 10 THEN <<Digits[n + 1]>>
                         ELSE f[n \div 10] \o <<Digits[(n % 10) + 1]>>]
  <2>1. f = [n \in Nat |-> f[n]]
    OBVIOUS
  <2> HIDE DEF B
  <2> QED BY <1>3, <1>7, <2>1
<1>9. Decimal = [n \in Nat |-> IF n < 10 THEN <<Digits[n + 1]>>
                               ELSE Decimal[n \div 10] \o <<Digits[(n % 10) + 1]>>]
  BY <1>8 DEF Decimal
<1> QED
  BY <1>9

(* std::stoi reads back the length a server wrote: what Decimal writes       *)
(* passes is_num and Number gives the number it was written for.             *)
THEOREM NumberReadsDecimal ==
    \A n \in Nat : /\ Decimal[n] \in Numerals \ {<<>>}
                   /\ is_num(Decimal[n])
                   /\ Number[Decimal[n]] = n
<1> DEFINE Right(n, s) == /\ s \in Numerals /\ s # <<>>
                          /\ s[1] = "0" => n = 0
                          /\ n < 10 => Len(s) = 1
                          /\ Number[s] = n
           H == {n \in Nat : Right(n, Decimal[n])}
<1>1. ASSUME NEW n \in Nat, \A m \in Nat : m < n => m \in H PROVE n \in H
  <2>1. CASE n < 10
    <3>1. n \in 0..9
      BY <2>1
    <3> DEFINE c == Digits[n + 1]
    <3>2. c \in Range(Digits) /\ Digit(c) = n /\ (c = "0" <=> n = 0)
      BY <3>1, DigitFact
    <3>3. Decimal[n] = <<c>>
      BY <2>1, DecimalDef
    <3> HIDE DEF c
    <3>4. <<>> \in Seq(Range(Digits)) /\ <<>> \o <<c>> = <<c>>
      BY <3>2, ConcatEmptySeq, EmptySeq
    <3>5. <<c>> \in Numerals /\ <<c>> # <<>> /\ Front(<<c>>) = <<>> /\ Last(<<c>>) = c
      <4>1. /\ <<>> \o <<c>> \in Seq(Range(Digits)) /\ <<>> \o <<c>> # <<>>
            /\ Front(<<>> \o <<c>>) = <<>> /\ Last(<<>> \o <<c>>) = c
        BY <3>2, <3>4, FrontLastOfAppended
      <4> QED BY <3>4, <4>1 DEF Numerals
    <3>6. Number[<<>>] = 0
      BY <3>4, NumberDef DEF Numerals
    <3>7. Number[<<c>>] = n
      <4>1. Number[<<c>>] = 10 * Number[Front(<<c>>)] + Digit(Last(<<c>>))
        BY <3>5, NumberDef
      <4> QED BY <3>2, <3>5, <3>6, <4>1
    <3> QED BY <3>2, <3>3, <3>5, <3>7
  <2>2. CASE n >= 10
    <3> DEFINE m == n \div 10
               c == Digits[(n % 10) + 1]
               s == Decimal[m]
    <3>1. m \in Nat /\ m < n /\ m # 0 /\ n % 10 \in 0..9 /\ n = 10 * m + (n % 10)
      BY <2>2
    <3>2. c \in Range(Digits) /\ Digit(c) = n % 10
      BY <3>1, DigitFact
    <3>3. Right(m, s)
      BY <1>1, <3>1
    <3>4. Decimal[n] = s \o <<c>>
      <4>1. ~(n < 10)
        BY <2>2
      <4> QED BY <4>1, DecimalDef
    <3> HIDE DEF s, c, m
    <3> DEFINE t == s \o <<c>>
    <3>5. t \in Numerals /\ t # <<>> /\ Front(t) = s /\ Last(t) = c /\ t[1] = s[1]
      BY <3>2, <3>3, FrontLastOfAppended DEF Numerals
    <3> HIDE DEF t
    <3>6. Number[t] = 10 * Number[s] + Digit(c)
      BY <3>5, NumberDef
    <3>7. Number[t] = n
      BY <3>1, <3>2, <3>3, <3>6
    <3>8. t[1] # "0" /\ ~(n < 10)
      BY <2>2, <3>1, <3>3, <3>5
    <3>9. Decimal[n] = t
      BY <3>4 DEF t
    <3> QED BY <3>5, <3>7, <3>8, <3>9
  <2> QED BY <2>1, <2>2
<1>2. \A n \in Nat : n \in H
  <2> HIDE DEF H
  <2> QED BY <1>1, Induction
<1>3. ASSUME NEW n \in Nat PROVE is_num(Decimal[n])
  <2> DEFINE s == Decimal[n]
  <2>1. Right(n, s)
    BY <1>2
  <2>2. \A i \in DOMAIN s : s[i] \in Range(Digits)
    <3> HIDE DEF s
    <3> QED BY <2>1, LenProperties, ElementOfSeq DEF Numerals
  <2> HIDE DEF s
  <2>3. Len(s) > 1 => s[1] # "0"
    <3>1. s[1] = "0" => n = 0
      BY <2>1
    <3>2. n = 0 => Len(s) = 1
      BY <2>1
    <3>3. Len(s) = 1 => ~(Len(s) > 1)
      OBVIOUS
    <3> QED BY <3>1, <3>2, <3>3
  <2> QED BY <2>1, <2>2, <2>3 DEF is_num, s
<1> QED
  BY <1>2, <1>3

-----------------------------------------------------------------------------
(* Bytes cut in two.                                                         *)

Joins(x, u, w) == x = u \o w

(* Two ways to cut the same bytes in two. *)
LEMMA Cut ==
    ASSUME NEW u \in Seq(Byte), NEW w \in Seq(Byte), NEW a \in Seq(Byte), NEW b \in Seq(Byte),
           NEW x, Joins(x, u, w), Joins(x, a, b), Len(a) <= Len(u)
    PROVE  \E c \in Seq(Byte) : Joins(u, a, c) /\ Joins(b, c, w)
<1> DEFINE S == Byte
<1>0. u \o w = a \o b
  BY DEF Joins
<1> HIDE DEF S
<1> SUFFICES ASSUME u \in Seq(S), w \in Seq(S), a \in Seq(S), b \in Seq(S)
             PROVE  \E c \in Seq(S) : u = a \o c /\ b = c \o w
  BY DEF S, Joins
<1> DEFINE c == SubSeq(u, Len(a) + 1, Len(u))
           k == Len(a)
           n == Len(u)
<1>1. k \in Nat /\ n \in Nat /\ k <= n
  BY LenProperties
<1>2. \A i \in 1..n : u[i] \in S
  BY ElementOfSeq
<1>3. \A i \in k + 1 .. n : u[i] \in S
  BY <1>1, <1>2
<1>4. c \in Seq(S) /\ Len(c) = n - k /\ \A i \in 1 .. n - k : c[i] = u[k + i]
  <2> HIDE DEF k, n
  <2>1. /\ SubSeq(u, k + 1, n) \in Seq(S)
        /\ Len(SubSeq(u, k + 1, n)) = IF k + 1 <= n THEN n - (k + 1) + 1 ELSE 0
        /\ \A i \in 1 .. n - (k + 1) + 1 : SubSeq(u, k + 1, n)[i] = u[(k + 1) + i - 1]
    BY <1>1, <1>3, SubSeqProperties
  <2>2. c = SubSeq(u, k + 1, n)
    BY DEF k, n
  <2> HIDE DEF c
  <2> QED BY <1>1, <2>1, <2>2
<1> HIDE DEF c
<1>5. /\ \A i \in 1 .. n : (u \o w)[i] = u[i]
      /\ \A i \in 1 .. k : (a \o b)[i] = a[i]
      /\ \A i \in 1 .. n - k : (a \o b)[k + i] = b[i]
      /\ Len(u \o w) = n + Len(w) /\ Len(a \o b) = k + Len(b)
      /\ Len(w) \in Nat /\ Len(b) \in Nat /\ n - k <= Len(b)
  <2>5. Len(u \o w) = Len(a \o b)
    BY <1>0
  <2>1. Len(u \o w) = n + Len(w) /\ Len(a \o b) = k + Len(b) /\ Len(w) \in Nat /\ Len(b) \in Nat
    BY LenProperties, ConcatProperties
  <2>2. \A i \in 1 .. n + Len(w) : (u \o w)[i] = IF i <= n THEN u[i] ELSE w[i - n]
    BY ConcatProperties
  <2>3. \A i \in 1 .. k + Len(b) : (a \o b)[i] = IF i <= k THEN a[i] ELSE b[i - k]
    BY ConcatProperties
  <2> HIDE DEF k, n
  <2> QED BY <1>1, <2>1, <2>2, <2>3, <2>5
<1>6. u = a \o c
  <2>1. a \o c \in Seq(S) /\ Len(a \o c) = n
        /\ \A i \in 1 .. k + Len(c) : (a \o c)[i] = IF i <= k THEN a[i] ELSE c[i - k]
    <3>1. Len(a \o c) = k + Len(c) /\ a \o c \in Seq(S)
      BY <1>4, ConcatProperties
    <3>2. \A i \in 1 .. k + Len(c) : (a \o c)[i] = IF i <= k THEN a[i] ELSE c[i - k]
      BY <1>4, ConcatProperties
    <3> HIDE DEF k, n
    <3> QED BY <1>1, <1>4, <3>1, <3>2
  <2>2. \A i \in 1 .. n : u[i] = (a \o c)[i]
    <3> HIDE DEF k, n
    <3> SUFFICES ASSUME NEW i \in 1 .. n PROVE u[i] = (a \o c)[i]
      OBVIOUS
    <3>1. CASE i <= k
      <4>1. u[i] = (a \o b)[i]
        BY <1>0, <1>5
      <4>2. (a \o b)[i] = a[i] /\ (a \o c)[i] = a[i]
        BY <1>1, <1>4, <1>5, <2>1, <3>1
      <4> QED BY <4>1, <4>2
    <3>2. CASE ~(i <= k)
      <4>1. i - k \in 1 .. n - k /\ i \in 1 .. k + Len(c) /\ k + (i - k) = i
        BY <1>1, <1>4, <3>2
      <4> QED BY <1>4, <2>1, <3>2, <4>1
    <3> QED BY <3>1, <3>2
  <2> QED BY <2>1, <2>2, SeqEqual
<1>7. a \o (c \o w) = a \o b
  <2>0. c \in Seq(S)
    BY <1>4
  <2>1. (a \o c) \o w = a \o (c \o w)
    BY <2>0, ConcatAssociative
  <2> QED BY <1>0, <1>6, <2>1
<1>8. c \o w = b
  <2>1. c \o w \in Seq(S)
    BY <1>4, ConcatProperties
  <2> QED BY <1>7, <2>1, ConcatSimplifications
<1> QED
  BY <1>4, <1>6, <1>8

(* has_read of what stands in front leaves the rest. *)
LEMMA Skipped ==
    ASSUME NEW S, NEW a \in Seq(S), NEW b \in Seq(S)
    PROVE  has_read(a \o b, Len(a)) = b /\ SubSeq(a \o b, 1, Len(a)) = a
<1> DEFINE u == a \o b
           k == Len(a)
           n == Len(b)
<1>1. u \in Seq(S) /\ Len(u) = k + n /\ k \in Nat /\ n \in Nat
  BY LenProperties, ConcatProperties
<1>2. \A i \in 1 .. k + n : u[i] = IF i <= k THEN a[i] ELSE b[i - k]
  BY ConcatProperties
<1>3. \A i \in 1 .. k + n : u[i] \in S
  BY <1>1, ElementOfSeq
<1> HIDE DEF u
<1>4. SubSeq(u, k + 1, k + n) = b
  <2> HIDE DEF k, n
  <2>1. \A i \in k + 1 .. k + n : u[i] \in S
    BY <1>1, <1>3
  <2>2. /\ SubSeq(u, k + 1, k + n) \in Seq(S)
        /\ Len(SubSeq(u, k + 1, k + n)) = IF k + 1 <= k + n THEN (k + n) - (k + 1) + 1 ELSE 0
        /\ \A i \in 1 .. (k + n) - (k + 1) + 1 : SubSeq(u, k + 1, k + n)[i] = u[(k + 1) + i - 1]
    BY <1>1, <2>1, SubSeqProperties
  <2>3. Len(SubSeq(u, k + 1, k + n)) = n
    BY <1>1, <2>2
  <2>4. \A i \in 1 .. n : SubSeq(u, k + 1, k + n)[i] = b[i]
    <3> SUFFICES ASSUME NEW i \in 1 .. n PROVE SubSeq(u, k + 1, k + n)[i] = b[i]
      OBVIOUS
    <3>1. i \in 1 .. (k + n) - (k + 1) + 1 /\ (k + 1) + i - 1 = k + i
      BY <1>1
    <3>2. k + i \in 1 .. k + n /\ ~(k + i <= k) /\ (k + i) - k = i
      BY <1>1
    <3> QED BY <1>2, <2>2, <3>1, <3>2
  <2> QED BY <2>2, <2>3, <2>4, SeqEqual DEF n
<1>5. SubSeq(u, 1, k) = a
  <2> HIDE DEF k
  <2>1. \A i \in 1 .. k : u[i] \in S
    BY <1>1, <1>3
  <2>2. /\ SubSeq(u, 1, k) \in Seq(S)
        /\ Len(SubSeq(u, 1, k)) = IF 1 <= k THEN k - 1 + 1 ELSE 0
        /\ \A i \in 1 .. k - 1 + 1 : SubSeq(u, 1, k)[i] = u[1 + i - 1]
    BY <1>1, <2>1, SubSeqProperties
  <2>3. Len(SubSeq(u, 1, k)) = k
    BY <1>1, <2>2
  <2>4. \A i \in 1 .. k : SubSeq(u, 1, k)[i] = a[i]
    BY <1>1, <1>2, <2>2
  <2> QED BY <2>2, <2>3, <2>4, SeqEqual DEF k
<1> QED
  <2> HIDE DEF k, n
  <2>1. has_read(u, k) = b
    BY <1>1, <1>4 DEF has_read
  <2> QED BY <2>1, <1>5 DEF u, k

-----------------------------------------------------------------------------
(* Lines: get_len_string and get_normal_string.  Here and below a lemma      *)
(* ...Whole says that bytes that are all here give their value, one ...Asks  *)
(* that bytes cut short give NEED_MORE_DATA.                                 *)

Texts == Seq(Byte) \ {<<>>}

(* A line and its end.                                                       *)
LEMMA LineFact ==
    ASSUME NEW t \in Seq(Byte)
    PROVE  /\ CRLF \in Seq(Byte) /\ Len(CRLF) = 2
           /\ Line(t) \in Seq(Byte) /\ Len(Line(t)) = Len(t) + 2
           /\ Len(t) \in Nat
           /\ \A i \in 1 .. Len(t) : Line(t)[i] = t[i]
           /\ Line(t)[Len(t) + 1] = "CR"
           /\ Line(t)[Len(t) + 2] = "LF"
<1>1. "CR" \in Byte /\ "LF" \in Byte
  BY DEF Byte
<1>2. CRLF \in Seq(Byte) /\ Len(CRLF) = 2 /\ CRLF[1] = "CR" /\ CRLF[2] = "LF"
  BY <1>1 DEF CRLF
<1>3. Len(t) \in Nat
  BY LenProperties
<1>4. t \o CRLF \in Seq(Byte) /\ Len(t \o CRLF) = Len(t) + 2
        /\ \A i \in 1 .. Len(t) + 2 : (t \o CRLF)[i] = IF i <= Len(t) THEN t[i] ELSE CRLF[i - Len(t)]
  <2>1. t \o CRLF \in Seq(Byte) /\ Len(t \o CRLF) = Len(t) + Len(CRLF)
        /\ \A i \in 1 .. Len(t) + Len(CRLF) : (t \o CRLF)[i] = IF i <= Len(t) THEN t[i] ELSE CRLF[i - Len(t)]
    <3>1. CRLF \in Seq(Byte)
      BY <1>2
    <3> QED BY <3>1, ConcatProperties
  <2> QED BY <1>2, <2>1
<1>5. /\ Len(t) + 1 \in 1 .. Len(t) + 2 /\ ~(Len(t) + 1 <= Len(t)) /\ (Len(t) + 1) - Len(t) = 1
      /\ Len(t) + 2 \in 1 .. Len(t) + 2 /\ ~(Len(t) + 2 <= Len(t)) /\ (Len(t) + 2) - Len(t) = 2
      /\ \A i \in 1 .. Len(t) : i \in 1 .. Len(t) + 2 /\ i <= Len(t)
  BY <1>3
<1> QED
  BY <1>2, <1>3, <1>4, <1>5 DEF Line

(* A line and what stands behind it.                                         *)
LEMMA LineThen ==
    ASSUME NEW t \in Seq(Byte), NEW r \in Seq(Byte)
    PROVE  /\ Line(t) \o r \in Seq(Byte)
           /\ Len(Line(t) \o r) = Len(t) + 2 + Len(r) /\ Len(r) \in Nat
           /\ \A i \in 1 .. Len(t) : (Line(t) \o r)[i] = t[i]
           /\ (Line(t) \o r)[Len(t) + 1] = "CR"
           /\ (Line(t) \o r)[Len(t) + 2] = "LF"
           /\ SubSeq(Line(t) \o r, 1, Len(t)) = t
           /\ move_item(Line(t) \o r, Len(t)) = r
<1> DEFINE u == Line(t) \o r
<1>1. /\ Line(t) \in Seq(Byte) /\ Len(Line(t)) = Len(t) + 2 /\ Len(t) \in Nat
      /\ CRLF \in Seq(Byte) /\ Len(CRLF) = 2
  BY LineFact
<1>2. u \in Seq(Byte) /\ Len(u) = Len(t) + 2 + Len(r) /\ Len(r) \in Nat
  <2>1. u \in Seq(Byte) /\ Len(u) = Len(Line(t)) + Len(r)
    BY <1>1, ConcatProperties
  <2> QED BY <1>1, <2>1, LenProperties
<1>3. \A i \in 1 .. (Len(t) + 2) + Len(r) : u[i] = IF i <= Len(t) + 2 THEN Line(t)[i] ELSE r[i - (Len(t) + 2)]
  BY <1>1, ConcatProperties
<1>4. \A i \in 1 .. Len(t) + 2 : u[i] = Line(t)[i]
  <2> HIDE DEF u
  <2> QED BY <1>1, <1>2, <1>3
<1>5. SubSeq(u, 1, Len(t)) = t
  <2>1. CRLF \o r \in Seq(Byte)
    BY <1>1, ConcatProperties
  <2>2. u = t \o (CRLF \o r)
    BY <1>1, ConcatAssociative DEF Line
  <2> HIDE DEF u
  <2> QED BY <2>1, <2>2, Skipped
<1>6. move_item(u, Len(t)) = r
  BY <1>1, Skipped DEF move_item
<1> HIDE DEF u
<1>7. \A i \in 1 .. Len(t) : u[i] = t[i]
  <2>1. \A i \in 1 .. Len(t) : i \in 1 .. Len(t) + 2
    BY <1>1
  <2> QED BY <1>4, <2>1, LineFact
<1>8. Len(t) + 1 \in 1 .. Len(t) + 2 /\ Len(t) + 2 \in 1 .. Len(t) + 2
  BY <1>1
<1>9. u[Len(t) + 1] = "CR" /\ u[Len(t) + 2] = "LF"
  BY <1>4, <1>8, LineFact
<1> QED
  BY <1>2, <1>5, <1>6, <1>7, <1>9 DEF u

(* The bytes of a line that has not ended are too few for its text.          *)
LEMMA LineCut ==
    ASSUME NEW t \in Seq(Byte), NEW u \in Seq(Byte), NEW w \in Seq(Byte), w # <<>>, u \o w = Line(t)
    PROVE  /\ Len(u) \in Nat /\ Len(t) \in Nat /\ Len(u) <= Len(t) + 1
           /\ \A i \in 1 .. Len(u) : u[i] = Line(t)[i]
<1>1. Len(u) \in Nat /\ Len(w) \in Nat \ {0}
  BY LenProperties, EmptySeq
<1>2. Len(u \o w) = Len(u) + Len(w)
  BY ConcatProperties
<1>3. \A i \in 1 .. Len(u) + Len(w) : (u \o w)[i] = IF i <= Len(u) THEN u[i] ELSE w[i - Len(u)]
  BY ConcatProperties
<1>4. \A i \in 1 .. Len(u) : (u \o w)[i] = u[i]
  BY <1>1, <1>3
<1>5. Len(Line(t)) = Len(t) + 2 /\ Len(t) \in Nat
  BY LineFact
<1> QED
  BY <1>1, <1>2, <1>4, <1>5

(* get_len_string takes a text of the length asked for and its end of line.  *)
LEMMA LenStringWhole ==
    ASSUME NEW t \in Texts, NEW r \in Seq(Byte)
    PROVE  get_len_string(Line(t) \o r, Len(t)) = Ok(r, t)
<1>1. t \in Seq(Byte) /\ Len(t) \in Nat \ {0}
  BY EmptySeq DEF Texts
<1> DEFINE u == Line(t) \o r
<1>2. /\ Len(u) = Len(t) + 2 + Len(r) /\ Len(r) \in Nat
      /\ u[Len(t) + 1] = "CR" /\ SubSeq(u, 1, Len(t)) = t /\ move_item(u, Len(t)) = r
  BY <1>1, LineThen
<1> HIDE DEF u
<1>3. Len(t) # 0 /\ ~(Len(u) <= Len(t) + 1)
  BY <1>1, <1>2
<1>4. get_len_string(u, Len(t)) = Ok(move_item(u, Len(t)), SubSeq(u, 1, Len(t)))
  BY <1>2, <1>3 DEF get_len_string
<1> QED
  BY <1>2, <1>4 DEF u

(* It asks for more when not all of them are here, the end of line included. *)
LEMMA LenStringAsks ==
    ASSUME NEW t \in Texts, NEW u \in Seq(Byte), NEW w \in Seq(Byte), w # <<>>, u \o w = Line(t)
    PROVE  get_len_string(u, Len(t)) = Fail("NEED_MORE_DATA", u)
<1>1. t \in Seq(Byte) /\ Len(t) \in Nat \ {0}
  BY EmptySeq DEF Texts
<1>2. Len(u) <= Len(t) + 1 /\ Len(t) # 0
  BY <1>1, LineCut
<1> QED
  BY <1>2 DEF get_len_string

(* Where a line ends.                                                        *)
LEMMA EndOfLine ==
    ASSUME NEW u \in Seq(Byte), NEW i \in 1 .. Len(u) - 1
    PROVE  SubSeq(u, i, i + 1) = CRLF <=> u[i] = "CR" /\ u[i + 1] = "LF"
<1>1. Len(u) \in Nat
  BY LenProperties
<1>2. i \in Int /\ i + 1 \in Int /\ \A j \in i .. i + 1 : u[j] \in Byte
  BY <1>1, ElementOfSeq
<1>3. /\ SubSeq(u, i, i + 1) \in Seq(Byte)
      /\ Len(SubSeq(u, i, i + 1)) = IF i <= i + 1 THEN (i + 1) - i + 1 ELSE 0
      /\ \A j \in 1 .. (i + 1) - i + 1 : SubSeq(u, i, i + 1)[j] = u[i + j - 1]
  BY <1>2, SubSeqProperties
<1> DEFINE s == SubSeq(u, i, i + 1)
<1>4. s \in Seq(Byte) /\ Len(s) = 2 /\ s[1] = u[i] /\ s[2] = u[i + 1]
  <2>1. 1 \in 1 .. (i + 1) - i + 1 /\ 2 \in 1 .. (i + 1) - i + 1 /\ i + 1 - 1 = i /\ i + 2 - 1 = i + 1
    BY <1>2
  <2>2. i <= i + 1 /\ (i + 1) - i + 1 = 2
    BY <1>2
  <2> QED BY <1>3, <2>1, <2>2
<1>5. CRLF \in Seq(Byte) /\ Len(CRLF) = 2 /\ CRLF[1] = "CR" /\ CRLF[2] = "LF"
  <2>1. <<>> \in Seq(Byte)
    BY EmptySeq
  <2> QED BY <2>1, LineFact DEF CRLF
<1> HIDE DEF s
<1>6. ASSUME u[i] = "CR", u[i + 1] = "LF" PROVE s = CRLF
  <2>1. \A j \in 1 .. 2 : s[j] = CRLF[j]
    BY <1>4, <1>5, <1>6
  <2> QED BY <1>4, <1>5, <2>1, SeqEqual
<1>7. ASSUME s = CRLF PROVE u[i] = "CR" /\ u[i + 1] = "LF"
  BY <1>4, <1>5, <1>7
<1> QED
  BY <1>6, <1>7 DEF s

(* get_normal_string takes the bytes up to the first end of line.            *)
LEMMA NormalWhole ==
    ASSUME NEW t \in Texts, NoEndOfLine(t), NEW r \in Seq(Byte)
    PROVE  get_normal_string(Line(t) \o r) = Ok(r, t)
<1> DEFINE u == Line(t) \o r
           n == Len(t)
           ends == {i \in 1 .. Len(u) - 1 : SubSeq(u, i, i + 1) = CRLF}
<1>1. t \in Seq(Byte) /\ n \in Nat \ {0}
  BY EmptySeq DEF Texts
<1>2. /\ u \in Seq(Byte) /\ Len(u) = n + 2 + Len(r) /\ Len(r) \in Nat
      /\ \A i \in 1 .. n : u[i] = t[i]
      /\ u[n + 1] = "CR" /\ u[n + 2] = "LF"
  BY <1>1, LineThen
<1>3. \A i \in 1 .. n - 1 : ~(t[i] = "CR" /\ t[i + 1] = "LF")
  BY <1>1, EndOfLine DEF NoEndOfLine
<1> HIDE DEF u, n
<1>4. \A i \in 1 .. n : ~(u[i] = "CR" /\ u[i + 1] = "LF")
  <2> SUFFICES ASSUME NEW i \in 1 .. n PROVE ~(u[i] = "CR" /\ u[i + 1] = "LF")
    OBVIOUS
  <2>1. CASE i = n
    BY <1>2, <2>1
  <2>2. CASE i # n
    <3>1. i \in 1 .. n - 1 /\ i + 1 \in 1 .. n
      BY <1>1, <2>2
    <3> QED BY <1>2, <1>3, <3>1
  <2> QED BY <2>1, <2>2
<1>5. n + 1 \in ends
  <2>1. n + 1 \in 1 .. Len(u) - 1 /\ (n + 1) + 1 = n + 2
    BY <1>1, <1>2
  <2>2. u[n + 1] = "CR" /\ u[(n + 1) + 1] = "LF"
    BY <1>2, <2>1
  <2>3. SubSeq(u, n + 1, (n + 1) + 1) = CRLF
    BY <1>2, <2>1, <2>2, EndOfLine
  <2> QED BY <2>1, <2>3
<1>6. \A i \in ends : n + 1 <= i
  <2> SUFFICES ASSUME NEW i \in 1 .. Len(u) - 1, SubSeq(u, i, i + 1) = CRLF PROVE n + 1 <= i
    OBVIOUS
  <2>1. u[i] = "CR" /\ u[i + 1] = "LF"
    BY <1>2, EndOfLine
  <2>2. i \notin 1 .. n
    BY <1>4, <2>1
  <2> QED BY <1>1, <1>2, <2>2
<1>7. Min(ends) = n + 1
  <2>1. \A i \in ends : i \in Int
    BY <1>2
  <2> HIDE DEF ends
  <2> QED BY <1>1, <1>5, <1>6, <2>1 DEF Min
<1>8. get_normal_string(u) = get_len_string(u, n)
  <2>1. ends # {} /\ (n + 1) - 1 = n
    <3> HIDE DEF ends
    <3> QED BY <1>1, <1>5
  <2> QED BY <1>7, <2>1 DEF get_normal_string
<1>9. get_len_string(u, n) = Ok(r, t)
  BY LenStringWhole DEF u, n
<1> QED
  BY <1>8, <1>9 DEF u

(* It asks for more while there is none.                                     *)
LEMMA NormalAsks ==
    ASSUME NEW t \in Seq(Byte), NoEndOfLine(t), NEW u \in Seq(Byte), NEW w \in Seq(Byte),
           w # <<>>, u \o w = Line(t)
    PROVE  get_normal_string(u) = Fail("NEED_MORE_DATA", u)
<1> DEFINE n == Len(t)
<1>1. Len(u) \in Nat /\ n \in Nat /\ Len(u) <= n + 1 /\ \A i \in 1 .. Len(u) : u[i] = Line(t)[i]
  BY LineCut
<1>2. /\ \A i \in 1 .. n : Line(t)[i] = t[i]
      /\ Line(t)[n + 1] = "CR"
  BY LineFact
<1>3. \A i \in 1 .. n - 1 : ~(t[i] = "CR" /\ t[i + 1] = "LF")
  BY <1>1, EndOfLine DEF NoEndOfLine
<1> HIDE DEF n
<1>4. \A i \in 1 .. Len(u) - 1 : ~(u[i] = "CR" /\ u[i + 1] = "LF")
  <2> SUFFICES ASSUME NEW i \in 1 .. Len(u) - 1 PROVE ~(u[i] = "CR" /\ u[i + 1] = "LF")
    OBVIOUS
  <2>1. u[i] = Line(t)[i] /\ u[i + 1] = Line(t)[i + 1] /\ i \in 1 .. n
    BY <1>1
  <2>2. CASE i = n
    BY <1>2, <2>1, <2>2
  <2>3. CASE i # n
    <3>1. i \in 1 .. n - 1 /\ i + 1 \in 1 .. n
      BY <1>1, <2>1, <2>3
    <3> QED BY <1>2, <1>3, <2>1, <3>1
  <2> QED BY <2>2, <2>3
<1>5. {i \in 1 .. Len(u) - 1 : SubSeq(u, i, i + 1) = CRLF} = {}
  BY <1>4, EndOfLine
<1> QED
  BY <1>5 DEF get_normal_string

-----------------------------------------------------------------------------
(* Lengths and the texts behind them.                                        *)

(* A length is a text in which no line ends.                                 *)
LEMMA DecimalText ==
    ASSUME NEW n \in Nat
    PROVE  Decimal[n] \in Texts /\ NoEndOfLine(Decimal[n]) /\ Decimal[n][1] # "-"
<1> DEFINE s == Decimal[n]
<1>1. s \in Numerals /\ s # <<>>
  BY NumberReadsDecimal
<1>2. Len(s) \in Nat \ {0} /\ \A i \in 1 .. Len(s) : s[i] \in Range(Digits)
  <2> HIDE DEF s
  <2> QED BY <1>1, EmptySeq, ElementOfSeq DEF Numerals
<1> HIDE DEF s
<1>3. \A i \in 1 .. Len(s) : s[i] # "CR" /\ s[i] # "-"
  BY <1>2, DigitFact
<1>4. s \in Seq(Byte)
  <2>1. Range(Digits) \subseteq Byte
    BY DEF Byte
  <2> QED BY <1>1, <2>1, SeqMonotonic DEF Numerals
<1>5. NoEndOfLine(s)
  <2>1. \A i \in 1 .. Len(s) - 1 : s[i] # "CR"
    BY <1>2, <1>3
  <2> QED BY <1>4, <2>1, EndOfLine DEF NoEndOfLine
<1> QED
  BY <1>1, <1>2, <1>3, <1>4, <1>5 DEF s, Texts

(* get_aggregate_len reads a length, and asks for more when it is cut.       *)
LEMMA LenWhole ==
    ASSUME NEW n \in Nat, NEW r \in Seq(Byte)
    PROVE  get_aggregate_len(Line(Decimal[n]) \o r) = Ok(r, n)
<1>1. get_normal_string(Line(Decimal[n]) \o r) = Ok(r, Decimal[n])
  BY DecimalText, NormalWhole
<1>2. is_num(Decimal[n]) /\ Number[Decimal[n]] = n
  BY NumberReadsDecimal
<1> QED
  BY <1>1, <1>2 DEF get_aggregate_len, Then, Ok

LEMMA LenAsks ==
    ASSUME NEW n \in Nat, NEW u \in Seq(Byte), NEW w \in Seq(Byte), w # <<>>,
           u \o w = Line(Decimal[n])
    PROVE  get_aggregate_len(u) = Fail("NEED_MORE_DATA", u)
<1>1. Decimal[n] \in Seq(Byte) /\ NoEndOfLine(Decimal[n])
  BY DecimalText DEF Texts
<1>2. get_normal_string(u) = Fail("NEED_MORE_DATA", u)
  BY <1>1, NormalAsks
<1> QED
  BY <1>2 DEF get_aggregate_len, Then, Fail

(* A text behind its length, whole and cut anywhere.                         *)
LEMMA StringWhole ==
    ASSUME NEW t \in Texts, NEW r \in Seq(Byte)
    PROVE  LenString(Line(Decimal[Len(t)]) \o (Line(t) \o r)) = Ok(r, t)
<1>1. t \in Seq(Byte) /\ Len(t) \in Nat
  BY LenProperties DEF Texts
<1>2. Line(t) \o r \in Seq(Byte)
  BY <1>1, LineThen
<1>3. get_aggregate_len(Line(Decimal[Len(t)]) \o (Line(t) \o r)) = Ok(Line(t) \o r, Len(t))
  BY <1>1, <1>2, LenWhole
<1>4. get_len_string(Line(t) \o r, Len(t)) = Ok(r, t)
  BY LenStringWhole
<1> QED
  BY <1>3, <1>4 DEF LenString, Then, Ok

LEMMA StringAsks ==
    ASSUME NEW t \in Texts, NEW u \in Seq(Byte), NEW w \in Seq(Byte), w # <<>>,
           u \o w = Line(Decimal[Len(t)]) \o Line(t)
    PROVE  LenString(u).ret = "NEED_MORE_DATA"
<1> DEFINE h == Line(Decimal[Len(t)])
<1>1. t \in Seq(Byte) /\ Len(t) \in Nat
  BY LenProperties DEF Texts
<1>2. h \in Seq(Byte) /\ Line(t) \in Seq(Byte) /\ Len(h) \in Nat /\ Len(u) \in Nat
  <2>1. Decimal[Len(t)] \in Seq(Byte)
    BY <1>1, DecimalText DEF Texts
  <2> QED BY <1>1, <2>1, LineFact, LenProperties
<1>3. CASE Len(h) <= Len(u)
  <2>1. PICK c \in Seq(Byte) : u = h \o c /\ Line(t) = c \o w
    <3> HIDE DEF h
    <3>1. Joins(u \o w, u, w) /\ Joins(u \o w, h, Line(t))
      BY DEF h, Joins
    <3>2. \E c \in Seq(Byte) : Joins(u, h, c) /\ Joins(Line(t), c, w)
      BY <1>2, <1>3, <3>1, Cut
    <3> QED BY <3>2 DEF Joins
  <2>2. get_aggregate_len(u) = Ok(c, Len(t))
    BY <1>1, <2>1, LenWhole
  <2>3. get_len_string(c, Len(t)) = Fail("NEED_MORE_DATA", c)
    BY <2>1, LenStringAsks
  <2> QED BY <2>2, <2>3 DEF LenString, Then, Ok, Fail
<1>4. CASE Len(u) < Len(h)
  <2>1. PICK c \in Seq(Byte) : h = u \o c /\ w = c \o Line(t)
    <3> HIDE DEF h
    <3>1. Joins(u \o w, u, w) /\ Joins(u \o w, h, Line(t)) /\ Len(u) <= Len(h)
      BY <1>2, <1>4 DEF h, Joins
    <3>2. \E c \in Seq(Byte) : Joins(h, u, c) /\ Joins(w, c, Line(t))
      BY <1>2, <3>1, Cut
    <3> QED BY <3>2 DEF Joins
  <2>2. c # <<>>
    <3>1. c = <<>> => h = u
      BY <2>1, ConcatEmptySeq
    <3> HIDE DEF h
    <3> QED BY <1>2, <1>4, <3>1
  <2>3. get_aggregate_len(u) = Fail("NEED_MORE_DATA", u)
    BY <1>1, <2>1, <2>2, LenAsks
  <2> QED BY <2>3 DEF LenString, Then, Fail
<1> QED
  BY <1>2, <1>3, <1>4

(* A symbol and what stands behind it.                                       *)
LEMMA SymbolFact ==
    ASSUME NEW c \in Byte, NEW x \in Seq(Byte)
    PROVE  /\ <<c>> \o x \in Seq(Byte) /\ Len(<<c>> \o x) = Len(x) + 1 /\ Len(x) \in Nat
           /\ (<<c>> \o x)[1] = c
           /\ x # <<>> => (<<c>> \o x)[2] = x[1]
           /\ has_read(<<c>> \o x, 1) = x
<1>1. <<c>> \in Seq(Byte) /\ Len(<<c>>) = 1 /\ <<c>>[1] = c /\ Len(x) \in Nat /\ (x # <<>> => Len(x) > 0)
  BY LenProperties, EmptySeq
<1>2. /\ <<c>> \o x \in Seq(Byte) /\ Len(<<c>> \o x) = Len(<<c>>) + Len(x)
      /\ \A i \in 1 .. Len(<<c>>) + Len(x) : (<<c>> \o x)[i]
            = IF i <= Len(<<c>>) THEN <<c>>[i] ELSE x[i - Len(<<c>>)]
  BY <1>1, ConcatProperties
<1>3. has_read(<<c>> \o x, Len(<<c>>)) = x
  BY <1>1, Skipped
<1> QED
  BY <1>1, <1>2, <1>3

(* What is cut behind a symbol is cut in what stands behind the symbol.      *)
LEMMA SymbolCut ==
    ASSUME NEW c \in Byte, NEW x \in Seq(Byte), NEW u \in Seq(Byte), NEW w \in Seq(Byte),
           u # <<>>, NEW e, Joins(e, u, w), Joins(e, <<c>>, x)
    PROVE  \E y \in Seq(Byte) : u = <<c>> \o y /\ Joins(x, y, w)
<1>1. <<c>> \in Seq(Byte) /\ Len(<<c>>) = 1
  OBVIOUS
<1>2. Len(u) \in Nat /\ Len(u) > 0
  BY EmptySeq
<1>3. Len(<<c>>) <= Len(u)
  BY <1>1, <1>2
<1>4. \E y \in Seq(Byte) : Joins(u, <<c>>, y) /\ Joins(x, y, w)
  BY <1>1, <1>3, Cut
<1> QED
  BY <1>4 DEF Joins

-----------------------------------------------------------------------------
(* Symbols, what Scalar makes of what the process functions return, and the  *)
(* replies that are one line.                                                *)

LineTypes == {"SimpleString", "SimpleError", "BigNumber"}
BlobTypes == {"BlobString", "BlobError"}

LEMMA NullFact ==
    /\ NullSymbol \in Byte
    /\ NullSymbol \notin {"$", "!", "=", "+", "-", "(", ":", "#", ",", "*", "~", ">", "%"}
<1>1. NullSymbol \in Byte
  BY DEF Byte
<1>2. NullSymbol \notin {"$", "!", "=", "+", "-", "(", ":", "#", ",", "*", "~", ">", "%"}
  BY Zenon DEF NullSymbol
<1> QED
  BY <1>1, <1>2

LEMMA TextSymbolFact ==
    /\ DOMAIN TextSymbol = {"SimpleString", "SimpleError", "BigNumber", "BlobString",
          "BlobError", "Verbatim", "Double"}
    /\ \A t \in DOMAIN TextSymbol :
          /\ TextSymbol[t] \in Byte
          /\ TextType(TextSymbol[t]) = t
    /\ TextSymbol["SimpleString"] = "+" /\ TextSymbol["SimpleError"] = "-" /\ TextSymbol["BigNumber"] = "("
    /\ TextSymbol["BlobString"] = "$" /\ TextSymbol["BlobError"] = "!"
    /\ Range(TextSymbol) = {"+", "-", "(", "$", "!", "=", ","}
<1>1. DOMAIN TextSymbol = {"SimpleString", "SimpleError", "BigNumber", "BlobString",
      "BlobError", "Verbatim", "Double"}
  BY DEF TextSymbol
<1>6. /\ TextSymbol["SimpleString"] = "+" /\ TextSymbol["SimpleError"] = "-" /\ TextSymbol["BigNumber"] = "("
      /\ TextSymbol["BlobString"] = "$" /\ TextSymbol["BlobError"] = "!"
      /\ TextSymbol["Verbatim"] = "=" /\ TextSymbol["Double"] = ","
  BY DEF TextSymbol
<1>2. Range(TextSymbol) = {"+", "-", "(", "$", "!", "=", ","}
  BY <1>1, <1>6 DEF Range
<1>3. \A s, t \in DOMAIN TextSymbol : TextSymbol[s] = TextSymbol[t] => s = t
  BY <1>1, <1>6
<1>4. \A t \in DOMAIN TextSymbol : TextSymbol[t] \in Byte
  BY DEF Byte, Range
<1>5. /\ TextSymbol["SimpleString"] = "+" /\ TextSymbol["SimpleError"] = "-" /\ TextSymbol["BigNumber"] = "("
      /\ TextSymbol["BlobString"] = "$" /\ TextSymbol["BlobError"] = "!"
  BY DEF TextSymbol
<1> QED
  BY <1>1, <1>2, <1>3, <1>4, <1>5 DEF TextType

LEMMA ComplexSymbolFact ==
    /\ DOMAIN ComplexSymbol = {"Array", "Set", "Push", "Map"}
    /\ \A t \in DOMAIN ComplexSymbol :
          /\ ComplexSymbol[t] \in Byte
          /\ ComplexSymbol[t] \in Range(ComplexSymbol)
          /\ AggregateType(ComplexSymbol[t]) = t
    /\ Range(ComplexSymbol) = {"*", "~", ">", "%"}
<1>1. DOMAIN ComplexSymbol = {"Array", "Set", "Push", "Map"}
  BY DEF ComplexSymbol
<1>2. Range(ComplexSymbol) = {"*", "~", ">", "%"}
  BY <1>1 DEF ComplexSymbol, Range
<1>3. \A s, t \in DOMAIN ComplexSymbol : ComplexSymbol[s] = ComplexSymbol[t] => s = t
  BY <1>1 DEF ComplexSymbol
<1>4. \A t \in DOMAIN ComplexSymbol : ComplexSymbol[t] \in Range(ComplexSymbol)
  BY DEF Range
<1>5. \A t \in DOMAIN ComplexSymbol : ComplexSymbol[t] \in Byte
  BY <1>4 DEF Byte
<1>6. \A t \in DOMAIN ComplexSymbol : AggregateType(ComplexSymbol[t]) = t
  BY <1>3 DEF AggregateType
<1> QED
  BY <1>1, <1>2, <1>4, <1>5, <1>6

(* The bytes of a reply that is one line.                                    *)
LEMMA EncodeLine ==
    ASSUME NEW v \in Values, IsLine(v)
    PROVE  /\ v.text \in Texts /\ NoEndOfLine(v.text) /\ v.type \in LineTypes
           /\ v = Text(v.type, v.text)
           /\ TextSymbol[v.type] \in {"+", "-", "("} /\ TextSymbol[v.type] \in Byte
           /\ Line(v.text) \in Seq(Byte)
           /\ Encode[v] = <<TextSymbol[v.type]>> \o Line(v.text)
<1>1. v.text \in Texts /\ NoEndOfLine(v.text) /\ v.type \in LineTypes /\ v = Text(v.type, v.text)
  BY DEF IsLine, Texts, LineTypes, Text
<1>2. Encode[v] = <<TextSymbol[v.type]>> \o Line(v.text)
  <2>1. Encode[v] = Bytes(v, Encode)
    BY EncodeAssumption
  <2>2. Bytes(v, Encode) = <<TextSymbol[v.type]>> \o Line(v.text)
    <3>1. v.type \in {"SimpleString", "SimpleError", "BigNumber", "Double"}
      BY <1>1 DEF LineTypes
    <3>2. ~IsComplex(v)
      BY <3>1, ComplexSymbolFact DEF IsComplex
    <3>3. /\ v.type \notin {"BlobString", "BlobError", "Verbatim"}
          /\ v.type # "Number" /\ v.type # "Boolean" /\ v.type # "NilValue"
      BY <3>1
    <3> QED BY <3>1, <3>2, <3>3, SMT DEF Bytes
  <2> QED BY <2>1, <2>2
<1>3. TextSymbol[v.type] \in {"+", "-", "("} /\ TextSymbol[v.type] \in Byte
  BY <1>1, TextSymbolFact DEF LineTypes
<1>4. Line(v.text) \in Seq(Byte)
  BY <1>1, LineFact DEF Texts
<1> QED
  BY <1>1, <1>2, <1>3, <1>4

(* The bytes of a blob.                                                      *)
LEMMA EncodeBlob ==
    ASSUME NEW v \in Values, NEW t \in BlobTypes, IsBlob(v, t)
    PROVE  /\ v.text \in Texts /\ v.type = t
           /\ v = Text(t, v.text)
           /\ TextSymbol[t] \in Byte
           /\ Line(v.text) \in Seq(Byte)
           /\ Len(v.text) \in Nat
           /\ Line(Decimal[Len(v.text)]) \in Seq(Byte)
           /\ Line(Decimal[Len(v.text)]) \o Line(v.text) \in Seq(Byte)
           /\ Encode[v] = <<TextSymbol[t]>> \o (Line(Decimal[Len(v.text)]) \o Line(v.text))
<1>1. v.text \in Texts /\ v.type = t /\ v = Text(t, v.text)
  BY DEF IsBlob, Texts, Text
<1>2. Encode[v] = (<<TextSymbol[t]>> \o Line(Decimal[Len(v.text)])) \o Line(v.text)
  <2>1. Encode[v] = Bytes(v, Encode)
    BY EncodeAssumption
  <2>2. Bytes(v, Encode) = (<<TextSymbol[t]>> \o Line(Decimal[Len(v.text)])) \o Line(v.text)
    <3>1. v.type \in {"BlobString", "BlobError", "Verbatim"}
      BY <1>1 DEF BlobTypes
    <3>2. v.type \notin {"SimpleString", "SimpleError", "BigNumber", "Double"}
      BY <1>1 DEF BlobTypes
    <3>3. ~IsComplex(v) /\ v.type # "Number" /\ v.type # "Boolean" /\ v.type # "NilValue"
      BY <3>1, ComplexSymbolFact DEF IsComplex
    <3>4. Bytes(v, Encode) = <<TextSymbol[v.type]>> \o Line(Decimal[Len(v.text)]) \o Line(v.text)
      BY <3>1, <3>2, <3>3, SMT DEF Bytes
    <3> QED BY <1>1, <3>4
  <2> QED BY <2>1, <2>2
<1>3. TextSymbol[t] \in Byte
  BY <1>1, TextSymbolFact DEF BlobTypes
<1>4. Line(v.text) \in Seq(Byte) /\ Len(v.text) \in Nat
  BY <1>1, LineFact DEF Texts
<1>5. Line(Decimal[Len(v.text)]) \in Seq(Byte)
  BY <1>4, DecimalText, LineFact DEF Texts
<1>6. <<TextSymbol[t]>> \in Seq(Byte)
  BY <1>3
<1>7. (<<TextSymbol[t]>> \o Line(Decimal[Len(v.text)])) \o Line(v.text)
        = <<TextSymbol[t]>> \o (Line(Decimal[Len(v.text)]) \o Line(v.text))
  BY <1>4, <1>5, <1>6, ConcatAssociative
<1>8. Line(Decimal[Len(v.text)]) \o Line(v.text) \in Seq(Byte)
  BY <1>4, <1>5, ConcatProperties
<1> QED
  BY <1>1, <1>2, <1>3, <1>4, <1>5, <1>7, <1>8

LEMMA ScalarIsLine ==
    ASSUME NEW u, u[1] \in {"+", "-", "("}, NEW next, NEW flag, NEW p, p = process_line(u, u[1])
    PROVE  Scalar(u, next, flag) =
              IF p.ret = "OK" THEN [p EXCEPT !.val = Text(TextType(u[1]), p.val)] ELSE p
<1>1. Scalar(u, next, flag) = Wrap(p, LAMBDA q : Text(TextType(u[1]), q))
  BY NullFact DEF Scalar
<1> QED
  BY <1>1 DEF Wrap, Then

LEMMA ScalarLine ==
    ASSUME NEW u, u[1] \in {"+", "-", "("}, NEW next, NEW flag, NEW r, NEW s, process_line(u, u[1]) = Ok(r, s)
    PROVE  Scalar(u, next, flag) = Ok(r, Text(TextType(u[1]), s))
<1> DEFINE p == process_line(u, u[1])
<1> HIDE DEF p
<1>1. Scalar(u, next, flag) = IF p.ret = "OK" THEN [p EXCEPT !.val = Text(TextType(u[1]), p.val)] ELSE p
  BY ScalarIsLine DEF p
<1> QED
  BY <1>1 DEF p, Ok

LEMMA ScalarLineAsks ==
    ASSUME NEW u, u[1] \in {"+", "-", "("}, NEW next, NEW flag,
           process_line(u, u[1]).ret = "NEED_MORE_DATA"
    PROVE  Scalar(u, next, flag).ret = "NEED_MORE_DATA"
<1> DEFINE p == process_line(u, u[1])
<1> HIDE DEF p
<1>1. Scalar(u, next, flag) = IF p.ret = "OK" THEN [p EXCEPT !.val = Text(TextType(u[1]), p.val)] ELSE p
  BY ScalarIsLine DEF p
<1> QED
  BY <1>1 DEF p, Fail

LEMMA ScalarBlob ==
    ASSUME NEW u, u[1] = "$", NEW next, NEW flag, NEW r, NEW s, process_blob_string(u, next) = Ok(r, s)
    PROVE  Scalar(u, next, flag) = Ok(r, Text(TextType("$"), s))
<1> DEFINE p == process_blob_string(u, next)
<1>1. Scalar(u, next, flag) = Wrap(p, LAMBDA q : Text(TextType("$"), q))
  <2>1. u[1] # NullSymbol
    BY NullFact
  <2> QED BY <2>1 DEF Scalar
<1> HIDE DEF p
<1> QED
  BY <1>1 DEF Wrap, Then, p, Ok

LEMMA ScalarBlobAsks ==
    ASSUME NEW u, u[1] = "$", NEW next, NEW flag, process_blob_string(u, next).ret = "NEED_MORE_DATA"
    PROVE  Scalar(u, next, flag).ret = "NEED_MORE_DATA"
<1> DEFINE p == process_blob_string(u, next)
<1>1. Scalar(u, next, flag) = Wrap(p, LAMBDA q : Text(TextType("$"), q))
  <2>1. u[1] # NullSymbol
    BY NullFact
  <2> QED BY <2>1 DEF Scalar
<1> HIDE DEF p
<1> QED
  BY <1>1 DEF Wrap, Then, p, Fail

LEMMA ScalarError ==
    ASSUME NEW u, u[1] = "!", NEW next, NEW flag, NEW r, NEW s, process_blob_error(u) = Ok(r, s)
    PROVE  Scalar(u, next, flag) = Ok(r, Text(TextType("!"), s))
<1> DEFINE p == process_blob_error(u)
<1>1. Scalar(u, next, flag) = Wrap(p, LAMBDA q : Text(TextType("!"), q))
  <2>1. u[1] # NullSymbol
    BY NullFact
  <2> QED BY <2>1 DEF Scalar
<1> HIDE DEF p
<1> QED
  BY <1>1 DEF Wrap, Then, p, Ok

LEMMA ScalarErrorAsks ==
    ASSUME NEW u, u[1] = "!", NEW next, NEW flag, process_blob_error(u).ret = "NEED_MORE_DATA"
    PROVE  Scalar(u, next, flag).ret = "NEED_MORE_DATA"
<1> DEFINE p == process_blob_error(u)
<1>1. Scalar(u, next, flag) = Wrap(p, LAMBDA q : Text(TextType("!"), q))
  <2>1. u[1] # NullSymbol
    BY NullFact
  <2> QED BY <2>1 DEF Scalar
<1> HIDE DEF p
<1> QED
  BY <1>1 DEF Wrap, Then, p, Fail

LEMMA ScalarNumber ==
    ASSUME NEW u, u[1] = ":", NEW next, NEW flag, NEW r, NEW s, process_number(u) = Ok(r, s)
    PROVE  Scalar(u, next, flag) = Ok(r, Integer(s))
<1> DEFINE p == process_number(u)
<1>1. Scalar(u, next, flag) = Wrap(p, Integer)
  BY NullFact DEF Scalar
<1> HIDE DEF p
<1> QED
  BY <1>1 DEF Wrap, Then, p, Ok

LEMMA NilSet ==
    ASSUME NEW r, NEW s, NEW p, p = Ok(r, s), NEW q, q = IF p.ret = "OK" THEN [p EXCEPT !.val = Nil] ELSE p
    PROVE  q = Ok(r, Nil)
  BY DEF Ok

LEMMA ScalarNil ==
    ASSUME NEW u, u[1] = NullSymbol, NEW next, NEW flag, NEW r, NEW s, process_nil(u) = Ok(r, s)
    PROVE  Scalar(u, next, flag) = Ok(r, Nil)
<1> DEFINE p == process_nil(u)
           q == Scalar(u, next, flag)
<1>1. q = IF p.ret = "OK" THEN [p EXCEPT !.val = Nil] ELSE p
  BY NullFact DEF Scalar, Wrap, Then
<1>2. p = Ok(r, s)
  OBVIOUS
<1> HIDE DEF p, q
<1>3. q = Ok(r, Nil)
  BY <1>1, <1>2, NilSet
<1> QED
  BY <1>3 DEF q

LEMMA ScalarNilAsks ==
    ASSUME NEW u, u[1] = NullSymbol, NEW next, NEW flag, process_nil(u).ret = "NEED_MORE_DATA"
    PROVE  Scalar(u, next, flag).ret = "NEED_MORE_DATA"
<1> DEFINE p == process_nil(u)
<1>1. Scalar(u, next, flag) = IF p.ret = "OK" THEN [p EXCEPT !.val = Nil] ELSE p
  BY NullFact DEF Scalar, Wrap, Then
<1> HIDE DEF p
<1> QED
  BY <1>1 DEF p

(* A reply of one line, whole and cut anywhere.                              *)
LEMMA LineWhole ==
    ASSUME NEW v \in Values, IsLine(v), NEW r \in Seq(Byte), NEW next, NEW flag
    PROVE  Scalar(Encode[v] \o r, next, flag) = Ok(r, v)
<1> DEFINE c == TextSymbol[v.type]
           x == Line(v.text) \o r
           u == <<c>> \o x
<1>1. c \in {"+", "-", "("} /\ c \in Byte /\ v.text \in Texts /\ NoEndOfLine(v.text)
      /\ Line(v.text) \in Seq(Byte)
  BY EncodeLine
<1>2. Encode[v] \o r = u
  <2>1. <<c>> \in Seq(Byte)
    BY <1>1
  <2>2. (<<c>> \o Line(v.text)) \o r = <<c>> \o (Line(v.text) \o r)
    BY <1>1, <2>1, ConcatAssociative
  <2> QED BY <2>2, EncodeLine
<1>3. x \in Seq(Byte)
  BY <1>1, ConcatProperties
<1>4. u[1] = c /\ has_read(u, 1) = x
  BY <1>1, <1>3, SymbolFact
<1>5. get_normal_string(x) = Ok(r, v.text)
  BY <1>1, NormalWhole
<1>6. TextType(c) = v.type /\ v = Text(v.type, v.text)
  BY EncodeLine, TextSymbolFact DEF LineTypes
<1> HIDE DEF u, x, c
<1>7. process_line(u, c) = Ok(r, v.text)
  BY <1>4, <1>5 DEF process_line
<1>8. Scalar(u, next, flag) = Ok(r, Text(v.type, v.text))
  <2>1. u[1] \in {"+", "-", "("} /\ process_line(u, u[1]) = Ok(r, v.text)
    BY <1>1, <1>4, <1>7
  <2>2. Scalar(u, next, flag) = Ok(r, Text(TextType(u[1]), v.text))
    BY <2>1, ScalarLine
  <2> QED BY <1>4, <1>6, <2>2
<1> QED
  BY <1>2, <1>6, <1>8

LEMMA LineAsks ==
    ASSUME NEW v \in Values, IsLine(v), NEW u \in Seq(Byte), NEW w \in Seq(Byte),
           u # <<>>, w # <<>>, u \o w = Encode[v], NEW next, NEW flag
    PROVE  Scalar(u, next, flag).ret = "NEED_MORE_DATA"
<1> DEFINE c == TextSymbol[v.type]
           x == Line(v.text)
           e == Encode[v]
<1>1. /\ c \in {"+", "-", "("} /\ c \in Byte /\ v.text \in Seq(Byte) /\ NoEndOfLine(v.text)
      /\ x \in Seq(Byte)
  BY EncodeLine DEF Texts
<1>6. Joins(e, u, w) /\ Joins(e, <<c>>, x)
  BY EncodeLine DEF Joins
<1>2. PICK y \in Seq(Byte) : u = <<c>> \o y /\ Joins(x, y, w)
  <2> HIDE DEF c, x, e
  <2> QED BY <1>1, <1>6, SymbolCut
<1>3. u[1] = c /\ has_read(u, 1) = y
  BY <1>1, <1>2, SymbolFact
<1>4. get_normal_string(y) = Fail("NEED_MORE_DATA", y)
  BY <1>1, <1>2, NormalAsks DEF Joins
<1> HIDE DEF c
<1>5. process_line(u, c) = Fail("NEED_MORE_DATA", y)
  BY <1>3, <1>4 DEF process_line
<1> QED
  <2>1. u[1] \in {"+", "-", "("} /\ process_line(u, u[1]).ret = "NEED_MORE_DATA"
    BY <1>1, <1>3, <1>5 DEF Fail
  <2> QED BY <2>1, ScalarLineAsks

-----------------------------------------------------------------------------
(* Blobs.                                                                    *)

LEMMA LineFirst ==
    ASSUME NEW d \in Texts, NEW r \in Seq(Byte)
    PROVE  /\ Line(d) \o r \in Seq(Byte)
           /\ Len(Line(d) \o r) > 2
           /\ (Line(d) \o r)[1] = d[1]
<1>1. d \in Seq(Byte) /\ Len(d) \in Nat /\ Len(d) > 0 /\ 1 \in 1 .. Len(d)
  BY EmptySeq DEF Texts
<1>2. /\ Line(d) \o r \in Seq(Byte)
      /\ Len(Line(d) \o r) = Len(d) + 2 + Len(r) /\ Len(r) \in Nat
      /\ \A i \in 1 .. Len(d) : (Line(d) \o r)[i] = d[i]
  BY <1>1, LineThen
<1> QED
  BY <1>1, <1>2

LEMMA BlobStringWhole ==
    ASSUME NEW t \in Texts, NEW r \in Seq(Byte), NEW next
    PROVE  process_blob_string(<<"$">> \o ((Line(Decimal[Len(t)]) \o Line(t)) \o r), next) = Ok(r, t)
<1> DEFINE h == Line(Decimal[Len(t)])
           x == (h \o Line(t)) \o r
           u == <<"$">> \o x
<1>1. t \in Seq(Byte) /\ Len(t) \in Nat /\ Line(t) \in Seq(Byte)
  BY LineFact DEF Texts
<1>2. Decimal[Len(t)] \in Texts /\ Decimal[Len(t)] \in Seq(Byte) /\ Decimal[Len(t)][1] # "-"
  BY <1>1, DecimalText DEF Texts
<1>3. h \in Seq(Byte)
  BY <1>2, LineFact
<1>4. x = h \o (Line(t) \o r)
  BY <1>1, <1>3, ConcatAssociative
<1>5. LenString(x) = Ok(r, t)
  BY <1>4, StringWhole
<1>6. Line(t) \o r \in Seq(Byte) /\ Len(Line(t) \o r) \in Nat
  BY <1>1, ConcatProperties, LenProperties
<1>7. x \in Seq(Byte) /\ Len(x) > 0 /\ x[1] = Decimal[Len(t)][1]
  <2>1. /\ h \o (Line(t) \o r) \in Seq(Byte)
        /\ Len(h \o (Line(t) \o r)) > 2
        /\ (h \o (Line(t) \o r))[1] = Decimal[Len(t)][1]
    BY <1>2, <1>6, LineFirst
  <2> HIDE DEF h, x
  <2>2. x \in Seq(Byte) /\ Len(x) > 2 /\ x[1] = Decimal[Len(t)][1]
    BY <1>4, <2>1
  <2> QED BY <2>2, LenProperties
<1>8. "$" \in Byte
  BY TextSymbolFact DEF Byte
<1> HIDE DEF x
<1>9. u[1] = "$" /\ has_read(u, 1) = x /\ Len(u) > 1 /\ u[2] # "-"
  <2>1. x # <<>>
    BY <1>7
  <2> QED BY <1>2, <1>7, <1>8, <2>1, SymbolFact
<1> HIDE DEF u
<1>10. process_blob_string(u, next) = Ok(r, t)
  BY <1>5, <1>9 DEF process_blob_string
<1> QED
  BY <1>10 DEF u, x

LEMMA BlobStringAsks ==
    ASSUME NEW t \in Texts, NEW u \in Seq(Byte), NEW w \in Seq(Byte), u # <<>>, w # <<>>,
           NEW e, Joins(e, u, w), Joins(e, <<"$">>, Line(Decimal[Len(t)]) \o Line(t)),
           NEW next, next # "-"
    PROVE  u[1] = "$" /\ process_blob_string(u, next).ret = "NEED_MORE_DATA"
<1> DEFINE h == Line(Decimal[Len(t)])
           x == h \o Line(t)
<1>1. t \in Seq(Byte) /\ Len(t) \in Nat /\ Line(t) \in Seq(Byte)
  BY LineFact DEF Texts
<1>2. Decimal[Len(t)] \in Texts /\ Decimal[Len(t)] \in Seq(Byte) /\ Decimal[Len(t)][1] # "-"
  BY <1>1, DecimalText DEF Texts
<1>3. h \in Seq(Byte)
  BY <1>2, LineFact
<1>4. x \in Seq(Byte) /\ "$" \in Byte
  BY <1>1, <1>3, ConcatProperties, TextSymbolFact DEF Byte
<1>5. PICK y \in Seq(Byte) : u = <<"$">> \o y /\ Joins(x, y, w)
  <2>1. Joins(e, <<"$">>, x)
    OBVIOUS
  <2> HIDE DEF x
  <2> QED BY <1>4, <2>1, SymbolCut
<1>6. LenString(y).ret = "NEED_MORE_DATA"
  BY <1>5, StringAsks DEF Joins
<1>7. u[1] = "$" /\ has_read(u, 1) = y /\ Len(u) = Len(y) + 1 /\ Len(y) \in Nat /\ (y # <<>> => u[2] = y[1])
  BY <1>4, <1>5, SymbolFact
<1>8. y # <<>> => y[1] # "-"
  <2> SUFFICES ASSUME y # <<>> PROVE y[1] # "-"
    OBVIOUS
  <2>1. Len(y) \in Nat /\ Len(y) >= 1 /\ Len(w) \in Nat
    BY EmptySeq, LenProperties
  <2>2. x[1] = y[1]
    <3>1. \A i \in 1 .. Len(y) + Len(w) : (y \o w)[i] = IF i <= Len(y) THEN y[i] ELSE w[i - Len(y)]
      BY ConcatProperties
    <3>2. (y \o w)[1] = y[1]
      BY <2>1, <3>1
    <3>3. x = y \o w
      BY <1>5 DEF Joins
    <3> HIDE DEF x
    <3> QED BY <3>2, <3>3
  <2>3. x[1] = Decimal[Len(t)][1]
    BY <1>1, <1>2, LineFirst
  <2> HIDE DEF x
  <2> QED BY <1>2, <2>2, <2>3
<1>9. (IF Len(u) > 1 THEN u[2] ELSE next) # "-"
  <2>1. Len(u) > 1 => y # <<>>
    BY <1>7, EmptySeq
  <2> QED BY <1>7, <1>8, <2>1
<1> QED
  BY <1>6, <1>7, <1>9 DEF process_blob_string

(* A blob, whole and cut anywhere: cut behind its `$`, the byte that stands  *)
(* in memory must not be '-'.                                                *)
LEMMA BlobWhole ==
    ASSUME NEW v \in Values, NEW t \in BlobTypes, IsBlob(v, t), NEW r \in Seq(Byte), NEW next, NEW flag
    PROVE  Scalar(Encode[v] \o r, next, flag) = Ok(r, v)
<1> DEFINE c == TextSymbol[t]
           z == Line(Decimal[Len(v.text)]) \o Line(v.text)
           u == <<c>> \o (z \o r)
<1>1. v.text \in Texts /\ c \in Byte /\ z \in Seq(Byte) /\ v = Text(t, v.text) /\ Encode[v] = <<c>> \o z
  BY EncodeBlob
<1>2. Encode[v] \o r = u
  <2> HIDE DEF z, c
  <2>1. <<c>> \in Seq(Byte)
    BY <1>1
  <2>2. (<<c>> \o z) \o r = <<c>> \o (z \o r)
    BY <1>1, <2>1, ConcatAssociative
  <2> QED BY <1>1, <2>2 DEF u
<1>3. z \o r \in Seq(Byte)
  BY <1>1, ConcatProperties
<1>4. u[1] = c /\ has_read(u, 1) = z \o r
  BY <1>1, <1>3, SymbolFact
<1>5. TextType(c) = t
  BY TextSymbolFact DEF BlobTypes
<1>6. CASE t = "BlobString"
  <2>1. c = "$"
    BY <1>6, TextSymbolFact
  <2>2. process_blob_string(u, next) = Ok(r, v.text)
    BY <1>1, <2>1, BlobStringWhole
  <2>3. u[1] = "$"
    BY <1>4, <2>1
  <2> HIDE DEF u
  <2>4. Scalar(u, next, flag) = Ok(r, Text(TextType("$"), v.text))
    BY <2>2, <2>3, ScalarBlob
  <2> QED BY <1>1, <1>2, <1>5, <2>1, <2>4
<1>7. CASE t = "BlobError"
  <2>1. c = "!"
    BY <1>7, TextSymbolFact
  <2>2. LenString(z \o r) = Ok(r, v.text)
    <3>1. v.text \in Seq(Byte) /\ Len(v.text) \in Nat
      BY <1>1, LenProperties DEF Texts
    <3>2. Line(v.text) \in Seq(Byte) /\ Line(Decimal[Len(v.text)]) \in Seq(Byte)
      BY EncodeBlob
    <3>3. z \o r = Line(Decimal[Len(v.text)]) \o (Line(v.text) \o r)
      BY <3>2, ConcatAssociative
    <3> QED BY <1>1, <3>3, StringWhole
  <2>3. u[1] = "!"
    BY <1>4, <2>1
  <2> HIDE DEF u, z
  <2>4. process_blob_error(u) = Ok(r, v.text)
    BY <1>4, <2>2, <2>3 DEF process_blob_error
  <2>5. Scalar(u, next, flag) = Ok(r, Text(TextType("!"), v.text))
    BY <2>3, <2>4, ScalarError
  <2> QED BY <1>1, <1>2, <1>5, <2>1, <2>5
<1> QED
  BY <1>6, <1>7 DEF BlobTypes

LEMMA BlobAsks ==
    ASSUME NEW v \in Values, NEW t \in BlobTypes, IsBlob(v, t), NEW u \in Seq(Byte), NEW w \in Seq(Byte),
           u # <<>>, w # <<>>, u \o w = Encode[v], NEW next, next # "-", NEW flag
    PROVE  Scalar(u, next, flag).ret = "NEED_MORE_DATA"
<1> DEFINE c == TextSymbol[t]
           x == Line(Decimal[Len(v.text)]) \o Line(v.text)
           e == Encode[v]
<1>1. v.text \in Texts /\ c \in Byte /\ x \in Seq(Byte)
  BY EncodeBlob
<1>2. Joins(e, u, w) /\ Joins(e, <<c>>, x)
  BY EncodeBlob DEF Joins
<1>3. CASE t = "BlobString"
  <2>1. c = "$"
    BY <1>3, TextSymbolFact
  <2>2. u[1] = "$" /\ process_blob_string(u, next).ret = "NEED_MORE_DATA"
    BY <1>1, <1>2, <2>1, BlobStringAsks
  <2> QED BY <2>2, ScalarBlobAsks
<1>4. CASE t = "BlobError"
  <2>1. c = "!"
    BY <1>4, TextSymbolFact
  <2>2. PICK y \in Seq(Byte) : u = <<c>> \o y /\ Joins(x, y, w)
    <3> HIDE DEF c, x, e
    <3> QED BY <1>1, <1>2, SymbolCut
  <2>3. LenString(y).ret = "NEED_MORE_DATA"
    BY <1>1, <2>2, StringAsks DEF Joins
  <2>4. u[1] = "!" /\ has_read(u, 1) = y
    BY <1>1, <2>1, <2>2, SymbolFact
  <2>5. process_blob_error(u).ret = "NEED_MORE_DATA"
    BY <2>3, <2>4 DEF process_blob_error
  <2> QED BY <2>4, <2>5, ScalarErrorAsks
<1> QED
  BY <1>3, <1>4 DEF BlobTypes

-----------------------------------------------------------------------------
(* The null and numbers of one digit.                                        *)

LEMMA Single ==
    ASSUME NEW c \in Byte
    PROVE  <<c>> \in Seq(Byte) /\ Len(<<c>>) = 1 /\ <<c>>[1] = c
  OBVIOUS

LEMMA HeadKept ==
    ASSUME NEW u \in Seq(Byte), NEW w \in Seq(Byte), u # <<>>
    PROVE  /\ (u \o w)[1] = u[1] /\ u \o w \in Seq(Byte) /\ u \o w # <<>>
           /\ Len(u \o w) = Len(u) + Len(w) /\ Len(u) \in Nat \ {0} /\ Len(w) \in Nat
<1>1. Len(u) \in Nat /\ Len(u) > 0 /\ Len(w) \in Nat /\ 1 \in 1 .. Len(u) + Len(w)
  BY EmptySeq, LenProperties
<1>2. /\ u \o w \in Seq(Byte) /\ Len(u \o w) = Len(u) + Len(w)
      /\ \A i \in 1 .. Len(u) + Len(w) : (u \o w)[i] = IF i <= Len(u) THEN u[i] ELSE w[i - Len(u)]
  BY ConcatProperties
<1>3. u \o w # <<>>
  BY <1>1, <1>2, EmptySeq
<1> QED
  BY <1>1, <1>2, <1>3

LEMMA EncodeNil ==
    ASSUME Nil \in Values, Resp3
    PROVE  Encode[Nil] = Line(<<NullSymbol>>)
<1>1. Encode[Nil] = Bytes(Nil, Encode)
  BY EncodeAssumption
<1>2. Nil.type = "NilValue"
  BY DEF Nil
<1>3. ~IsComplex(Nil)
  BY <1>2, ComplexSymbolFact DEF IsComplex
<1>4. /\ Nil.type \notin {"SimpleString", "SimpleError", "BigNumber", "Double"}
      /\ Nil.type \notin {"BlobString", "BlobError", "Verbatim"}
      /\ Nil.type # "Number" /\ Nil.type # "Boolean"
  BY <1>2
<1>5. Bytes(Nil, Encode) = Line(IF Resp3 THEN <<NullSymbol>> ELSE <<"$", "-", "1">>)
  BY <1>2, <1>3, <1>4, SMT DEF Bytes
<1> QED
  BY <1>1, <1>5

(* The null of RESP 3, whole and cut anywhere.                               *)
LEMMA NilWhole ==
    ASSUME NEW r \in Seq(Byte), NEW next, NEW flag, Nil \in Values, Resp3
    PROVE  Scalar(Encode[Nil] \o r, next, flag) = Ok(r, Nil)
<1> DEFINE t == <<NullSymbol>>
           u == Line(t) \o r
<1>1. t \in Seq(Byte) /\ Len(t) = 1 /\ t[1] = NullSymbol
  <2>1. NullSymbol \in Byte
    BY DEF Byte
  <2> QED BY <2>1, Single
<1>2. Line(t) \in Seq(Byte) /\ Len(Line(t)) = 3
  <2>1. Line(t) \in Seq(Byte) /\ Len(Line(t)) = Len(t) + 2
    BY <1>1, LineFact
  <2> HIDE DEF t
  <2> QED BY <1>1, <2>1
<1>3. /\ u \in Seq(Byte) /\ Len(u) = 3 + Len(r) /\ Len(r) \in Nat
      /\ u[1] = NullSymbol /\ u[2] = "CR" /\ u[3] = "LF"
  <2> HIDE DEF t
  <2>1. /\ u \in Seq(Byte) /\ Len(u) = Len(t) + 2 + Len(r) /\ Len(r) \in Nat
        /\ \A i \in 1 .. Len(t) : u[i] = t[i]
        /\ u[Len(t) + 1] = "CR" /\ u[Len(t) + 2] = "LF"
    BY <1>1, LineThen
  <2> HIDE DEF u
  <2> QED BY <1>1, <2>1
<1>4. has_read(u, 3) = r
  <2> HIDE DEF t
  <2>1. has_read(Line(t) \o r, Len(Line(t))) = r
    BY <1>2, Skipped
  <2> QED BY <1>2, <2>1
<1> HIDE DEF u
<1>5. SubSeq(u, 2, 3) = CRLF
  <2>1. 2 \in 1 .. Len(u) - 1
    BY <1>3
  <2>2. SubSeq(u, 2, 2 + 1) = CRLF
    BY <1>3, <2>1, EndOfLine
  <2> QED BY <2>2
<1>6. process_nil(u) = Ok(r, NoValue)
  BY <1>3, <1>4, <1>5 DEF process_nil
<1>7. Scalar(u, next, flag) = Ok(r, Nil)
  BY <1>3, <1>6, ScalarNil
<1>8. Encode[Nil] \o r = u
  BY EncodeNil DEF u
<1> QED
  BY <1>7, <1>8

LEMMA NilAsks ==
    ASSUME NEW u \in Seq(Byte), NEW w \in Seq(Byte), u # <<>>, w # <<>>, u \o w = Encode[Nil],
           NEW next, NEW flag, Nil \in Values, Resp3
    PROVE  Len(u) <= 2 /\ Scalar(u, next, flag).ret = "NEED_MORE_DATA"
<1> DEFINE t == <<NullSymbol>>
<1>1. t \in Seq(Byte) /\ Len(t) = 1 /\ t[1] = NullSymbol
  <2>1. NullSymbol \in Byte
    BY DEF Byte
  <2> QED BY <2>1, Single
<1>2. u \o w = Line(t)
  BY EncodeNil
<1> HIDE DEF t
<1>3. Len(u) \in Nat /\ Len(u) <= Len(t) + 1 /\ \A i \in 1 .. Len(u) : u[i] = Line(t)[i]
  BY <1>1, <1>2, LineCut
<1>4. Line(t)[1] = t[1]
  <2>1. \A i \in 1 .. Len(t) : Line(t)[i] = t[i]
    BY <1>1, LineFact
  <2> QED BY <1>1, <2>1
<1>5. Len(u) > 0
  BY <1>3, EmptySeq
<1>6. u[1] = NullSymbol /\ Len(u) <= 2
  BY <1>1, <1>3, <1>4, <1>5
<1>7. process_nil(u).ret = "NEED_MORE_DATA"
  BY <1>3, <1>6 DEF process_nil, Fail
<1> QED
  BY <1>6, <1>7, ScalarNilAsks

LEMMA EncodeNumber ==
    ASSUME NEW n \in 0..9, Integer(n) \in Values
    PROVE  /\ Encode[Integer(n)] = <<":">> \o Line(Decimal[n])
           /\ Decimal[n] \in Texts /\ Line(Decimal[n]) \in Seq(Byte) /\ Len(Line(Decimal[n])) = 3
                 /\ ":" \in Byte
<1> DEFINE v == Integer(n)
<1>1. v.type = "Number" /\ v.number = n
  BY DEF Integer
<1>2. Encode[v] = Bytes(v, Encode)
  BY EncodeAssumption
<1>3. Bytes(v, Encode) = <<":">> \o Line(IF v.number < 0
      THEN <<"-">> \o Decimal[-v.number] ELSE Decimal[v.number])
  <2> HIDE DEF v
  <2>1. ~IsComplex(v)
    BY <1>1, ComplexSymbolFact DEF IsComplex
  <2>2. /\ v.type \notin {"SimpleString", "SimpleError", "BigNumber", "Double"}
        /\ v.type \notin {"BlobString", "BlobError", "Verbatim"}
        /\ v.type # "NilValue" /\ v.type # "Boolean"
    BY <1>1
  <2> QED BY <1>1, <2>1, <2>2, SMT DEF Bytes
<1>4. Decimal[n] \in Texts /\ Decimal[n] \in Seq(Byte)
  BY DecimalText DEF Texts
<1>5. Decimal[n] = <<Digits[n + 1]>>
  <2>1. n \in Nat /\ n < 10
    OBVIOUS
  <2> QED BY <2>1, DecimalDef
<1>6. Len(Decimal[n]) = 1
  BY <1>5
<1>7. Line(Decimal[n]) \in Seq(Byte) /\ Len(Line(Decimal[n])) = 3
  <2>1. Line(Decimal[n]) \in Seq(Byte) /\ Len(Line(Decimal[n])) = Len(Decimal[n]) + 2
    BY <1>4, LineFact
  <2> QED BY <1>6, <2>1
<1> HIDE DEF v
<1>8. Encode[v] = <<":">> \o Line(Decimal[n])
  BY <1>1, <1>2, <1>3
<1> QED
  BY <1>4, <1>7, <1>8 DEF v, Byte

(* A number of one digit whose four bytes are here.                          *)
LEMMA NumberWhole ==
    ASSUME NEW n \in 0..9, Integer(n) \in Values, NEW r \in Seq(Byte), NEW next, NEW flag
    PROVE  Scalar(Encode[Integer(n)] \o r, next, flag) = Ok(r, Integer(n))
<1> DEFINE d == Decimal[n]
           x == Line(d) \o r
           u == <<":">> \o x
<1>1. d \in Texts /\ NoEndOfLine(d) /\ d[1] # "-" /\ d # <<>> /\ is_num(d) /\ Number[d] = n
  BY DecimalText, NumberReadsDecimal
<1>2. get_normal_string(x) = Ok(r, d)
  BY <1>1, NormalWhole
<1>3. Line(d) \in Seq(Byte) /\ ":" \in Byte /\ x \in Seq(Byte)
  BY EncodeNumber, ConcatProperties
<1>4. u[1] = ":" /\ has_read(u, 1) = x
  BY <1>3, SymbolFact
<1>5. Encode[Integer(n)] \o r = u
  <2>1. Encode[Integer(n)] = <<":">> \o Line(d) /\ <<":">> \in Seq(Byte)
    BY <1>3, EncodeNumber, Single
  <2> HIDE DEF d
  <2>2. (<<":">> \o Line(d)) \o r = <<":">> \o (Line(d) \o r)
    BY <1>3, <2>1, ConcatAssociative
  <2> QED BY <2>1, <2>2 DEF u, x
<1> HIDE DEF x, d, u
<1>6. NumberIn(Ok(r, d)) = Ok(r, n)
  BY <1>1 DEF NumberIn, Ok
<1>7. process_number(u) = Ok(r, n)
  BY <1>2, <1>4, <1>6 DEF process_number
<1>8. Scalar(u, next, flag) = Ok(r, Integer(n))
  BY <1>4, <1>7, ScalarNumber
<1> QED
  BY <1>5, <1>8

(* Cut, it has fewer than the four bytes that parse_array looks for.         *)
LEMMA NumberShort ==
    ASSUME NEW n \in 0..9, Integer(n) \in Values, NEW u \in Seq(Byte), NEW w \in Seq(Byte), w # <<>>,
           u \o w = Encode[Integer(n)]
    PROVE  Len(u) <= 3
<1>1. Len(u \o w) = Len(u) + Len(w) /\ Len(u) \in Nat /\ Len(w) \in Nat \ {0}
  BY ConcatProperties, LenProperties, EmptySeq
<1>2. Len(Encode[Integer(n)]) = 4
  <2> DEFINE d == Line(Decimal[n])
  <2>1. Encode[Integer(n)] = <<":">> \o d /\ d \in Seq(Byte) /\ ":" \in Byte /\ Len(d) = 3
    BY EncodeNumber
  <2> HIDE DEF d
  <2>2. Len(<<":">> \o d) = Len(d) + 1
    BY <2>1, SymbolFact
  <2>3. Len(<<":">> \o d) = 4
    BY <2>1, <2>2
  <2> QED BY <2>1, <2>3
<1> QED
  BY <1>1, <1>2

-----------------------------------------------------------------------------
(* What every result is: a lemma ...Within says that a function that         *)
(* succeeds leaves at most so many bytes of the buffer.                      *)

Result(ret, rest, val) == [ret |-> ret, rest |-> rest, val |-> val]

(* A result that leaves at most n bytes. *)
Within(p, n) ==
    /\ p = Result(p.ret, p.rest, p.val)
    /\ p.ret = "OK" => p.rest \in Seq(Byte) /\ Len(p.rest) <= n

(* A result with another value or another code.                              *)
LEMMA Revalued ==
    ASSUME NEW a, NEW b, NEW c, NEW x
    PROVE  /\ [Result(a, b, c) EXCEPT !.val = x] = Result(a, b, x)
           /\ [Result(a, b, c) EXCEPT !.ret = x] = Result(x, b, c)
  BY DEF Result

LEMMA ResultFact ==
    ASSUME NEW a, NEW b, NEW c
    PROVE  Result(a, b, c).ret = a /\ Result(a, b, c).rest = b /\ Result(a, b, c).val = c
  BY DEF Result

LEMMA OkWithin ==
    ASSUME NEW u \in Seq(Byte), NEW n, Len(u) <= n, NEW x
    PROVE  /\ Within(Ok(u, x), n)
           /\ Ok(u, x).ret = "OK" /\ Ok(u, x).rest = u /\ Ok(u, x).val = x
  BY DEF Within, Ok, Result

LEMMA FailWithin ==
    ASSUME NEW ret, ret # "OK", NEW u, NEW n
    PROVE  Within(Fail(ret, u), n) /\ Fail(ret, u).ret = ret
  BY DEF Within, Fail, Result

LEMMA Read ==
    ASSUME NEW u \in Seq(Byte), NEW n \in Nat
    PROVE  /\ has_read(u, n) \in Seq(Byte) /\ Len(has_read(u, n)) \in Nat /\ Len(u) \in Nat
           /\ Len(has_read(u, n)) <= Len(u)
           /\ n <= Len(u) => Len(has_read(u, n)) = Len(u) - n
<1>1. Len(u) \in Nat
  BY LenProperties
<1>2. CASE n <= Len(u)
  <2>1. \A i \in n + 1 .. Len(u) : u[i] \in Byte
    BY <1>1, ElementOfSeq
  <2>2. /\ SubSeq(u, n + 1, Len(u)) \in Seq(Byte)
        /\ Len(SubSeq(u, n + 1, Len(u))) = IF n + 1 <= Len(u) THEN Len(u) - (n + 1) + 1 ELSE 0
    BY <1>1, <2>1, SubSeqProperties
  <2>3. Len(SubSeq(u, n + 1, Len(u))) = Len(u) - n
    BY <1>1, <1>2, <2>2
  <2>4. has_read(u, n) = SubSeq(u, n + 1, Len(u))
    BY <1>2 DEF has_read
  <2> QED BY <1>1, <1>2, <2>2, <2>3, <2>4
<1>3. CASE ~(n <= Len(u))
  BY <1>1, <1>3 DEF has_read
<1> QED
  BY <1>2, <1>3

LEMMA LenStringWithin ==
    ASSUME NEW u \in Seq(Byte), NEW n \in Nat
    PROVE  /\ Within(get_len_string(u, n), Len(u))
           /\ get_len_string(u, n).ret = "OK" => get_len_string(u, n).val \in Seq(Byte)
<1>1. n + Len(CRLF) \in Nat
  BY DEF CRLF
<1>2. move_item(u, n) \in Seq(Byte) /\ Len(move_item(u, n)) <= Len(u) /\ Len(u) \in Nat
  BY <1>1, Read DEF move_item
<1>3. CASE n = 0
  <2>1. get_len_string(u, n) = Ok(u, <<>>)
    BY <1>3 DEF get_len_string
  <2>2. Len(u) <= Len(u)
    BY <1>2
  <2> DEFINE x == <<>>
  <2>3. x \in Seq(Byte)
    BY EmptySeq
  <2>4. get_len_string(u, n) = Ok(u, x)
    BY <2>1
  <2> HIDE DEF x
  <2>5. Within(Ok(u, x), Len(u)) /\ Ok(u, x).val = x
    BY <2>2, OkWithin
  <2> QED BY <2>3, <2>4, <2>5
<1>4. CASE n # 0 /\ Len(u) <= n + 1
  <2>1. get_len_string(u, n) = Fail("NEED_MORE_DATA", u)
    BY <1>4 DEF get_len_string
  <2> QED BY <2>1, FailWithin
<1>5. CASE n # 0 /\ ~(Len(u) <= n + 1) /\ u[n + 1] = "CR"
  <2>1. get_len_string(u, n) = Ok(move_item(u, n), SubSeq(u, 1, n))
    BY <1>5 DEF get_len_string
  <2>2. SubSeq(u, 1, n) \in Seq(Byte)
    <3>1. n <= Len(u)
      BY <1>2, <1>5
    <3>2. \A i \in 1 .. n : u[i] \in Byte
      BY <1>2, <3>1, ElementOfSeq
    <3> QED BY <3>2, SubSeqProperties
  <2> DEFINE x == SubSeq(u, 1, n)
             w == move_item(u, n)
  <2>3. Within(Ok(w, x), Len(u)) /\ Ok(w, x).val = x
    <3> HIDE DEF x, w
    <3>1. w \in Seq(Byte) /\ Len(w) <= Len(u)
      BY <1>2 DEF w
    <3> QED BY <3>1, OkWithin
  <2> QED BY <2>1, <2>2, <2>3
<1>6. CASE n # 0 /\ ~(Len(u) <= n + 1) /\ ~(u[n + 1] = "CR")
  <2>1. get_len_string(u, n) = Fail("PARSE_FORMAT_ERROR", u)
    BY <1>6 DEF get_len_string
  <2> QED BY <2>1, FailWithin
<1> QED
  BY <1>3, <1>4, <1>5, <1>6

LEMMA NormalWithin ==
    ASSUME NEW u \in Seq(Byte)
    PROVE  /\ Within(get_normal_string(u), Len(u))
           /\ get_normal_string(u).ret = "OK" => get_normal_string(u).val \in Seq(Byte)
<1> DEFINE ends == {i \in 1 .. Len(u) - 1 : SubSeq(u, i, i + 1) = CRLF}
<1>1. CASE ends = {}
  <2>1. get_normal_string(u) = Fail("NEED_MORE_DATA", u)
    BY <1>1 DEF get_normal_string
  <2> QED BY <2>1, FailWithin
<1>2. CASE ends # {}
  <2>1. \A i \in ends : i \in Nat /\ i >= 1
    BY LenProperties
  <2>2. get_normal_string(u) = get_len_string(u, Min(ends) - 1)
    BY <1>2 DEF get_normal_string
  <2>3. Min(ends) \in ends
    <3> HIDE DEF ends
    <3>1. ends \subseteq Nat
      BY <2>1
    <3>2. \E n \in ends : \A m \in ends : n <= m
      BY <1>2, <3>1, LeastNat
    <3> QED BY <3>2 DEF Min
  <2>4. Min(ends) - 1 \in Nat
    <3> HIDE DEF ends
    <3> QED BY <2>1, <2>3
  <2> HIDE DEF ends
  <2> QED BY <2>2, <2>4, LenStringWithin
<1> QED
  BY <1>1, <1>2

LEMMA LenWithin ==
    ASSUME NEW u \in Seq(Byte)
    PROVE  /\ Within(get_aggregate_len(u), Len(u))
           /\ get_aggregate_len(u).ret = "OK" => get_aggregate_len(u).val \in Nat
<1> DEFINE s == get_normal_string(u)
<1>1. Within(s, Len(u)) /\ (s.ret = "OK" => s.val \in Seq(Byte))
  BY NormalWithin
<1> HIDE DEF s
<1>2. get_aggregate_len(u) = IF s.ret = "OK"
                             THEN IF is_num(s.val) THEN Ok(s.rest, Number[s.val]) ELSE Fail("NOT_A_NUMBER", s.rest)
                             ELSE s
  BY DEF get_aggregate_len, Then, s
<1>3. CASE s.ret # "OK"
  <2>1. get_aggregate_len(u) = s
    BY <1>2, <1>3
  <2> QED BY <1>1, <1>3, <2>1
<1>4. CASE s.ret = "OK" /\ is_num(s.val)
  <2>1. s.val \in Seq(Byte) /\ \A i \in DOMAIN s.val : s.val[i] \in Range(Digits)
    BY <1>1, <1>4 DEF is_num
  <2>2. s.val \in Numerals
    <3>1. s.val \in [1 .. Len(s.val) -> Range(Digits)] /\ Len(s.val) \in Nat
      BY <2>1, SeqDef
    <3> QED BY <3>1, SeqDef DEF Numerals
  <2>3. Number[s.val] \in Nat
    BY <2>2, NumberDef
  <2>4. get_aggregate_len(u) = Ok(s.rest, Number[s.val])
    BY <1>2, <1>4
  <2> QED BY <1>1, <1>4, <2>3, <2>4, OkWithin DEF Within
<1>5. CASE s.ret = "OK" /\ ~is_num(s.val)
  <2>1. get_aggregate_len(u) = Fail("NOT_A_NUMBER", s.rest)
    BY <1>2, <1>5
  <2> QED BY <2>1, FailWithin
<1> QED
  BY <1>3, <1>4, <1>5

(* What leaves at most m bytes leaves at most n, if m <= n.                  *)
LEMMA WithinMore ==
    ASSUME NEW p, NEW m \in Int, NEW n \in Int, Within(p, m), m <= n
    PROVE  Within(p, n)
<1>1. p.rest \in Seq(Byte) => Len(p.rest) \in Nat
  BY LenProperties
<1> QED
  BY <1>1 DEF Within

(* Giving a result another value. *)
LEMMA RevaluedWithin ==
    ASSUME NEW p, NEW n, Within(p, n), NEW x, NEW q, q = IF p.ret = "OK" THEN [p EXCEPT !.val = x] ELSE p
    PROVE  Within(q, n)
<1>1. CASE p.ret = "OK"
  <2>1. q = [p EXCEPT !.val = x]
    BY <1>1
  <2>2. q = Result(p.ret, p.rest, x)
    <3> DEFINE a == p.ret
               b == p.rest
               c == p.val
    <3>1. p = Result(a, b, c)
      BY DEF Within
    <3> HIDE DEF a, b, c
    <3>2. [Result(a, b, c) EXCEPT !.val = x] = Result(a, b, x)
      BY Revalued
    <3>3. q = Result(a, b, x)
      BY <2>1, <3>1, <3>2
    <3> QED BY <3>3 DEF a, b
  <2>3. q.ret = p.ret /\ q.rest = p.rest /\ q.val = x
    BY <2>2, ResultFact
  <2> QED BY <1>1, <2>2, <2>3 DEF Within
<1>2. CASE p.ret # "OK"
  BY <1>2
<1> QED
  BY <1>1, <1>2

LEMMA LenStringBodyWithin ==
    ASSUME NEW u \in Seq(Byte)
    PROVE  Within(LenString(u), Len(u))
<1> DEFINE g == get_aggregate_len(u)
<1>1. Within(g, Len(u)) /\ (g.ret = "OK" => g.val \in Nat)
  BY LenWithin
<1> HIDE DEF g
<1>2. LenString(u) = IF g.ret = "OK" THEN get_len_string(g.rest, g.val) ELSE g
  BY DEF LenString, Then, g
<1>3. CASE g.ret = "OK"
  <2>1. g.rest \in Seq(Byte) /\ Len(g.rest) <= Len(u) /\ Len(g.rest) \in Nat /\ Len(u) \in Nat
        /\ g.val \in Nat
    BY <1>1, <1>3, LenProperties DEF Within
  <2>2. Within(get_len_string(g.rest, g.val), Len(g.rest))
    BY <2>1, LenStringWithin
  <2> DEFINE q == get_len_string(g.rest, g.val)
  <2>3. LenString(u) = q
    BY <1>2, <1>3
  <2> HIDE DEF q
  <2>4. Within(q, Len(g.rest))
    BY <2>2 DEF q
  <2>5. Within(q, Len(u))
    BY <2>1, <2>4, WithinMore
  <2> QED BY <2>3, <2>5
<1>4. CASE g.ret # "OK"
  <2>1. LenString(u) = g
    BY <1>2, <1>4
  <2> QED BY <1>1, <2>1
<1> QED
  BY <1>3, <1>4

LEMMA NumberWithin ==
    ASSUME NEW s, NEW n, Within(s, n)
    PROVE  Within(NumberIn(s), n)
<1> DEFINE abs == IF s.val[1] = "-" THEN Tail(s.val) ELSE s.val
           x == IF s.val[1] = "-" THEN -Number[abs] ELSE Number[abs]
<1>1. NumberIn(s) = IF s.ret = "OK" /\ s.val # <<>> /\ is_num(abs) THEN Ok(s.rest, x) ELSE Fail("PARSE_FORMAT_ERROR", s.rest)
  BY DEF NumberIn
<1> HIDE DEF x
<1>2. CASE s.ret = "OK" /\ s.val # <<>> /\ is_num(abs)
  <2>1. NumberIn(s) = Ok(s.rest, x)
    BY <1>1, <1>2
  <2>2. s.rest \in Seq(Byte) /\ Len(s.rest) <= n
    BY <1>2 DEF Within
  <2> QED BY <2>1, <2>2, OkWithin
<1>3. CASE ~(s.ret = "OK" /\ s.val # <<>> /\ is_num(abs))
  <2>1. NumberIn(s) = Fail("PARSE_FORMAT_ERROR", s.rest)
    BY <1>1, <1>3
  <2> QED BY <2>1, FailWithin
<1> QED
  BY <1>2, <1>3

LEMMA BoolWithin ==
    ASSUME NEW s, NEW n, Within(s, n), NEW flag
    PROVE  Within(BoolIn(s, flag), n)
<1>1. CASE s.ret # "OK" \/ Len(s.val) # 1
  <2>1. BoolIn(s, flag) = Fail("PARSE_FORMAT_ERROR", s.rest)
    BY <1>1 DEF BoolIn
  <2> QED BY <2>1, FailWithin
<1>2. CASE ~(s.ret # "OK" \/ Len(s.val) # 1) /\ s.val = <<"t">>
  <2>1. BoolIn(s, flag) = Fail("ONE", s.rest)
    BY <1>2 DEF BoolIn
  <2> QED BY <2>1, FailWithin
<1>3. CASE ~(s.ret # "OK" \/ Len(s.val) # 1) /\ s.val # <<"t">>
  <2>1. BoolIn(s, flag) = Ok(s.rest, flag)
    BY <1>3 DEF BoolIn
  <2>2. s.rest \in Seq(Byte) /\ Len(s.rest) <= n
    BY <1>3 DEF Within
  <2> QED BY <2>1, <2>2, OkWithin
<1> QED
  BY <1>1, <1>2, <1>3

-----------------------------------------------------------------------------
(* Each element takes at least its symbol.                                   *)

LEMMA FirstRead ==
    ASSUME NEW u \in Seq(Byte), u # <<>>
    PROVE  /\ Len(u) \in Nat /\ Len(u) >= 1 /\ Len(u) - 1 \in Nat
           /\ has_read(u, 1) \in Seq(Byte) /\ Len(has_read(u, 1)) = Len(u) - 1
<1>1. Len(u) \in Nat /\ Len(u) >= 1 /\ 1 \in Nat
  BY EmptySeq
<1> QED
  BY <1>1, Read

LEMMA BlobStringWithin ==
    ASSUME NEW u \in Seq(Byte), u # <<>>, NEW next
    PROVE  Within(process_blob_string(u, next), Len(u) - 1)
<1> DEFINE y == has_read(u, 1)
           c == IF Len(u) > 1 THEN u[2] ELSE next
<1>1. y \in Seq(Byte) /\ Len(y) = Len(u) - 1
  BY FirstRead
<1>2. Within(LenString(y), Len(u) - 1)
  <2> HIDE DEF y
  <2>1. Within(LenString(y), Len(y))
    BY <1>1, LenStringBodyWithin
  <2> QED BY <1>1, <2>1
<1> HIDE DEF c
<1>3. process_blob_string(u, next) =
         IF u[1] # "$" THEN Fail("PARSE_FORMAT_ERROR", u)
         ELSE IF c = "-" THEN [Fail("NIL_VALUE", move_item(u, 3)) EXCEPT !.val = <<"-">>]
         ELSE LenString(y)
  BY DEF process_blob_string, c
<1> HIDE DEF y
<1>4. CASE u[1] # "$"
  <2>1. process_blob_string(u, next) = Fail("PARSE_FORMAT_ERROR", u)
    BY <1>3, <1>4
  <2> QED BY <2>1, FailWithin
<1>5. CASE u[1] = "$" /\ c = "-"
  <2> DEFINE a == "NIL_VALUE"
             b == move_item(u, 3)
             x == <<"-">>
  <2>1. process_blob_string(u, next) = [Result(a, b, NoValue) EXCEPT !.val = x]
    BY <1>3, <1>5 DEF Fail, Result
  <2>2. a # "OK"
    OBVIOUS
  <2> HIDE DEF a, b, x
  <2>3. [Result(a, b, NoValue) EXCEPT !.val = x] = Result(a, b, x)
    BY Revalued
  <2>4. Within(Result(a, b, x), Len(u) - 1)
    BY <2>2, ResultFact DEF Within
  <2> QED BY <2>1, <2>3, <2>4
<1>6. CASE u[1] = "$" /\ ~(c = "-")
  <2>1. process_blob_string(u, next) = LenString(y)
    BY <1>3, <1>6
  <2> QED BY <1>2, <2>1
<1> QED
  BY <1>4, <1>5, <1>6

LEMMA BlobErrorWithin ==
    ASSUME NEW u \in Seq(Byte), u # <<>>
    PROVE  Within(process_blob_error(u), Len(u) - 1)
<1> DEFINE y == has_read(u, 1)
<1>1. y \in Seq(Byte) /\ Len(y) = Len(u) - 1
  BY FirstRead
<1>2. Within(LenString(y), Len(y))
  BY <1>1, LenStringBodyWithin
<1>3. CASE u[1] # "!"
  <2>1. process_blob_error(u) = Fail("PARSE_FORMAT_ERROR", u)
    BY <1>3 DEF process_blob_error
  <2> QED BY <2>1, FailWithin
<1>4. CASE u[1] = "!"
  <2>1. process_blob_error(u) = LenString(y)
    BY <1>4 DEF process_blob_error
  <2> HIDE DEF y
  <2> QED BY <1>1, <1>2, <2>1
<1> QED
  BY <1>3, <1>4

LEMMA LineWithin ==
    ASSUME NEW u \in Seq(Byte), u # <<>>
    PROVE  Within(process_line(u, u[1]), Len(u) - 1)
<1> DEFINE y == has_read(u, 1)
<1>1. y \in Seq(Byte) /\ Len(y) = Len(u) - 1
  BY FirstRead
<1>2. Within(get_normal_string(y), Len(y))
  BY <1>1, NormalWithin
<1>3. process_line(u, u[1]) = get_normal_string(y)
  BY DEF process_line
<1> HIDE DEF y
<1> QED
  BY <1>1, <1>2, <1>3

LEMMA NumberValueWithin ==
    ASSUME NEW u \in Seq(Byte), u # <<>>
    PROVE  Within(process_number(u), Len(u) - 1)
<1> DEFINE y == has_read(u, 1)
<1>1. y \in Seq(Byte) /\ Len(y) = Len(u) - 1
  BY FirstRead
<1>2. Within(NumberIn(get_normal_string(y)), Len(y))
  <2>1. Within(get_normal_string(y), Len(y))
    BY <1>1, NormalWithin
  <2> HIDE DEF y
  <2> QED BY <2>1, NumberWithin
<1>3. CASE u[1] # ":"
  <2>1. process_number(u) = Fail("PARSE_FORMAT_ERROR", u)
    BY <1>3 DEF process_number
  <2> QED BY <2>1, FailWithin
<1>4. CASE u[1] = ":"
  <2>1. process_number(u) = NumberIn(get_normal_string(y))
    BY <1>4 DEF process_number
  <2> HIDE DEF y
  <2> QED BY <1>1, <1>2, <2>1
<1> QED
  BY <1>3, <1>4

LEMMA BooleanWithin ==
    ASSUME NEW u \in Seq(Byte), u # <<>>, NEW flag
    PROVE  Within(process_bool(u, flag), Len(u) - 1)
<1> DEFINE y == has_read(u, 1)
<1>1. y \in Seq(Byte) /\ Len(y) = Len(u) - 1
  BY FirstRead
<1>2. Within(BoolIn(get_normal_string(y), flag), Len(y))
  <2>1. Within(get_normal_string(y), Len(y))
    BY <1>1, NormalWithin
  <2> HIDE DEF y
  <2> QED BY <2>1, BoolWithin
<1>3. CASE u[1] # "#"
  <2>1. process_bool(u, flag) = Fail("PARSE_FORMAT_ERROR", u)
    BY <1>3 DEF process_bool
  <2> QED BY <2>1, FailWithin
<1>4. CASE u[1] = "#"
  <2>1. process_bool(u, flag) = BoolIn(get_normal_string(y), flag)
    BY <1>4 DEF process_bool
  <2> HIDE DEF y
  <2> QED BY <1>1, <1>2, <2>1
<1> QED
  BY <1>3, <1>4

LEMMA NilWithin ==
    ASSUME NEW u \in Seq(Byte), u # <<>>
    PROVE  Within(process_nil(u), Len(u) - 1)
<1>1. Len(u) \in Nat /\ 3 \in Nat
  BY LenProperties
<1>2. CASE u[1] # NullSymbol
  <2>1. process_nil(u) = Fail("PARSE_FORMAT_ERROR", u)
    BY <1>2 DEF process_nil
  <2> QED BY <2>1, FailWithin
<1>3. CASE u[1] = NullSymbol /\ Len(u) < 3
  <2>1. process_nil(u) = Fail("NEED_MORE_DATA", u)
    BY <1>3 DEF process_nil
  <2> QED BY <2>1, FailWithin
<1>4. CASE u[1] = NullSymbol /\ ~(Len(u) < 3) /\ SubSeq(u, 2, 3) = CRLF
  <2> DEFINE w == has_read(u, 3)
  <2>1. process_nil(u) = Ok(w, NoValue)
    BY <1>4 DEF process_nil
  <2>2. w \in Seq(Byte) /\ Len(w) = Len(u) - 3
    BY <1>1, <1>4, Read
  <2> HIDE DEF w
  <2>3. Len(w) <= Len(u) - 1
    BY <1>1, <2>2
  <2> DEFINE n == Len(u) - 1
             x == NoValue
  <2> HIDE DEF n, x
  <2>4. Within(Ok(w, x), n)
    BY <2>2, <2>3, OkWithin DEF n
  <2> QED BY <2>1, <2>4 DEF n, x
<1>5. CASE u[1] = NullSymbol /\ ~(Len(u) < 3) /\ SubSeq(u, 2, 3) # CRLF
  <2>1. process_nil(u) = Fail("PARSE_FORMAT_ERROR", u)
    BY <1>5 DEF process_nil
  <2> QED BY <2>1, FailWithin
<1> QED
  BY <1>2, <1>3, <1>4, <1>5

LEMMA VerbatimWithin ==
    ASSUME NEW u \in Seq(Byte), u # <<>>
    PROVE  Within(process_verbatim_string(u), Len(u) - 1)
<1> DEFINE y == has_read(u, 1)
           n == get_aggregate_len(y)
           q == get_len_string(n.rest, n.val)
<1>1. y \in Seq(Byte) /\ Len(y) = Len(u) - 1 /\ Len(u) \in Nat
  BY FirstRead
<1>2. Within(n, Len(y)) /\ (n.ret = "OK" => n.val \in Nat)
  BY <1>1, LenWithin
<1>3. CASE u[1] # "="
  <2>1. process_verbatim_string(u) = Fail("PARSE_FORMAT_ERROR", u)
    BY <1>3 DEF process_verbatim_string
  <2> QED BY <2>1, FailWithin
<1>4. CASE u[1] = "=" /\ n.ret # "OK"
  <2>1. process_verbatim_string(u) = n
    BY <1>4 DEF process_verbatim_string, Then
  <2> HIDE DEF y, n
  <2> QED BY <1>1, <1>2, <2>1
<1>5. CASE u[1] = "=" /\ n.ret = "OK" /\ (Len(n.rest) < 4 \/ n.rest[4] # ":")
  <2>1. process_verbatim_string(u) = Fail("PARSE_FORMAT_ERROR", n.rest)
    BY <1>5 DEF process_verbatim_string, Then
  <2> QED BY <2>1, FailWithin
<1>6. CASE u[1] = "=" /\ n.ret = "OK" /\ ~(Len(n.rest) < 4 \/ n.rest[4] # ":")
  <2>1. process_verbatim_string(u) = q
    BY <1>6 DEF process_verbatim_string, Then
  <2> HIDE DEF y, n
  <2>2. n.rest \in Seq(Byte) /\ Len(n.rest) <= Len(y) /\ Len(n.rest) \in Nat /\ n.val \in Nat
    BY <1>2, <1>6, LenProperties DEF Within
  <2>3. Within(q, Len(n.rest))
    BY <2>2, LenStringWithin
  <2> HIDE DEF q
  <2>4. Within(q, Len(u) - 1)
    BY <1>1, <2>2, <2>3, WithinMore
  <2> QED BY <2>1, <2>4
<1> QED
  BY <1>3, <1>4, <1>5, <1>6

(* An element that is no aggregate takes at least its symbol.                *)
LEMMA ScalarWithin ==
    ASSUME NEW u \in Seq(Byte), u # <<>>, NEW next, NEW flag
    PROVE  Within(Scalar(u, next, flag), Len(u) - 1)
<1> DEFINE c == u[1]
           q == Scalar(u, next, flag)
<1>1. CASE c = "$"
  <2> DEFINE p == process_blob_string(u, next)
             x == Text(TextType(c), p.val)
  <2>1. Within(p, Len(u) - 1)
    BY BlobStringWithin
  <2>2. q = IF p.ret = "OK" THEN [p EXCEPT !.val = x] ELSE p
    BY <1>1, NullFact DEF Scalar, Wrap, Then
  <2> HIDE DEF p, x, q
  <2>3. Within(q, Len(u) - 1)
    BY <2>1, <2>2, RevaluedWithin
  <2> QED BY <2>3 DEF q
<1>2. CASE c = "!"
  <2> DEFINE p == process_blob_error(u)
             x == Text(TextType(c), p.val)
  <2>1. Within(p, Len(u) - 1)
    BY BlobErrorWithin
  <2>2. q = IF p.ret = "OK" THEN [p EXCEPT !.val = x] ELSE p
    BY <1>2, NullFact DEF Scalar, Wrap, Then
  <2> HIDE DEF p, x, q
  <2>3. Within(q, Len(u) - 1)
    BY <2>1, <2>2, RevaluedWithin
  <2> QED BY <2>3 DEF q
<1>3. CASE c = "="
  <2> DEFINE p == process_verbatim_string(u)
             x == Text(TextType(c), p.val)
  <2>1. Within(p, Len(u) - 1)
    BY VerbatimWithin
  <2>2. q = IF p.ret = "OK" THEN [p EXCEPT !.val = x] ELSE p
    BY <1>3, NullFact DEF Scalar, Wrap, Then
  <2> HIDE DEF p, x, q
  <2>3. Within(q, Len(u) - 1)
    BY <2>1, <2>2, RevaluedWithin
  <2> QED BY <2>3 DEF q
<1>4. CASE c \in {"+", "-", "("}
  <2> DEFINE p == process_line(u, c)
             x == Text(TextType(c), p.val)
  <2>1. Within(p, Len(u) - 1)
    BY LineWithin
  <2>2. q = IF p.ret = "OK" THEN [p EXCEPT !.val = x] ELSE p
    BY <1>4, NullFact DEF Scalar, Wrap, Then
  <2> HIDE DEF p, x, q
  <2>3. Within(q, Len(u) - 1)
    BY <2>1, <2>2, RevaluedWithin
  <2> QED BY <2>3 DEF q
<1>5. CASE c = ":"
  <2> DEFINE p == process_number(u)
             x == Integer(p.val)
  <2>1. Within(p, Len(u) - 1)
    BY NumberValueWithin
  <2>2. q = IF p.ret = "OK" THEN [p EXCEPT !.val = x] ELSE p
    BY <1>5, NullFact DEF Scalar, Wrap, Then
  <2> HIDE DEF p, x, q
  <2>3. Within(q, Len(u) - 1)
    BY <2>1, <2>2, RevaluedWithin
  <2> QED BY <2>3 DEF q
<1>6. CASE c = NullSymbol
  <2> DEFINE p == process_nil(u)
             x == Nil
  <2>1. Within(p, Len(u) - 1)
    BY NilWithin
  <2>2. q = IF p.ret = "OK" THEN [p EXCEPT !.val = x] ELSE p
    BY <1>6, NullFact DEF Scalar, Wrap, Then
  <2> HIDE DEF p, x, q
  <2>3. Within(q, Len(u) - 1)
    BY <2>1, <2>2, RevaluedWithin
  <2> QED BY <2>3 DEF q
<1>7. CASE c = "#"
  <2> DEFINE p == process_bool(u, flag)
             x == Boolean(p.val)
  <2>1. Within(p, Len(u) - 1)
    BY BooleanWithin
  <2>2. q = IF p.ret = "OK" THEN [p EXCEPT !.val = x] ELSE p
    BY <1>7, NullFact DEF Scalar, Wrap, Then
  <2> HIDE DEF p, x, q
  <2>3. Within(q, Len(u) - 1)
    BY <2>1, <2>2, RevaluedWithin
  <2> QED BY <2>3 DEF q
<1>8. CASE c = ","
  <2>1. q = Fail("PARSE_FORMAT_ERROR", u)
    BY <1>8, NullFact DEF Scalar, process_double
  <2> HIDE DEF q
  <2>2. Within(q, Len(u) - 1)
    BY <2>1, FailWithin
  <2> QED BY <2>2 DEF q
<1>9. CASE c \notin {"$", "!", "=", "+", "-", "(", ":", NullSymbol, "#", ","}
  <2>1. q = Fail("RESP_FORMAT_UNKNOWN", u)
    BY <1>9, NullFact DEF Scalar
  <2> HIDE DEF q
  <2>2. Within(q, Len(u) - 1)
    BY <2>1, FailWithin
  <2> QED BY <2>2 DEF q
<1> QED
  BY <1>1, <1>2, <1>3, <1>4, <1>5, <1>6, <1>7, <1>8, <1>9

-----------------------------------------------------------------------------
(* parse_array depends on itself for shorter buffers only.                   *)

(* The arguments of parse_array, and what is known of it for fewer than n    *)
(* bytes.                                                                    *)
Calls == Seq(Byte) \X Nat \X BOOLEAN
Shrinks(f, n) == \A x \in Calls : Len(x[1]) < n => Within(f[x], Len(x[1]))
Agree(f, g, n) == \A x \in Calls : Len(x[1]) < n => f[x] = g[x]

LEMMA Emptied ==
    ASSUME NEW p, NEW n, Within(p, n), p.ret # "OK", NEW x
    PROVE  Within([p EXCEPT !.val = x], n) /\ [p EXCEPT !.val = x] = Result(p.ret, p.rest, x)
<1> DEFINE a == p.ret
           b == p.rest
           c == p.val
<1>1. p = Result(a, b, c) /\ a # "OK"
  BY DEF Within
<1> HIDE DEF a, b, c
<1>2. [Result(a, b, c) EXCEPT !.val = x] = Result(a, b, x)
  BY Revalued
<1>3. Within(Result(a, b, x), n)
  BY <1>1, ResultFact DEF Within
<1>4. [p EXCEPT !.val = x] = Result(a, b, x)
  BY <1>1, <1>2
<1> QED
  BY <1>3, <1>4 DEF a, b

LEMMA CallFact ==
    ASSUME NEW u \in Seq(Byte), NEW m \in Nat, NEW flag \in BOOLEAN, NEW k, NEW f, NEW g,
           Len(u) < k, Agree(f, g, k), Shrinks(f, k)
    PROVE  f[<<u, m, flag>>] = g[<<u, m, flag>>] /\ Within(f[<<u, m, flag>>], Len(u))
<1> DEFINE x == <<u, m, flag>>
<1>1. x \in Calls /\ x[1] = u
  BY DEF Calls
<1> HIDE DEF x
<1>2. f[x] = g[x] /\ Within(f[x], Len(x[1]))
  BY <1>1 DEF Agree, Shrinks
<1> QED
  BY <1>1, <1>2 DEF x

IsLen(n, k) == Within(n, k - 1) /\ (n.ret = "OK" => n.val \in Nat)

(* The elements of an aggregate, for two functions that agree on shorter     *)
(* buffers.                                                                  *)
LEMMA ElementsFact ==
    ASSUME NEW n, NEW k \in Nat, IsLen(n, k), NEW type,
           NEW flag \in BOOLEAN, NEW f, NEW g, Agree(f, g, k), Shrinks(f, k)
    PROVE  /\ Elements(n, type, flag, f) = Elements(n, type, flag, g)
           /\ Within(Elements(n, type, flag, f), k - 1)
<1>1. CASE n.ret = "OK"
  <2> DEFINE m == IF type = "Map" THEN 2 * n.val ELSE n.val
             u == n.rest
  <2>1. m \in Nat /\ u \in Seq(Byte) /\ Len(u) \in Nat /\ Len(u) <= k - 1
    BY <1>1, LenProperties DEF IsLen, Within
  <2>2. /\ Elements(n, type, flag, f) = f[<<u, m, flag>>]
        /\ Elements(n, type, flag, g) = g[<<u, m, flag>>]
    BY <1>1 DEF Elements
  <2> HIDE DEF m, u
  <2>3. Len(u) < k
    BY <2>1
  <2>4. f[<<u, m, flag>>] = g[<<u, m, flag>>] /\ Within(f[<<u, m, flag>>], Len(u))
    BY <2>1, <2>3, CallFact
  <2> DEFINE q == f[<<u, m, flag>>]
  <2>5. Within(q, k - 1)
    <3> HIDE DEF q
    <3>1. Within(q, Len(u))
      BY <2>4 DEF q
    <3>2. k - 1 \in Int /\ Len(u) \in Int
      BY <2>1
    <3> QED BY <2>1, <3>1, <3>2, WithinMore
  <2> QED BY <2>2, <2>4, <2>5
<1>2. CASE n.ret # "OK"
  <2>1. /\ Elements(n, type, flag, f) = [n EXCEPT !.val = <<>>]
        /\ Elements(n, type, flag, g) = [n EXCEPT !.val = <<>>]
    BY <1>2 DEF Elements
  <2> DEFINE x == <<>>
  <2>2. Within([n EXCEPT !.val = x], k - 1)
    <3> HIDE DEF x
    <3> QED BY <1>2, Emptied DEF IsLen
  <2> QED BY <2>1, <2>2
<1> QED
  BY <1>1, <1>2

(* An aggregate inside another, likewise.                                    *)
LEMMA NestedFact ==
    ASSUME NEW u \in Seq(Byte), u # <<>>, NEW flag \in BOOLEAN, NEW f, NEW g,
           Agree(f, g, Len(u)), Shrinks(f, Len(u))
    PROVE  /\ Nested(u, flag, f) = Nested(u, flag, g)
           /\ Within(Nested(u, flag, f), Len(u) - 1)
<1> DEFINE y == has_read(u, 1)
           n == get_aggregate_len(y)
           type == AggregateType(u[1])
           k == Len(u)
           p == Elements(n, type, flag, f)
           q == Nested(u, flag, f)
<1>1. y \in Seq(Byte) /\ Len(y) = k - 1 /\ k \in Nat
  BY FirstRead
<1>2. Within(n, k - 1) /\ (n.ret = "OK" => n.val \in Nat)
  <2>1. Within(n, Len(y)) /\ (n.ret = "OK" => n.val \in Nat)
    BY <1>1, LenWithin
  <2> HIDE DEF n, y
  <2> QED BY <1>1, <2>1
<1>3. Elements(n, type, flag, f) = Elements(n, type, flag, g) /\ Within(p, k - 1)
  <2>1. k \in Nat /\ Agree(f, g, k) /\ Shrinks(f, k) /\ IsLen(n, k)
    BY <1>1, <1>2 DEF IsLen
  <2> HIDE DEF n, type, k
  <2>2. /\ Elements(n, type, flag, f) = Elements(n, type, flag, g)
        /\ Within(Elements(n, type, flag, f), k - 1)
    BY <2>1, ElementsFact
  <2> QED BY <2>2
<1>4. Nested(u, flag, f) = Nested(u, flag, g)
  BY <1>3 DEF Nested
<1>5. \E x : q = IF p.ret = "OK" THEN [p EXCEPT !.val = x] ELSE p
  BY DEF Nested, Wrap, Then
<1> HIDE DEF p, q
<1>6. Within(q, k - 1)
  BY <1>3, <1>5, RevaluedWithin
<1> QED
  BY <1>4, <1>6 DEF q

(* One element, likewise: it takes at least one byte.                        *)
LEMMA ElementFact ==
    ASSUME NEW u \in Seq(Byte), u # <<>>, NEW flag \in BOOLEAN, NEW f, NEW g,
           Agree(f, g, Len(u)), Shrinks(f, Len(u))
    PROVE  /\ Element(u, flag, f) = Element(u, flag, g)
           /\ Within(Element(u, flag, f), Len(u) - 1)
<1> DEFINE E == (Range(TextSymbol) \ {"!"}) \cup {":", NullSymbol, "#"}
<1>0. E \cap Range(ComplexSymbol) = {}
  BY TextSymbolFact, ComplexSymbolFact, NullFact
<1> HIDE DEF E
<1>1. CASE u[1] \in Range(ComplexSymbol)
  <2>1. u[1] \notin E
    BY <1>0, <1>1
  <2>2. Element(u, flag, f) = Nested(u, flag, f) /\ Element(u, flag, g) = Nested(u, flag, g)
    BY <1>1, <2>1 DEF Element, E
  <2> QED BY <2>2, NestedFact
<1>2. CASE u[1] \in E
  <2>1. u[1] \notin Range(ComplexSymbol)
    BY <1>0, <1>2
  <2>2. Element(u, flag, f) = Scalar(u, "", flag) /\ Element(u, flag, g) = Scalar(u, "", flag)
    BY <1>2, <2>1 DEF Element, E
  <2> QED BY <2>2, ScalarWithin
<1>3. CASE u[1] \notin Range(ComplexSymbol) /\ u[1] \notin E
  <2>1. Element(u, flag, f) = Fail("PARSE_FORMAT_ERROR", u) /\ Element(u, flag, g) = Fail("PARSE_FORMAT_ERROR", u)
    BY <1>3 DEF Element, E
  <2> QED BY <2>1, FailWithin
<1> QED
  BY <1>1, <1>2, <1>3

(* The elements behind one, likewise.                                        *)
LEMMA AddedFact ==
    ASSUME NEW e, NEW k \in Nat, Within(e, k - 1), NEW amounts \in Nat \ {0}, NEW flag \in BOOLEAN,
           NEW f, NEW g, Agree(f, g, k), Shrinks(f, k)
    PROVE  /\ Added(e, amounts, flag, f) = Added(e, amounts, flag, g)
           /\ Within(Added(e, amounts, flag, f), k)
<1>1. CASE e.ret = "OK"
  <2> DEFINE m == amounts - 1
             u == e.rest
             p == f[<<u, m, flag>>]
  <2>1. m \in Nat /\ u \in Seq(Byte) /\ Len(u) \in Nat /\ Len(u) < k
    BY <1>1, LenProperties DEF Within
  <2>2. p = g[<<u, m, flag>>] /\ Within(p, Len(u))
    <3> HIDE DEF m, u
    <3> QED BY <2>1, CallFact
  <2>3. /\ Added(e, amounts, flag, f) = [p EXCEPT !.val = <<e.val>> \o @]
        /\ Added(e, amounts, flag, g) = [g[<<u, m, flag>>] EXCEPT !.val = <<e.val>> \o @]
    BY <1>1 DEF Added
  <2>4. Within(p, k)
    <3> HIDE DEF p, u
    <3> QED BY <2>1, <2>2, WithinMore
  <2> DEFINE x == <<e.val>> \o p.val
             q == Added(e, amounts, flag, f)
  <2>5. q = [p EXCEPT !.val = x]
    BY <2>3
  <2> HIDE DEF p, x, q
  <2>6. Within(q, k)
    <3>1. CASE p.ret = "OK"
      BY <2>4, <2>5, <3>1, RevaluedWithin
    <3>2. CASE p.ret # "OK"
      BY <2>4, <2>5, <3>2, Emptied
    <3> QED BY <3>1, <3>2
  <2> QED BY <2>2, <2>3, <2>6 DEF p, q
<1>2. CASE e.ret # "OK"
  <2> DEFINE x == <<>>
  <2>1. Added(e, amounts, flag, f) = [e EXCEPT !.val = x] /\ Added(e, amounts, flag, g) = [e EXCEPT !.val = x]
    BY <1>2 DEF Added
  <2> HIDE DEF x
  <2> DEFINE q == [e EXCEPT !.val = x]
  <2>2. Within(q, k - 1)
    BY <1>2, Emptied
  <2> HIDE DEF q
  <2>3. k - 1 \in Int /\ k - 1 <= k
    OBVIOUS
  <2>4. Within(q, k)
    BY <2>2, <2>3, WithinMore
  <2> QED BY <2>1, <2>4 DEF q
<1> QED
  BY <1>1, <1>2

(* The loop, likewise.                                                       *)
LEMMA ArrayFromFact ==
    ASSUME NEW u \in Seq(Byte), NEW amounts \in Nat, NEW flag \in BOOLEAN, NEW f, NEW g,
           Agree(f, g, Len(u)), Shrinks(f, Len(u))
    PROVE  /\ ArrayFrom(u, amounts, flag, f) = ArrayFrom(u, amounts, flag, g)
           /\ Within(ArrayFrom(u, amounts, flag, f), Len(u))
<1>0. Len(u) \in Nat
  BY LenProperties
<1> DEFINE x == <<>>
<1>1. CASE amounts = 0
  <2>1. ArrayFrom(u, amounts, flag, f) = Ok(u, x) /\ ArrayFrom(u, amounts, flag, g) = Ok(u, x)
    BY <1>1 DEF ArrayFrom
  <2> HIDE DEF x
  <2>2. Len(u) <= Len(u)
    BY <1>0
  <2> QED BY <2>1, <2>2, OkWithin
<1>2. CASE amounts # 0 /\ Len(u) <= 3
  <2>1. /\ ArrayFrom(u, amounts, flag, f) = [Fail("NEED_MORE_DATA", u) EXCEPT !.val = x]
        /\ ArrayFrom(u, amounts, flag, g) = [Fail("NEED_MORE_DATA", u) EXCEPT !.val = x]
    BY <1>2 DEF ArrayFrom
  <2> HIDE DEF x
  <2>2. Within(Fail("NEED_MORE_DATA", u), Len(u)) /\ Fail("NEED_MORE_DATA", u).ret # "OK"
    BY FailWithin
  <2> QED BY <2>1, <2>2, Emptied
<1>3. CASE amounts # 0 /\ ~(Len(u) <= 3)
  <2>1. u # <<>>
    BY <1>3
  <2>2. /\ Element(u, flag, f) = Element(u, flag, g)
        /\ Within(Element(u, flag, f), Len(u) - 1)
    BY <2>1, ElementFact
  <2>3. /\ ArrayFrom(u, amounts, flag, f) = Added(Element(u, flag, f), amounts, flag, f)
        /\ ArrayFrom(u, amounts, flag, g) = Added(Element(u, flag, g), amounts, flag, g)
    BY <1>3 DEF ArrayFrom
  <2> DEFINE e == Element(u, flag, f)
  <2> HIDE DEF e
  <2>4. Within(e, Len(u) - 1)
    BY <2>2 DEF e
  <2>5. Added(e, amounts, flag, f) = Added(e, amounts, flag, g) /\ Within(Added(e, amounts, flag, f), Len(u))
    BY <1>0, <1>3, <2>4, AddedFact
  <2> QED BY <2>2, <2>3, <2>5 DEF e
<1> QED
  BY <1>1, <1>2, <1>3

-----------------------------------------------------------------------------
(* The recursion of parse_array ends.                                        *)

(* f solves the recursion of parse_array for fewer than n bytes. *)
Solves(f, n) == \A x \in Calls : Len(x[1]) < n => f[x] = ArrayFrom(x[1], x[2], x[3], f)

LEMMA CallType ==
    \A x \in Calls : /\ x[1] \in Seq(Byte) /\ x[2] \in Nat /\ x[3] \in BOOLEAN /\ Len(x[1]) \in Nat
                     /\ x = <<x[1], x[2], x[3]>>
<1>1. \A x \in Calls : /\ x[1] \in Seq(Byte) /\ x[2] \in Nat /\ x[3] \in BOOLEAN
                       /\ x = <<x[1], x[2], x[3]>>
  BY DEF Calls
<1> QED
  BY <1>1, LenProperties

(* Two solutions agree, and they shrink the buffer. *)
LEMMA SolutionsAgree ==
    \A n \in Nat : \A f, g : Solves(f, n) /\ Solves(g, n) => Agree(f, g, n) /\ Shrinks(f, n)
<1> DEFINE S == {n \in Nat : \A x \in Calls : Len(x[1]) = n =>
                    \A f, g : Solves(f, n + 1) /\ Solves(g, n + 1) => f[x] = g[x] /\ Within(f[x], Len(x[1]))}
<1>1. ASSUME NEW n \in Nat, \A m \in Nat : m < n => m \in S PROVE n \in S
  <2> SUFFICES ASSUME NEW x \in Calls, Len(x[1]) = n, NEW f, NEW g, Solves(f, n + 1), Solves(g, n + 1)
               PROVE  f[x] = g[x] /\ Within(f[x], Len(x[1]))
    OBVIOUS
  <2>1. ASSUME NEW y \in Calls, Len(y[1]) < n PROVE f[y] = g[y] /\ Within(f[y], Len(y[1]))
    <3> DEFINE m == Len(y[1])
    <3>1. m \in Nat /\ m < n
      BY <2>1, CallType
    <3>2. m \in S
      <4> HIDE DEF S, m
      <4> QED BY <1>1, <3>1
    <3>3. Solves(f, m + 1) /\ Solves(g, m + 1)
      <4>1. \A z \in Calls : Len(z[1]) < m + 1 => Len(z[1]) < n + 1
        <5> HIDE DEF m
        <5> QED BY <3>1, CallType
      <4> HIDE DEF m
      <4> QED BY <4>1 DEF Solves
    <3> HIDE DEF m
    <3>4. \A z \in Calls : Len(z[1]) = m => \A a, b : Solves(a, m + 1) /\ Solves(b, m + 1) =>
          a[z] = b[z] /\ Within(a[z], Len(z[1]))
      BY <3>2
    <3> QED BY <3>3, <3>4 DEF m
  <2>2. Agree(f, g, Len(x[1])) /\ Shrinks(f, Len(x[1]))
    BY <2>1 DEF Agree, Shrinks
  <2>3. Len(x[1]) < n + 1
    OBVIOUS
  <2>4. f[x] = ArrayFrom(x[1], x[2], x[3], f) /\ g[x] = ArrayFrom(x[1], x[2], x[3], g)
    BY <2>3 DEF Solves
  <2>5. /\ ArrayFrom(x[1], x[2], x[3], f) = ArrayFrom(x[1], x[2], x[3], g)
        /\ Within(ArrayFrom(x[1], x[2], x[3], f), Len(x[1]))
    BY <2>2, CallType, ArrayFromFact
  <2> QED BY <2>4, <2>5
<1> HIDE DEF S
<1>2. \A n \in Nat : n \in S
  BY <1>1, Induction
<1> SUFFICES ASSUME NEW n \in Nat, NEW f, NEW g, Solves(f, n), Solves(g, n), NEW x \in Calls, Len(x[1]) < n
             PROVE  f[x] = g[x] /\ Within(f[x], Len(x[1]))
  BY DEF Agree, Shrinks
<1> DEFINE m == Len(x[1])
<1>3. m \in Nat /\ m < n
  BY CallType
<1>4. Solves(f, m + 1) /\ Solves(g, m + 1)
  <2>1. \A z \in Calls : Len(z[1]) < m + 1 => Len(z[1]) < n
    <3> HIDE DEF m
    <3> QED BY <1>3, CallType
  <2> HIDE DEF m
  <2> QED BY <2>1 DEF Solves
<1>5. m \in S
  BY <1>2, <1>3
<1> HIDE DEF m
<1>6. \A z \in Calls : Len(z[1]) = m => \A a, b : Solves(a, m + 1) /\ Solves(b, m + 1) =>
      a[z] = b[z] /\ Within(a[z], Len(z[1]))
  BY <1>5 DEF S
<1> QED
  BY <1>4, <1>6 DEF m

(* There is a solution for every length.                                     *)
LEMMA SolutionExists == \A n \in Nat : \E f : Solves(f, n)
<1> DEFINE S == {n \in Nat : \E f : Solves(f, n)}
<1>1. ASSUME NEW n \in Nat, \A m \in Nat : m < n => m \in S PROVE n \in S
  <2>1. CASE n = 0
    <3>1. \A x \in Calls : ~(Len(x[1]) < n)
      BY <2>1, CallType
    <3>2. \A f : Solves(f, n)
      BY <3>1 DEF Solves
    <3> QED BY <3>2
  <2>2. CASE n # 0
    <3>1. n - 1 \in Nat /\ n - 1 < n
      BY <2>2, Predecessor
    <3>2. n - 1 \in S
      <4> HIDE DEF S
      <4> QED BY <1>1, <3>1
    <3>3. PICK f : Solves(f, n - 1)
      BY <3>2
    <3> DEFINE g == [x \in Calls |-> ArrayFrom(x[1], x[2], x[3], f)]
    <3>4. \A x \in Calls : g[x] = ArrayFrom(x[1], x[2], x[3], f)
      OBVIOUS
    <3> HIDE DEF g
    <3>5. Agree(f, g, n - 1) /\ Shrinks(f, n - 1)
      <4>1. Agree(f, g, n - 1)
        BY <3>3, <3>4 DEF Agree, Solves
      <4>2. Shrinks(f, n - 1)
        BY <3>1, <3>3, SolutionsAgree
      <4> QED BY <4>1, <4>2
    <3>6. ASSUME NEW x \in Calls, Len(x[1]) < n PROVE g[x] = ArrayFrom(x[1], x[2], x[3], g)
      <4>1. \A y \in Calls : Len(y[1]) < Len(x[1]) => Len(y[1]) < n - 1
        BY <3>1, <3>6, CallType
      <4>2. Agree(f, g, Len(x[1])) /\ Shrinks(f, Len(x[1]))
        BY <3>5, <4>1 DEF Agree, Shrinks
      <4>3. ArrayFrom(x[1], x[2], x[3], f) = ArrayFrom(x[1], x[2], x[3], g)
        BY <4>2, CallType, ArrayFromFact
      <4> QED BY <3>4, <4>3
    <3>7. Solves(g, n)
      BY <3>6 DEF Solves
    <3> QED BY <3>7
  <2> QED BY <2>1, <2>2
<1> HIDE DEF S
<1>2. \A n \in Nat : n \in S
  BY <1>1, Induction
<1> QED
  BY <1>2 DEF S

(* The recursion of parse_array ends for every buffer, every number of       *)
(* elements and every nesting, and an array takes its bytes off the front of *)
(* the buffer.                                                               *)
THEOREM ParseArrayDef ==
    /\ \A x \in Calls : parse_array[x] = ArrayFrom(x[1], x[2], x[3], parse_array)
    /\ \A n \in Nat : Shrinks(parse_array, n)
<1> DEFINE h(n) == CHOOSE f : Solves(f, n)
           F == [x \in Calls |-> h(Len(x[1]) + 1)[x]]
<1>1. \A n \in Nat : Solves(h(n), n)
  BY SolutionExists
<1>2. \A x \in Calls : F[x] = h(Len(x[1]) + 1)[x]
  OBVIOUS
<1> HIDE DEF h
<1> HIDE DEF F
<1>3. ASSUME NEW x \in Calls PROVE F[x] = ArrayFrom(x[1], x[2], x[3], F)
  <2> DEFINE n == Len(x[1]) + 1
             f == h(n)
  <2>1. n \in Nat /\ Len(x[1]) < n /\ Len(x[1]) \in Nat
    BY CallType
  <2>2. Solves(f, n)
    BY <1>1, <2>1
  <2>3. ASSUME NEW y \in Calls, Len(y[1]) < Len(x[1]) PROVE f[y] = F[y]
    <3> DEFINE m == Len(y[1]) + 1
    <3>1. m \in Nat /\ m <= n /\ Len(y[1]) < m
      BY <2>1, <2>3, CallType
    <3>2. Solves(h(m), m)
      BY <1>1, <3>1
    <3>3. F[y] = h(m)[y]
      BY <1>2
    <3> HIDE DEF m, n
    <3>4. Solves(f, m)
      <4>1. \A z \in Calls : Len(z[1]) < m => Len(z[1]) < n
        BY <2>1, <3>1, CallType
      <4> HIDE DEF f
      <4> QED BY <2>2, <4>1 DEF Solves
    <3>5. Agree(f, h(m), m)
      <4> HIDE DEF f
      <4> QED BY <3>1, <3>2, <3>4, SolutionsAgree
    <3> HIDE DEF f
    <3> QED BY <3>1, <3>3, <3>5 DEF Agree
  <2>4. Shrinks(f, n)
    <3> HIDE DEF f, n
    <3> QED BY <2>1, <2>2, SolutionsAgree
  <2>5. F[x] = f[x]
    BY <1>2
  <2> HIDE DEF f, n
  <2>6. f[x] = ArrayFrom(x[1], x[2], x[3], f)
    BY <2>1, <2>2 DEF Solves
  <2>7. Agree(f, F, Len(x[1])) /\ Shrinks(f, Len(x[1]))
    <3>1. \A y \in Calls : Len(y[1]) < Len(x[1]) => Len(y[1]) < n
      BY <2>1, CallType
    <3> QED BY <2>3, <2>4, <3>1 DEF Agree, Shrinks
  <2>8. ArrayFrom(x[1], x[2], x[3], f) = ArrayFrom(x[1], x[2], x[3], F)
    BY <2>7, CallType, ArrayFromFact
  <2> QED BY <2>5, <2>6, <2>8
<1>4. F = [x \in Calls |-> ArrayFrom(x[1], x[2], x[3], F)]
  <2>1. F = [x \in Calls |-> F[x]]
    BY DEF F
  <2> QED BY <1>3, <2>1
<1>5. parse_array = CHOOSE f : f = [x \in Calls |-> ArrayFrom(x[1], x[2], x[3], f)]
  BY DEF parse_array, Calls
<1>6. parse_array = [x \in Calls |-> ArrayFrom(x[1], x[2], x[3], parse_array)]
  BY <1>4, <1>5
<1>7. \A x \in Calls : parse_array[x] = ArrayFrom(x[1], x[2], x[3], parse_array)
  <2> DEFINE P == parse_array
  <2>1. P = [x \in Calls |-> ArrayFrom(x[1], x[2], x[3], P)]
    BY <1>6
  <2> HIDE DEF P
  <2>2. \A x \in Calls : P[x] = ArrayFrom(x[1], x[2], x[3], P)
    BY <2>1
  <2> QED BY <2>2 DEF P
<1>8. \A n \in Nat : Solves(parse_array, n)
  BY <1>7 DEF Solves
<1>9. \A n \in Nat : Shrinks(parse_array, n)
  BY <1>8, SolutionsAgree
<1> QED
  BY <1>7, <1>9

-----------------------------------------------------------------------------
(* The bytes of values one behind the other: what FlattenSeq computes.       *)

(* What the inner function of FlattenSeq computes. *)
Flattens(g, s, n) ==
    \A i \in 1 .. n : g[i] = IF i = 1 THEN s[i] ELSE g[i - 1] \o s[i]

LEMMA FlattenDef ==
    ASSUME NEW S, NEW s \in Seq(Seq(S)), s # <<>>
    PROVE  \E g \in [1 .. Len(s) -> Seq(S)] : Flattens(g, s, Len(s)) /\ FlattenSeq(s) = g[Len(s)]
<1> DEFINE n == Len(s)
           D == 1 .. n
           V == Seq(S)
           rank == [i \in D |-> i]
           B == [p \in D \X [D -> V] |-> IF p[1] = 1 THEN s[p[1]] ELSE p[2][p[1] - 1] \o s[p[1]]]
<1>1. n \in Nat /\ n >= 1 /\ \A i \in D : s[i] \in V
  BY EmptySeq, ElementOfSeq
<1> HIDE DEF n
<1>2. rank \in [D -> Nat] /\ \A i \in D : rank[i] = i
  OBVIOUS
<1>3. \A i \in D : \A f \in [D -> V] : B[<<i, f>>] = IF i = 1 THEN s[i] ELSE f[i - 1] \o s[i]
  OBVIOUS
<1>4. \A i \in D : i # 1 => i - 1 \in D /\ i - 1 < i
  BY <1>1
<1>5. B \in [D \X [D -> V] -> V]
  <2>1. ASSUME NEW i \in D, NEW f \in [D -> V]
        PROVE  (IF i = 1 THEN s[i] ELSE f[i - 1] \o s[i]) \in V
    <3>1. CASE i = 1
      BY <1>1, <3>1
    <3>2. CASE i # 1
      <4>1. f[i - 1] \in V /\ s[i] \in V
        BY <1>1, <1>4, <3>2
      <4>2. f[i - 1] \o s[i] \in V
        BY <4>1, ConcatProperties
      <4> QED BY <3>2, <4>2
    <3> QED BY <3>1, <3>2
  <2> HIDE DEF D, V
  <2> QED BY <2>1
<1> HIDE DEF B, rank
<1>6. \A i \in D : \A f, g \in [D -> V] :
          (\A y \in D : rank[y] < rank[i] => f[y] = g[y]) => B[<<i, f>>] = B[<<i, g>>]
  <2> SUFFICES ASSUME NEW i \in D, NEW f \in [D -> V], NEW g \in [D -> V],
                      \A y \in D : rank[y] < rank[i] => f[y] = g[y]
               PROVE  B[<<i, f>>] = B[<<i, g>>]
    OBVIOUS
  <2>1. i # 1 => f[i - 1] = g[i - 1]
    <3> HIDE DEF D, V
    <3> QED BY <1>2, <1>4
  <2> HIDE DEF D, V
  <2>2. /\ B[<<i, f>>] = IF i = 1 THEN s[i] ELSE f[i - 1] \o s[i]
        /\ B[<<i, g>>] = IF i = 1 THEN s[i] ELSE g[i - 1] \o s[i]
    BY <1>3
  <2> QED BY <2>1, <2>2
<1>7. [D -> V] # {}
  <2>1. [i \in D |-> <<>>] \in [D -> V]
    BY EmptySeq
  <2> QED BY <2>1
<1>8. PICK f \in [D -> V] : \A i \in D : f[i] = B[<<i, f>>]
  <2> HIDE DEF D, V
  <2>1. Descends(D, V, rank, B)
    BY <1>2, <1>5, <1>6, <1>7 DEF Descends
  <2> QED BY <2>1, Recursion
<1>9. \A i \in D : f[i] = IF i = 1 THEN s[i] ELSE f[i - 1] \o s[i]
  <2> HIDE DEF D, V
  <2> QED BY <1>3, <1>8
<1> DEFINE g == CHOOSE h : h = [i \in 1 .. Len(s) |-> IF i = 1 THEN s[i] ELSE h[i - 1] \o s[i]]
<1>10. g = [i \in 1 .. Len(s) |-> IF i = 1 THEN s[i] ELSE g[i - 1] \o s[i]]
  <2>1. f = [i \in 1 .. Len(s) |-> IF i = 1 THEN s[i] ELSE f[i - 1] \o s[i]]
    <3>1. f = [i \in D |-> f[i]]
      OBVIOUS
    <3> QED BY <1>9, <3>1 DEF n
  <2> QED BY <2>1
<1>11. FlattenSeq(s) = g[Len(s)]
  <2>1. Len(s) # 0
    BY <1>1 DEF n
  <2> QED BY <2>1 DEF FlattenSeq
<1> HIDE DEF g
<1>12. \A i \in D : g[i] = IF i = 1 THEN s[i] ELSE g[i - 1] \o s[i]
  BY <1>10 DEF n
<1>13. DOMAIN g = D
  BY <1>10 DEF n
<1> DEFINE H == {i \in Nat : i \in D => g[i] \in V}
<1>14. ASSUME NEW i \in Nat, \A m \in Nat : m < i => m \in H PROVE i \in H
  <2> SUFFICES ASSUME i \in D PROVE g[i] \in V
    OBVIOUS
  <2>1. CASE i = 1
    BY <1>1, <1>12, <2>1
  <2>2. CASE i # 1
    <3>1. i - 1 \in D /\ i - 1 < i /\ i - 1 \in Nat
      BY <1>4, <2>2
    <3>2. i - 1 \in H
      <4> HIDE DEF H
      <4> QED BY <1>14, <3>1
    <3>3. g[i - 1] \in V
      BY <3>1, <3>2
    <3>4. g[i] = g[i - 1] \o s[i] /\ s[i] \in V
      BY <1>1, <1>12, <2>2
    <3> QED BY <3>3, <3>4, ConcatProperties
  <2> QED BY <2>1, <2>2
<1>15. \A i \in Nat : i \in H
  <2> HIDE DEF H
  <2> QED BY <1>14, Induction
<1>16. g \in [D -> V]
  <2>1. \A i \in D : g[i] \in V
    BY <1>15
  <2>2. g = [i \in D |-> g[i]]
    BY <1>10, <1>13 DEF n
  <2> QED BY <2>1, <2>2
<1> QED
  BY <1>11, <1>12, <1>16 DEF n, Flattens

SameUpTo(s, t, n) == \A i \in 1 .. n : s[i] = t[i]

LEMMA FlattensAgree ==
    ASSUME NEW n \in Nat, NEW s, NEW t, SameUpTo(s, t, n),
           NEW f, NEW g, Flattens(f, s, n), Flattens(g, t, n)
    PROVE  SameUpTo(f, g, n)
<1> DEFINE H == {i \in Nat : i \in 1 .. n => f[i] = g[i]}
<1>1. ASSUME NEW i \in Nat, \A m \in Nat : m < i => m \in H PROVE i \in H
  <2> SUFFICES ASSUME i \in 1 .. n PROVE f[i] = g[i]
    OBVIOUS
  <2>1. CASE i = 1
    BY <2>1 DEF Flattens, SameUpTo
  <2>2. CASE i # 1
    <3>1. i - 1 \in 1 .. n /\ i - 1 < i /\ i - 1 \in Nat
      BY <2>2
    <3>2. i - 1 \in H
      <4> HIDE DEF H
      <4> QED BY <1>1, <3>1
    <3>3. f[i - 1] = g[i - 1]
      BY <3>1, <3>2
    <3>4. f[i] = f[i - 1] \o s[i] /\ g[i] = g[i - 1] \o t[i] /\ s[i] = t[i]
      BY <2>2 DEF Flattens, SameUpTo
    <3> QED BY <3>3, <3>4
  <2> QED BY <2>1, <2>2
<1>2. \A i \in Nat : i \in H
  <2> HIDE DEF H
  <2> QED BY <1>1, Induction
<1> QED
  BY <1>2 DEF SameUpTo

LEMMA Appended ==
    ASSUME NEW S, NEW s \in Seq(S), NEW x \in S
    PROVE  /\ s \o <<x>> \in Seq(S) /\ s \o <<x>> # <<>> /\ Len(s \o <<x>>) = Len(s) + 1 /\ Len(s) \in Nat
           /\ \A i \in 1 .. Len(s) : (s \o <<x>>)[i] = s[i]
           /\ (s \o <<x>>)[Len(s) + 1] = x
<1>1. <<x>> \in Seq(S) /\ Len(<<x>>) = 1 /\ <<x>>[1] = x /\ Len(s) \in Nat
  BY LenProperties
<1>2. /\ s \o <<x>> \in Seq(S) /\ Len(s \o <<x>>) = Len(s) + Len(<<x>>)
      /\ \A i \in 1 .. Len(s) + Len(<<x>>) : (s \o <<x>>)[i] = IF i <= Len(s) THEN s[i] ELSE <<x>>[i - Len(s)]
  BY <1>1, ConcatProperties
<1>3. s \o <<x>> # <<>>
  BY <1>1, <1>2, EmptySeq
<1>4. Len(s) + 1 \in 1 .. Len(s) + Len(<<x>>) /\ ~(Len(s) + 1 <= Len(s)) /\ (Len(s) + 1) - Len(s) = 1
  BY <1>1
<1> QED
  BY <1>1, <1>2, <1>3, <1>4

(* FlattenSeq of one sequence more.                                          *)
LEMMA FlattenSnoc ==
    ASSUME NEW S, NEW s \in Seq(Seq(S)), NEW x \in Seq(S)
    PROVE  /\ FlattenSeq(s) \in Seq(S)
           /\ FlattenSeq(s \o <<x>>) = FlattenSeq(s) \o x
<1> DEFINE t == s \o <<x>>
           n == Len(s)
<1>1. t \in Seq(Seq(S)) /\ t # <<>> /\ Len(t) = n + 1 /\ n \in Nat
      /\ (\A i \in 1 .. n : t[i] = s[i]) /\ t[n + 1] = x
  BY Appended
<1>2. PICK g \in [1 .. Len(t) -> Seq(S)] : Flattens(g, t, Len(t)) /\ FlattenSeq(t) = g[Len(t)]
  <2> HIDE DEF t
  <2> QED BY <1>1, FlattenDef
<1> HIDE DEF t
<1>3. CASE s = <<>>
  <2>1. n = 0
    BY <1>3, EmptySeq
  <2>2. FlattenSeq(s) = <<>>
    BY <1>3, <2>1 DEF FlattenSeq
  <2>3. FlattenSeq(t) = x
    <3> HIDE DEF n
    <3>1. Len(t) = 1 /\ 1 \in 1 .. Len(t) /\ t[1] = x
      BY <1>1, <2>1
    <3> QED BY <1>2, <3>1 DEF Flattens
  <2> QED BY <2>2, <2>3, EmptySeq, ConcatEmptySeq DEF t
<1>4. CASE s # <<>>
  <2>1. PICK f \in [1 .. n -> Seq(S)] : Flattens(f, s, n) /\ FlattenSeq(s) = f[n]
    BY <1>4, FlattenDef
  <2>2. n >= 1
    BY <1>4, EmptySeq
  <2> HIDE DEF n
  <2>3. Flattens(g, t, n)
    <3>1. \A i \in 1 .. n : i \in 1 .. Len(t)
      BY <1>1
    <3> QED BY <1>2, <3>1 DEF Flattens
  <2>4. \A i \in 1 .. n : g[i] = f[i]
    <3>1. SameUpTo(t, s, n)
      BY <1>1 DEF SameUpTo
    <3>2. SameUpTo(g, f, n)
      BY <1>1, <2>1, <2>3, <3>1, FlattensAgree
    <3> QED BY <3>2 DEF SameUpTo
  <2>5. g[n + 1] = g[n] \o x
    <3>1. n + 1 \in 1 .. Len(t) /\ n + 1 # 1 /\ (n + 1) - 1 = n
      BY <1>1, <2>2
    <3> QED BY <1>1, <1>2, <3>1 DEF Flattens
  <2>6. n \in 1 .. n
    BY <1>1, <2>2
  <2> QED BY <1>1, <1>2, <2>1, <2>4, <2>5, <2>6 DEF t
<1> QED
  BY <1>3, <1>4

(* The bytes of values one behind the other. *)
LEMMA EncodeAllSnoc ==
    ASSUME NEW vs \in Seq(Values), NEW v \in Values
    PROVE  /\ EncodeAll(vs) \in Seq(Byte) /\ Encode[v] \in Seq(Byte)
           /\ EncodeAll(vs \o <<v>>) = EncodeAll(vs) \o Encode[v]
<1> DEFINE s == [i \in DOMAIN vs |-> Encode[vs[i]]]
           ws == vs \o <<v>>
           t == [i \in DOMAIN ws |-> Encode[ws[i]]]
           n == Len(vs)
<1>1. /\ ws \in Seq(Values) /\ Len(ws) = n + 1 /\ n \in Nat
      /\ (\A i \in 1 .. n : ws[i] = vs[i]) /\ ws[n + 1] = v
      /\ DOMAIN vs = 1 .. n /\ DOMAIN ws = 1 .. n + 1
  <2>1. ws \in Seq(Values) /\ Len(ws) = n + 1 /\ n \in Nat
        /\ (\A i \in 1 .. n : ws[i] = vs[i]) /\ ws[n + 1] = v
    BY Appended
  <2>2. DOMAIN vs = 1 .. n /\ DOMAIN ws = 1 .. Len(ws)
    <3> HIDE DEF ws
    <3> QED BY <2>1, LenProperties
  <2> HIDE DEF ws, n
  <2> QED BY <2>1, <2>2
<1>2. \A x \in Values : Encode[x] \in Seq(Byte)
  BY EncodeAssumption
<1>3. \A i \in 1 .. n : vs[i] \in Values
  BY ElementOfSeq
<1>4. s \in Seq(Seq(Byte)) /\ Len(s) = n /\ \A i \in 1 .. n : s[i] = Encode[vs[i]]
  <2>1. s = [i \in 1 .. n |-> Encode[vs[i]]]
    BY <1>1
  <2>2. s \in [1 .. n -> Seq(Byte)]
    BY <1>2, <1>3, <2>1
  <2> HIDE DEF n, s
  <2> QED BY <1>1, <2>1, <2>2, SeqDef
<1>5. t = s \o <<Encode[v]>>
  <2>1. Encode[v] \in Seq(Byte)
    BY <1>2
  <2> DEFINE z == s \o <<Encode[v]>>
  <2>2. z \in Seq(Seq(Byte)) /\ Len(z) = n + 1 /\ (\A i \in 1 .. n : z[i] = s[i]) /\ z[n + 1] = Encode[v]
    <3> HIDE DEF s, n
    <3> QED BY <1>4, <2>1, Appended
  <2> HIDE DEF z, ws, s, n
  <2>3. t = [i \in 1 .. n + 1 |-> Encode[ws[i]]]
    BY <1>1
  <2>4. \A i \in 1 .. n + 1 : t[i] = z[i]
    <3> SUFFICES ASSUME NEW i \in 1 .. n + 1 PROVE t[i] = z[i]
      OBVIOUS
    <3>1. t[i] = Encode[ws[i]]
      BY <2>3
    <3>2. CASE i = n + 1
      BY <1>1, <2>2, <3>1, <3>2
    <3>3. CASE i # n + 1
      <4>1. i \in 1 .. n
        BY <1>1, <3>3
      <4> QED BY <1>1, <1>4, <2>2, <3>1, <4>1
    <3> QED BY <3>2, <3>3
  <2>5. z = [i \in 1 .. n + 1 |-> z[i]]
    BY <1>1, <2>2, LenProperties
  <2>6. t = z
    BY <2>3, <2>4, <2>5
  <2> QED BY <2>6 DEF z
<1>6. EncodeAll(vs) = FlattenSeq(s) /\ EncodeAll(ws) = FlattenSeq(t)
  BY DEF EncodeAll
<1> HIDE DEF s, t
<1>7. FlattenSeq(s) \in Seq(Byte) /\ FlattenSeq(s \o <<Encode[v]>>) = FlattenSeq(s) \o Encode[v]
  BY <1>2, <1>4, FlattenSnoc
<1> QED
  BY <1>2, <1>5, <1>6, <1>7

LEMMA EncodeAllEmpty == EncodeAll(<<>>) = <<>>
<1> DEFINE s == [i \in DOMAIN <<>> |-> Encode[<<>>[i]]]
<1>1. DOMAIN <<>> = {}
  OBVIOUS
<1>2. s = <<>>
  BY <1>1
<1>3. FlattenSeq(<<>>) = <<>>
  BY EmptySeq DEF FlattenSeq
<1> QED
  BY <1>2, <1>3 DEF EncodeAll

(* The bytes of values are those of the first ones and those of the others.  *)
LEMMA EncodeAllConcat ==
    ASSUME NEW vs \in Seq(Values), NEW ws \in Seq(Values)
    PROVE  EncodeAll(vs \o ws) = EncodeAll(vs) \o EncodeAll(ws)
<1> DEFINE H == {n \in Nat : \A xs \in Seq(Values) : Len(xs) = n =>
                    EncodeAll(vs \o xs) = EncodeAll(vs) \o EncodeAll(xs)}
<1>0. EncodeAll(vs) \in Seq(Byte)
  <2>1. CASE Values = {}
    <3>1. vs = <<>>
      <4>1. Len(vs) \in Nat /\ \A i \in 1 .. Len(vs) : vs[i] \in Values
        BY LenProperties, ElementOfSeq
      <4>2. Len(vs) = 0
        BY <2>1, <4>1
      <4> QED BY <4>2, EmptySeq
    <3> QED BY <3>1, EncodeAllEmpty, EmptySeq
  <2>2. CASE Values # {}
    BY <2>2, EncodeAllSnoc
  <2> QED BY <2>1, <2>2
<1>1. ASSUME NEW n \in Nat, \A m \in Nat : m < n => m \in H PROVE n \in H
  <2> SUFFICES ASSUME NEW xs \in Seq(Values), Len(xs) = n
               PROVE  EncodeAll(vs \o xs) = EncodeAll(vs) \o EncodeAll(xs)
    OBVIOUS
  <2>1. CASE xs = <<>>
    <3>1. vs \o xs = vs /\ EncodeAll(vs) \o <<>> = EncodeAll(vs)
      BY <1>0, <2>1, ConcatEmptySeq
    <3> QED BY <2>1, <3>1, EncodeAllEmpty
  <2>2. CASE xs # <<>>
    <3> DEFINE ys == Front(xs)
               v == Last(xs)
    <3>1. ys \in Seq(Values) /\ v \in Values /\ xs = ys \o <<v>> /\ Len(ys) \in Nat /\ Len(ys) < n
      <4>1. ys \in Seq(Values) /\ Len(ys) = Len(xs) - 1 /\ v \in Values /\ xs = ys \o <<v>>
        BY <2>2, FrontLast
      <4> HIDE DEF ys, v
      <4> QED BY <4>1
    <3> HIDE DEF ys, v
    <3>2. EncodeAll(vs \o ys) = EncodeAll(vs) \o EncodeAll(ys)
      <4>1. Len(ys) \in H
        <5> HIDE DEF H
        <5> QED BY <1>1, <3>1
      <4> QED BY <3>1, <4>1
    <3>3. /\ EncodeAll(ys \o <<v>>) = EncodeAll(ys) \o Encode[v]
          /\ EncodeAll(ys) \in Seq(Byte) /\ Encode[v] \in Seq(Byte)
      BY <3>1, EncodeAllSnoc
    <3>4. vs \o ys \in Seq(Values) /\ (vs \o ys) \o <<v>> = vs \o (ys \o <<v>>)
      <4>1. <<v>> \in Seq(Values)
        BY <3>1
      <4> QED BY <3>1, <4>1, ConcatProperties, ConcatAssociative
    <3>5. EncodeAll((vs \o ys) \o <<v>>) = EncodeAll(vs \o ys) \o Encode[v]
      <4> DEFINE zs == vs \o ys
      <4> HIDE DEF zs
      <4>1. EncodeAll(zs \o <<v>>) = EncodeAll(zs) \o Encode[v]
        BY <3>1, <3>4, EncodeAllSnoc DEF zs
      <4> QED BY <4>1 DEF zs
    <3>6. (EncodeAll(vs) \o EncodeAll(ys)) \o Encode[v] = EncodeAll(vs) \o (EncodeAll(ys) \o Encode[v])
      <4> DEFINE a == EncodeAll(vs)
                 b == EncodeAll(ys)
                 c == Encode[v]
      <4>1. a \in Seq(Byte) /\ b \in Seq(Byte) /\ c \in Seq(Byte)
        BY <1>0, <3>3
      <4> HIDE DEF a, b, c
      <4>2. (a \o b) \o c = a \o (b \o c)
        BY <4>1, ConcatAssociative
      <4> QED BY <4>2 DEF a, b, c
    <3> QED BY <3>1, <3>2, <3>3, <3>4, <3>5, <3>6
  <2> QED BY <2>1, <2>2
<1>2. \A n \in Nat : n \in H
  <2> HIDE DEF H
  <2> QED BY <1>1, Induction
<1> QED
  BY <1>2, LenProperties

LEMMA EncodeAllType ==
    ASSUME NEW vs \in Seq(Values)
    PROVE  EncodeAll(vs) \in Seq(Byte) /\ Len(EncodeAll(vs)) \in Nat
<1>1. CASE Values = {}
  <2>1. Len(vs) \in Nat /\ \A i \in 1 .. Len(vs) : vs[i] \in Values
    BY LenProperties, ElementOfSeq
  <2>2. Len(vs) = 0
    BY <1>1, <2>1
  <2>3. vs = <<>>
    BY <2>2, EmptySeq
  <2> QED BY <2>3, EncodeAllEmpty, EmptySeq
<1>2. CASE Values # {}
  BY <1>2, EncodeAllSnoc, LenProperties
<1> QED
  BY <1>1, <1>2

(* The bytes of the first value stand in front.                              *)
LEMMA EncodeAllCons ==
    ASSUME NEW v \in Values, NEW ws \in Seq(Values)
    PROVE  /\ EncodeAll(<<v>> \o ws) = Encode[v] \o EncodeAll(ws)
           /\ EncodeAll(<<v>>) = Encode[v] /\ Encode[v] \in Seq(Byte)
<1>1. <<v>> \in Seq(Values) /\ <<>> \in Seq(Values)
  BY EmptySeq
<1>2. EncodeAll(<<>> \o <<v>>) = EncodeAll(<<>>) \o Encode[v] /\ Encode[v] \in Seq(Byte)
  BY <1>1, EncodeAllSnoc
<1>3. EncodeAll(<<v>>) = Encode[v]
  <2>1. <<>> \o <<v>> = <<v>> /\ <<>> \o Encode[v] = Encode[v]
    BY <1>1, <1>2, ConcatEmptySeq
  <2> QED BY <1>2, <2>1, EncodeAllEmpty
<1>4. EncodeAll(<<v>> \o ws) = EncodeAll(<<v>>) \o EncodeAll(ws)
  <2> DEFINE vs == <<v>>
  <2>1. vs \in Seq(Values)
    BY <1>1
  <2> HIDE DEF vs
  <2>2. EncodeAll(vs \o ws) = EncodeAll(vs) \o EncodeAll(ws)
    BY <2>1, EncodeAllConcat
  <2> QED BY <2>2 DEF vs
<1> QED
  BY <1>2, <1>3, <1>4

(* No element has more bytes than the aggregate.                             *)
LEMMA ElementShorter ==
    ASSUME NEW vs \in Seq(Values), NEW j \in 1 .. Len(vs)
    PROVE  Len(Encode[vs[j]]) <= Len(EncodeAll(vs))
<1> DEFINE H == {n \in Nat : \A xs \in Seq(Values) : Len(xs) = n =>
                    \A i \in 1 .. n : Len(Encode[xs[i]]) <= Len(EncodeAll(xs))}
<1>1. ASSUME NEW n \in Nat, \A m \in Nat : m < n => m \in H PROVE n \in H
  <2> SUFFICES ASSUME NEW xs \in Seq(Values), Len(xs) = n, NEW i \in 1 .. n
               PROVE  Len(Encode[xs[i]]) <= Len(EncodeAll(xs))
    OBVIOUS
  <2>0. xs # <<>>
    BY EmptySeq
  <2> DEFINE ys == Front(xs)
             v == Last(xs)
  <2>1. ys \in Seq(Values) /\ v \in Values /\ xs = ys \o <<v>> /\ Len(ys) = n - 1
    BY <2>0, FrontLast
  <2> HIDE DEF ys, v
  <2>2. (\A k \in 1 .. Len(ys) : xs[k] = ys[k]) /\ xs[Len(ys) + 1] = v
    BY <2>1, Appended
  <2>3. EncodeAll(xs) = EncodeAll(ys) \o Encode[v] /\ EncodeAll(ys) \in Seq(Byte) /\ Encode[v] \in Seq(Byte)
    BY <2>1, EncodeAllSnoc
  <2>4. /\ Len(EncodeAll(xs)) = Len(EncodeAll(ys)) + Len(Encode[v])
        /\ Len(EncodeAll(ys)) \in Nat /\ Len(Encode[v]) \in Nat
    BY <2>3, ConcatProperties, LenProperties
  <2>5. CASE i = n
    <3>1. xs[i] = v
      BY <2>1, <2>2, <2>5
    <3> QED BY <2>4, <3>1
  <2>6. CASE i # n
    <3>1. i \in 1 .. n - 1 /\ n - 1 \in Nat /\ n - 1 < n
      BY <2>6
    <3>2. n - 1 \in H
      <4> HIDE DEF H
      <4> QED BY <1>1, <3>1
    <3>3. Len(Encode[ys[i]]) <= Len(EncodeAll(ys))
      BY <2>1, <3>1, <3>2
    <3>4. xs[i] = ys[i] /\ Encode[ys[i]] \in Seq(Byte)
      <4>1. ys[i] \in Values
        BY <2>1, <3>1, ElementOfSeq
      <4> QED BY <2>1, <2>2, <3>1, <4>1, EncodeAssumption
    <3>5. Len(Encode[ys[i]]) \in Nat
      BY <3>4, LenProperties
    <3> QED BY <2>4, <3>3, <3>4, <3>5
  <2> QED BY <2>5, <2>6
<1>2. \A n \in Nat : n \in H
  <2> HIDE DEF H
  <2> QED BY <1>1, Induction
<1>3. Len(vs) \in Nat /\ Len(vs) \in H
  BY <1>2, LenProperties
<1> QED
  BY <1>3

-----------------------------------------------------------------------------
(* The elements of an aggregate, one at a time.                              *)

(* An element is read as a whole, and only as a whole. *)
Whole(v) ==
    \A r \in Seq(Byte), flag \in BOOLEAN : Element(Encode[v] \o r, flag, parse_array) = Ok(r, v)

Asks(v) ==
    \A u, w \in Seq(Byte), flag \in BOOLEAN :
        Joins(Encode[v], u, w) /\ w # <<>> /\ Len(u) >= 4
        => Element(u, flag, parse_array).ret = "NEED_MORE_DATA"

IsScalar(u) == u[1] \in {"+", "-", "(", "$", ":", NullSymbol}

(* What parse_array makes of an element that is no aggregate is what         *)
(* do_parse makes of it.                                                     *)
LEMMA ScalarElement ==
    ASSUME NEW u, IsScalar(u), NEW flag, NEW parse
    PROVE  Element(u, flag, parse) = Scalar(u, "", flag)
<1>1. u[1] \notin Range(ComplexSymbol) /\ u[1] \in (Range(TextSymbol) \ {"!"}) \cup {":", NullSymbol, "#"}
  BY TextSymbolFact, ComplexSymbolFact, NullFact DEF IsScalar
<1> QED
  BY <1>1 DEF Element

(* The symbol is the first byte, however the others are cut.                 *)
LEMMA HeadByte ==
    ASSUME NEW e \in Seq(Byte), NEW c \in Byte, NEW x \in Seq(Byte), e = <<c>> \o x
    PROVE  /\ \A r \in Seq(Byte) : (e \o r)[1] = c
           /\ \A u, w \in Seq(Byte) : u # <<>> /\ Joins(e, u, w) => u[1] = c
           /\ e # <<>>
<1>1. e[1] = c /\ Len(e) = Len(x) + 1 /\ Len(x) \in Nat
  BY SymbolFact
<1>2. e # <<>>
  BY <1>1, EmptySeq
<1>3. \A r \in Seq(Byte) : (e \o r)[1] = c
  BY <1>1, <1>2, HeadKept
<1>4. ASSUME NEW u \in Seq(Byte), NEW w \in Seq(Byte), u # <<>>, Joins(e, u, w) PROVE u[1] = c
  <2>1. (u \o w)[1] = u[1]
    BY <1>4, HeadKept
  <2>2. e = u \o w
    BY <1>4 DEF Joins
  <2> QED BY <1>1, <2>1, <2>2
<1> QED
  BY <1>2, <1>3, <1>4

(* Lines as elements.                                                        *)
LEMMA LineGood ==
    ASSUME NEW v \in Values, IsLine(v)
    PROVE  Whole(v) /\ Asks(v)
<1> DEFINE c == TextSymbol[v.type]
           e == Encode[v]
           x == Line(v.text)
<1>1. c \in {"+", "-", "("} /\ c \in Byte /\ x \in Seq(Byte) /\ e = <<c>> \o x
  BY EncodeLine
<1>2. e \in Seq(Byte)
  BY EncodeAssumption
<1>3. /\ \A r \in Seq(Byte) : (e \o r)[1] = c
      /\ \A u, w \in Seq(Byte) : u # <<>> /\ Joins(e, u, w) => u[1] = c
  <2> HIDE DEF c, e, x
  <2> QED BY <1>1, <1>2, HeadByte
<1>4. Whole(v)
  <2> SUFFICES ASSUME NEW r \in Seq(Byte), NEW flag \in BOOLEAN
               PROVE  Element(e \o r, flag, parse_array) = Ok(r, v)
    BY DEF Whole
  <2>1. Scalar(e \o r, "", flag) = Ok(r, v)
    BY LineWhole
  <2> HIDE DEF c, e, x
  <2>2. IsScalar(e \o r)
    BY <1>1, <1>3 DEF IsScalar
  <2> QED BY <2>1, <2>2, ScalarElement
<1>5. Asks(v)
  <2> SUFFICES ASSUME NEW u \in Seq(Byte), NEW w \in Seq(Byte), NEW flag \in BOOLEAN,
                      Joins(e, u, w), w # <<>>, Len(u) >= 4
               PROVE  Element(u, flag, parse_array).ret = "NEED_MORE_DATA"
    BY DEF Asks
  <2>1. u # <<>>
    BY EmptySeq
  <2>2. Scalar(u, "", flag).ret = "NEED_MORE_DATA"
    BY <2>1, LineAsks DEF Joins
  <2> HIDE DEF c, e, x
  <2>3. IsScalar(u)
    BY <1>1, <1>3, <2>1 DEF IsScalar
  <2> QED BY <2>2, <2>3, ScalarElement
<1> QED
  BY <1>4, <1>5

(* Blobs as elements.                                                        *)
LEMMA BlobGood ==
    ASSUME NEW v \in Values, IsBlob(v, "BlobString")
    PROVE  Whole(v) /\ Asks(v)
<1> DEFINE t == "BlobString"
           c == TextSymbol[t]
           e == Encode[v]
           x == Line(Decimal[Len(v.text)]) \o Line(v.text)
<1>0. t \in BlobTypes /\ IsBlob(v, t)
  BY DEF BlobTypes
<1>1. c \in Byte /\ x \in Seq(Byte) /\ e = <<c>> \o x
  <2> HIDE DEF t
  <2> QED BY <1>0, EncodeBlob
<1>2. e \in Seq(Byte) /\ c = "$"
  BY EncodeAssumption, TextSymbolFact
<1>3. /\ \A r \in Seq(Byte) : (e \o r)[1] = c
      /\ \A u, w \in Seq(Byte) : u # <<>> /\ Joins(e, u, w) => u[1] = c
  <2> HIDE DEF c, e, x
  <2> QED BY <1>1, <1>2, HeadByte
<1>4. Whole(v)
  <2> SUFFICES ASSUME NEW r \in Seq(Byte), NEW flag \in BOOLEAN
               PROVE  Element(e \o r, flag, parse_array) = Ok(r, v)
    BY DEF Whole
  <2>1. Scalar(e \o r, "", flag) = Ok(r, v)
    <3> HIDE DEF t
    <3> QED BY <1>0, BlobWhole
  <2> HIDE DEF c, e, x
  <2>2. IsScalar(e \o r)
    BY <1>2, <1>3 DEF IsScalar
  <2> QED BY <2>1, <2>2, ScalarElement
<1>5. Asks(v)
  <2> SUFFICES ASSUME NEW u \in Seq(Byte), NEW w \in Seq(Byte), NEW flag \in BOOLEAN,
                      Joins(e, u, w), w # <<>>, Len(u) >= 4
               PROVE  Element(u, flag, parse_array).ret = "NEED_MORE_DATA"
    BY DEF Asks
  <2>1. u # <<>> /\ "" # "-"
    BY EmptySeq
  <2>2. Scalar(u, "", flag).ret = "NEED_MORE_DATA"
    <3>1. u \o w = Encode[v]
      BY DEF Joins
    <3> HIDE DEF t
    <3> QED BY <1>0, <2>1, <3>1, BlobAsks
  <2> HIDE DEF c, e, x
  <2>3. IsScalar(u)
    BY <1>2, <1>3, <2>1 DEF IsScalar
  <2> QED BY <2>2, <2>3, ScalarElement
<1> QED
  BY <1>4, <1>5

(* Numbers as elements.                                                      *)
LEMMA NumberGood ==
    ASSUME NEW n \in 0..9, Integer(n) \in Values
    PROVE  Whole(Integer(n)) /\ Asks(Integer(n))
<1> DEFINE v == Integer(n)
           c == ":"
           e == Encode[v]
           x == Line(Decimal[n])
<1>1. c \in Byte /\ x \in Seq(Byte) /\ e = <<c>> \o x
  BY EncodeNumber
<1>2. e \in Seq(Byte)
  BY EncodeAssumption
<1>3. \A r \in Seq(Byte) : (e \o r)[1] = c
  <2> HIDE DEF c, e, x
  <2> QED BY <1>1, <1>2, HeadByte
<1>4. Whole(v)
  <2> SUFFICES ASSUME NEW r \in Seq(Byte), NEW flag \in BOOLEAN
               PROVE  Element(e \o r, flag, parse_array) = Ok(r, v)
    BY DEF Whole
  <2>1. Scalar(e \o r, "", flag) = Ok(r, v)
    BY NumberWhole
  <2>2. IsScalar(e \o r)
    BY <1>3 DEF IsScalar
  <2> HIDE DEF e, v
  <2> QED BY <2>1, <2>2, ScalarElement
<1>5. Asks(v)
  <2> SUFFICES ASSUME NEW u \in Seq(Byte), NEW w \in Seq(Byte),
                      Joins(e, u, w), w # <<>>, Len(u) >= 4
               PROVE  FALSE
    BY DEF Asks
  <2>1. u \o w = Encode[Integer(n)]
    BY DEF Joins
  <2>2. Len(u) <= 3 /\ Len(u) \in Nat
    BY <2>1, NumberShort, LenProperties
  <2> QED BY <2>2
<1> QED
  BY <1>4, <1>5

(* Nulls as elements.                                                        *)
LEMMA NilGood ==
    ASSUME Nil \in Values, Resp3
    PROVE  Whole(Nil) /\ Asks(Nil)
<1> DEFINE e == Encode[Nil]
           t == <<NullSymbol>>
<1>1. t \in Seq(Byte) /\ Len(t) = 1 /\ t[1] = NullSymbol
  BY NullFact, Single
<1>2. e = Line(t)
  BY EncodeNil
<1>3. Whole(Nil)
  <2> SUFFICES ASSUME NEW r \in Seq(Byte), NEW flag \in BOOLEAN
               PROVE  Element(e \o r, flag, parse_array) = Ok(r, Nil)
    BY DEF Whole
  <2>1. Scalar(e \o r, "", flag) = Ok(r, Nil)
    BY NilWhole
  <2> HIDE DEF e, t
  <2>2. (e \o r)[1] = NullSymbol
    <3>1. \A i \in 1 .. Len(t) : (Line(t) \o r)[i] = t[i]
      BY <1>1, LineThen
    <3>2. (Line(t) \o r)[1] = t[1]
      <4>1. 1 \in 1 .. Len(t)
        BY <1>1
      <4> QED BY <3>1, <4>1
    <3> QED BY <1>1, <1>2, <3>2
  <2>3. IsScalar(e \o r)
    BY <2>2 DEF IsScalar
  <2> QED BY <2>1, <2>3, ScalarElement
<1>4. Asks(Nil)
  <2> SUFFICES ASSUME NEW u \in Seq(Byte), NEW w \in Seq(Byte),
                      Joins(e, u, w), w # <<>>, Len(u) >= 4
               PROVE  FALSE
    BY DEF Asks
  <2>1. u # <<>> /\ u \o w = Encode[Nil] /\ Len(u) \in Nat
    BY EmptySeq DEF Joins
  <2>2. Len(u) <= 2
    BY <2>1, NilAsks
  <2> QED BY <2>1, <2>2
<1> QED
  BY <1>3, <1>4

-----------------------------------------------------------------------------
(* The loop of parse_array, all bytes here and cut short.                    *)

Good(vs) == \A i \in 1 .. Len(vs) : Whole(vs[i]) /\ Asks(vs[i])

(* What stands behind the first of vs. *)
LEMMA Behind ==
    ASSUME NEW vs \in Seq(Values), vs # <<>>, Good(vs)
    PROVE  \E v \in Values, ws \in Seq(Values) :
              /\ vs = <<v>> \o ws /\ Len(vs) = Len(ws) + 1 /\ Len(ws) \in Nat
              /\ Whole(v) /\ Asks(v) /\ Good(ws)
              /\ ws # <<>> => Last(ws) = Last(vs)
              /\ EncodeAll(vs) = Encode[v] \o EncodeAll(ws)
<1> DEFINE v == vs[1]
           ws == Tail(vs)
           n == Len(vs)
<1>1. n \in Nat /\ n >= 1
  BY EmptySeq
<1>2. ws \in Seq(Values) /\ Len(ws) = n - 1 /\ \A i \in 1 .. Len(ws) : ws[i] = vs[i + 1]
  BY HeadTailProperties
<1>3. v \in Values
  BY <1>1, ElementOfSeq
<1>4. vs = <<v>> \o ws
  <2>1. 1 \in 1 .. n /\ n \in 1 .. n
    BY <1>1
  <2>2. SubSeq(vs, 1, n) = <<vs[1]>> \o SubSeq(vs, 1 + 1, n)
    BY <2>1, SubSeqRecursiveFirst
  <2>3. SubSeq(vs, 1, n) = vs
    BY SubSeqFull
  <2>4. ws = SubSeq(vs, 2, n)
    BY TailIsSubSeq
  <2> QED BY <2>2, <2>3, <2>4
<1>5. Whole(v) /\ Asks(v)
  <2>1. 1 \in 1 .. n
    BY <1>1
  <2> QED BY <2>1 DEF Good
<1>6. Good(ws)
  <2> SUFFICES ASSUME NEW i \in 1 .. Len(ws) PROVE Whole(ws[i]) /\ Asks(ws[i])
    BY DEF Good
  <2>1. i + 1 \in 1 .. n /\ ws[i] = vs[i + 1]
    BY <1>1, <1>2
  <2> HIDE DEF ws
  <2> QED BY <2>1 DEF Good
<1>7. ws # <<>> => Last(ws) = Last(vs)
  <2> SUFFICES ASSUME ws # <<>> PROVE Last(ws) = Last(vs)
    OBVIOUS
  <2>1. Len(ws) \in Nat \ {0}
    BY <1>2, EmptySeq
  <2>2. n - 1 \in 1 .. Len(ws) /\ (n - 1) + 1 = n
    BY <1>1, <1>2, <2>1
  <2>3. ws[n - 1] = vs[n]
    BY <1>2, <2>2
  <2> HIDE DEF ws
  <2> QED BY <1>2, <2>3 DEF Last
<1>8. EncodeAll(vs) = Encode[v] \o EncodeAll(ws)
  <2> HIDE DEF v, ws
  <2>1. EncodeAll(<<v>> \o ws) = Encode[v] \o EncodeAll(ws)
    BY <1>2, <1>3, EncodeAllCons
  <2> QED BY <1>4, <2>1
<1>9. Len(vs) = Len(ws) + 1 /\ Len(ws) \in Nat
  BY <1>1, <1>2
<1> HIDE DEF v, ws
<1> QED
  BY <1>2, <1>3, <1>4, <1>5, <1>6, <1>7, <1>8, <1>9

LEMMA OkRevalued ==
    ASSUME NEW r, NEW s, NEW x, NEW p, p = Ok(r, s)
    PROVE  [p EXCEPT !.val = x] = Ok(r, x)
  BY DEF Ok

LastIsLong(vs) == vs # <<>> => Len(Encode[Last(vs)]) >= 4

(* Elements of which the last is not a null have the four bytes parse_array  *)
(* looks for.                                                                *)
LEMMA AllIsLong ==
    ASSUME NEW vs \in Seq(Values), vs # <<>>, LastIsLong(vs)
    PROVE  EncodeAll(vs) \in Seq(Byte) /\ Len(EncodeAll(vs)) \in Nat /\ Len(EncodeAll(vs)) >= 4
<1>1. Len(vs) \in 1 .. Len(vs) /\ Last(vs) = vs[Len(vs)]
  <2>1. Len(vs) \in Nat \ {0}
    BY EmptySeq
  <2> QED BY <2>1 DEF Last
<1>2. Len(Encode[Last(vs)]) <= Len(EncodeAll(vs))
  BY <1>1, ElementShorter
<1>3. EncodeAll(vs) \in Seq(Byte) /\ Len(EncodeAll(vs)) \in Nat
  BY EncodeAllType
<1>4. Len(Encode[Last(vs)]) \in Nat
  <2>1. Last(vs) \in Values
    BY <1>1, ElementOfSeq
  <2>2. Encode[Last(vs)] \in Seq(Byte)
    BY <2>1, EncodeAssumption
  <2> QED BY <2>2, LenProperties
<1> QED
  BY <1>2, <1>3, <1>4 DEF LastIsLong

(* parse_array reads an array whose bytes are all here. *)
LEMMA ArrayWhole ==
    ASSUME NEW vs \in Seq(Values), Good(vs), LastIsLong(vs), NEW r \in Seq(Byte), NEW flag \in BOOLEAN
    PROVE  parse_array[<<EncodeAll(vs) \o r, Len(vs), flag>>] = Ok(r, vs)
<1> DEFINE H == {n \in Nat : \A xs \in Seq(Values) : Len(xs) = n /\ Good(xs) /\ LastIsLong(xs) =>
                    parse_array[<<EncodeAll(xs) \o r, n, flag>>] = Ok(r, xs)}
<1>1. ASSUME NEW n \in Nat, \A m \in Nat : m < n => m \in H PROVE n \in H
  <2> SUFFICES ASSUME NEW xs \in Seq(Values), Len(xs) = n, Good(xs), LastIsLong(xs)
               PROVE  parse_array[<<EncodeAll(xs) \o r, n, flag>>] = Ok(r, xs)
    OBVIOUS
  <2> DEFINE u == EncodeAll(xs) \o r
  <2>1. u \in Seq(Byte) /\ Len(u) = Len(EncodeAll(xs)) + Len(r) /\ Len(r) \in Nat
    BY EncodeAllType, ConcatProperties, LenProperties
  <2>2. parse_array[<<u, n, flag>>] = ArrayFrom(u, n, flag, parse_array)
    <3> HIDE DEF u
    <3> DEFINE x == <<u, n, flag>>
    <3>1. x \in Calls /\ x[1] = u /\ x[2] = n /\ x[3] = flag
      BY <2>1 DEF Calls
    <3> HIDE DEF x
    <3>2. parse_array[x] = ArrayFrom(x[1], x[2], x[3], parse_array)
      BY <3>1, ParseArrayDef
    <3> QED BY <3>1, <3>2 DEF x
  <2>3. CASE xs = <<>>
    <3>1. n = 0
      BY <2>3, EmptySeq
    <3>2. u = r
      BY <2>3, EncodeAllEmpty, ConcatEmptySeq
    <3> HIDE DEF u
    <3>3. ArrayFrom(u, n, flag, parse_array) = Ok(u, <<>>)
      BY <3>1 DEF ArrayFrom
    <3> QED BY <2>2, <2>3, <3>2, <3>3 DEF u
  <2>4. CASE xs # <<>>
    <3>1. PICK v \in Values, ws \in Seq(Values) :
              /\ xs = <<v>> \o ws /\ Len(xs) = Len(ws) + 1 /\ Len(ws) \in Nat
              /\ Whole(v) /\ Asks(v) /\ Good(ws)
              /\ ws # <<>> => Last(ws) = Last(xs)
              /\ EncodeAll(xs) = Encode[v] \o EncodeAll(ws)
      BY <2>4, Behind
    <3>2. LastIsLong(ws)
      BY <2>4, <3>1 DEF LastIsLong
    <3> DEFINE rest == EncodeAll(ws) \o r
    <3>3. parse_array[<<rest, n - 1, flag>>] = Ok(r, ws)
      <4>1. n - 1 \in Nat /\ n - 1 < n /\ Len(ws) = n - 1
        BY <3>1
      <4>2. n - 1 \in H
        <5> HIDE DEF H
        <5> QED BY <1>1, <4>1
      <4> QED BY <3>1, <3>2, <4>1, <4>2
    <3>4. u = Encode[v] \o rest /\ rest \in Seq(Byte)
      <4> DEFINE a == Encode[v]
                 b == EncodeAll(ws)
      <4>1. a \in Seq(Byte) /\ b \in Seq(Byte)
        BY <3>1, EncodeAllType, EncodeAssumption
      <4>2. EncodeAll(xs) = a \o b
        BY <3>1
      <4> HIDE DEF a, b
      <4>3. (a \o b) \o r = a \o (b \o r) /\ b \o r \in Seq(Byte)
        BY <4>1, ConcatAssociative, ConcatProperties
      <4> QED BY <4>2, <4>3 DEF a, b
    <3>5. Element(u, flag, parse_array) = Ok(rest, v)
      <4> HIDE DEF u, rest
      <4> QED BY <3>1, <3>4 DEF Whole
    <3>6. ~(Len(u) <= 3) /\ n # 0
      <4>1. Len(EncodeAll(xs)) >= 4 /\ Len(EncodeAll(xs)) \in Nat
        BY <2>4, AllIsLong
      <4> HIDE DEF u
      <4> QED BY <2>1, <3>1, <4>1
    <3> HIDE DEF u, rest
    <3>7. ArrayFrom(u, n, flag, parse_array) = Added(Ok(rest, v), n, flag, parse_array)
      BY <3>5, <3>6 DEF ArrayFrom
    <3> DEFINE p == parse_array[<<rest, n - 1, flag>>]
    <3>8. Added(Ok(rest, v), n, flag, parse_array) = [p EXCEPT !.val = <<v>> \o p.val]
      BY DEF Added, Ok
    <3> HIDE DEF p
    <3>9. p = Ok(r, ws)
      BY <3>3 DEF p
    <3>10. [p EXCEPT !.val = <<v>> \o p.val] = Ok(r, <<v>> \o ws)
      <4> DEFINE x == <<v>> \o p.val
      <4>1. x = <<v>> \o ws
        BY <3>9 DEF Ok
      <4> HIDE DEF x
      <4>2. [p EXCEPT !.val = x] = Ok(r, x)
        BY <3>9, OkRevalued
      <4> QED BY <4>1, <4>2 DEF x
    <3> QED BY <2>2, <3>1, <3>7, <3>8, <3>10 DEF u
  <2> QED BY <2>3, <2>4
<1>2. \A n \in Nat : n \in H
  <2> HIDE DEF H
  <2> QED BY <1>1, Induction
<1>3. Len(vs) \in Nat /\ Len(vs) \in H
  BY <1>2, LenProperties
<1> QED
  BY <1>3

(* The array loop on the bytes u. *)
LEMMA ArrayStep ==
    ASSUME NEW u \in Seq(Byte), NEW n \in Nat, NEW flag \in BOOLEAN
    PROVE  parse_array[<<u, n, flag>>] = ArrayFrom(u, n, flag, parse_array)
<1> DEFINE x == <<u, n, flag>>
<1>1. x \in Calls /\ x[1] = u /\ x[2] = n /\ x[3] = flag
  BY DEF Calls
<1> HIDE DEF x
<1>2. parse_array[x] = ArrayFrom(x[1], x[2], x[3], parse_array)
  BY <1>1, ParseArrayDef
<1> QED
  BY <1>1, <1>2 DEF x

(* What it returns.                                                          *)
LEMMA ArrayShape ==
    ASSUME NEW u \in Seq(Byte), NEW n \in Nat, NEW flag \in BOOLEAN
    PROVE  Within(parse_array[<<u, n, flag>>], Len(u))
<1> DEFINE x == <<u, n, flag>>
<1>1. x \in Calls /\ x[1] = u
  BY DEF Calls
<1> HIDE DEF x
<1>2. Len(u) \in Nat /\ Len(u) + 1 \in Nat /\ Len(u) < Len(u) + 1
  BY LenProperties
<1>3. Shrinks(parse_array, Len(u) + 1)
  BY <1>2, ParseArrayDef
<1>4. Within(parse_array[x], Len(x[1]))
  BY <1>1, <1>2, <1>3 DEF Shrinks
<1> QED
  BY <1>1, <1>4 DEF x

(* Fewer than four bytes are asked for more.                                 *)
LEMMA ShortArray ==
    ASSUME NEW u \in Seq(Byte), NEW n \in Nat \ {0}, NEW flag \in BOOLEAN, NEW parse, Len(u) <= 3
    PROVE  ArrayFrom(u, n, flag, parse).ret = "NEED_MORE_DATA"
<1>1. ArrayFrom(u, n, flag, parse) = [Fail("NEED_MORE_DATA", u) EXCEPT !.val = <<>>]
  BY DEF ArrayFrom
<1> QED
  BY <1>1 DEF Fail

(* Another value leaves the code.                                            *)
LEMMA CodeKept ==
    ASSUME NEW p, NEW n, Within(p, n), NEW x
    PROVE  [p EXCEPT !.val = x].ret = p.ret
<1> DEFINE a == p.ret
           b == p.rest
           c == p.val
<1>1. p = Result(a, b, c)
  BY DEF Within
<1> HIDE DEF a, b, c
<1>2. [Result(a, b, c) EXCEPT !.val = x] = Result(a, b, x)
  BY Revalued
<1>3. Result(a, b, x).ret = a
  BY ResultFact
<1> QED
  BY <1>1, <1>2, <1>3 DEF a

(* When the elements behind one are not here, the array asks for more.       *)
LEMMA AddedAsks ==
    ASSUME NEW rest \in Seq(Byte), NEW v, NEW n \in Nat \ {0}, NEW flag \in BOOLEAN,
           parse_array[<<rest, n - 1, flag>>].ret = "NEED_MORE_DATA"
    PROVE  Added(Ok(rest, v), n, flag, parse_array).ret = "NEED_MORE_DATA"
<1> DEFINE p == parse_array[<<rest, n - 1, flag>>]
           x == <<v>> \o p.val
<1>1. Added(Ok(rest, v), n, flag, parse_array) = [p EXCEPT !.val = x]
  BY DEF Added, Ok
<1>2. Within(p, Len(rest))
  <2>1. n - 1 \in Nat
    OBVIOUS
  <2> QED BY <2>1, ArrayShape
<1> HIDE DEF p, x
<1>3. [p EXCEPT !.val = x].ret = p.ret
  BY <1>2, CodeKept
<1> QED
  BY <1>1, <1>3 DEF p

(* When the element is not here, so it does.                                 *)
LEMMA ElementAsks ==
    ASSUME NEW e, NEW k, Within(e, k), e.ret = "NEED_MORE_DATA", NEW n, NEW flag, NEW parse
    PROVE  Added(e, n, flag, parse).ret = "NEED_MORE_DATA"
<1> DEFINE x == <<>>
<1>1. Added(e, n, flag, parse) = [e EXCEPT !.val = x]
  BY DEF Added
<1> HIDE DEF x
<1> QED
  BY <1>1, CodeKept

LEMMA ElementShape ==
    ASSUME NEW u \in Seq(Byte), u # <<>>, NEW flag \in BOOLEAN
    PROVE  Within(Element(u, flag, parse_array), Len(u) - 1)
<1>1. Len(u) \in Nat /\ Agree(parse_array, parse_array, Len(u))
  BY LenProperties DEF Agree
<1>2. Shrinks(parse_array, Len(u))
  BY <1>1, ParseArrayDef
<1> QED
  BY <1>1, <1>2, ElementFact

(* parse_array asks for more while bytes of an array are missing. *)
LEMMA ArrayAsks ==
    ASSUME NEW vs \in Seq(Values), Good(vs), NEW u \in Seq(Byte), NEW w \in Seq(Byte),
           w # <<>>, Joins(EncodeAll(vs), u, w), NEW flag \in BOOLEAN
    PROVE  parse_array[<<u, Len(vs), flag>>].ret = "NEED_MORE_DATA"
<1> DEFINE H == {n \in Nat : \A xs \in Seq(Values), y \in Seq(Byte) :
                    Len(xs) = n /\ Good(xs) /\ Joins(EncodeAll(xs), y, w)
                    => parse_array[<<y, n, flag>>].ret = "NEED_MORE_DATA"}
<1>1. ASSUME NEW n \in Nat, \A m \in Nat : m < n => m \in H PROVE n \in H
  <2> SUFFICES ASSUME NEW xs \in Seq(Values), NEW y \in Seq(Byte),
                      Len(xs) = n, Good(xs), Joins(EncodeAll(xs), y, w)
               PROVE  parse_array[<<y, n, flag>>].ret = "NEED_MORE_DATA"
    OBVIOUS
  <2>0. Len(y) \in Nat /\ Len(w) \in Nat \ {0} /\ Len(y \o w) = Len(y) + Len(w)
    BY EmptySeq, ConcatProperties, LenProperties
  <2>1. parse_array[<<y, n, flag>>] = ArrayFrom(y, n, flag, parse_array)
    BY ArrayStep
  <2>2. xs # <<>> /\ n # 0
    <3>1. xs # <<>>
      <4>1. EncodeAll(<<>>) = <<>> /\ Len(<<>>) = 0
        BY EncodeAllEmpty, EmptySeq
      <4>2. EncodeAll(xs) = y \o w
        BY DEF Joins
      <4>3. Len(EncodeAll(xs)) # 0
        BY <2>0, <4>2
      <4> QED BY <4>1, <4>3
    <3> QED BY <3>1, EmptySeq
  <2>3. CASE Len(y) <= 3
    <3>1. n \in Nat \ {0}
      BY <2>2
    <3> QED BY <2>1, <2>3, <3>1, ShortArray
  <2>4. CASE ~(Len(y) <= 3)
    <3>1. PICK v \in Values, ws \in Seq(Values) :
              /\ xs = <<v>> \o ws /\ Len(xs) = Len(ws) + 1 /\ Len(ws) \in Nat
              /\ Whole(v) /\ Asks(v) /\ Good(ws)
              /\ ws # <<>> => Last(ws) = Last(xs)
              /\ EncodeAll(xs) = Encode[v] \o EncodeAll(ws)
      BY <2>2, Behind
    <3> DEFINE a == Encode[v]
               b == EncodeAll(ws)
               e == EncodeAll(xs)
               el == Element(y, flag, parse_array)
    <3>2. a \in Seq(Byte) /\ b \in Seq(Byte) /\ Joins(e, a, b) /\ Joins(e, y, w) /\ Len(a) \in Nat
      <4>1. a \in Seq(Byte) /\ b \in Seq(Byte)
        BY <3>1, EncodeAllType, EncodeAssumption
      <4> QED BY <3>1, <4>1, LenProperties DEF Joins
    <3>3. ArrayFrom(y, n, flag, parse_array) = Added(el, n, flag, parse_array)
      BY <2>2, <2>4 DEF ArrayFrom
    <3>4. CASE Len(a) <= Len(y)
      <4>1. PICK c \in Seq(Byte) : Joins(y, a, c) /\ Joins(b, c, w)
        <5> HIDE DEF a, b, e
        <5> QED BY <3>2, <3>4, Cut
      <4>2. el = Ok(c, v)
        <5>1. y = Encode[v] \o c
          BY <4>1 DEF Joins
        <5> QED BY <3>1, <5>1 DEF Whole
      <4>3. n - 1 \in Nat /\ n - 1 < n /\ Len(ws) = n - 1
        BY <2>2, <3>1
      <4>4. n - 1 \in H
        <5> HIDE DEF H
        <5> QED BY <1>1, <4>3
      <4>5. parse_array[<<c, n - 1, flag>>].ret = "NEED_MORE_DATA"
        BY <3>1, <4>1, <4>3, <4>4
      <4> HIDE DEF el
      <4>6. Added(el, n, flag, parse_array).ret = "NEED_MORE_DATA"
        BY <2>2, <4>2, <4>5, AddedAsks
      <4> QED BY <2>1, <3>3, <4>6
    <3>5. CASE ~(Len(a) <= Len(y))
      <4>1. PICK c \in Seq(Byte) : Joins(a, y, c) /\ Joins(w, c, b)
        <5>1. Len(y) <= Len(a)
          BY <2>0, <3>2, <3>5
        <5> HIDE DEF a, b, e
        <5> QED BY <3>2, <5>1, Cut
      <4>2. c # <<>>
        <5>1. CASE c = <<>>
          <6>1. a = y
            BY <4>1, <5>1, ConcatEmptySeq DEF Joins
          <6> HIDE DEF a
          <6> QED BY <2>0, <3>5, <6>1
        <5> QED BY <5>1
      <4>3. el.ret = "NEED_MORE_DATA"
        <5>1. Len(y) >= 4
          BY <2>0, <2>4
        <5> QED BY <3>1, <4>1, <4>2, <5>1 DEF Asks
      <4>4. Within(el, Len(y) - 1)
        <5>1. y # <<>>
          BY <2>0, <2>4, EmptySeq
        <5> QED BY <5>1, ElementShape
      <4> HIDE DEF el
      <4>5. Added(el, n, flag, parse_array).ret = "NEED_MORE_DATA"
        BY <4>3, <4>4, ElementAsks
      <4> QED BY <2>1, <3>3, <4>5
    <3> QED BY <3>4, <3>5
  <2> QED BY <2>3, <2>4
<1>2. \A n \in Nat : n \in H
  <2> HIDE DEF H
  <2> QED BY <1>1, Induction
<1>3. Len(vs) \in Nat /\ Len(vs) \in H
  BY <1>2, LenProperties
<1> QED
  BY <1>3

-----------------------------------------------------------------------------
(* Aggregates, in one another.                                               *)

(* The number that stands in front of the elements of v. *)
Count(v) == Len(v.results) \div (IF v.type = "Map" THEN 2 ELSE 1)

(* The bytes of an aggregate.                                                *)
LEMMA EncodeAggregate ==
    ASSUME NEW v \in Values, ReadableAggregate(v)
    PROVE  /\ v.type \in DOMAIN ComplexSymbol /\ v.results \in Seq(Values)
           /\ v = Complex(v.type, v.results)
           /\ Count(v) \in Nat
           /\ (IF v.type = "Map" THEN 2 * Count(v) ELSE Count(v)) = Len(v.results)
           /\ ComplexSymbol[v.type] \in Byte
           /\ Line(Decimal[Count(v)]) \in Seq(Byte)
           /\ EncodeAll(v.results) \in Seq(Byte)
           /\ Encode[v] = <<ComplexSymbol[v.type]>> \o (Line(Decimal[Count(v)]) \o EncodeAll(v.results))
<1>1. /\ v.type \in DOMAIN ComplexSymbol /\ v.results \in Seq(Values)
      /\ v = Complex(v.type, v.results)
      /\ v.type = "Map" => Len(v.results) % 2 = 0
  BY DEF ReadableAggregate, Complex
<1>2. v.type \in {"Array", "Set", "Push", "Map"} /\ ComplexSymbol[v.type] \in Byte
  BY <1>1, ComplexSymbolFact
<1>3. Len(v.results) \in Nat
  BY <1>1, LenProperties
<1>4. /\ Count(v) \in Nat
      /\ (IF v.type = "Map" THEN 2 * Count(v) ELSE Count(v)) = Len(v.results)
  <2> DEFINE n == Len(v.results)
  <2>1. n \in Nat /\ (v.type = "Map" => n % 2 = 0)
    BY <1>1, <1>3
  <2> HIDE DEF n
  <2>2. CASE v.type = "Map"
    <3>1. Count(v) = n \div 2
      BY <2>2 DEF Count, n
    <3>2. n \div 2 \in Nat /\ 2 * (n \div 2) = n
      BY <2>1, <2>2
    <3> QED BY <2>2, <3>1, <3>2 DEF n
  <2>3. CASE v.type # "Map"
    <3>1. Count(v) = n \div 1
      BY <2>3 DEF Count, n
    <3>2. n \div 1 = n
      BY <2>1
    <3> QED BY <2>1, <2>3, <3>1, <3>2 DEF n
  <2> QED BY <2>2, <2>3
<1>5. Line(Decimal[Count(v)]) \in Seq(Byte)
  <2>1. Decimal[Count(v)] \in Texts
    BY <1>4, DecimalText
  <2> QED BY <2>1, LineFact DEF Texts
<1>6. EncodeAll(v.results) \in Seq(Byte)
  BY <1>1, EncodeAllType
<1>7. Encode[v] = (<<ComplexSymbol[v.type]>> \o Line(Decimal[Count(v)])) \o EncodeAll(v.results)
  <2>1. Encode[v] = Bytes(v, Encode)
    BY EncodeAssumption
  <2>2. /\ v.type \notin {"SimpleString", "SimpleError", "BigNumber", "Double"}
        /\ v.type \notin {"BlobString", "BlobError", "Verbatim"}
        /\ v.type # "Number" /\ v.type # "Boolean" /\ v.type # "NilValue"
        /\ IsComplex(v)
    BY <1>1, <1>2 DEF IsComplex
  <2>3. Bytes(v, Encode) = <<ComplexSymbol[v.type]>> \o Line(Decimal[Count(v)]) \o EncodeAll(v.results)
    BY <2>2 DEF Bytes, Count, EncodeAll
  <2> QED BY <2>1, <2>3
<1>8. Encode[v] = <<ComplexSymbol[v.type]>> \o (Line(Decimal[Count(v)]) \o EncodeAll(v.results))
  <2> DEFINE a == <<ComplexSymbol[v.type]>>
             b == Line(Decimal[Count(v)])
             c == EncodeAll(v.results)
  <2>1. a \in Seq(Byte) /\ b \in Seq(Byte) /\ c \in Seq(Byte)
    BY <1>2, <1>5, <1>6, Single
  <2>2. Encode[v] = (a \o b) \o c
    BY <1>7
  <2> HIDE DEF a, b, c
  <2>3. (a \o b) \o c = a \o (b \o c)
    BY <2>1, ConcatAssociative
  <2> QED BY <2>2, <2>3 DEF a, b, c
<1> QED
  BY <1>1, <1>2, <1>4, <1>5, <1>6, <1>8

ElementBytes(v) == Line(Decimal[Count(v)]) \o EncodeAll(v.results)

(* The elements of an aggregate are read when all are here. *)
LEMMA ElementsWhole ==
    ASSUME NEW v \in Values, ReadableAggregate(v), Good(v.results), LastIsLong(v.results),
           NEW r \in Seq(Byte), NEW flag \in BOOLEAN
    PROVE  Elements(get_aggregate_len(ElementBytes(v) \o r), v.type, flag, parse_array) = Ok(r, v.results)
<1> DEFINE n == Count(v)
           vs == v.results
           a == Line(Decimal[n])
           b == EncodeAll(vs)
           u == b \o r
<1>1. n \in Nat /\ (IF v.type = "Map" THEN 2 * n ELSE n) = Len(vs)
  BY EncodeAggregate
<1>2. a \in Seq(Byte) /\ b \in Seq(Byte) /\ vs \in Seq(Values)
  BY EncodeAggregate
<1>3. ElementBytes(v) \o r = a \o u /\ u \in Seq(Byte)
  <2>1. ElementBytes(v) = a \o b
    BY DEF ElementBytes
  <2> HIDE DEF a, b
  <2>2. (a \o b) \o r = a \o (b \o r) /\ b \o r \in Seq(Byte)
    BY <1>2, ConcatAssociative, ConcatProperties
  <2> QED BY <2>1, <2>2
<1>4. get_aggregate_len(a \o u) = Ok(u, n)
  <2> HIDE DEF n, u
  <2> QED BY <1>1, <1>3, LenWhole
<1>5. parse_array[<<u, Len(vs), flag>>] = Ok(r, vs)
  BY <1>2, ArrayWhole
<1> HIDE DEF n, u
<1>6. Elements(Ok(u, n), v.type, flag, parse_array) = parse_array[<<u, Len(vs), flag>>]
  BY <1>1 DEF Elements, Ok
<1> QED
  BY <1>3, <1>4, <1>5, <1>6

(* The bytes of the elements, cut. *)
LEMMA ElementsAsks ==
    ASSUME NEW v \in Values, ReadableAggregate(v), Good(v.results),
           NEW u \in Seq(Byte), NEW w \in Seq(Byte), w # <<>>, Joins(ElementBytes(v), u, w),
           NEW flag \in BOOLEAN
    PROVE  /\ Elements(get_aggregate_len(u), v.type, flag, parse_array).ret = "NEED_MORE_DATA"
           /\ \E k : Within(Elements(get_aggregate_len(u), v.type, flag, parse_array), k)
<1> DEFINE n == Count(v)
           vs == v.results
           a == Line(Decimal[n])
           b == EncodeAll(vs)
           e == ElementBytes(v)
<1>1. n \in Nat /\ (IF v.type = "Map" THEN 2 * n ELSE n) = Len(vs)
  BY EncodeAggregate
<1>2. a \in Seq(Byte) /\ b \in Seq(Byte) /\ vs \in Seq(Values) /\ Joins(e, a, b)
  BY EncodeAggregate DEF Joins, ElementBytes
<1>3. Len(a) \in Nat /\ Len(u) \in Nat /\ Len(vs) \in Nat /\ Joins(e, u, w)
  BY <1>2, LenProperties
<1>4. CASE Len(a) <= Len(u)
  <2>1. PICK c \in Seq(Byte) : Joins(u, a, c) /\ Joins(b, c, w)
    <3> HIDE DEF a, b, e
    <3> QED BY <1>2, <1>3, <1>4, Cut
  <2>2. get_aggregate_len(u) = Ok(c, n)
    <3>1. u = Line(Decimal[n]) \o c
      BY <2>1 DEF Joins
    <3> QED BY <1>1, <3>1, LenWhole
  <2> DEFINE p == parse_array[<<c, Len(vs), flag>>]
  <2>3. p.ret = "NEED_MORE_DATA"
    BY <1>2, <2>1, ArrayAsks
  <2>4. Within(p, Len(c))
    BY <1>3, ArrayShape
  <2>5. Elements(Ok(c, n), v.type, flag, parse_array) = p
    <3> HIDE DEF n
    <3> QED BY <1>1 DEF Elements, Ok
  <2> HIDE DEF p
  <2> QED BY <2>2, <2>3, <2>4, <2>5
<1>5. CASE ~(Len(a) <= Len(u))
  <2>1. PICK c \in Seq(Byte) : Joins(a, u, c) /\ Joins(w, c, b)
    <3>1. Len(u) <= Len(a)
      BY <1>3, <1>5
    <3> HIDE DEF a, b, e
    <3> QED BY <1>2, <1>3, <3>1, Cut
  <2>2. c # <<>>
    <3>1. CASE c = <<>>
      <4>1. a = u
        BY <2>1, <3>1, ConcatEmptySeq DEF Joins
      <4> HIDE DEF a
      <4> QED BY <1>3, <1>5, <4>1
    <3> QED BY <3>1
  <2> DEFINE p == Fail("NEED_MORE_DATA", u)
             x == <<>>
  <2>3. get_aggregate_len(u) = p
    <3>1. u \o c = Line(Decimal[n])
      BY <2>1 DEF Joins
    <3> QED BY <1>1, <2>2, <3>1, LenAsks
  <2>4. Within(p, Len(u)) /\ p.ret = "NEED_MORE_DATA"
    BY FailWithin
  <2> HIDE DEF p
  <2>5. Elements(p, v.type, flag, parse_array) = [p EXCEPT !.val = x]
    BY <2>4 DEF Elements
  <2> HIDE DEF x
  <2>6. [p EXCEPT !.val = x].ret = "NEED_MORE_DATA" /\ Within([p EXCEPT !.val = x], Len(u))
    BY <2>4, CodeKept, Emptied
  <2> QED BY <2>3, <2>5, <2>6
<1> QED
  BY <1>4, <1>5

(* An aggregate as an element.                                               *)
LEMMA NestedElement ==
    ASSUME NEW u, NEW t \in DOMAIN ComplexSymbol, u[1] = ComplexSymbol[t],
          NEW flag, NEW y, y = has_read(u, 1),
           NEW p, p = Elements(get_aggregate_len(y), t, flag, parse_array)
    PROVE  Element(u, flag, parse_array) = IF p.ret = "OK" THEN [p EXCEPT !.val = Complex(t, p.val)] ELSE p
<1>1. u[1] \in Range(ComplexSymbol) /\ AggregateType(u[1]) = t
  BY ComplexSymbolFact
<1>2. u[1] \notin (Range(TextSymbol) \ {"!"}) \cup {":", NullSymbol, "#"}
  BY <1>1, TextSymbolFact, ComplexSymbolFact, NullFact
<1>3. Element(u, flag, parse_array) = Nested(u, flag, parse_array)
  BY <1>1, <1>2 DEF Element
<1> QED
  BY <1>1, <1>3 DEF Nested, Wrap, Then

(* The symbol of an aggregate and what stands behind it.                     *)
LEMMA AggregateHead ==
    ASSUME NEW v \in Values, ReadableAggregate(v)
    PROVE  /\ Encode[v] \in Seq(Byte) /\ Encode[v] # <<>>
           /\ \A r \in Seq(Byte) : /\ (Encode[v] \o r)[1] = ComplexSymbol[v.type]
                                   /\ has_read(Encode[v] \o r, 1) = ElementBytes(v) \o r
           /\ \A u, w \in Seq(Byte) :
                 u # <<>> /\ Joins(Encode[v], u, w)
                 => /\ u[1] = ComplexSymbol[v.type] /\ has_read(u, 1) \in Seq(Byte)
                    /\ Joins(ElementBytes(v), has_read(u, 1), w)
<1> DEFINE c == ComplexSymbol[v.type]
           e == Encode[v]
           x == ElementBytes(v)
           s == <<c>>
<1>1. c \in Byte /\ x \in Seq(Byte) /\ e = s \o x
  <2> DEFINE a == Line(Decimal[Count(v)])
             b == EncodeAll(v.results)
  <2>1. a \in Seq(Byte) /\ b \in Seq(Byte)
    BY EncodeAggregate
  <2>2. x = a \o b
    BY DEF ElementBytes
  <2> HIDE DEF a, b
  <2>3. a \o b \in Seq(Byte)
    BY <2>1, ConcatProperties
  <2> QED BY <2>2, <2>3, EncodeAggregate DEF ElementBytes
<1>2. e \in Seq(Byte)
  BY EncodeAssumption
<1> HIDE DEF c, e, x
<1>3. /\ \A r \in Seq(Byte) : (e \o r)[1] = c
      /\ \A u, w \in Seq(Byte) : u # <<>> /\ Joins(e, u, w) => u[1] = c
      /\ e # <<>>
  BY <1>1, <1>2, HeadByte
<1>4. ASSUME NEW r \in Seq(Byte) PROVE has_read(e \o r, 1) = x \o r
  <2>1. s \in Seq(Byte)
    BY <1>1, Single
  <2> HIDE DEF s
  <2>2. (s \o x) \o r = s \o (x \o r) /\ x \o r \in Seq(Byte)
    BY <1>1, <2>1, ConcatAssociative, ConcatProperties
  <2> DEFINE y == x \o r
  <2> HIDE DEF y
  <2>3. has_read(<<c>> \o y, 1) = y
    BY <1>1, <2>2, SymbolFact DEF y
  <2> QED BY <1>1, <2>2, <2>3 DEF y, s
<1>5. ASSUME NEW u \in Seq(Byte), NEW w \in Seq(Byte), u # <<>>, Joins(e, u, w)
      PROVE  has_read(u, 1) \in Seq(Byte) /\ Joins(x, has_read(u, 1), w)
  <2>1. Joins(e, <<c>>, x)
    BY <1>1 DEF Joins
  <2>2. PICK y \in Seq(Byte) : u = <<c>> \o y /\ Joins(x, y, w)
    BY <1>1, <1>5, <2>1, SymbolCut
  <2>3. has_read(u, 1) = y
    BY <1>1, <2>2, SymbolFact
  <2> QED BY <2>2, <2>3
<1> QED
  BY <1>2, <1>3, <1>4, <1>5 DEF c, e, x

(* Aggregates whose elements are read are read as elements.                  *)
LEMMA AggregateGood ==
    ASSUME NEW v \in Values, ReadableAggregate(v), Good(v.results), LastIsLong(v.results)
    PROVE  Whole(v) /\ Asks(v)
<1> DEFINE t == v.type
           e == Encode[v]
<1>1. t \in DOMAIN ComplexSymbol /\ v = Complex(t, v.results)
  BY EncodeAggregate
<1>2. Whole(v)
  <2> SUFFICES ASSUME NEW r \in Seq(Byte), NEW flag \in BOOLEAN
               PROVE  Element(e \o r, flag, parse_array) = Ok(r, v)
    BY DEF Whole
  <2> DEFINE u == e \o r
             y == ElementBytes(v) \o r
             p == Elements(get_aggregate_len(y), t, flag, parse_array)
  <2>1. u[1] = ComplexSymbol[t] /\ y = has_read(u, 1)
    BY AggregateHead
  <2>2. p = Ok(r, v.results)
    BY ElementsWhole
  <2> HIDE DEF u, y, p, t
  <2>3. p = Elements(get_aggregate_len(y), t, flag, parse_array)
    BY DEF p
  <2>4. Element(u, flag, parse_array) = IF p.ret = "OK" THEN [p EXCEPT !.val = Complex(t, p.val)] ELSE p
    BY <1>1, <2>1, <2>3, NestedElement
  <2>5. p.ret = "OK" /\ p.val = v.results
    BY <2>2 DEF Ok
  <2> DEFINE z == Complex(t, p.val)
  <2>6. z = v
    BY <1>1, <2>5
  <2> HIDE DEF z
  <2>7. [p EXCEPT !.val = z] = Ok(r, z)
    BY <2>2, OkRevalued
  <2> QED BY <2>4, <2>5, <2>6, <2>7 DEF z, u
<1>3. Asks(v)
  <2> SUFFICES ASSUME NEW u \in Seq(Byte), NEW w \in Seq(Byte), NEW flag \in BOOLEAN,
                      Joins(e, u, w), w # <<>>, Len(u) >= 4
               PROVE  Element(u, flag, parse_array).ret = "NEED_MORE_DATA"
    BY DEF Asks
  <2> DEFINE y == has_read(u, 1)
             p == Elements(get_aggregate_len(y), t, flag, parse_array)
  <2>1. u # <<>>
    BY EmptySeq
  <2>2. u[1] = ComplexSymbol[t] /\ y \in Seq(Byte) /\ Joins(ElementBytes(v), y, w)
    BY <2>1, AggregateHead
  <2>3. p.ret = "NEED_MORE_DATA"
    BY <2>2, ElementsAsks
  <2> HIDE DEF p, t
  <2>4. p = Elements(get_aggregate_len(y), t, flag, parse_array)
    BY DEF p
  <2>5. Element(u, flag, parse_array) = IF p.ret = "OK" THEN [p EXCEPT !.val = Complex(t, p.val)] ELSE p
    BY <1>1, <2>2, <2>4, NestedElement
  <2> QED BY <2>3, <2>5
<1> QED
  BY <1>2, <1>3

-----------------------------------------------------------------------------
(* Every readable element, by induction on its bytes.                        *)

(* A symbol and a line are four bytes.                                       *)
LEMMA BehindSymbol ==
    ASSUME NEW c \in Byte, NEW d \in Texts, NEW y \in Seq(Byte), NEW e, e = <<c>> \o (Line(d) \o y)
    PROVE  Len(e) \in Nat /\ Len(e) >= 4 /\ Len(e) > Len(y)
<1>1. Len(d) \in Nat /\ Len(d) # 0 /\ d \in Seq(Byte)
  BY EmptySeq, LenProperties DEF Texts
<1>2. Line(d) \o y \in Seq(Byte) /\ Len(Line(d) \o y) = Len(d) + 2 + Len(y) /\ Len(y) \in Nat
  BY <1>1, LineThen
<1>3. Len(<<c>> \o (Line(d) \o y)) = Len(Line(d) \o y) + 1
  <2> DEFINE x == Line(d) \o y
  <2> HIDE DEF x
  <2>1. x \in Seq(Byte)
    BY <1>2 DEF x
  <2> QED BY <2>1, SymbolFact DEF x
<1> QED
  BY <1>1, <1>2, <1>3

(* An aggregate has four bytes, and more than its elements have.             *)
LEMMA AggregateLong ==
    ASSUME NEW v \in Values, ReadableAggregate(v)
    PROVE  /\ Len(Encode[v]) \in Nat /\ Len(Encode[v]) >= 4
           /\ Len(Encode[v]) > Len(EncodeAll(v.results))
<1> DEFINE d == Decimal[Count(v)]
           y == EncodeAll(v.results)
           c == ComplexSymbol[v.type]
           e == Encode[v]
<1>1. c \in Byte /\ y \in Seq(Byte) /\ e = <<c>> \o (Line(d) \o y) /\ Count(v) \in Nat
  BY EncodeAggregate
<1>2. d \in Texts
  BY <1>1, DecimalText
<1> HIDE DEF d, y, c, e
<1>3. Len(e) \in Nat /\ Len(e) >= 4 /\ Len(e) > Len(y)
  BY <1>1, <1>2, BehindSymbol
<1> QED
  BY <1>3 DEF e, y

(* Every element but the null has the four bytes that parse_array looks for. *)
LEMMA ElementLong ==
    ASSUME Readable, NEW v \in Values, ReadableElement(v), v # Nil
    PROVE  Len(Encode[v]) \in Nat /\ Len(Encode[v]) >= 4
<1>1. CASE IsLine(v)
  <2> DEFINE c == TextSymbol[v.type]
             d == v.text
             e == Encode[v]
             y == <<>>
  <2>1. c \in Byte /\ d \in Texts /\ e = <<c>> \o Line(d)
    BY <1>1, EncodeLine
  <2>2. y \in Seq(Byte) /\ Line(d) = Line(d) \o y
    <3>1. Line(d) \in Seq(Byte)
      BY <2>1, LineFact DEF Texts
    <3> QED BY <3>1, ConcatEmptySeq, EmptySeq
  <2> HIDE DEF c, d, e, y
  <2>3. e = <<c>> \o (Line(d) \o y)
    BY <2>1, <2>2
  <2>4. Len(e) \in Nat /\ Len(e) >= 4
    BY <2>1, <2>2, <2>3, BehindSymbol
  <2> QED BY <2>4 DEF e
<1>2. CASE IsBlob(v, "BlobString")
  <2> DEFINE t == "BlobString"
             c == TextSymbol[t]
             d == Decimal[Len(v.text)]
             y == Line(v.text)
             e == Encode[v]
  <2>0. t \in BlobTypes /\ IsBlob(v, t)
    BY <1>2 DEF BlobTypes
  <2>1. c \in Byte /\ y \in Seq(Byte) /\ e = <<c>> \o (Line(d) \o y) /\ Len(v.text) \in Nat
    <3> HIDE DEF t
    <3> QED BY <2>0, EncodeBlob
  <2>2. d \in Texts
    BY <2>1, DecimalText
  <2> HIDE DEF c, d, e, y
  <2>4. Len(e) \in Nat /\ Len(e) >= 4
    BY <2>1, <2>2, BehindSymbol
  <2> QED BY <2>4 DEF e
<1>3. CASE v \in {Integer(n) : n \in 0..9}
  <2>1. PICK n \in 0..9 : v = Integer(n)
    BY <1>3
  <2> DEFINE c == ":"
             x == Line(Decimal[n])
  <2>2. c \in Byte /\ x \in Seq(Byte) /\ Len(x) = 3 /\ Encode[v] = <<c>> \o x
    BY <2>1, EncodeNumber
  <2> HIDE DEF c, x
  <2>3. Len(<<c>> \o x) = Len(x) + 1
    BY <2>2, SymbolFact
  <2> QED BY <2>2, <2>3
<1>4. CASE IsComplex(v)
  BY <1>4, AggregateLong DEF Readable
<1> QED
  BY <1>1, <1>2, <1>3, <1>4 DEF ReadableElement

(* The elements of a readable aggregate are readable.                        *)
LEMMA ResultsFact ==
    ASSUME NEW v \in Values, ReadableAggregate(v)
    PROVE  \A i \in 1 .. Len(v.results) : ReadableElement(v.results[i]) /\ v.results[i] \in Values
<1>1. v.results \in Seq(Values)
  BY EncodeAggregate
<1>2. DOMAIN v.results = 1 .. Len(v.results)
  BY <1>1, LenProperties
<1> QED
  BY <1>1, <1>2, ElementOfSeq DEF ReadableAggregate

(* The last of them is not a null.                                           *)
LEMMA LastLong ==
    ASSUME Readable, NEW v \in Values, ReadableAggregate(v)
    PROVE  LastIsLong(v.results)
<1> DEFINE vs == v.results
<1> SUFFICES ASSUME vs # <<>> PROVE Len(Encode[Last(vs)]) >= 4
  BY DEF LastIsLong
<1>1. vs \in Seq(Values)
  BY EncodeAggregate
<1>2. Len(vs) \in 1 .. Len(vs) /\ Last(vs) = vs[Len(vs)]
  <2>1. Len(vs) \in Nat \ {0}
    BY <1>1, EmptySeq
  <2> QED BY <2>1 DEF Last
<1>3. Last(vs) \in Values /\ ReadableElement(Last(vs))
  BY <1>2, ResultsFact
<1>4. Last(vs) # Nil
  BY DEF ReadableAggregate
<1> QED
  BY <1>3, <1>4, ElementLong

(* Every element is read as a whole, and asked for until it is here.         *)
LEMMA ElementsGood ==
    ASSUME Readable
    PROVE  \A v \in Values : ReadableElement(v) => Whole(v) /\ Asks(v)
<1> DEFINE H == {n \in Nat : \A v \in Values :
                    Len(Encode[v]) = n /\ ReadableElement(v) => Whole(v) /\ Asks(v)}
<1>1. ASSUME NEW n \in Nat, \A m \in Nat : m < n => m \in H PROVE n \in H
  <2> SUFFICES ASSUME NEW v \in Values, Len(Encode[v]) = n, ReadableElement(v)
               PROVE  Whole(v) /\ Asks(v)
    OBVIOUS
  <2>1. CASE IsLine(v)
    BY <2>1, LineGood
  <2>2. CASE IsBlob(v, "BlobString")
    BY <2>2, BlobGood
  <2>3. CASE v \in {Integer(m) : m \in 0..9}
    <3>1. PICK m \in 0..9 : v = Integer(m)
      BY <2>3
    <3>2. Integer(m) \in Values
      BY <3>1
    <3> QED BY <3>1, <3>2, NumberGood
  <2>4. CASE v = Nil
    <3>1. Nil \in Values
      BY <2>4
    <3>2. Resp3
      BY <3>1 DEF Readable
    <3> QED BY <2>4, <3>1, <3>2, NilGood
  <2>5. CASE IsComplex(v)
    <3> DEFINE vs == v.results
    <3>1. ReadableAggregate(v)
      BY <2>5 DEF Readable
    <3>2. vs \in Seq(Values) /\ EncodeAll(vs) \in Seq(Byte)
      BY <3>1, EncodeAggregate
    <3>3. n > Len(EncodeAll(vs)) /\ Len(EncodeAll(vs)) \in Nat
      BY <3>1, <3>2, AggregateLong, LenProperties
    <3>4. \A i \in 1 .. Len(vs) : ReadableElement(vs[i]) /\ vs[i] \in Values
      BY <3>1, ResultsFact
    <3>5. Good(vs)
      <4> SUFFICES ASSUME NEW i \in 1 .. Len(vs) PROVE Whole(vs[i]) /\ Asks(vs[i])
        BY DEF Good
      <4> DEFINE x == vs[i]
                 k == Len(Encode[x])
      <4>1. x \in Values
        BY <3>4
      <4>2. Encode[x] \in Seq(Byte)
        BY <4>1, EncodeAssumption
      <4>3. k \in Nat /\ k <= Len(EncodeAll(vs))
        BY <3>2, <4>2, ElementShorter, LenProperties
      <4>4. k < n
        BY <3>3, <4>3
      <4>5. k \in H
        <5> HIDE DEF H, k
        <5> QED BY <1>1, <4>3, <4>4
      <4> QED BY <3>4, <4>1, <4>5
    <3>6. LastIsLong(vs)
      BY <3>1, LastLong
    <3> QED BY <3>1, <3>5, <3>6, AggregateGood
  <2> QED BY <2>1, <2>2, <2>3, <2>4, <2>5 DEF ReadableElement
<1>2. \A n \in Nat : n \in H
  <2> HIDE DEF H
  <2> QED BY <1>1, Induction
<1> SUFFICES ASSUME NEW v \in Values, ReadableElement(v) PROVE Whole(v) /\ Asks(v)
  OBVIOUS
<1>3. Encode[v] \in Seq(Byte)
  BY EncodeAssumption
<1>4. Len(Encode[v]) \in Nat /\ Len(Encode[v]) \in H
  BY <1>2, <1>3, LenProperties
<1> QED
  BY <1>4

(* The elements of a readable aggregate. *)
LEMMA ReadableResults ==
    ASSUME Readable, NEW v \in Values, IsComplex(v)
    PROVE  ReadableAggregate(v) /\ Good(v.results) /\ LastIsLong(v.results)
<1>1. ReadableAggregate(v) /\ LastIsLong(v.results)
  BY LastLong DEF Readable
<1>2. \A i \in 1 .. Len(v.results) : ReadableElement(v.results[i]) /\ v.results[i] \in Values
  BY <1>1, ResultsFact
<1> QED
  BY <1>1, <1>2, ElementsGood DEF Good

-----------------------------------------------------------------------------
(* do_parse on one reply.                                                    *)

(* do_parse returns a value as it is.                                        *)
LEMMA ReturnedOk ==
    ASSUME NEW r, NEW v, NEW u
    PROVE  Returned(Ok(r, v), u) = Ok(r, v)
  BY DEF Returned, Ok

(* It puts the read position back when more is needed.                       *)
LEMMA ReturnedAsks ==
    ASSUME NEW p, NEW n, Within(p, n), p.ret = "NEED_MORE_DATA", NEW u
    PROVE  Returned(p, u).ret = "NEED_MORE_DATA" /\ Returned(p, u).rest = u
<1>1. Returned(p, u) = [p EXCEPT !.rest = u]
  BY DEF Returned
<1>2. p = Result(p.ret, p.rest, p.val)
  BY DEF Within
<1> QED
  BY <1>1, <1>2 DEF Result

IsSimple(u) == u[1] \in {"+", "-", "(", "$", "!", NullSymbol}

(* A reply that is no aggregate.                                             *)
LEMMA DoParseScalar ==
    ASSUME NEW u, IsSimple(u), NEW next, NEW flag
    PROVE  do_parse(u, next, flag) = Returned(Scalar(u, next, FALSE), u)
<1>1. u[1] \notin Range(ComplexSymbol)
  BY ComplexSymbolFact, NullFact DEF IsSimple
<1> QED
  BY <1>1 DEF do_parse

(* A reply that is an aggregate.                                             *)
LEMMA DoParseAggregate ==
    ASSUME NEW u, NEW t \in DOMAIN ComplexSymbol, u[1] = ComplexSymbol[t], NEW next, NEW flag,
           NEW y, y = has_read(u, 1)
    PROVE  do_parse(u, next, flag) = Returned(ParseAggregate(y, t, flag), u)
<1>1. u[1] \in Range(ComplexSymbol) /\ AggregateType(u[1]) = t
  BY ComplexSymbolFact
<1> QED
  BY <1>1 DEF do_parse

(* The bytes of a reply that is not an aggregate. *)
LEMMA ScalarReply ==
    ASSUME Readable, NEW v \in Replies, ~IsComplex(v)
    PROVE  /\ v \in Values
           /\ Encode[v] \in Seq(Byte) /\ Encode[v] # <<>>
           /\ Encode[v][1] \in {"+", "-", "(", "$", "!", NullSymbol}
           /\ \A r \in Seq(Byte), next \in Stale : Scalar(Encode[v] \o r, next, FALSE) = Ok(r, v)
           /\ \A u, w \in Seq(Byte), next \in Stale :
                 u # <<>> /\ w # <<>> /\ Joins(Encode[v], u, w)
                 => Scalar(u, next, FALSE).ret = "NEED_MORE_DATA"
<1>1. v \in Values /\ (IsLine(v) \/ IsBlob(v, "BlobString") \/ IsBlob(v, "BlobError") \/ v = Nil)
  BY RepliesAssumption DEF Readable, ReadableReply
<1>2. Encode[v] \in Seq(Byte)
  BY <1>1, EncodeAssumption
<1>3. CASE IsLine(v)
  <2> DEFINE c == TextSymbol[v.type]
             x == Line(v.text)
             e == Encode[v]
  <2>1. c \in {"+", "-", "("} /\ c \in Byte /\ x \in Seq(Byte) /\ e = <<c>> \o x
    BY <1>1, <1>3, EncodeLine
  <2>2. e # <<>> /\ e[1] = c
    <3> HIDE DEF c, x, e
    <3> QED BY <1>2, <2>1, HeadByte, SymbolFact
  <2>3. \A r \in Seq(Byte), next \in Stale : Scalar(e \o r, next, FALSE) = Ok(r, v)
    BY <1>1, <1>3, LineWhole
  <2>4. \A u, w \in Seq(Byte), next \in Stale :
           u # <<>> /\ w # <<>> /\ Joins(e, u, w) => Scalar(u, next, FALSE).ret = "NEED_MORE_DATA"
    BY <1>1, <1>3, LineAsks DEF Joins
  <2> HIDE DEF c, x
  <2> QED BY <1>1, <1>2, <2>1, <2>2, <2>3, <2>4
<1>4. ASSUME NEW t \in BlobTypes, IsBlob(v, t)
      PROVE  /\ Encode[v] # <<>> /\ Encode[v][1] \in {"$", "!"}
             /\ \A r \in Seq(Byte), next \in Stale : Scalar(Encode[v] \o r, next, FALSE) = Ok(r, v)
             /\ \A u, w \in Seq(Byte), next \in Stale :
                   u # <<>> /\ w # <<>> /\ Joins(Encode[v], u, w)
                   => Scalar(u, next, FALSE).ret = "NEED_MORE_DATA"
  <2> DEFINE c == TextSymbol[t]
             x == Line(Decimal[Len(v.text)]) \o Line(v.text)
             e == Encode[v]
  <2>1. c \in Byte /\ x \in Seq(Byte) /\ e = <<c>> \o x
    BY <1>1, <1>4, EncodeBlob
  <2>2. c \in {"$", "!"}
    BY <1>4, TextSymbolFact DEF BlobTypes
  <2>3. e # <<>> /\ e[1] = c
    <3> HIDE DEF c, x, e
    <3> QED BY <1>2, <2>1, HeadByte, SymbolFact
  <2>4. \A r \in Seq(Byte), next \in Stale : Scalar(e \o r, next, FALSE) = Ok(r, v)
    BY <1>1, <1>4, BlobWhole
  <2>5. ASSUME NEW u \in Seq(Byte), NEW w \in Seq(Byte), NEW next \in Stale,
               u # <<>>, w # <<>>, Joins(e, u, w)
        PROVE  Scalar(u, next, FALSE).ret = "NEED_MORE_DATA"
    <3>1. next # "-" /\ u \o w = Encode[v]
      BY <2>5 DEF Readable, Joins
    <3> QED BY <1>1, <1>4, <2>5, <3>1, BlobAsks
  <2> HIDE DEF c, x
  <2> QED BY <2>2, <2>3, <2>4, <2>5
<1>5. CASE IsBlob(v, "BlobString") \/ IsBlob(v, "BlobError")
  <2>1. \E t \in BlobTypes : IsBlob(v, t)
    BY <1>5 DEF BlobTypes
  <2>2. {"$", "!"} \subseteq {"+", "-", "(", "$", "!", NullSymbol}
    OBVIOUS
  <2> QED BY <1>1, <1>2, <1>4, <2>1, <2>2
<1>6. CASE v = Nil
  <2> DEFINE e == Encode[Nil]
             t == <<NullSymbol>>
  <2>1. Nil \in Values /\ Resp3
    BY <1>1, <1>6 DEF Readable
  <2>2. e = Line(t) /\ t \in Seq(Byte) /\ Len(t) = 1 /\ t[1] = NullSymbol
    BY <2>1, EncodeNil, NullFact, Single
  <2>3. e # <<>> /\ e[1] = NullSymbol
    <3> HIDE DEF e, t
    <3>0. Len(Line(t)) = Len(t) + 2
      BY <2>2, LineFact
    <3>1. Len(e) = 3 /\ 1 \in 1 .. Len(t)
      BY <2>2, <3>0
    <3>2. e[1] = t[1]
      <4>1. \A i \in 1 .. Len(t) : Line(t)[i] = t[i]
        BY <2>2, LineFact
      <4> QED BY <2>2, <3>1, <4>1
    <3>3. e # <<>>
      <4>1. e \in Seq(Byte)
        BY <2>2, LineFact
      <4> QED BY <3>1, <4>1, EmptySeq
    <3> QED BY <2>2, <3>2, <3>3
  <2>4. \A r \in Seq(Byte), next \in Stale : Scalar(e \o r, next, FALSE) = Ok(r, Nil)
    BY <2>1, NilWhole
  <2>5. ASSUME NEW u \in Seq(Byte), NEW w \in Seq(Byte), NEW next \in Stale,
               u # <<>>, w # <<>>, Joins(e, u, w)
        PROVE  Scalar(u, next, FALSE).ret = "NEED_MORE_DATA"
    <3>1. u \o w = Encode[Nil]
      BY <2>5 DEF Joins
    <3> QED BY <2>1, <2>5, <3>1, NilAsks
  <2> QED BY <1>1, <1>2, <1>6, <2>3, <2>4, <2>5
<1> QED
  BY <1>1, <1>3, <1>5, <1>6

(* ArrayParser::parse and MapParser::parse on elements that are here.        *)
LEMMA AggregateRead ==
    ASSUME NEW y, NEW t, NEW flag, NEW r, NEW vs,
           Elements(get_aggregate_len(y), t, flag, parse_array) = Ok(r, vs)
    PROVE  ParseAggregate(y, t, flag) = Ok(r, Complex(t, vs))
  BY DEF ParseAggregate, Ok

(* The same on elements that are cut.                                        *)
LEMMA AggregateWaits ==
    ASSUME NEW y, NEW t, NEW flag,
           NEW p, p = Elements(get_aggregate_len(y), t, flag, parse_array), p.ret = "NEED_MORE_DATA",
           NEW k, Within(p, k)
    PROVE  ParseAggregate(y, t, flag).ret = "NEED_MORE_DATA" /\ Within(ParseAggregate(y, t, flag), k)
<1>1. ParseAggregate(y, t, flag) = Result("NEED_MORE_DATA", p.rest, Complex(t, p.val))
  BY DEF ParseAggregate, Result
<1> DEFINE q == ParseAggregate(y, t, flag)
<1> HIDE DEF q
<1> QED
  BY <1>1, ResultFact DEF Within, q

(* do_parse returns a reply whose bytes are all here, and takes its bytes     *)
(* off the buffer and no other, whatever stands behind them.                  *)
THEOREM ReadsWholeReplies ==
    ASSUME Readable, NEW v \in Replies, NEW r \in Seq(Byte), NEW next \in Stale, NEW flag \in BOOLEAN
    PROVE  do_parse(Encode[v] \o r, next, flag) = Ok(r, v)
<1> DEFINE u == Encode[v] \o r
<1>1. CASE IsComplex(v)
  <2> DEFINE t == v.type
             y == ElementBytes(v) \o r
             p == Elements(get_aggregate_len(y), t, flag, parse_array)
  <2>1. v \in Values /\ ReadableAggregate(v) /\ Good(v.results) /\ LastIsLong(v.results)
    BY <1>1, ReadableResults, RepliesAssumption
  <2>2. u[1] = ComplexSymbol[t] /\ y = has_read(u, 1)
        /\ t \in DOMAIN ComplexSymbol /\ v = Complex(t, v.results)
    BY <2>1, AggregateHead, EncodeAggregate
  <2>3. p = Ok(r, v.results)
    BY <2>1, ElementsWhole
  <2> HIDE DEF u, y, p, t
  <2>4. p = Elements(get_aggregate_len(y), t, flag, parse_array)
    BY DEF p
  <2>5. ParseAggregate(y, t, flag) = Ok(r, v)
    <3>1. Elements(get_aggregate_len(y), t, flag, parse_array) = Ok(r, v.results)
      BY <2>3, <2>4
    <3>2. ParseAggregate(y, t, flag) = Ok(r, Complex(t, v.results))
      BY <3>1, AggregateRead
    <3> QED BY <2>2, <3>2
  <2>6. do_parse(u, next, flag) = Returned(Ok(r, v), u)
    BY <2>2, <2>5, DoParseAggregate
  <2> QED BY <2>6, ReturnedOk DEF u
<1>2. CASE ~IsComplex(v)
  <2> DEFINE e == Encode[v]
  <2>1. /\ e \in Seq(Byte) /\ e # <<>>
        /\ e[1] \in {"+", "-", "(", "$", "!", NullSymbol}
        /\ Scalar(e \o r, next, FALSE) = Ok(r, v)
    BY <1>2, ScalarReply
  <2> HIDE DEF e
  <2>2. (e \o r)[1] = e[1]
    BY <2>1, HeadKept
  <2>3. do_parse(e \o r, next, flag) = Returned(Ok(r, v), e \o r)
    <3> DEFINE x == e \o r
    <3>1. IsSimple(x)
      BY <2>1, <2>2 DEF IsSimple
    <3>2. Scalar(x, next, FALSE) = Ok(r, v)
      BY <2>1
    <3> HIDE DEF x
    <3>3. do_parse(x, next, flag) = Returned(Scalar(x, next, FALSE), x)
      BY <3>1, DoParseScalar
    <3> QED BY <3>2, <3>3 DEF x
  <2> QED BY <2>3, ReturnedOk DEF e
<1> QED
  BY <1>1, <1>2

(* do_parse asks for more, and leaves the buffer as it was, while bytes of a *)
(* reply are missing, wherever it is cut.                                    *)
THEOREM AsksForTheRest ==
    ASSUME Readable, NEW v \in Replies, NEW u \in Seq(Byte), NEW w \in Seq(Byte),
           u # <<>>, w # <<>>, Joins(Encode[v], u, w), NEW next \in Stale, NEW flag \in BOOLEAN
    PROVE  do_parse(u, next, flag).ret = "NEED_MORE_DATA" /\ do_parse(u, next, flag).rest = u
<1>1. CASE IsComplex(v)
  <2> DEFINE t == v.type
             y == has_read(u, 1)
             p == Elements(get_aggregate_len(y), t, flag, parse_array)
  <2>1. v \in Values /\ ReadableAggregate(v) /\ Good(v.results) /\ LastIsLong(v.results)
    BY <1>1, ReadableResults, RepliesAssumption
  <2>2. /\ u[1] = ComplexSymbol[t] /\ t \in DOMAIN ComplexSymbol
        /\ y \in Seq(Byte) /\ Joins(ElementBytes(v), y, w)
    BY <2>1, AggregateHead, EncodeAggregate
  <2>3. p.ret = "NEED_MORE_DATA" /\ \E k : Within(p, k)
    BY <2>1, <2>2, ElementsAsks
  <2> HIDE DEF y, p, t
  <2>4. p = Elements(get_aggregate_len(y), t, flag, parse_array) /\ y = has_read(u, 1)
    BY DEF p, y
  <2> DEFINE q == ParseAggregate(y, t, flag)
  <2>5. q.ret = "NEED_MORE_DATA" /\ \E k : Within(q, k)
    BY <2>3, <2>4, AggregateWaits
  <2> HIDE DEF q
  <2>6. do_parse(u, next, flag) = Returned(q, u)
    BY <2>2, <2>4, DoParseAggregate DEF q
  <2> QED BY <2>5, <2>6, ReturnedAsks
<1>2. CASE ~IsComplex(v)
  <2> DEFINE e == Encode[v]
             p == Scalar(u, next, FALSE)
  <2>1. e[1] \in {"+", "-", "(", "$", "!", NullSymbol} /\ e \in Seq(Byte)
    BY <1>2, ScalarReply
  <2>2. p.ret = "NEED_MORE_DATA"
    BY <1>2, ScalarReply
  <2>3. u[1] = e[1]
    BY HeadKept DEF Joins
  <2>4. Within(p, Len(u) - 1)
    BY ScalarWithin
  <2> HIDE DEF e, p
  <2>5. do_parse(u, next, flag) = Returned(p, u)
    <3>1. IsSimple(u)
      BY <2>1, <2>3 DEF IsSimple
    <3> QED BY <3>1, DoParseScalar DEF p
  <2> QED BY <2>2, <2>4, <2>5, ReturnedAsks
<1> QED
  BY <1>1, <1>2

(* Every reply has bytes.                                                    *)
LEMMA ReplyBytes ==
    ASSUME Readable, NEW v \in Replies
    PROVE  v \in Values /\ Encode[v] \in Seq(Byte) /\ Encode[v] # <<>> /\ Len(Encode[v]) \in Nat \ {0}
<1>1. v \in Values
  BY RepliesAssumption
<1>2. Encode[v] \in Seq(Byte) /\ Encode[v] # <<>>
  <2>1. CASE IsComplex(v)
    BY <1>1, <2>1, AggregateHead DEF Readable
  <2>2. CASE ~IsComplex(v)
    BY <2>2, ScalarReply
  <2> QED BY <2>1, <2>2
<1> QED
  BY <1>1, <1>2, EmptySeq, LenProperties

-----------------------------------------------------------------------------
(* The stream.                                                               *)

(* The replies that have not been returned. *)
Left == SubSeq(sent, Len(out) + 1, Len(sent))

(* The inductive invariant: the bytes that are here and those on their way   *)
(* are those of the replies left, and do_parse has asked for more only when  *)
(* the first of these is not here as a whole.                                *)
IInv ==
    /\ sent \in [1..MaxReplies -> Replies]
    /\ out \in Seq(Replies)
    /\ unread \in Seq(Byte)
    /\ wire \in Seq(Byte)
    /\ code \in {"parse", "NEED_MORE_DATA"}
    /\ sent = out \o Left
    /\ EncodeAll(Left) = unread \o wire
    /\ code = "parse" => unread # <<>>
    /\ code = "NEED_MORE_DATA" /\ unread # <<>> =>
          Left # <<>> /\ Len(unread) < Len(Encode[Left[1]])

(* What is left is what stands behind the values returned.                   *)
LEMMA LeftFact ==
    ASSUME NEW s, NEW a \in Seq(Replies), NEW b \in Seq(Replies), s = a \o b
    PROVE  SubSeq(s, Len(a) + 1, Len(s)) = b
<1>1. has_read(a \o b, Len(a)) = b
  BY Skipped
<1>2. Len(a) <= Len(a \o b)
  BY ConcatProperties, LenProperties
<1> QED
  BY <1>1, <1>2 DEF has_read

LEMMA FirstOf ==
    ASSUME NEW S, NEW s \in Seq(S), s # <<>>
    PROVE  s[1] \in S /\ Tail(s) \in Seq(S) /\ s = <<s[1]>> \o Tail(s)
<1> DEFINE n == Len(s)
<1>1. n \in Nat /\ n >= 1 /\ 1 \in 1 .. n /\ n \in 1 .. n
  BY EmptySeq, LenProperties
<1>2. s[1] \in S /\ Tail(s) \in Seq(S)
  BY <1>1, ElementOfSeq, HeadTailProperties
<1>3. SubSeq(s, 1, n) = <<s[1]>> \o SubSeq(s, 1 + 1, n)
  BY <1>1, SubSeqRecursiveFirst
<1>4. SubSeq(s, 1, n) = s
  BY SubSeqFull
<1>5. Tail(s) = SubSeq(s, 2, n)
  BY TailIsSubSeq
<1> QED
  BY <1>2, <1>3, <1>4, <1>5

(* Replies are values.                                                       *)
LEMMA RepliesAreValues == \A s \in Seq(Replies) : s \in Seq(Values)
  BY RepliesAssumption, SeqMonotonic

LEMMA SentType ==
    ASSUME sent \in [1..MaxReplies -> Replies]
    PROVE  sent \in Seq(Replies) /\ Len(sent) = MaxReplies
  BY MaxRepliesAssumption, LenProperties

(* The invariant holds before the first byte.                                *)
LEMMA InitInv == Init => IInv
<1> SUFFICES ASSUME Init PROVE IInv
  OBVIOUS
<1>1. sent \in Seq(Replies) /\ sent \in [1..MaxReplies -> Replies]
  BY SentType DEF Init
<1>2. out = <<>> /\ unread = <<>> /\ wire = EncodeAll(sent) /\ code = "NEED_MORE_DATA"
  BY DEF Init
<1>3. out \in Seq(Replies) /\ sent = out \o sent
  BY <1>1, <1>2, ConcatEmptySeq, EmptySeq
<1>4. Left = sent
  BY <1>1, <1>3, LeftFact DEF Left
<1>5. wire \in Seq(Byte)
  BY <1>1, <1>2, RepliesAreValues, EncodeAllType
<1>6. unread \in Seq(Byte) /\ unread \o wire = wire
  BY <1>2, <1>5, ConcatEmptySeq, EmptySeq
<1> QED
  BY <1>1, <1>2, <1>3, <1>4, <1>5, <1>6 DEF IInv

(* Bytes received move from the wire to the buffer.                          *)
LEMMA ReceiveInv ==
    ASSUME IInv, NEW n \in 1..Len(wire), Receive(n)
    PROVE  IInv'
<1>1. unread \in Seq(Byte) /\ wire \in Seq(Byte) /\ Len(wire) \in Nat
  BY LenProperties DEF IInv
<1> DEFINE a == SubSeq(wire, 1, n)
           b == SubSeq(wire, n + 1, Len(wire))
<1>2. unread' = unread \o a /\ wire' = b /\ code' = "parse" /\ sent' = sent /\ out' = out
  BY DEF Receive
<1>3. a \in Seq(Byte) /\ b \in Seq(Byte) /\ wire = a \o b /\ Len(a) = n
  <2>1. n \in Nat /\ n <= Len(wire)
    BY <1>1
  <2>2. a \in Seq(Byte) /\ b \in Seq(Byte) /\ Len(a) = n
    BY <1>1, <2>1, SubSeqProperties
  <2>3. a \o b = SubSeq(wire, 1, Len(wire))
    BY <1>1, <2>1, ConcatAdjacentSubSeq
  <2> QED BY <1>1, <2>2, <2>3, SubSeqFull
<1>4. a # <<>>
  BY <1>3, EmptySeq
<1> HIDE DEF a, b
<1>5. /\ unread \o a \in Seq(Byte) /\ unread \o a # <<>>
      /\ (unread \o a) \o b = unread \o (a \o b)
  <2>1. Len(unread \o a) = Len(unread) + Len(a) /\ Len(unread) \in Nat /\ Len(a) \in Nat \ {0}
        /\ unread \o a \in Seq(Byte)
    BY <1>1, <1>3, <1>4, ConcatProperties, LenProperties, EmptySeq
  <2>2. unread \o a # <<>>
    BY <2>1, EmptySeq
  <2> QED BY <1>1, <1>3, <2>1, <2>2, ConcatAssociative
<1>6. Left' = Left
  BY <1>2 DEF Left
<1>7. EncodeAll(Left) = unread \o wire
  BY DEF IInv
<1> QED
  BY <1>2, <1>3, <1>5, <1>6, <1>7 DEF IInv

(* What stands in front of the buffer when there are bytes in it. *)
LEMMA InFront ==
    ASSUME Readable, IInv, unread # <<>>
    PROVE  \E v \in Replies, ws \in Seq(Replies), e, r \in Seq(Byte) :
              /\ Left = <<v>> \o ws /\ Left # <<>> /\ Left[1] = v
              /\ Joins(EncodeAll(Left), unread, wire) /\ Joins(EncodeAll(Left), e, r)
              /\ e = Encode[v] /\ e # <<>> /\ r = EncodeAll(ws)
<1>1. Left \in Seq(Replies)
  <2>1. sent \in Seq(Replies) /\ out \in Seq(Replies) /\ Len(out) \in Nat /\ Len(sent) \in Nat
    BY SentType, LenProperties DEF IInv
  <2>2. Len(sent) = Len(out \o Left)
    BY DEF IInv
  <2> QED BY <2>1, SubSeqProperties DEF Left
<1>2. EncodeAll(Left) = unread \o wire /\ unread \in Seq(Byte) /\ wire \in Seq(Byte)
  BY DEF IInv
<1>3. Left # <<>>
  <2>1. Len(unread \o wire) # 0
    <3>1. Len(unread \o wire) = Len(unread) + Len(wire) /\ Len(unread) \in Nat \ {0} /\ Len(wire) \in Nat
      BY <1>2, HeadKept
    <3> QED BY <3>1
  <2>2. Len(EncodeAll(<<>>)) = 0
    BY EncodeAllEmpty, EmptySeq
  <2> QED BY <1>2, <2>1, <2>2
<1> DEFINE v == Left[1]
           ws == Tail(Left)
<1>4. v \in Replies /\ ws \in Seq(Replies) /\ Left = <<v>> \o ws
  BY <1>1, <1>3, FirstOf
<1> HIDE DEF v, ws
<1>5. v \in Values /\ Encode[v] \in Seq(Byte) /\ Encode[v] # <<>>
  BY <1>4, ReplyBytes
<1>6. ws \in Seq(Values) /\ EncodeAll(ws) \in Seq(Byte)
  BY <1>4, RepliesAreValues, EncodeAllType
<1>7. EncodeAll(<<v>> \o ws) = Encode[v] \o EncodeAll(ws)
  BY <1>5, <1>6, EncodeAllCons
<1>8. Joins(EncodeAll(Left), unread, wire) /\ Joins(EncodeAll(Left), Encode[v], EncodeAll(ws)) /\ Left[1] = v
  BY <1>2, <1>4, <1>7 DEF Joins, v
<1> QED
  BY <1>3, <1>4, <1>5, <1>6, <1>8

(* What do_parse does with the reply in front: either it is here as a whole, *)
(* or do_parse asks for the rest.                                            *)
AskedFor(p) ==
    /\ p.ret = "NEED_MORE_DATA" /\ p.rest = unread
    /\ Left # <<>> /\ Len(unread) < Len(Encode[Left[1]])

Taken(p) ==
    \E v \in Replies, ws \in Seq(Replies), c \in Seq(Byte) :
        Left = <<v>> \o ws /\ p = Ok(c, v) /\ EncodeAll(ws) = c \o wire

LEMMA InFrontParsed ==
    ASSUME Readable, IInv, unread # <<>>, NEW next \in Stale, NEW flag \in BOOLEAN
    PROVE  AskedFor(do_parse(unread, next, flag)) \/ Taken(do_parse(unread, next, flag))
<1> DEFINE p == do_parse(unread, next, flag)
<1>1. PICK v \in Replies, ws \in Seq(Replies), e \in Seq(Byte), r \in Seq(Byte) :
              /\ Left = <<v>> \o ws /\ Left # <<>> /\ Left[1] = v
              /\ Joins(EncodeAll(Left), unread, wire) /\ Joins(EncodeAll(Left), e, r)
              /\ e = Encode[v] /\ e # <<>> /\ r = EncodeAll(ws)
  BY InFront
<1>2. unread \in Seq(Byte) /\ wire \in Seq(Byte) /\ Len(unread) \in Nat /\ Len(e) \in Nat
  BY LenProperties DEF IInv
<1>3. CASE Len(e) <= Len(unread)
  <2>1. PICK c \in Seq(Byte) : Joins(unread, e, c) /\ Joins(r, c, wire)
    BY <1>1, <1>2, <1>3, Cut
  <2>2. do_parse(Encode[v] \o c, next, flag) = Ok(c, v)
    BY ReadsWholeReplies
  <2> QED BY <1>1, <2>1, <2>2 DEF Joins, Taken
<1>4. CASE ~(Len(e) <= Len(unread))
  <2>1. PICK c \in Seq(Byte) : Joins(e, unread, c) /\ Joins(wire, c, r)
    <3>1. Len(unread) <= Len(e)
      BY <1>2, <1>4
    <3> QED BY <1>1, <1>2, <3>1, Cut
  <2>2. c # <<>>
    <3>1. CASE c = <<>>
      <4>1. e = unread
        BY <1>2, <2>1, <3>1, ConcatEmptySeq DEF Joins
      <4> QED BY <1>2, <1>4, <4>1
    <3> QED BY <3>1
  <2>3. p.ret = "NEED_MORE_DATA" /\ p.rest = unread
    BY <1>1, <1>2, <2>1, <2>2, AsksForTheRest
  <2>4. Len(unread) < Len(Encode[Left[1]])
    BY <1>1, <1>2, <1>4
  <2> QED BY <1>1, <2>3, <2>4 DEF AskedFor
<1> QED
  BY <1>3, <1>4

(* A value returned is the first of those left.                              *)
LEMMA ParseValueInv ==
    ASSUME Readable, IInv, NEW next \in Stale, NEW flag \in BOOLEAN, ParseValue(next, flag)
    PROVE  IInv'
<1> DEFINE p == do_parse(unread, next, flag)
<1>1. /\ p.ret \in {"OK", "NIL_VALUE"}
      /\ out' = Append(out, p.val) /\ unread' = p.rest
      /\ code' = IF p.rest = <<>> THEN "NEED_MORE_DATA" ELSE "parse"
      /\ sent' = sent /\ wire' = wire /\ code = "parse"
  BY DEF ParseValue
<1>2. unread # <<>> /\ p = do_parse(unread, next, flag)
  BY <1>1 DEF IInv
<1>0. AskedFor(p) \/ Taken(p)
  BY <1>2, InFrontParsed
<1> HIDE DEF p
<1>3. PICK v \in Replies, ws \in Seq(Replies), c \in Seq(Byte) :
          Left = <<v>> \o ws /\ p = Ok(c, v) /\ EncodeAll(ws) = c \o wire
  BY <1>0, <1>1 DEF AskedFor, Taken
<1>4. p.val = v /\ p.rest = c
  BY <1>3 DEF Ok
<1>5. sent \in Seq(Replies) /\ out \in Seq(Replies) /\ sent = out \o Left /\ wire \in Seq(Byte)
  BY SentType DEF IInv
<1>6. out' = out \o <<v>> /\ out' \in Seq(Replies)
  <2>1. <<v>> \in Seq(Replies)
    OBVIOUS
  <2> QED BY <1>1, <1>4, <1>5, <2>1, AppendIsConcat, ConcatProperties
<1>7. sent' = out' \o ws
  <2> DEFINE s == <<v>>
  <2>1. s \in Seq(Replies)
    OBVIOUS
  <2> HIDE DEF s
  <2>2. (out \o s) \o ws = out \o (s \o ws)
    BY <1>5, <2>1, ConcatAssociative
  <2> QED BY <1>1, <1>3, <1>5, <1>6, <2>2 DEF s
<1>8. Left' = ws
  BY <1>6, <1>7, LeftFact DEF Left
<1>9. code' = "NEED_MORE_DATA" => unread' = <<>>
  BY <1>1
<1>10. code' = "parse" => unread' # <<>>
  BY <1>1
<1>11. code' \in {"parse", "NEED_MORE_DATA"} /\ unread' \in Seq(Byte)
  BY <1>1, <1>4
<1>12. EncodeAll(ws) = unread' \o wire'
  BY <1>1, <1>3, <1>4
<1> QED
  BY <1>1, <1>5, <1>6, <1>7, <1>8, <1>9, <1>10, <1>11, <1>12 DEF IInv

(* do_parse fails only for want of bytes.                                    *)
LEMMA ParseFailsInv ==
    ASSUME Readable, IInv, NEW next \in Stale, NEW flag \in BOOLEAN, ParseFails(next, flag)
    PROVE  IInv'
<1> DEFINE p == do_parse(unread, next, flag)
<1>1. /\ p.ret \notin {"OK", "NIL_VALUE"} /\ unread' = p.rest /\ code' = p.ret
      /\ sent' = sent /\ wire' = wire /\ out' = out /\ code = "parse"
  BY DEF ParseFails
<1>2. unread # <<>> /\ p = do_parse(unread, next, flag)
  BY <1>1 DEF IInv
<1>0. AskedFor(p) \/ Taken(p)
  BY <1>2, InFrontParsed
<1> HIDE DEF p
<1>3. \A c, v : p = Ok(c, v) => p.ret = "OK"
  BY DEF Ok
<1>4. /\ p.ret = "NEED_MORE_DATA" /\ p.rest = unread
      /\ Left # <<>> /\ Len(unread) < Len(Encode[Left[1]])
  BY <1>0, <1>1, <1>3 DEF AskedFor, Taken
<1>5. unread' = unread /\ code' = "NEED_MORE_DATA" /\ Left' = Left
  BY <1>1, <1>4 DEF Left
<1> QED
  BY <1>1, <1>4, <1>5 DEF IInv

(* Every step keeps the invariant.                                           *)
LEMMA NextInv ==
    ASSUME Readable, IInv, [Next]_vars
    PROVE  IInv'
<1>1. ASSUME NEW n \in 1..Len(wire), Receive(n) PROVE IInv'
  BY <1>1, ReceiveInv
<1>2. ASSUME NEW next \in Stale, NEW flag \in BOOLEAN, ParseValue(next, flag) PROVE IInv'
  BY <1>2, ParseValueInv
<1>3. ASSUME NEW next \in Stale, NEW flag \in BOOLEAN, ParseFails(next, flag) PROVE IInv'
  BY <1>3, ParseFailsInv
<1>4. CASE UNCHANGED vars
  BY <1>4 DEF IInv, Left, vars
<1> QED
  BY <1>1, <1>2, <1>3, <1>4 DEF Next

(* The inductive invariant holds of every stream of readable replies.        *)
THEOREM Invariance == ASSUME Readable PROVE Spec => []IInv
<1>1. IInv /\ [Next]_vars => IInv'
  BY NextInv
<1> QED
  BY InitInv, <1>1, PTL DEF Spec

LEMMA LeftType ==
    ASSUME IInv
    PROVE  Left \in Seq(Replies) /\ Left \in Seq(Values) /\ out \in Seq(Values)
<1>1. sent \in Seq(Replies) /\ out \in Seq(Replies) /\ Len(sent) \in Nat /\ Len(out) \in Nat
  BY SentType, LenProperties DEF IInv
<1>2. Left \in Seq(Replies)
  BY <1>1, SubSeqProperties DEF Left
<1> QED
  BY <1>1, <1>2, RepliesAreValues

(* What has been returned stands in front of what was sent.                  *)
LEMMA OutFact ==
    ASSUME IInv
    PROVE  IsPrefix(out, sent) /\ Len(out) <= MaxReplies
<1>1. out \in Seq(Replies) /\ sent = out \o Left /\ sent \in Seq(Replies) /\ Len(sent) = MaxReplies
  BY SentType DEF IInv
<1>2. Left \in Seq(Replies)
  BY LeftType
<1>3. Len(sent) = Len(out) + Len(Left) /\ Len(out) \in Nat /\ Len(Left) \in Nat
  BY <1>1, <1>2, ConcatProperties, LenProperties
<1>4. SubSeq(sent, 1, Len(out)) = out
  BY <1>1, <1>2, Skipped
<1> QED
  BY <1>1, <1>3, <1>4 DEF IsPrefix

(* Types, and none of the parser's error codes.                              *)
THEOREM TypeCorrect == ASSUME Readable PROVE Spec => []TypeOK
<1>1. IInv => TypeOK
  BY OutFact DEF IInv, TypeOK
<1> QED
  BY Invariance, <1>1, PTL

(* do_parse fails on no readable stream, however it is cut, and returns the  *)
(* values in their order.                                                    *)
THEOREM ValuesAsSent == ASSUME Readable PROVE Spec => []ReturnsWhatWasSent
<1>1. IInv => ReturnsWhatWasSent
  BY OutFact DEF IInv, ReturnsWhatWasSent
<1> QED
  BY Invariance, <1>1, PTL

(* Each value takes exactly its own bytes off the buffer.                    *)
THEOREM WholeReplies == ASSUME Readable PROVE Spec => []TakesWholeReplies
<1>1. ASSUME IInv PROVE TakesWholeReplies
  <2>1. sent = out \o Left /\ EncodeAll(Left) = unread \o wire /\ unread \in Seq(Byte) /\ wire \in Seq(Byte)
    BY <1>1 DEF IInv
  <2>2. Left \in Seq(Values) /\ out \in Seq(Values)
    BY <1>1, LeftType
  <2>3. EncodeAll(out \o Left) = EncodeAll(out) \o EncodeAll(Left)
    BY <2>2, EncodeAllConcat
  <2> DEFINE a == EncodeAll(out)
  <2>4. a \in Seq(Byte)
    BY <2>2, EncodeAllType
  <2> HIDE DEF a
  <2>5. (a \o unread) \o wire = a \o (unread \o wire)
    BY <2>1, <2>4, ConcatAssociative
  <2> QED BY <2>1, <2>3, <2>5 DEF TakesWholeReplies, a
<1>2. IInv => TakesWholeReplies
  BY <1>1
<1> QED
  BY Invariance, <1>2, PTL

(* Once all bytes are here, all values have been returned.                   *)
THEOREM NothingHeld == ASSUME Readable PROVE Spec => []HoldsNothingBack
<1>1. ASSUME IInv, wire = <<>>, code = "NEED_MORE_DATA" PROVE out = sent
  <2>1. EncodeAll(Left) = unread \o wire /\ unread \in Seq(Byte) /\ sent = out \o Left /\ out \in Seq(Replies)
    BY <1>1 DEF IInv
  <2>2. EncodeAll(Left) = unread
    BY <1>1, <2>1, ConcatEmptySeq
  <2>3. Left \in Seq(Replies) /\ Left \in Seq(Values)
    BY <1>1, LeftType
  <2>4. CASE Left = <<>>
    BY <2>1, <2>4, ConcatEmptySeq
  <2>5. CASE Left # <<>>
    <3> DEFINE v == Left[1]
               e == Encode[v]
    <3>1. 1 \in 1 .. Len(Left) /\ v \in Replies
      BY <2>3, <2>5, EmptySeq, FirstOf
    <3>2. Len(Encode[Left[1]]) <= Len(EncodeAll(Left))
      BY <2>3, <3>1, ElementShorter
    <3>3. Len(e) \in Nat \ {0} /\ Len(unread) \in Nat
      BY <2>1, <3>1, ReplyBytes, LenProperties
    <3>4. unread # <<>>
      <4>1. Len(unread) # 0
        BY <2>2, <3>2, <3>3
      <4> QED BY <4>1, EmptySeq
    <3>5. Len(unread) < Len(e)
      BY <1>1, <3>4 DEF IInv
    <3> QED BY <2>2, <3>2, <3>3, <3>5
  <2> QED BY <2>4, <2>5
<1>2. IInv => HoldsNothingBack
  BY <1>1 DEF HoldsNothingBack
<1> QED
  BY Invariance, <1>2, PTL

=============================================================================
