--------------------------- MODULE CswpWire_proofs ---------------------------
(***************************************************************************)
(* The dummy server's parser inverts the client's encoders: proofs about   *)
(* CswpWire for every session, every number of commands and every value.   *)
(* In order: induction, recursion and the two codecs' integers; fields and *)
(* the layout of a request; the parser on a layout; responses; the         *)
(* sessions.                                                               *)
(***************************************************************************)
EXTENDS CswpWire, SequenceFacts, WellFoundedInduction, TLAPS

(***************************************************************************)
(* Induction and recursion over the naturals, stated with sets and         *)
(* functions.                                                              *)
(***************************************************************************)
LEMMA LeastNumber ==
    ASSUME NEW T \in SUBSET Nat, T # {}
    PROVE  \E x \in T : \A y \in T : x <= y
<1>1. PICK x \in T : \A y \in T : ~ (<<y, x>> \in OpToRel(<, Nat))
  BY NatLessThanWellFounded, WFMin, Zenon
<1>2. \A y \in T : ~ (y < x)  BY <1>1 DEF OpToRel
<1> QED BY <1>2

LEMMA StrongInduction ==
    ASSUME NEW T \in SUBSET Nat,
           \A n \in Nat : (\A m \in Nat : m < n => m \in T) => n \in T
    PROVE  T = Nat
<1> SUFFICES ASSUME Nat \ T # {} PROVE FALSE  OBVIOUS
<1>1. PICK x \in Nat \ T : \A y \in Nat \ T : x <= y  BY LeastNumber
<1>2. \A m \in Nat : m < x => m \in T  BY <1>1
<1> QED BY <1>1, <1>2

LEMMA Induction ==
    ASSUME NEW T \in SUBSET Nat, 0 \in T, \A n \in Nat : n \in T => n + 1 \in T
    PROVE  T = Nat
<1>1. ASSUME NEW n \in Nat, \A m \in Nat : m < n => m \in T PROVE n \in T
  <2>1. CASE n = 0  BY <2>1
  <2>2. CASE n # 0
    <3>1. n - 1 \in Nat /\ n - 1 < n /\ (n - 1) + 1 = n  BY <2>2
    <3> QED BY <1>1, <3>1
  <2> QED BY <2>1, <2>2
<1> QED BY <1>1, StrongInduction

(* g solves the recursion up to k. *)
Solves(g, k, Vals, stop, b, p, h) ==
    /\ g \in [0 .. k -> Vals]
    /\ \A n \in 0 .. k : g[n] = IF n \in stop THEN b[n] ELSE h[<<n, g[p[n]]>>]

(* A function whose value at n depends on the value at one smaller number. *)
Descends(Vals, stop, b, p, h) ==
    /\ b \in [Nat -> Vals] /\ p \in [Nat -> Nat] /\ h \in [Nat \X Vals -> Vals]
    /\ \A n \in Nat : n \notin stop => p[n] < n
Solution(f, Vals, stop, b, p, h) ==
    /\ f \in [Nat -> Vals]
    /\ \A n \in Nat : f[n] = IF n \in stop THEN b[n] ELSE h[<<n, f[p[n]]>>]

LEMMA Recursion ==
    ASSUME NEW Vals, NEW stop, NEW b, NEW p, NEW h, Descends(Vals, stop, b, p, h)
    PROVE  \E f : Solution(f, Vals, stop, b, p, h)
<1>0. /\ b \in [Nat -> Vals] /\ p \in [Nat -> Nat] /\ h \in [Nat \X Vals -> Vals]
      /\ \A n \in Nat : n \notin stop => p[n] < n
  BY DEF Descends
<1> USE <1>0
<1> DEFINE Sol(g, k) == Solves(g, k, Vals, stop, b, p, h)
<1>1. \A k \in Nat : \E g : Sol(g, k)
  <2> DEFINE T == { k \in Nat : \E g : Sol(g, k) }
  <2>1. 0 \in T
    <3> DEFINE g == [n \in 0 .. 0 |-> b[0]]
    <3>1. 0 \in stop  OBVIOUS
    <3>2. g \in [0 .. 0 -> Vals] /\ g[0] = b[0]  OBVIOUS
    <3>3. Sol(g, 0)
      <4>1. \A n \in 0 .. 0 : n = 0  OBVIOUS
      <4> HIDE DEF g
      <4> QED BY <3>1, <3>2, <4>1 DEF Solves
    <3> QED BY <3>3
  <2>2. ASSUME NEW k \in Nat, k \in T PROVE k + 1 \in T
    <3>1. PICK g : Sol(g, k)  BY <2>2
    <3> DEFINE x == IF k + 1 \in stop THEN b[k + 1] ELSE h[<<k + 1, g[p[k + 1]]>>]
               e == [n \in 0 .. k + 1 |-> IF n = k + 1 THEN x ELSE g[n]]
    <3>2. x \in Vals
      <4>1. CASE k + 1 \in stop  BY <4>1
      <4>2. CASE k + 1 \notin stop
        <5>1. p[k + 1] \in 0 .. k  BY <4>2
        <5>2. g[p[k + 1]] \in Vals  BY <3>1, <5>1 DEF Solves
        <5>3. <<k + 1, g[p[k + 1]]>> \in Nat \X Vals  BY <5>2
        <5> QED BY <4>2, <5>3
      <4> QED BY <4>1, <4>2
    <3> HIDE DEF x
    <3>3. e \in [0 .. k + 1 -> Vals]
      <4>1. \A n \in 0 .. k : g[n] \in Vals  BY <3>1 DEF Solves
      <4>2. \A n \in 0 .. k + 1 : n # k + 1 => n \in 0 .. k  OBVIOUS
      <4> QED BY <3>2, <4>1, <4>2
    <3>4. \A n \in 0 .. k : e[n] = g[n]  OBVIOUS
    <3>5. e[k + 1] = x  OBVIOUS
    <3> HIDE DEF e
    <3>6. ASSUME NEW n \in 0 .. k + 1
          PROVE  e[n] = IF n \in stop THEN b[n] ELSE h[<<n, e[p[n]]>>]
      <4>1. n \notin stop => p[n] \in 0 .. k /\ e[p[n]] = g[p[n]]  BY <3>4
      <4>2. CASE n = k + 1  BY <3>5, <4>1, <4>2 DEF x
      <4>3. CASE n # k + 1
        <5>1. n \in 0 .. k  BY <4>3
        <5>2. g[n] = IF n \in stop THEN b[n] ELSE h[<<n, g[p[n]]>>]  BY <3>1, <5>1 DEF Solves
        <5> QED BY <3>4, <4>1, <5>1, <5>2
      <4> QED BY <4>2, <4>3
    <3>7. Sol(e, k + 1)  BY <3>3, <3>6 DEF Solves
    <3> QED BY <3>7
  <2> HIDE DEF Sol
  <2>3. T = Nat  BY <2>1, <2>2, Induction
  <2> QED BY <2>3
<1>2. ASSUME NEW k \in Nat, NEW l \in Nat, NEW g, NEW e, Sol(g, k), Sol(e, l)
      PROVE  \A n \in Nat : n <= k /\ n <= l => g[n] = e[n]
  <2> DEFINE T == { n \in Nat : n <= k /\ n <= l => g[n] = e[n] }
  <2>1. ASSUME NEW n \in Nat, \A m \in Nat : m < n => m \in T PROVE n \in T
    <3> SUFFICES ASSUME n <= k, n <= l PROVE g[n] = e[n]  OBVIOUS
    <3>1. n \notin stop => g[p[n]] = e[p[n]]  BY <2>1
    <3>2. n \in 0 .. k /\ n \in 0 .. l  OBVIOUS
    <3>3. g[n] = IF n \in stop THEN b[n] ELSE h[<<n, g[p[n]]>>]  BY <1>2, <3>2 DEF Solves
    <3>4. e[n] = IF n \in stop THEN b[n] ELSE h[<<n, e[p[n]]>>]  BY <1>2, <3>2 DEF Solves
    <3> QED BY <3>1, <3>3, <3>4
  <2>2. T = Nat  BY <2>1, StrongInduction
  <2> QED BY <2>2
<1> DEFINE G(k) == CHOOSE g : Sol(g, k)
           f == [n \in Nat |-> G(n)[n]]
<1> HIDE DEF Sol
<1>3. \A k \in Nat : Sol(G(k), k)  BY <1>1, Zenon
<1>4. \A n \in Nat : f[n] = G(n)[n]  OBVIOUS
<1> HIDE DEF G
<1>5. ASSUME NEW n \in Nat
      PROVE  f[n] \in Vals /\ f[n] = IF n \in stop THEN b[n] ELSE h[<<n, f[p[n]]>>]
  <2>1. Sol(G(n), n)  BY <1>3
  <2>2. n \in 0 .. n  OBVIOUS
  <2>3. /\ G(n)[n] \in Vals
        /\ G(n)[n] = IF n \in stop THEN b[n] ELSE h[<<n, G(n)[p[n]]>>]
    BY <2>1, <2>2 DEF Sol, Solves
  <2>4. n \notin stop => G(n)[p[n]] = f[p[n]]
    <3> SUFFICES ASSUME n \notin stop PROVE G(n)[p[n]] = f[p[n]]  OBVIOUS
    <3>1. p[n] \in Nat /\ p[n] < n  OBVIOUS
    <3>2. Sol(G(p[n]), p[n])  BY <1>3, <3>1
    <3>3. G(n)[p[n]] = G(p[n])[p[n]]  BY <1>2, <2>1, <3>1, <3>2
    <3> QED BY <1>4, <3>1, <3>3
  <2> QED BY <1>4, <2>3, <2>4
<1>6. f \in [Nat -> Vals]  BY <1>5
<1> HIDE DEF f
<1> QED BY <1>5, <1>6 DEF Solution
-----------------------------------------------------------------------------
(***************************************************************************)
(* The recursive functions of the codec satisfy their equations.           *)
(***************************************************************************)
LEMMA DivMod ==
    ASSUME NEW n \in Nat
    PROVE  /\ n % 128 \in Nat /\ n % 128 <= 127 /\ n \div 128 \in Nat /\ n = 128 * (n \div 128) + (n % 128)
           /\ n > 127 => n \div 128 < n
           /\ 128 + (n % 128) \in Byte
           /\ n % 256 \in Byte /\ n \div 256 \in Nat /\ n = 256 * (n \div 256) + (n % 256)
BY SMT DEF Byte

LEMMA VarintDef ==
    /\ varint \in [Nat -> Seq(Byte)]
    /\ \A n \in Nat :
          varint[n] = IF n <= 127 THEN <<n>> ELSE <<128 + (n % 128)>> \o varint[n \div 128]
<1> DEFINE Vals == Seq(Byte)
           b == [n \in Nat |-> IF n <= 127 THEN <<n>> ELSE <<>>]
           p == [n \in Nat |-> n \div 128]
           h == [x \in Nat \X Vals |-> <<128 + (x[1] % 128)>> \o x[2]]
           Val(f, n) == IF n <= 127 THEN <<n>> ELSE <<128 + (n % 128)>> \o f[n \div 128]
<1>1. b \in [Nat -> Vals]
  <2>1. \A n \in Nat : n <= 127 => <<n>> \in Vals  BY DEF Byte
  <2> QED BY <2>1
<1>2. p \in [Nat -> Nat] /\ \A n \in Nat : n \notin 0 .. 127 => p[n] < n
  BY DivMod
<1>3. h \in [Nat \X Vals -> Vals]
  <2>1. ASSUME NEW x \in Nat \X Vals PROVE <<128 + (x[1] % 128)>> \o x[2] \in Vals
    <3>1. x[1] \in Nat /\ x[2] \in Vals  OBVIOUS
    <3>2. 128 + (x[1] % 128) \in Byte  BY <3>1, SMT DEF Byte
    <3>3. <<128 + (x[1] % 128)>> \in Vals  BY <3>2
    <3> QED BY <3>1, <3>3, ConcatProperties
  <2> QED BY <2>1
<1>4. \A n \in Nat, v \in Vals : h[<<n, v>>] = <<128 + (n % 128)>> \o v
  OBVIOUS
<1>5. \A n \in Nat : p[n] = n \div 128 /\ (n <= 127 => b[n] = <<n>>)
  OBVIOUS
<1> HIDE DEF b, p, h, Vals
<1> DEFINE stop == 0 .. 127
<1>0. \A n \in Nat : n \notin stop => p[n] < n  BY <1>2
<1> HIDE DEF stop
<1>a. Descends(Vals, stop, b, p, h)  BY <1>0, <1>1, <1>2, <1>3 DEF Descends
<1>b. PICK f : Solution(f, Vals, stop, b, p, h)  BY <1>a, Recursion, Zenon
<1>6. /\ f \in [Nat -> Vals]
      /\ \A n \in Nat : f[n] = IF n \in stop THEN b[n] ELSE h[<<n, f[p[n]]>>]
  BY <1>b DEF Solution
<1>7. ASSUME NEW n \in Nat PROVE f[n] = Val(f, n)
  <2>1. n \in stop <=> n <= 127  BY DEF stop
  <2>2. f[p[n]] \in Vals  BY <1>2, <1>6
  <2>3. f[n] = IF n \in stop THEN b[n] ELSE h[<<n, f[p[n]]>>]  BY <1>6
  <2>4. h[<<n, f[p[n]]>>] = <<128 + (n % 128)>> \o f[p[n]]  BY <1>4, <2>2
  <2> QED BY <1>5, <2>1, <2>3, <2>4, Zenon
<1>8. f = [n \in Nat |-> Val(f, n)]  BY <1>6, <1>7
<1>9. varint = [n \in Nat |-> Val(varint, n)]  BY <1>8, Zenon DEF varint
<1>10. \A n \in Nat : varint[n] = Val(varint, n)  BY <1>9, Zenon
<1> HIDE DEF Val
<1>11. \A n \in Nat : varint[n] \in Vals
  <2> DEFINE T == { n \in Nat : varint[n] \in Vals }
  <2>1. ASSUME NEW n \in Nat, \A m \in Nat : m < n => m \in T PROVE n \in T
    <3>1. CASE n <= 127
      <4>1. <<n>> \in Vals  BY <3>1 DEF Byte, Vals
      <4> QED BY <1>10, <3>1, <4>1 DEF Val
    <3>2. CASE ~ (n <= 127)
      <4>1. varint[n \div 128] \in Vals  BY <2>1, <3>2, DivMod
      <4>2. <<n, varint[n \div 128]>> \in Nat \X Vals  BY <4>1
      <4>3. h[<<n, varint[n \div 128]>>] \in Vals  BY <1>3, <4>2
      <4>4. varint[n] = <<128 + (n % 128)>> \o varint[n \div 128]  BY <1>10, <3>2, Zenon DEF Val
      <4>5. h[<<n, varint[n \div 128]>>] = <<128 + (n % 128)>> \o varint[n \div 128]
        BY <1>4, <4>1
      <4> QED BY <4>3, <4>4, <4>5
    <3> QED BY <3>1, <3>2
  <2> QED BY <2>1, StrongInduction
<1>12. DOMAIN varint = Nat  BY <1>9, Zenon
<1>13. varint \in [Nat -> Vals]  BY <1>9, <1>11, <1>12, Zenon
<1> QED BY <1>10, <1>13 DEF Vals, Val

(* Only its values are used: w bytes, the least significant first. *)
LEMMA FixedDef ==
    ASSUME NEW w \in Nat
    PROVE  /\ fixed[w] \in [Nat -> Seq(Byte)]
           /\ \A n \in Nat :
                 fixed[w][n] = IF w = 0 THEN <<>> ELSE <<n % 256>> \o fixed[w - 1][n \div 256]
<1> DEFINE Vals == [Nat -> Seq(Byte)]
           stop == {0}
           b == [k \in Nat |-> [n \in Nat |-> <<>>]]
           p == [k \in Nat |-> IF k = 0 THEN 0 ELSE k - 1]
           Step(v) == [n \in Nat |-> <<n % 256>> \o v[n \div 256]]
           h == [x \in Nat \X Vals |-> Step(x[2])]
           Val(f, k) == [n \in Nat |-> IF k = 0 THEN <<>> ELSE <<n % 256>> \o f[k - 1][n \div 256]]
<1>1. b \in [Nat -> Vals] /\ \A k \in Nat : b[k] = [n \in Nat |-> <<>>]  OBVIOUS
<1>2. /\ p \in [Nat -> Nat] /\ \A n \in Nat : n \notin stop => p[n] < n
      /\ \A k \in Nat : k # 0 => p[k] = k - 1
  OBVIOUS
<1>3. ASSUME NEW v \in Vals PROVE Step(v) \in Vals
  <2>1. ASSUME NEW n \in Nat PROVE <<n % 256>> \o v[n \div 256] \in Seq(Byte)
    <3>1. n % 256 \in Byte /\ n \div 256 \in Nat  BY DivMod
    <3>2. <<n % 256>> \in Seq(Byte) /\ v[n \div 256] \in Seq(Byte)  BY <3>1
    <3> QED BY <3>2, ConcatProperties
  <2> QED BY <2>1
<1>4. h \in [Nat \X Vals -> Vals]
  <2> HIDE DEF Step, Vals
  <2>1. \A x \in Nat \X Vals : x[2] \in Vals  OBVIOUS
  <2>2. \A x \in Nat \X Vals : Step(x[2]) \in Vals  BY <1>3, <2>1
  <2> QED BY <2>2
<1>5. \A k \in Nat, v \in Vals : h[<<k, v>>] = Step(v)
  <2> HIDE DEF Step, Vals
  <2> QED OBVIOUS
<1> HIDE DEF b, p, h, Vals, stop
<1>6. Descends(Vals, stop, b, p, h)  BY <1>1, <1>2, <1>4 DEF Descends
<1>7. PICK f : Solution(f, Vals, stop, b, p, h)  BY <1>6, Recursion, Zenon
<1>8. /\ f \in [Nat -> Vals]
      /\ \A k \in Nat : f[k] = IF k \in stop THEN b[k] ELSE h[<<k, f[p[k]]>>]
  BY <1>7 DEF Solution
<1>9. ASSUME NEW k \in Nat PROVE f[k] = Val(f, k)
  <2>1. CASE k = 0
    <3>1. f[k] = [n \in Nat |-> <<>>]  BY <1>1, <1>8, <2>1 DEF stop
    <3> QED BY <2>1, <3>1
  <2>2. CASE k # 0
    <3>1. f[k] = h[<<k, f[p[k]]>>] /\ p[k] = k - 1 /\ k - 1 \in Nat  BY <1>2, <1>8, <2>2 DEF stop
    <3>2. f[k - 1] \in Vals  BY <1>8, <3>1
    <3>3. h[<<k, f[k - 1]>>] = Step(f[k - 1])  BY <1>5, <3>2, Zenon
    <3>4. Val(f, k) = Step(f[k - 1])  BY <2>2
    <3>5. f[k] = h[<<k, f[k - 1]>>]  BY <3>1
    <3> QED BY <3>3, <3>4, <3>5, Zenon
  <2> QED BY <2>1, <2>2
<1>10. f = [k \in Nat |-> Val(f, k)]  BY <1>8, <1>9
<1>11. fixed = [k \in Nat |-> Val(fixed, k)]  BY <1>10, Zenon DEF fixed
<1>12. \A k \in Nat : fixed[k] = Val(fixed, k)  BY <1>11, Zenon
<1>13. \A k \in Nat : fixed[k] \in Vals
  <2> DEFINE T == { k \in Nat : fixed[k] \in Vals }
  <2>1. 0 \in T
    <3>1. b[0] \in Vals  BY <1>1
    <3>2. Val(fixed, 0) = [n \in Nat |-> <<>>]  OBVIOUS
    <3>3. b[0] = [n \in Nat |-> <<>>]  BY <1>1
    <3> HIDE DEF Val
    <3>4. fixed[0] = b[0]  BY <1>12, <3>2, <3>3
    <3> QED BY <3>1, <3>4
  <2>2. ASSUME NEW k \in Nat, k \in T PROVE k + 1 \in T
    <3>1. Step(fixed[k]) \in Vals  BY <1>3, <2>2
    <3>2. k + 1 \in Nat /\ k + 1 # 0 /\ (k + 1) - 1 = k  OBVIOUS
    <3>3. Val(fixed, k + 1) = Step(fixed[k])  BY <3>2
    <3> HIDE DEF Val, Step
    <3>4. fixed[k + 1] = Step(fixed[k])  BY <1>12, <3>2, <3>3
    <3> QED BY <3>1, <3>4
  <2>3. T = Nat  BY <2>1, <2>2, Induction
  <2> QED BY <2>3
<1>14. fixed[w] = Val(fixed, w)  BY <1>12
<1> QED BY <1>13, <1>14 DEF Vals
-----------------------------------------------------------------------------
(***************************************************************************)
(* Varints: every byte but the last is above 127, and the groups make up   *)
(* the number.                                                             *)
(***************************************************************************)
LEMMA VarintSmall ==
    ASSUME NEW n \in Nat, n <= 127
    PROVE  varint[n] = <<n>> /\ Len(varint[n]) = 1 /\ varint[n][1] = n
<1>1. varint[n] = <<n>>  BY VarintDef, Zenon
<1> QED BY <1>1

LEMMA VarintLarge ==
    ASSUME NEW n \in Nat, n > 127
    PROVE  /\ varint[n] \in Seq(Byte) /\ varint[n \div 128] \in Seq(Byte)
           /\ Len(varint[n]) = Len(varint[n \div 128]) + 1
           /\ varint[n][1] = 128 + (n % 128)
           /\ \A i \in 1 .. Len(varint[n \div 128]) : varint[n][i + 1] = varint[n \div 128][i]
<1>1. ~ (n <= 127)  OBVIOUS
<1>2. varint[n] = <<128 + (n % 128)>> \o varint[n \div 128]  BY <1>1, VarintDef, Zenon
<1>3. n \div 128 \in Nat /\ 128 + (n % 128) \in Byte  BY DivMod
<1>4. varint[n \div 128] \in Seq(Byte) /\ varint[n] \in Seq(Byte)  BY <1>3, VarintDef
<1> DEFINE s == varint[n \div 128]
           x == 128 + (n % 128)
<1> HIDE DEF s, x
<1>5. s \in Seq(Byte) /\ x \in Byte /\ varint[n] = <<x>> \o s  BY <1>2, <1>3, <1>4 DEF s, x
<1>6. /\ Len(<<x>> \o s) = Len(s) + 1 /\ (<<x>> \o s)[1] = x
      /\ \A i \in 1 .. Len(s) : (<<x>> \o s)[i + 1] = s[i]
  BY <1>5
<1> QED BY <1>4, <1>5, <1>6 DEF s, x

LEMMA VarintShape ==
    ASSUME NEW n \in Nat
    PROVE  /\ Len(varint[n]) \in Nat /\ Len(varint[n]) >= 1
           /\ varint[n][Len(varint[n])] <= 127
           /\ \A i \in 1 .. Len(varint[n]) - 1 : ~ (varint[n][i] <= 127)
<1> DEFINE Shape(v) == /\ Len(v) \in Nat /\ Len(v) >= 1 /\ v[Len(v)] <= 127
                       /\ \A i \in 1 .. Len(v) - 1 : ~ (v[i] <= 127)
           T == { k \in Nat : Shape(varint[k]) }
<1>1. ASSUME NEW k \in Nat, \A m \in Nat : m < k => m \in T PROVE k \in T
  <2>1. CASE k <= 127
    <3> DEFINE v == varint[k]
    <3>1. Len(v) = 1 /\ v[1] = k  BY <2>1, VarintSmall
    <3> HIDE DEF v
    <3>2. Shape(v)  BY <2>1, <3>1
    <3> QED BY <3>2 DEF v
  <2>2. CASE k > 127
    <3> DEFINE v == varint[k]
               u == varint[k \div 128]
    <3>1. k \div 128 \in Nat /\ k \div 128 < k /\ 128 + (k % 128) > 127  BY <2>2, DivMod
    <3>2. Shape(u)  BY <1>1, <3>1
    <3>3. /\ Len(v) = Len(u) + 1 /\ v[1] > 127
          /\ \A i \in 1 .. Len(u) : v[i + 1] = u[i]
          /\ v \in Seq(Byte)
      BY <2>2, <3>1, VarintLarge
    <3> HIDE DEF v, u
    <3>4. v[Len(v)] <= 127  BY <3>2, <3>3
    <3>5. ASSUME NEW i \in 1 .. Len(v) - 1 PROVE ~ (v[i] <= 127)
      <4>0. i \in 1 .. Len(v)  BY <3>2, <3>3
      <4>1. v[i] \in Byte  BY <3>3, <4>0
      <4>2. CASE i = 1  BY <3>3, <4>1, <4>2 DEF Byte
      <4>3. CASE i # 1
        <5>1. i - 1 \in 1 .. Len(u) - 1 /\ i - 1 \in 1 .. Len(u) /\ (i - 1) + 1 = i
          BY <3>2, <3>3, <4>3
        <5> QED BY <3>2, <3>3, <5>1
      <4> QED BY <4>2, <4>3
    <3>6. Shape(v)  BY <3>2, <3>3, <3>4, <3>5
    <3> QED BY <3>6 DEF v
  <2> QED BY <2>1, <2>2
<1> HIDE DEF Shape
<1>2. T = Nat  BY <1>1, StrongInduction
<1>3. Shape(varint[n])  BY <1>2
<1> QED BY <1>3 DEF Shape

(* A number an int holds takes at most five bytes. *)
Int31 == { n \in Nat : n <= 2147483647 }
LEMMA VarintShort ==
    ASSUME NEW n \in Int31
    PROVE  Len(varint[n]) <= 5
<1> DEFINE L(k) == Len(varint[k])
           Within(c, l) == \A k \in Nat : k <= c => L(k) <= l
<1>1. \A k \in Nat : k <= 127 => L(k) = 1  BY VarintSmall
<1>2. \A k \in Nat : k > 127 => L(k) = L(k \div 128) + 1  BY VarintLarge
<1>3. \A k \in Nat : L(k) \in Nat  BY VarintShape
<1> HIDE DEF L
<1>4. ASSUME NEW c \in Nat, NEW l \in Nat, l >= 1, Within(c, l)
      PROVE  Within(128 * c + 127, l + 1)
  <2> SUFFICES ASSUME NEW k \in Nat, k <= 128 * c + 127 PROVE L(k) <= l + 1  OBVIOUS
  <2>1. k \div 128 \in Nat /\ k \div 128 <= c  BY SMT
  <2>2. L(k \div 128) <= l /\ L(k \div 128) \in Nat  BY <1>3, <1>4, <2>1
  <2>3. L(k) = 1 \/ L(k) = L(k \div 128) + 1  BY <1>1, <1>2
  <2> QED BY <2>2, <2>3
<1>5. Within(127, 1)  BY <1>1
<1> HIDE DEF Within
<1>6. Within(16383, 2)  BY <1>4, <1>5, SMT
<1>7. Within(2097151, 3)  BY <1>4, <1>6, SMT
<1>8. Within(268435455, 4)  BY <1>4, <1>7, SMT
<1>9. Within(34359738367, 5)  BY <1>4, <1>8, SMT
<1>10. n \in Nat /\ n <= 34359738367  BY SMT DEF Int31
<1> QED BY <1>9, <1>10, SMT DEF L, Within
-----------------------------------------------------------------------------
(***************************************************************************)
(* Decoding: v[i] is the number written in the digits c[i] .. c[hi], the   *)
(* least significant first, to the base m.                                 *)
(***************************************************************************)
Sums(v, c, m, lo, hi) ==
    \A i \in lo .. hi : v[i] = c[i] + (IF i = hi THEN 0 ELSE m * v[i + 1])
DigitSums(v, c, m, lo, hi) ==
    v = [i \in lo .. hi |-> c[i] + (IF i = hi THEN 0 ELSE m * v[i + 1])]

LEMMA SumsExist ==
    ASSUME NEW c, NEW m, NEW lo \in Nat, NEW hi \in Nat, lo <= hi + 1
    PROVE  \E v : DigitSums(v, c, m, lo, hi)
<1> DEFINE Fits(v, l) == /\ v = [i \in l .. hi |-> v[i]] /\ Sums(v, c, m, l, hi)
           T == { k \in Nat : \A l \in Nat : l + k = hi + 1 => \E v : Fits(v, l) }
<1>1. 0 \in T
  <2> SUFFICES ASSUME NEW l \in Nat, l + 0 = hi + 1 PROVE \E v : Fits(v, l)  OBVIOUS
  <2> DEFINE v == [i \in l .. hi |-> 0]
  <2>1. \A i \in l .. hi : FALSE  OBVIOUS
  <2>2. v = [i \in l .. hi |-> v[i]]  OBVIOUS
  <2> HIDE DEF v
  <2>3. Fits(v, l)  BY <2>1, <2>2 DEF Sums
  <2> QED BY <2>3
<1>2. ASSUME NEW k \in Nat, k \in T PROVE k + 1 \in T
  <2> SUFFICES ASSUME NEW l \in Nat, l + (k + 1) = hi + 1 PROVE \E v : Fits(v, l)  OBVIOUS
  <2>1. l + 1 \in Nat /\ (l + 1) + k = hi + 1  OBVIOUS
  <2>2. PICK u : Fits(u, l + 1)  BY <1>2, <2>1
  <2> DEFINE x == c[l] + (IF l = hi THEN 0 ELSE m * u[l + 1])
             v == [i \in l .. hi |-> IF i = l THEN x ELSE u[i]]
  <2> HIDE DEF x
  <2>3. /\ v = [i \in l .. hi |-> v[i]] /\ v[l] = x
        /\ \A i \in l + 1 .. hi : v[i] = u[i]
    OBVIOUS
  <2> HIDE DEF v
  <2>4. ASSUME NEW i \in l .. hi PROVE v[i] = c[i] + (IF i = hi THEN 0 ELSE m * v[i + 1])
    <3>1. CASE i = l
      <4>0. l # hi => l + 1 \in l + 1 .. hi  BY <2>1
      <4>1. l # hi => v[l + 1] = u[l + 1]  BY <2>3, <4>0
      <4> QED BY <2>3, <3>1, <4>1 DEF x
    <3>2. CASE i # l
      <4>1. i \in l + 1 .. hi /\ (i # hi => i + 1 \in l + 1 .. hi)  BY <3>2
      <4>2. u[i] = c[i] + (IF i = hi THEN 0 ELSE m * u[i + 1])  BY <2>2, <4>1 DEF Sums
      <4> QED BY <2>3, <4>1, <4>2
    <3> QED BY <3>1, <3>2
  <2>5. Fits(v, l)  BY <2>3, <2>4 DEF Sums
  <2> QED BY <2>5
<1> HIDE DEF Fits
<1>3. T = Nat  BY <1>1, <1>2, Induction
<1>4. (hi + 1) - lo \in Nat /\ lo + ((hi + 1) - lo) = hi + 1  OBVIOUS
<1>5. PICK v : Fits(v, lo)  BY <1>3, <1>4
<1> DEFINE Val(i) == c[i] + (IF i = hi THEN 0 ELSE m * v[i + 1])
<1>6. v = [i \in lo .. hi |-> v[i]] /\ \A i \in lo .. hi : v[i] = Val(i)  BY <1>5 DEF Fits, Sums
<1> HIDE DEF Val
<1>7. v = [i \in lo .. hi |-> Val(i)]  BY <1>6
<1> QED BY <1>7, Zenon DEF Val, DigitSums

(* The bytes behind place p of b are s. *)
Reads(b, p, s) == \A i \in 1 .. Len(s) : b[p + i] = s[i]

LEMMA VarintSum ==
    ASSUME NEW n \in Nat, NEW p \in Nat, NEW b, NEW v, Reads(b, p, varint[n]),
           \A i \in p + 1 .. p + Len(varint[n]) :
              v[i] = (b[i] % 128) + (IF i = p + Len(varint[n]) THEN 0 ELSE 128 * v[i + 1])
    PROVE  v[p + 1] = n
<1> DEFINE Adds(k, q) == \A i \in q + 1 .. q + Len(varint[k]) :
               v[i] = (b[i] % 128) + (IF i = q + Len(varint[k]) THEN 0 ELSE 128 * v[i + 1])
           T == { k \in Nat : \A q \in Nat : Reads(b, q, varint[k]) /\ Adds(k, q) => v[q + 1] = k }
<1>1. ASSUME NEW k \in Nat, \A j \in Nat : j < k => j \in T PROVE k \in T
  <2> SUFFICES ASSUME NEW q \in Nat, Reads(b, q, varint[k]), Adds(k, q) PROVE v[q + 1] = k
    OBVIOUS
  <2>1. CASE k <= 127
    <3>1. Len(varint[k]) = 1 /\ varint[k][1] = k  BY <2>1, VarintSmall
    <3>2. b[q + 1] = k  BY <3>1 DEF Reads
    <3>3. v[q + 1] = (b[q + 1] % 128) + 0  BY <3>1
    <3>4. k % 128 = k  BY <2>1
    <3> QED BY <3>2, <3>3, <3>4
  <2>2. CASE k > 127
    <3> DEFINE j == k \div 128
               L == Len(varint[j])
    <3>1. j \in Nat /\ j < k /\ k = 128 * j + (k % 128) /\ k % 128 \in 0 .. 127  BY <2>2, DivMod
    <3>2. /\ Len(varint[k]) = L + 1 /\ varint[k][1] = 128 + (k % 128)
          /\ \A i \in 1 .. L : varint[k][i + 1] = varint[j][i]
      BY <2>2, VarintLarge
    <3>3. L \in Nat /\ L >= 1  BY <3>1, VarintShape
    <3> HIDE DEF j, L
    <3>4. Reads(b, q + 1, varint[j])
      <4> SUFFICES ASSUME NEW i \in 1 .. L PROVE b[(q + 1) + i] = varint[j][i]
        BY DEF Reads, L
      <4>1. i + 1 \in 1 .. L + 1 /\ q + (i + 1) = (q + 1) + i  BY <3>3
      <4>2. b[q + (i + 1)] = varint[k][i + 1]  BY <3>2, <4>1 DEF Reads
      <4> QED BY <3>2, <4>1, <4>2
    <3>5. Adds(j, q + 1)
      <4> SUFFICES ASSUME NEW i \in (q + 1) + 1 .. (q + 1) + L
                   PROVE  v[i] = (b[i] % 128) + (IF i = (q + 1) + L THEN 0 ELSE 128 * v[i + 1])
        BY DEF L
      <4>1. (q + 1) + L = q + (L + 1) /\ i \in q + 1 .. q + (L + 1)  BY <3>3
      <4> QED BY <3>2, <4>1
    <3>6. v[(q + 1) + 1] = j
      <4>1. j \in T /\ q + 1 \in Nat  BY <1>1, <3>1
      <4> HIDE DEF Adds
      <4> QED BY <3>4, <3>5, <4>1
    <3>7. v[q + 1] = (b[q + 1] % 128) + 128 * j
      <4>1. q + 1 \in q + 1 .. q + (L + 1) /\ q + 1 # q + (L + 1)  BY <3>3
      <4>2. v[q + 1] = (b[q + 1] % 128) + 128 * v[(q + 1) + 1]  BY <3>2, <4>1
      <4> QED BY <3>6, <4>2
    <3>8. b[q + 1] = 128 + (k % 128)
      <4>1. 1 \in 1 .. L + 1  BY <3>3
      <4> QED BY <3>2, <4>1 DEF Reads
    <3>9. (128 + (k % 128)) % 128 = k % 128  BY <3>1
    <3> QED BY <3>1, <3>7, <3>8, <3>9
  <2> QED BY <2>1, <2>2
<1> HIDE DEF Adds
<1>2. T = Nat  BY <1>1, StrongInduction
<1>3. Adds(n, p)  BY DEF Adds
<1> QED BY <1>2, <1>3

LEMMA VarintDecoded ==
    ASSUME NEW n \in Nat, NEW p \in Nat, NEW last \in Nat, NEW b,
           Reads(b, p, varint[n]), p + Len(varint[n]) <= last
    PROVE  /\ VarintEnds(b, p, last) # {}
           /\ Least(VarintEnds(b, p, last)) = p + Len(varint[n])
           /\ VarintValue(b, p, p + Len(varint[n])) = n
<1> DEFINE L == Len(varint[n])
           E == VarintEnds(b, p, last)
<1>1. L \in Nat /\ L >= 1 /\ varint[n][L] <= 127 /\ \A i \in 1 .. L - 1 : ~ (varint[n][i] <= 127)
  BY VarintShape
<1>2. \A i \in 1 .. L : b[p + i] = varint[n][i]  BY DEF Reads
<1>3. p + L <= last  OBVIOUS
<1> HIDE DEF L
<1>4. p + L \in E  BY <1>1, <1>2, <1>3 DEF VarintEnds
<1>5. ASSUME NEW e \in E PROVE p + L <= e
  <2> SUFFICES ASSUME e < p + L PROVE FALSE  BY <1>1 DEF VarintEnds
  <2>1. e \in p + 1 .. last /\ b[e] <= 127  BY DEF VarintEnds
  <2>2. e - p \in 1 .. L - 1 /\ e - p \in 1 .. L /\ p + (e - p) = e  BY <1>1, <2>1
  <2> QED BY <1>1, <1>2, <2>1, <2>2
<1>6. \A e \in E : e \in Nat  BY DEF VarintEnds
<1>7. Least(E) = p + L
  <2> HIDE DEF E
  <2>1. Least(E) \in E /\ \A e \in E : Least(E) <= e  BY <1>4, <1>5, Zenon DEF Least
  <2> QED BY <1>1, <1>4, <1>5, <1>6, <2>1
<1>8. VarintValue(b, p, p + L) = n
  <2> DEFINE hi == p + L
             c == [i \in p + 1 .. hi |-> b[i] % 128]
             Val(v, i) == (b[i] % 128) + (IF i = hi THEN 0 ELSE 128 * v[i + 1])
  <2>1. hi \in Nat /\ p + 1 \in Nat /\ p + 1 <= hi + 1  BY <1>1
  <2>2. \A i \in p + 1 .. hi : c[i] = b[i] % 128  OBVIOUS
  <2> HIDE DEF hi, c
  <2>a. PICK w : DigitSums(w, c, 128, p + 1, hi)  BY <2>1, SumsExist, Zenon
  <2>3. w = [i \in p + 1 .. hi |-> c[i] + (IF i = hi THEN 0 ELSE 128 * w[i + 1])]
    BY <2>a, Zenon DEF DigitSums
  <2>4. \A i \in p + 1 .. hi : c[i] + (IF i = hi THEN 0 ELSE 128 * w[i + 1]) = Val(w, i)
    BY <2>2
  <2> HIDE DEF Val
  <2>5. w = [i \in p + 1 .. hi |-> Val(w, i)]  BY <2>3, <2>4, Zenon
  <2> DEFINE v == CHOOSE u : u = [i \in p + 1 .. hi |-> Val(u, i)]
  <2>6. v = [i \in p + 1 .. hi |-> Val(v, i)]  BY <2>5, Zenon
  <2>7. VarintValue(b, p, hi) = v[p + 1]  BY Zenon DEF VarintValue, Val
  <2>8. \A i \in p + 1 .. hi : v[i] = Val(v, i)  BY <2>6, Zenon
  <2> HIDE DEF v
  <2>9. v[p + 1] = n
    <3>1. \A i \in p + 1 .. p + Len(varint[n]) :
             v[i] = (b[i] % 128) + (IF i = p + Len(varint[n]) THEN 0 ELSE 128 * v[i + 1])
      BY <2>8, Zenon DEF Val, hi, L
    <3> QED BY <3>1, VarintSum, Zenon
  <2> QED BY <2>7, <2>9 DEF hi
<1> QED BY <1>4, <1>7, <1>8 DEF L

(***************************************************************************)
(* The reader of the server, and of the client as long as nothing failed.  *)
(***************************************************************************)
Rd(d, p, o) == [data |-> d, pos |-> p, out |-> o, res |-> CSWP_SUCCESS]

(* The bytes s stand in d behind place p. *)
Placed(d, p, s) == p + Len(s) <= Len(d) /\ Reads(d, p, s)

LEMMA TakeRd ==
    ASSUME NEW d, NEW p, NEW o, NEW n, NEW x
    PROVE  Take(Rd(d, p, o), n, x) = Rd(d, p + n, Append(o, x))
<1>1. [Rd(d, p, o) EXCEPT !.pos = @ + n] = Rd(d, p + n, o)  BY DEF Rd
<1>2. [Rd(d, p + n, o) EXCEPT !.out = Append(@, x)] = Rd(d, p + n, Append(o, x))  BY DEF Rd
<1>3. Take(Rd(d, p, o), n, x)
          = [[Rd(d, p, o) EXCEPT !.pos = @ + n] EXCEPT !.out = Append(@, x)]
  BY DEF Take
<1> QED BY <1>1, <1>2, <1>3

LEMMA RdFields ==
    ASSUME NEW d, NEW p, NEW o
    PROVE  Rd(d, p, o).data = d /\ Rd(d, p, o).pos = p /\ Rd(d, p, o).out = o
           /\ Rd(d, p, o).res = CSWP_SUCCESS
BY DEF Rd

(* The server reads the varints the client writes, up to what fits an int. *)
LEMMA ServerVarint ==
    ASSUME NEW n \in Int31, NEW p \in Nat, NEW d \in Seq(Byte), NEW o, Placed(d, p, varint[n])
    PROVE  process_incoming_varint(Rd(d, p, o)) = Rd(d, p + Len(varint[n]), Append(o, <<n>>))
<1> DEFINE r == Rd(d, p, o)
           b == [i \in p + 1 .. p + 10 |-> Buffered(r, i)]
           L == Len(varint[n])
<1>1. n \in Nat /\ L \in Nat /\ L >= 1 /\ L <= 5  BY VarintShape, VarintShort, SMT DEF Int31
<1>2. r.data = d /\ r.pos = p  BY RdFields
<1>3. p + L <= Len(d) /\ \A i \in 1 .. L : d[p + i] = varint[n][i]  BY DEF Placed, Reads
<1>4. Reads(b, p, varint[n])
  <2> SUFFICES ASSUME NEW i \in 1 .. L PROVE b[p + i] = varint[n][i]  BY DEF Reads
  <2> HIDE DEF L
  <2>1. p + i \in p + 1 .. p + 10 /\ p + i <= Len(d)  BY <1>1, <1>3
  <2>2. b[p + i] = Buffered(r, p + i)  BY <2>1
  <2> QED BY <1>2, <1>3, <2>1, <2>2 DEF Buffered
<1>5. p + L <= p + 10 /\ p + 10 \in Nat  BY <1>1
<1> HIDE DEF b, r
<1>6. /\ Least(VarintEnds(b, p, p + 10)) = p + L /\ VarintValue(b, p, p + L) = n
  BY <1>1, <1>4, <1>5, VarintDecoded
<1> HIDE DEF L
<1>7. process_incoming_varint(r) = Take(r, (p + L) - p, <<n>>)
  BY <1>2, <1>6, Zenon DEF process_incoming_varint, b
<1>8. (p + L) - p = L  BY <1>1
<1> QED BY <1>7, <1>8, TakeRd DEF r, L

(***************************************************************************)
(* Integers of a fixed width: lim[k] is the number of values of k bytes.   *)
(***************************************************************************)
FixedStep(w, n) ==
    /\ fixed[w][n] \in Seq(Byte) /\ fixed[w - 1][n \div 256] \in Seq(Byte)
    /\ Len(fixed[w][n]) = Len(fixed[w - 1][n \div 256]) + 1
    /\ fixed[w][n][1] = n % 256
    /\ \A i \in 1 .. Len(fixed[w - 1][n \div 256]) :
          fixed[w][n][i + 1] = fixed[w - 1][n \div 256][i]

LEMMA FixedBytes ==
    ASSUME NEW w \in Nat, w >= 1, NEW n \in Nat
    PROVE  FixedStep(w, n)
<1>1. w - 1 \in Nat /\ w # 0 /\ n \div 256 \in Nat /\ n % 256 \in Byte  BY DivMod
<1> DEFINE s == fixed[w - 1][n \div 256]
           x == n % 256
<1>2. fixed[w] \in [Nat -> Seq(Byte)] /\ fixed[w - 1] \in [Nat -> Seq(Byte)]
  BY <1>1, FixedDef, Zenon
<1>a. fixed[w][n] \in Seq(Byte) /\ s \in Seq(Byte)  BY <1>1, <1>2
<1>3. fixed[w][n] = <<x>> \o s
  <2> DEFINE F(k, m) ==
        fixed[k][m] = IF k = 0 THEN <<>> ELSE <<m % 256>> \o fixed[k - 1][m \div 256]
  <2>1. \A k, m \in Nat : F(k, m)  BY FixedDef
  <2>2. F(w, n)  BY <2>1
  <2> QED BY <1>1, <2>2, SMT
<1> HIDE DEF s, x
<1>4. /\ Len(<<x>> \o s) = Len(s) + 1 /\ (<<x>> \o s)[1] = x
      /\ \A i \in 1 .. Len(s) : (<<x>> \o s)[i + 1] = s[i]
  BY <1>1, <1>a DEF x
<1> QED BY <1>a, <1>3, <1>4 DEF s, x, FixedStep

LEMMA FixedLen ==
    ASSUME NEW w \in Nat, NEW n \in Nat
    PROVE  Len(fixed[w][n]) = w
<1> DEFINE T == { k \in Nat : \A m \in Nat : Len(fixed[k][m]) = k }
<1>1. 0 \in T
  <2>1. \A m \in Nat : fixed[0][m] = <<>>  BY FixedDef
  <2> QED BY <2>1
<1>2. ASSUME NEW k \in Nat, k \in T PROVE k + 1 \in T
  <2> SUFFICES ASSUME NEW m \in Nat PROVE Len(fixed[k + 1][m]) = k + 1  OBVIOUS
  <2>1. k + 1 \in Nat /\ k + 1 >= 1 /\ (k + 1) - 1 = k /\ m \div 256 \in Nat  BY DivMod
  <2>a. FixedStep(k + 1, m)  BY <2>1, FixedBytes
  <2>2. Len(fixed[k + 1][m]) = Len(fixed[k][m \div 256]) + 1  BY <2>1, <2>a DEF FixedStep
  <2> QED BY <1>2, <2>1, <2>2
<1>3. T = Nat  BY <1>1, <1>2, Induction
<1> QED BY <1>3

Powers(lim, w) ==
    /\ lim \in [0 .. w -> Nat] /\ lim[0] = 1
    /\ \A k \in 1 .. w : lim[k] = 256 * lim[k - 1]

LEMMA FixedSum ==
    ASSUME NEW w \in Nat, w >= 1, NEW lim, Powers(lim, w), NEW n \in Nat, n < lim[w],
           NEW b, NEW v, Reads(b, 0, fixed[w][n]), Sums(v, b, 256, 1, w)
    PROVE  v[1] = n
<1> DEFINE T == { k \in Nat : \A m \in Nat : k < w /\ m < lim[k + 1]
                     /\ Reads(b, w - (k + 1), fixed[k + 1][m]) => v[w - k] = m }
<1>1. 0 \in T
  <2> SUFFICES ASSUME NEW m \in Nat, 0 < w, m < lim[0 + 1], Reads(b, w - 1, fixed[1][m])
               PROVE  v[w - 0] = m
    OBVIOUS
  <2>1. m < 256
    <3>1. 1 \in 1 .. w /\ 1 - 1 = 0 /\ 0 + 1 = 1  OBVIOUS
    <3>2. lim[1] = 256 * lim[0] /\ lim[0] = 1  BY <3>1 DEF Powers
    <3> QED BY <3>1, <3>2
  <2>a. FixedStep(1, m)  BY FixedBytes
  <2>b. Len(fixed[1][m]) = 1  BY FixedLen
  <2>2. fixed[1][m][1] = m % 256 /\ Len(fixed[1][m]) = 1  BY <2>a, <2>b DEF FixedStep
  <2>3. b[w] = m % 256
    <3>1. b[(w - 1) + 1] = fixed[1][m][1]  BY <2>2 DEF Reads
    <3> QED BY <2>2, <3>1
  <2>4. v[w] = b[w] + 0
    <3>1. w \in 1 .. w  OBVIOUS
    <3> QED BY <3>1 DEF Sums
  <2>5. m % 256 = m /\ w - 0 = w  BY <2>1, SMT
  <2> QED BY <2>3, <2>4, <2>5
<1>2. ASSUME NEW k \in Nat, k \in T PROVE k + 1 \in T
  <2> SUFFICES ASSUME NEW m \in Nat, k + 1 < w, m < lim[(k + 1) + 1],
                      Reads(b, w - ((k + 1) + 1), fixed[(k + 1) + 1][m])
               PROVE  v[w - (k + 1)] = m
    OBVIOUS
  <2> DEFINE j == m \div 256
             x == m % 256
             l == w - (k + 2)
  <2>1. j \in Nat /\ x \in Nat /\ x <= 255 /\ m = 256 * j + x  BY SMT
  <2>2. /\ l \in Nat /\ l + 1 = w - (k + 1) /\ l + 2 = w - k /\ l + 1 # w
        /\ w - ((k + 1) + 1) = l /\ (k + 1) + 1 = k + 2 /\ l + 1 \in 1 .. w /\ (k + 2) - 1 = k + 1
        /\ k + 2 \in Nat /\ k + 2 >= 1 /\ k + 1 \in Nat /\ k + 2 \in 1 .. w /\ k + 1 \in 0 .. w
    OBVIOUS
  <2>3. Reads(b, l, fixed[k + 2][m])  BY <2>2
  <2> HIDE DEF j, x, l
  <2>4. /\ Len(fixed[k + 2][m]) = k + 2 /\ Len(fixed[k + 1][j]) = k + 1
        /\ fixed[k + 2][m][1] = x
        /\ \A i \in 1 .. k + 1 : fixed[k + 2][m][i + 1] = fixed[k + 1][j][i]
    <3>1. Len(fixed[k + 2][m]) = k + 2 /\ Len(fixed[k + 1][j]) = k + 1  BY <2>1, <2>2, FixedLen
    <3>2. /\ fixed[k + 2][m][1] = x
          /\ \A i \in 1 .. Len(fixed[k + 1][j]) : fixed[k + 2][m][i + 1] = fixed[k + 1][j][i]
      <4>1. FixedStep(k + 2, m)  BY <2>2, FixedBytes
      <4> QED BY <2>2, <4>1 DEF j, x, FixedStep
    <3> QED BY <3>1, <3>2
  <2>5. b[l + 1] = x
    <3>1. 1 \in 1 .. k + 2  OBVIOUS
    <3> QED BY <2>3, <2>4, <3>1 DEF Reads
  <2>6. Reads(b, l + 1, fixed[k + 1][j])
    <3> SUFFICES ASSUME NEW i \in 1 .. k + 1 PROVE b[(l + 1) + i] = fixed[k + 1][j][i]
      BY <2>4 DEF Reads
    <3>1. i + 1 \in 1 .. k + 2 /\ l + (i + 1) = (l + 1) + i  BY <2>2
    <3> QED BY <2>3, <2>4, <3>1 DEF Reads
  <2>7. j < lim[k + 1]
    <3>1. lim[k + 2] = 256 * lim[k + 1] /\ lim[k + 1] \in Nat /\ m < lim[k + 2]
      BY <2>2 DEF Powers
    <3> QED BY <2>1, <3>1, SMT
  <2>8. v[l + 2] = j
    <3>1. k < w  BY <2>2
    <3> QED BY <1>2, <2>1, <2>2, <2>6, <2>7, <3>1
  <2>9. v[l + 1] = b[l + 1] + 256 * v[l + 2]
    <3>1. (l + 1) + 1 = l + 2  BY <2>2
    <3> QED BY <2>2, <3>1 DEF Sums
  <2> QED BY <2>1, <2>2, <2>5, <2>8, <2>9
<1>3. T = Nat  BY <1>1, <1>2, Induction
<1>4. w - 1 \in Nat /\ w - 1 < w /\ (w - 1) + 1 = w /\ w - w = 0 /\ w - (w - 1) = 1
  OBVIOUS
<1>5. w - 1 \in T  BY <1>3, <1>4
<1> QED BY <1>4, <1>5

LEMMA ServerFixed ==
    ASSUME NEW w \in Nat, w >= 1, NEW lim, Powers(lim, w), NEW n \in Nat, n < lim[w], NEW p \in Nat, NEW d \in Seq(Byte), NEW o,
           Placed(d, p, fixed[w][n])
    PROVE  LittleEndian(Rd(d, p, o), w) = n
<1> DEFINE r == Rd(d, p, o)
           b == [i \in 1 .. w |-> Buffered(r, p + i)]
           Val(v, i) == Buffered(r, r.pos + i) + (IF i = w THEN 0 ELSE 256 * v[i + 1])
<1>1. r.data = d /\ r.pos = p  BY RdFields
<1>2. Len(fixed[w][n]) = w  BY FixedLen
<1>3. p + w <= Len(d) /\ \A i \in 1 .. w : d[p + i] = fixed[w][n][i]  BY <1>2 DEF Placed, Reads
<1>4. \A i \in 1 .. w : b[i] = Buffered(r, r.pos + i) /\ b[i] = d[p + i]
  BY <1>1, <1>3 DEF Buffered
<1> HIDE DEF r, b
<1>5. Reads(b, 0, fixed[w][n])
  <2> SUFFICES ASSUME NEW i \in 1 .. w PROVE b[0 + i] = fixed[w][n][i]  BY <1>2 DEF Reads
  <2>1. 0 + i = i  OBVIOUS
  <2> QED BY <1>3, <1>4, <2>1
<1>a. 1 \in Nat /\ 1 <= w + 1  OBVIOUS
<1>b. PICK u : DigitSums(u, b, 256, 1, w)  BY <1>a, SumsExist, Zenon
<1>6. u = [i \in 1 .. w |-> b[i] + (IF i = w THEN 0 ELSE 256 * u[i + 1])]
  BY <1>b, Zenon DEF DigitSums
<1>7. \A i \in 1 .. w : b[i] + (IF i = w THEN 0 ELSE 256 * u[i + 1]) = Val(u, i)  BY <1>4, Zenon
<1>8. u = [i \in 1 .. w |-> Val(u, i)]
  <2> HIDE DEF Val
  <2> QED BY <1>6, <1>7, Zenon
<1> DEFINE v == CHOOSE x : x = [i \in 1 .. w |-> Val(x, i)]
<1>9. v = [i \in 1 .. w |-> Val(v, i)]
  <2> HIDE DEF Val
  <2> QED BY <1>8, Zenon
<1>10. LittleEndian(r, w) = v[1]  BY Zenon DEF LittleEndian
<1> HIDE DEF v
<1>11. Sums(v, b, 256, 1, w)
  <2>1. \A i \in 1 .. w : v[i] = Val(v, i)
    <3> HIDE DEF Val
    <3> QED BY <1>9, Zenon
  <2> QED BY <1>4, <2>1 DEF Sums
<1>12. v[1] = n  BY <1>5, <1>11, FixedSum
<1> QED BY <1>10, <1>12 DEF r

UInt32 == { n \in Nat : n <= 4294967295 }
UInt64 == { n \in Nat : n <= 18446744073709551615 }

LEMMA ServerUint32 ==
    ASSUME NEW n \in UInt32, NEW p \in Nat, NEW d \in Seq(Byte), NEW o, Placed(d, p, fixed[4][n])
    PROVE  process_incoming_uint32(Rd(d, p, o)) = Rd(d, p + Len(fixed[4][n]), Append(o, <<n>>))
<1> DEFINE lims == <<1, 256, 65536, 16777216, 4294967296>>
           lim == [k \in 0 .. 4 |-> lims[k + 1]]
<1>1. lim \in [0 .. 4 -> Nat] /\ lim[0] = 1 /\ lim[4] = 4294967296  BY SMT
<1>2. \A k \in 1 .. 4 : k = 1 \/ k = 2 \/ k = 3 \/ k = 4  BY SMT
<1>3. \A k \in 1 .. 4 : lim[k] = 256 * lim[k - 1]  BY <1>2, SMT
<1> HIDE DEF lim
<1>4. n \in Nat /\ n < lim[4]  BY <1>1, SMT DEF UInt32
<1>5. Powers(lim, 4) /\ 4 \in Nat /\ 4 >= 1  BY <1>1, <1>3, SMT DEF Powers
<1>6. LittleEndian(Rd(d, p, o), 4) = n  BY <1>4, <1>5, ServerFixed
<1>7. Len(fixed[4][n]) = 4  BY <1>4, FixedLen
<1>8. process_incoming_uint32(Rd(d, p, o)) = Take(Rd(d, p, o), 4, <<n>>)
  BY <1>6, Zenon DEF process_incoming_uint32
<1>9. Take(Rd(d, p, o), 4, <<n>>) = Rd(d, p + 4, Append(o, <<n>>))  BY TakeRd
<1> QED BY <1>7, <1>8, <1>9

LEMMA ServerUint64 ==
    ASSUME NEW n \in UInt64, NEW p \in Nat, NEW d \in Seq(Byte), NEW o, Placed(d, p, fixed[8][n])
    PROVE  process_incoming_uint64(Rd(d, p, o)) = Rd(d, p + Len(fixed[8][n]), Append(o, <<n>>))
<1> DEFINE lims == <<1, 256, 65536, 16777216, 4294967296, 1099511627776, 281474976710656,
                     72057594037927936, 18446744073709551616>>
           lim == [k \in 0 .. 8 |-> lims[k + 1]]
<1>1. lim \in [0 .. 8 -> Nat] /\ lim[0] = 1 /\ lim[8] = 18446744073709551616
  <2>1. lims \in [1 .. 9 -> Nat]  BY SMT
  <2>2. \A k \in 0 .. 8 : k + 1 \in 1 .. 9  BY SMT
  <2>3. lims[1] = 1 /\ lims[9] = 18446744073709551616  BY SMT
  <2> HIDE DEF lims
  <2> QED BY <2>1, <2>2, <2>3, SMT
<1>2. \A k \in 1 .. 8 : k = 1 \/ k = 2 \/ k = 3 \/ k = 4 \/ k = 5 \/ k = 6 \/ k = 7 \/ k = 8  BY SMT
<1>3. \A k \in 1 .. 8 : lim[k] = 256 * lim[k - 1]  BY <1>2, SMT
<1> HIDE DEF lim
<1>4. n \in Nat /\ n < lim[8]  BY <1>1, SMT DEF UInt64
<1>5. Powers(lim, 8) /\ 8 \in Nat /\ 8 >= 1  BY <1>1, <1>3, SMT DEF Powers
<1>6. LittleEndian(Rd(d, p, o), 8) = n  BY <1>4, <1>5, ServerFixed
<1>7. Len(fixed[8][n]) = 8  BY <1>4, FixedLen
<1>8. process_incoming_uint64(Rd(d, p, o)) = Take(Rd(d, p, o), 8, <<n>>)
  BY <1>6, Zenon DEF process_incoming_uint64
<1>9. Take(Rd(d, p, o), 8, <<n>>) = Rd(d, p + 8, Append(o, <<n>>))  BY TakeRd
<1> QED BY <1>7, <1>8, <1>9

LEMMA ServerBytes ==
    ASSUME NEW t \in Seq(Byte), NEW p \in Nat, NEW d \in Seq(Byte), NEW o, Placed(d, p, t)
    PROVE  process_incoming_bytes(Rd(d, p, o), Len(t)) = Rd(d, p + Len(t), Append(o, t))
<1> DEFINE r == Rd(d, p, o)
           u == [i \in 1 .. Len(t) |-> Buffered(r, r.pos + i)]
<1>1. r.data = d /\ r.pos = p  BY RdFields
<1>2. \A i \in 1 .. Len(t) : p + i <= Len(d) /\ d[p + i] = t[i]  BY DEF Placed, Reads
<1> HIDE DEF r
<1>3. \A i \in 1 .. Len(t) : Buffered(r, r.pos + i) = t[i]  BY <1>1, <1>2 DEF Buffered
<1>4. u = t  BY <1>3
<1>5. process_incoming_bytes(r, Len(t)) = Take(r, Len(t), u)  BY DEF process_incoming_bytes
<1> HIDE DEF u
<1> QED BY <1>4, <1>5, TakeRd DEF r

-----------------------------------------------------------------------------
(***************************************************************************)
(* Fields.  A value is a sequence of numbers; a varint holds what fits an  *)
(* int, which is what the server computes with.                            *)
(***************************************************************************)
Value == Seq(Nat)
Strings == { s \in Seq(Byte) : Len(s) \in Int31 }
Fields ==
    { V(n) : n \in Int31 } \cup { W(n) : n \in UInt32 } \cup { Q(n) : n \in UInt64 }
        \cup { S(s) : s \in Strings } \cup { D(s) : s \in Seq(Byte) }

FieldBytes(f) ==
    CASE f.kind = "varint" -> varint[f.val[1]]
      [] f.kind = "uint32" -> fixed[4][f.val[1]]
      [] f.kind = "uint64" -> fixed[8][f.val[1]]
      [] f.kind = "string" -> varint[Len(f.val)] \o f.val
      [] f.kind = "data" -> f.val

LEMMA Numbers ==
    /\ Int31 \subseteq Nat /\ UInt32 \subseteq Nat /\ UInt64 \subseteq Nat /\ Byte \subseteq Nat
BY DEF Int31, UInt32, UInt64, Byte

LEMMA BytesAreValues ==
    ASSUME NEW s \in Seq(Byte)
    PROVE  s \in Value /\ Len(s) \in Nat
<1>1. Len(s) \in Nat /\ \A i \in 1 .. Len(s) : s[i] \in Byte  OBVIOUS
<1>2. \A i \in 1 .. Len(s) : s[i] \in Nat  BY <1>1, Numbers
<1>3. s \in [1 .. Len(s) -> Nat]  BY <1>2
<1> QED BY <1>1, <1>3 DEF Value

LEMMA IntegerBytes ==
    ASSUME NEW n \in Nat
    PROVE  varint[n] \in Seq(Byte) /\ fixed[4][n] \in Seq(Byte) /\ fixed[8][n] \in Seq(Byte)
<1>1. varint[n] \in Seq(Byte)  BY VarintDef
<1>2. fixed[4] \in [Nat -> Seq(Byte)] /\ fixed[8] \in [Nat -> Seq(Byte)]  BY FixedDef
<1> QED BY <1>1, <1>2

(* What a field is made of, by kind. *)
LEMMA FieldKinds ==
    /\ \A n : V(n).kind = "varint" /\ V(n).val = <<n>> /\ FieldBytes(V(n)) = varint[n]
    /\ \A n : W(n).kind = "uint32" /\ W(n).val = <<n>> /\ FieldBytes(W(n)) = fixed[4][n]
    /\ \A n : Q(n).kind = "uint64" /\ Q(n).val = <<n>> /\ FieldBytes(Q(n)) = fixed[8][n]
    /\ \A s : S(s).kind = "string" /\ S(s).val = s /\ FieldBytes(S(s)) = varint[Len(s)] \o s
    /\ \A s : D(s).kind = "data" /\ D(s).val = s /\ FieldBytes(D(s)) = s
<1>1. \A n : V(n).kind = "varint" /\ V(n).val = <<n>> /\ V(n).val[1] = n  BY DEF V
<1>2. \A n : W(n).kind = "uint32" /\ W(n).val = <<n>> /\ W(n).val[1] = n  BY DEF W
<1>3. \A n : Q(n).kind = "uint64" /\ Q(n).val = <<n>> /\ Q(n).val[1] = n  BY DEF Q
<1>4. \A s : S(s).kind = "string" /\ S(s).val = s  BY DEF S
<1>5. \A s : D(s).kind = "data" /\ D(s).val = s  BY DEF D
<1>6. \A n : FieldBytes(V(n)) = varint[n]  BY <1>1 DEF FieldBytes
<1>7. \A n : FieldBytes(W(n)) = fixed[4][n]  BY <1>2 DEF FieldBytes
<1>8. \A n : FieldBytes(Q(n)) = fixed[8][n]  BY <1>3 DEF FieldBytes
<1>9. \A s : FieldBytes(S(s)) = varint[Len(s)] \o s  BY <1>4 DEF FieldBytes
<1>10. \A s : FieldBytes(D(s)) = s  BY <1>5 DEF FieldBytes
<1> QED BY <1>1, <1>2, <1>3, <1>4, <1>5, <1>6, <1>7, <1>8, <1>9, <1>10

LEMMA FieldCases ==
    ASSUME NEW f \in Fields
    PROVE  \/ \E n \in Int31 : f = V(n)
           \/ \E n \in UInt32 : f = W(n)
           \/ \E n \in UInt64 : f = Q(n)
           \/ \E s \in Strings : f = S(s)
           \/ \E s \in Seq(Byte) : f = D(s)
BY Zenon DEF Fields

LEMMA FieldFacts ==
    ASSUME NEW f \in Fields
    PROVE  FieldBytes(f) \in Seq(Byte) /\ f.val \in Value
<1>1. CASE \E n \in Int31 : f = V(n)
  <2>1. PICK n \in Int31 : f = V(n)  BY <1>1
  <2>2. n \in Nat  BY Numbers
  <2>3. <<n>> \in Value  BY <2>2 DEF Value
  <2> QED BY <2>1, <2>2, <2>3, FieldKinds, IntegerBytes
<1>2. CASE \E n \in UInt32 : f = W(n)
  <2>1. PICK n \in UInt32 : f = W(n)  BY <1>2
  <2>2. n \in Nat  BY Numbers
  <2>3. <<n>> \in Value  BY <2>2 DEF Value
  <2> QED BY <2>1, <2>2, <2>3, FieldKinds, IntegerBytes
<1>3. CASE \E n \in UInt64 : f = Q(n)
  <2>1. PICK n \in UInt64 : f = Q(n)  BY <1>3
  <2>2. n \in Nat  BY Numbers
  <2>3. <<n>> \in Value  BY <2>2 DEF Value
  <2> QED BY <2>1, <2>2, <2>3, FieldKinds, IntegerBytes
<1>4. CASE \E s \in Strings : f = S(s)
  <2>1. PICK s \in Strings : f = S(s)  BY <1>4
  <2>2. s \in Seq(Byte) /\ Len(s) \in Nat /\ s \in Value  BY BytesAreValues DEF Strings
  <2>3. varint[Len(s)] \o s \in Seq(Byte)  BY <2>2, IntegerBytes
  <2> QED BY <2>1, <2>2, <2>3, FieldKinds
<1>5. CASE \E s \in Seq(Byte) : f = D(s)  BY <1>5, FieldKinds, BytesAreValues
<1> QED BY <1>1, <1>2, <1>3, <1>4, <1>5, FieldCases

(* Two strings of bytes one behind the other. *)
LEMMA PlacedConcat ==
    ASSUME NEW s \in Seq(Byte), NEW t \in Seq(Byte), NEW d \in Seq(Byte), NEW p \in Nat,
           Placed(d, p, s \o t)
    PROVE  Placed(d, p, s) /\ Placed(d, p + Len(s), t) /\ Len(s \o t) = Len(s) + Len(t)
<1>1. /\ Len(s \o t) = Len(s) + Len(t) /\ Len(s) \in Nat /\ Len(t) \in Nat
      /\ \A i \in 1 .. Len(s) : (s \o t)[i] = s[i]
      /\ \A i \in 1 .. Len(t) : (s \o t)[Len(s) + i] = t[i]
  OBVIOUS
<1> DEFINE c == s \o t
<1>2. p + Len(c) <= Len(d) /\ \A i \in 1 .. Len(c) : d[p + i] = c[i]  BY DEF Placed, Reads
<1> HIDE DEF c
<1>3. \A i \in 1 .. Len(s) : d[p + i] = s[i]  BY <1>1, <1>2 DEF c
<1>4. ASSUME NEW i \in 1 .. Len(t) PROVE d[(p + Len(s)) + i] = t[i]
  <2>1. Len(s) + i \in 1 .. Len(c) /\ p + (Len(s) + i) = (p + Len(s)) + i  BY <1>1 DEF c
  <2> QED BY <1>1, <1>2, <2>1 DEF c
<1>5. p + Len(s) <= Len(d) /\ (p + Len(s)) + Len(t) <= Len(d)  BY <1>1, <1>2 DEF c
<1> QED BY <1>1, <1>3, <1>4, <1>5 DEF Placed, Reads

LEMMA LastAndFront ==
    ASSUME NEW d, NEW p, NEW o \in Seq(Value), NEW n \in Nat
    PROVE  /\ LastValue(Rd(d, p, Append(o, <<n>>))) = n
           /\ DropValue(Rd(d, p, Append(o, <<n>>))) = Rd(d, p, o)
<1> DEFINE x == <<n>>
           a == Append(o, x)
<1>1. x \in Value /\ x[1] = n  BY DEF Value
<1> HIDE DEF x
<1>2. a \in Seq(Value) /\ Len(a) = Len(o) + 1 /\ Len(o) \in Nat /\ a[Len(o) + 1] = x
      /\ \A i \in 1 .. Len(o) : a[i] = o[i]
  BY <1>1
<1> HIDE DEF a
<1>3. Rd(d, p, a).out = a  BY RdFields
<1>4. LastValue(Rd(d, p, a)) = n  BY <1>1, <1>2, <1>3 DEF LastValue
<1>5. Front(a) = o
  <2>1. Front(a) = SubSeq(a, 1, Len(o))  BY <1>2 DEF Front
  <2>2. /\ SubSeq(a, 1, Len(o)) \in Seq(Value) /\ Len(SubSeq(a, 1, Len(o))) = Len(o)
        /\ \A i \in 1 .. Len(o) : SubSeq(a, 1, Len(o))[i] = a[i]
    BY <1>2
  <2> HIDE DEF a
  <2> QED BY <1>2, <2>1, <2>2
<1>6. DropValue(Rd(d, p, a)) = Rd(d, p, Front(a))  BY DEF DropValue, Rd
<1> QED BY <1>4, <1>5, <1>6 DEF a, x

LEMMA ServerString ==
    ASSUME NEW s \in Strings, NEW p \in Nat, NEW d \in Seq(Byte), NEW o \in Seq(Value),
           Placed(d, p, varint[Len(s)] \o s)
    PROVE  process_incoming_string(Rd(d, p, o))
               = Rd(d, p + Len(varint[Len(s)] \o s), Append(o, s))
<1> DEFINE n == Len(s)
           u == varint[n]
           r == Rd(d, p + Len(u), Append(o, <<n>>))
<1>1. s \in Seq(Byte) /\ n \in Int31 /\ n \in Nat  BY Numbers DEF Strings
<1>2. u \in Seq(Byte)  BY <1>1, IntegerBytes
<1>3. Placed(d, p, u) /\ Placed(d, p + Len(u), s) /\ Len(u \o s) = Len(u) + n
  BY <1>1, <1>2, PlacedConcat
<1>4. process_incoming_varint(Rd(d, p, o)) = r  BY <1>1, <1>3, ServerVarint
<1>5. LastValue(r) = n /\ DropValue(r) = Rd(d, p + Len(u), o)  BY <1>1, LastAndFront
<1>6. p + Len(u) \in Nat /\ (p + Len(u)) + n = p + (Len(u) + n)  BY <1>1, <1>2
<1> HIDE DEF u, r
<1>7. process_incoming_bytes(Rd(d, p + Len(u), o), n) = Rd(d, (p + Len(u)) + n, Append(o, s))
  BY <1>1, <1>3, <1>6, ServerBytes DEF n
<1> HIDE DEF n
<1>8. process_incoming_string(Rd(d, p, o)) = process_incoming_bytes(DropValue(r), LastValue(r))
  BY <1>4, Zenon DEF process_incoming_string
<1> QED BY <1>3, <1>5, <1>6, <1>7, <1>8 DEF n, u

(* The server's reader of a field inverts the client's writer of it. *)
LEMMA ServerField ==
    ASSUME NEW f \in Fields, f.kind # "data", NEW p \in Nat, NEW d \in Seq(Byte),
           NEW o \in Seq(Value), Placed(d, p, FieldBytes(f))
    PROVE  read_field(Rd(d, p, o), f.kind) = Rd(d, p + Len(FieldBytes(f)), Append(o, f.val))
<1> DEFINE r == Rd(d, p, o)
<1> HIDE DEF r
<1>1. CASE \E n \in Int31 : f = V(n)
  <2>1. PICK n \in Int31 : f = V(n)  BY <1>1
  <2>2. f.kind = "varint" /\ f.val = <<n>> /\ FieldBytes(f) = varint[n]  BY <2>1, FieldKinds
  <2>3. read_field(r, "varint") = process_incoming_varint(r)  BY DEF read_field
  <2> QED BY <2>2, <2>3, ServerVarint DEF r
<1>2. CASE \E n \in UInt32 : f = W(n)
  <2>1. PICK n \in UInt32 : f = W(n)  BY <1>2
  <2>2. f.kind = "uint32" /\ f.val = <<n>> /\ FieldBytes(f) = fixed[4][n]  BY <2>1, FieldKinds
  <2>3. read_field(r, "uint32") = process_incoming_uint32(r)  BY DEF read_field
  <2> QED BY <2>2, <2>3, ServerUint32 DEF r
<1>3. CASE \E n \in UInt64 : f = Q(n)
  <2>1. PICK n \in UInt64 : f = Q(n)  BY <1>3
  <2>2. f.kind = "uint64" /\ f.val = <<n>> /\ FieldBytes(f) = fixed[8][n]  BY <2>1, FieldKinds
  <2>3. read_field(r, "uint64") = process_incoming_uint64(r)  BY DEF read_field
  <2> QED BY <2>2, <2>3, ServerUint64 DEF r
<1>4. CASE \E s \in Strings : f = S(s)
  <2>1. PICK s \in Strings : f = S(s)  BY <1>4
  <2>2. f.kind = "string" /\ f.val = s /\ FieldBytes(f) = varint[Len(s)] \o s
    BY <2>1, FieldKinds
  <2>3. read_field(r, "string") = process_incoming_string(r)  BY DEF read_field
  <2> QED BY <2>2, <2>3, ServerString DEF r
<1>5. CASE \E s \in Seq(Byte) : f = D(s)  BY <1>5, FieldKinds
<1> QED BY <1>1, <1>2, <1>3, <1>4, <1>5, FieldCases

-----------------------------------------------------------------------------
(***************************************************************************)
(* Messages.  The fields fs stand in d one behind the other: field i from  *)
(* off[i - 1] to off[i].                                                   *)
(***************************************************************************)
Layout(d, off, fs) ==
    /\ off \in [0 .. Len(fs) -> Nat]
    /\ \A i \in 1 .. Len(fs) :
          /\ off[i] = off[i - 1] + Len(FieldBytes(fs[i]))
          /\ Placed(d, off[i - 1], FieldBytes(fs[i]))

(* o and the values of n fields of fs, from field a + 1 on. *)
Outs(o, fs, a, n) == o \o [k \in 1 .. n |-> fs[a + k].val]

LEMMA OutsFacts ==
    ASSUME NEW o \in Seq(Value), NEW fs \in Seq(Fields), NEW a \in Nat, NEW n \in Nat,
           a + n <= Len(fs)
    PROVE  /\ Outs(o, fs, a, n) \in Seq(Value)
           /\ Outs(o, fs, a, 0) = o
           /\ n > 0 => Outs(o, fs, a, n) = Append(Outs(o, fs, a, n - 1), fs[a + n].val)
<1> DEFINE v(m) == [k \in 1 .. m |-> fs[a + k].val]
<1>1. \A k \in 1 .. n : fs[a + k] \in Fields  OBVIOUS
<1>2. \A k \in 1 .. n : fs[a + k].val \in Value  BY <1>1, FieldFacts
<1>3. ASSUME NEW m \in 0 .. n
      PROVE  /\ v(m) \in Seq(Value) /\ Len(v(m)) = m
             /\ \A k \in 1 .. m : v(m)[k] = fs[a + k].val
  <2>1. m \in Nat /\ \A k \in 1 .. m : k \in 1 .. n  OBVIOUS
  <2> DEFINE u == v(m)
  <2>2. u \in [1 .. m -> Value] /\ \A k \in 1 .. m : u[k] = fs[a + k].val  BY <1>2, <2>1
  <2> HIDE DEF u
  <2>3. u \in Seq(Value) /\ Len(u) = m  BY <2>1, <2>2
  <2> QED BY <2>2, <2>3 DEF u
<1>4. Outs(o, fs, a, n) \in Seq(Value)
  <2> DEFINE u == v(n)
  <2>1. n \in 0 .. n  OBVIOUS
  <2>2. u \in Seq(Value) /\ Outs(o, fs, a, n) = o \o u  BY <1>3, <2>1 DEF Outs
  <2> HIDE DEF u
  <2> QED BY <2>2
<1>5. Outs(o, fs, a, 0) = o
  <2>1. v(0) = <<>>  OBVIOUS
  <2> QED BY <2>1 DEF Outs
<1>6. ASSUME n > 0 PROVE Outs(o, fs, a, n) = Append(Outs(o, fs, a, n - 1), fs[a + n].val)
  <2> DEFINE x == fs[a + n].val
             s == v(n - 1)
             t == v(n)
  <2>1. n - 1 \in 0 .. n /\ n \in 0 .. n /\ (n - 1) + 1 = n  BY <1>6
  <2>2. /\ s \in Seq(Value) /\ Len(s) = n - 1 /\ t \in Seq(Value) /\ Len(t) = n /\ x \in Value
        /\ \A k \in 1 .. n - 1 : s[k] = t[k]
        /\ t[n] = x
    BY <1>2, <1>3, <1>6, <2>1
  <2>3. Outs(o, fs, a, n) = o \o t /\ Outs(o, fs, a, n - 1) = o \o s  BY DEF Outs
  <2> HIDE DEF s, t, x
  <2>4. t = Append(s, x)
    <3>1. /\ Append(s, x) \in Seq(Value) /\ Len(Append(s, x)) = n
          /\ \A k \in 1 .. n - 1 : Append(s, x)[k] = s[k]
          /\ Append(s, x)[n] = x
      BY <2>1, <2>2
    <3>2. \A k \in 1 .. n : k \in 1 .. n - 1 \/ k = n  BY <2>1
    <3> QED BY <2>2, <3>1, <3>2
  <2>5. o \o Append(s, x) = Append(o \o s, x)  BY <2>2
  <2> QED BY <2>3, <2>4, <2>5 DEF x
<1> QED BY <1>4, <1>5, <1>6

AddsLast(o, fs, a, n) == Outs(o, fs, a, n) = Append(Outs(o, fs, a, n - 1), fs[a + n].val)
LEMMA OutsLast ==
    ASSUME NEW o \in Seq(Value), NEW fs \in Seq(Fields), NEW a \in Nat, NEW n \in Nat,
           a + n <= Len(fs), n > 0
    PROVE  AddsLast(o, fs, a, n)
BY OutsFacts DEF AddsLast

LEMMA LayoutAt ==
    ASSUME NEW d \in Seq(Byte), NEW fs \in Seq(Fields), NEW off, Layout(d, off, fs),
           NEW i \in 1 .. Len(fs)
    PROVE  /\ off[i - 1] \in Nat /\ off[i] \in Nat /\ fs[i] \in Fields
           /\ off[i] = off[i - 1] + Len(FieldBytes(fs[i]))
           /\ Placed(d, off[i - 1], FieldBytes(fs[i]))
<1>1. i - 1 \in 0 .. Len(fs) /\ i \in 0 .. Len(fs) /\ fs[i] \in Fields  OBVIOUS
<1> QED BY <1>1 DEF Layout

(* Two functions that start equal and go on alike are equal. *)
LEMMA SameSteps ==
    ASSUME NEW n \in Nat, NEW f, NEW G, f[0] = G[0],
           \A i \in 1 .. n : f[i - 1] = G[i - 1] => f[i] = G[i]
    PROVE  f[n] = G[n]
<1> DEFINE T == { i \in Nat : i <= n => f[i] = G[i] }
<1>1. 0 \in T  OBVIOUS
<1>2. ASSUME NEW i \in Nat, i \in T PROVE i + 1 \in T
  <2> SUFFICES ASSUME i + 1 <= n PROVE f[i + 1] = G[i + 1]  OBVIOUS
  <2>1. i + 1 \in 1 .. n /\ (i + 1) - 1 = i /\ i <= n  OBVIOUS
  <2>2. f[i] = G[i]  BY <1>2, <2>1
  <2> QED BY <2>1, <2>2
<1>3. T = Nat  BY <1>1, <1>2, Induction
<1> QED BY <1>3

KindsAre(kinds, fs, a, n) ==
    Len(kinds) = n /\ \A i \in 1 .. n : kinds[i] = fs[a + i].kind /\ kinds[i] # "data"

LEMMA ServerFields ==
    ASSUME NEW d \in Seq(Byte), NEW fs \in Seq(Fields), NEW off, Layout(d, off, fs),
           NEW a \in Nat, NEW kinds, NEW n \in Nat, a + n <= Len(fs),
           KindsAre(kinds, fs, a, n), NEW o \in Seq(Value)
    PROVE  read_fields(kinds, Rd(d, off[a], o)) = Rd(d, off[a + n], Outs(o, fs, a, n))
<1> DEFINE x == Rd(d, off[a], o)
           St(y, i) == CHOOSE z \in { read_field(w, kinds[i]) : w \in {y} } : TRUE
           Body(g) == [i \in 0 .. n |-> IF i = 0 THEN x ELSE St(g[i - 1], i)]
           R(i) == Rd(d, off[a + i], Outs(o, fs, a, i))
           G == [i \in 0 .. n |-> R(i)]
           f == CHOOSE g : g = Body(g)
<1>1. ASSUME NEW i \in 1 .. n PROVE St(R(i - 1), i) = R(i)
  <2>1. St(R(i - 1), i) = read_field(R(i - 1), kinds[i])  BY Zenon
  <2> DEFINE c == fs[a + i]
             q == off[a + (i - 1)]
             u == Outs(o, fs, a, i - 1)
  <2>2. /\ a + i \in 1 .. Len(fs) /\ (a + i) - 1 = a + (i - 1) /\ i - 1 \in Nat /\ i \in Nat
        /\ i > 0 /\ a + i <= Len(fs) /\ a + (i - 1) <= Len(fs)
    OBVIOUS
  <2>3. /\ q \in Nat /\ c \in Fields /\ off[a + i] = q + Len(FieldBytes(c))
        /\ Placed(d, q, FieldBytes(c))
    BY <2>2, LayoutAt
  <2>4. u \in Seq(Value) /\ Outs(o, fs, a, i) = Append(u, c.val)  BY <2>2, OutsFacts
  <2>5. kinds[i] = c.kind /\ c.kind # "data"  BY DEF KindsAre
  <2> HIDE DEF c, q, u
  <2>6. read_field(Rd(d, q, u), c.kind) = Rd(d, q + Len(FieldBytes(c)), Append(u, c.val))
    BY <2>3, <2>4, <2>5, ServerField
  <2>7. R(i - 1) = Rd(d, q, u)  BY DEF q, u
  <2>8. R(i) = Rd(d, q + Len(FieldBytes(c)), Append(u, c.val))  BY <2>3, <2>4
  <2> HIDE DEF St, R
  <2> QED BY <2>1, <2>5, <2>6, <2>7, <2>8
<1>2. R(0) = x
  <2>1. a + 0 = a /\ 0 \in Nat  OBVIOUS
  <2>2. Outs(o, fs, a, 0) = o  BY OutsFacts
  <2> QED BY <2>1, <2>2
<1>b. Len(kinds) = n  BY DEF KindsAre
<1>3. read_fields(kinds, x) = f[n]  BY <1>b, Zenon DEF read_fields, InTurn, Iterate
<1> HIDE DEF R, St, x
<1>4. G[0] = x /\ G[n] = R(n) /\ \A i \in 1 .. n : G[i - 1] = R(i - 1) /\ G[i] = R(i)
  BY <1>2
<1>5. G = Body(G)
  <2>1. \A i \in 0 .. n : i # 0 => i \in 1 .. n  OBVIOUS
  <2>2. \A i \in 0 .. n : R(i) = IF i = 0 THEN x ELSE St(G[i - 1], i)
    BY <1>1, <1>2, <1>4, <2>1
  <2> HIDE DEF G
  <2>3. G = [i \in 0 .. n |-> R(i)]  BY DEF G
  <2> QED BY <2>2, <2>3, Zenon
<1> HIDE DEF G
<1>6. f = Body(f)  BY <1>5, Zenon
<1>7. \A i \in 0 .. n : f[i] = IF i = 0 THEN x ELSE St(f[i - 1], i)
  <2> HIDE DEF f
  <2> QED BY <1>6, Zenon
<1> HIDE DEF f
<1>a. 0 \in 0 .. n  OBVIOUS
<1>8. f[0] = G[0]  BY <1>4, <1>7, <1>a
<1>9. ASSUME NEW i \in 1 .. n, f[i - 1] = G[i - 1] PROVE f[i] = G[i]
  <2>1. i \in 0 .. n /\ i # 0  OBVIOUS
  <2> QED BY <1>1, <1>4, <1>7, <1>9, <2>1
<1>10. f[n] = G[n]  BY <1>8, <1>9, SameSteps
<1> QED BY <1>3, <1>4, <1>10 DEF R, x

LEMMA OutsJoin ==
    ASSUME NEW o \in Seq(Value), NEW fs \in Seq(Fields), NEW a \in Nat, NEW m \in Nat,
           NEW n \in Nat, a + m + n <= Len(fs)
    PROVE  Outs(Outs(o, fs, a, m), fs, a + m, n) = Outs(o, fs, a, m + n)
<1> DEFINE T == { k \in Nat : k <= n =>
                    Outs(Outs(o, fs, a, m), fs, a + m, k) = Outs(o, fs, a, m + k) }
           p == Outs(o, fs, a, m)
<1>1. a + m <= Len(fs) /\ a + m \in Nat  OBVIOUS
<1>2. p \in Seq(Value)  BY <1>1, OutsFacts
<1> HIDE DEF p
<1>3. 0 \in T
  <2>1. Outs(p, fs, a + m, 0) = p  BY <1>1, <1>2, OutsFacts
  <2>2. m + 0 = m  OBVIOUS
  <2> QED BY <2>1, <2>2 DEF p
<1>4. ASSUME NEW k \in Nat, k \in T PROVE k + 1 \in T
  <2> SUFFICES ASSUME k + 1 <= n
               PROVE  Outs(p, fs, a + m, k + 1) = Outs(o, fs, a, m + (k + 1))
    BY DEF p
  <2>1. /\ k + 1 \in Nat /\ k + 1 > 0 /\ (k + 1) - 1 = k /\ k <= n /\ (a + m) + (k + 1) <= Len(fs)
        /\ m + (k + 1) \in Nat /\ m + (k + 1) > 0 /\ (m + (k + 1)) - 1 = m + k
        /\ a + (m + (k + 1)) <= Len(fs) /\ (a + m) + (k + 1) = a + (m + (k + 1))
    OBVIOUS
  <2>2. Outs(p, fs, a + m, k + 1) = Append(Outs(p, fs, a + m, k), fs[(a + m) + (k + 1)].val)
    <3>1. Outs(p, fs, a + m, k + 1)
              = Append(Outs(p, fs, a + m, (k + 1) - 1), fs[(a + m) + (k + 1)].val)
      <4> DEFINE b == a + m
                 j == k + 1
      <4>1. b \in Nat /\ j \in Nat /\ b + j <= Len(fs) /\ j > 0  BY <1>1, <2>1
      <4> HIDE DEF b, j
      <4>2. Outs(p, fs, b, j) = Append(Outs(p, fs, b, j - 1), fs[b + j].val)
        BY <1>2, <4>1, OutsFacts
      <4> QED BY <4>2 DEF b, j
    <3> QED BY <2>1, <3>1
  <2>3. Outs(o, fs, a, m + (k + 1)) = Append(Outs(o, fs, a, m + k), fs[a + (m + (k + 1))].val)
    BY <2>1, OutsFacts
  <2>4. Outs(p, fs, a + m, k) = Outs(o, fs, a, m + k)  BY <1>4, <2>1 DEF p
  <2> QED BY <2>1, <2>2, <2>3, <2>4
<1>5. T = Nat  BY <1>3, <1>4, Induction
<1>6. n \in T  BY <1>5
<1> QED BY <1>6

read_varints(n, r) == Times(n, process_incoming_varint, r)
read_pairs(n, r) == Times(n, LAMBDA y : read_fields(<<"varint", "uint32">>, y), r)
AllVarints(fs, a, n) == \A i \in 1 .. n : fs[a + i].kind = "varint"

LEMMA ServerVarints ==
    ASSUME NEW d \in Seq(Byte), NEW fs \in Seq(Fields), NEW off, Layout(d, off, fs),
           NEW a \in Nat, NEW n \in Nat, a + n <= Len(fs), AllVarints(fs, a, n),
           NEW o \in Seq(Value)
    PROVE  read_varints(n, Rd(d, off[a], o)) = Rd(d, off[a + n], Outs(o, fs, a, n))
<1> DEFINE x == Rd(d, off[a], o)
           St(y, i) == CHOOSE z \in { process_incoming_varint(w) : w \in {y} } : TRUE
           Body(g) == [i \in 0 .. n |-> IF i = 0 THEN x ELSE St(g[i - 1], i)]
           R(i) == Rd(d, off[a + i], Outs(o, fs, a, i))
           G == [i \in 0 .. n |-> R(i)]
           f == CHOOSE g : g = Body(g)
<1>1. ASSUME NEW i \in 1 .. n PROVE St(R(i - 1), i) = R(i)
  <2>1. St(R(i - 1), i) = process_incoming_varint(R(i - 1))  BY Zenon
  <2> DEFINE c == fs[a + i]
             q == off[a + (i - 1)]
             u == Outs(o, fs, a, i - 1)
  <2>2. /\ a + i \in 1 .. Len(fs) /\ (a + i) - 1 = a + (i - 1) /\ i - 1 \in Nat /\ i \in Nat
        /\ i > 0 /\ a + i <= Len(fs) /\ a + (i - 1) <= Len(fs)
    OBVIOUS
  <2>3. /\ q \in Nat /\ c \in Fields /\ off[a + i] = q + Len(FieldBytes(c))
        /\ Placed(d, q, FieldBytes(c))
    BY <2>2, LayoutAt
  <2>4. u \in Seq(Value) /\ Outs(o, fs, a, i) = Append(u, c.val)  BY <2>2, OutsFacts
  <2>5. c.kind = "varint" /\ c.kind # "data"  BY DEF AllVarints
  <2> HIDE DEF c, q, u
  <2>6. read_field(Rd(d, q, u), c.kind) = Rd(d, q + Len(FieldBytes(c)), Append(u, c.val))
    BY <2>3, <2>4, <2>5, ServerField
  <2>7. R(i - 1) = Rd(d, q, u)  BY DEF q, u
  <2>8. R(i) = Rd(d, q + Len(FieldBytes(c)), Append(u, c.val))  BY <2>3, <2>4
  <2>9. \A y : read_field(y, "varint") = process_incoming_varint(y)  BY DEF read_field
  <2> HIDE DEF St, R
  <2> QED BY <2>1, <2>5, <2>6, <2>7, <2>8, <2>9
<1>2. R(0) = x
  <2>1. a + 0 = a /\ 0 \in Nat  OBVIOUS
  <2>2. Outs(o, fs, a, 0) = o  BY OutsFacts
  <2> QED BY <2>1, <2>2
<1>3. read_varints(n, x) = f[n]  BY Zenon DEF read_varints, Times, Iterate
<1> HIDE DEF R, St, x
<1>4. G[0] = x /\ G[n] = R(n) /\ \A i \in 1 .. n : G[i - 1] = R(i - 1) /\ G[i] = R(i)
  BY <1>2
<1>5. G = Body(G)
  <2>1. \A i \in 0 .. n : i # 0 => i \in 1 .. n  OBVIOUS
  <2>2. \A i \in 0 .. n : R(i) = IF i = 0 THEN x ELSE St(G[i - 1], i)
    BY <1>1, <1>2, <1>4, <2>1
  <2> HIDE DEF G
  <2>3. G = [i \in 0 .. n |-> R(i)]  BY DEF G
  <2> QED BY <2>2, <2>3, Zenon
<1> HIDE DEF G
<1>6. f = Body(f)  BY <1>5, Zenon
<1>7. \A i \in 0 .. n : f[i] = IF i = 0 THEN x ELSE St(f[i - 1], i)
  <2> HIDE DEF f
  <2> QED BY <1>6, Zenon
<1> HIDE DEF f
<1>a. 0 \in 0 .. n  OBVIOUS
<1>8. f[0] = G[0]  BY <1>4, <1>7, <1>a
<1>9. ASSUME NEW i \in 1 .. n, f[i - 1] = G[i - 1] PROVE f[i] = G[i]
  <2>1. i \in 0 .. n /\ i # 0  OBVIOUS
  <2> QED BY <1>1, <1>4, <1>7, <1>9, <2>1
<1>10. f[n] = G[n]  BY <1>8, <1>9, SameSteps
<1> QED BY <1>3, <1>4, <1>10 DEF R, x

AllPairs(fs, a, n) ==
    \A i \in 1 .. n : fs[a + 2 * i - 1].kind = "varint" /\ fs[a + 2 * i].kind = "uint32"

LEMMA ServerPairs ==
    ASSUME NEW d \in Seq(Byte), NEW fs \in Seq(Fields), NEW off, Layout(d, off, fs),
           NEW a \in Nat, NEW n \in Nat, a + 2 * n <= Len(fs), AllPairs(fs, a, n),
           NEW o \in Seq(Value)
    PROVE  read_pairs(n, Rd(d, off[a], o)) = Rd(d, off[a + 2 * n], Outs(o, fs, a, 2 * n))
<1> DEFINE x == Rd(d, off[a], o)
           K == <<"varint", "uint32">>
           St(y, i) == CHOOSE z \in { read_fields(K, w) : w \in {y} } : TRUE
           Body(g) == [i \in 0 .. n |-> IF i = 0 THEN x ELSE St(g[i - 1], i)]
           R(i) == Rd(d, off[a + 2 * i], Outs(o, fs, a, 2 * i))
           G == [i \in 0 .. n |-> R(i)]
           f == CHOOSE g : g = Body(g)
<1>1. ASSUME NEW i \in 1 .. n PROVE St(R(i - 1), i) = R(i)
  <2>1. St(R(i - 1), i) = read_fields(K, R(i - 1))  BY Zenon
  <2> DEFINE l == 2 * (i - 1)
             b == a + l
             u == Outs(o, fs, a, l)
  <2>2. /\ l \in Nat /\ b \in Nat /\ b + 2 <= Len(fs) /\ b + 2 = a + 2 * i /\ l + 2 = 2 * i
        /\ a + l <= Len(fs) /\ a + l + 2 <= Len(fs) /\ b + 1 = a + 2 * i - 1
    OBVIOUS
  <2>3. u \in Seq(Value)  BY <2>2, OutsFacts
  <2>4. /\ 2 \in Nat /\ Len(K) = 2 /\ K[1] = "varint" /\ K[2] = "uint32"
        /\ \A k \in 1 .. 2 : k = 1 \/ k = 2
    OBVIOUS
  <2> HIDE DEF l, b, u, K
  <2>5. KindsAre(K, fs, b, 2)
    <3>1. fs[b + 1].kind = "varint" /\ fs[b + 2].kind = "uint32"  BY <2>2 DEF AllPairs
    <3>2. K[1] = fs[b + 1].kind /\ K[1] # "data" /\ K[2] = fs[b + 2].kind /\ K[2] # "data"
      BY <2>4, <3>1
    <3> QED BY <2>4, <3>2 DEF KindsAre
  <2>6. read_fields(K, Rd(d, off[b], u)) = Rd(d, off[b + 2], Outs(u, fs, b, 2))
    BY <2>2, <2>3, <2>4, <2>5, ServerFields
  <2>7. Outs(u, fs, b, 2) = Outs(o, fs, a, l + 2)
    <3>1. Outs(Outs(o, fs, a, l), fs, a + l, 2) = Outs(o, fs, a, l + 2)
      BY <2>2, <2>4, OutsJoin
    <3> QED BY <3>1 DEF u, b
  <2>8. R(i - 1) = Rd(d, off[b], u)  BY DEF l, b, u
  <2>9. R(i) = Rd(d, off[b + 2], Outs(o, fs, a, l + 2))  BY <2>2
  <2> HIDE DEF St, R
  <2> QED BY <2>1, <2>6, <2>7, <2>8, <2>9
<1>2. R(0) = x
  <2>1. a + 2 * 0 = a /\ 2 * 0 = 0 /\ a + 0 <= Len(fs) /\ 0 \in Nat  OBVIOUS
  <2>2. Outs(o, fs, a, 0) = o  BY <2>1, OutsFacts
  <2> QED BY <2>1, <2>2
<1>3. read_pairs(n, x) = f[n]  BY Zenon DEF read_pairs, Times, Iterate
<1> HIDE DEF R, St, x
<1>4. G[0] = x /\ G[n] = R(n) /\ \A i \in 1 .. n : G[i - 1] = R(i - 1) /\ G[i] = R(i)
  BY <1>2
<1>5. G = Body(G)
  <2>1. \A i \in 0 .. n : i # 0 => i \in 1 .. n  OBVIOUS
  <2>2. \A i \in 0 .. n : R(i) = IF i = 0 THEN x ELSE St(G[i - 1], i)
    BY <1>1, <1>2, <1>4, <2>1
  <2> HIDE DEF G
  <2>3. G = [i \in 0 .. n |-> R(i)]  BY DEF G
  <2> QED BY <2>2, <2>3, Zenon
<1> HIDE DEF G
<1>6. f = Body(f)  BY <1>5, Zenon
<1>7. \A i \in 0 .. n : f[i] = IF i = 0 THEN x ELSE St(f[i - 1], i)
  <2> HIDE DEF f
  <2> QED BY <1>6, Zenon
<1> HIDE DEF f
<1>a. 0 \in 0 .. n  OBVIOUS
<1>8. f[0] = G[0]  BY <1>4, <1>7, <1>a
<1>9. ASSUME NEW i \in 1 .. n, f[i - 1] = G[i - 1] PROVE f[i] = G[i]
  <2>1. i \in 0 .. n /\ i # 0  OBVIOUS
  <2> QED BY <1>1, <1>4, <1>7, <1>9, <2>1
<1>10. f[n] = G[n]  BY <1>8, <1>9, SameSteps
<1> QED BY <1>3, <1>4, <1>10 DEF R, x

-----------------------------------------------------------------------------
(***************************************************************************)
(* The requests of the client, for every argument a caller may pass.       *)
(***************************************************************************)
Registers31 == { s \in Seq(Int31) : Len(s) \in Int31 }
Writes == { s \in Seq([id : Int31, value : UInt32]) : Len(s) \in Int31 }

IsRequest(fs) ==
    \/ \E v \in Int31, s \in Strings : fs = encode_init_command(v, s)
    \/ fs = encode_term_command \/ fs = encode_get_devices_command
    \/ \E dev \in Int31 : \/ fs = encode_device_open_command(dev)
                          \/ fs = encode_device_close_command(dev)
                          \/ fs = encode_get_device_capabilities_command(dev)
                          \/ fs = encode_reg_list_command(dev)
    \/ \E dev \in Int31, ids \in Registers31 : fs = encode_reg_read_command(dev, ids)
    \/ \E dev \in Int31, regs \in Writes : fs = reg_write(dev, regs)
    \/ \E dev \in Int31, addr \in UInt64, size \in Int31, access \in Int31, flags \in Int31 :
            fs = encode_mem_read_command(dev, addr, size, access, flags)
    \/ \E dev \in Int31, addr \in UInt64, access \in Int31, flags \in Int31, data \in Strings :
            fs = encode_mem_write_command(dev, addr, Len(data), access, flags, data)

(* The server finds the arguments of the command fs where they stand in d. *)
FindsArguments(t, d, off, fs) ==
    Arguments(t, Rd(d, off[1], <<>>)) = Rd(d, off[Len(fs)], Outs(<<>>, fs, 1, Len(fs) - 1))
ReadsBack(fs) ==
    /\ fs \in Seq(Fields) /\ Len(fs) >= 1
    /\ \E t \in Int31 : /\ fs[1] = V(t)
                        /\ \A d \in Seq(Byte) : \A off :
                              Layout(d, off, fs) => FindsArguments(t, d, off, fs)

TakesFields(t, kinds) == \A r : Arguments(t, r) = read_fields(kinds, r)

LEMMA SmallNumbers ==
    /\ CSWP_INIT \in Int31 /\ CSWP_TERM \in Int31 /\ CSWP_GET_DEVICES \in Int31
    /\ CSWP_DEVICE_OPEN \in Int31 /\ CSWP_DEVICE_CLOSE \in Int31
    /\ CSWP_GET_DEVICE_CAPABILITIES \in Int31 /\ CSWP_REG_LIST \in Int31
    /\ CSWP_REG_READ \in Int31 /\ CSWP_REG_WRITE \in Int31
    /\ CSWP_MEM_READ \in Int31 /\ CSWP_MEM_WRITE \in Int31
BY SMT DEF Int31, CSWP_INIT, CSWP_TERM, CSWP_GET_DEVICES, CSWP_DEVICE_OPEN, CSWP_DEVICE_CLOSE,
    CSWP_GET_DEVICE_CAPABILITIES, CSWP_REG_LIST, CSWP_REG_READ, CSWP_REG_WRITE,
    CSWP_MEM_READ, CSWP_MEM_WRITE

(* Which arguments each command has for the server. *)
LEMMA ServerArguments ==
    /\ TakesFields(CSWP_INIT, <<"varint", "string">>)
    /\ \A r : Arguments(CSWP_TERM, r) = r
    /\ \A r : Arguments(CSWP_GET_DEVICES, r) = r
    /\ TakesFields(CSWP_DEVICE_OPEN, <<"varint">>)
    /\ TakesFields(CSWP_DEVICE_CLOSE, <<"varint">>)
    /\ TakesFields(CSWP_GET_DEVICE_CAPABILITIES, <<"varint">>)
    /\ TakesFields(CSWP_REG_LIST, <<"varint">>)
    /\ TakesFields(CSWP_MEM_READ, <<"varint", "uint64", "varint", "varint", "varint">>)
<1> USE DEF CSWP_INIT, CSWP_TERM, CSWP_GET_DEVICES, CSWP_DEVICE_OPEN, CSWP_DEVICE_CLOSE,
    CSWP_GET_DEVICE_CAPABILITIES, CSWP_REG_LIST, CSWP_REG_READ, CSWP_REG_WRITE,
    CSWP_MEM_READ, CSWP_MEM_WRITE
<1>1. TakesFields(CSWP_INIT, <<"varint", "string">>)  BY SMT DEF Arguments, TakesFields
<1>2. \A r : Arguments(CSWP_TERM, r) = r  BY SMT DEF Arguments
<1>3. \A r : Arguments(CSWP_GET_DEVICES, r) = r  BY SMT DEF Arguments
<1>4. TakesFields(CSWP_DEVICE_OPEN, <<"varint">>)  BY SMT DEF Arguments, TakesFields
<1>5. TakesFields(CSWP_DEVICE_CLOSE, <<"varint">>)  BY SMT DEF Arguments, TakesFields
<1>6. TakesFields(CSWP_GET_DEVICE_CAPABILITIES, <<"varint">>)
  BY SMT DEF Arguments, TakesFields
<1>7. TakesFields(CSWP_REG_LIST, <<"varint">>)  BY SMT DEF Arguments, TakesFields
<1>8. TakesFields(CSWP_MEM_READ, <<"varint", "uint64", "varint", "varint", "varint">>)
  BY SMT DEF Arguments, TakesFields
<1> QED BY <1>1, <1>2, <1>3, <1>4, <1>5, <1>6, <1>7, <1>8

LEMMA FieldIn ==
    /\ \A n \in Int31 : V(n) \in Fields
    /\ \A n \in UInt32 : W(n) \in Fields
    /\ \A n \in UInt64 : Q(n) \in Fields
    /\ \A s \in Strings : S(s) \in Fields
    /\ \A s \in Seq(Byte) : D(s) \in Fields
BY Zenon DEF Fields

LEMMA CommandShape ==
    ASSUME NEW t \in Int31, NEW rest \in Seq(Fields)
    PROVE  /\ encode_command_header(t) \o rest \in Seq(Fields)
           /\ Len(encode_command_header(t) \o rest) = Len(rest) + 1
           /\ (encode_command_header(t) \o rest)[1] = V(t)
           /\ \A i \in 1 .. Len(rest) : (encode_command_header(t) \o rest)[1 + i] = rest[i]
<1> DEFINE x == V(t)
<1>1. x \in Fields  BY FieldIn
<1> HIDE DEF x
<1>2. /\ <<x>> \o rest \in Seq(Fields) /\ Len(<<x>> \o rest) = Len(rest) + 1
      /\ (<<x>> \o rest)[1] = x
      /\ \A i \in 1 .. Len(rest) : (<<x>> \o rest)[1 + i] = rest[i]
  BY <1>1
<1> QED BY <1>2 DEF encode_command_header, x

(* The fields behind the command type. *)
LEMMA FirstFields ==
    ASSUME NEW d \in Seq(Byte), NEW fs \in Seq(Fields), NEW off, Layout(d, off, fs),
           NEW kinds, NEW n \in Nat, 1 + n <= Len(fs), KindsAre(kinds, fs, 1, n)
    PROVE  /\ read_fields(kinds, Rd(d, off[1], <<>>)) = Rd(d, off[1 + n], Outs(<<>>, fs, 1, n))
           /\ Outs(<<>>, fs, 1, n) \in Seq(Value)
<1> DEFINE one == 1
           none == <<>>
<1>1. /\ one \in Nat /\ one + n <= Len(fs) /\ KindsAre(kinds, fs, one, n) /\ none \in Seq(Value)
  OBVIOUS
<1> HIDE DEF one, none
<1>2. read_fields(kinds, Rd(d, off[one], none)) = Rd(d, off[one + n], Outs(none, fs, one, n))
  BY <1>1, ServerFields
<1>3. Outs(none, fs, one, n) \in Seq(Value)  BY <1>1, OutsFacts
<1> QED BY <1>2, <1>3 DEF one, none

(* A command whose arguments are read by one call of read_fields. *)
LEMMA SimpleCommand ==
    ASSUME NEW t \in Int31, NEW rest \in Seq(Fields), NEW kinds, TakesFields(t, kinds),
           Len(kinds) = Len(rest),
           \A i \in 1 .. Len(rest) : kinds[i] = rest[i].kind /\ kinds[i] # "data"
    PROVE  ReadsBack(encode_command_header(t) \o rest)
<1> DEFINE fs == encode_command_header(t) \o rest
           n == Len(rest)
<1>1. fs \in Seq(Fields) /\ Len(fs) = n + 1 /\ fs[1] = V(t) /\ \A i \in 1 .. n : fs[1 + i] = rest[i]
  BY CommandShape
<1>2. n \in Nat /\ 1 \in Nat /\ 1 + n <= Len(fs) /\ 1 + n = Len(fs) /\ Len(fs) - 1 = n
      /\ Len(fs) >= 1
  BY <1>1
<1> HIDE DEF fs
<1>3. KindsAre(kinds, fs, 1, n)  BY <1>1 DEF KindsAre
<1>4. <<>> \in Seq(Value)  OBVIOUS
<1> HIDE DEF n
<1>5. ASSUME NEW d \in Seq(Byte), NEW off, Layout(d, off, fs) PROVE FindsArguments(t, d, off, fs)
  <2>1. read_fields(kinds, Rd(d, off[1], <<>>)) = Rd(d, off[1 + n], Outs(<<>>, fs, 1, n))
    BY <1>1, <1>2, <1>3, <1>5, FirstFields
  <2>2. Arguments(t, Rd(d, off[1], <<>>)) = read_fields(kinds, Rd(d, off[1], <<>>))
    BY DEF TakesFields
  <2> QED BY <1>2, <2>1, <2>2 DEF FindsArguments
<1>6. ReadsBack(fs)  BY <1>1, <1>2, <1>5 DEF ReadsBack
<1> QED BY <1>6 DEF fs

LEMMA BareCommand ==
    ASSUME NEW t \in Int31, \A r : Arguments(t, r) = r
    PROVE  ReadsBack(encode_command_header(t))
<1> DEFINE fs == encode_command_header(t)
           x == V(t)
<1>1. x \in Fields  BY FieldIn
<1>2. fs = <<x>>  BY DEF encode_command_header
<1> HIDE DEF fs, x
<1>3. fs \in Seq(Fields) /\ Len(fs) = 1 /\ fs[1] = x  BY <1>1, <1>2
<1>4. Outs(<<>>, fs, 1, 0) = <<>>
  <2>1. <<>> \in Seq(Value) /\ 1 \in Nat /\ 0 \in Nat /\ 1 + 0 <= Len(fs)  BY <1>3
  <2> QED BY <1>3, <2>1, OutsFacts
<1>5. \A d \in Seq(Byte) : \A off : Layout(d, off, fs) => FindsArguments(t, d, off, fs)
  BY <1>3, <1>4 DEF FindsArguments
<1>6. 1 >= 1 /\ Len(fs) >= 1  BY <1>3
<1> QED BY <1>3, <1>5, <1>6 DEF ReadsBack, fs, x

LEMMA InitBack ==
    ASSUME NEW v \in Int31, NEW s \in Strings
    PROVE  ReadsBack(encode_init_command(v, s))
<1> DEFINE a == V(v)
           b == S(s)
           kinds == <<"varint", "string">>
<1>1. a \in Fields /\ b \in Fields  BY FieldIn
<1>2. a.kind = "varint" /\ b.kind = "string"  BY FieldKinds
<1> HIDE DEF a, b
<1>3. <<a, b>> \in Seq(Fields) /\ Len(kinds) = Len(<<a, b>>)  BY <1>1
<1>4. \A i \in 1 .. Len(<<a, b>>) : kinds[i] = <<a, b>>[i].kind /\ kinds[i] # "data"
  <2>1. \A i \in 1 .. Len(<<a, b>>) : i = 1 \/ i = 2  OBVIOUS
  <2> QED BY <1>2, <2>1
<1>5. TakesFields(CSWP_INIT, kinds) /\ CSWP_INIT \in Int31  BY ServerArguments, SmallNumbers
<1> HIDE DEF kinds
<1>6. ReadsBack(encode_command_header(CSWP_INIT) \o <<a, b>>)
  BY <1>3, <1>4, <1>5, SimpleCommand
<1> QED BY <1>6 DEF encode_init_command, a, b

LEMMA DeviceBack ==
    ASSUME NEW dev \in Int31, NEW t \in Int31, TakesFields(t, <<"varint">>)
    PROVE  ReadsBack(encode_command_header(t) \o <<V(dev)>>)
<1> DEFINE a == V(dev)
           kinds == <<"varint">>
<1>1. a \in Fields  BY FieldIn
<1>2. a.kind = "varint"  BY FieldKinds
<1> HIDE DEF a
<1>3. <<a>> \in Seq(Fields) /\ Len(kinds) = Len(<<a>>)  BY <1>1
<1>4. \A i \in 1 .. Len(<<a>>) : kinds[i] = <<a>>[i].kind /\ kinds[i] # "data"
  <2>1. \A i \in 1 .. Len(<<a>>) : i = 1  OBVIOUS
  <2> QED BY <1>2, <2>1
<1>5. TakesFields(t, kinds)  OBVIOUS
<1> HIDE DEF kinds
<1>6. ReadsBack(encode_command_header(t) \o <<a>>)  BY <1>3, <1>4, <1>5, SimpleCommand
<1> QED BY <1>6 DEF a

LEMMA MemReadBack ==
    ASSUME NEW dev \in Int31, NEW addr \in UInt64, NEW size \in Int31, NEW access \in Int31,
           NEW flags \in Int31
    PROVE  ReadsBack(encode_mem_read_command(dev, addr, size, access, flags))
<1> DEFINE a == V(dev)
           b == Q(addr)
           c == V(size)
           d == V(access)
           e == V(flags)
           rest == <<a, b, c, d, e>>
           kinds == <<"varint", "uint64", "varint", "varint", "varint">>
<1>1. a \in Fields /\ b \in Fields /\ c \in Fields /\ d \in Fields /\ e \in Fields  BY FieldIn
<1>2. /\ a.kind = "varint" /\ b.kind = "uint64" /\ c.kind = "varint" /\ d.kind = "varint"
      /\ e.kind = "varint"
  BY FieldKinds
<1> HIDE DEF a, b, c, d, e
<1>3. rest \in Seq(Fields) /\ Len(kinds) = Len(rest)  BY <1>1
<1>4. \A i \in 1 .. Len(rest) : kinds[i] = rest[i].kind /\ kinds[i] # "data"
  <2>1. \A i \in 1 .. Len(rest) : i = 1 \/ i = 2 \/ i = 3 \/ i = 4 \/ i = 5  OBVIOUS
  <2> QED BY <1>2, <2>1
<1>5. TakesFields(CSWP_MEM_READ, kinds) /\ CSWP_MEM_READ \in Int31
  BY ServerArguments, SmallNumbers
<1>6. encode_mem_read_command(dev, addr, size, access, flags)
          = encode_command_header(CSWP_MEM_READ) \o rest
  BY DEF encode_mem_read_command, a, b, c, d, e
<1> HIDE DEF kinds, rest
<1>7. ReadsBack(encode_command_header(CSWP_MEM_READ) \o rest)
  BY <1>3, <1>4, <1>5, SimpleCommand
<1> QED BY <1>6, <1>7

(* The value of the last of n fields. *)
LEMMA LastOut ==
    ASSUME NEW fs \in Seq(Fields), NEW n \in Nat, n >= 1, 1 + n <= Len(fs), NEW m \in Nat,
           fs[1 + n].val = <<m>>, NEW d, NEW q
    PROVE  LastValue(Rd(d, q, Outs(<<>>, fs, 1, n))) = m
<1> DEFINE one == 1
           none == <<>>
           k == n - 1
<1>1. /\ one \in Nat /\ one + n <= Len(fs) /\ none \in Seq(Value) /\ n > 0 /\ n - 1 = k
      /\ k \in Nat /\ one + k <= Len(fs) /\ fs[one + n].val = <<m>>
  OBVIOUS
<1> HIDE DEF one, none, k
<1>2. Outs(none, fs, one, n) = Append(Outs(none, fs, one, n - 1), fs[one + n].val)
  <2>1. AddsLast(none, fs, one, n)  BY <1>1, OutsLast
  <2> QED BY <2>1 DEF AddsLast
<1>3. Outs(none, fs, one, k) \in Seq(Value)  BY <1>1, OutsFacts
<1>4. LastValue(Rd(d, q, Append(Outs(none, fs, one, k), <<m>>))) = m  BY <1>3, LastAndFront
<1> QED BY <1>1, <1>2, <1>4 DEF one, none

(* Three fields, and the ones the third one counts. *)
Counted(fs, t, n, rest) ==
    /\ fs \in Seq(Fields) /\ Len(fs) = 3 + Len(rest) /\ fs[1] = V(t)
    /\ KindsAre(<<"varint", "varint">>, fs, 1, 2) /\ fs[3].val = <<n>>
    /\ \A i \in 1 .. Len(rest) : fs[3 + i] = rest[i]

LEMMA CountedShape ==
    ASSUME NEW t \in Int31, NEW dev \in Int31, NEW n \in Int31, NEW rest \in Seq(Fields)
    PROVE  Counted(encode_command_header(t) \o <<V(dev), V(n)>> \o rest, t, n, rest)
<1> DEFINE a == V(t)
           b == V(dev)
           c == V(n)
           fs == <<a>> \o <<b, c>> \o rest
<1>1. a \in Fields /\ b \in Fields /\ c \in Fields  BY FieldIn
<1>2. b.kind = "varint" /\ c.kind = "varint" /\ c.val = <<n>>  BY FieldKinds
<1>3. encode_command_header(t) \o <<V(dev), V(n)>> \o rest = fs  BY DEF encode_command_header
<1> HIDE DEF a, b, c
<1>4. /\ fs \in Seq(Fields) /\ Len(fs) = 3 + Len(rest) /\ fs[1] = a /\ fs[2] = b /\ fs[3] = c
      /\ \A i \in 1 .. Len(rest) : fs[3 + i] = rest[i]
  <2> DEFINE h == <<a>> \o <<b, c>>
  <2>1. h \in Seq(Fields) /\ Len(h) = 3 /\ h[1] = a /\ h[2] = b /\ h[3] = c  BY <1>1
  <2> HIDE DEF h
  <2>a. h \in Seq(Fields)  BY <2>1
  <2>2. /\ h \o rest \in Seq(Fields) /\ Len(h \o rest) = Len(h) + Len(rest)
        /\ \A i \in 1 .. Len(h) : (h \o rest)[i] = h[i]
        /\ \A i \in 1 .. Len(rest) : (h \o rest)[Len(h) + i] = rest[i]
    BY <2>a
  <2>3. 1 \in 1 .. 3 /\ 2 \in 1 .. 3 /\ 3 \in 1 .. 3  OBVIOUS
  <2>4. /\ h \o rest \in Seq(Fields) /\ Len(h \o rest) = 3 + Len(rest)
        /\ (h \o rest)[1] = a /\ (h \o rest)[2] = b /\ (h \o rest)[3] = c
        /\ \A i \in 1 .. Len(rest) : (h \o rest)[3 + i] = rest[i]
    BY <2>1, <2>2, <2>3, Zenon
  <2> QED BY <2>4 DEF h
<1> HIDE DEF fs
<1>5. KindsAre(<<"varint", "varint">>, fs, 1, 2)
  <2>1. \A i \in 1 .. 2 : i = 1 \/ i = 2  OBVIOUS
  <2>2. 1 + 1 = 2 /\ 1 + 2 = 3  OBVIOUS
  <2> QED BY <1>2, <1>4, <2>1, <2>2 DEF KindsAre
<1> QED BY <1>2, <1>3, <1>4, <1>5 DEF a, Counted

(* The server reads the count, and is behind it. *)
LEMMA CountedHead ==
    ASSUME NEW d \in Seq(Byte), NEW fs \in Seq(Fields), NEW off, Layout(d, off, fs),
           NEW n \in Nat, 3 <= Len(fs), KindsAre(<<"varint", "varint">>, fs, 1, 2),
           fs[3].val = <<n>>
    PROVE  LET head == read_fields(<<"varint", "varint">>, Rd(d, off[1], <<>>))
           IN  /\ head = Rd(d, off[3], Outs(<<>>, fs, 1, 2)) /\ LastValue(head) = n
               /\ Outs(<<>>, fs, 1, 2) \in Seq(Value)
<1> DEFINE k == <<"varint", "varint">>
<1>1. 1 + 2 = 3 /\ 2 \in Nat /\ 2 >= 1 /\ 1 + 2 <= Len(fs) /\ fs[1 + 2].val = <<n>>  OBVIOUS
<1> HIDE DEF k
<1>2. /\ read_fields(k, Rd(d, off[1], <<>>)) = Rd(d, off[1 + 2], Outs(<<>>, fs, 1, 2))
      /\ Outs(<<>>, fs, 1, 2) \in Seq(Value)
  BY <1>1, FirstFields DEF k
<1>3. LastValue(Rd(d, off[3], Outs(<<>>, fs, 1, 2))) = n  BY <1>1, LastOut
<1> QED BY <1>1, <1>2, <1>3 DEF k

LEMMA JoinFirst ==
    ASSUME NEW fs \in Seq(Fields), NEW n \in Nat, 3 + n <= Len(fs)
    PROVE  Outs(Outs(<<>>, fs, 1, 2), fs, 3, n) = Outs(<<>>, fs, 1, 2 + n)
<1> DEFINE none == <<>>
<1>1. none \in Seq(Value) /\ 1 + 2 = 3 /\ 1 + 2 + n <= Len(fs) /\ 1 \in Nat /\ 2 \in Nat  OBVIOUS
<1> HIDE DEF none
<1>2. Outs(Outs(none, fs, 1, 2), fs, 1 + 2, n) = Outs(none, fs, 1, 2 + n)  BY <1>1, OutsJoin
<1> QED BY <1>1, <1>2 DEF none

LEMMA RegReadBack ==
    ASSUME NEW dev \in Int31, NEW ids \in Registers31
    PROVE  ReadsBack(encode_reg_read_command(dev, ids))
<1> DEFINE n == Len(ids)
           rest == [i \in DOMAIN ids |-> V(ids[i])]
           fs == encode_command_header(CSWP_REG_READ) \o <<V(dev), V(n)>> \o rest
<1>1. ids \in Seq(Int31) /\ n \in Int31 /\ n \in Nat  BY Numbers DEF Registers31
<1>2. rest \in Seq(Fields) /\ Len(rest) = n /\ \A i \in 1 .. n : rest[i].kind = "varint"
  <2>1. \A i \in 1 .. n : ids[i] \in Int31  BY <1>1
  <2>2. \A i \in 1 .. n : V(ids[i]) \in Fields /\ V(ids[i]).kind = "varint"
    BY <2>1, FieldIn, FieldKinds
  <2>3. rest = [i \in 1 .. n |-> V(ids[i])]  BY <1>1
  <2> HIDE DEF rest
  <2>4. rest \in [1 .. n -> Fields] /\ \A i \in 1 .. n : rest[i] = V(ids[i])  BY <2>2, <2>3
  <2>5. rest \in Seq(Fields) /\ Len(rest) = n  BY <1>1, <2>4
  <2> QED BY <2>2, <2>4, <2>5
<1>3. encode_reg_read_command(dev, ids) = fs  BY DEF encode_reg_read_command
<1>4. CSWP_REG_READ \in Int31  BY SmallNumbers
<1> HIDE DEF n, rest
<1>5. /\ fs \in Seq(Fields) /\ Len(fs) = 3 + n /\ fs[1] = V(CSWP_REG_READ)
      /\ KindsAre(<<"varint", "varint">>, fs, 1, 2) /\ fs[3].val = <<n>>
      /\ AllVarints(fs, 3, n)
  <2>1. Counted(fs, CSWP_REG_READ, n, rest)  BY <1>1, <1>2, <1>4, CountedShape
  <2> HIDE DEF fs
  <2> QED BY <1>2, <2>1 DEF Counted, AllVarints
<1> HIDE DEF fs
<1>6. ASSUME NEW d \in Seq(Byte), NEW off, Layout(d, off, fs)
      PROVE  FindsArguments(CSWP_REG_READ, d, off, fs)
  <2> DEFINE o == Outs(<<>>, fs, 1, 2)
             head == read_fields(<<"varint", "varint">>, Rd(d, off[1], <<>>))
  <2>0. 3 <= Len(fs) /\ 3 + n <= Len(fs) /\ 3 \in Nat /\ Len(fs) - 1 = 2 + n  BY <1>1, <1>5
  <2>1. head = Rd(d, off[3], o) /\ LastValue(head) = n /\ o \in Seq(Value)
    BY <1>1, <1>5, <1>6, <2>0, CountedHead
  <2>2. Arguments(CSWP_REG_READ, Rd(d, off[1], <<>>))
            = read_varints(LastValue(head), head)
    <3>1. /\ CSWP_REG_READ # CSWP_INIT /\ CSWP_REG_READ \notin {CSWP_TERM, CSWP_GET_DEVICES}
          /\ CSWP_REG_READ \notin {CSWP_DEVICE_OPEN, CSWP_DEVICE_CLOSE,
                                   CSWP_GET_DEVICE_CAPABILITIES, CSWP_REG_LIST}
          /\ CSWP_REG_READ # CSWP_REG_WRITE /\ CSWP_REG_READ \notin {CSWP_MEM_READ, CSWP_MEM_WRITE}
      BY SMT DEF CSWP_INIT, CSWP_TERM, CSWP_GET_DEVICES, CSWP_DEVICE_OPEN,
        CSWP_DEVICE_CLOSE, CSWP_GET_DEVICE_CAPABILITIES, CSWP_REG_LIST, CSWP_REG_READ,
        CSWP_REG_WRITE, CSWP_MEM_READ, CSWP_MEM_WRITE
    <3> QED BY <3>1, Zenon DEF Arguments, read_varints
  <2> HIDE DEF o, head
  <2>3. read_varints(n, Rd(d, off[3], o)) = Rd(d, off[3 + n], Outs(o, fs, 3, n))
    BY <1>1, <1>5, <1>6, <2>0, <2>1, ServerVarints
  <2>4. Outs(o, fs, 3, n) = Outs(<<>>, fs, 1, 2 + n)  BY <1>1, <1>5, <2>0, JoinFirst DEF o
  <2>5. read_varints(LastValue(head), head)
            = Rd(d, off[3 + n], Outs(<<>>, fs, 1, 2 + n))
    BY <2>1, <2>3, <2>4, Zenon
  <2> QED BY <1>5, <2>0, <2>2, <2>5 DEF FindsArguments
<1>7. Len(fs) >= 1  BY <1>1, <1>5
<1> QED BY <1>3, <1>4, <1>5, <1>6, <1>7 DEF ReadsBack

LEMMA RegWriteBack ==
    ASSUME NEW dev \in Int31, NEW regs \in Writes
    PROVE  ReadsBack(reg_write(dev, regs))
<1> DEFINE n == Len(regs)
           At(k) == IF k % 2 = 1 THEN V(regs[(k + 1) \div 2].id) ELSE W(regs[k \div 2].value)
           rest == [k \in 1 .. 2 * Len(regs) |-> At(k)]
           fs == encode_command_header(CSWP_REG_WRITE) \o <<V(dev), V(n)>> \o rest
<1>1. regs \in Seq([id : Int31, value : UInt32]) /\ n \in Int31 /\ n \in Nat
  BY Numbers DEF Writes
<1>2. /\ rest \in Seq(Fields) /\ Len(rest) = 2 * n
      /\ \A i \in 1 .. n : rest[2 * i - 1].kind = "varint" /\ rest[2 * i].kind = "uint32"
  <2> DEFINE Pairs == [id : Int31, value : UInt32]
  <2>0. \A x \in Pairs : x.id \in Int31 /\ x.value \in UInt32  OBVIOUS
  <2>a. regs \in Seq(Pairs)  BY <1>1
  <2> HIDE DEF Pairs
  <2>1. \A i \in 1 .. n : regs[i] \in Pairs  BY <2>a
  <2>2. \A i \in 1 .. n : regs[i].id \in Int31 /\ regs[i].value \in UInt32  BY <2>0, <2>1
  <2>3. \A i \in 1 .. n : /\ V(regs[i].id) \in Fields /\ V(regs[i].id).kind = "varint"
                          /\ W(regs[i].value) \in Fields /\ W(regs[i].value).kind = "uint32"
    BY <2>2, FieldIn, FieldKinds
  <2> HIDE DEF n
  <2>4. \A k \in 1 .. 2 * n : IF k % 2 = 1 THEN (k + 1) \div 2 \in 1 .. n ELSE k \div 2 \in 1 .. n
    BY <1>1, SMT
  <2>5. \A k \in 1 .. 2 * n : At(k) \in Fields  BY <2>3, <2>4
  <2>6. \A i \in 1 .. n : /\ (2 * i - 1) % 2 = 1 /\ ((2 * i - 1) + 1) \div 2 = i
                          /\ (2 * i) % 2 = 0 /\ (2 * i) \div 2 = i
                          /\ 2 * i - 1 \in 1 .. 2 * n /\ 2 * i \in 1 .. 2 * n
    BY <1>1, SMT
  <2>7. \A i \in 1 .. n : At(2 * i - 1) = V(regs[i].id) /\ At(2 * i) = W(regs[i].value)
    BY <2>6
  <2> HIDE DEF At
  <2>8. rest = [k \in 1 .. 2 * n |-> At(k)]  BY DEF n
  <2> HIDE DEF rest
  <2>9. rest \in [1 .. 2 * n -> Fields] /\ \A k \in 1 .. 2 * n : rest[k] = At(k)  BY <2>5, <2>8
  <2>10. 2 * n \in Nat  BY <1>1
  <2>11. rest \in Seq(Fields) /\ Len(rest) = 2 * n  BY <2>9, <2>10
  <2> QED BY <2>3, <2>6, <2>7, <2>9, <2>11
<1>3. reg_write(dev, regs) = fs  BY Zenon DEF reg_write, encode_reg_write_command
<1>4. CSWP_REG_WRITE \in Int31  BY SmallNumbers
<1> HIDE DEF n, rest
<1>5. /\ fs \in Seq(Fields) /\ Len(fs) = 3 + 2 * n /\ fs[1] = V(CSWP_REG_WRITE)
      /\ KindsAre(<<"varint", "varint">>, fs, 1, 2) /\ fs[3].val = <<n>>
      /\ AllPairs(fs, 3, n)
  <2>1. Counted(fs, CSWP_REG_WRITE, n, rest)  BY <1>1, <1>2, <1>4, CountedShape
  <2> HIDE DEF fs
  <2>2. \A i \in 1 .. n : /\ 2 * i - 1 \in 1 .. 2 * n /\ 2 * i \in 1 .. 2 * n
                          /\ 3 + (2 * i - 1) = 3 + 2 * i - 1
    BY <1>1
  <2>3. AllPairs(fs, 3, n)  BY <1>2, <2>1, <2>2 DEF Counted, AllPairs
  <2> QED BY <1>2, <2>1, <2>3 DEF Counted
<1> HIDE DEF fs
<1>6. ASSUME NEW d \in Seq(Byte), NEW off, Layout(d, off, fs)
      PROVE  FindsArguments(CSWP_REG_WRITE, d, off, fs)
  <2> DEFINE o == Outs(<<>>, fs, 1, 2)
             head == read_fields(<<"varint", "varint">>, Rd(d, off[1], <<>>))
  <2>0. /\ 3 <= Len(fs) /\ 3 + 2 * n <= Len(fs) /\ 3 \in Nat /\ Len(fs) - 1 = 2 + 2 * n
        /\ 2 * n \in Nat
    BY <1>1, <1>5
  <2>1. head = Rd(d, off[3], o) /\ LastValue(head) = n /\ o \in Seq(Value)
    BY <1>1, <1>5, <1>6, <2>0, CountedHead
  <2>2. Arguments(CSWP_REG_WRITE, Rd(d, off[1], <<>>)) = read_pairs(LastValue(head), head)
    <3>1. /\ CSWP_REG_WRITE # CSWP_INIT /\ CSWP_REG_WRITE \notin {CSWP_TERM, CSWP_GET_DEVICES}
          /\ CSWP_REG_WRITE \notin {CSWP_DEVICE_OPEN, CSWP_DEVICE_CLOSE,
                                    CSWP_GET_DEVICE_CAPABILITIES, CSWP_REG_LIST}
          /\ CSWP_REG_WRITE # CSWP_REG_READ
          /\ CSWP_REG_WRITE \notin {CSWP_MEM_READ, CSWP_MEM_WRITE}
      BY SMT DEF CSWP_INIT, CSWP_TERM, CSWP_GET_DEVICES, CSWP_DEVICE_OPEN,
        CSWP_DEVICE_CLOSE, CSWP_GET_DEVICE_CAPABILITIES, CSWP_REG_LIST, CSWP_REG_READ,
        CSWP_REG_WRITE, CSWP_MEM_READ, CSWP_MEM_WRITE
    <3> QED BY <3>1, Zenon DEF Arguments, read_pairs
  <2> HIDE DEF o, head
  <2>3. read_pairs(n, Rd(d, off[3], o)) = Rd(d, off[3 + 2 * n], Outs(o, fs, 3, 2 * n))
    <3> DEFINE three == 3
    <3>1. three \in Nat /\ three + 2 * n <= Len(fs) /\ AllPairs(fs, three, n)  BY <1>5, <2>0
    <3> HIDE DEF three
    <3>2. read_pairs(n, Rd(d, off[three], o))
              = Rd(d, off[three + 2 * n], Outs(o, fs, three, 2 * n))
      BY <1>1, <1>5, <1>6, <2>1, <3>1, ServerPairs
    <3> QED BY <3>2 DEF three
  <2> DEFINE m == 2 * n
  <2>4. Outs(o, fs, 3, m) = Outs(<<>>, fs, 1, 2 + m)
    <3>1. m \in Nat /\ 3 + m <= Len(fs)  BY <2>0
    <3> HIDE DEF m
    <3> QED BY <1>5, <3>1, JoinFirst DEF o
  <2>5. read_pairs(LastValue(head), head)
            = Rd(d, off[3 + 2 * n], Outs(<<>>, fs, 1, 2 + 2 * n))
    BY <2>1, <2>3, <2>4, Zenon
  <2> QED BY <1>5, <2>0, <2>2, <2>5 DEF FindsArguments
<1>7. Len(fs) >= 1  BY <1>1, <1>5
<1> QED BY <1>3, <1>4, <1>5, <1>6, <1>7 DEF ReadsBack

LEMMA MemWriteBack ==
    ASSUME NEW dev \in Int31, NEW addr \in UInt64, NEW access \in Int31, NEW flags \in Int31,
           NEW data \in Strings
    PROVE  ReadsBack(encode_mem_write_command(dev, addr, Len(data), access, flags, data))
<1> DEFINE n == Len(data)
           a == V(dev)
           b == Q(addr)
           c == V(n)
           x == V(access)
           e == V(flags)
           g == D(data)
           rest == <<a, b, c, x, e, g>>
           kinds == <<"varint", "uint64", "varint", "varint", "varint">>
           fs == encode_command_header(CSWP_MEM_WRITE) \o rest
<1>0. data \in Seq(Byte) /\ n \in Int31 /\ n \in Nat  BY Numbers DEF Strings
<1>1. /\ a \in Fields /\ b \in Fields /\ c \in Fields /\ x \in Fields /\ e \in Fields
      /\ g \in Fields
  BY <1>0, FieldIn
<1>2. /\ a.kind = "varint" /\ b.kind = "uint64" /\ c.kind = "varint" /\ x.kind = "varint"
      /\ e.kind = "varint" /\ c.val = <<n>> /\ g.val = data /\ FieldBytes(g) = data
  BY FieldKinds
<1>3. encode_mem_write_command(dev, addr, Len(data), access, flags, data) = fs
  BY Zenon DEF encode_mem_write_command
<1>4. CSWP_MEM_WRITE \in Int31  BY SmallNumbers
<1> HIDE DEF n, a, b, c, x, e, g
<1>5. /\ rest \in Seq(Fields) /\ Len(rest) = 6 /\ rest[1] = a /\ rest[2] = b /\ rest[3] = c
      /\ rest[4] = x /\ rest[5] = e /\ rest[6] = g
  BY <1>1
<1> HIDE DEF rest
<1>6. /\ fs \in Seq(Fields) /\ Len(fs) = 7 /\ fs[1] = V(CSWP_MEM_WRITE) /\ fs[2] = a /\ fs[3] = b
      /\ fs[4] = c /\ fs[5] = x /\ fs[6] = e /\ fs[7] = g
  <2>1. /\ fs \in Seq(Fields) /\ Len(fs) = Len(rest) + 1 /\ fs[1] = V(CSWP_MEM_WRITE)
        /\ \A i \in 1 .. Len(rest) : fs[1 + i] = rest[i]
    BY <1>4, <1>5, CommandShape
  <2> HIDE DEF fs
  <2>2. \A i \in 1 .. 6 : fs[1 + i] = rest[i]  BY <1>5, <2>1
  <2>3. fs[1 + 1] = rest[1] /\ fs[1 + 2] = rest[2] /\ fs[1 + 3] = rest[3]
        /\ fs[1 + 4] = rest[4] /\ fs[1 + 5] = rest[5] /\ fs[1 + 6] = rest[6]
    BY <2>2
  <2> QED BY <1>5, <2>1, <2>3
<1> HIDE DEF fs
<1>7. KindsAre(kinds, fs, 1, 5)
  <2>1. \A i \in 1 .. 5 : i = 1 \/ i = 2 \/ i = 3 \/ i = 4 \/ i = 5  OBVIOUS
  <2>2. /\ kinds[1] = fs[1 + 1].kind /\ kinds[2] = fs[1 + 2].kind /\ kinds[3] = fs[1 + 3].kind
        /\ kinds[4] = fs[1 + 4].kind /\ kinds[5] = fs[1 + 5].kind
    BY <1>2, <1>6
  <2>3. \A i \in 1 .. 5 : kinds[i] = fs[1 + i].kind /\ kinds[i] # "data"  BY <2>1, <2>2
  <2> QED BY <2>3 DEF KindsAre
<1>8. ASSUME NEW d \in Seq(Byte), NEW off, Layout(d, off, fs)
      PROVE  FindsArguments(CSWP_MEM_WRITE, d, off, fs)
  <2> DEFINE o == Outs(<<>>, fs, 1, 5)
             head == read_fields(kinds, Rd(d, off[1], <<>>))
  <2>1. Arguments(CSWP_MEM_WRITE, Rd(d, off[1], <<>>))
            = process_incoming_bytes(head, head.out[3][1])
    <3>1. /\ CSWP_MEM_WRITE # CSWP_INIT /\ CSWP_MEM_WRITE \notin {CSWP_TERM, CSWP_GET_DEVICES}
          /\ CSWP_MEM_WRITE \notin {CSWP_DEVICE_OPEN, CSWP_DEVICE_CLOSE,
                                    CSWP_GET_DEVICE_CAPABILITIES, CSWP_REG_LIST}
          /\ CSWP_MEM_WRITE # CSWP_REG_READ /\ CSWP_MEM_WRITE # CSWP_REG_WRITE
          /\ CSWP_MEM_WRITE # CSWP_MEM_READ
      BY SMT DEF CSWP_INIT, CSWP_TERM, CSWP_GET_DEVICES, CSWP_DEVICE_OPEN,
        CSWP_DEVICE_CLOSE, CSWP_GET_DEVICE_CAPABILITIES, CSWP_REG_LIST, CSWP_REG_READ,
        CSWP_REG_WRITE, CSWP_MEM_READ, CSWP_MEM_WRITE
    <3> QED BY <3>1, Zenon DEF Arguments
  <2> HIDE DEF kinds
  <2>2. head = Rd(d, off[1 + 5], o) /\ o \in Seq(Value)
    <3>1. 5 \in Nat /\ 1 + 5 <= Len(fs)  BY <1>6
    <3> QED BY <1>6, <1>7, <1>8, <3>1, FirstFields
  <2>3. head.out[3][1] = n
    <3>1. head.out = o  BY <2>2, RdFields
    <3>2. o[3] = fs[1 + 3].val
      <4> DEFINE u == [k \in 1 .. 5 |-> fs[1 + k].val]
      <4>1. \A k \in 1 .. 5 : fs[1 + k].val \in Value
        <5>0. \A k \in 1 .. 5 : 1 + k \in 1 .. Len(fs)  BY <1>6
        <5>a. fs \in Seq(Fields)  BY <1>6
        <5>1. \A k \in 1 .. 5 : fs[1 + k] \in Fields  BY <5>0, <5>a
        <5> QED BY <5>1, FieldFacts
      <4>2. u \in Seq(Value) /\ u[3] = fs[1 + 3].val  BY <4>1
      <4>3. o = <<>> \o u  BY Zenon DEF Outs
      <4> HIDE DEF u
      <4>4. <<>> \o u = u  BY <4>2
      <4> QED BY <4>2, <4>3, <4>4
    <3> QED BY <1>2, <1>6, <3>1, <3>2
  <2> HIDE DEF o, head
  <2>4. /\ off[6] \in Nat /\ off[7] = off[6] + n /\ Placed(d, off[6], data)
    <3>1. 7 \in 1 .. Len(fs) /\ 7 - 1 = 6  BY <1>6
    <3>2. /\ off[7 - 1] \in Nat /\ off[7] = off[7 - 1] + Len(FieldBytes(fs[7]))
          /\ Placed(d, off[7 - 1], FieldBytes(fs[7]))
      BY <1>6, <1>8, <3>1, LayoutAt
    <3> QED BY <1>2, <1>6, <3>1, <3>2 DEF n
  <2> DEFINE q == off[6]
  <2> HIDE DEF q
  <2>5. process_incoming_bytes(Rd(d, q, o), n) = Rd(d, q + n, Append(o, data))
    BY <1>0, <2>4, ServerBytes DEF n, q
  <2>6. Outs(<<>>, fs, 1, 6) = Append(o, data)
    <3> DEFINE one == 1
               none == <<>>
               six == 6
    <3>1. one \in Nat /\ none \in Seq(Value) /\ six \in Nat /\ one + six <= Len(fs) /\ six > 0
          /\ six - 1 = 5 /\ one + six = 7
      BY <1>6
    <3> HIDE DEF one, none, six
    <3>2. AddsLast(none, fs, one, six)  BY <1>6, <3>1, OutsLast
    <3>3. Outs(none, fs, one, six) = Append(Outs(none, fs, one, 5), data)
      BY <1>2, <1>6, <3>1, <3>2 DEF AddsLast
    <3> QED BY <3>3 DEF one, none, six, o
  <2>7. 1 + 5 = 6 /\ Len(fs) - 1 = 6 /\ Len(fs) = 7  BY <1>6
  <2>8. Arguments(CSWP_MEM_WRITE, Rd(d, off[1], <<>>)) = Rd(d, off[7], Outs(<<>>, fs, 1, 6))
    BY <2>1, <2>2, <2>3, <2>4, <2>5, <2>6, <2>7 DEF q
  <2> QED BY <2>7, <2>8 DEF FindsArguments
<1>9. Len(fs) >= 1  BY <1>6
<1> QED BY <1>3, <1>4, <1>6, <1>8, <1>9 DEF ReadsBack

(* Every request the client can encode is read back by the server. *)
LEMMA RequestsReadBack ==
    ASSUME NEW fs, IsRequest(fs)
    PROVE  ReadsBack(fs)
<1>1. CASE \E v \in Int31, s \in Strings : fs = encode_init_command(v, s)  BY <1>1, InitBack
<1>2. CASE fs = encode_term_command \/ fs = encode_get_devices_command
  <2>1. ReadsBack(encode_command_header(CSWP_TERM)) /\ ReadsBack(encode_command_header(CSWP_GET_DEVICES))
    BY BareCommand, ServerArguments, SmallNumbers
  <2> QED BY <1>2, <2>1 DEF encode_term_command, encode_get_devices_command
<1>3. CASE \E dev \in Int31 : \/ fs = encode_device_open_command(dev)
                              \/ fs = encode_device_close_command(dev)
                              \/ fs = encode_get_device_capabilities_command(dev)
                              \/ fs = encode_reg_list_command(dev)
  <2>1. PICK dev \in Int31 : \/ fs = encode_device_open_command(dev)
                              \/ fs = encode_device_close_command(dev)
                              \/ fs = encode_get_device_capabilities_command(dev)
                              \/ fs = encode_reg_list_command(dev)
    BY <1>3
  <2>2. ReadsBack(encode_device_open_command(dev))
    BY DeviceBack, ServerArguments, SmallNumbers DEF encode_device_open_command
  <2>3. ReadsBack(encode_device_close_command(dev))
    BY DeviceBack, ServerArguments, SmallNumbers DEF encode_device_close_command
  <2>4. ReadsBack(encode_get_device_capabilities_command(dev))
    BY DeviceBack, ServerArguments, SmallNumbers DEF encode_get_device_capabilities_command
  <2>5. ReadsBack(encode_reg_list_command(dev))
    BY DeviceBack, ServerArguments, SmallNumbers DEF encode_reg_list_command
  <2> QED BY <2>1, <2>2, <2>3, <2>4, <2>5
<1>4. CASE \E dev \in Int31, ids \in Registers31 : fs = encode_reg_read_command(dev, ids)
  BY <1>4, RegReadBack
<1>5. CASE \E dev \in Int31, regs \in Writes : fs = reg_write(dev, regs)
  BY <1>5, RegWriteBack
<1>6. CASE \E dev \in Int31, addr \in UInt64, size \in Int31, access \in Int31, flags \in Int31 :
              fs = encode_mem_read_command(dev, addr, size, access, flags)
  BY <1>6, MemReadBack
<1>7. CASE \E dev \in Int31, addr \in UInt64, access \in Int31, flags \in Int31, data \in Strings :
              fs = encode_mem_write_command(dev, addr, Len(data), access, flags, data)
  BY <1>7, MemWriteBack
<1> QED BY <1>1, <1>2, <1>3, <1>4, <1>5, <1>6, <1>7, Zenon DEF IsRequest

-----------------------------------------------------------------------------
(***************************************************************************)
(* Writing.  A request that was encoded without an error, and from which   *)
(* nothing was cut off, holds the bytes of its fields, one behind the      *)
(* other.                                                                  *)
(***************************************************************************)
Buffers(z) ==
    [size : {z}, data : Seq(Byte), res : {CSWP_SUCCESS, CSWP_BUFFER_FULL}, cut : BOOLEAN]
Whole(x) == x.res = CSWP_SUCCESS /\ x.cut = FALSE

(* y has got `bytes` behind what x holds, if it is whole. *)
Adds(x, y, bytes) == Whole(y) => Whole(x) /\ y.data = x.data \o bytes

LEMMA PutData ==
    ASSUME NEW z, NEW x \in Buffers(z), NEW bytes \in Seq(Byte)
    PROVE  put_data(x, bytes) \in Buffers(z) /\ Adds(x, put_data(x, bytes), bytes)
<1> DEFINE full == [x EXCEPT !.res = CSWP_BUFFER_FULL]
           more == [x EXCEPT !.data = @ \o bytes]
           y == put_data(x, bytes)
<1>1. CSWP_BUFFER_FULL # CSWP_SUCCESS  BY DEF CSWP_BUFFER_FULL, CSWP_SUCCESS
<1>2. x.data \in Seq(Byte) /\ x.data \o bytes \in Seq(Byte)  BY DEF Buffers
<1>3. full \in Buffers(z) /\ full.res = CSWP_BUFFER_FULL  BY DEF Buffers
<1>4. more \in Buffers(z) /\ more.res = x.res /\ more.cut = x.cut /\ more.data = x.data \o bytes
  BY <1>2 DEF Buffers
<1>5. (y = x /\ x.res # CSWP_SUCCESS) \/ y = full \/ (y = more /\ x.res = CSWP_SUCCESS)
  BY Zenon DEF put_data
<1> HIDE DEF full, more, y
<1>6. y \in Buffers(z) /\ Adds(x, y, bytes)  BY <1>1, <1>3, <1>4, <1>5 DEF Adds, Whole
<1> QED BY <1>6 DEF y

LEMMA PutField ==
    ASSUME NEW z, NEW x \in Buffers(z), NEW f \in Fields
    PROVE  put(x, f) \in Buffers(z) /\ Adds(x, put(x, f), FieldBytes(f))
<1>1. CASE \E n \in Int31 : f = V(n)
  <2>1. PICK n \in Int31 : f = V(n)  BY <1>1
  <2>0. <<n>>[1] = n  OBVIOUS
  <2>2. f.kind = "varint" /\ f.val = <<n>> /\ FieldBytes(f) = varint[n] /\ f.val[1] = n
    BY <2>0, <2>1, FieldKinds
  <2>3. put(x, f) = put_data(x, varint[n])  BY <2>2 DEF put, put_varint
  <2>4. varint[n] \in Seq(Byte)  BY IntegerBytes, Numbers
  <2> QED BY <2>2, <2>3, <2>4, PutData
<1>2. CASE \E n \in UInt32 : f = W(n)
  <2>1. PICK n \in UInt32 : f = W(n)  BY <1>2
  <2>0. <<n>>[1] = n  OBVIOUS
  <2>2. f.kind = "uint32" /\ f.val = <<n>> /\ FieldBytes(f) = fixed[4][n] /\ f.val[1] = n
    BY <2>0, <2>1, FieldKinds
  <2>3. put(x, f) = put_data(x, fixed[4][n])  BY <2>2 DEF put, put_uint32
  <2>4. fixed[4][n] \in Seq(Byte)  BY IntegerBytes, Numbers
  <2> QED BY <2>2, <2>3, <2>4, PutData
<1>3. CASE \E n \in UInt64 : f = Q(n)
  <2>1. PICK n \in UInt64 : f = Q(n)  BY <1>3
  <2>0. <<n>>[1] = n  OBVIOUS
  <2>2. f.kind = "uint64" /\ f.val = <<n>> /\ FieldBytes(f) = fixed[8][n] /\ f.val[1] = n
    BY <2>0, <2>1, FieldKinds
  <2>3. put(x, f) = put_data(x, fixed[8][n])  BY <2>2 DEF put, put_uint64
  <2>4. fixed[8][n] \in Seq(Byte)  BY IntegerBytes, Numbers
  <2> QED BY <2>2, <2>3, <2>4, PutData
<1>4. CASE \E s \in Strings : f = S(s)
  <2>1. PICK s \in Strings : f = S(s)  BY <1>4
  <2>2. f.kind = "string" /\ f.val = s /\ FieldBytes(f) = varint[Len(s)] \o s
    BY <2>1, FieldKinds
  <2> DEFINE u == varint[Len(s)]
             y == put_data(x, u)
             w == put_data(y, s)
  <2>3. put(x, f) = w  BY <2>2 DEF put, put_string, put_varint
  <2>4. s \in Seq(Byte) /\ u \in Seq(Byte)  BY IntegerBytes, Numbers DEF Strings
  <2> HIDE DEF u
  <2>5. y \in Buffers(z) /\ Adds(x, y, u)  BY <2>4, PutData
  <2> HIDE DEF y
  <2>6. w \in Buffers(z) /\ Adds(y, w, s)  BY <2>4, <2>5, PutData
  <2> HIDE DEF w
  <2>7. x.data \in Seq(Byte)  BY DEF Buffers
  <2>8. (x.data \o u) \o s = x.data \o (u \o s)
    <3> DEFINE v == x.data
    <3>1. v \in Seq(Byte)  BY <2>7
    <3> HIDE DEF v
    <3>2. (v \o u) \o s = v \o (u \o s)  BY <2>4, <3>1
    <3> QED BY <3>2 DEF v
  <2>9. Adds(x, w, u \o s)  BY <2>5, <2>6, <2>8 DEF Adds
  <2> QED BY <2>2, <2>3, <2>6, <2>9 DEF u
<1>5. CASE \E s \in Seq(Byte) : f = D(s)
  <2>1. PICK s \in Seq(Byte) : f = D(s)  BY <1>5
  <2>2. f.kind = "data" /\ f.val = s /\ FieldBytes(f) = s  BY <2>1, FieldKinds
  <2>3. put(x, f) = put_data(x, s)  BY <2>2 DEF put
  <2> QED BY <2>2, <2>3, PutData
<1> QED BY <1>1, <1>2, <1>3, <1>4, <1>5, FieldCases

(* A put whose result is dropped leaves the buffer whole only if it fits.  *)
LEMMA PutUnchecked ==
    ASSUME NEW z, NEW x \in Buffers(z), NEW f \in Fields
    PROVE  put_unchecked(x, f) \in Buffers(z) /\ Adds(x, put_unchecked(x, f), FieldBytes(f))
<1> DEFINE b == [x EXCEPT !.res = CSWP_SUCCESS]
           y == put(b, f)
           w == [y EXCEPT !.res = x.res, !.cut = @ \/ y.res # CSWP_SUCCESS]
<1>1. b \in Buffers(z) /\ b.data = x.data /\ b.cut = x.cut /\ b.res = CSWP_SUCCESS  BY DEF Buffers
<1>2. put_unchecked(x, f) = w  BY Zenon DEF put_unchecked
<1> HIDE DEF b
<1>3. y \in Buffers(z) /\ Adds(b, y, FieldBytes(f))  BY <1>1, PutField
<1> HIDE DEF y
<1> DEFINE k == y.cut \/ y.res # CSWP_SUCCESS
<1>4. k \in BOOLEAN  OBVIOUS
<1>5. w = [y EXCEPT !.res = x.res, !.cut = k]  OBVIOUS
<1>6. (k = FALSE) => Whole(y)  BY <1>3 DEF Whole, Buffers
<1> HIDE DEF k, w
<1>7. w \in Buffers(z) /\ w.data = y.data /\ w.res = x.res /\ w.cut = k
  BY <1>3, <1>4, <1>5 DEF Buffers
<1>8. Adds(x, w, FieldBytes(f))
  <2> SUFFICES ASSUME Whole(w) PROVE Whole(x) /\ w.data = x.data \o FieldBytes(f)
    BY DEF Adds
  <2>1. x.res = CSWP_SUCCESS /\ k = FALSE  BY <1>7 DEF Whole
  <2>2. Whole(y)  BY <1>6, <2>1
  <2>3. Whole(b) /\ y.data = b.data \o FieldBytes(f)  BY <1>3, <2>2 DEF Adds
  <2> QED BY <1>1, <1>7, <2>1, <2>3 DEF Whole
<1> QED BY <1>2, <1>7, <1>8

LEMMA PutNth ==
    ASSUME NEW z, NEW x \in Buffers(z), NEW fs \in Seq(Fields), NEW i \in 1 .. Len(fs)
    PROVE  put_nth(fs, x, i) \in Buffers(z) /\ Adds(x, put_nth(fs, x, i), FieldBytes(fs[i]))
<1>1. fs[i] \in Fields  OBVIOUS
<1>2. put_nth(fs, x, i) = put(x, fs[i]) \/ put_nth(fs, x, i) = put_unchecked(x, fs[i])
  BY Zenon DEF put_nth
<1> QED BY <1>1, <1>2, PutField, PutUnchecked

(* The buffers between the fields. *)
Encodes(g, z, x, fs) ==
    /\ g \in [0 .. Len(fs) -> Buffers(z)] /\ g[0] = x
    /\ \A i \in 1 .. Len(fs) : g[i] = put_nth(fs, g[i - 1], i)

LEMMA EncodeSteps ==
    ASSUME NEW z, NEW x \in Buffers(z), NEW fs \in Seq(Fields)
    PROVE  \E g : Encodes(g, z, x, fs) /\ Encode(x, fs) = g[Len(fs)]
<1> DEFINE n == Len(fs)
           Vals == Buffers(z)
           St(y, i) == CHOOSE w \in { put_nth(fs, v, i) : v \in {y} } : TRUE
           Body(g) == [i \in 0 .. n |-> IF i = 0 THEN x ELSE St(g[i - 1], i)]
           f == CHOOSE g : g = Body(g)
           stop == {0}
           b == [i \in Nat |-> x]
           p == [i \in Nat |-> IF i = 0 THEN 0 ELSE i - 1]
           h == [y \in Nat \X Vals |-> IF y[1] \in 1 .. n THEN put_nth(fs, y[2], y[1]) ELSE y[2]]
<1>1. \A y, i : St(y, i) = put_nth(fs, y, i)  BY Zenon
<1>3. \A i \in 1 .. n, y \in Vals : put_nth(fs, y, i) \in Vals  BY PutNth
<1>4. Encode(x, fs) = f[n]  BY Zenon DEF Encode, Iterate
<1>5. n \in Nat  OBVIOUS
<1> HIDE DEF n, Vals, St
<1>6. Descends(Vals, stop, b, p, h)
  <2>1. b \in [Nat -> Vals]  BY DEF Vals
  <2>2. p \in [Nat -> Nat] /\ \A i \in Nat : i \notin stop => p[i] < i  OBVIOUS
  <2>3. h \in [Nat \X Vals -> Vals]
    <3>1. \A y \in Nat \X Vals : y[1] \in Nat /\ y[2] \in Vals  OBVIOUS
    <3>2. \A y \in Nat \X Vals : y[1] \in 1 .. n => put_nth(fs, y[2], y[1]) \in Vals  BY <1>3, <3>1
    <3> QED BY <3>1, <3>2
  <2> QED BY <2>1, <2>2, <2>3 DEF Descends
<1>7. /\ \A i \in Nat : b[i] = x /\ (i # 0 => p[i] = i - 1)
      /\ \A i \in 1 .. n, y \in Vals : h[<<i, y>>] = put_nth(fs, y, i)
  <2>1. \A i \in Nat : b[i] = x /\ (i # 0 => p[i] = i - 1)  OBVIOUS
  <2>2. ASSUME NEW i \in 1 .. n, NEW y \in Vals PROVE h[<<i, y>>] = put_nth(fs, y, i)
    <3>1. <<i, y>> \in Nat \X Vals /\ <<i, y>>[1] = i /\ <<i, y>>[2] = y  BY <1>5
    <3> QED BY <3>1
  <2> QED BY <2>1, <2>2
<1> HIDE DEF b, p, h
<1>8. PICK e : Solution(e, Vals, stop, b, p, h)  BY <1>6, Recursion, Zenon
<1>9. e[0] = x /\ \A i \in 1 .. n : e[i - 1] \in Vals /\ e[i] = put_nth(fs, e[i - 1], i)
  <2>1. /\ e \in [Nat -> Vals]
        /\ \A i \in Nat : e[i] = IF i \in stop THEN b[i] ELSE h[<<i, e[p[i]]>>]
    BY <1>8 DEF Solution
  <2>2. e[0] = x  BY <1>7, <2>1
  <2>3. ASSUME NEW i \in 1 .. n PROVE e[i - 1] \in Vals /\ e[i] = put_nth(fs, e[i - 1], i)
    <3>1. i \in Nat /\ i # 0 /\ i - 1 \in Nat  BY <1>5
    <3>2. e[i] = h[<<i, e[p[i]]>>]  BY <2>1, <3>1
    <3>3. p[i] = i - 1  BY <1>7, <3>1
    <3>4. e[i - 1] \in Vals  BY <2>1, <3>1
    <3> QED BY <1>7, <3>2, <3>3, <3>4
  <2> QED BY <2>2, <2>3
<1> DEFINE G == [i \in 0 .. n |-> e[i]]
<1>10. \A i \in 0 .. n : G[i] = e[i] /\ (i # 0 => i \in 1 .. n /\ i - 1 \in 0 .. n /\ G[i - 1] = e[i - 1])
  BY <1>5
<1>11. G = Body(G)
  <2>1. \A i \in 0 .. n : e[i] = IF i = 0 THEN x ELSE St(G[i - 1], i)  BY <1>1, <1>9, <1>10
  <2>2. G = [i \in 0 .. n |-> e[i]]  OBVIOUS
  <2> HIDE DEF G
  <2> QED BY <2>1, <2>2, Zenon
<1> HIDE DEF G
<1>12. f = Body(f)  BY <1>11, Zenon
<1>13. \A i \in 0 .. n : f[i] = IF i = 0 THEN x ELSE St(f[i - 1], i)
  <2> HIDE DEF f
  <2> QED BY <1>12, Zenon
<1>a. DOMAIN f = 0 .. n /\ f = [i \in 0 .. n |-> f[i]]
  <2> HIDE DEF f
  <2>1. DOMAIN f = 0 .. n  BY <1>12, Zenon
  <2>2. f = [i \in DOMAIN f |-> f[i]]  BY <1>12, Zenon
  <2> QED BY <2>1, <2>2, Zenon
<1> HIDE DEF f
<1>14. f[0] = x /\ \A i \in 1 .. n : f[i] = put_nth(fs, f[i - 1], i)
  <2>1. 0 \in 0 .. n /\ \A i \in 1 .. n : i \in 0 .. n /\ i # 0  BY <1>5
  <2> QED BY <1>1, <1>13, <2>1
<1>15. \A i \in 0 .. n : f[i] \in Vals
  <2> DEFINE T == { i \in Nat : i <= n => f[i] \in Vals }
  <2>1. 0 \in T  BY <1>14 DEF Vals
  <2>2. ASSUME NEW i \in Nat, i \in T PROVE i + 1 \in T
    <3> SUFFICES ASSUME i + 1 <= n PROVE f[i + 1] \in Vals  OBVIOUS
    <3>1. i + 1 \in 1 .. n /\ (i + 1) - 1 = i /\ i <= n  BY <1>5
    <3> QED BY <1>3, <1>14, <2>2, <3>1
  <2>3. T = Nat  BY <2>1, <2>2, Induction
  <2> QED BY <1>5, <2>3
<1>16. f \in [0 .. n -> Vals]  BY <1>a, <1>15, Zenon
<1>17. Encodes(f, z, x, fs)  BY <1>14, <1>16 DEF Encodes, n, Vals
<1> QED BY <1>4, <1>17 DEF n

(* d begins with s. *)
Begins(d, s) == Len(s) <= Len(d) /\ \A i \in 1 .. Len(s) : d[i] = s[i]

LEMMA BeginsConcat ==
    ASSUME NEW s \in Seq(Byte), NEW t \in Seq(Byte)
    PROVE  Begins(s \o t, s) /\ Placed(s \o t, Len(s), t) /\ Len(s \o t) = Len(s) + Len(t)
<1>1. /\ Len(s \o t) = Len(s) + Len(t) /\ Len(s) \in Nat /\ Len(t) \in Nat
      /\ \A i \in 1 .. Len(s) : (s \o t)[i] = s[i]
      /\ \A i \in 1 .. Len(t) : (s \o t)[Len(s) + i] = t[i]
  OBVIOUS
<1> DEFINE d == s \o t
<1> HIDE DEF d
<1>2. Begins(d, s) /\ Placed(d, Len(s), t)  BY <1>1 DEF d, Begins, Placed, Reads
<1> QED BY <1>1, <1>2 DEF d

LEMMA BeginsTrans ==
    ASSUME NEW d \in Seq(Byte), NEW s \in Seq(Byte), NEW r \in Seq(Byte), Begins(d, s), Begins(s, r)
    PROVE  Begins(d, r)
<1>1. Len(d) \in Nat /\ Len(s) \in Nat /\ Len(r) \in Nat  OBVIOUS
<1> QED BY <1>1 DEF Begins

LEMMA BeginsPlaced ==
    ASSUME NEW d \in Seq(Byte), NEW s \in Seq(Byte), Begins(d, s), NEW x \in Seq(Byte), NEW p \in Nat,
           Placed(s, p, x)
    PROVE  Placed(d, p, x)
<1>1. Len(d) \in Nat /\ Len(s) \in Nat /\ Len(x) \in Nat  OBVIOUS
<1>2. \A i \in 1 .. Len(x) : p + i \in 1 .. Len(s)  BY <1>1 DEF Placed
<1> QED BY <1>1, <1>2 DEF Begins, Placed, Reads

(* The fields fs stand in d, from a to b. *)
Stands(d, a, b, fs) == \E off : off[0] = a /\ off[Len(fs)] = b /\ Layout(d, off, fs)

LEMMA StandsLonger ==
    ASSUME NEW d \in Seq(Byte), NEW s \in Seq(Byte), Begins(d, s), NEW fs \in Seq(Fields),
           NEW a, NEW b, Stands(s, a, b, fs)
    PROVE  Stands(d, a, b, fs)
<1>1. PICK off : off[0] = a /\ off[Len(fs)] = b /\ Layout(s, off, fs)  BY DEF Stands
<1>2. ASSUME NEW i \in 1 .. Len(fs) PROVE Placed(d, off[i - 1], FieldBytes(fs[i]))
  <2> DEFINE x == FieldBytes(fs[i])
             p == off[i - 1]
  <2>1. p \in Nat /\ fs[i] \in Fields /\ Placed(s, p, x)  BY <1>1, LayoutAt
  <2>2. x \in Seq(Byte)  BY <2>1, FieldFacts
  <2> HIDE DEF x, p
  <2>3. Placed(d, p, x)  BY <2>1, <2>2, BeginsPlaced
  <2> QED BY <2>3 DEF x, p
<1>3. Layout(d, off, fs)  BY <1>1, <1>2 DEF Layout
<1> QED BY <1>1, <1>3 DEF Stands

LEMMA EncodeStands ==
    ASSUME NEW z, NEW x \in Buffers(z), NEW fs \in Seq(Fields), NEW e, e = Encode(x, fs)
    PROVE  /\ e \in Buffers(z)
           /\ Whole(e) =>
                 /\ Whole(x)
                 /\ Begins(e.data, x.data)
                 /\ Stands(e.data, Len(x.data), Len(e.data), fs)
<1> DEFINE n == Len(fs)
<1>1. PICK g : Encodes(g, z, x, fs) /\ Encode(x, fs) = g[Len(fs)]  BY EncodeSteps
<1>2. /\ \A i \in 0 .. n : g[i] \in Buffers(z)
      /\ g[0] = x /\ g[n] = e
      /\ \A i \in 1 .. n : g[i] = put_nth(fs, g[i - 1], i)
  BY <1>1 DEF Encodes
<1>0. n \in Nat /\ 0 \in 0 .. n /\ n \in 0 .. n /\ n - n = 0 /\ n - 0 = n  OBVIOUS
<1>3. \A i \in 1 .. n : fs[i] \in Fields /\ i - 1 \in 0 .. n /\ i \in 0 .. n  OBVIOUS
<1>4. ASSUME NEW i \in 1 .. n, Whole(g[i])
      PROVE  Whole(g[i - 1]) /\ g[i].data = g[i - 1].data \o FieldBytes(fs[i])
  <2>1. Adds(g[i - 1], put_nth(fs, g[i - 1], i), FieldBytes(fs[i]))  BY <1>2, <1>3, PutNth
  <2> QED BY <1>2, <1>4, <2>1 DEF Adds
<1>5. \A i \in 0 .. n : g[i].data \in Seq(Byte)  BY <1>2 DEF Buffers
<1>6. \A i \in 1 .. n : FieldBytes(fs[i]) \in Seq(Byte)  BY <1>3, FieldFacts
<1>7. e \in Buffers(z)  BY <1>0, <1>2
<1> HIDE DEF n
<1>8. ASSUME Whole(e)
      PROVE  /\ Whole(x)
             /\ Begins(e.data, x.data)
             /\ Stands(e.data, Len(x.data), Len(e.data), fs)
  <2> DEFINE T == { k \in Nat : k <= n => /\ Whole(g[n - k])
                                          /\ Begins(e.data, g[n - k].data) }
  <2>1. 0 \in T
    <3>1. Begins(e.data, e.data)
      <4>1. e.data \in Seq(Byte)  BY <1>0, <1>2, <1>5
      <4>2. Len(e.data) \in Nat  BY <4>1
      <4> QED BY <4>2 DEF Begins
    <3> QED BY <1>0, <1>2, <1>8, <3>1
  <2>2. ASSUME NEW k \in Nat, k \in T PROVE k + 1 \in T
    <3> SUFFICES ASSUME k + 1 <= n
                 PROVE  /\ Whole(g[n - (k + 1)])
                        /\ Begins(e.data, g[n - (k + 1)].data)
      OBVIOUS
    <3> DEFINE i == n - k
    <3>1. i \in 1 .. n /\ i - 1 = n - (k + 1) /\ k <= n  BY <1>0
    <3>2. Whole(g[i]) /\ Begins(e.data, g[i].data)  BY <2>2, <3>1
    <3> HIDE DEF i
    <3>3. Whole(g[i - 1]) /\ g[i].data = g[i - 1].data \o FieldBytes(fs[i])
      BY <1>4, <3>1, <3>2
    <3>4. g[i - 1].data \in Seq(Byte) /\ g[i].data \in Seq(Byte) /\ FieldBytes(fs[i]) \in Seq(Byte)
          /\ e.data \in Seq(Byte)
      BY <1>0, <1>2, <1>3, <1>5, <1>6, <3>1
    <3>5. Begins(g[i].data, g[i - 1].data)  BY <3>3, <3>4, BeginsConcat
    <3>6. Begins(e.data, g[i - 1].data)  BY <3>2, <3>4, <3>5, BeginsTrans
    <3> QED BY <3>1, <3>3, <3>6
  <2>3. T = Nat  BY <2>1, <2>2, Induction
  <2>4. \A i \in 0 .. n : Whole(g[i]) /\ Begins(e.data, g[i].data)
    <3> SUFFICES ASSUME NEW i \in 0 .. n PROVE Whole(g[i]) /\ Begins(e.data, g[i].data)
      OBVIOUS
    <3>1. n - i \in Nat /\ n - i <= n /\ n - (n - i) = i  BY <1>0
    <3>2. n - i \in T  BY <2>3, <3>1
    <3> HIDE DEF T
    <3> QED BY <3>1, <3>2 DEF T
  <2> DEFINE off == [i \in 0 .. n |-> Len(g[i].data)]
  <2>5. \A i \in 0 .. n : off[i] = Len(g[i].data)  OBVIOUS
  <2>6. off \in [0 .. n -> Nat]
    <3>1. \A i \in 0 .. n : Len(g[i].data) \in Nat  BY <1>5
    <3> QED BY <3>1
  <2> HIDE DEF off, T
  <2>7. ASSUME NEW i \in 1 .. n
        PROVE  /\ off[i] = off[i - 1] + Len(FieldBytes(fs[i]))
               /\ Placed(e.data, off[i - 1], FieldBytes(fs[i]))
    <3> DEFINE a == g[i - 1].data
               b == g[i].data
               y == FieldBytes(fs[i])
    <3>1. a \in Seq(Byte) /\ b \in Seq(Byte) /\ y \in Seq(Byte) /\ e.data \in Seq(Byte)
      BY <1>0, <1>2, <1>3, <1>5, <1>6
    <3>2. b = a \o y /\ Begins(e.data, b) /\ off[i] = Len(b) /\ off[i - 1] = Len(a)
      BY <1>3, <1>4, <2>4, <2>5
    <3> HIDE DEF a, b, y
    <3>3. Placed(b, Len(a), y) /\ Len(b) = Len(a) + Len(y)  BY <3>1, <3>2, BeginsConcat
    <3>4. Len(a) \in Nat  BY <3>1
    <3>5. Placed(e.data, Len(a), y)  BY <3>1, <3>2, <3>3, <3>4, BeginsPlaced
    <3> QED BY <3>2, <3>3, <3>5 DEF y
  <2>8. Layout(e.data, off, fs)  BY <2>6, <2>7 DEF Layout, n
  <2>9. off[0] = Len(x.data) /\ off[Len(fs)] = Len(e.data)  BY <1>0, <1>2, <2>5 DEF n
  <2>10. Stands(e.data, Len(x.data), Len(e.data), fs)  BY <2>8, <2>9 DEF Stands
  <2> QED BY <1>0, <1>2, <2>4, <2>10
<1> QED BY <1>7, <1>8

(***************************************************************************)
(* The commands of a request, from at[i - 1] to at[i].                     *)
(***************************************************************************)
Commands == { c \in [fields : Seq(Fields), room : Nat] : IsRequest(c.fields) }

CommandsStand(d, at, cmds) ==
    /\ at \in [0 .. Len(cmds) -> Nat]
    /\ at[0] = CSWP_REQ_HEADER_SIZE /\ at[Len(cmds)] = Len(d)
    /\ \A i \in 1 .. Len(cmds) : Stands(d, at[i - 1], at[i], cmds[i].fields)

(* What encode_command has put into priv->cmd for the commands cmds. *)
Holds(buf, cmds) ==
    /\ buf \in Buffers(BufferSize) /\ Whole(buf)
    /\ \E at : CommandsStand(buf.data, at, cmds)

LEMMA CommandFacts ==
    ASSUME NEW c \in Commands
    PROVE  c.fields \in Seq(Fields) /\ IsRequest(c.fields) /\ ReadsBack(c.fields)
<1>1. c.fields \in Seq(Fields) /\ IsRequest(c.fields)  BY DEF Commands
<1> QED BY <1>1, RequestsReadBack

LEMMA EmptyHolds == Holds(EmptyRequest, <<>>)
<1> DEFINE zeros == [i \in 1 .. CSWP_REQ_HEADER_SIZE |-> 0]
           at == [i \in 0 .. 0 |-> CSWP_REQ_HEADER_SIZE]
<1>1. CSWP_REQ_HEADER_SIZE \in Nat /\ 0 \in Byte  BY DEF CSWP_REQ_HEADER_SIZE, Byte
<1>2. zeros \in Seq(Byte) /\ Len(zeros) = CSWP_REQ_HEADER_SIZE  BY <1>1
<1> DEFINE b == cswp_buffer_alloc(BufferSize)
<1>a. EmptyRequest = [b EXCEPT !.data = zeros]  BY Zenon DEF EmptyRequest
<1>b. b = [size |-> BufferSize, data |-> <<>>, res |-> CSWP_SUCCESS, cut |-> FALSE]
  BY Zenon DEF cswp_buffer_alloc
<1> HIDE DEF zeros, b
<1>3. EmptyRequest = [size |-> BufferSize, data |-> zeros, res |-> CSWP_SUCCESS, cut |-> FALSE]
  BY <1>a, <1>b
<1>4. EmptyRequest \in Buffers(BufferSize) /\ Whole(EmptyRequest) /\ EmptyRequest.data = zeros
  BY <1>2, <1>3 DEF Buffers, Whole
<1>5. at \in [0 .. 0 -> Nat] /\ at[0] = CSWP_REQ_HEADER_SIZE  BY <1>1
<1> HIDE DEF at
<1>6. CommandsStand(zeros, at, <<>>)  BY <1>2, <1>5 DEF CommandsStand
<1> QED BY <1>4, <1>6 DEF Holds

LEMMA EncodeHolds ==
    ASSUME NEW buf, NEW cmds \in Seq(Commands), Holds(buf, cmds), NEW c \in Commands,
           NEW e, e = Encode(buf, c.fields), Whole(e)
    PROVE  Holds(e, Append(cmds, c))
<1> DEFINE n == Len(cmds)
           fs == c.fields
           more == Append(cmds, c)
<1>1. fs \in Seq(Fields)  BY CommandFacts
<1>2. buf \in Buffers(BufferSize) /\ buf.data \in Seq(Byte)  BY DEF Holds, Buffers
<1>3. PICK at : CommandsStand(buf.data, at, cmds)  BY DEF Holds
<1> DEFINE d == buf.data
           l == Len(e.data)
           to == [i \in 0 .. n + 1 |-> IF i = n + 1 THEN l ELSE at[i]]
<1>4. e \in Buffers(BufferSize) /\ Begins(e.data, d) /\ Stands(e.data, Len(d), l, fs)
  BY <1>1, <1>2, EncodeStands
<1>5. e.data \in Seq(Byte) /\ l \in Nat  BY <1>4 DEF Buffers
<1>6. /\ more \in Seq(Commands) /\ Len(more) = n + 1 /\ n \in Nat /\ more[n + 1] = c
      /\ \A i \in 1 .. n : more[i] = cmds[i] /\ cmds[i] \in Commands
  OBVIOUS
<1> HIDE DEF fs, more, d, l
<1>7. /\ at \in [0 .. n -> Nat] /\ at[0] = CSWP_REQ_HEADER_SIZE /\ at[n] = Len(d)
      /\ \A i \in 1 .. n : Stands(d, at[i - 1], at[i], cmds[i].fields)
  BY <1>3 DEF CommandsStand, d
<1> HIDE DEF n
<1>8. /\ to \in [0 .. n + 1 -> Nat] /\ to[0] = at[0] /\ to[n] = at[n] /\ to[n + 1] = l
      /\ \A i \in 1 .. n : to[i - 1] = at[i - 1] /\ to[i] = at[i]
  <2>1. \A i \in 0 .. n + 1 : i # n + 1 => i \in 0 .. n  BY <1>6
  <2>2. \A i \in 0 .. n + 1 : (IF i = n + 1 THEN l ELSE at[i]) \in Nat  BY <1>5, <1>7, <2>1
  <2>3. to \in [0 .. n + 1 -> Nat]  BY <2>2
  <2>4. /\ 0 \in 0 .. n + 1 /\ 0 # n + 1 /\ n \in 0 .. n + 1 /\ n # n + 1 /\ n + 1 \in 0 .. n + 1
        /\ \A i \in 1 .. n : i - 1 \in 0 .. n + 1 /\ i - 1 # n + 1 /\ i \in 0 .. n + 1 /\ i # n + 1
    BY <1>6
  <2> QED BY <2>3, <2>4
<1> HIDE DEF to
<1>9. ASSUME NEW i \in 1 .. n + 1 PROVE Stands(e.data, to[i - 1], to[i], more[i].fields)
  <2>1. CASE i = n + 1
    <3>1. i - 1 = n  BY <1>6, <2>1
    <3> QED BY <1>4, <1>6, <1>7, <1>8, <2>1, <3>1 DEF fs
  <2>2. CASE i # n + 1
    <3>1. i \in 1 .. n  BY <1>6, <2>2
    <3>2. more[i] = cmds[i] /\ cmds[i] \in Commands  BY <1>6, <3>1
    <3>3. cmds[i].fields \in Seq(Fields)  BY <3>2, CommandFacts
    <3>4. Stands(d, at[i - 1], at[i], cmds[i].fields)  BY <1>7, <3>1
    <3>5. Stands(e.data, at[i - 1], at[i], cmds[i].fields)
      BY <1>2, <1>4, <1>5, <3>3, <3>4, StandsLonger DEF d
    <3> QED BY <1>8, <3>1, <3>2, <3>5
  <2> QED BY <2>1, <2>2
<1>10. CommandsStand(e.data, to, more)  BY <1>6, <1>7, <1>8, <1>9 DEF CommandsStand, l
<1> QED BY <1>4, <1>10 DEF Holds, more

-----------------------------------------------------------------------------
(***************************************************************************)
(* A request on the wire.  The header replaces the first bytes of the      *)
(* buffer, and what stood behind them moves along.                         *)
(***************************************************************************)
Shifted(req, d, m, h) ==
    Len(req) = (Len(d) - m) + h /\ \A i \in m + 1 .. Len(d) : req[(i - m) + h] = d[i]

LEMMA OffsetsGrow ==
    ASSUME NEW d \in Seq(Byte), NEW fs \in Seq(Fields), NEW off, Layout(d, off, fs)
    PROVE  \A i \in 0 .. Len(fs) : off[i] \in Nat /\ off[0] <= off[i]
<1> DEFINE T == { i \in Nat : i <= Len(fs) => off[i] \in Nat /\ off[0] <= off[i] }
<1>0. Len(fs) \in Nat /\ off[0] \in Nat  BY DEF Layout
<1>1. 0 \in T  BY <1>0
<1>2. ASSUME NEW i \in Nat, i \in T PROVE i + 1 \in T
  <2> SUFFICES ASSUME i + 1 <= Len(fs) PROVE off[i + 1] \in Nat /\ off[0] <= off[i + 1]
    OBVIOUS
  <2>1. i + 1 \in 1 .. Len(fs) /\ (i + 1) - 1 = i /\ i <= Len(fs)  BY <1>0
  <2>2. off[i] \in Nat /\ off[0] <= off[i]  BY <1>2, <2>1
  <2>3. /\ off[i + 1] = off[(i + 1) - 1] + Len(FieldBytes(fs[i + 1])) /\ fs[i + 1] \in Fields
    <3> DEFINE j == i + 1
    <3>1. j \in 1 .. Len(fs)  BY <2>1
    <3> HIDE DEF j
    <3>2. off[j] = off[j - 1] + Len(FieldBytes(fs[j])) /\ fs[j] \in Fields  BY <3>1, LayoutAt
    <3> QED BY <3>2 DEF j
  <2>4. Len(FieldBytes(fs[i + 1])) \in Nat
    <3>1. FieldBytes(fs[i + 1]) \in Seq(Byte)  BY <2>3, FieldFacts
    <3> QED BY <3>1
  <2> QED BY <1>0, <2>1, <2>2, <2>3, <2>4
<1>3. T = Nat  BY <1>1, <1>2, Induction
<1> QED BY <1>0, <1>3

LEMMA ShiftStands ==
    ASSUME NEW d \in Seq(Byte), NEW req \in Seq(Byte), NEW m \in Nat, NEW h \in Nat,
           Shifted(req, d, m, h), NEW fs \in Seq(Fields), NEW a \in Nat, m <= a, NEW b,
           Stands(d, a, b, fs)
    PROVE  /\ b \in Nat /\ a <= b
           /\ Stands(req, (a - m) + h, (b - m) + h, fs)
<1> DEFINE n == Len(fs)
<1>1. PICK off : off[0] = a /\ off[n] = b /\ Layout(d, off, fs)  BY DEF Stands
<1>2. \A i \in 0 .. n : off[i] \in Nat /\ m <= off[i] /\ a <= off[i]  BY <1>1, OffsetsGrow
<1>3. n \in Nat /\ 0 \in 0 .. n /\ n \in 0 .. n
      /\ \A i \in 1 .. n : i \in 0 .. n /\ i - 1 \in 0 .. n
  OBVIOUS
<1> DEFINE to == [i \in 0 .. n |-> (off[i] - m) + h]
<1>4. \A i \in 0 .. n : (off[i] - m) + h \in Nat  BY <1>2
<1>5. to \in [0 .. n -> Nat] /\ \A i \in 0 .. n : to[i] = (off[i] - m) + h  BY <1>4
<1> HIDE DEF to
<1>6. ASSUME NEW i \in 1 .. n
      PROVE  /\ to[i] = to[i - 1] + Len(FieldBytes(fs[i]))
             /\ Placed(req, to[i - 1], FieldBytes(fs[i]))
  <2> DEFINE x == FieldBytes(fs[i])
             p == off[i - 1]
  <2>1. fs[i] \in Fields /\ off[i] = p + Len(x) /\ Placed(d, p, x)  BY <1>1, LayoutAt
  <2>2. x \in Seq(Byte)  BY <2>1, FieldFacts
  <2>3. Len(x) \in Nat /\ p \in Nat /\ m <= p  BY <1>2, <1>3, <2>2
  <2>4. to[i] = (off[i] - m) + h /\ to[i - 1] = (p - m) + h  BY <1>3, <1>5
  <2> HIDE DEF x, p
  <2>5. to[i] = to[i - 1] + Len(x)  BY <2>1, <2>3, <2>4
  <2>6. p + Len(x) <= Len(d) /\ \A j \in 1 .. Len(x) : d[p + j] = x[j]
    BY <2>1 DEF Placed, Reads
  <2>7. Len(d) \in Nat  OBVIOUS
  <2>8. to[i - 1] + Len(x) <= Len(req)  BY <2>3, <2>4, <2>6, <2>7 DEF Shifted
  <2>9. ASSUME NEW j \in 1 .. Len(x) PROVE req[to[i - 1] + j] = x[j]
    <3>1. p + j \in m + 1 .. Len(d) /\ to[i - 1] + j = ((p + j) - m) + h
      BY <2>3, <2>4, <2>6, <2>7
    <3>2. req[((p + j) - m) + h] = d[p + j]  BY <3>1 DEF Shifted
    <3> QED BY <2>6, <3>1, <3>2
  <2> QED BY <2>5, <2>8, <2>9 DEF Placed, Reads, x
<1>7. Layout(req, to, fs)  BY <1>5, <1>6 DEF Layout
<1>8. to[0] = (a - m) + h /\ to[Len(fs)] = (b - m) + h  BY <1>1, <1>3, <1>5
<1>9. Stands(req, (a - m) + h, (b - m) + h, fs)  BY <1>7, <1>8 DEF Stands
<1> QED BY <1>1, <1>2, <1>3, <1>9

(* The commands cmds stand in req from h on. *)
Follow(req, to, h, cmds) ==
    /\ to \in [0 .. Len(cmds) -> Nat] /\ to[0] = h
    /\ \A i \in 1 .. Len(cmds) : Stands(req, to[i - 1], to[i], cmds[i].fields)

LEMMA ShiftCommands ==
    ASSUME NEW d \in Seq(Byte), NEW req \in Seq(Byte), NEW h \in Nat, NEW cmds \in Seq(Commands),
           NEW at, CommandsStand(d, at, cmds), Shifted(req, d, CSWP_REQ_HEADER_SIZE, h)
    PROVE  \E to : Follow(req, to, h, cmds)
<1> DEFINE n == Len(cmds)
           m == CSWP_REQ_HEADER_SIZE
<1>0. m \in Nat /\ n \in Nat  BY DEF CSWP_REQ_HEADER_SIZE
<1> HIDE DEF m
<1>1. /\ at \in [0 .. n -> Nat] /\ at[0] = m
      /\ \A i \in 1 .. n : Stands(d, at[i - 1], at[i], cmds[i].fields)
  BY DEF CommandsStand, m
<1>2. Shifted(req, d, m, h)  BY DEF m
<1>3. \A i \in 1 .. n : cmds[i] \in Commands  OBVIOUS
<1>4. \A i \in 1 .. n : cmds[i].fields \in Seq(Fields)  BY <1>3, CommandFacts
<1> HIDE DEF n
<1>5. ASSUME NEW i \in 1 .. n, m <= at[i - 1]
      PROVE  /\ m <= at[i]
             /\ Stands(req, (at[i - 1] - m) + h, (at[i] - m) + h, cmds[i].fields)
  <2> DEFINE a == at[i - 1]
             b == at[i]
             fs == cmds[i].fields
  <2>1. a \in Nat /\ m <= a /\ fs \in Seq(Fields) /\ Stands(d, a, b, fs)
    <3>1. i - 1 \in 0 .. n  BY <1>0
    <3> QED BY <1>1, <1>4, <1>5, <3>1
  <2> HIDE DEF a, b, fs
  <2>2. b \in Nat /\ a <= b /\ Stands(req, (a - m) + h, (b - m) + h, fs)
    BY <1>0, <1>2, <2>1, ShiftStands
  <2> QED BY <1>0, <2>1, <2>2 DEF a, b, fs
<1>6. \A i \in 0 .. n : m <= at[i]
  <2> DEFINE T == { i \in Nat : i <= n => m <= at[i] }
  <2>1. 0 \in T  BY <1>0, <1>1
  <2>2. ASSUME NEW i \in Nat, i \in T PROVE i + 1 \in T
    <3> SUFFICES ASSUME i + 1 <= n PROVE m <= at[i + 1]  OBVIOUS
    <3> DEFINE j == i + 1
    <3>1. j \in 1 .. n /\ j - 1 = i /\ i <= n  BY <1>0
    <3>2. m <= at[j - 1]  BY <2>2, <3>1
    <3> HIDE DEF j
    <3>3. m <= at[j]  BY <1>5, <3>1, <3>2
    <3> QED BY <3>3 DEF j
  <2>3. T = Nat  BY <2>1, <2>2, Induction
  <2> QED BY <1>0, <2>3
<1> DEFINE to == [i \in 0 .. n |-> (at[i] - m) + h]
<1>7. \A i \in 0 .. n : (at[i] - m) + h \in Nat  BY <1>0, <1>1, <1>6
<1>8. to \in [0 .. n -> Nat] /\ \A i \in 0 .. n : to[i] = (at[i] - m) + h  BY <1>7
<1> HIDE DEF to
<1>9. to[0] = h
  <2>1. 0 \in 0 .. n /\ (m - m) + h = h  BY <1>0
  <2> QED BY <1>1, <1>8, <2>1
<1>10. ASSUME NEW i \in 1 .. n PROVE Stands(req, to[i - 1], to[i], cmds[i].fields)
  <2>1. i \in 0 .. n /\ i - 1 \in 0 .. n  BY <1>0
  <2>2. Stands(req, (at[i - 1] - m) + h, (at[i] - m) + h, cmds[i].fields)  BY <1>5, <1>6, <2>1
  <2>3. to[i - 1] = (at[i - 1] - m) + h /\ to[i] = (at[i] - m) + h  BY <1>8, <2>1
  <2> QED BY <2>2, <2>3
<1>11. Follow(req, to, h, cmds)  BY <1>8, <1>9, <1>10 DEF Follow, n
<1> QED BY <1>11

(* Where the header ends. *)
HeaderEnd(num) == 4 + Len(varint[num]) + 1

LEMMA RequestShape ==
    ASSUME NEW buf, NEW cmds \in Seq(Commands), Holds(buf, cmds), NEW num \in Int31,
           NEW mode \in Byte, NEW req, req = RequestBytes(buf, num, mode)
    PROVE  /\ req \in Seq(Byte) /\ HeaderEnd(num) \in Nat
           /\ Placed(req, 4, varint[num])
           /\ HeaderEnd(num) <= Len(req) /\ req[HeaderEnd(num)] = mode
           /\ \E to : Follow(req, to, HeaderEnd(num), cmds)
<1> DEFINE v == varint[num]
           hdr == v \o <<mode>>
           d == buf.data
           m == CSWP_REQ_HEADER_SIZE
           x == fixed[4][Len(d) - (m - 4 - Len(hdr))]
           y == SubSeq(d, m + 1, Len(d))
           h == HeaderEnd(num)
<1>1. req = (x \o hdr) \o y  BY Zenon DEF RequestBytes, WithHeader
<1>2. PICK at : CommandsStand(d, at, cmds)  BY DEF Holds
<1>3. d \in Seq(Byte) /\ Len(d) \in Nat  BY DEF Holds, Buffers
<1>4. m \in Nat  BY DEF CSWP_REQ_HEADER_SIZE
<1>a. m >= 4  BY DEF CSWP_REQ_HEADER_SIZE
<1>5. m <= Len(d)
  <2> DEFINE n == Len(cmds)
             T == { i \in Nat : i <= n => at[i] \in Nat /\ m <= at[i] }
  <2>0. /\ at[0] = m /\ at[n] = Len(d) /\ n \in Nat
        /\ \A i \in 1 .. n : Stands(d, at[i - 1], at[i], cmds[i].fields)
    BY <1>2 DEF CommandsStand
  <2>a. \A i \in 1 .. n : cmds[i] \in Commands  OBVIOUS
  <2>b. \A i \in 1 .. n : cmds[i].fields \in Seq(Fields)  BY <2>a, CommandFacts
  <2> HIDE DEF n, m, d
  <2>1. 0 \in T  BY <1>4, <2>0
  <2>2. ASSUME NEW i \in Nat, i \in T PROVE i + 1 \in T
    <3> SUFFICES ASSUME i + 1 <= n PROVE at[i + 1] \in Nat /\ m <= at[i + 1]  OBVIOUS
    <3> DEFINE j == i + 1
               a == at[i]
               b == at[j]
               fs == cmds[j].fields
    <3>1. j \in 1 .. n /\ j - 1 = i /\ i <= n  BY <2>0
    <3>2. a \in Nat /\ m <= a /\ fs \in Seq(Fields) /\ Stands(d, a, b, fs)
      BY <2>0, <2>2, <2>b, <3>1
    <3> HIDE DEF j, a, b, fs
    <3>3. PICK off : off[0] = a /\ off[Len(fs)] = b /\ Layout(d, off, fs)  BY <3>2 DEF Stands
    <3>4. Len(fs) \in 0 .. Len(fs)  BY <3>2
    <3>5. off[Len(fs)] \in Nat /\ off[0] <= off[Len(fs)]  BY <1>3, <3>2, <3>3, <3>4, OffsetsGrow
    <3>6. b \in Nat /\ m <= b  BY <1>4, <3>2, <3>3, <3>5
    <3> QED BY <3>6 DEF b, j
  <2>3. T = Nat  BY <2>1, <2>2, Induction
  <2>4. n \in T  BY <2>0, <2>3
  <2> QED BY <2>0, <2>4
<1>6. v \in Seq(Byte) /\ Len(v) \in Nat
  <2>1. v \in Seq(Byte)  BY IntegerBytes, Numbers
  <2> QED BY <2>1
<1> HIDE DEF v, d, m
<1>7. hdr \in Seq(Byte) /\ Len(hdr) = Len(v) + 1 /\ hdr[Len(v) + 1] = mode
      /\ \A i \in 1 .. Len(v) : hdr[i] = v[i]
  BY <1>6
<1> HIDE DEF hdr
<1>8. Len(d) - (m - 4 - Len(hdr)) \in Nat  BY <1>3, <1>4, <1>5, <1>6, <1>7
<1>9. x \in Seq(Byte) /\ Len(x) = 4
  <2> DEFINE k == Len(d) - (m - 4 - Len(hdr))
  <2>1. k \in Nat  BY <1>8
  <2> HIDE DEF k
  <2>2. fixed[4][k] \in Seq(Byte) /\ Len(fixed[4][k]) = 4  BY <2>1, IntegerBytes, FixedLen
  <2> QED BY <2>2 DEF k
<1> HIDE DEF x
<1>10. /\ y \in Seq(Byte) /\ Len(y) = Len(d) - m
       /\ \A i \in 1 .. Len(d) - m : y[i] = d[m + i]
  <2> DEFINE a == m + 1
             l == Len(d)
  <2>1. a \in Int /\ l \in Int /\ 1 <= a /\ l <= Len(d)  BY <1>3, <1>4
  <2> HIDE DEF a, l
  <2>2. /\ SubSeq(d, a, l) \in Seq(Byte) /\ Len(SubSeq(d, a, l)) = IF a <= l THEN l - a + 1 ELSE 0
        /\ \A j \in 1 .. l - a + 1 : SubSeq(d, a, l)[j] = d[a + j - 1]
    BY <1>3, <2>1, SubSeqFacts
  <2>3. l - a + 1 = Len(d) - m /\ \A i \in 1 .. Len(d) - m : a + i - 1 = m + i  BY <1>3, <1>4 DEF a, l
  <2>4. ~ (a <= l) => Len(d) - m = 0  BY <1>3, <1>4, <1>5 DEF a, l
  <2> QED BY <2>2, <2>3, <2>4 DEF a, l
<1> HIDE DEF y
<1> DEFINE z == x \o hdr
<1>11. /\ z \in Seq(Byte) /\ Len(z) = 4 + Len(hdr) /\ \A i \in 1 .. Len(hdr) : z[4 + i] = hdr[i]
  <2>1. /\ x \o hdr \in Seq(Byte) /\ Len(x \o hdr) = Len(x) + Len(hdr)
        /\ \A i \in 1 .. Len(hdr) : (x \o hdr)[Len(x) + i] = hdr[i]
    <3>1. x \in Seq(Byte) /\ hdr \in Seq(Byte)  BY <1>7, <1>9
    <3> QED BY <3>1
  <2> QED BY <1>9, <2>1
<1> HIDE DEF z
<1>12. h \in Nat /\ h = Len(z) /\ h = 4 + (Len(v) + 1)  BY <1>6, <1>7, <1>11 DEF HeaderEnd, v
<1> HIDE DEF h
<1>13. /\ req \in Seq(Byte) /\ Len(req) = h + Len(y)
       /\ \A i \in 1 .. h : req[i] = z[i]
       /\ \A i \in 1 .. Len(y) : req[h + i] = y[i]
  <2>1. req = z \o y  BY <1>1 DEF z
  <2>2. /\ z \o y \in Seq(Byte) /\ Len(z \o y) = Len(z) + Len(y)
        /\ \A i \in 1 .. Len(z) : (z \o y)[i] = z[i]
        /\ \A i \in 1 .. Len(y) : (z \o y)[Len(z) + i] = y[i]
    <3>1. z \in Seq(Byte) /\ y \in Seq(Byte)  BY <1>10, <1>11
    <3> QED BY <3>1
  <2> QED BY <1>12, <2>1, <2>2
<1>14. Placed(req, 4, v)
  <2>1. \A i \in 1 .. Len(v) : /\ i \in 1 .. Len(hdr) /\ 4 + i \in 1 .. h
    BY <1>6, <1>7, <1>12
  <2>2. \A i \in 1 .. Len(v) : req[4 + i] = v[i]  BY <1>7, <1>11, <1>13, <2>1
  <2>3. Len(y) \in Nat  BY <1>10
  <2>4. 4 + Len(v) <= Len(req)  BY <1>6, <1>12, <1>13, <2>3
  <2> QED BY <2>2, <2>4 DEF Placed, Reads
<1>15. h <= Len(req) /\ req[h] = mode
  <2>1. Len(y) \in Nat  BY <1>10
  <2>2. h \in 1 .. h /\ Len(v) + 1 \in 1 .. Len(hdr)  BY <1>6, <1>7, <1>12
  <2>3. req[h] = z[h] /\ z[4 + (Len(v) + 1)] = hdr[Len(v) + 1]  BY <1>11, <1>13, <2>2
  <2> QED BY <1>7, <1>12, <1>13, <2>1, <2>3
<1>16. Shifted(req, d, m, h)
  <2>1. Len(req) = (Len(d) - m) + h  BY <1>3, <1>4, <1>10, <1>12, <1>13
  <2>2. ASSUME NEW i \in m + 1 .. Len(d) PROVE req[(i - m) + h] = d[i]
    <3>1. i - m \in 1 .. Len(y) /\ m + (i - m) = i /\ (i - m) + h = h + (i - m)
          /\ i - m \in 1 .. Len(d) - m
      BY <1>3, <1>4, <1>10, <1>12
    <3>2. req[h + (i - m)] = y[i - m] /\ y[i - m] = d[m + (i - m)]  BY <1>10, <1>13, <3>1
    <3> QED BY <3>1, <3>2
  <2> QED BY <2>1, <2>2 DEF Shifted
<1>17. \E to : Follow(req, to, h, cmds)
  BY <1>2, <1>3, <1>12, <1>13, <1>16, ShiftCommands DEF m
<1> QED BY <1>12, <1>13, <1>14, <1>15, <1>17 DEF h, v

(***************************************************************************)
(* The server's parser on a request.                                       *)
(***************************************************************************)
LEMMA TwoFields ==
    ASSUME NEW k, NEW l, NEW x
    PROVE  read_fields(<<k, l>>, x) = read_field(read_field(x, k), l)
<1> DEFINE kinds == <<k, l>>
           n == 2
           St(y, i) == CHOOSE w \in { read_field(v, kinds[i]) : v \in {y} } : TRUE
           Body(g) == [i \in 0 .. n |-> IF i = 0 THEN x ELSE St(g[i - 1], i)]
           f == CHOOSE g : g = Body(g)
           R(i) == IF i = 0 THEN x ELSE IF i = 1 THEN read_field(x, k)
                   ELSE read_field(read_field(x, k), l)
           G == [i \in 0 .. n |-> R(i)]
<1>1. \A y, i : St(y, i) = read_field(y, kinds[i])  BY Zenon
<1>2. Len(kinds) = n /\ kinds[1] = k /\ kinds[2] = l  OBVIOUS
<1> HIDE DEF kinds
<1>3. read_fields(kinds, x) = f[n]  BY <1>2, Zenon DEF read_fields, InTurn, Iterate
<1> HIDE DEF St
<1>4. \A i \in 0 .. n : i = 0 \/ i = 1 \/ i = 2  OBVIOUS
<1>5. R(0) = x /\ R(1) = read_field(x, k) /\ R(2) = read_field(read_field(x, k), l)  OBVIOUS
<1> HIDE DEF R
<1>6. G[0] = R(0) /\ G[1] = R(1) /\ G[2] = R(2)  OBVIOUS
<1>7. G = Body(G)
  <2>1. 1 - 1 = 0 /\ 2 - 1 = 1 /\ 1 # 0 /\ 2 # 0  OBVIOUS
  <2>2. R(0) = x /\ R(1) = St(G[0], 1) /\ R(2) = St(G[1], 2)  BY <1>1, <1>2, <1>5, <1>6
  <2>3. \A i \in 0 .. n : R(i) = IF i = 0 THEN x ELSE St(G[i - 1], i)
    BY <1>4, <2>1, <2>2, Zenon
  <2>4. G = [i \in 0 .. n |-> R(i)]  OBVIOUS
  <2> HIDE DEF G
  <2> QED BY <2>3, <2>4, Zenon
<1> HIDE DEF G
<1>8. f = Body(f)  BY <1>7, Zenon
<1>9. \A i \in 0 .. n : f[i] = IF i = 0 THEN x ELSE St(f[i - 1], i)
  <2> HIDE DEF f
  <2> QED BY <1>8, Zenon
<1> HIDE DEF f
<1>10. /\ 0 \in 0 .. n /\ 1 \in 0 .. n /\ 2 \in 0 .. n /\ 1 - 1 = 0 /\ 2 - 1 = 1 /\ 1 # 0 /\ 2 # 0
  OBVIOUS
<1>11. f[0] = x  BY <1>9, <1>10, Zenon
<1>12. f[1] = St(f[0], 1)  BY <1>9, <1>10, Zenon
<1>13. f[2] = St(f[1], 2)  BY <1>9, <1>10, Zenon
<1> QED BY <1>1, <1>2, <1>3, <1>11, <1>12, <1>13 DEF kinds

LEMMA HeaderRead ==
    ASSUME NEW req \in Seq(Byte), NEW num \in Int31, Placed(req, 4, varint[num])
    PROVE  \E o : /\ read_fields(<<"uint32", "varint">>, Reader(req))
                         = Rd(req, 4 + Len(varint[num]), o)
                  /\ LastValue(Rd(req, 4 + Len(varint[num]), o)) = num
<1> DEFINE k == "uint32"
           l == "varint"
           r == Reader(req)
           x == LittleEndian(r, 4)
           e == <<x>>
           q == 4 + Len(varint[num])
<1>1. r = Rd(req, 0, <<>>)  BY DEF Reader, Rd
<1>2. read_fields(<<k, l>>, r) = read_field(read_field(r, k), l)  BY TwoFields
<1>3. read_field(r, k) = process_incoming_uint32(r)  BY DEF read_field
<1>4. \A y : read_field(y, l) = process_incoming_varint(y)  BY DEF read_field
<1>5. process_incoming_uint32(r) = Take(r, 4, e)  BY DEF process_incoming_uint32
<1> HIDE DEF k, l, r, e
<1>6. Take(r, 4, e) = Rd(req, 4, <<e>>)
  <2>1. Take(Rd(req, 0, <<>>), 4, e) = Rd(req, 0 + 4, Append(<<>>, e))
    <3> DEFINE none == <<>>
               zero == 0
               four == 4
    <3> HIDE DEF none, zero, four
    <3>1. Take(Rd(req, zero, none), four, e) = Rd(req, zero + four, Append(none, e))  BY TakeRd
    <3> QED BY <3>1 DEF none, zero, four
  <2>2. 0 + 4 = 4 /\ Append(<<>>, e) = <<e>>  OBVIOUS
  <2> QED BY <1>1, <2>1, <2>2
<1>7. process_incoming_varint(Rd(req, 4, <<e>>)) = Rd(req, 4 + Len(varint[num]), Append(<<e>>, <<num>>))
  <2> DEFINE four == 4
  <2>1. four \in Nat /\ Placed(req, four, varint[num])  OBVIOUS
  <2> HIDE DEF four
  <2>2. process_incoming_varint(Rd(req, four, <<e>>))
            = Rd(req, four + Len(varint[num]), Append(<<e>>, <<num>>))
    BY <2>1, ServerVarint
  <2> QED BY <2>2 DEF four
<1> DEFINE w == <<num>>
<1>8. w[1] = num  OBVIOUS
<1> HIDE DEF w
<1> DEFINE o == Append(<<e>>, w)
<1>9. Len(o) = 2 /\ o[2] = w
  <2> DEFINE Both == {e, w}
             s == <<e>>
  <2>1. s \in Seq(Both) /\ w \in Both /\ Len(s) = 1  OBVIOUS
  <2> HIDE DEF Both, s
  <2>2. Len(Append(s, w)) = Len(s) + 1 /\ Append(s, w)[Len(s) + 1] = w
    BY <2>1, AppendProperties
  <2>3. 1 + 1 = 2  OBVIOUS
  <2> QED BY <2>1, <2>2, <2>3 DEF s
<1> HIDE DEF q, o
<1>10. Rd(req, q, o).out = o  BY RdFields
<1>11. LastValue(Rd(req, q, o)) = num  BY <1>8, <1>9, <1>10 DEF LastValue
<1>12. read_fields(<<k, l>>, r) = Rd(req, q, o)
  BY <1>2, <1>3, <1>4, <1>5, <1>6, <1>7 DEF q, w, o
<1> QED BY <1>11, <1>12 DEF k, l, q, r

(* One pass of the loop over the commands, and the loop. *)
ParseNext(a) ==
    LET c == process_incoming_varint([a.r EXCEPT !.out = <<>>])
        args == Arguments(LastValue(c), [c EXCEPT !.out = <<>>])
    IN  IF args.res # CSWP_SUCCESS THEN a
        ELSE [r |-> args, cmds |-> Append(a.cmds, Command(LastValue(c), c, args))]
ParseAll(n, a) == Times(n, ParseNext, a)

(* What the server makes of the command fs that stands behind p. *)
ArgsOf(fs) == Outs(<<>>, fs, 1, Len(fs) - 1)
ParsedAt(req, p, fs) ==
    [enc |-> fs[1].val[1], args |-> ArgsOf(fs),
     data |-> SubSeq(req, p + Len(FieldBytes(fs[1])) + 1, Len(req))]
Passed(req, p, o, cmds) == [r |-> Rd(req, p, o), cmds |-> cmds]

LEMMA ParseStep ==
    ASSUME NEW req \in Seq(Byte), NEW p \in Nat, NEW q, NEW o, NEW cmds, NEW fs, ReadsBack(fs),
           Stands(req, p, q, fs)
    PROVE  ParseNext(Passed(req, p, o, cmds))
               = Passed(req, q, ArgsOf(fs), Append(cmds, ParsedAt(req, p, fs)))
<1>1. fs \in Seq(Fields) /\ Len(fs) >= 1 /\ Len(fs) \in Nat  BY DEF ReadsBack
<1>2. PICK off : off[0] = p /\ off[Len(fs)] = q /\ Layout(req, off, fs)  BY DEF Stands
<1>3. PICK t \in Int31 : /\ fs[1] = V(t)
                         /\ \A d \in Seq(Byte) : \A to : Layout(d, to, fs) => FindsArguments(t, d, to, fs)
  BY DEF ReadsBack
<1>4. FindsArguments(t, req, off, fs)  BY <1>2, <1>3
<1> DEFINE v == varint[t]
           b == p + Len(v)
           a == Passed(req, p, o, cmds)
           c == Rd(req, b, Append(<<>>, <<t>>))
           args == Rd(req, q, ArgsOf(fs))
<1>5. FieldBytes(fs[1]) = v /\ fs[1].val = <<t>> /\ fs[1].val[1] = t
  <2>1. <<t>>[1] = t  OBVIOUS
  <2> QED BY <1>3, <2>1, FieldKinds
<1>6. Placed(req, p, v) /\ off[1] = b
  <2>1. 1 \in 1 .. Len(fs) /\ 1 - 1 = 0  BY <1>1
  <2>2. off[1] = off[1 - 1] + Len(FieldBytes(fs[1])) /\ Placed(req, off[1 - 1], FieldBytes(fs[1]))
    BY <1>1, <1>2, <2>1, LayoutAt
  <2> QED BY <1>2, <1>5, <2>1, <2>2
<1>7. a.r = Rd(req, p, o) /\ a.cmds = cmds  BY DEF Passed
<1>8. [a.r EXCEPT !.out = <<>>] = Rd(req, p, <<>>)  BY <1>7 DEF Rd
<1>9. process_incoming_varint(Rd(req, p, <<>>)) = c  BY <1>6, ServerVarint
<1>10. LastValue(c) = t
  <2> DEFINE none == <<>>
  <2>1. none \in Seq(Value) /\ t \in Nat  BY Numbers
  <2> HIDE DEF none
  <2>2. LastValue(Rd(req, b, Append(none, <<t>>))) = t  BY <2>1, LastAndFront
  <2> QED BY <2>2 DEF none
<1>11. [c EXCEPT !.out = <<>>] = Rd(req, b, <<>>)  BY DEF Rd
<1>12. Arguments(t, Rd(req, b, <<>>)) = args
  BY <1>2, <1>4, <1>6 DEF FindsArguments, ArgsOf
<1>13. Command(t, c, args) = ParsedAt(req, p, fs)
  <2>1. c.data = req /\ c.pos = b /\ args.out = ArgsOf(fs)  BY RdFields
  <2> HIDE DEF c, args, b
  <2>2. Command(t, c, args) = [enc |-> t, args |-> ArgsOf(fs), data |-> SubSeq(req, b + 1, Len(req))]
    BY <2>1 DEF Command
  <2>3. ParsedAt(req, p, fs) = [enc |-> t, args |-> ArgsOf(fs), data |-> SubSeq(req, b + 1, Len(req))]
    BY <1>5 DEF ParsedAt, b
  <2> QED BY <2>2, <2>3
<1>15. args.res = CSWP_SUCCESS  BY DEF Rd
<1> HIDE DEF a, c, args
<1>14. ParseNext(a) = [r |-> args, cmds |-> Append(cmds, ParsedAt(req, p, fs))]
  BY <1>7, <1>8, <1>9, <1>10, <1>11, <1>12, <1>13, <1>15, Zenon DEF ParseNext
<1> QED BY <1>14 DEF a, args, Passed

(* The commands in the order in which they stand. *)
ParsedUpTo(req, to, cmds, n) == [i \in 1 .. n |-> ParsedAt(req, to[i - 1], cmds[i].fields)]

LEMMA ParsedAppend ==
    ASSUME NEW req, NEW to, NEW cmds, NEW n \in Nat
    PROVE  /\ ParsedUpTo(req, to, cmds, 0) = <<>>
           /\ n > 0 => ParsedUpTo(req, to, cmds, n)
                 = Append(ParsedUpTo(req, to, cmds, n - 1), ParsedAt(req, to[n - 1], cmds[n].fields))
<1> DEFINE P(i) == ParsedAt(req, to[i - 1], cmds[i].fields)
           Vals == { P(i) : i \in 1 .. n }
           s(m) == [i \in 1 .. m |-> P(i)]
<1>1. s(0) = <<>>  OBVIOUS
<1>2. \A i \in 1 .. n : P(i) \in Vals  OBVIOUS
<1>3. \A m \in 0 .. n : ParsedUpTo(req, to, cmds, m) = s(m)  BY DEF ParsedUpTo
<1>4. ASSUME n > 0 PROVE s(n) = Append(s(n - 1), P(n))
  <2> DEFINE u == s(n - 1)
             w == s(n)
             x == P(n)
  <2>1. n - 1 \in Nat /\ (n - 1) + 1 = n /\ \A i \in 1 .. n - 1 : i \in 1 .. n  BY <1>4
  <2> HIDE DEF P, Vals
  <2>2. u \in [1 .. n - 1 -> Vals] /\ \A i \in 1 .. n - 1 : u[i] = P(i)  BY <1>2, <2>1
  <2>3. w \in [1 .. n -> Vals] /\ \A i \in 1 .. n : w[i] = P(i)  BY <1>2
  <2>4. x \in Vals /\ w[n] = x  BY <1>2, <1>4, <2>3
  <2> HIDE DEF u, w, x
  <2>5. u \in Seq(Vals) /\ Len(u) = n - 1 /\ w \in Seq(Vals) /\ Len(w) = n  BY <2>1, <2>2, <2>3
  <2>6. /\ Append(u, x) \in Seq(Vals) /\ Len(Append(u, x)) = n
        /\ \A i \in 1 .. n - 1 : Append(u, x)[i] = u[i]
        /\ Append(u, x)[n] = x
    BY <2>1, <2>4, <2>5
  <2>7. \A i \in 1 .. n : i \in 1 .. n - 1 \/ i = n  BY <2>1
  <2>8. \A i \in 1 .. n : w[i] = Append(u, x)[i]  BY <2>1, <2>2, <2>3, <2>4, <2>6, <2>7
  <2>9. w = Append(u, x)  BY <2>5, <2>6, <2>8
  <2> QED BY <2>9 DEF u, w, x
<1>5. 0 \in 0 .. n /\ n \in 0 .. n /\ (n > 0 => n - 1 \in 0 .. n)  OBVIOUS
<1> HIDE DEF s
<1> QED BY <1>1, <1>3, <1>4, <1>5

LEMMA ParsesAll ==
    ASSUME NEW req \in Seq(Byte), NEW to, NEW h, NEW cmds \in Seq(Commands),
           Follow(req, to, h, cmds), NEW o
    PROVE  ParseAll(Len(cmds), Passed(req, h, o, <<>>)).cmds = ParsedUpTo(req, to, cmds, Len(cmds))
<1> DEFINE n == Len(cmds)
           x == Passed(req, h, o, <<>>)
           St(y, i) == CHOOSE z \in { ParseNext(w) : w \in {y} } : TRUE
           Body(g) == [i \in 0 .. n |-> IF i = 0 THEN x ELSE St(g[i - 1], i)]
           out(i) == IF i = 0 THEN o ELSE ArgsOf(cmds[i].fields)
           R(i) == Passed(req, to[i], out(i), ParsedUpTo(req, to, cmds, i))
           G == [i \in 0 .. n |-> R(i)]
           f == CHOOSE g : g = Body(g)
<1>0. /\ to \in [0 .. n -> Nat] /\ to[0] = h /\ n \in Nat
      /\ \A i \in 1 .. n : Stands(req, to[i - 1], to[i], cmds[i].fields)
  BY DEF Follow
<1>c. \A i \in 1 .. n : cmds[i] \in Commands  OBVIOUS
<1>b. \A y, i : St(y, i) = ParseNext(y)  BY Zenon
<1> HIDE DEF n
<1>1. ASSUME NEW i \in 1 .. n PROVE St(R(i - 1), i) = R(i)
  <2>1. St(R(i - 1), i) = ParseNext(R(i - 1))
    <3> HIDE DEF St, R
    <3> QED BY <1>b
  <2> DEFINE fs == cmds[i].fields
             p == to[i - 1]
             u == ParsedUpTo(req, to, cmds, i - 1)
             w == out(i - 1)
  <2>2. p \in Nat /\ Stands(req, p, to[i], fs)
    <3>1. i - 1 \in 0 .. n  BY <1>0
    <3> QED BY <1>0, <3>1
  <2>3. ReadsBack(fs)  BY <1>c, CommandFacts
  <2>4. ParsedUpTo(req, to, cmds, i) = Append(u, ParsedAt(req, p, fs))
    <3>1. i \in Nat /\ i > 0  BY <1>0
    <3> QED BY <3>1, ParsedAppend
  <2>5. out(i) = ArgsOf(fs)
    <3>1. i # 0  BY <1>0
    <3> QED BY <3>1
  <2>6. R(i - 1) = Passed(req, p, w, u)  OBVIOUS
  <2>7. R(i) = Passed(req, to[i], ArgsOf(fs), Append(u, ParsedAt(req, p, fs)))  BY <2>4, <2>5
  <2> HIDE DEF fs, p, u, w, R, St
  <2>8. ParseNext(Passed(req, p, w, u)) = Passed(req, to[i], ArgsOf(fs), Append(u, ParsedAt(req, p, fs)))
    BY <2>2, <2>3, ParseStep
  <2> QED BY <2>1, <2>6, <2>7, <2>8
<1>2. R(0) = x
  <2>1. ParsedUpTo(req, to, cmds, 0) = <<>>  BY <1>0, ParsedAppend
  <2> QED BY <1>0, <2>1
<1>3. ParseAll(n, x) = f[n]  BY Zenon DEF ParseAll, Times, Iterate
<1>d. R(n).cmds = ParsedUpTo(req, to, cmds, n)  BY DEF Passed
<1> HIDE DEF R, St, x
<1>4. G[0] = R(0) /\ G[n] = R(n) /\ \A i \in 1 .. n : G[i - 1] = R(i - 1) /\ G[i] = R(i)
  BY <1>0
<1>5. G = Body(G)
  <2>1. \A i \in 0 .. n : i # 0 => i \in 1 .. n  BY <1>0
  <2>2. \A i \in 0 .. n : R(i) = IF i = 0 THEN x ELSE St(G[i - 1], i)
    BY <1>1, <1>2, <1>4, <2>1
  <2>3. G = [i \in 0 .. n |-> R(i)]  OBVIOUS
  <2> HIDE DEF G
  <2> QED BY <2>2, <2>3, Zenon
<1> HIDE DEF G
<1>6. f = Body(f)  BY <1>5, Zenon
<1>7. \A i \in 0 .. n : f[i] = IF i = 0 THEN x ELSE St(f[i - 1], i)
  <2> HIDE DEF f
  <2> QED BY <1>6, Zenon
<1> HIDE DEF f
<1>a. 0 \in 0 .. n  BY <1>0
<1>8. f[0] = G[0]  BY <1>2, <1>4, <1>7, <1>a
<1>9. ASSUME NEW i \in 1 .. n, f[i - 1] = G[i - 1] PROVE f[i] = G[i]
  <2>1. i \in 0 .. n /\ i # 0  BY <1>0
  <2> QED BY <1>1, <1>4, <1>7, <1>9, <2>1
<1>10. f[n] = G[n]  BY <1>0, <1>8, <1>9, SameSteps
<1> QED BY <1>3, <1>4, <1>10, <1>d DEF n, x

(* The type of a command and its arguments are the values of its fields. *)
LEMMA FieldValues ==
    ASSUME NEW fs, ReadsBack(fs)
    PROVE  <<<<fs[1].val[1]>>>> \o ArgsOf(fs) = [k \in DOMAIN fs |-> fs[k].val]
<1>1. fs \in Seq(Fields) /\ Len(fs) >= 1 /\ Len(fs) \in Nat  BY DEF ReadsBack
<1>2. PICK t \in Int31 : fs[1] = V(t)  BY DEF ReadsBack
<1> DEFINE n == Len(fs)
           e == <<fs[1].val[1]>>
           u == [k \in 1 .. n - 1 |-> fs[1 + k].val]
           a == ArgsOf(fs)
           all == [k \in DOMAIN fs |-> fs[k].val]
<1>3. \A k \in 1 .. n : fs[k] \in Fields  BY <1>1
<1>4. \A k \in 1 .. n : fs[k].val \in Value  BY <1>3, FieldFacts
<1>5. e = fs[1].val /\ e \in Value
  <2>1. fs[1].val = <<t>> /\ <<t>>[1] = t  BY <1>2, FieldKinds
  <2>2. 1 \in 1 .. n  BY <1>1
  <2> QED BY <1>4, <2>1, <2>2
<1>6. \A k \in 1 .. n - 1 : 1 + k \in 1 .. n  BY <1>1
<1>7. a = <<>> \o u  BY Zenon DEF ArgsOf, Outs
<1> HIDE DEF n, e
<1>8. u \in [1 .. n - 1 -> Value] /\ \A k \in 1 .. n - 1 : u[k] = fs[1 + k].val  BY <1>4, <1>6
<1> HIDE DEF u
<1>9. n \in Nat /\ n - 1 \in Nat /\ n >= 1 /\ DOMAIN fs = 1 .. n  BY <1>1 DEF n
<1>10. u \in Seq(Value) /\ Len(u) = n - 1  BY <1>8, <1>9
<1>11. <<>> \o u = u  BY <1>10
<1>12. /\ <<e>> \o u \in Seq(Value) /\ Len(<<e>> \o u) = n /\ (<<e>> \o u)[1] = e
       /\ \A k \in 1 .. n - 1 : (<<e>> \o u)[1 + k] = u[k]
  <2> DEFINE s == <<e>>
  <2>1. s \in Seq(Value) /\ Len(s) = 1 /\ s[1] = e  BY <1>5
  <2> HIDE DEF s
  <2>2. s \in Seq(Value)  BY <2>1
  <2>3. /\ s \o u \in Seq(Value) /\ Len(s \o u) = Len(s) + Len(u)
        /\ \A i \in 1 .. Len(s) : (s \o u)[i] = s[i]
        /\ \A i \in 1 .. Len(u) : (s \o u)[Len(s) + i] = u[i]
    BY <1>10, <2>2
  <2>4. 1 + (n - 1) = n /\ 1 \in 1 .. 1  BY <1>9
  <2>5. (s \o u)[1] = e  BY <2>1, <2>3, <2>4
  <2>6. \A k \in 1 .. n - 1 : (s \o u)[1 + k] = u[k]  BY <1>10, <2>1, <2>3
  <2> QED BY <1>10, <2>1, <2>3, <2>4, <2>5, <2>6 DEF s
<1>13. all \in Seq(Value) /\ Len(all) = n /\ \A k \in 1 .. n : all[k] = fs[k].val
  <2>1. all = [k \in 1 .. n |-> fs[k].val]  BY <1>9
  <2> HIDE DEF all
  <2>2. all \in [1 .. n -> Value] /\ \A k \in 1 .. n : all[k] = fs[k].val
    BY <1>4, <2>1 DEF n
  <2> QED BY <1>9, <2>2
<1> DEFINE w == <<e>> \o u
<1> HIDE DEF w, all
<1>14. \A k \in 1 .. n : w[k] = all[k]
  <2> SUFFICES ASSUME NEW k \in 1 .. n PROVE w[k] = all[k]  OBVIOUS
  <2>1. CASE k = 1  BY <1>5, <1>12, <1>13, <2>1 DEF w
  <2>2. CASE k # 1
    <3>1. k - 1 \in 1 .. n - 1 /\ 1 + (k - 1) = k  BY <1>9, <2>2
    <3>2. w[1 + (k - 1)] = u[k - 1] /\ u[k - 1] = fs[1 + (k - 1)].val  BY <1>8, <1>12, <3>1 DEF w
    <3> QED BY <1>13, <3>1, <3>2
  <2> QED BY <2>1, <2>2
<1>15. w = all  BY <1>12, <1>13, <1>14 DEF w
<1>16. <<e>> \o a = w  BY <1>7, <1>11, Zenon DEF w
<1> QED BY <1>15, <1>16 DEF all, e

AsSent(msg, mode, cmds) ==
    /\ msg.mode = mode
    /\ Len(msg.cmds) = Len(cmds)
    /\ \A i \in DOMAIN msg.cmds :
           <<<<msg.cmds[i].enc>>>> \o msg.cmds[i].args
               = [k \in DOMAIN cmds[i].fields |-> cmds[i].fields[k].val]

(* The server's parser inverts the client's encoders: for every batch      *)
(* mode, every sequence of commands and every legal value of their         *)
(* arguments (integers below 2^31, which the server's varints need), if    *)
(* the commands fit the client's buffer, so that no encoder stops and no   *)
(* register pair is cut off, then process_incoming_data finds in the       *)
(* request the commands and the mode that cswp_client_transact_send put    *)
(* there.                                                                  *)
THEOREM RequestParsed ==
    ASSUME NEW buf, NEW cmds \in Seq(Commands), Len(cmds) \in Int31, Holds(buf, cmds),
           NEW mode \in Byte
    PROVE  AsSent(process_incoming_data(RequestBytes(buf, Len(cmds), mode)), mode, cmds)
<1> DEFINE n == Len(cmds)
           req == RequestBytes(buf, n, mode)
           h == HeaderEnd(n)
           q == 4 + Len(varint[n])
           msg == process_incoming_data(req)
<1> HIDE DEF req
<1>1. /\ req \in Seq(Byte) /\ h \in Nat /\ Placed(req, 4, varint[n])
      /\ h <= Len(req) /\ req[h] = mode
      /\ \E to : Follow(req, to, h, cmds)
  BY RequestShape DEF req
<1>2. PICK to : Follow(req, to, h, cmds)  BY <1>1
<1>3. PICK o : /\ read_fields(<<"uint32", "varint">>, Reader(req)) = Rd(req, q, o)
               /\ LastValue(Rd(req, q, o)) = n
  BY <1>1, HeaderRead
<1>4. q + 1 = h  BY DEF HeaderEnd
<1> HIDE DEF n, h, q
<1> DEFINE start == Rd(req, q, o)
           all == ParseAll(n, Passed(req, h, o, <<>>))
<1>5. start.data = req /\ start.pos = q  BY RdFields
<1>6. Buffered(start, q + 1) = mode  BY <1>1, <1>4, <1>5 DEF Buffered
<1>7. [start EXCEPT !.pos = @ + 1] = Rd(req, h, o)  BY <1>4 DEF Rd
<1> HIDE DEF start
<1>8. msg = [mode |-> Buffered(start, start.pos + 1),
             cmds |-> ParseAll(LastValue(start), [r |-> [start EXCEPT !.pos = @ + 1], cmds |-> <<>>]).cmds]
  <2>1. read_fields(<<"uint32", "varint">>, Reader(req)) = start  BY <1>3 DEF start
  <2> QED BY <2>1, Zenon DEF process_incoming_data, ParseAll, ParseNext
<1>9. [r |-> [start EXCEPT !.pos = @ + 1], cmds |-> <<>>] = Passed(req, h, o, <<>>)
  BY <1>7, Zenon DEF Passed
<1>10. LastValue(start) = n  BY <1>3 DEF start
<1>11. msg = [mode |-> mode, cmds |-> all.cmds]  BY <1>5, <1>6, <1>8, <1>9, <1>10, Zenon
<1> HIDE DEF msg, all
<1>12. msg.mode = mode /\ msg.cmds = all.cmds  BY <1>11
<1>13. all.cmds = ParsedUpTo(req, to, cmds, n)  BY <1>1, <1>2, ParsesAll DEF all, n
<1> DEFINE parsed == ParsedUpTo(req, to, cmds, n)
<1>14. n \in Nat /\ \A i \in 1 .. n : cmds[i] \in Commands  BY DEF n
<1>15. /\ Len(parsed) = n /\ DOMAIN parsed = 1 .. n
       /\ \A i \in 1 .. n : parsed[i] = ParsedAt(req, to[i - 1], cmds[i].fields)
  <2> DEFINE P(i) == ParsedAt(req, to[i - 1], cmds[i].fields)
  <2>1. parsed = [i \in 1 .. n |-> P(i)]  BY Zenon DEF ParsedUpTo
  <2> HIDE DEF P, parsed
  <2>2. \A i \in 1 .. n : parsed[i] = P(i)  BY <2>1
  <2>3. Len(parsed) = n /\ DOMAIN parsed = 1 .. n  BY <1>14, <2>1
  <2> QED BY <2>2, <2>3 DEF P
<1> HIDE DEF parsed
<1>16. ASSUME NEW i \in 1 .. n
       PROVE  <<<<parsed[i].enc>>>> \o parsed[i].args
                  = [k \in DOMAIN cmds[i].fields |-> cmds[i].fields[k].val]
  <2> DEFINE fs == cmds[i].fields
  <2>1. ReadsBack(fs)  BY <1>14, CommandFacts
  <2> HIDE DEF fs
  <2>2. <<<<fs[1].val[1]>>>> \o ArgsOf(fs) = [k \in DOMAIN fs |-> fs[k].val]  BY <2>1, FieldValues
  <2>3. parsed[i].enc = fs[1].val[1] /\ parsed[i].args = ArgsOf(fs)
    BY <1>15 DEF ParsedAt, fs
  <2> QED BY <2>2, <2>3, Zenon DEF fs
<1>17. AsSent(msg, mode, cmds)
  BY <1>12, <1>13, <1>15, <1>16, Zenon DEF AsSent, parsed, n
<1> QED BY <1>17 DEF msg, req, n

-----------------------------------------------------------------------------
(***************************************************************************)
(* Responses.  The client learns from the size in front of a response      *)
(* whether it has received the whole of it.                                *)
(***************************************************************************)

(* What encode_varint returns is a sequence of bytes: its equation is that *)
(* of varint, so it has a solution.                                        *)
LEMMA ServerVarintBytes ==
    ASSUME NEW n \in Nat
    PROVE  encode_varint[n] \in Seq(Byte)
<1> DEFINE Val(f, k) == IF k >= 128 THEN <<128 + (k % 128)>> \o f[k \div 128] ELSE <<k>>
<1>1. ASSUME NEW k \in Nat PROVE varint[k] = Val(varint, k)
  <2>1. varint[k] = IF k <= 127 THEN <<k>> ELSE <<128 + (k % 128)>> \o varint[k \div 128]
    BY VarintDef
  <2>2. k >= 128 <=> ~ (k <= 127)  OBVIOUS
  <2> QED BY <2>1, <2>2, Zenon
<1>2. varint = [k \in Nat |-> varint[k]]  BY VarintDef, Zenon
<1>3. varint = [k \in Nat |-> Val(varint, k)]
  <2> HIDE DEF Val
  <2> QED BY <1>1, <1>2
<1>4. encode_varint = [k \in Nat |-> Val(encode_varint, k)]  BY <1>3, Zenon DEF encode_varint
<1>5. \A k \in Nat : encode_varint[k] = Val(encode_varint, k)  BY <1>4, Zenon
<1> DEFINE T == { k \in Nat : encode_varint[k] \in Seq(Byte) }
<1>6. ASSUME NEW k \in Nat, \A m \in Nat : m < k => m \in T PROVE k \in T
  <2>1. CASE k >= 128
    <3> DEFINE x == 128 + (k % 128)
               u == encode_varint[k \div 128]
    <3>1. k \div 128 \in Nat /\ k \div 128 < k /\ x \in Byte  BY <2>1, DivMod
    <3>2. u \in Seq(Byte)  BY <1>6, <3>1
    <3>3. encode_varint[k] = <<x>> \o u  BY <1>5, <2>1
    <3> HIDE DEF x, u
    <3>4. <<x>> \in Seq(Byte)  BY <3>1
    <3>5. <<x>> \o u \in Seq(Byte)  BY <3>2, <3>4, ConcatProperties
    <3> QED BY <3>3, <3>5
  <2>2. CASE ~ (k >= 128)
    <3>1. k \in Byte  BY <2>2 DEF Byte
    <3>2. <<k>> \in Seq(Byte)  BY <3>1
    <3>3. encode_varint[k] = <<k>>  BY <1>5, <2>2
    <3> QED BY <3>2, <3>3
  <2> QED BY <2>1, <2>2
<1>7. T = Nat
  <2>1. T \in SUBSET Nat  OBVIOUS
  <2> HIDE DEF T
  <2> QED BY <1>6, <2>1, StrongInduction
<1> QED BY <1>7

(* A packet that begins with its own length, as response_send builds it. *)
HasSize(p) ==
    /\ p \in Seq(Byte) /\ Len(p) >= 4 /\ InFourBytes(Len(p))
    /\ \A i \in 1 .. 4 : p[i] = encode_uint32(Len(p))[i]

LEMMA SizeBytes ==
    ASSUME NEW n \in Nat
    PROVE  /\ encode_uint32(n) \in Seq(Byte) /\ Len(encode_uint32(n)) = 4
           /\ encode_uint32(n)[1] = n % 256 /\ encode_uint32(n)[2] = (n \div 256) % 256
           /\ encode_uint32(n)[3] = (n \div 65536) % 256
           /\ encode_uint32(n)[4] = (n \div 16777216) % 256
<1> DEFINE a == n % 256
           b == (n \div 256) % 256
           c == (n \div 65536) % 256
           d == (n \div 16777216) % 256
<1>1. a \in Byte /\ b \in Byte /\ c \in Byte /\ d \in Byte  BY SMT DEF Byte
<1>2. encode_uint32(n) = <<a, b, c, d>>  BY SMT DEF encode_uint32
<1> HIDE DEF a, b, c, d
<1>3. <<a, b, c, d>> \in Seq(Byte)  BY <1>1, SMT
<1> QED BY <1>2, <1>3, SMT DEF a, b, c, d

LEMMA FourBytes ==
    ASSUME NEW n \in Nat, InFourBytes(n)
    PROVE  (n % 256) + 256 * (((n \div 256) % 256) + 256 * (((n \div 65536) % 256)
               + 256 * ((n \div 16777216) % 256))) = n
<1> DEFINE a == n \div 256
           b == n \div 65536
           c == n \div 16777216
<1>1. a \in Nat /\ n = 256 * a + (n % 256)  BY SMT
<1>2. b \in Nat /\ a = 256 * b + (a % 256)  BY SMT
<1>3. c \in Nat /\ b = 256 * c + (b % 256)  BY SMT
<1>4. c % 256 = c  BY SMT DEF InFourBytes
<1> QED BY <1>1, <1>2, <1>3, <1>4, SMT

(* Reading a varint leaves what has been read before. *)
LEMMA VarintKeeps ==
    ASSUME NEW d, NEW p, NEW x
    PROVE  get_varint(Rd(d, p, <<x>>)).out[1] = x
<1> DEFINE r == Rd(d, p, <<x>>)
           ends == VarintEnds(d, p, Len(d))
           bad == [Fail(r, CSWP_BUFFER_EMPTY) EXCEPT !.pos = Len(d)]
           y == <<VarintValue(d, p, Least(ends))>>
           good == Take(r, Least(ends) - p, y)
<1>1. r.data = d /\ r.pos = p /\ r.out = <<x>> /\ r.res = CSWP_SUCCESS  BY RdFields
<1>2. get_varint(r) = IF ends = {} THEN bad ELSE good
  <2> HIDE DEF r, ends
  <2> QED BY <1>1, Zenon DEF get_varint, ends
<1>3. bad.out[1] = x
  <2>1. bad.out = <<x>>  BY DEF Fail, Rd
  <2> HIDE DEF bad
  <2> QED BY <2>1
<1>4. good.out[1] = x
  <2> HIDE DEF y, ends
  <2>1. good = Rd(d, p + (Least(ends) - p), Append(<<x>>, y))
    <3> DEFINE o == <<x>>
               k == Least(ends) - p
    <3> HIDE DEF o, k
    <3>1. Take(Rd(d, p, o), k, y) = Rd(d, p + k, Append(o, y))  BY TakeRd
    <3> QED BY <3>1, Zenon DEF o, k, good, r
  <2>2. good.out = Append(<<x>>, y)
    <3> DEFINE o == Append(<<x>>, y)
               q == p + (Least(ends) - p)
    <3> HIDE DEF good, o, q
    <3>1. good = Rd(d, q, o)  BY <2>1 DEF o, q
    <3>2. good.out = o  BY <3>1, RdFields
    <3> QED BY <3>2 DEF o
  <2>3. Append(<<x>>, y)[1] = x  OBVIOUS
  <2> HIDE DEF good
  <2> QED BY <2>2, <2>3
<1> HIDE DEF bad, good, ends, r
<1>5. get_varint(r) = bad \/ get_varint(r) = good  BY <1>2
<1>6. get_varint(r).out[1] = x  BY <1>3, <1>4, <1>5
<1> QED BY <1>6 DEF r

(* The size the client reads in front of a packet is the packet's length,  *)
(* even if it has received only the first n bytes.                         *)
LEMMA ClientSize ==
    ASSUME NEW p, HasSize(p), NEW n \in Nat, 4 <= n, n <= Len(p)
    PROVE  get_varint(get_uint32(Reader(SubSeq(p, 1, n)))).out[1][1] = Len(p)
<1> DEFINE s == SubSeq(p, 1, n)
           r == Rd(s, 0, <<>>)
           L == Len(p)
           Val(v, i) == r.data[r.pos + i] + (IF i = 4 THEN 0 ELSE 256 * v[i + 1])
           v == CHOOSE x : x = [i \in 1 .. 4 |-> Val(x, i)]
<1>0. /\ p \in Seq(Byte) /\ L \in Nat /\ L >= 4 /\ InFourBytes(L)
      /\ p[1] = L % 256 /\ p[2] = (L \div 256) % 256
      /\ p[3] = (L \div 65536) % 256 /\ p[4] = (L \div 16777216) % 256
  <2>1. p \in Seq(Byte) /\ L \in Nat /\ L >= 4 /\ InFourBytes(L)  BY DEF HasSize
  <2>2. /\ p[1] = encode_uint32(L)[1] /\ p[2] = encode_uint32(L)[2]
        /\ p[3] = encode_uint32(L)[3] /\ p[4] = encode_uint32(L)[4]
    BY SMT DEF HasSize
  <2> QED BY <2>1, <2>2, SizeBytes, SMT
<1>1. /\ Len(s) = n /\ s[1] = p[1] /\ s[2] = p[2] /\ s[3] = p[3] /\ s[4] = p[4]
  <2>1. /\ Len(SubSeq(p, 1, n)) = IF 1 <= n THEN n - 1 + 1 ELSE 0
        /\ \A j \in 1 .. n - 1 + 1 : SubSeq(p, 1, n)[j] = p[1 + j - 1]
    BY <1>0, SubSeqFacts
  <2> HIDE DEF s
  <2>2. Len(s) = n /\ \A j \in 1 .. n : s[j] = p[j]  BY <2>1 DEF s
  <2> QED BY <2>2
<1> HIDE DEF s, L
<1>2. r.data = s /\ r.pos = 0 /\ r.out = <<>> /\ r.res = CSWP_SUCCESS  BY RdFields
<1>3. Reader(s) = r  BY DEF Reader, Rd
<1> DEFINE w4 == s[4] w3 == s[3] + 256 * w4 w2 == s[2] + 256 * w3 w1 == s[1] + 256 * w2
           u == [i \in 1 .. 4 |-> IF i = 1 THEN w1 ELSE IF i = 2 THEN w2
                                  ELSE IF i = 3 THEN w3 ELSE w4]
<1>4. u = [i \in 1 .. 4 |-> Val(u, i)]
  <2>1. u[1] = w1 /\ u[2] = w2 /\ u[3] = w3 /\ u[4] = w4
    <3> HIDE DEF w1, w2, w3, w4
    <3> QED OBVIOUS
  <2>2. \A i \in 1 .. 4 : i = 1 \/ i = 2 \/ i = 3 \/ i = 4  OBVIOUS
  <2>3. /\ Val(u, 1) = w1 /\ Val(u, 2) = w2 /\ Val(u, 3) = w3 /\ Val(u, 4) = w4 + 0
    <3> HIDE DEF u, r
    <3> QED BY <1>2, <2>1
  <2>4. w4 + 0 = w4  BY <1>0, <1>1
  <2>5. \A i \in 1 .. 4 : u[i] = Val(u, i)
    <3> HIDE DEF Val, u, w1, w2, w3, w4
    <3> QED BY <2>1, <2>2, <2>3, <2>4
  <2>6. u = [i \in 1 .. 4 |-> u[i]]  OBVIOUS
  <2> HIDE DEF u, Val
  <2> QED BY <2>5, <2>6
<1>5. v = [i \in 1 .. 4 |-> Val(v, i)]
  <2> HIDE DEF Val, u
  <2> QED BY <1>4, Zenon
<1> HIDE DEF v
<1>6. \A i \in 1 .. 4 : v[i] = Val(v, i)
  <2> HIDE DEF Val
  <2> QED BY <1>5
<1>7. v[1] = L
  <2>1. /\ v[1] = s[1] + 256 * v[2] /\ v[2] = s[2] + 256 * v[3]
        /\ v[3] = s[3] + 256 * v[4] /\ v[4] = s[4] + 0
    <3> HIDE DEF r
    <3> QED BY <1>2, <1>6
  <2>2. s[1] \in Nat /\ s[2] \in Nat /\ s[3] \in Nat /\ s[4] \in Nat  BY <1>0, <1>1
  <2>3. s[1] + 256 * (s[2] + 256 * (s[3] + 256 * s[4])) = L  BY <1>0, <1>1, FourBytes
  <2> QED BY <2>1, <2>2, <2>3
<1>8. get_uint32(r) = Take(r, 4, <<v[1]>>)
  <2>1. ~ (Left(r) < 4)
    <3> HIDE DEF r
    <3> QED BY <1>1, <1>2 DEF Left
  <2> HIDE DEF r
  <2> QED BY <1>2, <2>1, Zenon DEF get_uint32, get_fixed, v
<1>9. get_uint32(r) = Rd(s, 4, <<<<L>>>>)
  <2>1. Take(r, 4, <<L>>) = Rd(s, 0 + 4, Append(<<>>, <<L>>))
    <3> DEFINE o == <<>>
               x == <<L>>
    <3> HIDE DEF o, x
    <3>1. Take(Rd(s, 0, o), 4, x) = Rd(s, 0 + 4, Append(o, x))  BY TakeRd
    <3> QED BY <3>1 DEF o, x
  <2>2. Append(<<>>, <<L>>) = <<<<L>>>> /\ 0 + 4 = 4  OBVIOUS
  <2> QED BY <1>7, <1>8, <2>1, <2>2
<1>10. get_varint(get_uint32(Reader(s))).out[1] = <<L>>  BY <1>3, <1>9, VarintKeeps
<1>11. <<L>>[1] = L  OBVIOUS
<1> QED BY <1>10, <1>11 DEF s, L

(* The packet of response_send has its size. *)
LEMMA PacketSized ==
    ASSUME NEW bytes \in Seq(Byte), NEW count \in Seq(Byte), NEW n,
           n = Len(bytes) + 4 + Len(count), InFourBytes(n)
    PROVE  HasSize(encode_uint32(n) \o count \o bytes)
<1> DEFINE s == encode_uint32(n)
           t == s \o count
           p == t \o bytes
<1>1. n \in Nat /\ n >= 4  OBVIOUS
<1>2. s \in Seq(Byte) /\ Len(s) = 4  BY <1>1, SizeBytes, SMT
<1> HIDE DEF s
<1>3. /\ t \in Seq(Byte) /\ Len(t) = 4 + Len(count) /\ Len(count) \in Nat
      /\ t[1] = s[1] /\ t[2] = s[2] /\ t[3] = s[3] /\ t[4] = s[4]
  <2>1. t \in Seq(Byte)  BY <1>2, ConcatProperties
  <2>2. Begins(t, s) /\ Len(t) = Len(s) + Len(count)  BY <1>2, BeginsConcat
  <2> HIDE DEF t
  <2> QED BY <1>2, <2>1, <2>2, SMT DEF Begins
<1> HIDE DEF t
<1>4. /\ p \in Seq(Byte) /\ Len(p) = n
      /\ p[1] = s[1] /\ p[2] = s[2] /\ p[3] = s[3] /\ p[4] = s[4]
  <2>1. p \in Seq(Byte)  BY <1>3, ConcatProperties
  <2>2. Begins(p, t) /\ Len(p) = Len(t) + Len(bytes)  BY <1>3, BeginsConcat
  <2> HIDE DEF p
  <2>3. \A i \in 1 .. 4 : p[i] = t[i]  BY <1>3, <2>2, SMT DEF Begins
  <2> QED BY <1>3, <2>1, <2>2, <2>3, SMT
<1> HIDE DEF p
<1>5. \A i \in 1 .. 4 : p[i] = s[i]
  <2>1. \A i \in 1 .. 4 : i = 1 \/ i = 2 \/ i = 3 \/ i = 4  BY SMT
  <2> QED BY <1>4, <2>1
<1> QED BY <1>1, <1>4, <1>5 DEF HasSize, p, t, s

-----------------------------------------------------------------------------
(***************************************************************************)
(* The sessions.                                                           *)
(***************************************************************************)

(* Calls that the codecs can carry: the commands of the library, their     *)
(* numbers within an int, at most that many of them.                       *)
Modes == {BATCH_NONE, BATCH_CONTINUE, BATCH_ABORT}
Calls ==
    { c \in [call : {"connect", "disconnect", "request", "init", "term"},
             mode : Modes, cmds : Seq(Commands)] : Len(c.cmds) \in Int31 }
LegalSessions == Sessions \subseteq Seq(Calls)

List(s) == \E n \in Nat : \E T : s \in [1 .. n -> T]

(* The process is within a call exactly while it has one to finish. *)
InSession ==
    /\ todo \in Seq(Calls)
    /\ c_pc \in {"next", "encode", "receive", "verify", "done"}
    /\ c_pc \in {"encode", "receive", "verify"} => todo # <<>>

(* What has been encoded of the call stands in the buffer, unless some of  *)
(* it was cut off.                                                         *)
Encoded ==
    /\ c_cur \in Seq(Commands) /\ c_pend \in Seq(Commands) /\ c_mode \in Byte
    /\ c_pc \in {"encode", "receive"} =>
          /\ c_buf \in Buffers(BufferSize) /\ c_buf.res = CSWP_SUCCESS
          /\ ~c_buf.cut => Holds(c_buf, c_pend)
          /\ Len(c_pend) + Len(c_cur) \in Int31

Connections ==
    /\ List(up) /\ List(down) /\ List(open)
    /\ Len(up) = Len(open) /\ Len(down) = Len(open)
    /\ s_pc \in {"read", "run"} => Len(open) >= 1
    /\ s_resp.n \in Nat

(* The connection that the server accepts carries one request or one       *)
(* response at a time, and a response only to a client that waits for it,  *)
(* or that will not read any more.                                         *)
Asked ==
    /\ c_pc = "receive" /\ conn = 1 /\ s_pc # "run" /\ down[1] = <<>>
    /\ up[1] = <<>> \o RequestBytes(c_buf, Len(c_pend), c_mode)
Answered == c_pc = "receive" /\ conn = 1 /\ \E p : HasSize(p) /\ down[1] = <<p>>
Served == s_pc = "run" => c_pc = "receive" /\ conn = 1 /\ up[1] = <<>> /\ down[1] = <<>>
TakeTurns ==
    Len(open) >= 1 =>
        /\ up[1] = <<>> \/ Asked
        /\ down[1] = <<>> \/ todo = <<>> \/ Answered

WireInv == InSession /\ Encoded /\ Connections /\ TakeTurns /\ Served /\ ParsedAsSent

(* Nothing is under way. *)
AtRest ==
    /\ s_pc # "run"
    /\ Len(open) >= 1 => up[1] = <<>> /\ (down[1] = <<>> \/ todo = <<>>)

LEMMA NotWaiting ==
    ASSUME WireInv, c_pc # "receive"
    PROVE  AtRest
BY DEF WireInv, Served, TakeTurns, Asked, Answered, AtRest

LEMMA RestSuffices ==
    ASSUME InSession', Encoded', Connections', AtRest'
    PROVE  WireInv'
BY DEF WireInv, Served, TakeTurns, AtRest, ParsedAsSent

LEMMA ListAppend ==
    ASSUME NEW s, List(s), NEW x
    PROVE  /\ List(Append(s, x)) /\ Len(s) \in Nat /\ Len(Append(s, x)) = Len(s) + 1
           /\ Append(s, x)[Len(s) + 1] = x
           /\ \A i \in 1 .. Len(s) : Append(s, x)[i] = s[i]
<1>0. PICK n \in Nat : \E T : s \in [1 .. n -> T]  BY DEF List
<1>1. PICK T : s \in [1 .. n -> T]  BY <1>0
<1> DEFINE U == T \cup {x}
           a == Append(s, x)
<1>2. s \in Seq(U) /\ x \in U  BY <1>1
<1> HIDE DEF U
<1>3. /\ a \in Seq(U) /\ Len(s) \in Nat /\ Len(a) = Len(s) + 1 /\ a[Len(s) + 1] = x
      /\ \A i \in 1 .. Len(s) : a[i] = s[i]
  BY <1>2
<1> HIDE DEF a
<1>4. a \in [1 .. Len(a) -> U] /\ Len(a) \in Nat  BY <1>3
<1>5. List(a)  BY <1>4 DEF List
<1> QED BY <1>3, <1>5 DEF a

LEMMA ListExcept ==
    ASSUME NEW s, List(s), NEW c, NEW x
    PROVE  /\ List([s EXCEPT ![c] = x]) /\ Len(s) \in Nat /\ Len([s EXCEPT ![c] = x]) = Len(s)
           /\ Len(s) >= 1 => [s EXCEPT ![c] = x][1] = IF c = 1 THEN x ELSE s[1]
<1>0. PICK n \in Nat : \E T : s \in [1 .. n -> T]  BY DEF List
<1>1. PICK T : s \in [1 .. n -> T]  BY <1>0
<1> DEFINE U == T \cup {x}
           a == [s EXCEPT ![c] = x]
<1>2. a \in [1 .. n -> U]  BY <1>1
<1>3. Len(s) = n /\ Len(a) = n  BY <1>1, <1>2
<1>4. List(a)  BY <1>2 DEF List
<1>5. n >= 1 => a[1] = IF c = 1 THEN x ELSE s[1]  BY <1>1
<1> QED BY <1>3, <1>4, <1>5

(* What a step does not touch of the connections. *)
Quiet ==
    /\ up' = up /\ down' = down /\ List(open') /\ Len(open') = Len(open)
    /\ s_pc' = s_pc /\ s_resp' = s_resp

LEMMA QuietKeeps ==
    ASSUME Connections, Quiet
    PROVE  Connections' /\ (AtRest /\ (todo = <<>> => todo' = <<>>) => AtRest')
BY DEF Connections, Quiet, AtRest

LEMMA Unchanged ==
    ASSUME Connections, UNCHANGED netVars, UNCHANGED srvVars
    PROVE  Quiet
BY DEF Connections, Quiet, netVars, srvVars

LEMMA Disconnects ==
    ASSUME Connections, disconnect, UNCHANGED srvVars
    PROVE  Quiet
<1> DEFINE closed == [open EXCEPT ![conn] = FALSE]
<1>1. List(open)  BY DEF Connections
<1>2. List(closed) /\ Len(closed) = Len(open)  BY <1>1, ListExcept
<1>3. open' = closed \/ open' = open  BY DEF disconnect
<1> HIDE DEF closed
<1>4. List(open') /\ Len(open') = Len(open)  BY <1>1, <1>2, <1>3
<1> QED BY <1>4 DEF Quiet, disconnect, srvVars

(* A new connection is empty, and leaves the others alone. *)
LEMMA Connects ==
    ASSUME Connections, AtRest, todo # <<>>, connect, UNCHANGED srvVars
    PROVE  Connections' /\ AtRest'
<1> DEFINE none == <<>>
           u == Append(up, none)
           d == Append(down, none)
           o == Append(open, TRUE)
<1>1. /\ List(up) /\ List(down) /\ List(open) /\ Len(up) = Len(open) /\ Len(down) = Len(open)
      /\ s_pc \in {"read", "run"} => Len(open) >= 1
      /\ s_resp.n \in Nat
  BY DEF Connections
<1>2. up' = u /\ down' = d /\ open' = o /\ s_pc' = s_pc /\ s_resp' = s_resp
  BY DEF connect, srvVars
<1> HIDE DEF none
<1>3. /\ List(u) /\ Len(up) \in Nat /\ Len(u) = Len(up) + 1 /\ u[Len(up) + 1] = none
      /\ \A i \in 1 .. Len(up) : u[i] = up[i]
  BY <1>1, ListAppend
<1>4. /\ List(d) /\ Len(d) = Len(down) + 1 /\ d[Len(down) + 1] = none
      /\ \A i \in 1 .. Len(down) : d[i] = down[i]
  BY <1>1, ListAppend
<1>5. List(o) /\ Len(o) = Len(open) + 1  BY <1>1, ListAppend
<1> HIDE DEF u, d, o
<1>6. Connections'  BY <1>1, <1>2, <1>3, <1>4, <1>5 DEF Connections
<1>7. u[1] = none /\ d[1] = none
  <2>1. CASE Len(open) = 0  BY <1>1, <1>3, <1>4, <2>1
  <2>2. CASE Len(open) >= 1
    <3>1. up[1] = none /\ down[1] = none  BY <2>2 DEF AtRest, none
    <3>2. 1 \in 1 .. Len(up) /\ 1 \in 1 .. Len(down)  BY <1>1, <1>3, <2>2
    <3> QED BY <1>3, <1>4, <3>1, <3>2
  <2> QED BY <1>1, <1>3, <2>1, <2>2
<1>8. AtRest'  BY <1>2, <1>7 DEF AtRest, none
<1> QED BY <1>6, <1>8

LEMMA CallFacts ==
    ASSUME NEW c \in Calls
    PROVE  c.cmds \in Seq(Commands) /\ Len(c.cmds) \in Int31 /\ c.mode \in Byte
<1>1. c \in [call : {"connect", "disconnect", "request", "init", "term"},
             mode : Modes, cmds : Seq(Commands)] /\ Len(c.cmds) \in Int31
  BY DEF Calls
<1>2. Modes \subseteq Byte
  BY DEF Modes, Byte, BATCH_NONE, BATCH_CONTINUE, BATCH_ABORT
<1> QED BY <1>1, <1>2

LEMMA Prepares ==
    ASSUME InSession, todo # <<>>, Prepare
    PROVE  InSession' /\ Encoded' /\ todo' = todo
<1> DEFINE c == Head(todo)
           none == <<>>
<1>1. c \in Calls  BY TailFacts DEF InSession
<1> HIDE DEF c
<1>2. c.cmds \in Seq(Commands) /\ Len(c.cmds) \in Int31 /\ c.mode \in Byte  BY <1>1, CallFacts
<1>3. /\ c_pc' = "encode" /\ c_cur' = c.cmds /\ c_mode' = c.mode /\ c_buf' = EmptyRequest
      /\ c_pend' = none /\ todo' = todo
  BY DEF Prepare, c
<1>4. none \in Seq(Commands) /\ Len(none) = 0  OBVIOUS
<1>5. /\ EmptyRequest \in Buffers(BufferSize) /\ EmptyRequest.res = CSWP_SUCCESS
      /\ Holds(EmptyRequest, none)
  BY EmptyHolds DEF Holds, Whole
<1> HIDE DEF none
<1>6. InSession'  BY <1>3 DEF InSession
<1>7. Len(none) + Len(c.cmds) \in Int31
  <2>1. Len(c.cmds) \in Nat  BY <1>2 DEF Int31
  <2>2. Len(none) + Len(c.cmds) = Len(c.cmds)  BY <1>4, <2>1
  <2> QED BY <1>2, <2>2
<1>8. Encoded'  BY <1>2, <1>3, <1>4, <1>5, <1>7 DEF Encoded
<1> QED BY <1>3, <1>6, <1>8

LEMMA Returns ==
    ASSUME InSession, Encoded, c_pc = "next", todo # <<>>, Return
    PROVE  InSession' /\ Encoded'
<1>1. Tail(todo) \in Seq(Calls)  BY TailFacts DEF InSession
<1>2. InSession'  BY <1>1 DEF InSession, Return
<1>3. Encoded'  BY DEF Encoded, Return
<1> QED BY <1>2, <1>3

(* The end of a call leaves the connections alone. *)
LEMMA Finishing ==
    ASSUME InSession, Encoded, Connections, todo # <<>>, NEW res, Finish(res), UNCHANGED srvVars,
           c_cur' \in Seq(Commands), c_pend' \in Seq(Commands)
    PROVE  InSession' /\ Encoded' /\ Quiet /\ (res # CSWP_SUCCESS => todo' = <<>>)
<1>1. Tail(todo) \in Seq(Calls) /\ <<>> \in Seq(Calls)  BY TailFacts DEF InSession
<1>2. /\ c_pc' = "next" /\ c_mode' = BATCH_NONE
      /\ todo' = IF res = CSWP_SUCCESS THEN Tail(todo) ELSE <<>>
  BY DEF Finish
<1>3. InSession'  BY <1>1, <1>2 DEF InSession
<1>4. BATCH_NONE \in Byte  BY DEF BATCH_NONE, Byte
<1>5. Encoded'  BY <1>2, <1>4 DEF Encoded
<1>6. disconnect \/ UNCHANGED netVars  BY DEF Finish
<1>7. Quiet  BY <1>6, Disconnects, Unchanged
<1> QED BY <1>2, <1>3, <1>5, <1>7

(* The calls: what the process does between two requests. *)
LEMMA CallsKeep ==
    ASSUME WireInv, setup_cdebug \/ cleanup_cdebug \/ begin_request \/ cswp_init \/ cswp_term
    PROVE  WireInv'
<1>1. InSession /\ Encoded /\ Connections  BY DEF WireInv
<1>2. c_pc = "next" /\ todo # <<>> /\ UNCHANGED srvVars
  BY DEF setup_cdebug, cleanup_cdebug, begin_request, cswp_init, cswp_term, Call
<1>3. AtRest  BY <1>2, NotWaiting
<1>4. ASSUME connect \/ disconnect \/ UNCHANGED netVars
      PROVE  Connections' /\ AtRest'
  <2>1. CASE connect  BY <1>1, <1>2, <1>3, <2>1, Connects
  <2>2. CASE disconnect  BY <1>1, <1>2, <1>3, <2>2, Disconnects, QuietKeeps
  <2>3. CASE UNCHANGED netVars  BY <1>1, <1>2, <1>3, <2>3, Unchanged, QuietKeeps
  <2> QED BY <1>4, <2>1, <2>2, <2>3
<1>5. Prepare \/ Return
  BY DEF setup_cdebug, cleanup_cdebug, begin_request, cswp_init, cswp_term
<1>6. connect \/ disconnect \/ UNCHANGED netVars
  BY DEF setup_cdebug, cleanup_cdebug, begin_request, cswp_init, cswp_term, netVars
<1>7. InSession' /\ Encoded'  BY <1>1, <1>2, <1>5, Prepares, Returns
<1> QED BY <1>4, <1>6, <1>7, RestSuffices

LEMMA EncodeKeeps ==
    ASSUME WireInv, encode_command
    PROVE  WireInv'
<1> DEFINE c == Head(c_cur)
           e == Encode(c_buf, c.fields)
<1>1. InSession /\ Encoded /\ Connections  BY DEF WireInv
<1>2. c_pc = "encode" /\ c_cur # <<>> /\ todo # <<>> /\ UNCHANGED srvVars
  BY <1>1 DEF encode_command, InSession
<1>3. AtRest  BY <1>2, NotWaiting
<1>4. c \in Commands /\ Tail(c_cur) \in Seq(Commands) /\ Len(Tail(c_cur)) = Len(c_cur) - 1
  BY <1>1, <1>2, TailFacts DEF Encoded
<1>5. /\ c_buf \in Buffers(BufferSize) /\ (~c_buf.cut => Holds(c_buf, c_pend))
      /\ Len(c_pend) + Len(c_cur) \in Int31 /\ c_pend \in Seq(Commands)
      /\ c_cur \in Seq(Commands) /\ c_mode \in Byte
  BY <1>1, <1>2 DEF Encoded
<1>8. e \in Buffers(BufferSize) /\ (Whole(e) => Whole(c_buf))
  <2>1. c.fields \in Seq(Fields)  BY <1>4, CommandFacts
  <2> QED BY <1>5, <2>1, EncodeStands
<1>6. CASE e.res # CSWP_SUCCESS
  <2>1. Finish(e.res) /\ c_cur' = c_cur /\ c_pend' = c_pend  BY <1>6, Zenon DEF encode_command
  <2> HIDE DEF e
  <2>2. InSession' /\ Encoded' /\ Quiet  BY <1>1, <1>2, <1>5, <2>1, Finishing
  <2>3. Connections' /\ AtRest'  BY <1>1, <1>2, <1>3, <2>2, QuietKeeps
  <2> QED BY <2>2, <2>3, RestSuffices
<1>7. CASE e.res = CSWP_SUCCESS
  <2>1. /\ c_buf' = e /\ c_pend' = Append(c_pend, c) /\ c_cur' = Tail(c_cur)
        /\ UNCHANGED netVars /\ c_pc' = c_pc /\ todo' = todo /\ c_mode' = c_mode
    BY <1>7, Zenon DEF encode_command
  <2>2. ~e.cut => Holds(e, Append(c_pend, c))
    <3> SUFFICES ASSUME ~e.cut PROVE Holds(e, Append(c_pend, c))  OBVIOUS
    <3>1. Whole(e)
      <4> HIDE DEF e
      <4> QED BY <1>7, <1>8 DEF Whole, Buffers
    <3>2. Holds(c_buf, c_pend)
      <4> HIDE DEF e
      <4> QED BY <1>5, <1>8, <3>1 DEF Whole
    <3> QED BY <1>4, <1>5, <3>1, <3>2, EncodeHolds
  <2> HIDE DEF e, c
  <2>3. Append(c_pend, c) \in Seq(Commands) /\ Len(Append(c_pend, c)) = Len(c_pend) + 1
    BY <1>4, <1>5
  <2>4. Len(Append(c_pend, c)) + Len(Tail(c_cur)) = Len(c_pend) + Len(c_cur)
    BY <1>4, <1>5, <2>3
  <2>5. Encoded'  BY <1>4, <1>5, <1>7, <1>8, <2>1, <2>2, <2>3, <2>4, Zenon DEF Encoded
  <2>6. InSession'  BY <1>1, <2>1 DEF InSession
  <2>7. Connections' /\ AtRest'
    BY <1>1, <1>2, <1>3, <2>1, Unchanged, QuietKeeps
  <2> QED BY <2>5, <2>6, <2>7, RestSuffices
<1> QED BY <1>6, <1>7

(* A request is sent on a connection that is at rest. *)
LEMMA SendKeeps ==
    ASSUME WireInv, cswp_client_transact_send
    PROVE  WireInv'
<1> DEFINE req == RequestBytes(c_buf, Len(c_pend), c_mode)
           x == up[conn] \o req
           u == [up EXCEPT ![conn] = x]
<1>1. InSession /\ Encoded /\ Connections  BY DEF WireInv
<1>2. c_pc = "encode" /\ todo # <<>>  BY <1>1 DEF cswp_client_transact_send, InSession
<1>3. AtRest  BY <1>2, NotWaiting
<1>4. up' = u  BY Zenon DEF cswp_client_transact_send
<1>5. /\ c_pc' = "receive" /\ down' = down /\ open' = open /\ s_pc' = s_pc /\ s_resp' = s_resp
      /\ todo' = todo /\ c_cur' = c_cur /\ c_mode' = c_mode /\ c_buf' = c_buf /\ c_pend' = c_pend
      /\ conn' = conn
  BY DEF cswp_client_transact_send, srvVars
<1>6. List(up) /\ Len(up) = Len(open)  BY <1>1 DEF Connections
<1>7. /\ List(u) /\ Len(u) = Len(up)
      /\ Len(up) >= 1 => u[1] = IF conn = 1 THEN x ELSE up[1]
  <2> HIDE DEF x
  <2> QED BY <1>6, ListExcept
<1> HIDE DEF u
<1>8. InSession'  BY <1>1, <1>2, <1>5 DEF InSession
<1>9. Encoded'  BY <1>1, <1>2, <1>5 DEF Encoded
<1>10. Connections'  BY <1>1, <1>4, <1>5, <1>6, <1>7 DEF Connections
<1>11. Served' /\ ParsedAsSent'  BY <1>3, <1>5 DEF AtRest, Served, ParsedAsSent
<1>12. TakeTurns'
  <2> SUFFICES ASSUME Len(open) >= 1
               PROVE  (u[1] = <<>> \/ Asked') /\ down'[1] = <<>>
    BY <1>4, <1>5 DEF TakeTurns
  <2>1. up[1] = <<>> /\ down[1] = <<>>  BY <1>2, <1>3 DEF AtRest
  <2>2. CASE conn = 1
    <3>1. u[1] = x  BY <1>6, <1>7, <2>2
    <3>2. x = <<>> \o req  BY <2>1, <2>2
    <3>3. s_pc # "run"  BY <1>3 DEF AtRest
    <3>4. Asked'  BY <1>4, <1>5, <2>1, <2>2, <3>1, <3>2, <3>3, Zenon DEF Asked
    <3> QED BY <1>5, <2>1, <3>4
  <2>3. CASE conn # 1  BY <1>5, <1>6, <1>7, <2>1, <2>3
  <2> QED BY <2>2, <2>3
<1> QED BY <1>8, <1>9, <1>10, <1>11, <1>12 DEF WireInv

(* The client takes the whole response off the connection, or ends the     *)
(* session.                                                                *)
LEMMA ReceiveKeeps ==
    ASSUME WireInv, cswp_client_transact_receive
    PROVE  WireInv'
<1> DEFINE packet == Head(down[conn])
           n == IF Len(packet) <= BufferSize THEN Len(packet) ELSE BufferSize
           hdr == get_varint(get_uint32(Reader(SubSeq(packet, 1, n))))
           rest == SubSeq(packet, n + 1, Len(packet))
           x == (IF rest = <<>> THEN <<>> ELSE <<rest>>) \o Tail(down[conn])
           left == [down EXCEPT ![conn] = x]
<1>1. InSession /\ Encoded /\ Connections  BY DEF WireInv
<1>2. /\ c_pc = "receive" /\ down[conn] # <<>> /\ todo # <<>> /\ UNCHANGED srvVars
      /\ c_cur' = c_cur /\ c_pend' = c_pend
  BY <1>1 DEF cswp_client_transact_receive, InSession
<1>3. s_pc # "run"  BY <1>2 DEF WireInv, Served
<1>4. Len(open) >= 1 =>
         /\ up[1] = <<>>
         /\ conn # 1 => down[1] = <<>>
         /\ conn = 1 => \E p : HasSize(p) /\ down[1] = <<p>>
  BY <1>2 DEF WireInv, TakeTurns, Asked, Answered
<1>5. c_cur \in Seq(Commands) /\ c_pend \in Seq(Commands) /\ c_mode \in Byte
  BY <1>1 DEF Encoded
<1>6. CASE Finish(CSWP_RESPONSE_SIZE_ERR)
  <2>1. CSWP_RESPONSE_SIZE_ERR # CSWP_SUCCESS  BY DEF CSWP_RESPONSE_SIZE_ERR, CSWP_SUCCESS
  <2> DEFINE err == CSWP_RESPONSE_SIZE_ERR
  <2> HIDE DEF err
  <2>2. Finish(err) /\ err # CSWP_SUCCESS  BY <1>6, <2>1 DEF err
  <2>3. InSession' /\ Encoded' /\ Quiet /\ todo' = <<>>
    BY <1>1, <1>2, <1>5, <2>2, Finishing
  <2>4. Connections'  BY <1>1, <2>3, QuietKeeps
  <2>5. AtRest'  BY <1>3, <1>4, <2>3 DEF AtRest, Quiet
  <2> QED BY <2>3, <2>4, <2>5, RestSuffices
<1>7. CASE ~ Finish(CSWP_RESPONSE_SIZE_ERR)
  <2>1. /\ ~ (hdr.out[1][1] > n) /\ down' = left /\ c_pc' = "verify"
        /\ up' = up /\ open' = open /\ todo' = todo /\ c_mode' = c_mode
    BY <1>7, Zenon DEF cswp_client_transact_receive
  <2>2. InSession'  BY <1>1, <1>2, <2>1 DEF InSession
  <2>3. Encoded'  BY <1>2, <1>5, <2>1 DEF Encoded
  <2>4. List(down) /\ Len(down) = Len(open)  BY <1>1 DEF Connections
  <2>5. /\ List(left) /\ Len(left) = Len(down)
        /\ Len(down) >= 1 => left[1] = IF conn = 1 THEN x ELSE down[1]
    <3> HIDE DEF x
    <3> QED BY <2>4, ListExcept
  <2> HIDE DEF left
  <2>6. Connections'  BY <1>1, <1>2, <2>1, <2>4, <2>5 DEF Connections, srvVars
  <2>7. ASSUME Len(open) >= 1, conn = 1 PROVE x = <<>>
    <3>1. PICK p : HasSize(p) /\ down[1] = <<p>>  BY <1>4, <2>7
    <3>2. packet = p /\ Tail(down[conn]) = <<>>
      <4>1. Head(<<p>>) = p /\ Tail(<<p>>) = <<>>  OBVIOUS
      <4> QED BY <2>7, <3>1, <4>1
    <3>3. p \in Seq(Byte) /\ Len(p) \in Nat /\ Len(p) >= 4  BY <3>1 DEF HasSize
    <3>4. BufferSize \in Nat /\ BufferSize >= 4
      BY BufferAssumption DEF CSWP_REQ_HEADER_SIZE
    <3> HIDE DEF packet
    <3>5. n \in Nat /\ 4 <= n /\ n <= Len(p)  BY <3>2, <3>3, <3>4
    <3> HIDE DEF n
    <3>6. hdr.out[1][1] = Len(p)  BY <3>1, <3>2, <3>5, ClientSize
    <3>7. n = Len(p)  BY <2>1, <3>3, <3>5, <3>6
    <3>8. rest = <<>>
      <4>1. SubSeq(p, n + 1, n) = <<>>  BY <3>3, <3>5
      <4> QED BY <3>2, <3>7, <4>1
    <3> HIDE DEF rest
    <3>9. x = <<>> \o <<>>  BY <3>2, <3>8
    <3> QED BY <3>9
  <2> HIDE DEF x
  <2>8. AtRest'
    BY <1>2, <1>3, <1>4, <2>1, <2>4, <2>5, <2>7 DEF AtRest, srvVars
  <2> QED BY <2>2, <2>3, <2>6, <2>8, RestSuffices
<1> QED BY <1>6, <1>7

LEMMA VerifyKeeps ==
    ASSUME WireInv, verify_next \/ end_request
    PROVE  WireInv'
<1>1. InSession /\ Encoded /\ Connections  BY DEF WireInv
<1>2. /\ c_pc = "verify" /\ todo # <<>> /\ UNCHANGED srvVars
      /\ c_cur' = c_cur /\ c_pend' = c_pend
  BY <1>1 DEF verify_next, end_request, InSession
<1>3. AtRest  BY <1>2, NotWaiting
<1>4. c_cur \in Seq(Commands) /\ c_pend \in Seq(Commands)  BY <1>1 DEF Encoded
<1>5. ASSUME NEW res, Finish(res) PROVE WireInv'
  <2>1. InSession' /\ Encoded' /\ Quiet  BY <1>1, <1>2, <1>4, <1>5, Finishing
  <2>2. Connections' /\ AtRest'  BY <1>1, <1>2, <1>3, <2>1, QuietKeeps
  <2> QED BY <2>1, <2>2, RestSuffices
<1>6. CASE UNCHANGED <<netVars, c_pc, todo, c_mode>>
  <2>1. InSession'  BY <1>1, <1>6 DEF InSession
  <2>2. Encoded'  BY <1>1, <1>2, <1>6 DEF Encoded
  <2>3. Connections' /\ AtRest'  BY <1>1, <1>2, <1>3, <1>6, Unchanged, QuietKeeps
  <2> QED BY <2>1, <2>2, <2>3, RestSuffices
<1>7. (\E res : Finish(res)) \/ UNCHANGED <<netVars, c_pc, todo, c_mode>>
  <2>1. CASE end_request  BY <2>1 DEF end_request
  <2>2. CASE verify_next
    <3>1. PICK r : IF r.res # CSWP_SUCCESS THEN Finish(r.res)
                   ELSE UNCHANGED <<netVars, c_pc, todo, c_mode, c_res, conn, connected>>
      BY <2>2, Zenon DEF verify_next
    <3> QED BY <3>1
  <2> QED BY <2>1, <2>2
<1> QED BY <1>5, <1>6, <1>7

LEMMA ExitKeeps ==
    ASSUME WireInv, exit
    PROVE  WireInv'
<1> DEFINE o == [c \in DOMAIN open |-> FALSE]
<1>1. InSession /\ Encoded /\ Connections  BY DEF WireInv
<1>2. /\ c_pc = "next" /\ c_pc' = "done" /\ todo = <<>> /\ todo' = todo /\ open' = o
      /\ up' = up /\ down' = down /\ UNCHANGED srvVars
      /\ c_cur' = c_cur /\ c_pend' = c_pend /\ c_mode' = c_mode
  BY DEF exit
<1>3. AtRest  BY <1>2, NotWaiting
<1>4. List(o) /\ Len(o) = Len(open)
  <2>1. PICK n \in Nat : \E T : open \in [1 .. n -> T]  BY <1>1 DEF Connections, List
  <2>2. DOMAIN open = 1 .. n /\ Len(open) = n  BY <2>1
  <2>3. o \in [1 .. n -> {FALSE}] /\ Len(o) = n  BY <2>1, <2>2
  <2> QED BY <2>1, <2>2, <2>3 DEF List
<1> HIDE DEF o
<1>5. Quiet  BY <1>2, <1>4 DEF Quiet, srvVars
<1>6. Connections' /\ AtRest'  BY <1>1, <1>2, <1>3, <1>5, QuietKeeps
<1>7. InSession'  BY <1>1, <1>2 DEF InSession
<1>8. Encoded'  BY <1>1, <1>2 DEF Encoded
<1> QED BY <1>6, <1>7, <1>8, RestSuffices

LEMMA ServerKeepsSession ==
    ASSUME WireInv, UNCHANGED clientVars
    PROVE  InSession' /\ Encoded'
BY DEF WireInv, clientVars, InSession, Encoded

(* The server finds in a request what the client put there. *)
LEMMA ReadKeeps ==
    ASSUME WireInv, RequestFits, read_request, UNCHANGED clientVars
    PROVE  WireInv'
<1> DEFINE sent == RequestBytes(c_buf, Len(c_pend), c_mode)
           req == <<>> \o sent
           x == Unread(up[1])
           u == [up EXCEPT ![1] = x]
<1>1. InSession /\ Encoded /\ Connections  BY DEF WireInv
<1>2. /\ s_pc = "read" /\ up[1] # <<>> /\ up' = u /\ down' = down /\ open' = open
      /\ s_resp' = s_resp /\ Len(open) >= 1
  BY <1>1 DEF read_request, Connections
<1>3. /\ c_pc' = c_pc /\ conn' = conn /\ c_pend' = c_pend /\ c_mode' = c_mode /\ todo' = todo
      /\ c_buf' = c_buf
  BY DEF clientVars
<1>4. InSession' /\ Encoded'  BY ServerKeepsSession
<1>5. /\ c_pc = "receive" /\ conn = 1 /\ down[1] = <<>> /\ up[1] = req
  BY <1>2 DEF WireInv, TakeTurns, Asked
<1>6. List(up) /\ Len(up) = Len(open)  BY <1>1 DEF Connections
<1>7. x = <<>> /\ Received(up[1]) = req
  <2>1. PICK n \in Nat : \E T : up \in [1 .. n -> T]  BY <1>6 DEF List
  <2>2. DOMAIN up = 1 .. n /\ Len(up) = n  BY <2>1
  <2>3. 1 \in DOMAIN up  BY <1>2, <1>6, <2>1, <2>2
  <2>4. Len(up[1]) <= ReadSize  BY <2>3 DEF RequestFits
  <2> HIDE DEF req
  <2> QED BY <1>5, <2>4, Zenon DEF Received, Unread
<1>8. List(u) /\ Len(u) = Len(up) /\ u[1] = x
  <2> DEFINE one == 1
  <2> HIDE DEF x, one
  <2>1. /\ List([up EXCEPT ![one] = x]) /\ Len([up EXCEPT ![one] = x]) = Len(up)
        /\ Len(up) >= 1 => [up EXCEPT ![one] = x][1] = IF one = 1 THEN x ELSE up[1]
    BY <1>6, ListExcept
  <2> QED BY <1>2, <1>6, <2>1 DEF one
<1> HIDE DEF u, x, req, sent
<1>9. Connections'  BY <1>1, <1>2, <1>6, <1>8 DEF Connections
<1>10. TakeTurns'  BY <1>2, <1>3, <1>5, <1>7, <1>8 DEF TakeTurns
<1>11. Served'  BY <1>2, <1>3, <1>5, <1>7, <1>8 DEF Served
<1>12. ParsedAsSent'
  <2>1. CASE Len(req) <= 6
    <3>1. s_pc' = "exit"  BY <1>7, <2>1 DEF read_request
    <3> QED BY <3>1 DEF ParsedAsSent
  <2>2. CASE ~ (Len(req) <= 6)
    <3> DEFINE msg == process_incoming_data(req)
    <3>1. s_cmds' = msg.cmds /\ s_mode' = msg.mode
      BY <1>7, <2>2, Zenon DEF read_request
    <3>2. /\ c_pend \in Seq(Commands) /\ c_mode \in Byte /\ (~c_buf.cut => Holds(c_buf, c_pend))
          /\ Len(c_pend) + Len(c_cur) \in Int31 /\ c_cur \in Seq(Commands)
      BY <1>1, <1>5 DEF Encoded
    <3>3. Len(c_pend) \in Int31
      <4>1. Len(c_pend) \in Nat /\ Len(c_cur) \in Nat  BY <3>2
      <4> QED BY <3>2, <4>1, SMT DEF Int31
    <3>4. ASSUME ~c_buf.cut PROVE AsSent(msg, c_mode, c_pend)
      <4>1. Holds(c_buf, c_pend)  BY <3>2, <3>4
      <4>2. sent \in Seq(Byte)  BY <3>2, <3>3, <4>1, RequestShape DEF sent
      <4>3. AsSent(process_incoming_data(sent), c_mode, c_pend)
        BY <3>2, <3>3, <4>1, RequestParsed DEF sent
      <4>4. req = sent  BY <4>2 DEF req
      <4> HIDE DEF req
      <4> QED BY <4>3, <4>4
    <3> HIDE DEF msg
    <3> QED BY <1>3, <3>1, <3>4, Zenon DEF AsSent, ParsedAsSent
  <2> QED BY <2>1, <2>2
<1> QED BY <1>4, <1>9, <1>10, <1>11, <1>12 DEF WireInv

LEMMA ServeKeeps ==
    ASSUME WireInv, start_server \/ serve_command \/ client_disconnected, UNCHANGED clientVars
    PROVE  WireInv'
<1>1. InSession /\ Encoded /\ Connections /\ TakeTurns /\ Served /\ ParsedAsSent  BY DEF WireInv
<1>2. InSession' /\ Encoded'  BY ServerKeepsSession
<1>3. /\ up' = up /\ down' = down /\ open' = open /\ s_cmds' = s_cmds /\ s_mode' = s_mode
  BY DEF start_server, serve_command, client_disconnected, netVars
<1>4. /\ c_pc' = c_pc /\ conn' = conn /\ c_pend' = c_pend /\ c_mode' = c_mode /\ todo' = todo
      /\ c_buf' = c_buf
  BY DEF clientVars
<1>5. s_resp'.n \in Nat
  <2>1. s_resp.n \in Nat  BY <1>1 DEF Connections
  <2>2. CASE serve_command
    <3>1. PICK b : s_resp' = response_add(s_resp, b)  BY <2>2, Zenon DEF serve_command
    <3>2. s_resp'.n = s_resp.n + 1  BY <3>1 DEF response_add
    <3> QED BY <2>1, <3>2
  <2>3. CASE start_server \/ client_disconnected
    BY <2>1, <2>3 DEF start_server, client_disconnected
  <2> QED BY <2>2, <2>3
<1>6. s_pc' = s_pc \/ (s_pc' = "read" /\ Len(open) >= 1) \/ s_pc' = "exit"
  <2>1. CASE start_server
    <3>1. PICK n \in Nat : \E T : open \in [1 .. n -> T]  BY <1>1 DEF Connections, List
    <3>2. DOMAIN open = 1 .. n /\ Len(open) = n  BY <3>1
    <3>3. n >= 1  BY <2>1, <3>1, <3>2 DEF start_server
    <3> QED BY <2>1, <3>2, <3>3 DEF start_server
  <2>2. CASE serve_command \/ client_disconnected
    BY <2>2 DEF serve_command, client_disconnected
  <2> QED BY <2>1, <2>2
<1>7. Connections'  BY <1>1, <1>3, <1>5, <1>6 DEF Connections
<1>8. Served'  BY <1>1, <1>3, <1>4, <1>6 DEF Served
<1>9. TakeTurns'  BY <1>1, <1>3, <1>4, <1>6 DEF TakeTurns, Asked, Answered
<1>10. ParsedAsSent'  BY <1>1, <1>3, <1>4, <1>6 DEF ParsedAsSent
<1> QED BY <1>2, <1>7, <1>8, <1>9, <1>10 DEF WireInv

(* A response is sent to a client that waits for it. *)
LEMMA RespondKeeps ==
    ASSUME WireInv, ResponseFits, response_send, UNCHANGED clientVars
    PROVE  WireInv'
<1> DEFINE count == encode_varint[s_resp.n]
           bytes == s_resp.bytes
           n == Len(bytes) + 4 + Len(count)
           packet == encode_uint32(n) \o count \o bytes
           x == Append(down[1], packet)
           d == [down EXCEPT ![1] = x]
<1>1. InSession /\ Encoded /\ Connections /\ TakeTurns /\ Served  BY DEF WireInv
<1>2. InSession' /\ Encoded'  BY ServerKeepsSession
<1>3. /\ s_pc = "run" /\ up' = up /\ open' = open /\ s_resp' = NoResponse
      /\ s_pc' = "read" \/ s_pc' = "exit"
  BY DEF response_send
<1>4. down' = down \/ down' = d  BY Zenon DEF response_send
<1>5. c_pc' = c_pc /\ conn' = conn /\ todo' = todo  BY DEF clientVars
<1>6. /\ c_pc = "receive" /\ conn = 1 /\ up[1] = <<>> /\ down[1] = <<>> /\ Len(open) >= 1
  BY <1>1, <1>3 DEF Served, Connections
<1>7. List(down) /\ Len(down) = Len(open) /\ s_resp.n \in Nat  BY <1>1 DEF Connections
<1>8. count \in Seq(Byte)  BY <1>7, ServerVarintBytes
<1>9. bytes \in Seq(Byte)
  BY DEF ResponseFits
<1>10. HasSize(packet)
  <2>1. InFourBytes(n)  BY Zenon DEF ResponseFits
  <2> HIDE DEF count, bytes
  <2> QED BY <1>8, <1>9, <2>1, PacketSized
<1> HIDE DEF packet
<1>11. x = <<packet>>  BY <1>6
<1> HIDE DEF x
<1>12. List(d) /\ Len(d) = Len(down) /\ d[1] = x
  <2> DEFINE one == 1
  <2> HIDE DEF one
  <2>1. /\ List([down EXCEPT ![one] = x]) /\ Len([down EXCEPT ![one] = x]) = Len(down)
        /\ Len(down) >= 1 => [down EXCEPT ![one] = x][1] = IF one = 1 THEN x ELSE down[1]
    BY <1>7, ListExcept
  <2> QED BY <1>6, <1>7, <2>1 DEF one
<1> HIDE DEF d
<1>13. NoResponse.n = 0  BY DEF NoResponse
<1>14. Connections'  BY <1>1, <1>3, <1>4, <1>6, <1>7, <1>12, <1>13 DEF Connections
<1>15. Served' /\ ParsedAsSent'  BY <1>3 DEF Served, ParsedAsSent
<1>16. TakeTurns'
  BY <1>3, <1>4, <1>5, <1>6, <1>10, <1>11, <1>12 DEF TakeTurns, Answered
<1> QED BY <1>2, <1>14, <1>15, <1>16 DEF WireInv

(* In every legal session, with any number of calls, connections and       *)
(* commands, whatever the two processes interleave: while the server works *)
(* on a request, the commands and the error mode its parser found are the  *)
(* commands and the batch mode the client sent, unless cswp_device_reg_    *)
(* write cut off pairs of this very request (ParsedAsSent).  Two premises  *)
(* exclude what the code does not handle: no request exceeds the one read  *)
(* of the server, 4095 bytes in the code (the client's buffer holds 16384, *)
(* and the rest of a longer request would be taken for the next one), and  *)
(* every answer has a length that its 32-bit size tells.                   *)
THEOREM SessionParsedAsSent ==
    ASSUME LegalSessions
    PROVE  Spec /\ []RequestFits /\ []ResponseFits => []ParsedAsSent
<1>1. Init => WireInv
  <2> SUFFICES ASSUME Init PROVE WireInv
    OBVIOUS
  <2>1. /\ up = <<>> /\ down = <<>> /\ open = <<>> /\ s_pc = "accept" /\ s_resp = NoResponse
        /\ todo \in Sessions /\ c_pc = "next" /\ c_cur = <<>> /\ c_pend = <<>>
        /\ c_mode = BATCH_NONE
    BY DEF Init, InitServer
  <2>2. InSession  BY <2>1 DEF InSession, LegalSessions
  <2>3. <<>> \in Seq(Commands) /\ BATCH_NONE \in Byte  BY DEF BATCH_NONE, Byte
  <2>4. Encoded  BY <2>1, <2>3 DEF Encoded
  <2>5. List(<<>>) /\ Len(<<>>) = 0
    <3>1. <<>> \in [1 .. 0 -> {}] /\ 0 \in Nat  OBVIOUS
    <3> QED BY <3>1 DEF List
  <2>6. NoResponse.n \in Nat  BY DEF NoResponse
  <2>7. Connections  BY <2>1, <2>5, <2>6 DEF Connections
  <2>8. TakeTurns /\ Served /\ ParsedAsSent
    BY <2>1, <2>5 DEF TakeTurns, Served, ParsedAsSent
  <2> QED BY <2>2, <2>4, <2>7, <2>8 DEF WireInv
<1>2. WireInv /\ RequestFits /\ ResponseFits /\ [Next]_vars => WireInv'
  <2> SUFFICES ASSUME WireInv, RequestFits, ResponseFits, [Next]_vars PROVE WireInv'
    OBVIOUS
  <2>1. CASE setup_cdebug \/ cleanup_cdebug \/ begin_request \/ cswp_init \/ cswp_term
    BY <2>1, CallsKeep
  <2>2. CASE encode_command  BY <2>2, EncodeKeeps
  <2>3. CASE cswp_client_transact_send  BY <2>3, SendKeeps
  <2>4. CASE cswp_client_transact_receive  BY <2>4, ReceiveKeeps
  <2>5. CASE verify_next \/ end_request  BY <2>5, VerifyKeeps
  <2>6. CASE exit  BY <2>6, ExitKeeps
  <2>7. CASE Server
    <3>1. UNCHANGED clientVars  BY <2>7 DEF Server
    <3>2. CASE read_request  BY <3>1, <3>2, ReadKeeps
    <3>3. CASE response_send  BY <3>1, <3>3, RespondKeeps
    <3>4. CASE start_server \/ serve_command \/ client_disconnected
      BY <3>1, <3>4, ServeKeeps
    <3> QED BY <2>7, <3>2, <3>3, <3>4 DEF Server, NextServer
  <2>8. CASE UNCHANGED vars
    BY <2>8 DEF vars, netVars, srvVars, clientVars, WireInv, InSession, Encoded, Connections,
                TakeTurns, Asked, Answered, Served, ParsedAsSent
  <2>9. NextClient \/ Server \/ UNCHANGED vars  BY DEF Next
  <2> QED BY <2>1, <2>2, <2>3, <2>4, <2>5, <2>6, <2>7, <2>8, <2>9 DEF NextClient
<1>3. WireInv => ParsedAsSent  BY DEF WireInv
<1> QED BY <1>1, <1>2, <1>3, PTL DEF Spec

-----------------------------------------------------------------------------
(***************************************************************************)
(* The commands of ccu are legal sessions.                                 *)
(***************************************************************************)
LEMMA CmdLegal ==
    ASSUME NEW fs, IsRequest(fs), NEW room \in Nat
    PROVE  Cmd(fs, room) \in Commands
<1>1. fs \in Seq(Fields)  BY RequestsReadBack DEF ReadsBack
<1> QED BY <1>1, Zenon DEF Cmd, Commands

LEMMA CallLegal ==
    ASSUME NEW name \in {"connect", "disconnect", "request", "init", "term"}, NEW mode \in Modes,
           NEW cmds \in Seq(Commands), Len(cmds) \in Int31
    PROVE  [call |-> name, mode |-> mode, cmds |-> cmds] \in Calls
BY DEF Calls

LEMMA FixedCallsLegal ==
    /\ Connect \in Calls /\ Disconnect \in Calls
    /\ \A cmd \in Commands : <<cmd>> \in Seq(Commands) /\ Len(<<cmd>>) \in Int31
    /\ BATCH_NONE \in Modes /\ BATCH_ABORT \in Modes
<1>1. BATCH_NONE \in Modes /\ BATCH_ABORT \in Modes  BY DEF Modes
<1>2. <<>> \in Seq(Commands) /\ Len(<<>>) \in Int31  BY DEF Int31
<1> DEFINE none == <<>>
<1>3. none \in Seq(Commands) /\ Len(none) \in Int31  BY <1>2
<1> HIDE DEF none
<1>4. /\ [call |-> "connect", mode |-> BATCH_NONE, cmds |-> none] \in Calls
      /\ [call |-> "disconnect", mode |-> BATCH_NONE, cmds |-> none] \in Calls
  BY <1>1, <1>3, CallLegal
<1>5. Connect \in Calls /\ Disconnect \in Calls  BY <1>4 DEF Connect, Disconnect, none
<1>6. \A cmd \in Commands : <<cmd>> \in Seq(Commands) /\ Len(<<cmd>>) \in Int31  BY DEF Int31
<1> QED BY <1>1, <1>5, <1>6

LEMMA RequestLegal ==
    ASSUME NEW mode \in Modes, NEW cmds \in Seq(Commands), Len(cmds) \in Int31
    PROVE  <<Connect, Request(mode, cmds), Disconnect>> \in Seq(Calls)
<1> DEFINE r == Request(mode, cmds)
<1>1. r \in Calls  BY CallLegal DEF Request
<1> HIDE DEF r
<1>2. Connect \in Calls /\ Disconnect \in Calls  BY FixedCallsLegal
<1>3. <<Connect, r, Disconnect>> \in Seq(Calls)  BY <1>1, <1>2
<1> QED BY <1>3 DEF r

LEMMA SingleLegal ==
    ASSUME NEW fs, IsRequest(fs), NEW room \in Nat
    PROVE  Single(Cmd(fs, room)) \in Seq(Calls)
<1> DEFINE c == Cmd(fs, room)
           s == <<c>>
<1>1. c \in Commands  BY CmdLegal
<1> HIDE DEF c
<1>2. s \in Seq(Commands) /\ Len(s) \in Int31 /\ BATCH_NONE \in Modes  BY <1>1, FixedCallsLegal
<1> HIDE DEF s
<1>3. <<Connect, Request(BATCH_NONE, s), Disconnect>> \in Seq(Calls)  BY <1>2, RequestLegal
<1> QED BY <1>3, Zenon DEF Single, s, c

LEMMA TransferLegal ==
    ASSUME NEW cmds \in Seq(Commands), Len(cmds) \in Int31
    PROVE  Transfer(cmds) \in Seq(Calls)
<1>1. CASE Len(cmds) = 1
  <2> DEFINE c == cmds[1]
             s == <<c>>
  <2>1. c \in Commands  BY <1>1
  <2> HIDE DEF c
  <2>2. s \in Seq(Commands) /\ Len(s) \in Int31 /\ BATCH_NONE \in Modes  BY <2>1, FixedCallsLegal
  <2> HIDE DEF s
  <2>3. <<Connect, Request(BATCH_NONE, s), Disconnect>> \in Seq(Calls)  BY <2>2, RequestLegal
  <2> QED BY <1>1, <2>3, Zenon DEF Transfer, Single, s, c
<1>2. CASE Len(cmds) # 1
  <2>1. <<Connect, Request(BATCH_ABORT, cmds), Disconnect>> \in Seq(Calls)
    BY FixedCallsLegal, RequestLegal
  <2> QED BY <1>2, <2>1, Zenon DEF Transfer
<1> QED BY <1>1, <1>2

LEMMA SmallLegal ==
    /\ 0 \in Int31 /\ 1 \in Int31 /\ 2 \in Int31 /\ 3 \in Int31 /\ CLIENT_PROTOCOL_V \in Int31
    /\ CLIENT_ID_STR \in Strings
    /\ MAX_NAME_LEN \in Nat /\ MAX_NUM_DEVICES = 3
<1>1. /\ 0 \in Int31 /\ 1 \in Int31 /\ 2 \in Int31 /\ 3 \in Int31 /\ CLIENT_PROTOCOL_V \in Int31
      /\ MAX_NAME_LEN \in Nat /\ MAX_NUM_DEVICES = 3
  BY SMT DEF Int31, CLIENT_PROTOCOL_V, MAX_NAME_LEN, MAX_NUM_DEVICES
<1>2. <<67>> \in Seq(Byte) /\ Len(<<67>>) = 1  BY SMT DEF Byte
<1>3. CLIENT_ID_STR \in Strings  BY <1>1, <1>2 DEF Strings, CLIENT_ID_STR
<1> QED BY <1>1, <1>3

(* The batches that open and close every device. *)
LEMMA BatchLegal ==
    OpenAll \in Calls /\ CloseAll \in Calls
<1> DEFINE O(d) == Cmd(encode_device_open_command(d - 1), MAX_NAME_LEN)
           C(d) == Cmd(encode_device_close_command(d - 1), 0)
           os == [d \in 1 .. 3 |-> O(d)]
           cs == [d \in 1 .. 3 |-> C(d)]
<1>1. ASSUME NEW d \in 1 .. 3 PROVE O(d) \in Commands /\ C(d) \in Commands
  <2> DEFINE k == d - 1
  <2>1. k \in Int31
    <3>1. k = 0 \/ k = 1 \/ k = 2  OBVIOUS
    <3> QED BY <3>1, SmallLegal
  <2> HIDE DEF k
  <2>2. IsRequest(encode_device_open_command(k)) /\ IsRequest(encode_device_close_command(k))
    BY <2>1, Zenon DEF IsRequest
  <2>3. MAX_NAME_LEN \in Nat /\ 0 \in Nat  BY SmallLegal
  <2>4. Cmd(encode_device_open_command(k), MAX_NAME_LEN) \in Commands
    <3> DEFINE fs == encode_device_open_command(k)
    <3> HIDE DEF fs
    <3> QED BY <2>2, <2>3, CmdLegal DEF fs
  <2>5. Cmd(encode_device_close_command(k), 0) \in Commands
    <3> DEFINE fs == encode_device_close_command(k)
               z == 0
    <3>1. z \in Nat  OBVIOUS
    <3> HIDE DEF fs, z
    <3>2. Cmd(fs, z) \in Commands  BY <2>2, <3>1, CmdLegal DEF fs
    <3> QED BY <3>2 DEF fs, z
  <2> QED BY <2>4, <2>5 DEF k
<1> HIDE DEF O, C
<1>2. os \in Seq(Commands) /\ Len(os) = 3 /\ cs \in Seq(Commands) /\ Len(cs) = 3  BY <1>1
<1> HIDE DEF os, cs
<1>3. Request(BATCH_ABORT, os) \in Calls /\ Request(BATCH_ABORT, cs) \in Calls
  <2>1. Len(os) \in Int31 /\ Len(cs) \in Int31 /\ BATCH_ABORT \in Modes
    BY <1>2, SmallLegal, FixedCallsLegal
  <2>2. /\ [call |-> "request", mode |-> BATCH_ABORT, cmds |-> os] \in Calls
        /\ [call |-> "request", mode |-> BATCH_ABORT, cmds |-> cs] \in Calls
    BY <1>2, <2>1, CallLegal
  <2> QED BY <2>2, Zenon DEF Request
<1>4. OpenAll = Request(BATCH_ABORT, os) /\ CloseAll = Request(BATCH_ABORT, cs)
  BY Zenon DEF OpenAll, CloseAll, MAX_NUM_DEVICES, os, cs, O, C
<1> QED BY <1>3, <1>4

(* ccu -init and ccu -term. *)
LEMMA InitTermLegal ==
    init_cswp \in Seq(Calls) /\ term_cswp \in Seq(Calls)
<1>1. CswpInit \in Calls
  <2> DEFINE fs == encode_init_command(CLIENT_PROTOCOL_V, CLIENT_ID_STR)
             c == Cmd(fs, MAX_NAME_LEN)
             s == <<c>>
  <2>1. CLIENT_PROTOCOL_V \in Int31 /\ CLIENT_ID_STR \in Strings  BY SmallLegal
  <2>a. IsRequest(fs)  BY <2>1, Zenon DEF IsRequest
  <2> HIDE DEF fs
  <2>2. c \in Commands  BY <2>a, SmallLegal, CmdLegal
  <2> HIDE DEF c
  <2>3. s \in Seq(Commands) /\ Len(s) \in Int31 /\ BATCH_NONE \in Modes  BY <2>2, FixedCallsLegal
  <2> HIDE DEF s
  <2>4. [call |-> "init", mode |-> BATCH_NONE, cmds |-> s] \in Calls  BY <2>3, CallLegal
  <2> QED BY <2>4, Zenon DEF CswpInit, Init_, s, c, fs
<1>2. Term \in Calls
  <2> DEFINE fs == encode_term_command
             z == 0
             c == Cmd(fs, z)
             s == <<c>>
  <2>1. IsRequest(fs) /\ z \in Nat  BY Zenon DEF IsRequest
  <2> HIDE DEF fs, z
  <2>2. c \in Commands  BY <2>1, CmdLegal
  <2> HIDE DEF c
  <2>3. s \in Seq(Commands) /\ Len(s) \in Int31 /\ BATCH_NONE \in Modes  BY <2>2, FixedCallsLegal
  <2> HIDE DEF s
  <2>4. [call |-> "term", mode |-> BATCH_NONE, cmds |-> s] \in Calls  BY <2>3, CallLegal
  <2> QED BY <2>4, Zenon DEF Term, s, c, fs, z
<1>3. /\ OpenAll \in Calls /\ CloseAll \in Calls /\ Connect \in Calls /\ Disconnect \in Calls
  BY BatchLegal, FixedCallsLegal
<1>4. <<CswpInit, OpenAll, Disconnect>> \in Seq(Calls)  BY <1>1, <1>3
<1>5. <<Connect, CloseAll, Term>> \in Seq(Calls)  BY <1>2, <1>3
<1> QED BY <1>4, <1>5 DEF init_cswp, term_cswp

Subrequests == { s \in Seq([saddr : UInt64, size : Int31, acc_sz : Int31]) : Len(s) \in Int31 }

LEMMA SubLegal ==
    ASSUME NEW dev \in Int31, NEW sub \in [saddr : UInt64, size : Int31, acc_sz : Int31]
    PROVE  /\ Cmd(encode_mem_read_command(dev, sub.saddr, sub.size, sub.acc_sz, 0), sub.size)
                  \in Commands
           /\ Cmd(encode_mem_write_command(dev, sub.saddr, sub.size, sub.acc_sz, 0,
                                           [k \in 1 .. sub.size |-> k % 256]), 0) \in Commands
<1> DEFINE a == sub.saddr
           n == sub.size
           w == sub.acc_sz
           z == 0
           data == [k \in 1 .. n |-> k % 256]
           r == encode_mem_read_command(dev, a, n, w, z)
           m == encode_mem_write_command(dev, a, n, w, z, data)
<1>1. a \in UInt64 /\ n \in Int31 /\ w \in Int31 /\ z \in Int31 /\ z \in Nat  BY SmallLegal
<1> HIDE DEF a, n, w
<1>2. n \in Nat  BY <1>1 DEF Int31
<1>3. data \in Seq(Byte) /\ Len(data) = n
  <2>1. \A k \in 1 .. n : k % 256 \in Byte  BY <1>2, SMT DEF Byte
  <2> QED BY <1>2, <2>1, SMT
<1> HIDE DEF data, z
<1>4. data \in Strings  BY <1>1, <1>3 DEF Strings
<1>5. IsRequest(r)  BY <1>1, Zenon DEF IsRequest
<1>6. m = encode_mem_write_command(dev, a, Len(data), w, z, data)  BY <1>3
<1>7. IsRequest(encode_mem_write_command(dev, a, Len(data), w, z, data))
  BY <1>1, <1>4, Zenon DEF IsRequest
<1> HIDE DEF r
<1>8. Cmd(r, n) \in Commands  BY <1>2, <1>5, CmdLegal
<1>9. IsRequest(m)  BY <1>6, <1>7, Zenon
<1> HIDE DEF m
<1>10. Cmd(m, z) \in Commands  BY <1>1, <1>9, CmdLegal
<1> QED BY <1>8, <1>10 DEF r, m, a, n, w, z, data

(* The legality that SessionParsedAsSent asks of its sessions holds of the *)
(* ccu commands: the calls that init_cswp, term_cswp and the commands of   *)
(* ccu_cswp.cpp for devices, registers and memory make are legal, for      *)
(* every device, every register value, every split of a memory range and   *)
(* every register id below 2^31.  The options of ccu take any 64-bit id    *)
(* (ccu_in.cpp, extract_get_dev_reg_param): the larger ones are not legal  *)
(* here, because the server shifts the groups of a varint as ints          *)
(* (dummy_server_main.cpp, process_incoming_varint) and reads another id.  *)
THEOREM CcuSessionsLegal ==
    ASSUME NEW dev \in Int31
    PROVE  /\ {init_cswp, term_cswp, get_dev_info, get_reg_list, get_dev_cap(dev)} \subseteq Seq(Calls)
           /\ \A n, id \in Int31 : (\A i \in 1 .. n : id + 4 * (i - 1) \in Int31) =>
                 /\ get_dev_reg(dev, n, id) \in Seq(Calls)
                 /\ \A values \in [1 .. n -> UInt32] : set_dev_reg(dev, n, id, values) \in Seq(Calls)
           /\ \A subs \in Subrequests : /\ execute_get_dev_mem(dev, subs) \in Seq(Calls)
                                        /\ execute_set_dev_mem(dev, subs) \in Seq(Calls)
<1>1. get_dev_info \in Seq(Calls)
  <2> DEFINE fs == encode_get_devices_command
  <2>1. IsRequest(fs)  BY Zenon DEF IsRequest
  <2>2. MAX_NUM_DEVICES \in Nat  BY SmallLegal
  <2> HIDE DEF fs
  <2>3. Single(Cmd(fs, MAX_NUM_DEVICES)) \in Seq(Calls)  BY <2>1, <2>2, SingleLegal
  <2> QED BY <2>3, Zenon DEF get_dev_info, fs
<1>2. get_reg_list \in Seq(Calls)
  <2> DEFINE z == 0
             fs == encode_reg_list_command(z)
             room == 7200
  <2>1. z \in Int31 /\ room \in Nat  BY SmallLegal, SMT
  <2> HIDE DEF z, room
  <2>2. IsRequest(fs)  BY <2>1, Zenon DEF IsRequest
  <2> HIDE DEF fs
  <2>3. Single(Cmd(fs, room)) \in Seq(Calls)  BY <2>1, <2>2, SingleLegal
  <2> QED BY <2>3, SMT DEF get_reg_list, fs, z, room
<1>3. get_dev_cap(dev) \in Seq(Calls)
  <2> DEFINE fs == encode_get_device_capabilities_command(dev)
             z == 0
  <2>1. IsRequest(fs) /\ z \in Nat  BY Zenon DEF IsRequest
  <2> HIDE DEF fs, z
  <2>2. Single(Cmd(fs, z)) \in Seq(Calls)  BY <2>1, SingleLegal
  <2> QED BY <2>2, Zenon DEF get_dev_cap, fs, z
<1>4. ASSUME NEW n \in Int31, NEW id \in Int31, \A i \in 1 .. n : id + 4 * (i - 1) \in Int31
      PROVE  /\ get_dev_reg(dev, n, id) \in Seq(Calls)
             /\ \A values \in [1 .. n -> UInt32] : set_dev_reg(dev, n, id, values) \in Seq(Calls)
  <2> DEFINE ids == Registers(id, n)
             fs == encode_reg_read_command(dev, ids)
  <2>1. n \in Nat  BY DEF Int31
  <2>2. ids \in Seq(Int31) /\ Len(ids) = n /\ ids \in [1 .. n -> Int31]
    <3> DEFINE I(i) == id + 4 * (i - 1)
    <3>1. \A i \in 1 .. n : I(i) \in Int31  BY <1>4
    <3>2. ids = [i \in 1 .. n |-> I(i)]  BY Zenon DEF Registers
    <3> HIDE DEF I, ids
    <3> QED BY <2>1, <3>1, <3>2
  <2> HIDE DEF ids
  <2>3. ids \in Registers31  BY <2>2 DEF Registers31
  <2>4. IsRequest(fs)  BY <2>3, Zenon DEF IsRequest
  <2> HIDE DEF fs
  <2>5. Single(Cmd(fs, n)) \in Seq(Calls)  BY <2>1, <2>4, SingleLegal
  <2>6. get_dev_reg(dev, n, id) \in Seq(Calls)  BY <2>5, Zenon DEF get_dev_reg, fs, ids
  <2>7. ASSUME NEW values \in [1 .. n -> UInt32]
        PROVE  set_dev_reg(dev, n, id, values) \in Seq(Calls)
    <3> DEFINE R(i) == [id |-> ids[i], value |-> values[i]]
               regs == [i \in 1 .. n |-> R(i)]
               ws == reg_write(dev, regs)
               z == 0
    <3>1. \A i \in 1 .. n : R(i) \in [id : Int31, value : UInt32]  BY <2>2
    <3>2. set_dev_reg(dev, n, id, values) = Single(Cmd(ws, z))
      BY Zenon DEF set_dev_reg, ids
    <3> HIDE DEF R
    <3>3. regs \in Seq([id : Int31, value : UInt32]) /\ Len(regs) = n  BY <2>1, <3>1
    <3> HIDE DEF regs
    <3>4. regs \in Writes  BY <3>3 DEF Writes
    <3>5. IsRequest(ws) /\ z \in Nat  BY <3>4, Zenon DEF IsRequest
    <3> HIDE DEF ws, z
    <3>6. Single(Cmd(ws, z)) \in Seq(Calls)  BY <3>5, SingleLegal
    <3> QED BY <3>2, <3>6
  <2> QED BY <2>6, <2>7
<1>5. ASSUME NEW subs \in Subrequests
      PROVE  /\ execute_get_dev_mem(dev, subs) \in Seq(Calls)
             /\ execute_set_dev_mem(dev, subs) \in Seq(Calls)
  <2> DEFINE G(i) == Cmd(encode_mem_read_command(
                             dev, subs[i].saddr, subs[i].size, subs[i].acc_sz, 0), subs[i].size)
             P(i) == Cmd(encode_mem_write_command(
                             dev, subs[i].saddr, subs[i].size, subs[i].acc_sz, 0,
                             [k \in 1 .. subs[i].size |-> k % 256]), 0)
             gs == [i \in DOMAIN subs |-> G(i)]
             ps == [i \in DOMAIN subs |-> P(i)]
  <2>1. /\ subs \in Seq([saddr : UInt64, size : Int31, acc_sz : Int31]) /\ Len(subs) \in Int31
    BY DEF Subrequests
  <2>2. \A i \in DOMAIN subs : subs[i] \in [saddr : UInt64, size : Int31, acc_sz : Int31]
    <3> DEFINE E == [saddr : UInt64, size : Int31, acc_sz : Int31]
    <3> HIDE DEF E
    <3>1. subs \in Seq(E)  BY <2>1 DEF E
    <3>2. \A i \in DOMAIN subs : subs[i] \in E  BY <3>1
    <3> QED BY <3>2, Zenon DEF E
  <2>3. \A i \in DOMAIN subs : G(i) \in Commands /\ P(i) \in Commands
    <3> SUFFICES ASSUME NEW i \in DOMAIN subs PROVE G(i) \in Commands /\ P(i) \in Commands
      OBVIOUS
    <3>1. subs[i] \in [saddr : UInt64, size : Int31, acc_sz : Int31]  BY <2>2
    <3> DEFINE sub == subs[i]
    <3> HIDE DEF sub
    <3>2. /\ Cmd(encode_mem_read_command(dev, sub.saddr, sub.size, sub.acc_sz, 0), sub.size)
                  \in Commands
          /\ Cmd(encode_mem_write_command(dev, sub.saddr, sub.size, sub.acc_sz, 0,
                                          [k \in 1 .. sub.size |-> k % 256]), 0) \in Commands
      BY <3>1, SubLegal DEF sub
    <3> QED BY <3>2 DEF sub
  <2>4. /\ execute_get_dev_mem(dev, subs) = Transfer(gs)
        /\ execute_set_dev_mem(dev, subs) = Transfer(ps)
    BY DEF execute_get_dev_mem, execute_set_dev_mem
  <2> HIDE DEF G, P
  <2>5. gs \in Seq(Commands) /\ Len(gs) = Len(subs) /\ ps \in Seq(Commands) /\ Len(ps) = Len(subs)
    <3>1. DOMAIN subs = 1 .. Len(subs) /\ Len(subs) \in Nat  BY <2>1
    <3> QED BY <2>3, <3>1
  <2> HIDE DEF gs, ps
  <2> QED BY <2>1, <2>4, <2>5, TransferLegal
<1> QED BY <1>1, <1>2, <1>3, <1>4, <1>5, InitTermLegal
=============================================================================
