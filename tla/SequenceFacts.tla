---------------------------- MODULE SequenceFacts ----------------------------
(***************************************************************************)
(* Facts about the sequence edits the modules make (append, concatenate,   *)
(* take one out, rotate), and about sequences of numbers that grow, for    *)
(* the proofs.                                                             *)
(***************************************************************************)
EXTENDS Integers, Sequences, SequencesExt, SequenceTheorems, TLAPS

(* A piece of a sequence is a sequence of the same elements. *)
LEMMA SubSeqFacts ==
    ASSUME NEW S, NEW s \in Seq(S), NEW m \in Int, NEW n \in Int, 1 <= m, n <= Len(s)
    PROVE  /\ SubSeq(s, m, n) \in Seq(S)
           /\ Len(SubSeq(s, m, n)) = IF m <= n THEN n - m + 1 ELSE 0
           /\ \A j \in 1 .. n - m + 1 : SubSeq(s, m, n)[j] = s[m + j - 1]
           /\ ToSet(SubSeq(s, m, n)) \subseteq ToSet(s)
<1>1. \A j \in m .. n : s[j] \in S
  OBVIOUS
<1>2. /\ SubSeq(s, m, n) \in Seq(S)
      /\ Len(SubSeq(s, m, n)) = IF m <= n THEN n - m + 1 ELSE 0
      /\ \A j \in 1 .. n - m + 1 : SubSeq(s, m, n)[j] = s[m + j - 1]
  BY <1>1, SubSeqProperties
<1>3. ASSUME NEW x \in ToSet(SubSeq(s, m, n)) PROVE x \in ToSet(s)
  <2>1. PICK j \in DOMAIN SubSeq(s, m, n) : x = SubSeq(s, m, n)[j]  BY DEF ToSet
  <2>2. j \in 1 .. Len(SubSeq(s, m, n))  BY <1>2, <2>1
  <2>3. j \in 1 .. n - m + 1 /\ m + j - 1 \in DOMAIN s  BY <1>2, <2>2
  <2>4. x = s[m + j - 1]  BY <1>2, <2>1, <2>3
  <2> QED BY <2>3, <2>4 DEF ToSet
<1> QED BY <1>2, <1>3

(* The empty sequence has no elements. *)
LEMMA ToSetEmpty == ToSet(<<>>) = {}
BY DEF ToSet

(* Append adds one element. *)
LEMMA ToSetAppend ==
    ASSUME NEW S, NEW s \in Seq(S), NEW x
    PROVE  ToSet(Append(s, x)) = ToSet(s) \cup {x}
BY DEF ToSet

(* A concatenation has the elements of both parts. *)
LEMMA ToSetConcat ==
    ASSUME NEW S, NEW s \in Seq(S), NEW r \in Seq(S)
    PROVE  ToSet(s \o r) = ToSet(s) \cup ToSet(r)
<1>1. ASSUME NEW x \in ToSet(s) PROVE x \in ToSet(s \o r)
  <2>1. PICK i \in DOMAIN s : x = s[i]  BY DEF ToSet
  <2>2. i \in DOMAIN (s \o r) /\ (s \o r)[i] = x  BY <2>1
  <2> QED BY <2>2 DEF ToSet
<1>2. ASSUME NEW x \in ToSet(r) PROVE x \in ToSet(s \o r)
  <2>1. PICK i \in DOMAIN r : x = r[i]  BY DEF ToSet
  <2>2. i + Len(s) \in DOMAIN (s \o r) /\ (s \o r)[i + Len(s)] = x  BY <2>1
  <2> QED BY <2>2 DEF ToSet
<1>3. ToSet(s \o r) \subseteq ToSet(s) \cup ToSet(r)
  BY DEF ToSet
<1> QED BY <1>1, <1>2, <1>3

(* RemoveAt(s, i) shifts what follows position i one place down. *)
LEMMA RemoveAtFacts ==
    ASSUME NEW S, NEW s \in Seq(S), NEW i \in DOMAIN s
    PROVE  /\ RemoveAt(s, i) \in Seq(S)
           /\ Len(RemoveAt(s, i)) = Len(s) - 1
           /\ \A j \in 1 .. Len(s) - 1 : RemoveAt(s, i)[j] = IF j < i THEN s[j] ELSE s[j + 1]
<1> DEFINE a == SubSeq(s, 1, i - 1)
           b == SubSeq(s, i + 1, Len(s))
<1>1. i \in 1 .. Len(s) /\ Len(s) \in Nat  OBVIOUS
<1>2. a \in Seq(S) /\ Len(a) = i - 1 /\ \A j \in 1 .. i - 1 : a[j] = s[j]
  BY <1>1, SubSeqFacts
<1>3. b \in Seq(S) /\ Len(b) = Len(s) - i /\ \A j \in 1 .. Len(s) - i : b[j] = s[i + j]
  BY <1>1, SubSeqFacts
<1>4. RemoveAt(s, i) = a \o b  BY DEF RemoveAt
<1> HIDE DEF a, b
<1>5. a \o b \in Seq(S) /\ Len(a \o b) = Len(s) - 1  BY <1>1, <1>2, <1>3
<1>6. ASSUME NEW j \in 1 .. Len(s) - 1
      PROVE  (a \o b)[j] = IF j < i THEN s[j] ELSE s[j + 1]
  <2>1. CASE j < i  BY <1>1, <1>2, <1>3, <2>1
  <2>2. CASE ~(j < i)
    <3>0. \A l \in 1 .. Len(a) + Len(b) : (a \o b)[l] = IF l <= Len(a) THEN a[l] ELSE b[l - Len(a)]
      BY ONLY <1>2, <1>3, ConcatProperties, Zenon
    <3>1. (a \o b)[j] = b[j - (i - 1)]
      <4>1. j \in 1 .. Len(a) + Len(b) /\ ~(j <= Len(a))  BY <1>1, <1>2, <1>3, <2>2
      <4> QED BY <1>2, <3>0, <4>1
    <3>2. j - (i - 1) \in 1 .. Len(s) - i  BY <1>1, <2>2
    <3>3. b[j - (i - 1)] = s[i + (j - (i - 1))]  BY <1>3, <3>2
    <3> QED BY <1>1, <2>2, <3>1, <3>3
  <2> QED BY <2>1, <2>2
<1> QED BY <1>4, <1>5, <1>6

(* RemoveAt adds nothing. *)
LEMMA RemoveAtSubset ==
    ASSUME NEW S, NEW s \in Seq(S), NEW i \in DOMAIN s
    PROVE  ToSet(RemoveAt(s, i)) \subseteq ToSet(s)
<1>1. ASSUME NEW x \in ToSet(RemoveAt(s, i)) PROVE x \in ToSet(s)
  <2>1. PICK j \in DOMAIN RemoveAt(s, i) : x = RemoveAt(s, i)[j]  BY DEF ToSet
  <2>2. j \in 1 .. Len(s) - 1  BY <2>1, RemoveAtFacts
  <2>3. x = IF j < i THEN s[j] ELSE s[j + 1]  BY <2>1, <2>2, RemoveAtFacts
  <2>4. j \in DOMAIN s /\ j + 1 \in DOMAIN s  BY <2>2
  <2> QED BY <2>3, <2>4 DEF ToSet
<1> QED BY <1>1

(* Taking an element out of a sequence without repetitions. *)
LEMMA RemoveAtDistinct ==
    ASSUME NEW S, NEW s \in Seq(S), NEW i \in DOMAIN s,
           \A a, b \in DOMAIN s : s[a] = s[b] => a = b
    PROVE  /\ ToSet(RemoveAt(s, i)) = ToSet(s) \ {s[i]}
           /\ \A a, b \in DOMAIN RemoveAt(s, i) :
                 RemoveAt(s, i)[a] = RemoveAt(s, i)[b] => a = b
<1> DEFINE r == RemoveAt(s, i)
<1>1. i \in 1 .. Len(s) /\ Len(s) \in Nat /\ DOMAIN s = 1 .. Len(s)  OBVIOUS
<1>2. DOMAIN r = 1 .. Len(s) - 1  BY <1>1, RemoveAtFacts
<1>3. \A j \in 1 .. Len(s) - 1 : r[j] = IF j < i THEN s[j] ELSE s[j + 1]  BY RemoveAtFacts
<1> HIDE DEF r
<1>4. ASSUME NEW a \in DOMAIN r, NEW b \in DOMAIN r, r[a] = r[b] PROVE a = b
  BY <1>1, <1>2, <1>3, <1>4
<1>5. ASSUME NEW x \in ToSet(s) \ {s[i]} PROVE x \in ToSet(r)
  <2>1. PICK j \in 1 .. Len(s) : x = s[j]  BY <1>1 DEF ToSet
  <2>2. j # i  BY <2>1
  <2>3. CASE j < i
    <3>1. j \in 1 .. Len(s) - 1  BY <1>1, <2>3
    <3>2. r[j] = x  BY <1>3, <2>1, <2>3, <3>1
    <3> QED BY <1>2, <3>1, <3>2 DEF ToSet
  <2>4. CASE j > i
    <3>1. j - 1 \in 1 .. Len(s) - 1 /\ ~(j - 1 < i) /\ (j - 1) + 1 = j  BY <1>1, <2>4
    <3>2. r[j - 1] = x  BY <1>3, <2>1, <3>1
    <3> QED BY <1>2, <3>1, <3>2 DEF ToSet
  <2> QED BY <1>1, <2>2, <2>3, <2>4
<1>6. ASSUME NEW x \in ToSet(r) PROVE x \in ToSet(s) /\ x # s[i]
  <2>1. PICK j \in 1 .. Len(s) - 1 : x = r[j]  BY <1>2 DEF ToSet
  <2>2. x = IF j < i THEN s[j] ELSE s[j + 1]  BY <1>3, <2>1
  <2>3. j \in DOMAIN s /\ j + 1 \in DOMAIN s  BY <1>1, <2>1
  <2>4. x \in ToSet(s)  BY <2>2, <2>3 DEF ToSet
  <2>5. x # s[i]  BY <1>1, <2>2, <2>3
  <2> QED BY <2>4, <2>5
<1>7. ToSet(r) = ToSet(s) \ {s[i]}  BY <1>5, <1>6
<1> QED BY <1>4, <1>7 DEF r

(* Taking position i out and moving what stood before it to the end. *)
RotateAt(s, i) == SubSeq(s, i + 1, Len(s)) \o SubSeq(s, 1, i - 1)

(* What stands where after that. *)
LEMMA RotateFacts ==
    ASSUME NEW S, NEW s \in Seq(S), NEW i \in DOMAIN s
    PROVE  /\ RotateAt(s, i) \in Seq(S)
           /\ Len(RotateAt(s, i)) = Len(s) - 1
           /\ \A j \in 1 .. Len(s) - 1 :
                 RotateAt(s, i)[j] = IF j <= Len(s) - i THEN s[i + j] ELSE s[j - (Len(s) - i)]
<1> DEFINE a == SubSeq(s, 1, i - 1)
           b == SubSeq(s, i + 1, Len(s))
<1>1. i \in 1 .. Len(s) /\ Len(s) \in Nat  OBVIOUS
<1>2. a \in Seq(S) /\ Len(a) = i - 1 /\ \A j \in 1 .. i - 1 : a[j] = s[j]
  BY <1>1, SubSeqFacts
<1>3. b \in Seq(S) /\ Len(b) = Len(s) - i /\ \A j \in 1 .. Len(s) - i : b[j] = s[i + j]
  BY <1>1, SubSeqFacts
<1>4. RotateAt(s, i) = b \o a  BY DEF RotateAt
<1> HIDE DEF a, b
<1>5. b \o a \in Seq(S) /\ Len(b \o a) = Len(s) - 1  BY <1>1, <1>2, <1>3
<1>6. ASSUME NEW j \in 1 .. Len(s) - 1
      PROVE  (b \o a)[j] = IF j <= Len(s) - i THEN s[i + j] ELSE s[j - (Len(s) - i)]
  <2>1. CASE j <= Len(s) - i  BY <1>1, <1>2, <1>3, <2>1
  <2>2. CASE ~(j <= Len(s) - i)
    <3>1. (b \o a)[j] = a[j - (Len(s) - i)]  BY <1>1, <1>2, <1>3, <2>2
    <3>2. j - (Len(s) - i) \in 1 .. i - 1  BY <1>1, <2>2
    <3> QED BY <1>2, <2>2, <3>1, <3>2
  <2> QED BY <2>1, <2>2
<1> QED BY <1>4, <1>5, <1>6

(* What taking the first element off leaves. *)
LEMMA TailFacts ==
    ASSUME NEW S, NEW s \in Seq(S), s # <<>>
    PROVE  /\ Head(s) = s[1] /\ Head(s) \in S /\ 1 \in DOMAIN s
           /\ Tail(s) \in Seq(S) /\ Len(Tail(s)) = Len(s) - 1
           /\ \A j \in DOMAIN Tail(s) : j + 1 \in DOMAIN s /\ Tail(s)[j] = s[j + 1]
           /\ ToSet(s) = {Head(s)} \cup ToSet(Tail(s))
<1>1. /\ Head(s) = s[1] /\ Head(s) \in S /\ 1 \in DOMAIN s
      /\ Tail(s) \in Seq(S) /\ Len(Tail(s)) = Len(s) - 1
      /\ \A j \in DOMAIN Tail(s) : j + 1 \in DOMAIN s /\ Tail(s)[j] = s[j + 1]
  OBVIOUS
<1>2. ASSUME NEW x \in ToSet(s) PROVE x = Head(s) \/ x \in ToSet(Tail(s))
  <2>1. PICK i \in DOMAIN s : x = s[i]  BY DEF ToSet
  <2>2. CASE i = 1  BY <1>1, <2>1, <2>2
  <2>3. CASE i # 1
    <3>1. i - 1 \in DOMAIN Tail(s) /\ Tail(s)[i - 1] = x  BY <2>1, <2>3
    <3> QED BY <3>1 DEF ToSet
  <2> QED BY <2>2, <2>3
<1>3. ASSUME NEW x \in ToSet(Tail(s)) PROVE x \in ToSet(s)
  BY <1>1 DEF ToSet
<1>4. Head(s) \in ToSet(s)  BY <1>1 DEF ToSet
<1> QED BY <1>1, <1>2, <1>3, <1>4

(* Sequences without repetitions and without common elements make one. *)
LEMMA ConcatDistinct ==
    ASSUME NEW S, NEW s \in Seq(S), NEW r \in Seq(S),
           \A i, j \in DOMAIN s : s[i] = s[j] => i = j,
           \A i, j \in DOMAIN r : r[i] = r[j] => i = j,
           ToSet(s) \cap ToSet(r) = {}
    PROVE  /\ s \o r \in Seq(S) /\ ToSet(s \o r) = ToSet(s) \cup ToSet(r)
           /\ \A i, j \in DOMAIN (s \o r) : (s \o r)[i] = (s \o r)[j] => i = j
<1> DEFINE c == s \o r
<1>1. Len(s) \in Nat /\ Len(r) \in Nat /\ DOMAIN s = 1 .. Len(s) /\ DOMAIN r = 1 .. Len(r)
  OBVIOUS
<1>2. /\ c \in Seq(S) /\ Len(c) = Len(s) + Len(r)
      /\ \A i \in 1 .. Len(s) + Len(r) :
            c[i] = IF i <= Len(s) THEN s[i] ELSE r[i - Len(s)]
  <2>1. /\ s \o r \in Seq(S) /\ Len(s \o r) = Len(s) + Len(r)
        /\ \A i \in 1 .. Len(s) + Len(r) :
              (s \o r)[i] = IF i <= Len(s) THEN s[i] ELSE r[i - Len(s)]
    BY ONLY s \in Seq(S), r \in Seq(S), ConcatProperties, Zenon
  <2> HIDE DEF c
  <2> QED BY <2>1 DEF c
<1>3. ToSet(c) = ToSet(s) \cup ToSet(r)  BY ToSetConcat
<1> HIDE DEF c
<1>4. ASSUME NEW i \in DOMAIN c
      PROVE  \/ i \in DOMAIN s /\ c[i] = s[i] /\ c[i] \in ToSet(s)
             \/ i > Len(s) /\ i - Len(s) \in DOMAIN r /\ c[i] = r[i - Len(s)] /\ c[i] \in ToSet(r)
  <2>1. i \in 1 .. Len(s) + Len(r)  BY <1>2
  <2>2. CASE i <= Len(s)
    <3>1. i \in DOMAIN s /\ c[i] = s[i]  BY <1>1, <1>2, <2>1, <2>2
    <3> QED BY <3>1 DEF ToSet
  <2>3. CASE ~(i <= Len(s))
    <3>1. i - Len(s) \in DOMAIN r /\ i > Len(s)  BY <1>1, <2>1, <2>3
    <3>2. c[i] = r[i - Len(s)]  BY <1>2, <2>1, <2>3
    <3> QED BY <3>1, <3>2 DEF ToSet
  <2> QED BY <2>2, <2>3
<1>5. ASSUME NEW i \in DOMAIN c, NEW j \in DOMAIN c, c[i] = c[j] PROVE i = j
  <2>1. CASE i \in DOMAIN s /\ c[i] = s[i] /\ c[i] \in ToSet(s)
    <3>1. j \in DOMAIN s /\ c[j] = s[j]  BY <1>4, <1>5, <2>1
    <3> QED BY <1>5, <2>1, <3>1
  <2>2. CASE i > Len(s) /\ i - Len(s) \in DOMAIN r /\ c[i] = r[i - Len(s)] /\ c[i] \in ToSet(r)
    <3>1. j - Len(s) \in DOMAIN r /\ c[j] = r[j - Len(s)]  BY <1>4, <1>5, <2>2
    <3>2. i - Len(s) = j - Len(s)  BY <1>5, <2>2, <3>1
    <3>3. i \in Int /\ j \in Int  BY <1>2
    <3> QED BY <1>1, <3>2, <3>3
  <2> QED BY <1>4, <2>1, <2>2
<1> QED BY <1>2, <1>3, <1>5 DEF c

(* And back: the parts of a sequence without repetitions. *)
LEMMA ConcatSplits ==
    ASSUME NEW S, NEW s \in Seq(S), NEW r \in Seq(S),
           \A i, j \in DOMAIN (s \o r) : (s \o r)[i] = (s \o r)[j] => i = j
    PROVE  /\ \A i, j \in DOMAIN s : s[i] = s[j] => i = j
           /\ \A i, j \in DOMAIN r : r[i] = r[j] => i = j
           /\ ToSet(r) \cap ToSet(s) = {}
<1> DEFINE c == s \o r
<1>1. Len(s) \in Nat /\ Len(r) \in Nat /\ DOMAIN s = 1 .. Len(s) /\ DOMAIN r = 1 .. Len(r)
  OBVIOUS
<1>2. /\ c \in Seq(S) /\ Len(c) = Len(s) + Len(r)
      /\ \A i \in 1 .. Len(s) + Len(r) :
            c[i] = IF i <= Len(s) THEN s[i] ELSE r[i - Len(s)]
  <2>1. /\ s \o r \in Seq(S) /\ Len(s \o r) = Len(s) + Len(r)
        /\ \A i \in 1 .. Len(s) + Len(r) :
              (s \o r)[i] = IF i <= Len(s) THEN s[i] ELSE r[i - Len(s)]
    BY ONLY s \in Seq(S), r \in Seq(S), ConcatProperties, Zenon
  <2> HIDE DEF c
  <2> QED BY <2>1 DEF c
<1>3. \A i, j \in DOMAIN c : c[i] = c[j] => i = j  OBVIOUS
<1> HIDE DEF c
<1>4. ASSUME NEW i \in DOMAIN s PROVE i \in DOMAIN c /\ c[i] = s[i]
  <2>1. i \in 1 .. Len(s) + Len(r) /\ i <= Len(s)  BY <1>1
  <2> QED BY <1>2, <2>1
<1>5. ASSUME NEW i \in DOMAIN r PROVE Len(s) + i \in DOMAIN c /\ c[Len(s) + i] = r[i]
  <2>1. /\ Len(s) + i \in 1 .. Len(s) + Len(r) /\ ~(Len(s) + i <= Len(s))
        /\ (Len(s) + i) - Len(s) = i
    BY <1>1
  <2> QED BY <1>2, <2>1
<1>6. \A i, j \in DOMAIN s : s[i] = s[j] => i = j  BY <1>3, <1>4
<1>7. ASSUME NEW i \in DOMAIN r, NEW j \in DOMAIN r, r[i] = r[j] PROVE i = j
  <2>1. Len(s) + i = Len(s) + j  BY <1>3, <1>5, <1>7
  <2> QED BY <1>1, <2>1
<1>8. ASSUME NEW i \in DOMAIN s, NEW j \in DOMAIN r, s[i] = r[j] PROVE FALSE
  <2>1. i = Len(s) + j  BY <1>3, <1>4, <1>5, <1>8
  <2> QED BY <1>1, <2>1
<1>9. ToSet(r) \cap ToSet(s) = {}  BY <1>8 DEF ToSet
<1> QED BY <1>6, <1>7, <1>9
-----------------------------------------------------------------------------
(* Sequences of numbers that grow. *)
Ascending(s) == \A i, j \in DOMAIN s : i < j => s[i] < s[j]

(* A growing sequence has no repetitions. *)
LEMMA AscendingDistinct ==
    ASSUME NEW s \in Seq(Nat), Ascending(s)
    PROVE  \A i, j \in DOMAIN s : s[i] = s[j] => i = j
<1> SUFFICES ASSUME NEW i \in DOMAIN s, NEW j \in DOMAIN s, i # j PROVE s[i] # s[j]
  OBVIOUS
<1>1. s[i] \in Nat /\ s[j] \in Nat /\ (i < j \/ j < i)  OBVIOUS
<1> QED BY <1>1 DEF Ascending

(* It still grows when a larger element is appended. *)
LEMMA AscendingAppend ==
    ASSUME NEW s \in Seq(Nat), Ascending(s), NEW x \in Nat, \A y \in ToSet(s) : y < x
    PROVE  Ascending(Append(s, x))
<1> DEFINE r == Append(s, x)
<1>1. /\ DOMAIN r = 1 .. Len(s) + 1 /\ DOMAIN s = 1 .. Len(s) /\ Len(s) \in Nat
      /\ \A i \in 1 .. Len(s) : r[i] = s[i]
      /\ r[Len(s) + 1] = x
  OBVIOUS
<1> HIDE DEF r
<1>2. ASSUME NEW i \in DOMAIN r, NEW j \in DOMAIN r, i < j PROVE r[i] < r[j]
  <2>1. i \in 1 .. Len(s)  BY <1>1, <1>2
  <2>2. CASE j \in 1 .. Len(s)  BY <1>1, <1>2, <2>1, <2>2 DEF Ascending
  <2>3. CASE j = Len(s) + 1
    <3>1. r[i] \in ToSet(s)  BY <1>1, <2>1 DEF ToSet
    <3> QED BY <1>1, <2>3, <3>1
  <2> QED BY <1>1, <2>2, <2>3
<1> QED BY <1>2 DEF r, Ascending

(* Its first element is the least, and the rest grows. *)
LEMMA AscendingTail ==
    ASSUME NEW s \in Seq(Nat), Ascending(s), s # <<>>
    PROVE  /\ Ascending(Tail(s))
           /\ \A x \in ToSet(Tail(s)) : Head(s) < x
           /\ Head(s) \notin ToSet(Tail(s))
<1> DEFINE t == Tail(s)
<1>1. /\ Head(s) = s[1] /\ Head(s) \in Nat /\ 1 \in DOMAIN s
      /\ \A j \in DOMAIN t : j + 1 \in DOMAIN s /\ t[j] = s[j + 1]
      /\ t \in Seq(Nat)
  BY TailFacts
<1> HIDE DEF t
<1>2. DOMAIN t \subseteq Nat \ {0}  BY <1>1
<1>3. ASSUME NEW i \in DOMAIN t, NEW j \in DOMAIN t, i < j PROVE t[i] < t[j]
  <2>1. i + 1 < j + 1  BY <1>2, <1>3
  <2> QED BY <1>1, <2>1 DEF Ascending
<1>4. ASSUME NEW x \in ToSet(t) PROVE Head(s) < x
  <2>1. PICK j \in DOMAIN t : x = t[j]  BY DEF ToSet
  <2>2. 1 < j + 1  BY <1>2
  <2> QED BY <1>1, <2>1, <2>2 DEF Ascending
<1>5. Head(s) \notin ToSet(t)
  <2>1. ~(Head(s) < Head(s))  BY <1>1
  <2> QED BY <1>4, <2>1
<1> QED BY <1>3, <1>4, <1>5 DEF t, Ascending
=============================================================================
