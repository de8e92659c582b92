---------------------------- MODULE ShellProofs ----------------------------
(***************************************************************************)
(* The passes over a shell command agree, whatever its length: the theorem *)
(* about ShellLine, and the automata it is proved with.                    *)
(***************************************************************************)
EXTENDS ShellLine, TextLemmas

(***************************************************************************)
(* Texts, and stripping them.                                              *)
(***************************************************************************)
Glyphs == Characters \cup {"sp", "semi"}
Texts == Seq(Glyphs)
Blanks == {c \in Glyphs : c \in {"sp", "nl"}}

LEMMA PrefixAppend ==
  ASSUME NEW S, NEW t \in Seq(S), NEW i \in 1..Len(t)
  PROVE  /\ SubSeq(t, 1, i - 1) \in Seq(S) /\ t[i] \in S
         /\ SubSeq(t, 1, i) = Append(SubSeq(t, 1, i - 1), t[i])
<1>1. Len(t) \in Nat /\ \A j \in 1..Len(t) : t[j] \in S
  BY LenProperties, ElementOfSeq
<1>2. SubSeq(t, 1, i) = SubSeq(t, 1, i - 1) \o <<t[i]>>
  <2>1. 1 \in 1..Len(t) /\ i \in 1..Len(t)
    BY <1>1
  <2> QED BY <2>1, SubSeqRecursiveSecond
<1>3. SubSeq(t, 1, i - 1) \in Seq(S)
  <2> DEFINE k == i - 1
  <2>1. k \in Int /\ \A j \in 1..k : t[j] \in S
    BY <1>1
  <2> HIDE DEF k
  <2>2. SubSeq(t, 1, k) \in Seq(S)
    BY <2>1, SubSeqProperties
  <2> QED BY <2>2 DEF k
<1>4. t[i] \in S
  BY <1>1
<1>5. Append(SubSeq(t, 1, i - 1), t[i]) = SubSeq(t, 1, i - 1) \o <<t[i]>>
  BY <1>3, <1>4, AppendIsConcat
<1> QED BY <1>2, <1>3, <1>4, <1>5

LEMMA Part ==
  ASSUME NEW S, NEW t \in Seq(S), NEW a \in 1..(Len(t) + 1), NEW b \in (a - 1)..Len(t)
  PROVE  /\ SubSeq(t, a, b) \in Seq(S) /\ Len(SubSeq(t, a, b)) = b - a + 1
         /\ \A i \in 1..(b - a + 1) : SubSeq(t, a, b)[i] = t[a + i - 1]
<1>1. Len(t) \in Nat /\ \A j \in 1..Len(t) : t[j] \in S
  BY LenProperties, ElementOfSeq
<1>2. a \in Int /\ b \in Int /\ \A j \in a..b : t[j] \in S
  BY <1>1
<1>3. /\ SubSeq(t, a, b) \in Seq(S)
      /\ Len(SubSeq(t, a, b)) = IF a <= b THEN b - a + 1 ELSE 0
      /\ \A i \in 1..(b - a + 1) : SubSeq(t, a, b)[i] = t[a + i - 1]
  BY <1>2, SubSeqProperties
<1>4. (IF a <= b THEN b - a + 1 ELSE 0) = b - a + 1
  BY <1>1
<1> QED BY <1>3, <1>4

(* What does not mind a blank at an end does not mind several.             *)
MindsNoLast(V) == \A t \in Texts : \A w \in Blanks : V[Append(t, w)] = V[t]
MindsNoFirst(V) == \A t \in Texts : \A w \in Blanks : V[<<w>> \o t] = V[t]

LEMMA DropLast ==
  ASSUME NEW V, MindsNoLast(V), NEW t \in Texts, NEW b \in 0..Len(t),
         \A j \in (b + 1)..Len(t) : t[j] \in Blanks
  PROVE  V[SubSeq(t, 1, b)] = V[t]
<1> DEFINE n == Len(t)
           T == {d \in 0..(n - b) : V[SubSeq(t, 1, b + d)] = V[SubSeq(t, 1, b)]}
<1>1. n \in Nat
  BY LenProperties DEF Texts
<1>2. 0 \in T
  BY <1>1
<1>3. ASSUME NEW d \in 1..(n - b), d - 1 \in T PROVE d \in T
  <2> DEFINE i == b + d
  <2>1. i \in 1..n /\ i \in (b + 1)..n /\ b + (d - 1) = i - 1 /\ d \in 0..(n - b)
    BY <1>1
  <2>2. V[SubSeq(t, 1, i - 1)] = V[SubSeq(t, 1, b)]
    BY <1>3, <2>1
  <2> HIDE DEF i
  <2>3. SubSeq(t, 1, i - 1) \in Texts /\ SubSeq(t, 1, i) = Append(SubSeq(t, 1, i - 1), t[i])
    BY <2>1, PrefixAppend DEF Texts
  <2>4. t[i] \in Blanks
    BY <2>1
  <2>5. V[SubSeq(t, 1, i)] = V[SubSeq(t, 1, i - 1)]
    BY <2>3, <2>4 DEF MindsNoLast
  <2> QED BY <2>1, <2>2, <2>5 DEF i
<1>4. n - b \in T
  <2>1. n - b \in Nat
    BY <1>1
  <2> HIDE DEF T
  <2>2. \A d \in 0..(n - b) : d \in T
    BY <1>2, <1>3, <2>1, UpTo
  <2> QED BY <2>1, <2>2
<1>5. b + (n - b) = n /\ SubSeq(t, 1, n) = t
  BY <1>1, SubSeqFull DEF Texts
<1> QED BY <1>4, <1>5

LEMMA DropFirst ==
  ASSUME NEW V, MindsNoFirst(V), NEW t \in Texts, NEW a \in 1..(Len(t) + 1),
         \A j \in 1..(a - 1) : t[j] \in Blanks
  PROVE  V[SubSeq(t, a, Len(t))] = V[t]
<1> DEFINE n == Len(t)
           T == {d \in 0..(a - 1) : V[SubSeq(t, 1 + d, n)] = V[t]}
<1>1. n \in Nat
  BY LenProperties DEF Texts
<1>2. 0 \in T
  <2>1. SubSeq(t, 1, n) = t
    BY SubSeqFull DEF Texts
  <2>2. 1 + 0 = 1 /\ 0 \in 0..(a - 1)
    BY <1>1
  <2>3. SubSeq(t, 1 + 0, n) = t
    BY <2>1, <2>2
  <2> QED BY <2>2, <2>3
<1>3. ASSUME NEW d \in 1..(a - 1), d - 1 \in T PROVE d \in T
  <2>1. d \in 1..n /\ n \in d..n /\ d \in 0..(a - 1) /\ 1 + (d - 1) = d /\ 1 + d = d + 1
        /\ d + 1 \in 1..(n + 1) /\ n \in (d + 1 - 1)..n
    BY <1>1
  <2>2. V[SubSeq(t, d, n)] = V[t]
    BY <1>3, <2>1
  <2>3. SubSeq(t, d, n) = <<t[d]>> \o SubSeq(t, d + 1, n)
    BY <2>1, SubSeqRecursiveFirst DEF Texts
  <2>4. SubSeq(t, d + 1, n) \in Texts
    <3>1. t \in Seq(Glyphs)
      BY DEF Texts
    <3> HIDE DEF n
    <3>2. n = Len(t)
      BY DEF n
    <3> DEFINE e == d + 1
    <3>3. e \in 1..(n + 1) /\ n \in (e - 1)..n
      BY <2>1
    <3> HIDE DEF e
    <3>4. SubSeq(t, e, n) \in Seq(Glyphs)
      BY <3>1, <3>2, <3>3, Part
    <3> QED BY <3>4 DEF Texts, e
  <2>5. t[d] \in Blanks
    BY <2>1
  <2>6. V[SubSeq(t, d, n)] = V[SubSeq(t, d + 1, n)]
    BY <2>3, <2>4, <2>5 DEF MindsNoFirst
  <2> QED BY <2>1, <2>2, <2>6
<1>4. a - 1 \in T
  <2>1. a - 1 \in Nat
    BY <1>1
  <2> HIDE DEF T
  <2>2. \A d \in 0..(a - 1) : d \in T
    BY <1>2, <1>3, <2>1, UpTo
  <2> QED BY <2>1, <2>2
<1>5. 1 + (a - 1) = a
  BY <1>1
<1> QED BY <1>4, <1>5

LEMMA StripAt ==
  ASSUME NEW t \in Texts, NEW a \in Solid(t), NEW b \in Solid(t),
         \A j \in Solid(t) : a <= j /\ j <= b
  PROVE  Strip(t) = SubSeq(t, a, b)
<1>1. Solid(t) \subseteq 1..Len(t) /\ Len(t) \in Nat
  BY LenProperties DEF Solid, Texts
<1>2. \A x, y \in Solid(t) : (\A j \in Solid(t) : x <= j) /\ (\A j \in Solid(t) : y <= j) => x = y
  BY <1>1
<1>3. \A x, y \in Solid(t) : (\A j \in Solid(t) : x >= j) /\ (\A j \in Solid(t) : y >= j) => x = y
  BY <1>1
<1>4. (CHOOSE i \in Solid(t) : \A j \in Solid(t) : i <= j) = a
  BY <1>2
<1>5. (CHOOSE i \in Solid(t) : \A j \in Solid(t) : i >= j) = b
  <2>1. \A j \in Solid(t) : b >= j
    BY <1>1
  <2> QED BY <1>3, <2>1
<1> QED BY <1>4, <1>5 DEF Strip

LEMMA SolidIs ==
  ASSUME NEW t \in Texts
  PROVE  /\ Solid(t) \subseteq 1..Len(t)
         /\ \A i \in 1..Len(t) : i \notin Solid(t) <=> t[i] \in Blanks
         /\ Solid(t) = {} => Strip(t) = << >>
         /\ Solid(t) # {} => \E a \in Solid(t) : \E b \in Solid(t) :
              /\ \A j \in Solid(t) : a <= j /\ j <= b
              /\ Strip(t) = SubSeq(t, a, b)
<1>1. Solid(t) \subseteq 1..Len(t) /\ Len(t) \in Nat /\ \A i \in 1..Len(t) : t[i] \in Glyphs
  BY LenProperties, ElementOfSeq DEF Solid, Texts
<1>2. \A i \in 1..Len(t) : i \notin Solid(t) <=> t[i] \in Blanks
  BY <1>1 DEF Solid, Blanks
<1>3. Solid(t) = {} => Strip(t) = << >>
  BY DEF Strip
<1>4. ASSUME Solid(t) # {}
      PROVE  \E a \in Solid(t) : \E b \in Solid(t) :
              /\ \A j \in Solid(t) : a <= j /\ j <= b
              /\ Strip(t) = SubSeq(t, a, b)
  <2>1. Solid(t) \in SUBSET (1..Len(t))
    BY <1>1
  <2>2. PICK a \in Solid(t) : \A j \in Solid(t) : a <= j
    BY <1>1, <1>4, <2>1, LeastExists
  <2>3. PICK b \in Solid(t) : \A j \in Solid(t) : j <= b
    BY <1>1, <1>4, <2>1, GreatestExists
  <2>4. Strip(t) = SubSeq(t, a, b)
    BY <2>2, <2>3, StripAt
  <2> QED BY <2>2, <2>3, <2>4
<1> QED BY <1>1, <1>2, <1>3, <1>4

LEMMA StripTyped ==
  ASSUME NEW t \in Texts
  PROVE  /\ Strip(t) \in Texts
         /\ Strip(t) = << >> <=> Solid(t) = {}
         /\ Strip(t) # << >> => /\ Len(Strip(t)) \in Nat \ {0}
                                /\ Strip(t)[1] \notin Blanks /\ Strip(t)[Len(Strip(t))] \notin Blanks
<1>1. CASE Solid(t) = {}
  BY <1>1, SolidIs, EmptySeq DEF Texts
<1>2. CASE Solid(t) # {}
  <2>1. PICK a \in Solid(t), b \in Solid(t) :
           (\A j \in Solid(t) : a <= j /\ j <= b) /\ Strip(t) = SubSeq(t, a, b)
    BY <1>2, SolidIs
  <2>2. /\ a \in 1..Len(t) /\ b \in 1..Len(t) /\ a <= b /\ Len(t) \in Nat
        /\ t[a] \notin Blanks /\ t[b] \notin Blanks
    BY SolidIs, LenProperties, <2>1 DEF Texts
  <2>3. a \in 1..(Len(t) + 1) /\ b \in (a - 1)..Len(t) /\ t \in Seq(Glyphs)
    BY <2>2 DEF Texts
  <2> DEFINE s == SubSeq(t, a, b)
  <2>4. /\ s \in Seq(Glyphs) /\ Len(s) = b - a + 1
        /\ \A i \in 1..(b - a + 1) : s[i] = t[a + i - 1]
    BY <2>3, Part
  <2> HIDE DEF s
  <2>5. 1 \in 1..(b - a + 1) /\ b - a + 1 \in 1..(b - a + 1) /\ a + 1 - 1 = a /\ a + (b - a + 1) - 1 = b
    BY <2>2
  <2>6. s[1] = t[a] /\ s[Len(s)] = t[b] /\ Len(s) \in Nat \ {0}
    BY <2>2, <2>4, <2>5
  <2>7. s # << >>
    BY <2>6, EmptySeq
  <2> QED BY <1>2, <2>1, <2>2, <2>4, <2>6, <2>7 DEF s, Texts
<1> QED BY <1>1, <1>2

(* What does not mind blanks does not mind stripping.                      *)
LEMMA MindsNoStrip ==
  ASSUME NEW V, MindsNoLast(V), MindsNoFirst(V), NEW t \in Texts
  PROVE  V[Strip(t)] = V[t]
<1>1. t \in Seq(Glyphs) /\ Len(t) \in Nat
  BY LenProperties DEF Texts
<1>2. CASE Solid(t) = {}
  <2>1. \A j \in (0 + 1)..Len(t) : t[j] \in Blanks
    BY <1>2, SolidIs
  <2>2. 0 \in 0..Len(t)
    BY <1>1
  <2>3. V[SubSeq(t, 1, 0)] = V[t]
    BY <2>1, <2>2, DropLast
  <2>4. SubSeq(t, 1, 0) = << >>
    BY SubSeqEmpty
  <2> QED BY <1>2, <2>3, <2>4, SolidIs
<1>3. CASE Solid(t) # {}
  <2>1. PICK a \in Solid(t), b \in Solid(t) :
           (\A j \in Solid(t) : a <= j /\ j <= b) /\ Strip(t) = SubSeq(t, a, b)
    BY <1>3, SolidIs
  <2>2. a \in 1..Len(t) /\ b \in 1..Len(t) /\ a <= b
    BY SolidIs, <2>1
  <2> DEFINE u == SubSeq(t, 1, b)
  <2>3. /\ u \in Seq(Glyphs) /\ Len(u) = b /\ \A i \in 1..b : u[i] = t[i]
    <3>1. 1 \in 1..(Len(t) + 1) /\ b \in (1 - 1)..Len(t) /\ b - 1 + 1 = b /\ \A i \in Int : 1 + i - 1 = i
      BY <1>1, <2>2
    <3>2. /\ u \in Seq(Glyphs) /\ Len(u) = b - 1 + 1 /\ \A i \in 1..(b - 1 + 1) : u[i] = t[1 + i - 1]
      BY <1>1, <3>1, Part
    <3> HIDE DEF u
    <3> QED BY <3>1, <3>2
  <2>4. V[u] = V[t]
    <3>1. b \in 0..Len(t) /\ \A j \in (b + 1)..Len(t) : t[j] \in Blanks
      <4>1. \A j \in (b + 1)..Len(t) : j \in 1..Len(t) /\ j \notin Solid(t)
        BY <1>1, <2>1, <2>2
      <4> QED BY <4>1, <1>1, <2>2, SolidIs
    <3> QED BY <3>1, DropLast
  <2>5. SubSeq(u, a, b) = SubSeq(t, a, b)
    <3> DEFINE x == SubSeq(u, a, b)
               y == SubSeq(t, a, b)
    <3>1. a \in 1..(Len(t) + 1) /\ b \in (a - 1)..Len(t) /\ a \in 1..(Len(u) + 1) /\ b \in (a - 1)..Len(u)
      BY <1>1, <2>2, <2>3
    <3>2. /\ x \in Seq(Glyphs) /\ Len(x) = b - a + 1 /\ \A i \in 1..(b - a + 1) : x[i] = u[a + i - 1]
      BY <2>3, <3>1, Part
    <3>3. /\ y \in Seq(Glyphs) /\ Len(y) = b - a + 1 /\ \A i \in 1..(b - a + 1) : y[i] = t[a + i - 1]
      BY <1>1, <3>1, Part
    <3>4. \A i \in 1..(b - a + 1) : a + i - 1 \in 1..b
      BY <2>2
    <3> HIDE DEF x, y, u
    <3>5. \A i \in 1..Len(x) : x[i] = y[i]
      BY <2>3, <3>2, <3>3, <3>4
    <3>6. x = y
      BY <3>2, <3>3, <3>5, SeqEqual
    <3> QED BY <3>6 DEF x, y
  <2>6. V[SubSeq(u, a, b)] = V[u]
    <3> HIDE DEF u
    <3>1. u \in Texts /\ a \in 1..(Len(u) + 1)
      BY <2>2, <2>3 DEF Texts
    <3>2. \A j \in 1..(a - 1) : u[j] \in Blanks
      <4>1. \A j \in 1..(a - 1) : j \in 1..Len(t) /\ j \notin Solid(t) /\ j \in 1..b
        BY <1>1, <2>1, <2>2
      <4> QED BY <4>1, <2>3, SolidIs
    <3>3. V[SubSeq(u, a, Len(u))] = V[u]
      BY <3>1, <3>2, DropFirst
    <3> QED BY <3>3, <2>3
  <2> QED BY <2>1, <2>4, <2>5, <2>6
<1> QED BY <1>2, <1>3

LEMMA StripAppendBlank ==
  ASSUME NEW t \in Texts, NEW w \in Blanks
  PROVE  Append(t, w) \in Texts /\ Strip(Append(t, w)) = Strip(t)
<1> DEFINE u == Append(t, w)
<1>1. t \in Seq(Glyphs) /\ Len(t) \in Nat /\ w \in Glyphs
  BY LenProperties DEF Texts, Blanks
<1>2. u \in Texts /\ Len(u) = Len(t) + 1 /\ u[Len(t) + 1] = w /\ \A i \in 1..Len(t) : u[i] = t[i]
  BY <1>1, AppendProperties DEF Texts
<1>3. u = t \o <<w>>
  BY <1>1, AppendIsConcat
<1> HIDE DEF u
<1>4. Solid(u) = Solid(t)
  <2>1. w \in {"sp", "nl"}
    BY DEF Blanks
  <2>2. \A i \in 1..(Len(t) + 1) : i \in Solid(u) <=> i \in Solid(t)
    BY <1>1, <1>2, <2>1 DEF Solid
  <2>3. Solid(u) \subseteq 1..(Len(t) + 1) /\ Solid(t) \subseteq 1..(Len(t) + 1)
    BY <1>1, <1>2 DEF Solid
  <2> QED BY <2>2, <2>3
<1>5. CASE Solid(t) = {}
  BY <1>2, <1>4, <1>5, SolidIs DEF u
<1>6. CASE Solid(t) # {}
  <2>1. PICK a \in Solid(t), b \in Solid(t) :
           (\A j \in Solid(t) : a <= j /\ j <= b) /\ Strip(t) = SubSeq(t, a, b)
    BY <1>6, SolidIs
  <2>2. a \in 1..Len(t) /\ b \in 1..Len(t)
    BY SolidIs
  <2>3. SubSeq(u, a, b) = SubSeq(t, a, b)
    <3>1. <<w>> \in Seq(Glyphs)
      BY <1>1
    <3> QED BY <1>1, <1>3, <2>2, <3>1, SubSeqOfConcat1
  <2>4. Strip(u) = SubSeq(u, a, b)
    BY <1>2, <1>4, <2>1, StripAt
  <2> QED BY <1>2, <2>1, <2>3, <2>4 DEF u
<1> QED BY <1>5, <1>6

LEMMA StripConsBlank ==
  ASSUME NEW t \in Texts, NEW w \in Blanks
  PROVE  <<w>> \o t \in Texts /\ Strip(<<w>> \o t) = Strip(t)
<1> DEFINE u == <<w>> \o t
<1>1. t \in Seq(Glyphs) /\ Len(t) \in Nat /\ w \in Glyphs /\ <<w>> \in Seq(Glyphs) /\ Len(<<w>>) = 1
  BY LenProperties DEF Texts, Blanks
<1>2. /\ u \in Texts /\ Len(u) = 1 + Len(t)
      /\ \A i \in 1..(1 + Len(t)) : u[i] = IF i <= 1 THEN <<w>>[i] ELSE t[i - 1]
  <2> DEFINE x == <<w>>
  <2>1. x \in Seq(Glyphs) /\ Len(x) = 1
    BY <1>1
  <2> HIDE DEF x
  <2>2. /\ x \o t \in Seq(Glyphs) /\ Len(x \o t) = Len(x) + Len(t)
        /\ \A i \in 1..(Len(x) + Len(t)) : (x \o t)[i] = IF i <= Len(x) THEN x[i] ELSE t[i - Len(x)]
    BY <1>1, <2>1, ConcatProperties
  <2> QED BY <2>1, <2>2 DEF x, Texts
<1> HIDE DEF u
<1>3. u[1] = w /\ \A i \in 1..Len(t) : u[i + 1] = t[i]
  <2>1. <<w>>[1] = w
    OBVIOUS
  <2>2. ASSUME NEW i \in 1..Len(t) PROVE u[i + 1] = t[i]
    <3>1. i + 1 \in 1..(1 + Len(t)) /\ ~(i + 1 <= 1) /\ (i + 1) - 1 = i
      BY <1>1
    <3> QED BY <3>1, <1>2
  <2> QED BY <1>1, <1>2, <2>1, <2>2
<1>4. /\ \A i \in Solid(t) : i + 1 \in Solid(u)
      /\ \A i \in Solid(u) : i - 1 \in Solid(t)
  <2>1. w \in {"sp", "nl"}
    BY DEF Blanks
  <2>2. ASSUME NEW i \in Solid(t) PROVE i + 1 \in Solid(u)
    BY <1>1, <1>2, <1>3 DEF Solid
  <2>3. ASSUME NEW i \in Solid(u) PROVE i - 1 \in Solid(t)
    <3>1. i \in 1..(1 + Len(t)) /\ u[i] \notin {"sp", "nl"}
      BY <1>2 DEF Solid
    <3>2. i # 1
      BY <3>1, <2>1, <1>3
    <3>3. i - 1 \in 1..Len(t) /\ (i - 1) + 1 = i
      BY <3>1, <3>2, <1>1
    <3>4. u[i] = t[i - 1]
      BY <3>3, <1>3
    <3> QED BY <3>1, <3>3, <3>4 DEF Solid
  <2> QED BY <2>2, <2>3
<1>5. CASE Solid(t) = {}
  <2>1. Solid(u) = {}
    BY <1>4, <1>5
  <2> QED BY <2>1, <1>2, <1>5, SolidIs DEF u
<1>6. CASE Solid(t) # {}
  <2>1. PICK a \in Solid(t), b \in Solid(t) :
           (\A j \in Solid(t) : a <= j /\ j <= b) /\ Strip(t) = SubSeq(t, a, b)
    BY <1>6, SolidIs
  <2>2. a \in 1..Len(t) /\ b \in 1..Len(t) /\ Solid(u) \subseteq 1..(1 + Len(t))
    BY <1>2, SolidIs
  <2>3. SubSeq(u, a + 1, b + 1) = SubSeq(t, a, b)
    <3> DEFINE x == <<w>>
    <3>1. x \in Seq(Glyphs) /\ Len(x) = 1
      BY <1>1
    <3> HIDE DEF x
    <3> DEFINE m == a + 1
               n == b + 1
    <3>2. m \in (Len(x) + 1)..(Len(x) + Len(t)) /\ n \in (Len(x) + 1)..(Len(x) + Len(t))
          /\ m - Len(x) = a /\ n - Len(x) = b
      BY <1>1, <2>2, <3>1
    <3> HIDE DEF m, n
    <3>3. SubSeq(x \o t, m, n) = SubSeq(t, m - Len(x), n - Len(x))
      <4>1. t \in Seq(Glyphs) /\ x \in Seq(Glyphs)
        BY <1>1, <3>1
      <4>2. m \in Len(x) + 1 .. Len(x) + Len(t) /\ n \in Len(x) + 1 .. Len(x) + Len(t)
        BY <3>2
      <4> QED BY <4>1, <4>2, SubSeqOfConcat2, Zenon
    <3>4. SubSeq(x \o t, m, n) = SubSeq(t, a, b)
      BY <3>2, <3>3
    <3> QED BY <3>4 DEF x, m, n, u
  <2>4. Strip(u) = SubSeq(u, a + 1, b + 1)
    <3>1. a + 1 \in Solid(u) /\ b + 1 \in Solid(u)
      BY <1>4
    <3>2. \A j \in Solid(u) : a <= j - 1 /\ j - 1 <= b
      BY <1>4, <2>1
    <3>3. \A j \in Solid(u) : a + 1 <= j /\ j <= b + 1
      BY <3>2, <2>2
    <3> QED BY <1>2, <3>1, <3>3, StripAt
  <2> QED BY <1>2, <2>1, <2>3, <2>4 DEF u
<1> QED BY <1>5, <1>6

(***************************************************************************)
(* Cutting at the characters of a set where they stand outside quotes and  *)
(* are not escaped, without looking ahead.                                 *)
(***************************************************************************)
CutSets == SUBSET {"semi", "bar"}
Quotes == {"none", "sq", "dq"}
CutStates == [done : Seq(Texts), buf : Texts, quote : Quotes, esc : BOOLEAN]
CutStart == [done |-> << >>, buf |-> << >>, quote |-> "none", esc |-> FALSE]

One(part) == IF Strip(part) = << >> THEN << >> ELSE <<Strip(part)>>
Quoting(q, e, c) ==
  IF e \/ (q = "sq" /\ c # "sq") THEN q
  ELSE IF q = c THEN "none"
  ELSE IF c = "bs" THEN q
  ELSE IF q = "none" /\ c \in {"sq", "dq"} THEN c ELSE q
Escaping(q, e, c) == ~e /\ q # "sq" /\ c = "bs"
Cutting(C, s, c) == ~s.esc /\ s.quote = "none" /\ c \in C
CutOff(s) == [done |-> s.done \o One(s.buf), buf |-> << >>, quote |-> "none", esc |-> FALSE]
Kept(s, c) == [done |-> s.done, buf |-> Append(s.buf, c),
               quote |-> Quoting(s.quote, s.esc, c), esc |-> Escaping(s.quote, s.esc, c)]
Reads(C, s, c) == IF Cutting(C, s, c) THEN CutOff(s) ELSE Kept(s, c)

CutReader(C) == [p \in CutStates \X Glyphs |-> Reads(C, p[1], p[2])]
End(C, text) == Read(CutReader(C), CutStart, text)
Final(C, text) == End(C, text).done \o One(End(C, text).buf)

LEMMA OneTyped ==
  ASSUME NEW t \in Texts
  PROVE  One(t) \in Seq(Texts)
<1>1. Strip(t) \in Texts
  BY StripTyped
<1>2. <<Strip(t)>> \in Seq(Texts)
  BY <1>1
<1> QED BY <1>2, EmptySeq DEF One

LEMMA CutStatesAre ==
  ASSUME NEW s \in CutStates
  PROVE  s.done \in Seq(Texts) /\ s.buf \in Texts /\ s.quote \in Quotes /\ s.esc \in BOOLEAN
BY DEF CutStates

LEMMA ReadsTyped ==
  ASSUME NEW C \in CutSets, NEW s \in CutStates, NEW c \in Glyphs
  PROVE  Reads(C, s, c) \in CutStates
<1>1. s.done \in Seq(Texts) /\ s.buf \in Texts /\ s.quote \in Quotes /\ s.esc \in BOOLEAN
  BY CutStatesAre
<1>2. One(s.buf) \in Seq(Texts)
  BY <1>1, OneTyped
<1>3. s.done \o One(s.buf) \in Seq(Texts)
  BY <1>1, <1>2, ConcatProperties
<1>4. << >> \in Texts
  BY EmptySeq DEF Texts
<1>5. CutOff(s) \in CutStates
  BY <1>3, <1>4 DEF CutOff, CutStates, Quotes
<1>6. Append(s.buf, c) \in Texts
  BY <1>1, AppendProperties DEF Texts
<1>7. Quoting(s.quote, s.esc, c) \in Quotes /\ Escaping(s.quote, s.esc, c) \in BOOLEAN
  BY <1>1 DEF Quoting, Escaping, Quotes
<1>8. Kept(s, c) \in CutStates
  BY <1>1, <1>6, <1>7 DEF Kept, CutStates
<1> QED BY <1>5, <1>8 DEF Reads

LEMMA CutReads ==
  ASSUME NEW C \in CutSets
  PROVE  /\ Reader(CutStates, Glyphs, CutReader(C)) /\ CutStart \in CutStates
         /\ \A s \in CutStates : \A c \in Glyphs : CutReader(C)[<<s, c>>] = Reads(C, s, c)
<1>1. \A s \in CutStates : \A c \in Glyphs : Reads(C, s, c) \in CutStates
  BY ReadsTyped
<1>2. \A p \in CutStates \X Glyphs : Reads(C, p[1], p[2]) \in CutStates
  <2>1. \A p \in CutStates \X Glyphs : p[1] \in CutStates /\ p[2] \in Glyphs
    OBVIOUS
  <2> QED BY <1>1, <2>1
<1>3. CutReader(C) \in [CutStates \X Glyphs -> CutStates]
  BY <1>2 DEF CutReader
<1>4. CutStart \in CutStates
  <2>1. << >> \in Texts /\ << >> \in Seq(Texts)
    BY EmptySeq DEF Texts
  <2> QED BY <2>1 DEF CutStart, CutStates, Quotes
<1>5. ASSUME NEW s \in CutStates, NEW c \in Glyphs PROVE CutReader(C)[<<s, c>>] = Reads(C, s, c)
  <2>1. <<s, c>> \in CutStates \X Glyphs /\ <<s, c>>[1] = s /\ <<s, c>>[2] = c
    OBVIOUS
  <2> QED BY <2>1 DEF CutReader
<1> QED BY <1>3, <1>4, <1>5 DEF Reader

LEMMA EndEmpty ==
  ASSUME NEW C \in CutSets
  PROVE  End(C, << >>) = CutStart
BY CutReads, ReadEmpty DEF End

LEMMA EndTyped ==
  ASSUME NEW C \in CutSets, NEW t \in Texts
  PROVE  End(C, t) \in CutStates
BY CutReads, ReadTyped DEF End, Texts

LEMMA EndAppend ==
  ASSUME NEW C \in CutSets, NEW t \in Texts, NEW c \in Glyphs
  PROVE  End(C, Append(t, c)) = Reads(C, End(C, t), c)
<1>1. End(C, Append(t, c)) = CutReader(C)[<<End(C, t), c>>]
  BY CutReads, ReadAppend DEF End, Texts
<1>2. End(C, t) \in CutStates
  BY EndTyped
<1> QED BY <1>1, <1>2, CutReads

LEMMA FinalTyped ==
  ASSUME NEW C \in CutSets, NEW t \in Texts
  PROVE  Final(C, t) \in Seq(Texts)
<1>1. End(C, t).done \in Seq(Texts) /\ End(C, t).buf \in Texts
  BY EndTyped, CutStatesAre
<1>2. One(End(C, t).buf) \in Seq(Texts)
  BY <1>1, OneTyped
<1> QED BY <1>1, <1>2, ConcatProperties DEF Final

LEMMA FinalEmpty ==
  ASSUME NEW C \in CutSets
  PROVE  Final(C, << >>) = << >>
<1>1. End(C, << >>) = CutStart
  BY EndEmpty
<1>2. One(<< >>) = << >>
  <2>1. << >> \in Texts /\ Len(<< >>) = 0
    BY EmptySeq DEF Texts
  <2>2. Solid(<< >>) = {}
    BY <2>1 DEF Solid
  <2> QED BY <2>1, <2>2, SolidIs DEF One
<1>3. << >> \o << >> = << >>
  BY ConcatEmptySeq, EmptySeq
<1> QED BY <1>1, <1>2, <1>3 DEF Final, CutStart

LEMMA BlankReads ==
  ASSUME NEW C \in CutSets, NEW s \in CutStates, NEW w \in Blanks
  PROVE  /\ Reads(C, s, w) = [done |-> s.done, buf |-> Append(s.buf, w), quote |-> s.quote, esc |-> FALSE]
         /\ w \in Glyphs /\ ~Cutting(C, s, w)
<1>1. w \in {"sp", "nl"} /\ w \in Glyphs
  BY DEF Blanks
<1>2. s.quote \in {"none", "sq", "dq"}
  BY CutStatesAre DEF Quotes
<1>3. ~Cutting(C, s, w)
  BY <1>1 DEF Cutting, CutSets
<1>4. Quoting(s.quote, s.esc, w) = s.quote /\ Escaping(s.quote, s.esc, w) = FALSE
  BY <1>1, <1>2 DEF Quoting, Escaping
<1> QED BY <1>1, <1>3, <1>4 DEF Reads, Kept

LEMMA FinalAppendBlank ==
  ASSUME NEW C \in CutSets, NEW t \in Texts, NEW w \in Blanks
  PROVE  Final(C, Append(t, w)) = Final(C, t)
<1> DEFINE s == End(C, t)
<1>1. s \in CutStates
  BY EndTyped
<1>2. s.buf \in Texts
  BY <1>1, CutStatesAre
<1>3. w \in Glyphs
  BY DEF Blanks
<1>4. End(C, Append(t, w)) = Reads(C, s, w)
  BY <1>3, EndAppend
<1> HIDE DEF s
<1>5. /\ Reads(C, s, w).done = s.done /\ Reads(C, s, w).buf = Append(s.buf, w)
  BY <1>1, BlankReads
<1>6. One(Append(s.buf, w)) = One(s.buf)
  BY <1>2, StripAppendBlank DEF One
<1> QED BY <1>4, <1>5, <1>6 DEF Final, s

(* A blank in front is in front of the first part only.                    *)
Fronted(w, s, u) ==
  /\ u.done = s.done /\ u.quote = s.quote /\ u.esc = s.esc
  /\ u.buf = s.buf \/ u.buf = <<w>> \o s.buf

LEMMA ConsAppend ==
  ASSUME NEW t \in Texts, NEW w \in Glyphs, NEW c \in Glyphs
  PROVE  <<w>> \o Append(t, c) = Append(<<w>> \o t, c)
<1>1. <<w>> \in Seq(Glyphs) /\ <<c>> \in Seq(Glyphs) /\ t \in Seq(Glyphs)
  BY DEF Texts
<1>2. Append(t, c) = t \o <<c>>
  BY <1>1, AppendIsConcat
<1> DEFINE x == <<w>>
           y == <<c>>
<1>3. x \in Seq(Glyphs) /\ y \in Seq(Glyphs)
  BY <1>1
<1> HIDE DEF x, y
<1>4. (x \o t) \o y = x \o (t \o y)
  BY <1>1, <1>3, ConcatAssociative
<1>5. x \o t \in Seq(Glyphs)
  BY <1>1, <1>3, ConcatProperties
<1>6. Append(x \o t, c) = (x \o t) \o <<c>>
  BY <1>5, AppendIsConcat
<1> QED BY <1>2, <1>4, <1>6 DEF x, y

LEMMA FrontedReads ==
  ASSUME NEW C \in CutSets, NEW s \in CutStates, NEW u \in CutStates, NEW w \in Blanks,
         Fronted(w, s, u), NEW c \in Glyphs
  PROVE  Fronted(w, Reads(C, s, c), Reads(C, u, c))
<1>1. s.buf \in Texts /\ u.buf \in Texts /\ w \in Glyphs
  BY CutStatesAre DEF Blanks
<1>2. Cutting(C, s, c) <=> Cutting(C, u, c)
  BY DEF Fronted, Cutting
<1>3. CASE Cutting(C, s, c)
  <2>1. One(u.buf) = One(s.buf)
    <3>1. Strip(<<w>> \o s.buf) = Strip(s.buf)
      BY <1>1, StripConsBlank
    <3> QED BY <3>1 DEF One, Fronted
  <2>2. Reads(C, s, c) = CutOff(s) /\ Reads(C, u, c) = CutOff(u)
    BY <1>2, <1>3 DEF Reads
  <2>3. CutOff(s) = CutOff(u)
    BY <2>1 DEF CutOff, Fronted
  <2> QED BY <2>2, <2>3 DEF Fronted
<1>4. CASE ~Cutting(C, s, c)
  <2>1. Reads(C, s, c) = Kept(s, c) /\ Reads(C, u, c) = Kept(u, c)
    BY <1>2, <1>4 DEF Reads
  <2>2. <<w>> \o Append(s.buf, c) = Append(<<w>> \o s.buf, c)
    BY <1>1, ConsAppend
  <2>3. Fronted(w, Kept(s, c), Kept(u, c))
    BY <2>2 DEF Fronted, Kept
  <2> QED BY <2>1, <2>3
<1> QED BY <1>3, <1>4

LEMMA FrontedEnd ==
  ASSUME NEW C \in CutSets, NEW w \in Blanks
  PROVE  \A t \in Texts : Fronted(w, End(C, t), End(C, <<w>> \o t))
<1> DEFINE T == {t \in Texts : Fronted(w, End(C, t), End(C, <<w>> \o t))}
<1>1. << >> \in T
  <2>1. << >> \in Texts /\ w \in Glyphs
    BY EmptySeq DEF Texts, Blanks
  <2>2. <<w>> \o << >> = Append(<< >>, w)
    <3>1. Append(<< >>, w) = << >> \o <<w>>
      BY <2>1, AppendIsConcat DEF Texts
    <3>2. <<w>> \in Seq(Glyphs)
      BY <2>1
    <3>3. << >> \o <<w>> = <<w>> /\ <<w>> \o << >> = <<w>>
      BY <3>2, ConcatEmptySeq
    <3> QED BY <3>1, <3>3
  <2>3. End(C, Append(<< >>, w)) = Reads(C, CutStart, w)
    BY <2>1, EndAppend, EndEmpty
  <2>4. CutStart \in CutStates
    BY CutReads
  <2>5. Reads(C, CutStart, w) = [done |-> CutStart.done, buf |-> Append(CutStart.buf, w), quote |-> CutStart.quote, esc |-> FALSE]
    BY <2>4, BlankReads
  <2>6. Fronted(w, CutStart, Reads(C, CutStart, w))
    <3> DEFINE r == Reads(C, CutStart, w)
    <3>1. /\ r.done = CutStart.done /\ r.buf = Append(CutStart.buf, w)
          /\ r.quote = CutStart.quote /\ r.esc = FALSE
      BY <2>5
    <3> HIDE DEF r
    <3>2. CutStart.buf = << >> /\ CutStart.esc = FALSE
      BY DEF CutStart
    <3>3. r.buf = <<w>> \o CutStart.buf
      BY <2>2, <3>1, <3>2
    <3>4. Fronted(w, CutStart, r)
      BY <3>1, <3>2, <3>3 DEF Fronted
    <3> QED BY <3>4 DEF r
  <2> QED BY <2>1, <2>2, <2>3, <2>6, EndEmpty
<1>2. ASSUME NEW t \in Seq(Glyphs), t \in T, NEW c \in Glyphs PROVE Append(t, c) \in T
  <2>1. t \in Texts /\ w \in Glyphs /\ <<w>> \o t \in Texts
    BY <1>2, StripConsBlank DEF Blanks
  <2>2. Append(t, c) \in Texts
    BY <2>1, AppendProperties DEF Texts
  <2>3. <<w>> \o Append(t, c) = Append(<<w>> \o t, c)
    BY <2>1, ConsAppend
  <2>4. End(C, Append(t, c)) = Reads(C, End(C, t), c) /\ End(C, Append(<<w>> \o t, c)) = Reads(C, End(C, <<w>> \o t), c)
    BY <2>1, EndAppend
  <2>5. End(C, t) \in CutStates /\ End(C, <<w>> \o t) \in CutStates
    BY <2>1, EndTyped
  <2>6. Fronted(w, End(C, t), End(C, <<w>> \o t))
    BY <1>2
  <2>7. Fronted(w, Reads(C, End(C, t), c), Reads(C, End(C, <<w>> \o t), c))
    BY <2>5, <2>6, FrontedReads
  <2> QED BY <2>2, <2>3, <2>4, <2>7
<1>3. \A t \in Seq(Glyphs) : t \in T
  <2> HIDE DEF T
  <2> QED BY <1>1, <1>2, SeqInduction
<1> QED BY <1>3 DEF Texts

LEMMA FinalConsBlank ==
  ASSUME NEW C \in CutSets, NEW t \in Texts, NEW w \in Blanks
  PROVE  Final(C, <<w>> \o t) = Final(C, t)
<1>1. Fronted(w, End(C, t), End(C, <<w>> \o t))
  BY FrontedEnd
<1>2. End(C, t).buf \in Texts
  BY EndTyped, CutStatesAre
<1>3. Strip(<<w>> \o End(C, t).buf) = Strip(End(C, t).buf)
  BY <1>2, StripConsBlank
<1>4. One(End(C, <<w>> \o t).buf) = One(End(C, t).buf)
  BY <1>1, <1>3 DEF Fronted, One
<1> QED BY <1>1, <1>4 DEF Fronted, Final

LEMMA FinalStrip ==
  ASSUME NEW C \in CutSets, NEW t \in Texts
  PROVE  Final(C, Strip(t)) = Final(C, t)
<1> DEFINE V == [u \in Texts |-> Final(C, u)]
<1>1. MindsNoLast(V)
  <2>1. ASSUME NEW u \in Texts, NEW w \in Blanks PROVE V[Append(u, w)] = V[u]
    <3>1. Append(u, w) \in Texts
      BY StripAppendBlank
    <3> QED BY <3>1, FinalAppendBlank
  <2> HIDE DEF V
  <2> QED BY <2>1 DEF MindsNoLast
<1>2. MindsNoFirst(V)
  <2>1. ASSUME NEW u \in Texts, NEW w \in Blanks PROVE V[<<w>> \o u] = V[u]
    <3>1. <<w>> \o u \in Texts
      BY StripConsBlank
    <3> QED BY <3>1, FinalConsBlank
  <2> HIDE DEF V
  <2> QED BY <2>1 DEF MindsNoFirst
<1>3. Strip(t) \in Texts
  BY StripTyped
<1>4. V[Strip(t)] = V[t]
  <2> HIDE DEF V
  <2> QED BY <1>1, <1>2, MindsNoStrip
<1> QED BY <1>3, <1>4

(***************************************************************************)
(* The splitter of the code, which looks one character ahead.              *)
(***************************************************************************)
SplitStates == [parts : Seq(Texts), buf : Texts, quote : Quotes, next : {"read", "keep", "drop"}]
SplitStart == [parts |-> << >>, buf |-> << >>, quote |-> "none", next |-> "read"]

Doubled(text, compound, i) ==
  compound /\ text[i] = "bar" /\ i < Len(text) /\ text[i + 1] = "bar"
Parting(text, pipe, compound, s, i) ==
  /\ s.next = "read" /\ s.quote = "none"
  /\ \/ Doubled(text, compound, i)
     \/ compound /\ text[i] = "semi"
     \/ pipe /\ text[i] = "bar"
Skipped(s) == [parts |-> s.parts, buf |-> s.buf, quote |-> s.quote, next |-> "read"]
Parted(text, compound, s, i) ==
  [parts |-> Append(s.parts, s.buf), buf |-> << >>, quote |-> "none",
   next |-> IF Doubled(text, compound, i) THEN "drop" ELSE "read"]
Held(text, s, i) ==
  [parts |-> s.parts, buf |-> Append(s.buf, text[i]),
   quote |-> Quoting(s.quote, s.next = "keep", text[i]),
   next |-> IF Escaping(s.quote, s.next = "keep", text[i]) /\ i < Len(text) THEN "keep" ELSE "read"]

LEMMA SplitStatesAre ==
  ASSUME NEW s \in SplitStates
  PROVE  /\ s.parts \in Seq(Texts) /\ s.buf \in Texts /\ s.quote \in Quotes
         /\ s.next \in {"read", "keep", "drop"}
         /\ s = [parts |-> s.parts, buf |-> s.buf, quote |-> s.quote, next |-> s.next]
BY DEF SplitStates

LEMMA SkippedIs ==
  ASSUME NEW s \in SplitStates
  PROVE  [s EXCEPT !.next = "read"] = Skipped(s)
BY DEF Skipped, SplitStates

LEMMA StepIs ==
  ASSUME NEW text \in Texts, NEW pipe \in BOOLEAN, NEW compound \in BOOLEAN,
         NEW s \in SplitStates, NEW i \in 1..Len(text)
  PROVE  Step(text, pipe, compound, s, i) =
           IF s.next = "drop" THEN Skipped(s)
           ELSE IF Parting(text, pipe, compound, s, i) THEN Parted(text, compound, s, i)
           ELSE Held(text, s, i)
<1>1. /\ s.quote \in {"none", "sq", "dq"} /\ s.next \in {"read", "keep", "drop"}
  BY SplitStatesAre DEF Quotes
<1>2. CASE s.next = "drop"
  BY <1>2, SkippedIs DEF Step
<1> DEFINE plain == s.next # "drop" /\ ~(s.next = "keep" \/ (s.quote = "sq" /\ text[i] # "sq"))
<1>3. CASE s.next # "drop" /\ (s.next = "keep" \/ (s.quote = "sq" /\ text[i] # "sq"))
  BY <1>3 DEF Step, Keep, Parting, Held, Quoting, Escaping
<1>4. CASE plain /\ s.quote = text[i]
  BY <1>1, <1>4 DEF Step, Keep, Parting, Doubled, Held, Quoting, Escaping
<1>5. CASE plain /\ s.quote # text[i] /\ text[i] = "bs"
  BY <1>1, <1>5 DEF Step, Keep, Parting, Doubled, Held, Quoting, Escaping
<1>6. CASE plain /\ s.quote # text[i] /\ text[i] # "bs" /\ s.quote = "dq"
  BY <1>1, <1>6 DEF Step, Keep, Parting, Doubled, Held, Quoting, Escaping
<1>7. CASE plain /\ s.quote # text[i] /\ text[i] # "bs" /\ s.quote # "dq" /\ text[i] \in {"sq", "dq"}
  BY <1>1, <1>7 DEF Step, Keep, Parting, Doubled, Held, Quoting, Escaping
<1>8. CASE plain /\ s.quote # text[i] /\ text[i] # "bs" /\ s.quote # "dq" /\ text[i] \notin {"sq", "dq"}
  <2>1. s.quote = "none" /\ s.next = "read"
    BY <1>1, <1>8
  <2>2. CASE Parting(text, pipe, compound, s, i)
    BY <1>8, <2>1, <2>2 DEF Step, Cut, Parting, Parted, Doubled
  <2>3. CASE ~Parting(text, pipe, compound, s, i)
    BY <1>8, <2>1, <2>3 DEF Step, Keep, Parting, Held, Doubled, Quoting, Escaping
  <2> QED BY <1>8, <2>2, <2>3
<1> QED BY <1>2, <1>3, <1>4, <1>5, <1>6, <1>7, <1>8

LEMMA StepTyped ==
  ASSUME NEW text \in Texts, NEW pipe \in BOOLEAN, NEW compound \in BOOLEAN,
         NEW s \in SplitStates, NEW i \in 1..Len(text)
  PROVE  Step(text, pipe, compound, s, i) \in SplitStates
<1>1. s.parts \in Seq(Texts) /\ s.buf \in Texts /\ s.quote \in Quotes
  BY SplitStatesAre
<1>2. text[i] \in Glyphs
  BY ElementOfSeq DEF Texts
<1>3. Append(s.parts, s.buf) \in Seq(Texts) /\ Append(s.buf, text[i]) \in Texts /\ << >> \in Texts
  BY <1>1, <1>2, AppendProperties, EmptySeq DEF Texts
<1>4. \A e \in BOOLEAN : Quoting(s.quote, e, text[i]) \in Quotes
  BY <1>1 DEF Quoting, Quotes
<1>5. Skipped(s) \in SplitStates
  BY <1>1 DEF Skipped, SplitStates
<1>6. Parted(text, compound, s, i) \in SplitStates
  BY <1>3 DEF Parted, SplitStates, Quotes
<1>7. Held(text, s, i) \in SplitStates
  BY <1>1, <1>3, <1>4 DEF Held, SplitStates
<1> QED BY <1>5, <1>6, <1>7, StepIs

LEMMA ReadingIs ==
  ASSUME NEW text \in Texts, NEW pipe \in BOOLEAN, NEW compound \in BOOLEAN
  PROVE  LET at == Reading(text, pipe, compound)
         IN  /\ at[0] = SplitStart
             /\ \A i \in 1..Len(text) : at[i] = Step(text, pipe, compound, at[i - 1], i)
             /\ \A i \in 0..Len(text) : at[i] \in SplitStates
<1> DEFINE n == Len(text)
           at == Reading(text, pipe, compound)
           F == [p \in SplitStates \X (1..n) |-> Step(text, pipe, compound, p[1], p[2])]
           places == [i \in 1..n |-> i]
           Fits(f) == f = [i \in 0..n |-> IF i = 0 THEN SplitStart
                                          ELSE Step(text, pipe, compound, f[i - 1], i)]
<1>1. n \in Nat
  BY LenProperties DEF Texts
<1>2. Reader(SplitStates, 1..n, F)
  <2>1. \A p \in SplitStates \X (1..n) : p[1] \in SplitStates /\ p[2] \in 1..n
    OBVIOUS
  <2>2. \A p \in SplitStates \X (1..n) : Step(text, pipe, compound, p[1], p[2]) \in SplitStates
    BY <2>1, StepTyped
  <2>3. F \in [SplitStates \X (1..n) -> SplitStates]
    BY <2>2
  <2> HIDE DEF F
  <2> QED BY <2>3 DEF Reader
<1>3. SplitStart \in SplitStates
  <2>1. << >> \in Texts /\ << >> \in Seq(Texts)
    BY EmptySeq DEF Texts
  <2> QED BY <2>1 DEF SplitStart, SplitStates, Quotes
<1>4. places \in Seq(1..n) /\ Len(places) = n /\ \A i \in 1..n : places[i] = i
  BY <1>1, IsASeq
<1>5. ASSUME NEW s \in SplitStates, NEW i \in 1..n PROVE F[<<s, i>>] = Step(text, pipe, compound, s, i)
  <2>1. <<s, i>> \in SplitStates \X (1..n) /\ <<s, i>>[1] = s /\ <<s, i>>[2] = i
    OBVIOUS
  <2> QED BY <2>1
<1> HIDE DEF F, places
<1>6. PICK g \in [0..n -> SplitStates] : g[0] = SplitStart /\ \A i \in 1..n : g[i] = F[<<g[i - 1], places[i]>>]
  <2>1. \E f \in [0..Len(places) -> SplitStates] :
          f[0] = SplitStart /\ \A i \in 1..Len(places) : f[i] = F[<<f[i - 1], places[i]>>]
    BY <1>2, <1>3, <1>4, ReadIs
  <2> QED BY <2>1, <1>4
<1>7. \A i \in 1..n : g[i - 1] \in SplitStates /\ g[i] = Step(text, pipe, compound, g[i - 1], i)
  <2>1. ASSUME NEW i \in 1..n PROVE g[i - 1] \in SplitStates /\ g[i] = Step(text, pipe, compound, g[i - 1], i)
    <3>1. i - 1 \in 0..n /\ places[i] = i
      BY <1>1, <1>4
    <3>2. g[i - 1] \in SplitStates
      BY <3>1
    <3>3. g[i] = F[<<g[i - 1], i>>]
      BY <1>6, <3>1
    <3> QED BY <3>2, <3>3, <1>5
  <2> QED BY <2>1
<1>8. Fits(g)
  <2>1. \A i \in 0..n : g[i] = IF i = 0 THEN SplitStart ELSE Step(text, pipe, compound, g[i - 1], i)
    BY <1>1, <1>6, <1>7
  <2>2. g = [i \in 0..n |-> g[i]]
    OBVIOUS
  <2> QED BY <2>1, <2>2
<1>9. at = CHOOSE f : Fits(f)
  BY DEF Reading, SplitStart
<1>10. Fits(at)
  <2> HIDE DEF at, Fits
  <2> QED BY <1>8, <1>9
<1> HIDE DEF at
<1>11. at[0] = SplitStart /\ \A i \in 1..n : at[i] = Step(text, pipe, compound, at[i - 1], i)
  BY <1>1, <1>10
<1>12. Alike(at, g, n)
  <2>1. ASSUME NEW i \in 1..n, at[i - 1] = g[i - 1] PROVE at[i] = g[i]
    BY <2>1, <1>7, <1>11
  <2> QED BY <1>1, <1>6, <1>11, <2>1, FollowsOne
<1>13. \A i \in 0..n : at[i] \in SplitStates
  BY <1>12 DEF Alike
<1> QED BY <1>11, <1>13 DEF at

(***************************************************************************)
(* Cutting at nothing leaves one part, and what cutting makes of parts     *)
(* does not mind their being stripped first.                               *)
(***************************************************************************)
FinalMap(D) == [t \in Texts |-> Final(D, t)]

LEMMA FinalMaps ==
  ASSUME NEW D \in CutSets
  PROVE  Maps(Texts, Texts, FinalMap(D)) /\ \A t \in Texts : FinalMap(D)[t] = Final(D, t)
BY FinalTyped DEF Maps, FinalMap

LEMMA EndUncut == \A t \in Texts : End({}, t).done = << >> /\ End({}, t).buf = t
<1> DEFINE T == {t \in Texts : End({}, t).done = << >> /\ End({}, t).buf = t}
<1>1. {} \in CutSets
  BY DEF CutSets
<1>2. << >> \in T
  <2>1. << >> \in Texts
    BY EmptySeq DEF Texts
  <2> QED BY <1>1, <2>1, EndEmpty DEF CutStart
<1>3. ASSUME NEW t \in Seq(Glyphs), t \in T, NEW c \in Glyphs PROVE Append(t, c) \in T
  <2>1. t \in Texts /\ Append(t, c) \in Texts
    BY AppendProperties DEF Texts
  <2>2. End({}, Append(t, c)) = Reads({}, End({}, t), c)
    BY <1>1, <2>1, EndAppend
  <2>3. End({}, Append(t, c)) = Kept(End({}, t), c)
    BY <2>2 DEF Reads, Cutting
  <2>4. End({}, t).done = << >> /\ End({}, t).buf = t
    BY <1>3
  <2> QED BY <2>1, <2>3, <2>4 DEF Kept
<1>4. \A t \in Seq(Glyphs) : t \in T
  <2> HIDE DEF T
  <2> QED BY <1>2, <1>3, SeqInduction
<1> QED BY <1>4 DEF Texts

LEMMA FinalUncut ==
  ASSUME NEW t \in Texts
  PROVE  Final({}, t) = One(t)
<1>1. End({}, t).done = << >> /\ End({}, t).buf = t
  BY EndUncut
<1>2. << >> \o One(t) = One(t)
  BY OneTyped, ConcatEmptySeq
<1> QED BY <1>1, <1>2 DEF Final

LEMMA SolidsIs ==
  ASSUME NEW ps \in Seq(Texts)
  PROVE  Solids(ps) = Chain(FinalMap({}), ps) /\ Solids(ps) \in Seq(Texts)
<1>1. {} \in CutSets
  BY DEF CutSets
<1>2. \A i \in 1..Len(ps) : ps[i] \in Texts
  BY ElementOfSeq
<1>3. \A i \in 1..Len(ps) : FinalMap({})[ps[i]] = One(ps[i])
  BY <1>1, <1>2, FinalMaps, FinalUncut
<1>4. [i \in 1..Len(ps) |-> IF Strip(ps[i]) = << >> THEN << >> ELSE <<Strip(ps[i])>>]
        = [i \in 1..Len(ps) |-> FinalMap({})[ps[i]]]
  BY <1>3 DEF One
<1>5. Solids(ps) = Chain(FinalMap({}), ps)
  BY <1>4 DEF Solids, Chain
<1> QED BY <1>1, <1>5, FinalMaps, ChainTyped

LEMMA SolidsAppend ==
  ASSUME NEW ps \in Seq(Texts), NEW p \in Texts
  PROVE  Solids(Append(ps, p)) = Solids(ps) \o One(p)
<1>1. {} \in CutSets
  BY DEF CutSets
<1>2. Append(ps, p) \in Seq(Texts)
  BY AppendProperties
<1>3. Chain(FinalMap({}), Append(ps, p)) = Chain(FinalMap({}), ps) \o FinalMap({})[p]
  BY <1>1, FinalMaps, ChainAppend
<1>4. FinalMap({})[p] = One(p)
  BY <1>1, FinalMaps, FinalUncut
<1> QED BY <1>2, <1>3, <1>4, SolidsIs

LEMMA SolidsEmpty == Solids(<< >>) = << >>
<1>1. << >> \in Seq(Texts)
  BY EmptySeq
<1> QED BY <1>1, SolidsIs, ChainEmpty

LEMMA ChainSolids ==
  ASSUME NEW S, NEW G, Maps(Texts, S, G), G[<< >>] = << >>, \A t \in Texts : G[Strip(t)] = G[t]
  PROVE  \A ps \in Seq(Texts) : Chain(G, Solids(ps)) = Chain(G, ps)
<1> DEFINE T == {ps \in Seq(Texts) : Chain(G, Solids(ps)) = Chain(G, ps)}
<1>1. << >> \in T
  BY SolidsEmpty, ChainEmpty, EmptySeq
<1>2. ASSUME NEW ps \in Seq(Texts), ps \in T, NEW p \in Texts PROVE Append(ps, p) \in T
  <2>1. Append(ps, p) \in Seq(Texts) /\ Solids(ps) \in Seq(Texts) /\ Strip(p) \in Texts
    BY AppendProperties, SolidsIs, StripTyped
  <2>2. Chain(G, Append(ps, p)) = Chain(G, ps) \o G[p]
    BY ChainAppend
  <2>3. Chain(G, Solids(ps) \o One(p)) = Chain(G, Solids(ps)) \o G[p]
    <3>1. CASE Strip(p) = << >>
      <4>1. One(p) = << >> /\ G[p] = << >>
        BY <3>1 DEF One
      <4>2. Chain(G, Solids(ps)) \in Seq(S)
        BY <2>1, ChainTyped
      <4>3. Chain(G, Solids(ps)) \o << >> = Chain(G, Solids(ps)) /\ Solids(ps) \o << >> = Solids(ps)
        BY <2>1, <4>2, ConcatEmptySeq
      <4> QED BY <4>1, <4>3
    <3>2. CASE Strip(p) # << >>
      <4>1. One(p) = <<Strip(p)>> /\ G[p] = G[Strip(p)]
        BY <3>2 DEF One
      <4>2. Append(Solids(ps), Strip(p)) = Solids(ps) \o <<Strip(p)>>
        BY <2>1, AppendIsConcat
      <4>3. Chain(G, Append(Solids(ps), Strip(p))) = Chain(G, Solids(ps)) \o G[Strip(p)]
        BY <2>1, ChainAppend
      <4> QED BY <4>1, <4>2, <4>3
    <3> QED BY <3>1, <3>2
  <2>4. Chain(G, Solids(ps)) = Chain(G, ps)
    BY <1>2
  <2>5. Solids(Append(ps, p)) = Solids(ps) \o One(p)
    BY SolidsAppend
  <2> QED BY <2>1, <2>2, <2>3, <2>4, <2>5
<1>3. \A ps \in Seq(Texts) : ps \in T
  <2> HIDE DEF T
  <2> QED BY <1>1, <1>2, SeqInduction
<1> QED BY <1>3

(***************************************************************************)
(* The splitter finds what cutting finds.  It splits the text into parts,  *)
(* and what it leaves together is cut at the characters of D.              *)
(***************************************************************************)
Instances(pipe, compound, C, D) ==
  \/ pipe = TRUE /\ compound = TRUE /\ C = {"semi", "bar"} /\ D = {}
  \/ pipe = TRUE /\ compound = FALSE /\ C = {"bar"} /\ D = {}
  \/ pipe = FALSE /\ compound = TRUE /\ C = {"semi", "bar"} /\ D = {"bar"}

(* The splitter is where cutting its text at C is: what that has cut off,  *)
(* cutting at D would find in the splitter's parts and in its buffer.  It  *)
(* is behind only between the two bars of an or.                           *)
SameEnd(D, s, a, b) ==
  /\ a.done = Chain(FinalMap(D), s.parts) \o b.done
  /\ a.buf = b.buf /\ a.quote = b.quote /\ a.esc = b.esc
  /\ s.quote = a.quote
Awaits(text, i, s, a) ==
  IF s.next = "drop" THEN i < Len(text) /\ text[i + 1] = "bar" /\ s.buf = << >>
  ELSE i < Len(text) => (s.next = "keep" <=> a.esc)

LEMMA ConcatThree == \A x, y, z \in Seq(Texts) : (x \o y) \o z = x \o (y \o z)
BY ConcatAssociative

LEMMA ChainFinalAppend ==
  ASSUME NEW D \in CutSets, NEW ps \in Seq(Texts), NEW p \in Texts
  PROVE  /\ Chain(FinalMap(D), Append(ps, p)) = Chain(FinalMap(D), ps) \o Final(D, p)
         /\ Chain(FinalMap(D), ps) \in Seq(Texts)
<1>1. Maps(Texts, Texts, FinalMap(D)) /\ FinalMap(D)[p] = Final(D, p)
  BY FinalMaps
<1>2. Chain(FinalMap(D), Append(ps, p)) = Chain(FinalMap(D), ps) \o FinalMap(D)[p]
  <2> DEFINE G == FinalMap(D)
  <2>1. Maps(Texts, Texts, G)
    BY <1>1
  <2> HIDE DEF G
  <2>2. \A s \in Seq(Texts), x \in Texts : Chain(G, Append(s, x)) = Chain(G, s) \o G[x]
    BY <2>1, ChainAppend
  <2>3. Chain(G, Append(ps, p)) = Chain(G, ps) \o G[p]
    BY <2>2
  <2> QED BY <2>3 DEF G
<1>3. Chain(FinalMap(D), ps) \in Seq(Texts)
  BY <1>1, ChainTyped
<1> QED BY <1>1, <1>2, <1>3

LEMMA CutOffIs ==
  ASSUME NEW a
  PROVE  /\ CutOff(a).done = a.done \o One(a.buf) /\ CutOff(a).buf = << >>
         /\ CutOff(a).quote = "none" /\ CutOff(a).esc = FALSE
BY DEF CutOff

LEMMA InstancesAre ==
  ASSUME NEW pipe, NEW compound, NEW C, NEW D, Instances(pipe, compound, C, D)
  PROVE  pipe \in BOOLEAN /\ compound \in BOOLEAN /\ C \in CutSets /\ D \in CutSets
BY DEF Instances, CutSets

LEMMA SkipSame ==
  ASSUME NEW pipe, NEW compound, NEW C, NEW D, Instances(pipe, compound, C, D),
         NEW text \in Texts, NEW i \in 1..Len(text), NEW s \in SplitStates, NEW a \in CutStates,
         SameEnd(D, s, a, End(D, s.buf)), Awaits(text, i - 1, s, a), s.next = "drop"
  PROVE  /\ SameEnd(D, Skipped(s), Reads(C, a, text[i]), End(D, Skipped(s).buf))
         /\ Awaits(text, i, Skipped(s), Reads(C, a, text[i]))
<1>1. C \in CutSets /\ D \in CutSets /\ "bar" \in C
  BY InstancesAre DEF Instances
<1>2. Len(text) \in Nat /\ i - 1 + 1 = i
  BY LenProperties DEF Texts
<1>3. text[i] = "bar" /\ s.buf = << >>
  BY <1>2 DEF Awaits
<1>4. End(D, s.buf) = CutStart
  BY <1>1, <1>3, EndEmpty
<1>5. a.buf = << >> /\ a.quote = "none" /\ a.esc = FALSE /\ s.quote = "none"
  BY <1>4 DEF SameEnd, CutStart
<1>6. a.done \in Seq(Texts)
  BY CutStatesAre
<1>7. One(<< >>) = << >>
  BY FinalUncut, FinalEmpty, <1>1, EmptySeq DEF Texts, CutSets
<1>8. Reads(C, a, text[i]) = CutOff(a)
  BY <1>1, <1>3, <1>5 DEF Reads, Cutting
<1>9. a.done \o One(a.buf) = a.done
  BY <1>5, <1>6, <1>7, ConcatEmptySeq
<1> DEFINE r == Reads(C, a, text[i])
<1>10. r.done = a.done /\ r.buf = << >> /\ r.quote = "none" /\ r.esc = FALSE
  BY <1>8, <1>9 DEF CutOff
<1> HIDE DEF r
<1>11. Skipped(s).parts = s.parts /\ Skipped(s).buf = s.buf /\ Skipped(s).quote = s.quote /\ Skipped(s).next = "read"
  BY DEF Skipped
<1>12. SameEnd(D, Skipped(s), r, End(D, Skipped(s).buf))
  BY <1>5, <1>10, <1>11 DEF SameEnd
<1>13. Awaits(text, i, Skipped(s), r)
  BY <1>10, <1>11 DEF Awaits
<1> QED BY <1>12, <1>13 DEF r

LEMMA PartSame ==
  ASSUME NEW pipe, NEW compound, NEW C, NEW D, Instances(pipe, compound, C, D),
         NEW text \in Texts, NEW i \in 1..Len(text), NEW s \in SplitStates, NEW a \in CutStates,
         SameEnd(D, s, a, End(D, s.buf)), Awaits(text, i - 1, s, a), s.next # "drop",
         Parting(text, pipe, compound, s, i)
  PROVE  LET u == Parted(text, compound, s, i)
         IN  /\ SameEnd(D, u, Reads(C, a, text[i]), End(D, u.buf))
             /\ Awaits(text, i, u, Reads(C, a, text[i]))
<1> DEFINE u == Parted(text, compound, s, i)
           b == End(D, s.buf)
           r == Reads(C, a, text[i])
<1>1. C \in CutSets /\ D \in CutSets /\ text[i] \in C
  BY InstancesAre DEF Instances, Parting, Doubled
<1>2. Len(text) \in Nat /\ i - 1 < Len(text)
  BY LenProperties DEF Texts
<1>3. s.quote = "none" /\ ~a.esc /\ a.quote = "none"
  BY <1>2 DEF Awaits, Parting, SameEnd
<1>4. s.parts \in Seq(Texts) /\ s.buf \in Texts /\ a.done \in Seq(Texts) /\ b \in CutStates
  BY <1>1, SplitStatesAre, CutStatesAre, EndTyped
<1>5. r = CutOff(a)
  BY <1>1, <1>3 DEF Reads, Cutting
<1>6. r.done = a.done \o One(a.buf) /\ r.buf = << >> /\ r.quote = "none" /\ r.esc = FALSE
  <2> HIDE DEF r
  <2> QED BY <1>5, CutOffIs
<1>7. /\ u.parts = Append(s.parts, s.buf) /\ u.buf = << >> /\ u.quote = "none"
      /\ u.next = IF Doubled(text, compound, i) THEN "drop" ELSE "read"
  BY DEF Parted
<1>8. Chain(FinalMap(D), u.parts) = Chain(FinalMap(D), s.parts) \o (b.done \o One(b.buf))
  <2>1. Chain(FinalMap(D), Append(s.parts, s.buf)) = Chain(FinalMap(D), s.parts) \o Final(D, s.buf)
    <3> HIDE DEF b, r, u
    <3> QED BY <1>1, <1>4, ChainFinalAppend
  <2>2. Final(D, s.buf) = b.done \o One(b.buf)
    BY DEF Final
  <2> QED BY <1>7, <2>1, <2>2
<1>9. r.done = Chain(FinalMap(D), u.parts) /\ r.done \in Seq(Texts)
  <2>1. Chain(FinalMap(D), s.parts) \in Seq(Texts) /\ b.done \in Seq(Texts) /\ One(b.buf) \in Seq(Texts)
    BY <1>1, <1>4, FinalMaps, ChainTyped, CutStatesAre, OneTyped
  <2> DEFINE x == Chain(FinalMap(D), s.parts)
             y == b.done
             z == One(b.buf)
  <2>2. x \in Seq(Texts) /\ y \in Seq(Texts) /\ z \in Seq(Texts)
    BY <2>1
  <2>3. r.done = (x \o y) \o z
    BY <1>6 DEF SameEnd
  <2>4. Chain(FinalMap(D), u.parts) = x \o (y \o z)
    BY <1>8
  <2> HIDE DEF x, y, z
  <2>5. y \o z \in Seq(Texts)
    BY <2>2, ConcatProperties
  <2>6. x \o (y \o z) \in Seq(Texts)
    BY <2>2, <2>5, ConcatProperties
  <2>7. (x \o y) \o z = x \o (y \o z)
    BY <2>2, ConcatThree
  <2> QED BY <2>3, <2>4, <2>6, <2>7
<1>10. End(D, u.buf) = CutStart
  BY <1>1, <1>7, EndEmpty
<1>11. r.done \o << >> = r.done
  BY <1>9, ConcatEmptySeq
<1> HIDE DEF u, r, b
<1>12. SameEnd(D, u, r, CutStart)
  <2>1. CutStart.done = << >> /\ CutStart.buf = << >> /\ CutStart.quote = "none" /\ CutStart.esc = FALSE
    BY DEF CutStart
  <2> QED BY <1>6, <1>7, <1>9, <1>11, <2>1 DEF SameEnd
<1>13. Awaits(text, i, u, r)
  BY <1>6, <1>7 DEF Awaits, Doubled
<1> QED BY <1>10, <1>12, <1>13 DEF u, r

LEMMA HoldSame ==
  ASSUME NEW pipe, NEW compound, NEW C, NEW D, Instances(pipe, compound, C, D),
         NEW text \in Texts, NEW i \in 1..Len(text), NEW s \in SplitStates, NEW a \in CutStates,
         SameEnd(D, s, a, End(D, s.buf)), Awaits(text, i - 1, s, a), s.next # "drop",
         ~Parting(text, pipe, compound, s, i)
  PROVE  LET u == Held(text, s, i)
         IN  /\ SameEnd(D, u, Reads(C, a, text[i]), End(D, u.buf))
             /\ Awaits(text, i, u, Reads(C, a, text[i]))
<1> DEFINE u == Held(text, s, i)
           b == End(D, s.buf)
           r == Reads(C, a, text[i])
           v == Reads(D, b, text[i])
           x == Chain(FinalMap(D), s.parts)
<1>1. C \in CutSets /\ D \in CutSets
  BY InstancesAre
<1>2. Len(text) \in Nat /\ i - 1 < Len(text) /\ text[i] \in Glyphs
  BY LenProperties, ElementOfSeq DEF Texts
<1>3. s.next \in {"read", "keep"} /\ a.esc \in BOOLEAN /\ (s.next = "keep" <=> a.esc) /\ (s.next = "keep") = a.esc
  BY <1>2, SplitStatesAre, CutStatesAre DEF Awaits
<1>4. s.parts \in Seq(Texts) /\ s.buf \in Texts /\ b \in CutStates
  BY <1>1, SplitStatesAre, EndTyped
<1>5. u.parts = s.parts /\ u.buf = Append(s.buf, text[i]) /\ u.quote = Quoting(s.quote, a.esc, text[i])
      /\ u.next = IF Escaping(s.quote, a.esc, text[i]) /\ i < Len(text) THEN "keep" ELSE "read"
  BY <1>3 DEF Held
<1>6. End(D, u.buf) = v
  BY <1>1, <1>2, <1>4, <1>5, EndAppend
<1>7. a.done = x \o b.done /\ a.buf = b.buf /\ a.quote = b.quote /\ a.esc = b.esc /\ s.quote = a.quote
  BY DEF SameEnd
<1>8. Cutting(C, a, text[i]) <=> Cutting(D, b, text[i])
  <2>1. ~a.esc /\ a.quote = "none" => (text[i] \in C <=> text[i] \in D)
    BY <1>3, <1>7 DEF Instances, Parting
  <2> QED BY <1>7, <2>1 DEF Cutting
<1>9. x \in Seq(Texts) /\ b.done \in Seq(Texts) /\ One(b.buf) \in Seq(Texts)
  BY <1>1, <1>4, FinalMaps, ChainTyped, CutStatesAre, OneTyped
<1>10. (x \o b.done) \o One(b.buf) = x \o (b.done \o One(b.buf))
  <2> DEFINE y == b.done
             z == One(b.buf)
  <2>1. x \in Seq(Texts) /\ y \in Seq(Texts) /\ z \in Seq(Texts)
    BY <1>9
  <2> HIDE DEF x, y, z
  <2>2. (x \o y) \o z = x \o (y \o z)
    BY <2>1, ConcatThree
  <2> QED BY <2>2 DEF y, z
<1> HIDE DEF x, b, u
<1>11. CASE Cutting(C, a, text[i])
  <2>1. r = CutOff(a) /\ v = CutOff(b)
    BY <1>8, <1>11 DEF Reads
  <2>2. r.done = a.done \o One(a.buf) /\ r.buf = << >> /\ r.quote = "none" /\ r.esc = FALSE
        /\ v.done = b.done \o One(b.buf) /\ v.buf = << >> /\ v.quote = "none" /\ v.esc = FALSE
    <3> HIDE DEF r, v
    <3> QED BY <2>1, CutOffIs
  <2>3. text[i] \in {"semi", "bar"} /\ ~a.esc /\ a.quote = "none"
    BY <1>1, <1>11 DEF Cutting, CutSets
  <2>4. Quoting(s.quote, a.esc, text[i]) = "none" /\ Escaping(s.quote, a.esc, text[i]) = FALSE
    BY <1>7, <2>3 DEF Quoting, Escaping
  <2> HIDE DEF r, v
  <2>5. SameEnd(D, u, r, v)
    BY <1>5, <1>7, <1>10, <2>2, <2>4 DEF SameEnd, x
  <2>6. Awaits(text, i, u, r)
    BY <1>5, <2>2, <2>4 DEF Awaits
  <2> QED BY <1>6, <2>5, <2>6 DEF r, u
<1>12. CASE ~Cutting(C, a, text[i])
  <2>1. r = Kept(a, text[i]) /\ v = Kept(b, text[i])
    BY <1>8, <1>12 DEF Reads
  <2>2. /\ r.done = a.done /\ r.buf = Append(a.buf, text[i])
        /\ r.quote = Quoting(a.quote, a.esc, text[i]) /\ r.esc = Escaping(a.quote, a.esc, text[i])
        /\ v.done = b.done /\ v.buf = Append(b.buf, text[i])
        /\ v.quote = Quoting(b.quote, b.esc, text[i]) /\ v.esc = Escaping(b.quote, b.esc, text[i])
    BY <2>1 DEF Kept
  <2> HIDE DEF r, v
  <2>3. SameEnd(D, u, r, v)
    BY <1>5, <1>7, <2>2 DEF SameEnd, x
  <2>4. Awaits(text, i, u, r)
    BY <1>5, <1>7, <2>2 DEF Awaits
  <2> QED BY <1>6, <2>3, <2>4 DEF r, u
<1> QED BY <1>11, <1>12

LEMMA ReadingSame ==
  ASSUME NEW pipe, NEW compound, NEW C, NEW D, Instances(pipe, compound, C, D), NEW text \in Texts
  PROVE  \A i \in 0..Len(text) :
           LET s == Reading(text, pipe, compound)[i]
               a == End(C, SubSeq(text, 1, i))
           IN  SameEnd(D, s, a, End(D, s.buf)) /\ Awaits(text, i, s, a)
<1> DEFINE at == Reading(text, pipe, compound)
           a(i) == End(C, SubSeq(text, 1, i))
           T == {i \in 0..Len(text) : SameEnd(D, at[i], a(i), End(D, at[i].buf)) /\ Awaits(text, i, at[i], a(i))}
<1>1. Len(text) \in Nat /\ text \in Seq(Glyphs)
  BY LenProperties DEF Texts
<1>2. pipe \in BOOLEAN /\ compound \in BOOLEAN /\ C \in CutSets /\ D \in CutSets
  BY InstancesAre
<1>3. /\ at[0] = SplitStart /\ \A i \in 1..Len(text) : at[i] = Step(text, pipe, compound, at[i - 1], i)
      /\ \A i \in 0..Len(text) : at[i] \in SplitStates
  BY <1>2, ReadingIs
<1> HIDE DEF at
<1>4. 0 \in T
  <2>1. SubSeq(text, 1, 0) = << >>
    BY SubSeqEmpty
  <2>2. a(0) = CutStart /\ at[0] = SplitStart
    BY <1>2, <1>3, <2>1, EndEmpty
  <2>3. SplitStart.buf = << >> /\ SplitStart.parts = << >> /\ SplitStart.quote = "none" /\ SplitStart.next = "read"
    BY DEF SplitStart
  <2>4. CutStart.done = << >> /\ CutStart.buf = << >> /\ CutStart.quote = "none" /\ CutStart.esc = FALSE
    BY DEF CutStart
  <2>5. End(D, SplitStart.buf) = CutStart
    BY <1>2, <2>3, EndEmpty
  <2>6. Chain(FinalMap(D), << >>) \o << >> = << >>
    BY ChainEmpty, ConcatEmptySeq, EmptySeq
  <2>7. SameEnd(D, SplitStart, CutStart, CutStart)
    BY <2>3, <2>4, <2>6 DEF SameEnd
  <2>8. Awaits(text, 0, SplitStart, CutStart)
    BY <2>3, <2>4 DEF Awaits
  <2>9. 0 \in 0..Len(text)
    BY <1>1
  <2> QED BY <2>2, <2>5, <2>7, <2>8, <2>9
<1>5. ASSUME NEW i \in 1..Len(text), i - 1 \in T PROVE i \in T
  <2> DEFINE s == at[i - 1]
             b == a(i - 1)
  <2>1. i - 1 \in 0..Len(text) /\ i \in 0..Len(text) /\ text[i] \in Glyphs
    BY <1>1, ElementOfSeq
  <2>2. s \in SplitStates /\ SubSeq(text, 1, i - 1) \in Texts
    BY <1>1, <1>3, <2>1, PrefixAppend DEF Texts
  <2>3. b \in CutStates
    BY <1>2, <2>2, EndTyped
  <2>4. SubSeq(text, 1, i) = Append(SubSeq(text, 1, i - 1), text[i])
    BY <1>1, PrefixAppend
  <2>5. a(i) = Reads(C, b, text[i])
    <3> DEFINE p == SubSeq(text, 1, i - 1)
               c == text[i]
    <3>1. p \in Texts /\ c \in Glyphs
      BY <2>1, <2>2
    <3> HIDE DEF p, c
    <3>2. End(C, Append(p, c)) = Reads(C, End(C, p), c)
      BY <1>2, <3>1, EndAppend
    <3> QED BY <2>4, <3>2 DEF p, c
  <2>6. SameEnd(D, s, b, End(D, s.buf)) /\ Awaits(text, i - 1, s, b)
    BY <1>5
  <2>7. at[i] = IF s.next = "drop" THEN Skipped(s)
                ELSE IF Parting(text, pipe, compound, s, i) THEN Parted(text, compound, s, i)
                ELSE Held(text, s, i)
    <3>1. at[i] = Step(text, pipe, compound, s, i)
      BY <1>3
    <3> HIDE DEF s
    <3> QED BY <1>2, <2>2, <3>1, StepIs
  <2> DEFINE r == Reads(C, b, text[i])
  <2> HIDE DEF s, b
  <2>8. CASE s.next = "drop"
    <3>1. SameEnd(D, Skipped(s), r, End(D, Skipped(s).buf)) /\ Awaits(text, i, Skipped(s), r)
      BY <2>2, <2>3, <2>6, <2>8, SkipSame
    <3> QED BY <2>1, <2>5, <2>7, <2>8, <3>1
  <2>9. CASE s.next # "drop" /\ Parting(text, pipe, compound, s, i)
    <3> DEFINE u == Parted(text, compound, s, i)
    <3>1. SameEnd(D, u, r, End(D, u.buf)) /\ Awaits(text, i, u, r)
      BY <2>2, <2>3, <2>6, <2>9, PartSame
    <3> QED BY <2>1, <2>5, <2>7, <2>9, <3>1
  <2>10. CASE s.next # "drop" /\ ~Parting(text, pipe, compound, s, i)
    <3> DEFINE u == Held(text, s, i)
    <3>1. SameEnd(D, u, r, End(D, u.buf)) /\ Awaits(text, i, u, r)
      BY <2>2, <2>3, <2>6, <2>10, HoldSame
    <3> QED BY <2>1, <2>5, <2>7, <2>10, <3>1
  <2> QED BY <2>8, <2>9, <2>10
<1>6. \A i \in 0..Len(text) : i \in T
  <2> HIDE DEF T
  <2> QED BY <1>1, <1>4, <1>5, UpTo
<1> QED BY <1>6 DEF at

SplitsInto(text, pipe, compound, C, D, ps) ==
  /\ Split(text, pipe, compound) = Solids(ps)
  /\ Final(C, text) = Chain(FinalMap(D), ps)
  /\ Reading(text, pipe, compound)[Len(text)].quote = End(C, text).quote

LEMMA SplitIs ==
  ASSUME NEW pipe, NEW compound, NEW C, NEW D, Instances(pipe, compound, C, D), NEW text \in Texts
  PROVE  \E ps \in Seq(Texts) : SplitsInto(text, pipe, compound, C, D, ps)
<1> DEFINE s == Reading(text, pipe, compound)[Len(text)]
           a == End(C, text)
           b == End(D, s.buf)
           x == Chain(FinalMap(D), s.parts)
<1>1. Len(text) \in Nat /\ Len(text) \in 0..Len(text) /\ text \in Seq(Glyphs)
  BY LenProperties DEF Texts
<1>2. pipe \in BOOLEAN /\ compound \in BOOLEAN /\ C \in CutSets /\ D \in CutSets
  BY InstancesAre
<1>3. SubSeq(text, 1, Len(text)) = text
  BY <1>1, SubSeqFull
<1>4. SameEnd(D, s, a, b)
  BY <1>1, <1>3, ReadingSame
<1>5. s \in SplitStates
  BY <1>1, <1>2, ReadingIs
<1>6. s.parts \in Seq(Texts) /\ s.buf \in Texts /\ b \in CutStates /\ a \in CutStates
  BY <1>2, <1>5, SplitStatesAre, EndTyped
<1>7. Append(s.parts, s.buf) \in Seq(Texts)
  BY <1>6, AppendProperties
<1>8. Split(text, pipe, compound) = Solids(Append(s.parts, s.buf))
  BY DEF Split
<1>9. Final(C, text) = a.done \o One(a.buf) /\ Final(D, s.buf) = b.done \o One(b.buf)
  BY DEF Final
<1> HIDE DEF s, a, b
<1>10. a.done = x \o b.done /\ a.buf = b.buf /\ s.quote = a.quote
  BY <1>4 DEF SameEnd
<1>11. Chain(FinalMap(D), Append(s.parts, s.buf)) = x \o (b.done \o One(b.buf)) /\ x \in Seq(Texts)
  BY <1>2, <1>6, <1>9, ChainFinalAppend
<1>12. (x \o b.done) \o One(b.buf) = x \o (b.done \o One(b.buf))
  <2> DEFINE y == b.done
             z == One(b.buf)
  <2>1. x \in Seq(Texts) /\ y \in Seq(Texts) /\ z \in Seq(Texts)
    BY <1>6, <1>11, CutStatesAre, OneTyped
  <2> HIDE DEF x, y, z
  <2>2. (x \o y) \o z = x \o (y \o z)
    BY <2>1, ConcatThree
  <2> QED BY <2>2 DEF y, z
<1>13. Final(C, text) = Chain(FinalMap(D), Append(s.parts, s.buf))
  <2> HIDE DEF x
  <2> QED BY <1>9, <1>10, <1>11, <1>12
<1> QED BY <1>7, <1>8, <1>10, <1>13 DEF s, a, SplitsInto

Ends == {"semi", "bar"}

LEMMA EndsAre == Ends \in CutSets /\ {"bar"} \in CutSets /\ {} \in CutSets
BY DEF Ends, CutSets

LEMMA SplitFinal ==
  ASSUME NEW text \in Texts
  PROVE  /\ Split(text, TRUE, TRUE) = Final(Ends, text)
         /\ Split(text, TRUE, FALSE) = Final({"bar"}, text)
         /\ OpenQuote(text) = End(Ends, text).quote
<1>1. Instances(TRUE, TRUE, Ends, {}) /\ Instances(TRUE, FALSE, {"bar"}, {})
  BY DEF Instances, Ends
<1>2. PICK ps \in Seq(Texts) : SplitsInto(text, TRUE, TRUE, Ends, {}, ps)
  BY <1>1, SplitIs, Zenon
<1>3. PICK qs \in Seq(Texts) : SplitsInto(text, TRUE, FALSE, {"bar"}, {}, qs)
  BY <1>1, SplitIs, Zenon
<1>4. Solids(ps) = Chain(FinalMap({}), ps) /\ Solids(qs) = Chain(FinalMap({}), qs)
  BY SolidsIs
<1> QED BY <1>2, <1>3, <1>4 DEF OpenQuote, SplitsInto

(* What one pass finds is what the passes for compounds and for pipes find.*)
LEMMA PiecesFinal ==
  ASSUME NEW text \in Texts
  PROVE  /\ PiecesOf(text) = Final(Ends, text)
         /\ Compounds(text) \in Seq(Texts)
<1>1. Instances(FALSE, TRUE, Ends, {"bar"})
  BY DEF Instances, Ends
<1>2. PICK ps \in Seq(Texts) : SplitsInto(text, FALSE, TRUE, Ends, {"bar"}, ps)
  BY <1>1, SplitIs, Zenon
<1> DEFINE cs == Compounds(text)
           G == FinalMap({"bar"})
<1>3. cs = Solids(ps) /\ cs \in Seq(Texts)
  BY <1>2, SolidsIs DEF Compounds, SplitsInto
<1>4. Maps(Texts, Texts, G) /\ \A t \in Texts : G[t] = Final({"bar"}, t)
  BY EndsAre, FinalMaps
<1>5. PiecesOf(text) = FlattenSeq([i \in 1..Len(cs) |-> Pipes(cs[i])])
  BY DEF PiecesOf
<1> HIDE DEF cs, G
<1>6. \A i \in 1..Len(cs) : cs[i] \in Texts
  BY <1>3, ElementOfSeq
<1>7. \A i \in 1..Len(cs) : Pipes(cs[i]) = G[cs[i]]
  BY <1>4, <1>6, SplitFinal DEF Pipes
<1>8. [i \in 1..Len(cs) |-> Pipes(cs[i])] = [i \in 1..Len(cs) |-> G[cs[i]]]
  BY <1>7
<1>9. PiecesOf(text) = Chain(G, cs)
  BY <1>5, <1>8 DEF Chain
<1>10. G[<< >>] = << >> /\ \A t \in Texts : G[Strip(t)] = G[t]
  <2>1. << >> \in Texts
    BY EmptySeq DEF Texts
  <2>2. G[<< >>] = << >>
    BY <1>4, <2>1, EndsAre, FinalEmpty
  <2>3. ASSUME NEW t \in Texts PROVE G[Strip(t)] = G[t]
    <3>1. Strip(t) \in Texts
      BY StripTyped
    <3> QED BY <1>4, <3>1, EndsAre, FinalStrip
  <2> QED BY <2>2, <2>3
<1>11. Chain(G, Solids(ps)) = Chain(G, ps)
  BY <1>4, <1>10, ChainSolids
<1> QED BY <1>2, <1>3, <1>9, <1>11 DEF G, cs, SplitsInto

(***************************************************************************)
(* The scanners, which look ahead only to see whether the text goes on.    *)
(***************************************************************************)
Lives == {"sub", "redir"}
SeenStates == [single : BOOLEAN, double : BOOLEAN, skip : BOOLEAN, live : SUBSET Lives]
SeenStart == [single |-> FALSE, double |-> FALSE, skip |-> FALSE, live |-> {}]
Shows(s, c) == ~s.skip /\ ~s.single /\ (c = "sub" \/ (c = "redir" /\ ~s.double))
Sees(s, c) ==
  [single |-> IF s.skip THEN s.single ELSE IF s.single THEN c # "sq" ELSE c = "sq",
   double |-> IF ~s.skip /\ ~s.single /\ c = "dq" THEN ~s.double ELSE s.double,
   skip |-> ~s.skip /\ ~s.single /\ c = "bs",
   live |-> IF Shows(s, c) THEN s.live \cup {c} ELSE s.live]
SeenReader == [p \in SeenStates \X Glyphs |-> Sees(p[1], p[2])]
Seen(text) == Read(SeenReader, SeenStart, text)

LEMMA SeenStatesAre ==
  ASSUME NEW s \in SeenStates
  PROVE  s.single \in BOOLEAN /\ s.double \in BOOLEAN /\ s.skip \in BOOLEAN /\ s.live \in SUBSET Lives
BY DEF SeenStates

LEMMA SeesTyped ==
  ASSUME NEW s \in SeenStates, NEW c
  PROVE  Sees(s, c) \in SeenStates
<1>1. s.single \in BOOLEAN /\ s.double \in BOOLEAN /\ s.skip \in BOOLEAN /\ s.live \in SUBSET Lives
  BY SeenStatesAre
<1>2. Shows(s, c) => c \in Lives
  BY DEF Shows, Lives
<1>3. (IF Shows(s, c) THEN s.live \cup {c} ELSE s.live) \in SUBSET Lives
  BY <1>1, <1>2
<1>4. (IF s.skip THEN s.single ELSE IF s.single THEN c # "sq" ELSE c = "sq") \in BOOLEAN
  BY <1>1
<1>5. (IF ~s.skip /\ ~s.single /\ c = "dq" THEN ~s.double ELSE s.double) \in BOOLEAN
  BY <1>1
<1>6. (~s.skip /\ ~s.single /\ c = "bs") \in BOOLEAN
  OBVIOUS
<1> QED BY <1>3, <1>4, <1>5, <1>6 DEF Sees, SeenStates

LEMMA SeenReads ==
  /\ Reader(SeenStates, Glyphs, SeenReader) /\ SeenStart \in SeenStates
  /\ \A s \in SeenStates : \A c \in Glyphs : SeenReader[<<s, c>>] = Sees(s, c)
<1>1. \A p \in SeenStates \X Glyphs : Sees(p[1], p[2]) \in SeenStates
  <2>1. \A p \in SeenStates \X Glyphs : p[1] \in SeenStates /\ p[2] \in Glyphs
    OBVIOUS
  <2> QED BY <2>1, SeesTyped
<1>2. SeenReader \in [SeenStates \X Glyphs -> SeenStates]
  BY <1>1 DEF SeenReader
<1>3. SeenStart \in SeenStates
  BY DEF SeenStart, SeenStates
<1>4. ASSUME NEW s \in SeenStates, NEW c \in Glyphs PROVE SeenReader[<<s, c>>] = Sees(s, c)
  <2>1. <<s, c>> \in SeenStates \X Glyphs /\ <<s, c>>[1] = s /\ <<s, c>>[2] = c
    OBVIOUS
  <2> QED BY <2>1 DEF SeenReader
<1> QED BY <1>2, <1>3, <1>4 DEF Reader

LEMMA SeenEmpty == Seen(<< >>) = SeenStart
BY SeenReads, ReadEmpty DEF Seen

LEMMA SeenTyped ==
  ASSUME NEW t \in Texts
  PROVE  Seen(t) \in SeenStates
BY SeenReads, ReadTyped DEF Seen, Texts

LEMMA SeenAppend ==
  ASSUME NEW t \in Texts, NEW c \in Glyphs
  PROVE  Seen(Append(t, c)) = Sees(Seen(t), c)
<1>1. Seen(Append(t, c)) = SeenReader[<<Seen(t), c>>]
  BY SeenReads, ReadAppend DEF Seen, Texts
<1>2. Seen(t) \in SeenStates
  BY SeenTyped
<1> QED BY <1>1, <1>2, SeenReads

(* A function that follows a reader where its states are typed reads.      *)
LEMMA ReadsAs ==
  ASSUME NEW S, NEW a \in S, NEW X, NEW F, Reader(S, X, F), NEW text \in Seq(X), NEW f, f[0] = a,
         \A i \in 1..Len(text) : f[i - 1] \in S => f[i] = F[<<f[i - 1], text[i]>>]
  PROVE  /\ f[Len(text)] = Read(F, a, text)
         /\ \A i \in 0..Len(text) : f[i] \in S
<1>1. PICK g \in [0..Len(text) -> S] :
        /\ g[0] = a /\ \A i \in 1..Len(text) : g[i] = F[<<g[i - 1], text[i]>>]
        /\ Read(F, a, text) = g[Len(text)]
  BY ReadIs
<1>2. Len(text) \in Nat
  BY LenProperties
<1>3. ASSUME NEW i \in 1..Len(text), f[i - 1] = g[i - 1] PROVE f[i] = g[i]
  <2>1. i - 1 \in 0..Len(text)
    BY <1>2
  <2>2. g[i - 1] \in S
    BY <2>1
  <2> QED BY <1>1, <1>3, <2>2
<1>4. Alike(f, g, Len(text))
  BY <1>1, <1>2, <1>3, FollowsOne
<1>5. \A i \in 0..Len(text) : f[i] = g[i]
  BY <1>4 DEF Alike
<1>6. Len(text) \in 0..Len(text)
  BY <1>2
<1> QED BY <1>1, <1>5, <1>6

(* The places of a text, for steps that look at where they are.            *)
LEMMA PlacesAre ==
  ASSUME NEW n \in Nat
  PROVE  LET p == [i \in 1..n |-> i]
         IN  p \in Seq(1..n) /\ Len(p) = n /\ \A i \in 1..n : p[i] = i
BY IsASeq

LookStates == [single : BOOLEAN, double : BOOLEAN, skip : BOOLEAN, live : SUBSET Glyphs]

Plain(s) == ~s.skip /\ ~s.single
Sights(text, s, i) ==
  /\ Plain(s) /\ text[i] \notin {"sq", "dq"}
  /\ ~(text[i] = "bs" /\ i < Len(text)) /\ ~(text[i] = "redir" /\ s.double)
Looked(text, s, i) ==
  [single |-> IF s.skip THEN s.single ELSE IF s.single THEN text[i] # "sq" ELSE text[i] = "sq",
   double |-> IF Plain(s) /\ text[i] = "dq" THEN ~s.double ELSE s.double,
   skip |-> Plain(s) /\ text[i] = "bs" /\ i < Len(text),
   live |-> IF Sights(text, s, i) THEN s.live \cup {text[i]} ELSE s.live]

LEMMA LookIs ==
  ASSUME NEW text \in Texts, NEW s \in LookStates, NEW i \in 1..Len(text)
  PROVE  Look(text, s, i) = Looked(text, s, i)
<1>1. s = [single |-> s.single, double |-> s.double, skip |-> s.skip, live |-> s.live]
      /\ s.single \in BOOLEAN /\ s.double \in BOOLEAN /\ s.skip \in BOOLEAN
  BY DEF LookStates
<1>2. CASE s.skip
  BY <1>1, <1>2 DEF Look, Looked, Plain, Sights
<1>3. CASE ~s.skip /\ s.single
  BY <1>1, <1>3 DEF Look, Looked, Plain, Sights
<1>4. CASE ~s.skip /\ ~s.single /\ text[i] = "bs"
  BY <1>1, <1>4 DEF Look, Looked, Plain, Sights
<1>5. CASE ~s.skip /\ ~s.single /\ text[i] = "sq"
  BY <1>1, <1>5 DEF Look, Looked, Plain, Sights
<1>6. CASE ~s.skip /\ ~s.single /\ text[i] = "dq"
  BY <1>1, <1>6 DEF Look, Looked, Plain, Sights
<1>7. CASE ~s.skip /\ ~s.single /\ text[i] \notin {"bs", "sq", "dq"}
  BY <1>1, <1>7 DEF Look, Looked, Plain, Sights
<1> QED BY <1>1, <1>2, <1>3, <1>4, <1>5, <1>6, <1>7

LEMMA LookTyped ==
  ASSUME NEW text \in Texts, NEW s \in LookStates, NEW i \in 1..Len(text)
  PROVE  Look(text, s, i) \in LookStates
<1>1. s.single \in BOOLEAN /\ s.double \in BOOLEAN /\ s.skip \in BOOLEAN /\ s.live \in SUBSET Glyphs
  BY DEF LookStates
<1>2. text[i] \in Glyphs
  BY ElementOfSeq DEF Texts
<1>3. s.live \cup {text[i]} \in SUBSET Glyphs
  BY <1>1, <1>2
<1>4. (IF Sights(text, s, i) THEN s.live \cup {text[i]} ELSE s.live) \in SUBSET Glyphs
  BY <1>1, <1>3
<1>5. (IF s.skip THEN s.single ELSE IF s.single THEN text[i] # "sq" ELSE text[i] = "sq") \in BOOLEAN
  BY <1>1
<1>6. (IF Plain(s) /\ text[i] = "dq" THEN ~s.double ELSE s.double) \in BOOLEAN
  BY <1>1
<1>7. (Plain(s) /\ text[i] = "bs" /\ i < Len(text)) \in BOOLEAN
  BY DEF Plain
<1>8. Looked(text, s, i) \in LookStates
  BY <1>4, <1>5, <1>6, <1>7 DEF Looked, LookStates
<1> QED BY <1>8, LookIs

(* The code's scanner sees what the reader without a look ahead sees.      *)
SameSight(text, i, s, a) ==
  /\ s.single = a.single /\ s.double = a.double /\ s.live \cap Lives = a.live
  /\ i < Len(text) => s.skip = a.skip

LEMMA LookSame ==
  ASSUME NEW text \in Texts, NEW i \in 1..Len(text), NEW s \in LookStates, NEW a \in SeenStates,
         SameSight(text, i - 1, s, a)
  PROVE  SameSight(text, i, Look(text, s, i), Sees(a, text[i]))
<1>1. Len(text) \in Nat /\ i - 1 < Len(text)
  BY LenProperties DEF Texts
<1>2. s.single = a.single /\ s.double = a.double /\ s.live \cap Lives = a.live /\ s.skip = a.skip
  BY <1>1 DEF SameSight
<1> DEFINE c == text[i]
           u == Look(text, s, i)
           v == Sees(a, c)
<1>4. /\ u.single = IF s.skip THEN s.single ELSE IF s.single THEN c # "sq" ELSE c = "sq"
      /\ u.double = IF Plain(s) /\ c = "dq" THEN ~s.double ELSE s.double
      /\ u.skip = (Plain(s) /\ c = "bs" /\ i < Len(text))
      /\ u.live = IF Sights(text, s, i) THEN s.live \cup {c} ELSE s.live
  <2>1. u = Looked(text, s, i)
    BY LookIs
  <2> HIDE DEF u
  <2> QED BY <2>1 DEF Looked
<1>5. /\ v.single = IF a.skip THEN a.single ELSE IF a.single THEN c # "sq" ELSE c = "sq"
      /\ v.double = IF ~a.skip /\ ~a.single /\ c = "dq" THEN ~a.double ELSE a.double
      /\ v.skip = (~a.skip /\ ~a.single /\ c = "bs")
      /\ v.live = IF Shows(a, c) THEN a.live \cup {c} ELSE a.live
  BY DEF Sees
<1>6. (IF Sights(text, s, i) THEN s.live \cup {c} ELSE s.live) \cap Lives
        = IF Shows(a, c) THEN a.live \cup {c} ELSE a.live
  BY <1>2 DEF Shows, Lives, Sights, Plain
<1> HIDE DEF u, v
<1>7. u.single = v.single /\ u.double = v.double
  BY <1>2, <1>4, <1>5 DEF Plain
<1>8. u.live \cap Lives = v.live
  BY <1>4, <1>5, <1>6
<1>9. i < Len(text) => u.skip = v.skip
  BY <1>2, <1>4, <1>5 DEF Plain
<1> QED BY <1>7, <1>8, <1>9 DEF SameSight, u, v

LEMMA LiveIs ==
  ASSUME NEW text \in Texts
  PROVE  Live(text) = Seen(text).live
<1> DEFINE n == Len(text)
           start == [single |-> FALSE, double |-> FALSE, skip |-> FALSE, live |-> {}]
           Fits(f) == f = [i \in 0..n |-> IF i = 0 THEN start ELSE Look(text, f[i - 1], i)]
           at == CHOOSE f : Fits(f)
           F == [p \in LookStates \X (1..n) |-> Look(text, p[1], p[2])]
           places == [i \in 1..n |-> i]
<1>1. n \in Nat /\ n \in 0..n /\ text \in Seq(Glyphs) /\ SubSeq(text, 1, n) = text
  BY LenProperties, SubSeqFull DEF Texts
<1>2. Reader(LookStates, 1..n, F)
  <2>1. \A p \in LookStates \X (1..n) : p[1] \in LookStates /\ p[2] \in 1..n
    OBVIOUS
  <2>2. \A p \in LookStates \X (1..n) : Look(text, p[1], p[2]) \in LookStates
    BY <2>1, LookTyped
  <2>3. F \in [LookStates \X (1..n) -> LookStates]
    BY <2>2
  <2> HIDE DEF F
  <2> QED BY <2>3 DEF Reader
<1>3. start \in LookStates
  BY DEF LookStates
<1>4. places \in Seq(1..n) /\ Len(places) = n /\ \A i \in 1..n : places[i] = i
  BY <1>1, PlacesAre
<1>5. ASSUME NEW s \in LookStates, NEW i \in 1..n PROVE F[<<s, i>>] = Look(text, s, i)
  <2>1. <<s, i>> \in LookStates \X (1..n) /\ <<s, i>>[1] = s /\ <<s, i>>[2] = i
    OBVIOUS
  <2> QED BY <2>1
<1> HIDE DEF F, places, start
<1>6. PICK g \in [0..n -> LookStates] : g[0] = start /\ \A i \in 1..n : g[i] = F[<<g[i - 1], places[i]>>]
  <2>1. \E f \in [0..Len(places) -> LookStates] :
          f[0] = start /\ \A i \in 1..Len(places) : f[i] = F[<<f[i - 1], places[i]>>]
    BY <1>2, <1>3, <1>4, ReadIs
  <2> QED BY <2>1, <1>4
<1>7. \A i \in 1..n : g[i - 1] \in LookStates /\ g[i] = Look(text, g[i - 1], i)
  <2>1. ASSUME NEW i \in 1..n PROVE g[i - 1] \in LookStates /\ g[i] = Look(text, g[i - 1], i)
    <3>1. i - 1 \in 0..n /\ places[i] = i
      BY <1>1, <1>4
    <3>2. g[i - 1] \in LookStates
      BY <3>1
    <3>3. g[i] = F[<<g[i - 1], i>>]
      BY <1>6, <3>1
    <3> QED BY <3>2, <3>3, <1>5
  <2> QED BY <2>1
<1>8. Fits(g)
  <2>1. \A i \in 0..n : g[i] = IF i = 0 THEN start ELSE Look(text, g[i - 1], i)
    BY <1>1, <1>6, <1>7
  <2>2. g = [i \in 0..n |-> g[i]]
    OBVIOUS
  <2> QED BY <2>1, <2>2
<1>9. Fits(at)
  <2> HIDE DEF Fits
  <2> QED BY <1>8
<1>10. Live(text) = at[n].live \cap Lives
  BY DEF Live, Scan, Lives, start
<1> HIDE DEF at
<1>11. at[0] = start /\ \A i \in 1..n : at[i] = Look(text, at[i - 1], i)
  BY <1>1, <1>9
<1>12. Alike(at, g, n)
  <2>1. ASSUME NEW i \in 1..n, at[i - 1] = g[i - 1] PROVE at[i] = g[i]
    BY <2>1, <1>7, <1>11
  <2> QED BY <1>1, <1>6, <1>11, <2>1, FollowsOne
<1>13. \A i \in 0..n : at[i] \in LookStates
  BY <1>12 DEF Alike
<1> DEFINE a(i) == Seen(SubSeq(text, 1, i))
           T == {i \in 0..n : SameSight(text, i, at[i], a(i))}
<1>14. 0 \in T
  <2>1. a(0) = SeenStart /\ at[0] = start
    <3>1. SubSeq(text, 1, 0) = << >>
      BY SubSeqEmpty
    <3> QED BY <1>11, <3>1, SeenEmpty
  <2>2. SameSight(text, 0, start, SeenStart)
    BY DEF start, SeenStart, SameSight
  <2> QED BY <1>1, <2>1, <2>2
<1>15. ASSUME NEW i \in 1..n, i - 1 \in T PROVE i \in T
  <2>1. i - 1 \in 0..n /\ i \in 0..n /\ text[i] \in Glyphs
    BY <1>1, ElementOfSeq
  <2>2. SubSeq(text, 1, i - 1) \in Texts
    BY <1>1, <2>1, PrefixAppend DEF Texts
  <2>3. a(i - 1) \in SeenStates /\ at[i - 1] \in LookStates
    BY <1>13, <2>1, <2>2, SeenTyped
  <2>4. SubSeq(text, 1, i) = Append(SubSeq(text, 1, i - 1), text[i])
    BY <1>1, PrefixAppend
  <2>5. a(i) = Sees(a(i - 1), text[i])
    BY <2>1, <2>2, <2>4, SeenAppend
  <2>6. SameSight(text, i - 1, at[i - 1], a(i - 1))
    BY <1>15
  <2>7. SameSight(text, i, Look(text, at[i - 1], i), Sees(a(i - 1), text[i]))
    <3> HIDE DEF a
    <3> QED BY <2>3, <2>6, LookSame
  <2>8. at[i] = Look(text, at[i - 1], i)
    BY <1>11
  <2> QED BY <2>1, <2>5, <2>7, <2>8
<1>16. \A i \in 0..n : i \in T
  <2> HIDE DEF T
  <2> QED BY <1>1, <1>14, <1>15, UpTo
<1>17. SameSight(text, n, at[n], Seen(text))
  BY <1>1, <1>16
<1> QED BY <1>10, <1>17 DEF SameSight

(***************************************************************************)
(* What is live in a text is live in its pieces.                           *)
(***************************************************************************)
LEMMA SeenBlank ==
  ASSUME NEW s \in SeenStates, NEW w \in Blanks
  PROVE  /\ Sees(s, w).live = s.live
         /\ Sees(SeenStart, w) = SeenStart
<1>1. w \in {"sp", "nl"}
  BY DEF Blanks
<1>2. ~Shows(s, w)
  BY <1>1 DEF Shows
<1>3. Sees(s, w).live = s.live
  BY <1>2 DEF Sees
<1>4. Sees(SeenStart, w) = SeenStart
  BY <1>1 DEF Sees, Shows, SeenStart
<1> QED BY <1>3, <1>4

LEMMA SeenFronted ==
  ASSUME NEW w \in Blanks
  PROVE  \A t \in Texts : Seen(<<w>> \o t) = Seen(t)
<1> DEFINE T == {t \in Texts : Seen(<<w>> \o t) = Seen(t)}
<1>1. << >> \in T
  <2>1. << >> \in Texts /\ w \in Glyphs
    BY EmptySeq DEF Texts, Blanks
  <2>2. <<w>> \o << >> = Append(<< >>, w)
    <3>1. Append(<< >>, w) = << >> \o <<w>>
      BY <2>1, AppendIsConcat DEF Texts
    <3>2. <<w>> \in Seq(Glyphs)
      BY <2>1
    <3>3. << >> \o <<w>> = <<w>> /\ <<w>> \o << >> = <<w>>
      BY <3>2, ConcatEmptySeq
    <3> QED BY <3>1, <3>3
  <2>3. Seen(Append(<< >>, w)) = Sees(SeenStart, w)
    BY <2>1, SeenAppend, SeenEmpty
  <2>4. Sees(SeenStart, w) = SeenStart
    BY SeenReads, SeenBlank
  <2> QED BY <2>1, <2>2, <2>3, <2>4, SeenEmpty
<1>2. ASSUME NEW t \in Seq(Glyphs), t \in T, NEW c \in Glyphs PROVE Append(t, c) \in T
  <2>1. t \in Texts /\ w \in Glyphs /\ <<w>> \o t \in Texts
    BY <1>2, StripConsBlank DEF Blanks
  <2>2. Append(t, c) \in Texts
    BY <2>1, AppendProperties DEF Texts
  <2>3. <<w>> \o Append(t, c) = Append(<<w>> \o t, c)
    BY <2>1, ConsAppend
  <2>4. Seen(Append(t, c)) = Sees(Seen(t), c) /\ Seen(Append(<<w>> \o t, c)) = Sees(Seen(<<w>> \o t), c)
    BY <2>1, SeenAppend
  <2>5. Seen(<<w>> \o t) = Seen(t)
    BY <1>2
  <2> QED BY <2>2, <2>3, <2>4, <2>5
<1>3. \A t \in Seq(Glyphs) : t \in T
  <2> HIDE DEF T
  <2> QED BY <1>1, <1>2, SeqInduction
<1> QED BY <1>3 DEF Texts

LEMMA SeenStrip ==
  ASSUME NEW t \in Texts
  PROVE  Seen(Strip(t)).live = Seen(t).live
<1> DEFINE V == [u \in Texts |-> Seen(u).live]
<1>1. MindsNoLast(V)
  <2>1. ASSUME NEW u \in Texts, NEW w \in Blanks PROVE V[Append(u, w)] = V[u]
    <3>1. Append(u, w) \in Texts /\ w \in Glyphs
      BY StripAppendBlank DEF Blanks
    <3>2. Seen(Append(u, w)) = Sees(Seen(u), w) /\ Seen(u) \in SeenStates
      BY <3>1, SeenAppend, SeenTyped
    <3>3. Seen(Append(u, w)).live = Seen(u).live
      BY <3>2, SeenBlank
    <3> QED BY <3>1, <3>3
  <2> HIDE DEF V
  <2> QED BY <2>1 DEF MindsNoLast
<1>2. MindsNoFirst(V)
  <2>1. ASSUME NEW u \in Texts, NEW w \in Blanks PROVE V[<<w>> \o u] = V[u]
    <3>1. <<w>> \o u \in Texts
      BY StripConsBlank
    <3>2. Seen(<<w>> \o u) = Seen(u)
      BY SeenFronted
    <3> QED BY <3>1, <3>2
  <2> HIDE DEF V
  <2> QED BY <2>1 DEF MindsNoFirst
<1>3. Strip(t) \in Texts
  BY StripTyped
<1>4. V[Strip(t)] = V[t]
  <2> HIDE DEF V
  <2> QED BY <1>1, <1>2, MindsNoStrip
<1> QED BY <1>3, <1>4

AllLive(ps) == UNION {Seen(ps[k]).live : k \in 1..Len(ps)}

LEMMA AllLiveOne ==
  ASSUME NEW ps \in Seq(Texts), NEW t \in Texts
  PROVE  AllLive(ps \o One(t)) = AllLive(ps) \cup Seen(t).live
<1>1. CASE Strip(t) = << >>
  <2>1. One(t) = << >> /\ ps \o << >> = ps
    BY <1>1, ConcatEmptySeq DEF One
  <2>2. Seen(t).live = {}
    <3>1. Seen(t).live = SeenStart.live
      BY <1>1, SeenStrip, SeenEmpty
    <3> QED BY <3>1 DEF SeenStart
  <2> QED BY <2>1, <2>2
<1>2. CASE Strip(t) # << >>
  <2> DEFINE p == Strip(t)
             qs == Append(ps, p)
  <2>1. p \in Texts /\ Seen(p).live = Seen(t).live
    BY StripTyped, SeenStrip
  <2>2. ps \o One(t) = qs
    <3>1. One(t) = <<p>>
      BY <1>2 DEF One
    <3> QED BY <2>1, <3>1, AppendIsConcat
  <2> HIDE DEF p
  <2>3. Len(ps) \in Nat /\ Len(qs) = Len(ps) + 1 /\ qs[Len(ps) + 1] = p /\ \A k \in 1..Len(ps) : qs[k] = ps[k]
    BY <2>1, AppendProperties, LenProperties
  <2> HIDE DEF qs
  <2>4. {Seen(qs[k]).live : k \in 1..Len(qs)} = {Seen(ps[k]).live : k \in 1..Len(ps)} \cup {Seen(p).live}
    <3>1. 1..Len(qs) = (1..Len(ps)) \cup {Len(ps) + 1}
      BY <2>3
    <3> QED BY <2>3, <3>1
  <2>5. AllLive(qs) = AllLive(ps) \cup Seen(p).live
    BY <2>4 DEF AllLive
  <2> QED BY <2>1, <2>2, <2>5
<1> QED BY <1>1, <1>2

(* Where no apostrophe stands between double quotes, the scanner is inside *)
(* quotes when the splitter is, and has seen what shows in the pieces.     *)
SameQuotes(a, s) ==
  /\ s.single <=> a.quote = "sq"
  /\ s.double <=> a.quote = "dq"
  /\ s.skip <=> a.esc
SameLive(a, s) ==
  LET u == Seen(a.buf)
  IN  /\ u.single = s.single /\ u.double = s.double /\ u.skip = s.skip
      /\ s.live = AllLive(a.done) \cup u.live

LEMMA SeesIs ==
  ASSUME NEW s, NEW c
  PROVE  LET v == Sees(s, c)
         IN  /\ v.single = IF s.skip THEN s.single ELSE IF s.single THEN c # "sq" ELSE c = "sq"
             /\ v.double = IF ~s.skip /\ ~s.single /\ c = "dq" THEN ~s.double ELSE s.double
             /\ v.skip = (~s.skip /\ ~s.single /\ c = "bs")
             /\ v.live = IF Shows(s, c) THEN s.live \cup {c} ELSE s.live
BY DEF Sees

LEMMA KeptIs ==
  ASSUME NEW a, NEW c
  PROVE  /\ Kept(a, c).done = a.done /\ Kept(a, c).buf = Append(a.buf, c)
         /\ Kept(a, c).quote = Quoting(a.quote, a.esc, c) /\ Kept(a, c).esc = Escaping(a.quote, a.esc, c)
BY DEF Kept

LEMMA ReadsQuotes ==
  ASSUME NEW C \in CutSets, NEW a \in CutStates, NEW s \in SeenStates, NEW c \in Glyphs, SameQuotes(a, s),
         ~(c = "sq" /\ a.quote = "dq")
  PROVE  SameQuotes(Reads(C, a, c), Sees(s, c))
<1> DEFINE v == Sees(s, c)
           r == Reads(C, a, c)
<1>1. /\ v.single = IF s.skip THEN s.single ELSE IF s.single THEN c # "sq" ELSE c = "sq"
      /\ v.double = IF ~s.skip /\ ~s.single /\ c = "dq" THEN ~s.double ELSE s.double
      /\ v.skip = (~s.skip /\ ~s.single /\ c = "bs")
  BY DEF Sees
<1>2. a.quote \in {"none", "sq", "dq"} /\ a.esc \in BOOLEAN
  BY CutStatesAre DEF Quotes
<1>3. s.single \in BOOLEAN /\ s.double \in BOOLEAN /\ s.skip \in BOOLEAN
  BY SeenStatesAre
<1>4. (s.single <=> a.quote = "sq") /\ (s.double <=> a.quote = "dq") /\ (s.skip <=> a.esc)
  BY DEF SameQuotes
<1> HIDE DEF v, r
<1>5. CASE Cutting(C, a, c)
  <2>1. r = CutOff(a)
    BY <1>5 DEF Reads, r
  <2>2. r.quote = "none" /\ r.esc = FALSE
    BY <2>1, CutOffIs
  <2>3. c \notin {"sq", "dq", "bs"} /\ a.quote = "none" /\ ~a.esc
    BY <1>5 DEF Cutting, CutSets
  <2>4. v.single = FALSE /\ v.double = FALSE /\ v.skip = FALSE
    BY <1>1, <1>3, <1>4, <2>3
  <2>5. SameQuotes(r, v)
    BY <2>2, <2>4 DEF SameQuotes
  <2> QED BY <2>5 DEF r, v
<1>6. CASE ~Cutting(C, a, c)
  <2>1. r = Kept(a, c)
    BY <1>6 DEF Reads, r
  <2>2. r.quote = Quoting(a.quote, a.esc, c) /\ r.esc = Escaping(a.quote, a.esc, c)
    BY <2>1, KeptIs
  <2>3. v.single <=> r.quote = "sq"
    BY <1>1, <1>2, <1>3, <1>4, <2>2 DEF Quoting
  <2>4. v.double <=> r.quote = "dq"
    BY <1>1, <1>2, <1>3, <1>4, <2>2 DEF Quoting
  <2>5. v.skip <=> r.esc
    BY <1>1, <1>2, <1>3, <1>4, <2>2 DEF Escaping
  <2>6. SameQuotes(r, v)
    BY <2>3, <2>4, <2>5 DEF SameQuotes
  <2> QED BY <2>6 DEF r, v
<1> QED BY <1>5, <1>6

LEMMA ReadsLive ==
  ASSUME NEW C \in CutSets, NEW a \in CutStates, NEW s \in SeenStates, NEW c \in Glyphs,
         SameQuotes(a, s), SameLive(a, s)
  PROVE  SameLive(Reads(C, a, c), Sees(s, c))
<1> DEFINE v == Sees(s, c)
           r == Reads(C, a, c)
           u == Seen(a.buf)
<1>1. a.done \in Seq(Texts) /\ a.buf \in Texts
  BY CutStatesAre
<1>2. u \in SeenStates /\ s.live \in SUBSET Lives
  BY <1>1, SeenTyped, SeenStatesAre
<1>3. u.single = s.single /\ u.double = s.double /\ u.skip = s.skip /\ s.live = AllLive(a.done) \cup u.live
  BY DEF SameLive
<1>4. CASE Cutting(C, a, c)
  <2>1. r = CutOff(a)
    BY <1>4 DEF Reads
  <2>2. r.done = a.done \o One(a.buf) /\ r.buf = << >>
    <3> HIDE DEF r
    <3> QED BY <2>1, CutOffIs
  <2>3. c \in {"semi", "bar"} /\ a.quote = "none" /\ ~a.esc
    BY <1>4 DEF Cutting, CutSets
  <2>4. ~s.single /\ ~s.double /\ ~s.skip
    BY <2>3 DEF SameQuotes
  <2>5. ~Shows(s, c)
    BY <2>3 DEF Shows
  <2>6. v.single = FALSE /\ v.double = s.double /\ v.skip = FALSE /\ v.live = s.live
    <3> HIDE DEF v
    <3>1. /\ v.single = IF s.skip THEN s.single ELSE IF s.single THEN c # "sq" ELSE c = "sq"
          /\ v.double = IF ~s.skip /\ ~s.single /\ c = "dq" THEN ~s.double ELSE s.double
          /\ v.skip = (~s.skip /\ ~s.single /\ c = "bs")
          /\ v.live = IF Shows(s, c) THEN s.live \cup {c} ELSE s.live
      BY DEF Sees, v
    <3> QED BY <2>3, <2>4, <2>5, <3>1
  <2>7. s.double = FALSE
    BY <2>4, SeenStatesAre
  <2>8. Seen(r.buf) = SeenStart
    BY <2>2, SeenEmpty
  <2>9. AllLive(r.done) = AllLive(a.done) \cup u.live
    BY <1>1, <2>2, AllLiveOne
  <2> HIDE DEF r, v, u
  <2>10. SeenStart.single = FALSE /\ SeenStart.double = FALSE /\ SeenStart.skip = FALSE /\ SeenStart.live = {}
    BY DEF SeenStart
  <2>11. SameLive(r, v)
    BY <1>3, <2>6, <2>7, <2>8, <2>9, <2>10 DEF SameLive
  <2> QED BY <2>11 DEF r, v
<1>5. CASE ~Cutting(C, a, c)
  <2>1. r = Kept(a, c)
    BY <1>5 DEF Reads
  <2>2. r.done = a.done /\ r.buf = Append(a.buf, c)
    <3> HIDE DEF r
    <3> QED BY <2>1, KeptIs
  <2> DEFINE w == Sees(u, c)
  <2>3. Seen(r.buf) = w
    BY <1>1, <2>2, SeenAppend
  <2>4. Shows(u, c) <=> Shows(s, c)
    BY <1>3 DEF Shows
  <2>5. /\ v.single = IF s.skip THEN s.single ELSE IF s.single THEN c # "sq" ELSE c = "sq"
        /\ v.double = IF ~s.skip /\ ~s.single /\ c = "dq" THEN ~s.double ELSE s.double
        /\ v.skip = (~s.skip /\ ~s.single /\ c = "bs")
        /\ v.live = IF Shows(s, c) THEN s.live \cup {c} ELSE s.live
    BY DEF Sees
  <2> HIDE DEF u
  <2>6. /\ w.single = IF u.skip THEN u.single ELSE IF u.single THEN c # "sq" ELSE c = "sq"
        /\ w.double = IF ~u.skip /\ ~u.single /\ c = "dq" THEN ~u.double ELSE u.double
        /\ w.skip = (~u.skip /\ ~u.single /\ c = "bs")
        /\ w.live = IF Shows(u, c) THEN u.live \cup {c} ELSE u.live
    BY DEF Sees
  <2> HIDE DEF r, v, w
  <2>7. w.single = v.single /\ w.double = v.double /\ w.skip = v.skip
    BY <1>3, <2>5, <2>6
  <2>8. v.live = AllLive(a.done) \cup w.live
    BY <1>3, <2>4, <2>5, <2>6
  <2>9. SameLive(r, v)
    BY <2>2, <2>3, <2>7, <2>8 DEF SameLive
  <2> QED BY <2>9 DEF r, v
<1> QED BY <1>4, <1>5

LEMMA PiecesLive ==
  ASSUME NEW text \in Texts, ~Apostrophe(text)
  PROVE  Seen(text).live = AllLive(Final(Ends, text))
<1> DEFINE n == Len(text)
           a(i) == End(Ends, SubSeq(text, 1, i))
           s(i) == Seen(SubSeq(text, 1, i))
           T == {i \in 0..n : SameQuotes(a(i), s(i)) /\ SameLive(a(i), s(i))}
<1>1. n \in Nat /\ n \in 0..n /\ text \in Seq(Glyphs) /\ SubSeq(text, 1, n) = text
  BY LenProperties, SubSeqFull DEF Texts
<1>2. 0 \in T
  <2>1. a(0) = CutStart /\ s(0) = SeenStart
    <3>1. SubSeq(text, 1, 0) = << >>
      BY SubSeqEmpty
    <3> QED BY <3>1, EndsAre, EndEmpty, SeenEmpty
  <2>2. CutStart.done = << >> /\ CutStart.buf = << >> /\ CutStart.quote = "none" /\ CutStart.esc = FALSE
    BY DEF CutStart
  <2>3. SeenStart.single = FALSE /\ SeenStart.double = FALSE /\ SeenStart.skip = FALSE /\ SeenStart.live = {}
    BY DEF SeenStart
  <2>4. AllLive(<< >>) = {}
    BY DEF AllLive
  <2>5. SameQuotes(CutStart, SeenStart)
    BY <2>2, <2>3 DEF SameQuotes
  <2>6. SameLive(CutStart, SeenStart)
    BY <2>2, <2>3, <2>4, SeenEmpty DEF SameLive
  <2> QED BY <1>1, <2>1, <2>5, <2>6
<1>3. ASSUME NEW i \in 1..n, i - 1 \in T PROVE i \in T
  <2>1. i - 1 \in 0..n /\ i \in 0..n /\ text[i] \in Glyphs
    BY <1>1, ElementOfSeq
  <2>2. SubSeq(text, 1, i - 1) \in Texts
    BY <1>1, <2>1, PrefixAppend DEF Texts
  <2>3. a(i - 1) \in CutStates /\ s(i - 1) \in SeenStates
    BY <2>2, EndsAre, EndTyped, SeenTyped
  <2>4. SubSeq(text, 1, i) = Append(SubSeq(text, 1, i - 1), text[i])
    BY <1>1, PrefixAppend
  <2>5. a(i) = Reads(Ends, a(i - 1), text[i]) /\ s(i) = Sees(s(i - 1), text[i])
    <3> DEFINE p == SubSeq(text, 1, i - 1)
               c == text[i]
    <3>1. p \in Texts /\ c \in Glyphs
      BY <2>1, <2>2
    <3> HIDE DEF p, c
    <3>2. End(Ends, Append(p, c)) = Reads(Ends, End(Ends, p), c)
      BY <3>1, EndsAre, EndAppend
    <3>3. Seen(Append(p, c)) = Sees(Seen(p), c)
      BY <3>1, SeenAppend
    <3> QED BY <2>4, <3>2, <3>3 DEF p, c
  <2>6. ~(text[i] = "sq" /\ a(i - 1).quote = "dq")
    <3>1. i \in DOMAIN text
      BY <1>1
    <3>2. OpenQuote(SubSeq(text, 1, i - 1)) = a(i - 1).quote
      BY <2>2, SplitFinal
    <3> QED BY <3>1, <3>2 DEF Apostrophe
  <2>7. SameQuotes(a(i - 1), s(i - 1)) /\ SameLive(a(i - 1), s(i - 1))
    BY <1>3
  <2> DEFINE b == a(i - 1)
             z == s(i - 1)
  <2>8. b \in CutStates /\ z \in SeenStates /\ SameQuotes(b, z) /\ SameLive(b, z) /\ ~(text[i] = "sq" /\ b.quote = "dq")
    BY <2>3, <2>6, <2>7
  <2>9. a(i) = Reads(Ends, b, text[i]) /\ s(i) = Sees(z, text[i])
    BY <2>5
  <2> HIDE DEF b, z
  <2>10. SameQuotes(Reads(Ends, b, text[i]), Sees(z, text[i]))
    BY <2>1, <2>8, EndsAre, ReadsQuotes
  <2>11. SameLive(Reads(Ends, b, text[i]), Sees(z, text[i]))
    BY <2>1, <2>8, EndsAre, ReadsLive
  <2> QED BY <2>1, <2>9, <2>10, <2>11
<1>4. \A i \in 0..n : i \in T
  <2> HIDE DEF T
  <2> QED BY <1>1, <1>2, <1>3, UpTo
<1> DEFINE e == End(Ends, text)
<1>5. SameLive(e, Seen(text))
  BY <1>1, <1>4
<1>6. e \in CutStates
  BY EndsAre, EndTyped
<1>7. e.done \in Seq(Texts) /\ e.buf \in Texts
  BY <1>6, CutStatesAre
<1>8. Final(Ends, text) = e.done \o One(e.buf)
  BY DEF Final
<1> HIDE DEF e
<1>9. Seen(text).live = AllLive(e.done) \cup Seen(e.buf).live
  BY <1>5 DEF SameLive
<1> QED BY <1>7, <1>8, <1>9, AllLiveOne

LEMMA LineHolds ==
  ASSUME NEW line \in Texts
  PROVE  /\ PiecesOf(line) = Split(line, TRUE, TRUE)
         /\ ~Apostrophe(line) => Live(line) = UNION {Live(PiecesOf(line)[k]) : k \in DOMAIN PiecesOf(line)}
<1> DEFINE ps == PiecesOf(line)
<1>1. ps = Final(Ends, line) /\ ps = Split(line, TRUE, TRUE) /\ ps \in Seq(Texts)
  BY PiecesFinal, SplitFinal, EndsAre, FinalTyped
<1> HIDE DEF ps
<1>2. ASSUME ~Apostrophe(line) PROVE Live(line) = UNION {Live(ps[k]) : k \in DOMAIN ps}
  <2>1. Live(line) = AllLive(ps)
    BY <1>1, <1>2, LiveIs, PiecesLive
  <2>2. DOMAIN ps = 1..Len(ps) /\ \A k \in 1..Len(ps) : ps[k] \in Texts
    BY <1>1, LenProperties, ElementOfSeq
  <2>3. \A k \in 1..Len(ps) : Live(ps[k]) = Seen(ps[k]).live
    BY <2>2, LiveIs
  <2>4. {Live(ps[k]) : k \in DOMAIN ps} = {Seen(ps[k]).live : k \in 1..Len(ps)}
    BY <2>2, <2>3
  <2> QED BY <2>1, <2>4 DEF AllLive
<1> QED BY <1>1, <1>2 DEF ps

(***************************************************************************)
(* Lines: those that are complete, and the one that is not.                *)
(***************************************************************************)
LineStates == [past : Seq(Texts), cur : Texts]
LineStart == [past |-> << >>, cur |-> << >>]
Lined(s, c) ==
  IF c = "nl" THEN [past |-> Append(s.past, s.cur), cur |-> << >>]
  ELSE [past |-> s.past, cur |-> Append(s.cur, c)]
LineReader == [p \in LineStates \X Glyphs |-> Lined(p[1], p[2])]
AtLine(text) == Read(LineReader, LineStart, text)

LEMMA LineStatesAre ==
  ASSUME NEW s \in LineStates
  PROVE  s.past \in Seq(Texts) /\ s.cur \in Texts
BY DEF LineStates

LEMMA LinedTyped ==
  ASSUME NEW s \in LineStates, NEW c \in Glyphs
  PROVE  Lined(s, c) \in LineStates
<1>1. s.past \in Seq(Texts) /\ s.cur \in Texts /\ << >> \in Texts
  BY LineStatesAre, EmptySeq DEF Texts
<1>2. Append(s.past, s.cur) \in Seq(Texts) /\ Append(s.cur, c) \in Texts
  BY <1>1, AppendProperties DEF Texts
<1> QED BY <1>1, <1>2 DEF Lined, LineStates

LEMMA LineReads ==
  /\ Reader(LineStates, Glyphs, LineReader) /\ LineStart \in LineStates
  /\ \A s \in LineStates : \A c \in Glyphs : LineReader[<<s, c>>] = Lined(s, c)
<1>1. \A p \in LineStates \X Glyphs : Lined(p[1], p[2]) \in LineStates
  <2>1. \A p \in LineStates \X Glyphs : p[1] \in LineStates /\ p[2] \in Glyphs
    OBVIOUS
  <2> QED BY <2>1, LinedTyped
<1>2. LineReader \in [LineStates \X Glyphs -> LineStates]
  BY <1>1 DEF LineReader
<1>3. LineStart \in LineStates
  <2>1. << >> \in Texts /\ << >> \in Seq(Texts)
    BY EmptySeq DEF Texts
  <2> QED BY <2>1 DEF LineStart, LineStates
<1>4. ASSUME NEW s \in LineStates, NEW c \in Glyphs PROVE LineReader[<<s, c>>] = Lined(s, c)
  <2>1. <<s, c>> \in LineStates \X Glyphs /\ <<s, c>>[1] = s /\ <<s, c>>[2] = c
    OBVIOUS
  <2> QED BY <2>1 DEF LineReader
<1> QED BY <1>2, <1>3, <1>4 DEF Reader

LEMMA AtLineEmpty == AtLine(<< >>) = LineStart
BY LineReads, ReadEmpty DEF AtLine

LEMMA AtLineTyped ==
  ASSUME NEW t \in Texts
  PROVE  AtLine(t) \in LineStates
BY LineReads, ReadTyped DEF AtLine, Texts

LEMMA AtLineAppend ==
  ASSUME NEW t \in Texts, NEW c \in Glyphs
  PROVE  AtLine(Append(t, c)) = Lined(AtLine(t), c)
<1>1. AtLine(Append(t, c)) = LineReader[<<AtLine(t), c>>]
  BY LineReads, ReadAppend DEF AtLine, Texts
<1>2. AtLine(t) \in LineStates
  BY AtLineTyped
<1> QED BY <1>1, <1>2, LineReads

LEMMA TakeCharIs ==
  ASSUME NEW s \in LineStates, NEW c \in Glyphs
  PROVE  TakeChar(Append(s.past, s.cur), c) = Append(Lined(s, c).past, Lined(s, c).cur)
<1> DEFINE ls == Append(s.past, s.cur)
<1>1. s.past \in Seq(Texts) /\ s.cur \in Texts /\ << >> \in Texts /\ Append(s.cur, c) \in Texts
  BY LineStatesAre, EmptySeq, AppendProperties DEF Texts
<1>2. /\ Len(s.past) \in Nat /\ Len(ls) = Len(s.past) + 1 /\ ls[Len(s.past) + 1] = s.cur
      /\ \A k \in 1..Len(s.past) : ls[k] = s.past[k]
      /\ ls \in Seq(Texts)
  BY <1>1, AppendProperties, LenProperties
<1>3. CASE c = "nl"
  BY <1>3 DEF TakeChar, Lined
<1>4. CASE c # "nl"
  <2> DEFINE m == Append(s.past, Append(s.cur, c))
             e == [ls EXCEPT ![Len(ls)] = Append(@, c)]
  <2>1. /\ Len(m) = Len(s.past) + 1 /\ m[Len(s.past) + 1] = Append(s.cur, c) /\ m \in Seq(Texts)
        /\ \A k \in 1..Len(s.past) : m[k] = s.past[k]
    BY <1>1, AppendProperties
  <2>2. Lined(s, c).past = s.past /\ Lined(s, c).cur = Append(s.cur, c)
    BY <1>4 DEF Lined
  <2>3. TakeChar(ls, c) = e
    BY <1>4 DEF TakeChar
  <2> HIDE DEF ls, m
  <2>4. DOMAIN ls = 1..(Len(s.past) + 1) /\ DOMAIN m = 1..(Len(s.past) + 1)
    BY <1>2, <2>1, LenProperties
  <2>5. e = [k \in DOMAIN ls |-> IF k = Len(ls) THEN Append(ls[k], c) ELSE ls[k]]
    OBVIOUS
  <2>6. \A k \in 1..(Len(s.past) + 1) : (IF k = Len(ls) THEN Append(ls[k], c) ELSE ls[k]) = m[k]
    <3>1. ASSUME NEW k \in 1..(Len(s.past) + 1)
          PROVE  (IF k = Len(ls) THEN Append(ls[k], c) ELSE ls[k]) = m[k]
      <4>1. CASE k = Len(s.past) + 1
        BY <1>2, <2>1, <4>1
      <4>2. CASE k \in 1..Len(s.past)
        <5>1. k # Len(ls)
          BY <1>2, <4>2
        <5> QED BY <1>2, <2>1, <4>2, <5>1
      <4> QED BY <1>2, <4>1, <4>2
    <3> QED BY <3>1
  <2>7. m = [k \in DOMAIN m |-> m[k]]
    BY <2>1
  <2>8. e = m
    BY <2>4, <2>5, <2>6, <2>7
  <2> QED BY <2>2, <2>3, <2>8 DEF ls, m
<1> QED BY <1>3, <1>4

LEMMA RawLinesIs ==
  ASSUME NEW text \in Texts
  PROVE  RawLines(text) = Append(AtLine(text).past, AtLine(text).cur)
<1> DEFINE n == Len(text)
           start == << << >> >>
           Fits(f) == f = [i \in 0..n |-> IF i = 0 THEN start ELSE TakeChar(f[i - 1], text[i])]
           at == CHOOSE f : Fits(f)
<1>1. n \in Nat /\ n \in 0..n /\ text \in Seq(Glyphs) /\ \A i \in 1..n : text[i] \in Glyphs
  BY LenProperties, ElementOfSeq DEF Texts
<1>2. PICK f \in [0..n -> LineStates] :
        /\ f[0] = LineStart /\ \A i \in 1..n : f[i] = LineReader[<<f[i - 1], text[i]>>]
        /\ AtLine(text) = f[n]
  BY <1>1, LineReads, ReadIs DEF AtLine
<1> DEFINE g == [i \in 0..n |-> Append(f[i].past, f[i].cur)]
<1>3. g[0] = start
  <2>1. 0 \in 0..n /\ f[0].past = << >> /\ f[0].cur = << >>
    BY <1>1, <1>2 DEF LineStart
  <2>2. Append(<< >>, << >>) = << << >> >>
    OBVIOUS
  <2> QED BY <2>1, <2>2
<1>4. ASSUME NEW i \in 1..n PROVE g[i] = TakeChar(g[i - 1], text[i])
  <2> DEFINE s == f[i - 1]
  <2>1. i \in 0..n /\ i - 1 \in 0..n
    BY <1>1
  <2>2. s \in LineStates /\ text[i] \in Glyphs
    BY <1>1, <2>1
  <2>3. f[i] = Lined(s, text[i])
    BY <1>2, <2>2, LineReads
  <2>4. g[i] = Append(f[i].past, f[i].cur) /\ g[i - 1] = Append(s.past, s.cur)
    BY <2>1
  <2> HIDE DEF s, g
  <2> QED BY <2>2, <2>3, <2>4, TakeCharIs
<1>5. Fits(g)
  <2>1. \A i \in 0..n : g[i] = IF i = 0 THEN start ELSE TakeChar(g[i - 1], text[i])
    <3> HIDE DEF g, start
    <3> QED BY <1>1, <1>3, <1>4
  <2>2. g = [i \in 0..n |-> g[i]]
    OBVIOUS
  <2> HIDE DEF g, start
  <2> QED BY <2>1, <2>2
<1>6. Fits(at)
  <2> HIDE DEF Fits
  <2> QED BY <1>5
<1>7. RawLines(text) = at[n]
  BY DEF RawLines
<1>8. g[n] = Append(AtLine(text).past, AtLine(text).cur)
  BY <1>1, <1>2
<1> HIDE DEF at, g, start
<1>9. at[0] = start /\ \A i \in 1..n : at[i] = TakeChar(at[i - 1], text[i])
  BY <1>1, <1>6
<1>10. Alike(at, g, n)
  <2>1. ASSUME NEW i \in 1..n, at[i - 1] = g[i - 1] PROVE at[i] = g[i]
    BY <2>1, <1>4, <1>9
  <2>2. at[0] = g[0]
    BY <1>3, <1>9
  <2> QED BY <1>1, <2>1, <2>2, FollowsOne
<1> QED BY <1>1, <1>7, <1>8, <1>10 DEF Alike

(***************************************************************************)
(* Logical lines.                                                          *)
(***************************************************************************)
Filled(u) == IF u = << >> THEN << >> ELSE <<u>>
LogStates == [lines : Seq(Texts), buf : Texts]
LogStart == [lines |-> << >>, buf |-> << >>]
LogReader == [p \in LogStates \X Texts |-> TakeLine(p[1], Strip(p[2]))]
Taken(raws) == Read(LogReader, LogStart, raws)

LEMMA FilledTyped ==
  ASSUME NEW u \in Texts
  PROVE  Filled(u) \in Seq(Texts)
<1>1. <<u>> \in Seq(Texts)
  OBVIOUS
<1> QED BY <1>1, EmptySeq DEF Filled

LEMMA FrontTyped ==
  ASSUME NEW u \in Texts, u # << >>
  PROVE  Front(u) \in Texts /\ Last(u) \in Glyphs /\ u = Append(Front(u), Last(u))
BY FrontAppend DEF Front, Last, Texts

LEMMA TakeLineTyped ==
  ASSUME NEW s \in LogStates, NEW t \in Texts
  PROVE  TakeLine(s, Strip(t)) \in LogStates
<1> DEFINE buf == Joined(s.buf, Strip(t))
<1>1. s.lines \in Seq(Texts) /\ s.buf \in Texts
  BY DEF LogStates
<1>2. buf \in Texts
  <2>1. Strip(t) \in Seq(Glyphs) /\ <<"sp">> \in Seq(Glyphs) /\ s.buf \in Seq(Glyphs)
    BY <1>1, StripTyped DEF Texts, Glyphs
  <2> DEFINE x == <<"sp">>
             y == s.buf
             z == Strip(t)
  <2>2. x \in Seq(Glyphs) /\ y \in Seq(Glyphs) /\ z \in Seq(Glyphs)
    BY <2>1
  <2>3. buf = IF y = << >> THEN z ELSE y \o x \o z
    BY DEF Joined
  <2> HIDE DEF x, y, z
  <2>4. y \o x \in Seq(Glyphs)
    BY <2>2, ConcatProperties
  <2>5. y \o x \o z \in Seq(Glyphs)
    BY <2>2, <2>4, ConcatProperties
  <2> QED BY <2>2, <2>3, <2>5 DEF Texts
<1>3. TakeLine(s, Strip(t)) = IF buf = << >> THEN s
                              ELSE IF Continues(buf) THEN [s EXCEPT !.buf = Strip(Front(buf))]
                              ELSE [lines |-> Append(s.lines, buf), buf |-> << >>]
  BY DEF TakeLine
<1> HIDE DEF buf
<1>4. buf # << >> => Strip(Front(buf)) \in Texts
  BY <1>2, FrontTyped, StripTyped
<1>5. buf # << >> => [s EXCEPT !.buf = Strip(Front(buf))] \in LogStates
  BY <1>4 DEF LogStates
<1>6. [lines |-> Append(s.lines, buf), buf |-> << >>] \in LogStates
  <2>1. Append(s.lines, buf) \in Seq(Texts) /\ << >> \in Texts
    BY <1>1, <1>2, AppendProperties, EmptySeq DEF Texts
  <2> QED BY <2>1 DEF LogStates
<1> QED BY <1>3, <1>5, <1>6

LEMMA LogReads ==
  /\ Reader(LogStates, Texts, LogReader) /\ LogStart \in LogStates
  /\ \A s \in LogStates : \A t \in Texts : LogReader[<<s, t>>] = TakeLine(s, Strip(t))
<1>1. \A p \in LogStates \X Texts : TakeLine(p[1], Strip(p[2])) \in LogStates
  <2>1. \A p \in LogStates \X Texts : p[1] \in LogStates /\ p[2] \in Texts
    OBVIOUS
  <2> QED BY <2>1, TakeLineTyped
<1>2. LogReader \in [LogStates \X Texts -> LogStates]
  BY <1>1 DEF LogReader
<1>3. LogStart \in LogStates
  <2>1. << >> \in Texts /\ << >> \in Seq(Texts)
    BY EmptySeq DEF Texts
  <2> QED BY <2>1 DEF LogStart, LogStates
<1>4. ASSUME NEW s \in LogStates, NEW t \in Texts PROVE LogReader[<<s, t>>] = TakeLine(s, Strip(t))
  <2>1. <<s, t>> \in LogStates \X Texts /\ <<s, t>>[1] = s /\ <<s, t>>[2] = t
    OBVIOUS
  <2> QED BY <2>1 DEF LogReader
<1> QED BY <1>2, <1>3, <1>4 DEF Reader

LEMMA LogicalIs ==
  ASSUME NEW text \in Texts
  PROVE  LET end == Taken(RawLines(text))
         IN  /\ RawLines(text) \in Seq(Texts) /\ end \in LogStates
             /\ LogicalLines(text) = IF end.buf = << >> THEN end.lines ELSE Append(end.lines, end.buf)
             /\ LogicalLines(text) \in Seq(Texts)
<1> DEFINE raws == RawLines(text)
           n == Len(raws)
           Fits(f) == f = [i \in 0..n |-> IF i = 0 THEN LogStart ELSE TakeLine(f[i - 1], Strip(raws[i]))]
           at == CHOOSE f : Fits(f)
<1>1. raws \in Seq(Texts)
  <2>1. AtLine(text).past \in Seq(Texts) /\ AtLine(text).cur \in Texts
    BY AtLineTyped, LineStatesAre
  <2>2. Append(AtLine(text).past, AtLine(text).cur) \in Seq(Texts)
    BY <2>1, AppendProperties
  <2> QED BY <2>2, RawLinesIs
<1>2. LogicalLines(text) = IF at[n].buf = << >> THEN at[n].lines ELSE Append(at[n].lines, at[n].buf)
  BY DEF LogicalLines, LogStart
<1> HIDE DEF raws
<1>3. n \in Nat /\ n \in 0..n /\ \A i \in 1..n : raws[i] \in Texts
  BY <1>1, LenProperties, ElementOfSeq
<1>4. PICK g \in [0..n -> LogStates] :
        /\ g[0] = LogStart /\ \A i \in 1..n : g[i] = LogReader[<<g[i - 1], raws[i]>>]
        /\ Taken(raws) = g[n]
  BY <1>1, LogReads, ReadIs DEF Taken
<1>5. ASSUME NEW i \in 1..n PROVE g[i] = TakeLine(g[i - 1], Strip(raws[i]))
  <2>1. i - 1 \in 0..n
    BY <1>3
  <2>2. g[i - 1] \in LogStates /\ raws[i] \in Texts
    BY <1>3, <2>1
  <2> QED BY <1>4, <2>2, LogReads
<1>6. Fits(g)
  <2>1. \A i \in 0..n : g[i] = IF i = 0 THEN LogStart ELSE TakeLine(g[i - 1], Strip(raws[i]))
    BY <1>3, <1>4, <1>5
  <2>2. g = [i \in 0..n |-> g[i]]
    OBVIOUS
  <2> QED BY <2>1, <2>2
<1>7. Fits(at)
  <2> HIDE DEF Fits
  <2> QED BY <1>6
<1> HIDE DEF at
<1>8. at[0] = LogStart /\ \A i \in 1..n : at[i] = TakeLine(at[i - 1], Strip(raws[i]))
  BY <1>3, <1>7
<1>9. Alike(at, g, n)
  <2>1. ASSUME NEW i \in 1..n, at[i - 1] = g[i - 1] PROVE at[i] = g[i]
    BY <2>1, <1>5, <1>8
  <2> QED BY <1>3, <1>4, <1>8, <2>1, FollowsOne
<1>10. at[n] = Taken(raws) /\ at[n] \in LogStates
  BY <1>3, <1>4, <1>9 DEF Alike
<1>11. LogicalLines(text) \in Seq(Texts)
  <2>1. at[n].lines \in Seq(Texts) /\ at[n].buf \in Texts
    BY <1>10 DEF LogStates
  <2> QED BY <1>2, <2>1, AppendProperties
<1> QED BY <1>1, <1>2, <1>10, <1>11 DEF raws

(***************************************************************************)
(* Lines of flags.                                                         *)
(***************************************************************************)
LEMMA JoinLineTyped ==
  ASSUME NEW js \in Seq(Texts), NEW line \in Texts
  PROVE  JoinLine(js, line) \in Seq(Texts)
<1>1. Append(js, line) \in Seq(Texts)
  BY AppendProperties
<1>2. ASSUME js # << >> PROVE [js EXCEPT ![Len(js)] = @ \o <<"sp">> \o line] \in Seq(Texts)
  <2>1. Len(js) \in 1..Len(js)
    BY <1>2, LenProperties, EmptySeq
  <2>2. js[Len(js)] \in Texts
    BY <2>1, ElementOfSeq
  <2> DEFINE x == js[Len(js)]
             y == <<"sp">>
             z == line
  <2>3. x \in Seq(Glyphs) /\ y \in Seq(Glyphs) /\ z \in Seq(Glyphs)
    BY <2>2 DEF Texts, Glyphs
  <2>4. x \o y \o z \in Texts
    <3> HIDE DEF x, y, z
    <3>1. x \o y \in Seq(Glyphs)
      BY <2>3, ConcatProperties
    <3> QED BY <2>3, <3>1, ConcatProperties DEF Texts
  <2> DEFINE v == x \o y \o z
  <2>5. [js EXCEPT ![Len(js)] = @ \o <<"sp">> \o line] = [js EXCEPT ![Len(js)] = v]
    OBVIOUS
  <2>6. v \in Texts
    BY <2>4
  <2> HIDE DEF v
  <2> QED BY <2>1, <2>5, <2>6, ExceptSeq
<1> QED BY <1>1, <1>2 DEF JoinLine

JoinReader == [p \in Seq(Texts) \X Texts |-> JoinLine(p[1], p[2])]

LEMMA JoinReads ==
  /\ Reader(Seq(Texts), Texts, JoinReader) /\ << >> \in Seq(Texts)
  /\ \A js \in Seq(Texts) : \A line \in Texts : JoinReader[<<js, line>>] = JoinLine(js, line)
<1>1. \A p \in Seq(Texts) \X Texts : JoinLine(p[1], p[2]) \in Seq(Texts)
  <2>1. \A p \in Seq(Texts) \X Texts : p[1] \in Seq(Texts) /\ p[2] \in Texts
    OBVIOUS
  <2> QED BY <2>1, JoinLineTyped
<1>2. JoinReader \in [Seq(Texts) \X Texts -> Seq(Texts)]
  BY <1>1 DEF JoinReader
<1>3. << >> \in Seq(Texts)
  BY EmptySeq
<1>4. ASSUME NEW js \in Seq(Texts), NEW line \in Texts PROVE JoinReader[<<js, line>>] = JoinLine(js, line)
  <2>1. <<js, line>> \in Seq(Texts) \X Texts /\ <<js, line>>[1] = js /\ <<js, line>>[2] = line
    OBVIOUS
  <2> QED BY <2>1 DEF JoinReader
<1> QED BY <1>2, <1>3, <1>4 DEF Reader

JoinsAre(lines, f) ==
  /\ f[0] = << >> /\ f \in [0..Len(lines) -> Seq(Texts)]
  /\ \A i \in 1..Len(lines) : f[i] = JoinLine(f[i - 1], lines[i])
  /\ JoinedLines(lines) = f[Len(lines)]

LEMMA JoinedIs ==
  ASSUME NEW lines \in Seq(Texts)
  PROVE  \E f : JoinsAre(lines, f)
<1> DEFINE n == Len(lines)
           Fits(f) == f = [i \in 0..n |-> IF i = 0 THEN << >> ELSE JoinLine(f[i - 1], lines[i])]
           at == CHOOSE f : Fits(f)
<1>1. n \in Nat /\ n \in 0..n /\ \A i \in 1..n : lines[i] \in Texts
  BY LenProperties, ElementOfSeq
<1>2. PICK g \in [0..n -> Seq(Texts)] :
        /\ g[0] = << >> /\ \A i \in 1..n : g[i] = JoinReader[<<g[i - 1], lines[i]>>]
        /\ Read(JoinReader, << >>, lines) = g[n]
  <2> DEFINE S == Seq(Texts)
             a == << >>
  <2>1. Reader(S, Texts, JoinReader) /\ a \in S
    BY JoinReads
  <2> HIDE DEF S, a, Fits, at
  <2>2. \E g \in [0..n -> S] : /\ g[0] = a /\ \A i \in 1..n : g[i] = JoinReader[<<g[i - 1], lines[i]>>]
                               /\ Read(JoinReader, a, lines) = g[n]
    BY <2>1, ReadIs
  <2> QED BY <2>2 DEF S, a
<1>3. ASSUME NEW i \in 1..n PROVE g[i] = JoinLine(g[i - 1], lines[i])
  <2>1. i - 1 \in 0..n
    BY <1>1
  <2>2. g[i - 1] \in Seq(Texts) /\ lines[i] \in Texts
    BY <1>1, <2>1
  <2> QED BY <1>2, <2>2, JoinReads
<1>4. Fits(g)
  <2>1. \A i \in 0..n : g[i] = IF i = 0 THEN << >> ELSE JoinLine(g[i - 1], lines[i])
    BY <1>1, <1>2, <1>3
  <2>2. g = [i \in 0..n |-> g[i]]
    OBVIOUS
  <2> QED BY <2>1, <2>2
<1>5. Fits(at)
  <2> HIDE DEF Fits
  <2> QED BY <1>4
<1>6. JoinedLines(lines) = at[n]
  BY DEF JoinedLines
<1> HIDE DEF at
<1>7. at[0] = << >> /\ \A i \in 1..n : at[i] = JoinLine(at[i - 1], lines[i])
  BY <1>1, <1>5
<1>8. Alike(at, g, n)
  <2>1. ASSUME NEW i \in 1..n, at[i - 1] = g[i - 1] PROVE at[i] = g[i]
    BY <2>1, <1>3, <1>7
  <2> QED BY <1>1, <1>2, <1>7, <2>1, FollowsOne
<1>9. JoinedLines(lines) = g[n]
  BY <1>1, <1>6, <1>8 DEF Alike
<1>10. JoinsAre(lines, g)
  BY <1>2, <1>3, <1>9 DEF JoinsAre
<1> QED BY <1>10

LEMMA LinesTyped ==
  ASSUME NEW text \in Texts
  PROVE  Lines(text) \in Seq(Texts)
<1> DEFINE ls == LogicalLines(text)
<1>1. ls \in Seq(Texts)
  BY LogicalIs
<1>2. Lines(text) = JoinedLines(ls)
  BY DEF Lines
<1> HIDE DEF ls
<1>3. PICK f : JoinsAre(ls, f)
  BY <1>1, JoinedIs
<1>4. Len(ls) \in 0..Len(ls)
  BY <1>1, LenProperties
<1> QED BY <1>2, <1>3, <1>4 DEF JoinsAre

(* Lines that do not begin with a dash stay as they are.                   *)
Dashless(lines) == \A k \in 2..Len(lines) : Head(lines[k]) # "dash"

LEMMA JoinedSame ==
  ASSUME NEW lines \in Seq(Texts), Dashless(lines)
  PROVE  JoinedLines(lines) = lines
<1> DEFINE n == Len(lines)
<1>1. PICK f : JoinsAre(lines, f)
  BY JoinedIs
<1>2. n \in Nat /\ n \in 0..n
  BY LenProperties
<1> DEFINE T == {i \in 0..n : f[i] = SubSeq(lines, 1, i)}
<1>3. 0 \in T
  <2>1. SubSeq(lines, 1, 0) = << >>
    BY SubSeqEmpty
  <2> QED BY <1>1, <1>2, <2>1 DEF JoinsAre
<1>4. ASSUME NEW i \in 1..n, i - 1 \in T PROVE i \in T
  <2> DEFINE s == SubSeq(lines, 1, i - 1)
  <2>1. SubSeq(lines, 1, i) = Append(s, lines[i])
    BY PrefixAppend
  <2>2. f[i] = JoinLine(s, lines[i])
    BY <1>1, <1>4 DEF JoinsAre
  <2>3. i = 1 => s = << >>
    BY SubSeqEmpty
  <2>4. i # 1 => Head(lines[i]) # "dash"
    BY <1>2 DEF Dashless
  <2> HIDE DEF s
  <2>5. JoinLine(s, lines[i]) = Append(s, lines[i])
    BY <2>3, <2>4 DEF JoinLine
  <2>6. i \in 0..n
    BY <1>2
  <2> QED BY <2>1, <2>2, <2>5, <2>6
<1>5. \A i \in 0..n : i \in T
  <2> HIDE DEF T
  <2> QED BY <1>2, <1>3, <1>4, UpTo
<1>6. JoinedLines(lines) = SubSeq(lines, 1, n)
  BY <1>1, <1>2, <1>5 DEF JoinsAre
<1> QED BY <1>6, SubSeqFull

(* Every line of a command is cut as one pass would cut it.                *)
LEMMA LinesHold ==
  ASSUME command \in Texts
  PROVE  PassesAgree /\ LiveInPieces
<1>1. Lines(command) \in Seq(Texts)
  BY LinesTyped
<1>2. \A i \in DOMAIN Lines(command) : Lines(command)[i] \in Texts
  BY <1>1, ElementOfSeq, LenProperties
<1>3. PassesAgree
  BY <1>2, LineHolds DEF PassesAgree
<1>4. LiveInPieces
  BY <1>2, LineHolds DEF LiveInPieces
<1> QED BY <1>3, <1>4

(***************************************************************************)
(* Stripping a text that ends in a character that is no blank, and what    *)
(* becomes of a backslash at the end of a line.                            *)
(***************************************************************************)
StripsTo(t, c, a) ==
  /\ a \in 1..(Len(t) + 1) /\ \A j \in 1..(a - 1) : t[j] \in Blanks
  /\ a <= Len(t) => t[a] \notin Blanks
  /\ Strip(Append(t, c)) = Append(SubSeq(t, a, Len(t)), c)
  /\ SubSeq(t, a, Len(t)) \in Texts

LEMMA StripSolid ==
  ASSUME NEW t \in Texts, NEW c \in Glyphs, c \notin Blanks
  PROVE  \E a : StripsTo(t, c, a)
<1> DEFINE n == Len(t)
           u == Append(t, c)
<1>1. n \in Nat /\ t \in Seq(Glyphs)
  BY LenProperties DEF Texts
<1>2. u \in Texts /\ u \in Seq(Glyphs) /\ Len(u) = n + 1 /\ u[n + 1] = c /\ \A i \in 1..n : u[i] = t[i]
  BY <1>1, AppendProperties DEF Texts
<1> HIDE DEF u
<1>3. n + 1 \in Solid(u)
  BY <1>1, <1>2, SolidIs
<1>4. PICK a \in Solid(u), b \in Solid(u) : (\A j \in Solid(u) : a <= j /\ j <= b) /\ Strip(u) = SubSeq(u, a, b)
  BY <1>2, <1>3, SolidIs
<1>5. a \in 1..(n + 1) /\ b \in 1..(n + 1) /\ n + 1 <= b
  BY <1>2, <1>3, <1>4, SolidIs
<1>6. b = n + 1
  BY <1>1, <1>5
<1>7. \A j \in 1..(a - 1) : t[j] \in Blanks
  <2>1. ASSUME NEW j \in 1..(a - 1) PROVE t[j] \in Blanks
    <3>1. j \in 1..n /\ j \in 1..(n + 1) /\ ~(a <= j)
      BY <1>1, <1>5
    <3>2. j \notin Solid(u)
      BY <1>4, <3>1
    <3>3. u[j] \in Blanks
      BY <1>2, <3>1, <3>2, SolidIs
    <3> QED BY <1>2, <3>1, <3>3
  <2> QED BY <2>1
<1>8. a <= n => t[a] \notin Blanks
  <2>1. u[a] \notin Blanks
    BY <1>2, <1>5, SolidIs
  <2> QED BY <1>1, <1>2, <1>5, <2>1
<1> DEFINE x == SubSeq(u, a, n + 1)
           y == SubSeq(t, a, n)
           z == Append(y, c)
<1>9. x \in Seq(Glyphs) /\ Len(x) = n + 1 - a + 1 /\ \A i \in 1..(n + 1 - a + 1) : x[i] = u[a + i - 1]
  <2> DEFINE k == n + 1
  <2>1. a \in 1..(Len(u) + 1) /\ k \in (a - 1)..Len(u)
    BY <1>1, <1>2, <1>5
  <2>2. u \in Seq(Glyphs)
    BY <1>2
  <2> HIDE DEF k, u
  <2>3. LET v == SubSeq(u, a, k)
        IN  v \in Seq(Glyphs) /\ Len(v) = k - a + 1 /\ \A i \in 1..(k - a + 1) : v[i] = u[a + i - 1]
    BY <2>1, <2>2, Part
  <2> QED BY <2>3 DEF k
<1>10. y \in Seq(Glyphs) /\ Len(y) = n - a + 1 /\ \A i \in 1..(n - a + 1) : y[i] = t[a + i - 1]
  <2>1. a \in 1..(Len(t) + 1) /\ n \in (a - 1)..Len(t)
    BY <1>1, <1>5
  <2> QED BY <1>1, <2>1, Part
<1> HIDE DEF x, y
<1>11. z \in Seq(Glyphs) /\ Len(z) = Len(y) + 1 /\ z[Len(y) + 1] = c /\ \A i \in 1..Len(y) : z[i] = y[i]
  BY <1>10, AppendProperties
<1> HIDE DEF z
<1>12. x = z
  <2>1. Len(x) = Len(z)
    BY <1>1, <1>5, <1>9, <1>10, <1>11
  <2>2. ASSUME NEW i \in 1..Len(x) PROVE x[i] = z[i]
    <3>1. x[i] = u[a + i - 1]
      BY <1>9, <2>2
    <3>2. CASE i = n - a + 2
      <4>1. a + i - 1 = n + 1 /\ i = Len(y) + 1
        BY <1>1, <1>5, <1>10, <3>2
      <4> QED BY <1>2, <1>11, <3>1, <4>1
    <3>3. CASE i # n - a + 2
      <4>1. i \in 1..(n - a + 1) /\ a + i - 1 \in 1..n
        BY <1>1, <1>5, <1>9, <3>3
      <4> QED BY <1>2, <1>10, <1>11, <3>1, <4>1
    <3> QED BY <3>2, <3>3
  <2> QED BY <1>9, <1>11, <2>1, <2>2, SeqEqual
<1>13. Strip(Append(t, c)) = Append(y, c)
  BY <1>4, <1>6, <1>12 DEF x, z, u
<1> QED BY <1>5, <1>7, <1>8, <1>10, <1>13 DEF StripsTo, y, Texts

LEMMA StripEnds ==
  ASSUME NEW t \in Texts, NEW c \in Glyphs, c \notin Blanks
  PROVE  /\ Strip(Append(t, c)) # << >> /\ Last(Strip(Append(t, c))) = c
         /\ Continues(Strip(Append(t, c))) <=> c = "bs"
         /\ \E u \in Texts : Front(Strip(Append(t, c))) = u /\ Final(Ends, u) = Final(Ends, t)
<1>1. PICK a : StripsTo(t, c, a)
  BY StripSolid
<1> DEFINE u == SubSeq(t, a, Len(t))
           v == Append(u, c)
<1>2. Strip(Append(t, c)) = v /\ u \in Texts
  BY <1>1 DEF StripsTo
<1>3. Final(Ends, u) = Final(Ends, t)
  <2> DEFINE V == FinalMap(Ends)
  <2>1. \A s \in Texts : V[s] = Final(Ends, s)
    BY EndsAre, FinalMaps
  <2>2. MindsNoFirst(V)
    <3>1. ASSUME NEW s \in Texts, NEW w \in Blanks PROVE V[<<w>> \o s] = V[s]
      <4>1. <<w>> \o s \in Texts
        BY StripConsBlank
      <4> QED BY <2>1, <4>1, EndsAre, FinalConsBlank
    <3> HIDE DEF V
    <3> QED BY <3>1 DEF MindsNoFirst
  <2> HIDE DEF V
  <2>3. V[u] = V[t]
    BY <1>1, <2>2, DropFirst DEF StripsTo
  <2> QED BY <1>2, <2>1, <2>3
<1> HIDE DEF u
<1>4. v # << >> /\ Last(v) = c /\ Front(v) = u
  <2>1. Len(v) = Len(u) + 1 /\ v[Len(u) + 1] = c /\ Len(u) \in Nat /\ v # << >>
    BY <1>2, AppendProperties, LenProperties DEF Texts
  <2>2. SubSeq(v, 1, Len(u)) = u
    <3>1. v = u \o <<c>> /\ <<c>> \in Seq(Glyphs)
      BY <1>2, AppendIsConcat DEF Texts
    <3>2. v \in Seq(Glyphs) /\ u \in Seq(Glyphs)
      BY <1>2, AppendProperties DEF Texts
    <3>3. Len(v) \in 1..Len(v)
      BY <2>1
    <3>4. Front(v) = SubSeq(v, 1, Len(v) - 1) /\ Len(v) - 1 = Len(u)
      BY <2>1 DEF Front
    <3>5. v = Append(SubSeq(v, 1, Len(v) - 1), v[Len(v)])
      BY <2>1, <3>2, FrontAppend
    <3>6. SubSeq(v, 1, Len(u)) \in Seq(Glyphs)
      BY <2>1, <3>2, <3>4, FrontAppend
    <3> DEFINE x == SubSeq(v, 1, Len(u))
    <3>7. Append(x, c) = Append(u, c)
      BY <2>1, <3>4, <3>5
    <3> HIDE DEF x, v
    <3>8. Len(x) = Len(u)
      <4>1. Len(Append(x, c)) = Len(x) + 1 /\ Len(Append(u, c)) = Len(u) + 1 /\ Len(x) \in Nat
        BY <3>2, <3>6, AppendProperties, LenProperties DEF x
      <4> QED BY <2>1, <3>7, <4>1
    <3>9. \A i \in 1..Len(x) : x[i] = u[i]
      <4>1. /\ \A i \in 1..Len(x) : Append(x, c)[i] = x[i]
            /\ \A i \in 1..Len(u) : Append(u, c)[i] = u[i]
        BY <3>2, <3>6, AppendProperties DEF x
      <4> QED BY <3>7, <3>8, <4>1
    <3> QED BY <3>2, <3>6, <3>8, <3>9, SeqEqual DEF x
  <2>3. Len(v) - 1 = Len(u) /\ Len(v) = Len(u) + 1
    BY <2>1
  <2> HIDE DEF v
  <2> QED BY <2>1, <2>2, <2>3 DEF Last, Front
<1>5. Continues(v) <=> c = "bs"
  BY <1>4 DEF Continues
<1> HIDE DEF v
<1> QED BY <1>2, <1>3, <1>4, <1>5

LEMMA StripHead ==
  ASSUME NEW t \in Texts, NEW c \in Glyphs, c \notin Blanks
  PROVE  Head(Strip(Append(t, c))) = IF Strip(t) = << >> THEN c ELSE Head(Strip(t))
<1> DEFINE n == Len(t)
<1>1. n \in Nat /\ t \in Seq(Glyphs)
  BY LenProperties DEF Texts
<1>2. PICK a : StripsTo(t, c, a)
  BY StripSolid
<1>3. a \in 1..(n + 1) /\ (\A j \in 1..(a - 1) : t[j] \in Blanks) /\ (a <= n => t[a] \notin Blanks)
      /\ Strip(Append(t, c)) = Append(SubSeq(t, a, n), c)
  BY <1>2 DEF StripsTo
<1>4. CASE a = n + 1
  <2>1. SubSeq(t, a, n) = << >>
    BY <1>1, <1>4, SubSeqEmpty
  <2>2. Head(Append(<< >>, c)) = c
    OBVIOUS
  <2>3. Solid(t) = {}
    BY <1>1, <1>3, <1>4, SolidIs
  <2>4. Strip(t) = << >>
    BY <2>3, SolidIs
  <2> QED BY <1>3, <2>1, <2>2, <2>4
<1>5. CASE a # n + 1
  <2>1. a \in 1..n
    BY <1>1, <1>3, <1>5
  <2>2. a \in Solid(t)
    BY <1>3, <2>1, SolidIs
  <2>3. PICK p \in Solid(t), q \in Solid(t) : (\A j \in Solid(t) : p <= j /\ j <= q) /\ Strip(t) = SubSeq(t, p, q)
    BY <2>2, SolidIs
  <2>4. p \in 1..n /\ q \in p..n /\ p <= a /\ t[p] \notin Blanks
    BY <1>1, <2>2, <2>3, SolidIs
  <2>5. p = a
    <3>1. ~(p \in 1..(a - 1))
      BY <1>3, <2>4
    <3> QED BY <2>1, <2>4, <3>1
  <2>6. Head(Strip(t)) = t[a]
    BY <1>1, <2>3, <2>4, <2>5, HeadTailOfSubSeq
  <2> DEFINE y == SubSeq(t, a, n)
  <2>7. y \in Seq(Glyphs) /\ Len(y) = n - a + 1 /\ Head(y) = t[a]
    <3>1. a \in 1..(Len(t) + 1) /\ n \in (a - 1)..Len(t) /\ a \in 1..Len(t) /\ n \in a..Len(t)
      BY <1>1, <2>1
    <3> QED BY <1>1, <3>1, Part, HeadTailOfSubSeq
  <2> HIDE DEF y
  <2>8. y # << >> /\ Len(y) \in Nat \ {0}
    BY <1>1, <2>1, <2>7
  <2>9. Head(Append(y, c)) = Head(y)
    BY <2>7, <2>8
  <2>10. Strip(t) # << >>
    BY <2>2, StripTyped
  <2> QED BY <1>3, <2>6, <2>7, <2>9, <2>10 DEF y
<1> QED BY <1>4, <1>5

(* What _logical_lines makes of the last line, and the pieces of that.     *)
Trim(u) == IF Continues(u) THEN Strip(Front(u)) ELSE u
Trimmed(t) == Final(Ends, Trim(Strip(t)))

LEMMA TrimTyped ==
  ASSUME NEW u \in Texts
  PROVE  Trim(u) \in Texts
<1>1. CASE Continues(u)
  <2>1. u # << >>
    BY <1>1 DEF Continues
  <2> QED BY <2>1, FrontTyped, StripTyped DEF Trim
<1>2. CASE ~Continues(u)
  BY <1>2 DEF Trim
<1> QED BY <1>1, <1>2

LEMMA TrimmedTyped ==
  ASSUME NEW t \in Texts
  PROVE  Trimmed(t) \in Seq(Texts)
BY StripTyped, TrimTyped, EndsAre, FinalTyped DEF Trimmed

LEMMA TrimmedEmpty == Trimmed(<< >>) = << >>
<1>1. << >> \in Texts /\ Len(<< >>) = 0
  BY EmptySeq DEF Texts
<1>2. Solid(<< >>) = {}
  BY <1>1 DEF Solid
<1>3. Strip(<< >>) = << >>
  BY <1>1, <1>2, SolidIs
<1>4. Trim(<< >>) = << >>
  BY DEF Trim, Continues
<1> QED BY <1>3, <1>4, EndsAre, FinalEmpty DEF Trimmed

LEMMA TrimmedAppend ==
  ASSUME NEW t \in Texts, NEW c \in Glyphs
  PROVE  Trimmed(Append(t, c)) = IF c \in Blanks THEN Trimmed(t)
                                 ELSE IF c = "bs" THEN Final(Ends, t)
                                 ELSE Final(Ends, Append(t, c))
<1>1. CASE c \in Blanks
  BY <1>1, StripAppendBlank DEF Trimmed
<1>2. CASE c \notin Blanks /\ c = "bs"
  <2> DEFINE s == Strip(Append(t, c))
  <2>1. Continues(s)
    BY <1>2, StripEnds
  <2>2. PICK u \in Texts : Front(s) = u /\ Final(Ends, u) = Final(Ends, t)
    BY <1>2, StripEnds
  <2>3. Trimmed(Append(t, c)) = Final(Ends, Strip(u))
    BY <2>1, <2>2 DEF Trimmed, Trim
  <2>4. Final(Ends, Strip(u)) = Final(Ends, u)
    BY EndsAre, FinalStrip
  <2> QED BY <1>2, <2>2, <2>3, <2>4
<1>3. CASE c \notin Blanks /\ c # "bs"
  <2> DEFINE s == Strip(Append(t, c))
  <2>1. ~Continues(s)
    BY <1>3, StripEnds
  <2>2. Trimmed(Append(t, c)) = Final(Ends, s)
    BY <2>1 DEF Trimmed, Trim
  <2>3. Append(t, c) \in Texts
    BY AppendProperties DEF Texts
  <2>4. Final(Ends, s) = Final(Ends, Append(t, c))
    BY <2>3, EndsAre, FinalStrip
  <2> QED BY <1>3, <2>2, <2>4
<1> QED BY <1>1, <1>2, <1>3

(***************************************************************************)
(* A newline that ends a command, and a semicolon in its place.            *)
(***************************************************************************)
Before(l) == Chain(FinalMap(Ends), l.past)

(* With semicolons for newlines, cutting is where it is in the last line,  *)
(* after the pieces of the lines before.                                   *)
EndsAlike(l, a, e) ==
  LET b == End(Ends, l.cur)
  IN  /\ a.done = Before(l) \o b.done
      /\ a.buf = b.buf /\ a.quote = b.quote /\ a.esc = b.esc
      /\ e.quote = a.quote /\ e.esc = a.esc

LEMMA LinedIs ==
  ASSUME NEW l, NEW c
  PROVE  /\ c = "nl" => Lined(l, c).past = Append(l.past, l.cur) /\ Lined(l, c).cur = << >>
         /\ c # "nl" => Lined(l, c).past = l.past /\ Lined(l, c).cur = Append(l.cur, c)
BY DEF Lined

LEMMA BeforeTyped ==
  ASSUME NEW l \in LineStates
  PROVE  Before(l) \in Seq(Texts)
BY LineStatesAre, EndsAre, FinalMaps, ChainTyped DEF Before

LEMMA FinalAlike ==
  ASSUME NEW l \in LineStates, NEW q \in Texts, NEW e, EndsAlike(l, End(Ends, q), e)
  PROVE  Final(Ends, q) = Before(l) \o Final(Ends, l.cur)
<1> DEFINE a == End(Ends, q)
           b == End(Ends, l.cur)
           x == Before(l)
           y == b.done
           z == One(b.buf)
<1>1. l.cur \in Texts /\ x \in Seq(Texts)
  BY LineStatesAre, BeforeTyped
<1>2. y \in Seq(Texts) /\ z \in Seq(Texts)
  BY <1>1, EndsAre, EndTyped, CutStatesAre, OneTyped
<1>3. a.done = x \o y /\ a.buf = b.buf
  BY DEF EndsAlike
<1>4. Final(Ends, q) = a.done \o One(a.buf) /\ Final(Ends, l.cur) = y \o z
  BY DEF Final
<1>5. One(a.buf) = z
  BY <1>3
<1> HIDE DEF a, b, x, y, z
<1>6. (x \o y) \o z = x \o (y \o z)
  BY <1>1, <1>2, ConcatThree
<1> QED BY <1>3, <1>4, <1>5, <1>6 DEF x

LEMMA CuttingAlike ==
  ASSUME NEW a \in CutStates, NEW b \in CutStates, NEW c, a.quote = b.quote, a.esc = b.esc, a.buf = b.buf
  PROVE  /\ Cutting(Ends, a, c) <=> Cutting(Ends, b, c)
         /\ Reads(Ends, a, c).quote = Reads(Ends, b, c).quote
         /\ Reads(Ends, a, c).esc = Reads(Ends, b, c).esc
         /\ Reads(Ends, a, c).buf = Reads(Ends, b, c).buf
         /\ Reads(Ends, a, c).done = IF Cutting(Ends, a, c) THEN a.done \o One(a.buf) ELSE a.done
<1>1. Cutting(Ends, a, c) <=> Cutting(Ends, b, c)
  BY DEF Cutting
<1>2. CASE Cutting(Ends, a, c)
  <2>1. Reads(Ends, a, c) = CutOff(a) /\ Reads(Ends, b, c) = CutOff(b)
    BY <1>1, <1>2 DEF Reads
  <2>2. CutOff(a).done = a.done \o One(a.buf) /\ CutOff(a).buf = CutOff(b).buf
        /\ CutOff(a).quote = CutOff(b).quote /\ CutOff(a).esc = CutOff(b).esc
    BY CutOffIs
  <2> QED BY <1>1, <1>2, <2>1, <2>2
<1>3. CASE ~Cutting(Ends, a, c)
  <2>1. Reads(Ends, a, c) = Kept(a, c) /\ Reads(Ends, b, c) = Kept(b, c)
    BY <1>1, <1>3 DEF Reads
  <2>2. Kept(a, c).done = a.done /\ Kept(a, c).buf = Kept(b, c).buf
        /\ Kept(a, c).quote = Kept(b, c).quote /\ Kept(a, c).esc = Kept(b, c).esc
    BY KeptIs
  <2> QED BY <1>1, <1>3, <2>1, <2>2
<1> QED BY <1>2, <1>3

LEMMA SameQuoting ==
  ASSUME NEW a \in CutStates, NEW e \in CutStates, NEW c, a.quote = e.quote, a.esc = e.esc
  PROVE  /\ Reads(Ends, e, c).quote = Reads(Ends, a, c).quote
         /\ Reads(Ends, e, c).esc = Reads(Ends, a, c).esc
<1>1. Cutting(Ends, a, c) <=> Cutting(Ends, e, c)
  BY DEF Cutting
<1>2. CASE Cutting(Ends, a, c)
  <2>1. Reads(Ends, a, c) = CutOff(a) /\ Reads(Ends, e, c) = CutOff(e)
    BY <1>1, <1>2 DEF Reads
  <2> QED BY <2>1, CutOffIs
<1>3. CASE ~Cutting(Ends, a, c)
  <2>1. Reads(Ends, a, c) = Kept(a, c) /\ Reads(Ends, e, c) = Kept(e, c)
    BY <1>1, <1>3 DEF Reads
  <2> QED BY <2>1, KeptIs
<1> QED BY <1>2, <1>3

LEMMA AlikeInLine ==
  ASSUME NEW l \in LineStates, NEW a \in CutStates, NEW e \in CutStates, EndsAlike(l, a, e),
         NEW c \in Glyphs, c # "nl"
  PROVE  EndsAlike(Lined(l, c), Reads(Ends, a, c), Reads(Ends, e, c))
<1> DEFINE b == End(Ends, l.cur)
           m == Lined(l, c)
           r == Reads(Ends, a, c)
           s == Reads(Ends, b, c)
           f == Reads(Ends, e, c)
           x == Before(l)
           y == b.done
           z == One(b.buf)
<1>1. l.cur \in Texts /\ x \in Seq(Texts)
  BY LineStatesAre, BeforeTyped
<1>2. b \in CutStates /\ y \in Seq(Texts) /\ z \in Seq(Texts)
  BY <1>1, EndsAre, EndTyped, CutStatesAre, OneTyped
<1>3. m.past = l.past /\ m.cur = Append(l.cur, c)
  BY LinedIs
<1>4. End(Ends, m.cur) = s
  BY <1>1, <1>3, EndsAre, EndAppend
<1>5. Before(m) = x
  BY <1>3 DEF Before
<1>6. a.done = x \o y /\ a.buf = b.buf /\ a.quote = b.quote /\ a.esc = b.esc /\ e.quote = a.quote /\ e.esc = a.esc
  BY DEF EndsAlike
<1>7. s.done = IF Cutting(Ends, b, c) THEN y \o z ELSE y
  BY <1>2, CuttingAlike
<1>8. One(a.buf) = z
  BY <1>6
<1> HIDE DEF b, m, x, y, z
<1>9. r.quote = s.quote /\ r.esc = s.esc /\ r.buf = s.buf /\ (Cutting(Ends, a, c) <=> Cutting(Ends, b, c))
      /\ r.done = IF Cutting(Ends, a, c) THEN a.done \o One(a.buf) ELSE a.done
  <2>1. b \in CutStates /\ a.quote = b.quote /\ a.esc = b.esc /\ a.buf = b.buf
    BY <1>2, <1>6
  <2> QED BY <2>1, CuttingAlike
<1>10. f.quote = r.quote /\ f.esc = r.esc
  BY <1>6, SameQuoting
<1> HIDE DEF r, s, f
<1>11. (x \o y) \o z = x \o (y \o z)
  BY <1>1, <1>2, ConcatThree
<1>12. r.done = x \o s.done
  BY <1>6, <1>7, <1>8, <1>9, <1>11
<1>13. EndsAlike(m, r, f)
  BY <1>4, <1>5, <1>9, <1>10, <1>12 DEF EndsAlike
<1> QED BY <1>13 DEF m, r, f

LEMMA AlikeAtNewline ==
  ASSUME NEW l \in LineStates, NEW a \in CutStates, NEW e \in CutStates, EndsAlike(l, a, e),
         a.quote = "none", ~a.esc
  PROVE  EndsAlike(Lined(l, "nl"), Reads(Ends, a, "semi"), Reads(Ends, e, "nl"))
<1> DEFINE b == End(Ends, l.cur)
           m == Lined(l, "nl")
           r == Reads(Ends, a, "semi")
           f == Reads(Ends, e, "nl")
           x == Before(l)
           y == b.done
           z == One(b.buf)
<1>1. l.past \in Seq(Texts) /\ l.cur \in Texts /\ x \in Seq(Texts)
  BY LineStatesAre, BeforeTyped
<1>2. b \in CutStates /\ y \in Seq(Texts) /\ z \in Seq(Texts)
  BY <1>1, EndsAre, EndTyped, CutStatesAre, OneTyped
<1>3. m.past = Append(l.past, l.cur) /\ m.cur = << >>
  BY LinedIs
<1>4. End(Ends, m.cur) = CutStart
  BY <1>3, EndsAre, EndEmpty
<1>5. a.done = x \o y /\ a.buf = b.buf /\ e.quote = a.quote /\ e.esc = a.esc
  BY DEF EndsAlike
<1>6. Final(Ends, l.cur) = y \o z
  BY DEF Final
<1>7. Before(m) = x \o (y \o z) /\ Before(m) \in Seq(Texts)
  <2>1. Chain(FinalMap(Ends), Append(l.past, l.cur)) = Chain(FinalMap(Ends), l.past) \o Final(Ends, l.cur)
    BY <1>1, EndsAre, ChainFinalAppend
  <2>2. Append(l.past, l.cur) \in Seq(Texts)
    BY <1>1, AppendProperties
  <2>3. Chain(FinalMap(Ends), Append(l.past, l.cur)) \in Seq(Texts)
    BY <2>2, EndsAre, FinalMaps, ChainTyped
  <2> HIDE DEF m, y, z
  <2> QED BY <1>3, <1>6, <2>1, <2>3 DEF Before
<1>8. r.done = a.done \o One(a.buf) /\ r.buf = << >> /\ r.quote = "none" /\ r.esc = FALSE
  <2>1. Cutting(Ends, a, "semi")
    BY DEF Cutting, Ends
  <2>2. r = CutOff(a)
    BY <2>1 DEF Reads
  <2> HIDE DEF r
  <2> QED BY <2>2, CutOffIs
<1>9. f.quote = "none" /\ f.esc = FALSE
  <2>1. ~Cutting(Ends, e, "nl")
    BY DEF Cutting, Ends
  <2>2. f = Kept(e, "nl")
    BY <2>1 DEF Reads
  <2>3. f.quote = Quoting(e.quote, e.esc, "nl") /\ f.esc = Escaping(e.quote, e.esc, "nl")
    <3> HIDE DEF f
    <3> QED BY <2>2, KeptIs
  <2> HIDE DEF f
  <2> QED BY <1>5, <2>3 DEF Quoting, Escaping
<1>10. One(a.buf) = z
  BY <1>5
<1> HIDE DEF b, m, r, f, x, y, z
<1>11. (x \o y) \o z = x \o (y \o z)
  BY <1>1, <1>2, ConcatThree
<1>12. r.done = Before(m) /\ Before(m) \o << >> = Before(m)
  BY <1>5, <1>7, <1>8, <1>10, <1>11, ConcatEmptySeq
<1>13. CutStart.done = << >> /\ CutStart.buf = << >> /\ CutStart.quote = "none" /\ CutStart.esc = FALSE
  BY DEF CutStart
<1>14. EndsAlike(m, r, f)
  BY <1>4, <1>8, <1>9, <1>12, <1>13 DEF EndsAlike
<1> QED BY <1>14 DEF m, r, f

LEMMA TrimmedInLine ==
  ASSUME NEW l \in LineStates, NEW q \in Texts, NEW e \in CutStates, EndsAlike(l, End(Ends, q), e),
         Trimmed(q) = Before(l) \o Trimmed(l.cur), NEW c \in Glyphs, c # "nl"
  PROVE  Trimmed(Append(q, c)) = Before(Lined(l, c)) \o Trimmed(Lined(l, c).cur)
<1> DEFINE m == Lined(l, c)
           x == Before(l)
<1>1. l.cur \in Texts /\ m \in LineStates
  BY LineStatesAre, LinedTyped
<1>2. m.past = l.past /\ m.cur = Append(l.cur, c)
  BY LinedIs
<1>3. Before(m) = x
  BY <1>2 DEF Before
<1>4. Final(Ends, q) = x \o Final(Ends, l.cur)
  BY FinalAlike
<1>5. Append(q, c) \in Texts
  BY AppendProperties DEF Texts
<1>6. Final(Ends, Append(q, c)) = x \o Final(Ends, m.cur)
  <2>1. End(Ends, Append(q, c)) = Reads(Ends, End(Ends, q), c) /\ End(Ends, q) \in CutStates
    BY EndsAre, EndAppend, EndTyped
  <2>2. EndsAlike(m, End(Ends, Append(q, c)), Reads(Ends, e, c))
    BY <2>1, AlikeInLine
  <2> HIDE DEF m
  <2>3. Final(Ends, Append(q, c)) = Before(m) \o Final(Ends, m.cur)
    BY <1>1, <1>5, <2>2, FinalAlike
  <2> QED BY <1>3, <2>3
<1> HIDE DEF m, x
<1>7. CASE c \in Blanks
  BY <1>1, <1>2, <1>3, <1>7, TrimmedAppend DEF x, m
<1>8. CASE c \notin Blanks /\ c = "bs"
  BY <1>1, <1>2, <1>3, <1>4, <1>8, TrimmedAppend DEF m
<1>9. CASE c \notin Blanks /\ c # "bs"
  BY <1>1, <1>2, <1>3, <1>6, <1>9, TrimmedAppend DEF m
<1> QED BY <1>7, <1>8, <1>9

LEMMA TrimmedAtNewline ==
  ASSUME NEW l \in LineStates, NEW q \in Texts, NEW e \in CutStates, EndsAlike(l, End(Ends, q), e),
         End(Ends, q).quote = "none", ~End(Ends, q).esc
  PROVE  Trimmed(Append(q, "semi")) = Before(Lined(l, "nl")) \o Trimmed(Lined(l, "nl").cur)
<1> DEFINE m == Lined(l, "nl")
<1>1. "semi" \in Glyphs /\ "semi" \notin Blanks
  BY DEF Glyphs, Blanks
<1>2. Trimmed(Append(q, "semi")) = Final(Ends, Append(q, "semi"))
  BY <1>1, TrimmedAppend
<1>3. End(Ends, Append(q, "semi")) = Reads(Ends, End(Ends, q), "semi") /\ End(Ends, q) \in CutStates
  BY <1>1, EndsAre, EndAppend, EndTyped
<1>4. EndsAlike(m, End(Ends, Append(q, "semi")), Reads(Ends, e, "nl"))
  BY <1>3, AlikeAtNewline
<1>5. m.cur = << >> /\ m \in LineStates
  <2>1. l.past \in Seq(Texts) /\ l.cur \in Texts /\ << >> \in Texts
    BY LineStatesAre, EmptySeq DEF Texts
  <2>2. m.past = Append(l.past, l.cur) /\ m.cur = << >>
    BY LinedIs
  <2>3. Append(l.past, l.cur) \in Seq(Texts)
    BY <2>1, AppendProperties
  <2>4. m = [past |-> Append(l.past, l.cur), cur |-> << >>]
    BY DEF Lined
  <2> QED BY <2>1, <2>2, <2>3, <2>4 DEF LineStates
<1>6. Append(q, "semi") \in Texts
  BY <1>1, AppendProperties DEF Texts
<1> HIDE DEF m
<1>7. Final(Ends, Append(q, "semi")) = Before(m) \o Final(Ends, m.cur)
  BY <1>4, <1>5, <1>6, FinalAlike
<1> QED BY <1>2, <1>5, <1>7, EndsAre, FinalEmpty, TrimmedEmpty DEF m

(***************************************************************************)
(* Where no line goes on in the next, each is taken by itself.             *)
(***************************************************************************)
Taking(l) == Taken(l.past).lines = Solids(l.past) /\ Taken(l.past).buf = << >>

LEMMA OneIs ==
  ASSUME NEW t
  PROVE  One(t) = Filled(Strip(t))
BY DEF One, Filled

LEMMA TakenAppend ==
  ASSUME NEW past \in Seq(Texts), NEW cur \in Texts
  PROVE  /\ Taken(Append(past, cur)) = TakeLine(Taken(past), Strip(cur))
         /\ Taken(past) \in LogStates
<1>1. Taken(Append(past, cur)) = LogReader[<<Taken(past), cur>>]
  BY LogReads, ReadAppend DEF Taken
<1>2. Taken(past) \in LogStates
  BY LogReads, ReadTyped DEF Taken
<1> QED BY <1>1, <1>2, LogReads

LEMMA TakeLineIs ==
  ASSUME NEW s \in LogStates, s.buf = << >>, NEW u
  PROVE  LET r == TakeLine(s, u)
         IN  IF u = << >> THEN r = s
             ELSE IF Continues(u) THEN r.lines = s.lines /\ r.buf = Strip(Front(u))
             ELSE r.lines = Append(s.lines, u) /\ r.buf = << >>
<1>1. Joined(s.buf, u) = u
  BY DEF Joined
<1>2. CASE u = << >>
  BY <1>1, <1>2 DEF TakeLine
<1>3. CASE u # << >> /\ Continues(u)
  <2>1. TakeLine(s, u) = [s EXCEPT !.buf = Strip(Front(u))]
    BY <1>1, <1>3 DEF TakeLine
  <2>2. [s EXCEPT !.buf = Strip(Front(u))].lines = s.lines /\ [s EXCEPT !.buf = Strip(Front(u))].buf = Strip(Front(u))
    BY DEF LogStates
  <2> QED BY <1>3, <2>1, <2>2
<1>4. CASE u # << >> /\ ~Continues(u)
  BY <1>1, <1>4 DEF TakeLine
<1> QED BY <1>2, <1>3, <1>4

LEMMA TakingStart == Taking(LineStart)
<1>1. Taken(<< >>) = LogStart
  BY LogReads, ReadEmpty DEF Taken
<1> QED BY <1>1, SolidsEmpty DEF Taking, LineStart, LogStart

LEMMA TakingAtNewline ==
  ASSUME NEW l \in LineStates, Taking(l), ~Continues(Strip(l.cur))
  PROVE  Taking(Lined(l, "nl"))
<1> DEFINE m == Lined(l, "nl")
           u == Strip(l.cur)
           s == Taken(l.past)
<1>1. l.past \in Seq(Texts) /\ l.cur \in Texts /\ u \in Texts
  BY LineStatesAre, StripTyped
<1>2. m.past = Append(l.past, l.cur)
  BY LinedIs
<1>3. Solids(m.past) = Solids(l.past) \o One(l.cur) /\ Solids(l.past) \in Seq(Texts)
  BY <1>1, <1>2, SolidsAppend, SolidsIs
<1>4. s \in LogStates /\ Taken(m.past) = TakeLine(s, u) /\ s.lines = Solids(l.past) /\ s.buf = << >>
  BY <1>1, <1>2, TakenAppend DEF Taking
<1> HIDE DEF m, s
<1>5. CASE u = << >>
  <2>1. Taken(m.past) = s
    BY <1>4, <1>5, TakeLineIs
  <2>2. One(l.cur) = << >>
    BY <1>5 DEF One
  <2>3. Solids(m.past) = Solids(l.past)
    BY <1>3, <2>2, ConcatEmptySeq
  <2> QED BY <1>4, <2>1, <2>3 DEF Taking, m
<1>6. CASE u # << >>
  <2>1. Taken(m.past).lines = Append(s.lines, u) /\ Taken(m.past).buf = << >>
    BY <1>4, <1>6, TakeLineIs
  <2>2. One(l.cur) = <<u>>
    BY <1>6 DEF One
  <2>3. Append(s.lines, u) = Solids(l.past) \o <<u>>
    BY <1>1, <1>3, <1>4, AppendIsConcat
  <2> QED BY <1>3, <2>1, <2>2, <2>3 DEF Taking, m
<1> QED BY <1>5, <1>6

LEMMA TakingInLine ==
  ASSUME NEW l, Taking(l), NEW c, c # "nl"
  PROVE  Taking(Lined(l, c))
BY LinedIs DEF Taking

LEMMA LogicalAt ==
  ASSUME NEW text \in Texts, Taking(AtLine(text))
  PROVE  LogicalLines(text) = Solids(AtLine(text).past) \o Filled(Trim(Strip(AtLine(text).cur)))
<1> DEFINE l == AtLine(text)
           u == Strip(l.cur)
           s == Taken(l.past)
           r == TakeLine(s, u)
           ls == Solids(l.past)
<1>1. l \in LineStates
  BY AtLineTyped
<1>2. l.past \in Seq(Texts) /\ l.cur \in Texts /\ u \in Texts
  BY <1>1, LineStatesAre, StripTyped
<1>3. RawLines(text) = Append(l.past, l.cur)
  BY RawLinesIs
<1>4. Taken(Append(l.past, l.cur)) = r /\ s \in LogStates
  BY <1>2, TakenAppend
<1>5. s.lines = ls /\ s.buf = << >>
  BY DEF Taking
<1>6. LogicalLines(text) = IF r.buf = << >> THEN r.lines ELSE Append(r.lines, r.buf)
  <2>1. LET end == Taken(RawLines(text))
        IN  LogicalLines(text) = IF end.buf = << >> THEN end.lines ELSE Append(end.lines, end.buf)
    BY LogicalIs
  <2> HIDE DEF l, r
  <2> QED BY <1>3, <1>4, <2>1
<1>7. ls \in Seq(Texts) /\ ls \o << >> = ls
  BY <1>2, SolidsIs, ConcatEmptySeq
<1> HIDE DEF l, s, ls
<1>8. CASE u = << >>
  <2>1. r = s
    BY <1>4, <1>5, <1>8, TakeLineIs
  <2>2. Trim(u) = << >>
    BY <1>8 DEF Trim, Continues
  <2> HIDE DEF r
  <2>3. LogicalLines(text) = ls
    BY <1>5, <1>6, <2>1
  <2>4. Filled(Trim(u)) = << >>
    BY <2>2 DEF Filled
  <2> QED BY <1>7, <2>3, <2>4 DEF l, ls
<1>9. CASE u # << >> /\ Continues(u)
  <2>1. r.lines = ls /\ r.buf = Trim(u)
    BY <1>4, <1>5, <1>9, TakeLineIs DEF Trim
  <2>2. Trim(u) \in Texts
    BY <1>2, TrimTyped
  <2>3. Append(ls, Trim(u)) = ls \o <<Trim(u)>>
    BY <1>7, <2>2, AppendIsConcat
  <2> HIDE DEF r
  <2>4. LogicalLines(text) = ls \o Filled(Trim(u))
    BY <1>6, <1>7, <2>1, <2>3 DEF Filled
  <2> QED BY <2>4 DEF l, ls
<1>10. CASE u # << >> /\ ~Continues(u)
  <2>1. r.lines = Append(ls, u) /\ r.buf = << >>
    BY <1>4, <1>5, <1>10, TakeLineIs
  <2>2. Trim(u) = u
    BY <1>10 DEF Trim
  <2>3. Append(ls, u) = ls \o <<u>>
    BY <1>2, <1>7, AppendIsConcat
  <2> HIDE DEF r
  <2>4. LogicalLines(text) = ls \o Filled(Trim(u))
    BY <1>6, <1>10, <2>1, <2>2, <2>3 DEF Filled
  <2> QED BY <2>4 DEF l, ls
<1> QED BY <1>8, <1>9, <1>10

LEMMA ChainFilled ==
  ASSUME NEW ps \in Seq(Texts), NEW v \in Texts
  PROVE  Chain(FinalMap(Ends), ps \o Filled(v)) = Chain(FinalMap(Ends), ps) \o Final(Ends, v)
<1>1. Chain(FinalMap(Ends), ps) \in Seq(Texts) /\ ps \o << >> = ps
  BY EndsAre, FinalMaps, ChainTyped, ConcatEmptySeq
<1>2. CASE v = << >>
  <2>1. Filled(v) = << >> /\ Final(Ends, v) = << >>
    BY <1>2, EndsAre, FinalEmpty DEF Filled
  <2>2. Chain(FinalMap(Ends), ps) \o << >> = Chain(FinalMap(Ends), ps)
    BY <1>1, ConcatEmptySeq
  <2>3. ps \o Filled(v) = ps
    BY <1>1, <2>1
  <2> QED BY <2>1, <2>2, <2>3
<1>3. CASE v # << >>
  <2>1. Filled(v) = <<v>> /\ Append(ps, v) = ps \o <<v>>
    BY <1>3, AppendIsConcat DEF Filled
  <2>2. Chain(FinalMap(Ends), Append(ps, v)) = Chain(FinalMap(Ends), ps) \o Final(Ends, v)
    BY EndsAre, ChainFinalAppend
  <2>3. ps \o Filled(v) = Append(ps, v)
    BY <2>1
  <2> QED BY <2>2, <2>3
<1> QED BY <1>2, <1>3

LEMMA PiecesAt ==
  ASSUME NEW text \in Texts, Taking(AtLine(text)),
         Dashless(Solids(AtLine(text).past) \o Filled(Trim(Strip(AtLine(text).cur))))
  PROVE  Pieces(text) = Before(AtLine(text)) \o Trimmed(AtLine(text).cur)
<1> DEFINE l == AtLine(text)
           v == Trim(Strip(l.cur))
           ls == Solids(l.past) \o Filled(v)
           G == FinalMap(Ends)
<1>1. l.past \in Seq(Texts) /\ l.cur \in Texts
  BY AtLineTyped, LineStatesAre
<1>2. v \in Texts /\ Solids(l.past) \in Seq(Texts)
  BY <1>1, StripTyped, TrimTyped, SolidsIs
<1>3. ls \in Seq(Texts)
  <2>1. Filled(v) \in Seq(Texts)
    BY <1>2, FilledTyped
  <2> HIDE DEF v
  <2> QED BY <1>2, <2>1, ConcatProperties
<1>4. Lines(text) = ls
  <2>1. LogicalLines(text) = ls
    BY LogicalAt
  <2>2. Dashless(ls)
    OBVIOUS
  <2> HIDE DEF ls
  <2> QED BY <1>3, <2>1, <2>2, JoinedSame DEF Lines
<1>5. Chain(G, ls) = Chain(G, Solids(l.past)) \o Final(Ends, v)
  <2> HIDE DEF v, l
  <2> QED BY <1>2, ChainFilled
<1>6. Chain(G, Solids(l.past)) = Before(l)
  <2>1. Maps(Texts, Texts, G) /\ \A t \in Texts : G[t] = Final(Ends, t)
    BY EndsAre, FinalMaps
  <2> HIDE DEF G
  <2>2. G[<< >>] = << >>
    <3>1. << >> \in Texts
      BY EmptySeq DEF Texts
    <3> QED BY <2>1, <3>1, EndsAre, FinalEmpty
  <2>3. ASSUME NEW t \in Texts PROVE G[Strip(t)] = G[t]
    <3>1. Strip(t) \in Texts
      BY StripTyped
    <3> QED BY <2>1, <3>1, EndsAre, FinalStrip
  <2>4. Chain(G, Solids(l.past)) = Chain(G, l.past)
    BY <1>1, <2>1, <2>2, <2>3, ChainSolids
  <2> QED BY <2>4 DEF Before, G
<1>7. Final(Ends, v) = Trimmed(l.cur)
  BY DEF Trimmed
<1> HIDE DEF ls
<1>8. Pieces(text) = Chain(G, ls)
  <2>1. \A i \in 1..Len(ls) : ls[i] \in Texts
    BY <1>3, ElementOfSeq
  <2>2. \A i \in 1..Len(ls) : PiecesOf(ls[i]) = G[ls[i]]
    BY <2>1, PiecesFinal, EndsAre, FinalMaps
  <2>3. [i \in 1..Len(ls) |-> PiecesOf(ls[i])] = [i \in 1..Len(ls) |-> G[ls[i]]]
    BY <2>2
  <2> HIDE DEF G
  <2> QED BY <1>4, <2>3 DEF Pieces, Chain
<1> QED BY <1>5, <1>6, <1>7, <1>8

LEMMA DashlessFilled ==
  ASSUME NEW ps \in Seq(Texts), Dashless(ps), NEW v \in Texts, ps # << >> /\ v # << >> => Head(v) # "dash"
  PROVE  Dashless(ps \o Filled(v))
<1>1. CASE v = << >>
  BY <1>1, ConcatEmptySeq DEF Filled
<1>2. CASE v # << >>
  <2> DEFINE qs == Append(ps, v)
  <2>1. ps \o Filled(v) = qs
    BY <1>2, AppendIsConcat DEF Filled
  <2>2. Len(ps) \in Nat /\ Len(qs) = Len(ps) + 1 /\ qs[Len(ps) + 1] = v /\ \A k \in 1..Len(ps) : qs[k] = ps[k]
    BY AppendProperties, LenProperties
  <2> HIDE DEF qs
  <2>3. ASSUME NEW k \in 2..Len(qs) PROVE Head(qs[k]) # "dash"
    <3>1. CASE k = Len(ps) + 1
      <4>1. ps # << >>
        BY <2>2, <3>1, EmptySeq
      <4> QED BY <1>2, <2>2, <3>1, <4>1
    <3>2. CASE k # Len(ps) + 1
      <4>1. k \in 2..Len(ps) /\ k \in 1..Len(ps)
        BY <2>2, <3>2
      <4> QED BY <2>2, <4>1 DEF Dashless
    <3> QED BY <3>1, <3>2
  <2> QED BY <2>1, <2>3 DEF Dashless
<1> QED BY <1>1, <1>2

LEMMA HeadOfTrim ==
  ASSUME NEW t \in Texts, Trim(Strip(t)) # << >>
  PROVE  Strip(t) # << >> /\ Head(Trim(Strip(t))) = Head(Strip(t))
<1> DEFINE u == Strip(t)
<1>1. u \in Texts /\ (u # << >> => u[1] \notin Blanks)
  BY StripTyped
<1> HIDE DEF u
<1>2. CASE Continues(u)
  <2> DEFINE f == Front(u)
  <2>1. u # << >> /\ f \in Texts /\ u = Append(f, Last(u)) /\ Trim(u) = Strip(f)
    BY <1>1, <1>2, FrontTyped DEF Continues, Trim
  <2>2. Strip(f) # << >>
    BY <2>1 DEF u
  <2> HIDE DEF f
  <2>3. Solid(f) # {} /\ Solid(f) \subseteq 1..Len(f) /\ Len(f) \in Nat
    BY <2>1, <2>2, SolidIs, LenProperties DEF Texts
  <2>4. 1 \in 1..Len(f)
    BY <2>3
  <2>5. u[1] = f[1] /\ Head(u) = Head(f)
    <3>1. f \in Seq(Glyphs) /\ f # << >> /\ Len(f) # 0
      BY <2>1, <2>4 DEF Texts
    <3>2. u[1] = f[1]
      <4> DEFINE z == Append(f, Last(u))
      <4>1. \A i \in 1..Len(f) : z[i] = f[i]
        BY <3>1, AppendProperties
      <4>2. z[1] = f[1] /\ u = z
        BY <2>1, <2>4, <4>1
      <4> QED BY <4>2
    <3>3. Head(u) = u[1] /\ Head(f) = f[1]
      BY <1>1, <2>1, <3>1 DEF Texts
    <3> QED BY <3>2, <3>3
  <2>6. 1 \in Solid(f)
    BY <1>1, <2>1, <2>4, <2>5, SolidIs
  <2>7. PICK p \in Solid(f), q \in Solid(f) : (\A j \in Solid(f) : p <= j /\ j <= q) /\ Strip(f) = SubSeq(f, p, q)
    BY <2>1, <2>6, SolidIs
  <2>8. p = 1 /\ q \in 1..Len(f)
    BY <2>3, <2>6, <2>7
  <2>9. Head(Strip(f)) = f[1]
    BY <2>1, <2>4, <2>7, <2>8, HeadTailOfSubSeq DEF Texts
  <2>10. Head(f) = f[1]
    BY <2>1, <2>4 DEF Texts
  <2> QED BY <2>1, <2>5, <2>9, <2>10 DEF u
<1>3. CASE ~Continues(u)
  <2>1. Trim(u) = u
    BY <1>3 DEF Trim
  <2> QED BY <2>1 DEF u
<1> QED BY <1>2, <1>3

(***************************************************************************)
(* A command whose newlines end its commands.                              *)
(***************************************************************************)
EndsAlone(T, i) ==
  /\ OpenQuote(SubSeq(T, 1, i - 1)) = "none"
  /\ ~Continues(Strip(SubSeq(T, 1, i - 1)))
  /\ ~ \E j \in i + 1 .. Len(T) :
         T[j] = "dash" /\ \A k \in i + 1 .. j - 1 : T[k] \in {"sp", "nl"}
AllEnd(T) == \A i \in 1..Len(T) : T[i] = "nl" => EndsAlone(T, i)
Stopped(T) == [i \in 1..Len(T) |-> IF T[i] = "nl" THEN "semi" ELSE T[i]]

(* A backslash at the end of the last line is one at the end of the text;  *)
(* and the line is the first, or begins with no dash if it has begun.      *)
Backslashed(p, l, e) ==
  /\ Continues(Strip(l.cur)) => Continues(Strip(p))
  /\ e.esc => Continues(Strip(p))
BlankSince(T, i) == \E k \in 1..i : T[k] = "nl" /\ \A j \in k + 1 .. i : T[j] \in {"sp", "nl"}
Undashed(T, i, l) ==
  /\ Dashless(Solids(l.past))
  /\ l.past # << >> => IF Strip(l.cur) = << >> THEN BlankSince(T, i) ELSE Head(Strip(l.cur)) # "dash"

LEMMA StripOfEmpty == Strip(<< >>) = << >> /\ ~Continues(<< >>)
<1>1. << >> \in Texts /\ Len(<< >>) = 0
  BY EmptySeq DEF Texts
<1>2. Solid(<< >>) = {}
  BY <1>1 DEF Solid
<1> QED BY <1>1, <1>2, SolidIs DEF Continues

LEMMA BackslashedAppend ==
  ASSUME NEW p \in Texts, NEW l \in LineStates, NEW e \in CutStates, Backslashed(p, l, e), NEW c \in Glyphs
  PROVE  Backslashed(Append(p, c), Lined(l, c), Reads(Ends, e, c))
<1> DEFINE m == Lined(l, c)
           f == Reads(Ends, e, c)
<1>1. l.cur \in Texts
  BY LineStatesAre
<1>2. f.esc => c = "bs"
  <2>1. CASE Cutting(Ends, e, c)
    <3>1. f = CutOff(e)
      BY <2>1 DEF Reads
    <3> HIDE DEF f
    <3> QED BY <3>1, CutOffIs
  <2>2. CASE ~Cutting(Ends, e, c)
    <3>1. f = Kept(e, c)
      BY <2>2 DEF Reads
    <3> HIDE DEF f
    <3> QED BY <3>1, KeptIs DEF Escaping
  <2> QED BY <2>1, <2>2
<1>3. c = "bs" => c \notin Blanks
  BY DEF Blanks
<1>4. f.esc => Continues(Strip(Append(p, c)))
  BY <1>2, <1>3, StripEnds
<1>5. Continues(Strip(m.cur)) => Continues(Strip(Append(p, c)))
  <2>1. CASE c = "nl"
    <3>1. m.cur = << >>
      BY <2>1, LinedIs
    <3> HIDE DEF m
    <3> QED BY <3>1, StripOfEmpty
  <2>2. CASE c # "nl" /\ c \in Blanks
    <3>1. m.cur = Append(l.cur, c)
      BY <2>2, LinedIs
    <3>2. Strip(m.cur) = Strip(l.cur) /\ Strip(Append(p, c)) = Strip(p)
      BY <1>1, <2>2, <3>1, StripAppendBlank
    <3> HIDE DEF m
    <3> QED BY <3>2 DEF Backslashed
  <2>3. CASE c # "nl" /\ c \notin Blanks
    <3>1. m.cur = Append(l.cur, c)
      BY <2>3, LinedIs
    <3>2. Continues(Strip(Append(l.cur, c))) <=> c = "bs"
      BY <1>1, <2>3, StripEnds
    <3>3. Continues(Strip(Append(p, c))) <=> c = "bs"
      BY <2>3, StripEnds
    <3> HIDE DEF m
    <3> QED BY <3>1, <3>2, <3>3
  <2> QED BY <2>1, <2>2, <2>3
<1> HIDE DEF m, f
<1>6. Backslashed(Append(p, c), m, f)
  BY <1>4, <1>5 DEF Backslashed
<1> QED BY <1>6 DEF m, f

LEMMA UndashedAtNewline ==
  ASSUME NEW T \in Texts, NEW i \in 1..Len(T), T[i] = "nl", NEW l \in LineStates, Undashed(T, i - 1, l)
  PROVE  Undashed(T, i, Lined(l, "nl"))
<1> DEFINE m == Lined(l, "nl")
           u == Strip(l.cur)
<1>1. l.past \in Seq(Texts) /\ l.cur \in Texts /\ u \in Texts /\ Len(T) \in Nat
  BY LineStatesAre, StripTyped, LenProperties DEF Texts
<1>2. m.past = Append(l.past, l.cur) /\ m.cur = << >>
  BY LinedIs
<1>3. Solids(m.past) = Solids(l.past) \o Filled(u) /\ Solids(l.past) \in Seq(Texts)
  <2>1. Solids(Append(l.past, l.cur)) = Solids(l.past) \o One(l.cur)
    BY <1>1, SolidsAppend
  <2>2. Solids(l.past) \in Seq(Texts)
    BY <1>1, SolidsIs
  <2> QED BY <2>1, <2>2, <1>2, OneIs
<1>4. Solids(l.past) # << >> => l.past # << >>
  BY SolidsEmpty
<1>5. Dashless(Solids(l.past) \o Filled(u))
  <2>1. Solids(l.past) # << >> /\ u # << >> => Head(u) # "dash"
    BY <1>4 DEF Undashed
  <2>2. Dashless(Solids(l.past))
    BY DEF Undashed
  <2> HIDE DEF u
  <2> QED BY <1>1, <1>3, <2>1, <2>2, DashlessFilled
<1>6. BlankSince(T, i)
  BY <1>1 DEF BlankSince
<1> HIDE DEF m, u
<1>7. Undashed(T, i, m)
  BY <1>2, <1>3, <1>5, <1>6, StripOfEmpty DEF Undashed
<1> QED BY <1>7 DEF m

LEMMA UndashedInLine ==
  ASSUME NEW T \in Texts, AllEnd(T), NEW i \in 1..Len(T), T[i] # "nl",
         NEW l \in LineStates, Undashed(T, i - 1, l)
  PROVE  Undashed(T, i, Lined(l, T[i]))
<1> DEFINE c == T[i]
           m == Lined(l, c)
<1>1. l.past \in Seq(Texts) /\ l.cur \in Texts /\ Len(T) \in Nat /\ c \in Glyphs
  BY LineStatesAre, LenProperties, ElementOfSeq DEF Texts
<1>2. m.past = l.past /\ m.cur = Append(l.cur, c)
  BY LinedIs
<1> HIDE DEF m
<1>3. ASSUME l.past # << >>
      PROVE  IF Strip(m.cur) = << >> THEN BlankSince(T, i) ELSE Head(Strip(m.cur)) # "dash"
  <2>1. CASE c \in Blanks
    <3>1. Strip(m.cur) = Strip(l.cur)
      BY <1>1, <1>2, <2>1, StripAppendBlank
    <3>2. BlankSince(T, i - 1) => BlankSince(T, i)
      <4>1. ASSUME NEW k \in 1..(i - 1), T[k] = "nl", \A j \in k + 1 .. i - 1 : T[j] \in {"sp", "nl"}
            PROVE  BlankSince(T, i)
        <5>1. k \in 1..i
          BY <1>1
        <5>2. \A j \in k + 1 .. i : T[j] \in {"sp", "nl"}
          <6>1. T[i] \in {"sp", "nl"}
            BY <2>1 DEF Blanks
          <6> QED BY <1>1, <4>1, <6>1
        <5> QED BY <4>1, <5>1, <5>2 DEF BlankSince
      <4> QED BY <4>1 DEF BlankSince
    <3> QED BY <1>3, <3>1, <3>2 DEF Undashed
  <2>2. CASE c \notin Blanks
    <3>1. Strip(m.cur) # << >>
      BY <1>1, <1>2, <2>2, StripEnds
    <3>2. Head(Strip(m.cur)) = IF Strip(l.cur) = << >> THEN c ELSE Head(Strip(l.cur))
      BY <1>1, <1>2, <2>2, StripHead
    <3>3. CASE Strip(l.cur) # << >>
      BY <1>3, <3>1, <3>2, <3>3 DEF Undashed
    <3>4. CASE Strip(l.cur) = << >>
      <4>1. BlankSince(T, i - 1)
        BY <1>3, <3>4 DEF Undashed
      <4>2. PICK k \in 1..(i - 1) : T[k] = "nl" /\ \A j \in k + 1 .. i - 1 : T[j] \in {"sp", "nl"}
        BY <4>1 DEF BlankSince
      <4>3. k \in 1..Len(T) /\ i \in k + 1 .. Len(T)
        BY <1>1
      <4>4. EndsAlone(T, k)
        BY <4>2, <4>3 DEF AllEnd
      <4>5. ~(T[i] = "dash" /\ \A j \in k + 1 .. i - 1 : T[j] \in {"sp", "nl"})
        BY <4>3, <4>4 DEF EndsAlone
      <4>6. T[i] # "dash"
        BY <4>2, <4>5
      <4> QED BY <3>1, <3>2, <3>4, <4>6
    <3> QED BY <3>3, <3>4
  <2> QED BY <2>1, <2>2
<1>4. Undashed(T, i, m)
  BY <1>2, <1>3 DEF Undashed
<1> QED BY <1>4 DEF m

(* So the text and the one with semicolons go on together, character by    *)
(* character.                                                              *)
Follow(T, S, i) ==
  LET p == SubSeq(T, 1, i)
      q == SubSeq(S, 1, i)
      l == AtLine(p)
  IN  /\ EndsAlike(l, End(Ends, q), End(Ends, p))
      /\ Trimmed(q) = Before(l) \o Trimmed(l.cur)
      /\ Backslashed(p, l, End(Ends, p))
      /\ Taking(l)
      /\ Undashed(T, i, l)

LEMMA StoppedIs ==
  ASSUME NEW T \in Texts
  PROVE  /\ Stopped(T) \in Texts /\ Len(Stopped(T)) = Len(T) /\ Len(T) \in Nat
         /\ \A i \in 1..Len(T) : Stopped(T)[i] = (IF T[i] = "nl" THEN "semi" ELSE T[i])
         /\ \A i \in 1..Len(T) : Stopped(T)[i] # "nl"
<1>1. Len(T) \in Nat /\ \A i \in 1..Len(T) : T[i] \in Glyphs
  BY LenProperties, ElementOfSeq DEF Texts
<1>2. \A i \in 1..Len(T) : (IF T[i] = "nl" THEN "semi" ELSE T[i]) \in Glyphs
  BY <1>1 DEF Glyphs
<1>3. Stopped(T) \in Seq(Glyphs) /\ Len(Stopped(T)) = Len(T)
  BY <1>1, <1>2, IsASeq DEF Stopped
<1>4. \A i \in 1..Len(T) : Stopped(T)[i] = (IF T[i] = "nl" THEN "semi" ELSE T[i])
  BY DEF Stopped
<1> QED BY <1>1, <1>3, <1>4 DEF Texts

LEMMA FollowStart ==
  ASSUME NEW T \in Texts, NEW S \in Texts
  PROVE  Follow(T, S, 0)
<1>1. SubSeq(T, 1, 0) = << >> /\ SubSeq(S, 1, 0) = << >>
  BY SubSeqEmpty
<1>2. AtLine(<< >>) = LineStart /\ End(Ends, << >>) = CutStart
  BY AtLineEmpty, EndsAre, EndEmpty
<1>3. LineStart.past = << >> /\ LineStart.cur = << >>
  BY DEF LineStart
<1>4. CutStart.done = << >> /\ CutStart.buf = << >> /\ CutStart.quote = "none" /\ CutStart.esc = FALSE
  BY DEF CutStart
<1>5. Before(LineStart) = << >>
  BY <1>3, ChainEmpty DEF Before
<1>6. << >> \o << >> = << >>
  BY EmptySeq, ConcatEmptySeq
<1>7. End(Ends, LineStart.cur) = CutStart
  BY <1>2, <1>3
<1>8. EndsAlike(LineStart, CutStart, CutStart)
  BY <1>4, <1>5, <1>6, <1>7 DEF EndsAlike
<1>9. Trimmed(<< >>) = Before(LineStart) \o Trimmed(LineStart.cur)
  BY <1>3, <1>5, <1>6, TrimmedEmpty
<1>10. Backslashed(<< >>, LineStart, CutStart)
  BY <1>3, <1>4, StripOfEmpty DEF Backslashed
<1>11. Undashed(T, 0, LineStart)
  <2>1. Dashless(<< >>)
    BY DEF Dashless
  <2> QED BY <1>3, <2>1, SolidsEmpty DEF Undashed
<1> QED BY <1>1, <1>2, <1>8, <1>9, <1>10, <1>11, TakingStart DEF Follow

LEMMA FollowStep ==
  ASSUME NEW T \in Texts, AllEnd(T), NEW i \in 1..Len(T), Follow(T, Stopped(T), i - 1)
  PROVE  Follow(T, Stopped(T), i)
<1> DEFINE S == Stopped(T)
           p == SubSeq(T, 1, i - 1)
           q == SubSeq(S, 1, i - 1)
           l == AtLine(p)
           a == End(Ends, q)
           e == End(Ends, p)
           c == T[i]
           d == S[i]
<1>1. S \in Texts /\ Len(S) = Len(T) /\ d = (IF c = "nl" THEN "semi" ELSE c)
  BY StoppedIs
<1>2. p \in Texts /\ c \in Glyphs /\ SubSeq(T, 1, i) = Append(p, c)
  BY PrefixAppend DEF Texts
<1>3. q \in Texts /\ d \in Glyphs /\ SubSeq(S, 1, i) = Append(q, d)
  <2> HIDE DEF S
  <2>1. S \in Seq(Glyphs) /\ i \in 1..Len(S)
    BY <1>1 DEF Texts
  <2> QED BY <2>1, PrefixAppend DEF Texts
<1>4. l \in LineStates /\ a \in CutStates /\ e \in CutStates
  BY <1>2, <1>3, AtLineTyped, EndsAre, EndTyped
<1>5. /\ EndsAlike(l, a, e) /\ Trimmed(q) = Before(l) \o Trimmed(l.cur)
      /\ Backslashed(p, l, e) /\ Taking(l) /\ Undashed(T, i - 1, l)
  BY DEF Follow
<1>6. /\ AtLine(Append(p, c)) = Lined(l, c)
      /\ End(Ends, Append(p, c)) = Reads(Ends, e, c)
      /\ End(Ends, Append(q, d)) = Reads(Ends, a, d)
  BY <1>2, <1>3, AtLineAppend, EndsAre, EndAppend
<1>7. Backslashed(Append(p, c), Lined(l, c), Reads(Ends, e, c))
  BY <1>2, <1>4, <1>5, BackslashedAppend
<1>8. CASE c = "nl"
  <2>1. i \in 1..Len(T) /\ EndsAlone(T, i)
    BY <1>8 DEF AllEnd
  <2>2. e.quote = "none"
    BY <1>2, <2>1, SplitFinal DEF EndsAlone
  <2>3. ~Continues(Strip(p))
    BY <2>1 DEF EndsAlone
  <2>4. ~e.esc /\ ~Continues(Strip(l.cur))
    BY <1>5, <2>3 DEF Backslashed
  <2>5. a.quote = "none" /\ ~a.esc
    BY <1>5, <2>2, <2>4 DEF EndsAlike
  <2>6. d = "semi"
    BY <1>1, <1>8
  <2>7. EndsAlike(Lined(l, c), Reads(Ends, a, d), Reads(Ends, e, c))
    BY <1>4, <1>5, <1>8, <2>5, <2>6, AlikeAtNewline
  <2>8. Trimmed(Append(q, d)) = Before(Lined(l, c)) \o Trimmed(Lined(l, c).cur)
    BY <1>3, <1>4, <1>5, <1>8, <2>5, <2>6, TrimmedAtNewline
  <2>9. Taking(Lined(l, c))
    BY <1>4, <1>5, <1>8, <2>4, TakingAtNewline
  <2>10. Undashed(T, i, Lined(l, c))
    BY <1>4, <1>5, <1>8, UndashedAtNewline
  <2> HIDE DEF l, a, e, d, q, p
  <2> QED BY <1>2, <1>3, <1>6, <1>7, <2>7, <2>8, <2>9, <2>10 DEF Follow
<1>9. CASE c # "nl"
  <2>1. d = c
    BY <1>1, <1>9
  <2>2. EndsAlike(Lined(l, c), Reads(Ends, a, d), Reads(Ends, e, c))
    BY <1>2, <1>4, <1>5, <1>9, <2>1, AlikeInLine
  <2>3. Trimmed(Append(q, d)) = Before(Lined(l, c)) \o Trimmed(Lined(l, c).cur)
    BY <1>2, <1>3, <1>4, <1>5, <1>9, <2>1, TrimmedInLine
  <2>4. Taking(Lined(l, c))
    BY <1>5, <1>9, TakingInLine
  <2>5. Undashed(T, i, Lined(l, c))
    BY <1>4, <1>5, <1>9, UndashedInLine
  <2> HIDE DEF l, a, e, d, q, p
  <2> QED BY <1>2, <1>3, <1>6, <1>7, <2>2, <2>3, <2>4, <2>5 DEF Follow
<1> QED BY <1>8, <1>9

LEMMA NoLines ==
  ASSUME NEW t \in Texts, \A i \in 1..Len(t) : t[i] # "nl"
  PROVE  AtLine(t).past = << >> /\ AtLine(t).cur = t
<1> DEFINE n == Len(t)
           T == {i \in 0..n : AtLine(SubSeq(t, 1, i)).past = << >> /\ AtLine(SubSeq(t, 1, i)).cur = SubSeq(t, 1, i)}
<1>1. n \in Nat /\ n \in 0..n /\ t \in Seq(Glyphs) /\ SubSeq(t, 1, n) = t
  BY LenProperties, SubSeqFull DEF Texts
<1>2. 0 \in T
  <2> DEFINE p == SubSeq(t, 1, 0)
  <2>1. p = << >>
    BY SubSeqEmpty
  <2>2. AtLine(<< >>).past = << >> /\ AtLine(<< >>).cur = << >>
    BY AtLineEmpty DEF LineStart
  <2>3. 0 \in 0..n
    BY <1>1
  <2> HIDE DEF p
  <2>4. AtLine(p).past = << >> /\ AtLine(p).cur = p
    BY <2>1, <2>2
  <2> QED BY <2>3, <2>4 DEF p
<1>3. ASSUME NEW i \in 1..n, i - 1 \in T PROVE i \in T
  <2> DEFINE p == SubSeq(t, 1, i - 1)
  <2>1. p \in Texts /\ t[i] \in Glyphs /\ SubSeq(t, 1, i) = Append(p, t[i])
    BY <1>1, PrefixAppend DEF Texts
  <2>2. AtLine(Append(p, t[i])) = Lined(AtLine(p), t[i])
    BY <2>1, AtLineAppend
  <2>3. AtLine(p).past = << >> /\ AtLine(p).cur = p
    BY <1>3
  <2> HIDE DEF p
  <2>4. Lined(AtLine(p), t[i]).past = << >> /\ Lined(AtLine(p), t[i]).cur = Append(p, t[i])
    BY <2>3, LinedIs
  <2>5. i \in 0..n
    BY <1>1
  <2> QED BY <2>1, <2>2, <2>4, <2>5
<1>4. \A i \in 0..n : i \in T
  <2> HIDE DEF T
  <2> QED BY <1>1, <1>2, <1>3, UpTo
<1> QED BY <1>1, <1>4

LEMMA StoppedPieces ==
  ASSUME NEW T \in Texts
  PROVE  Pieces(Stopped(T)) = Trimmed(Stopped(T))
<1> DEFINE S == Stopped(T)
           l == AtLine(S)
           v == Trim(Strip(S))
<1>1. S \in Texts /\ \A i \in 1..Len(S) : S[i] # "nl"
  BY StoppedIs
<1> HIDE DEF S
<1>2. l.past = << >> /\ l.cur = S
  BY <1>1, NoLines
<1>3. Taking(l)
  BY <1>2, TakingStart DEF Taking, LineStart
<1>4. v \in Texts
  BY <1>1, StripTyped, TrimTyped
<1>5. Dashless(Solids(l.past) \o Filled(v))
  <2>1. Dashless(<< >>)
    BY DEF Dashless
  <2>2. << >> \in Seq(Texts)
    BY EmptySeq
  <2>3. Dashless(<< >> \o Filled(v))
    BY <1>4, <2>1, <2>2, DashlessFilled
  <2> QED BY <1>2, <2>3, SolidsEmpty
<1>6. Pieces(S) = Before(l) \o Trimmed(l.cur)
  BY <1>1, <1>2, <1>3, <1>5, PiecesAt
<1>7. Before(l) = << >>
  BY <1>2, ChainEmpty DEF Before
<1>8. << >> \o Trimmed(S) = Trimmed(S)
  BY <1>1, TrimmedTyped, ConcatEmptySeq
<1> QED BY <1>2, <1>6, <1>7, <1>8 DEF S

LEMMA NewlinesHold ==
  ASSUME NEW T \in Texts, AllEnd(T)
  PROVE  Pieces(T) = Pieces(Stopped(T))
<1> DEFINE n == Len(T)
           S == Stopped(T)
           I == {i \in 0..n : Follow(T, S, i)}
<1>1. n \in Nat /\ n \in 0..n /\ Len(S) = n /\ S \in Texts
  BY StoppedIs
<1>2. 0 \in I
  BY <1>1, FollowStart
<1>3. ASSUME NEW i \in 1..n, i - 1 \in I PROVE i \in I
  BY <1>1, <1>3, FollowStep
<1>4. \A i \in 0..n : i \in I
  <2> HIDE DEF I
  <2> QED BY <1>1, <1>2, <1>3, UpTo
<1>5. Follow(T, S, n)
  BY <1>1, <1>4
<1>6. SubSeq(T, 1, n) = T /\ SubSeq(S, 1, n) = S
  <2> HIDE DEF S
  <2> QED BY <1>1, SubSeqFull DEF Texts
<1> DEFINE l == AtLine(T)
           v == Trim(Strip(l.cur))
<1> HIDE DEF S, I
<1>7. Trimmed(S) = Before(l) \o Trimmed(l.cur) /\ Taking(l) /\ Undashed(T, n, l)
  BY <1>5, <1>6 DEF Follow
<1>8. l.past \in Seq(Texts) /\ l.cur \in Texts
  BY AtLineTyped, LineStatesAre
<1>9. v \in Texts /\ Solids(l.past) \in Seq(Texts)
  BY <1>8, StripTyped, TrimTyped, SolidsIs
<1>10. Dashless(Solids(l.past) \o Filled(v))
  <2>1. Dashless(Solids(l.past))
    BY <1>7 DEF Undashed
  <2>2. ASSUME Solids(l.past) # << >>, v # << >> PROVE Head(v) # "dash"
    <3>1. Strip(l.cur) # << >> /\ Head(v) = Head(Strip(l.cur))
      BY <1>8, <2>2, HeadOfTrim
    <3>2. l.past # << >>
      BY <2>2, SolidsEmpty
    <3> QED BY <1>7, <3>1, <3>2 DEF Undashed
  <2> HIDE DEF v, l
  <2> QED BY <1>9, <2>1, <2>2, DashlessFilled
<1>11. Pieces(T) = Before(l) \o Trimmed(l.cur)
  BY <1>7, <1>10, PiecesAt
<1> QED BY <1>7, <1>11, StoppedPieces DEF S

LEMMA CommandHolds ==
  ASSUME command \in Texts
  PROVE  CommandsCut
<1>1. PassesAgree /\ LiveInPieces
  BY LinesHold
<1>2. DOMAIN command = 1..Len(command)
  BY LenProperties DEF Texts
<1>3. Semicolons = Stopped(command)
  BY <1>2 DEF Semicolons, Stopped
<1>4. NewlineEndsCommand
  <2>1. SUFFICES ASSUME AllEnd(command) PROVE Pieces(command) = Pieces(Semicolons)
    BY <1>2 DEF NewlineEndsCommand, AllEnd, EndsAlone
  <2> QED BY <1>3, <2>1, NewlinesHold
<1> QED BY <1>1, <1>4 DEF CommandsCut

LEMMA CommandTyped == ShellSpec => [](command \in Seq(Characters))
<1>1. command = << >> => command \in Seq(Characters)
  BY EmptySeq
<1>2. command \in Seq(Characters) /\ [Types]_command => (command \in Seq(Characters))'
  <2>1. ASSUME command \in Seq(Characters), NEW c \in Characters, command' = Append(command, c)
        PROVE  command' \in Seq(Characters)
    BY <2>1, AppendProperties
  <2> QED BY <2>1 DEF Types
<1> QED BY <1>1, <1>2, PTL DEF ShellSpec

(* However long a command is, the passes over it agree on where each of    *)
(* its commands begins and ends.                                           *)
THEOREM CommandsAlwaysCut == ShellSpec => []CommandsCut
<1>1. command \in Seq(Characters) => CommandsCut
  <2>1. Characters \subseteq Glyphs
    BY DEF Glyphs
  <2>2. ASSUME command \in Seq(Characters) PROVE command \in Texts
    <3>1. Len(command) \in Nat /\ \A i \in 1..Len(command) : command[i] \in Glyphs
      BY <2>1, <2>2, LenProperties, ElementOfSeq
    <3>2. command = [i \in 1..Len(command) |-> command[i]]
      BY <2>2
    <3>3. [i \in 1..Len(command) |-> command[i]] \in Seq(Glyphs)
      BY <3>1, IsASeq
    <3> QED BY <3>2, <3>3 DEF Texts
  <2> QED BY <2>2, CommandHolds
<1> QED BY <1>1, CommandTyped, PTL
=============================================================================
