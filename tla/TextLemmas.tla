----------------------------- MODULE TextLemmas -----------------------------
(***************************************************************************)
(* Facts about numbers, sequences and reading a sequence from left to      *)
(* right, which the proofs about command lines and transcripts need.       *)
(***************************************************************************)
EXTENDS Integers, SequencesExt, FiniteSetTheorems, SequenceTheorems, TLAPS

(***************************************************************************)
(* Induction in first-order form: a set of naturals that has 0 and with    *)
(* each number the next one has them all.  Otherwise the intervals up to   *)
(* those it lacks have a minimal one, as inclusion of finite sets is well  *)
(* founded.                                                                *)
(***************************************************************************)
LEMMA Induction ==
  ASSUME NEW T \in SUBSET Nat, 0 \in T, \A n \in T : n + 1 \in T
  PROVE  T = Nat
<1> DEFINE Lacks == Nat \ T
           Below == {1..n : n \in Lacks}
           S == FiniteSubsetsOf(Nat)
           R == StrictSubsetOrdering(Nat)
<1> SUFFICES ASSUME Lacks # {} PROVE FALSE
  OBVIOUS
<1>1. Below \subseteq S /\ Below # {}
  <2>1. \A n \in Lacks : 1..n \subseteq Nat /\ IsFiniteSet(1..n)
    BY FS_Interval
  <2> QED BY <2>1 DEF FiniteSubsetsOf
<1>2. IsWellFoundedOn(R, S)
  BY FS_StrictSubsetOrderingWellFounded
<1>3. \E x \in Below : \A y \in Below : <<y, x>> \notin R
  <2> HIDE DEF Below, S, R
  <2> QED BY <1>1, <1>2, WFMin
<1>4. PICK n \in Lacks : \A m \in Lacks : <<1..m, 1..n>> \notin R
  BY <1>3
<1>5. n - 1 \in Lacks
  BY <1>4
<1>6. 1..(n - 1) \subseteq 1..n /\ n \in 1..n /\ n \notin 1..(n - 1) /\ 1..n \subseteq Nat
  BY <1>4
<1>7. <<1..(n - 1), 1..n>> \in R
  BY <1>6 DEF StrictSubsetOrdering
<1> QED BY <1>4, <1>5, <1>7

(***************************************************************************)
(* Induction on the places of a text, and on texts by their last element.  *)
(***************************************************************************)
LEMMA UpTo ==
  ASSUME NEW n \in Nat, NEW T, 0 \in T, \A i \in 1..n : i - 1 \in T => i \in T
  PROVE  \A i \in 0..n : i \in T
<1> DEFINE U == {i \in Nat : i \in 0..n => i \in T}
<1>1. 0 \in U
  OBVIOUS
<1>2. ASSUME NEW i \in U PROVE i + 1 \in U
  <2>1. SUFFICES ASSUME i + 1 \in 0..n PROVE i + 1 \in T
    OBVIOUS
  <2>2. i \in T /\ i + 1 \in 1..n /\ (i + 1) - 1 = i
    BY <2>1
  <2> QED BY <2>2
<1>3. U = Nat
  <2> HIDE DEF U
  <2>1. U \in SUBSET Nat
    BY DEF U
  <2> QED BY <1>1, <1>2, <2>1, Induction
<1> QED BY <1>3

LEMMA FrontAppend ==
  ASSUME NEW S, NEW s \in Seq(S), s # << >>
  PROVE  LET t == SubSeq(s, 1, Len(s) - 1)
         IN  /\ t \in Seq(S) /\ Len(t) = Len(s) - 1 /\ s[Len(s)] \in S
             /\ s = Append(t, s[Len(s)])
<1> DEFINE t == SubSeq(s, 1, Len(s) - 1)
<1>1. Len(s) \in Nat /\ Len(s) # 0 /\ \A i \in 1..Len(s) : s[i] \in S
  BY EmptySeq, ElementOfSeq
<1>2. t \in Seq(S) /\ Len(t) = Len(s) - 1 /\ \A i \in 1..(Len(s) - 1) : t[i] = s[i]
  <2> DEFINE n == Len(s) - 1
  <2>1. n \in Nat /\ 1 \in Int /\ \A i \in 1..n : s[i] \in S
    BY <1>1
  <2> HIDE DEF n
  <2>2. LET u == SubSeq(s, 1, n)
        IN  /\ u \in Seq(S) /\ Len(u) = IF 1 <= n THEN n - 1 + 1 ELSE 0
            /\ \A i \in 1..(n - 1 + 1) : u[i] = s[1 + i - 1]
    BY <2>1, SubSeqProperties
  <2>3. LET u == SubSeq(s, 1, n)
        IN  u \in Seq(S) /\ Len(u) = n /\ \A i \in 1..n : u[i] = s[i]
    BY <2>1, <2>2
  <2> QED BY <2>3 DEF n
<1>3. s[Len(s)] \in S
  BY <1>1
<1>4. Append(t, s[Len(s)]) = s
  <2> DEFINE u == Append(t, s[Len(s)])
  <2>1. u \in Seq(S) /\ Len(u) = Len(t) + 1 /\ u[Len(t) + 1] = s[Len(s)] /\ \A i \in 1..Len(t) : u[i] = t[i]
    BY <1>2, <1>3, AppendProperties
  <2> HIDE DEF u, t
  <2>2. Len(u) = Len(s) /\ \A i \in 1..Len(s) : u[i] = s[i]
    BY <2>1, <1>1, <1>2
  <2>3. u = s
    BY <2>1, <2>2, SeqEqual
  <2> QED BY <2>3 DEF u
<1> QED BY <1>2, <1>3, <1>4

LEMMA SeqInduction ==
  ASSUME NEW S, NEW T, << >> \in T, \A s \in Seq(S) : s \in T => \A c \in S : Append(s, c) \in T
  PROVE  \A s \in Seq(S) : s \in T
<1> DEFINE U == {n \in Nat : \A s \in Seq(S) : Len(s) = n => s \in T}
<1>1. 0 \in U
  BY EmptySeq
<1>2. ASSUME NEW n \in U PROVE n + 1 \in U
  <2>1. SUFFICES ASSUME NEW s \in Seq(S), Len(s) = n + 1 PROVE s \in T
    OBVIOUS
  <2> DEFINE t == SubSeq(s, 1, Len(s) - 1)
  <2>2. s # << >>
    BY <2>1, EmptySeq
  <2>3. t \in Seq(S) /\ Len(t) = Len(s) - 1 /\ s[Len(s)] \in S /\ s = Append(t, s[Len(s)])
    BY <2>2, FrontAppend
  <2> HIDE DEF t
  <2>4. Len(t) = n
    BY <2>1, <2>3
  <2> QED BY <2>3, <2>4
<1>3. U = Nat
  <2> HIDE DEF U
  <2>1. U \in SUBSET Nat
    BY DEF U
  <2> QED BY <1>1, <1>2, <2>1, Induction
<1>4. ASSUME NEW s \in Seq(S) PROVE s \in T
  <2>1. Len(s) \in U
    <3> HIDE DEF U
    <3> QED BY <1>3, LenProperties
  <2> QED BY <2>1
<1> QED BY <1>4

(* A set of numbers that has bounds has a least and a greatest member.     *)
LEMMA LeastExists ==
  ASSUME NEW n \in Nat, NEW X \in SUBSET (1..n), X # {}
  PROVE  \E i \in X : \A j \in X : i <= j
<1> DEFINE T == {k \in 0..n : (\E j \in X : j <= k) => \E i \in X : \A j \in X : i <= j}
<1>1. 0 \in T
  OBVIOUS
<1>2. ASSUME NEW k \in 1..n, k - 1 \in T PROVE k \in T
  <2>1. SUFFICES ASSUME \E j \in X : j <= k, ~ \E j \in X : j <= k - 1
                 PROVE  \E i \in X : \A j \in X : i <= j
    BY <1>2
  <2>2. k \in X /\ \A j \in X : k <= j
    BY <2>1
  <2> QED BY <2>2
<1>3. n \in T
  <2> HIDE DEF T
  <2>1. \A k \in 0..n : k \in T
    BY <1>1, <1>2, UpTo
  <2> QED BY <2>1
<1>4. \E j \in X : j <= n
  <2>1. PICK j \in X : TRUE
    OBVIOUS
  <2>2. j \in 1..n
    OBVIOUS
  <2> QED BY <2>1, <2>2
<1> QED BY <1>3, <1>4

LEMMA GreatestExists ==
  ASSUME NEW n \in Nat, NEW X \in SUBSET (1..n), X # {}
  PROVE  \E i \in X : \A j \in X : j <= i
<1> DEFINE Y == {n + 1 - i : i \in X}
<1>1. Y \in SUBSET (1..n) /\ Y # {}
  <2>1. \A i \in X : n + 1 - i \in 1..n
    OBVIOUS
  <2>2. PICK i \in X : TRUE
    OBVIOUS
  <2>3. n + 1 - i \in Y
    OBVIOUS
  <2>4. Y \subseteq 1..n
    BY <2>1
  <2> QED BY <2>3, <2>4
<1>2. \E i \in Y : \A j \in Y : i <= j
  <2> HIDE DEF Y
  <2> QED BY <1>1, LeastExists
<1>3. PICK i \in X : \A j \in X : n + 1 - i <= n + 1 - j
  BY <1>2
<1>4. \A j \in X : j <= i
  BY <1>3
<1> QED BY <1>4

(***************************************************************************)
(* Reading a text from left to right: F takes a state and an element.      *)
(***************************************************************************)
Reader(S, X, F) == F \in [S \X X -> S]
Follows(F, a, text, f) ==
  f = [i \in 0..Len(text) |-> IF i = 0 THEN a ELSE F[<<f[i - 1], text[i]>>]]
Read(F, a, text) == (CHOOSE f : Follows(F, a, text, f))[Len(text)]

LEMMA FollowsExist ==
  ASSUME NEW S, NEW a \in S, NEW X, NEW F, Reader(S, X, F), NEW text \in Seq(X)
  PROVE  \E f : Follows(F, a, text, f) /\ f \in [0..Len(text) -> S]
<1> DEFINE T == {n \in 0..Len(text) : \E f \in [0..n -> S] : f[0] = a /\ \A i \in 1..n : f[i] = F[<<f[i - 1], text[i]>>]}
<1>1. Len(text) \in Nat /\ \A i \in 1..Len(text) : text[i] \in X
  BY LenProperties, ElementOfSeq
<1>2. 0 \in T
  <2>1. [i \in 0..0 |-> a] \in [0..0 -> S]
    OBVIOUS
  <2> DEFINE f == [i \in 0..0 |-> a]
  <2>2. f[0] = a /\ \A i \in 1..0 : f[i] = F[<<f[i - 1], text[i]>>]
    OBVIOUS
  <2>3. f \in [0..0 -> S]
    BY <2>1
  <2> HIDE DEF f
  <2>4. \E g \in [0..0 -> S] : g[0] = a /\ \A i \in 1..0 : g[i] = F[<<g[i - 1], text[i]>>]
    BY <2>2, <2>3
  <2> QED BY <2>4, <1>1
<1>3. ASSUME NEW n \in 1..Len(text), n - 1 \in T PROVE n \in T
  <2>1. PICK f \in [0..(n - 1) -> S] : f[0] = a /\ \A i \in 1..(n - 1) : f[i] = F[<<f[i - 1], text[i]>>]
    BY <1>3
  <2> DEFINE v == F[<<f[n - 1], text[n]>>]
             g == [i \in 0..n |-> IF i < n THEN f[i] ELSE v]
  <2>2. f[n - 1] \in S /\ text[n] \in X
    BY <1>1
  <2>3. v \in S
    BY <2>2 DEF Reader
  <2> HIDE DEF v
  <2>4. g \in [0..n -> S]
    <3>1. \A i \in 0..n : i < n => i \in 0..(n - 1)
      BY <1>1
    <3> QED BY <3>1, <2>3
  <2>5. g[0] = a
    BY <2>1
  <2>6. ASSUME NEW i \in 1..n PROVE g[i] = F[<<g[i - 1], text[i]>>]
    <3>1. g[i - 1] = f[i - 1]
      OBVIOUS
    <3>2. CASE i < n
      <4>1. g[i] = f[i] /\ i \in 1..(n - 1)
        BY <3>2
      <4> HIDE DEF g
      <4> QED BY <4>1, <3>1, <2>1
    <3>3. CASE i = n
      <4>1. g[i] = v
        BY <3>3
      <4> HIDE DEF g
      <4> QED BY <4>1, <3>1, <3>3 DEF v
    <3> QED BY <3>2, <3>3
  <2> HIDE DEF g
  <2> QED BY <2>4, <2>5, <2>6
<1>4. Len(text) \in T
  <2> HIDE DEF T
  <2>1. \A i \in 0..Len(text) : i \in T
    BY <1>1, <1>2, <1>3, UpTo
  <2> QED BY <2>1, <1>1
<1>5. PICK f \in [0..Len(text) -> S] : f[0] = a /\ \A i \in 1..Len(text) : f[i] = F[<<f[i - 1], text[i]>>]
  BY <1>4
<1>6. \A i \in 0..Len(text) : f[i] = IF i = 0 THEN a ELSE F[<<f[i - 1], text[i]>>]
  BY <1>5, <1>1
<1>7. f = [i \in 0..Len(text) |-> IF i = 0 THEN a ELSE F[<<f[i - 1], text[i]>>]]
  BY <1>6
<1> QED BY <1>7 DEF Follows

(* There is one way to read a text.                                        *)
Alike(f, g, n) == \A i \in 0..n : f[i] = g[i]
LEMMA FollowsOne ==
  ASSUME NEW n \in Nat, NEW f, NEW g, f[0] = g[0],
         \A i \in 1..n : f[i - 1] = g[i - 1] => f[i] = g[i]
  PROVE  Alike(f, g, n)
<1> DEFINE T == {i \in 0..n : f[i] = g[i]}
<1>1. 0 \in T
  OBVIOUS
<1>2. \A i \in 1..n : i - 1 \in T => i \in T
  OBVIOUS
<1>3. \A i \in 0..n : i \in T
  <2> HIDE DEF T
  <2> QED BY <1>1, <1>2, UpTo
<1> QED BY <1>3 DEF Alike

LEMMA ReadIs ==
  ASSUME NEW S, NEW a \in S, NEW X, NEW F, Reader(S, X, F), NEW text \in Seq(X)
  PROVE  \E f \in [0..Len(text) -> S] :
           /\ f[0] = a /\ \A i \in 1..Len(text) : f[i] = F[<<f[i - 1], text[i]>>]
           /\ Read(F, a, text) = f[Len(text)]
<1> DEFINE f == CHOOSE g : Follows(F, a, text, g)
<1>1. Len(text) \in Nat
  BY LenProperties
<1>2. Follows(F, a, text, f)
  BY FollowsExist
<1>3. PICK h : Follows(F, a, text, h) /\ h \in [0..Len(text) -> S]
  BY FollowsExist
<1> HIDE DEF f
<1>4. f[0] = a /\ \A i \in 1..Len(text) : f[i] = F[<<f[i - 1], text[i]>>]
  BY <1>1, <1>2 DEF Follows
<1>5. h[0] = a /\ \A i \in 1..Len(text) : h[i] = F[<<h[i - 1], text[i]>>]
  BY <1>1, <1>3 DEF Follows
<1>6. \A i \in 0..Len(text) : f[i] = h[i]
  <2>1. Len(text) \in Nat
    BY <1>1
  <2>2. ASSUME NEW i \in 1..Len(text), f[i - 1] = h[i - 1] PROVE f[i] = h[i]
    <3>1. f[i] = F[<<f[i - 1], text[i]>>] /\ h[i] = F[<<h[i - 1], text[i]>>]
      BY <1>4, <1>5
    <3> QED BY <3>1, <2>2
  <2>3. Alike(f, h, Len(text))
    BY <2>1, <2>2, <1>4, <1>5, FollowsOne
  <2> QED BY <2>3 DEF Alike
<1>7. f = [i \in 0..Len(text) |-> f[i]]
  BY <1>2 DEF Follows
<1>8. f \in [0..Len(text) -> S]
  BY <1>3, <1>6, <1>7
<1> QED BY <1>4, <1>8 DEF Read, f

LEMMA ReadEmpty ==
  ASSUME NEW S, NEW a \in S, NEW X, NEW F, Reader(S, X, F)
  PROVE  Read(F, a, << >>) = a
<1>1. << >> \in Seq(X) /\ Len(<< >>) = 0
  BY EmptySeq
<1>2. PICK f \in [0..Len(<< >>) -> S] : f[0] = a /\ Read(F, a, << >>) = f[Len(<< >>)]
  <2> DEFINE t == << >>
  <2>1. t \in Seq(X)
    BY <1>1
  <2> HIDE DEF t
  <2>2. \E f \in [0..Len(t) -> S] : f[0] = a /\ Read(F, a, t) = f[Len(t)]
    BY <2>1, ReadIs
  <2> QED BY <2>2 DEF t
<1> QED BY <1>1, <1>2

LEMMA ReadTyped ==
  ASSUME NEW S, NEW a \in S, NEW X, NEW F, Reader(S, X, F), NEW text \in Seq(X)
  PROVE  Read(F, a, text) \in S
<1>1. Len(text) \in 0..Len(text)
  BY LenProperties
<1> QED BY <1>1, ReadIs

LEMMA ReadAppend ==
  ASSUME NEW S, NEW a \in S, NEW X, NEW F, Reader(S, X, F), NEW text \in Seq(X), NEW c \in X
  PROVE  Read(F, a, Append(text, c)) = F[<<Read(F, a, text), c>>]
<1> DEFINE u == Append(text, c)
           n == Len(text)
<1>1. /\ u \in Seq(X) /\ Len(u) = n + 1 /\ n \in Nat
      /\ u[n + 1] = c /\ \A i \in 1..n : u[i] = text[i]
  BY AppendProperties, LenProperties
<1> HIDE DEF u
<1>2. PICK f \in [0..n -> S] : /\ f[0] = a /\ \A i \in 1..n : f[i] = F[<<f[i - 1], text[i]>>]
                               /\ Read(F, a, text) = f[n]
  BY ReadIs
<1>3. PICK g \in [0..Len(u) -> S] : /\ g[0] = a /\ \A i \in 1..Len(u) : g[i] = F[<<g[i - 1], u[i]>>]
                                    /\ Read(F, a, u) = g[Len(u)]
  BY <1>1, ReadIs
<1>4. \A i \in 0..n : f[i] = g[i]
  <2>1. n \in Nat
    BY <1>1
  <2>2. ASSUME NEW i \in 1..n, f[i - 1] = g[i - 1] PROVE f[i] = g[i]
    <3>1. f[i] = F[<<f[i - 1], text[i]>>] /\ g[i] = F[<<g[i - 1], u[i]>>] /\ u[i] = text[i]
      BY <1>1, <1>2, <1>3
    <3> QED BY <3>1, <2>2
  <2>3. f[0] = g[0]
    BY <1>2, <1>3
  <2>4. Alike(f, g, n)
    BY <2>1, <2>2, <2>3, FollowsOne
  <2> QED BY <2>4 DEF Alike
<1>5. g[n + 1] = F[<<g[n], c>>]
  <2>1. n + 1 \in 1..Len(u) /\ (n + 1) - 1 = n
    BY <1>1
  <2> QED BY <2>1, <1>1, <1>3
<1>6. f[n] = g[n]
  BY <1>4, <1>1
<1> QED BY <1>1, <1>2, <1>3, <1>5, <1>6 DEF u

-----------------------------------------------------------------------------
(***************************************************************************)
(* FlattenSeq is what its equation says: the equation has a solution.      *)
(***************************************************************************)
JoinsUpTo(seqs, n, f) == f = [i \in 1..n |-> IF i = 1 THEN seqs[i] ELSE f[i - 1] \o seqs[i]]

LEMMA JoinsExist ==
  ASSUME NEW seqs
  PROVE  \A n \in Nat : \E f : JoinsUpTo(seqs, n, f)
<1> DEFINE T == {n \in Nat : \E f : JoinsUpTo(seqs, n, f)}
<1>1. 0 \in T
  <2>1. JoinsUpTo(seqs, 0, [i \in 1..0 |-> seqs])
    BY DEF JoinsUpTo
  <2> QED BY <2>1
<1>2. ASSUME NEW n \in T PROVE n + 1 \in T
  <2>1. PICK f : JoinsUpTo(seqs, n, f)
    OBVIOUS
  <2> DEFINE g == [i \in 1..(n + 1) |-> IF i <= n THEN f[i] ELSE IF i = 1 THEN seqs[i] ELSE f[i - 1] \o seqs[i]]
  <2>2. \A i \in 1..n : f[i] = IF i = 1 THEN seqs[i] ELSE f[i - 1] \o seqs[i]
    BY <2>1 DEF JoinsUpTo
  <2>3. ASSUME NEW i \in 1..(n + 1)
        PROVE  g[i] = IF i = 1 THEN seqs[i] ELSE g[i - 1] \o seqs[i]
    <3>1. i # 1 => g[i - 1] = f[i - 1]
      OBVIOUS
    <3>2. CASE i <= n
      <4>1. i \in 1..n /\ g[i] = f[i]
        BY <3>2
      <4> HIDE DEF g
      <4> QED BY <4>1, <3>1, <2>2
    <3>3. CASE i = n + 1 /\ i # 1
      <4>1. ~(i <= n)
        BY <3>3
      <4>2. g[i] = f[i - 1] \o seqs[i]
        BY <4>1, <3>3
      <4> HIDE DEF g
      <4> QED BY <4>2, <3>1, <3>3
    <3>4. CASE i = n + 1 /\ i = 1
      BY <3>4
    <3> QED BY <3>2, <3>3, <3>4
  <2>4. JoinsUpTo(seqs, n + 1, g)
    <3>1. g = [i \in 1..(n + 1) |-> g[i]]
      OBVIOUS
    <3> HIDE DEF g
    <3> QED BY <3>1, <2>3 DEF JoinsUpTo
  <2> QED BY <2>4
<1>3. T = Nat
  <2> HIDE DEF T
  <2>1. T \in SUBSET Nat
    BY DEF T
  <2> QED BY <1>1, <1>2, <2>1, Induction
<1> QED BY <1>3

LEMMA FlattenIs ==
  ASSUME NEW seqs, Len(seqs) \in Nat \ {0}
  PROVE  \E f : JoinsUpTo(seqs, Len(seqs), f) /\ FlattenSeq(seqs) = f[Len(seqs)]
<1> DEFINE f == CHOOSE g : g = [i \in 1..Len(seqs) |-> IF i = 1 THEN seqs[i] ELSE g[i - 1] \o seqs[i]]
<1>1. FlattenSeq(seqs) = f[Len(seqs)]
  BY DEF FlattenSeq
<1>2. \E g : JoinsUpTo(seqs, Len(seqs), g)
  BY JoinsExist
<1>3. JoinsUpTo(seqs, Len(seqs), f)
  BY <1>2 DEF JoinsUpTo
<1> QED BY <1>1, <1>3

LEMMA JoinsTyped ==
  ASSUME NEW S, NEW seqs \in Seq(Seq(S)), NEW f, JoinsUpTo(seqs, Len(seqs), f)
  PROVE  \A i \in 1..Len(seqs) : f[i] \in Seq(S)
<1> DEFINE T == {n \in Nat : n \in 1..Len(seqs) => f[n] \in Seq(S)}
<1>1. \A i \in 1..Len(seqs) : f[i] = IF i = 1 THEN seqs[i] ELSE f[i - 1] \o seqs[i]
  BY DEF JoinsUpTo
<1>2. Len(seqs) \in Nat
  OBVIOUS
<1>3. 0 \in T
  OBVIOUS
<1>4. ASSUME NEW n \in T PROVE n + 1 \in T
  <2>1. SUFFICES ASSUME n + 1 \in 1..Len(seqs) PROVE f[n + 1] \in Seq(S)
    OBVIOUS
  <2>2. seqs[n + 1] \in Seq(S)
    BY <2>1
  <2>3. CASE n = 0
    BY <2>1, <2>2, <2>3, <1>1
  <2>4. CASE n # 0
    <3>1. n \in 1..Len(seqs) /\ n + 1 # 1 /\ (n + 1) - 1 = n
      BY <2>1, <2>4, <1>2
    <3>2. f[n + 1] = f[n] \o seqs[n + 1]
      BY <2>1, <3>1, <1>1
    <3>3. f[n] \in Seq(S)
      BY <3>1
    <3> QED BY <3>2, <3>3, <2>2, ConcatProperties
  <2> QED BY <2>3, <2>4
<1>5. T = Nat
  <2> HIDE DEF T
  <2>1. T \in SUBSET Nat
    BY DEF T
  <2> QED BY <1>3, <1>4, <2>1, Induction
<1>6. ASSUME NEW i \in 1..Len(seqs) PROVE f[i] \in Seq(S)
  <2>1. i \in T
    <3> HIDE DEF T
    <3> QED BY <1>2, <1>5
  <2> QED BY <2>1
<1> QED BY <1>6

(***************************************************************************)
(* Flattening a sequence that is one element longer, and what elements are *)
(* mapped to.                                                              *)
(***************************************************************************)
LEMMA FlattenTyped ==
  ASSUME NEW S, NEW s \in Seq(Seq(S))
  PROVE  FlattenSeq(s) \in Seq(S)
<1>1. Len(s) \in Nat
  BY LenProperties
<1>2. CASE Len(s) = 0
  <2>1. FlattenSeq(s) = s /\ s = << >>
    BY <1>2 DEF FlattenSeq
  <2> QED BY <2>1, EmptySeq
<1>3. CASE Len(s) # 0
  <2>1. PICK g : JoinsUpTo(s, Len(s), g) /\ FlattenSeq(s) = g[Len(s)]
    BY <1>3, <1>1, FlattenIs
  <2>2. Len(s) \in 1..Len(s)
    BY <1>1, <1>3
  <2> QED BY <2>1, <2>2, JoinsTyped
<1> QED BY <1>2, <1>3

LEMMA FlattenEmpty == FlattenSeq(<< >>) = << >>
<1>1. Len(<< >>) = 0
  OBVIOUS
<1> QED BY <1>1 DEF FlattenSeq

LEMMA FlattenAppend ==
  ASSUME NEW S, NEW s \in Seq(Seq(S)), NEW x \in Seq(S)
  PROVE  FlattenSeq(Append(s, x)) = FlattenSeq(s) \o x
<1> DEFINE t == Append(s, x)
           n == Len(s)
<1>1. /\ t \in Seq(Seq(S)) /\ Len(t) = n + 1 /\ n \in Nat
      /\ t[n + 1] = x /\ \A i \in 1..n : t[i] = s[i]
  BY AppendProperties, LenProperties
<1> HIDE DEF t
<1>2. PICK g : JoinsUpTo(t, n + 1, g) /\ FlattenSeq(t) = g[n + 1]
  <2>1. Len(t) \in Nat \ {0}
    BY <1>1
  <2> QED BY <2>1, <1>1, FlattenIs
<1>3. \A i \in 1..(n + 1) : g[i] = IF i = 1 THEN t[i] ELSE g[i - 1] \o t[i]
  BY <1>2 DEF JoinsUpTo
<1>4. CASE n = 0
  <2>1. s = << >>
    BY <1>4, EmptySeq
  <2>2. FlattenSeq(s) = << >>
    BY <2>1, FlattenEmpty
  <2>3. g[1] = x
    BY <1>1, <1>3, <1>4
  <2>4. << >> \o x = x
    BY ConcatEmptySeq
  <2> QED BY <2>2, <2>3, <2>4, <1>2, <1>4 DEF t
<1>5. CASE n # 0
  <2>1. PICK f : JoinsUpTo(s, n, f) /\ FlattenSeq(s) = f[n]
    BY <1>5, <1>1, FlattenIs
  <2>2. \A i \in 1..n : f[i] = IF i = 1 THEN s[i] ELSE f[i - 1] \o s[i]
    BY <2>1 DEF JoinsUpTo
  <2> DEFINE T == {i \in 0..n : i # 0 => f[i] = g[i]}
  <2>3. 0 \in T
    BY <1>1
  <2>4. ASSUME NEW i \in 1..n, i - 1 \in T PROVE i \in T
    <3>1. i \in 1..(n + 1) /\ t[i] = s[i] /\ (i # 1 => f[i - 1] = g[i - 1])
      BY <1>1, <2>4
    <3>2. f[i] = g[i]
      BY <3>1, <2>2, <1>3
    <3> QED BY <3>2
  <2>5. \A i \in 0..n : i \in T
    <3> HIDE DEF T
    <3> QED BY <1>1, <2>3, <2>4, UpTo
  <2>6. f[n] = g[n]
    BY <2>5, <1>1, <1>5
  <2>7. g[n + 1] = g[n] \o x
    <3>1. n + 1 \in 1..(n + 1) /\ n + 1 # 1 /\ (n + 1) - 1 = n
      BY <1>1, <1>5
    <3> QED BY <3>1, <1>1, <1>3
  <2> QED BY <2>1, <2>6, <2>7, <1>2 DEF t
<1> QED BY <1>4, <1>5

Maps(X, S, G) == G \in [X -> Seq(S)]
Chain(G, s) == FlattenSeq([i \in 1..Len(s) |-> G[s[i]]])

LEMMA ChainEmpty ==
  ASSUME NEW G
  PROVE  Chain(G, << >>) = << >>
<1>1. [i \in 1..Len(<< >>) |-> G[<< >>[i]]] = << >>
  OBVIOUS
<1> QED BY <1>1, FlattenEmpty DEF Chain

LEMMA ChainTyped ==
  ASSUME NEW X, NEW S, NEW G, Maps(X, S, G), NEW s \in Seq(X)
  PROVE  /\ [i \in 1..Len(s) |-> G[s[i]]] \in Seq(Seq(S))
         /\ Chain(G, s) \in Seq(S)
<1> DEFINE m == [i \in 1..Len(s) |-> G[s[i]]]
<1>1. Len(s) \in Nat /\ \A i \in 1..Len(s) : s[i] \in X
  BY LenProperties, ElementOfSeq
<1>2. \A i \in 1..Len(s) : G[s[i]] \in Seq(S)
  BY <1>1 DEF Maps
<1>3. m \in Seq(Seq(S))
  BY <1>1, <1>2, IsASeq
<1> HIDE DEF m
<1>4. FlattenSeq(m) \in Seq(S)
  BY <1>3, FlattenTyped
<1> QED BY <1>3, <1>4 DEF Chain, m

LEMMA ChainAppend ==
  ASSUME NEW X, NEW S, NEW G, Maps(X, S, G), NEW s \in Seq(X), NEW x \in X
  PROVE  Chain(G, Append(s, x)) = Chain(G, s) \o G[x]
<1> DEFINE t == Append(s, x)
           n == Len(s)
           ms == [i \in 1..Len(s) |-> G[s[i]]]
           mt == [i \in 1..Len(t) |-> G[t[i]]]
<1>1. /\ t \in Seq(X) /\ Len(t) = n + 1 /\ n \in Nat
      /\ t[n + 1] = x /\ \A i \in 1..n : t[i] = s[i]
  BY AppendProperties, LenProperties
<1> HIDE DEF t
<1>2. ms \in Seq(Seq(S)) /\ mt \in Seq(Seq(S)) /\ G[x] \in Seq(S)
  <2>1. ms \in Seq(Seq(S))
    BY ChainTyped
  <2>2. mt \in Seq(Seq(S))
    <3>1. t \in Seq(X)
      BY <1>1
    <3> QED BY <3>1, ChainTyped
  <2> QED BY <2>1, <2>2 DEF Maps
<1>3. Len(ms) = n /\ Len(mt) = n + 1
  BY <1>1
<1>4. (\A i \in 1..n : ms[i] = G[s[i]]) /\ \A i \in 1..(n + 1) : mt[i] = G[t[i]]
  BY <1>1
<1> HIDE DEF ms, mt
<1>5. mt = Append(ms, G[x])
  <2> DEFINE u == Append(ms, G[x])
  <2>1. u \in Seq(Seq(S)) /\ Len(u) = n + 1 /\ u[n + 1] = G[x] /\ \A i \in 1..n : u[i] = ms[i]
    BY <1>2, <1>3, AppendProperties
  <2> HIDE DEF u
  <2>2. \A i \in 1..(n + 1) : mt[i] = u[i]
    <3>1. ASSUME NEW i \in 1..(n + 1) PROVE mt[i] = u[i]
      <4>1. CASE i = n + 1
        BY <4>1, <1>1, <1>4, <2>1
      <4>2. CASE i # n + 1
        <5>1. i \in 1..n
          BY <4>2, <1>1
        <5>2. t[i] = s[i]
          BY <5>1, <1>1
        <5>3. mt[i] = G[t[i]]
          BY <1>4
        <5>4. ms[i] = G[s[i]] /\ u[i] = ms[i]
          BY <5>1, <1>4, <2>1
        <5> QED BY <5>2, <5>3, <5>4
      <4> QED BY <4>1, <4>2
    <3> QED BY <3>1
  <2>3. mt = u
    BY <2>1, <2>2, <1>2, <1>3, SeqEqual
  <2> QED BY <2>3 DEF u
<1>6. FlattenSeq(mt) = FlattenSeq(ms) \o G[x]
  BY <1>2, <1>5, FlattenAppend
<1> QED BY <1>6 DEF Chain, ms, mt, t
=============================================================================
