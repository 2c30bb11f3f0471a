---------------------------- MODULE VoiceProofs -----------------------------
(***************************************************************************)
(* What holds of a voice call for every queue size, period of the sound    *)
(* device, frame size and number of instances: the audio end               *)
(* (module RelayVoice) and the calls that open and close it                *)
(* (module VoiceCall).                                                     *)
(*                                                                         *)
(* That the sound is heard in order rests on what flattening a queue of    *)
(* chunks does to Append and to Rest, for queues of every length.  The     *)
(* library's induction theorems take an operator; here a set of numbers    *)
(* that holds 0 and, with n, also n + 1 is shown to hold them all, from    *)
(* the least element of what it would leave out.                           *)
(***************************************************************************)
EXTENDS RelayVoice, VoiceCall, SequenceTheorems, FiniteSetTheorems, WellFoundedInduction,
        TLAPS

(***************************************************************************)
(* Induction on numbers.                                                   *)
(***************************************************************************)


LessThan == {p \in Nat \X Nat : p[1] < p[2]}

\* The order as a relation.
LEMMA LessThanIsOrder == OpToRel(<, Nat) = LessThan
  BY DEF OpToRel, LessThan

\* A nonempty set of numbers has a least one.
LEMMA Least == ASSUME NEW T \in SUBSET Nat, T # {} PROVE \E n \in T : \A m \in T : n <= m
  <1>1. IsWellFoundedOn(LessThan, Nat)
    BY LessThanIsOrder, NatLessThanWellFounded
  <1>2. PICK n \in T : \A m \in T : <<m, n>> \notin LessThan
    BY <1>1, WFMin
  <1>3. ASSUME NEW m \in T, m < n PROVE FALSE
    <2>1. <<m, n>> \in LessThan
      BY <1>3 DEF LessThan
    <2>2. QED
      BY <1>2, <2>1
  <1>4. QED
    BY <1>3

\* Induction, about a set.
LEMMA Induction == ASSUME NEW T, 0 \in T, \A n \in Nat : n \in T => n + 1 \in T
                PROVE Nat \subseteq T
  <1>1. SUFFICES ASSUME Nat \ T # {} PROVE FALSE
    OBVIOUS
  <1>2. PICK n \in Nat \ T : \A m \in Nat \ T : n <= m
    BY <1>1, Least
  <1>3. n - 1 \in Nat /\ n - 1 \in T
    BY <1>2
  <1>4. QED
    BY <1>2, <1>3

(***************************************************************************)
(* Flattening.                                                             *)
(***************************************************************************)

\* f holds, for each chunk of q, the chunks up to it one after the other: the
\* function FlattenSeq chooses.
Flattens(f, q) == f = [i \in 1 .. Len(q) |-> IF i = 1 THEN q[i] ELSE f[i - 1] \o q[i]]

\* There is such a function.
LEMMA FlattenExists ==
    ASSUME NEW U, NEW q \in Seq(Seq(U))
    PROVE  \E f \in [1 .. Len(q) -> Seq(U)] : Flattens(f, q)
  <1> DEFINE Begins(n) == \E f \in [1 .. n -> Seq(U)] :
               f = [i \in 1 .. n |-> IF i = 1 THEN q[i] ELSE f[i - 1] \o q[i]]
             T == {n \in Nat : n <= Len(q) => Begins(n)}
  <1>1. Begins(0)
    <2>1. 1 .. 0 = {}
      OBVIOUS
    <2> DEFINE f == [i \in {} |-> <<>>]
    <2>2. f \in [{} -> Seq(U)] /\ f = [i \in {} |-> IF i = 1 THEN q[i] ELSE f[i - 1] \o q[i]]
      OBVIOUS
    <2> HIDE DEF f
    <2>3. QED
      BY <2>1, <2>2
  <1>2. ASSUME NEW n \in Nat, Begins(n), n + 1 <= Len(q) PROVE Begins(n + 1)
    <2>1. PICK f \in [1 .. n -> Seq(U)] :
             f = [i \in 1 .. n |-> IF i = 1 THEN q[i] ELSE f[i - 1] \o q[i]]
      BY <1>2
    <2>2. q[n + 1] \in Seq(U) /\ (n # 0 => f[n] \in Seq(U))
      BY <1>2, ElementOfSeq
    <2> DEFINE last == IF n = 0 THEN q[n + 1] ELSE f[n] \o q[n + 1]
               g == [i \in 1 .. n + 1 |-> IF i <= n THEN f[i] ELSE last]
    <2>3. last \in Seq(U)
      BY <2>2, ConcatProperties
    <2>4. g \in [1 .. n + 1 -> Seq(U)]
      <3> HIDE DEF last
      <3>1. QED
        BY <2>1, <2>3
    <2>5. ASSUME NEW i \in 1 .. n + 1
          PROVE  g[i] = IF i = 1 THEN q[i] ELSE g[i - 1] \o q[i]
      <3>1. CASE i <= n
        <4>1. f[i] = IF i = 1 THEN q[i] ELSE f[i - 1] \o q[i]
          <5>1. i \in 1 .. n
            BY <3>1
          <5>2. QED
            BY <2>1, <5>1
        <4>2. i # 1 => i - 1 \in 1 .. n + 1 /\ i - 1 <= n
          BY <3>1
        <4>3. QED
          BY <3>1, <4>1, <4>2
      <3>2. CASE i = n + 1
        BY <3>2
      <3>3. QED
        BY <3>1, <3>2
    <2> HIDE DEF g
    <2>6. g = [i \in 1 .. n + 1 |-> IF i = 1 THEN q[i] ELSE g[i - 1] \o q[i]]
      BY <2>4, <2>5
    <2>7. QED
      BY <2>4, <2>6
  <1> HIDE DEF Begins
  <1>3. 0 \in T /\ \A n \in Nat : n \in T => n + 1 \in T
    BY <1>1, <1>2, LenProperties
  <1>4. Len(q) \in T /\ Len(q) \in Nat
    BY <1>3, Induction, LenProperties
  <1>5. Begins(Len(q))
    BY <1>4
  <1>6. QED
    BY <1>5, Zenon DEF Begins, Flattens

\* Its value at one place.
LEMMA FlattensAt ==
    ASSUME NEW f, NEW q, Flattens(f, q), NEW i \in 1 .. Len(q)
    PROVE  f[i] = IF i = 1 THEN q[i] ELSE f[i - 1] \o q[i]
  <1> DEFINE F(j) == IF j = 1 THEN q[j] ELSE f[j - 1] \o q[j]
  <1>1. f = [j \in 1 .. Len(q) |-> F(j)]
    BY DEF Flattens
  <1> HIDE DEF F
  <1>2. f[i] = F(i)
    BY <1>1
  <1>3. QED
    BY <1>2 DEF F

\* Two of them agree as far as the chunks do.
LEMMA FlattenUnique ==
    ASSUME NEW U, NEW q \in Seq(Seq(U)), NEW r \in Seq(Seq(U)), Len(q) <= Len(r),
           \A i \in 1 .. Len(q) : q[i] = r[i],
           NEW f, NEW g, Flattens(f, q), Flattens(g, r)
    PROVE  \A i \in 1 .. Len(q) : f[i] = g[i]
  <1> DEFINE T == {n \in Nat : n \in 1 .. Len(q) => f[n] = g[n]}
  <1>1. Len(q) \in Nat /\ Len(r) \in Nat
    BY LenProperties
  <1>f. \A i \in 1 .. Len(q) : f[i] = IF i = 1 THEN q[i] ELSE f[i - 1] \o q[i]
    BY FlattensAt, SMTT(30)
  <1>g. \A i \in 1 .. Len(r) : g[i] = IF i = 1 THEN r[i] ELSE g[i - 1] \o r[i]
    BY FlattensAt, SMTT(30)
  <1>2. ASSUME NEW n \in Nat, n \in T, n + 1 \in 1 .. Len(q) PROVE f[n + 1] = g[n + 1]
    <2>0. n + 1 \in 1 .. Len(q)
      BY <1>2
    <2>1. f[n + 1] = IF n + 1 = 1 THEN q[n + 1] ELSE f[n + 1 - 1] \o q[n + 1]
      BY <1>f, <2>0, SMTT(30)
    <2>2. n + 1 \in 1 .. Len(r)
      BY <1>1, <1>2
    <2>3. g[n + 1] = IF n + 1 = 1 THEN r[n + 1] ELSE g[n + 1 - 1] \o r[n + 1]
      BY <1>g, <2>2, SMTT(30)
    <2>4. n # 0 => n \in 1 .. Len(q)
      BY <1>1, <1>2
    <2>5. QED
      BY <1>2, <2>1, <2>3, <2>4
  <1>3. 0 \in T /\ \A n \in Nat : n \in T => n + 1 \in T
    BY <1>2
  <1>4. Nat \subseteq T
    BY <1>3, Induction
  <1>5. QED
    BY <1>1, <1>4

\* FlattenSeq is the last value of one.
LEMMA FlattenIs ==
    ASSUME NEW U, NEW q \in Seq(Seq(U)), q # <<>>
    PROVE  \E f \in [1 .. Len(q) -> Seq(U)] : Flattens(f, q) /\ FlattenSeq(q) = f[Len(q)]
  <1>1. PICK f \in [1 .. Len(q) -> Seq(U)] : Flattens(f, q)
    BY FlattenExists
  <1> DEFINE g == CHOOSE h : Flattens(h, q)
  <1>2. Flattens(g, q)
    BY <1>1
  <1>3. Len(q) \in Nat \ {0}
    BY LenProperties, EmptySeq
  <1>4. FlattenSeq(q) = g[Len(q)]
    BY <1>3 DEF FlattenSeq, Flattens
  <1> HIDE DEF g
  <1>5. f[Len(q)] = g[Len(q)]
    BY <1>1, <1>2, <1>3, FlattenUnique
  <1>6. QED
    BY <1>1, <1>4, <1>5

\* \o is associative, and Append goes with it.
LEMMA Regroup == ASSUME NEW U
                 PROVE  \A a, b, c \in Seq(U) : (a \o b) \o c = a \o (b \o c)
  <1> TAKE a, b, c \in Seq(U)
  <1>1. QED
    BY ConcatAssociative

LEMMA PushBack == ASSUME NEW S, NEW p \in Seq(S), NEW b \in Seq(S), NEW x \in S
                  PROVE  p \o Append(b, x) = Append(p \o b, x)
  <1>1. <<x>> \in Seq(S) /\ p \o b \in Seq(S)
    BY ConcatProperties
  <1>2. Append(b, x) = b \o <<x>> /\ Append(p \o b, x) = (p \o b) \o <<x>>
    BY <1>1, AppendIsConcat
  <1>3. QED
    BY <1>1, <1>2, Regroup

\* Without chunks there is nothing.
LEMMA FlattenEmpty == FlattenSeq(<<>>) = <<>>
  BY DEF FlattenSeq

\* Flattening sequences of U gives a sequence of U.
LEMMA FlattenTyped ==
    ASSUME NEW U, NEW q \in Seq(Seq(U))
    PROVE  FlattenSeq(q) \in Seq(U)
  <1>1. CASE q = <<>>
    BY <1>1, FlattenEmpty, EmptySeq
  <1>2. CASE q # <<>>
    <2>1. PICK f \in [1 .. Len(q) -> Seq(U)] : FlattenSeq(q) = f[Len(q)]
      BY <1>2, FlattenIs
    <2>2. Len(q) \in 1 .. Len(q)
      BY <1>2, LenProperties, EmptySeq
    <2>3. QED
      BY <2>1, <2>2
  <1>3. QED
    BY <1>1, <1>2

\* A chunk more is its elements more.
LEMMA FlattenAppend ==
    ASSUME NEW U, NEW q \in Seq(Seq(U)), NEW c \in Seq(U)
    PROVE  FlattenSeq(Append(q, c)) = FlattenSeq(q) \o c
  <1> DEFINE r == Append(q, c)
  <1>1. /\ r \in Seq(Seq(U)) /\ r # <<>> /\ Len(r) = Len(q) + 1 /\ r[Len(q) + 1] = c
        /\ \A i \in 1 .. Len(q) : r[i] = q[i]
        /\ Len(q) \in Nat
    BY AppendProperties, LenProperties, EmptySeq
  <1> HIDE DEF r
  <1>2. PICK g : Flattens(g, r) /\ FlattenSeq(r) = g[Len(r)]
    BY <1>1, FlattenIs
  <1>3. g[Len(r)] = IF Len(r) = 1 THEN r[Len(r)] ELSE g[Len(r) - 1] \o r[Len(r)]
    BY <1>1, <1>2, FlattensAt
  <1>4. CASE q = <<>>
    <2>1. Len(r) = 1 /\ FlattenSeq(q) = <<>>
      BY <1>1, <1>4, EmptySeq, FlattenEmpty
    <2>2. <<>> \o c = c
      BY ConcatEmptySeq, Zenon
    <2>3. FlattenSeq(r) = c
      BY <1>1, <1>2, <1>3, <2>1
    <2>4. QED
      BY <2>1, <2>2, <2>3, Zenon DEF r
  <1>5. CASE q # <<>>
    <2>1. Len(q) # 0
      BY <1>5, EmptySeq
    <2>2. PICK f : Flattens(f, q) /\ FlattenSeq(q) = f[Len(q)]
      BY <1>5, FlattenIs
    <2>3. f[Len(q)] = g[Len(q)]
      <3>1. Len(q) <= Len(r) /\ Len(q) \in 1 .. Len(q)
        BY <1>1, <2>1
      <3>2. \A i \in 1 .. Len(q) : f[i] = g[i]
        <4>1. q \in Seq(Seq(U)) /\ r \in Seq(Seq(U)) /\ Len(q) <= Len(r)
              /\ (\A i \in 1 .. Len(q) : q[i] = r[i]) /\ Flattens(f, q) /\ Flattens(g, r)
          BY <1>1, <1>2, <2>2, <3>1
        <4>2. QED
          BY <4>1, FlattenUnique, SMT
      <3>3. QED
        BY <3>1, <3>2
    <2>4. g[Len(r)] = g[Len(q)] \o c
      <3>1. Len(r) # 1 /\ Len(r) - 1 = Len(q) /\ r[Len(r)] = c
        BY <1>1, <2>1
      <3>2. QED
        BY <1>3, <3>1
    <2>5. QED
      BY <1>2, <2>2, <2>3, <2>4, Zenon DEF r
  <1>6. QED
    BY <1>4, <1>5

\* Flattening takes concatenations apart.
LEMMA FlattenConcat ==
    ASSUME NEW U, NEW p \in Seq(Seq(U)), NEW q \in Seq(Seq(U))
    PROVE  FlattenSeq(p \o q) = FlattenSeq(p) \o FlattenSeq(q)
  <1> DEFINE begin(n) == SubSeq(q, 1, n)
             Splits(n) == FlattenSeq(p \o begin(n)) = FlattenSeq(p) \o FlattenSeq(begin(n))
             T == {n \in Nat : n <= Len(q) => Splits(n)}
  <1>1. Len(q) \in Nat /\ FlattenSeq(p) \in Seq(U)
    BY LenProperties, FlattenTyped
  <1>2. FlattenSeq(p \o begin(0)) = FlattenSeq(p) \o FlattenSeq(begin(0))
    <2>1. begin(0) = <<>>
      BY SubSeqEmpty
    <2>2. p \o <<>> = p
      BY ConcatEmptySeq, Zenon
    <2>3. FlattenSeq(p) \o <<>> = FlattenSeq(p)
      BY <1>1, ConcatEmptySeq, Zenon
    <2> HIDE DEF begin
    <2>4. QED
      BY <2>1, <2>2, <2>3, FlattenEmpty, Zenon
  <1>3. ASSUME NEW n \in Nat, n + 1 <= Len(q),
               FlattenSeq(p \o begin(n)) = FlattenSeq(p) \o FlattenSeq(begin(n))
        PROVE  FlattenSeq(p \o begin(n + 1)) = FlattenSeq(p) \o FlattenSeq(begin(n + 1))
    <2>0. n + 1 \in 1 .. Len(q) /\ 1 \in 1 .. Len(q)
      BY <1>1, <1>3
    <2>a. \A i \in 1 .. n : q[i] \in Seq(U)
      <3> SUFFICES ASSUME NEW i \in 1 .. n PROVE q[i] \in Seq(U)
        OBVIOUS
      <3>1. i \in 1 .. Len(q)
        BY <1>1, <1>3
      <3>2. QED
        BY <3>1, ElementOfSeq
    <2>b. q[n + 1] \in Seq(U)
      BY <2>0, ElementOfSeq
    <2>c. begin(n) \in Seq(Seq(U))
      BY <2>a, SubSeqProperties
    <2>1. begin(n) \in Seq(Seq(U)) /\ q[n + 1] \in Seq(U)
      BY <2>b, <2>c
    <2>2. begin(n + 1) = Append(begin(n), q[n + 1])
      <3>1. n + 1 \in 1 .. Len(q)
        BY <2>0
      <3>2. begin(n + 1) = SubSeq(q, 1, n + 1 - 1) \o <<q[n + 1]>>
        BY <2>0, <3>1, SubSeqRecursiveSecond
      <3>3. n + 1 - 1 = n
        BY <1>3
      <3>4. QED
        BY <2>1, <3>2, <3>3, AppendIsConcat
    <2>3. FlattenSeq(p \o begin(n)) = FlattenSeq(p) \o FlattenSeq(begin(n))
      BY <1>3
    <2> HIDE DEF begin
    <2>4. p \o Append(begin(n), q[n + 1]) = Append(p \o begin(n), q[n + 1])
      <3> DEFINE S == Seq(U)
      <3>1. p \in Seq(S) /\ begin(n) \in Seq(S) /\ q[n + 1] \in S
        BY <2>1
      <3> HIDE DEF S
      <3>2. QED
        BY <3>1, PushBack, SMTT(20)
    <2>5. p \o begin(n) \in Seq(Seq(U)) /\ FlattenSeq(begin(n)) \in Seq(U)
      BY <2>1, ConcatProperties, FlattenTyped
    <2>6. FlattenSeq(p \o begin(n + 1)) = (FlattenSeq(p) \o FlattenSeq(begin(n))) \o q[n + 1]
      <3>1. FlattenSeq(Append(p \o begin(n), q[n + 1])) = FlattenSeq(p \o begin(n)) \o q[n + 1]
        BY <2>1, <2>5, FlattenAppend, Zenon
      <3>2. QED
        BY <2>2, <2>3, <2>4, <3>1, Zenon
    <2>7. FlattenSeq(begin(n + 1)) = FlattenSeq(begin(n)) \o q[n + 1]
      BY <2>1, <2>2, FlattenAppend
    <2>8. (FlattenSeq(p) \o FlattenSeq(begin(n))) \o q[n + 1]
            = FlattenSeq(p) \o (FlattenSeq(begin(n)) \o q[n + 1])
      <3> DEFINE a == FlattenSeq(p)
                 b == FlattenSeq(begin(n))
                 c == q[n + 1]
      <3>1. a \in Seq(U) /\ b \in Seq(U) /\ c \in Seq(U)
        BY <1>1, <2>1, <2>5
      <3> HIDE DEF a, b, c
      <3>2. (a \o b) \o c = a \o (b \o c)
        BY <3>1, Regroup, SMTT(20)
      <3>3. QED
        BY <3>2 DEF a, b, c
    <2>9. QED
      BY <2>6, <2>7, <2>8
  <1>5. begin(Len(q)) = q
    BY SubSeqFull
  <1> HIDE DEF begin
  <1>t. 0 \in T /\ \A n \in Nat : n \in T => n + 1 \in T
    <2>1. Splits(0) /\ \A n \in Nat : n + 1 <= Len(q) /\ Splits(n) => Splits(n + 1)
      BY <1>2, <1>3
    <2> HIDE DEF Splits
    <2>2. QED
      BY <1>1, <2>1
  <1>4. Nat \subseteq T
    <2> HIDE DEF T
    <2>1. QED
      BY <1>t, Induction
  <1>6. QED
    <2> HIDE DEF Splits
    <2>1. Splits(Len(q))
      BY <1>1, <1>4
    <2>2. FlattenSeq(p \o begin(Len(q))) = FlattenSeq(p) \o FlattenSeq(begin(Len(q)))
      BY <2>1 DEF Splits
    <2>3. QED
      BY <1>5, <2>2, Zenon
\* One chunk is its elements.
LEMMA FlattenOne ==
    ASSUME NEW U, NEW x \in Seq(U)
    PROVE  FlattenSeq(<<x>>) = x
  <1>1. <<>> \in Seq(Seq(U)) /\ Append(<<>>, x) = <<x>>
    BY EmptySeq
  <1>2. FlattenSeq(Append(<<>>, x)) = FlattenSeq(<<>>) \o x
    BY <1>1, FlattenAppend, Zenon
  <1>3. <<>> \o x = x
    BY ConcatEmptySeq, Zenon
  <1>4. QED
    BY <1>1, <1>2, <1>3, FlattenEmpty, Zenon

\* What is left of a sequence once n elements are taken.
LEMMA Dropped ==
    ASSUME NEW U, NEW s \in Seq(U), NEW n \in 0 .. Len(s)
    PROVE  /\ SubSeq(s, n + 1, Len(s)) \in Seq(U)
           /\ Len(SubSeq(s, n + 1, Len(s))) = Len(s) - n
           /\ \A i \in 1 .. Len(s) - n : SubSeq(s, n + 1, Len(s))[i] = s[n + i]
  <1>1. Len(s) \in Nat /\ n \in Nat /\ n <= Len(s) /\ n + 1 \in Int /\ Len(s) \in Int
    BY LenProperties
  <1>2. \A i \in n + 1 .. Len(s) : s[i] \in U
    BY <1>1, ElementOfSeq
  <1>3. PICK k \in Int : k = n + 1
    BY <1>1
  <1>4. /\ SubSeq(s, k, Len(s)) \in Seq(U)
        /\ Len(SubSeq(s, k, Len(s))) = IF k <= Len(s) THEN Len(s) - k + 1 ELSE 0
        /\ \A i \in 1 .. Len(s) - k + 1 : SubSeq(s, k, Len(s))[i] = s[k + i - 1]
    BY <1>1, <1>2, <1>3, SubSeqProperties, SMTT(20)
  <1>5. Len(SubSeq(s, k, Len(s))) = Len(s) - n
    BY <1>1, <1>3, <1>4
  <1>6. ASSUME NEW i \in 1 .. Len(s) - n PROVE SubSeq(s, k, Len(s))[i] = s[n + i]
    <2>1. i \in 1 .. Len(s) - k + 1 /\ k + i - 1 = n + i
      BY <1>1, <1>3
    <2>2. QED
      BY <1>4, <2>1
  <1>7. QED
    BY <1>3, <1>4, <1>5, <1>6

LeftFirst(a, x, b)  == (a \o x) \o b
RightFirst(a, x, b) == a \o (x \o b)


\* The two ways to join three sequences.
LEMMA Rejoin ==
    ASSUME NEW U, NEW a \in Seq(U), NEW x \in Seq(U), NEW b \in Seq(U)
    PROVE  LeftFirst(a, x, b) = RightFirst(a, x, b)
  BY ConcatAssociative DEF LeftFirst, RightFirst

\* Taking a whole sequence from the front and some of what follows.
LEMMA DropLeft ==
    ASSUME NEW U, NEW a \in Seq(U), NEW t \in Seq(U), NEW m \in 0 .. Len(t)
    PROVE  SubSeq(a \o t, Len(a) + m + 1, Len(a \o t)) = SubSeq(t, m + 1, Len(t))
  <1>1. Len(a) \in Nat /\ Len(t) \in Nat /\ m \in Nat /\ m <= Len(t)
    BY LenProperties
  <1>2. /\ a \o t \in Seq(U) /\ Len(a \o t) = Len(a) + Len(t)
        /\ \A i \in 1 .. Len(a) + Len(t) : (a \o t)[i] = IF i <= Len(a) THEN a[i] ELSE t[i - Len(a)]
    BY ConcatProperties, Zenon
  <1>3. PICK s \in Seq(U) : s = a \o t
    BY <1>2
  <1>4. PICK n \in 0 .. Len(s) : n = Len(a) + m
    BY <1>1, <1>2, <1>3
  <1>5. /\ SubSeq(s, n + 1, Len(s)) \in Seq(U)
        /\ Len(SubSeq(s, n + 1, Len(s))) = Len(s) - n
        /\ \A i \in 1 .. Len(s) - n : SubSeq(s, n + 1, Len(s))[i] = s[n + i]
    BY Dropped, Zenon
  <1>6. /\ SubSeq(t, m + 1, Len(t)) \in Seq(U)
        /\ Len(SubSeq(t, m + 1, Len(t))) = Len(t) - m
        /\ \A i \in 1 .. Len(t) - m : SubSeq(t, m + 1, Len(t))[i] = t[m + i]
    BY Dropped, Zenon
  <1>7. Len(s) - n = Len(t) - m
    BY <1>1, <1>2, <1>3, <1>4
  <1>8. ASSUME NEW i \in 1 .. Len(t) - m PROVE s[n + i] = t[m + i]
    <2>1. n + i \in 1 .. Len(a) + Len(t) /\ ~(n + i <= Len(a)) /\ n + i - Len(a) = m + i
      BY <1>1, <1>4
    <2>2. QED
      BY <1>2, <1>3, <2>1
  <1>9. \A i \in 1 .. Len(t) - m : SubSeq(s, n + 1, Len(s))[i] = SubSeq(t, m + 1, Len(t))[i]
    BY <1>5, <1>6, <1>7, <1>8, Zenon
  <1>10. SubSeq(s, n + 1, Len(s)) = SubSeq(t, m + 1, Len(t))
    BY <1>5, <1>6, <1>7, <1>9, SeqEqual, Zenon
  <1>11. QED
    BY <1>3, <1>4, <1>10, Zenon

\* Taking some of a sequence leaves what follows it alone.
LEMMA DropRight ==
    ASSUME NEW U, NEW x \in Seq(U), NEW b \in Seq(U), NEW m \in 0 .. Len(x)
    PROVE  SubSeq(x \o b, m + 1, Len(x \o b)) = SubSeq(x, m + 1, Len(x)) \o b
  <1>1. Len(x) \in Nat /\ Len(b) \in Nat /\ m \in Nat /\ m <= Len(x)
    BY LenProperties
  <1>2. /\ x \o b \in Seq(U) /\ Len(x \o b) = Len(x) + Len(b)
        /\ \A i \in 1 .. Len(x) + Len(b) : (x \o b)[i] = IF i <= Len(x) THEN x[i] ELSE b[i - Len(x)]
    BY ConcatProperties, Zenon
  <1>3. PICK s \in Seq(U) : s = x \o b
    BY <1>2
  <1>4. /\ SubSeq(s, m + 1, Len(s)) \in Seq(U)
        /\ Len(SubSeq(s, m + 1, Len(s))) = Len(s) - m
        /\ \A i \in 1 .. Len(s) - m : SubSeq(s, m + 1, Len(s))[i] = s[m + i]
    <2>1. m \in 0 .. Len(s)
      BY <1>1, <1>2, <1>3
    <2>2. QED
      BY <2>1, Dropped, Zenon
  <1>5. PICK cut \in Seq(U) : /\ cut = SubSeq(x, m + 1, Len(x))
                              /\ Len(cut) = Len(x) - m
                              /\ \A i \in 1 .. Len(x) - m : cut[i] = x[m + i]
    <2> DEFINE cut == SubSeq(x, m + 1, Len(x))
    <2>1. /\ cut \in Seq(U) /\ Len(cut) = Len(x) - m
          /\ \A i \in 1 .. Len(x) - m : cut[i] = x[m + i]
      BY Dropped, Zenon
    <2> HIDE DEF cut
    <2>2. QED
      BY <2>1 DEF cut
  <1>6. /\ cut \o b \in Seq(U) /\ Len(cut \o b) = Len(cut) + Len(b)
        /\ \A i \in 1 .. Len(cut) + Len(b) :
              (cut \o b)[i] = IF i <= Len(cut) THEN cut[i] ELSE b[i - Len(cut)]
    BY ConcatProperties, Zenon
  <1>a. Len(cut) = Len(x) - m
    BY <1>5
  <1>b. Len(s) = Len(x) + Len(b)
    BY <1>2, <1>3
  <1>7. Len(s) - m = Len(cut) + Len(b)
    BY <1>1, <1>a, <1>b
  <1>8. ASSUME NEW i \in 1 .. Len(cut) + Len(b) PROVE s[m + i] = (cut \o b)[i]
    <2>1. CASE i <= Len(cut)
      <3>1. i \in 1 .. Len(x) - m /\ m + i \in 1 .. Len(x) + Len(b) /\ m + i <= Len(x)
        BY <1>1, <1>a, <2>1
      <3>2. (x \o b)[m + i] = x[m + i]
        BY <1>2, <3>1, Zenon
      <3>3. (cut \o b)[i] = x[m + i]
        BY <1>5, <1>6, <2>1, <3>1, Zenon
      <3>4. QED
        BY <1>3, <3>2, <3>3, Zenon
    <2>2. CASE ~(i <= Len(cut))
      <3>1. m + i \in 1 .. Len(x) + Len(b) /\ ~(m + i <= Len(x)) /\ m + i - Len(x) = i - Len(cut)
        BY <1>1, <1>a, <2>2
      <3>2. (x \o b)[m + i] = b[m + i - Len(x)]
        <4>1. (x \o b)[m + i] = IF m + i <= Len(x) THEN x[m + i] ELSE b[m + i - Len(x)]
          BY <1>2, <3>1, SMTT(20)
        <4>2. QED
          BY <3>1, <4>1, SMTT(20)
      <3>3. (cut \o b)[i] = b[i - Len(cut)]
        <4>1. (cut \o b)[i] = IF i <= Len(cut) THEN cut[i] ELSE b[i - Len(cut)]
          BY <1>6, Zenon
        <4>2. QED
          BY <2>2, <4>1, Zenon
      <3>4. QED
        BY <1>3, <3>1, <3>2, <3>3, Zenon
    <2>3. QED
      BY <2>1, <2>2, Zenon
  <1>9. \A i \in 1 .. Len(cut) + Len(b) : SubSeq(s, m + 1, Len(s))[i] = (cut \o b)[i]
    BY <1>4, <1>7, <1>8, Zenon
  <1>10. SubSeq(s, m + 1, Len(s)) = cut \o b
    BY <1>4, <1>6, <1>7, <1>9, SeqEqual, Zenon
  <1>11. QED
    BY <1>3, <1>5, <1>10, Zenon

\* What is left of the chunks is what comes after the units taken.
LEMMA RestFlattens ==
    ASSUME NEW U, NEW q \in Seq(Seq(U)), NEW n \in 0 .. Len(FlattenSeq(q))
    PROVE  /\ Rest(q, n) \in Seq(Seq(U))
           /\ Len(Rest(q, n)) <= Len(q)
           /\ FlattenSeq(Rest(q, n)) = SubSeq(FlattenSeq(q), n + 1, Len(FlattenSeq(q)))
  <1> DEFINE flat == FlattenSeq(q)
             upTo(k) == Len(FlattenSeq(SubSeq(q, 1, k)))
             IsFront(k) == upTo(k - 1) <= n /\ n < upTo(k)
             front == CHOOSE k \in 1 .. Len(q) : IsFront(k)
             cut == SubSeq(q[front], n - upTo(front - 1) + 1, Len(q[front]))
             back == SubSeq(q, front + 1, Len(q))
  <1>1. Len(q) \in Nat /\ flat \in Seq(U) /\ Len(flat) \in Nat /\ n \in Nat /\ n <= Len(flat)
    BY FlattenTyped, LenProperties
  <1>2. Rest(q, n) = IF n = Len(flat) THEN <<>> ELSE <<cut>> \o back
    BY DEF Rest
  <1>3. CASE n = Len(flat)
    <2>1. Rest(q, n) = <<>> /\ Len(<<>>) = 0
      BY <1>2, <1>3
    <2>2. SubSeq(flat, n + 1, Len(flat)) = <<>>
      BY <1>1, <1>3, SubSeqEmpty
    <2>3. <<>> \in Seq(Seq(U))
      BY EmptySeq
    <2>4. QED
      <3>1. FlattenSeq(Rest(q, n)) = SubSeq(flat, n + 1, Len(flat))
        BY <2>1, <2>2, FlattenEmpty, Zenon
      <3>2. QED
        BY <1>1, <2>1, <2>3, <3>1
  <1>4. CASE n # Len(flat)
    <2>0. \A k \in 0 .. Len(q) : SubSeq(q, 1, k) \in Seq(Seq(U)) /\ upTo(k) \in Nat
      <3> SUFFICES ASSUME NEW k \in 0 .. Len(q)
                   PROVE  SubSeq(q, 1, k) \in Seq(Seq(U)) /\ upTo(k) \in Nat
        OBVIOUS
      <3>1. \A i \in 1 .. k : q[i] \in Seq(U)
        <4> SUFFICES ASSUME NEW i \in 1 .. k PROVE q[i] \in Seq(U)
          OBVIOUS
        <4>1. i \in 1 .. Len(q)
          BY <1>1
        <4>2. QED
          BY <4>1, ElementOfSeq
      <3>2. SubSeq(q, 1, k) \in Seq(Seq(U))
        BY <1>1, <3>1, SubSeqProperties
      <3>3. QED
        BY <3>2, FlattenTyped, LenProperties
    <2>1. upTo(0) = 0 /\ upTo(Len(q)) = Len(flat)
      <3>1. SubSeq(q, 1, 0) = <<>> /\ Len(<<>>) = 0
        BY SubSeqEmpty
      <3>2. SubSeq(q, 1, Len(q)) = q
        BY SubSeqFull
      <3>3. QED
        BY <3>1, <3>2, FlattenEmpty, Zenon
    <2>2. \E k \in 1 .. Len(q) : IsFront(k)
      <3> DEFINE T == {k \in 0 .. Len(q) : n < upTo(k)}
      <3> HIDE DEF upTo, flat
      <3>1. Len(q) \in T /\ T \in SUBSET Nat
        BY <1>1, <1>4, <2>1
      <3>2. PICK k \in T : \A m \in T : k <= m
        BY <3>1, Least
      <3>3. k # 0 /\ k \in 1 .. Len(q)
        BY <1>1, <2>1, <3>2
      <3>4. k - 1 \in 0 .. Len(q) /\ k - 1 \notin T
        BY <1>1, <3>2, <3>3
      <3>5. upTo(k - 1) <= n
        <4>1. upTo(k - 1) \in Nat
          BY <2>0, <3>4
        <4>2. ~(n < upTo(k - 1))
          BY <3>4
        <4>3. QED
          BY <1>1, <4>1, <4>2
      <3>6. QED
        BY <3>2, <3>3, <3>5
    <2>3. front \in 1 .. Len(q) /\ IsFront(front)
      <3> HIDE DEF IsFront
      <3>1. QED
        BY <2>2
    <2>4. PICK f \in 1 .. Len(q) : f = front /\ IsFront(f)
      <3> HIDE DEF IsFront, front
      <3>1. QED
        BY <2>3
    <2> DEFINE a == SubSeq(q, 1, f - 1)
               b == SubSeq(q, f + 1, Len(q))
               x == q[f]
               m == n - Len(FlattenSeq(a))
               fa == FlattenSeq(a)
               fb == FlattenSeq(b)
               tail == SubSeq(x, m + 1, Len(x))
    <2>5. /\ a \in Seq(Seq(U)) /\ b \in Seq(Seq(U)) /\ x \in Seq(U)
          /\ Len(b) = Len(q) - f
      <3>1. \A i \in f + 1 .. Len(q) : q[i] \in Seq(U)
        BY <1>1, ElementOfSeq
      <3>2. f + 1 \in Int /\ Len(q) \in Int
        BY <1>1
      <3>3. b \in Seq(Seq(U))
            /\ Len(b) = IF f + 1 <= Len(q) THEN Len(q) - (f + 1) + 1 ELSE 0
        BY <3>1, <3>2, SubSeqProperties, SMTT(20)
      <3>4. f - 1 \in 0 .. Len(q)
        BY <1>1
      <3>5. a \in Seq(Seq(U))
        BY <2>0, <3>4
      <3>6. x \in Seq(U)
        BY ElementOfSeq
      <3> HIDE DEF b
      <3>7. Len(b) = Len(q) - f
        BY <1>1, <3>3
      <3>8. QED
        BY <3>3, <3>5, <3>6, <3>7
    <2>6. SubSeq(q, 1, f) = Append(a, x)
      <3>1. 1 \in 1 .. Len(q) /\ f \in 1 .. Len(q)
        BY <1>1
      <3>2. SubSeq(q, 1, f) = a \o <<x>>
        BY <3>1, SubSeqRecursiveSecond
      <3>3. QED
        BY <2>5, <3>2, AppendIsConcat
    <2>7. q = Append(a, x) \o b
      <3>1. 1 \in 1 .. Len(q) + 1 /\ f \in 1 - 1 .. Len(q) /\ Len(q) \in f .. Len(q)
        BY <1>1
      <3>2. SubSeq(q, 1, f) \o b = SubSeq(q, 1, Len(q))
        BY <3>1, ConcatAdjacentSubSeq
      <3>3. SubSeq(q, 1, Len(q)) = q
        BY SubSeqFull
      <3>4. QED
        BY <2>6, <3>2, <3>3, Zenon
    <2>8. FlattenSeq(Append(a, x)) = fa \o x /\ flat = (fa \o x) \o fb
      <3>1. FlattenSeq(Append(a, x)) = fa \o x
        BY <2>5, FlattenAppend, Zenon
      <3>2. Append(a, x) \in Seq(Seq(U))
        BY <2>5, AppendProperties, Zenon
      <3>3. FlattenSeq(Append(a, x) \o b) = FlattenSeq(Append(a, x)) \o fb
        BY <2>5, <3>2, FlattenConcat, Zenon
      <3>4. QED
        BY <2>7, <3>1, <3>3, Zenon
    <2>9. fa \in Seq(U) /\ fb \in Seq(U)
      BY <2>5, FlattenTyped, Zenon
    <2>10. m \in 0 .. Len(x) /\ n = Len(fa) + m
      <3>1. upTo(f - 1) = Len(fa) /\ upTo(f) = Len(fa \o x)
        BY <2>6, <2>8, Zenon
      <3>2. Len(fa) <= n /\ n < Len(fa \o x)
        BY <2>4, <3>1, Zenon
      <3> HIDE DEF fa, x
      <3>3. Len(fa \o x) = Len(fa) + Len(x) /\ Len(fa) \in Nat /\ Len(x) \in Nat
        BY <2>5, <2>9, ConcatProperties, LenProperties
      <3>4. QED
        BY <1>1, <3>2, <3>3 DEF fa
    <2>11. Rest(q, n) = <<tail>> \o b
      <3>1. cut = tail
        BY <2>4, Zenon
      <3>2. back = b
        BY <2>4, Zenon
      <3>3. Rest(q, n) = <<cut>> \o back
        BY <1>2, <1>4, Zenon
      <3>4. QED
        BY <3>1, <3>2, <3>3, Zenon
    <2>12. tail \in Seq(U)
      <3> HIDE DEF m
      <3>1. Len(x) \in Nat
        BY <2>5, LenProperties
      <3>2. \A i \in m + 1 .. Len(x) : x[i] \in U
        <4> SUFFICES ASSUME NEW i \in m + 1 .. Len(x) PROVE x[i] \in U
          OBVIOUS
        <4>1. i \in 1 .. Len(x)
          BY <2>10, <3>1
        <4>2. QED
          BY <2>5, <4>1, ElementOfSeq
      <3>3. m + 1 \in Int /\ Len(x) \in Int
        BY <2>10, <3>1
      <3>4. QED
        BY <3>2, <3>3, SubSeqProperties, SMTT(20)
    <2>13. FlattenSeq(<<tail>> \o b) = tail \o fb
      <3>1. <<tail>> \in Seq(Seq(U))
        <4> HIDE DEF tail
        <4>1. QED
          BY <2>12
      <3>2. FlattenSeq(<<tail>>) = tail
        BY <2>12, FlattenOne, Zenon
      <3>3. FlattenSeq(<<tail>> \o b) = FlattenSeq(<<tail>>) \o fb
        BY <2>5, <3>1, FlattenConcat, Zenon
      <3>4. QED
        BY <3>2, <3>3, Zenon
    <2>14. SubSeq(flat, n + 1, Len(flat)) = tail \o fb
      <3> HIDE DEF fa, fb, x, m, flat
      <3>1. flat = fa \o (x \o fb)
        <4>1. fa \in Seq(U) /\ x \in Seq(U) /\ fb \in Seq(U)
          BY <2>5, <2>9
        <4>2. LeftFirst(fa, x, fb) = RightFirst(fa, x, fb)
          BY <4>1, Rejoin, Zenon
        <4>3. flat = LeftFirst(fa, x, fb)
          BY <2>8 DEF LeftFirst
        <4>4. QED
          BY <4>2, <4>3 DEF RightFirst
      <3>2. x \o fb \in Seq(U) /\ Len(x \o fb) = Len(x) + Len(fb)
            /\ Len(x) \in Nat /\ Len(fb) \in Nat
        BY <2>5, <2>9, ConcatProperties, LenProperties
      <3>3. m \in 0 .. Len(x \o fb)
        BY <2>10, <3>2
      <3>4. SubSeq(flat, Len(fa) + m + 1, Len(flat)) = SubSeq(x \o fb, m + 1, Len(x \o fb))
        BY <2>9, <3>1, <3>2, <3>3, DropLeft, Zenon
      <3>5. SubSeq(x \o fb, m + 1, Len(x \o fb)) = tail \o fb
        BY <2>5, <2>9, <2>10, DropRight, Zenon
      <3>6. QED
        BY <2>10, <3>4, <3>5, Zenon
    <2>15. Rest(q, n) \in Seq(Seq(U)) /\ Len(Rest(q, n)) <= Len(q)
      <3>1. <<tail>> \in Seq(Seq(U)) /\ Len(<<tail>>) = 1
        <4> HIDE DEF tail
        <4>1. QED
          BY <2>12
      <3> HIDE DEF tail, b
      <3>2. <<tail>> \o b \in Seq(Seq(U)) /\ Len(<<tail>> \o b) = Len(<<tail>>) + Len(b)
        BY <2>5, <3>1, ConcatProperties, Zenon
      <3>3. QED
        BY <1>1, <2>5, <2>11, <3>1, <3>2
    <2>16. QED
      BY <2>11, <2>13, <2>14, <2>15, Zenon
  <1>5. QED
    BY <1>3, <1>4

(***************************************************************************)
(* The audio end.                                                          *)
(***************************************************************************)

\* RelayVoice without its fairness.
VoiceSpec == VoiceInit /\ [][VoiceNext]_voiceVars

Sound == Nat \X Nat

\* What each variable may hold, histories included; the queues are bounded.
Types ==
    /\ ui \in {"idle", "opened", "cleared", "stopping", "closed", "muting"}
    /\ audio \in {"off", "idle", "keeping", "playing"}
    /\ active \in BOOLEAN /\ inputMuted \in BOOLEAN
    /\ state \in {"Idle", "Connected", "Failed"}
    /\ incoming \in Seq(Seq(Sound)) /\ outgoing \in Seq(Nat)
    /\ Len(incoming) <= QueueCap + 1 /\ Len(outgoing) <= QueueCap
    /\ calls \in Nat /\ arrived \in Nat /\ leaked \in Nat
    /\ accepted \in Seq(Sound) /\ played \in Seq(Sound)

\* The device runs from StartDevice to DeviceUninit.  m_active is set after the
\* queues were emptied and reset after the device has ended, and while it is not
\* set no callback keeps a frame.
Device ==
    /\ audio = "off" <=> ui = "closed" \/ (ui \in {"idle", "muting"} /\ ~active)
    /\ ui \in {"opened", "cleared"} => ~active
    /\ ui \in {"stopping", "closed"} => active
    /\ ~active => audio # "keeping" /\ incoming = <<>> /\ outgoing = <<>>

\* Frames to be sent were captured in the call that goes on.
OfThisCall == \A i \in 1 .. Len(outgoing) : outgoing[i] = calls

\* The frame a callback has decided to keep.
Kept == IF audio = "keeping" THEN 1 ELSE 0

\* From setInputMuted's flag to its emptying of the queue nothing is sent; after
\* it at most one frame is, was or waits.
Muted ==
    /\ ui = "muting" => inputMuted /\ leaked = 0
    /\ inputMuted /\ ui # "muting" => leaked + Len(outgoing) + Kept <= 1

VoiceInv == Types /\ Device /\ OfThisCall /\ Muted /\ PlayedInOrder

\* A frame is a sequence of units of sound.
LEMMA UnitsTyped ==
    ASSUME NEW n \in Nat, NEW size \in Nat
    PROVE  Units(n, size) \in Seq(Sound)
  BY IsASeq DEF Units, Sound

\* A RelayVoice as created.
LEMMA VoiceInitially == VoiceInit => VoiceInv
  <1> SUFFICES ASSUME VoiceInit PROVE VoiceInv
    OBVIOUS
  <1> USE DEF VoiceInit
  <1>1. Types
    <2>1. Len(<<>>) = 0 /\ <<>> \in Seq(Nat) /\ <<>> \in Seq(Sound) /\ <<>> \in Seq(Seq(Sound))
      BY EmptySeq
    <2>2. 0 <= QueueCap /\ 0 <= QueueCap + 1
      BY VoiceAssumption
    <2>3. incoming \in Seq(Seq(Sound)) /\ outgoing \in Seq(Nat)
          /\ accepted \in Seq(Sound) /\ played \in Seq(Sound)
      BY <2>1, Zenon
    <2>4. Len(incoming) <= QueueCap + 1 /\ Len(outgoing) <= QueueCap
      BY <2>1, <2>2
    <2>5. QED
      BY <2>3, <2>4 DEF Types
  <1>2. Device /\ OfThisCall /\ Muted
    BY DEF Device, OfThisCall, Muted, Kept
  <1>3. PlayedInOrder
    BY FlattenEmpty, ConcatEmptySeq DEF PlayedInOrder
  <1>4. QED
    BY <1>1, <1>2, <1>3 DEF VoiceInv

\* Every step of either thread preserves the invariant.
LEMMA VoiceKeeps == VoiceInv /\ [VoiceNext]_voiceVars => VoiceInv'
  <1> SUFFICES ASSUME VoiceInv, [VoiceNext]_voiceVars PROVE VoiceInv'
    OBVIOUS
  <1> USE VoiceAssumption
  <1>t. Types /\ Device /\ OfThisCall /\ Muted /\ PlayedInOrder
    BY DEF VoiceInv
  <1>e. Len(<<>>) = 0 /\ <<>> \in Seq(Nat) /\ <<>> \in Seq(Sound) /\ <<>> \in Seq(Seq(Sound))
    BY EmptySeq
  <1>n. Len(outgoing) \in Nat /\ Len(incoming) \in Nat
    BY <1>t, LenProperties DEF Types
  <1>o. ASSUME UNCHANGED <<incoming, accepted, played>> PROVE PlayedInOrder'
    BY <1>t, <1>o DEF PlayedInOrder
  <1>z. ASSUME incoming' = <<>>, accepted' = <<>>, played' = <<>> PROVE PlayedInOrder'
    <2>1. <<>> = <<>> \o FlattenSeq(<<>>)
      BY <1>e, FlattenEmpty, ConcatEmptySeq, Zenon
    <2>2. QED
      BY <1>z, <2>1 DEF PlayedInOrder
  <1>1. CASE StartDevice
    <2>1. Types' /\ Device' /\ OfThisCall' /\ Muted'
      BY <1>1, <1>t, <1>e DEF StartDevice, Types, Device, OfThisCall, Muted, Kept
    <2>2. QED
      BY <1>1, <2>1, <1>o DEF StartDevice, VoiceInv
  <1>2. CASE StartClears
    <2>1. Types' /\ Device' /\ OfThisCall' /\ Muted'
      BY <1>2, <1>t, <1>e, <1>n DEF StartClears, Types, Device, OfThisCall, Muted, Kept
    <2>2. QED
      BY <1>2, <2>1, <1>z DEF StartClears, VoiceInv
  <1>3. CASE StartActivates
    <2>1. Types' /\ Device' /\ OfThisCall' /\ Muted'
      BY <1>3, <1>t DEF StartActivates, history, Types, Device, OfThisCall, Muted, Kept
    <2>2. QED
      BY <1>3, <2>1, <1>o DEF StartActivates, history, VoiceInv
  <1>4. CASE StopDevice
    <2>1. Types' /\ Device' /\ OfThisCall' /\ Muted'
      BY <1>4, <1>t DEF StopDevice, history, Types, Device, OfThisCall, Muted, Kept
    <2>2. QED
      BY <1>4, <2>1, <1>o DEF StopDevice, history, VoiceInv
  <1>5. CASE DeviceUninit
    <2>1. Types' /\ Device' /\ OfThisCall' /\ Muted'
      BY <1>5, <1>t DEF DeviceUninit, history, Types, Device, OfThisCall, Muted, Kept
    <2>2. QED
      BY <1>5, <2>1, <1>o DEF DeviceUninit, history, VoiceInv
  <1>6. CASE StopClears
    <2>1. Types' /\ Device' /\ OfThisCall' /\ Muted'
      <3>1. audio = "off" /\ Kept = 0 /\ Kept' = 0
        BY <1>6, <1>t DEF StopClears, Device, Kept
      <3>a. Device'
        BY <1>6, <3>1 DEF StopClears, Device
      <3>b. 0 <= QueueCap /\ 0 <= QueueCap + 1
        BY VoiceAssumption
      <3>c. Len(incoming') <= QueueCap + 1 /\ Len(outgoing') <= QueueCap
        BY <1>6, <1>e, <3>b DEF StopClears
      <3>2. Types' /\ Device'
        BY <1>6, <1>t, <1>e, <3>a, <3>c DEF StopClears, Types
      <3>3. OfThisCall'
        BY <1>6, <1>e DEF StopClears, OfThisCall
      <3>4. Len(outgoing') = 0 /\ leaked' = leaked /\ inputMuted' = inputMuted
            /\ ui' = "idle" /\ ui = "closed" /\ leaked \in Nat
        BY <1>6, <1>t, <1>e DEF StopClears, Types
      <3>5. Muted'
        BY <1>t, <1>n, <3>1, <3>4 DEF Muted
      <3>6. QED
        BY <3>2, <3>3, <3>5
    <2>2. QED
      BY <1>6, <2>1, <1>z DEF StopClears, VoiceInv
  <1>7. ASSUME NEW muted \in BOOLEAN, SetInputMuted(muted) PROVE VoiceInv'
    <2>1. Types' /\ Device' /\ OfThisCall' /\ Muted'
      BY <1>7, <1>t DEF SetInputMuted, Types, Device, OfThisCall, Muted, Kept
    <2>2. QED
      BY <1>7, <2>1, <1>o DEF SetInputMuted, VoiceInv
  <1>8. CASE MutingClears
    <2>1. Types' /\ Device' /\ OfThisCall' /\ Muted'
      BY <1>8, <1>t, <1>e DEF MutingClears, history, Types, Device, OfThisCall, Muted, Kept
    <2>2. QED
      BY <1>8, <2>1, <1>o DEF MutingClears, history, VoiceInv
  <1>9. CASE Tick
    <2>1. Types' /\ Device' /\ OfThisCall' /\ Muted'
      <3>1. /\ outgoing' = <<>> /\ Len(outgoing') = 0
            /\ ui' = "idle" /\ ui = "idle" /\ inputMuted' = inputMuted
            /\ leaked' = IF inputMuted THEN leaked + Len(outgoing) ELSE leaked
            /\ leaked \in Nat /\ leaked' \in Nat
        BY <1>9, <1>t, <1>e, <1>n DEF Tick, Types
      <3>2. Kept' = Kept /\ Kept \in {0, 1}
        BY <1>9 DEF Tick, Kept
      <3>3. Types' /\ Device' /\ OfThisCall'
        BY <1>9, <1>t, <1>e, <3>1 DEF Tick, Types, Device, OfThisCall
      <3>4. Muted'
        BY <1>t, <1>n, <3>1, <3>2 DEF Muted
      <3>5. QED
        BY <3>3, <3>4
    <2>2. QED
      BY <1>9, <2>1, <1>o DEF Tick, VoiceInv
  <1>10. ASSUME NEW size \in FrameSizes, PushIncomingFrame(size) PROVE VoiceInv'
    <2> DEFINE frame == Units(arrived + 1, size)
    <2>1. frame \in Seq(Sound)
      BY <1>t, UnitsTyped DEF Types
    <2> HIDE DEF frame
    <2>2. incoming' = Append(incoming, frame) /\ accepted' = accepted \o frame
      BY <1>10 DEF PushIncomingFrame, frame
    <2>3. incoming' \in Seq(Seq(Sound)) /\ Len(incoming') = Len(incoming) + 1
      BY <1>t, <2>1, <2>2, AppendProperties DEF Types
    <2>4. accepted' \in Seq(Sound)
      BY <1>t, <2>1, <2>2, ConcatProperties DEF Types
    <2>5. Types' /\ Device' /\ OfThisCall' /\ Muted'
      BY <1>10, <1>t, <1>n, <2>3, <2>4
         DEF PushIncomingFrame, Types, Device, OfThisCall, Muted, Kept
    <2>6. PlayedInOrder'
      <3> DEFINE flat == FlattenSeq(incoming)
      <3>1. flat \in Seq(Sound) /\ played \in Seq(Sound) /\ accepted = played \o flat
        BY <1>t, FlattenTyped DEF Types, PlayedInOrder
      <3>2. FlattenSeq(incoming') = flat \o frame
        BY <1>t, <2>1, <2>2, FlattenAppend DEF Types
      <3> HIDE DEF flat
      <3>3. LeftFirst(played, flat, frame) = RightFirst(played, flat, frame)
        BY <2>1, <3>1, Rejoin, Zenon
      <3>4. accepted' = LeftFirst(played, flat, frame)
        BY <2>2, <3>1 DEF LeftFirst
      <3>5. played' \o FlattenSeq(incoming') = RightFirst(played, flat, frame)
        BY <1>10, <3>2 DEF RightFirst, PushIncomingFrame
      <3>6. QED
        BY <3>3, <3>4, <3>5 DEF PlayedInOrder
    <2>7. QED
      BY <2>5, <2>6 DEF VoiceInv
  <1>11. CASE Capture
    <2>1. Types' /\ Device' /\ OfThisCall' /\ Muted'
      BY <1>11, <1>t DEF Capture, history, Types, Device, OfThisCall, Muted, Kept
    <2>2. QED
      BY <1>11, <2>1, <1>o DEF Capture, history, VoiceInv
  <1>12. CASE Keep
    <2>1. /\ outgoing' \in Seq(Nat) /\ Len(outgoing') <= QueueCap
          /\ Len(outgoing') <= Len(outgoing) + 1 /\ Len(outgoing') \in Nat
          /\ \A i \in 1 .. Len(outgoing') : outgoing'[i] = calls
      <3>1. CASE outgoing' = outgoing
        BY <1>t, <1>n, <3>1 DEF Types, OfThisCall
      <3>2. CASE Len(outgoing) < QueueCap /\ outgoing' = Append(outgoing, calls)
        <4>1. /\ outgoing' \in Seq(Nat) /\ Len(outgoing') = Len(outgoing) + 1
              /\ \A i \in 1 .. Len(outgoing) : outgoing'[i] = outgoing[i]
              /\ outgoing'[Len(outgoing) + 1] = calls
          BY <1>t, <3>2, AppendProperties DEF Types
        <4>2. QED
          BY <1>t, <1>n, <3>2, <4>1 DEF OfThisCall
      <3>3. QED
        BY <1>12, <3>1, <3>2 DEF Keep
    <2>2. Types' /\ Device' /\ OfThisCall' /\ Muted'
      BY <1>12, <1>t, <1>n, <2>1 DEF Keep, Types, Device, OfThisCall, Muted, Kept
    <2>3. QED
      BY <1>12, <2>2, <1>o DEF Keep, VoiceInv
  <1>13. CASE Play
    <2> DEFINE waiting == FlattenSeq(incoming)
               n == IF Len(waiting) < Period THEN Len(waiting) ELSE Period
               heard == SubSeq(waiting, 1, n)
               left == SubSeq(waiting, n + 1, Len(waiting))
    <2>1. waiting \in Seq(Sound) /\ Len(waiting) \in Nat
      BY <1>t, FlattenTyped, LenProperties DEF Types
    <2>2. n \in 0 .. Len(waiting)
      BY <2>1
    <2>3. /\ Rest(incoming, n) \in Seq(Seq(Sound)) /\ Len(Rest(incoming, n)) <= Len(incoming)
          /\ FlattenSeq(Rest(incoming, n)) = left
      <3>1. incoming \in Seq(Seq(Sound))
        BY <1>t DEF Types
      <3> HIDE DEF n
      <3>2. QED
        BY <2>2, <3>1, RestFlattens, Zenon
    <2>4. heard \in Seq(Sound) /\ left \in Seq(Sound) /\ heard \o left = waiting
      <3> HIDE DEF n, waiting
      <3>1. /\ \A i \in 1 .. n : waiting[i] \in Sound
            /\ \A i \in n + 1 .. Len(waiting) : waiting[i] \in Sound
        BY <2>1, <2>2, ElementOfSeq
      <3>2. heard \in Seq(Sound) /\ left \in Seq(Sound)
        BY <2>1, <2>2, <3>1, SubSeqProperties
      <3>3. heard \o left = SubSeq(waiting, 1, Len(waiting))
        <4>1. 1 \in 1 .. Len(waiting) + 1 /\ n \in 1 - 1 .. Len(waiting)
              /\ Len(waiting) \in n .. Len(waiting)
          BY <2>1, <2>2
        <4>2. QED
          BY <2>1, <4>1, ConcatAdjacentSubSeq
      <3>4. SubSeq(waiting, 1, Len(waiting)) = waiting
        BY <2>1, SubSeqFull
      <3>5. QED
        BY <3>2, <3>3, <3>4, Zenon
    <2>5. played' = played \o heard /\ incoming' = Rest(incoming, n)
      BY <1>13 DEF Play
    <2> HIDE DEF waiting, n, heard, left
    <2>6. ~active => incoming' = <<>>
      <3> SUFFICES ASSUME ~active PROVE incoming' = <<>>
        OBVIOUS
      <3>1. Len(incoming) = 0
        BY <1>t, <1>e DEF Device
      <3>2. Len(Rest(incoming, n)) \in Nat
        BY <2>3, LenProperties
      <3>3. QED
        BY <2>3, <2>5, <3>1, <3>2, EmptySeq
    <2>7. /\ incoming' \in Seq(Seq(Sound)) /\ Len(incoming') <= QueueCap + 1
          /\ played' \in Seq(Sound)
      <3>1. Len(Rest(incoming, n)) \in Nat
        BY <2>3, LenProperties
      <3>2. played \o heard \in Seq(Sound)
        BY <1>t, <2>4, ConcatProperties DEF Types
      <3>3. QED
        BY <1>t, <1>n, <2>3, <2>5, <3>1, <3>2 DEF Types
    <2>8. Types' /\ Device' /\ OfThisCall' /\ Muted'
      BY <1>13, <1>t, <1>n, <2>6, <2>7 DEF Play, Types, Device, OfThisCall, Muted, Kept
    <2>9. PlayedInOrder'
      <3>1. played \in Seq(Sound) /\ accepted = played \o waiting
        BY <1>t DEF Types, PlayedInOrder, waiting
      <3>2. LeftFirst(played, heard, left) = RightFirst(played, heard, left)
        BY <2>4, <3>1, Rejoin, Zenon
      <3>3. played' \o FlattenSeq(incoming') = LeftFirst(played, heard, left)
        BY <2>3, <2>5 DEF LeftFirst
      <3>4. accepted = RightFirst(played, heard, left)
        BY <2>4, <3>1 DEF RightFirst
      <3>5. accepted' = accepted
        BY <1>13 DEF Play
      <3>6. QED
        BY <3>2, <3>3, <3>4, <3>5 DEF PlayedInOrder
    <2>10. QED
      BY <2>8, <2>9 DEF VoiceInv
  <1>14. CASE UNCHANGED voiceVars
    BY <1>14, <1>t DEF voiceVars, voice, history, VoiceInv, Types, Device, OfThisCall, Muted,
                      Kept, PlayedInOrder
  <1>15. QED
    BY <1>1, <1>2, <1>3, <1>4, <1>5, <1>6, <1>7, <1>8, <1>9, <1>10, <1>11, <1>12, <1>13, <1>14
       DEF VoiceNext

\* Frames belong to the call that goes on, a muted microphone lets at most one
\* through, and what is heard is what arrived, in order and without gaps, for
\* every queue size, period and frame size (relay_voice.cpp: start, stop,
\* setInputMuted, tick, pushIncomingFrame, audioCallback).
THEOREM AudioStaysInTheCall == VoiceSpec => []AudioIsOfTheCall
  <1>1. VoiceInv => AudioIsOfTheCall
    BY DEF VoiceInv, Types, Device, OfThisCall, Muted, Kept, AudioIsOfTheCall, VoiceTypeOK,
           NothingOutlivesTheCall, MuteLetsOneFrameThrough
  <1>2. QED
    BY <1>1, VoiceInitially, VoiceKeeps, PTL DEF VoiceSpec

(***************************************************************************)
(* The call.                                                               *)
(***************************************************************************)

\* VoiceCall has no fairness.
VoiceCallSpec == VoiceCallInit /\ [][VoiceCallNext]_voiceCallVars

\* Each instance has its state.
CallTypes ==
    /\ DOMAIN current = Instances /\ DOMAIN view = Instances /\ DOMAIN call = Instances
    /\ enabled \in [Instances -> BOOLEAN]

CallInv == CallTypes /\ CallNeedsOnePeer

\* At the start nobody is in a call.
LEMMA CallInitially == VoiceCallInit => CallInv
  BY DEF VoiceCallInit, CallInv, CallTypes, CallNeedsOnePeer, Active

\* What does not touch the instances does not matter.
LEMMA CallKept == ASSUME CallInv, UNCHANGED callVars PROVE CallInv'
  BY DEF callVars, CallInv, CallTypes, CallNeedsOnePeer, Active, VoiceAvailable,
         AvailableWith, Connected

\* Every press and every event preserves it.
LEMMA CallKeeps == CallInv /\ [VoiceCallNext]_voiceCallVars => CallInv'
  <1> SUFFICES ASSUME CallInv, [VoiceCallNext]_voiceCallVars PROVE CallInv'
    OBVIOUS
  <1> USE DEF CallInv, CallTypes, CallNeedsOnePeer, Active, VoiceAvailable, AvailableWith,
             Connected
  <1>1. ASSUME NEW p \in Instances, StartVoiceCall(p) PROVE CallInv'
    BY <1>1 DEF StartVoiceCall
  <1>2. ASSUME NEW p \in Instances, EndCall(p) PROVE CallInv'
    BY <1>2 DEF EndCall, StopVoiceCall, Requests
  <1>3. ASSUME NEW p \in Instances, SetVoiceEnabled(p) PROVE CallInv'
    BY <1>3 DEF SetVoiceEnabled, StopVoiceCall, Requests
  <1>4. ASSUME NEW p \in Instances, SetCaptureDevice(p) PROVE CallInv'
    BY <1>4 DEF SetCaptureDevice
  <1>5. ASSUME NEW p \in Instances, NEW s \in Sockets, Connect(p, s) PROVE CallInv'
    BY <1>5 DEF Connect
  <1>6. ASSUME NEW p \in Instances, OnDisconnected(p) PROVE CallInv'
    BY <1>6 DEF OnDisconnected
  <1>7. ASSUME NEW p \in Instances, OnRelayPeerUpdate(p) PROVE CallInv'
    BY <1>7 DEF OnRelayPeerUpdate
  <1>8. ASSUME NEW p \in Instances, OnRelayVoiceStart(p) PROVE CallInv'
    BY <1>8 DEF OnRelayVoiceStart
  <1>9. ASSUME NEW p \in Instances, OnRelayVoiceStop(p) PROVE CallInv'
    BY <1>9 DEF OnRelayVoiceStop
  <1>10. ASSUME UNCHANGED callVars PROVE CallInv'
    BY <1>10, CallKept
  <1>11. ASSUME NEW s \in Sockets, Drop(s) PROVE CallInv'
    BY <1>10, <1>11 DEF Drop
  <1>12. QED
    BY <1>1, <1>2, <1>3, <1>4, <1>5, <1>6, <1>7, <1>8, <1>9, <1>10, <1>11
       DEF VoiceCallNext, ClientTask, voiceCallVars

\* The microphone of an instance is open only while its voice is enabled, it is
\* connected and the last peer_update told it of exactly one peer, whatever is
\* pressed, breaks or arrives late (sync_session.cpp: startVoiceCall,
\* stopVoiceCall, setVoiceEnabled, onRelayPeerUpdate, onRelayVoiceStartReceived,
\* onConnectionStateChanged).
THEOREM NoLonelyMicrophone == VoiceCallSpec => []CallNeedsOnePeer
  BY CallInitially, CallKeeps, PTL DEF VoiceCallSpec, CallInv

(***************************************************************************)
(* The frames and the seats of a call.                                     *)
(***************************************************************************)

\* The requests of a call, and what else is on a connection.
Voices == [type : {"relay_voice_start", "relay_voice_stop"}]
Joins == [type : {"join"}, code : {SessionCode}, role : {"host", "guest"}]
Notices == [type : {"peer_update"}, host : BOOLEAN, guests : Nat]
FromClient == {Accepted, Closed} \cup Joins \cup Voices
ToClient == {Closed} \cup Notices \cup Voices

Views == [host : BOOLEAN, guests : Nat]
RoleOf(s) == IF s \in SocketsOf[Host] THEN "host" ELSE "guest"

PartyTypes ==
    /\ current \in [Instances -> Sockets \cup {NoSocket}]
    /\ view \in [Instances -> Views] /\ enabled \in [Instances -> BOOLEAN]
    /\ call \in [Instances -> {"Idle", "Connected", "Failed"}]
    /\ wire \in [Sockets -> {"idle", "up", "down"}]
    /\ up \in [Sockets -> Seq(FromClient)] /\ down \in [Sockets -> Seq(ToClient)]
    /\ refused \in BOOLEAN /\ crossed \in BOOLEAN

\* A connection that lives is that of one instance; who joined was accepted first,
\* and no end hears of the end of a connection before it.
LineOK(s) ==
    /\ Live(s) => \E p \in Instances : current[p] = s
    /\ wire[s] = "idle" => up[s] = <<>> /\ down[s] = <<>> /\ peers[s] = Absent
    /\ wire[s] # "down" => /\ \A k \in 1 .. Len(up[s]) : up[s][k].type # "closed"
                           /\ \A k \in 1 .. Len(down[s]) : down[s][k].type # "closed"
    /\ \A k \in 1 .. Len(up[s]) :
          /\ up[s][k].type = "accepted" => k = 1 /\ peers[s] = Absent
          /\ up[s][k].type = "join" => up[s][k].role = RoleOf(s)

Lines ==
    /\ \A p \in Instances : current[p] # NoSocket => current[p] \in SocketsOf[p]
    /\ \A s \in Sockets : LineOK(s)

\* There is one session, and its seats are those of the peers that joined it.
Named == [code |-> NoCode, role |-> "none"]
Joined == [code : {SessionCode}, role : {"host", "guest"}]
SeatOK(s) ==
    /\ s \in guests[SessionCode] <=> peers[s].role = "guest"
    /\ peers[s].role \in {"host", "guest"} => peers[s].role = RoleOf(s)
    /\ peers[s].role = "host" => host[SessionCode] = s \/ wire[s] = "down"

Seats ==
    /\ DOMAIN host = Codes /\ DOMAIN guests = Codes /\ DOMAIN sessionOf = Codes
    /\ host[SessionCode] \in Sockets \cup {NoSocket} /\ guests[SessionCode] \subseteq Sockets
    /\ peers \in [Sockets -> {Absent, Named} \cup Joined]
    /\ sessionOf[SessionCode] \in {SessionCode, NoCode}
    /\ sessionOf[SessionCode] = NoCode =>
          host[SessionCode] = NoSocket /\ guests[SessionCode] = {}
    /\ host[SessionCode] # NoSocket => peers[host[SessionCode]].role = "host"
    /\ \A s \in Sockets : SeatOK(s)

PartyInv == PartyTypes /\ Lines /\ Seats

----------------------------------------------------------------------------

LEMMA Nothing == \A S : <<>> \in Seq(S) /\ Len(<<>>) = 0
  BY EmptySeq

\* The head and the tail of a stream.
LEMMA Unqueued ==
    ASSUME NEW S, NEW q \in Seq(S), q # <<>>
    PROVE  /\ Tail(q) \in Seq(S) /\ Head(q) = q[1] /\ Head(q) \in S
           /\ Len(q) \in Nat \ {0} /\ Len(Tail(q)) = Len(q) - 1
           /\ \A i \in 1 .. Len(Tail(q)) : i + 1 \in 1 .. Len(q) /\ Tail(q)[i] = q[i + 1]
  BY HeadTailProperties, LenProperties, EmptySeq

LEMMA Queued ==
    ASSUME NEW S, NEW q \in Seq(S), NEW m \in S
    PROVE  /\ Append(q, m) \in Seq(S) /\ Len(q) \in Nat
           /\ Len(Append(q, m)) = Len(q) + 1 /\ Append(q, m)[Len(q) + 1] = m
           /\ \A i \in 1 .. Len(q) : Append(q, m)[i] = q[i]
  BY AppendProperties, LenProperties

\* What arrives of a stream that breaks.
LEMMA Cut ==
    ASSUME NEW S, NEW q \in Seq(S), NEW m \in S, NEW n \in 0 .. Len(q)
    PROVE  /\ Append(SubSeq(q, 1, n), m) \in Seq(S)
           /\ Len(Append(SubSeq(q, 1, n), m)) = n + 1
           /\ Append(SubSeq(q, 1, n), m)[n + 1] = m
           /\ \A i \in 1 .. n : i \in 1 .. Len(q) /\ Append(SubSeq(q, 1, n), m)[i] = q[i]
  <1>1. /\ SubSeq(q, 1, n) \in Seq(S) /\ Len(SubSeq(q, 1, n)) = n
        /\ \A i \in 1 .. n : SubSeq(q, 1, n)[i] = q[i]
    BY LenProperties, SubSeqProperties
  <1>2. QED
    BY <1>1, Queued, LenProperties

LEMMA Typed ==
    /\ Accepted \in FromClient /\ Closed \in FromClient /\ Closed \in ToClient
    /\ \A m \in Voices : m \in FromClient /\ m \in ToClient
    /\ \A m \in Notices : m \in ToClient
    /\ \A m \in FromClient :
          /\ m.type \in {"accepted", "closed", "join", "relay_voice_start", "relay_voice_stop"}
          /\ m.type = "accepted" => m = Accepted
          /\ m.type = "join" => m.code = SessionCode /\ m.role \in {"host", "guest"}
          /\ m.type \notin {"accepted", "closed", "join"} => m \in Voices
    /\ \A m \in ToClient :
          /\ m.type \in {"closed", "peer_update", "relay_voice_start", "relay_voice_stop"}
          /\ m.type = "peer_update" => m.host \in BOOLEAN /\ m.guests \in Nat
  BY DEF FromClient, ToClient, Voices, Joins, Notices, Accepted, Closed

\* The seats, as one peer after the other may see them.
LEMMA PeerTyped ==
    /\ Absent.code = NoCode /\ Absent.role = "absent"
    /\ Named.code = NoCode /\ Named.role = "none"
    /\ \A x \in Joined : x.code = SessionCode /\ x.role \in {"host", "guest"}
    /\ \A role \in {"host", "guest"} : [code |-> SessionCode, role |-> role] \in Joined
  BY DEF Absent, Named, Joined

LEMMA CodeKnown == SessionCode # NoCode /\ SessionCode \in Codes
  BY VoiceCallAssumption, CodesAssumption

\* No two instances share a connection.
LEMMA OneOwner ==
    ASSUME NEW p \in Instances, NEW q \in Instances, NEW s, s \in SocketsOf[p], s \in SocketsOf[q]
    PROVE  p = q /\ s \in Sockets
  BY VoiceCallAssumption

----------------------------------------------------------------------------
LEMMA PartyInitially == VoiceCallInit => PartyInv
  <1> SUFFICES ASSUME VoiceCallInit PROVE PartyInv
    OBVIOUS
  <1> USE DEF VoiceCallInit
  <1>1. PartyTypes
    BY Nothing DEF PartyTypes, Views
  <1>2. Lines
    BY Nothing DEF Lines, LineOK, Live
  <1>3. Seats
    BY CodeKnown, PeerTyped DEF Seats, SeatOK
  <1>4. QED
    BY <1>1, <1>2, <1>3 DEF PartyInv

\* The server and the connections stay as they are: so do the seats.
LEMMA SeatsStay ==
    ASSUME Seats, UNCHANGED server, \A s \in Sockets : wire[s] = "down" => wire'[s] = "down"
    PROVE  Seats'
  BY DEF Seats, SeatOK, server, RoleOf

\* A button: at most one request is sent, on the connection of its instance.
Asked(p) ==
    \/ UNCHANGED up
    \/ /\ current[p] # NoSocket /\ Live(current[p])
       /\ \E m \in Voices : up' = [up EXCEPT ![current[p]] = Append(@, m)]

LEMMA PartyAsks ==
    ASSUME PartyInv, NEW p \in Instances, Asked(p),
           UNCHANGED <<wire, down, server, current, view>>,
           enabled' \in [Instances -> BOOLEAN],
           call' \in [Instances -> {"Idle", "Connected", "Failed"}],
           refused' \in BOOLEAN, crossed' \in BOOLEAN
    PROVE  PartyInv'
  <1>1. Seats'
    BY SeatsStay DEF PartyInv
  <1>2. CASE UNCHANGED up
    BY <1>1, <1>2 DEF PartyInv, PartyTypes, Lines, LineOK, Live, server, RoleOf
  <1>3. ASSUME NEW m \in Voices, current[p] # NoSocket, Live(current[p]),
               up' = [up EXCEPT ![current[p]] = Append(@, m)]
        PROVE  PartyInv'
    <2> DEFINE x == current[p]
    <2>1. x \in Sockets /\ up[x] \in Seq(FromClient) /\ m \in FromClient
          /\ m.type \notin {"accepted", "closed", "join"}
      BY <1>3, Typed DEF PartyInv, PartyTypes, Voices
    <2>2. /\ up'[x] = Append(up[x], m) /\ \A s \in Sockets \ {x} : up'[s] = up[s]
      BY <1>3, <2>1 DEF PartyInv, PartyTypes
    <2>3. PartyTypes'
      <3>1. Append(up[x], m) \in Seq(FromClient)
        BY <2>1, Queued
      <3>2. up' \in [Sockets -> Seq(FromClient)]
        BY <1>3, <2>1, <3>1 DEF PartyInv, PartyTypes
      <3>3. QED
        BY <3>2 DEF PartyInv, PartyTypes
    <2>4. ASSUME NEW s \in Sockets PROVE LineOK(s)'
      <3>1. CASE s # x
        <4>1. up'[s] = up[s] /\ LineOK(s)
          BY <2>2, <3>1 DEF PartyInv, Lines
        <4>2. QED
          BY <4>1 DEF LineOK, Live, server, RoleOf
      <3>2. CASE s = x
        <4>1. LineOK(x)
          BY <2>1 DEF PartyInv, Lines
        <4>2. \A k \in 1 .. Len(up'[x]) : \/ k \in 1 .. Len(up[x]) /\ up'[x][k] = up[x][k]
                                          \/ up'[x][k] = m
          BY <2>1, <2>2, Queued
        <4>3. wire[x] = "up"
          BY <1>3 DEF Live
        <4>4. QED
          BY <2>1, <3>2, <4>1, <4>2, <4>3 DEF LineOK, Live, server, RoleOf
      <3>3. QED
        BY <3>1, <3>2
    <2>5. QED
      BY <1>1, <2>3, <2>4 DEF PartyInv, Lines
  <1>4. QED
    BY <1>2, <1>3 DEF Asked

\* An instance handles what is next for it.
LEMMA PartyHears ==
    ASSUME PartyInv, NEW p \in Instances, current[p] # NoSocket, down[current[p]] # <<>>,
           down' = [down EXCEPT ![current[p]] = Tail(@)],
           UNCHANGED <<wire, up, server, enabled, crossed>>,
           \/ UNCHANGED current
           \/ /\ Head(down[current[p]]).type = "closed"
              /\ current' = [current EXCEPT ![p] = NoSocket],
           view' \in [Instances -> Views], refused' \in BOOLEAN,
           call' \in [Instances -> {"Idle", "Connected", "Failed"}]
    PROVE  PartyInv'
  <1> DEFINE x == current[p]
  <1>1. x \in Sockets /\ down[x] \in Seq(ToClient) /\ LineOK(x) /\ down[x] # <<>>
    BY DEF PartyInv, PartyTypes, Lines
  <1>2. /\ down'[x] = Tail(down[x]) /\ \A s \in Sockets \ {x} : down'[s] = down[s]
        /\ DOMAIN down' = Sockets
    BY <1>1 DEF PartyInv, PartyTypes
  <1>3. PartyTypes'
    <2>1. \A s \in Sockets : down'[s] \in Seq(ToClient)
      BY <1>1, <1>2, Unqueued DEF PartyInv, PartyTypes
    <2>2. current' \in [Instances -> Sockets \cup {NoSocket}]
      BY DEF PartyInv, PartyTypes
    <2>3. QED
      BY <1>2, <2>1, <2>2 DEF PartyInv, PartyTypes
  <1>4. Seats'
    BY SeatsStay DEF PartyInv
  <1>5. \A i \in 1 .. Len(down'[x]) : i + 1 \in 1 .. Len(down[x]) /\ down'[x][i] = down[x][i + 1]
    BY <1>1, <1>2, Unqueued
  <1>6. \A q \in Instances : current'[q] # NoSocket => current'[q] \in SocketsOf[q]
    BY DEF PartyInv, PartyTypes, Lines
  <1>7. ASSUME NEW s \in Sockets PROVE LineOK(s)'
    <2>1. Live(s) => \E q \in Instances : current'[q] = s
      <3>1. CASE UNCHANGED current
        BY <3>1 DEF PartyInv, Lines, LineOK
      <3>2. CASE current' = [current EXCEPT ![p] = NoSocket] /\ Head(down[x]).type = "closed"
        <4>1. 1 \in 1 .. Len(down[x]) /\ down[x][1].type = "closed"
          BY <1>1, <3>2, Unqueued
        <4>2. ~Live(x)
          BY <1>1, <4>1 DEF LineOK, Live
        <4>3. ASSUME Live(s) PROVE \E q \in Instances : current'[q] = s
          <5>1. PICK q \in Instances : current[q] = s
            BY <4>3 DEF PartyInv, Lines, LineOK
          <5>2. q # p
            BY <4>2, <4>3, <5>1
          <5>3. QED
            BY <3>2, <5>1, <5>2 DEF PartyInv, PartyTypes
        <4>4. QED
          BY <4>3
      <3>3. QED
        BY <3>1, <3>2
    <2>2. CASE s # x
      BY <1>2, <2>1, <2>2 DEF PartyInv, Lines, LineOK, Live, server, RoleOf
    <2>3. CASE s = x
      <3>1. wire[x] # "idle"
        BY <1>1 DEF LineOK
      <3>2. QED
        BY <1>1, <1>5, <2>1, <2>3, <3>1 DEF LineOK, Live, server, RoleOf
    <2>4. QED
      BY <2>2, <2>3
  <1>8. QED
    BY <1>3, <1>4, <1>6, <1>7 DEF PartyInv, Lines

\* A client connects: it is accepted, and its join follows.
LEMMA PartyConnects ==
    ASSUME PartyInv, NEW p \in Instances, NEW s \in Sockets, Connect(p, s)
    PROVE  PartyInv'
  <1> DEFINE join == [type |-> "join", code |-> SessionCode,
                      role |-> IF p = Host THEN "host" ELSE "guest"]
             first == <<Accepted, join>>
  <1>1. /\ s \in SocketsOf[p] /\ wire[s] = "idle" /\ current[p] = NoSocket
        /\ current' = [current EXCEPT ![p] = s] /\ wire' = [wire EXCEPT ![s] = "up"]
        /\ up' = [up EXCEPT ![s] = first]
        /\ UNCHANGED <<down, server, view, enabled, call, refused, crossed>>
    BY DEF Connect, Connected
  <1>2. join \in FromClient /\ join.type = "join" /\ join.role = RoleOf(s)
    <2>1. join.role = RoleOf(s)
      BY <1>1, OneOwner DEF RoleOf, Instances
    <2>2. QED
      BY <2>1 DEF FromClient, Joins
  <1>3. /\ first \in Seq(FromClient) /\ Len(first) = 2 /\ first[1] = Accepted /\ first[2] = join
    BY <1>2, Typed
  <1> HIDE DEF join, first
  <1>4. PartyTypes'
    <2>1. up' \in [Sockets -> Seq(FromClient)]
      BY <1>1, <1>3 DEF PartyInv, PartyTypes
    <2>2. QED
      BY <1>1, <2>1 DEF PartyInv, PartyTypes
  <1>5. Seats'
    BY <1>1, SeatsStay DEF PartyInv, PartyTypes
  <1>6. \A q \in Instances : current'[q] # NoSocket => current'[q] \in SocketsOf[q]
    BY <1>1 DEF PartyInv, PartyTypes, Lines
  <1>7. ASSUME NEW x \in Sockets PROVE LineOK(x)'
    <2>1. LineOK(x)
      BY DEF PartyInv, Lines
    <2>2. CASE x # s
      <3>1. wire'[x] = wire[x] /\ up'[x] = up[x] /\ down'[x] = down[x] /\ peers'[x] = peers[x]
        BY <1>1, <2>2 DEF PartyInv, PartyTypes, server
      <3>2. ASSUME NEW q \in Instances, current[q] = x PROVE current'[q] = x
        BY <1>1, <3>2, SocketsAssumption DEF PartyInv, PartyTypes
      <3>3. QED
        BY <2>1, <3>1, <3>2 DEF LineOK, Live, RoleOf
    <2>3. CASE x = s
      <3>1. /\ wire'[s] = "up" /\ up'[s] = first /\ down'[s] = <<>> /\ peers'[s] = Absent
            /\ current'[p] = s
        BY <1>1, <2>1, <2>3 DEF PartyInv, PartyTypes, server, LineOK
      <3>2. Len(down'[s]) = 0
        BY <3>1, Nothing
      <3>3. \A k \in 1 .. Len(first) : first[k].type # "closed"
                                       /\ (first[k].type = "accepted" => k = 1)
                                       /\ (first[k].type = "join" => first[k].role = RoleOf(s))
        BY <1>2, <1>3 DEF Accepted
      <3>4. QED
        BY <2>3, <3>1, <3>2, <3>3 DEF LineOK, Live, RoleOf
    <2>4. QED
      BY <2>2, <2>3
  <1>8. QED
    BY <1>4, <1>5, <1>6, <1>7 DEF PartyInv, Lines

\* A connection breaks.
LEMMA PartyDrops ==
    ASSUME PartyInv, NEW s \in Sockets, Drop(s)
    PROVE  PartyInv'
  <1>1. /\ wire[s] = "up" /\ wire' = [wire EXCEPT ![s] = "down"]
        /\ UNCHANGED <<server, current, view, enabled, call, refused, crossed>>
    BY DEF Drop, WireDrop, Live, callVars
  <1>2. PICK i \in 0 .. Len(up[s]) :
           up' = [up EXCEPT ![s] = Append(SubSeq(up[s], 1, i), Closed)]
    BY DEF Drop, WireDrop, Broken
  <1>3. PICK j \in 0 .. Len(down[s]) :
           down' = [down EXCEPT ![s] = Append(SubSeq(down[s], 1, j), Closed)]
    BY DEF Drop, WireDrop, Broken
  <1> DEFINE u == Append(SubSeq(up[s], 1, i), Closed)
             d == Append(SubSeq(down[s], 1, j), Closed)
  <1>4. /\ u \in Seq(FromClient) /\ d \in Seq(ToClient) /\ Len(u) = i + 1 /\ u[i + 1] = Closed
        /\ \A k \in 1 .. i : k \in 1 .. Len(up[s]) /\ u[k] = up[s][k]
    <2>1. up[s] \in Seq(FromClient) /\ down[s] \in Seq(ToClient)
      BY DEF PartyInv, PartyTypes
    <2>2. QED
      BY <2>1, Cut, Typed
  <1>5. up' = [up EXCEPT ![s] = u] /\ down' = [down EXCEPT ![s] = d]
    BY <1>2, <1>3
  <1> HIDE DEF u, d
  <1>6. PartyTypes'
    <2>1. up' \in [Sockets -> Seq(FromClient)] /\ down' \in [Sockets -> Seq(ToClient)]
      BY <1>4, <1>5 DEF PartyInv, PartyTypes
    <2>2. QED
      BY <1>1, <2>1 DEF PartyInv, PartyTypes
  <1>7. Seats'
    BY <1>1, SeatsStay DEF PartyInv, PartyTypes
  <1>8. ASSUME NEW x \in Sockets PROVE LineOK(x)'
    <2>1. LineOK(x)
      BY DEF PartyInv, Lines
    <2>2. CASE x # s
      <3>1. wire'[x] = wire[x] /\ up'[x] = up[x] /\ down'[x] = down[x] /\ peers'[x] = peers[x]
        BY <1>1, <1>5, <2>2 DEF PartyInv, PartyTypes, server
      <3>2. QED
        BY <1>1, <2>1, <3>1 DEF LineOK, Live, RoleOf
    <2>3. CASE x = s
      <3>1. wire'[s] = "down" /\ up'[s] = u /\ peers'[s] = peers[s]
        BY <1>1, <1>5 DEF PartyInv, PartyTypes, server
      <3>2. \A k \in 1 .. Len(u) : \/ k \in 1 .. Len(up[s]) /\ u[k] = up[s][k]
                                   \/ u[k].type = "closed"
        BY <1>4 DEF Closed
      <3>3. QED
        BY <2>1, <2>3, <3>1, <3>2 DEF LineOK, Live, RoleOf
    <2>4. QED
      BY <2>2, <2>3
  <1>9. QED
    BY <1>1, <1>6, <1>7, <1>8 DEF PartyInv, Lines

----------------------------------------------------------------------------
(* The server.                                                             *)

\* Connection s gets at most one frame more, if it lives.
Told(s) ==
    \/ down'[s] = down[s]
    \/ Live(s) /\ \E m \in Notices \cup Voices : down'[s] = Append(down[s], m)

LEMMA LineTold ==
    ASSUME PartyInv, NEW s \in Sockets, Told(s),
           wire'[s] = wire[s], UNCHANGED current,
           \/ up'[s] = up[s] /\ peers'[s] = peers[s]
           \/ up[s] # <<>> /\ up'[s] = Tail(up[s])
    PROVE  LineOK(s)' /\ down'[s] \in Seq(ToClient) /\ up'[s] \in Seq(FromClient)
  <1>1. LineOK(s) /\ up[s] \in Seq(FromClient) /\ down[s] \in Seq(ToClient)
    BY DEF PartyInv, PartyTypes, Lines
  <1>2. /\ down'[s] \in Seq(ToClient)
        /\ wire[s] = "idle" => down'[s] = down[s]
        /\ \A k \in 1 .. Len(down'[s]) : \/ k \in 1 .. Len(down[s]) /\ down'[s][k] = down[s][k]
                                         \/ down'[s][k].type # "closed"
    <2>1. CASE down'[s] = down[s]
      BY <1>1, <2>1
    <2>2. ASSUME Live(s), NEW m \in Notices \cup Voices, down'[s] = Append(down[s], m)
          PROVE  /\ down'[s] \in Seq(ToClient)
                 /\ wire[s] = "idle" => down'[s] = down[s]
                 /\ \A k \in 1 .. Len(down'[s]) :
                       \/ k \in 1 .. Len(down[s]) /\ down'[s][k] = down[s][k]
                       \/ down'[s][k].type # "closed"
      <3>1. m \in ToClient /\ m.type # "closed"
        BY Typed DEF Notices, Voices
      <3>2. QED
        BY <1>1, <2>2, <3>1, Queued DEF Live
    <2>3. QED
      BY <2>1, <2>2 DEF Told
  <1>3. CASE up'[s] = up[s] /\ peers'[s] = peers[s]
    BY <1>1, <1>2, <1>3 DEF LineOK, Live, RoleOf
  <1>4. CASE up[s] # <<>> /\ up'[s] = Tail(up[s])
    <2>1. /\ up'[s] \in Seq(FromClient)
          /\ \A k \in 1 .. Len(up'[s]) : k + 1 \in 1 .. Len(up[s]) /\ up'[s][k] = up[s][k + 1]
      BY <1>1, <1>4, Unqueued
    <2>2. \A k \in 1 .. Len(up'[s]) : k + 1 # 1
      OBVIOUS
    <2>3. wire[s] # "idle"
      BY <1>1, <1>4 DEF LineOK
    <2>4. QED
      BY <1>1, <1>2, <2>1, <2>2, <2>3 DEF LineOK, Live, RoleOf
  <1>5. QED
    BY <1>3, <1>4

LEMMA PartyServes ==
    ASSUME PartyInv, NEW s \in Sockets, up[s] # <<>>, up' = Consume(s),
           UNCHANGED <<wire, callVars>>,
           down' = [x \in Sockets |-> down'[x]], \A x \in Sockets : Told(x),
           \A x \in Sockets : x # s => peers'[x] = peers[x],
           Seats'
    PROVE  PartyInv'
  <1>1. /\ up' = [up EXCEPT ![s] = Tail(up[s])]
        /\ UNCHANGED <<current, view, enabled, call, refused, crossed>>
    BY DEF Consume, callVars
  <1>2. \A x \in Sockets : \/ up'[x] = up[x] /\ peers'[x] = peers[x]
                           \/ up[x] # <<>> /\ up'[x] = Tail(up[x])
    BY <1>1 DEF PartyInv, PartyTypes
  <1>3. \A x \in Sockets : LineOK(x)' /\ down'[x] \in Seq(ToClient) /\ up'[x] \in Seq(FromClient)
    BY <1>1, <1>2, LineTold
  <1>4. PartyTypes'
    <2>1. down' \in [Sockets -> Seq(ToClient)] /\ up' \in [Sockets -> Seq(FromClient)]
      BY <1>1, <1>3 DEF PartyInv, PartyTypes
    <2>2. QED
      BY <1>1, <2>1 DEF PartyInv, PartyTypes
  <1>5. Lines'
    BY <1>1, <1>3 DEF PartyInv, Lines
  <1>6. QED
    BY <1>4, <1>5 DEF PartyInv

\* A roster goes to those who live and are members.
LEMMA RosterSent ==
    ASSUME NEW h, NEW g \in SUBSET Sockets
    PROVE  /\ Cardinality(g) \in Nat
           /\ PeerUpdate(TRUE, Cardinality(g)) \in Notices
           /\ PeerUpdate(h # NoSocket, Cardinality(g)) \in Notices
           /\ \A x \in Sockets : \/ PeerUpdateSent(h, g)[x] = down[x]
                                 \/ Live(x) /\ \E m \in Notices \cup Voices :
                                       PeerUpdateSent(h, g)[x] = Append(down[x], m)
           /\ PeerUpdateSent(h, g) = [x \in Sockets |-> PeerUpdateSent(h, g)[x]]
  <1>1. Cardinality(g) \in Nat
    BY SocketsAssumption, FS_Subset, FS_CardinalityType
  <1>2. (h # NoSocket) \in BOOLEAN
    OBVIOUS
  <1>3. /\ PeerUpdate(TRUE, Cardinality(g)) \in Notices
        /\ PeerUpdate(h # NoSocket, Cardinality(g)) \in Notices
    BY <1>1, <1>2 DEF PeerUpdate, Notices
  <1>4. QED
    BY <1>1, <1>3 DEF PeerUpdateSent

\* What is next from a client, and what its peer is to the server.
LEMMA NextFrame ==
    ASSUME PartyInv, NEW s \in Sockets, up[s] # <<>>
    PROVE  /\ Head(up[s]) \in FromClient /\ wire[s] # "idle" /\ LineOK(s) /\ SeatOK(s)
           /\ Head(up[s]).type = "accepted" => peers[s] = Absent
           /\ Head(up[s]).type = "join" => /\ Head(up[s]).code = SessionCode
                                           /\ Head(up[s]).role = RoleOf(s)
           /\ Head(up[s]).type = "closed" => wire[s] = "down"
           /\ SessionOfPeer(s) \in {NoCode, SessionCode}
           /\ SessionOfPeer(s) = SessionCode <=> /\ peers[s].role \in {"host", "guest"}
                                                 /\ sessionOf[SessionCode] = SessionCode
  <1>1. up[s] \in Seq(FromClient) /\ LineOK(s) /\ SeatOK(s) /\ wire[s] \in {"idle", "up", "down"}
    BY DEF PartyInv, PartyTypes, Lines, Seats
  <1>2. Head(up[s]) = up[s][1] /\ 1 \in 1 .. Len(up[s]) /\ Head(up[s]) \in FromClient
    BY <1>1, Unqueued
  <1>3. /\ wire[s] # "idle"
        /\ Head(up[s]).type = "accepted" => peers[s] = Absent
        /\ Head(up[s]).type = "join" => Head(up[s]).role = RoleOf(s)
        /\ Head(up[s]).type = "closed" => wire[s] = "down"
    BY <1>1, <1>2 DEF LineOK
  <1>4. peers[s] \in {Absent, Named} \cup Joined /\ sessionOf[SessionCode] \in {SessionCode, NoCode}
    BY DEF PartyInv, Seats
  <1>5. /\ SessionOfPeer(s) \in {NoCode, SessionCode}
        /\ SessionOfPeer(s) = SessionCode <=> /\ peers[s].role \in {"host", "guest"}
                                              /\ sessionOf[SessionCode] = SessionCode
    <2>1. CASE peers[s] \in Joined
      BY <1>4, <2>1, PeerTyped, CodeKnown DEF SessionOfPeer
    <2>2. CASE peers[s] \in {Absent, Named}
      BY <2>2, PeerTyped, CodeKnown DEF SessionOfPeer
    <2>3. QED
      BY <1>4, <2>1, <2>2
  <1>6. QED
    BY <1>1, <1>2, <1>3, <1>5, Typed

LEMMA PartyArrives ==
    ASSUME PartyInv, NEW s \in Sockets, OnClientConnected(s), UNCHANGED callVars
    PROVE  PartyInv'
  <1>1. /\ up[s] # <<>> /\ Head(up[s]).type = "accepted" /\ up' = Consume(s)
        /\ peers' = [peers EXCEPT ![s] = Named]
        /\ UNCHANGED <<wire, down, sessionOf, host, guests>>
    BY DEF OnClientConnected, HeadIs, Named
  <1>2. peers[s] = Absent
    BY <1>1, NextFrame
  <1>3. /\ \A x \in Sockets : x # s => peers'[x] = peers[x]
        /\ peers'[s].role = "none" /\ peers[s].role = "absent"
        /\ peers' \in [Sockets -> {Absent, Named} \cup Joined]
    BY <1>1, <1>2, PeerTyped DEF PartyInv, Seats
  <1>4. ASSUME NEW x \in Sockets PROVE SeatOK(x)'
    <2>1. SeatOK(x)
      BY DEF PartyInv, Seats
    <2>2. QED
      BY <1>1, <1>3, <2>1 DEF SeatOK, RoleOf
  <1>5. Seats'
    BY <1>1, <1>3, <1>4 DEF PartyInv, Seats
  <1>6. down' = [x \in Sockets |-> down'[x]] /\ \A x \in Sockets : Told(x)
    BY <1>1 DEF PartyInv, PartyTypes, Told
  <1>7. QED
    BY <1>1, <1>3, <1>5, <1>6, PartyServes

\* A peer leaves: its seat is free, whether or not somebody is left to be told.
LEMMA Left ==
    ASSUME PartyInv, NEW s \in Sockets, OnSocketDisconnected(s)
    PROVE  /\ up[s] # <<>> /\ Head(up[s]).type = "closed" /\ up' = Consume(s) /\ UNCHANGED wire
           /\ peers' = [peers EXCEPT ![s] = Absent]
           /\ DOMAIN host' = Codes /\ DOMAIN guests' = Codes /\ DOMAIN sessionOf' = Codes
           /\ host'[SessionCode] = HostSeatAfter(SessionCode, s)
           /\ guests'[SessionCode] = GuestSeatsAfter(SessionCode, s)
           /\ sessionOf'[SessionCode] \in {SessionCode, NoCode}
           /\ sessionOf'[SessionCode] = NoCode =>
                 host'[SessionCode] = NoSocket /\ guests'[SessionCode] = {}
           /\ \/ down' = PeerUpdateSent(host'[SessionCode], guests'[SessionCode])
              \/ /\ down' = down
                 /\ \/ host'[SessionCode] = NoSocket /\ guests'[SessionCode] = {}
                    \/ UNCHANGED <<host, guests>>
  <1> DEFINE r == SessionOfPeer(s)
  <1>1. /\ up[s] # <<>> /\ Head(up[s]).type = "closed" /\ up' = Consume(s) /\ UNCHANGED wire
        /\ peers' = [peers EXCEPT ![s] = Absent]
    BY DEF OnSocketDisconnected, HeadIs
  <1>2. /\ r \in {NoCode, SessionCode} /\ SeatOK(s)
        /\ r = SessionCode <=> peers[s].role \in {"host", "guest"}
                               /\ sessionOf[SessionCode] = SessionCode
    BY <1>1, NextFrame
  <1>3. /\ DOMAIN host = Codes /\ DOMAIN guests = Codes /\ DOMAIN sessionOf = Codes
        /\ sessionOf[SessionCode] \in {SessionCode, NoCode} /\ SessionCode \in Codes
        /\ sessionOf[SessionCode] = NoCode =>
              host[SessionCode] = NoSocket /\ guests[SessionCode] = {}
        /\ host[SessionCode] # NoSocket => peers[host[SessionCode]].role = "host"
        /\ guests[SessionCode] \subseteq Sockets
    BY CodeKnown DEF PartyInv, Seats
  <1>4. CASE r = NoCode
    <2>1. UNCHANGED <<down, sessionOf, host, guests>>
      BY <1>4 DEF OnSocketDisconnected
    <2>2. s \notin guests[SessionCode] /\ host[SessionCode] # s
      BY <1>2, <1>3, <1>4, CodeKnown, SocketsAssumption DEF SeatOK
    <2>3. QED
      BY <1>1, <1>3, <2>1, <2>2 DEF HostSeatAfter, GuestSeatsAfter
  <1>5. CASE r = SessionCode
    <2> DEFINE h == HostSeatAfter(SessionCode, s)
               g == GuestSeatsAfter(SessionCode, s)
    <2>1. /\ host' = [host EXCEPT ![SessionCode] = h]
          /\ guests' = [guests EXCEPT ![SessionCode] = g]
          /\ \/ /\ h = NoSocket /\ g = {} /\ UNCHANGED down
                /\ sessionOf' = [c \in Codes |-> IF sessionOf[c] = SessionCode THEN NoCode
                                                 ELSE sessionOf[c]]
             \/ down' = PeerUpdateSent(h, g) /\ UNCHANGED sessionOf
      BY <1>5, CodeKnown DEF OnSocketDisconnected
    <2>2. host'[SessionCode] = h /\ guests'[SessionCode] = g
      BY <1>3, <2>1
    <2>3. QED
      BY <1>1, <1>2, <1>3, <1>5, <2>1, <2>2, CodeKnown
  <1>6. QED
    BY <1>2, <1>4, <1>5

LEMMA PartyLeaves ==
    ASSUME PartyInv, NEW s \in Sockets, OnSocketDisconnected(s), UNCHANGED callVars
    PROVE  PartyInv'
  <1> DEFINE h == HostSeatAfter(SessionCode, s)
             g == GuestSeatsAfter(SessionCode, s)
  <1>1. /\ up[s] # <<>> /\ up' = Consume(s) /\ UNCHANGED wire
        /\ peers' = [peers EXCEPT ![s] = Absent]
        /\ host'[SessionCode] = h /\ guests'[SessionCode] = g
        /\ down' = PeerUpdateSent(h, g) \/ down' = down
    BY Left
  <1>2. /\ \A x \in Sockets : x # s => peers'[x] = peers[x]
        /\ peers'[s].role = "absent"
        /\ peers' \in [Sockets -> {Absent, Named} \cup Joined]
    BY <1>1, PeerTyped DEF PartyInv, Seats
  <1>3. /\ h \in (Sockets \cup {NoSocket}) \ {s} /\ h \in {host[SessionCode], NoSocket}
        /\ g = guests[SessionCode] \ {s} /\ g \subseteq Sockets
        /\ host[SessionCode] # s => h = host[SessionCode]
    BY SocketsAssumption DEF HostSeatAfter, GuestSeatsAfter, PartyInv, Seats
  <1>4. ASSUME NEW x \in Sockets PROVE SeatOK(x)'
    <2>1. SeatOK(x)
      BY DEF PartyInv, Seats
    <2>2. QED
      BY <1>1, <1>2, <1>3, <2>1 DEF SeatOK, RoleOf
  <1>5. host'[SessionCode] # NoSocket => peers'[host'[SessionCode]].role = "host"
    BY <1>1, <1>2, <1>3 DEF PartyInv, Seats
  <1>6. Seats'
    BY <1>1, <1>2, <1>3, <1>4, <1>5, Left DEF Seats
  <1>7. down' = [x \in Sockets |-> down'[x]] /\ \A x \in Sockets : Told(x)
    <2>1. CASE down' = down
      BY <2>1 DEF PartyInv, PartyTypes, Told
    <2>2. CASE down' = PeerUpdateSent(h, g)
      <3>1. g \in SUBSET Sockets
        BY <1>3
      <3> HIDE DEF h, g
      <3>2. QED
        BY <2>2, <3>1, RosterSent DEF Told
    <2>3. QED
      BY <1>1, <2>1, <2>2
  <1>8. QED
    BY <1>1, <1>2, <1>6, <1>7, PartyServes

\* A peer joins: what the seats, and the connection of a host that is replaced, become.
LEMMA Seated ==
    ASSUME PartyInv, NEW s \in Sockets, OnJoin(s)
    PROVE  /\ up[s] # <<>> /\ Head(up[s]).type = "join" /\ wire[s] # "idle"
           /\ peers[s].role # "absent"
           /\ peers' = [peers EXCEPT ![s] = [code |-> SessionCode, role |-> RoleOf(s)]]
           /\ DOMAIN host' = Codes /\ DOMAIN guests' = Codes /\ DOMAIN sessionOf' = Codes
           /\ sessionOf'[SessionCode] = SessionCode
           /\ RoleOf(s) = "host" =>
                 /\ host'[SessionCode] = s /\ guests'[SessionCode] = guests[SessionCode]
           /\ RoleOf(s) = "guest" =>
                 /\ host'[SessionCode] = host[SessionCode]
                 /\ guests'[SessionCode] = guests[SessionCode] \cup {s}
           /\ \A x \in Sockets :
                 IF RoleOf(s) = "host" /\ host[SessionCode] = x /\ x # s /\ Live(x)
                 THEN /\ wire'[x] = "down" /\ up'[x] = Append(up[x], Closed)
                      /\ down'[x] = Append(down[x], Closed)
                 ELSE /\ wire'[x] = wire[x]
                      /\ up'[x] = IF x = s THEN Tail(up[s]) ELSE up[x]
                      /\ down'[x] = PeerUpdateSent(host'[SessionCode], guests'[SessionCode])[x]
           /\ wire' = [x \in Sockets |-> wire'[x]] /\ up' = [x \in Sockets |-> up'[x]]
           /\ down' = [x \in Sockets |-> down'[x]]
  <1> DEFINE role == Head(up[s]).role
             r    == IF sessionOf[SessionCode] = NoCode THEN SessionCode
                     ELSE sessionOf[SessionCode]
             h    == IF role = "host" THEN s ELSE host[r]
             g    == IF role = "guest" THEN guests[r] \cup {s} ELSE guests[r]
             old  == IF role = "host" /\ host[r] # s THEN host[r] ELSE NoSocket
             ends == {old} \cap {x \in Sockets : Live(x)}
             sent == PeerUpdateSent(h, g)
  <1>1. up[s] # <<>> /\ Head(up[s]).type = "join" /\ peers[s].role # "absent"
    BY DEF OnJoin, HeadIs
  <1>2. Head(up[s]).code = SessionCode /\ role = RoleOf(s) /\ wire[s] # "idle"
    BY <1>1, NextFrame
  <1>3. r = SessionCode /\ SessionCode \in Codes
        /\ DOMAIN host = Codes /\ DOMAIN guests = Codes /\ DOMAIN sessionOf = Codes
    BY CodeKnown DEF PartyInv, Seats
  <1>4. /\ sessionOf' = [sessionOf EXCEPT ![SessionCode] = r]
        /\ host' = [host EXCEPT ![r] = h]
        /\ guests' = [guests EXCEPT ![r] = g]
        /\ peers' = [peers EXCEPT ![s] = [code |-> SessionCode, role |-> role]]
        /\ wire' = [x \in Sockets |-> IF x \in ends THEN "down" ELSE wire[x]]
        /\ up' = [x \in Sockets |-> IF x \in ends THEN Append(up[x], Closed) ELSE Consume(s)[x]]
        /\ down' = [x \in Sockets |-> IF x \in ends THEN Append(down[x], Closed) ELSE sent[x]]
    BY <1>2 DEF OnJoin
  <1>5. /\ host'[SessionCode] = h /\ guests'[SessionCode] = g
        /\ sessionOf'[SessionCode] = SessionCode
        /\ DOMAIN host' = Codes /\ DOMAIN guests' = Codes /\ DOMAIN sessionOf' = Codes
    BY <1>3, <1>4
  <1>6. \A x \in Sockets : Consume(s)[x] = IF x = s THEN Tail(up[s]) ELSE up[x]
    BY DEF Consume, PartyInv, PartyTypes
  <1>7. \A x \in Sockets :
           x \in ends <=> RoleOf(s) = "host" /\ host[SessionCode] = x /\ x # s /\ Live(x)
    BY <1>2, <1>3, SocketsAssumption
  <1>8. RoleOf(s) \in {"host", "guest"}
    BY DEF RoleOf
  <1> HIDE DEF ends, sent
  <1>9. \A x \in Sockets :
           /\ x \in ends => /\ wire'[x] = "down" /\ up'[x] = Append(up[x], Closed)
                            /\ down'[x] = Append(down[x], Closed)
           /\ x \notin ends => /\ wire'[x] = wire[x] /\ down'[x] = sent[x]
                               /\ up'[x] = IF x = s THEN Tail(up[s]) ELSE up[x]
    BY <1>4, <1>6
  <1>10. sent = PeerUpdateSent(host'[SessionCode], guests'[SessionCode])
    BY <1>5 DEF sent
  <1>11. /\ wire' = [x \in Sockets |-> wire'[x]] /\ up' = [x \in Sockets |-> up'[x]]
         /\ down' = [x \in Sockets |-> down'[x]]
    BY <1>4
  <1>12. peers' = [peers EXCEPT ![s] = [code |-> SessionCode, role |-> RoleOf(s)]]
    BY <1>2, <1>4
  <1>13. /\ RoleOf(s) = "host" => /\ host'[SessionCode] = s
                                  /\ guests'[SessionCode] = guests[SessionCode]
         /\ RoleOf(s) = "guest" => /\ host'[SessionCode] = host[SessionCode]
                                   /\ guests'[SessionCode] = guests[SessionCode] \cup {s}
    BY <1>2, <1>3, <1>5
  <1> HIDE DEF role, r, h, g, old
  <1>14. QED
    BY <1>1, <1>2, <1>5, <1>7, <1>9, <1>10, <1>11, <1>12, <1>13

LEMMA PartyJoins ==
    ASSUME PartyInv, NEW s \in Sockets, OnJoin(s), UNCHANGED callVars
    PROVE  PartyInv'
  <1> DEFINE Ends(x) == RoleOf(s) = "host" /\ host[SessionCode] = x /\ x # s /\ Live(x)
             h == host'[SessionCode]
             g == guests'[SessionCode]
  <1>1. UNCHANGED <<current, view, enabled, call, refused, crossed>>
    BY DEF callVars
  <1>2. /\ up[s] # <<>> /\ wire[s] # "idle"
        /\ peers' = [peers EXCEPT ![s] = [code |-> SessionCode, role |-> RoleOf(s)]]
        /\ \A x \in Sockets : ~Ends(x) =>
              /\ wire'[x] = wire[x] /\ up'[x] = IF x = s THEN Tail(up[s]) ELSE up[x]
              /\ down'[x] = PeerUpdateSent(h, g)[x]
        /\ \A x \in Sockets : Ends(x) =>
              /\ wire'[x] = "down" /\ up'[x] = Append(up[x], Closed)
              /\ down'[x] = Append(down[x], Closed)
    BY Seated
  <1>3. /\ h \in Sockets \cup {NoSocket} /\ g \subseteq Sockets
        /\ RoleOf(s) \in {"host", "guest"}
        /\ RoleOf(s) = "host" => h = s /\ g = guests[SessionCode]
        /\ RoleOf(s) = "guest" => h = host[SessionCode] /\ g = guests[SessionCode] \cup {s}
    BY Seated DEF RoleOf, PartyInv, Seats
  <1>4. /\ \A x \in Sockets : x # s => peers'[x] = peers[x]
        /\ peers'[s].role = RoleOf(s)
        /\ peers' \in [Sockets -> {Absent, Named} \cup Joined]
    BY <1>2, <1>3, PeerTyped DEF PartyInv, Seats
  <1>5. ASSUME NEW x \in Sockets PROVE SeatOK(x)'
    <2>1. SeatOK(x) /\ SeatOK(s) /\ (peers[x].role = "host" => wire[x] # "idle")
          /\ wire[x] \in {"idle", "up", "down"} /\ RoleOf(x)' = RoleOf(x)
      BY PeerTyped DEF PartyInv, PartyTypes, Seats, Lines, LineOK, RoleOf
    <2>2. CASE x = s
      BY <1>3, <1>4, <2>1, <2>2 DEF SeatOK
    <2>3. CASE x # s
      <3>1. /\ x \in guests[SessionCode] <=> peers[x].role = "guest"
            /\ peers[x].role \in {"host", "guest"} => peers[x].role = RoleOf(x)
            /\ peers[x].role = "host" => host[SessionCode] = x \/ wire[x] = "down"
        BY <2>1 DEF SeatOK
      <3>2. wire'[x] = wire[x] \/ wire'[x] = "down"
        BY <1>2
      <3>3. peers[x].role = "host" => h = x \/ wire'[x] = "down"
        BY <1>2, <1>3, <2>1, <2>3, <3>1, <3>2 DEF Live
      <3>4. QED
        BY <1>3, <1>4, <2>1, <2>3, <3>1, <3>3 DEF SeatOK
    <2>4. QED
      BY <2>2, <2>3
  <1>6. h # NoSocket => peers'[h].role = "host"
    BY <1>3, <1>4 DEF PartyInv, Seats, SeatOK
  <1>7. Seats'
    BY <1>3, <1>4, <1>5, <1>6, Seated, CodeKnown DEF Seats
  <1>8. ASSUME NEW x \in Sockets
        PROVE  /\ LineOK(x)' /\ wire'[x] \in {"idle", "up", "down"}
               /\ down'[x] \in Seq(ToClient) /\ up'[x] \in Seq(FromClient)
    <2>1. LineOK(x) /\ up[x] \in Seq(FromClient) /\ down[x] \in Seq(ToClient)
          /\ wire[x] \in {"idle", "up", "down"}
      BY DEF PartyInv, PartyTypes, Lines
    <2>2. CASE ~Ends(x)
      <3>1. Told(x)
        <4>1. g \in SUBSET Sockets /\ down'[x] = PeerUpdateSent(h, g)[x]
          BY <1>2, <1>3, <2>2
        <4> HIDE DEF h, g
        <4>2. \/ PeerUpdateSent(h, g)[x] = down[x]
              \/ Live(x) /\ \E m \in Notices \cup Voices :
                    PeerUpdateSent(h, g)[x] = Append(down[x], m)
          BY <4>1, RosterSent
        <4>3. QED
          BY <4>1, <4>2 DEF Told
      <3>2. \/ up'[x] = up[x] /\ peers'[x] = peers[x]
            \/ up[x] # <<>> /\ up'[x] = Tail(up[x])
        BY <1>2, <1>4, <2>2
      <3>3. wire'[x] = wire[x]
        BY <1>2, <2>2
      <3>4. QED
        BY <1>1, <2>1, <3>1, <3>2, <3>3, LineTold
    <2>3. CASE Ends(x)
      <3>1. wire'[x] = "down" /\ up'[x] = Append(up[x], Closed) /\ peers'[x] = peers[x]
            /\ down'[x] = Append(down[x], Closed)
        BY <1>2, <1>4, <2>3
      <3>2. /\ up'[x] \in Seq(FromClient) /\ down'[x] \in Seq(ToClient)
            /\ \A k \in 1 .. Len(up'[x]) :
                  \/ k \in 1 .. Len(up[x]) /\ up'[x][k] = up[x][k]
                  \/ up'[x][k] = Closed
        BY <2>1, <3>1, Typed, Queued
      <3>3. QED
        BY <1>1, <2>1, <3>1, <3>2 DEF LineOK, Live, RoleOf, Closed
    <2>4. QED
      BY <2>2, <2>3
  <1>9. PartyTypes'
    <2>1. /\ wire' \in [Sockets -> {"idle", "up", "down"}]
          /\ up' \in [Sockets -> Seq(FromClient)] /\ down' \in [Sockets -> Seq(ToClient)]
      BY <1>8, Seated
    <2>2. QED
      BY <1>1, <2>1 DEF PartyInv, PartyTypes
  <1>10. QED
    BY <1>1, <1>7, <1>8, <1>9 DEF PartyInv, Lines

\* A request goes to the only guest or to the host, if there are not more guests.
LEMMA Relayed ==
    ASSUME PartyInv, NEW s \in Sockets, OnRelay(s)
    PROVE  /\ up[s] # <<>> /\ up' = Consume(s) /\ UNCHANGED <<wire, server>>
           /\ Head(up[s]) \in Voices
           /\ down' = [x \in Sockets |-> down'[x]]
           /\ \A x \in Sockets : down'[x] =
                 IF /\ SessionOfPeer(s) = SessionCode
                    /\ ~(Cardinality(guests[SessionCode]) > 1)
                    /\ IF peers[s].role = "host" THEN x \in guests[SessionCode]
                       ELSE x = host[SessionCode]
                    /\ Live(x)
                 THEN Append(down[x], Head(up[s])) ELSE down[x]
  <1> DEFINE m == Head(up[s])
             r == SessionOfPeer(s)
  <1>1. /\ up[s] # <<>> /\ up' = Consume(s) /\ UNCHANGED <<wire, server>>
        /\ m.type \notin {"accepted", "closed", "join", "ping"}
        /\ down' = SentTo(Recipients(s, m.type), m)
    BY DEF OnRelay
  <1>2. m \in Voices /\ r \in {NoCode, SessionCode} /\ r = SessionOfPeer(s)
    BY <1>1, NextFrame, Typed
  <1>3. /\ m.type \in VoiceFrames /\ m.type \notin HostOnlyFrames
        /\ m.type \notin PublicFrames /\ m.type # "intent"
    BY <1>2 DEF Voices, VoiceFrames, HostOnlyFrames, PublicFrames
  <1> HIDE DEF m, r
  <1>4. \A x \in Sockets : x \in Recipients(s, m.type) <=>
           /\ r = SessionCode
           /\ ~(Cardinality(guests[SessionCode]) > 1)
           /\ IF peers[s].role = "host" THEN x \in guests[SessionCode]
              ELSE x = host[SessionCode]
    BY <1>2, <1>3, CodeKnown, SocketsAssumption DEF Recipients
  <1>5. \A x \in Sockets : down'[x] = IF x \in Recipients(s, m.type) /\ Live(x)
                                      THEN Append(down[x], m) ELSE down[x]
    BY <1>1 DEF SentTo
  <1>6. down' = [x \in Sockets |-> down'[x]]
    BY <1>1 DEF SentTo
  <1>7. QED
    BY <1>1, <1>2, <1>4, <1>5, <1>6 DEF m, r

LEMMA PartyRelays ==
    ASSUME PartyInv, NEW s \in Sockets, OnRelay(s), UNCHANGED callVars
    PROVE  PartyInv'
  <1>1. /\ up[s] # <<>> /\ up' = Consume(s) /\ UNCHANGED <<wire, server>>
        /\ down' = [x \in Sockets |-> down'[x]]
    BY Relayed
  <1>2. \A x \in Sockets : Told(x)
    BY Relayed DEF Told
  <1>3. Seats' /\ peers' = peers
    BY <1>1, SeatsStay DEF PartyInv, server
  <1>4. QED
    BY <1>1, <1>2, <1>3, PartyServes

\* Nobody pings here.
LEMMA NoPing == ASSUME PartyInv, NEW s \in Sockets PROVE ~OnPing(s)
  BY NextFrame, Typed DEF OnPing, HeadIs

\* What a press of a button may do.
LEMMA RequestAsks ==
    ASSUME NEW p \in Instances, NEW type \in {"relay_voice_start", "relay_voice_stop"},
           crossed \in BOOLEAN, Requests(p, type)
    PROVE  Asked(p) /\ crossed' \in BOOLEAN
  BY DEF Requests, Sent, Connected, Asked, Voices, VoiceFrame, OthersRequest

LEMMA ButtonsAsk ==
    ASSUME PartyInv, NEW p \in Instances,
           StartVoiceCall(p) \/ EndCall(p) \/ SetVoiceEnabled(p) \/ SetCaptureDevice(p)
    PROVE  /\ Asked(p) /\ UNCHANGED <<wire, down, server, current, view>>
           /\ enabled' \in [Instances -> BOOLEAN]
           /\ call' \in [Instances -> {"Idle", "Connected", "Failed"}]
           /\ refused' \in BOOLEAN /\ crossed' \in BOOLEAN
  <1>1. /\ enabled \in [Instances -> BOOLEAN] /\ refused \in BOOLEAN /\ crossed \in BOOLEAN
        /\ call \in [Instances -> {"Idle", "Connected", "Failed"}]
    BY DEF PartyInv, PartyTypes
  <1>2. CASE StartVoiceCall(p)
    BY <1>1, <1>2, RequestAsks DEF StartVoiceCall, Asked
  <1>3. ASSUME StopVoiceCall(p)
        PROVE  /\ Asked(p) /\ call' \in [Instances -> {"Idle", "Connected", "Failed"}]
               /\ crossed' \in BOOLEAN
    BY <1>1, <1>3, RequestAsks DEF StopVoiceCall, Asked
  <1>4. CASE EndCall(p)
    BY <1>1, <1>3, <1>4 DEF EndCall
  <1>5. CASE SetVoiceEnabled(p)
    BY <1>1, <1>3, <1>5 DEF SetVoiceEnabled, Asked
  <1>6. CASE SetCaptureDevice(p)
    BY <1>1, <1>6 DEF SetCaptureDevice, net, Asked
  <1>7. QED
    BY <1>2, <1>4, <1>5, <1>6

\* What a client does with what is next for it.
LEMMA ClientHears ==
    ASSUME PartyInv, NEW p \in Instances, ClientTask(p)
    PROVE  /\ current[p] # NoSocket /\ down[current[p]] # <<>>
           /\ down' = [down EXCEPT ![current[p]] = Tail(@)]
           /\ UNCHANGED <<wire, up, server, enabled, crossed>>
           /\ \/ UNCHANGED current
              \/ /\ Event(p).type = "closed" /\ UNCHANGED view
                 /\ current' = [current EXCEPT ![p] = NoSocket]
           /\ IF Event(p).type = "peer_update"
              THEN view' = [view EXCEPT ![p] = [host |-> Event(p).host, guests |-> Event(p).guests]]
              ELSE UNCHANGED view
           /\ view' \in [Instances -> Views] /\ refused' \in BOOLEAN
           /\ call' \in [Instances -> {"Idle", "Connected", "Failed"}]
  <1>1. /\ view \in [Instances -> Views] /\ refused \in BOOLEAN
        /\ call \in [Instances -> {"Idle", "Connected", "Failed"}]
        /\ current \in [Instances -> Sockets \cup {NoSocket}]
        /\ down \in [Sockets -> Seq(ToClient)]
    BY DEF PartyInv, PartyTypes
  <1>2. CASE OnDisconnected(p)
    BY <1>1, <1>2 DEF OnDisconnected, Hears, Connected, Event
  <1>3. CASE OnRelayPeerUpdate(p)
    <2>1. current[p] # NoSocket /\ down[current[p]] # <<>> /\ Event(p).type = "peer_update"
      BY <1>3 DEF OnRelayPeerUpdate, Hears, Connected
    <2>2. Event(p) \in ToClient
      BY <1>1, <2>1, Unqueued DEF Event
    <2>3. [host |-> Event(p).host, guests |-> Event(p).guests] \in Views
      BY <2>1, <2>2, Typed DEF Views
    <2>4. call' \in [Instances -> {"Idle", "Connected", "Failed"}]
      BY <1>1, <1>3 DEF OnRelayPeerUpdate
    <2>5. QED
      BY <1>1, <1>3, <2>1, <2>3, <2>4 DEF OnRelayPeerUpdate, Hears
  <1>4. CASE OnRelayVoiceStart(p)
    <2>1. call' \in [Instances -> {"Idle", "Connected", "Failed"}] /\ refused' \in BOOLEAN
      BY <1>1, <1>4 DEF OnRelayVoiceStart
    <2>2. QED
      BY <1>1, <1>4, <2>1 DEF OnRelayVoiceStart, Hears, Connected, Event
  <1>5. CASE OnRelayVoiceStop(p)
    BY <1>1, <1>5 DEF OnRelayVoiceStop, Hears, Connected, Event
  <1>6. QED
    BY <1>2, <1>3, <1>4, <1>5 DEF ClientTask

\* Every step keeps the frames, the connections and the seats in order.
LEMMA PartyKeeps == PartyInv /\ [VoiceCallNext]_voiceCallVars => PartyInv'
  <1> SUFFICES ASSUME PartyInv, [VoiceCallNext]_voiceCallVars PROVE PartyInv'
    OBVIOUS
  <1>1. ASSUME NEW p \in Instances,
               StartVoiceCall(p) \/ EndCall(p) \/ SetVoiceEnabled(p) \/ SetCaptureDevice(p)
        PROVE  PartyInv'
    BY <1>1, ButtonsAsk, PartyAsks
  <1>2. ASSUME NEW p \in Instances, ClientTask(p) PROVE PartyInv'
    BY <1>2, ClientHears, PartyHears DEF Event
  <1>3. ASSUME NEW p \in Instances, NEW s \in Sockets, Connect(p, s) PROVE PartyInv'
    BY <1>3, PartyConnects
  <1>4. ASSUME NEW s \in Sockets, Drop(s) PROVE PartyInv'
    BY <1>4, PartyDrops
  <1>5. ASSUME NEW s \in Sockets, ServerTask(s), UNCHANGED callVars PROVE PartyInv'
    BY <1>5, NoPing, PartyArrives, PartyLeaves, PartyJoins, PartyRelays
       DEF ServerTask, OnTextMessage
  <1>6. CASE UNCHANGED voiceCallVars
    BY <1>6 DEF voiceCallVars, net, server, callVars, PartyInv, PartyTypes, Lines, LineOK, Live,
                Seats, SeatOK, RoleOf
  <1>7. QED
    BY <1>1, <1>2, <1>3, <1>4, <1>5, <1>6 DEF VoiceCallNext

(***************************************************************************)
(* What an instance thinks of the session.                                 *)
(***************************************************************************)

Pair == [host |-> TRUE, guests |-> 1]
Roster == [host |-> host[SessionCode] # NoSocket, guests |-> Cardinality(guests[SessionCode])]
Member(s) == s \in guests[SessionCode] \/ s = host[SessionCode]

IsNotice(m) == m.type = "peer_update"
Tells(m, v) == IsNotice(m) /\ m.host = v.host /\ m.guests = v.guests

\* Who has view v and handles q has view w just before its k-th frame.
Known(q, v, k, w) ==
    \/ v = w /\ \A i \in 1 .. (k - 1) : ~IsNotice(q[i])
    \/ \E i \in 1 .. (k - 1) : Tells(q[i], w) /\ \A j \in (i + 1) .. (k - 1) : ~IsNotice(q[j])

IsStart(m) == m.type = "relay_voice_start"
Timely(q, v) == \A k \in 1 .. Len(q) : IsStart(q[k]) => Known(q, v, k, Pair)
Learns(q, v, w) == Known(q, v, Len(q) + 1, w)

\* No start arrives where voice is not available, and who is a member hears the truth.
Informed(p) ==
    current[p] # NoSocket =>
       /\ Timely(down[current[p]], view[p])
       /\ Live(current[p]) /\ Member(current[p]) => Learns(down[current[p]], view[p], Roster)

StartsAreTimely == \A p \in Instances : Informed(p)

\* The connections of the host have not broken.
HostHolds == \A s \in SocketsOf[Host] : wire[s] # "down"

HostInv == PartyInv /\ (HostHolds => StartsAreTimely)

\* Only what comes before matters.
LEMMA KnownFrom ==
    ASSUME NEW q, NEW r, NEW v, NEW w, NEW k \in Nat,
           \A i \in 1 .. (k - 1) : q[i] = r[i], Known(q, v, k, w)
    PROVE  Known(r, v, k, w)
  <1>1. CASE v = w /\ \A i \in 1 .. (k - 1) : ~IsNotice(q[i])
    BY <1>1 DEF Known
  <1>2. ASSUME NEW i \in 1 .. (k - 1), Tells(q[i], w),
               \A j \in (i + 1) .. (k - 1) : ~IsNotice(q[j])
        PROVE  Known(r, v, k, w)
    <2>1. \A j \in (i + 1) .. (k - 1) : ~IsNotice(r[j])
      BY <1>2
    <2>2. QED
      BY <1>2, <2>1 DEF Known
  <1>3. QED
    BY <1>1, <1>2 DEF Known

\* The first frame is handled.
LEMMA KnownHeard ==
    ASSUME NEW S, NEW q \in Seq(S), q # <<>>, NEW v, NEW u, NEW w, NEW k \in 1 .. Len(q),
           Known(q, v, k + 1, w),
           IF IsNotice(Head(q)) THEN Tells(Head(q), w) => u = w ELSE u = v
    PROVE  Known(Tail(q), u, k, w)
  <1> DEFINE rest == Tail(q)
  <1>1. /\ Len(q) \in Nat \ {0} /\ Head(q) = q[1] /\ Len(rest) = Len(q) - 1
        /\ \A i \in 1 .. Len(rest) : rest[i] = q[i + 1]
    BY Unqueued
  <1> HIDE DEF rest
  <1>2. CASE v = w /\ \A i \in 1 .. k : ~IsNotice(q[i])
    <2>1. u = w /\ \A i \in 1 .. (k - 1) : i + 1 \in 1 .. k /\ rest[i] = q[i + 1]
      BY <1>1, <1>2
    <2>2. Known(rest, u, k, w)
      BY <1>2, <2>1 DEF Known
    <2>3. QED
      BY <2>2 DEF rest
  <1>3. ASSUME NEW i \in 1 .. k, Tells(q[i], w), \A j \in (i + 1) .. k : ~IsNotice(q[j])
        PROVE  Known(rest, u, k, w)
    <2>1. CASE i > 1
      <3>1. i - 1 \in 1 .. (k - 1) /\ rest[i - 1] = q[i]
        BY <1>1, <2>1
      <3>2. \A j \in ((i - 1) + 1) .. (k - 1) : j + 1 \in (i + 1) .. k /\ rest[j] = q[j + 1]
        BY <1>1, <2>1
      <3>3. QED
        BY <1>3, <3>1, <3>2 DEF Known
    <2>2. CASE i = 1
      <3>1. u = w
        BY <1>1, <1>3, <2>2 DEF Tells
      <3>2. \A j \in 1 .. (k - 1) : j + 1 \in (i + 1) .. k /\ rest[j] = q[j + 1]
        BY <1>1, <2>2
      <3>3. QED
        BY <1>3, <3>1, <3>2 DEF Known
    <2>3. QED
      BY <2>1, <2>2
  <1>4. (k + 1) - 1 = k
    OBVIOUS
  <1>5. QED
    BY <1>2, <1>3, <1>4 DEF Known, rest

\* One frame more: a roster is news, anything else is not.
LEMMA LearnsMore ==
    ASSUME NEW S, NEW q \in Seq(S), NEW m \in S, NEW v, NEW w,
           Tells(m, w) \/ (~IsNotice(m) /\ Learns(q, v, w))
    PROVE  Learns(Append(q, m), v, w)
  <1> DEFINE more == Append(q, m)
             n    == Len(q) + 1
  <1>1. /\ Len(q) \in Nat /\ Len(more) = n /\ more[n] = m
        /\ \A i \in 1 .. Len(q) : more[i] = q[i]
    BY Queued
  <1>2. n \in Nat /\ (n + 1) - 1 = n /\ n - 1 = Len(q)
    BY <1>1
  <1> HIDE DEF more, n
  <1>3. CASE Tells(m, w)
    <2>1. n \in 1 .. n /\ (n + 1) .. n = {}
      BY <1>1, <1>2
    <2>2. Known(more, v, n + 1, w)
      BY <1>1, <1>2, <1>3, <2>1 DEF Known
    <2>3. QED
      BY <1>1, <2>2 DEF Learns, more
  <1>4. CASE ~IsNotice(m) /\ Learns(q, v, w)
    <2>1. \A i \in 1 .. n : (i \in 1 .. Len(q) /\ more[i] = q[i]) \/ (i = n /\ more[i] = m)
      <3>1. \A i \in 1 .. n : i \in 1 .. Len(q) \/ i = n
        BY <1>1, <1>2
      <3>2. QED
        BY <1>1, <3>1
    <2>2. CASE v = w /\ \A i \in 1 .. Len(q) : ~IsNotice(q[i])
      <3>1. \A i \in 1 .. n : ~IsNotice(more[i])
        BY <1>4, <2>1, <2>2
      <3>2. QED
        BY <1>1, <1>2, <2>2, <3>1 DEF Known, Learns, more
    <2>3. ASSUME NEW i \in 1 .. Len(q), Tells(q[i], w),
                 \A j \in (i + 1) .. Len(q) : ~IsNotice(q[j])
          PROVE  Known(more, v, n + 1, w)
      <3>1. \A j \in (i + 1) .. n : ~IsNotice(more[j])
        <4>1. ASSUME NEW j \in (i + 1) .. n PROVE ~IsNotice(more[j])
          <5>1. (j \in (i + 1) .. Len(q) /\ more[j] = q[j]) \/ more[j] = m
            BY <1>1, <1>2
          <5>2. QED
            BY <1>4, <2>3, <5>1
        <4>2. QED
          BY <4>1
      <3>2. i \in 1 .. n /\ Tells(more[i], w)
        BY <1>1, <1>2, <2>3
      <3>3. QED
        BY <1>2, <3>1, <3>2 DEF Known
    <2>4. Known(more, v, n + 1, w)
      BY <1>1, <1>2, <1>4, <2>2, <2>3 DEF Known, Learns, n, more
    <2>5. QED
      BY <1>1, <2>4 DEF Learns, more
  <1>5. QED
    BY <1>3, <1>4

LEMMA TimelyHeard ==
    ASSUME NEW S, NEW q \in Seq(S), q # <<>>, NEW v, NEW u,
           IF IsNotice(Head(q)) THEN \A w \in Views : Tells(Head(q), w) => u = w ELSE u = v
    PROVE  /\ Timely(q, v) => Timely(Tail(q), u)
           /\ \A w \in Views : Learns(q, v, w) => Learns(Tail(q), u, w)
  <1>1. /\ Len(q) \in Nat \ {0} /\ Len(Tail(q)) = Len(q) - 1
        /\ \A i \in 1 .. Len(Tail(q)) : i + 1 \in 1 .. Len(q) /\ Tail(q)[i] = q[i + 1]
    BY Unqueued
  <1>2. ASSUME NEW w \in Views, NEW k \in 1 .. Len(q), Known(q, v, k + 1, w)
        PROVE  Known(Tail(q), u, k, w)
    <2>1. IF IsNotice(Head(q)) THEN Tells(Head(q), w) => u = w ELSE u = v
      OBVIOUS
    <2>2. QED
      BY <1>2, <2>1, KnownHeard
  <1>3. Pair \in Views
    BY DEF Pair, Views
  <1>4. ASSUME Timely(q, v), NEW k \in 1 .. Len(Tail(q)), IsStart(Tail(q)[k])
        PROVE  Known(Tail(q), u, k, Pair)
    <2>1. k \in 1 .. Len(q) /\ k + 1 \in 1 .. Len(q) /\ IsStart(q[k + 1])
      BY <1>1, <1>4
    <2>2. Known(q, v, k + 1, Pair)
      BY <1>4, <2>1 DEF Timely
    <2>3. QED
      BY <1>2, <1>3, <2>1, <2>2
  <1>5. ASSUME NEW w \in Views, Learns(q, v, w) PROVE Learns(Tail(q), u, w)
    <2>1. Len(q) \in 1 .. Len(q) /\ Len(Tail(q)) + 1 = Len(q)
      BY <1>1
    <2>2. QED
      BY <1>2, <1>5, <2>1 DEF Learns
  <1>6. QED
    BY <1>4, <1>5 DEF Timely

LEMMA TimelyMore ==
    ASSUME NEW S, NEW q \in Seq(S), NEW m \in S, NEW v, Timely(q, v),
           IsStart(m) => Learns(q, v, Pair)
    PROVE  Timely(Append(q, m), v)
  <1> DEFINE more == Append(q, m)
  <1>1. /\ Len(q) \in Nat /\ Len(more) = Len(q) + 1 /\ more[Len(q) + 1] = m
        /\ \A i \in 1 .. Len(q) : more[i] = q[i]
    BY Queued
  <1> HIDE DEF more
  <1>2. ASSUME NEW k \in 1 .. Len(more), IsStart(more[k]) PROVE Known(more, v, k, Pair)
    <2>1. k \in Nat /\ \A i \in 1 .. (k - 1) : q[i] = more[i]
      BY <1>1
    <2>2. Known(q, v, k, Pair)
      <3>1. CASE k \in 1 .. Len(q)
        BY <1>1, <1>2, <3>1 DEF Timely
      <3>2. CASE k = Len(q) + 1
        BY <1>1, <1>2, <3>2 DEF Learns
      <3>3. QED
        BY <1>1, <3>1, <3>2
    <2>3. QED
      BY <2>1, <2>2, KnownFrom
  <1>3. QED
    BY <1>2 DEF Timely, more

LEMMA TimelyCut ==
    ASSUME NEW S, NEW q \in Seq(S), NEW m \in S, NEW n \in 0 .. Len(q), NEW v, Timely(q, v),
           ~IsStart(m)
    PROVE  Timely(Append(SubSeq(q, 1, n), m), v)
  <1> DEFINE some == Append(SubSeq(q, 1, n), m)
  <1>1. /\ Len(some) = n + 1 /\ some[n + 1] = m
        /\ \A i \in 1 .. n : i \in 1 .. Len(q) /\ some[i] = q[i]
    BY Cut
  <1> HIDE DEF some
  <1>2. ASSUME NEW k \in 1 .. Len(some), IsStart(some[k]) PROVE Known(some, v, k, Pair)
    <2>1. n \in Nat /\ k \in 1 .. n
      BY <1>1, <1>2
    <2>2. k \in Nat /\ \A i \in 1 .. (k - 1) : q[i] = some[i]
      BY <1>1, <2>1
    <2>3. Known(q, v, k, Pair)
      BY <1>1, <1>2, <2>1 DEF Timely
    <2>4. QED
      BY <2>2, <2>3, KnownFrom
  <1>3. QED
    BY <1>2 DEF Timely, some

\* Nobody has heard of anything on a connection that is new.
LEMMA NothingSaid == \A v : Timely(<<>>, v)
  BY Nothing DEF Timely

LEMMA BrokenStays ==
    ASSUME PartyInv, [VoiceCallNext]_voiceCallVars, NEW s \in Sockets, wire[s] = "down"
    PROVE  wire'[s] = "down"
  <1>1. ASSUME NEW p \in Instances,
               StartVoiceCall(p) \/ EndCall(p) \/ SetVoiceEnabled(p) \/ SetCaptureDevice(p)
        PROVE  wire'[s] = "down"
    BY <1>1, ButtonsAsk
  <1>2. ASSUME NEW p \in Instances, ClientTask(p) PROVE wire'[s] = "down"
    BY <1>2, ClientHears
  <1>3. ASSUME NEW p \in Instances, NEW x \in Sockets, Connect(p, x) PROVE wire'[s] = "down"
    BY <1>3 DEF Connect, PartyInv, PartyTypes
  <1>4. ASSUME NEW x \in Sockets, Drop(x) PROVE wire'[s] = "down"
    BY <1>4 DEF Drop, WireDrop, PartyInv, PartyTypes
  <1>5. ASSUME NEW x \in Sockets, ServerTask(x) PROVE wire'[s] = "down"
    <2>1. CASE OnJoin(x)
      BY <2>1, Seated
    <2>2. QED
      BY <1>5, <2>1, NoPing, Left, Relayed DEF ServerTask, OnTextMessage, OnClientConnected
  <1>6. CASE UNCHANGED voiceCallVars
    BY <1>6 DEF voiceCallVars, net
  <1>7. QED
    BY <1>1, <1>2, <1>3, <1>4, <1>5, <1>6 DEF VoiceCallNext

\* Somebody is asked something only if there are two, the sender and the receiver.
LEMMA AskedInAPair ==
    ASSUME PartyInv, HostHolds, NEW s \in Sockets, OnRelay(s), NEW x \in Sockets,
           down'[x] # down[x]
    PROVE  /\ Live(x) /\ Roster = Pair /\ Head(up[s]) \in Voices
           /\ down'[x] = Append(down[x], Head(up[s]))
           /\ \/ s \in guests[SessionCode] /\ x = host[SessionCode]
              \/ s = host[SessionCode] /\ x \in guests[SessionCode]
  <1> DEFINE g == guests[SessionCode]
  <1>1. /\ SessionOfPeer(s) = SessionCode /\ ~(Cardinality(g) > 1) /\ Live(x)
        /\ IF peers[s].role = "host" THEN x \in g ELSE x = host[SessionCode]
        /\ down'[x] = Append(down[x], Head(up[s])) /\ Head(up[s]) \in Voices /\ up[s] # <<>>
    BY Relayed
  <1>2. peers[s].role \in {"host", "guest"} /\ SeatOK(s)
    BY <1>1, NextFrame, CodeKnown
  <1>3. /\ host[SessionCode] # NoSocket /\ g # {}
        /\ \/ s \in guests[SessionCode] /\ x = host[SessionCode]
           \/ s = host[SessionCode] /\ x \in guests[SessionCode]
    <2>1. CASE peers[s].role = "host"
      <3>1. s \in SocketsOf[Host]
        BY <1>2, <2>1 DEF SeatOK, RoleOf
      <3>2. s = host[SessionCode]
        BY <1>2, <2>1, <3>1 DEF SeatOK, HostHolds
      <3>3. QED
        BY <1>1, <2>1, <3>2, SocketsAssumption
    <2>2. CASE peers[s].role = "guest"
      <3>1. s \in g
        BY <1>2, <2>2 DEF SeatOK
      <3>2. QED
        BY <1>1, <2>2, <3>1, SocketsAssumption
    <2>3. QED
      BY <1>2, <2>1, <2>2
  <1>4. Cardinality(g) = 1
    <2>1. IsFiniteSet(g) /\ Cardinality(g) \in Nat
      BY SocketsAssumption, FS_Subset, FS_CardinalityType DEF PartyInv, Seats
    <2>2. Cardinality(g) # 0
      BY <1>3, <2>1, FS_EmptySet
    <2>3. QED
      BY <1>1, <2>1, <2>2
  <1>5. QED
    BY <1>1, <1>3, <1>4 DEF Roster, Pair

\* Who lives and is a member is told the roster.
LEMMA RosterHeard ==
    ASSUME NEW h, NEW g \in SUBSET Sockets, NEW x \in Sockets, Live(x), x = h \/ x \in g
    PROVE  \E m \in Notices : /\ PeerUpdateSent(h, g)[x] = Append(down[x], m)
                              /\ Tells(m, [host |-> h # NoSocket, guests |-> Cardinality(g)])
  <1>1. /\ PeerUpdate(TRUE, Cardinality(g)) \in Notices
        /\ PeerUpdate(h # NoSocket, Cardinality(g)) \in Notices
    BY RosterSent
  <1> DEFINE w == [host |-> h # NoSocket, guests |-> Cardinality(g)]
  <1>2. CASE x = h
    <2>1. PeerUpdateSent(h, g)[x] = Append(down[x], PeerUpdate(TRUE, Cardinality(g)))
      BY <1>2 DEF PeerUpdateSent
    <2>2. (h # NoSocket) = TRUE
      BY <1>2, SocketsAssumption
    <2>3. Tells(PeerUpdate(TRUE, Cardinality(g)), w)
      BY <2>2 DEF Tells, IsNotice, PeerUpdate
    <2>4. QED
      BY <1>1, <2>1, <2>3
  <1>3. CASE x # h
    <2>1. PeerUpdateSent(h, g)[x] = Append(down[x], PeerUpdate(h # NoSocket, Cardinality(g)))
      BY <1>3 DEF PeerUpdateSent
    <2>2. Tells(PeerUpdate(h # NoSocket, Cardinality(g)), w)
      BY DEF Tells, IsNotice, PeerUpdate
    <2>3. QED
      BY <1>1, <2>1, <2>2
  <1>4. QED
    BY <1>2, <1>3

\* No two instances hear on the same connection.
LEMMA OwnEars ==
    ASSUME PartyInv, NEW p \in Instances, NEW q \in Instances, p # q, current[p] # NoSocket
    PROVE  current[q] # current[p]
  BY OneOwner DEF PartyInv, Lines

\* What the server does to a stream, and what a member makes of it.
LEMMA StillInformed ==
    ASSUME PartyInv, NEW q \in Instances, Informed(q), UNCHANGED <<current, view>>,
           current[q] # NoSocket, wire'[current[q]] = wire[current[q]],
           \/ /\ down'[current[q]] = down[current[q]]
              /\ (Live(current[q]) /\ Member(current[q]))' =>
                    (Live(current[q]) /\ Member(current[q]) /\ Roster' = Roster)
           \/ \E m \in Notices : /\ down'[current[q]] = Append(down[current[q]], m)
                                 /\ Tells(m, Roster')
    PROVE  Informed(q)'
  <1> DEFINE x == current[q]
             v == view[q]
  <1>1. down[x] \in Seq(ToClient) /\ Timely(down[x], v)
    BY DEF PartyInv, PartyTypes, Informed
  <1>2. CASE /\ down'[x] = down[x]
             /\ (Live(x) /\ Member(x))' => Live(x) /\ Member(x) /\ Roster' = Roster
    BY <1>2 DEF Informed
  <1>3. ASSUME NEW m \in Notices, down'[x] = Append(down[x], m), Tells(m, Roster')
        PROVE  Informed(q)'
    <2>1. m \in ToClient /\ ~IsStart(m)
      BY Typed DEF Notices, IsStart
    <2>2. Timely(down'[x], v)
      BY <1>1, <1>3, <2>1, TimelyMore
    <2>3. Learns(down'[x], v, Roster')
      BY <1>1, <1>3, <2>1, LearnsMore
    <2>4. QED
      BY <2>2, <2>3 DEF Informed
  <1>4. QED
    BY <1>2, <1>3

LEMMA ClientInformed ==
    ASSUME PartyInv, StartsAreTimely, NEW p \in Instances, ClientTask(p)
    PROVE  StartsAreTimely'
  <1> DEFINE x == current[p]
  <1>1. /\ x # NoSocket /\ down[x] # <<>> /\ down' = [down EXCEPT ![x] = Tail(@)]
        /\ UNCHANGED <<wire, host, guests>>
        /\ current' = current \/ current' = [current EXCEPT ![p] = NoSocket]
        /\ IF Head(down[x]).type = "peer_update"
           THEN view' = [view EXCEPT ![p] = [host |-> Event(p).host, guests |-> Event(p).guests]]
           ELSE view' = view
    BY ClientHears DEF server, Event
  <1>2. /\ x \in Sockets /\ down[x] \in Seq(ToClient)
        /\ view \in [Instances -> Views] /\ current \in [Instances -> Sockets \cup {NoSocket}]
        /\ DOMAIN down = Sockets
    BY <1>1 DEF PartyInv, PartyTypes
  <1>3. ASSUME NEW q \in Instances, q # p, current'[q] # NoSocket PROVE Informed(q)'
    <2>1. /\ current'[q] = current[q] /\ current[q] # x /\ view'[q] = view[q]
          /\ current[q] \in Sockets
      BY <1>1, <1>2, <1>3, OwnEars
    <2>2. down'[current[q]] = down[current[q]] /\ Informed(q)
      BY <1>1, <1>2, <2>1 DEF StartsAreTimely
    <2>3. QED
      BY <1>1, <2>1, <2>2 DEF Informed, Live, Member, Roster
  <1>4. ASSUME current'[p] # NoSocket PROVE Informed(p)'
    <2>1. current'[p] = x /\ down'[x] = Tail(down[x]) /\ Informed(p)
      BY <1>1, <1>2, <1>4 DEF StartsAreTimely
    <2>2. IF IsNotice(Head(down[x])) THEN \A w \in Views : Tells(Head(down[x]), w) => view'[p] = w
          ELSE view'[p] = view[p]
      <3>1. CASE IsNotice(Head(down[x]))
        <4>1. view'[p] = [host |-> Head(down[x]).host, guests |-> Head(down[x]).guests]
          BY <1>1, <1>2, <3>1 DEF IsNotice, Event
        <4>2. QED
          BY <3>1, <4>1 DEF Tells, Views
      <3>2. CASE ~IsNotice(Head(down[x]))
        BY <1>1, <3>2 DEF IsNotice
      <3>3. QED
        BY <3>1, <3>2
    <2>3. Roster \in Views /\ Roster' = Roster
      BY <1>1, RosterSent DEF Roster, Views, PartyInv, Seats
    <2>4. /\ Timely(down[x], view[p]) => Timely(Tail(down[x]), view'[p])
          /\ Learns(down[x], view[p], Roster) => Learns(Tail(down[x]), view'[p], Roster)
      BY <1>1, <1>2, <2>2, <2>3, TimelyHeard
    <2>5. Live(x)' = Live(x)' /\ wire'[x] = wire[x] /\ host' = host /\ guests' = guests
      BY <1>1
    <2>6. QED
      BY <1>1, <2>1, <2>3, <2>4, <2>5 DEF Informed, Live, Member
  <1>5. QED
    BY <1>3, <1>4 DEF StartsAreTimely, Informed

\* The roster changes for everybody, and everybody is told.
LEMMA AllInformed ==
    ASSUME PartyInv, StartsAreTimely, UNCHANGED <<wire, current, view>>,
           host'[SessionCode] \in Sockets \cup {NoSocket}, guests'[SessionCode] \subseteq Sockets,
           \A x \in Sockets :
              down'[x] = PeerUpdateSent(host'[SessionCode], guests'[SessionCode])[x]
    PROVE  StartsAreTimely'
  <1> DEFINE h == host'[SessionCode]
             g == guests'[SessionCode]
  <1>1. ASSUME NEW q \in Instances, current[q] # NoSocket PROVE Informed(q)'
    <2> DEFINE x == current[q]
    <2>1. x \in Sockets /\ g \in SUBSET Sockets /\ down'[x] = PeerUpdateSent(h, g)[x]
      BY <1>1 DEF PartyInv, PartyTypes
    <2>2. CASE Live(x) /\ (x = h \/ x \in g)
      <3>1. \E m \in Notices : /\ PeerUpdateSent(h, g)[x] = Append(down[x], m)
                               /\ Tells(m, [host |-> h # NoSocket, guests |-> Cardinality(g)])
        <4> HIDE DEF h, g, x
        <4>1. QED
          BY <2>1, <2>2, RosterHeard
      <3>2. \E m \in Notices : down'[x] = Append(down[x], m) /\ Tells(m, Roster')
        BY <2>1, <3>1 DEF Roster
      <3>3. QED
        BY <1>1, <3>2, StillInformed DEF StartsAreTimely
    <2>3. CASE ~(Live(x) /\ (x = h \/ x \in g))
      <3>1. ~(Live(x) /\ Member(x))'
        BY <2>3 DEF Live, Member
      <3>2. down'[x] = down[x]
        BY <2>1, <2>3 DEF PeerUpdateSent
      <3>3. QED
        BY <1>1, <3>1, <3>2, StillInformed DEF StartsAreTimely
    <2>4. QED
      BY <2>2, <2>3
  <1>2. QED
    BY <1>1 DEF StartsAreTimely, Informed

LEMMA RelayInformed ==
    ASSUME PartyInv, StartsAreTimely, HostHolds, NEW s \in Sockets, OnRelay(s), UNCHANGED callVars
    PROVE  StartsAreTimely'
  <1>1. UNCHANGED <<wire, host, guests, current, view>> /\ Roster' = Roster
    BY Relayed DEF server, callVars, Roster
  <1>2. ASSUME NEW q \in Instances, current[q] # NoSocket PROVE Informed(q)'
    <2> DEFINE x == current[q]
               m == Head(up[s])
    <2>1. x \in Sockets /\ down[x] \in Seq(ToClient) /\ Informed(q)
      BY <1>2 DEF PartyInv, PartyTypes, StartsAreTimely
    <2>2. CASE down'[x] = down[x]
      BY <1>1, <2>1, <2>2 DEF Informed, Live, Member
    <2>3. CASE down'[x] # down[x]
      <3>1. Live(x) /\ Roster = Pair /\ m \in Voices /\ down'[x] = Append(down[x], m) /\ Member(x)
        BY <2>1, <2>3, AskedInAPair DEF Member
      <3>2. m \in ToClient /\ ~IsNotice(m)
        BY <3>1, Typed DEF Voices, IsNotice
      <3>3. Timely(down[x], view[q]) /\ Learns(down[x], view[q], Roster)
        BY <1>2, <2>1, <3>1 DEF Informed
      <3>4. Timely(down'[x], view[q])
        BY <2>1, <3>1, <3>2, <3>3, TimelyMore
      <3>5. Learns(down'[x], view[q], Roster)
        BY <2>1, <3>1, <3>2, <3>3, LearnsMore
      <3>6. QED
        BY <1>1, <3>4, <3>5 DEF Informed
    <2>4. QED
      BY <2>2, <2>3
  <1>3. QED
    BY <1>1, <1>2 DEF StartsAreTimely, Informed

LEMMA HostKeeps == HostInv /\ [VoiceCallNext]_voiceCallVars => HostInv'
  <1> SUFFICES ASSUME HostInv, [VoiceCallNext]_voiceCallVars, HostHolds' PROVE StartsAreTimely'
    BY PartyKeeps DEF HostInv
  <1>1. PartyInv
    BY DEF HostInv
  <1>2. HostHolds
    <2>1. ASSUME NEW s \in SocketsOf[Host] PROVE s \in Sockets
      BY VoiceCallAssumption DEF Instances
    <2>2. QED
      BY <1>1, <2>1, BrokenStays DEF HostHolds
  <1>3. StartsAreTimely
    BY <1>2 DEF HostInv
  <1>4. ASSUME NEW p \in Instances,
               StartVoiceCall(p) \/ EndCall(p) \/ SetVoiceEnabled(p) \/ SetCaptureDevice(p)
        PROVE  StartsAreTimely'
    <2>1. UNCHANGED <<wire, down, server, current, view>>
      BY <1>1, <1>4, ButtonsAsk
    <2>2. QED
      BY <1>3, <2>1 DEF server, StartsAreTimely, Informed, Live, Member, Roster
  <1>5. ASSUME NEW p \in Instances, ClientTask(p) PROVE StartsAreTimely'
    BY <1>1, <1>3, <1>5, ClientInformed
  <1>6. ASSUME NEW p \in Instances, NEW s \in Sockets, Connect(p, s) PROVE StartsAreTimely'
    <2>1. /\ wire[s] = "idle" /\ wire' = [wire EXCEPT ![s] = "up"]
          /\ current' = [current EXCEPT ![p] = s] /\ UNCHANGED <<down, host, guests, view>>
      BY <1>6 DEF Connect, server
    <2>2. LineOK(s) /\ SeatOK(s) /\ down[s] = <<>> /\ peers[s] = Absent
          /\ current \in [Instances -> Sockets \cup {NoSocket}]
          /\ wire \in [Sockets -> {"idle", "up", "down"}]
      BY <1>1, <2>1 DEF PartyInv, PartyTypes, Lines, Seats, LineOK
    <2>3. ~Member(s)
      BY <1>1, <2>2, PeerTyped, SocketsAssumption DEF Member, SeatOK, PartyInv, Seats
    <2>4. ASSUME NEW q \in Instances, current'[q] # NoSocket PROVE Informed(q)'
      <3>1. CASE q = p
        <4>1. current'[q] = s /\ down'[s] = <<>> /\ ~Member(s)'
          BY <2>1, <2>2, <2>3, <3>1 DEF Member
        <4>2. QED
          BY <4>1, NothingSaid DEF Informed, Member
      <3>2. CASE q # p
        <4>1. current'[q] = current[q] /\ current[q] \in Sockets
              /\ Informed(q)
          BY <1>3, <2>1, <2>2, <2>4, <3>2 DEF StartsAreTimely
        <4>2. CASE current[q] = s
          BY <2>1, <2>2, <2>3, <4>1, <4>2, NothingSaid DEF Informed, Member
        <4>3. CASE current[q] # s
          <5>1. wire'[current[q]] = wire[current[q]]
            BY <2>1, <2>2, <4>1, <4>3
          <5>2. QED
            BY <2>1, <4>1, <5>1 DEF Informed, Live, Member, Roster
        <4>4. QED
          BY <4>2, <4>3
      <3>3. QED
        BY <3>1, <3>2
    <2>5. QED
      BY <2>4 DEF StartsAreTimely, Informed
  <1>7. ASSUME NEW s \in Sockets, Drop(s) PROVE StartsAreTimely'
    <2>1. /\ wire' = [wire EXCEPT ![s] = "down"] /\ UNCHANGED <<host, guests, current, view>>
          /\ wire \in [Sockets -> {"idle", "up", "down"}] /\ down \in [Sockets -> Seq(ToClient)]
      BY <1>1, <1>7 DEF Drop, WireDrop, server, callVars, PartyInv, PartyTypes
    <2>2. PICK j \in 0 .. Len(down[s]) :
             down' = [down EXCEPT ![s] = Append(SubSeq(down[s], 1, j), Closed)]
      BY <1>7 DEF Drop, WireDrop, Broken
    <2>3. ASSUME NEW q \in Instances, current[q] # NoSocket PROVE Informed(q)'
      <3>1. current[q] \in Sockets /\ Informed(q)
        BY <1>1, <1>3, <2>3 DEF StartsAreTimely, PartyInv, PartyTypes
      <3>2. CASE current[q] # s
        <4>1. wire'[current[q]] = wire[current[q]] /\ down'[current[q]] = down[current[q]]
          BY <2>1, <2>2, <3>1, <3>2
        <4>2. QED
          BY <2>1, <3>1, <4>1 DEF Informed, Live, Member, Roster
      <3>3. CASE current[q] = s
        <4>1. Timely(down[s], view[q]) /\ down[s] \in Seq(ToClient) /\ ~IsStart(Closed)
              /\ Closed \in ToClient
          BY <2>1, <2>3, <3>1, <3>3, Typed DEF Informed, IsStart, Closed
        <4>2. Timely(Append(SubSeq(down[s], 1, j), Closed), view[q])
          BY <4>1, TimelyCut
        <4>3. down'[s] = Append(SubSeq(down[s], 1, j), Closed) /\ wire'[s] = "down"
          BY <2>1, <2>2
        <4>4. QED
          BY <2>1, <3>3, <4>2, <4>3 DEF Informed, Live
      <3>4. QED
        BY <3>2, <3>3
    <2>4. QED
      BY <2>1, <2>3 DEF StartsAreTimely, Informed
  <1>8. ASSUME NEW s \in Sockets, OnClientConnected(s), UNCHANGED callVars PROVE StartsAreTimely'
    <2>1. UNCHANGED <<wire, down, host, guests, current, view>>
      BY <1>8 DEF OnClientConnected, callVars
    <2>2. QED
      BY <1>3, <2>1 DEF StartsAreTimely, Informed, Live, Member, Roster
  <1>9. ASSUME NEW s \in Sockets, OnSocketDisconnected(s), UNCHANGED callVars
        PROVE  StartsAreTimely'
    <2>1. UNCHANGED <<wire, current, view>> /\ PartyInv'
      BY <1>1, <1>9, Left, PartyLeaves DEF callVars
    <2>2. /\ host'[SessionCode] \in Sockets \cup {NoSocket}
          /\ guests'[SessionCode] \subseteq Sockets
      BY <2>1 DEF PartyInv, Seats
    <2>3. CASE down' = PeerUpdateSent(host'[SessionCode], guests'[SessionCode])
      BY <1>1, <1>3, <2>1, <2>2, <2>3, AllInformed
    <2>4. CASE down' = down /\ UNCHANGED <<host, guests>>
      BY <1>3, <2>1, <2>4 DEF StartsAreTimely, Informed, Live, Member, Roster
    <2>5. CASE down' = down /\ host'[SessionCode] = NoSocket /\ guests'[SessionCode] = {}
      <3>1. \A x \in Sockets : ~Member(x)'
        BY <2>5, SocketsAssumption DEF Member
      <3>2. QED
        BY <1>1, <1>3, <2>1, <2>5, <3>1 DEF StartsAreTimely, Informed, Live, Member, PartyInv,
                                            PartyTypes
    <2>6. QED
      BY <1>1, <1>9, <2>3, <2>4, <2>5, Left
  <1>10. ASSUME NEW s \in Sockets, OnJoin(s), UNCHANGED callVars PROVE StartsAreTimely'
    <2>1. UNCHANGED <<current, view>> /\ PartyInv'
      BY <1>1, <1>10, PartyJoins DEF callVars
    <2>2. ASSUME NEW x \in Sockets
          PROVE  /\ wire'[x] = wire[x]
                 /\ down'[x] = PeerUpdateSent(host'[SessionCode], guests'[SessionCode])[x]
      <3>1. ASSUME RoleOf(s) = "host", host[SessionCode] = x, x # s, Live(x) PROVE FALSE
        <4>1. peers[x].role = "host" /\ SeatOK(x)
          BY <1>1, <3>1, SocketsAssumption DEF PartyInv, Seats
        <4>2. x \in SocketsOf[Host]
          BY <4>1 DEF SeatOK, RoleOf
        <4>3. wire'[x] = "down"
          BY <1>1, <1>10, <3>1, Seated
        <4>4. QED
          BY <4>2, <4>3 DEF HostHolds
      <3>2. QED
        BY <1>1, <1>10, <3>1, Seated
    <2>3. wire' = wire
      BY <1>1, <2>1, <2>2 DEF PartyInv, PartyTypes
    <2>4. QED
      BY <1>1, <1>3, <2>1, <2>2, <2>3, AllInformed DEF PartyInv, Seats
  <1>11. ASSUME NEW s \in Sockets, OnRelay(s), UNCHANGED callVars PROVE StartsAreTimely'
    BY <1>1, <1>2, <1>3, <1>11, RelayInformed
  <1>12. CASE UNCHANGED voiceCallVars
    BY <1>3, <1>12 DEF voiceCallVars, net, server, callVars, StartsAreTimely, Informed, Live,
                       Member, Roster
  <1>13. QED
    BY <1>1, <1>4, <1>5, <1>6, <1>7, <1>8, <1>9, <1>10, <1>11, <1>12, NoPing
       DEF VoiceCallNext, ServerTask, OnTextMessage

\* The connections of the host are to its own server, and hold.
HostStays == SocketsOf[Host] \cap MayDrop = {}

\* The connection an instance lives on is the one it has.
LEMMA LivesOn ==
    ASSUME PartyInv, NEW p \in Instances, NEW s \in SocketsOf[p], Live(s)
    PROVE  current[p] = s
  <1>1. s \in Sockets
    BY VoiceCallAssumption
  <1>2. PICK q \in Instances : current[q] = s
    BY <1>1 DEF PartyInv, Lines, LineOK
  <1>3. s \in SocketsOf[q]
    BY <1>1, <1>2, SocketsAssumption DEF PartyInv, Lines
  <1>4. QED
    BY <1>2, <1>3, OneOwner

LEMMA HostStaysOn ==
    ASSUME HostStays, PartyInv, HostHolds, [VoiceCallNext]_voiceCallVars
    PROVE  HostHolds'
  <1> SUFFICES ASSUME NEW x \in SocketsOf[Host], wire'[x] = "down" PROVE FALSE
    BY DEF HostHolds
  <1>1. /\ Host \in Instances /\ x \in Sockets
        /\ wire[x] # "down" /\ wire[x] \in {"idle", "up", "down"}
    BY VoiceCallAssumption DEF Instances, HostHolds, PartyInv, PartyTypes
  <1>2. ASSUME NEW p \in Instances,
               StartVoiceCall(p) \/ EndCall(p) \/ SetVoiceEnabled(p) \/ SetCaptureDevice(p)
        PROVE  FALSE
    BY <1>1, <1>2, ButtonsAsk
  <1>3. ASSUME NEW p \in Instances, ClientTask(p) PROVE FALSE
    BY <1>1, <1>3, ClientHears
  <1>4. ASSUME NEW p \in Instances, NEW s \in Sockets, Connect(p, s) PROVE FALSE
    BY <1>1, <1>4 DEF Connect, PartyInv, PartyTypes
  <1>5. ASSUME NEW s \in Sockets, Drop(s) PROVE FALSE
    BY <1>1, <1>5 DEF Drop, WireDrop, HostStays, PartyInv, PartyTypes
  <1>6. ASSUME NEW s \in Sockets, OnJoin(s) PROVE FALSE
    <2>1. RoleOf(s) = "host" /\ host[SessionCode] = x /\ x # s /\ Live(x)
      BY <1>1, <1>6, Seated
    <2>2. s \in SocketsOf[Host] /\ wire[s] # "idle" /\ wire[s] \in {"idle", "up", "down"}
      BY <1>6, <2>1, Seated DEF RoleOf, PartyInv, PartyTypes
    <2>3. Live(s)
      BY <2>2 DEF HostHolds, Live
    <2>4. QED
      BY <1>1, <2>1, <2>2, <2>3, LivesOn
  <1>7. ASSUME NEW s \in Sockets, ServerTask(s) PROVE FALSE
    BY <1>1, <1>6, <1>7, NoPing, Left, Relayed DEF ServerTask, OnTextMessage, OnClientConnected
  <1>8. CASE UNCHANGED voiceCallVars
    BY <1>1, <1>8 DEF voiceCallVars, net
  <1>9. QED
    BY <1>2, <1>3, <1>4, <1>5, <1>7, <1>8 DEF VoiceCallNext

LEMMA HostInitially == VoiceCallInit => HostInv /\ HostHolds
  <1> SUFFICES ASSUME VoiceCallInit PROVE HostInv /\ HostHolds
    OBVIOUS
  <1>1. HostHolds
    BY VoiceCallAssumption DEF VoiceCallInit, HostHolds, Instances
  <1>2. StartsAreTimely
    BY DEF VoiceCallInit, StartsAreTimely, Informed
  <1>3. QED
    BY <1>1, <1>2, PartyInitially DEF HostInv

\* As long as the host's connections hold, a start finds voice available.
LEMMA StartFound == HostInv /\ HostHolds => StartFindsThePeer
  <1> SUFFICES ASSUME HostInv, HostHolds, NEW p \in Instances, current[p] # NoSocket,
                      down[current[p]] # <<>>, enabled[p], Event(p).type = "relay_voice_start"
               PROVE  VoiceAvailable(p)
    BY DEF StartFindsThePeer, Connected
  <1> DEFINE q == down[current[p]]
  <1>1. q \in Seq(ToClient) /\ Timely(q, view[p]) /\ view[p] \in Views
    BY DEF HostInv, StartsAreTimely, Informed, PartyInv, PartyTypes
  <1>2. 1 \in 1 .. Len(q) /\ IsStart(q[1])
    BY <1>1, Unqueued DEF Event, IsStart
  <1>3. Known(q, view[p], 1, Pair)
    BY <1>1, <1>2 DEF Timely
  <1>4. 1 - 1 = 0 /\ 1 .. 0 = {}
    OBVIOUS
  <1>5. view[p] = Pair
    BY <1>3, <1>4 DEF Known
  <1>6. QED
    BY <1>5 DEF VoiceAvailable, AvailableWith, Connected, Pair

(***************************************************************************)
(* Two ends of a call.                                                     *)
(***************************************************************************)

IsRequest(m) == m.type \in VoiceFrames

\* The last request of a stream is a start.
LastStarts(q) ==
    \E k \in 1 .. Len(q) : IsStart(q[k]) /\ \A l \in (k + 1) .. Len(q) : ~IsRequest(q[l])

\* Whether who is (or is not) in a call will be, having handled d and then u.
Finally(d, u, a) ==
    \/ Carries(u) /\ LastStarts(u)
    \/ ~Carries(u) /\ Carries(d) /\ LastStarts(d)
    \/ ~Carries(u) /\ ~Carries(d) /\ a

\* Streams dA and dB are on their way to two ends, uA and uB come from them; aA and
\* aB say who is in a call.  Requests go one way at a time, and their sender is where
\* they will take the receiver.
Pact(dA, uA, aA, dB, uB, aB) ==
    /\ ~((Carries(uA) \/ Carries(dB)) /\ (Carries(uB) \/ Carries(dA)))
    /\ ~(Carries(uB) \/ Carries(dA)) => (aA <=> Finally(dB, uA, aB))
    /\ ~(Carries(uA) \/ Carries(dB)) => (aB <=> Finally(dA, uB, aA))

\* Two streams ask for the same.
Alike(q, r) == (Carries(q) <=> Carries(r)) /\ (LastStarts(q) <=> LastStarts(r))

LEMMA CarriesRead ==
    ASSUME NEW S, NEW q \in Seq(S)
    PROVE  Carries(q) <=> \E k \in 1 .. Len(q) : IsRequest(q[k])
  <1>1. DOMAIN q = 1 .. Len(q)
    BY LenProperties
  <1>2. QED
    BY <1>1 DEF Carries, IsRequest

LEMMA NothingAsked == ~Carries(<<>>) /\ ~LastStarts(<<>>)
  BY Nothing DEF Carries, LastStarts

LEMMA AskedLast ==
    ASSUME NEW S, NEW q \in Seq(S), NEW m \in S
    PROVE  /\ IsRequest(m) => Carries(Append(q, m)) /\ (LastStarts(Append(q, m)) <=> IsStart(m))
           /\ ~IsRequest(m) => Alike(Append(q, m), q)
  <1> DEFINE more == Append(q, m)
  <1>1. /\ Len(q) \in Nat /\ Len(more) = Len(q) + 1 /\ more[Len(q) + 1] = m
        /\ \A i \in 1 .. Len(q) : more[i] = q[i] /\ more \in Seq(S)
    BY Queued
  <1>2. /\ Carries(q) <=> \E k \in 1 .. Len(q) : IsRequest(q[k])
        /\ Carries(more) <=> \E k \in 1 .. Len(more) : IsRequest(more[k])
    BY CarriesRead, Queued
  <1>3. ~IsRequest(m) => ~IsStart(m)
    BY DEF IsRequest, IsStart, VoiceFrames
  <1> HIDE DEF more
  <1>4. \A i \in 1 .. Len(more) : i \in 1 .. Len(q) \/ i = Len(q) + 1
    BY <1>1
  <1>5. ASSUME IsRequest(m) PROVE Carries(more) /\ (LastStarts(more) <=> IsStart(m))
    <2>1. Len(q) + 1 \in 1 .. Len(more) /\ ((Len(q) + 1) + 1) .. Len(more) = {}
      BY <1>1
    <2>2. Carries(more)
      BY <1>1, <1>2, <1>5, <2>1
    <2>3. ASSUME IsStart(m) PROVE LastStarts(more)
      BY <1>1, <2>1, <2>3 DEF LastStarts
    <2>4. ASSUME LastStarts(more) PROVE IsStart(m)
      <3>1. PICK k \in 1 .. Len(more) :
               IsStart(more[k]) /\ \A l \in (k + 1) .. Len(more) : ~IsRequest(more[l])
        BY <2>4 DEF LastStarts
      <3>2. CASE k \in 1 .. Len(q)
        <4>1. Len(q) + 1 \in (k + 1) .. Len(more)
          BY <1>1, <3>2
        <4>2. QED
          BY <1>1, <1>5, <3>1, <4>1
      <3>3. QED
        BY <1>1, <1>4, <3>1, <3>2
    <2>5. QED
      BY <2>2, <2>3, <2>4
  <1>6. ASSUME ~IsRequest(m) PROVE Alike(more, q)
    <2>1. Carries(more) <=> Carries(q)
      <3>1. ASSUME NEW k \in 1 .. Len(q), IsRequest(q[k])
            PROVE  \E i \in 1 .. Len(more) : IsRequest(more[i])
        <4>1. k \in 1 .. Len(more) /\ more[k] = q[k]
          BY <1>1
        <4>2. QED
          BY <3>1, <4>1
      <3>2. ASSUME NEW k \in 1 .. Len(more), IsRequest(more[k])
            PROVE  \E i \in 1 .. Len(q) : IsRequest(q[i])
        BY <1>1, <1>4, <1>6, <3>2
      <3>3. QED
        BY <1>2, <3>1, <3>2
    <2>2. ASSUME LastStarts(more) PROVE LastStarts(q)
      <3>1. PICK k \in 1 .. Len(more) :
               IsStart(more[k]) /\ \A l \in (k + 1) .. Len(more) : ~IsRequest(more[l])
        BY <2>2 DEF LastStarts
      <3>2. k \in 1 .. Len(q) /\ IsStart(q[k])
        BY <1>1, <1>3, <1>4, <1>6, <3>1
      <3>3. \A l \in (k + 1) .. Len(q) : l \in (k + 1) .. Len(more) /\ more[l] = q[l]
        BY <1>1, <3>2
      <3>4. QED
        BY <3>1, <3>2, <3>3 DEF LastStarts
    <2>3. ASSUME LastStarts(q) PROVE LastStarts(more)
      <3>1. PICK k \in 1 .. Len(q) :
               IsStart(q[k]) /\ \A l \in (k + 1) .. Len(q) : ~IsRequest(q[l])
        BY <2>3 DEF LastStarts
      <3>2. k \in 1 .. Len(more) /\ IsStart(more[k])
        BY <1>1, <3>1
      <3>3. \A l \in (k + 1) .. Len(more) : l \in (k + 1) .. Len(q) \/ l = Len(q) + 1
        BY <1>1, <3>1
      <3>4. \A l \in (k + 1) .. Len(q) : more[l] = q[l]
        BY <1>1, <3>1
      <3>5. \A l \in (k + 1) .. Len(more) : ~IsRequest(more[l])
        BY <1>1, <1>6, <3>1, <3>3, <3>4
      <3>6. QED
        BY <3>2, <3>5 DEF LastStarts
    <2>4. QED
      BY <2>1, <2>2, <2>3 DEF Alike
  <1>7. QED
    BY <1>5, <1>6 DEF more

LEMMA AskedFirst ==
    ASSUME NEW S, NEW q \in Seq(S), q # <<>>
    PROVE  /\ Carries(q) <=> IsRequest(Head(q)) \/ Carries(Tail(q))
           /\ Carries(Tail(q)) => (LastStarts(Tail(q)) <=> LastStarts(q))
           /\ IsRequest(Head(q)) /\ ~Carries(Tail(q)) => (LastStarts(q) <=> IsStart(Head(q)))
           /\ ~IsRequest(Head(q)) => Alike(Tail(q), q)
  <1> DEFINE rest == Tail(q)
  <1>1. /\ Len(q) \in Nat \ {0} /\ Head(q) = q[1] /\ Len(rest) = Len(q) - 1
        /\ \A i \in 1 .. Len(rest) : rest[i] = q[i + 1]
    BY Unqueued
  <1>2. /\ Carries(q) <=> \E k \in 1 .. Len(q) : IsRequest(q[k])
        /\ Carries(rest) <=> \E k \in 1 .. Len(rest) : IsRequest(rest[k])
    BY CarriesRead, Unqueued
  <1>3. \A m : ~IsRequest(m) => ~IsStart(m)
    BY DEF IsRequest, IsStart, VoiceFrames
  <1> HIDE DEF rest
  <1>4. \A k \in 1 .. Len(q) : k = 1 \/ (k - 1 \in 1 .. Len(rest) /\ rest[k - 1] = q[k])
    BY <1>1
  <1>5. \A k \in 1 .. Len(rest) : k + 1 \in 1 .. Len(q) /\ rest[k] = q[k + 1]
    BY <1>1
  <1>6. Carries(q) <=> IsRequest(Head(q)) \/ Carries(rest)
    <2>1. 1 \in 1 .. Len(q)
      BY <1>1
    <2>2. QED
      BY <1>1, <1>2, <1>4, <1>5, <2>1
  <1>7. ASSUME LastStarts(rest) PROVE LastStarts(q)
    <2>1. PICK k \in 1 .. Len(rest) :
             IsStart(rest[k]) /\ \A l \in (k + 1) .. Len(rest) : ~IsRequest(rest[l])
      BY <1>7 DEF LastStarts
    <2>2. \A l \in ((k + 1) + 1) .. Len(q) : l - 1 \in (k + 1) .. Len(rest) /\ rest[l - 1] = q[l]
      BY <1>1, <1>4
    <2>3. k + 1 \in 1 .. Len(q) /\ IsStart(q[k + 1])
      BY <1>5, <2>1
    <2>4. QED
      BY <2>1, <2>2, <2>3 DEF LastStarts
  <1>8. ASSUME LastStarts(q) PROVE LastStarts(rest) \/ (IsStart(Head(q)) /\ ~Carries(rest))
    <2>1. PICK k \in 1 .. Len(q) :
             IsStart(q[k]) /\ \A l \in (k + 1) .. Len(q) : ~IsRequest(q[l])
      BY <1>8 DEF LastStarts
    <2>2. CASE k = 1
      <3>1. \A i \in 1 .. Len(rest) : i + 1 \in (k + 1) .. Len(q) /\ rest[i] = q[i + 1]
        BY <1>1, <2>2
      <3>2. QED
        BY <1>1, <1>2, <2>1, <2>2, <3>1
    <2>3. CASE k # 1
      <3>1. k - 1 \in 1 .. Len(rest) /\ IsStart(rest[k - 1])
        BY <1>4, <2>1, <2>3
      <3>2. \A l \in ((k - 1) + 1) .. Len(rest) : l + 1 \in (k + 1) .. Len(q) /\ rest[l] = q[l + 1]
        BY <1>1, <3>1
      <3>3. QED
        BY <2>1, <3>1, <3>2 DEF LastStarts
    <2>4. QED
      BY <2>2, <2>3
  <1>9. ASSUME LastStarts(rest) PROVE Carries(rest)
    <2>1. PICK k \in 1 .. Len(rest) : IsStart(rest[k])
      BY <1>9 DEF LastStarts
    <2>2. QED
      BY <1>2, <1>3, <2>1
  <1>10. ASSUME IsStart(Head(q)), ~Carries(rest) PROVE LastStarts(q)
    <2>1. 1 \in 1 .. Len(q) /\ IsStart(q[1])
      BY <1>1, <1>10
    <2>2. \A l \in (1 + 1) .. Len(q) : l - 1 \in 1 .. Len(rest) /\ rest[l - 1] = q[l]
      BY <1>1, <1>4
    <2>3. \A l \in (1 + 1) .. Len(q) : ~IsRequest(q[l])
      BY <1>2, <1>10, <2>2
    <2>4. QED
      BY <2>1, <2>3 DEF LastStarts
  <1>11. QED
    BY <1>3, <1>6, <1>7, <1>8, <1>9, <1>10 DEF Alike, rest

LEMMA PactSwaps ==
    ASSUME NEW dA, NEW uA, NEW aA \in BOOLEAN, NEW dB, NEW uB, NEW aB \in BOOLEAN,
           Pact(dA, uA, aA, dB, uB, aB)
    PROVE  Pact(dB, uB, aB, dA, uA, aA)
  BY DEF Pact

\* Nothing is on its way and nobody is in a call.
LEMMA PactRests ==
    ASSUME NEW dA, NEW uA, NEW aA \in BOOLEAN, NEW dB, NEW uB, NEW aB \in BOOLEAN,
           ~Carries(dA), ~Carries(uA), ~Carries(dB), ~Carries(uB), ~aA, ~aB
    PROVE  Pact(dA, uA, aA, dB, uB, aB)
  BY DEF Pact, Finally

LEMMA PactQuiet ==
    ASSUME NEW dA, NEW uA, NEW dB, NEW uB, NEW aA \in BOOLEAN, NEW aB \in BOOLEAN,
           NEW dA2, NEW uA2, NEW dB2, NEW uB2, NEW aA2 \in BOOLEAN, NEW aB2 \in BOOLEAN,
           Alike(dA2, dA), Alike(uA2, uA), Alike(dB2, dB), Alike(uB2, uB), aA2 <=> aA, aB2 <=> aB,
           Pact(dA, uA, aA, dB, uB, aB)
    PROVE  Pact(dA2, uA2, aA2, dB2, uB2, aB2)
  BY DEF Pact, Finally, Alike

\* One end asks while nothing is on its way to it.
LEMMA PactAsks ==
    ASSUME NEW S, NEW uA \in Seq(S), NEW m \in S, IsRequest(m), NEW dA, NEW dB, NEW uB,
           NEW aA \in BOOLEAN, NEW aB \in BOOLEAN,
           ~Carries(dA), ~Carries(uB), aA <=> IsStart(m)
    PROVE  Pact(dA, Append(uA, m), aA, dB, uB, aB)
  <1>1. Carries(Append(uA, m)) /\ (LastStarts(Append(uA, m)) <=> IsStart(m))
    BY AskedLast
  <1>2. QED
    BY <1>1 DEF Pact, Finally

\* The server passes a request on.
LEMMA PactForwards ==
    ASSUME NEW S, NEW uA \in Seq(S), uA # <<>>, IsRequest(Head(uA)), NEW T, NEW dB \in Seq(T),
           Head(uA) \in T, NEW dA, NEW uB, NEW aA \in BOOLEAN, NEW aB \in BOOLEAN,
           Pact(dA, uA, aA, dB, uB, aB)
    PROVE  Pact(dA, Tail(uA), aA, Append(dB, Head(uA)), uB, aB)
  <1>1. /\ Carries(uA)
        /\ Carries(Tail(uA)) => (LastStarts(Tail(uA)) <=> LastStarts(uA))
        /\ ~Carries(Tail(uA)) => (LastStarts(uA) <=> IsStart(Head(uA)))
    BY AskedFirst
  <1>2. /\ Carries(Append(dB, Head(uA)))
        /\ LastStarts(Append(dB, Head(uA))) <=> IsStart(Head(uA))
    BY AskedLast
  <1>3. QED
    BY <1>1, <1>2 DEF Pact, Finally

\* The other end does as it is asked.
LEMMA PactHears ==
    ASSUME NEW S, NEW dB \in Seq(S), dB # <<>>, IsRequest(Head(dB)), NEW dA, NEW uA, NEW uB,
           NEW aA \in BOOLEAN, NEW aB \in BOOLEAN, NEW after \in BOOLEAN,
           after <=> IsStart(Head(dB)), Pact(dA, uA, aA, dB, uB, aB)
    PROVE  Pact(dA, uA, aA, Tail(dB), uB, after)
  <1>1. /\ Carries(dB)
        /\ Carries(Tail(dB)) => (LastStarts(Tail(dB)) <=> LastStarts(dB))
        /\ ~Carries(Tail(dB)) => (LastStarts(dB) <=> IsStart(Head(dB)))
    BY AskedFirst
  <1>2. QED
    BY <1>1 DEF Pact, Finally

(***************************************************************************)
(* A session in which nothing breaks, fails or crosses.                    *)
(***************************************************************************)

Smooth == (\A s \in Sockets : wire[s] # "down") /\ ~refused /\ ~crossed

PairUp == host[SessionCode] # NoSocket /\ guests[SessionCode] # {}
OneGuest == \E x \in Sockets : guests[SessionCode] = {x}

\* Who has not joined has heard nothing, and asks for nothing.
Outsiders ==
    /\ \A p \in Instances :
          current[p] = NoSocket \/ ~Member(current[p]) => view[p] # Pair /\ call[p] = "Idle"
    /\ \A s \in Sockets : ~Member(s) => ~Carries(up[s]) /\ down[s] = <<>>

\* Who thinks that there are two, will hear so, or has to do with a call, is right
\* that there are at least two.
Calling ==
    /\ \A p \in Instances : view[p] = Pair \/ call[p] # "Idle" => PairUp
    /\ \A s \in Sockets :
          /\ \A k \in 1 .. Len(down[s]) : Tells(down[s][k], Pair) => PairUp
          /\ Carries(up[s]) \/ Carries(down[s]) => PairUp

\* As long as there is one guest, nobody who heard so hears anything else.
PairIsNews ==
    OneGuest =>
       /\ \A p \in Instances : current[p] # NoSocket /\ view[p] = Pair =>
             \A k \in 1 .. Len(down[current[p]]) :
                IsNotice(down[current[p]][k]) => Tells(down[current[p]][k], Pair)
       /\ \A s \in Sockets : \A k, l \in 1 .. Len(down[s]) :
             k < l /\ Tells(down[s][k], Pair) /\ IsNotice(down[s][l]) => Tells(down[s][l], Pair)

\* The host and its only guest come to agree.
Ends(p, s, q, t) == Pact(down[s], up[s], Active(p), down[t], up[t], Active(q))
EndsAgree ==
    \A g \in Guests : \A h, x \in Sockets :
       host[SessionCode] = h /\ guests[SessionCode] = {x} /\ current[g] = x => Ends(Host, h, g, x)

SmoothRun == Outsiders /\ Calling /\ PairIsNews /\ EndsAgree

\* Members live, the host as the host and the guests as guests.
LEMMA MembersLive ==
    ASSUME PartyInv, Smooth, NEW s \in Sockets, Member(s)
    PROVE  /\ Live(s) /\ peers[s].role = RoleOf(s) /\ SessionOfPeer(s) = SessionCode
           /\ IF s = host[SessionCode] THEN RoleOf(s) = "host" /\ current[Host] = s
              ELSE RoleOf(s) = "guest" /\ \E g \in Guests : current[g] = s
  <1>1. /\ SeatOK(s) /\ LineOK(s) /\ wire[s] \in {"idle", "up", "down"} /\ wire[s] # "down"
        /\ host[SessionCode] # NoSocket => peers[host[SessionCode]].role = "host"
        /\ sessionOf[SessionCode] \in {SessionCode, NoCode}
        /\ sessionOf[SessionCode] = NoCode =>
              host[SessionCode] = NoSocket /\ guests[SessionCode] = {}
        /\ peers[s] \in {Absent, Named} \cup Joined
    BY DEF PartyInv, PartyTypes, Lines, Seats, Smooth
  <1>2. s = host[SessionCode] => s # NoSocket
    BY SocketsAssumption
  <1>3. /\ peers[s].role = IF s = host[SessionCode] THEN "host" ELSE "guest"
        /\ peers[s].role = RoleOf(s)
    BY <1>1, <1>2 DEF Member, SeatOK
  <1>4. Live(s)
    BY <1>1, <1>3, PeerTyped DEF LineOK, Live
  <1>5. SessionOfPeer(s) = SessionCode
    <2>1. sessionOf[SessionCode] = SessionCode
      BY <1>1, <1>2 DEF Member
    <2>2. peers[s].code = SessionCode
      BY <1>1, <1>3, PeerTyped
    <2>3. QED
      BY <2>1, <2>2, CodeKnown DEF SessionOfPeer
  <1>6. PICK p \in Instances : current[p] = s
    BY <1>1, <1>4 DEF LineOK
  <1>7. s \in SocketsOf[p] /\ Host \in Instances
    BY <1>6, SocketsAssumption DEF PartyInv, Lines, Instances
  <1>8. CASE s = host[SessionCode]
    <2>1. s \in SocketsOf[Host]
      BY <1>3, <1>8 DEF RoleOf
    <2>2. QED
      BY <1>3, <1>4, <1>5, <1>6, <1>7, <1>8, <2>1, OneOwner
  <1>9. CASE s # host[SessionCode]
    <2>1. s \notin SocketsOf[Host]
      BY <1>3, <1>9 DEF RoleOf
    <2>2. p \in Guests
      BY <1>7, <2>1 DEF Instances
    <2>3. QED
      BY <1>3, <1>4, <1>5, <1>6, <1>9, <2>2
  <1>10. QED
    BY <1>8, <1>9

\* What has been smooth so far.
LEMMA SmoothBefore ==
    ASSUME PartyInv, [VoiceCallNext]_voiceCallVars, Smooth'
    PROVE  Smooth
  <1>1. \A s \in Sockets : wire[s] # "down"
    BY BrokenStays DEF Smooth
  <1>2. (refused => refused') /\ (crossed => crossed')
    <2>1. ASSUME NEW p \in Instances, StartVoiceCall(p) \/ EndCall(p) \/ SetVoiceEnabled(p)
          PROVE  (refused => refused') /\ (crossed => crossed')
      <3>1. \A type : Requests(p, type) => (crossed => crossed')
        BY DEF Requests, OthersRequest
      <3>2. StopVoiceCall(p) => (crossed => crossed')
        BY <3>1 DEF StopVoiceCall
      <3>3. QED
        BY <2>1, <3>1, <3>2 DEF StartVoiceCall, EndCall, SetVoiceEnabled
    <2>2. ASSUME NEW p \in Instances, SetCaptureDevice(p)
          PROVE  (refused => refused') /\ (crossed => crossed')
      BY <2>2 DEF SetCaptureDevice
    <2>3. ASSUME NEW p \in Instances, ClientTask(p)
          PROVE  (refused => refused') /\ (crossed => crossed')
      BY <2>3 DEF ClientTask, OnDisconnected, OnRelayPeerUpdate, OnRelayVoiceStart,
                  OnRelayVoiceStop
    <2>4. ASSUME NEW p \in Instances, NEW s \in Sockets, Connect(p, s)
          PROVE  (refused => refused') /\ (crossed => crossed')
      BY <2>4 DEF Connect
    <2>5. ASSUME UNCHANGED callVars
          PROVE  (refused => refused') /\ (crossed => crossed')
      BY <2>5 DEF callVars
    <2>6. QED
      BY <2>1, <2>2, <2>3, <2>4, <2>5 DEF VoiceCallNext, Drop, voiceCallVars
  <1>3. QED
    BY <1>1, <1>2 DEF Smooth

\* Voice is available to who thinks that there are two.
LEMMA AvailableToAPair ==
    ASSUME PartyInv, NEW p \in Instances, VoiceAvailable(p)
    PROVE  view[p] = Pair /\ current[p] # NoSocket /\ enabled[p]
  <1>1. view[p] \in Views /\ view[p].host /\ view[p].guests = 1
    BY DEF PartyInv, PartyTypes, VoiceAvailable, AvailableWith
  <1>2. view[p] = Pair
    BY <1>1 DEF Views, Pair
  <1>3. QED
    BY <1>2 DEF VoiceAvailable, AvailableWith, Connected

\* A request is sent by a member of a pair, and nothing comes its way.
LEMMA RequestGoes ==
    ASSUME PartyInv, Smooth, Smooth', Outsiders, NEW p \in Instances,
           view[p] = Pair \/ call[p] # "Idle",
           NEW type \in {"relay_voice_start", "relay_voice_stop"}, Requests(p, type)
    PROVE  /\ current[p] \in Sockets /\ Member(current[p]) /\ ~OthersRequest(p)
           /\ up' = [up EXCEPT ![current[p]] = Append(@, VoiceFrame(type))]
           /\ VoiceFrame(type) \in Voices
           /\ IsStart(VoiceFrame(type)) <=> type = "relay_voice_start"
  <1>1. current[p] # NoSocket /\ Member(current[p]) /\ current[p] \in Sockets
    BY DEF Outsiders, PartyInv, PartyTypes
  <1>2. Live(current[p])
    BY <1>1, MembersLive
  <1>3. ~OthersRequest(p)
    BY DEF Requests, Smooth
  <1>4. QED
    BY <1>1, <1>2, <1>3 DEF Requests, Sent, Connected, VoiceFrame, Voices, IsStart

\* What a press does to streams and calls.
Pressed(p) ==
    /\ UNCHANGED <<wire, down, host, guests, current, view>>
    /\ \A q \in Instances : q # p => call'[q] = call[q]
    /\ call'[p] # "Idle" => call[p] # "Idle" \/ view[p] = Pair
    /\ \/ UNCHANGED up /\ (Active(p)' <=> Active(p))
       \/ \E m \in Voices :
             /\ view[p] = Pair \/ call[p] # "Idle"
             /\ current[p] \in Sockets /\ Member(current[p]) /\ ~OthersRequest(p)
             /\ up' = [up EXCEPT ![current[p]] = Append(@, m)]
             /\ Active(p)' <=> IsStart(m)

LEMMA SmoothPress ==
    ASSUME PartyInv, Smooth, Smooth', Outsiders, NEW p \in Instances,
           StartVoiceCall(p) \/ EndCall(p) \/ SetVoiceEnabled(p) \/ SetCaptureDevice(p)
    PROVE  Pressed(p)
  <1>1. call \in [Instances -> {"Idle", "Connected", "Failed"}]
    BY DEF PartyInv, PartyTypes
  <1>2. CASE StartVoiceCall(p)
    <2>1. view[p] = Pair /\ ~Active(p)
      BY <1>2, AvailableToAPair DEF StartVoiceCall
    <2>2. CASE call' = [call EXCEPT ![p] = "Connected"] /\ Requests(p, "relay_voice_start")
      <3>1. /\ current[p] \in Sockets /\ Member(current[p]) /\ ~OthersRequest(p)
            /\ up' = [up EXCEPT ![current[p]] = Append(@, VoiceFrame("relay_voice_start"))]
            /\ VoiceFrame("relay_voice_start") \in Voices
            /\ IsStart(VoiceFrame("relay_voice_start"))
        BY <2>1, <2>2, RequestGoes
      <3>2. Active(p)'
        BY <1>1, <2>2 DEF Active
      <3>3. QED
        BY <1>1, <1>2, <2>1, <2>2, <3>1, <3>2 DEF Pressed, StartVoiceCall, server
    <2>3. CASE call' = [call EXCEPT ![p] = "Failed"] /\ UNCHANGED <<up, crossed>>
      BY <1>1, <1>2, <2>1, <2>3 DEF Pressed, StartVoiceCall, Active, server
    <2>4. QED
      BY <1>2, <2>2, <2>3 DEF StartVoiceCall
  <1>3. ASSUME StopVoiceCall(p), UNCHANGED <<wire, down, server, current, view>>
        PROVE  Pressed(p)
    <2>1. call' = [call EXCEPT ![p] = "Idle"] /\ ~Active(p)'
      BY <1>1, <1>3 DEF StopVoiceCall, Active
    <2>2. CASE call[p] = "Idle"
      BY <1>1, <1>3, <2>1, <2>2 DEF Pressed, StopVoiceCall, Active, server
    <2>3. CASE call[p] # "Idle"
      <3>1. Requests(p, "relay_voice_stop")
        BY <1>3, <2>3 DEF StopVoiceCall
      <3>2. /\ current[p] \in Sockets /\ Member(current[p]) /\ ~OthersRequest(p)
            /\ up' = [up EXCEPT ![current[p]] = Append(@, VoiceFrame("relay_voice_stop"))]
            /\ VoiceFrame("relay_voice_stop") \in Voices
            /\ ~IsStart(VoiceFrame("relay_voice_stop"))
        BY <2>3, <3>1, RequestGoes
      <3>3. QED
        BY <1>1, <1>3, <2>1, <2>3, <3>2 DEF Pressed, server
    <2>4. QED
      BY <2>2, <2>3
  <1>4. CASE EndCall(p)
    BY <1>3, <1>4 DEF EndCall
  <1>5. CASE SetVoiceEnabled(p)
    <2>1. UNCHANGED <<wire, down, server, current, view>>
      BY <1>5 DEF SetVoiceEnabled
    <2>2. CASE enabled[p]
      BY <1>3, <1>5, <2>1, <2>2 DEF SetVoiceEnabled
    <2>3. CASE ~enabled[p]
      BY <1>5, <2>1, <2>3 DEF SetVoiceEnabled, Pressed, Active, server
    <2>4. QED
      BY <2>2, <2>3
  <1>6. ~SetCaptureDevice(p)
    BY DEF SetCaptureDevice, Smooth
  <1>7. QED
    BY <1>2, <1>4, <1>5, <1>6

\* Whoever is at either end is that end.
LEMMA EndOf ==
    ASSUME PartyInv, Smooth, NEW h \in Sockets, NEW x \in Sockets, host[SessionCode] = h,
           guests[SessionCode] = {x}, NEW g \in Guests, current[g] = x
    PROVE  /\ current[Host] = h /\ h # x /\ g \in Instances /\ Host \in Instances /\ g # Host
           /\ h \in SocketsOf[Host] /\ x \in SocketsOf[g] /\ h \notin SocketsOf[g]
           /\ x \notin SocketsOf[Host]
           /\ \A s \in Sockets : Member(s) <=> s = h \/ s = x
           /\ \A q \in Instances : (current[q] = h => q = Host) /\ (current[q] = x => q = g)
  <1>1. \A s \in Sockets : Member(s) <=> s = h \/ s = x
    BY DEF Member
  <1>2. current[Host] = h /\ RoleOf(h) = "host"
    BY <1>1, MembersLive
  <1>3. peers[x].role = "guest" /\ peers[h].role = "host"
    BY SocketsAssumption DEF PartyInv, Seats, SeatOK
  <1>4. h # x /\ g \in Instances /\ Host \in Instances /\ g # Host
    BY <1>3, VoiceCallAssumption DEF Instances
  <1>5. \A p \in Instances : current[p] \in Sockets => current[p] \in SocketsOf[p]
    BY SocketsAssumption DEF PartyInv, Lines
  <1>6. QED
    BY <1>1, <1>2, <1>4, <1>5, OneOwner

LEMMA InACall == \A p : Active(p) \in BOOLEAN /\ Active(p)' \in BOOLEAN
  BY DEF Active

LEMMA AlikeItself == \A q : Alike(q, q)
  BY DEF Alike

LEMMA PressKeeps ==
    ASSUME PartyInv, Smooth, SmoothRun, NEW p \in Instances, Pressed(p)
    PROVE  SmoothRun'
  <1>1. /\ UNCHANGED <<wire, down, host, guests, current, view>>
        /\ \A q \in Instances : q # p => call'[q] = call[q]
        /\ call'[p] # "Idle" => call[p] # "Idle" \/ view[p] = Pair
        /\ \A s : Member(s)' <=> Member(s)
        /\ (PairUp' <=> PairUp) /\ (OneGuest' <=> OneGuest)
    BY DEF Pressed, Member, PairUp, OneGuest
  <1>2. /\ down \in [Sockets -> Seq(ToClient)] /\ up \in [Sockets -> Seq(FromClient)]
        /\ current \in [Instances -> Sockets \cup {NoSocket}]
    BY DEF PartyInv, PartyTypes
  <1>3. Outsiders /\ Calling /\ PairIsNews /\ EndsAgree
    BY DEF SmoothRun
  <1>4. ASSUME NEW s \in Sockets, up'[s] # up[s]
        PROVE  Member(s) /\ PairUp
    <2>1. s = current[p] /\ Member(current[p]) /\ (view[p] = Pair \/ call[p] # "Idle")
      BY <1>2, <1>4 DEF Pressed
    <2>2. QED
      BY <1>3, <2>1 DEF Calling
  <1>5. Outsiders'
    <2>1. ASSUME NEW q \in Instances, current[q] = NoSocket \/ ~Member(current[q])
          PROVE  view'[q] # Pair /\ call'[q] = "Idle"
      BY <1>1, <1>3, <2>1 DEF Outsiders
    <2>2. ASSUME NEW s \in Sockets, ~Member(s) PROVE ~Carries(up'[s]) /\ down'[s] = <<>>
      BY <1>1, <1>3, <1>4, <2>2 DEF Outsiders
    <2>3. QED
      BY <1>1, <2>1, <2>2 DEF Outsiders
  <1>6. Calling'
    <2>1. ASSUME NEW q \in Instances, view'[q] = Pair \/ call'[q] # "Idle" PROVE PairUp
      BY <1>1, <1>3, <2>1 DEF Calling
    <2>2. ASSUME NEW s \in Sockets
          PROVE  /\ \A k \in 1 .. Len(down'[s]) : Tells(down'[s][k], Pair) => PairUp
                 /\ Carries(up'[s]) \/ Carries(down'[s]) => PairUp
      BY <1>1, <1>3, <1>4 DEF Calling
    <2>3. QED
      BY <1>1, <2>1, <2>2 DEF Calling, Pair, Tells, IsNotice
  <1>7. PairIsNews'
    BY <1>1, <1>3 DEF PairIsNews, Pair, Tells, IsNotice
  <1>8. ASSUME NEW g \in Guests, NEW h \in Sockets, NEW x \in Sockets,
               host[SessionCode] = h, guests[SessionCode] = {x}, current[g] = x
        PROVE  Ends(Host, h, g, x)'
    <2>1. Pact(down[h], up[h], Active(Host), down[x], up[x], Active(g))
      BY <1>3, <1>8 DEF EndsAgree, Ends
    <2>2. /\ current[Host] = h /\ h # x /\ g \in Instances /\ Host \in Instances /\ g # Host
          /\ h \in SocketsOf[Host] /\ x \in SocketsOf[g] /\ h \notin SocketsOf[g]
          /\ x \notin SocketsOf[Host]
          /\ \A s \in Sockets : Member(s) <=> s = h \/ s = x
          /\ \A q \in Instances : (current[q] = h => q = Host) /\ (current[q] = x => q = g)
      BY <1>8, EndOf
    <2>3. \A q \in Instances : q # p => (Active(q)' <=> Active(q))
      BY <1>1 DEF Active
    <2>4. CASE UNCHANGED up /\ (Active(p)' <=> Active(p))
      <3>1. (Active(Host)' <=> Active(Host)) /\ (Active(g)' <=> Active(g))
        BY <2>2, <2>3, <2>4
      <3>2. Pact(down[h], up[h], Active(Host)', down[x], up[x], Active(g)')
        BY <2>1, <3>1, InACall, AlikeItself, PactQuiet
      <3>3. QED
        BY <1>1, <2>4, <3>2 DEF Ends
    <2>5. ASSUME NEW m \in Voices, Member(current[p]), current[p] \in Sockets, ~OthersRequest(p),
                 up' = [up EXCEPT ![current[p]] = Append(@, m)], Active(p)' <=> IsStart(m)
          PROVE  Ends(Host, h, g, x)'
      <3>1. m \in FromClient /\ IsRequest(m)
        BY Typed DEF Voices, IsRequest, VoiceFrames
      <3>2. CASE p = Host
        <4>1. ~Carries(down[h]) /\ ~Carries(up[x])
          BY <2>2, <2>5, <3>2 DEF OthersRequest
        <4>2. up'[h] = Append(up[h], m) /\ up'[x] = up[x]
          BY <1>2, <2>2, <2>5, <3>2
        <4>3. up[h] \in Seq(FromClient)
          BY <1>2
        <4>4. Active(Host)' <=> IsStart(m)
          BY <2>5, <3>2
        <4>5. Pact(down[h], Append(up[h], m), Active(Host)', down[x], up[x], Active(g))
          BY <3>1, <4>1, <4>3, <4>4, InACall, PactAsks
        <4>6. Active(g)' <=> Active(g)
          BY <2>2, <2>3, <3>2
        <4>7. Pact(down[h], Append(up[h], m), Active(Host)', down[x], up[x], Active(g)')
          BY <4>5, <4>6, InACall, AlikeItself, PactQuiet
        <4>8. QED
          BY <1>1, <4>2, <4>7 DEF Ends
      <3>3. CASE p = g
        <4>1. ~Carries(down[x]) /\ ~Carries(up[h])
          BY <2>2, <2>5, <3>3 DEF OthersRequest
        <4>2. up'[x] = Append(up[x], m) /\ up'[h] = up[h]
          BY <1>2, <1>8, <2>2, <2>5, <3>3
        <4>3. up[x] \in Seq(FromClient)
          BY <1>2
        <4>4. Active(g)' <=> IsStart(m)
          BY <2>5, <3>3
        <4>5. Pact(down[x], Append(up[x], m), Active(g)', down[h], up[h], Active(Host))
          BY <3>1, <4>1, <4>3, <4>4, InACall, PactAsks
        <4>6. Active(Host)' <=> Active(Host)
          BY <2>2, <2>3, <3>3
        <4>7. Pact(down[x], Append(up[x], m), Active(g)', down[h], up[h], Active(Host)')
          BY <4>5, <4>6, InACall, AlikeItself, PactQuiet
        <4>8. Pact(down[h], up[h], Active(Host)', down[x], Append(up[x], m), Active(g)')
          BY <4>7, InACall, PactSwaps
        <4>9. QED
          BY <1>1, <4>2, <4>8 DEF Ends
      <3>4. QED
        BY <2>2, <2>5, <3>2, <3>3
    <2>6. QED
      BY <2>4, <2>5 DEF Pressed
  <1>9. EndsAgree'
    BY <1>1, <1>8 DEF EndsAgree
  <1>10. QED
    BY <1>5, <1>6, <1>7, <1>9 DEF SmoothRun

\* A client connects: it was no member, and its join asks nobody to talk.
LEMMA ConnectKeeps ==
    ASSUME PartyInv, Smooth, SmoothRun, NEW p \in Instances, NEW s \in Sockets, Connect(p, s)
    PROVE  SmoothRun'
  <1> DEFINE m == [type |-> "join", code |-> SessionCode,
                   role |-> IF p = Host THEN "host" ELSE "guest"]
  <1>1. /\ current[p] = NoSocket /\ wire[s] = "idle"
        /\ current' = [current EXCEPT ![p] = s] /\ up' = [up EXCEPT ![s] = <<Accepted, m>>]
        /\ UNCHANGED <<down, host, guests, view, call>>
    BY DEF Connect, Connected, server
  <1>2. ~Carries(<<Accepted, m>>)
    BY DEF Carries, Accepted, VoiceFrames
  <1> HIDE DEF m
  <1>3. /\ LineOK(s) /\ SeatOK(s) /\ peers[s] = Absent /\ up \in [Sockets -> Seq(FromClient)]
        /\ current \in [Instances -> Sockets \cup {NoSocket}]
    BY <1>1 DEF PartyInv, PartyTypes, Lines, Seats, LineOK
  <1>4. ~Member(s)
    BY <1>3, PeerTyped, SocketsAssumption DEF Member, SeatOK, PartyInv, Seats
  <1>5. Outsiders /\ Calling /\ PairIsNews /\ EndsAgree
    BY DEF SmoothRun
  <1>6. view[p] # Pair
    BY <1>1, <1>5 DEF Outsiders
  <1>7. /\ \A x : Member(x)' <=> Member(x)
        /\ (PairUp' <=> PairUp) /\ (OneGuest' <=> OneGuest)
        /\ \A q \in Instances : q # p => current'[q] = current[q]
        /\ \A x \in Sockets : x # s => up'[x] = up[x]
        /\ ~Carries(up'[s])
    BY <1>1, <1>2, <1>3 DEF Member, PairUp, OneGuest
  <1>8. Outsiders'
    <2>1. ASSUME NEW q \in Instances, current'[q] = NoSocket \/ ~Member(current'[q])
          PROVE  view'[q] # Pair /\ call'[q] = "Idle"
      BY <1>1, <1>5, <1>7, <2>1 DEF Outsiders
    <2>2. ASSUME NEW x \in Sockets, ~Member(x) PROVE ~Carries(up'[x]) /\ down'[x] = <<>>
      BY <1>1, <1>5, <1>7, <2>2 DEF Outsiders
    <2>3. QED
      BY <1>7, <2>1, <2>2 DEF Outsiders, Pair
  <1>9. Calling'
    <2>1. ASSUME NEW x \in Sockets PROVE Carries(up'[x]) => Carries(up[x])
      BY <1>7
    <2>2. QED
      BY <1>1, <1>5, <1>7, <2>1 DEF Calling, Pair, Tells, IsNotice
  <1>10. PairIsNews'
    <2>1. ASSUME NEW q \in Instances, current'[q] # NoSocket, view'[q] = Pair
          PROVE  current'[q] = current[q]
      BY <1>1, <1>6, <1>7, <2>1
    <2>2. SUFFICES ASSUME OneGuest PROVE PairIsNews'
      BY <1>7 DEF PairIsNews
    <2>3. ASSUME NEW q \in Instances, current'[q] # NoSocket, view'[q] = Pair
          PROVE  \A k \in 1 .. Len(down'[current'[q]]) :
                    IsNotice(down'[current'[q]][k]) => Tells(down'[current'[q]][k], Pair)
      <3>1. current'[q] = current[q] /\ down' = down /\ view[q] = Pair
        BY <1>1, <2>1, <2>3
      <3>2. QED
        BY <1>5, <2>2, <2>3, <3>1 DEF PairIsNews
    <2>4. \A x \in Sockets : \A k, l \in 1 .. Len(down'[x]) :
             k < l /\ Tells(down'[x][k], Pair) /\ IsNotice(down'[x][l]) => Tells(down'[x][l], Pair)
      BY <1>1, <1>5, <2>2 DEF PairIsNews
    <2>5. QED
      BY <2>3, <2>4 DEF PairIsNews, Pair, Tells, IsNotice
  <1>11. EndsAgree'
    <2>1. ASSUME NEW g \in Guests, NEW h \in Sockets, NEW x \in Sockets,
                 host[SessionCode] = h, guests[SessionCode] = {x}, current'[g] = x
          PROVE  Ends(Host, h, g, x)'
      <3>1. Member(h) /\ Member(x) /\ g \in Instances
        BY <2>1 DEF Member, Instances
      <3>2. g # p /\ up'[h] = up[h] /\ up'[x] = up[x]
        BY <1>1, <1>3, <1>4, <1>7, <2>1, <3>1
      <3>3. Ends(Host, h, g, x)
        BY <1>5, <1>7, <2>1, <3>1, <3>2 DEF EndsAgree
      <3>4. QED
        BY <1>1, <3>2, <3>3 DEF Ends, Active
    <2>2. QED
      BY <1>1, <2>1 DEF EndsAgree
  <1>12. QED
    BY <1>8, <1>9, <1>10, <1>11 DEF SmoothRun

\* The server hears of a connection.
LEMMA ArrivalKeeps ==
    ASSUME PartyInv, SmoothRun, NEW s \in Sockets, OnClientConnected(s), UNCHANGED callVars
    PROVE  SmoothRun'
  <1>1. /\ up[s] # <<>> /\ Head(up[s]).type = "accepted" /\ up' = Consume(s)
        /\ UNCHANGED <<down, host, guests, current, view, call>>
    BY DEF OnClientConnected, HeadIs, callVars
  <1>2. up \in [Sockets -> Seq(FromClient)] /\ ~IsRequest(Head(up[s]))
    BY <1>1 DEF PartyInv, PartyTypes, IsRequest, VoiceFrames
  <1>3. Alike(Tail(up[s]), up[s])
    BY <1>1, <1>2, AskedFirst
  <1>4. \A x \in Sockets : Alike(up'[x], up[x])
    BY <1>1, <1>2, <1>3, AlikeItself DEF Consume
  <1>5. Outsiders /\ Calling /\ PairIsNews /\ EndsAgree
    BY DEF SmoothRun
  <1>6. Outsiders'
    BY <1>1, <1>4, <1>5 DEF Outsiders, Member, Alike, Pair
  <1>7. Calling'
    BY <1>1, <1>4, <1>5 DEF Calling, PairUp, Alike, Pair, Tells, IsNotice
  <1>8. PairIsNews'
    BY <1>1, <1>5 DEF PairIsNews, OneGuest, Pair, Tells, IsNotice
  <1>9. EndsAgree'
    <2>1. ASSUME NEW g \in Guests, NEW h \in Sockets, NEW x \in Sockets, Ends(Host, h, g, x)
          PROVE  Ends(Host, h, g, x)'
      <3>1. Pact(down[h], up[h], Active(Host), down[x], up[x], Active(g))
        BY <2>1 DEF Ends
      <3>2. Pact(down[h], up'[h], Active(Host), down[x], up'[x], Active(g))
        BY <1>4, <3>1, InACall, AlikeItself, PactQuiet
      <3>3. QED
        BY <1>1, <3>2 DEF Ends, Active
    <2>2. QED
      BY <1>1, <1>5, <2>1 DEF EndsAgree
  <1>10. QED
    BY <1>6, <1>7, <1>8, <1>9 DEF SmoothRun

\* The roster is that of a pair if there is a host and one guest.
LEMMA TwoSeats ==
    ASSUME NEW h, NEW g \in SUBSET Sockets
    PROVE  [host |-> h # NoSocket, guests |-> Cardinality(g)] = Pair <=>
              h # NoSocket /\ \E x \in Sockets : g = {x}
  <1>1. IsFiniteSet(g)
    BY SocketsAssumption, FS_Subset
  <1>2. Cardinality(g) = 1 <=> \E x : g = {x}
    BY <1>1, FS_Singleton
  <1>3. (\E x : g = {x}) <=> \E x \in Sockets : g = {x}
    OBVIOUS
  <1>4. (h # NoSocket) \in BOOLEAN
    OBVIOUS
  <1>5. QED
    BY <1>2, <1>3, <1>4 DEF Pair

\* A client joins: whoever is a member by then hears of it, and nobody loses a seat.
LEMMA JoinedSmoothly ==
    ASSUME PartyInv, Smooth, Smooth', NEW s \in Sockets, OnJoin(s)
    PROVE  /\ \A x \in Sockets : Alike(up'[x], up[x])
           /\ \A x \in Sockets : Member(x) => Member(x)'
           /\ \A x \in Sockets :
                 IF Member(x)'
                 THEN \E m \in Notices : /\ down'[x] = Append(down[x], m)
                                         /\ Tells(m, Roster')
                 ELSE down'[x] = down[x]
           /\ PairUp => /\ host'[SessionCode] = host[SessionCode] /\ PairUp'
                        /\ guests[SessionCode] \subseteq guests'[SessionCode]
           /\ guests'[SessionCode] \in SUBSET Sockets
  <1> DEFINE h == host'[SessionCode]
             g == guests'[SessionCode]
  <1>1. /\ up[s] # <<>> /\ Head(up[s]).type = "join" /\ wire[s] # "idle"
        /\ RoleOf(s) = "host" => h = s /\ g = guests[SessionCode]
        /\ RoleOf(s) = "guest" => h = host[SessionCode] /\ g = guests[SessionCode] \cup {s}
    BY Seated
  <1>2. ASSUME NEW x \in Sockets
        PROVE  /\ ~(RoleOf(s) = "host" /\ host[SessionCode] = x /\ x # s /\ Live(x))
               /\ up'[x] = IF x = s THEN Tail(up[s]) ELSE up[x]
               /\ down'[x] = PeerUpdateSent(h, g)[x]
    <2>1. ASSUME RoleOf(s) = "host", host[SessionCode] = x, x # s, Live(x) PROVE FALSE
      <3>1. wire'[x] = "down"
        BY <2>1, Seated
      <3>2. QED
        BY <3>1 DEF Smooth
    <2>2. QED
      BY <2>1, Seated
  <1>3. /\ RoleOf(s) \in {"host", "guest"} /\ Live(s)
        /\ host[SessionCode] \in Sockets \cup {NoSocket} /\ guests[SessionCode] \subseteq Sockets
    BY <1>1 DEF RoleOf, Live, Smooth, PartyInv, PartyTypes, Seats
  <1>4. RoleOf(s) = "host" => host[SessionCode] \in {s, NoSocket}
    <2>1. ASSUME RoleOf(s) = "host", host[SessionCode] \notin {s, NoSocket} PROVE FALSE
      <3>1. Live(host[SessionCode])
        BY <1>3, <2>1, MembersLive DEF Member
      <3>2. QED
        BY <1>2, <1>3, <2>1, <3>1
    <2>2. QED
      BY <2>1
  <1>5. Alike(Tail(up[s]), up[s])
    <2>1. up[s] \in Seq(FromClient) /\ ~IsRequest(Head(up[s]))
      BY <1>1 DEF PartyInv, PartyTypes, IsRequest, VoiceFrames
    <2>2. QED
      BY <1>1, <2>1, AskedFirst
  <1>6. ASSUME NEW x \in Sockets, Member(x) PROVE Member(x)' /\ Live(x)
    BY <1>1, <1>3, <1>4, <1>6, SocketsAssumption, MembersLive DEF Member
  <1>7. ASSUME NEW x \in Sockets, Member(x)' PROVE Live(x) /\ (x = h \/ x \in g)
    <2>1. Member(x) \/ x = s
      BY <1>1, <1>3, <1>7 DEF Member
    <2>2. QED
      BY <1>3, <1>6, <1>7, <2>1 DEF Member
  <1>8. g \in SUBSET Sockets
    BY <1>1, <1>3
  <1>9. ASSUME NEW x \in Sockets, Member(x)'
        PROVE  \E m \in Notices : down'[x] = Append(down[x], m) /\ Tells(m, Roster')
    <2>1. PICK m \in Notices : /\ PeerUpdateSent(h, g)[x] = Append(down[x], m)
                               /\ Tells(m, [host |-> h # NoSocket, guests |-> Cardinality(g)])
      <3> HIDE DEF h, g
      <3>1. Live(x) /\ (x = h \/ x \in g) /\ g \in SUBSET Sockets
        BY <1>7, <1>8, <1>9
      <3>2. QED
        BY <3>1, RosterHeard
    <2>2. down'[x] = Append(down[x], m)
      BY <1>2, <2>1
    <2>3. Tells(m, Roster')
      BY <2>1 DEF Roster
    <2>4. QED
      BY <2>2, <2>3
  <1>10. ASSUME NEW x \in Sockets, ~Member(x)' PROVE down'[x] = down[x]
    BY <1>2, <1>10 DEF PeerUpdateSent, Member
  <1>11. ASSUME PairUp
         PROVE  /\ h = host[SessionCode] /\ PairUp' /\ guests[SessionCode] \subseteq g
    BY <1>1, <1>3, <1>4, <1>11 DEF PairUp
  <1>12. \A x \in Sockets : Alike(up'[x], up[x])
    BY <1>2, <1>5, AlikeItself
  <1>13. QED
    BY <1>6, <1>8, <1>9, <1>10, <1>11, <1>12

\* What a notice adds to the picture: the pair of the time, or not.
LEMMA JoinKeeps ==
    ASSUME PartyInv, Smooth, Smooth', SmoothRun, NEW s \in Sockets, OnJoin(s),
           UNCHANGED callVars
    PROVE  SmoothRun'
  <1>1. /\ \A x \in Sockets : Alike(up'[x], up[x])
        /\ \A x \in Sockets : Member(x) => Member(x)'
        /\ \A x \in Sockets :
              IF Member(x)'
              THEN \E m \in Notices : down'[x] = Append(down[x], m) /\ Tells(m, Roster')
              ELSE down'[x] = down[x]
        /\ PairUp => /\ host'[SessionCode] = host[SessionCode] /\ PairUp'
                     /\ guests[SessionCode] \subseteq guests'[SessionCode]
        /\ guests'[SessionCode] \in SUBSET Sockets
    BY JoinedSmoothly
  <1>2. /\ UNCHANGED <<current, view, call>> /\ down \in [Sockets -> Seq(ToClient)]
        /\ current \in [Instances -> Sockets \cup {NoSocket}]
    BY DEF callVars, PartyInv, PartyTypes
  <1>3. Outsiders /\ Calling /\ PairIsNews /\ EndsAgree
    BY DEF SmoothRun
  <1>4. (Roster = Pair)' <=> (PairUp /\ OneGuest)'
    <2>1. Roster' = Pair <=> /\ host'[SessionCode] # NoSocket
                             /\ \E x \in Sockets : guests'[SessionCode] = {x}
      BY <1>1, TwoSeats DEF Roster
    <2>2. QED
      BY <2>1 DEF PairUp, OneGuest, Pair
  <1>5. ASSUME NEW x \in Sockets
        PROVE  \/ down'[x] = down[x]
               \/ /\ Len(down'[x]) = Len(down[x]) + 1 /\ Len(down[x]) \in Nat
                  /\ \A k \in 1 .. Len(down[x]) : down'[x][k] = down[x][k]
                  /\ Tells(down'[x][Len(down[x]) + 1], Roster') /\ Alike(down'[x], down[x])
    <2>1. CASE down'[x] = down[x]
      BY <2>1
    <2>2. ASSUME NEW m \in Notices, down'[x] = Append(down[x], m), Tells(m, Roster')
          PROVE  /\ Len(down'[x]) = Len(down[x]) + 1 /\ Len(down[x]) \in Nat
                 /\ \A k \in 1 .. Len(down[x]) : down'[x][k] = down[x][k]
                 /\ Tells(down'[x][Len(down[x]) + 1], Roster') /\ Alike(down'[x], down[x])
      <3>1. m \in ToClient /\ down[x] \in Seq(ToClient) /\ ~IsRequest(m)
        BY <1>2, Typed DEF Notices, IsRequest, VoiceFrames
      <3>2. Alike(Append(down[x], m), down[x])
        BY <3>1, AskedLast
      <3>3. QED
        BY <2>2, <3>1, <3>2, Queued
    <2>3. QED
      BY <1>1, <2>1, <2>2
  <1>6. \A x \in Sockets : Alike(down'[x], down[x])
    BY <1>5, AlikeItself
  <1>7. Outsiders'
    <2>1. ASSUME NEW p \in Instances, current[p] = NoSocket \/ ~Member(current[p])'
          PROVE  view[p] # Pair /\ call[p] = "Idle"
      <3>1. current[p] = NoSocket \/ ~Member(current[p])
        BY <1>1, <1>2, <2>1
      <3>2. QED
        BY <1>3, <3>1 DEF Outsiders
    <2>2. ASSUME NEW x \in Sockets, ~Member(x)' PROVE ~Carries(up'[x]) /\ down'[x] = <<>>
      <3>1. ~Member(x) /\ down'[x] = down[x]
        BY <1>1, <2>2
      <3>2. QED
        BY <1>1, <1>3, <3>1 DEF Outsiders, Alike
    <2>3. QED
      BY <1>2, <2>1, <2>2 DEF Outsiders, Pair, Member
  <1>8. Calling'
    <2>1. ASSUME NEW x \in Sockets, NEW k \in 1 .. Len(down'[x]), Tells(down'[x][k], Pair)
          PROVE  PairUp'
      <3>1. CASE k \in 1 .. Len(down[x]) /\ down'[x][k] = down[x][k]
        BY <1>1, <1>3, <2>1, <3>1 DEF Calling
      <3>2. CASE Tells(down'[x][k], Roster')
        <4>1. Roster' = Pair
          BY <2>1, <3>2 DEF Tells, Roster, Pair
        <4>2. QED
          BY <1>4, <4>1 DEF Pair
      <3>3. QED
        BY <1>5, <3>1, <3>2
    <2>2. ASSUME NEW x \in Sockets, Carries(up'[x]) \/ Carries(down'[x]) PROVE PairUp'
      BY <1>1, <1>3, <1>6, <2>2 DEF Calling, Alike
    <2>3. ASSUME NEW p \in Instances, view[p] = Pair \/ call[p] # "Idle" PROVE PairUp'
      BY <1>1, <1>3, <2>3 DEF Calling
    <2>4. QED
      BY <1>2, <2>1, <2>2, <2>3 DEF Calling, Pair, Tells, IsNotice
  <1>9. ASSUME PairUp, OneGuest'
        PROVE  /\ OneGuest /\ guests'[SessionCode] = guests[SessionCode]
               /\ host'[SessionCode] = host[SessionCode] /\ Roster' = Pair
    <2>1. PICK y \in Sockets : guests'[SessionCode] = {y}
      BY <1>9 DEF OneGuest
    <2>2. guests[SessionCode] = {y}
      BY <1>1, <1>9, <2>1 DEF PairUp
    <2>3. Roster' = Pair
      BY <1>1, <1>4, <1>9 DEF Pair
    <2>4. QED
      BY <1>1, <1>9, <2>1, <2>2, <2>3 DEF OneGuest
  <1>10. PairIsNews'
    <2>1. SUFFICES ASSUME OneGuest' PROVE PairIsNews'
      BY DEF PairIsNews
    <2>2. ASSUME NEW x \in Sockets, NEW k \in 1 .. Len(down'[x]), IsNotice(down'[x][k]), PairUp,
                 (k \in 1 .. Len(down[x]) /\ down'[x][k] = down[x][k]) => Tells(down'[x][k], Pair)
          PROVE  Tells(down'[x][k], Pair)
      <3>1. (k \in 1 .. Len(down[x]) /\ down'[x][k] = down[x][k]) \/ Tells(down'[x][k], Roster')
        BY <1>5, <2>2
      <3>2. QED
        BY <1>9, <2>1, <2>2, <3>1
    <2>3. ASSUME NEW p \in Instances, current[p] # NoSocket, view[p] = Pair,
                 NEW k \in 1 .. Len(down'[current[p]]), IsNotice(down'[current[p]][k])
          PROVE  Tells(down'[current[p]][k], Pair)
      <3>1. PairUp /\ current[p] \in Sockets
        BY <1>2, <1>3, <2>3 DEF Calling
      <3>2. OneGuest
        BY <1>9, <2>1, <3>1
      <3>3. \A i \in 1 .. Len(down[current[p]]) :
               IsNotice(down[current[p]][i]) => Tells(down[current[p]][i], Pair)
        BY <1>3, <2>3, <3>2 DEF PairIsNews
      <3>4. QED
        BY <2>2, <2>3, <3>1, <3>3
    <2>4. ASSUME NEW x \in Sockets, NEW k \in 1 .. Len(down'[x]), NEW l \in 1 .. Len(down'[x]),
                 k < l, Tells(down'[x][k], Pair), IsNotice(down'[x][l])
          PROVE  Tells(down'[x][l], Pair)
      <3>1. k \in 1 .. Len(down[x]) /\ down'[x][k] = down[x][k]
        BY <1>2, <1>5, <2>4
      <3>2. PairUp
        BY <1>3, <2>4, <3>1 DEF Calling
      <3>3. OneGuest
        BY <1>9, <2>1, <3>2
      <3>4. \A i \in 1 .. Len(down[x]) :
               k < i /\ IsNotice(down[x][i]) => Tells(down[x][i], Pair)
        BY <1>3, <2>4, <3>1, <3>3 DEF PairIsNews
      <3>5. QED
        BY <2>2, <2>4, <3>2, <3>4
    <2>5. QED
      BY <1>2, <2>3, <2>4 DEF PairIsNews, Pair, Tells, IsNotice
  <1>11. ASSUME NEW g \in Guests, NEW h \in Sockets, NEW x \in Sockets,
                host'[SessionCode] = h, guests'[SessionCode] = {x}, current[g] = x
         PROVE  Ends(Host, h, g, x)'
    <2>1. CASE PairUp
      <3>1. host[SessionCode] = h /\ guests[SessionCode] = {x}
        BY <1>9, <1>11, <2>1 DEF OneGuest
      <3>2. Pact(down[h], up[h], Active(Host), down[x], up[x], Active(g))
        BY <1>3, <1>11, <3>1 DEF EndsAgree, Ends
      <3>3. Pact(down'[h], up'[h], Active(Host), down'[x], up'[x], Active(g))
        BY <1>1, <1>6, <3>2, InACall, PactQuiet
      <3>4. QED
        BY <1>2, <3>3 DEF Ends, Active
    <2>2. CASE ~PairUp
      <3>1. /\ ~Carries(up[h]) /\ ~Carries(down[h]) /\ ~Carries(up[x]) /\ ~Carries(down[x])
            /\ call[Host] = "Idle" /\ call[g] = "Idle"
        BY <1>3, <2>2 DEF Calling, Instances
      <3>2. ~Active(Host)' /\ ~Active(g)'
        BY <1>2, <3>1 DEF Active
      <3>3. ~Carries(up'[h]) /\ ~Carries(down'[h]) /\ ~Carries(up'[x]) /\ ~Carries(down'[x])
        BY <1>1, <1>6, <3>1 DEF Alike
      <3>4. Pact(down'[h], up'[h], Active(Host)', down'[x], up'[x], Active(g)')
        BY <3>2, <3>3, InACall, PactRests
      <3>5. QED
        BY <3>4 DEF Ends
    <2>3. QED
      BY <2>1, <2>2
  <1>12. EndsAgree'
    BY <1>2, <1>11 DEF EndsAgree
  <1>13. QED
    BY <1>7, <1>8, <1>10, <1>12 DEF SmoothRun

\* What is asked in a session that runs smoothly reaches the other end.
LEMMA RelayKeeps ==
    ASSUME PartyInv, Smooth, SmoothRun, NEW s \in Sockets, OnRelay(s), UNCHANGED callVars
    PROVE  SmoothRun'
  <1> DEFINE m == Head(up[s])
  <1>1. /\ UNCHANGED <<host, guests, current, view, call>> /\ up[s] # <<>>
        /\ up \in [Sockets -> Seq(FromClient)] /\ down \in [Sockets -> Seq(ToClient)]
        /\ up' = [up EXCEPT ![s] = Tail(up[s])]
        /\ m \in Voices /\ m \in FromClient /\ m \in ToClient
    BY Relayed, Typed DEF server, callVars, Consume, PartyInv, PartyTypes
  <1>2. IsRequest(m) /\ ~IsNotice(m) /\ up[s] \in Seq(FromClient)
    BY <1>1 DEF Voices, IsRequest, VoiceFrames, IsNotice
  <1>3. Outsiders /\ Calling /\ PairIsNews /\ EndsAgree
    BY DEF SmoothRun
  <1>4. Carries(up[s]) /\ Member(s) /\ PairUp
    <2>1. Carries(up[s])
      BY <1>1, <1>2, AskedFirst
    <2>2. QED
      BY <1>3, <2>1 DEF Outsiders, Calling
  <1>5. /\ \A x : Member(x)' <=> Member(x)
        /\ (PairUp' <=> PairUp) /\ (OneGuest' <=> OneGuest)
    BY <1>1 DEF Member, PairUp, OneGuest
  <1>6. HostHolds
    BY VoiceCallAssumption DEF Smooth, HostHolds, Instances
  <1> HIDE DEF m
  <1>7. ASSUME NEW x \in Sockets
        PROVE  \/ down'[x] = down[x]
               \/ down'[x] = Append(down[x], m) /\ Member(x)
    BY <1>6, AskedInAPair DEF m, Member
  <1>8. ASSUME NEW x \in Sockets, NEW k \in 1 .. Len(down'[x]), IsNotice(down'[x][k])
        PROVE  k \in 1 .. Len(down[x]) /\ down'[x][k] = down[x][k]
    <2>1. CASE down'[x] = down[x]
      BY <1>8, <2>1
    <2>2. CASE down'[x] = Append(down[x], m)
      <3>1. /\ Len(down'[x]) = Len(down[x]) + 1 /\ Len(down[x]) \in Nat
            /\ down'[x][Len(down[x]) + 1] = m
            /\ \A i \in 1 .. Len(down[x]) : down'[x][i] = down[x][i]
        BY <1>1, <2>2, Queued
      <3>2. k # Len(down[x]) + 1
        BY <1>2, <1>8, <3>1
      <3>3. QED
        BY <3>1, <3>2
    <2>3. QED
      BY <1>7, <2>1, <2>2
  <1>9. Outsiders'
    <2>1. ASSUME NEW x \in Sockets, ~Member(x) PROVE ~Carries(up'[x]) /\ down'[x] = <<>>
      <3>1. up'[x] = up[x] /\ down'[x] = down[x]
        BY <1>1, <1>4, <1>7, <2>1
      <3>2. QED
        BY <1>3, <2>1, <3>1 DEF Outsiders
    <2>2. QED
      BY <1>1, <1>3, <1>5, <2>1 DEF Outsiders, Pair
  <1>10. Calling'
    BY <1>4, <1>5 DEF Calling
  <1>11. PairIsNews'
    <2>1. SUFFICES ASSUME OneGuest PROVE PairIsNews'
      BY <1>5 DEF PairIsNews
    <2>2. ASSUME NEW p \in Instances, current[p] # NoSocket, view[p] = Pair,
                 NEW k \in 1 .. Len(down'[current[p]]), IsNotice(down'[current[p]][k])
          PROVE  Tells(down'[current[p]][k], Pair)
      <3>1. current[p] \in Sockets
        BY <2>2 DEF PartyInv, PartyTypes
      <3>2. k \in 1 .. Len(down[current[p]]) /\ down'[current[p]][k] = down[current[p]][k]
        BY <1>8, <2>2, <3>1
      <3>3. \A i \in 1 .. Len(down[current[p]]) :
               IsNotice(down[current[p]][i]) => Tells(down[current[p]][i], Pair)
        BY <1>3, <2>1, <2>2 DEF PairIsNews
      <3>4. QED
        BY <2>2, <3>2, <3>3
    <2>3. ASSUME NEW x \in Sockets, NEW k \in 1 .. Len(down'[x]), NEW l \in 1 .. Len(down'[x]),
                 k < l, Tells(down'[x][k], Pair), IsNotice(down'[x][l])
          PROVE  Tells(down'[x][l], Pair)
      <3>1. /\ k \in 1 .. Len(down[x]) /\ down'[x][k] = down[x][k]
            /\ l \in 1 .. Len(down[x]) /\ down'[x][l] = down[x][l]
        BY <1>8, <2>3 DEF Tells
      <3>2. \A i, j \in 1 .. Len(down[x]) : i < j /\ Tells(down[x][i], Pair)
                  /\ IsNotice(down[x][j]) => Tells(down[x][j], Pair)
        BY <1>3, <2>1 DEF PairIsNews
      <3>3. QED
        BY <2>3, <3>1, <3>2
    <2>4. QED
      BY <1>1, <2>2, <2>3 DEF PairIsNews, Pair, Tells, IsNotice
  <1>12. ASSUME NEW g \in Guests, NEW h \in Sockets, NEW x \in Sockets,
                host[SessionCode] = h, guests[SessionCode] = {x}, current[g] = x
         PROVE  Ends(Host, h, g, x)'
    <2>1. Pact(down[h], up[h], Active(Host), down[x], up[x], Active(g))
      BY <1>3, <1>12 DEF EndsAgree, Ends
    <2>2. h # x /\ (s = h \/ s = x) /\ Member(h) /\ Member(x)
      BY <1>4, <1>12, EndOf
    <2>3. (Active(Host)' <=> Active(Host)) /\ (Active(g)' <=> Active(g))
      BY <1>1 DEF Active
    <2>4. SessionOfPeer(s) = SessionCode /\ Live(h) /\ Live(x) /\ peers[s].role = RoleOf(s)
          /\ (RoleOf(s) = "host" <=> s = h)
      BY <1>4, <1>12, <2>2, MembersLive
    <2>5. ~(Cardinality(guests[SessionCode]) > 1)
      BY <1>12, FS_Singleton
    <2>6. \A y \in Sockets : down'[y] =
             IF (IF s = h THEN y = x ELSE y = h) /\ Live(y) THEN Append(down[y], m) ELSE down[y]
      BY <1>12, <2>4, <2>5, Relayed DEF m
    <2>7. CASE s = h
      <3>1. down'[x] = Append(down[x], m) /\ down'[h] = down[h]
        BY <2>2, <2>4, <2>6, <2>7
      <3>2. up'[h] = Tail(up[h]) /\ up'[x] = up[x]
        BY <1>1, <2>2, <2>7
      <3>3. m = Head(up[h]) /\ up[h] # <<>> /\ down[x] \in Seq(ToClient)
        BY <1>1, <2>7 DEF m
      <3>4. Pact(down[h], Tail(up[h]), Active(Host), Append(down[x], m), up[x], Active(g))
        BY <1>1, <1>2, <2>1, <2>7, <3>3, InACall, PactForwards
      <3>5. QED
        BY <1>1, <3>1, <3>2, <3>4 DEF Ends, Active
    <2>8. CASE s = x
      <3>1. down'[h] = Append(down[h], m) /\ down'[x] = down[x]
        BY <2>2, <2>4, <2>6, <2>8
      <3>2. up'[x] = Tail(up[x]) /\ up'[h] = up[h]
        BY <1>1, <2>2, <2>8
      <3>3. m = Head(up[x]) /\ up[x] # <<>> /\ down[h] \in Seq(ToClient)
        BY <1>1, <2>8 DEF m
      <3>4. Pact(down[x], up[x], Active(g), down[h], up[h], Active(Host))
        BY <2>1, InACall, PactSwaps
      <3>5. Pact(down[x], Tail(up[x]), Active(g), Append(down[h], m), up[h], Active(Host))
        BY <1>1, <1>2, <2>8, <3>3, <3>4, InACall, PactForwards
      <3>6. Pact(Append(down[h], m), up[h], Active(Host), down[x], Tail(up[x]), Active(g))
        BY <3>5, InACall, PactSwaps
      <3>7. QED
        BY <1>1, <3>1, <3>2, <3>6 DEF Ends, Active
    <2>9. QED
      BY <2>2, <2>7, <2>8
  <1>13. EndsAgree'
    BY <1>1, <1>12 DEF EndsAgree
  <1>14. QED
    BY <1>9, <1>10, <1>11, <1>13 DEF SmoothRun

\* What a client does with the first frame, in a session that runs smoothly.
Notes(p) ==
    /\ IsNotice(Event(p))
    /\ view' = [view EXCEPT ![p] = [host |-> Event(p).host, guests |-> Event(p).guests]]
    /\ call' = [call EXCEPT ![p] =
         IF @ = "Connected" /\ ~AvailableWith(p, view'[p]) THEN "Idle" ELSE @]
Obeys(p) ==
    /\ IsRequest(Event(p)) /\ UNCHANGED view
    /\ call' = [call EXCEPT ![p] = IF IsStart(Event(p)) THEN "Connected" ELSE "Idle"]

LEMMA ClientSmooth ==
    ASSUME PartyInv, Smooth, Smooth', NEW p \in Instances, ClientTask(p)
    PROVE  /\ UNCHANGED <<wire, up, current, host, guests>>
           /\ current[p] \in Sockets /\ down[current[p]] # <<>>
           /\ down' = [down EXCEPT ![current[p]] = Tail(@)]
           /\ Notes(p) \/ Obeys(p)
  <1>1. /\ current[p] # NoSocket /\ down[current[p]] # <<>>
        /\ down' = [down EXCEPT ![current[p]] = Tail(@)]
        /\ UNCHANGED <<wire, up, host, guests>>
    BY ClientHears DEF server
  <1>2. current[p] \in Sockets /\ down[current[p]] \in Seq(ToClient)
    BY <1>1 DEF PartyInv, PartyTypes
  <1>3. Event(p).type # "closed"
    <2>1. LineOK(current[p]) /\ wire[current[p]] # "down"
      BY <1>2 DEF PartyInv, Lines, Smooth
    <2>2. 1 \in 1 .. Len(down[current[p]]) /\ Event(p) = down[current[p]][1]
      BY <1>1, <1>2, Unqueued DEF Event
    <2>3. QED
      BY <2>1, <2>2 DEF LineOK
  <1>4. ~OnDisconnected(p)
    BY <1>3 DEF OnDisconnected, Hears
  <1>5. CASE OnRelayPeerUpdate(p)
    <2>1. IsNotice(Event(p))
      BY <1>5 DEF OnRelayPeerUpdate, Hears, IsNotice
    <2>2. QED
      BY <1>1, <1>2, <1>5, <2>1 DEF OnRelayPeerUpdate, Notes
  <1>6. CASE OnRelayVoiceStart(p)
    <2>1. IsRequest(Event(p)) /\ IsStart(Event(p))
      BY <1>6 DEF OnRelayVoiceStart, Hears, IsRequest, IsStart, VoiceFrames
    <2>2. call' = [call EXCEPT ![p] = "Connected"]
      BY <1>6 DEF OnRelayVoiceStart, Smooth
    <2>3. QED
      BY <1>1, <1>2, <1>6, <2>1, <2>2 DEF OnRelayVoiceStart, Obeys
  <1>7. CASE OnRelayVoiceStop(p)
    <2>1. IsRequest(Event(p)) /\ ~IsStart(Event(p))
      BY <1>7 DEF OnRelayVoiceStop, Hears, IsRequest, IsStart, VoiceFrames
    <2>2. QED
      BY <1>1, <1>2, <1>7, <2>1 DEF OnRelayVoiceStop, Obeys
  <1>8. QED
    BY <1>4, <1>5, <1>6, <1>7 DEF ClientTask

LEMMA ClientKeeps ==
    ASSUME PartyInv, CallNeedsOnePeer, Smooth, Smooth', SmoothRun, NEW p \in Instances,
           ClientTask(p)
    PROVE  SmoothRun'
  <1> DEFINE c == current[p]
             e == Event(p)
  <1>1. /\ UNCHANGED <<up, current, host, guests>> /\ c \in Sockets /\ down[c] # <<>>
        /\ down' = [down EXCEPT ![c] = Tail(@)]
        /\ Notes(p) \/ Obeys(p)
    BY ClientSmooth
  <1>2. /\ down \in [Sockets -> Seq(ToClient)]
        /\ call \in [Instances -> {"Idle", "Connected", "Failed"}]
        /\ current \in [Instances -> Sockets \cup {NoSocket}] /\ view \in [Instances -> Views]
    BY DEF PartyInv, PartyTypes
  <1>3. Outsiders /\ Calling /\ PairIsNews /\ EndsAgree
    BY DEF SmoothRun
  <1>4. /\ \A x : Member(x)' <=> Member(x)
        /\ (PairUp' <=> PairUp) /\ (OneGuest' <=> OneGuest)
    BY <1>1 DEF Member, PairUp, OneGuest
  <1>5. Member(c)
    BY <1>1, <1>3 DEF Outsiders
  <1> HIDE DEF c, e
  <1>6. /\ down[c] \in Seq(ToClient) /\ e = Head(down[c])
        /\ e = down[c][1] /\ 1 \in 1 .. Len(down[c])
        /\ e \in ToClient /\ down'[c] = Tail(down[c]) /\ Len(down'[c]) \in Nat
        /\ \A k \in 1 .. Len(down'[c]) : /\ k + 1 \in 1 .. Len(down[c])
                                         /\ down'[c][k] = down[c][k + 1]
        /\ \A x \in Sockets : x # c => down'[x] = down[x]
    <2>1. down[c] \in Seq(ToClient) /\ down'[c] = Tail(down[c]) /\ e = Head(down[c])
      BY <1>1, <1>2 DEF e, c, Event
    <2>2. QED
      BY <1>1, <1>2, <2>1, Unqueued
  <1>7. /\ \A q \in Instances : q # p => view'[q] = view[q] /\ call'[q] = call[q]
        /\ view'[p] = view[p] \/ (Notes(p) /\ (view'[p] = Pair => Tells(e, Pair)))
        /\ call'[p] # "Idle" => call[p] # "Idle" \/ IsRequest(e)
    <2>1. CASE Notes(p)
      BY <1>2, <2>1 DEF Notes, Tells, Pair, e
    <2>2. CASE Obeys(p)
      BY <1>2, <2>2 DEF Obeys, e
    <2>3. QED
      BY <1>1, <2>1, <2>2
  <1>8. /\ \A x \in Sockets : Carries(down'[x]) => Carries(down[x])
        /\ IsRequest(e) => Carries(down[c])
        /\ ~IsRequest(e) => \A x \in Sockets : Alike(down'[x], down[x])
    <2>1. /\ Carries(down[c]) <=> IsRequest(e) \/ Carries(down'[c])
          /\ ~IsRequest(e) => Alike(down'[c], down[c])
      BY <1>1, <1>6, AskedFirst
    <2>2. QED
      BY <1>6, <2>1, AlikeItself
  <1>9. Outsiders'
    <2>1. ASSUME NEW q \in Instances, current[q] = NoSocket \/ ~Member(current[q])
          PROVE  view'[q] # Pair /\ call'[q] = "Idle"
      <3>1. q # p
        BY <1>1, <1>5, <2>1, SocketsAssumption DEF c
      <3>2. QED
        BY <1>3, <1>7, <2>1, <3>1 DEF Outsiders
    <2>2. ASSUME NEW x \in Sockets, ~Member(x) PROVE ~Carries(up'[x]) /\ down'[x] = <<>>
      BY <1>1, <1>3, <1>5, <1>6, <2>2 DEF Outsiders
    <2>3. QED
      BY <1>1, <1>4, <2>1, <2>2 DEF Outsiders, Pair
  <1>10. Calling'
    <2>1. ASSUME NEW q \in Instances, view'[q] = Pair \/ call'[q] # "Idle" PROVE PairUp
      <3>1. CASE view[q] = Pair \/ call[q] # "Idle"
        BY <1>3, <3>1 DEF Calling
      <3>2. CASE Tells(e, Pair) \/ IsRequest(e)
        BY <1>1, <1>3, <1>6, <1>8, <3>2 DEF Calling
      <3>3. QED
        BY <1>7, <2>1, <3>1, <3>2
    <2>2. ASSUME NEW x \in Sockets, NEW k \in 1 .. Len(down'[x]), Tells(down'[x][k], Pair)
          PROVE  PairUp
      BY <1>1, <1>3, <1>6, <2>2 DEF Calling
    <2>3. ASSUME NEW x \in Sockets, Carries(up'[x]) \/ Carries(down'[x]) PROVE PairUp
      BY <1>1, <1>3, <1>8, <2>3 DEF Calling
    <2>4. QED
      BY <1>4, <2>1, <2>2, <2>3 DEF Calling, Pair, Tells, IsNotice
  <1>11. PairIsNews'
    <2>1. SUFFICES ASSUME OneGuest PROVE PairIsNews'
      BY <1>4 DEF PairIsNews
    <2>2. \A x \in Sockets : \A k, l \in 1 .. Len(down[x]) :
             k < l /\ Tells(down[x][k], Pair) /\ IsNotice(down[x][l]) => Tells(down[x][l], Pair)
      BY <1>3, <2>1 DEF PairIsNews
    <2>3. ASSUME NEW q \in Instances, current[q] # NoSocket, view'[q] = Pair,
                 NEW k \in 1 .. Len(down'[current[q]]), IsNotice(down'[current[q]][k])
          PROVE  Tells(down'[current[q]][k], Pair)
      <3>1. CASE q = p
        <4>1. /\ k + 1 \in 1 .. Len(down[c]) /\ down'[c][k] = down[c][k + 1] /\ 1 < k + 1
              /\ IsNotice(down'[c][k]) /\ current[q] = c
          <5>1. current[q] = c
            BY <3>1 DEF c
          <5>2. k \in 1 .. Len(down'[c]) /\ IsNotice(down'[c][k])
            BY <2>3, <5>1
          <5>3. k \in Nat /\ 1 < k + 1
            BY <1>6, <5>2
          <5>4. QED
            BY <1>6, <5>1, <5>2, <5>3
        <4>2. CASE view[p] = Pair
          <5>1. \A i \in 1 .. Len(down[c]) : IsNotice(down[c][i]) => Tells(down[c][i], Pair)
            BY <1>3, <2>1, <2>3, <3>1, <4>2 DEF PairIsNews, c
          <5>2. Tells(down[c][k + 1], Pair)
            BY <4>1, <5>1
          <5>3. QED
            BY <4>1, <5>2
        <4>3. CASE Tells(e, Pair)
          <5>1. c \in Sockets /\ 1 \in 1 .. Len(down[c]) /\ Tells(down[c][1], Pair)
            BY <1>1, <1>6, <4>3
          <5>2. Tells(down[c][k + 1], Pair)
            BY <2>2, <4>1, <5>1
          <5>3. QED
            BY <4>1, <5>2
        <4>4. QED
          BY <1>7, <2>3, <3>1, <4>2, <4>3
      <3>2. CASE q # p
        <4>1. current[q] # c /\ current[q] \in Sockets
          BY <1>1, <1>2, <2>3, <3>2, OwnEars DEF c
        <4>2. down'[current[q]] = down[current[q]] /\ view[q] = Pair
          BY <1>6, <1>7, <2>3, <3>2, <4>1
        <4>3. \A i \in 1 .. Len(down[current[q]]) :
                 IsNotice(down[current[q]][i]) => Tells(down[current[q]][i], Pair)
          BY <1>3, <2>1, <2>3, <4>2 DEF PairIsNews
        <4>4. QED
          BY <2>3, <4>2, <4>3
      <3>3. QED
        BY <3>1, <3>2
    <2>4. ASSUME NEW x \in Sockets, NEW k \in 1 .. Len(down'[x]), NEW l \in 1 .. Len(down'[x]),
                 k < l, Tells(down'[x][k], Pair), IsNotice(down'[x][l])
          PROVE  Tells(down'[x][l], Pair)
      <3>1. CASE x = c
        <4>1. /\ k + 1 \in 1 .. Len(down[c]) /\ down'[c][k] = down[c][k + 1]
              /\ l + 1 \in 1 .. Len(down[c]) /\ down'[c][l] = down[c][l + 1] /\ k + 1 < l + 1
          <5>1. k \in 1 .. Len(down'[c]) /\ l \in 1 .. Len(down'[c]) /\ k < l
            BY <2>4, <3>1
          <5>2. k \in Nat /\ l \in Nat
            BY <1>6, <5>1
          <5>3. QED
            BY <1>6, <5>1, <5>2
        <4>2. QED
          BY <1>1, <2>2, <2>4, <3>1, <4>1
      <3>2. CASE x # c
        <4>1. down'[x] = down[x]
          BY <1>6, <3>2
        <4>2. QED
          BY <2>2, <2>4, <4>1
      <3>3. QED
        BY <3>1, <3>2
    <2>5. current' = current
      BY <1>1
    <2>6. QED
      BY <2>3, <2>4, <2>5 DEF PairIsNews, Pair, Tells, IsNotice
  <1>12. ASSUME NEW g \in Guests, NEW h \in Sockets, NEW x \in Sockets,
                host[SessionCode] = h, guests[SessionCode] = {x}, current[g] = x
         PROVE  Ends(Host, h, g, x)'
    <2>1. Pact(down[h], up[h], Active(Host), down[x], up[x], Active(g))
      BY <1>3, <1>12 DEF EndsAgree, Ends
    <2>2. /\ h # x /\ g # Host /\ g \in Instances /\ Host \in Instances
          /\ (c = h /\ p = Host) \/ (c = x /\ p = g)
      BY <1>1, <1>5, <1>12, EndOf DEF c
    <2>3. CASE Notes(p)
      <3>1. ~IsRequest(e)
        BY <2>3 DEF Notes, IsNotice, IsRequest, VoiceFrames, e
      <3>2. Active(p)' <=> Active(p)
        <4>1. CASE Active(p)
          <5>1. view[p] = Pair /\ current[p] # NoSocket /\ enabled[p]
            BY <4>1, AvailableToAPair DEF CallNeedsOnePeer
          <5>2. Tells(e, Pair)
            <6>1. OneGuest
              BY <1>12 DEF OneGuest
            <6>2. \A k \in 1 .. Len(down[c]) : IsNotice(down[c][k]) => Tells(down[c][k], Pair)
              BY <1>3, <5>1, <6>1 DEF PairIsNews, c
            <6>3. IsNotice(e)
              BY <2>3 DEF Notes, e
            <6>4. QED
              BY <1>6, <6>2, <6>3
          <5>3. view'[p].host = TRUE /\ view'[p].guests = 1
            BY <1>2, <2>3, <5>2 DEF Notes, Tells, Pair, e
          <5>4. AvailableWith(p, view'[p])
            BY <5>1, <5>3 DEF AvailableWith, Connected
          <5>5. QED
            BY <1>2, <2>3, <4>1, <5>4 DEF Notes, Active
        <4>2. CASE ~Active(p)
          BY <1>2, <2>3, <4>2 DEF Notes, Active
        <4>3. QED
          BY <4>1, <4>2
      <3>3. (Active(Host)' <=> Active(Host)) /\ (Active(g)' <=> Active(g))
        BY <1>7, <2>2, <3>2 DEF Active
      <3>4. Pact(down'[h], up[h], Active(Host)', down'[x], up[x], Active(g)')
        BY <1>8, <2>1, <3>1, <3>3, InACall, AlikeItself, PactQuiet
      <3>5. QED
        BY <1>1, <3>4 DEF Ends
    <2>4. CASE Obeys(p)
      <3>1. IsRequest(e) /\ (Active(p)' <=> IsStart(e))
        BY <1>2, <2>4 DEF Obeys, Active, e
      <3>2. CASE c = x /\ p = g
        <4>1. Active(Host)' <=> Active(Host)
          BY <1>7, <2>2, <3>2 DEF Active
        <4>2. down'[h] = down[h] /\ down'[x] = Tail(down[x])
          BY <1>6, <2>2, <3>2
        <4>3. down[x] \in Seq(ToClient) /\ down[x] # <<>> /\ IsRequest(Head(down[x]))
              /\ (Active(g)' <=> IsStart(Head(down[x])))
          BY <1>1, <1>6, <3>1, <3>2
        <4>4. Pact(down[h], up[h], Active(Host), Tail(down[x]), up[x], Active(g)')
          BY <2>1, <4>3, InACall, PactHears
        <4>5. Pact(down[h], up[h], Active(Host)', Tail(down[x]), up[x], Active(g)')
          BY <4>1, <4>4, InACall, AlikeItself, PactQuiet
        <4>6. QED
          BY <1>1, <4>2, <4>5 DEF Ends
      <3>3. CASE c = h /\ p = Host
        <4>1. Active(g)' <=> Active(g)
          BY <1>7, <2>2, <3>3 DEF Active
        <4>2. down'[x] = down[x] /\ down'[h] = Tail(down[h])
          BY <1>6, <2>2, <3>3
        <4>3. down[h] \in Seq(ToClient) /\ down[h] # <<>> /\ IsRequest(Head(down[h]))
              /\ (Active(Host)' <=> IsStart(Head(down[h])))
          BY <1>1, <1>6, <3>1, <3>3
        <4>4. Pact(down[x], up[x], Active(g), down[h], up[h], Active(Host))
          BY <2>1, InACall, PactSwaps
        <4>5. Pact(down[x], up[x], Active(g), Tail(down[h]), up[h], Active(Host)')
          BY <4>3, <4>4, InACall, PactHears
        <4>6. Pact(Tail(down[h]), up[h], Active(Host)', down[x], up[x], Active(g))
          BY <4>5, InACall, PactSwaps
        <4>7. Pact(Tail(down[h]), up[h], Active(Host)', down[x], up[x], Active(g)')
          BY <4>1, <4>6, InACall, AlikeItself, PactQuiet
        <4>8. QED
          BY <1>1, <4>2, <4>7 DEF Ends
      <3>4. QED
        BY <2>2, <3>2, <3>3
    <2>5. QED
      BY <1>1, <2>3, <2>4
  <1>13. EndsAgree'
    BY <1>1, <1>12 DEF EndsAgree
  <1>14. QED
    BY <1>9, <1>10, <1>11, <1>13 DEF SmoothRun

(***************************************************************************)
(* What a call comes to.                                                   *)
(***************************************************************************)

SmoothInv == HostInv /\ CallInv /\ (Smooth => SmoothRun)

LEMMA SmoothInitially == VoiceCallInit => SmoothInv
  <1> SUFFICES ASSUME VoiceCallInit, Smooth PROVE SmoothRun
    BY HostInitially, CallInitially DEF SmoothInv
  <1>1. /\ \A s \in Sockets : up[s] = <<>> /\ down[s] = <<>>
        /\ \A p \in Instances : view[p] # Pair /\ call[p] = "Idle"
        /\ host[SessionCode] = NoSocket
    BY CodeKnown DEF VoiceCallInit, Pair
  <1>2. 1 .. 0 = {}
    OBVIOUS
  <1>3. Outsiders /\ Calling /\ PairIsNews
    BY <1>1, <1>2, Nothing, NothingAsked DEF Outsiders, Calling, PairIsNews
  <1>4. EndsAgree
    BY <1>1, SocketsAssumption DEF EndsAgree
  <1>5. QED
    BY <1>3, <1>4 DEF SmoothRun

LEMMA SmoothKeeps == SmoothInv /\ [VoiceCallNext]_voiceCallVars => SmoothInv'
  <1> SUFFICES ASSUME SmoothInv, [VoiceCallNext]_voiceCallVars, Smooth' PROVE SmoothRun'
    BY HostKeeps, CallKeeps DEF SmoothInv
  <1>1. PartyInv /\ CallNeedsOnePeer
    BY DEF SmoothInv, HostInv, CallInv
  <1>2. Smooth
    BY <1>1, SmoothBefore
  <1>3. SmoothRun
    BY <1>2 DEF SmoothInv
  <1>4. Outsiders
    BY <1>3 DEF SmoothRun
  <1>5. ASSUME NEW p \in Instances,
               StartVoiceCall(p) \/ EndCall(p) \/ SetVoiceEnabled(p) \/ SetCaptureDevice(p)
        PROVE  SmoothRun'
    BY <1>1, <1>2, <1>3, <1>4, <1>5, SmoothPress, PressKeeps
  <1>6. ASSUME NEW p \in Instances, ClientTask(p) PROVE SmoothRun'
    BY <1>1, <1>2, <1>3, <1>6, ClientKeeps
  <1>7. ASSUME NEW p \in Instances, NEW s \in Sockets, Connect(p, s) PROVE SmoothRun'
    BY <1>1, <1>2, <1>3, <1>7, ConnectKeeps
  <1>8. ASSUME NEW s \in Sockets, Drop(s) PROVE FALSE
    <2>1. wire'[s] = "down"
      BY <1>1, <1>8 DEF Drop, WireDrop, PartyInv, PartyTypes
    <2>2. QED
      BY <2>1 DEF Smooth
  <1>9. ASSUME NEW s \in Sockets, OnSocketDisconnected(s) PROVE FALSE
    <2>1. wire[s] = "down"
      BY <1>1, <1>9, Left, NextFrame
    <2>2. QED
      BY <1>2, <2>1 DEF Smooth
  <1>10. ASSUME NEW s \in Sockets, ServerTask(s), UNCHANGED callVars PROVE SmoothRun'
    <2>1. CASE OnClientConnected(s)
      BY <1>1, <1>3, <1>10, <2>1, ArrivalKeeps
    <2>2. CASE OnJoin(s)
      BY <1>1, <1>2, <1>3, <1>10, <2>2, JoinKeeps
    <2>3. CASE OnRelay(s)
      BY <1>1, <1>2, <1>3, <1>10, <2>3, RelayKeeps
    <2>4. QED
      BY <1>1, <1>9, <1>10, <2>1, <2>2, <2>3, NoPing DEF ServerTask, OnTextMessage
  <1>11. CASE UNCHANGED voiceCallVars
    <2>1. UNCHANGED <<up, down, host, guests, current, view, call>>
      BY <1>11 DEF voiceCallVars, net, server, callVars
    <2>2. Outsiders'
      BY <1>3, <2>1 DEF SmoothRun, Outsiders, Member, Pair
    <2>3. Calling'
      BY <1>3, <2>1 DEF SmoothRun, Calling, PairUp, Pair, Tells, IsNotice
    <2>4. PairIsNews'
      <3>1. PairIsNews /\ (OneGuest' <=> OneGuest) /\ down' = down /\ current' = current
            /\ view' = view
        BY <1>3, <2>1 DEF SmoothRun, OneGuest
      <3>2. CASE OneGuest
        BY <3>1, <3>2 DEF PairIsNews, Pair, Tells, IsNotice
      <3>3. CASE ~OneGuest
        BY <3>1, <3>3 DEF PairIsNews
      <3>4. QED
        BY <3>2, <3>3
    <2>5. EndsAgree'
      BY <1>3, <2>1 DEF SmoothRun, EndsAgree, Ends, Active
    <2>6. QED
      BY <2>2, <2>3, <2>4, <2>5 DEF SmoothRun
  <1>12. QED
    BY <1>5, <1>6, <1>7, <1>8, <1>10, <1>11 DEF VoiceCallNext

\* When all is quiet the two ends agree, and nobody else is in a call.
LEMMA SmoothAgrees == SmoothInv => CallsAgree
  <1> SUFFICES ASSUME SmoothInv, ~refused, ~crossed, NEW p \in Instances, Active(p),
                      \A s \in Sockets : up[s] = <<>> /\ down[s] = <<>> /\ wire[s] # "down"
               PROVE  \E g \in Guests : {q \in Instances : Active(q)} = {Host, g}
    BY DEF CallsAgree
  <1>1. PartyInv /\ CallNeedsOnePeer /\ Smooth
    BY DEF SmoothInv, HostInv, CallInv, Smooth
  <1>2. SmoothRun /\ HostHolds
    BY <1>1, VoiceCallAssumption DEF SmoothInv, Smooth, HostHolds, Instances
  <1>3. StartsAreTimely
    BY <1>2 DEF SmoothInv, HostInv
  <1>4. ASSUME NEW q \in Instances, Active(q)
        PROVE  current[q] \in Sockets /\ Member(current[q]) /\ view[q] = Pair
    <2>1. view[q] = Pair /\ current[q] # NoSocket
      BY <1>1, <1>4, AvailableToAPair DEF CallNeedsOnePeer
    <2>2. QED
      BY <1>1, <1>2, <2>1 DEF SmoothRun, Outsiders, PartyInv, PartyTypes
  <1>5. Roster = Pair
    <2>1. current[p] \in Sockets /\ Member(current[p]) /\ view[p] = Pair /\ Live(current[p])
      BY <1>1, <1>4, MembersLive
    <2>2. Learns(<<>>, Pair, Roster)
      BY <1>3, <2>1, SocketsAssumption DEF StartsAreTimely, Informed
    <2>3. (Len(<<>>) + 1) - 1 = 0 /\ 1 .. 0 = {}
      BY Nothing
    <2>4. QED
      BY <2>2, <2>3 DEF Learns, Known
  <1>6. PICK h \in Sockets, x \in Sockets : host[SessionCode] = h /\ guests[SessionCode] = {x}
    <2>1. host[SessionCode] \in Sockets \cup {NoSocket} /\ guests[SessionCode] \in SUBSET Sockets
      BY <1>1 DEF PartyInv, Seats
    <2>2. host[SessionCode] # NoSocket /\ \E x \in Sockets : guests[SessionCode] = {x}
      BY <1>5, <2>1, TwoSeats DEF Roster
    <2>3. QED
      BY <2>1, <2>2
  <1>7. PICK g \in Guests : current[g] = x
    <2>1. Member(x) /\ peers[x].role = "guest"
      BY <1>1, <1>6 DEF Member, PartyInv, Seats, SeatOK
    <2>2. QED
      BY <1>1, <2>1, MembersLive
  <1>8. /\ g \in Instances /\ Host \in Instances
        /\ \A s \in Sockets : Member(s) <=> s = h \/ s = x
        /\ \A q \in Instances : (current[q] = h => q = Host) /\ (current[q] = x => q = g)
    BY <1>1, <1>6, <1>7, EndOf
  <1>9. Active(Host) <=> Active(g)
    <2>1. Pact(<<>>, <<>>, Active(Host), <<>>, <<>>, Active(g))
      BY <1>2, <1>6, <1>7 DEF SmoothRun, EndsAgree, Ends
    <2>2. QED
      BY <2>1, NothingAsked, InACall DEF Pact, Finally
  <1>10. \A q \in Instances : Active(q) => q = Host \/ q = g
    BY <1>4, <1>8
  <1>11. Active(Host) /\ Active(g)
    BY <1>9, <1>10
  <1>12. {q \in Instances : Active(q)} = {Host, g}
    BY <1>8, <1>10, <1>11
  <1>13. QED
    BY <1>12

\* Whoever breaks off or comes late, a request to start a call reaches an instance
\* that still takes itself for one of two, if the connections of the host hold; it
\* connects to the server inside its own process (sync_session.cpp: startHostSession,
\* onRelayVoiceStartReceived; signaling_server.cpp: sendPeerUpdate, onTextMessage).
THEOREM CallsReachThePeer == ASSUME HostStays PROVE VoiceCallSpec => []CallsHaveOnePeer
  <1> DEFINE Inv == HostInv /\ HostHolds /\ CallInv
  <1>1. VoiceCallInit => Inv
    BY HostInitially, CallInitially
  <1>2. Inv /\ [VoiceCallNext]_voiceCallVars => Inv'
    BY HostStays, HostKeeps, HostStaysOn, CallKeeps DEF HostInv
  <1>3. Inv => CallsHaveOnePeer
    BY StartFound DEF CallsHaveOnePeer, CallInv
  <1>4. QED
    BY <1>1, <1>2, <1>3, PTL DEF VoiceCallSpec

\* Without a handshake the two ends of a call agree all the same, once nothing is in
\* flight: either nobody is in a call or the host and its one guest are, unless a
\* connection broke, a device failed or requests crossed (sync_session.cpp:
\* startVoiceCall, stopVoiceCall, setVoiceEnabled, onRelayVoiceStartReceived,
\* onRelayVoiceStopReceived).
THEOREM QuietCallsAgree == VoiceCallSpec => []CallsAgree
  BY SmoothInitially, SmoothKeeps, SmoothAgrees, PTL DEF VoiceCallSpec
=============================================================================
