------------------------------ MODULE EmlProofs ------------------------------
(***************************************************************************)
(* Proofs about the operators of DataText and Eml, for every text of any   *)
(* length, and lemmas about sequences that other proofs rest on.           *)
(*                                                                         *)
(* What the functions of DataText compute is proved by induction over the  *)
(* text, as facts about sets: the indices for which a fact holds have no   *)
(* least exception.  The writes of a text are compared with what should go *)
(* out for each of its characters (Pieces).                                *)
(***************************************************************************)
EXTENDS Eml, Cuts, SequenceTheorems, WellFoundedInduction, TLAPS

----------------------------------------------------------------------------
(***************************************************************************)
(* Lemmas about sequences cut in two.                                      *)
(***************************************************************************)

\* Both parts of a sequence that is cut are sequences, and give it back.
LEMMA CutFacts ==
  ASSUME NEW S, NEW s \in Seq(S), NEW n \in 0 .. Len(s)
  PROVE  /\ Take(s, n) \in Seq(S) /\ Len(Take(s, n)) = n
         /\ Drop(s, n) \in Seq(S) /\ Len(Drop(s, n)) = Len(s) - n
         /\ Take(s, n) \o Drop(s, n) = s
<1>1. Len(s) \in Nat /\ n \in Int /\ n + 1 \in Int
  OBVIOUS
<1>2. (\A i \in 1 .. n : s[i] \in S) /\ (\A i \in n + 1 .. Len(s) : s[i] \in S)
  OBVIOUS
<1>3. /\ SubSeq(s, 1, n) \in Seq(S)
      /\ Len(SubSeq(s, 1, n)) = IF 1 <= n THEN n - 1 + 1 ELSE 0
  BY <1>1, <1>2, SubSeqProperties
<1>4. /\ SubSeq(s, n + 1, Len(s)) \in Seq(S)
      /\ Len(SubSeq(s, n + 1, Len(s))) = IF n + 1 <= Len(s) THEN Len(s) - (n + 1) + 1 ELSE 0
  BY <1>1, <1>2, SubSeqProperties
<1>5. SubSeq(s, 1, n) \o SubSeq(s, n + 1, Len(s)) = SubSeq(s, 1, Len(s))
  <2>1. /\ 1 \in 1 .. Len(s) + 1
        /\ n \in 1 - 1 .. Len(s)
        /\ Len(s) \in n .. Len(s)
    BY <1>1
  <2> QED
    BY <2>1, ConcatAdjacentSubSeq
<1>6. SubSeq(s, 1, Len(s)) = s
  BY SubSeqFull
<1>7. Len(SubSeq(s, 1, n)) = n
  BY <1>1, <1>3
<1>8. Len(SubSeq(s, n + 1, Len(s))) = Len(s) - n
  BY <1>1, <1>4
<1> QED
  BY <1>3, <1>4, <1>5, <1>6, <1>7, <1>8, Zenon DEF Take, Drop

\* Nothing, and all, of a sequence.
LEMMA TakeEnds ==
  ASSUME NEW S, NEW s \in Seq(S)
  PROVE  Take(s, 0) = <<>> /\ Take(s, -1) = <<>> /\ Take(s, Len(s)) = s
BY SubSeqEmpty, SubSeqFull DEF Take

\* The first part of two that are put together.
LEMMA TakeOfConcat ==
  ASSUME NEW S, NEW s \in Seq(S), NEW t \in Seq(S)
  PROVE  Take(s \o t, Len(s)) = s
<1>1. CASE s = <<>>
  BY <1>1, TakeEnds, ConcatProperties
<1>2. CASE s # <<>>
  <2>1. Len(s) \in Nat \ {0} /\ 1 \in 1 .. Len(s) /\ Len(s) \in 1 .. Len(s)
    BY <1>2, EmptySeq
  <2>2. SubSeq(s \o t, 1, Len(s)) = SubSeq(s, 1, Len(s))
    BY <2>1, SubSeqOfConcat1
  <2> QED
    BY <2>2, SubSeqFull DEF Take
<1> QED
  BY <1>1, <1>2

LEMMA AppendFacts ==
  ASSUME NEW S, NEW t \in Seq(S), NEW c \in S
  PROVE  /\ Append(t, c) \in Seq(S) /\ Len(t) \in Nat /\ Len(Append(t, c)) = Len(t) + 1
         /\ Append(t, c)[Len(t) + 1] = c /\ \A i \in 1 .. Len(t) : Append(t, c)[i] = t[i]
         /\ Append(t, c) # <<>>
OBVIOUS

----------------------------------------------------------------------------
(***************************************************************************)
(* Induction up to a number, and down from it, as facts about sets.        *)
(***************************************************************************)

LEMMA LeastOf ==
  ASSUME NEW T, T \subseteq Nat, T # {}
  PROVE  \E m \in T : \A k \in T : m <= k
<1> DEFINE R == {ss \in Nat \X Nat : ss[1] < ss[2]}
<1>1. IsWellFoundedOn(R, Nat)
  BY NatLessThanWellFounded, Zenon DEF OpToRel
<1>2. PICK m \in T : \A k \in T : ~(<<k, m>> \in R)
  <2> HIDE DEF R
  <2> QED
    BY <1>1, WFMin, Zenon
<1>3. ASSUME NEW k \in T PROVE m <= k
  <2>1. ~(k < m)
    <3>1. SUFFICES ASSUME k < m PROVE FALSE
      OBVIOUS
    <3>2. <<k, m>> \in R
      BY <3>1
    <3> QED
      BY <1>2, <3>2
  <2> QED
    BY <2>1
<1> QED
  BY <1>3

\* Up to n.
LEMMA UpTo ==
  ASSUME NEW n \in Nat, NEW G, 0 \in G, \A k \in 0 .. n - 1 : k \in G => k + 1 \in G
  PROVE  \A k \in 0 .. n : k \in G
<1> DEFINE Bad == {k \in 0 .. n : k \notin G}
<1>1. SUFFICES ASSUME Bad # {} PROVE FALSE
  OBVIOUS
<1>2. Bad \subseteq Nat
  OBVIOUS
<1>3. PICK m \in Bad : \A k \in Bad : m <= k
  <2> HIDE DEF Bad
  <2> QED
    BY <1>1, <1>2, LeastOf
<1>4. m \in 1 .. n /\ m \notin G /\ m - 1 \in 0 .. n - 1 /\ m - 1 + 1 = m
  BY <1>3
<1>5. m - 1 \in G
  BY <1>3, <1>4
<1> QED
  BY <1>4, <1>5

\* Down from n, with all that is above.
LEMMA DownFrom ==
  ASSUME NEW n \in Nat, NEW G,
         \A i \in 1 .. n : (\A j \in i + 1 .. n : j \in G) => i \in G
  PROVE  \A i \in 1 .. n : i \in G
<1> DEFINE Bad == {k \in 0 .. n : n - k \in 1 .. n /\ n - k \notin G}
<1>1. SUFFICES ASSUME NEW i \in 1 .. n, i \notin G PROVE FALSE
  OBVIOUS
<1>2. Bad \subseteq Nat /\ n - i \in Bad
  BY <1>1
<1>3. PICK m \in Bad : \A k \in Bad : m <= k
  <2> HIDE DEF Bad
  <2> QED
    BY <1>2, LeastOf
<1>4. n - m \in 1 .. n /\ n - m \notin G /\ m \in 0 .. n
  BY <1>3
<1>5. ASSUME NEW j \in n - m + 1 .. n PROVE j \in G
  <2>1. j \in 1 .. n /\ n - j \in 0 .. n /\ n - j < m /\ n - (n - j) = j
    BY <1>4
  <2>2. n - j \notin Bad
    BY <1>3, <2>1
  <2> QED
    BY <2>1, <2>2
<1> QED
  BY <1>4, <1>5

----------------------------------------------------------------------------
(***************************************************************************)
(* FlattenSeq.                                                             *)
(***************************************************************************)

\* The function by which FlattenSeq is defined, up to the k-th sequence.
IsFlat(f, seqs, k) ==
  f = [i \in 1 .. k |-> IF i = 1 THEN seqs[i] ELSE f[i - 1] \o seqs[i]]

LEMMA FlatExists ==
  ASSUME NEW seqs, NEW n \in Nat
  PROVE  \E f : IsFlat(f, seqs, n)
<1> DEFINE G == {k \in Nat : \E f : IsFlat(f, seqs, k)}
<1>1. 0 \in G
  <2> DEFINE e == [i \in 1 .. 0 |-> <<>>]
  <2>1. e = [i \in 1 .. 0 |-> IF i = 1 THEN seqs[i] ELSE e[i - 1] \o seqs[i]]
    OBVIOUS
  <2>2. IsFlat(e, seqs, 0)
    BY <2>1 DEF IsFlat
  <2> QED
    BY <2>2
<1>2. ASSUME NEW k \in 0 .. n - 1, k \in G PROVE k + 1 \in G
  <2>1. PICK f : IsFlat(f, seqs, k)
    BY <1>2
  <2> DEFINE at(i) == IF i = 1 THEN seqs[i] ELSE f[i - 1] \o seqs[i]
             g == [i \in 1 .. k + 1 |-> at(i)]
  <2>2. \A i \in 1 .. k : f[i] = at(i)
    BY <2>1 DEF IsFlat
  <2>3. \A i \in 1 .. k + 1 : i # 1 => i - 1 \in 1 .. k /\ i - 1 \in 1 .. k + 1
    OBVIOUS
  <2>4. \A i \in 1 .. k + 1 : i # 1 => g[i - 1] = f[i - 1]
    <3> HIDE DEF at
    <3> QED
      BY <2>2, <2>3
  <2>5. g = [i \in 1 .. k + 1 |-> IF i = 1 THEN seqs[i] ELSE g[i - 1] \o seqs[i]]
    <3>1. \A i \in 1 .. k + 1 : at(i) = IF i = 1 THEN seqs[i] ELSE g[i - 1] \o seqs[i]
      <4> HIDE DEF g
      <4> QED
        BY <2>4
    <3> HIDE DEF at
    <3>2. g = [i \in 1 .. k + 1 |-> at(i)]
      OBVIOUS
    <3> HIDE DEF g
    <3> QED
      BY <3>1, <3>2
  <2>6. IsFlat(g, seqs, k + 1)
    <3> HIDE DEF g
    <3> QED
      BY <2>5 DEF IsFlat
  <2> HIDE DEF g
  <2> QED
    BY <2>6
<1>3. n \in 0 .. n
  OBVIOUS
<1>4. n \in G
  <2> HIDE DEF G
  <2> QED
    BY <1>1, <1>2, <1>3, UpTo
<1> QED
  BY <1>4

LEMMA FlattenFunction ==
  ASSUME NEW seqs, Len(seqs) \in Nat \ {0}
  PROVE  \E f : IsFlat(f, seqs, Len(seqs)) /\ FlattenSeq(seqs) = f[Len(seqs)]
<1> DEFINE f == CHOOSE f : IsFlat(f, seqs, Len(seqs))
<1>1. IsFlat(f, seqs, Len(seqs))
  BY FlatExists
<1>2. FlattenSeq(seqs) = f[Len(seqs)]
  BY DEF FlattenSeq, IsFlat
<1> HIDE DEF f
<1> QED
  BY <1>1, <1>2

LEMMA FlattenEmpty == FlattenSeq(<<>>) = <<>>
BY DEF FlattenSeq

\* One more sequence.
LEMMA FlattenAppend ==
  ASSUME NEW S, NEW seqs \in Seq(Seq(S)), NEW s \in Seq(S)
  PROVE  FlattenSeq(Append(seqs, s)) = FlattenSeq(seqs) \o s
<1> DEFINE more == Append(seqs, s)
           n == Len(seqs)
<1>1. /\ n \in Nat /\ Len(more) = n + 1 /\ more \in Seq(Seq(S))
      /\ more[n + 1] = s /\ \A i \in 1 .. n : more[i] = seqs[i]
  OBVIOUS
<1> HIDE DEF more
<1>2. PICK g : IsFlat(g, more, n + 1) /\ FlattenSeq(more) = g[n + 1]
  BY <1>1, FlattenFunction
<1>3. \A i \in 1 .. n + 1 : g[i] = IF i = 1 THEN more[i] ELSE g[i - 1] \o more[i]
  BY <1>2 DEF IsFlat
<1>4. CASE n = 0
  <2>1. seqs = <<>> /\ FlattenSeq(more) = s
    <3>1. g[1] = more[1]
      BY <1>3, <1>4
    <3> QED
      BY <1>1, <1>2, <1>4, <3>1
  <2> QED
    BY <2>1, FlattenEmpty, ConcatEmptySeq DEF more
<1>5. CASE n # 0
  <2>1. PICK f : IsFlat(f, seqs, n) /\ FlattenSeq(seqs) = f[n]
    BY <1>1, <1>5, FlattenFunction
  <2>2. \A i \in 1 .. n : f[i] = IF i = 1 THEN seqs[i] ELSE f[i - 1] \o seqs[i]
    BY <2>1 DEF IsFlat
  <2> DEFINE G == {k \in Nat : k \in 1 .. n => g[k] = f[k]}
  <2>3. 0 \in G
    OBVIOUS
  <2>4. ASSUME NEW k \in 0 .. n - 1, k \in G PROVE k + 1 \in G
    <3>0. n \in Nat
      BY <1>1
    <3> HIDE DEF n, G
    <3>1. k + 1 \in 1 .. n /\ k + 1 \in 1 .. n + 1 /\ k + 1 - 1 = k /\ (k + 1 = 1 <=> k = 0)
      BY <3>0
    <3>2. k # 0 => k \in 1 .. n
      BY <3>0
    <3> USE DEF n, G
    <3>3. more[k + 1] = seqs[k + 1]
      BY <1>1, <3>1
    <3>4. f[k + 1] = (IF k = 0 THEN seqs[k + 1] ELSE f[k] \o seqs[k + 1])
      BY <2>2, <3>1
    <3>5. g[k + 1] = (IF k = 0 THEN more[k + 1] ELSE g[k] \o more[k + 1])
      <4> HIDE DEF n, G
      <4> QED
        BY <1>3, <3>1
    <3>6. g[k + 1] = f[k + 1]
      BY <2>4, <3>2, <3>3, <3>4, <3>5
    <3> QED
      BY <3>1, <3>6
  <2>5. n \in 1 .. n /\ n \in 0 .. n
    BY <1>1, <1>5
  <2>6. n \in G
    <3> HIDE DEF G
    <3> QED
      BY <1>1, <2>3, <2>4, <2>5, UpTo
  <2>7. g[n + 1] = g[n] \o s
    <3>1. PICK m \in Nat : m = n + 1
      BY <1>1
    <3>2. m \in 1 .. n + 1 /\ m # 1 /\ m - 1 = n
      BY <1>1, <1>5, <3>1
    <3>3. g[m] = g[m - 1] \o more[m]
      BY <1>3, <3>2
    <3> QED
      BY <1>1, <3>1, <3>2, <3>3
  <2> QED
    BY <1>2, <2>1, <2>5, <2>6, <2>7 DEF more
<1> QED
  BY <1>4, <1>5

\* The first k + 1 of a sequence.
LEMMA TakeOneMore ==
  ASSUME NEW S, NEW s \in Seq(S), NEW k \in 0 .. Len(s) - 1
  PROVE  /\ Take(s, k) \in Seq(S) /\ Len(Take(s, k)) = k
         /\ s[k + 1] \in S
         /\ Take(s, k + 1) = Append(Take(s, k), s[k + 1])
<1>1. k \in 0 .. Len(s) /\ k + 1 \in 1 .. Len(s) /\ Len(s) \in Nat /\ k + 1 \in 0 .. Len(s)
  OBVIOUS
<1>2. /\ Take(s, k) \in Seq(S) /\ Len(Take(s, k)) = k
      /\ Take(s, k + 1) \in Seq(S) /\ Len(Take(s, k + 1)) = k + 1
  BY <1>1, CutFacts
<1>3. s[k + 1] \in S
  BY <1>1
<1> DEFINE more == Append(Take(s, k), s[k + 1])
<1>4. /\ more \in Seq(S) /\ Len(more) = k + 1 /\ more[k + 1] = s[k + 1]
      /\ \A i \in 1 .. k : more[i] = Take(s, k)[i]
  BY <1>2, <1>3
<1>5. \A i \in 1 .. k : Take(s, k)[i] = s[i]
  BY <1>1, <1>2 DEF Take
<1>6. \A i \in 1 .. k + 1 : Take(s, k + 1)[i] = s[i]
  BY <1>1, <1>2 DEF Take
<1>7. \A i \in 1 .. k + 1 : i = k + 1 \/ i \in 1 .. k
  BY <1>1
<1>8. \A i \in 1 .. k + 1 : Take(s, k + 1)[i] = more[i]
  <2> HIDE DEF more
  <2> QED
    BY <1>4, <1>5, <1>6, <1>7
<1>9. Take(s, k + 1) = more
  <2> HIDE DEF more
  <2> QED
    BY <1>2, <1>4, <1>8, SeqEqual
<1> QED
  BY <1>2, <1>3, <1>9

LEMMA TakeNone ==
  ASSUME NEW s
  PROVE  Take(s, 0) = <<>>
BY SubSeqEmpty DEF Take

LEMMA FlattenTyped ==
  ASSUME NEW S, NEW seqs \in Seq(Seq(S))
  PROVE  FlattenSeq(seqs) \in Seq(S)
<1> DEFINE G == {k \in Nat : k \in 0 .. Len(seqs) => FlattenSeq(Take(seqs, k)) \in Seq(S)}
<1>1. 0 \in G
  <2>1. Take(seqs, 0) = <<>> /\ FlattenSeq(<<>>) \in Seq(S)
    BY TakeNone, FlattenEmpty, EmptySeq, Zenon
  <2> QED
    BY <2>1
<1>2. ASSUME NEW k \in 0 .. Len(seqs) - 1, k \in G PROVE k + 1 \in G
  <2>1. /\ Take(seqs, k) \in Seq(Seq(S)) /\ seqs[k + 1] \in Seq(S)
        /\ Take(seqs, k + 1) = Append(Take(seqs, k), seqs[k + 1])
    BY <1>2, TakeOneMore
  <2>2. FlattenSeq(Take(seqs, k)) \in Seq(S)
    BY <1>2
  <2>3. FlattenSeq(Take(seqs, k + 1)) = FlattenSeq(Take(seqs, k)) \o seqs[k + 1]
    BY <2>1, FlattenAppend
  <2>4. FlattenSeq(Take(seqs, k + 1)) \in Seq(S)
    BY <2>1, <2>2, <2>3, ConcatProperties
  <2> QED
    BY <2>4
<1>3. Len(seqs) \in 0 .. Len(seqs) /\ Len(seqs) \in Nat
  OBVIOUS
<1>4. Len(seqs) \in G
  <2> HIDE DEF G
  <2> QED
    BY <1>1, <1>2, <1>3, UpTo
<1> QED
  BY <1>3, <1>4, TakeEnds

LEMMA AppendToConcat ==
  ASSUME NEW S, NEW a \in Seq(S), NEW t \in Seq(S), NEW s \in S
  PROVE  a \o t \in Seq(S) /\ a \o Append(t, s) = Append(a \o t, s)
<1>1. <<s>> \in Seq(S) /\ Append(t, s) = t \o <<s>>
  BY AppendIsConcat
<1>2. a \o t \in Seq(S)
  BY ConcatProperties
<1>3. Append(a \o t, s) = (a \o t) \o <<s>>
  BY <1>2, AppendIsConcat
<1> DEFINE u == <<s>>
<1> HIDE DEF u
<1>4. (a \o t) \o u = a \o (t \o u)
  BY <1>1, ConcatAssociative DEF u
<1> QED
  BY <1>1, <1>2, <1>3, <1>4 DEF u

LEMMA AssociativeIn ==
  \A S : \A x, y, z \in Seq(S) : (x \o y) \o z = x \o (y \o z)
<1>1. ASSUME NEW S PROVE \A x, y, z \in Seq(S) : (x \o y) \o z = x \o (y \o z)
  BY ConcatAssociative
<1> QED
  BY <1>1

\* Two sequences of sequences.
LEMMA FlattenConcat ==
  ASSUME NEW S, NEW a \in Seq(Seq(S)), NEW b \in Seq(Seq(S))
  PROVE  FlattenSeq(a \o b) = FlattenSeq(a) \o FlattenSeq(b)
<1> DEFINE G == {k \in Nat : k \in 0 .. Len(b) =>
                   FlattenSeq(a \o Take(b, k)) = FlattenSeq(a) \o FlattenSeq(Take(b, k))}
<1>0. FlattenSeq(a) \in Seq(S)
  BY FlattenTyped
<1>a. \A s, t, u \in Seq(S) : (s \o t) \o u = s \o (t \o u)
  BY AssociativeIn, SMTT(30)
<1> DEFINE SS == Seq(S)
<1>b. \A x, y \in Seq(SS), z \in SS :
        x \o y \in Seq(SS) /\ x \o Append(y, z) = Append(x \o y, z)
  <2> HIDE DEF SS
  <2> QED
    BY AppendToConcat
<1>1. 0 \in G
  <2>1. a \o <<>> = a /\ FlattenSeq(a) \o <<>> = FlattenSeq(a)
    BY <1>0, ConcatEmptySeq
  <2> QED
    BY <2>1, TakeEnds, FlattenEmpty
<1>2. ASSUME NEW k \in 0 .. Len(b) - 1, k \in G PROVE k + 1 \in G
  <2> DEFINE t == Take(b, k)
             s == b[k + 1]
  <2>1. t \in Seq(Seq(S)) /\ s \in Seq(S) /\ Take(b, k + 1) = Append(t, s)
    BY <1>2, TakeOneMore
  <2>2. FlattenSeq(a \o t) = FlattenSeq(a) \o FlattenSeq(t)
    BY <1>2
  <2> HIDE DEF t, s
  <2>3. a \o Append(t, s) = Append(a \o t, s) /\ a \o t \in Seq(Seq(S))
    BY <1>b, <2>1
  <2>4. FlattenSeq(Append(a \o t, s)) = FlattenSeq(a \o t) \o s
    BY <2>1, <2>3, FlattenAppend
  <2>5. FlattenSeq(Append(t, s)) = FlattenSeq(t) \o s
    BY <2>1, FlattenAppend
  <2>6. FlattenSeq(t) \in Seq(S)
    BY <2>1, FlattenTyped
  <2>7. (FlattenSeq(a) \o FlattenSeq(t)) \o s = FlattenSeq(a) \o (FlattenSeq(t) \o s)
    BY <1>0, <1>a, <2>1, <2>6
  <2>8. FlattenSeq(a \o Append(t, s)) = FlattenSeq(a) \o FlattenSeq(Append(t, s))
    BY <2>2, <2>3, <2>4, <2>5, <2>7
  <2>9. FlattenSeq(a \o Take(b, k + 1)) = FlattenSeq(a) \o FlattenSeq(Take(b, k + 1))
    BY <2>1, <2>8
  <2> QED
    BY <2>9
<1>3. Len(b) \in 0 .. Len(b) /\ Len(b) \in Nat
  OBVIOUS
<1>4. Len(b) \in G
  <2> HIDE DEF G
  <2> QED
    BY <1>1, <1>2, <1>3, UpTo
<1> QED
  BY <1>3, <1>4, TakeEnds

LEMMA FlattenOne ==
  ASSUME NEW S, NEW s \in Seq(S)
  PROVE  FlattenSeq(<<s>>) = s
<1>1. <<>> \in Seq(Seq(S)) /\ <<s>> = Append(<<>>, s)
  OBVIOUS
<1>2. FlattenSeq(Append(<<>>, s)) = FlattenSeq(<<>>) \o s
  BY <1>1, FlattenAppend
<1>3. <<>> \o s = s
  BY ConcatEmptySeq
<1> QED
  BY <1>1, <1>2, <1>3, FlattenEmpty

----------------------------------------------------------------------------
(***************************************************************************)
(* The first line of a text.                                               *)
(***************************************************************************)

LEMMA MinIsLeast ==
  ASSUME NEW T, T \subseteq Nat, T # {}
  PROVE  Min(T) \in T /\ \A k \in T : Min(T) <= k
<1>1. \E m \in T : \A k \in T : m <= k
  BY LeastOf
<1> QED
  BY <1>1 DEF Min

\* Which line ends there are.
IsEnd(c) == c \in {CR, LF}
IsPair(t, i) == t[i] = CR /\ i < Len(t) /\ t[i + 1] = LF

\* A line without an end, with an end of one character, with CRLF.
Endless(t, n) == n = Len(t) /\ \A j \in 1 .. n : ~IsEnd(t[j])
OneEnd(t, n) == IsEnd(t[n]) /\ ~IsPair(t, n) /\ \A j \in 1 .. n - 1 : ~IsEnd(t[j])
TwoEnds(t, n) ==
  n >= 2 /\ t[n - 1] = CR /\ t[n] = LF /\ \A j \in 1 .. n - 2 : ~IsEnd(t[j])

LEMMA LineLengthFacts ==
  ASSUME NEW S, NEW t \in Seq(S), t # <<>>
  PROVE  /\ LineLength(t) \in 1 .. Len(t)
         /\ \/ Endless(t, LineLength(t))
            \/ OneEnd(t, LineLength(t))
            \/ TwoEnds(t, LineLength(t))
<1> DEFINE ends == {i \in 1 .. Len(t) : t[i] \in {CR, LF}}
           n == Len(t)
<1>1. n \in Nat \ {0}
  BY EmptySeq
<1>2. CASE ends = {}
  <2>1. LineLength(t) = n
    BY <1>2 DEF LineLength
  <2>2. \A j \in 1 .. n : ~IsEnd(t[j])
    BY <1>2 DEF IsEnd
  <2>3. Endless(t, n)
    BY <2>2 DEF Endless
  <2> QED
    BY <1>1, <2>1, <2>3
<1>3. CASE ends # {}
  <2> DEFINE first == Min(ends)
  <2>1. first \in ends /\ \A k \in ends : first <= k
    <3>1. ends \subseteq Nat
      BY <1>1
    <3> HIDE DEF ends
    <3> QED
      BY <1>3, <3>1, MinIsLeast
  <2>2. LineLength(t) = IF t[first] = CR /\ first < n /\ t[first + 1] = LF
                           THEN first + 1 ELSE first
    BY <1>3 DEF LineLength
  <2> HIDE DEF first
  <2>3. first \in 1 .. n /\ IsEnd(t[first])
    BY <2>1 DEF IsEnd
  <2>4. \A j \in 1 .. first - 1 : ~IsEnd(t[j])
    BY <2>1, <2>3 DEF IsEnd
  <2>5. CASE IsPair(t, first)
    <3>1. LineLength(t) = first + 1 /\ first + 1 \in 1 .. n
      BY <1>1, <2>2, <2>3, <2>5 DEF IsPair
    <3>2. PICK m \in Nat : m = first + 1
      BY <2>3
    <3>3. m - 1 = first /\ m - 2 = first - 1 /\ m >= 2
      BY <2>3, <3>2
    <3>4. TwoEnds(t, m)
      BY <2>4, <2>5, <3>2, <3>3 DEF TwoEnds, IsPair
    <3> QED
      BY <3>1, <3>2, <3>4
  <2>6. CASE ~IsPair(t, first)
    <3>1. LineLength(t) = first
      BY <2>2, <2>6 DEF IsPair
    <3>2. OneEnd(t, first)
      BY <2>3, <2>4, <2>6 DEF OneEnd
    <3> QED
      BY <2>3, <3>1, <3>2
  <2> QED
    BY <2>5, <2>6
<1> QED
  BY <1>2, <1>3

LEMMA CrlfFacts == CRLF = <<CR, LF>> /\ Len(CRLF) = 2 /\ CRLF[1] = CR /\ CRLF[2] = LF /\ CR # LF
BY DEF CRLF, CR, LF

LEMMA FirstTwo ==
  ASSUME NEW S, NEW s \in Seq(S), Len(s) >= 2
  PROVE  SubSeq(s, 1, 2) = <<s[1], s[2]>>
<1>1. 1 \in 1 .. Len(s) /\ 2 \in 1 .. Len(s) /\ 2 \in 0 .. Len(s)
  OBVIOUS
<1>2. s[1] \in S /\ s[2] \in S
  BY <1>1
<1> DEFINE u == SubSeq(s, 1, 2)
           v == <<s[1], s[2]>>
<1>3. u \in Seq(S) /\ Len(u) = 2
  BY <1>1, CutFacts DEF Take
<1>4. v \in Seq(S) /\ Len(v) = 2 /\ v[1] = s[1] /\ v[2] = s[2]
  BY <1>2
<1>5. u[1] = s[1] /\ u[2] = s[2]
  BY <1>1
<1>6. \A i \in 1 .. 2 : u[i] = v[i]
  <2>1. \A i \in 1 .. 2 : i = 1 \/ i = 2
    OBVIOUS
  <2> HIDE DEF u, v
  <2> QED
    BY <1>4, <1>5, <2>1
<1> HIDE DEF u, v
<1>7. u = v
  BY <1>3, <1>4, <1>6, SeqEqual
<1> QED
  BY <1>7 DEF u, v

\* A text that ends in CRLF.
LEMMA CrlfSuffix ==
  ASSUME NEW S, NEW s \in Seq(S)
  PROVE  IsSuffix(CRLF, s) <=> Len(s) >= 2 /\ s[Len(s) - 1] = CR /\ s[Len(s)] = LF
<1> DEFINE c == Reverse(CRLF)
           r == Reverse(s)
<1>1. Len(s) \in Nat
  OBVIOUS
<1>2. c = [i \in 1 .. 2 |-> CRLF[2 - i + 1]]
  BY CrlfFacts DEF Reverse
<1>3. r = [i \in 1 .. Len(s) |-> s[Len(s) - i + 1]]
  BY DEF Reverse
<1>4. Len(c) = 2 /\ c[1] = LF /\ c[2] = CR
  <2>1. 2 - 1 + 1 = 2 /\ 2 - 2 + 1 = 1 /\ 1 \in 1 .. 2 /\ 2 \in 1 .. 2
    OBVIOUS
  <2> HIDE DEF c
  <2> QED
    BY <1>2, <2>1, CrlfFacts
<1>5. Len(r) = Len(s)
  <2> HIDE DEF r
  <2> QED
    BY <1>1, <1>3
<1>6. Len(s) >= 2 => r[1] = s[Len(s)] /\ r[2] = s[Len(s) - 1]
  <2> SUFFICES ASSUME Len(s) >= 2 PROVE r[1] = s[Len(s)] /\ r[2] = s[Len(s) - 1]
    OBVIOUS
  <2>1. /\ 1 \in 1 .. Len(s) /\ 2 \in 1 .. Len(s)
        /\ Len(s) - 1 + 1 = Len(s) /\ Len(s) - 2 + 1 = Len(s) - 1
    BY <1>1
  <2> HIDE DEF r
  <2> QED
    BY <1>3, <2>1
<1>7. Len(s) >= 2 => SubSeq(c, 1, 2) = <<LF, CR>> /\ SubSeq(r, 1, 2) = <<r[1], r[2]>>
  <2> SUFFICES ASSUME Len(s) >= 2
               PROVE  SubSeq(c, 1, 2) = <<LF, CR>> /\ SubSeq(r, 1, 2) = <<r[1], r[2]>>
    OBVIOUS
  <2>1. \A i \in 1 .. 2 : CRLF[2 - i + 1] \in {CR, LF}
    BY CrlfFacts
  <2>2. c \in Seq({CR, LF})
    BY <1>2, <2>1
  <2>3. \A i \in 1 .. Len(s) : s[Len(s) - i + 1] \in S
    BY <1>1
  <2>4. r \in Seq(S)
    BY <1>1, <1>3, <2>3
  <2> HIDE DEF c, r
  <2>5. SubSeq(c, 1, 2) = <<c[1], c[2]>>
    BY <1>4, <2>2, FirstTwo
  <2>6. SubSeq(r, 1, 2) = <<r[1], r[2]>>
    BY <1>5, <2>4, FirstTwo
  <2> QED
    BY <1>4, <2>5, <2>6
<1>8. IsSuffix(CRLF, s) <=> 2 <= Len(s) /\ SubSeq(c, 1, 2) = SubSeq(r, 1, 2)
  BY <1>4, <1>5 DEF IsSuffix, IsPrefix
<1>9. Len(s) >= 2 <=> 2 <= Len(s)
  BY <1>1
<1> HIDE DEF c, r
<1>10. Len(s) >= 2 => (SubSeq(c, 1, 2) = SubSeq(r, 1, 2) <=> r[1] = LF /\ r[2] = CR)
  <2>1. (<<LF, CR>> = <<r[1], r[2]>>) <=> (r[1] = LF /\ r[2] = CR)
    OBVIOUS
  <2> QED
    BY <1>7, <2>1, Zenon
<1> QED
  BY <1>6, <1>8, <1>9, <1>10

\* The writes for a line.
LEMMA LineWritesFacts ==
  ASSUME NEW S, NEW t \in Seq(S), t # <<>>
  PROVE  LET n == LineLength(t) IN
         /\ Endless(t, n) => LineWrites(t) = <<Take(t, n)>>
         /\ OneEnd(t, n) => LineWrites(t) = <<Take(t, n - 1), CRLF>>
         /\ TwoEnds(t, n) => LineWrites(t) = <<Take(t, n)>>
<1> DEFINE n == LineLength(t)
           whole == SubSeq(t, 1, n)
<1>1. n \in 1 .. Len(t) /\ n \in 0 .. Len(t) /\ Len(t) \in Nat
  BY LineLengthFacts
<1>2. whole = Take(t, n) /\ whole \in Seq(S) /\ Len(whole) = n
  <2> HIDE DEF n
  <2> QED
    BY <1>1, CutFacts DEF Take
<1>3. \A j \in 1 .. n : whole[j] = t[j]
  <2> HIDE DEF n
  <2> QED
    BY <1>1
<1>4. LineWrites(t) = IF IsSuffix(CRLF, whole) \/ Last(whole) \notin {CR, LF} THEN <<whole>>
                         ELSE <<Front(whole), CRLF>>
  BY DEF LineWrites
<1>5. Last(whole) = t[n]
  BY <1>1, <1>2, <1>3 DEF Last
<1>6. IsSuffix(CRLF, whole) <=> n >= 2 /\ t[n - 1] = CR /\ t[n] = LF
  <2>1. IsSuffix(CRLF, whole) <=> n >= 2 /\ whole[n - 1] = CR /\ whole[n] = LF
    <3> HIDE DEF whole, n
    <3> QED
      BY <1>2, CrlfSuffix
  <2>2. n >= 2 => n - 1 \in 1 .. n /\ n \in 1 .. n
    BY <1>1
  <2> HIDE DEF whole, n
  <2> QED
    BY <1>3, <2>1, <2>2
<1>7. Front(whole) = Take(t, n - 1)
  <2>1. n - 1 \in 0 .. Len(whole) /\ n - 1 \in 0 .. Len(t)
    BY <1>1, <1>2
  <2>2. /\ Take(t, n - 1) \in Seq(S) /\ Len(Take(t, n - 1)) = n - 1
        /\ Take(whole, n - 1) \in Seq(S) /\ Len(Take(whole, n - 1)) = n - 1
    <3> HIDE DEF whole, n
    <3> QED
      BY <1>2, <2>1, CutFacts
  <2>3. \A j \in 1 .. n - 1 : Take(whole, n - 1)[j] = whole[j] /\ Take(t, n - 1)[j] = t[j]
    <3> HIDE DEF whole, n
    <3> QED
      BY <1>2, <1>1, <2>1 DEF Take
  <2>4. \A j \in 1 .. n - 1 : Take(whole, n - 1)[j] = Take(t, n - 1)[j]
    <3>1. \A j \in 1 .. n - 1 : j \in 1 .. n
      BY <1>1
    <3> HIDE DEF whole, n
    <3> QED
      BY <1>3, <2>3, <3>1
  <2>5. Take(whole, n - 1) = Take(t, n - 1)
    <3> HIDE DEF whole, n
    <3> QED
      BY <2>2, <2>4, SeqEqual
  <2> HIDE DEF whole, n
  <2> QED
    BY <1>2, <2>5 DEF Front, Take
<1>8. Endless(t, n) => LineWrites(t) = <<whole>>
  <2> HIDE DEF whole, n
  <2>1. Endless(t, n) => t[n] \notin {CR, LF}
    BY <1>1 DEF Endless, IsEnd
  <2> QED
    BY <1>4, <1>5, <2>1
<1>9. TwoEnds(t, n) => LineWrites(t) = <<whole>>
  <2> HIDE DEF whole, n
  <2> QED
    BY <1>4, <1>6 DEF TwoEnds
<1>10. OneEnd(t, n) => LineWrites(t) = <<Front(whole), CRLF>>
  <2> HIDE DEF whole, n
  <2>1. SUFFICES ASSUME OneEnd(t, n) PROVE LineWrites(t) = <<Front(whole), CRLF>>
    OBVIOUS
  <2>2. t[n] \in {CR, LF}
    BY <2>1 DEF OneEnd, IsEnd
  <2>3. ~(n >= 2 /\ t[n - 1] = CR /\ t[n] = LF)
    <3>1. n >= 2 => n - 1 \in 1 .. n - 1
      BY <1>1
    <3> QED
      BY <2>1, <3>1 DEF OneEnd, IsEnd
  <2> QED
    BY <1>4, <1>5, <1>6, <2>2, <2>3
<1> HIDE DEF whole
<1> QED
  BY <1>2, <1>7, <1>8, <1>9, <1>10

----------------------------------------------------------------------------
(***************************************************************************)
(* DataWrites, line by line.                                               *)
(***************************************************************************)

Rest(t, i) == SubSeq(t, i, Len(t))
NextLine(t, i) == i + LineLength(Rest(t, i))
DotWrite(t, quote, i) == IF quote /\ t[i] = DOT THEN <<<<DOT>>>> ELSE <<>>
WritesAt(t, quote, f, i) ==
  IF i > Len(t) THEN <<>>
  ELSE DotWrite(t, quote, i) \o LineWrites(Rest(t, i)) \o f[NextLine(t, i)]

\* The function by which DataWrites is defined, from the a-th character on.
IsWrites(f, t, quote, a) == f = [i \in a .. Len(t) + 1 |-> WritesAt(t, quote, f, i)]

LEMMA RestFacts ==
  ASSUME NEW S, NEW t \in Seq(S), NEW i \in 1 .. Len(t)
  PROVE  /\ Rest(t, i) \in Seq(S) /\ Rest(t, i) # <<>>
         /\ Len(Rest(t, i)) = Len(t) - i + 1
         /\ \A j \in 1 .. Len(t) - i + 1 : Rest(t, i)[j] = t[i + j - 1]
         /\ LineLength(Rest(t, i)) \in 1 .. Len(t) - i + 1
         /\ NextLine(t, i) \in i + 1 .. Len(t) + 1
<1> DEFINE r == Rest(t, i)
<1>1. Len(t) \in Nat /\ i \in Int
  OBVIOUS
<1>2. \A j \in i .. Len(t) : t[j] \in S
  <2>1. \A j \in i .. Len(t) : j \in 1 .. Len(t)
    BY <1>1
  <2> QED
    BY <2>1
<1>3. /\ r \in Seq(S) /\ Len(r) = IF i <= Len(t) THEN Len(t) - i + 1 ELSE 0
      /\ \A j \in 1 .. Len(t) - i + 1 : r[j] = t[i + j - 1]
  BY <1>1, <1>2, SubSeqProperties DEF Rest
<1>4. Len(r) = Len(t) - i + 1 /\ Len(r) # 0
  BY <1>1, <1>3
<1>5. r # <<>>
  <2> HIDE DEF r
  <2> QED
    BY <1>3, <1>4, EmptySeq
<1>6. LineLength(r) \in 1 .. Len(r)
  <2> HIDE DEF r
  <2> QED
    BY <1>3, <1>5, LineLengthFacts
<1>7. NextLine(t, i) \in i + 1 .. Len(t) + 1
  BY <1>1, <1>4, <1>6 DEF NextLine
<1> QED
  BY <1>3, <1>4, <1>5, <1>6, <1>7

LEMMA WritesExist ==
  ASSUME NEW S, NEW t \in Seq(S), NEW quote
  PROVE  \E f : IsWrites(f, t, quote, 1)
<1> DEFINE n == Len(t)
           G == {k \in Nat : \E f : IsWrites(f, t, quote, n + 1 - k)}
<1>0. n \in Nat
  OBVIOUS
<1>1. 0 \in G
  <2> DEFINE e == [i \in n + 1 .. n + 1 |-> <<>>]
  <2>1. \A i \in n + 1 .. n + 1 : i > Len(t)
    BY <1>0
  <2>2. \A i \in n + 1 .. n + 1 : WritesAt(t, quote, e, i) = <<>>
    BY <2>1 DEF WritesAt
  <2>3. e = [i \in n + 1 .. n + 1 |-> WritesAt(t, quote, e, i)]
    <3>1. e = [i \in n + 1 .. n + 1 |-> <<>>]
      OBVIOUS
    <3> HIDE DEF e
    <3> QED
      BY <2>2, <3>1
  <2>4. IsWrites(e, t, quote, n + 1 - 0)
    <3>1. n + 1 - 0 = n + 1
      BY <1>0
    <3> HIDE DEF e
    <3> QED
      BY <2>3, <3>1 DEF IsWrites
  <2> HIDE DEF e
  <2> QED
    BY <2>4
<1>2. ASSUME NEW k \in 0 .. n - 1, k \in G PROVE k + 1 \in G
  <2>1. PICK f : IsWrites(f, t, quote, n + 1 - k)
    BY <1>2
  <2>2. PICK a \in Nat : a = n - k
    BY <1>0
  <2>3. /\ n + 1 - k = a + 1 /\ n + 1 - (k + 1) = a /\ a \in 1 .. n
        /\ k + 1 \in Nat
    BY <1>0, <2>2
  <2> DEFINE g == [i \in a .. n + 1 |-> WritesAt(t, quote, f, i)]
  <2>4. \A i \in a + 1 .. n + 1 : f[i] = WritesAt(t, quote, f, i)
    BY <2>1, <2>3 DEF IsWrites
  <2>5. \A i \in a + 1 .. n + 1 : i \in a .. n + 1
    BY <2>3
  <2>6. \A i \in a + 1 .. n + 1 : g[i] = f[i]
    BY <2>4, <2>5
  <2>7. ASSUME NEW i \in a .. n + 1
        PROVE  WritesAt(t, quote, f, i) = WritesAt(t, quote, g, i)
    <3>1. CASE i > Len(t)
      BY <3>1 DEF WritesAt
    <3>2. CASE ~(i > Len(t))
      <4>1. i \in 1 .. n
        BY <1>0, <2>3, <3>2
      <4>2. NextLine(t, i) \in i + 1 .. n + 1
        BY <4>1, RestFacts
      <4>3. NextLine(t, i) \in a + 1 .. n + 1
        BY <1>0, <2>3, <4>1, <4>2
      <4>4. f[NextLine(t, i)] = g[NextLine(t, i)]
        <5> HIDE DEF g
        <5> QED
          BY <2>6, <4>3
      <4> HIDE DEF g
      <4> QED
        BY <4>4 DEF WritesAt
    <3> QED
      BY <3>1, <3>2
  <2>8. IsWrites(g, t, quote, a)
    <3>1. g = [i \in a .. n + 1 |-> WritesAt(t, quote, f, i)]
      OBVIOUS
    <3> HIDE DEF g
    <3> QED
      BY <2>7, <3>1 DEF IsWrites
  <2> HIDE DEF g
  <2> QED
    BY <2>3, <2>8
<1>3. n \in G
  <2>1. n \in 0 .. n
    BY <1>0
  <2> HIDE DEF G
  <2> QED
    BY <1>0, <1>1, <1>2, <2>1, UpTo
<1>4. n + 1 - n = 1
  BY <1>0
<1> QED
  BY <1>3, <1>4

LEMMA DataWritesFunction ==
  ASSUME NEW S, NEW t \in Seq(S), NEW quote
  PROVE  \E f : IsWrites(f, t, quote, 1) /\ DataWrites(t, quote) = f[1]
<1> DEFINE f == CHOOSE f : IsWrites(f, t, quote, 1)
<1>1. IsWrites(f, t, quote, 1)
  BY WritesExist
<1>2. DataWrites(t, quote) = f[1]
  BY DEF DataWrites, IsWrites, WritesAt, DotWrite, NextLine, Rest
<1> HIDE DEF f
<1> QED
  BY <1>1, <1>2

----------------------------------------------------------------------------
(***************************************************************************)
(* What goes out for each character of a text.                             *)
(***************************************************************************)

CanonAt(t, i) ==
  IF t[i] = CR /\ i < Len(t) /\ t[i + 1] = LF THEN <<>>
  ELSE IF t[i] \in {CR, LF} THEN CRLF ELSE <<t[i]>>
Canons(t) == [i \in 1 .. Len(t) |-> CanonAt(t, i)]

\* A dot that starts a line is doubled.
PieceAt(t, quote, i) ==
  IF quote /\ t[i] = DOT /\ (i = 1 \/ IsEnd(t[i - 1])) THEN <<DOT>> \o CanonAt(t, i)
  ELSE CanonAt(t, i)
Pieces(t, quote) == [i \in 1 .. Len(t) |-> PieceAt(t, quote, i)]

LEMMA CanonicalIsCanons == \A t : Canonical(t) = FlattenSeq(Canons(t))
BY DEF Canonical, Canons, CanonAt

LEMMA PiecesTyped ==
  ASSUME NEW S, {CR, LF, DOT} \subseteq S, NEW t \in Seq(S), NEW quote
  PROVE  /\ Canons(t) \in Seq(Seq(S)) /\ Len(Canons(t)) = Len(t)
         /\ Pieces(t, quote) \in Seq(Seq(S)) /\ Len(Pieces(t, quote)) = Len(t)
<1>1. CRLF \in Seq(S) /\ <<>> \in Seq(S) /\ <<DOT>> \in Seq(S)
  BY DEF CRLF
<1>2. ASSUME NEW i \in 1 .. Len(t) PROVE CanonAt(t, i) \in Seq(S)
  <2>1. t[i] \in S
    OBVIOUS
  <2>2. <<t[i]>> \in Seq(S)
    BY <2>1
  <2> QED
    BY <1>1, <2>2 DEF CanonAt
<1>3. ASSUME NEW i \in 1 .. Len(t) PROVE PieceAt(t, quote, i) \in Seq(S)
  <2>1. <<DOT>> \o CanonAt(t, i) \in Seq(S)
    BY <1>1, <1>2, ConcatProperties
  <2> QED
    BY <1>2, <2>1 DEF PieceAt
<1>4. Len(t) \in Nat
  OBVIOUS
<1> DEFINE SS == Seq(S)
<1>5. (\A i \in 1 .. Len(t) : CanonAt(t, i) \in SS) /\ (\A i \in 1 .. Len(t) : PieceAt(t, quote, i) \in SS)
  BY <1>2, <1>3
<1> HIDE DEF SS
<1>6. Canons(t) \in Seq(SS) /\ Len(Canons(t)) = Len(t)
  BY <1>4, <1>5 DEF Canons
<1>7. Pieces(t, quote) \in Seq(SS) /\ Len(Pieces(t, quote)) = Len(t)
  BY <1>4, <1>5 DEF Pieces
<1> QED
  BY <1>6, <1>7 DEF SS

\* Characters that go out as they are.
LEMMA FlattenSingles ==
  ASSUME NEW S, NEW t \in Seq(S), NEW p \in Seq(Seq(S)),
         NEW n \in Nat, n <= Len(t), n <= Len(p),
         \A j \in 1 .. n : p[j] = <<t[j]>>
  PROVE  FlattenSeq(Take(p, n)) = Take(t, n)
<1> DEFINE G == {k \in Nat : k \in 0 .. n => FlattenSeq(Take(p, k)) = Take(t, k)}
<1>0. Len(t) \in Nat /\ Len(p) \in Nat
  OBVIOUS
<1>1. 0 \in G
  <2>1. Take(p, 0) = <<>> /\ Take(t, 0) = <<>>
    BY TakeNone
  <2> QED
    BY <2>1, FlattenEmpty
<1>2. ASSUME NEW k \in 0 .. n - 1, k \in G PROVE k + 1 \in G
  <2>1. k \in 0 .. Len(t) - 1 /\ k \in 0 .. Len(p) - 1 /\ k + 1 \in 1 .. n /\ k \in 0 .. n
    BY <1>0
  <2>2. FlattenSeq(Take(p, k)) = Take(t, k)
    BY <1>2, <2>1
  <2>3. /\ Take(p, k) \in Seq(Seq(S)) /\ p[k + 1] \in Seq(S)
        /\ Take(p, k + 1) = Append(Take(p, k), p[k + 1])
    BY <2>1, TakeOneMore
  <2>4. /\ Take(t, k) \in Seq(S) /\ t[k + 1] \in S
        /\ Take(t, k + 1) = Append(Take(t, k), t[k + 1])
    BY <2>1, TakeOneMore
  <2>5. FlattenSeq(Take(p, k + 1)) = FlattenSeq(Take(p, k)) \o p[k + 1]
    BY <2>3, FlattenAppend
  <2>6. Append(Take(t, k), t[k + 1]) = Take(t, k) \o <<t[k + 1]>>
    BY <2>4, AppendIsConcat
  <2>7. FlattenSeq(Take(p, k + 1)) = Take(t, k + 1)
    BY <2>1, <2>2, <2>4, <2>5, <2>6
  <2> QED
    BY <2>7
<1>3. n \in G
  <2>1. n \in 0 .. n
    OBVIOUS
  <2> HIDE DEF G
  <2> QED
    BY <1>1, <1>2, <2>1, UpTo
<1> QED
  BY <1>3

LEMMA FlattenPush ==
  ASSUME NEW S, NEW tp \in Seq(Seq(S)), NEW tq \in Seq(Seq(S)), NEW s \in Seq(S),
         NEW d \in Seq(S), FlattenSeq(tp) = d \o FlattenSeq(tq)
  PROVE  FlattenSeq(Append(tp, s)) = d \o FlattenSeq(Append(tq, s))
<1>1. PICK u \in Seq(S) : u = FlattenSeq(tq)
  BY FlattenTyped
<1>2. (d \o u) \o s = d \o (u \o s)
  BY ConcatAssociative, SMTT(30)
<1>3. /\ FlattenSeq(Append(tp, s)) = FlattenSeq(tp) \o s
      /\ FlattenSeq(Append(tq, s)) = FlattenSeq(tq) \o s
  BY FlattenAppend
<1> QED
  BY <1>1, <1>2, <1>3

\* Something more before the first sequence.
LEMMA FlattenBefore ==
  ASSUME NEW S, NEW p \in Seq(Seq(S)), NEW q \in Seq(Seq(S)), NEW d \in Seq(S),
         Len(p) = Len(q), p # <<>>,
         p[1] = d \o q[1], \A j \in 2 .. Len(p) : p[j] = q[j]
  PROVE  FlattenSeq(p) = d \o FlattenSeq(q)
<1> DEFINE G == {k \in Nat : k \in 1 .. Len(p) =>
                   FlattenSeq(Take(p, k)) = d \o FlattenSeq(Take(q, k))}
<1>0. Len(p) \in Nat \ {0}
  BY EmptySeq
<1>1. 0 \in G
  OBVIOUS
<1>2. ASSUME NEW k \in 0 .. Len(p) - 1, k \in G PROVE k + 1 \in G
  <2> DEFINE tp == Take(p, k)
             tq == Take(q, k)
             sp == p[k + 1]
             sq == q[k + 1]
  <2>1. /\ tp \in Seq(Seq(S)) /\ sp \in Seq(S) /\ Take(p, k + 1) = Append(tp, sp)
        /\ tq \in Seq(Seq(S)) /\ sq \in Seq(S) /\ Take(q, k + 1) = Append(tq, sq)
    <3>1. k \in 0 .. Len(q) - 1
      OBVIOUS
    <3> QED
      BY <3>1, TakeOneMore
  <2>2. k = 0 => sp = d \o sq
    OBVIOUS
  <2>3. k # 0 => sp = sq
    <3>1. k # 0 => k + 1 \in 2 .. Len(p)
      BY <1>0
    <3> QED
      BY <3>1
  <2>4. k # 0 => FlattenSeq(tp) = d \o FlattenSeq(tq)
    <3>1. k # 0 => k \in 1 .. Len(p)
      BY <1>0
    <3> QED
      BY <1>2, <3>1
  <2>5. k = 0 => tp = <<>> /\ tq = <<>>
    BY TakeNone
  <2> HIDE DEF tp, tq, sp, sq
  <2>6. /\ FlattenSeq(Append(tp, sp)) = FlattenSeq(tp) \o sp
        /\ FlattenSeq(Append(tq, sq)) = FlattenSeq(tq) \o sq
        /\ FlattenSeq(tq) \in Seq(S)
    BY <2>1, FlattenAppend, FlattenTyped
  <2>7. CASE k = 0
    <3>1. <<>> \o sp = sp /\ <<>> \o sq = sq
      BY <2>1, ConcatEmptySeq
    <3>2. FlattenSeq(Append(tp, sp)) = d \o FlattenSeq(Append(tq, sq))
      BY <2>2, <2>5, <2>6, <2>7, <3>1, FlattenEmpty
    <3>3. FlattenSeq(Take(p, k + 1)) = d \o FlattenSeq(Take(q, k + 1))
      BY <2>1, <3>2
    <3> QED
      BY <3>3
  <2>8. CASE k # 0
    <3>2. FlattenSeq(Append(tp, sp)) = d \o FlattenSeq(Append(tq, sq))
      <4>1. FlattenSeq(tp) = d \o FlattenSeq(tq) /\ sp = sq
        BY <2>3, <2>4, <2>8
      <4>2. FlattenSeq(Append(tp, sp)) = d \o FlattenSeq(Append(tq, sp))
        BY <2>1, <4>1, FlattenPush, ZenonT(30)
      <4> QED
        BY <4>1, <4>2
    <3>3. FlattenSeq(Take(p, k + 1)) = d \o FlattenSeq(Take(q, k + 1))
      BY <2>1, <3>2
    <3> QED
      BY <3>3
  <2> QED
    BY <2>7, <2>8
<1>3. Len(p) \in G
  <2>1. Len(p) \in 0 .. Len(p)
    BY <1>0
  <2> HIDE DEF G
  <2> QED
    BY <1>0, <1>1, <1>2, <2>1, UpTo
<1>4. Len(p) \in 1 .. Len(p)
  BY <1>0
<1>5. FlattenSeq(Take(p, Len(p))) = d \o FlattenSeq(Take(q, Len(p)))
  BY <1>3, <1>4
<1>6. Take(p, Len(p)) = p /\ Take(q, Len(q)) = q
  BY TakeEnds
<1> QED
  BY <1>5, <1>6

LEMMA DropElements ==
  ASSUME NEW S, NEW s \in Seq(S), NEW m \in 0 .. Len(s)
  PROVE  /\ Drop(s, m) \in Seq(S) /\ Len(Drop(s, m)) = Len(s) - m
         /\ \A j \in 1 .. Len(s) - m : Drop(s, m)[j] = s[m + j]
<1>1. Drop(s, m) \in Seq(S) /\ Len(Drop(s, m)) = Len(s) - m
  BY CutFacts
<1>2. \A j \in 1 .. Len(s) - m : Drop(s, m)[j] = s[m + j]
  BY DEF Drop
<1> QED
  BY <1>1, <1>2

LEMMA TakeElements ==
  ASSUME NEW S, NEW s \in Seq(S), NEW m \in 0 .. Len(s)
  PROVE  /\ Take(s, m) \in Seq(S) /\ Len(Take(s, m)) = m
         /\ \A j \in 1 .. m : Take(s, m)[j] = s[j]
<1>1. Take(s, m) \in Seq(S) /\ Len(Take(s, m)) = m
  BY CutFacts
<1>2. \A j \in 1 .. m : Take(s, m)[j] = s[j]
  BY DEF Take
<1> QED
  BY <1>1, <1>2

\* After the end of a line the pieces are those of the rest of the text.
LEMMA DropPieces ==
  ASSUME NEW S, {CR, LF, DOT} \subseteq S, NEW t \in Seq(S), NEW quote,
         NEW m \in 1 .. Len(t), m = Len(t) \/ IsEnd(t[m])
  PROVE  Drop(Pieces(t, quote), m) = Pieces(Drop(t, m), quote)
<1> DEFINE d == Drop(t, m)
           p == Pieces(t, quote)
           q == Pieces(d, quote)
           n == Len(t) - m
<1>1. /\ Len(t) \in Nat /\ m \in Nat /\ m \in 0 .. Len(t) /\ n \in Nat
      /\ \A j \in 1 .. n : m + j \in 1 .. Len(t)
  OBVIOUS
<1>2. d \in Seq(S) /\ Len(d) = n /\ \A j \in 1 .. n : d[j] = t[m + j]
  BY <1>1, DropElements
<1>3. p \in Seq(Seq(S)) /\ Len(p) = Len(t) /\ q \in Seq(Seq(S)) /\ Len(q) = n
  <2> HIDE DEF d
  <2> QED
    BY <1>2, PiecesTyped
<1>4. /\ Drop(p, m) \in Seq(Seq(S)) /\ Len(Drop(p, m)) = n
      /\ \A j \in 1 .. n : Drop(p, m)[j] = p[m + j]
  <2> DEFINE SS == Seq(S)
  <2>1. p \in Seq(SS) /\ Len(p) = Len(t)
    BY <1>3
  <2> HIDE DEF SS, p
  <2>2. /\ Drop(p, m) \in Seq(SS) /\ Len(Drop(p, m)) = Len(p) - m
        /\ \A j \in 1 .. Len(p) - m : Drop(p, m)[j] = p[m + j]
    BY <1>1, <2>1, DropElements
  <2> QED
    BY <2>1, <2>2 DEF SS
<1>5. ASSUME NEW j \in 1 .. n PROVE p[m + j] = q[j]
  <2>1. p[m + j] = PieceAt(t, quote, m + j)
    BY <1>1 DEF Pieces
  <2>2. q[j] = PieceAt(d, quote, j)
    <3> HIDE DEF d
    <3> QED
      BY <1>2 DEF Pieces
  <2> HIDE DEF d, p, q
  <2>3. d[j] = t[m + j] /\ (j < Len(d) <=> m + j < Len(t))
    BY <1>1, <1>2
  <2>4. j < Len(d) => d[j + 1] = t[m + j + 1]
    <3> SUFFICES ASSUME j < Len(d) PROVE d[j + 1] = t[m + j + 1]
      OBVIOUS
    <3>1. PICK k \in Nat : k = j + 1
      OBVIOUS
    <3>2. k \in 1 .. n /\ m + k = m + j + 1
      <4>1. j < n /\ j \in Nat /\ m \in Nat /\ n \in Nat
        BY <1>1, <1>2
      <4> HIDE DEF n
      <4> QED
        BY <3>1, <4>1
    <3>3. d[k] = t[m + k]
      BY <1>2, <3>2
    <3> QED
      BY <3>1, <3>2, <3>3
  <2>5. CanonAt(d, j) = CanonAt(t, m + j)
    BY <2>3, <2>4 DEF CanonAt
  <2>6. (j = 1 \/ IsEnd(d[j - 1])) <=> (m + j = 1 \/ IsEnd(t[m + j - 1]))
    <3>1. CASE j = 1
      <4>1. m # Len(t) /\ m + j - 1 = m
        BY <1>1, <3>1
      <4> QED
        BY <3>1, <4>1
    <3>2. CASE j # 1
      <4>1. PICK k \in Nat : k = j - 1
        BY <3>2
      <4>2. k \in 1 .. n /\ m + k = m + j - 1 /\ m + j # 1
        BY <1>1, <3>2, <4>1
      <4>3. d[k] = t[m + k]
        BY <1>2, <4>2
      <4> QED
        BY <3>2, <4>1, <4>2, <4>3
    <3> QED
      BY <3>1, <3>2
  <2> QED
    BY <2>1, <2>2, <2>3, <2>5, <2>6 DEF PieceAt
<1> HIDE DEF d, p, q
<1>6. \A j \in 1 .. n : Drop(p, m)[j] = q[j]
  BY <1>4, <1>5
<1>7. Drop(p, m) = q
  <2> DEFINE SS == Seq(S)
  <2>1. Drop(p, m) \in Seq(SS) /\ q \in Seq(SS)
    BY <1>3, <1>4
  <2> HIDE DEF SS
  <2> QED
    BY <1>3, <1>4, <1>6, <2>1, SeqEqual
<1> QED
  BY <1>7 DEF d, p, q

\* The writes for the first line are what goes out for its characters: without the dot,
LEMMA FirstCanons ==
  ASSUME NEW S, {CR, LF, DOT} \subseteq S, NEW t \in Seq(S), t # <<>>
  PROVE  /\ LineWrites(t) \in Seq(Seq(S))
         /\ FlattenSeq(LineWrites(t)) = FlattenSeq(Take(Canons(t), LineLength(t)))
<1> DEFINE n == LineLength(t)
           c == Canons(t)
<1>1. /\ n \in 1 .. Len(t) /\ Len(t) \in Nat
      /\ Endless(t, n) \/ OneEnd(t, n) \/ TwoEnds(t, n)
  BY LineLengthFacts
<1>2. c \in Seq(Seq(S)) /\ Len(c) = Len(t)
  BY PiecesTyped
<1>3. \A j \in 1 .. Len(t) : c[j] = CanonAt(t, j)
  BY DEF Canons
<1>4. \A j \in 1 .. Len(t) : ~IsEnd(t[j]) => c[j] = <<t[j]>>
  <2> HIDE DEF c
  <2> QED
    BY <1>3 DEF IsEnd, CanonAt
<1>5. CRLF \in Seq(S) /\ CRLF = <<CR, LF>>
  BY DEF CRLF
<1>6. /\ Endless(t, n) => LineWrites(t) = <<Take(t, n)>>
      /\ OneEnd(t, n) => LineWrites(t) = <<Take(t, n - 1), CRLF>>
      /\ TwoEnds(t, n) => LineWrites(t) = <<Take(t, n)>>
  BY LineWritesFacts
<1>7. /\ Take(t, n) \in Seq(S) /\ <<Take(t, n)>> \in Seq(Seq(S))
      /\ FlattenSeq(<<Take(t, n)>>) = Take(t, n)
  <2>1. n \in 0 .. Len(t)
    BY <1>1
  <2>2. Take(t, n) \in Seq(S)
    BY <2>1, CutFacts
  <2>3. <<Take(t, n)>> \in Seq(Seq(S))
    BY <2>2
  <2> QED
    BY <2>2, <2>3, FlattenOne
<1> HIDE DEF n, c
<1>8. CASE Endless(t, n)
  <2>1. \A j \in 1 .. n : c[j] = <<t[j]>>
    BY <1>1, <1>4, <1>8 DEF Endless
  <2>2. FlattenSeq(Take(c, n)) = Take(t, n)
    <3>1. n \in Nat /\ n <= Len(t) /\ n <= Len(c)
      BY <1>1, <1>2
    <3> QED
      BY <1>2, <2>1, <3>1, FlattenSingles
  <2> QED
    BY <1>6, <1>7, <1>8, <2>2 DEF n, c
<1>9. CASE OneEnd(t, n)
  <2>1. PICK k \in Nat : k = n - 1
    BY <1>1
  <2>2. /\ k \in 0 .. Len(c) - 1 /\ n = k + 1 /\ k <= Len(t) /\ k <= Len(c)
        /\ k \in 0 .. Len(t)
    BY <1>1, <1>2, <2>1
  <2>3. \A j \in 1 .. k : j \in 1 .. n - 1 /\ j \in 1 .. Len(t)
    BY <1>1, <2>1
  <2>4. \A j \in 1 .. k : c[j] = <<t[j]>>
    BY <1>4, <1>9, <2>3 DEF OneEnd
  <2>5. FlattenSeq(Take(c, k)) = Take(t, k)
    BY <1>2, <2>2, <2>4, FlattenSingles
  <2>6. c[n] = CRLF
    <3>1. n \in 1 .. Len(t)
      BY <1>1
    <3>2. c[n] = CanonAt(t, n)
      BY <1>3, <3>1
    <3> QED
      BY <1>9, <3>2 DEF OneEnd, IsEnd, IsPair, CanonAt
  <2>7. Take(c, k) \in Seq(Seq(S)) /\ Take(c, n) = Append(Take(c, k), CRLF)
    BY <1>2, <2>2, <2>6, TakeOneMore
  <2>8. FlattenSeq(Take(c, n)) = Take(t, k) \o CRLF
    BY <1>5, <2>5, <2>7, FlattenAppend
  <2>9. Take(t, k) \in Seq(S)
    BY <2>2, CutFacts
  <2>10. /\ <<Take(t, k)>> \in Seq(Seq(S))
         /\ <<Take(t, k), CRLF>> = Append(<<Take(t, k)>>, CRLF)
         /\ <<Take(t, k), CRLF>> \in Seq(Seq(S))
    BY <1>5, <2>9
  <2>11. FlattenSeq(<<Take(t, k), CRLF>>) = Take(t, k) \o CRLF
    <3>1. FlattenSeq(<<Take(t, k)>>) = Take(t, k)
      BY <2>9, FlattenOne
    <3>2. FlattenSeq(Append(<<Take(t, k)>>, CRLF)) = FlattenSeq(<<Take(t, k)>>) \o CRLF
      BY <1>5, <2>10, FlattenAppend
    <3> QED
      BY <2>10, <3>1, <3>2
  <2> QED
    BY <1>6, <1>9, <2>1, <2>8, <2>10, <2>11 DEF n, c
<1>10. CASE TwoEnds(t, n)
  <2>1. PICK k \in Nat : k = n - 2
    BY <1>1, <1>10 DEF TwoEnds
  <2>2. PICK l \in Nat : l = k + 1
    OBVIOUS
  <2>3. /\ k \in 0 .. Len(c) - 1 /\ l = n - 1 /\ n = l + 1 /\ l \in 0 .. Len(c) - 1
        /\ k <= Len(t) /\ k <= Len(c) /\ l \in 1 .. Len(t) /\ n \in 1 .. Len(t) /\ l < Len(t)
        /\ k \in 0 .. Len(t) - 1 /\ l \in 0 .. Len(t) - 1 /\ k \in 0 .. Len(t)
    BY <1>1, <1>2, <2>1, <2>2
  <2>4. t[l] = CR /\ t[l + 1] = LF /\ t[n] = LF /\ \A j \in 1 .. k : ~IsEnd(t[j])
    BY <1>10, <2>1, <2>2, <2>3 DEF TwoEnds
  <2>5. \A j \in 1 .. k : c[j] = <<t[j]>>
    <3>1. \A j \in 1 .. k : j \in 1 .. Len(t)
      BY <2>3
    <3> QED
      BY <1>4, <2>4, <3>1
  <2>6. FlattenSeq(Take(c, k)) = Take(t, k)
    BY <1>2, <2>3, <2>5, FlattenSingles
  <2>7. c[l] = <<>> /\ c[n] = CRLF
    <3>1. c[l] = CanonAt(t, l) /\ c[n] = CanonAt(t, n)
      BY <1>3, <2>3
    <3>2. t[n] # CR /\ t[n] \in {CR, LF}
      BY <2>4, CrlfFacts
    <3> QED
      BY <2>3, <2>4, <3>1, <3>2 DEF CanonAt
  <2>8. /\ Take(c, k) \in Seq(Seq(S)) /\ Take(c, l) = Append(Take(c, k), <<>>)
        /\ Take(c, l) \in Seq(Seq(S)) /\ Take(c, n) = Append(Take(c, l), CRLF)
    <3>1. Take(c, k) \in Seq(Seq(S)) /\ Take(c, l) = Append(Take(c, k), c[l])
      BY <1>2, <2>2, <2>3, TakeOneMore
    <3>2. Take(c, l) \in Seq(Seq(S)) /\ Take(c, n) = Append(Take(c, l), c[n])
      BY <1>2, <2>3, TakeOneMore
    <3> QED
      BY <2>7, <3>1, <3>2
  <2>9. Take(t, k) \in Seq(S) /\ <<>> \in Seq(S)
    BY <2>3, CutFacts
  <2>10. FlattenSeq(Take(c, l)) = Take(t, k)
    <3>1. FlattenSeq(Append(Take(c, k), <<>>)) = FlattenSeq(Take(c, k)) \o <<>>
      BY <2>8, <2>9, FlattenAppend
    <3>2. Take(t, k) \o <<>> = Take(t, k)
      BY <2>9, ConcatEmptySeq
    <3> QED
      BY <2>6, <2>8, <3>1, <3>2
  <2>11. FlattenSeq(Take(c, n)) = Take(t, k) \o CRLF
    BY <1>5, <2>8, <2>10, FlattenAppend
  <2>12. Take(t, n) = Take(t, k) \o CRLF
    <3>1. Take(t, l) = Append(Take(t, k), CR) /\ Take(t, l) \in Seq(S)
      BY <2>2, <2>3, <2>4, TakeOneMore
    <3>2. Take(t, n) = Append(Take(t, l), LF)
      BY <2>3, <2>4, TakeOneMore
    <3>3. Append(Append(Take(t, k), CR), LF) = Take(t, k) \o <<CR, LF>>
      BY <2>9
    <3> QED
      BY <1>5, <3>1, <3>2, <3>3
  <2> QED
    BY <1>6, <1>7, <1>10, <2>11, <2>12 DEF n, c
<1> QED
  BY <1>1, <1>8, <1>9, <1>10 DEF n

\* and with it.
LEMMA FirstPieces ==
  ASSUME NEW S, {CR, LF, DOT} \subseteq S, NEW t \in Seq(S), t # <<>>, NEW quote
  PROVE  /\ DotWrite(t, quote, 1) \o LineWrites(t) \in Seq(Seq(S))
         /\ FlattenSeq(DotWrite(t, quote, 1) \o LineWrites(t))
              = FlattenSeq(Take(Pieces(t, quote), LineLength(t)))
<1> DEFINE n == LineLength(t)
           dw == DotWrite(t, quote, 1)
           d == IF quote /\ t[1] = DOT THEN <<DOT>> ELSE <<>>
           p == Take(Pieces(t, quote), n)
           c == Take(Canons(t), n)
           SS == Seq(S)
<1>1. /\ n \in 1 .. Len(t) /\ n \in 0 .. Len(t) /\ Len(t) \in Nat /\ n \in Nat
      /\ Endless(t, n) \/ OneEnd(t, n) \/ TwoEnds(t, n)
  BY LineLengthFacts
<1>2. <<DOT>> \in Seq(S) /\ <<>> \in Seq(S) /\ d \in Seq(S)
  <2>1. DOT \in S
    OBVIOUS
  <2>2. <<DOT>> \in Seq(S) /\ <<>> \in Seq(S)
    BY <2>1
  <2>3. d = <<DOT>> \/ d = <<>>
    OBVIOUS
  <2> HIDE DEF d
  <2> QED
    BY <2>2, <2>3
<1>3. dw \in Seq(Seq(S)) /\ FlattenSeq(dw) = d
  <2>1. <<<<DOT>>>> \in Seq(Seq(S)) /\ <<>> \in Seq(Seq(S))
    BY <1>2
  <2>2. FlattenSeq(<<<<DOT>>>>) = <<DOT>>
    BY <1>2, FlattenOne
  <2> QED
    BY <2>1, <2>2, FlattenEmpty DEF DotWrite
<1>4. /\ Canons(t) \in Seq(SS) /\ Len(Canons(t)) = Len(t)
      /\ Pieces(t, quote) \in Seq(SS) /\ Len(Pieces(t, quote)) = Len(t)
  BY PiecesTyped
<1>5. /\ p \in Seq(SS) /\ Len(p) = n /\ \A j \in 1 .. n : p[j] = PieceAt(t, quote, j)
      /\ c \in Seq(SS) /\ Len(c) = n /\ \A j \in 1 .. n : c[j] = CanonAt(t, j)
  <2>1. \A j \in 1 .. n : j \in 1 .. Len(t)
    BY <1>1
  <2>2. \A j \in 1 .. n : Pieces(t, quote)[j] = PieceAt(t, quote, j) /\ Canons(t)[j] = CanonAt(t, j)
    <3> HIDE DEF n
    <3> QED
      BY <2>1 DEF Pieces, Canons
  <2>3. p \in Seq(SS) /\ Len(p) = n /\ \A j \in 1 .. n : p[j] = Pieces(t, quote)[j]
    <3> DEFINE q == Pieces(t, quote)
    <3> HIDE DEF SS, n, q
    <3>1. q \in Seq(SS) /\ n \in 0 .. Len(q)
      BY <1>1, <1>4 DEF q
    <3>2. Take(q, n) \in Seq(SS) /\ Len(Take(q, n)) = n /\ \A j \in 1 .. n : Take(q, n)[j] = q[j]
      BY <3>1, TakeElements
    <3> QED
      BY <3>2 DEF q
  <2>4. c \in Seq(SS) /\ Len(c) = n /\ \A j \in 1 .. n : c[j] = Canons(t)[j]
    <3> DEFINE q == Canons(t)
    <3> HIDE DEF SS, n, q
    <3>1. q \in Seq(SS) /\ n \in 0 .. Len(q)
      BY <1>1, <1>4 DEF q
    <3>2. Take(q, n) \in Seq(SS) /\ Len(Take(q, n)) = n /\ \A j \in 1 .. n : Take(q, n)[j] = q[j]
      BY <3>1, TakeElements
    <3> QED
      BY <3>2 DEF q
  <2> HIDE DEF p, c, n
  <2> QED
    BY <2>2, <2>3, <2>4
<1>6. LineWrites(t) \in Seq(Seq(S)) /\ FlattenSeq(LineWrites(t)) = FlattenSeq(c)
  BY FirstCanons
<1> HIDE DEF p, c, n
<1>7. p[1] = d \o c[1]
  <2>1. p[1] = PieceAt(t, quote, 1) /\ c[1] = CanonAt(t, 1) /\ 1 \in 1 .. n
    BY <1>1, <1>5
  <2>2. c[1] \in SS
    BY <1>5, <2>1
  <2>3. <<>> \o c[1] = c[1]
    BY <2>2, ConcatEmptySeq
  <2> QED
    BY <2>1, <2>3 DEF PieceAt
<1>8. ASSUME NEW j \in 2 .. n PROVE p[j] = c[j]
  <2>1. j \in 1 .. n /\ j # 1
    BY <1>1
  <2>2. ~(t[j] = DOT /\ IsEnd(t[j - 1]))
    <3>1. PICK k \in Nat : k = j - 1
      BY <1>1
    <3>2. k \in 1 .. n /\ k \in 1 .. n - 1 /\ (j # n => k \in 1 .. n - 2)
      BY <1>1, <3>1
    <3>3. CASE Endless(t, n) \/ OneEnd(t, n)
      BY <3>1, <3>2, <3>3 DEF Endless, OneEnd
    <3>4. CASE TwoEnds(t, n)
      <4>1. CASE j = n
        BY <3>4, <4>1 DEF TwoEnds, LF, DOT
      <4>2. CASE j # n
        BY <3>1, <3>2, <3>4, <4>2 DEF TwoEnds
      <4> QED
        BY <4>1, <4>2
    <3> QED
      BY <1>1, <3>3, <3>4
  <2> QED
    BY <1>5, <2>1, <2>2 DEF PieceAt
<1>9. FlattenSeq(p) = d \o FlattenSeq(c)
  <2>1. p \in Seq(Seq(S)) /\ c \in Seq(Seq(S)) /\ Len(p) = Len(c) /\ p # <<>>
    <3>1. Len(p) # 0
      BY <1>1, <1>5
    <3> QED
      BY <1>5, <3>1
  <2>2. \A j \in 2 .. Len(p) : p[j] = c[j]
    BY <1>5, <1>8
  <2> HIDE DEF d
  <2> QED
    BY <1>2, <1>7, <2>1, <2>2, FlattenBefore
<1>10. dw \o LineWrites(t) \in Seq(Seq(S))
  <2>1. dw \in Seq(SS) /\ LineWrites(t) \in Seq(SS)
    BY <1>3, <1>6
  <2>2. dw \o LineWrites(t) \in Seq(SS)
    <3> HIDE DEF SS, dw
    <3> QED
      BY <2>1, ConcatProperties
  <2> QED
    BY <2>2
<1>11. FlattenSeq(dw \o LineWrites(t)) = FlattenSeq(dw) \o FlattenSeq(LineWrites(t))
  <2> HIDE DEF dw
  <2> QED
    BY <1>3, <1>6, FlattenConcat
<1> QED
  BY <1>3, <1>6, <1>9, <1>10, <1>11 DEF n, p

\* All writes for a text, put together, are what goes out for its characters.
LEMMA DataWritesFlat ==
  ASSUME NEW S, {CR, LF, DOT} \subseteq S, NEW t \in Seq(S), NEW quote
  PROVE  /\ DataWrites(t, quote) \in Seq(Seq(S))
         /\ FlattenSeq(DataWrites(t, quote)) = FlattenSeq(Pieces(t, quote))
<1> DEFINE n == Len(t)
           SS == Seq(S)
<1>1. n \in Nat /\ n + 1 \in Nat
  OBVIOUS
<1>2. PICK f : IsWrites(f, t, quote, 1) /\ DataWrites(t, quote) = f[1]
  BY DataWritesFunction
<1>3. \A i \in 1 .. n + 1 : f[i] = WritesAt(t, quote, f, i)
  BY <1>2 DEF IsWrites
<1> DEFINE G == {i \in 1 .. n + 1 :
                   f[i] \in Seq(SS) /\ FlattenSeq(f[i]) = FlattenSeq(Pieces(Rest(t, i), quote))}
<1>4. ASSUME NEW i \in 1 .. n + 1, \A j \in i + 1 .. n + 1 : j \in G
      PROVE  i \in G
  <2>1. CASE i = n + 1
    <3>1. f[i] = <<>>
      <4>1. i > Len(t)
        BY <1>1, <2>1
      <4> QED
        BY <1>3, <4>1 DEF WritesAt
    <3>2. Rest(t, i) = <<>>
      BY <1>1, <2>1, SubSeqEmpty DEF Rest
    <3>3. Pieces(<<>>, quote) = <<>>
      <4>1. <<>> \in Seq(S) /\ Len(<<>>) = 0
        OBVIOUS
      <4>2. Pieces(<<>>, quote) \in Seq(SS) /\ Len(Pieces(<<>>, quote)) = 0
        BY <4>1, PiecesTyped
      <4> HIDE DEF SS
      <4> QED
        BY <4>2, EmptySeq
    <3>4. f[i] \in Seq(SS)
      BY <3>1
    <3> QED
      BY <3>1, <3>2, <3>3, <3>4, FlattenEmpty
  <2>2. CASE i # n + 1
    <3>1. i \in 1 .. n
      BY <1>1, <2>2
    <3> DEFINE r == Rest(t, i)
               m == LineLength(r)
               w == DotWrite(r, quote, 1) \o LineWrites(r)
    <3>2. /\ r \in Seq(S) /\ r # <<>> /\ Len(r) = n - i + 1
          /\ \A j \in 1 .. n - i + 1 : r[j] = t[i + j - 1]
          /\ m \in 1 .. n - i + 1 /\ NextLine(t, i) \in i + 1 .. n + 1
      BY <3>1, RestFacts
    <3>3. r[1] = t[i]
      <4>1. 1 \in 1 .. n - i + 1 /\ i + 1 - 1 = i
        BY <3>1
      <4> QED
        BY <3>2, <4>1
    <3>4. NextLine(t, i) = i + m
      BY DEF NextLine
    <3>5. f[i] = w \o f[i + m]
      <4>1. ~(i > Len(t))
        BY <1>1, <3>1
      <4>2. f[i] = DotWrite(t, quote, i) \o LineWrites(r) \o f[NextLine(t, i)]
        BY <1>3, <4>1 DEF WritesAt
      <4>3. DotWrite(t, quote, i) = DotWrite(r, quote, 1)
        <5> HIDE DEF r
        <5> QED
          BY <3>3 DEF DotWrite
      <4> QED
        BY <3>4, <4>2, <4>3
    <3>6. f[i + m] \in Seq(SS) /\ FlattenSeq(f[i + m]) = FlattenSeq(Pieces(Rest(t, i + m), quote))
      <4>1. i + m \in G
        <5> HIDE DEF G
        <5> QED
          BY <1>4, <3>2, <3>4
      <4> QED
        BY <4>1
    <3>7. /\ w \in Seq(SS)
          /\ FlattenSeq(w) = FlattenSeq(Take(Pieces(r, quote), m))
      <4> HIDE DEF r
      <4> QED
        BY <3>2, FirstPieces
    <3>8. m \in 1 .. Len(r) /\ m \in 0 .. Len(r) /\ (m = Len(r) \/ IsEnd(r[m]))
      <4>1. Endless(r, m) \/ OneEnd(r, m) \/ TwoEnds(r, m)
        <5> HIDE DEF r
        <5> QED
          BY <3>2, LineLengthFacts
      <4>2. m = Len(r) \/ IsEnd(r[m])
        <5> HIDE DEF r, m
        <5> QED
          BY <4>1 DEF Endless, OneEnd, TwoEnds, IsEnd
      <4> QED
        BY <3>1, <3>2, <4>2
    <3>9. Rest(t, i + m) = Drop(r, m)
      <4> DEFINE u == Rest(t, i + m)
                 v == Drop(r, m)
                 l == n - i + 1 - m
      <4>1. v \in Seq(S) /\ Len(v) = l /\ \A j \in 1 .. l : v[j] = r[m + j]
        <5> HIDE DEF r, m
        <5>1. /\ v \in Seq(S) /\ Len(v) = Len(r) - m
              /\ \A j \in 1 .. Len(r) - m : v[j] = r[m + j]
          <6> HIDE DEF n, SS, G, l, u
          <6>1. r \in Seq(S) /\ m \in 0 .. Len(r)
            BY <3>2, <3>8
          <6> QED
            BY <6>1, DropElements
        <5>2. Len(r) - m = l
          BY <3>2
        <5> HIDE DEF v, l
        <5> QED
          BY <5>1, <5>2
      <4>2. u \in Seq(S) /\ Len(u) = l /\ \A j \in 1 .. l : u[j] = t[i + m + j - 1]
        <5>1. /\ i + m \in Int /\ n \in Int /\ \A j \in i + m .. n : j \in 1 .. n
              /\ m \in Nat
          <6> HIDE DEF r, m
          <6> QED
            BY <1>1, <3>1, <3>8
        <5>2. \A j \in i + m .. n : t[j] \in S
          <6> HIDE DEF r, m
          <6> QED
            BY <5>1
        <5> HIDE DEF r, m
        <5>3. /\ u \in Seq(S) /\ Len(u) = IF i + m <= n THEN n - (i + m) + 1 ELSE 0
              /\ \A j \in 1 .. n - (i + m) + 1 : u[j] = t[i + m + j - 1]
          BY <5>1, <5>2, SubSeqProperties DEF Rest
        <5>4. n - (i + m) + 1 = l /\ (i + m <= n \/ l = 0)
          <6>1. n \in Int /\ i \in Int /\ m \in Int /\ m \in 1 .. n - i + 1
            BY <1>1, <3>1, <3>2, <5>1
          <6> HIDE DEF n, u, v, SS
          <6> QED
            BY <6>1
        <5> HIDE DEF u, l
        <5> QED
          BY <5>3, <5>4
      <4>3. \A j \in 1 .. l : r[m + j] = t[i + m + j - 1]
        <5>1. \A j \in 1 .. l : m + j \in 1 .. n - i + 1 /\ i + (m + j) - 1 = i + m + j - 1
          <6> HIDE DEF r, m
          <6> QED
            BY <1>1, <3>1, <3>2
        <5>2. TAKE j \in 1 .. l
        <5>3. PICK k \in Nat : k = m + j
          <6> HIDE DEF r, m
          <6> QED
            BY <3>1, <3>2
        <5>4. k \in 1 .. n - i + 1 /\ i + k - 1 = i + m + j - 1
          <6> HIDE DEF r, m, l
          <6> QED
            BY <5>1, <5>3
        <5>5. r[k] = t[i + k - 1]
          <6> HIDE DEF r, m
          <6> QED
            BY <3>2, <5>4
        <5> HIDE DEF r, m, l
        <5> QED
          BY <5>3, <5>4, <5>5
      <4> HIDE DEF u, v, l, r, m
      <4>4. u = v
        BY <4>1, <4>2, <4>3, SeqEqual
      <4> QED
        BY <4>4 DEF u, v
    <3> DEFINE pp == Pieces(r, quote)
    <3>10. pp \in Seq(SS) /\ Len(pp) = Len(r)
      <4> HIDE DEF r
      <4> QED
        BY <3>2, PiecesTyped
    <3>11. /\ Take(pp, m) \in Seq(SS) /\ Drop(pp, m) \in Seq(SS)
           /\ Take(pp, m) \o Drop(pp, m) = pp
      <4> HIDE DEF SS, pp, r, m
      <4> QED
        BY <3>8, <3>10, CutFacts
    <3>12. Drop(pp, m) = Pieces(Rest(t, i + m), quote)
      <4>1. Drop(pp, m) = Pieces(Drop(r, m), quote)
        <5> HIDE DEF r, m
        <5> QED
          BY <3>2, <3>8, DropPieces
      <4> HIDE DEF r, m, pp
      <4> QED
        BY <3>9, <4>1
    <3> HIDE DEF pp, r, m, w
    <3>13. FlattenSeq(pp) = FlattenSeq(Take(pp, m)) \o FlattenSeq(Drop(pp, m))
      <4>1. FlattenSeq(Take(pp, m) \o Drop(pp, m)) = FlattenSeq(Take(pp, m)) \o FlattenSeq(Drop(pp, m))
        BY <3>11, FlattenConcat
      <4> QED
        BY <3>11, <4>1
    <3>14. FlattenSeq(w \o f[i + m]) = FlattenSeq(w) \o FlattenSeq(f[i + m])
      BY <3>6, <3>7, FlattenConcat
    <3>15. FlattenSeq(f[i]) = FlattenSeq(pp)
      BY <3>5, <3>6, <3>7, <3>12, <3>13, <3>14 DEF pp
    <3>16. f[i] \in Seq(SS)
      <4> HIDE DEF SS
      <4> QED
        BY <3>5, <3>6, <3>7, ConcatProperties
    <3> QED
      BY <3>15, <3>16 DEF pp, r
  <2> QED
    BY <2>1, <2>2
<1>5. 1 \in G
  <2>1. 1 \in 1 .. n + 1
    BY <1>1
  <2> HIDE DEF G
  <2>2. \A i \in 1 .. n + 1 : i \in G
    BY <1>1, <1>4, DownFrom
  <2> QED
    BY <2>1, <2>2
<1>6. Rest(t, 1) = t
  BY SubSeqFull DEF Rest
<1> QED
  BY <1>2, <1>5, <1>6

\* Without the doubled dots it is the canonical text,
LEMMA DataWritesCanonical ==
  ASSUME NEW S, {CR, LF, DOT} \subseteq S, NEW t \in Seq(S)
  PROVE  FlattenSeq(DataWrites(t, FALSE)) = Canonical(t)
<1>1. Pieces(t, FALSE) = Canons(t)
  BY DEF Pieces, Canons, PieceAt
<1> QED
  BY <1>1, DataWritesFlat, CanonicalIsCanons

\* and as long as mailstream_get_data_crlf_size says, which counts by itself.
LastOf(t, i) == i + LineLength(Rest(t, i)) - 1
Fixed(t, i) ==
  \/ t[LastOf(t, i)] = CR
  \/ (t[LastOf(t, i)] = LF /\ (LineLength(Rest(t, i)) = 1 \/ t[LastOf(t, i) - 1] # CR))
SizeAt(t, f, i) ==
  IF i > Len(t) THEN 0
  ELSE LineLength(Rest(t, i)) + (IF Fixed(t, i) THEN 1 ELSE 0) + f[LastOf(t, i) + 1]
IsSize(f, t, a) == f = [i \in a .. Len(t) + 1 |-> SizeAt(t, f, i)]

LEMMA LastOfFacts ==
  ASSUME NEW S, NEW t \in Seq(S), NEW i \in 1 .. Len(t)
  PROVE  LastOf(t, i) + 1 = NextLine(t, i) /\ LastOf(t, i) + 1 \in i + 1 .. Len(t) + 1
<1> DEFINE n == LineLength(Rest(t, i))
<1>1. n \in 1 .. Len(t) - i + 1 /\ NextLine(t, i) = i + n /\ LastOf(t, i) = i + n - 1
  BY RestFacts DEF NextLine, LastOf
<1>2. Len(t) \in Nat /\ i \in Nat
  OBVIOUS
<1> HIDE DEF n
<1>3. i + n - 1 + 1 = i + n /\ i + n \in i + 1 .. Len(t) + 1
  BY <1>1, <1>2
<1> QED
  BY <1>1, <1>3

LEMMA SizeExists ==
  ASSUME NEW S, NEW t \in Seq(S)
  PROVE  \E f : IsSize(f, t, 1)
<1> DEFINE n == Len(t)
           G == {k \in Nat : \E f : IsSize(f, t, n + 1 - k)}
<1>0. n \in Nat
  OBVIOUS
<1>1. 0 \in G
  <2> DEFINE e == [i \in n + 1 .. n + 1 |-> 0]
  <2>1. \A i \in n + 1 .. n + 1 : i > Len(t)
    BY <1>0
  <2>2. \A i \in n + 1 .. n + 1 : SizeAt(t, e, i) = 0
    BY <2>1 DEF SizeAt
  <2>3. e = [i \in n + 1 .. n + 1 |-> SizeAt(t, e, i)]
    <3>1. e = [i \in n + 1 .. n + 1 |-> 0]
      OBVIOUS
    <3> HIDE DEF e
    <3> QED
      BY <2>2, <3>1
  <2>4. IsSize(e, t, n + 1 - 0)
    <3>1. n + 1 - 0 = n + 1
      BY <1>0
    <3> HIDE DEF e
    <3> QED
      BY <2>3, <3>1 DEF IsSize
  <2> HIDE DEF e
  <2> QED
    BY <2>4
<1>2. ASSUME NEW k \in 0 .. n - 1, k \in G PROVE k + 1 \in G
  <2>1. PICK f : IsSize(f, t, n + 1 - k)
    BY <1>2
  <2>2. PICK a \in Nat : a = n - k
    BY <1>0
  <2>3. /\ n + 1 - k = a + 1 /\ n + 1 - (k + 1) = a /\ a \in 1 .. n
        /\ k + 1 \in Nat
    BY <1>0, <2>2
  <2> DEFINE g == [i \in a .. n + 1 |-> SizeAt(t, f, i)]
  <2>4. \A i \in a + 1 .. n + 1 : f[i] = SizeAt(t, f, i)
    BY <2>1, <2>3 DEF IsSize
  <2>5. \A i \in a + 1 .. n + 1 : i \in a .. n + 1
    BY <2>3
  <2>6. \A i \in a + 1 .. n + 1 : g[i] = f[i]
    BY <2>4, <2>5
  <2>7. ASSUME NEW i \in a .. n + 1
        PROVE  SizeAt(t, f, i) = SizeAt(t, g, i)
    <3>1. CASE i > Len(t)
      BY <3>1 DEF SizeAt
    <3>2. CASE ~(i > Len(t))
      <4>1. i \in 1 .. n
        BY <1>0, <2>3, <3>2
      <4>2. LastOf(t, i) + 1 \in i + 1 .. n + 1
        BY <4>1, LastOfFacts
      <4>3. LastOf(t, i) + 1 \in a + 1 .. n + 1
        BY <1>0, <2>3, <4>1, <4>2
      <4>4. f[LastOf(t, i) + 1] = g[LastOf(t, i) + 1]
        <5> HIDE DEF g
        <5> QED
          BY <2>6, <4>3
      <4> HIDE DEF g
      <4> QED
        BY <4>4 DEF SizeAt
    <3> QED
      BY <3>1, <3>2
  <2>8. IsSize(g, t, a)
    <3>1. g = [i \in a .. n + 1 |-> SizeAt(t, f, i)]
      OBVIOUS
    <3> HIDE DEF g
    <3> QED
      BY <2>7, <3>1 DEF IsSize
  <2> HIDE DEF g
  <2> QED
    BY <2>3, <2>8
<1>3. n \in G
  <2>1. n \in 0 .. n
    BY <1>0
  <2> HIDE DEF G
  <2> QED
    BY <1>0, <1>1, <1>2, <2>1, UpTo
<1>4. n + 1 - n = 1
  BY <1>0
<1> QED
  BY <1>3, <1>4

LEMMA SizeFunction ==
  ASSUME NEW S, NEW t \in Seq(S)
  PROVE  \E f : IsSize(f, t, 1) /\ DataCrlfSize(t) = f[1]
<1> DEFINE f == CHOOSE f : IsSize(f, t, 1)
<1>1. IsSize(f, t, 1)
  BY SizeExists
<1>2. DataCrlfSize(t) = f[1]
  BY DEF DataCrlfSize, IsSize, SizeAt, Fixed, LastOf, Rest
<1> HIDE DEF f
<1> QED
  BY <1>1, <1>2

\* What is counted for a line is the length of its writes.
LEMMA LineSize ==
  ASSUME NEW S, {CR, LF, DOT} \subseteq S, NEW t \in Seq(S), NEW i \in 1 .. Len(t)
  PROVE  Len(FlattenSeq(LineWrites(Rest(t, i))))
           = LineLength(Rest(t, i)) + (IF Fixed(t, i) THEN 1 ELSE 0)
<1> DEFINE r == Rest(t, i)
           n == LineLength(r)
           w == LineWrites(r)
<1>1. /\ r \in Seq(S) /\ r # <<>> /\ Len(r) = Len(t) - i + 1
      /\ \A j \in 1 .. Len(t) - i + 1 : r[j] = t[i + j - 1]
      /\ n \in 1 .. Len(t) - i + 1
  BY RestFacts
<1>2. /\ Endless(r, n) \/ OneEnd(r, n) \/ TwoEnds(r, n)
      /\ Endless(r, n) => w = <<Take(r, n)>>
      /\ OneEnd(r, n) => w = <<Take(r, n - 1), CRLF>>
      /\ TwoEnds(r, n) => w = <<Take(r, n)>>
  <2> HIDE DEF r
  <2> QED
    BY <1>1, LineLengthFacts, LineWritesFacts
<1> DEFINE l == LastOf(t, i)
<1>3. l = i + n - 1 /\ (Fixed(t, i) <=> t[l] = CR \/ (t[l] = LF /\ (n = 1 \/ t[l - 1] # CR)))
  BY DEF Fixed, LastOf
<1> HIDE DEF l
<1> HIDE DEF r, n, w
<1>4. /\ n \in Nat /\ n \in 0 .. Len(r) /\ n - 1 \in 0 .. Len(r) /\ n \in 1 .. Len(r)
      /\ Len(t) \in Nat /\ Len(r) \in Nat
  BY <1>1
<1>5. r[n] = t[l]
  BY <1>1, <1>3
<1>6. n >= 2 => r[n - 1] = t[l - 1]
  <2> SUFFICES ASSUME n >= 2 PROVE r[n - 1] = t[l - 1]
    OBVIOUS
  <2>1. PICK k \in Nat : k = n - 1
    BY <1>4
  <2>2. k \in 1 .. Len(t) - i + 1 /\ i + k - 1 = l - 1
    BY <1>1, <1>3, <1>4, <2>1
  <2> QED
    BY <1>1, <2>1, <2>2
<1>7. Fixed(t, i) <=> r[n] = CR \/ (r[n] = LF /\ (n = 1 \/ r[n - 1] # CR))
  <2>1. n = 1 \/ n >= 2
    BY <1>4
  <2> QED
    BY <1>3, <1>5, <1>6, <2>1
<1>8. /\ Take(r, n) \in Seq(S) /\ Len(Take(r, n)) = n
      /\ Take(r, n - 1) \in Seq(S) /\ Len(Take(r, n - 1)) = n - 1
  <2>1. Take(r, n) \in Seq(S) /\ Len(Take(r, n)) = n
    BY <1>1, <1>4, CutFacts
  <2>2. PICK k \in Nat : k = n - 1
    BY <1>4
  <2>3. Take(r, k) \in Seq(S) /\ Len(Take(r, k)) = k
    BY <1>1, <1>4, <2>2, CutFacts
  <2> QED
    BY <2>1, <2>2, <2>3
<1>9. FlattenSeq(<<Take(r, n)>>) = Take(r, n)
  BY <1>8, FlattenOne
<1>10. CASE Endless(r, n)
  <2>1. ~Fixed(t, i)
    BY <1>4, <1>7, <1>10 DEF Endless, IsEnd
  <2> QED
    BY <1>2, <1>4, <1>8, <1>9, <1>10, <2>1 DEF r, n, w
<1>11. CASE OneEnd(r, n)
  <2>1. Fixed(t, i)
    <3>1. r[n] \in {CR, LF}
      BY <1>11 DEF OneEnd, IsEnd
    <3>2. n # 1 => r[n - 1] # CR
      <4>1. n # 1 => n - 1 \in 1 .. n - 1
        BY <1>4
      <4> QED
        BY <1>11, <4>1 DEF OneEnd, IsEnd
    <3> QED
      BY <1>7, <3>1, <3>2
  <2>2. CRLF \in Seq(S) /\ Len(CRLF) = 2
    BY DEF CRLF
  <2>3. FlattenSeq(<<Take(r, n - 1), CRLF>>) = Take(r, n - 1) \o CRLF
    <3> DEFINE u == Take(r, n - 1)
               v == CRLF
    <3>1. u \in Seq(S) /\ v \in Seq(S)
      BY <1>8, <2>2
    <3> HIDE DEF u, v
    <3>2. FlattenSeq(<<u>>) = u
      BY <3>1, FlattenOne
    <3>3. <<u>> \in Seq(Seq(S)) /\ <<u, v>> = Append(<<u>>, v)
      BY <3>1
    <3>4. FlattenSeq(Append(<<u>>, v)) = FlattenSeq(<<u>>) \o v
      BY <3>1, <3>3, FlattenAppend
    <3> QED
      BY <3>2, <3>3, <3>4 DEF u, v
  <2>4. Len(Take(r, n - 1) \o CRLF) = n - 1 + 2
    <3> DEFINE u == Take(r, n - 1)
               v == CRLF
    <3>1. u \in Seq(S) /\ v \in Seq(S) /\ Len(u) = n - 1 /\ Len(v) = 2
      BY <1>8, <2>2
    <3> HIDE DEF u, v
    <3>2. Len(u \o v) = Len(u) + Len(v)
      BY <3>1, ConcatProperties
    <3> QED
      BY <3>1, <3>2 DEF u, v
  <2>5. n - 1 + 2 = n + 1
    BY <1>4
  <2> QED
    BY <1>2, <1>11, <2>1, <2>3, <2>4, <2>5 DEF r, n, w
<1>12. CASE TwoEnds(r, n)
  <2>1. ~Fixed(t, i)
    <3>1. n # 1 /\ r[n - 1] = CR /\ r[n] # CR
      BY <1>4, <1>12, CrlfFacts DEF TwoEnds
    <3> QED
      BY <1>7, <3>1
  <2> QED
    BY <1>2, <1>4, <1>8, <1>9, <1>12, <2>1 DEF r, n, w
<1> QED
  BY <1>2, <1>10, <1>11, <1>12

LEMMA CrlfSizeIsLength ==
  ASSUME NEW S, {CR, LF, DOT} \subseteq S, NEW t \in Seq(S)
  PROVE  DataCrlfSize(t) = Len(FlattenSeq(DataWrites(t, FALSE)))
<1> DEFINE n == Len(t)
           SS == Seq(S)
<1>1. n \in Nat /\ n + 1 \in Nat
  OBVIOUS
<1>2. PICK f : IsWrites(f, t, FALSE, 1) /\ DataWrites(t, FALSE) = f[1]
  BY DataWritesFunction
<1>3. PICK g : IsSize(g, t, 1) /\ DataCrlfSize(t) = g[1]
  BY SizeFunction
<1>4. \A i \in 1 .. n + 1 : f[i] = WritesAt(t, FALSE, f, i) /\ g[i] = SizeAt(t, g, i)
  BY <1>2, <1>3 DEF IsWrites, IsSize
<1> DEFINE G == {i \in 1 .. n + 1 : f[i] \in Seq(SS) /\ g[i] = Len(FlattenSeq(f[i]))}
<1>5. ASSUME NEW i \in 1 .. n + 1, \A j \in i + 1 .. n + 1 : j \in G
      PROVE  i \in G
  <2>1. CASE i = n + 1
    <3>1. i > Len(t)
      BY <1>1, <2>1
    <3>2. f[i] = <<>> /\ g[i] = 0
      BY <1>4, <3>1 DEF WritesAt, SizeAt
    <3>3. <<>> \in Seq(SS) /\ Len(<<>>) = 0
      OBVIOUS
    <3> QED
      BY <3>2, <3>3, FlattenEmpty
  <2>2. CASE i # n + 1
    <3>1. i \in 1 .. n
      BY <1>1, <2>2
    <3> DEFINE r == Rest(t, i)
               w == LineWrites(r)
               j == NextLine(t, i)
               s == LineLength(r) + (IF Fixed(t, i) THEN 1 ELSE 0)
    <3>2. r \in Seq(S) /\ r # <<>> /\ j \in i + 1 .. n + 1 /\ LastOf(t, i) + 1 = j
      BY <3>1, RestFacts, LastOfFacts
    <3>3. ~(i > Len(t))
      BY <1>1, <3>1
    <3>4. f[i] = DotWrite(t, FALSE, i) \o w \o f[j] /\ DotWrite(t, FALSE, i) = <<>>
      BY <1>4, <3>3 DEF WritesAt, DotWrite
    <3>5. g[i] = s + g[j]
      <4>1. g[i] = LineLength(Rest(t, i)) + (IF Fixed(t, i) THEN 1 ELSE 0) + g[LastOf(t, i) + 1]
        BY <1>4, <3>3 DEF SizeAt
      <4> HIDE DEF j
      <4> QED
        BY <3>2, <4>1
    <3>6. f[j] \in Seq(SS) /\ g[j] = Len(FlattenSeq(f[j]))
      <4>1. j \in G
        <5> HIDE DEF G, j
        <5> QED
          BY <1>5, <3>2
      <4> QED
        BY <4>1
    <3>7. w \in Seq(SS)
      <4> HIDE DEF r
      <4> QED
        BY <3>2, FirstCanons
    <3>8. Len(FlattenSeq(w)) = s
      BY <3>1, LineSize
    <3> HIDE DEF r, w, s, j
    <3>9. f[i] = w \o f[j]
      <4>1. <<>> \o w = w
        <5> HIDE DEF SS
        <5> QED
          BY <3>7, ConcatEmptySeq
      <4> QED
        BY <3>4, <4>1
    <3>10. w \o f[j] \in Seq(SS)
      <4> HIDE DEF SS
      <4> QED
        BY <3>6, <3>7, ConcatProperties
    <3>11. FlattenSeq(w \o f[j]) = FlattenSeq(w) \o FlattenSeq(f[j])
      BY <3>6, <3>7, FlattenConcat
    <3>12. FlattenSeq(w) \in Seq(S) /\ FlattenSeq(f[j]) \in Seq(S)
      BY <3>6, <3>7, FlattenTyped
    <3>13. Len(FlattenSeq(w) \o FlattenSeq(f[j])) = Len(FlattenSeq(w)) + Len(FlattenSeq(f[j]))
      <4> DEFINE u == FlattenSeq(w)
                 v == FlattenSeq(f[j])
      <4>1. u \in Seq(S) /\ v \in Seq(S)
        BY <3>12
      <4> HIDE DEF u, v
      <4>2. Len(u \o v) = Len(u) + Len(v)
        BY <4>1, ConcatProperties
      <4> QED
        BY <4>2 DEF u, v
    <3>14. Len(FlattenSeq(f[i])) = g[i]
      BY <3>5, <3>6, <3>8, <3>9, <3>11, <3>13
    <3> QED
      BY <3>9, <3>10, <3>14
  <2> QED
    BY <2>1, <2>2
<1>6. 1 \in G
  <2>1. 1 \in 1 .. n + 1
    BY <1>1
  <2> HIDE DEF G
  <2>2. \A i \in 1 .. n + 1 : i \in G
    BY <1>1, <1>5, DownFrom
  <2> QED
    BY <2>1, <2>2
<1> QED
  BY <1>2, <1>3, <1>6

\* The size that mailimap_append announces for its literal is the size of what it
\* sends, which is the message with every line end written as CRLF, whatever line
\* ends it has: mailstream_get_data_crlf_size and mailstream_send_data_crlf cut the
\* text into lines by one rule and fix the same line ends.
THEOREM AnnouncedSizeIsSent ==
  ASSUME NEW S, {CR, LF, DOT} \subseteq S, NEW t \in Seq(S)
  PROVE  /\ FlattenSeq(DataWrites(t, FALSE)) = Canonical(t)
         /\ DataCrlfSize(t) = Len(Canonical(t))
BY DataWritesCanonical, CrlfSizeIsLength

----------------------------------------------------------------------------
(***************************************************************************)
(* Folds.  FoldLeft is defined by a function on the sets of positions that *)
(* takes the greatest first.  F is the step of a fold as a function, from  *)
(* what has been gathered so far and the next element.                     *)
(***************************************************************************)

FoldAt(F, base, t, f, s) == IF s = {} THEN base ELSE F[<<f[s \ {Max(s)}], t[Max(s)]>>]
IsFold(f, F, base, t, n) == f = [s \in SUBSET (1 .. n) |-> FoldAt(F, base, t, f, s)]

\* What is gathered, one element after the other.
IsRun(a, F, base, t) ==
  a[0] = base /\ \A k \in 0 .. Len(t) - 1 : a[k + 1] = F[<<a[k], t[k + 1]>>]

LEMMA MaxIs ==
  ASSUME NEW s \in SUBSET Nat, NEW m \in s, \A x \in s : x <= m
  PROVE  Max(s) = m
<1>1. \A x \in s : m >= x
  OBVIOUS
<1>2. Max(s) \in s /\ \A x \in s : Max(s) >= x
  BY <1>1 DEF Max
<1>3. Max(s) \in Nat /\ m \in Nat /\ Max(s) <= m /\ Max(s) >= m
  BY <1>2
<1> HIDE DEF Max
<1> QED
  BY <1>3

LEMMA MaxUpTo ==
  ASSUME NEW k \in Nat, NEW s \in SUBSET (1 .. k), s # {}
  PROVE  Max(s) \in s
<1> DEFINE T == {d \in 0 .. k : k - d \in s}
<1>1. T \subseteq Nat
  OBVIOUS
<1>2. T # {}
  <2>1. PICK x : x \in s
    OBVIOUS
  <2>2. x \in 1 .. k /\ k - x \in 0 .. k /\ k - (k - x) = x
    BY <2>1
  <2>3. k - x \in T
    BY <2>1, <2>2
  <2> QED
    BY <2>3
<1>3. PICK d \in T : \A e \in T : d <= e
  <2> HIDE DEF T
  <2> QED
    BY <1>1, <1>2, LeastOf
<1>4. PICK m \in Nat : m = k - d
  BY <1>3
<1>5. m \in s
  BY <1>3, <1>4
<1>6. \A x \in s : x <= m
  <2> TAKE x \in s
  <2>1. x \in 1 .. k /\ k - x \in 0 .. k /\ k - (k - x) = x
    OBVIOUS
  <2>2. k - x \in T
    BY <2>1
  <2>3. d <= k - x
    <3> HIDE DEF T
    <3> QED
      BY <1>3, <2>2
  <2> QED
    BY <1>3, <1>4, <2>1, <2>3
<1>7. s \in SUBSET Nat
  OBVIOUS
<1> QED
  BY <1>5, <1>6, <1>7, MaxIs

LEMMA FoldExists ==
  ASSUME NEW F, NEW base, NEW t, NEW n \in Nat
  PROVE  \E f : IsFold(f, F, base, t, n)
<1> DEFINE G == {k \in Nat : \E f : IsFold(f, F, base, t, k)}
<1>1. 0 \in G
  <2> DEFINE e == [s \in SUBSET (1 .. 0) |-> base]
  <2>1. \A s \in SUBSET (1 .. 0) : s = {}
    OBVIOUS
  <2>2. \A s \in SUBSET (1 .. 0) : FoldAt(F, base, t, e, s) = base
    BY <2>1 DEF FoldAt
  <2>3. e = [s \in SUBSET (1 .. 0) |-> FoldAt(F, base, t, e, s)]
    <3>1. e = [s \in SUBSET (1 .. 0) |-> base]
      OBVIOUS
    <3> HIDE DEF e
    <3> QED
      BY <2>2, <3>1
  <2>4. IsFold(e, F, base, t, 0)
    BY <2>3 DEF IsFold
  <2> HIDE DEF e
  <2> QED
    BY <2>4
<1>2. ASSUME NEW j \in 0 .. n - 1, j \in G PROVE j + 1 \in G
  <2>1. PICK f : IsFold(f, F, base, t, j)
    BY <1>2
  <2>2. PICK k \in Nat : k = j + 1
    OBVIOUS
  <2>3. /\ j \in Nat /\ \A x \in 1 .. j : x \in 1 .. k
        /\ \A x \in 1 .. k : x \in 1 .. j \/ x = k
        /\ \A x \in 1 .. j : x # k
    BY <2>2
  <2> DEFINE P == SUBSET (1 .. j)
             R == SUBSET (1 .. k)
             h == [s \in R |-> IF s \in P THEN f[s] ELSE FoldAt(F, base, t, f, s)]
  <2>4. \A s \in P : s \in R /\ h[s] = f[s]
    BY <2>3
  <2>5. \A s \in P : f[s] = FoldAt(F, base, t, f, s)
    BY <2>1 DEF IsFold
  <2>6. ASSUME NEW s \in R PROVE h[s] = FoldAt(F, base, t, f, s)
    BY <2>5
  <2>7. ASSUME NEW s \in R PROVE FoldAt(F, base, t, f, s) = FoldAt(F, base, t, h, s)
    <3>1. CASE s = {}
      BY <3>1 DEF FoldAt
    <3>2. CASE s # {}
      <4>1. Max(s) \in s
        BY <3>2, MaxUpTo
      <4>2. s \ {Max(s)} \in P
        <5>1. SUFFICES ASSUME NEW x \in s \ {Max(s)}, x \notin 1 .. j PROVE FALSE
          OBVIOUS
        <5>2. x \in 1 .. k /\ x = k /\ k \in s
          BY <2>3, <5>1
        <5>3. \A y \in s : y <= k
          BY <2>2
        <5>4. Max(s) = k
          <6>1. s \in SUBSET Nat
            OBVIOUS
          <6> QED
            BY <5>2, <5>3, <6>1, MaxIs
        <5> QED
          BY <5>1, <5>2, <5>4
      <4>3. h[s \ {Max(s)}] = f[s \ {Max(s)}]
        <5> HIDE DEF h, P, R
        <5> QED
          BY <2>4, <4>2
      <4> HIDE DEF h
      <4> QED
        BY <4>3 DEF FoldAt
    <3> QED
      BY <3>1, <3>2
  <2>8. IsFold(h, F, base, t, k)
    <3>1. h = [s \in R |-> IF s \in P THEN f[s] ELSE FoldAt(F, base, t, f, s)]
      OBVIOUS
    <3>2. h = [s \in R |-> h[s]]
      OBVIOUS
    <3>3. \A s \in R : h[s] = FoldAt(F, base, t, h, s)
      BY <2>6, <2>7
    <3> HIDE DEF h
    <3> QED
      BY <3>2, <3>3 DEF IsFold
  <2>9. k \in G
    <3> HIDE DEF h
    <3> QED
      BY <2>8
  <2> HIDE DEF G
  <2> QED
    BY <2>2, <2>9
<1>3. n \in G
  <2>1. n \in 0 .. n
    OBVIOUS
  <2> HIDE DEF G
  <2> QED
    BY <1>1, <1>2, <2>1, UpTo
<1> QED
  BY <1>3

\* A function on sets of positions has values in A, if it never leaves it.
LEMMA FoldStaysIn ==
  ASSUME NEW A, NEW n \in Nat, NEW f, f[{}] \in A,
         \A s \in SUBSET (1 .. n) : s # {} /\ f[s \ {Max(s)}] \in A => f[s] \in A
  PROVE  \A s \in SUBSET (1 .. n) : f[s] \in A
<1> DEFINE G == {k \in Nat : k \in 0 .. n => \A s \in SUBSET (1 .. k) : f[s] \in A}
<1>5. 0 \in G
  <2>1. \A s \in SUBSET (1 .. 0) : s = {}
    OBVIOUS
  <2>2. \A s \in SUBSET (1 .. 0) : f[s] \in A
    <3> TAKE s \in SUBSET (1 .. 0)
    <3>1. s = {}
      BY <2>1
    <3> QED
      BY <3>1
  <2> QED
    BY <2>2
<1>6. ASSUME NEW j \in 0 .. n - 1, j \in G PROVE j + 1 \in G
  <2>1. PICK k \in Nat : k = j + 1
    OBVIOUS
  <2>2. /\ j \in 0 .. n /\ k \in 1 .. n
        /\ \A x \in 1 .. k : x \in 1 .. j \/ x = k
        /\ \A x \in 1 .. k : x \in 1 .. n
    BY <2>1
  <2>3. \A s \in SUBSET (1 .. j) : f[s] \in A
    BY <1>6, <2>2
  <2>4. ASSUME NEW s \in SUBSET (1 .. k) PROVE f[s] \in A
    <3>1. s \in SUBSET (1 .. n)
      BY <2>2
    <3>2. CASE s = {}
      BY <3>2
    <3>3. CASE s # {}
      <4>1. Max(s) \in s
        BY <2>2, <3>3, MaxUpTo
      <4>2. s \ {Max(s)} \in SUBSET (1 .. j)
        <5>1. SUFFICES ASSUME NEW x \in s \ {Max(s)}, x \notin 1 .. j PROVE FALSE
          OBVIOUS
        <5>2. x \in 1 .. k /\ x = k /\ k \in s
          BY <2>2, <5>1
        <5>3. \A y \in s : y <= k
          BY <2>1
        <5>4. Max(s) = k
          <6>1. s \in SUBSET Nat
            OBVIOUS
          <6> QED
            BY <5>2, <5>3, <6>1, MaxIs
        <5> QED
          BY <5>1, <5>2, <5>4
      <4>3. f[s \ {Max(s)}] \in A
        BY <2>3, <4>2
      <4> QED
        BY <3>1, <3>3, <4>3
    <3> QED
      BY <3>2, <3>3
  <2>5. k \in G
    BY <2>4
  <2> HIDE DEF G
  <2> QED
    BY <2>1, <2>5
<1>7. n \in 0 .. n
  OBVIOUS
<1>8. n \in G
  <2> HIDE DEF G
  <2> QED
    BY <1>5, <1>6, <1>7, UpTo
<1> QED
  BY <1>7, <1>8

LEMMA FoldTyped ==
  ASSUME NEW A, NEW S, NEW F \in [A \X S -> A], NEW base \in A, NEW t \in Seq(S), NEW f,
         IsFold(f, F, base, t, Len(t))
  PROVE  \A s \in SUBSET (1 .. Len(t)) : f[s] \in A
<1>1. PICK n \in Nat : n = Len(t)
  OBVIOUS
<1>2. \A s \in SUBSET (1 .. n) : f[s] = FoldAt(F, base, t, f, s)
  BY <1>1 DEF IsFold
<1>3. f[{}] \in A
  BY <1>2 DEF FoldAt
<1>4. ASSUME NEW s \in SUBSET (1 .. n), s # {}, f[s \ {Max(s)}] \in A PROVE f[s] \in A
  <2>1. Max(s) \in s
    BY <1>4, MaxUpTo
  <2>2. t[Max(s)] \in S
    <3>1. Max(s) \in 1 .. Len(t)
      BY <1>1, <2>1
    <3> QED
      BY <3>1
  <2>3. F[<<f[s \ {Max(s)}], t[Max(s)]>>] \in A
    BY <1>4, <2>2
  <2> QED
    BY <1>2, <1>4, <2>3 DEF FoldAt
<1> QED
  BY <1>1, <1>3, <1>4, FoldStaysIn

\* The values on the first k positions are what is gathered.
LEMMA FoldRuns ==
  ASSUME NEW F, NEW base, NEW S, NEW t \in Seq(S), NEW f, IsFold(f, F, base, t, Len(t))
  PROVE  \E a : IsRun(a, F, base, t) /\ a[Len(t)] = f[1 .. Len(t)]
               /\ \A k \in 0 .. Len(t) : a[k] = f[1 .. k]
<1>1. PICK n \in Nat : n = Len(t)
  OBVIOUS
<1> DEFINE a == [k \in 0 .. n |-> f[1 .. k]]
<1>2. \A s \in SUBSET (1 .. n) : f[s] = FoldAt(F, base, t, f, s)
  BY <1>1 DEF IsFold
<1>3. \A k \in 0 .. n : a[k] = f[1 .. k]
  OBVIOUS
<1> HIDE DEF a
<1>4. a[0] = base
  <2>1. 0 \in 0 .. n /\ 1 .. 0 = {} /\ {} \in SUBSET (1 .. n)
    OBVIOUS
  <2>2. f[{}] = base
    BY <1>2 DEF FoldAt
  <2> QED
    BY <1>3, <2>1, <2>2
<1>5. ASSUME NEW k \in 0 .. n - 1 PROVE a[k + 1] = F[<<a[k], t[k + 1]>>]
  <2>1. PICK m \in Nat : m = k + 1
    OBVIOUS
  <2>2. /\ m \in 1 .. n /\ m \in 0 .. n /\ k \in 0 .. n
        /\ 1 .. m \in SUBSET (1 .. n) /\ m \in 1 .. m /\ 1 .. m \in SUBSET Nat
        /\ \A x \in 1 .. m : x <= m
    BY <2>1
  <2>3. Max(1 .. m) = m
    BY <2>2, MaxIs
  <2>4. (1 .. m) \ {m} = 1 .. k
    BY <2>1
  <2>5. f[1 .. m] = FoldAt(F, base, t, f, 1 .. m) /\ 1 .. m # {}
    BY <1>2, <2>2
  <2>6. f[1 .. m] = F[<<f[1 .. k], t[m]>>]
    BY <2>3, <2>4, <2>5 DEF FoldAt
  <2> QED
    BY <1>3, <2>1, <2>2, <2>6
<1>6. n \in 0 .. n
  OBVIOUS
<1> QED
  BY <1>1, <1>3, <1>4, <1>5, <1>6 DEF IsRun

\* One element more is one step more.
LEMMA RunAppend ==
  ASSUME NEW F, NEW base, NEW S, NEW t \in Seq(S), NEW c \in S, NEW a, NEW b,
         IsRun(a, F, base, t), IsRun(b, F, base, Append(t, c))
  PROVE  b[Len(t) + 1] = F[<<a[Len(t)], c>>]
<1> DEFINE e == Append(t, c)
           n == Len(t)
<1>1. /\ n \in Nat /\ Len(e) = n + 1 /\ e[n + 1] = c /\ \A i \in 1 .. n : e[i] = t[i]
  BY AppendFacts
<1>2. /\ a[0] = base /\ b[0] = base
      /\ \A k \in 0 .. n - 1 : a[k + 1] = F[<<a[k], t[k + 1]>>]
  BY DEF IsRun
<1> HIDE DEF e
<1>3. \A k \in 0 .. n : b[k + 1] = F[<<b[k], e[k + 1]>>]
  <2>1. \A k \in 0 .. n : k \in 0 .. Len(e) - 1
    BY <1>1
  <2> QED
    BY <2>1 DEF IsRun, e
<1> HIDE DEF n
<1> DEFINE G == {k \in Nat : k \in 0 .. n => b[k] = a[k]}
<1>4. 0 \in G
  BY <1>2
<1>5. ASSUME NEW k \in 0 .. n - 1, k \in G PROVE k + 1 \in G
  <2>1. PICK m \in Nat : m = k + 1
    OBVIOUS
  <2>2. k \in 0 .. n /\ m \in 1 .. n
    BY <1>1, <2>1
  <2>3. b[m] = F[<<b[k], e[m]>>]
    BY <1>3, <2>1, <2>2
  <2>4. a[m] = F[<<a[k], t[m]>>] /\ e[m] = t[m] /\ b[k] = a[k]
    BY <1>1, <1>2, <1>5, <2>1, <2>2
  <2> QED
    BY <2>1, <2>3, <2>4
<1>6. n \in 0 .. n
  BY <1>1
<1>7. n \in G
  <2> HIDE DEF G
  <2> QED
    BY <1>1, <1>4, <1>5, <1>6, UpTo
<1> QED
  BY <1>1, <1>3, <1>6, <1>7 DEF n

Gathers(F, base, t, v) == \E a : IsRun(a, F, base, t) /\ v = a[Len(t)]

LEMMA FoldGathers ==
  ASSUME NEW F, NEW base, NEW S, NEW t \in Seq(S), NEW f, IsFold(f, F, base, t, Len(t))
  PROVE  Gathers(F, base, t, f[1 .. Len(t)])
<1>1. PICK a : IsRun(a, F, base, t) /\ a[Len(t)] = f[1 .. Len(t)]
                /\ \A k \in 0 .. Len(t) : a[k] = f[1 .. k]
  BY FoldRuns
<1> QED
  BY <1>1 DEF Gathers

LEMMA GathersNone ==
  ASSUME NEW F, NEW base, NEW v, Gathers(F, base, <<>>, v)
  PROVE  v = base
<1>1. PICK a : IsRun(a, F, base, <<>>) /\ v = a[Len(<<>>)]
  BY DEF Gathers
<1>2. Len(<<>>) = 0
  OBVIOUS
<1> QED
  BY <1>1, <1>2 DEF IsRun

LEMMA GathersOneMore ==
  ASSUME NEW F, NEW base, NEW S, NEW t \in Seq(S), NEW c \in S, NEW v, NEW w,
         Gathers(F, base, t, v), Gathers(F, base, Append(t, c), w)
  PROVE  w = F[<<v, c>>]
<1>1. PICK a : IsRun(a, F, base, t) /\ v = a[Len(t)]
  BY DEF Gathers
<1> DEFINE e == Append(t, c)
<1>2. Len(e) = Len(t) + 1
  BY AppendFacts
<1> HIDE DEF e
<1>3. PICK b : IsRun(b, F, base, e) /\ w = b[Len(e)]
  BY DEF Gathers, e
<1>4. b[Len(t) + 1] = F[<<a[Len(t)], c>>]
  BY <1>1, <1>3, RunAppend DEF e
<1> QED
  BY <1>1, <1>2, <1>3, <1>4

\* The bytes of a text.
BytesStep(A, S) == [p \in A \X S |-> p[1] + Bytes(p[2])]

LEMMA BytesRun ==
  ASSUME NEW S, \A c \in S : Bytes(c) \in Nat, NEW t \in Seq(S)
  PROVE  \E a : IsRun(a, BytesStep(Nat, S), 0, t) /\ BytesOf(t) = a[Len(t)] /\ a[Len(t)] \in Nat
<1> DEFINE F == BytesStep(Nat, S)
           n == Len(t)
           Sums(f) == f = [s \in SUBSET (1 .. n) |->
                             IF s = {} THEN 0 ELSE f[s \ {Max(s)}] + Bytes(t[Max(s)])]
<1>1. n \in Nat /\ DOMAIN t = 1 .. n /\ F \in [Nat \X S -> Nat] /\ 0 \in Nat
      /\ \A x \in Nat, c \in S : F[<<x, c>>] = x + Bytes(c)
  BY DEF BytesStep
<1>2. PICK f : IsFold(f, F, 0, t, n)
  BY <1>1, FoldExists
<1> HIDE DEF F
<1>3. \A s \in SUBSET (1 .. n) : s # {} => Max(s) \in 1 .. n /\ s \ {Max(s)} \in SUBSET (1 .. n)
  <2> SUFFICES ASSUME NEW s \in SUBSET (1 .. n), s # {}
               PROVE  Max(s) \in 1 .. n /\ s \ {Max(s)} \in SUBSET (1 .. n)
    OBVIOUS
  <2>1. Max(s) \in s
    BY <1>1, MaxUpTo
  <2> QED
    BY <2>1
<1>4. \A s \in SUBSET (1 .. n) : s # {} => t[Max(s)] \in S
  BY <1>1, <1>3
<1>5. \A s \in SUBSET (1 .. n) : f[s] \in Nat
  BY <1>1, <1>2, FoldTyped
<1>6. Sums(f)
  <2>1. \A s \in SUBSET (1 .. n) :
          FoldAt(F, 0, t, f, s) = IF s = {} THEN 0 ELSE f[s \ {Max(s)}] + Bytes(t[Max(s)])
    BY <1>1, <1>3, <1>4, <1>5 DEF FoldAt
  <2> QED
    BY <1>2, <2>1 DEF IsFold
<1> DEFINE g == CHOOSE h : Sums(h)
<1>7. Sums(g)
  <2> HIDE DEF Sums
  <2> QED
    BY <1>6
<1>8. BytesOf(t) = g[1 .. n]
  BY <1>1 DEF BytesOf, FoldLeft, MapThenFoldSet
<1> HIDE DEF g
<1>9. \A s \in SUBSET (1 .. n) : g[s] = IF s = {} THEN 0 ELSE g[s \ {Max(s)}] + Bytes(t[Max(s)])
  BY <1>7
<1>10. \A s \in SUBSET (1 .. n) : g[s] \in Nat
  <2>0. {} \in SUBSET (1 .. n)
    OBVIOUS
  <2> HIDE DEF Sums
  <2>1. g[{}] \in Nat
    <3>1. g[{}] = 0
      BY <1>9, <2>0
    <3> QED
      BY <3>1
  <2>2. ASSUME NEW s \in SUBSET (1 .. n), s # {}, g[s \ {Max(s)}] \in Nat PROVE g[s] \in Nat
    <3>1. t[Max(s)] \in S
      BY <1>4, <2>2
    <3>2. g[s] = g[s \ {Max(s)}] + Bytes(t[Max(s)])
      BY <1>9, <2>2
    <3> QED
      BY <2>2, <3>1, <3>2
  <2> QED
    BY <1>1, <2>1, <2>2, FoldStaysIn
<1>11. IsFold(g, F, 0, t, n)
  <2>1. \A s \in SUBSET (1 .. n) :
          FoldAt(F, 0, t, g, s) = IF s = {} THEN 0 ELSE g[s \ {Max(s)}] + Bytes(t[Max(s)])
    BY <1>1, <1>3, <1>4, <1>10 DEF FoldAt
  <2> QED
    BY <1>7, <2>1 DEF IsFold
<1>12. PICK a : IsRun(a, F, 0, t) /\ a[n] = g[1 .. n]
  BY <1>11, FoldRuns
<1>13. g[1 .. n] \in Nat
  BY <1>10
<1> QED
  BY <1>8, <1>12, <1>13 DEF F

LEMMA BytesOfTyped ==
  ASSUME NEW S, \A c \in S : Bytes(c) \in Nat, NEW t \in Seq(S)
  PROVE  BytesOf(t) \in Nat
<1>1. PICK a : BytesOf(t) = a[Len(t)] /\ a[Len(t)] \in Nat
  BY BytesRun
<1> QED
  BY <1>1

----------------------------------------------------------------------------
(***************************************************************************)
(* What the functions of a text that look at one character and the next do *)
(* when the text gets one character more.                                  *)
(***************************************************************************)
EndsInCR(t) == t # <<>> /\ t[Len(t)] = CR

\* One sequence more, the others being the same.
LEMMA FlattenLast ==
  ASSUME NEW S, NEW p \in Seq(Seq(S)), NEW q \in Seq(Seq(S)), NEW n \in Nat,
         Len(p) = n, Len(q) = n + 1, \A i \in 1 .. n : q[i] = p[i]
  PROVE  q[n + 1] \in Seq(S) /\ FlattenSeq(q) = FlattenSeq(p) \o q[n + 1]
<1> DEFINE SS == Seq(S)
<1>1. PICK m \in Nat : m = n + 1
  OBVIOUS
<1>2. q[m] \in SS
  BY <1>1
<1> DEFINE r == Append(p, q[m])
<1>3. r = q
  <2>1. p \in Seq(SS) /\ q \in Seq(SS)
    OBVIOUS
  <2> HIDE DEF SS
  <2>2. r \in Seq(SS) /\ Len(r) = m /\ r[m] = q[m] /\ \A i \in 1 .. n : r[i] = p[i]
    BY <1>1, <1>2, <2>1, AppendFacts
  <2>3. \A i \in 1 .. m : i \in 1 .. n \/ i = m
    BY <1>1
  <2> HIDE DEF r
  <2>4. \A i \in 1 .. m : r[i] = q[i]
    BY <2>2, <2>3
  <2> QED
    BY <1>1, <2>1, <2>2, <2>4, SeqEqual
<1>4. FlattenSeq(r) = FlattenSeq(p) \o q[m]
  <2> HIDE DEF r
  <2> QED
    BY <1>2, FlattenAppend DEF r
<1> HIDE DEF r
<1> QED
  BY <1>1, <1>2, <1>3, <1>4

\* One sequence more, where the last one has changed.
SameFront(S, p, q, n) ==
  \E front \in Seq(S) :
    /\ p[n] \in Seq(S) /\ q[n] \in Seq(S) /\ q[n + 1] \in Seq(S)
    /\ FlattenSeq(p) = front \o p[n]
    /\ FlattenSeq(q) = (front \o q[n]) \o q[n + 1]

LEMMA FlattenLastTwo ==
  ASSUME NEW S, NEW p \in Seq(Seq(S)), NEW q \in Seq(Seq(S)), NEW n \in Nat \ {0},
         Len(p) = n, Len(q) = n + 1, \A i \in 1 .. n - 1 : q[i] = p[i]
  PROVE  SameFront(S, p, q, n)
<1> DEFINE SS == Seq(S)
<1>1. PICK k \in Nat : k = n - 1 /\ n = k + 1
  OBVIOUS
<1>0. n \in 0 .. Len(q) /\ k \in 0 .. n /\ p \in Seq(SS) /\ q \in Seq(SS)
  BY <1>1
<1> DEFINE u == Take(p, k)
           v == Take(q, n)
<1>2. u \in Seq(SS) /\ Len(u) = k /\ \A i \in 1 .. k : u[i] = p[i]
  <2> HIDE DEF SS
  <2> QED
    BY <1>0, <1>1, TakeElements, SMTT(30)
<1>3. v \in Seq(SS) /\ Len(v) = n /\ \A i \in 1 .. n : v[i] = q[i]
  <2> HIDE DEF SS
  <2> QED
    BY <1>0, TakeElements
<1> HIDE DEF u, v
<1>4. \A i \in 1 .. k : i \in 1 .. n /\ u[i] = p[i] /\ v[i] = u[i]
  BY <1>1, <1>2, <1>3
<1>5. p[n] \in Seq(S) /\ FlattenSeq(p) = FlattenSeq(u) \o p[n]
  <2>1. u \in Seq(Seq(S)) /\ k \in Nat /\ Len(u) = k /\ Len(p) = k + 1 /\ \A i \in 1 .. k : p[i] = u[i]
    BY <1>1, <1>2
  <2>2. p[k + 1] \in Seq(S) /\ FlattenSeq(p) = FlattenSeq(u) \o p[k + 1]
    BY <2>1, FlattenLast
  <2> QED
    BY <1>1, <2>2
<1>6. v[n] \in Seq(S) /\ FlattenSeq(v) = FlattenSeq(u) \o v[n] /\ v[n] = q[n]
  <2>1. /\ u \in Seq(Seq(S)) /\ v \in Seq(Seq(S)) /\ k \in Nat /\ Len(u) = k /\ Len(v) = k + 1
        /\ \A i \in 1 .. k : v[i] = u[i]
    BY <1>1, <1>2, <1>3, <1>4
  <2>2. v[k + 1] \in Seq(S) /\ FlattenSeq(v) = FlattenSeq(u) \o v[k + 1]
    BY <2>1, FlattenLast, ZenonT(30)
  <2> QED
    BY <1>1, <1>3, <2>2, SMTT(30)
<1>7. q[n + 1] \in Seq(S) /\ FlattenSeq(q) = FlattenSeq(v) \o q[n + 1]
  <2>1. v \in Seq(Seq(S)) /\ n \in Nat /\ Len(v) = n /\ \A i \in 1 .. n : q[i] = v[i]
    BY <1>3
  <2> QED
    BY <2>1, FlattenLast, ZenonT(30)
<1>8. FlattenSeq(u) \in Seq(S)
  BY <1>2, FlattenTyped
<1> QED
  BY <1>5, <1>6, <1>7, <1>8 DEF SameFront

LEMMA EmptyCanonical == Canonical(<<>>) = <<>>
BY FlattenEmpty DEF Canonical

LEMMA CanonicalTyped ==
  ASSUME NEW S, {CR, LF, DOT} \subseteq S, NEW t \in Seq(S)
  PROVE  Canonical(t) \in Seq(S)
BY PiecesTyped, FlattenTyped, CanonicalIsCanons

LEMMA CanonsTyped ==
  ASSUME NEW S, {CR, LF, DOT} \subseteq S, NEW t \in Seq(S)
  PROVE  Canons(t) \in Seq(Seq(S)) /\ Len(Canons(t)) = Len(t)
BY PiecesTyped

\* A LF after a CR adds nothing to the canonical form, as the CR is CRLF already.
LEMMA CanonicalByte ==
  ASSUME NEW S, {CR, LF, DOT} \subseteq S, NEW t \in Seq(S), NEW c \in S
  PROVE  Canonical(Append(t, c)) =
           IF c = LF /\ EndsInCR(t) THEN Canonical(t)
           ELSE Canonical(t) \o (IF c \in {CR, LF} THEN CRLF ELSE <<c>>)
<1> DEFINE e == Append(t, c)
           n == Len(t)
           p == Canons(t)
           q == Canons(e)
<1>1. /\ e \in Seq(S) /\ n \in Nat /\ Len(e) = n + 1
      /\ e[n + 1] = c /\ \A i \in 1 .. n : e[i] = t[i]
  BY AppendFacts
<1> HIDE DEF e
<1>2. p \in Seq(Seq(S)) /\ Len(p) = n /\ q \in Seq(Seq(S)) /\ Len(q) = n + 1
  BY <1>1, CanonsTyped
<1>3. (\A i \in 1 .. n : p[i] = CanonAt(t, i)) /\ (\A i \in 1 .. n + 1 : q[i] = CanonAt(e, i))
  BY <1>1 DEF Canons
<1>4. Canonical(t) = FlattenSeq(p) /\ Canonical(e) = FlattenSeq(q)
  BY CanonicalIsCanons
<1> HIDE DEF p, q
<1>5. ASSUME NEW i \in 1 .. n, i # n PROVE q[i] = p[i]
  <2>1. PICK k \in Nat : k = i + 1
    OBVIOUS
  <2>2. k \in 1 .. n /\ i \in 1 .. n + 1 /\ i < n /\ i < n + 1
    BY <1>1, <1>5, <2>1
  <2>3. e[k] = t[k] /\ e[i] = t[i]
    BY <1>1, <2>2
  <2>4. q[i] = CanonAt(e, i) /\ p[i] = CanonAt(t, i)
    BY <1>3, <2>2
  <2>5. CanonAt(e, i) = CanonAt(t, i)
    BY <1>1, <2>1, <2>2, <2>3 DEF CanonAt
  <2> QED
    BY <2>4, <2>5
<1>6. n + 1 \in 1 .. n + 1 /\ ~(n + 1 < n + 1)
  BY <1>1
<1>7. q[n + 1] = IF c \in {CR, LF} THEN CRLF ELSE <<c>>
  <2>1. q[n + 1] = CanonAt(e, n + 1)
    BY <1>3, <1>6
  <2> QED
    BY <1>1, <1>6, <2>1 DEF CanonAt
<1>8. n # 0 => n \in 1 .. n /\ n \in 1 .. n + 1 /\ n < n + 1 /\ ~(n < n) /\ t \in Seq(S)
  BY <1>1
<1>9. EndsInCR(t) <=> n # 0 /\ t[n] = CR
  BY DEF EndsInCR
<1>10. CASE c = LF /\ EndsInCR(t)
  <2>1. n # 0 /\ t[n] = CR /\ e[n] = CR /\ n \in Nat \ {0}
    BY <1>1, <1>8, <1>9, <1>10
  <2>2. q[n] = <<>> /\ p[n] = CRLF
    <3>1. q[n] = CanonAt(e, n) /\ p[n] = CanonAt(t, n)
      BY <1>3, <1>8, <2>1
    <3>2. CanonAt(e, n) = <<>>
      BY <1>1, <1>8, <1>10, <2>1 DEF CanonAt, CR, LF
    <3>3. CanonAt(t, n) = CRLF
      BY <1>8, <2>1 DEF CanonAt, CR, LF
    <3> QED
      BY <3>1, <3>2, <3>3
  <2>3. \A i \in 1 .. n - 1 : q[i] = p[i]
    <3>1. \A i \in 1 .. n - 1 : i \in 1 .. n /\ i # n
      BY <1>1
    <3> QED
      BY <1>5, <3>1
  <2>4. PICK front \in Seq(S) :
          /\ FlattenSeq(p) = front \o p[n]
          /\ FlattenSeq(q) = (front \o q[n]) \o q[n + 1]
    <3> HIDE DEF n
    <3>1. SameFront(S, p, q, n)
      BY <1>2, <2>1, <2>3, FlattenLastTwo
    <3> QED
      BY <3>1 DEF SameFront
  <2>5. front \o <<>> = front
    BY ConcatEmptySeq
  <2>6. q[n + 1] = CRLF
    BY <1>7, <1>10
  <2> QED
    BY <1>4, <1>10, <2>2, <2>4, <2>5, <2>6 DEF e
<1>11. CASE ~(c = LF /\ EndsInCR(t))
  <2>1. \A i \in 1 .. n : q[i] = p[i]
    <3> SUFFICES ASSUME NEW i \in 1 .. n PROVE q[i] = p[i]
      OBVIOUS
    <3>1. CASE i # n
      BY <1>5, <3>1
    <3>2. CASE i = n
      <4>1. q[n] = CanonAt(e, n) /\ p[n] = CanonAt(t, n) /\ e[n] = t[n] /\ n # 0
        BY <1>1, <1>3, <1>8, <3>2
      <4>2. ~(t[n] = CR /\ c = LF)
        BY <1>9, <1>11, <4>1
      <4>3. CanonAt(e, n) = CanonAt(t, n)
        BY <1>1, <1>8, <4>1, <4>2 DEF CanonAt
      <4> QED
        BY <3>2, <4>1, <4>3
    <3> QED
      BY <3>1, <3>2
  <2>2. FlattenSeq(q) = FlattenSeq(p) \o q[n + 1]
    BY <1>1, <1>2, <2>1, FlattenLast
  <2> QED
    BY <1>4, <1>7, <1>11, <2>2 DEF e
<1> QED
  BY <1>10, <1>11

NormalAt(t, i) ==
  IF t[i] = LF THEN CRLF
  ELSE IF t[i] = CR /\ i < Len(t) /\ t[i + 1] = LF THEN <<>> ELSE <<t[i]>>
Normals(t) == [i \in 1 .. Len(t) |-> NormalAt(t, i)]

LEMMA NormalizedIsNormals == \A t : Normalized(t) = FlattenSeq(Normals(t))
BY DEF Normalized, Normals, NormalAt

LEMMA NormalsTyped ==
  ASSUME NEW S, {CR, LF, DOT} \subseteq S, NEW t \in Seq(S)
  PROVE  Normals(t) \in Seq(Seq(S)) /\ Len(Normals(t)) = Len(t)
<1>1. CRLF \in Seq(S) /\ <<>> \in Seq(S)
  BY DEF CRLF
<1>2. ASSUME NEW i \in 1 .. Len(t) PROVE NormalAt(t, i) \in Seq(S)
  <2>1. <<t[i]>> \in Seq(S)
    OBVIOUS
  <2> QED
    BY <1>1, <2>1 DEF NormalAt
<1>3. Len(t) \in Nat
  OBVIOUS
<1> DEFINE SS == Seq(S)
<1>4. \A i \in 1 .. Len(t) : NormalAt(t, i) \in SS
  BY <1>2
<1> HIDE DEF SS
<1>5. Normals(t) \in Seq(SS) /\ Len(Normals(t)) = Len(t)
  BY <1>3, <1>4 DEF Normals
<1> QED
  BY <1>5 DEF SS

LEMMA EmptyNormalized == Normalized(<<>>) = <<>>
BY FlattenEmpty DEF Normalized

LEMMA NormalizedIn ==
  ASSUME NEW S, {CR, LF, DOT} \subseteq S, NEW t \in Seq(S)
  PROVE  Normalized(t) \in Seq(S)
BY NormalsTyped, FlattenTyped, NormalizedIsNormals

LEMMA CrlfParts == CRLF = <<CR>> \o <<LF>>
<1>1. <<CR>> \in Seq(Int) /\ LF \in Int
  BY DEF CR, LF
<1>2. Append(<<CR>>, LF) = <<CR>> \o <<LF>>
  BY <1>1, AppendIsConcat
<1> DEFINE u == <<CR>> \o <<LF>>
<1>3. u \in Seq(Int) /\ Len(u) = 2 /\ u[1] = CR /\ u[2] = LF
  BY <1>1, <1>2
<1>4. SubSeq(u, 1, 2) = <<u[1], u[2]>> /\ SubSeq(u, 1, 2) = u
  <2> HIDE DEF u
  <2> QED
    BY <1>3, FirstTwo, SubSeqFull
<1> HIDE DEF u
<1> QED
  BY <1>3, <1>4 DEF CRLF, u

\* A LF gets a CR before it, if there is none.
LEMMA NormalizedByte ==
  ASSUME NEW S, {CR, LF, DOT} \subseteq S, NEW t \in Seq(S), NEW c \in S
  PROVE  Normalized(Append(t, c)) =
           IF c = LF /\ EndsInCR(t) THEN Normalized(t) \o <<LF>>
           ELSE Normalized(t) \o (IF c = LF THEN CRLF ELSE <<c>>)
<1> DEFINE e == Append(t, c)
           n == Len(t)
           p == Normals(t)
           q == Normals(e)
<1>1. /\ e \in Seq(S) /\ n \in Nat /\ Len(e) = n + 1
      /\ e[n + 1] = c /\ \A i \in 1 .. n : e[i] = t[i]
  BY AppendFacts
<1> HIDE DEF e
<1>2. p \in Seq(Seq(S)) /\ Len(p) = n /\ q \in Seq(Seq(S)) /\ Len(q) = n + 1
  BY <1>1, NormalsTyped
<1>3. (\A i \in 1 .. n : p[i] = NormalAt(t, i)) /\ (\A i \in 1 .. n + 1 : q[i] = NormalAt(e, i))
  BY <1>1 DEF Normals
<1>4. Normalized(t) = FlattenSeq(p) /\ Normalized(e) = FlattenSeq(q)
  BY NormalizedIsNormals
<1> HIDE DEF p, q
<1>5. ASSUME NEW i \in 1 .. n, i # n PROVE q[i] = p[i]
  <2>1. PICK k \in Nat : k = i + 1
    OBVIOUS
  <2>2. k \in 1 .. n /\ i \in 1 .. n + 1 /\ i < n /\ i < n + 1
    BY <1>1, <1>5, <2>1
  <2>3. e[k] = t[k] /\ e[i] = t[i]
    BY <1>1, <2>2
  <2>4. q[i] = NormalAt(e, i) /\ p[i] = NormalAt(t, i)
    BY <1>3, <2>2
  <2>5. NormalAt(e, i) = NormalAt(t, i)
    BY <1>1, <2>1, <2>2, <2>3 DEF NormalAt
  <2> QED
    BY <2>4, <2>5
<1>6. n + 1 \in 1 .. n + 1 /\ ~(n + 1 < n + 1)
  BY <1>1
<1>7. q[n + 1] = IF c = LF THEN CRLF ELSE <<c>>
  <2>1. q[n + 1] = NormalAt(e, n + 1)
    BY <1>3, <1>6
  <2> QED
    BY <1>1, <1>6, <2>1 DEF NormalAt
<1>8. n # 0 => n \in 1 .. n /\ n \in 1 .. n + 1 /\ n < n + 1 /\ ~(n < n) /\ t \in Seq(S)
  BY <1>1
<1>9. EndsInCR(t) <=> n # 0 /\ t[n] = CR
  BY DEF EndsInCR
<1>10. CASE c = LF /\ EndsInCR(t)
  <2>1. n # 0 /\ t[n] = CR /\ e[n] = CR /\ n \in Nat \ {0}
    BY <1>1, <1>8, <1>9, <1>10
  <2>2. q[n] = <<>> /\ p[n] = <<CR>>
    <3>1. q[n] = NormalAt(e, n) /\ p[n] = NormalAt(t, n)
      BY <1>3, <1>8, <2>1
    <3>2. NormalAt(e, n) = <<>>
      BY <1>1, <1>8, <1>10, <2>1 DEF NormalAt, CR, LF
    <3>3. NormalAt(t, n) = <<CR>>
      BY <1>8, <2>1 DEF NormalAt, CR, LF
    <3> QED
      BY <3>1, <3>2, <3>3
  <2>3. \A i \in 1 .. n - 1 : q[i] = p[i]
    <3>1. \A i \in 1 .. n - 1 : i \in 1 .. n /\ i # n
      BY <1>1
    <3> QED
      BY <1>5, <3>1
  <2>4. PICK front \in Seq(S) :
          /\ FlattenSeq(p) = front \o p[n]
          /\ FlattenSeq(q) = (front \o q[n]) \o q[n + 1]
    <3> HIDE DEF n
    <3>1. SameFront(S, p, q, n)
      BY <1>2, <2>1, <2>3, FlattenLastTwo
    <3> QED
      BY <3>1 DEF SameFront
  <2>5. front \o <<>> = front
    BY ConcatEmptySeq
  <2>6. q[n + 1] = CRLF
    BY <1>7, <1>10
  <2>7. front \o CRLF = (front \o <<CR>>) \o <<LF>>
    <3>1. <<CR>> \in Seq(S) /\ <<LF>> \in Seq(S)
      OBVIOUS
    <3>2. (front \o <<CR>>) \o <<LF>> = front \o (<<CR>> \o <<LF>>)
      BY <3>1, ConcatAssociative
    <3>3. CRLF = <<CR>> \o <<LF>>
      BY CrlfParts
    <3> QED
      BY <3>2, <3>3
  <2> QED
    BY <1>4, <1>10, <2>2, <2>4, <2>5, <2>6, <2>7 DEF e
<1>11. CASE ~(c = LF /\ EndsInCR(t))
  <2>1. \A i \in 1 .. n : q[i] = p[i]
    <3> SUFFICES ASSUME NEW i \in 1 .. n PROVE q[i] = p[i]
      OBVIOUS
    <3>1. CASE i # n
      BY <1>5, <3>1
    <3>2. CASE i = n
      <4>1. q[n] = NormalAt(e, n) /\ p[n] = NormalAt(t, n) /\ e[n] = t[n] /\ n # 0
        BY <1>1, <1>3, <1>8, <3>2
      <4>2. ~(t[n] = CR /\ c = LF)
        BY <1>9, <1>11, <4>1
      <4>3. NormalAt(e, n) = NormalAt(t, n)
        BY <1>1, <1>8, <4>1, <4>2 DEF NormalAt
      <4> QED
        BY <3>2, <4>1, <4>3
    <3> QED
      BY <3>1, <3>2
  <2>2. FlattenSeq(q) = FlattenSeq(p) \o q[n + 1]
    BY <1>1, <1>2, <2>1, FlattenLast
  <2> QED
    BY <1>4, <1>7, <1>11, <2>2 DEF e
<1> QED
  BY <1>10, <1>11

----------------------------------------------------------------------------
(***************************************************************************)
(* Induction over a sequence, and what comes of it for texts.              *)
(***************************************************************************)

LEMMA ByAppending ==
  ASSUME NEW S, NEW t \in Seq(S), NEW G, <<>> \in G,
         \A s \in Seq(S), c \in S : s \in G => Append(s, c) \in G
  PROVE  t \in G
<1> DEFINE H == {k \in Nat : k \in 0 .. Len(t) => Take(t, k) \in G}
<1>1. 0 \in H
  BY TakeEnds
<1>2. ASSUME NEW k \in 0 .. Len(t) - 1, k \in H PROVE k + 1 \in H
  <2>1. Take(t, k) \in Seq(S) /\ t[k + 1] \in S /\ Take(t, k + 1) = Append(Take(t, k), t[k + 1])
    BY TakeOneMore
  <2>2. Take(t, k) \in G
    BY <1>2
  <2>3. Take(t, k + 1) \in G
    BY <2>1, <2>2
  <2> QED
    BY <2>3
<1>3. Len(t) \in 0 .. Len(t) /\ Len(t) \in Nat
  OBVIOUS
<1>4. Len(t) \in H
  <2> HIDE DEF H
  <2> QED
    BY <1>1, <1>2, <1>3, UpTo
<1> QED
  BY <1>3, <1>4, TakeEnds

UnbrokenAt(t, i) == IF t[i] \in {CR, LF} THEN <<>> ELSE <<t[i]>>
Unbrokens(t) == [i \in 1 .. Len(t) |-> UnbrokenAt(t, i)]

LEMMA UnbrokensTyped ==
  ASSUME NEW S, NEW t \in Seq(S)
  PROVE  /\ Unbrokens(t) \in Seq(Seq(S \ {CR, LF})) /\ Len(Unbrokens(t)) = Len(t)
         /\ Unbroken(t) = FlattenSeq(Unbrokens(t)) /\ Unbroken(t) \in Seq(S \ {CR, LF})
<1> DEFINE SS == Seq(S \ {CR, LF})
<1>1. ASSUME NEW i \in 1 .. Len(t) PROVE UnbrokenAt(t, i) \in SS
  <2>1. t[i] \in S
    OBVIOUS
  <2> QED
    BY <2>1 DEF UnbrokenAt
<1>2. Len(t) \in Nat
  OBVIOUS
<1>3. Unbrokens(t) \in Seq(SS) /\ Len(Unbrokens(t)) = Len(t)
  <2> HIDE DEF SS
  <2> QED
    BY <1>1, <1>2 DEF Unbrokens
<1>4. Unbroken(t) = FlattenSeq(Unbrokens(t))
  BY DEF Unbroken, Unbrokens, UnbrokenAt
<1>5. FlattenSeq(Unbrokens(t)) \in Seq(S \ {CR, LF})
  BY <1>3, FlattenTyped
<1> QED
  BY <1>3, <1>4, <1>5

LEMMA EmptyUnbroken == Unbroken(<<>>) = <<>>
BY FlattenEmpty DEF Unbroken

LEMMA UnbrokenByte ==
  ASSUME NEW S, NEW t \in Seq(S), NEW c \in S
  PROVE  Unbroken(Append(t, c)) =
           IF c \in {CR, LF} THEN Unbroken(t) ELSE Append(Unbroken(t), c)
<1> DEFINE e == Append(t, c)
           n == Len(t)
           p == Unbrokens(t)
           q == Unbrokens(e)
           T == S \ {CR, LF}
<1>1. /\ e \in Seq(S) /\ n \in Nat /\ Len(e) = n + 1
      /\ e[n + 1] = c /\ \A i \in 1 .. n : e[i] = t[i]
  BY AppendFacts
<1> HIDE DEF e
<1>2. /\ p \in Seq(Seq(T)) /\ Len(p) = n /\ q \in Seq(Seq(T)) /\ Len(q) = n + 1
      /\ Unbroken(t) = FlattenSeq(p) /\ Unbroken(e) = FlattenSeq(q) /\ Unbroken(t) \in Seq(T)
  BY <1>1, UnbrokensTyped
<1>3. (\A i \in 1 .. n : p[i] = UnbrokenAt(t, i)) /\ (\A i \in 1 .. n + 1 : q[i] = UnbrokenAt(e, i))
  BY <1>1 DEF Unbrokens
<1> HIDE DEF p, q, n
<1>4. \A i \in 1 .. n : q[i] = p[i]
  <2> SUFFICES ASSUME NEW i \in 1 .. n PROVE q[i] = p[i]
    OBVIOUS
  <2>1. i \in 1 .. n + 1
    BY <1>1
  <2> QED
    BY <1>1, <1>3, <2>1 DEF UnbrokenAt
<1>5. q[n + 1] = IF c \in {CR, LF} THEN <<>> ELSE <<c>>
  <2>1. n + 1 \in 1 .. n + 1
    BY <1>1
  <2> QED
    BY <1>1, <1>3, <2>1 DEF UnbrokenAt
<1>6. FlattenSeq(q) = FlattenSeq(p) \o q[n + 1]
  BY <1>1, <1>2, <1>4, FlattenLast
<1>7. Unbroken(t) \o <<>> = Unbroken(t)
  BY <1>2, ConcatEmptySeq
<1>8. c \notin {CR, LF} => Append(Unbroken(t), c) = Unbroken(t) \o <<c>>
  BY <1>2, AppendIsConcat
<1> QED
  BY <1>2, <1>5, <1>6, <1>7, <1>8 DEF e

\* The line end CRLF as two characters.
LEMMA AppendCrlf ==
  ASSUME NEW S, {CR, LF} \subseteq S, NEW t \in Seq(S)
  PROVE  t \o CRLF = Append(Append(t, CR), LF) /\ t \o CRLF \in Seq(S) /\ CRLF \in Seq(S)
<1>1. <<CR>> \in Seq(S) /\ <<LF>> \in Seq(S) /\ CR \in S /\ LF \in S
  OBVIOUS
<1>2. t \o (<<CR>> \o <<LF>>) = (t \o <<CR>>) \o <<LF>>
  BY <1>1, ConcatAssociative
<1>3. Append(t, CR) = t \o <<CR>> /\ Append(t, CR) \in Seq(S)
  BY <1>1, AppendIsConcat
<1>4. Append(Append(t, CR), LF) = Append(t, CR) \o <<LF>> /\ Append(Append(t, CR), LF) \in Seq(S)
  BY <1>1, <1>3, AppendIsConcat
<1>5. CRLF \in Seq(S)
  BY <1>1 DEF CRLF
<1> QED
  BY <1>2, <1>3, <1>4, <1>5, CrlfParts

LEMMA UnbrokenConcat ==
  ASSUME NEW S, NEW a \in Seq(S), NEW b \in Seq(S)
  PROVE  Unbroken(a \o b) = Unbroken(a) \o Unbroken(b)
<1> DEFINE G == {s \in Seq(S) : Unbroken(a \o s) = Unbroken(a) \o Unbroken(s)}
           T == S \ {CR, LF}
<1>1. Unbroken(a) \in Seq(T)
  BY UnbrokensTyped
<1>2. <<>> \in G
  <2>1. a \o <<>> = a /\ Unbroken(a) \o <<>> = Unbroken(a) /\ <<>> \in Seq(S)
    BY <1>1, ConcatEmptySeq
  <2> QED
    BY <2>1, EmptyUnbroken
<1>3. ASSUME NEW s \in Seq(S), NEW c \in S, s \in G PROVE Append(s, c) \in G
  <2>1. a \o Append(s, c) = Append(a \o s, c) /\ a \o s \in Seq(S) /\ Append(s, c) \in Seq(S)
    BY AppendToConcat
  <2>2. Unbroken(s) \in Seq(T)
    BY UnbrokensTyped
  <2>3. c \in T => Unbroken(a) \o Append(Unbroken(s), c) = Append(Unbroken(a) \o Unbroken(s), c)
    BY <1>1, <2>2, AppendToConcat
  <2>4. Unbroken(Append(s, c)) = IF c \in {CR, LF} THEN Unbroken(s) ELSE Append(Unbroken(s), c)
    BY UnbrokenByte
  <2>5. Unbroken(Append(a \o s, c)) =
          IF c \in {CR, LF} THEN Unbroken(a \o s) ELSE Append(Unbroken(a \o s), c)
    BY <2>1, UnbrokenByte
  <2>6. Unbroken(a \o s) = Unbroken(a) \o Unbroken(s)
    BY <1>3
  <2>7. Unbroken(a \o Append(s, c)) = Unbroken(a) \o Unbroken(Append(s, c))
    <3>1. CASE c \in {CR, LF}
      BY <2>1, <2>4, <2>5, <2>6, <3>1
    <3>2. CASE c \notin {CR, LF}
      BY <2>1, <2>3, <2>4, <2>5, <2>6, <3>2
    <3> QED
      BY <3>1, <3>2
  <2> QED
    BY <2>1, <2>7
<1>4. b \in G
  <2> HIDE DEF G
  <2> QED
    BY <1>2, <1>3, ByAppending
<1> QED
  BY <1>4

LEMMA UnbrokenCrlf == Unbroken(CRLF) = <<>>
<1> DEFINE S == {CR, LF}
<1>1. <<>> \in Seq(S) /\ CR \in S /\ LF \in S /\ Append(<<>>, CR) \in Seq(S)
  OBVIOUS
<1>2. Unbroken(Append(<<>>, CR)) = <<>>
  <2> HIDE DEF S
  <2>1. Unbroken(Append(<<>>, CR)) = Unbroken(<<>>)
    BY <1>1, UnbrokenByte
  <2> QED
    BY <2>1, EmptyUnbroken
<1>3. Unbroken(Append(Append(<<>>, CR), LF)) = <<>>
  <2> HIDE DEF S
  <2>1. Unbroken(Append(Append(<<>>, CR), LF)) = Unbroken(Append(<<>>, CR))
    BY <1>1, UnbrokenByte
  <2> QED
    BY <1>2, <2>1
<1>4. <<>> \o CRLF = Append(Append(<<>>, CR), LF) /\ CRLF \in Seq(S)
  BY <1>1, AppendCrlf
<1>5. <<>> \o CRLF = CRLF
  BY <1>4, ConcatEmptySeq
<1> QED
  BY <1>3, <1>4, <1>5

\* The canonical form has the same characters.
LEMMA UnbrokenCanonical ==
  ASSUME NEW S, {CR, LF, DOT} \subseteq S, NEW t \in Seq(S)
  PROVE  Unbroken(Canonical(t)) = Unbroken(t)
<1> DEFINE G == {s \in Seq(S) : Unbroken(Canonical(s)) = Unbroken(s)}
<1>1. <<>> \in G
  BY EmptyCanonical, EmptyUnbroken
<1>2. ASSUME NEW s \in Seq(S), NEW c \in S, s \in G PROVE Append(s, c) \in G
  <2>1. Canonical(s) \in Seq(S) /\ Append(s, c) \in Seq(S) /\ Unbroken(Canonical(s)) = Unbroken(s)
    BY <1>2, CanonicalTyped
  <2>2. Unbroken(Append(s, c)) = IF c \in {CR, LF} THEN Unbroken(s) ELSE Append(Unbroken(s), c)
    BY UnbrokenByte
  <2>3. Canonical(Append(s, c)) =
          IF c = LF /\ EndsInCR(s) THEN Canonical(s)
          ELSE Canonical(s) \o (IF c \in {CR, LF} THEN CRLF ELSE <<c>>)
    BY CanonicalByte
  <2>4. Unbroken(Canonical(s) \o CRLF) = Unbroken(s)
    <3>1. CRLF \in Seq(S)
      BY AppendCrlf
    <3>2. Unbroken(Canonical(s) \o CRLF) = Unbroken(Canonical(s)) \o Unbroken(CRLF)
      BY <2>1, <3>1, UnbrokenConcat
    <3>3. Unbroken(s) \o <<>> = Unbroken(s)
      BY UnbrokensTyped, ConcatEmptySeq
    <3> QED
      BY <2>1, <3>2, <3>3, UnbrokenCrlf
  <2>5. Canonical(s) \o <<c>> = Append(Canonical(s), c)
    BY <2>1, AppendIsConcat
  <2>6. Unbroken(Append(Canonical(s), c)) =
          IF c \in {CR, LF} THEN Unbroken(Canonical(s)) ELSE Append(Unbroken(Canonical(s)), c)
    BY <2>1, UnbrokenByte
  <2>7. Unbroken(Canonical(Append(s, c))) = Unbroken(Append(s, c))
    BY <2>1, <2>2, <2>3, <2>4, <2>5, <2>6
  <2> QED
    BY <2>1, <2>7
<1>3. t \in G
  <2> HIDE DEF G
  <2> QED
    BY <1>1, <1>2, ByAppending
<1> QED
  BY <1>3

LEMMA LastAppended ==
  ASSUME NEW S, NEW t \in Seq(S), NEW c \in S
  PROVE  EndsInCR(Append(t, c)) <=> c = CR
BY AppendFacts DEF EndsInCR

LEMMA NothingEndsInCR == ~EndsInCR(<<>>)
BY DEF EndsInCR

\* The characters of CRLF, at the end of a text in canonical form and not.
LEMMA CanonicalCrlf ==
  ASSUME NEW S, {CR, LF, DOT} \subseteq S, NEW t \in Seq(S)
  PROVE  Canonical(t \o CRLF) = Canonical(t) \o CRLF
<1>1. t \o CRLF = Append(Append(t, CR), LF)
  BY AppendCrlf
<1>2. Append(t, CR) \in Seq(S) /\ CR \in S /\ LF \in S /\ CR # LF
  BY AppendFacts DEF CR, LF
<1>3. Canonical(Append(t, CR)) = Canonical(t) \o CRLF
  BY <1>2, CanonicalByte
<1>4. EndsInCR(Append(t, CR))
  BY <1>2, LastAppended
<1>5. Canonical(Append(Append(t, CR), LF)) = Canonical(Append(t, CR))
  BY <1>2, <1>4, CanonicalByte
<1> QED
  BY <1>1, <1>3, <1>5

LEMMA CanonicalTwice ==
  ASSUME NEW S, {CR, LF, DOT} \subseteq S, NEW t \in Seq(S)
  PROVE  Canonical(Canonical(t)) = Canonical(t)
<1> DEFINE G == {s \in Seq(S) : Canonical(Canonical(s)) = Canonical(s)}
<1>1. <<>> \in G
  BY EmptyCanonical
<1>2. ASSUME NEW s \in Seq(S), NEW c \in S, s \in G PROVE Append(s, c) \in G
  <2>1. Canonical(s) \in Seq(S) /\ Append(s, c) \in Seq(S) /\ Canonical(Canonical(s)) = Canonical(s)
    BY <1>2, CanonicalTyped
  <2>2. Canonical(Append(s, c)) =
          IF c = LF /\ EndsInCR(s) THEN Canonical(s)
          ELSE Canonical(s) \o (IF c \in {CR, LF} THEN CRLF ELSE <<c>>)
    BY CanonicalByte
  <2>3. Canonical(Canonical(s) \o CRLF) = Canonical(s) \o CRLF
    BY <2>1, CanonicalCrlf
  <2>4. ASSUME c \notin {CR, LF} PROVE Canonical(Canonical(s) \o <<c>>) = Canonical(s) \o <<c>>
    <3>1. Canonical(s) \o <<c>> = Append(Canonical(s), c)
      BY <2>1, AppendIsConcat
    <3>2. Canonical(Append(Canonical(s), c)) = Canonical(Canonical(s)) \o <<c>>
      <4>1. Canonical(Append(Canonical(s), c)) =
              IF c = LF /\ EndsInCR(Canonical(s)) THEN Canonical(Canonical(s))
              ELSE Canonical(Canonical(s)) \o (IF c \in {CR, LF} THEN CRLF ELSE <<c>>)
        BY <2>1, CanonicalByte
      <4> QED
        BY <2>4, <4>1
    <3> QED
      BY <2>1, <3>1, <3>2
  <2>5. Canonical(Canonical(Append(s, c))) = Canonical(Append(s, c))
    BY <2>1, <2>2, <2>3, <2>4
  <2> QED
    BY <2>1, <2>5
<1>3. t \in G
  <2> HIDE DEF G
  <2> QED
    BY <1>1, <1>2, ByAppending
<1> QED
  BY <1>3

\* Two texts, if no CRLF is between them.
LEMMA CanonicalConcat ==
  ASSUME NEW S, {CR, LF, DOT} \subseteq S, NEW a \in Seq(S), ~EndsInCR(a), NEW b \in Seq(S)
  PROVE  Canonical(a \o b) = Canonical(a) \o Canonical(b)
<1> DEFINE G == {s \in Seq(S) : /\ Canonical(a \o s) = Canonical(a) \o Canonical(s)
                                /\ EndsInCR(a \o s) <=> EndsInCR(s)}
<1>0. Canonical(a) \in Seq(S)
  BY CanonicalTyped
<1>1. <<>> \in G
  <2>1. a \o <<>> = a /\ Canonical(a) \o <<>> = Canonical(a) /\ <<>> \in Seq(S)
    BY <1>0, ConcatEmptySeq
  <2> QED
    BY <2>1, EmptyCanonical, NothingEndsInCR
<1>2. ASSUME NEW s \in Seq(S), NEW c \in S, s \in G PROVE Append(s, c) \in G
  <2>1. a \o Append(s, c) = Append(a \o s, c) /\ a \o s \in Seq(S) /\ Append(s, c) \in Seq(S)
    BY AppendToConcat
  <2>2. /\ Canonical(a \o s) = Canonical(a) \o Canonical(s) /\ (EndsInCR(a \o s) <=> EndsInCR(s))
        /\ Canonical(s) \in Seq(S)
    BY <1>2, CanonicalTyped
  <2> DEFINE x == IF c \in {CR, LF} THEN CRLF ELSE <<c>>
  <2>3. x \in Seq(S)
    BY AppendCrlf
  <2>4. Canonical(Append(s, c)) = IF c = LF /\ EndsInCR(s) THEN Canonical(s) ELSE Canonical(s) \o x
    BY CanonicalByte
  <2>5. Canonical(Append(a \o s, c)) =
          IF c = LF /\ EndsInCR(a \o s) THEN Canonical(a \o s) ELSE Canonical(a \o s) \o x
    BY <2>1, CanonicalByte
  <2> HIDE DEF x
  <2>6. (Canonical(a) \o Canonical(s)) \o x = Canonical(a) \o (Canonical(s) \o x)
    BY <1>0, <2>2, <2>3, ConcatAssociative, SMTT(30)
  <2>7. Canonical(a \o Append(s, c)) = Canonical(a) \o Canonical(Append(s, c))
    BY <2>1, <2>2, <2>4, <2>5, <2>6
  <2>8. EndsInCR(a \o Append(s, c)) <=> EndsInCR(Append(s, c))
    <3> DEFINE u == a \o s
    <3>1. u \in Seq(S) /\ a \o Append(s, c) = Append(u, c)
      BY <2>1
    <3> HIDE DEF u
    <3>2. EndsInCR(Append(u, c)) <=> c = CR
      BY <3>1, LastAppended
    <3>3. EndsInCR(Append(s, c)) <=> c = CR
      BY LastAppended
    <3> QED
      BY <3>1, <3>2, <3>3
  <2> QED
    BY <2>1, <2>7, <2>8
<1>3. b \in G
  <2> HIDE DEF G
  <2> QED
    BY <1>1, <1>2, ByAppending
<1> QED
  BY <1>3

\* To normalize a text changes none of its lines.
LEMMA CanonicalNormalized ==
  ASSUME NEW S, {CR, LF, DOT} \subseteq S, NEW t \in Seq(S)
  PROVE  Canonical(Normalized(t)) = Canonical(t)
<1> DEFINE G == {s \in Seq(S) : /\ Canonical(Normalized(s)) = Canonical(s)
                                /\ EndsInCR(Normalized(s)) <=> EndsInCR(s)}
<1>1. <<>> \in G
  BY EmptyNormalized
<1>2. ASSUME NEW s \in Seq(S), NEW c \in S, s \in G PROVE Append(s, c) \in G
  <2> DEFINE n == Normalized(s)
  <2>1. /\ n \in Seq(S) /\ Append(s, c) \in Seq(S) /\ Canonical(n) = Canonical(s)
        /\ (EndsInCR(n) <=> EndsInCR(s)) /\ CR # LF
    BY <1>2, NormalizedIn DEF CR, LF
  <2>2. Normalized(Append(s, c)) =
          IF c = LF /\ EndsInCR(s) THEN n \o <<LF>> ELSE n \o (IF c = LF THEN CRLF ELSE <<c>>)
    BY NormalizedByte
  <2>3. Canonical(Append(s, c)) =
          IF c = LF /\ EndsInCR(s) THEN Canonical(s)
          ELSE Canonical(s) \o (IF c \in {CR, LF} THEN CRLF ELSE <<c>>)
    BY CanonicalByte
  <2> HIDE DEF n
  <2>4. n \o <<c>> = Append(n, c)
    BY <2>1, AppendIsConcat
  <2>5. Canonical(Append(n, c)) =
          IF c = LF /\ EndsInCR(n) THEN Canonical(n)
          ELSE Canonical(n) \o (IF c \in {CR, LF} THEN CRLF ELSE <<c>>)
    BY <2>1, CanonicalByte
  <2>6. EndsInCR(Append(n, c)) <=> c = CR
    BY <2>1, LastAppended
  <2>7. EndsInCR(Append(s, c)) <=> c = CR
    BY LastAppended
  <2>8. CASE c = LF /\ ~EndsInCR(s)
    <3>1. Normalized(Append(s, c)) = n \o CRLF
      BY <2>2, <2>8
    <3>2. Canonical(n \o CRLF) = Canonical(n) \o CRLF
      BY <2>1, CanonicalCrlf
    <3>3. ~EndsInCR(n \o CRLF)
      <4>1. n \o CRLF = Append(Append(n, CR), LF) /\ Append(n, CR) \in Seq(S) /\ LF \in S
        BY <2>1, AppendCrlf, AppendFacts
      <4> DEFINE u == Append(n, CR)
      <4>2. u \in Seq(S) /\ n \o CRLF = Append(u, LF)
        BY <4>1
      <4> HIDE DEF u
      <4>3. EndsInCR(Append(u, LF)) <=> LF = CR
        BY <4>1, <4>2, LastAppended
      <4> QED
        BY <2>1, <4>2, <4>3
    <3> QED
      BY <2>1, <2>3, <2>7, <2>8, <3>1, <3>2, <3>3
  <2>9. CASE ~(c = LF /\ ~EndsInCR(s))
    <3>1. Normalized(Append(s, c)) = Append(n, c)
      BY <2>2, <2>4, <2>9
    <3> QED
      BY <2>1, <2>3, <2>5, <2>6, <2>7, <3>1
  <2> QED
    BY <2>8, <2>9
<1>3. t \in G
  <2> HIDE DEF G
  <2> QED
    BY <1>1, <1>2, ByAppending
<1> QED
  BY <1>3

----------------------------------------------------------------------------
(***************************************************************************)
(* The longest line of a text.                                             *)
(***************************************************************************)
LongestStep(acc, c) ==
  IF c = LF THEN [acc EXCEPT !.current = 0]
  ELSE IF c = CR THEN acc
  ELSE [current |-> acc.current + 1, longest |-> Max({acc.longest, acc.current + 1})]
LongestFold(t, base) == FoldLeft(LongestStep, base, t)

LEMMA LongestFoldRun ==
  ASSUME NEW A, NEW S, NEW base \in A, \A x \in A, c \in S : LongestStep(x, c) \in A, NEW t \in Seq(S)
  PROVE  /\ LongestFold(t, base) \in A
         /\ Gathers([p \in A \X S |-> LongestStep(p[1], p[2])], base, t, LongestFold(t, base))
<1> DEFINE F == [p \in A \X S |-> LongestStep(p[1], p[2])]
           n == Len(t)
           Is(f) == f = [s \in SUBSET (1 .. n) |->
                           IF s = {} THEN base ELSE LongestStep(f[s \ {Max(s)}], t[Max(s)])]
           g == CHOOSE h : Is(h)
<1>2. /\ n \in Nat /\ DOMAIN t = 1 .. n /\ F \in [A \X S -> A]
      /\ \A x \in A, c \in S : F[<<x, c>>] = LongestStep(x, c)
  OBVIOUS
<1> HIDE DEF F
<1>1. LongestFold(t, base) = g[1 .. n]
  BY <1>2 DEF LongestFold, FoldLeft, MapThenFoldSet
<1> HIDE DEF g
<1>3. \A s \in SUBSET (1 .. n) : s # {} => t[Max(s)] \in S /\ s \ {Max(s)} \in SUBSET (1 .. n)
  <2> SUFFICES ASSUME NEW s \in SUBSET (1 .. n), s # {}
               PROVE  t[Max(s)] \in S /\ s \ {Max(s)} \in SUBSET (1 .. n)
    OBVIOUS
  <2>1. Max(s) \in s
    BY <1>2, MaxUpTo
  <2>2. Max(s) \in 1 .. n
    BY <2>1
  <2>3. t[Max(s)] \in S
    <3> HIDE DEF Is
    <3> QED
      BY <2>2, <1>2
  <2> QED
    BY <2>3
<1>4. ASSUME NEW f, \A s \in SUBSET (1 .. n) : f[s] \in A PROVE Is(f) <=> IsFold(f, F, base, t, n)
  <2>1. \A s \in SUBSET (1 .. n) :
          FoldAt(F, base, t, f, s) = IF s = {} THEN base ELSE LongestStep(f[s \ {Max(s)}], t[Max(s)])
    BY <1>2, <1>3, <1>4 DEF FoldAt
  <2> QED
    BY <2>1 DEF IsFold
<1>5. Is(g)
  <2>1. PICK f : IsFold(f, F, base, t, n)
    BY <1>2, FoldExists
  <2>2. \A s \in SUBSET (1 .. n) : f[s] \in A
    BY <1>2, <2>1, FoldTyped
  <2>3. Is(f)
    BY <1>4, <2>1, <2>2
  <2> HIDE DEF Is
  <2> QED
    BY <2>3 DEF g
<1>6. \A s \in SUBSET (1 .. n) : g[s] \in A
  <2>1. \A s \in SUBSET (1 .. n) :
          g[s] = IF s = {} THEN base ELSE LongestStep(g[s \ {Max(s)}], t[Max(s)])
    BY <1>5
  <2>2. {} \in SUBSET (1 .. n)
    OBVIOUS
  <2> HIDE DEF Is
  <2>3. g[{}] = base
    BY <2>1, <2>2
  <2>4. ASSUME NEW s \in SUBSET (1 .. n), s # {}, g[s \ {Max(s)}] \in A PROVE g[s] \in A
    <3>1. t[Max(s)] \in S /\ g[s] = LongestStep(g[s \ {Max(s)}], t[Max(s)])
      BY <1>3, <2>1, <2>4
    <3> QED
      BY <2>4, <3>1
  <2> QED
    BY <1>2, <2>3, <2>4, FoldStaysIn
<1>7. IsFold(g, F, base, t, n) /\ 1 .. n \in SUBSET (1 .. n)
  BY <1>4, <1>5, <1>6
<1> HIDE DEF Is
<1>8. Gathers(F, base, t, g[1 .. n])
  BY <1>7, FoldGathers
<1> QED
  BY <1>1, <1>6, <1>7, <1>8 DEF F

LEMMA LongestFoldStep ==
  ASSUME NEW A, NEW S, NEW base \in A, \A x \in A, c \in S : LongestStep(x, c) \in A
  PROVE  /\ LongestFold(<<>>, base) = base
         /\ \A t \in Seq(S) : LongestFold(t, base) \in A
         /\ \A t \in Seq(S), c \in S :
              LongestFold(Append(t, c), base) = LongestStep(LongestFold(t, base), c)
<1> DEFINE F == [p \in A \X S |-> LongestStep(p[1], p[2])]
<1>0. \A t \in Seq(S) : LongestFold(t, base) \in A /\ Gathers(F, base, t, LongestFold(t, base))
  BY LongestFoldRun
<1>1. \A x \in A, c \in S : F[<<x, c>>] = LongestStep(x, c)
  OBVIOUS
<1> HIDE DEF F
<1>2. LongestFold(<<>>, base) = base
  <2>1. <<>> \in Seq(S)
    OBVIOUS
  <2> QED
    BY <1>0, <2>1, GathersNone
<1>3. ASSUME NEW t \in Seq(S), NEW c \in S
      PROVE  LongestFold(Append(t, c), base) = LongestStep(LongestFold(t, base), c)
  <2>1. Append(t, c) \in Seq(S)
    BY AppendFacts
  <2>2. LongestFold(Append(t, c), base) = F[<<LongestFold(t, base), c>>]
    <3>1. Gathers(F, base, t, LongestFold(t, base))
      BY <1>0
    <3>2. Gathers(F, base, Append(t, c), LongestFold(Append(t, c), base))
      BY <1>0, <2>1
    <3> QED
      BY <3>1, <3>2, GathersOneMore
  <2> QED
    BY <1>0, <1>1, <2>2
<1> QED
  BY <1>0, <1>2, <1>3

LEMMA Product ==
  ASSUME NEW b \in Nat \ {0}, NEW d \in Int
  PROVE  /\ b * d \in Int /\ (d >= 1 => b * d >= b) /\ (d <= -1 => b * d <= -b) /\ (d = 0 => b * d = 0)
OBVIOUS

LEMMA Division ==
  ASSUME NEW b \in Nat \ {0}, NEW k \in Nat
  PROVE  /\ k % b \in 0 .. b - 1 /\ k \div b \in Int
         /\ k = (b * (k \div b)) + (k % b)
OBVIOUS

\* The remainder grows by one, up to the divisor.
LEMMA ModStep ==
  ASSUME NEW b \in Nat \ {0}, NEW k \in Nat
  PROVE  /\ k % b \in 0 .. b - 1
         /\ (k + 1) % b = 0 => k % b = b - 1
         /\ (k + 1) % b # 0 => (k + 1) % b = (k % b) + 1
<1>1. PICK m \in Nat : m = k + 1
  OBVIOUS
<1>2. PICK p \in Int, q \in Int : p = m \div b /\ q = k \div b
  BY <1>1, Division
<1>3. PICK d \in Int : d = p - q
  OBVIOUS
<1>4. b * d = (b * p) - (b * q)
  BY <1>3
<1>5. PICK r \in 0 .. b - 1, s \in 0 .. b - 1 : r = m % b /\ s = k % b
  BY Division
<1>6. m = (b * p) + r /\ k = (b * q) + s
  BY <1>2, <1>5, Division
<1>7. PICK x \in Int, y \in Int, z \in Int : x = b * p /\ y = b * q /\ z = b * d
  BY Product
<1>8. z = x - y /\ m = x + r /\ k = y + s
  BY <1>4, <1>6, <1>7
<1>9. (d >= 1 => z >= b) /\ (d <= -1 => z <= -b) /\ (d = 0 => z = 0)
  BY <1>7, Product
<1>10. (r = 0 => s = b - 1) /\ (r # 0 => r = s + 1)
  BY <1>1, <1>5, <1>8, <1>9
<1> QED
  BY <1>1, <1>5, <1>10

----------------------------------------------------------------------------
(***************************************************************************)
(* How long the lines of a text are.                                       *)
(***************************************************************************)

\* No line is longer than n, wherever a CR or a LF ends one; the last one is not
\* longer than m.
Inside(t, i, j) == \A k \in i .. j : ~IsEnd(t[k])
ShortRuns(t, n) == \A i, j \in 1 .. Len(t) : Inside(t, i, j) => j - i < n
ShortTail(t, m) == \A i \in 1 .. Len(t) : Inside(t, i, Len(t)) => Len(t) - i < m

LEMMA EmptyIsShort == \A n : ShortRuns(<<>>, n) /\ ShortTail(<<>>, n)
BY DEF ShortRuns, ShortTail

LEMMA EndIsShort ==
  ASSUME NEW S, NEW t \in Seq(S), NEW c \in S, IsEnd(c), NEW n \in Nat, ShortRuns(t, n), NEW m \in Nat
  PROVE  ShortRuns(Append(t, c), n) /\ ShortTail(Append(t, c), m)
<1> DEFINE e == Append(t, c)
           l == Len(t)
<1>1. /\ l \in Nat /\ Len(e) = l + 1 /\ e[l + 1] = c /\ \A i \in 1 .. l : e[i] = t[i]
  BY AppendFacts
<1> HIDE DEF e
<1>2. \A i, j \in 1 .. l : Inside(t, i, j) => j - i < n
  BY DEF ShortRuns
<1> HIDE DEF l
<1>3. ASSUME NEW i \in 1 .. l + 1 PROVE ~Inside(e, i, l + 1)
  <2>1. l + 1 \in i .. l + 1
    BY <1>1
  <2> QED
    BY <1>1, <2>1 DEF Inside
<1>4. ASSUME NEW i \in 1 .. l + 1, NEW j \in 1 .. l + 1, Inside(e, i, j) PROVE j - i < n
  <2>1. j # l + 1
    BY <1>3, <1>4
  <2>2. j \in 1 .. l
    BY <1>1, <2>1
  <2>3. CASE i > j
    BY <2>2, <2>3
  <2>4. CASE i <= j
    <3>1. i \in 1 .. l /\ \A k \in i .. j : k \in 1 .. l
      BY <1>1, <2>2, <2>4
    <3>2. Inside(t, i, j)
      BY <1>1, <1>4, <3>1 DEF Inside
    <3> QED
      BY <1>2, <2>2, <3>1, <3>2
  <2> QED
    BY <1>1, <2>2, <2>3, <2>4
<1>5. ShortRuns(e, n)
  BY <1>1, <1>4 DEF ShortRuns
<1>6. ShortTail(e, m)
  BY <1>1, <1>3 DEF ShortTail
<1> QED
  BY <1>5, <1>6 DEF e

LEMMA InkIsShort ==
  ASSUME NEW S, NEW t \in Seq(S), NEW c \in S, ~IsEnd(c), NEW n \in Nat, ShortRuns(t, n),
         NEW m \in Nat, ShortTail(t, m), NEW p \in Nat, n <= p, m + 1 <= p
  PROVE  ShortRuns(Append(t, c), p) /\ ShortTail(Append(t, c), m + 1)
<1> DEFINE e == Append(t, c)
           l == Len(t)
<1>1. /\ l \in Nat /\ Len(e) = l + 1 /\ e[l + 1] = c /\ \A i \in 1 .. l : e[i] = t[i]
  BY AppendFacts
<1> HIDE DEF e
<1>2. /\ \A i, j \in 1 .. l : Inside(t, i, j) => j - i < n
      /\ \A i \in 1 .. l : Inside(t, i, l) => l - i < m
  BY DEF ShortRuns, ShortTail
<1> HIDE DEF l
<1>3. ASSUME NEW i \in 1 .. l + 1, Inside(e, i, l + 1) PROVE l + 1 - i < m + 1
  <2>1. CASE i = l + 1
    BY <1>1, <2>1
  <2>2. CASE i # l + 1
    <3>1. i \in 1 .. l /\ \A k \in i .. l : k \in 1 .. l /\ k \in i .. l + 1
      BY <1>1, <2>2
    <3>2. Inside(t, i, l)
      BY <1>1, <1>3, <3>1 DEF Inside
    <3>3. l - i < m
      BY <1>2, <3>1, <3>2
    <3> QED
      BY <1>1, <3>1, <3>3
  <2> QED
    BY <2>1, <2>2
<1>4. ASSUME NEW i \in 1 .. l + 1, NEW j \in 1 .. l + 1, Inside(e, i, j) PROVE j - i < p
  <2>1. CASE j = l + 1
    BY <1>1, <1>3, <1>4, <2>1
  <2>2. CASE j # l + 1 /\ i > j
    BY <1>1, <2>2
  <2>3. CASE j # l + 1 /\ i <= j
    <3>1. i \in 1 .. l /\ j \in 1 .. l /\ \A k \in i .. j : k \in 1 .. l
      BY <1>1, <2>3
    <3>2. Inside(t, i, j)
      BY <1>1, <1>4, <3>1 DEF Inside
    <3>3. j - i < n
      BY <1>2, <3>1, <3>2
    <3> QED
      BY <3>1, <3>3
  <2> QED
    BY <1>1, <2>1, <2>2, <2>3
<1>5. ShortRuns(e, p)
  BY <1>1, <1>4 DEF ShortRuns
<1>6. ShortTail(e, m + 1)
  BY <1>1, <1>3 DEF ShortTail
<1> QED
  BY <1>5, <1>6 DEF e

LEMMA ShortCrlf ==
  ASSUME NEW S, {CR, LF} \subseteq S, NEW t \in Seq(S), NEW n \in Nat, ShortRuns(t, n), NEW m \in Nat
  PROVE  ShortRuns(t \o CRLF, n) /\ ShortTail(t \o CRLF, m)
<1>1. t \o CRLF = Append(Append(t, CR), LF) /\ Append(t, CR) \in Seq(S) /\ IsEnd(CR) /\ IsEnd(LF)
  BY AppendCrlf, AppendFacts DEF IsEnd
<1>2. ShortRuns(Append(t, CR), n)
  BY <1>1, EndIsShort
<1> DEFINE e == Append(t, CR)
<1>3. e \in Seq(S) /\ ShortRuns(e, n) /\ t \o CRLF = Append(e, LF)
  BY <1>1, <1>2
<1> HIDE DEF e
<1> QED
  BY <1>1, <1>3, EndIsShort

\* Two texts, of which the first ends a line.
LEMMA ShortConcat ==
  ASSUME NEW S, NEW a \in Seq(S), NEW b \in Seq(S), NEW n \in Nat, ShortRuns(a, n), ShortRuns(b, n),
         ShortTail(a, 0)
  PROVE  ShortRuns(a \o b, n)
<1> DEFINE e == a \o b
           l == Len(a)
           r == Len(b)
<1>1. /\ l \in Nat /\ r \in Nat /\ Len(e) = l + r
      /\ \A i \in 1 .. l : e[i] = a[i]
      /\ \A j \in 1 .. r : e[l + j] = b[j]
  BY ConcatProperties
<1> HIDE DEF e
<1>2. /\ \A i, j \in 1 .. l : Inside(a, i, j) => j - i < n
      /\ \A i, j \in 1 .. r : Inside(b, i, j) => j - i < n
      /\ \A i \in 1 .. l : Inside(a, i, l) => l - i < 0
  BY DEF ShortRuns, ShortTail
<1> HIDE DEF l, r
<1>3. ASSUME NEW i \in 1 .. l + r, NEW j \in 1 .. l + r, Inside(e, i, j) PROVE j - i < n
  <2>1. CASE i > j
    BY <1>1, <2>1
  <2>2. CASE i <= j /\ j <= l
    <3>1. i \in 1 .. l /\ j \in 1 .. l /\ \A k \in i .. j : k \in 1 .. l
      BY <1>1, <2>2
    <3>2. Inside(a, i, j)
      BY <1>1, <1>3, <3>1 DEF Inside
    <3> QED
      BY <1>2, <3>1, <3>2
  <2>3. CASE i <= l /\ l < j
    <3>1. i \in 1 .. l /\ \A k \in i .. l : k \in 1 .. l /\ k \in i .. j
      BY <1>1, <2>3
    <3>2. Inside(a, i, l)
      BY <1>1, <1>3, <3>1 DEF Inside
    <3>3. l - i < 0
      BY <1>2, <3>1, <3>2
    <3> QED
      BY <1>1, <3>1, <3>3
  <2>4. CASE l < i /\ i <= j
    <3>1. PICK x \in 1 .. r, y \in 1 .. r : i = l + x /\ j = l + y
      <4>1. i - l \in 1 .. r /\ j - l \in 1 .. r /\ i = l + (i - l) /\ j = l + (j - l)
        BY <1>1, <2>4
      <4> QED
        BY <4>1
    <3>2. \A k \in x .. y : k \in 1 .. r /\ l + k \in i .. j
      BY <1>1, <3>1
    <3>6. \A k \in x .. y : ~IsEnd(e[l + k])
      BY <1>3, <3>2 DEF Inside
    <3>5. ASSUME NEW k \in x .. y PROVE ~IsEnd(b[k])
      <4>1. k \in 1 .. r /\ ~IsEnd(e[l + k])
        BY <3>2, <3>6
      <4>2. e[l + k] = b[k]
        BY <1>1, <4>1
      <4> QED
        BY <4>1, <4>2
    <3>3. Inside(b, x, y)
      BY <3>5 DEF Inside
    <3>4. y - x < n
      BY <1>2, <3>3
    <3> QED
      BY <1>1, <3>1, <3>4
  <2> QED
    BY <1>1, <2>1, <2>2, <2>3, <2>4
<1>4. ShortRuns(e, n)
  BY <1>1, <1>3 DEF ShortRuns
<1> QED
  BY <1>4 DEF e

LEMMA ShortOf ==
  ASSUME NEW S, NEW t \in Seq(S), NEW n \in Nat, NEW p \in Nat, n <= p, ShortRuns(t, n)
  PROVE  ShortRuns(t, p)
BY DEF ShortRuns

LEMMA LongestLineIs == \A t : LongestLine(t) = LongestFold(t, [current |-> 0, longest |-> 0]).longest
BY DEF LongestLine, LongestFold, LongestStep, FoldLeft, MapThenFoldSet

Lengths == [current : Nat, longest : Nat]

LEMMA MaxOfTwo ==
  ASSUME NEW x \in Nat, NEW y \in Nat
  PROVE  Max({x, y}) \in Nat /\ Max({x, y}) >= x /\ Max({x, y}) >= y
<1>1. CASE x <= y
  <2>1. Max({x, y}) = y
    BY <1>1, MaxIs
  <2> HIDE DEF Max
  <2> QED
    BY <1>1, <2>1
<1>2. CASE x > y
  <2>1. Max({x, y}) = x
    BY <1>2, MaxIs
  <2> HIDE DEF Max
  <2> QED
    BY <1>2, <2>1
<1> QED
  BY <1>1, <1>2

LEMMA LongestStepFacts ==
  \A x \in Lengths : \A c :
    /\ LongestStep(x, c) \in Lengths
    /\ IsEnd(c) => LongestStep(x, c).longest = x.longest
    /\ ~IsEnd(c) => /\ LongestStep(x, c).current = x.current + 1
                    /\ LongestStep(x, c).longest >= x.longest
                    /\ LongestStep(x, c).longest >= x.current + 1
<1> SUFFICES ASSUME NEW x \in Lengths, NEW c
             PROVE  /\ LongestStep(x, c) \in Lengths
                    /\ IsEnd(c) => LongestStep(x, c).longest = x.longest
                    /\ ~IsEnd(c) => /\ LongestStep(x, c).current = x.current + 1
                                    /\ LongestStep(x, c).longest >= x.longest
                                    /\ LongestStep(x, c).longest >= x.current + 1
  OBVIOUS
<1>1. x.longest \in Nat /\ x.current \in Nat /\ x.current + 1 \in Nat
  BY DEF Lengths
<1> DEFINE m == Max({x.longest, x.current + 1})
<1>2. m \in Nat /\ m >= x.longest /\ m >= x.current + 1
  BY <1>1, MaxOfTwo
<1>3. LongestStep(x, c) = IF c = LF THEN [x EXCEPT !.current = 0]
                         ELSE IF c = CR THEN x
                         ELSE [current |-> x.current + 1, longest |-> m]
  BY DEF LongestStep
<1> HIDE DEF m
<1> QED
  BY <1>1, <1>2, <1>3 DEF Lengths, IsEnd

\* The lines are as short as LongestLine says.
LEMMA LongestIsShort ==
  ASSUME NEW S, NEW t \in Seq(S)
  PROVE  LongestLine(t) \in Nat /\ ShortRuns(t, LongestLine(t))
<1> DEFINE base == [current |-> 0, longest |-> 0]
           at(s) == LongestFold(s, base)
           G == {s \in Seq(S) : ShortRuns(s, at(s).longest) /\ ShortTail(s, at(s).current)}
<1>1. base \in Lengths
  BY DEF Lengths
<1>2. \A x \in Lengths, c \in S : LongestStep(x, c) \in Lengths
  BY LongestStepFacts
<1>3. /\ \A s \in Seq(S) : at(s) \in Lengths
      /\ \A s \in Seq(S), c \in S : at(Append(s, c)) = LongestStep(at(s), c)
  <2> HIDE DEF base
  <2>1. /\ LongestFold(<<>>, base) = base
        /\ \A s \in Seq(S) : LongestFold(s, base) \in Lengths
        /\ \A s \in Seq(S), c \in S :
             LongestFold(Append(s, c), base) = LongestStep(LongestFold(s, base), c)
    BY <1>1, <1>2, LongestFoldStep
  <2> QED
    BY <2>1
<1> HIDE DEF at
<1>4. <<>> \in G
  BY EmptyIsShort
<1>5. ASSUME NEW s \in Seq(S), NEW c \in S, s \in G PROVE Append(s, c) \in G
  <2> DEFINE x == at(s)
             y == at(Append(s, c))
             e == Append(s, c)
  <2>1. x \in Lengths /\ y \in Lengths /\ y = LongestStep(x, c) /\ e \in Seq(S)
    BY <1>3, AppendFacts
  <2>2. ShortRuns(s, x.longest) /\ ShortTail(s, x.current)
    BY <1>5
  <2>3. /\ x.longest \in Nat /\ x.current \in Nat /\ y.longest \in Nat /\ y.current \in Nat
    <3> HIDE DEF x, y
    <3> QED
      BY <2>1 DEF Lengths
  <2>4. ShortRuns(e, y.longest) /\ ShortTail(e, y.current)
    <3> HIDE DEF x, y
    <3>1. CASE IsEnd(c)
      <4>1. y.longest = x.longest
        BY <2>1, <3>1, LongestStepFacts
      <4> QED
        BY <2>2, <2>3, <3>1, <4>1, EndIsShort
    <3>2. CASE ~IsEnd(c)
      <4>1. y.current = x.current + 1 /\ x.longest <= y.longest /\ x.current + 1 <= y.longest
        <5>1. y.longest >= x.longest /\ y.longest >= x.current + 1 /\ y.current = x.current + 1
          BY <2>1, <3>2, LongestStepFacts
        <5> QED
          BY <2>3, <5>1
      <4> QED
        BY <2>2, <2>3, <3>2, <4>1, InkIsShort
    <3> QED
      BY <3>1, <3>2
  <2> QED
    BY <2>1, <2>4
<1>6. t \in G
  <2> HIDE DEF G
  <2> QED
    BY <1>4, <1>5, ByAppending
<1>7. LongestLine(t) = at(t).longest
  BY LongestLineIs DEF at
<1>8. at(t).longest \in Nat
  <2>1. at(t) \in Lengths
    BY <1>3
  <2> QED
    BY <2>1 DEF Lengths
<1> QED
  BY <1>6, <1>7, <1>8
----------------------------------------------------------------------------
(***************************************************************************)
(* The writes of a text whose lines are short.                             *)
(***************************************************************************)

ShortWrites(S, n) == {w \in Seq(S) : Len(w) <= n + 2 /\ Len(Unbroken(w)) <= n}

LEMMA UnbrokenLength ==
  ASSUME NEW S, NEW t \in Seq(S)
  PROVE  Len(Unbroken(t)) \in Nat /\ Len(Unbroken(t)) <= Len(t)
<1> DEFINE G == {s \in Seq(S) : Len(Unbroken(s)) <= Len(s)}
<1>0. \A s \in Seq(S) : Unbroken(s) \in Seq(S \ {CR, LF}) /\ Len(Unbroken(s)) \in Nat
  <2> TAKE s \in Seq(S)
  <2>1. Unbroken(s) \in Seq(S \ {CR, LF})
    BY UnbrokensTyped
  <2> QED
    BY <2>1
<1>1. <<>> \in G
  BY EmptyUnbroken
<1>2. ASSUME NEW s \in Seq(S), NEW c \in S, s \in G PROVE Append(s, c) \in G
  <2> DEFINE u == Unbroken(s)
  <2>1. u \in Seq(S \ {CR, LF}) /\ Len(u) \in Nat /\ Len(u) <= Len(s)
    BY <1>0, <1>2
  <2>2. Append(s, c) \in Seq(S) /\ Len(Append(s, c)) = Len(s) + 1 /\ Len(s) \in Nat
    BY AppendFacts
  <2>3. Unbroken(Append(s, c)) = IF c \in {CR, LF} THEN u ELSE Append(u, c)
    BY UnbrokenByte
  <2> HIDE DEF u
  <2>4. c \notin {CR, LF} => Len(Append(u, c)) = Len(u) + 1
    BY <2>1, AppendFacts
  <2>5. Len(Unbroken(Append(s, c))) <= Len(Append(s, c))
    BY <2>1, <2>2, <2>3, <2>4
  <2> QED
    BY <2>2, <2>5
<1>3. t \in G
  <2> HIDE DEF G
  <2> QED
    BY <1>1, <1>2, ByAppending
<1> QED
  BY <1>0, <1>3

LEMMA ShortRest ==
  ASSUME NEW S, NEW t \in Seq(S), NEW i \in 1 .. Len(t), NEW n \in Nat, ShortRuns(t, n)
  PROVE  ShortRuns(Rest(t, i), n)
<1> DEFINE r == Rest(t, i)
           l == Len(t)
<1>1. /\ l \in Nat /\ Len(r) = l - i + 1
      /\ \A j \in 1 .. l - i + 1 : r[j] = t[i + j - 1]
  BY RestFacts
<1>2. \A a, b \in 1 .. l : Inside(t, a, b) => b - a < n
  BY DEF ShortRuns
<1> HIDE DEF r, l
<1>3. ASSUME NEW a \in 1 .. l - i + 1, NEW b \in 1 .. l - i + 1, Inside(r, a, b) PROVE b - a < n
  <2>1. PICK x \in 1 .. l, y \in 1 .. l : x = i + a - 1 /\ y = i + b - 1
    <3>1. i + a - 1 \in 1 .. l /\ i + b - 1 \in 1 .. l
      BY <1>1
    <3> QED
      BY <3>1
  <2>2. ASSUME NEW k \in x .. y PROVE ~IsEnd(t[k])
    <3>1. PICK j \in a .. b : k = i + j - 1
      <4>1. k - i + 1 \in a .. b /\ k = i + (k - i + 1) - 1
        BY <1>1, <2>1
      <4> QED
        BY <4>1
    <3>2. j \in 1 .. l - i + 1
      BY <1>1, <3>1
    <3>3. ~IsEnd(r[j]) /\ r[j] = t[i + j - 1]
      BY <1>1, <1>3, <3>2, <3>1 DEF Inside
    <3> QED
      BY <3>1, <3>3
  <2>3. y - x < n
    BY <1>2, <2>2 DEF Inside
  <2> QED
    BY <1>1, <2>1, <2>3
<1>4. ShortRuns(r, n)
  BY <1>1, <1>3 DEF ShortRuns
<1> QED
  BY <1>4 DEF r

LEMMA LineWritesShort ==
  ASSUME NEW S, {CR, LF} \subseteq S, NEW t \in Seq(S), t # <<>>, NEW n \in Nat \ {0}, ShortRuns(t, n)
  PROVE  LineWrites(t) \in Seq(ShortWrites(S, n))
<1> DEFINE m == LineLength(t)
           W == ShortWrites(S, n)
<1>1. m \in 1 .. Len(t) /\ (Endless(t, m) \/ OneEnd(t, m) \/ TwoEnds(t, m))
  BY LineLengthFacts
<1>2. /\ Endless(t, m) => LineWrites(t) = <<Take(t, m)>>
      /\ OneEnd(t, m) => LineWrites(t) = <<Take(t, m - 1), CRLF>>
      /\ TwoEnds(t, m) => LineWrites(t) = <<Take(t, m)>>
  BY LineWritesFacts
<1> HIDE DEF m
<1>3. \A j \in 1 .. Len(t) : Inside(t, 1, j) => j - 1 < n
  <2>1. 1 \in 1 .. Len(t)
    BY <1>1
  <2> QED
    BY <2>1 DEF ShortRuns
<1>4. \A w \in Seq(S) : Len(w) \in Nat /\ Len(Unbroken(w)) \in Nat /\ Len(Unbroken(w)) <= Len(w)
  BY UnbrokenLength
<1>5. CRLF \in W
  <2>1. CRLF \in Seq(S) /\ Len(CRLF) = 2
    BY CrlfFacts
  <2>2. Len(Unbroken(CRLF)) = 0
    BY UnbrokenCrlf
  <2>3. Len(CRLF) <= n + 2 /\ Len(Unbroken(CRLF)) <= n
    BY <2>1, <2>2
  <2> QED
    BY <2>1, <2>3 DEF ShortWrites
<1>6. ASSUME NEW j \in 0 .. Len(t), \A k \in 1 .. j : ~IsEnd(t[k])
      PROVE  Take(t, j) \in Seq(S) /\ Len(Take(t, j)) = j /\ j <= n /\ Take(t, j) \in W
  <2>1. Take(t, j) \in Seq(S) /\ Len(Take(t, j)) = j
    BY CutFacts
  <2>2. j <= n
    <3>1. CASE j = 0
      BY <3>1
    <3>2. CASE j # 0
      <4>1. j \in 1 .. Len(t)
        BY <3>2
      <4>2. j - 1 < n
        BY <1>3, <1>6, <4>1 DEF Inside
      <4> QED
        BY <4>1, <4>2
    <3> QED
      BY <3>1, <3>2
  <2>3. Len(Unbroken(Take(t, j))) \in Nat /\ Len(Unbroken(Take(t, j))) <= j
    BY <1>4, <2>1
  <2> QED
    BY <2>1, <2>2, <2>3 DEF ShortWrites
<1>7. CASE Endless(t, m)
  <2>1. m \in 0 .. Len(t) /\ \A k \in 1 .. m : ~IsEnd(t[k])
    BY <1>1, <1>7 DEF Endless
  <2>2. Take(t, m) \in W
    BY <1>6, <2>1
  <2> HIDE DEF W
  <2>3. <<Take(t, m)>> \in Seq(W)
    BY <2>2
  <2> QED
    BY <1>2, <1>7, <2>3 DEF W
<1>8. CASE OneEnd(t, m)
  <2>1. PICK j \in Nat : j = m - 1
    BY <1>1
  <2>2. j \in 0 .. Len(t) /\ \A k \in 1 .. j : ~IsEnd(t[k])
    BY <1>1, <1>8, <2>1 DEF OneEnd
  <2>3. Take(t, j) \in W
    BY <1>6, <2>2
  <2> HIDE DEF W
  <2>4. <<Take(t, j), CRLF>> \in Seq(W)
    BY <1>5, <2>3
  <2> QED
    BY <1>2, <1>8, <2>1, <2>4 DEF W
<1>9. CASE TwoEnds(t, m)
  <2>1. PICK j \in Nat : j = m - 2
    BY <1>1, <1>9 DEF TwoEnds
  <2>2. PICK p \in Nat : p = m - 1
    BY <1>1
  <2>3. j + 1 = p /\ p + 1 = m /\ j \in 0 .. Len(t) - 1 /\ p \in 0 .. Len(t) - 1
    BY <1>1, <2>1, <2>2
  <2>4. j \in 0 .. Len(t) /\ \A k \in 1 .. j : ~IsEnd(t[k])
    BY <1>9, <2>1, <2>3 DEF TwoEnds
  <2>5. Take(t, j) \in Seq(S) /\ Len(Take(t, j)) = j /\ j <= n
    BY <1>6, <2>4
  <2>6. t[p] = CR /\ t[m] = LF
    BY <1>9, <2>2 DEF TwoEnds
  <2>7. Take(t, p) = Append(Take(t, j), CR) /\ Take(t, m) = Append(Take(t, p), LF)
    <3>1. Take(t, j + 1) = Append(Take(t, j), t[j + 1]) /\ Take(t, p + 1) = Append(Take(t, p), t[p + 1])
      BY <2>3, TakeOneMore
    <3> QED
      BY <2>3, <2>6, <3>1
  <2>8. Take(t, p) \in Seq(S) /\ Take(t, m) \in Seq(S) /\ Len(Take(t, m)) = m
    BY <1>1, <2>3, CutFacts
  <2>9. Unbroken(Take(t, m)) = Unbroken(Take(t, j))
    <3>1. Unbroken(Append(Take(t, j), CR)) = Unbroken(Take(t, j))
      BY <2>5, UnbrokenByte
    <3>2. Unbroken(Append(Take(t, p), LF)) = Unbroken(Take(t, p))
      BY <2>8, UnbrokenByte
    <3> QED
      BY <2>7, <3>1, <3>2
  <2>10. Len(Unbroken(Take(t, m))) \in Nat /\ Len(Unbroken(Take(t, m))) <= j /\ m = j + 2
    BY <1>1, <1>4, <2>1, <2>5, <2>9
  <2>11. Take(t, m) \in W
    BY <2>5, <2>8, <2>10 DEF ShortWrites
  <2> HIDE DEF W
  <2>12. <<Take(t, m)>> \in Seq(W)
    BY <2>11
  <2> QED
    BY <1>2, <1>9, <2>12 DEF W
<1> QED
  BY <1>1, <1>7, <1>8, <1>9

\* The calls of mailstream_write for a text are as short as its lines.
LEMMA DataWritesShort ==
  ASSUME NEW S, {CR, LF, DOT} \subseteq S, NEW t \in Seq(S), NEW quote, NEW n \in Nat \ {0},
         ShortRuns(t, n)
  PROVE  DataWrites(t, quote) \in Seq(ShortWrites(S, n))
<1> DEFINE l == Len(t)
           W == ShortWrites(S, n)
<1>1. l \in Nat /\ l + 1 \in Nat
  OBVIOUS
<1>2. PICK f : IsWrites(f, t, quote, 1) /\ DataWrites(t, quote) = f[1]
  BY DataWritesFunction
<1>3. \A i \in 1 .. l + 1 : f[i] = WritesAt(t, quote, f, i)
  BY <1>2 DEF IsWrites
<1>4. \A i \in 1 .. l : DotWrite(t, quote, i) \in Seq(W)
  <2>1. <<DOT>> \in W
    <3>1. <<DOT>> \in Seq(S) /\ Len(<<DOT>>) = 1
      OBVIOUS
    <3>2. Len(Unbroken(<<DOT>>)) \in Nat /\ Len(Unbroken(<<DOT>>)) <= 1
      BY <3>1, UnbrokenLength
    <3> QED
      BY <3>1, <3>2 DEF ShortWrites
  <2> HIDE DEF W
  <2> QED
    BY <2>1 DEF DotWrite
<1>5. \A i \in 1 .. l : LineWrites(Rest(t, i)) \in Seq(W) /\ NextLine(t, i) \in i + 1 .. l + 1
  <2> TAKE i \in 1 .. l
  <2> DEFINE r == Rest(t, i)
  <2>1. r \in Seq(S) /\ r # <<>> /\ ShortRuns(r, n)
    BY RestFacts, ShortRest
  <2>2. LineWrites(r) \in Seq(W)
    <3> HIDE DEF r
    <3> QED
      BY <2>1, LineWritesShort
  <2> QED
    BY <2>2, RestFacts
<1> HIDE DEF W
<1> DEFINE G == {i \in 1 .. l + 1 : f[i] \in Seq(W)}
<1>6. ASSUME NEW i \in 1 .. l + 1, \A j \in i + 1 .. l + 1 : j \in G PROVE i \in G
  <2>1. CASE i = l + 1
    <3>1. f[i] = <<>>
      BY <1>1, <1>3, <2>1 DEF WritesAt
    <3>2. f[i] \in Seq(W)
      <4>1. <<>> \in Seq(W)
        OBVIOUS
      <4> QED
        BY <3>1, <4>1
    <3> QED
      BY <3>2
  <2>2. CASE i # l + 1
    <3>1. i \in 1 .. l /\ ~(i > Len(t))
      BY <1>1, <2>2
    <3>2. f[i] = DotWrite(t, quote, i) \o LineWrites(Rest(t, i)) \o f[NextLine(t, i)]
      BY <1>3, <3>1 DEF WritesAt
    <3>3. f[NextLine(t, i)] \in Seq(W)
      BY <1>5, <1>6, <3>1
    <3> DEFINE a == DotWrite(t, quote, i)
               b == LineWrites(Rest(t, i))
               c == f[NextLine(t, i)]
    <3>4. a \in Seq(W) /\ b \in Seq(W) /\ c \in Seq(W) /\ f[i] = (a \o b) \o c
      BY <1>4, <1>5, <3>1, <3>2, <3>3
    <3> HIDE DEF a, b, c
    <3>5. f[i] \in Seq(W)
      BY <3>4, ConcatProperties
    <3> QED
      BY <3>5
  <2> QED
    BY <2>1, <2>2
<1>7. 1 \in G
  <2>1. 1 \in 1 .. l + 1
    BY <1>1
  <2> HIDE DEF G
  <2>2. \A i \in 1 .. l + 1 : i \in G
    BY <1>1, <1>6, DownFrom
  <2> QED
    BY <2>1, <2>2
<1> QED
  BY <1>2, <1>7 DEF W

----------------------------------------------------------------------------
(***************************************************************************)
(* The base64 text of a body.                                              *)
(***************************************************************************)

\* The characters up to the k-th of n, and what is written for each.
Base64Part(n, i) ==
  IF i % Base64Line = 0 /\ i < n THEN <<Base64Char(i)>> \o CRLF ELSE <<Base64Char(i)>>
Base64Parts(n, k) == [i \in 1 .. k |-> Base64Part(n, i)]
Base64Chars(n) == [i \in 1 .. n |-> Base64Char(i)]
Base64Set == {Base64Char(i) : i \in Nat \ {0}} \cup {CR, LF, DOT}

LEMMA Base64PartTyped ==
  ASSUME NEW n \in Nat, NEW k \in Nat
  PROVE  /\ Base64Parts(n, k) \in Seq(Seq(Base64Set)) /\ Len(Base64Parts(n, k)) = k
         /\ Base64Chars(k) \in Seq(Base64Set) /\ Len(Base64Chars(k)) = k
<1>1. {CR, LF} \subseteq Base64Set
  BY DEF Base64Set
<1> HIDE DEF Base64Set
<1>2. ASSUME NEW i \in 1 .. k PROVE Base64Char(i) \in Base64Set
  BY DEF Base64Set
<1> DEFINE SS == Seq(Base64Set)
<1>3. \A i \in 1 .. k : Base64Part(n, i) \in SS
  <2> TAKE i \in 1 .. k
  <2>1. <<Base64Char(i)>> \in SS
    BY <1>2
  <2>2. <<Base64Char(i)>> \o CRLF \in SS
    BY <1>1, <2>1, AppendCrlf
  <2> HIDE DEF SS
  <2> QED
    BY <2>1, <2>2 DEF Base64Part
<1>4. Base64Parts(n, k) \in Seq(SS) /\ Len(Base64Parts(n, k)) = k
  <2> HIDE DEF SS
  <2> QED
    BY <1>3 DEF Base64Parts
<1>5. Base64Chars(k) \in Seq(Base64Set) /\ Len(Base64Chars(k)) = k
  BY <1>2 DEF Base64Chars
<1> QED
  BY <1>4, <1>5

Base64SoFar(n, k) ==
  LET d == FlattenSeq(Base64Parts(n, k)) IN
  /\ d \in Seq(Base64Set) /\ ShortRuns(d, Base64Line) /\ Unbroken(d) = Base64Chars(k)
  /\ k < n => ShortTail(d, k % Base64Line)

LEMMA Base64GoesOn ==
  ASSUME NEW n \in Nat, NEW j \in 0 .. n - 1, Base64SoFar(n, j), NEW k \in Nat, k = j + 1
  PROVE  Base64SoFar(n, k)
<1> DEFINE d == FlattenSeq(Base64Parts(n, j))
           e == FlattenSeq(Base64Parts(n, k))
           c == Base64Char(k)
           r == j % Base64Line
<1>1. /\ d \in Seq(Base64Set) /\ ShortRuns(d, Base64Line) /\ Unbroken(d) = Base64Chars(j)
      /\ ShortTail(d, r)
  BY DEF Base64SoFar
<1>2. j \in Nat /\ Base64Line \in Nat \ {0}
  BY EmlAssumption
<1>3. /\ r \in 0 .. Base64Line - 1
      /\ k % Base64Line # 0 => k % Base64Line = r + 1
  BY <1>2, ModStep
<1>4. c \in Base64Set /\ ~IsEnd(c) /\ c \notin {CR, LF} /\ {CR, LF} \subseteq Base64Set
  <2>1. c \notin {CR, LF}
    BY DEF Base64Char, CR, LF
  <2> QED
    BY <2>1 DEF Base64Set, IsEnd
<1> HIDE DEF c
<1>5. e = d \o Base64Part(n, k)
  <2> DEFINE p == Base64Parts(n, j)
             q == Base64Parts(n, k)
  <2>1. p \in Seq(Seq(Base64Set)) /\ q \in Seq(Seq(Base64Set)) /\ Len(p) = j /\ Len(q) = j + 1
    BY <1>2, Base64PartTyped
  <2>2. (\A i \in 1 .. j : q[i] = p[i]) /\ q[j + 1] = Base64Part(n, k)
    BY <1>2 DEF Base64Parts
  <2> HIDE DEF p, q
  <2>3. FlattenSeq(q) = FlattenSeq(p) \o q[j + 1]
    BY <1>2, <2>1, <2>2, FlattenLast, SMTT(30)
  <2> QED
    BY <2>2, <2>3 DEF p, q
<1>6. Base64Chars(k) = Append(Base64Chars(j), c)
  <2>1. /\ Base64Chars(j) \in Seq(Base64Set) /\ Len(Base64Chars(j)) = j
        /\ Base64Chars(k) \in Seq(Base64Set) /\ Len(Base64Chars(k)) = k
    BY <1>2, Base64PartTyped
  <2>2. /\ \A i \in 1 .. j : Base64Chars(k)[i] = Base64Chars(j)[i]
        /\ Base64Chars(k)[k] = c
    BY <1>2 DEF Base64Chars, c
  <2> DEFINE u == Base64Chars(j)
             v == Base64Chars(k)
             w == Append(u, c)
  <2>3. u \in Seq(Base64Set) /\ v \in Seq(Base64Set) /\ Len(v) = j + 1 /\ v[j + 1] = c
        /\ Len(u) = j /\ \A i \in 1 .. j : v[i] = u[i]
    BY <2>1, <2>2
  <2> HIDE DEF u, v
  <2>4. w \in Seq(Base64Set) /\ Len(w) = j + 1 /\ w[j + 1] = c /\ \A i \in 1 .. j : w[i] = u[i]
    BY <1>4, <2>3, AppendFacts
  <2> HIDE DEF w
  <2>5. v = w
    BY <1>2, <2>3, <2>4, SeqEqual
  <2> QED
    BY <2>5 DEF u, v, w
<1> DEFINE x == Append(d, c)
<1>7. x \in Seq(Base64Set) /\ d \o <<c>> = x
  BY <1>1, <1>4, AppendFacts, AppendIsConcat
<1>8. ShortRuns(x, Base64Line) /\ ShortTail(x, r + 1)
  <2>1. r \in Nat /\ r + 1 <= Base64Line /\ Base64Line <= Base64Line /\ Base64Line \in Nat
    BY <1>2, <1>3
  <2> HIDE DEF d, r
  <2> QED
    BY <1>1, <1>4, <2>1, InkIsShort
<1>9. Unbroken(x) = Base64Chars(k)
  <2> HIDE DEF d
  <2>1. Unbroken(x) = Append(Unbroken(d), c)
    BY <1>1, <1>4, UnbrokenByte
  <2> QED
    BY <1>1, <1>6, <2>1
<1> HIDE DEF x, d, e, r
<1>10. CASE k % Base64Line = 0 /\ k < n
  <2> DEFINE y == x \o CRLF
  <2>1. e = y
    <3>1. e = d \o (<<c>> \o CRLF)
      BY <1>5, <1>10 DEF Base64Part, c
    <3>2. <<c>> \in Seq(Base64Set) /\ CRLF \in Seq(Base64Set)
      BY <1>4, <1>7, AppendCrlf
    <3>3. (d \o <<c>>) \o CRLF = d \o (<<c>> \o CRLF)
      BY <1>1, <3>2, AssociativeIn
    <3> QED
      BY <1>7, <3>1, <3>3
  <2>2. y \in Seq(Base64Set) /\ CRLF \in Seq(Base64Set)
    BY <1>4, <1>7, AppendCrlf
  <2>3. ShortRuns(y, Base64Line) /\ ShortTail(y, 0)
    BY <1>2, <1>4, <1>7, <1>8, ShortCrlf
  <2>4. Unbroken(y) = Base64Chars(k)
    <3>1. Unbroken(y) = Unbroken(x) \o Unbroken(CRLF)
      BY <1>7, <2>2, UnbrokenConcat
    <3>2. Base64Chars(k) \o <<>> = Base64Chars(k)
      BY Base64PartTyped, ConcatEmptySeq
    <3> QED
      BY <1>9, <3>1, <3>2, UnbrokenCrlf
  <2> HIDE DEF y
  <2> QED
    BY <1>10, <2>1, <2>2, <2>3, <2>4 DEF Base64SoFar, e
<1>11. CASE ~(k % Base64Line = 0 /\ k < n)
  <2>1. e = x
    BY <1>5, <1>7, <1>11 DEF Base64Part, c
  <2>2. k < n => ShortTail(x, k % Base64Line)
    BY <1>3, <1>8, <1>11
  <2> QED
    BY <1>7, <1>8, <1>9, <2>1, <2>2 DEF Base64SoFar, e
<1> QED
  BY <1>10, <1>11

LEMMA Base64Facts ==
  ASSUME NEW n \in Nat
  PROVE  Base64SoFar(n, n)
<1> DEFINE G == {k \in Nat : k <= n => Base64SoFar(n, k)}
<1>1. 0 \in G
  <2>1. Base64Parts(n, 0) = <<>> /\ Base64Chars(0) = <<>>
    <3>1. Len(Base64Parts(n, 0)) = 0 /\ Len(Base64Chars(0)) = 0
          /\ Base64Parts(n, 0) \in Seq(Seq(Base64Set)) /\ Base64Chars(0) \in Seq(Base64Set)
      BY Base64PartTyped
    <3> QED
      BY <3>1, EmptySeq
  <2>2. <<>> \in Seq(Base64Set)
    OBVIOUS
  <2>3. Base64SoFar(n, 0)
    BY <2>1, <2>2, FlattenEmpty, EmptyIsShort, EmptyUnbroken DEF Base64SoFar
  <2> QED
    BY <2>3
<1>2. ASSUME NEW j \in 0 .. n - 1, j \in G PROVE j + 1 \in G
  <2>1. PICK k \in Nat : k = j + 1
    OBVIOUS
  <2>2. Base64SoFar(n, k)
    BY <1>2, <2>1, Base64GoesOn
  <2> QED
    BY <2>1, <2>2
<1>3. n \in 0 .. n
  OBVIOUS
<1>4. n \in G
  <2> HIDE DEF G
  <2> QED
    BY <1>1, <1>2, <1>3, UpTo
<1> QED
  BY <1>4

\* The characters of a base64 body are all there, in order, and its lines are short.
LEMMA Base64Body ==
  ASSUME NEW n \in Nat
  PROVE  LET body == FlattenSeq(Base64Parts(n, n)) \o CRLF IN
         /\ body \in Seq(Base64Set) /\ ShortRuns(body, Base64Line)
         /\ Unbroken(body) = Base64Chars(n)
<1> DEFINE d == FlattenSeq(Base64Parts(n, n))
<1>1. d \in Seq(Base64Set) /\ ShortRuns(d, Base64Line) /\ Unbroken(d) = Base64Chars(n)
  BY Base64Facts DEF Base64SoFar
<1>2. {CR, LF} \subseteq Base64Set /\ Base64Line \in Nat /\ 0 \in Nat
  BY EmlAssumption DEF Base64Set
<1> HIDE DEF d
<1>3. d \o CRLF \in Seq(Base64Set) /\ CRLF \in Seq(Base64Set)
  BY <1>1, <1>2, AppendCrlf
<1>4. ShortRuns(d \o CRLF, Base64Line)
  BY <1>1, <1>2, ShortCrlf
<1>5. Unbroken(d \o CRLF) = Base64Chars(n)
  <2>1. Unbroken(d \o CRLF) = Unbroken(d) \o Unbroken(CRLF)
    BY <1>1, <1>3, UnbrokenConcat
  <2>2. Base64Chars(n) \o <<>> = Base64Chars(n)
    BY Base64PartTyped, ConcatEmptySeq
  <2> QED
    BY <1>1, <2>1, <2>2, UnbrokenCrlf
<1> QED
  BY <1>3, <1>4, <1>5 DEF d

----------------------------------------------------------------------------
(***************************************************************************)
(* What Encode makes of a body.                                            *)
(***************************************************************************)

LEMMA NormalizedTyped ==
  ASSUME NEW S, {CR, LF} \subseteq S, NEW t \in Seq(S)
  PROVE  Normalized(t) \in Seq(S)
<1> DEFINE p == [i \in 1 .. Len(t) |->
                   IF t[i] = LF THEN CRLF
                   ELSE IF t[i] = CR /\ i < Len(t) /\ t[i + 1] = LF THEN <<>> ELSE <<t[i]>>]
           SS == Seq(S)
<1>1. CRLF \in SS /\ <<>> \in SS /\ Len(t) \in Nat
  BY DEF CRLF
<1>2. \A i \in 1 .. Len(t) : <<t[i]>> \in SS
  OBVIOUS
<1>3. p \in Seq(SS)
  <2> HIDE DEF SS
  <2> QED
    BY <1>1, <1>2
<1>4. Normalized(t) = FlattenSeq(p)
  BY DEF Normalized
<1> HIDE DEF p
<1> QED
  BY <1>3, <1>4, FlattenTyped

LEMMA EncodeForms ==
  ASSUME NEW S, {CR, LF} \subseteq S, \A c \in S : Bytes(c) \in Nat, NEW t \in Seq(S)
  PROVE  LET x == Normalized(t)
             n == Base64Length(BytesOf(x)) IN
         /\ x \in Seq(S) /\ n \in Nat
         /\ Fits(x) => /\ Encode(t).encoding = "7bit"
                       /\ Encode(t).body = x \/ Encode(t).body = x \o CRLF
         /\ ~Fits(x) => /\ Encode(t).encoding = "base64"
                        /\ Encode(t).body = FlattenSeq(Base64Parts(n, n)) \o CRLF
<1> DEFINE x == Normalized(t)
           n == Base64Length(BytesOf(x))
<1>1. x \in Seq(S)
  BY NormalizedTyped
<1>2. BytesOf(x) \in Nat
  <2> HIDE DEF x
  <2> QED
    BY <1>1, BytesOfTyped
<1>3. n \in Nat
  <2> HIDE DEF x
  <2> QED
    BY <1>2 DEF Base64Length
<1>4. Encode(t) = IF Fits(x)
                   THEN [encoding |-> "7bit", body |-> IF IsSuffix(CRLF, x) THEN x ELSE x \o CRLF]
                   ELSE [encoding |-> "base64", body |-> FlattenSeq(Base64Parts(n, n)) \o CRLF]
  BY DEF Encode, Base64Parts, Base64Part
<1> HIDE DEF x, n
<1>5. /\ Fits(x) => /\ Encode(t).encoding = "7bit"
                    /\ Encode(t).body = x \/ Encode(t).body = x \o CRLF
      /\ ~Fits(x) => /\ Encode(t).encoding = "base64"
                     /\ Encode(t).body = FlattenSeq(Base64Parts(n, n)) \o CRLF
  BY <1>4
<1> QED
  BY <1>1, <1>3, <1>5 DEF x, n

\* No line of an encoded body is longer than LineLimit.
LEMMA EncodeIsShort ==
  ASSUME NEW S, {CR, LF} \subseteq S, \A c \in S : Bytes(c) \in Nat, NEW t \in Seq(S)
  PROVE  ShortRuns(Encode(t).body, LineLimit)
<1> DEFINE x == Normalized(t)
           n == Base64Length(BytesOf(x))
           b == Encode(t).body
<1>1. /\ x \in Seq(S) /\ n \in Nat
      /\ Fits(x) => b = x \/ b = x \o CRLF
      /\ ~Fits(x) => b = FlattenSeq(Base64Parts(n, n)) \o CRLF
  BY EncodeForms
<1> HIDE DEF x, n, b
<1>2. LineLimit \in Nat /\ Base64Line \in Nat /\ Base64Line <= LineLimit
  BY EmlAssumption
<1>3. CASE Fits(x)
  <2>1. LongestLine(x) \in Nat /\ LongestLine(x) <= LineLimit /\ ShortRuns(x, LongestLine(x))
    BY <1>1, <1>3, LongestIsShort DEF Fits
  <2>2. ShortRuns(x, LineLimit)
    BY <1>1, <1>2, <2>1, ShortOf
  <2>3. ShortRuns(x \o CRLF, LineLimit)
    BY <1>1, <1>2, <2>2, ShortCrlf
  <2> QED
    BY <1>1, <1>3, <2>2, <2>3 DEF b
<1>4. CASE ~Fits(x)
  <2>1. b \in Seq(Base64Set) /\ ShortRuns(b, Base64Line)
    BY <1>1, <1>4, Base64Body
  <2>2. ShortRuns(b, LineLimit)
    BY <1>2, <2>1, ShortOf
  <2> QED
    BY <2>2 DEF b
<1> QED
  BY <1>3, <1>4

\* The header, which is one character, its line end and the empty line.
HeaderText(h) == <<h>> \o CRLF \o CRLF

LEMMA HeaderFacts ==
  ASSUME NEW S, {CR, LF, DOT} \subseteq S, NEW h \in S, h \notin {CR, LF}
  PROVE  /\ HeaderText(h) \in Seq(S) /\ Len(HeaderText(h)) = 5 /\ HeaderText(h)[1] = h
         /\ ~EndsInCR(HeaderText(h)) /\ Canonical(HeaderText(h)) = HeaderText(h)
         /\ ShortTail(HeaderText(h), 0) /\ \A n \in Nat \ {0} : ShortRuns(HeaderText(h), n)
<1> DEFINE a == <<h>>
           b == a \o CRLF
           c == b \o CRLF
<1>1. a \in Seq(S) /\ Len(a) = 1 /\ a[1] = h /\ <<>> \in Seq(S) /\ a = Append(<<>>, h)
  OBVIOUS
<1>2. Canonical(a) = a
  <2>1. Canonical(Append(<<>>, h)) = Canonical(<<>>) \o <<h>>
    BY <1>1, CanonicalByte
  <2> QED
    BY <1>1, <2>1, EmptyCanonical
<1>3. \A n \in Nat \ {0} : ShortRuns(a, n)
  BY <1>1 DEF ShortRuns
<1> HIDE DEF a
<1>4. b \in Seq(S) /\ CRLF \in Seq(S)
  BY <1>1, AppendCrlf
<1>5. Len(b) = 3 /\ b[1] = h
  BY <1>1, <1>4, CrlfFacts, ConcatProperties
<1>6. Canonical(b) = b
  BY <1>1, <1>2, CanonicalCrlf
<1>7. \A n \in Nat \ {0} : ShortRuns(b, n)
  <2> TAKE n \in Nat \ {0}
  <2>1. n \in Nat /\ 0 \in Nat
    OBVIOUS
  <2> QED
    BY <1>1, <1>3, <2>1, ShortCrlf
<1> HIDE DEF b
<1>8. c \in Seq(S) /\ c = Append(Append(b, CR), LF)
  BY <1>4, AppendCrlf
<1>9. Len(c) = 5 /\ c[1] = h
  <2>1. Len(CRLF) = 2
    BY CrlfFacts
  <2>2. /\ Len(b \o CRLF) = Len(b) + Len(CRLF)
        /\ \A i \in 1 .. Len(b) + Len(CRLF) : (b \o CRLF)[i] = IF i <= Len(b) THEN b[i] ELSE CRLF[i - Len(b)]
    BY <1>4, ConcatProperties
  <2>3. 1 \in 1 .. Len(b) + Len(CRLF) /\ 1 <= Len(b)
    BY <1>5, <2>1
  <2> QED
    BY <1>5, <2>1, <2>2, <2>3
<1>10. Canonical(c) = c
  BY <1>4, <1>6, CanonicalCrlf
<1>11. ShortTail(c, 0) /\ \A n \in Nat \ {0} : ShortRuns(c, n)
  <2>1. \A n \in Nat \ {0} : ShortRuns(c, n) /\ ShortTail(c, 0)
    <3> TAKE n \in Nat \ {0}
    <3>1. n \in Nat /\ 0 \in Nat
      OBVIOUS
    <3> QED
      BY <1>4, <1>7, <3>1, ShortCrlf
  <2>2. 1 \in Nat \ {0}
    OBVIOUS
  <2> QED
    BY <2>1, <2>2
<1>12. ~EndsInCR(c)
  <2>1. Append(b, CR) \in Seq(S) /\ LF # CR
    BY <1>4, AppendFacts DEF CR, LF
  <2> DEFINE d == Append(b, CR)
  <2>2. d \in Seq(S) /\ c = Append(d, LF)
    BY <1>8, <2>1
  <2> HIDE DEF d, c
  <2> QED
    BY <2>1, <2>2, LastAppended
<1> HIDE DEF c
<1>13. HeaderText(h) = c
  BY DEF HeaderText, a, b, c
<1> QED
  BY <1>8, <1>9, <1>10, <1>11, <1>12, <1>13

----------------------------------------------------------------------------
(***************************************************************************)
(* The folds of a header: its columns, tokens, chunks and lines.           *)
(***************************************************************************)
CountStep(sum, p) == sum + p.width
CountFold(t, base) == FoldLeft(CountStep, base, t)

TokenStep(acc, p) ==
  IF p = Space THEN Append(acc, <<>>) ELSE Front(acc) \o <<Append(Last(acc), p)>>
TokenFold(t, base) == FoldLeft(TokenStep, base, t)

ChunkStep(acc, c) ==
  IF BytesOf(acc.chunk) + Bytes(c) > WordBytes
  THEN [words |-> Append(acc.words, acc.chunk), chunk |-> <<c>>]
  ELSE [acc EXCEPT !.chunk = Append(@, c)]
ChunkFold(t, base) == FoldLeft(ChunkStep, base, t)

HeaderStep(name, result, token) ==
  IF StartsNewLine(name, Count(LastLine(result)), token)
  THEN result \o <<Break, Space>> \o token
  ELSE result \o <<Space>> \o token
HeaderFold(name, t, base) == FoldLeft(LAMBDA r, k : HeaderStep(name, r, k), base, t)
HeaderSteps(name, A, S, base) ==
  /\ HeaderFold(name, <<>>, base) = base
  /\ \A t \in Seq(S) : HeaderFold(name, t, base) \in A
  /\ \A t \in Seq(S), c \in S :
       HeaderFold(name, Append(t, c), base) = HeaderStep(name, HeaderFold(name, t, base), c)

LEMMA CountFoldRun ==
  ASSUME NEW A, NEW S, NEW base \in A, \A x \in A, c \in S : CountStep(x, c) \in A, NEW t \in Seq(S)
  PROVE  /\ CountFold(t, base) \in A
         /\ Gathers([p \in A \X S |-> CountStep(p[1], p[2])], base, t, CountFold(t, base))
<1> DEFINE F == [p \in A \X S |-> CountStep(p[1], p[2])]
           n == Len(t)
           Is(f) == f = [s \in SUBSET (1 .. n) |->
                           IF s = {} THEN base ELSE CountStep(f[s \ {Max(s)}], t[Max(s)])]
           g == CHOOSE h : Is(h)
<1>2. /\ n \in Nat /\ DOMAIN t = 1 .. n /\ F \in [A \X S -> A]
      /\ \A x \in A, c \in S : F[<<x, c>>] = CountStep(x, c)
  OBVIOUS
<1> HIDE DEF F
<1>1. CountFold(t, base) = g[1 .. n]
  BY <1>2 DEF CountFold, FoldLeft, MapThenFoldSet
<1> HIDE DEF g
<1>3. \A s \in SUBSET (1 .. n) : s # {} => t[Max(s)] \in S /\ s \ {Max(s)} \in SUBSET (1 .. n)
  <2> SUFFICES ASSUME NEW s \in SUBSET (1 .. n), s # {}
               PROVE  t[Max(s)] \in S /\ s \ {Max(s)} \in SUBSET (1 .. n)
    OBVIOUS
  <2>1. Max(s) \in s
    BY <1>2, MaxUpTo
  <2>2. Max(s) \in 1 .. n
    BY <2>1
  <2>3. t[Max(s)] \in S
    <3> HIDE DEF Is
    <3> QED
      BY <2>2, <1>2
  <2> QED
    BY <2>3
<1>4. ASSUME NEW f, \A s \in SUBSET (1 .. n) : f[s] \in A PROVE Is(f) <=> IsFold(f, F, base, t, n)
  <2>1. \A s \in SUBSET (1 .. n) :
          FoldAt(F, base, t, f, s) = IF s = {} THEN base ELSE CountStep(f[s \ {Max(s)}], t[Max(s)])
    BY <1>2, <1>3, <1>4 DEF FoldAt
  <2> QED
    BY <2>1 DEF IsFold
<1>5. Is(g)
  <2>1. PICK f : IsFold(f, F, base, t, n)
    BY <1>2, FoldExists
  <2>2. \A s \in SUBSET (1 .. n) : f[s] \in A
    BY <1>2, <2>1, FoldTyped
  <2>3. Is(f)
    BY <1>4, <2>1, <2>2
  <2> HIDE DEF Is
  <2> QED
    BY <2>3 DEF g
<1>6. \A s \in SUBSET (1 .. n) : g[s] \in A
  <2>1. \A s \in SUBSET (1 .. n) :
          g[s] = IF s = {} THEN base ELSE CountStep(g[s \ {Max(s)}], t[Max(s)])
    BY <1>5
  <2>2. {} \in SUBSET (1 .. n)
    OBVIOUS
  <2> HIDE DEF Is
  <2>3. g[{}] = base
    BY <2>1, <2>2
  <2>4. ASSUME NEW s \in SUBSET (1 .. n), s # {}, g[s \ {Max(s)}] \in A PROVE g[s] \in A
    <3>1. t[Max(s)] \in S /\ g[s] = CountStep(g[s \ {Max(s)}], t[Max(s)])
      BY <1>3, <2>1, <2>4
    <3> QED
      BY <2>4, <3>1
  <2> QED
    BY <1>2, <2>3, <2>4, FoldStaysIn
<1>7. IsFold(g, F, base, t, n) /\ 1 .. n \in SUBSET (1 .. n)
  BY <1>4, <1>5, <1>6
<1> HIDE DEF Is
<1>8. Gathers(F, base, t, g[1 .. n])
  BY <1>7, FoldGathers
<1> QED
  BY <1>1, <1>6, <1>7, <1>8 DEF F

LEMMA CountFoldStep ==
  ASSUME NEW A, NEW S, NEW base \in A, \A x \in A, c \in S : CountStep(x, c) \in A
  PROVE  /\ CountFold(<<>>, base) = base
         /\ \A t \in Seq(S) : CountFold(t, base) \in A
         /\ \A t \in Seq(S), c \in S :
              CountFold(Append(t, c), base) = CountStep(CountFold(t, base), c)
<1> DEFINE F == [p \in A \X S |-> CountStep(p[1], p[2])]
<1>0. \A t \in Seq(S) : CountFold(t, base) \in A /\ Gathers(F, base, t, CountFold(t, base))
  BY CountFoldRun
<1>1. \A x \in A, c \in S : F[<<x, c>>] = CountStep(x, c)
  OBVIOUS
<1> HIDE DEF F
<1>2. CountFold(<<>>, base) = base
  <2>1. <<>> \in Seq(S)
    OBVIOUS
  <2> QED
    BY <1>0, <2>1, GathersNone
<1>3. ASSUME NEW t \in Seq(S), NEW c \in S
      PROVE  CountFold(Append(t, c), base) = CountStep(CountFold(t, base), c)
  <2>1. Append(t, c) \in Seq(S)
    BY AppendFacts
  <2>2. CountFold(Append(t, c), base) = F[<<CountFold(t, base), c>>]
    <3>1. Gathers(F, base, t, CountFold(t, base))
      BY <1>0
    <3>2. Gathers(F, base, Append(t, c), CountFold(Append(t, c), base))
      BY <1>0, <2>1
    <3> QED
      BY <3>1, <3>2, GathersOneMore
  <2> QED
    BY <1>0, <1>1, <2>2
<1> QED
  BY <1>0, <1>2, <1>3

LEMMA TokenFoldRun ==
  ASSUME NEW A, NEW S, NEW base \in A, \A x \in A, c \in S : TokenStep(x, c) \in A, NEW t \in Seq(S)
  PROVE  /\ TokenFold(t, base) \in A
         /\ Gathers([p \in A \X S |-> TokenStep(p[1], p[2])], base, t, TokenFold(t, base))
<1> DEFINE F == [p \in A \X S |-> TokenStep(p[1], p[2])]
           n == Len(t)
           Is(f) == f = [s \in SUBSET (1 .. n) |->
                           IF s = {} THEN base ELSE TokenStep(f[s \ {Max(s)}], t[Max(s)])]
           g == CHOOSE h : Is(h)
<1>2. /\ n \in Nat /\ DOMAIN t = 1 .. n /\ F \in [A \X S -> A]
      /\ \A x \in A, c \in S : F[<<x, c>>] = TokenStep(x, c)
  OBVIOUS
<1> HIDE DEF F
<1>1. TokenFold(t, base) = g[1 .. n]
  BY <1>2 DEF TokenFold, FoldLeft, MapThenFoldSet
<1> HIDE DEF g
<1>3. \A s \in SUBSET (1 .. n) : s # {} => t[Max(s)] \in S /\ s \ {Max(s)} \in SUBSET (1 .. n)
  <2> SUFFICES ASSUME NEW s \in SUBSET (1 .. n), s # {}
               PROVE  t[Max(s)] \in S /\ s \ {Max(s)} \in SUBSET (1 .. n)
    OBVIOUS
  <2>1. Max(s) \in s
    BY <1>2, MaxUpTo
  <2>2. Max(s) \in 1 .. n
    BY <2>1
  <2>3. t[Max(s)] \in S
    <3> HIDE DEF Is
    <3> QED
      BY <2>2, <1>2
  <2> QED
    BY <2>3
<1>4. ASSUME NEW f, \A s \in SUBSET (1 .. n) : f[s] \in A PROVE Is(f) <=> IsFold(f, F, base, t, n)
  <2>1. \A s \in SUBSET (1 .. n) :
          FoldAt(F, base, t, f, s) = IF s = {} THEN base ELSE TokenStep(f[s \ {Max(s)}], t[Max(s)])
    BY <1>2, <1>3, <1>4 DEF FoldAt
  <2> QED
    BY <2>1 DEF IsFold
<1>5. Is(g)
  <2>1. PICK f : IsFold(f, F, base, t, n)
    BY <1>2, FoldExists
  <2>2. \A s \in SUBSET (1 .. n) : f[s] \in A
    BY <1>2, <2>1, FoldTyped
  <2>3. Is(f)
    BY <1>4, <2>1, <2>2
  <2> HIDE DEF Is
  <2> QED
    BY <2>3 DEF g
<1>6. \A s \in SUBSET (1 .. n) : g[s] \in A
  <2>1. \A s \in SUBSET (1 .. n) :
          g[s] = IF s = {} THEN base ELSE TokenStep(g[s \ {Max(s)}], t[Max(s)])
    BY <1>5
  <2>2. {} \in SUBSET (1 .. n)
    OBVIOUS
  <2> HIDE DEF Is
  <2>3. g[{}] = base
    BY <2>1, <2>2
  <2>4. ASSUME NEW s \in SUBSET (1 .. n), s # {}, g[s \ {Max(s)}] \in A PROVE g[s] \in A
    <3>1. t[Max(s)] \in S /\ g[s] = TokenStep(g[s \ {Max(s)}], t[Max(s)])
      BY <1>3, <2>1, <2>4
    <3> QED
      BY <2>4, <3>1
  <2> QED
    BY <1>2, <2>3, <2>4, FoldStaysIn
<1>7. IsFold(g, F, base, t, n) /\ 1 .. n \in SUBSET (1 .. n)
  BY <1>4, <1>5, <1>6
<1> HIDE DEF Is
<1>8. Gathers(F, base, t, g[1 .. n])
  BY <1>7, FoldGathers
<1> QED
  BY <1>1, <1>6, <1>7, <1>8 DEF F

LEMMA TokenFoldStep ==
  ASSUME NEW A, NEW S, NEW base \in A, \A x \in A, c \in S : TokenStep(x, c) \in A
  PROVE  /\ TokenFold(<<>>, base) = base
         /\ \A t \in Seq(S) : TokenFold(t, base) \in A
         /\ \A t \in Seq(S), c \in S :
              TokenFold(Append(t, c), base) = TokenStep(TokenFold(t, base), c)
<1> DEFINE F == [p \in A \X S |-> TokenStep(p[1], p[2])]
<1>0. \A t \in Seq(S) : TokenFold(t, base) \in A /\ Gathers(F, base, t, TokenFold(t, base))
  BY TokenFoldRun
<1>1. \A x \in A, c \in S : F[<<x, c>>] = TokenStep(x, c)
  OBVIOUS
<1> HIDE DEF F
<1>2. TokenFold(<<>>, base) = base
  <2>1. <<>> \in Seq(S)
    OBVIOUS
  <2> QED
    BY <1>0, <2>1, GathersNone
<1>3. ASSUME NEW t \in Seq(S), NEW c \in S
      PROVE  TokenFold(Append(t, c), base) = TokenStep(TokenFold(t, base), c)
  <2>1. Append(t, c) \in Seq(S)
    BY AppendFacts
  <2>2. TokenFold(Append(t, c), base) = F[<<TokenFold(t, base), c>>]
    <3>1. Gathers(F, base, t, TokenFold(t, base))
      BY <1>0
    <3>2. Gathers(F, base, Append(t, c), TokenFold(Append(t, c), base))
      BY <1>0, <2>1
    <3> QED
      BY <3>1, <3>2, GathersOneMore
  <2> QED
    BY <1>0, <1>1, <2>2
<1> QED
  BY <1>0, <1>2, <1>3

LEMMA ChunkFoldRun ==
  ASSUME NEW A, NEW S, NEW base \in A, \A x \in A, c \in S : ChunkStep(x, c) \in A, NEW t \in Seq(S)
  PROVE  /\ ChunkFold(t, base) \in A
         /\ Gathers([p \in A \X S |-> ChunkStep(p[1], p[2])], base, t, ChunkFold(t, base))
<1> DEFINE F == [p \in A \X S |-> ChunkStep(p[1], p[2])]
           n == Len(t)
           Is(f) == f = [s \in SUBSET (1 .. n) |->
                           IF s = {} THEN base ELSE ChunkStep(f[s \ {Max(s)}], t[Max(s)])]
           g == CHOOSE h : Is(h)
<1>2. /\ n \in Nat /\ DOMAIN t = 1 .. n /\ F \in [A \X S -> A]
      /\ \A x \in A, c \in S : F[<<x, c>>] = ChunkStep(x, c)
  OBVIOUS
<1> HIDE DEF F
<1>1. ChunkFold(t, base) = g[1 .. n]
  BY <1>2 DEF ChunkFold, FoldLeft, MapThenFoldSet
<1> HIDE DEF g
<1>3. \A s \in SUBSET (1 .. n) : s # {} => t[Max(s)] \in S /\ s \ {Max(s)} \in SUBSET (1 .. n)
  <2> SUFFICES ASSUME NEW s \in SUBSET (1 .. n), s # {}
               PROVE  t[Max(s)] \in S /\ s \ {Max(s)} \in SUBSET (1 .. n)
    OBVIOUS
  <2>1. Max(s) \in s
    BY <1>2, MaxUpTo
  <2>2. Max(s) \in 1 .. n
    BY <2>1
  <2>3. t[Max(s)] \in S
    <3> HIDE DEF Is
    <3> QED
      BY <2>2, <1>2
  <2> QED
    BY <2>3
<1>4. ASSUME NEW f, \A s \in SUBSET (1 .. n) : f[s] \in A PROVE Is(f) <=> IsFold(f, F, base, t, n)
  <2>1. \A s \in SUBSET (1 .. n) :
          FoldAt(F, base, t, f, s) = IF s = {} THEN base ELSE ChunkStep(f[s \ {Max(s)}], t[Max(s)])
    BY <1>2, <1>3, <1>4 DEF FoldAt
  <2> QED
    BY <2>1 DEF IsFold
<1>5. Is(g)
  <2>1. PICK f : IsFold(f, F, base, t, n)
    BY <1>2, FoldExists
  <2>2. \A s \in SUBSET (1 .. n) : f[s] \in A
    BY <1>2, <2>1, FoldTyped
  <2>3. Is(f)
    BY <1>4, <2>1, <2>2
  <2> HIDE DEF Is
  <2> QED
    BY <2>3 DEF g
<1>6. \A s \in SUBSET (1 .. n) : g[s] \in A
  <2>1. \A s \in SUBSET (1 .. n) :
          g[s] = IF s = {} THEN base ELSE ChunkStep(g[s \ {Max(s)}], t[Max(s)])
    BY <1>5
  <2>2. {} \in SUBSET (1 .. n)
    OBVIOUS
  <2> HIDE DEF Is
  <2>3. g[{}] = base
    BY <2>1, <2>2
  <2>4. ASSUME NEW s \in SUBSET (1 .. n), s # {}, g[s \ {Max(s)}] \in A PROVE g[s] \in A
    <3>1. t[Max(s)] \in S /\ g[s] = ChunkStep(g[s \ {Max(s)}], t[Max(s)])
      BY <1>3, <2>1, <2>4
    <3> QED
      BY <2>4, <3>1
  <2> QED
    BY <1>2, <2>3, <2>4, FoldStaysIn
<1>7. IsFold(g, F, base, t, n) /\ 1 .. n \in SUBSET (1 .. n)
  BY <1>4, <1>5, <1>6
<1> HIDE DEF Is
<1>8. Gathers(F, base, t, g[1 .. n])
  BY <1>7, FoldGathers
<1> QED
  BY <1>1, <1>6, <1>7, <1>8 DEF F

LEMMA ChunkFoldStep ==
  ASSUME NEW A, NEW S, NEW base \in A, \A x \in A, c \in S : ChunkStep(x, c) \in A
  PROVE  /\ ChunkFold(<<>>, base) = base
         /\ \A t \in Seq(S) : ChunkFold(t, base) \in A
         /\ \A t \in Seq(S), c \in S :
              ChunkFold(Append(t, c), base) = ChunkStep(ChunkFold(t, base), c)
<1> DEFINE F == [p \in A \X S |-> ChunkStep(p[1], p[2])]
<1>0. \A t \in Seq(S) : ChunkFold(t, base) \in A /\ Gathers(F, base, t, ChunkFold(t, base))
  BY ChunkFoldRun
<1>1. \A x \in A, c \in S : F[<<x, c>>] = ChunkStep(x, c)
  OBVIOUS
<1> HIDE DEF F
<1>2. ChunkFold(<<>>, base) = base
  <2>1. <<>> \in Seq(S)
    OBVIOUS
  <2> QED
    BY <1>0, <2>1, GathersNone
<1>3. ASSUME NEW t \in Seq(S), NEW c \in S
      PROVE  ChunkFold(Append(t, c), base) = ChunkStep(ChunkFold(t, base), c)
  <2>1. Append(t, c) \in Seq(S)
    BY AppendFacts
  <2>2. ChunkFold(Append(t, c), base) = F[<<ChunkFold(t, base), c>>]
    <3>1. Gathers(F, base, t, ChunkFold(t, base))
      BY <1>0
    <3>2. Gathers(F, base, Append(t, c), ChunkFold(Append(t, c), base))
      BY <1>0, <2>1
    <3> QED
      BY <3>1, <3>2, GathersOneMore
  <2> QED
    BY <1>0, <1>1, <2>2
<1> QED
  BY <1>0, <1>2, <1>3

LEMMA HeaderFoldRun ==
  ASSUME NEW name, NEW A, NEW S, NEW base \in A, \A x \in A, c \in S : HeaderStep(name, x, c) \in A, NEW t \in Seq(S)
  PROVE  /\ HeaderFold(name, t, base) \in A
         /\ Gathers([p \in A \X S |-> HeaderStep(name, p[1], p[2])], base, t, HeaderFold(name, t, base))
<1> DEFINE F == [p \in A \X S |-> HeaderStep(name, p[1], p[2])]
           n == Len(t)
           Is(f) == f = [s \in SUBSET (1 .. n) |->
                           IF s = {} THEN base ELSE HeaderStep(name, f[s \ {Max(s)}], t[Max(s)])]
           g == CHOOSE h : Is(h)
<1>2. /\ n \in Nat /\ DOMAIN t = 1 .. n /\ F \in [A \X S -> A]
      /\ \A x \in A, c \in S : F[<<x, c>>] = HeaderStep(name, x, c)
  OBVIOUS
<1> HIDE DEF F
<1>1. HeaderFold(name, t, base) = g[1 .. n]
  BY <1>2 DEF HeaderFold, FoldLeft, MapThenFoldSet
<1> HIDE DEF g
<1>3. \A s \in SUBSET (1 .. n) : s # {} => t[Max(s)] \in S /\ s \ {Max(s)} \in SUBSET (1 .. n)
  <2> SUFFICES ASSUME NEW s \in SUBSET (1 .. n), s # {}
               PROVE  t[Max(s)] \in S /\ s \ {Max(s)} \in SUBSET (1 .. n)
    OBVIOUS
  <2>1. Max(s) \in s
    BY <1>2, MaxUpTo
  <2>2. Max(s) \in 1 .. n
    BY <2>1
  <2>3. t[Max(s)] \in S
    <3> HIDE DEF Is
    <3> QED
      BY <2>2, <1>2
  <2> QED
    BY <2>3
<1>4. ASSUME NEW f, \A s \in SUBSET (1 .. n) : f[s] \in A PROVE Is(f) <=> IsFold(f, F, base, t, n)
  <2>1. \A s \in SUBSET (1 .. n) :
          FoldAt(F, base, t, f, s) = IF s = {} THEN base ELSE HeaderStep(name, f[s \ {Max(s)}], t[Max(s)])
    BY <1>2, <1>3, <1>4 DEF FoldAt
  <2> QED
    BY <2>1 DEF IsFold
<1>5. Is(g)
  <2>1. PICK f : IsFold(f, F, base, t, n)
    BY <1>2, FoldExists
  <2>2. \A s \in SUBSET (1 .. n) : f[s] \in A
    BY <1>2, <2>1, FoldTyped
  <2>3. Is(f)
    BY <1>4, <2>1, <2>2
  <2> HIDE DEF Is
  <2> QED
    BY <2>3 DEF g
<1>6. \A s \in SUBSET (1 .. n) : g[s] \in A
  <2>1. \A s \in SUBSET (1 .. n) :
          g[s] = IF s = {} THEN base ELSE HeaderStep(name, g[s \ {Max(s)}], t[Max(s)])
    BY <1>5
  <2>2. {} \in SUBSET (1 .. n)
    OBVIOUS
  <2> HIDE DEF Is
  <2>3. g[{}] = base
    BY <2>1, <2>2
  <2>4. ASSUME NEW s \in SUBSET (1 .. n), s # {}, g[s \ {Max(s)}] \in A PROVE g[s] \in A
    <3>1. t[Max(s)] \in S /\ g[s] = HeaderStep(name, g[s \ {Max(s)}], t[Max(s)])
      BY <1>3, <2>1, <2>4
    <3> QED
      BY <2>4, <3>1
  <2> QED
    BY <1>2, <2>3, <2>4, FoldStaysIn
<1>7. IsFold(g, F, base, t, n) /\ 1 .. n \in SUBSET (1 .. n)
  BY <1>4, <1>5, <1>6
<1> HIDE DEF Is
<1>8. Gathers(F, base, t, g[1 .. n])
  BY <1>7, FoldGathers
<1> QED
  BY <1>1, <1>6, <1>7, <1>8 DEF F

LEMMA HeaderFoldStep ==
  ASSUME NEW name, NEW A, NEW S, NEW base \in A, \A x \in A, c \in S : HeaderStep(name, x, c) \in A
  PROVE  HeaderSteps(name, A, S, base)
<1> DEFINE F == [p \in A \X S |-> HeaderStep(name, p[1], p[2])]
<1>0. \A t \in Seq(S) : HeaderFold(name, t, base) \in A /\ Gathers(F, base, t, HeaderFold(name, t, base))
  BY HeaderFoldRun
<1>1. \A x \in A, c \in S : F[<<x, c>>] = HeaderStep(name, x, c)
  OBVIOUS
<1> HIDE DEF F
<1>2. HeaderFold(name, <<>>, base) = base
  <2>1. <<>> \in Seq(S)
    OBVIOUS
  <2> QED
    BY <1>0, <2>1, GathersNone
<1>3. ASSUME NEW t \in Seq(S), NEW c \in S
      PROVE  HeaderFold(name, Append(t, c), base) = HeaderStep(name, HeaderFold(name, t, base), c)
  <2>1. Append(t, c) \in Seq(S)
    BY AppendFacts
  <2>2. HeaderFold(name, Append(t, c), base) = F[<<HeaderFold(name, t, base), c>>]
    <3>1. Gathers(F, base, t, HeaderFold(name, t, base))
      BY <1>0
    <3>2. Gathers(F, base, Append(t, c), HeaderFold(name, Append(t, c), base))
      BY <1>0, <2>1
    <3> QED
      BY <3>1, <3>2, GathersOneMore
  <2> QED
    BY <1>0, <1>1, <2>2
<1> QED
  BY <1>0, <1>2, <1>3 DEF HeaderSteps

LEMMA FoldsAre ==
  /\ \A t : Count(t) = CountFold(t, 0)
  /\ \A t : Tokens(t) = TokenFold(t, <<<<>>>>)
  /\ \A t : LET end == ChunkFold(t, [words |-> <<>>, chunk |-> <<>>]) IN
       Chunks(t) = IF end.chunk = <<>> THEN end.words ELSE Append(end.words, end.chunk)
  /\ \A name, t : Fold(name, t) = HeaderFold(name, Tokens(t), name)
<1>1. \A t : Count(t) = CountFold(t, 0)
  BY DEF Count, CountFold, CountStep, FoldLeft, MapThenFoldSet
<1>2. \A t : Tokens(t) = TokenFold(t, <<<<>>>>)
  BY DEF Tokens, TokenFold, TokenStep, FoldLeft, MapThenFoldSet
<1>3. \A t : LET end == ChunkFold(t, [words |-> <<>>, chunk |-> <<>>]) IN
       Chunks(t) = IF end.chunk = <<>> THEN end.words ELSE Append(end.words, end.chunk)
  BY DEF Chunks, ChunkFold, ChunkStep, FoldLeft, MapThenFoldSet
<1>4. \A name, t : Fold(name, t) = HeaderFold(name, Tokens(t), name)
  BY DEF Fold, HeaderFold, HeaderStep, FoldLeft, MapThenFoldSet
<1> QED
  BY <1>1, <1>2, <1>3, <1>4

LEMMA BytesAppend ==
  ASSUME NEW S, \A c \in S : Bytes(c) \in Nat
  PROVE  /\ BytesOf(<<>>) = 0
         /\ \A t \in Seq(S) : BytesOf(t) \in Nat
         /\ \A t \in Seq(S), c \in S : BytesOf(Append(t, c)) = BytesOf(t) + Bytes(c)
<1> DEFINE F == BytesStep(Nat, S)
<1>1. ASSUME NEW t \in Seq(S) PROVE BytesOf(t) \in Nat /\ Gathers(F, 0, t, BytesOf(t))
  <2>1. PICK a : IsRun(a, F, 0, t) /\ BytesOf(t) = a[Len(t)] /\ a[Len(t)] \in Nat
    BY BytesRun
  <2> HIDE DEF F
  <2> QED
    BY <2>1 DEF Gathers
<1>2. \A x \in Nat, c \in S : F[<<x, c>>] = x + Bytes(c)
  BY DEF BytesStep
<1> HIDE DEF F
<1>3. BytesOf(<<>>) = 0
  <2>1. <<>> \in Seq(S)
    OBVIOUS
  <2> QED
    BY <1>1, <2>1, GathersNone
<1>4. ASSUME NEW t \in Seq(S), NEW c \in S PROVE BytesOf(Append(t, c)) = BytesOf(t) + Bytes(c)
  <2>1. Gathers(F, 0, t, BytesOf(t)) /\ BytesOf(t) \in Nat
    BY <1>1
  <2>2. Gathers(F, 0, Append(t, c), BytesOf(Append(t, c)))
    BY <1>1, AppendFacts
  <2> QED
    BY <1>2, <2>1, <2>2, GathersOneMore
<1> QED
  BY <1>1, <1>3, <1>4

----------------------------------------------------------------------------
(***************************************************************************)
(* Pieces of a header: characters, encoded words and breaks.               *)
(***************************************************************************)

Piece(S) == [kind : {"char", "word", "break"}, text : Seq(S), width : Nat]

LEMMA PieceFacts ==
  ASSUME NEW S
  PROVE  /\ Break \in Piece(S) /\ Break.width = 1
         /\ \A c \in S : Char(c) \in Piece(S) /\ Char(c) # Break /\ (Char(c) = Space <=> c = SP)
         /\ \A t : Word(t) # Break /\ Word(t) # Space /\ Word(t).kind = "word" /\ Word(t).text = t
         /\ Space # Break /\ Space.kind = "char" /\ Space.width = 1
<1>1. Break \in Piece(S) /\ Break.width = 1
  BY DEF Piece, Break
<1>2. ASSUME NEW c \in S PROVE Char(c) \in Piece(S) /\ Char(c) # Break /\ (Char(c) = Space <=> c = SP)
  <2>1. Char(c) \in Piece(S) /\ Char(c).kind = "char" /\ Break.kind = "break"
    BY DEF Char, Break, Piece
  <2>2. Char(c).text = <<c>> /\ Space.text = <<SP>>
    BY DEF Char, Space
  <2>3. <<c>> = <<SP>> => c = SP
    <3>1. <<c>>[1] = c /\ <<SP>>[1] = SP
      OBVIOUS
    <3> QED
      BY <3>1
  <2>4. c = SP => Char(c) = Space
    BY DEF Space
  <2> QED
    BY <2>1, <2>2, <2>3, <2>4
<1>3. ASSUME NEW t PROVE Word(t) # Break /\ Word(t) # Space /\ Word(t).kind = "word" /\ Word(t).text = t
  <2>1. Word(t).kind = "word" /\ Word(t).text = t /\ Break.kind = "break" /\ Space.kind = "char"
    BY DEF Word, Break, Space, Char
  <2> QED
    BY <2>1
<1>4. Space # Break /\ Space.kind = "char" /\ Space.width = 1
  <2>1. Space.kind = "char" /\ Space.width = 1 /\ Break.kind = "break"
    BY DEF Space, Char, Break
  <2> QED
    BY <2>1
<1> QED
  BY <1>1, <1>2, <1>3, <1>4

LEMMA WordTyped ==
  ASSUME NEW S, \A c \in S : Bytes(c) \in Nat, NEW t \in Seq(S)
  PROVE  Word(t) \in Piece(S)
<1>1. BytesOf(t) \in Nat
  BY BytesAppend
<1>2. Base64Length(BytesOf(t)) \in Nat
  BY <1>1 DEF Base64Length
<1>3. WordOverhead + Base64Length(BytesOf(t)) \in Nat
  BY <1>2, EmlAssumption
<1> QED
  BY <1>3 DEF Word, Piece

\* The columns of a header, piece by piece and part by part.
LEMMA CountAppend ==
  ASSUME NEW S
  PROVE  /\ Count(<<>>) = 0
         /\ \A t \in Seq(Piece(S)) : Count(t) \in Nat
         /\ \A t \in Seq(Piece(S)), p \in Piece(S) : Count(Append(t, p)) = Count(t) + p.width
<1> DEFINE P == Piece(S)
<1>1. \A x \in Nat, p \in P : CountStep(x, p) \in Nat /\ CountStep(x, p) = x + p.width
  BY DEF CountStep, Piece
<1> HIDE DEF P
<1> DEFINE N == Nat
<1>6. PICK z \in N : z = 0
  OBVIOUS
<1>8. z \in N
  BY <1>6
<1>7. \A x \in N, c \in P : CountStep(x, c) \in N
  BY <1>1
<1> HIDE DEF N
<1>3. /\ CountFold(<<>>, z) = z
      /\ \A t \in Seq(P) : CountFold(t, z) \in N
      /\ \A t \in Seq(P), c \in P :
           CountFold(Append(t, c), z) = CountStep(CountFold(t, z), c)
  BY <1>8, <1>7, CountFoldStep
<1>4. \A t : Count(t) = CountFold(t, z)
  BY <1>6, FoldsAre
<1>5. ASSUME NEW t \in Seq(P), NEW p \in P PROVE Count(Append(t, p)) = Count(t) + p.width
  <2>1. CountFold(t, z) \in Nat /\ CountFold(Append(t, p), z) = CountStep(CountFold(t, z), p)
    BY <1>3 DEF N
  <2> QED
    BY <1>1, <1>4, <2>1
<1> QED
  BY <1>3, <1>4, <1>5, <1>6 DEF P, N

LEMMA CountConcat ==
  ASSUME NEW S, NEW a \in Seq(Piece(S)), NEW b \in Seq(Piece(S))
  PROVE  Count(a \o b) = Count(a) + Count(b) /\ Count(a) \in Nat /\ Count(b) \in Nat
<1> DEFINE P == Piece(S)
           G == {t \in Seq(P) : Count(a \o t) = Count(a) + Count(t)}
<1>0. /\ Count(<<>>) = 0
      /\ \A t \in Seq(P) : Count(t) \in Nat
      /\ \A t \in Seq(P), p \in P : Count(Append(t, p)) = Count(t) + p.width
  BY CountAppend
<1>1. \A p \in P : p.width \in Nat
  BY DEF Piece
<1> HIDE DEF P
<1>2. a \in Seq(P) /\ b \in Seq(P)
  BY DEF P
<1>3. <<>> \in G
  <2>1. a \o <<>> = a /\ <<>> \in Seq(P)
    BY <1>2, ConcatEmptySeq
  <2>2. Count(a) + 0 = Count(a)
    BY <1>0, <1>2
  <2> QED
    BY <1>0, <2>1, <2>2
<1>4. ASSUME NEW t \in Seq(P), NEW p \in P, t \in G PROVE Append(t, p) \in G
  <2>1. a \o t \in Seq(P) /\ a \o Append(t, p) = Append(a \o t, p)
    BY <1>2, AppendToConcat
  <2> DEFINE u == a \o t
  <2>2. u \in Seq(P) /\ Count(u) = Count(a) + Count(t)
    BY <1>4, <2>1
  <2> HIDE DEF u
  <2>3. Count(Append(u, p)) = Count(u) + p.width /\ Count(Append(t, p)) = Count(t) + p.width
    BY <1>0, <2>2
  <2>4. Count(Append(u, p)) = Count(a) + Count(Append(t, p))
    BY <1>0, <1>1, <1>2, <2>2, <2>3
  <2>5. Append(t, p) \in Seq(P)
    BY AppendFacts
  <2> QED
    BY <2>1, <2>4, <2>5 DEF u
<1>5. b \in G
  <2> HIDE DEF G
  <2> QED
    BY <1>2, <1>3, <1>4, ByAppending
<1> QED
  BY <1>0, <1>2, <1>5

----------------------------------------------------------------------------
(***************************************************************************)
(* The lines of a header: those that a break has ended, and the last one.  *)
(***************************************************************************)

ClosedLines(h) == {LastLine(Take(h, j - 1)) : j \in {j \in 1 .. Len(h) : h[j] = Break}}

LEMMA EmptyHeader == LastLine(<<>>) = <<>> /\ ClosedLines(<<>>) = {}
<1>1. {i \in 1 .. Len(<<>>) : <<>>[i] = Break} = {}
  OBVIOUS
<1> QED
  BY <1>1 DEF LastLine, ClosedLines

LEMMA LastLineAppend ==
  ASSUME NEW P, NEW h \in Seq(P), NEW p \in P
  PROVE  /\ LastLine(Append(h, p)) = IF p = Break THEN <<>> ELSE Append(LastLine(h), p)
         /\ LastLine(h) \in Seq(P)
<1> DEFINE e == Append(h, p)
           n == Len(h)
           I == {i \in 1 .. n : h[i] = Break}
           J == {i \in 1 .. Len(e) : e[i] = Break}
<1>1. /\ n \in Nat /\ e \in Seq(P) /\ Len(e) = n + 1 /\ e[n + 1] = p
      /\ \A i \in 1 .. n : e[i] = h[i]
      /\ DOMAIN h = 1 .. n
  BY AppendFacts
<1>2. LastLine(h) = IF I = {} THEN h ELSE SubSeq(h, Max(I) + 1, n)
  BY DEF LastLine
<1>3. LastLine(e) = IF J = {} THEN e ELSE SubSeq(e, Max(J) + 1, Len(e))
  BY DEF LastLine
<1> HIDE DEF e
<1>4. p = Break => J = I \cup {n + 1}
  BY <1>1
<1>5. p # Break => J = I
  BY <1>1
<1>6. I \in SUBSET (1 .. n) /\ I \in SUBSET Nat
  OBVIOUS
<1> HIDE DEF I, J, n
<1>7. ASSUME I # {} PROVE Max(I) \in 1 .. n
  BY <1>1, <1>6, <1>7, MaxUpTo
<1>11. LastLine(h) \in Seq(P)
  <2>1. CASE I = {}
    BY <1>2, <2>1
  <2>2. CASE I # {}
    <3>1. PICK m \in 1 .. n : m = Max(I)
      BY <1>7, <2>2
    <3>2. m + 1 \in Int /\ n \in Int /\ \A i \in m + 1 .. n : i \in 1 .. n /\ h[i] \in P
      BY <1>1
    <3>3. \A i \in m + 1 .. n : h[i] \in P
      BY <3>2
    <3>4. SubSeq(h, m + 1, n) \in Seq(P)
      BY <3>2, <3>3, SubSeqProperties
    <3> QED
      BY <1>2, <2>2, <3>1, <3>4
  <2> QED
    BY <2>1, <2>2
<1>8. CASE p = Break
  <2>0. n + 1 \in Nat /\ \A x \in 1 .. n : x <= n + 1 /\ x \in Nat
    BY <1>1
  <2>1. J \in SUBSET Nat /\ n + 1 \in J /\ \A x \in J : x <= n + 1
    <3>1. J = I \cup {n + 1}
      BY <1>4, <1>8
    <3>2. I \subseteq 1 .. n
      BY <1>6
    <3>3. n + 1 \in J /\ \A x \in J : x \in Nat /\ x <= n + 1
      BY <2>0, <3>1, <3>2
    <3> QED
      BY <3>3
  <2>2. Max(J) = n + 1
    BY <2>1, MaxIs
  <2>3. SubSeq(e, n + 1 + 1, n + 1) = <<>>
    BY <1>1, SubSeqEmpty
  <2>4. J # {}
    BY <2>1
  <2>5. LastLine(e) = SubSeq(e, n + 1 + 1, n + 1)
    BY <1>1, <1>3, <2>2, <2>4
  <2>6. LastLine(e) = <<>>
    BY <2>3, <2>5
  <2> QED
    BY <1>8, <1>11, <2>6 DEF e
<1>9. CASE p # Break /\ I = {}
  BY <1>2, <1>3, <1>5, <1>9, <1>11 DEF e
<1>10. CASE p # Break /\ I # {}
  <2>1. PICK m \in 1 .. n : m = Max(I)
    BY <1>7, <1>10
  <2> DEFINE a == SubSeq(h, m + 1, n)
             b == SubSeq(e, m + 1, n)
  <2>2. SubSeq(e, m + 1, n + 1) = b \o <<p>>
    <3>0. PICK k \in 1 .. Len(e), l \in 1 .. Len(e) : k = m + 1 /\ l = n + 1
      BY <1>1
    <3>1. l \in k .. Len(e) /\ l - 1 = n
      BY <1>1, <3>0
    <3>2. SubSeq(e, k, l) = SubSeq(e, k, l - 1) \o <<e[l]>>
      BY <1>1, <3>1, SubSeqRecursiveSecond
    <3> QED
      BY <1>1, <3>0, <3>1, <3>2
  <2>3. a \in Seq(P) /\ a = b
    <3>1. m + 1 \in Int /\ n \in Int /\ \A i \in m + 1 .. n : i \in 1 .. n /\ h[i] \in P /\ e[i] = h[i]
      BY <1>1
    <3>2. \A i \in m + 1 .. n : h[i] \in P /\ e[i] \in P
      BY <3>1
    <3>3. /\ a \in Seq(P) /\ Len(a) = IF m + 1 <= n THEN n - (m + 1) + 1 ELSE 0
          /\ \A i \in 1 .. n - (m + 1) + 1 : a[i] = h[m + 1 + i - 1]
      BY <3>1, <3>2, SubSeqProperties
    <3>4. /\ b \in Seq(P) /\ Len(b) = IF m + 1 <= n THEN n - (m + 1) + 1 ELSE 0
          /\ \A i \in 1 .. n - (m + 1) + 1 : b[i] = e[m + 1 + i - 1]
      BY <3>1, <3>2, SubSeqProperties
    <3> DEFINE l == n - (m + 1) + 1
    <3>5. l \in Nat /\ Len(a) = l /\ Len(b) = l
      BY <1>1, <3>3, <3>4
    <3>6. \A i \in 1 .. l : m + 1 + i - 1 \in m + 1 .. n
      BY <1>1
    <3>7. \A i \in 1 .. l : a[i] = b[i]
      <4> TAKE i \in 1 .. l
      <4>1. PICK k \in m + 1 .. n : k = m + 1 + i - 1
        BY <3>6
      <4>2. e[k] = h[k]
        BY <3>1
      <4> HIDE DEF a, b
      <4> QED
        BY <3>3, <3>4, <4>1, <4>2
    <3> HIDE DEF a, b, l
    <3>8. a = b
      BY <3>3, <3>4, <3>5, <3>7, SeqEqual
    <3> QED
      BY <3>3, <3>8
  <2>4. LastLine(h) = a
    BY <1>2, <1>10, <2>1
  <2>5. LastLine(e) = b \o <<p>>
    <3>1. J # {} /\ Max(J) = m
      BY <1>5, <1>10, <2>1
    <3> QED
      BY <1>1, <1>3, <2>2, <3>1
  <2> HIDE DEF a, b
  <2>6. a \o <<p>> = Append(a, p)
    BY <2>3, AppendIsConcat
  <2>7. LastLine(e) = Append(a, p)
    BY <2>3, <2>5, <2>6
  <2> QED
    BY <1>10, <1>11, <2>4, <2>7 DEF e
<1> QED
  BY <1>8, <1>9, <1>10, <1>11 DEF e
LEMMA ClosedAppend ==
  ASSUME NEW P, NEW h \in Seq(P), NEW p \in P
  PROVE  ClosedLines(Append(h, p)) =
           ClosedLines(h) \cup (IF p = Break THEN {LastLine(h)} ELSE {})
<1> DEFINE e == Append(h, p)
           n == Len(h)
           I == {j \in 1 .. n : h[j] = Break}
           J == {j \in 1 .. Len(e) : e[j] = Break}
<1>1. /\ n \in Nat /\ e \in Seq(P) /\ Len(e) = n + 1 /\ e[n + 1] = p
      /\ \A i \in 1 .. n : e[i] = h[i]
  BY AppendFacts
<1>2. ClosedLines(e) = {LastLine(Take(e, j - 1)) : j \in J}
  BY DEF ClosedLines
<1>3. ClosedLines(h) = {LastLine(Take(h, j - 1)) : j \in I}
  BY DEF ClosedLines
<1>4. \A k \in 0 .. n : Take(e, k) = Take(h, k)
  <2> TAKE k \in 0 .. n
  <2> HIDE DEF e
  <2>1. k \in 0 .. Len(e) /\ k \in 0 .. Len(h) /\ \A i \in 1 .. k : i \in 1 .. n
    BY <1>1
  <2>2. /\ Take(e, k) \in Seq(P) /\ Len(Take(e, k)) = k
        /\ Take(h, k) \in Seq(P) /\ Len(Take(h, k)) = k
    BY <1>1, <2>1, CutFacts
  <2>3. \A i \in 1 .. k : Take(e, k)[i] = e[i] /\ Take(h, k)[i] = h[i]
    BY <1>1, <2>1, TakeElements
  <2>4. \A i \in 1 .. k : Take(e, k)[i] = Take(h, k)[i]
    BY <1>1, <2>1, <2>3
  <2> QED
    BY <2>2, <2>4, SeqEqual
<1>5. Take(e, n) = h
  BY <1>1, <1>4, TakeEnds
<1> HIDE DEF e
<1>6. J = I \cup (IF p = Break THEN {n + 1} ELSE {})
  BY <1>1
<1>7. \A j \in I : Take(e, j - 1) = Take(h, j - 1)
  <2> TAKE j \in I
  <2>1. PICK k \in 0 .. n : k = j - 1
    BY <1>1
  <2> QED
    BY <1>4, <2>1
<1>8. PICK m : m = n + 1 /\ m - 1 = n
  BY <1>1
<1> HIDE DEF I, J, n
<1>9. CASE p = Break
  <2>1. J = I \cup {m}
    BY <1>6, <1>8, <1>9
  <2>2. {LastLine(Take(e, j - 1)) : j \in J} =
          {LastLine(Take(e, j - 1)) : j \in I} \cup {LastLine(Take(e, m - 1))}
    BY <2>1, Zenon
  <2>3. {LastLine(Take(e, j - 1)) : j \in I} = {LastLine(Take(h, j - 1)) : j \in I}
    BY <1>7
  <2>4. LastLine(Take(e, m - 1)) = LastLine(h)
    BY <1>5, <1>8, Zenon
  <2> QED
    BY <1>2, <1>3, <1>9, <2>2, <2>3, <2>4, Zenon DEF e
<1>10. CASE p # Break
  <2>1. J = I
    BY <1>6, <1>10
  <2>2. {LastLine(Take(e, j - 1)) : j \in I} = {LastLine(Take(h, j - 1)) : j \in I}
    BY <1>7
  <2> QED
    BY <1>2, <1>3, <1>10, <2>1, <2>2 DEF e
<1> QED
  BY <1>9, <1>10

\* A part without a break makes the last line longer.
LEMMA LineGoesOn ==
  ASSUME NEW P, NEW h \in Seq(P), NEW b \in Seq(P \ {Break})
  PROVE  /\ LastLine(h \o b) = LastLine(h) \o b
         /\ ClosedLines(h \o b) = ClosedLines(h)
         /\ h \o b \in Seq(P)
<1> DEFINE Q == P \ {Break}
           G == {t \in Seq(Q) : /\ LastLine(h \o t) = LastLine(h) \o t
                                /\ ClosedLines(h \o t) = ClosedLines(h)
                                /\ h \o t \in Seq(P)}
<1>1. LastLine(h) \in Seq(P)
  <2>1. PICK l : l = LastLine(h)
    OBVIOUS
  <2>2. \A p \in P : LastLine(h) \in Seq(P)
    BY LastLineAppend
  <2>3. CASE P = {}
    <3>1. h = <<>>
      BY <2>3
    <3> QED
      BY <3>1, EmptyHeader
  <2> QED
    BY <2>2, <2>3
<1>2. <<>> \in G
  <2>1. h \o <<>> = h /\ LastLine(h) \o <<>> = LastLine(h) /\ <<>> \in Seq(Q)
    BY <1>1, ConcatEmptySeq
  <2> QED
    BY <2>1
<1>3. ASSUME NEW t \in Seq(Q), NEW q \in Q, t \in G PROVE Append(t, q) \in G
  <2> DEFINE u == h \o t
             l == LastLine(h)
  <2>1. /\ u \in Seq(P) /\ LastLine(u) = l \o t /\ ClosedLines(u) = ClosedLines(h)
        /\ l \in Seq(P) /\ q \in P /\ q # Break
    BY <1>1, <1>3
  <2>2. t \in Seq(P)
    <3>1. \A i \in 1 .. Len(t) : t[i] \in P
      OBVIOUS
    <3> QED
      BY <3>1
  <2>3. h \o Append(t, q) = Append(u, q) /\ l \o Append(t, q) = Append(l \o t, q)
    BY <2>1, <2>2, AppendToConcat, SMTT(30)
  <2> HIDE DEF u, l
  <2>4. LastLine(Append(u, q)) = Append(LastLine(u), q)
    BY <2>1, LastLineAppend
  <2>5. ClosedLines(Append(u, q)) = ClosedLines(u)
    BY <2>1, ClosedAppend, ZenonT(30)
  <2>6. Append(u, q) \in Seq(P) /\ Append(t, q) \in Seq(Q)
    BY <2>1, AppendFacts
  <2>7. LastLine(Append(u, q)) = l \o Append(t, q) /\ ClosedLines(Append(u, q)) = ClosedLines(h)
    BY <2>1, <2>3, <2>4, <2>5
  <2> QED
    BY <2>3, <2>6, <2>7 DEF l
<1>4. b \in G
  <2> HIDE DEF G, Q
  <2>1. b \in Seq(Q)
    BY DEF Q
  <2> QED
    BY <1>2, <1>3, <2>1, ByAppending
<1> QED
  BY <1>4
----------------------------------------------------------------------------
(***************************************************************************)
(* What a line of a header may be: m columns at most, encoded words of the *)
(* allowed length, and something to see on it unless d says that there may *)
(* be nothing.                                                             *)
(***************************************************************************)
FineWord(p) == p.kind = "word" => BytesOf(p.text) <= WordBytes \/ Len(p.text) = 1
FineLine(l, m, d) ==
  /\ Count(l) <= m
  /\ \A i \in 1 .. Len(l) : FineWord(l[i])
  /\ d \/ \E i \in 1 .. Len(l) : l[i] # Space

\* What a token is made of, and a token: not empty unless d, and perhaps with a break at
\* its end, as an encoded word that another one follows.
Ink(S) == {p \in Piece(S) : p # Break /\ p # Space /\ FineWord(p)}
TokenOf(S, n, d) ==
  {k \in Seq(Piece(S)) :
     /\ Count(k) <= n
     /\ \E a \in Seq(Ink(S)) : (a # <<>> \/ d) /\ (k = a \/ k = Append(a, Break))}

\* A header so far.
Folded(r, S, m, d) ==
  /\ r \in Seq(Piece(S))
  /\ \A l \in ClosedLines(r) : FineLine(l, m, d)
  /\ LastLine(r) = <<>> \/ FineLine(LastLine(r), m, d)

LEMMA InkTyped ==
  ASSUME NEW S, SP \in S, NEW a \in Seq(Ink(S))
  PROVE  /\ a \in Seq(Piece(S)) /\ a \in Seq(Piece(S) \ {Break})
         /\ Space \in Piece(S) \ {Break} /\ Break \in Piece(S)
<1>1. \A i \in 1 .. Len(a) : a[i] \in Piece(S) \ {Break}
  BY DEF Ink
<1>2. a \in Seq(Piece(S)) /\ a \in Seq(Piece(S) \ {Break})
  BY <1>1
<1>3. Space \in Piece(S) /\ Space # Break /\ Break \in Piece(S)
  BY PieceFacts DEF Space
<1> QED
  BY <1>2, <1>3

LEMMA SpaceIsFine == FineWord(Space)
BY PieceFacts DEF FineWord

\* A token without a break on the last line.
LEMMA LineTakes ==
  ASSUME NEW S, SP \in S, NEW r \in Seq(Piece(S)), NEW a \in Seq(Ink(S)), NEW m \in Nat,
         NEW d \in BOOLEAN, a # <<>> \/ LastLine(r) # <<>> \/ d, Count(LastLine(r)) + Count(a) + 1 <= m,
         LastLine(r) = <<>> \/ FineLine(LastLine(r), m, d)
  PROVE  /\ (r \o <<Space>>) \o a \in Seq(Piece(S))
         /\ ClosedLines((r \o <<Space>>) \o a) = ClosedLines(r)
         /\ FineLine(LastLine((r \o <<Space>>) \o a), m, d)
<1> DEFINE P == Piece(S)
           Q == P \ {Break}
           l == LastLine(r)
           b == <<Space>> \o a
           sp == <<Space>>
<1>1. a \in Seq(P) /\ a \in Seq(Q) /\ Space \in Q /\ Break \in P
  BY InkTyped
<1>2. l \in Seq(P)
  BY <1>1, LastLineAppend
<1>3. sp \in Seq(Q) /\ sp \in Seq(P) /\ Len(sp) = 1 /\ sp[1] = Space /\ sp = Append(<<>>, Space)
  BY <1>1
<1>4. Count(sp) = 1
  <2>0. \A t \in Seq(P), p \in P : Count(Append(t, p)) = Count(t) + p.width
    BY CountAppend
  <2>1. Count(Append(<<>>, Space)) = Count(<<>>) + Space.width
    <3> HIDE DEF P
    <3>1. <<>> \in Seq(P) /\ Space \in P
      BY <1>1
    <3> QED
      BY <2>0, <3>1
  <2>2. Count(<<>>) = 0 /\ Space.width = 1
    BY CountAppend, PieceFacts
  <2> QED
    BY <1>3, <2>1, <2>2
<1> HIDE DEF sp, l
<1>5. b \in Seq(Q) /\ b \in Seq(P) /\ Len(b) = Len(a) + 1 /\ b[1] = Space /\ Len(a) \in Nat
      /\ \A i \in 1 .. Len(a) : b[i + 1] = a[i]
  <2> HIDE DEF P, Q
  <2>1. b = sp \o a
    BY DEF sp
  <2>2. sp \o a \in Seq(Q) /\ sp \o a \in Seq(P) /\ Len(sp \o a) = Len(a) + 1
    BY <1>1, <1>3
  <2>3. (sp \o a)[1] = Space /\ \A i \in 1 .. Len(a) : (sp \o a)[i + 1] = a[i]
    BY <1>1, <1>3
  <2> QED
    BY <1>1, <2>1, <2>2, <2>3
<1>6. (r \o sp) \o a = r \o b
  <2>1. (r \o sp) \o a = r \o (sp \o a)
    BY <1>1, <1>3, AssociativeIn
  <2> QED
    BY <2>1 DEF sp
<1>7. Count(b) = Count(a) + 1 /\ Count(a) \in Nat
  <2>1. Count(sp \o a) = Count(sp) + Count(a) /\ Count(a) \in Nat
    BY <1>1, <1>3, CountConcat
  <2> QED
    BY <1>4, <2>1 DEF sp
<1> HIDE DEF b, P, Q
<1>8. LastLine(r \o b) = l \o b /\ ClosedLines(r \o b) = ClosedLines(r) /\ r \o b \in Seq(P)
  BY <1>5, LineGoesOn DEF P, Q, l
<1>9. Count(l \o b) = Count(l) + Count(b) /\ Count(l) \in Nat
  BY <1>2, <1>5, CountConcat DEF P
<1>10. Count(l \o b) <= m
  BY <1>7, <1>9 DEF l
<1>11. /\ l \o b \in Seq(P) /\ Len(l \o b) = Len(l) + Len(b) /\ Len(l) \in Nat
       /\ \A i \in 1 .. Len(l) : (l \o b)[i] = l[i]
       /\ \A i \in 1 .. Len(b) : (l \o b)[Len(l) + i] = b[i]
  <2>1. l \in Seq(P) /\ b \in Seq(P)
    BY <1>2, <1>5
  <2>2. l \o b \in Seq(P)
    BY <2>1, ConcatProperties
  <2>3. Len(l \o b) = Len(l) + Len(b) /\ Len(l) \in Nat
    BY <2>1
  <2>4. \A i \in 1 .. Len(l) : (l \o b)[i] = l[i]
    BY <2>1
  <2>5. \A i \in 1 .. Len(b) : (l \o b)[Len(l) + i] = b[i]
    BY <2>1
  <2> QED
    BY <2>2, <2>3, <2>4, <2>5
<1> DEFINE w == l \o b
<1>12. \A i \in 1 .. Len(l) : FineWord(l[i])
  BY DEF FineLine, l
<1>13. \A i \in 1 .. Len(a) : FineWord(a[i]) /\ a[i] # Space
  BY DEF Ink
<1>14. \A i \in 1 .. Len(b) : FineWord(b[i])
  <2> TAKE i \in 1 .. Len(b)
  <2>1. CASE i = 1
    BY <1>5, <2>1, SpaceIsFine
  <2>2. CASE i # 1
    <3>1. PICK j \in 1 .. Len(a) : i = j + 1
      BY <1>5, <2>2
    <3> QED
      BY <1>5, <1>13, <3>1
  <2> QED
    BY <2>1, <2>2
<1> HIDE DEF w
<1>15. \A i \in 1 .. Len(w) : FineWord(w[i])
  <2> TAKE i \in 1 .. Len(w)
  <2>1. CASE i <= Len(l)
    BY <1>11, <1>12, <2>1 DEF w
  <2>2. CASE i > Len(l)
    <3>1. PICK j \in 1 .. Len(b) : i = Len(l) + j
      <4>1. Len(w) = Len(l) + Len(b) /\ Len(b) \in Nat
        BY <1>5, <1>11 DEF w
      <4>2. i - Len(l) \in 1 .. Len(b) /\ i = Len(l) + (i - Len(l))
        BY <1>11, <2>2, <4>1
      <4> QED
        BY <4>2
    <3> QED
      BY <1>11, <1>14, <3>1 DEF w
  <2> QED
    BY <1>11, <2>1, <2>2 DEF w
<1>16. ASSUME a # <<>> PROVE \E i \in 1 .. Len(w) : w[i] # Space
  <2>1. 1 \in 1 .. Len(a)
    BY <1>1, <1>16, EmptySeq
  <2>2. 2 \in 1 .. Len(b) /\ b[2] # Space
    <3>1. b[1 + 1] = a[1] /\ a[1] # Space
      BY <1>5, <1>13, <2>1
    <3> QED
      BY <1>5, <2>1, <3>1
  <2>3. PICK j \in 1 .. Len(w) : j = Len(l) + 2
    BY <1>5, <1>11, <2>2, SMTT(30) DEF w
  <2> QED
    BY <1>11, <2>2, <2>3 DEF w
<1>18. ASSUME l # <<>>, ~d PROVE \E i \in 1 .. Len(w) : w[i] # Space
  <2>1. PICK i \in 1 .. Len(l) : l[i] # Space
    BY <1>18 DEF FineLine, l
  <2>2. i \in 1 .. Len(w) /\ w[i] = l[i]
    BY <1>5, <1>11, <2>1 DEF w
  <2> QED
    BY <2>1, <2>2
<1>19. a # <<>> \/ l # <<>> \/ d
  BY DEF l
<1>17. FineLine(w, m, d)
  BY <1>10, <1>15, <1>16, <1>18, <1>19 DEF FineLine, w
<1> QED
  BY <1>6, <1>8, <1>17 DEF w, sp, P

\* A break ends a line.
LEMMA BreakEnds ==
  ASSUME NEW S, NEW r \in Seq(Piece(S)), NEW m \in Nat, NEW d,
         \A l \in ClosedLines(r) : FineLine(l, m, d), FineLine(LastLine(r), m, d)
  PROVE  /\ Append(r, Break) \in Seq(Piece(S)) /\ LastLine(Append(r, Break)) = <<>>
         /\ \A l \in ClosedLines(Append(r, Break)) : FineLine(l, m, d)
<1> DEFINE P == Piece(S)
<1>1. Break \in P
  BY PieceFacts
<1> HIDE DEF P
<1>2. r \in Seq(P)
  BY DEF P
<1>3. Append(r, Break) \in Seq(P) /\ LastLine(Append(r, Break)) = <<>>
  BY <1>1, <1>2, LastLineAppend, AppendFacts
<1>4. ClosedLines(Append(r, Break)) = ClosedLines(r) \cup {LastLine(r)}
  BY <1>1, <1>2, ClosedAppend
<1> QED
  BY <1>3, <1>4 DEF P
LEMMA PairOf ==
  ASSUME NEW S, NEW x \in S, NEW y \in S
  PROVE  <<x>> \o <<y>> = <<x, y>>
<1>1. <<x>> \in Seq(S)
  OBVIOUS
<1>2. Append(<<x>>, y) = <<x>> \o <<y>>
  BY <1>1, AppendIsConcat
<1>3. Append(<<x>>, y) = <<x, y>>
  <2>1. <<x>> \in Seq(S) /\ <<x, y>> \in Seq(S) /\ Append(<<x>>, y) \in Seq(S)
    OBVIOUS
  <2>2. /\ Len(Append(<<x>>, y)) = 2 /\ Append(<<x>>, y)[1] = x /\ Append(<<x>>, y)[2] = y
        /\ Len(<<x, y>>) = 2 /\ <<x, y>>[1] = x /\ <<x, y>>[2] = y
    BY <2>1
  <2>3. \A i \in 1 .. 2 : i = 1 \/ i = 2
    OBVIOUS
  <2>4. \A i \in 1 .. 2 : Append(<<x>>, y)[i] = <<x, y>>[i]
    BY <2>2, <2>3, Zenon
  <2> QED
    BY <2>1, <2>2, <2>4, SeqEqual
<1> QED
  BY <1>2, <1>3

LEMMA StepKeepsFolded ==
  ASSUME NEW S, SP \in S, NEW name \in Seq(Piece(S)), NEW n \in Nat, NEW m \in Nat, FoldWidth <= m,
         Count(name) + 1 + n <= m, NEW d \in BOOLEAN, NEW r, Folded(r, S, m, d),
         NEW k \in TokenOf(S, n, d)
  PROVE  /\ Folded(HeaderStep(name, r, k), S, m, d)
         /\ k \in Seq(Ink(S)) => FineLine(LastLine(HeaderStep(name, r, k)), m, d)
<1> DEFINE P == Piece(S)
           fresh == StartsNewLine(name, Count(LastLine(r)), k)
           r1 == IF fresh THEN Append(r, Break) ELSE r
           sp == <<Space>>
<1>1. PICK a \in Seq(Ink(S)) : (a # <<>> \/ d) /\ (k = a \/ k = Append(a, Break))
  BY DEF TokenOf
<1>2. /\ a \in Seq(P) /\ Space \in P /\ Break \in P /\ k \in Seq(P) /\ Count(k) <= n
  BY InkTyped DEF TokenOf
<1>3. r \in Seq(P) /\ LastLine(r) \in Seq(P)
  BY <1>2, LastLineAppend DEF Folded
<1>4. Count(a) \in Nat /\ Count(k) \in Nat /\ Count(name) \in Nat /\ Count(LastLine(r)) \in Nat
      /\ Count(<<>>) = 0
  BY <1>2, <1>3, CountAppend
<1>5. Count(a) <= Count(k)
  <2>1. CASE k = a
    BY <1>4, <2>1
  <2>2. CASE k = Append(a, Break)
    <3>1. Count(Append(a, Break)) = Count(a) + Break.width
      BY <1>2, CountAppend
    <3>2. Break.width = 1
      BY PieceFacts
    <3> QED
      BY <1>4, <2>2, <3>1, <3>2
  <2> QED
    BY <1>1, <2>1, <2>2
<1>6. FoldWidth \in Nat
  BY EmlAssumption
<1> HIDE DEF P
<1>7. /\ r1 \in Seq(P) /\ \A l \in ClosedLines(r1) : FineLine(l, m, d)
      /\ LastLine(r1) = <<>> \/ FineLine(LastLine(r1), m, d)
      /\ Count(LastLine(r1)) + Count(a) + 1 <= m
  <2>1. CASE fresh
    <3>1. Count(LastLine(r)) > Count(name)
      BY <2>1 DEF StartsNewLine
    <3>2. LastLine(r) # <<>>
      BY <1>4, <3>1
    <3>3. FineLine(LastLine(r), m, d) /\ \A l \in ClosedLines(r) : FineLine(l, m, d)
      BY <3>2 DEF Folded
    <3>4. /\ r1 \in Seq(P) /\ LastLine(r1) = <<>>
          /\ \A l \in ClosedLines(r1) : FineLine(l, m, d)
      BY <1>3, <2>1, <3>3, BreakEnds DEF P
    <3>5. 0 + Count(a) + 1 <= m
      BY <1>2, <1>4, <1>5
    <3> QED
      BY <1>4, <3>4, <3>5
  <2>2. CASE ~fresh
    <3>1. Count(LastLine(r)) + Count(k) + 1 <= FoldWidth \/ Count(LastLine(r)) <= Count(name)
      <4>1. ~(Count(LastLine(r)) + Count(k) + 1 > FoldWidth) \/ ~(Count(LastLine(r)) > Count(name))
        BY <2>2 DEF StartsNewLine
      <4> QED
        BY <1>4, <1>6, <4>1
    <3>2. Count(LastLine(r)) + Count(a) + 1 <= m
      BY <1>2, <1>4, <1>5, <1>6, <3>1, SMTT(30)
    <3>3. r1 = r
      BY <2>2
    <3> QED
      BY <1>3, <3>2, <3>3 DEF Folded
  <2> QED
    BY <2>1, <2>2
<1>8. HeaderStep(name, r, k) = (r1 \o sp) \o k
  <2>1. CASE fresh
    <3>1. HeaderStep(name, r, k) = (r \o <<Break, Space>>) \o k
      BY <2>1 DEF HeaderStep
    <3>2. r \o <<Break, Space>> = Append(r, Break) \o <<Space>>
      <4> DEFINE x == <<Break>>
                 y == <<Space>>
      <4>1. x \in Seq(P) /\ y \in Seq(P)
        BY <1>2
      <4>3. x \o y = <<Break, Space>>
        BY <1>2, PairOf
      <4>4. Append(r, Break) = r \o x
        BY <1>2, <1>3, AppendIsConcat
      <4> HIDE DEF x, y
      <4>5. r \in Seq(P)
        BY <1>3
      <4>2. (r \o x) \o y = r \o (x \o y)
        <5>1. \A i, j, l \in Seq(P) : (i \o j) \o l = i \o (j \o l)
          BY AssociativeIn, SMTT(30)
        <5> QED
          BY <4>1, <4>5, <5>1
      <4> QED
        BY <4>2, <4>3, <4>4 DEF y
    <3> QED
      BY <2>1, <3>1, <3>2
  <2>2. CASE ~fresh
    BY <2>2 DEF HeaderStep
  <2> QED
    BY <2>1, <2>2
<1> HIDE DEF r1, fresh
<1> DEFINE u == (r1 \o sp) \o a
<1>9. u \in Seq(P) /\ ClosedLines(u) = ClosedLines(r1) /\ FineLine(LastLine(u), m, d)
  BY <1>1, <1>7, LineTakes DEF P
<1>10. CASE k = a
  <2>1. HeaderStep(name, r, k) = u
    BY <1>8, <1>10
  <2> HIDE DEF u
  <2> QED
    BY <1>7, <1>9, <2>1 DEF Folded, P
<1>11. CASE k = Append(a, Break)
  <2>1. (r1 \o sp) \o Append(a, Break) = Append(u, Break)
    <3>1. sp \in Seq(P) /\ r1 \o sp \in Seq(P)
      BY <1>2, <1>7
    <3> DEFINE v == r1 \o sp
    <3>2. v \in Seq(P) /\ a \in Seq(P) /\ Break \in P
      BY <1>2, <3>1
    <3> HIDE DEF v
    <3>3. v \o Append(a, Break) = Append(v \o a, Break)
      BY <3>2, AppendToConcat
    <3> QED
      BY <3>3 DEF v
  <2>2. HeaderStep(name, r, k) = Append(u, Break)
    BY <1>8, <1>11, <2>1
  <2> HIDE DEF u
  <2>3. /\ Append(u, Break) \in Seq(P) /\ LastLine(Append(u, Break)) = <<>>
        /\ \A l \in ClosedLines(Append(u, Break)) : FineLine(l, m, d)
    BY <1>7, <1>9, BreakEnds DEF P
  <2>4. k \notin Seq(Ink(S))
    <3>1. k[Len(a) + 1] = Break /\ Len(a) + 1 \in 1 .. Len(k)
      BY <1>2, <1>11, AppendFacts
    <3>2. Break \notin Ink(S)
      BY DEF Ink
    <3>3. k \in Seq(Ink(S)) => \A i \in 1 .. Len(k) : k[i] \in Ink(S)
      OBVIOUS
    <3> QED
      BY <3>1, <3>2, <3>3
  <2> QED
    BY <2>2, <2>3, <2>4 DEF Folded, P
<1> QED
  BY <1>1, <1>10, <1>11

\* A header, token after token, the last of which has no break.
LEMMA HeaderIsFine ==
  ASSUME NEW S, SP \in S, NEW name \in Seq(Piece(S)), NEW n \in Nat, NEW m \in Nat, FoldWidth <= m,
         Count(name) + 1 + n <= m, NEW d \in BOOLEAN, Folded(name, S, m, d),
         NEW ts \in Seq(TokenOf(S, n, d)), NEW last \in TokenOf(S, n, d), last \in Seq(Ink(S)),
         NEW value, Tokens(value) = Append(ts, last)
  PROVE  /\ Fold(name, value) \in Seq(Piece(S))
         /\ \A l \in ClosedLines(Fold(name, value)) : FineLine(l, m, d)
         /\ FineLine(LastLine(Fold(name, value)), m, d)
<1> DEFINE A == {r \in Seq(Piece(S)) : Folded(r, S, m, d)}
           K == TokenOf(S, n, d)
<1>1. name \in A
  OBVIOUS
<1>2. \A x \in A, c \in K : HeaderStep(name, x, c) \in A
  <2> TAKE x \in A, c \in K
  <2>1. Folded(HeaderStep(name, x, c), S, m, d)
    BY StepKeepsFolded
  <2> QED
    BY <2>1 DEF Folded
<1>3. ts \in Seq(K) /\ last \in K
  OBVIOUS
<1>4. \A x \in A : Folded(x, S, m, d)
  OBVIOUS
<1> HIDE DEF A, K
<1>5. /\ HeaderFold(name, <<>>, name) = name
      /\ \A t \in Seq(K) : HeaderFold(name, t, name) \in A
      /\ \A t \in Seq(K), c \in K :
           HeaderFold(name, Append(t, c), name) = HeaderStep(name, HeaderFold(name, t, name), c)
  <2>1. PICK b \in A : b = name
    BY <1>1
  <2>3. b \in A
    BY <2>1
  <2>2. HeaderSteps(name, A, K, b)
    BY <2>3, <1>2, HeaderFoldStep
  <2> QED
    BY <2>1, <2>2 DEF HeaderSteps
<1>6. Fold(name, value) = HeaderFold(name, Append(ts, last), name)
  <2>1. Fold(name, value) = HeaderFold(name, Tokens(value), name)
    BY FoldsAre
  <2> QED
    BY <2>1
<1> DEFINE r == HeaderFold(name, ts, name)
<1>7. Folded(r, S, m, d) /\ Fold(name, value) = HeaderStep(name, r, last)
  BY <1>3, <1>4, <1>5, <1>6
<1> HIDE DEF r
<1>8. /\ Folded(HeaderStep(name, r, last), S, m, d)
      /\ FineLine(LastLine(HeaderStep(name, r, last)), m, d)
  BY <1>7, StepKeepsFolded
<1> QED
  BY <1>7, <1>8 DEF Folded
----------------------------------------------------------------------------
(***************************************************************************)
(* Tokens.                                                                 *)
(***************************************************************************)
Token(S, d) ==
  {k \in Seq(Piece(S)) : \E a \in Seq(Ink(S)) : (a # <<>> \/ d) /\ (k = a \/ k = Append(a, Break))}

LEMMA AppendParts ==
  ASSUME NEW S, NEW f \in Seq(S), NEW l \in S
  PROVE  /\ Front(Append(f, l)) = f /\ Last(Append(f, l)) = l
<1>1. /\ Append(f, l) \in Seq(S) /\ Len(f) \in Nat /\ Len(Append(f, l)) = Len(f) + 1
      /\ Append(f, l)[Len(f) + 1] = l
  BY AppendFacts
<1>2. Len(f) + 1 - 1 = Len(f)
  BY <1>1
<1>3. Front(Append(f, l)) = Take(Append(f, l), Len(f))
  BY <1>1, <1>2 DEF Front, Take
<1>4. Append(f, l) = f \o <<l>> /\ <<l>> \in Seq(S)
  BY AppendIsConcat
<1>5. Take(f \o <<l>>, Len(f)) = f
  BY <1>4, TakeOfConcat
<1> QED
  BY <1>1, <1>3, <1>4, <1>5 DEF Last

LEMMA TokenStepOf ==
  ASSUME NEW P, NEW f \in Seq(Seq(P)), NEW l \in Seq(P), NEW p \in P
  PROVE  /\ p = Space => TokenStep(Append(f, l), p) = Append(Append(f, l), <<>>)
         /\ p # Space => TokenStep(Append(f, l), p) = Append(f, Append(l, p))
<1>1. Front(Append(f, l)) = f /\ Last(Append(f, l)) = l
  BY AppendParts
<1>2. Append(l, p) \in Seq(P)
  BY AppendFacts
<1>3. Append(f, Append(l, p)) = f \o <<Append(l, p)>>
  BY <1>2, AppendIsConcat
<1> QED
  BY <1>1, <1>3 DEF TokenStep

LEMMA TokensGoOn ==
  ASSUME NEW P, NEW t \in Seq(P), NEW p \in P, NEW f \in Seq(Seq(P)), NEW l \in Seq(P),
         Tokens(t) = Append(f, l)
  PROVE  /\ p = Space => Tokens(Append(t, p)) = Append(Append(f, l), <<>>)
         /\ p # Space => Tokens(Append(t, p)) = Append(f, Append(l, p))
<1> DEFINE T == Seq(P)
           A == {Append(g, m) : g \in Seq(T), m \in T}
<1>0. /\ \A g \in Seq(T), m \in T : Append(g, m) \in A
      /\ \A x \in A : \E g \in Seq(T), m \in T : x = Append(g, m)
  <2> HIDE DEF T
  <2>1. ASSUME NEW g \in Seq(T), NEW m \in T PROVE Append(g, m) \in A
    BY SMTT(30)
  <2>2. ASSUME NEW x \in A PROVE \E g \in Seq(T), m \in T : x = Append(g, m)
    OBVIOUS
  <2> HIDE DEF A
  <2> QED
    BY <2>1, <2>2
<1> HIDE DEF A
<1>1. PICK b \in A : b = <<<<>>>>
  <2>1. <<>> \in Seq(T) /\ <<>> \in T
    OBVIOUS
  <2>2. Append(<<>>, <<>>) = <<<<>>>>
    OBVIOUS
  <2> HIDE DEF T
  <2>3. <<<<>>>> \in A
    BY <1>0, <2>1, <2>2, Zenon
  <2> QED
    BY <2>3
<1>2. ASSUME NEW x \in A, NEW c \in P PROVE TokenStep(x, c) \in A
  <2>1. PICK g \in Seq(T), m \in T : x = Append(g, m)
    BY <1>0
  <2>2. /\ c = Space => TokenStep(Append(g, m), c) = Append(Append(g, m), <<>>)
        /\ c # Space => TokenStep(Append(g, m), c) = Append(g, Append(m, c))
    <3>1. g \in Seq(Seq(P)) /\ m \in Seq(P)
      BY <2>1
    <3> HIDE DEF T
    <3> QED
      BY <3>1, TokenStepOf
  <2>3. Append(g, m) \in Seq(T) /\ <<>> \in T
    <3>1. <<>> \in T
      OBVIOUS
    <3> HIDE DEF T
    <3> QED
      BY <3>1, AppendFacts
  <2>4. Append(m, c) \in T
    BY AppendFacts
  <2> HIDE DEF T
  <2>5. Append(x, <<>>) \in A /\ Append(g, Append(m, c)) \in A
    BY <1>0, <2>1, <2>3, <2>4
  <2> QED
    BY <2>1, <2>2, <2>5
<1>3. b \in A
  BY <1>1
<1>4. /\ TokenFold(<<>>, b) = b
      /\ \A s \in Seq(P) : TokenFold(s, b) \in A
      /\ \A s \in Seq(P), c \in P :
           TokenFold(Append(s, c), b) = TokenStep(TokenFold(s, b), c)
  <2>1. \A x \in A, c \in P : TokenStep(x, c) \in A
    BY <1>2
  <2> QED
    BY <1>3, <2>1, TokenFoldStep
<1>5. Tokens(t) = TokenFold(t, b) /\ Tokens(Append(t, p)) = TokenFold(Append(t, p), b)
  BY <1>1, FoldsAre
<1>6. Tokens(Append(t, p)) = TokenStep(Append(f, l), p)
  BY <1>4, <1>5
<1> QED
  BY <1>6, TokenStepOf

LEMMA SpaceTokens ==
  ASSUME NEW P, NEW t \in Seq(P), NEW f \in Seq(Seq(P)), NEW l \in Seq(P), Space \in P,
         Tokens(t) = Append(f, l)
  PROVE  Tokens(Append(t, Space)) = Append(Append(f, l), <<>>)
<1> DEFINE q == Space
<1>1. q \in P
  OBVIOUS
<1> HIDE DEF q
<1>2. /\ q = Space => Tokens(Append(t, q)) = Append(Append(f, l), <<>>)
      /\ q # Space => Tokens(Append(t, q)) = Append(f, Append(l, q))
  BY <1>1, TokensGoOn, ZenonT(30)
<1> QED
  BY <1>2 DEF q

LEMMA InkTokens ==
  ASSUME NEW P, NEW t \in Seq(P), NEW p \in P, p # Space, NEW f \in Seq(Seq(P)), NEW l \in Seq(P),
         Tokens(t) = Append(f, l)
  PROVE  Tokens(Append(t, p)) = Append(f, Append(l, p))
BY TokensGoOn, ZenonT(30)

LEMMA NoTokens == Tokens(<<>>) = Append(<<>>, <<>>)
<1> DEFINE A == {<<<<>>>>}
<1>1. /\ TokenFold(<<>>, <<<<>>>>) = <<<<>>>>
  <2>1. PICK b \in A : b = <<<<>>>>
    OBVIOUS
  <2>2. \A x \in A, c \in {} : TokenStep(x, c) \in A
    OBVIOUS
  <2> HIDE DEF A
  <2>3. b \in A
    BY <2>1
  <2> DEFINE S == {}
  <2>5. \A x \in A, c \in S : TokenStep(x, c) \in A
    BY <2>2
  <2> HIDE DEF S
  <2>4. /\ TokenFold(<<>>, b) = b
        /\ \A t \in Seq(S) : TokenFold(t, b) \in A
        /\ \A t \in Seq(S), c \in S :
             TokenFold(Append(t, c), b) = TokenStep(TokenFold(t, b), c)
    BY <2>5, <2>3, TokenFoldStep
  <2> QED
    BY <2>1, <2>4
<1>2. Append(<<>>, <<>>) = <<<<>>>>
  OBVIOUS
<1> QED
  BY <1>1, <1>2, FoldsAre

LEMMA CharsAppend ==
  ASSUME NEW S, NEW v \in Seq(S), NEW c \in S
  PROVE  Chars(Append(v, c)) = Append(Chars(v), Char(c)) /\ Chars(v) \in Seq(Piece(S))
<1> DEFINE e == Append(v, c)
           n == Len(v)
<1>1. /\ e \in Seq(S) /\ n \in Nat /\ Len(e) = n + 1 /\ e[n + 1] = c /\ \A i \in 1 .. n : e[i] = v[i]
  BY AppendFacts
<1>2. \A x \in S : Char(x) \in Piece(S)
  BY PieceFacts
<1>3. Chars(v) \in Seq(Piece(S)) /\ Len(Chars(v)) = n /\ \A i \in 1 .. n : Chars(v)[i] = Char(v[i])
  BY <1>2 DEF Chars
<1> HIDE DEF e, n
<1>4. Chars(e) \in Seq(Piece(S)) /\ Len(Chars(e)) = n + 1
      /\ \A i \in 1 .. n + 1 : Chars(e)[i] = Char(e[i])
  BY <1>1, <1>2 DEF Chars
<1> DEFINE a == Append(Chars(v), Char(c))
           P == Piece(S)
<1>5. Char(c) \in P
  BY <1>2
<1>6. /\ a \in Seq(P) /\ Len(a) = n + 1 /\ a[n + 1] = Char(c)
      /\ \A i \in 1 .. n : a[i] = Chars(v)[i]
  <2> HIDE DEF P
  <2>1. Chars(v) \in Seq(P)
    BY <1>3 DEF P
  <2> QED
    BY <1>3, <1>5, <2>1, AppendFacts
<1> HIDE DEF a
<1>7. \A i \in 1 .. n + 1 : Chars(e)[i] = a[i]
  <2> TAKE i \in 1 .. n + 1
  <2>1. CASE i = n + 1
    BY <1>1, <1>4, <1>6, <2>1
  <2>2. CASE i # n + 1
    <3>1. i \in 1 .. n
      BY <1>1, <2>2
    <3> QED
      BY <1>1, <1>3, <1>4, <1>6, <3>1
  <2> QED
    BY <2>1, <2>2
<1>8. Chars(e) = a
  <2> HIDE DEF P
  <2>1. Chars(e) \in Seq(P)
    BY <1>4 DEF P
  <2> QED
    BY <1>4, <1>6, <1>7, <2>1, SeqEqual
<1> QED
  BY <1>3, <1>8 DEF a, e
Doubled(v) == \E i \in 1 .. Len(v) - 1 : v[i] = SP /\ v[i + 1] = SP

\* The value is cut into tokens, the last of which has no break.
CutsInto(S, d, value, f, l) ==
  /\ f \in Seq(Token(S, d)) /\ l \in Token(S, d) /\ l \in Seq(Ink(S))
  /\ Tokens(value) = Append(f, l)

LEMMA TokenTyped ==
  ASSUME NEW S, SP \in S, NEW d \in BOOLEAN
  PROVE  /\ \A a \in Seq(Ink(S)) : (a # <<>> \/ d) => a \in Token(S, d) /\ Append(a, Break) \in Token(S, d)
         /\ \A f \in Seq(Token(S, d)) : f \in Seq(Seq(Piece(S)))
         /\ \A a \in Seq(Ink(S)) : a \in Seq(Piece(S))
<1>1. ASSUME NEW a \in Seq(Ink(S)) PROVE a \in Seq(Piece(S)) /\ Append(a, Break) \in Seq(Piece(S))
  BY InkTyped, AppendFacts
<1>2. \A f \in Seq(Token(S, d)) : f \in Seq(Seq(Piece(S)))
  <2> TAKE f \in Seq(Token(S, d))
  <2>1. \A i \in 1 .. Len(f) : f[i] \in Token(S, d)
    <3> DEFINE T == Token(S, d)
    <3> HIDE DEF T
    <3>1. \A i \in 1 .. Len(f) : f[i] \in T
      BY DEF T
    <3> QED
      BY <3>1 DEF T
  <2>2. \A i \in 1 .. Len(f) : f[i] \in Seq(Piece(S))
    BY <2>1 DEF Token
  <2> DEFINE Q == Seq(Piece(S))
  <2> HIDE DEF Q
  <2>3. f \in Seq(Q)
    BY <2>2 DEF Q
  <2> QED
    BY <2>3 DEF Q
<1> QED
  BY <1>1, <1>2 DEF Token

\* Plain text: a token is empty only between two spaces.
LEMMA PlainTokens ==
  ASSUME NEW S, SP \in S, NEW v \in Seq(S), v # <<>>, v[1] # SP, v[Len(v)] # SP,
         NEW d \in BOOLEAN, Doubled(v) => d
  PROVE  \E f, l : CutsInto(S, d, Chars(v), f, l)
<1> DEFINE P == Piece(S)
           T == Token(S, d)
           I == Ink(S)
           Ok(u) == \E f \in Seq(T), l \in Seq(I) :
                      /\ Tokens(Chars(u)) = Append(f, l)
                      /\ l = <<>> => u[Len(u)] = SP
           G == {u \in Seq(S) : u # <<>> /\ u[1] # SP /\ (Doubled(u) => d) => Ok(u)}
<1>1. <<>> \in G
  OBVIOUS
<1>2. /\ \A a \in Seq(I) : (a # <<>> \/ d) => a \in T
      /\ \A f \in Seq(T) : f \in Seq(Seq(P))
      /\ \A a \in Seq(I) : a \in Seq(P)
  BY TokenTyped
<1>3. /\ \A c \in S : Char(c) \in P /\ (Char(c) = Space <=> c = SP)
      /\ \A c \in S : c # SP => Char(c) \in I
      /\ Char(SP) = Space
  <2>1. \A c \in S : Char(c) \in P /\ Char(c) # Break /\ (Char(c) = Space <=> c = SP)
    BY PieceFacts
  <2>2. \A c \in S : FineWord(Char(c))
    BY DEF FineWord, Char
  <2> QED
    BY <2>1, <2>2 DEF Ink, Space
<1> HIDE DEF T, I, P
<1>4. ASSUME NEW u \in Seq(S), NEW c \in S, u \in G PROVE Append(u, c) \in G
  <2> DEFINE e == Append(u, c)
             n == Len(u)
  <2>1. /\ e \in Seq(S) /\ n \in Nat /\ Len(e) = n + 1 /\ e[n + 1] = c
        /\ \A i \in 1 .. n : e[i] = u[i]
    BY AppendFacts
  <2>2. Chars(e) = Append(Chars(u), Char(c)) /\ Chars(u) \in Seq(P)
    BY CharsAppend DEF P
  <2> HIDE DEF e
  <2>3. ASSUME e[1] # SP, Doubled(e) => d PROVE Ok(e)
    <3>1. CASE u = <<>>
      <4>1. n = 0 /\ c # SP
        BY <2>1, <2>3, <3>1
      <4>2. Chars(u) = <<>>
        BY <3>1 DEF Chars
      <4>3. Tokens(<<>>) = Append(<<>>, <<>>)
        BY NoTokens
      <4>4. Char(c) \in P /\ Char(c) # Space /\ Char(c) \in I
        BY <1>3, <4>1
      <4>5. <<>> \in Seq(P) /\ <<>> \in Seq(Seq(P))
        OBVIOUS
      <4>6. Tokens(Append(<<>>, Char(c))) = Append(<<>>, Append(<<>>, Char(c)))
        <5> DEFINE q == Char(c)
                   o == <<>>
        <5>1. q \in P /\ q # Space /\ o \in Seq(P) /\ o \in Seq(Seq(P)) /\ Tokens(o) = Append(o, o)
          BY <4>3, <4>4, <4>5
        <5> HIDE DEF q, o
        <5>2. /\ q = Space => Tokens(Append(o, q)) = Append(Append(o, o), <<>>)
              /\ q # Space => Tokens(Append(o, q)) = Append(o, Append(o, q))
          BY <5>1, TokensGoOn, SMTT(30)
        <5> QED
          BY <5>1, <5>2 DEF q, o
      <4>7. <<>> \in Seq(T) /\ Append(<<>>, Char(c)) \in Seq(I) /\ Append(<<>>, Char(c)) # <<>>
        BY <4>4
      <4>8. Tokens(Chars(e)) = Append(<<>>, Append(<<>>, Char(c)))
        BY <2>2, <4>2, <4>6
      <4> QED
        BY <4>7, <4>8
    <3>2. CASE u # <<>>
      <4>1. n \in 1 .. n /\ 1 \in 1 .. n
        BY <3>2, EmptySeq
      <4>2. u[1] # SP
        BY <2>1, <2>3, <4>1
      <4>3. Doubled(u) => d
        <5> SUFFICES ASSUME Doubled(u) PROVE Doubled(e)
          BY <2>3
        <5>1. PICK i \in 1 .. n - 1 : u[i] = SP /\ u[i + 1] = SP
          BY DEF Doubled
        <5>2. i \in 1 .. Len(e) - 1 /\ i \in 1 .. n /\ i + 1 \in 1 .. n
          BY <2>1, <5>1
        <5>3. e[i] = SP /\ e[i + 1] = SP
          BY <2>1, <5>1, <5>2
        <5> QED
          BY <5>2, <5>3 DEF Doubled
      <4>4. Ok(u)
        BY <1>4, <3>2, <4>2, <4>3
      <4>5. PICK f \in Seq(T), l \in Seq(I) : Tokens(Chars(u)) = Append(f, l) /\ (l = <<>> => u[n] = SP)
        BY <4>4
      <4>6. f \in Seq(Seq(P)) /\ l \in Seq(P) /\ Char(c) \in P
        BY <1>2, <1>3, <4>5
      <4>7. /\ Char(c) = Space => Tokens(Chars(e)) = Append(Append(f, l), <<>>)
            /\ Char(c) # Space => Tokens(Chars(e)) = Append(f, Append(l, Char(c)))
        <5> DEFINE q == Char(c)
                   w == Chars(u)
        <5>1. w \in Seq(P) /\ q \in P /\ Tokens(w) = Append(f, l) /\ f \in Seq(Seq(P)) /\ l \in Seq(P)
          BY <2>2, <4>5, <4>6
        <5> HIDE DEF q, w
        <5>2. /\ q = Space => Tokens(Append(w, q)) = Append(Append(f, l), <<>>)
              /\ q # Space => Tokens(Append(w, q)) = Append(f, Append(l, q))
          BY <5>1, TokensGoOn, ZenonT(30)
        <5> QED
          BY <2>2, <5>2 DEF q, w
      <4>8. CASE c = SP
        <5>1. Tokens(Chars(e)) = Append(Append(f, l), <<>>)
          BY <1>3, <4>7, <4>8
        <5>2. l = <<>> => Doubled(e)
          <6> SUFFICES ASSUME l = <<>> PROVE Doubled(e)
            OBVIOUS
          <6>1. n \in 1 .. Len(e) - 1
            BY <2>1, <4>1
          <6>2. e[n] = SP /\ e[n + 1] = SP
            BY <2>1, <4>1, <4>5, <4>8
          <6> QED
            BY <6>1, <6>2 DEF Doubled
        <5>3. l \in T
          BY <1>2, <2>3, <4>5, <5>2
        <5>4. Append(f, l) \in Seq(T) /\ <<>> \in Seq(I)
          BY <4>5, <5>3, AppendFacts
        <5>5. e[Len(e)] = SP
          BY <2>1, <4>8
        <5> QED
          BY <5>1, <5>4, <5>5
      <4>9. CASE c # SP
        <5>1. Tokens(Chars(e)) = Append(f, Append(l, Char(c)))
          BY <1>3, <4>7, <4>9
        <5>2. Append(l, Char(c)) \in Seq(I) /\ Append(l, Char(c)) # <<>>
          <6>1. Char(c) \in I
            BY <1>3, <4>9
          <6> QED
            BY <4>5, <6>1, AppendFacts
        <5> QED
          BY <4>5, <5>1, <5>2
      <4> QED
        BY <4>8, <4>9
    <3> QED
      BY <3>1, <3>2
  <2> HIDE DEF Ok
  <2>4. e \in G
    BY <2>1, <2>3
  <2> QED
    BY <2>4 DEF e
<1>5. v \in G
  <2> HIDE DEF G
  <2> QED
    BY <1>1, <1>4, ByAppending
<1>6. Ok(v)
  <2> HIDE DEF Ok
  <2> QED
    BY <1>5
<1>7. PICK f \in Seq(T), l \in Seq(I) : Tokens(Chars(v)) = Append(f, l) /\ (l = <<>> => v[Len(v)] = SP)
  BY <1>6
<1>8. l \in T
  BY <1>2, <1>7
<1>9. CutsInto(S, d, Chars(v), f, l)
  BY <1>7, <1>8 DEF CutsInto, T, I
<1> QED
  BY <1>9
----------------------------------------------------------------------------
(***************************************************************************)
(* Encoded words.                                                          *)
(***************************************************************************)
Chunk(C) == {x \in Seq(C) : BytesOf(x) <= WordBytes \/ Len(x) = 1}

LEMMA ChunksFine ==
  ASSUME NEW C, \A c \in C : Bytes(c) \in Nat, NEW t \in Seq(C)
  PROVE  Chunks(t) \in Seq(Chunk(C)) /\ (t # <<>> => Chunks(t) # <<>>)
<1> DEFINE K == Chunk(C)
           A == [words : Seq(K), chunk : K]
           base == [words |-> <<>>, chunk |-> <<>>]
<1>1. WordBytes \in Nat
  BY EmlAssumption
<1>2. BytesOf(<<>>) = 0 /\ (\A x \in Seq(C) : BytesOf(x) \in Nat)
      /\ \A x \in Seq(C), c \in C : BytesOf(Append(x, c)) = BytesOf(x) + Bytes(c)
  BY BytesAppend
<1>3. <<>> \in K /\ \A c \in C : <<c>> \in K
  BY <1>1, <1>2 DEF Chunk
<1>4. \A x \in K : x \in Seq(C)
  BY DEF Chunk
<1>5. \A x \in K, c \in C : ~(BytesOf(x) + Bytes(c) > WordBytes) => Append(x, c) \in K
  <2> TAKE x \in K, c \in C
  <2> HAVE ~(BytesOf(x) + Bytes(c) > WordBytes)
  <2>1. x \in Seq(C) /\ BytesOf(x) \in Nat /\ Bytes(c) \in Nat
    BY <1>2, <1>4
  <2>2. Append(x, c) \in Seq(C) /\ BytesOf(Append(x, c)) = BytesOf(x) + Bytes(c)
    BY <1>2, <2>1, AppendFacts
  <2>3. BytesOf(Append(x, c)) <= WordBytes
    BY <1>1, <2>1, <2>2
  <2> QED
    BY <2>2, <2>3 DEF Chunk
<1> HIDE DEF K
<1>6. base \in A
  BY <1>3
<1>7. ASSUME NEW x \in A, NEW c \in C
      PROVE  ChunkStep(x, c) \in A /\ ChunkStep(x, c).chunk # <<>>
  <2>1. x.words \in Seq(K) /\ x.chunk \in K
    OBVIOUS
  <2>2. CASE BytesOf(x.chunk) + Bytes(c) > WordBytes
    <3>1. ChunkStep(x, c) = [words |-> Append(x.words, x.chunk), chunk |-> <<c>>]
      BY <2>2 DEF ChunkStep
    <3>2. Append(x.words, x.chunk) \in Seq(K) /\ <<c>> \in K /\ <<c>> # <<>>
      BY <1>3, <2>1, AppendFacts
    <3> QED
      BY <3>1, <3>2
  <2>3. CASE ~(BytesOf(x.chunk) + Bytes(c) > WordBytes)
    <3>1. ChunkStep(x, c) = [x EXCEPT !.chunk = Append(@, c)]
      BY <2>3 DEF ChunkStep
    <3>2. ChunkStep(x, c) = [words |-> x.words, chunk |-> Append(x.chunk, c)]
      BY <3>1
    <3>3. Append(x.chunk, c) \in K /\ Append(x.chunk, c) # <<>>
      <4>1. Append(x.chunk, c) \in K
        BY <1>5, <2>1, <2>3
      <4>2. x.chunk \in Seq(C)
        BY <1>4, <2>1
      <4> QED
        BY <4>1, <4>2, AppendFacts
    <3> QED
      BY <2>1, <3>2, <3>3
  <2> QED
    BY <2>2, <2>3
<1> HIDE DEF A, base
<1>8. \A x \in A, c \in C : ChunkStep(x, c) \in A
  BY <1>7
<1>9. /\ ChunkFold(<<>>, base) = base
      /\ \A s \in Seq(C) : ChunkFold(s, base) \in A
      /\ \A s \in Seq(C), c \in C :
           ChunkFold(Append(s, c), base) = ChunkStep(ChunkFold(s, base), c)
  BY <1>6, <1>8, ChunkFoldStep
<1>10. PICK end \in A : end = ChunkFold(t, base)
  BY <1>9
<1>11. Chunks(t) = IF end.chunk = <<>> THEN end.words ELSE Append(end.words, end.chunk)
  BY <1>10, FoldsAre DEF base
<1>12. end.words \in Seq(K) /\ end.chunk \in K
  BY DEF A
<1>13. t # <<>> => end.chunk # <<>>
  <2> SUFFICES ASSUME t # <<>> PROVE end.chunk # <<>>
    OBVIOUS
  <2>1. PICK s \in Seq(C), c \in C : t = Append(s, c)
    <3>1. Len(t) \in Nat /\ Len(t) - 1 \in 0 .. Len(t) - 1
      BY EmptySeq
    <3>2. PICK k \in 0 .. Len(t) - 1 : k = Len(t) - 1 /\ k + 1 = Len(t)
      BY <3>1
    <3>3. Take(t, k) \in Seq(C) /\ t[k + 1] \in C /\ Take(t, k + 1) = Append(Take(t, k), t[k + 1])
      BY TakeOneMore
    <3>4. Take(t, k + 1) = t
      BY <3>2, TakeEnds
    <3> QED
      BY <3>3, <3>4
  <2>2. end = ChunkStep(ChunkFold(s, base), c) /\ ChunkFold(s, base) \in A
    BY <1>9, <1>10, <2>1
  <2> QED
    BY <1>7, <2>2
<1>14. Append(end.words, end.chunk) \in Seq(K) /\ Append(end.words, end.chunk) # <<>>
  BY <1>12, AppendFacts, SMTT(30)
<1> QED
  BY <1>11, <1>12, <1>13, <1>14 DEF K

\* The words of chunks, with a break and a space between two.
WordsOf(chunks) ==
  [i \in 1 .. Len(chunks) |->
    IF i = 1 THEN <<Word(chunks[i])>> ELSE <<Break, Space, Word(chunks[i])>>]

LEMMA WordInk ==
  ASSUME NEW S, NEW C, C \subseteq S, \A c \in C : Bytes(c) \in Nat, NEW x \in Chunk(C)
  PROVE  Word(x) \in Ink(S) /\ Word(x) \in Piece(S) /\ Word(x) # Space
<1>1. x \in Seq(C) /\ (BytesOf(x) <= WordBytes \/ Len(x) = 1)
  BY DEF Chunk
<1>2. x \in Seq(S)
  BY <1>1
<1>3. Word(x).width \in Nat
  <2>1. Word(x) \in Piece(C)
    BY <1>1, WordTyped
  <2> QED
    BY <2>1 DEF Piece
<1>4. Word(x) \in Piece(S)
  BY <1>2, <1>3 DEF Word, Piece
<1>5. Word(x) # Break /\ Word(x) # Space /\ Word(x).text = x
  BY PieceFacts
<1> QED
  BY <1>1, <1>4, <1>5 DEF Ink, FineWord

LEMMA WordsAppend ==
  ASSUME NEW S, SP \in S, NEW C, C \subseteq S, \A c \in C : Bytes(c) \in Nat,
         NEW cs \in Seq(Chunk(C)), NEW x \in Chunk(C)
  PROVE  /\ WordsOf(cs) \in Seq(Seq(Piece(S)))
         /\ cs = <<>> => WordsOf(Append(cs, x)) = Append(WordsOf(cs), <<Word(x)>>)
         /\ cs # <<>> => WordsOf(Append(cs, x)) = Append(WordsOf(cs), <<Break, Space, Word(x)>>)
<1> DEFINE P == Piece(S)
           Q == Seq(P)
           n == Len(cs)
           K == Chunk(C)
           e == Append(cs, x)
           more == IF cs = <<>> THEN <<Word(x)>> ELSE <<Break, Space, Word(x)>>
           a == Append(WordsOf(cs), more)
<1>1. \A y \in K : Word(y) \in P
  BY WordInk
<1>2. Break \in P /\ Space \in P
  BY PieceFacts DEF Space
<1> HIDE DEF P, K
<1>3. \A y \in K : <<Word(y)>> \in Q /\ <<Break, Space, Word(y)>> \in Q
  BY <1>1, <1>2
<1>4. /\ e \in Seq(K) /\ n \in Nat /\ Len(e) = n + 1 /\ e[n + 1] = x /\ x \in K
      /\ \A i \in 1 .. n : e[i] = cs[i] /\ cs[i] \in K
  <2>1. cs \in Seq(K) /\ x \in K
    BY DEF K
  <2>2. \A i \in 1 .. n : cs[i] \in K
    BY <2>1
  <2> QED
    BY <2>1, <2>2, AppendFacts
<1> HIDE DEF e, Q
<1>5. /\ WordsOf(cs) \in Seq(Q) /\ Len(WordsOf(cs)) = n
      /\ \A i \in 1 .. n : WordsOf(cs)[i] =
           IF i = 1 THEN <<Word(cs[i])>> ELSE <<Break, Space, Word(cs[i])>>
  BY <1>3, <1>4 DEF WordsOf
<1>6. \A i \in 1 .. n + 1 : e[i] \in K
  BY <1>4
<1>7. /\ WordsOf(e) \in Seq(Q) /\ Len(WordsOf(e)) = n + 1
      /\ \A i \in 1 .. n + 1 : WordsOf(e)[i] =
           IF i = 1 THEN <<Word(e[i])>> ELSE <<Break, Space, Word(e[i])>>
  BY <1>3, <1>4, <1>6 DEF WordsOf
<1>8. more \in Q
  BY <1>3, <1>4
<1>9. more = IF n + 1 = 1 THEN <<Word(x)>> ELSE <<Break, Space, Word(x)>>
  BY <1>4, EmptySeq
<1> HIDE DEF more
<1>10. /\ a \in Seq(Q) /\ Len(a) = n + 1 /\ a[n + 1] = more
       /\ \A i \in 1 .. n : a[i] = WordsOf(cs)[i]
  BY <1>5, <1>8, AppendFacts
<1> HIDE DEF a
<1>11. \A i \in 1 .. n + 1 : WordsOf(e)[i] = a[i]
  <2> TAKE i \in 1 .. n + 1
  <2>1. CASE i = n + 1
    BY <1>4, <1>7, <1>9, <1>10, <2>1
  <2>2. CASE i # n + 1
    <3>1. i \in 1 .. n
      BY <1>4, <2>2
    <3>2. a[i] = WordsOf(cs)[i] /\ e[i] = cs[i]
      BY <1>4, <1>10, <3>1
    <3>3. a[i] = IF i = 1 THEN <<Word(e[i])>> ELSE <<Break, Space, Word(e[i])>>
      BY <1>5, <3>1, <3>2
    <3> QED
      BY <1>7, <3>3
  <2> QED
    BY <2>1, <2>2
<1>12. WordsOf(e) = a
  BY <1>7, <1>10, <1>11, SeqEqual
<1> QED
  BY <1>5, <1>12 DEF a, e, more, Q, P
LEMMA AppendThree ==
  ASSUME NEW P, NEW w \in Seq(P), NEW x \in P, NEW y \in P, NEW z \in P
  PROVE  /\ w \o <<x, y, z>> = Append(Append(Append(w, x), y), z)
         /\ w \o <<x>> = Append(w, x)
<1> DEFINE a == <<x>>
           b == Append(a, y)
           c == Append(b, z)
<1>1. c = <<x, y, z>>
  <2> DEFINE m == <<x, y, z>>
  <2>1. c \in Seq(P) /\ Len(c) = 3 /\ c[1] = x /\ c[2] = y /\ c[3] = z
    OBVIOUS
  <2>2. m \in Seq(P) /\ Len(m) = 3 /\ m[1] = x /\ m[2] = y /\ m[3] = z
    OBVIOUS
  <2> HIDE DEF c, m
  <2>3. \A i \in 1 .. 3 : i = 1 \/ i = 2 \/ i = 3
    OBVIOUS
  <2>4. \A i \in 1 .. 3 : c[i] = m[i]
    BY <2>1, <2>2, <2>3, Zenon
  <2>5. c = m
    BY <2>1, <2>2, <2>4, SeqEqual
  <2> QED
    BY <2>5 DEF m
<1>2. w \o a = Append(w, x) /\ a \in Seq(P)
  BY AppendIsConcat
<1> HIDE DEF a
<1>3. w \o b = Append(w \o a, y) /\ b \in Seq(P)
  BY <1>2, AppendToConcat, AppendFacts
<1> HIDE DEF b
<1>5. b \in Seq(P)
  BY <1>3
<1>4. w \o b \in Seq(P) /\ w \o Append(b, z) = Append(w \o b, z)
  BY <1>5, AppendToConcat
<1> QED
  BY <1>1, <1>2, <1>3, <1>4 DEF a

TokensAre(t, f, l) == Tokens(t) = Append(f, l)

\* The tokens of one encoded word more.
LEMMA NextWordTokens ==
  ASSUME NEW P, Break \in P, Space \in P, NEW x \in P, x # Space, NEW w \in Seq(P),
         NEW f \in Seq(Seq(P)), NEW l \in Seq(P), TokensAre(w, f, l),
         NEW v, v = w \o <<Break, Space, x>>,
         NEW h, h = Append(f, Append(l, Break)), NEW u, u = <<x>>
  PROVE  v \in Seq(P) /\ TokensAre(v, h, u)
<1> DEFINE w1 == Append(w, Break)
           w2 == Append(w1, Space)
           w3 == Append(w2, x)
           k == Append(l, Break)
           g == Append(f, k)
           o == <<>>
<1>1. v = w3
  BY AppendThree
<1>2. w1 \in Seq(P) /\ k \in Seq(P)
  BY AppendFacts
<1>3. Break # Space
  BY PieceFacts
<1>4. Tokens(w1) = Append(f, k)
  BY <1>3, InkTokens DEF TokensAre
<1> HIDE DEF w1, k
<1>5. w2 \in Seq(P)
  BY <1>2, AppendFacts
<1>6. Tokens(w2) = Append(Append(f, k), <<>>)
  <2>1. w1 \in Seq(P) /\ k \in Seq(P)
    BY <1>2
  <2> QED
    BY <1>4, <2>1, SpaceTokens
<1>7. g \in Seq(Seq(P)) /\ o \in Seq(P) /\ Tokens(w2) = Append(g, o)
  <2> DEFINE Q == Seq(P)
  <2>1. k \in Q /\ f \in Seq(Q)
    BY <1>2
  <2> HIDE DEF Q
  <2>2. Append(f, k) \in Seq(Q)
    BY <2>1, AppendFacts
  <2> QED
    BY <1>6, <2>2 DEF Q
<1>8. Append(o, x) = <<x>>
  OBVIOUS
<1> HIDE DEF w2, g, o
<1>9. Tokens(Append(w2, x)) = Append(g, Append(o, x))
  BY <1>5, <1>7, InkTokens, ZenonT(30)
<1>10. w3 \in Seq(P)
  BY <1>5, AppendFacts
<1>11. Tokens(w3) = Append(g, <<x>>)
  BY <1>8, <1>9
<1> HIDE DEF w3
<1> QED
  BY <1>1, <1>10, <1>11 DEF g, k, TokensAre

\* Each encoded word is a token, all but the last with a break.
LEMMA EncodedTokens ==
  ASSUME NEW S, SP \in S, NEW C, C \subseteq S, \A c \in C : Bytes(c) \in Nat,
         NEW t \in Seq(C), t # <<>>, NEW d \in BOOLEAN
  PROVE  \E f, l : CutsInto(S, d, EncodedWord(t), f, l)
<1> DEFINE P == Piece(S)
           T == Token(S, d)
           K == Chunk(C)
           flat(cs) == FlattenSeq(WordsOf(cs))
           Ok(cs) == \E f \in Seq(T), x \in K : Tokens(flat(cs)) = Append(f, <<Word(x)>>)
           G == {cs \in Seq(K) : flat(cs) \in Seq(P) /\ (cs # <<>> => Ok(cs))}
<1>1. \A x \in K : Word(x) \in Ink(S) /\ Word(x) \in P /\ Word(x) # Space
  BY WordInk
<1>2. Break \in P /\ Space \in P
  BY PieceFacts DEF Space
<1>3. \A x \in K : <<Word(x)>> \in Seq(Ink(S)) /\ <<Word(x)>> # <<>>
  <2> DEFINE I == Ink(S)
  <2> HIDE DEF I
  <2>1. \A x \in K : Word(x) \in I
    BY <1>1 DEF I
  <2> QED
    BY <2>1 DEF I
<1>4. \A x \in K : <<Word(x)>> \in T /\ Append(<<Word(x)>>, Break) \in T
  BY <1>3, TokenTyped
<1>5. \A f \in Seq(T) : f \in Seq(Seq(P))
  BY TokenTyped
<1>6. ASSUME NEW cs \in Seq(K), NEW x \in K
      PROVE  /\ WordsOf(cs) \in Seq(Seq(P))
             /\ cs = <<>> => WordsOf(Append(cs, x)) = Append(WordsOf(cs), <<Word(x)>>)
             /\ cs # <<>> =>
                  WordsOf(Append(cs, x)) = Append(WordsOf(cs), <<Break, Space, Word(x)>>)
  BY WordsAppend
<1> HIDE DEF P, T, K
<1>7. <<>> \in G
  <2>1. WordsOf(<<>>) = <<>>
    BY DEF WordsOf
  <2>2. flat(<<>>) = <<>>
    BY <2>1, FlattenEmpty
  <2>3. <<>> \in Seq(K) /\ <<>> \in Seq(P)
    OBVIOUS
  <2> HIDE DEF flat, Ok
  <2> QED
    BY <2>2, <2>3
<1>8. ASSUME NEW cs \in Seq(K), NEW x \in K, cs \in G PROVE Append(cs, x) \in G
  <2> DEFINE w == flat(cs)
             e == Append(cs, x)
             q == Word(x)
  <2>1. w \in Seq(P)
    BY <1>8
  <2>2. e \in Seq(K)
    BY AppendFacts
  <2>3. q \in P /\ q # Space
    BY <1>1
  <2>4. CASE cs = <<>>
    <3>1. w = <<>>
      BY <2>4, FlattenEmpty DEF WordsOf
    <3>2. flat(e) = w \o <<q>>
      <4> DEFINE p == <<q>>
      <4>1. p \in Seq(P)
        BY <2>3
      <4>2. WordsOf(e) = Append(WordsOf(cs), p) /\ WordsOf(cs) \in Seq(Seq(P))
        BY <1>6, <2>4
      <4> HIDE DEF p
      <4> QED
        BY <4>1, <4>2, FlattenAppend DEF p
    <3> HIDE DEF w, q, e
    <3>3. flat(e) = Append(w, q)
      BY <2>1, <2>3, <3>2, AppendThree
    <3> DEFINE o == <<>>
    <3>4. o \in Seq(P) /\ o \in Seq(Seq(P)) /\ Tokens(o) = Append(o, o) /\ w = o /\ o \in Seq(T)
      BY <3>1, NoTokens
    <3>5. Append(o, q) = <<q>> /\ <<q>> \in Seq(P)
      BY <2>3
    <3> HIDE DEF o
    <3>6. q # Space => Tokens(Append(o, q)) = Append(o, Append(o, q))
      BY <2>3, <3>4, TokensGoOn, ZenonT(30)
    <3>7. Tokens(flat(e)) = Append(o, <<q>>)
      BY <2>3, <3>3, <3>4, <3>5, <3>6
    <3>8. flat(e) \in Seq(P)
      BY <2>1, <2>3, <3>3, AppendFacts
    <3>9. Ok(e)
      BY <3>4, <3>7 DEF q
    <3> HIDE DEF Ok
    <3> QED
      BY <2>2, <3>8, <3>9 DEF e
  <2>5. CASE cs # <<>>
    <3>1. PICK f \in Seq(T), y \in K : Tokens(w) = Append(f, <<Word(y)>>)
      BY <1>8, <2>5
    <3>2. flat(e) = w \o <<Break, Space, q>>
      <4> DEFINE p == <<Break, Space, q>>
      <4>1. p \in Seq(P)
        BY <1>2, <2>3
      <4>2. WordsOf(e) = Append(WordsOf(cs), p) /\ WordsOf(cs) \in Seq(Seq(P))
        BY <1>6, <2>5
      <4> HIDE DEF p
      <4> QED
        BY <4>1, <4>2, FlattenAppend DEF p
    <3> DEFINE l == <<Word(y)>>
    <3>3. l \in Seq(P) /\ Append(l, Break) \in T
      BY <1>1, <1>4
    <3>4. Tokens(w) = Append(f, l) /\ f \in Seq(Seq(P))
      BY <1>5, <3>1
    <3> HIDE DEF w, q, e, l
    <3>5. flat(e) \in Seq(P) /\ Tokens(flat(e)) = Append(Append(f, Append(l, Break)), <<q>>)
      <4> DEFINE v == flat(e)
      <4>1. v = w \o <<Break, Space, q>>
        BY <3>2
      <4> HIDE DEF v
      <4>2. v \in Seq(P) /\ Tokens(v) = Append(Append(f, Append(l, Break)), <<q>>)
        <5> DEFINE h == Append(f, Append(l, Break))
                   u == <<q>>
        <5>1. h = Append(f, Append(l, Break)) /\ u = <<q>>
          OBVIOUS
        <5> HIDE DEF h, u
        <5>3. TokensAre(w, f, l)
          BY <3>4 DEF TokensAre
        <5>2. v \in Seq(P) /\ TokensAre(v, h, u)
          BY <1>2, <2>1, <2>3, <3>3, <3>4, <4>1, <5>1, <5>3, NextWordTokens
        <5> QED
          BY <5>1, <5>2 DEF TokensAre
      <4> QED
        BY <4>2 DEF v
    <3>6. Append(f, Append(l, Break)) \in Seq(T)
      BY <3>1, <3>3, AppendFacts
    <3>7. Ok(e)
      BY <3>5, <3>6 DEF q
    <3>8. flat(e) \in Seq(P)
      BY <3>5
    <3> HIDE DEF Ok
    <3> QED
      BY <2>2, <3>7, <3>8 DEF e
  <2> QED
    BY <2>4, <2>5
<1>9. Chunks(t) \in Seq(K) /\ Chunks(t) # <<>>
  BY ChunksFine DEF K
<1>10. Chunks(t) \in G
  <2> HIDE DEF G
  <2> QED
    BY <1>7, <1>8, <1>9, ByAppending
<1>11. PICK f \in Seq(T), x \in K : Tokens(flat(Chunks(t))) = Append(f, <<Word(x)>>)
  BY <1>9, <1>10
<1>12. EncodedWord(t) = flat(Chunks(t))
  BY DEF EncodedWord, WordsOf
<1>13. CutsInto(S, d, EncodedWord(t), f, <<Word(x)>>)
  BY <1>3, <1>4, <1>11, <1>12 DEF CutsInto, T
<1> QED
  BY <1>13
----------------------------------------------------------------------------
(***************************************************************************)
(* A folded header.                                                        *)
(***************************************************************************)
LEMMA MaxOfMany ==
  ASSUME NEW n \in Nat \ {0}, NEW f, \A i \in 1 .. n : f[i] \in Nat
  PROVE  /\ Max({f[i] : i \in 1 .. n}) \in Nat
         /\ \A i \in 1 .. n : f[i] <= Max({f[j] : j \in 1 .. n})
<1> DEFINE G == {k \in Nat : k \in 1 .. n => \E j \in 1 .. k : \A i \in 1 .. k : f[i] <= f[j]}
           V == {f[i] : i \in 1 .. n}
<1>1. 0 \in G
  OBVIOUS
<1>2. ASSUME NEW k \in 0 .. n - 1, k \in G PROVE k + 1 \in G
  <2>1. PICK l \in 1 .. n : l = k + 1
    OBVIOUS
  <2>2. CASE k = 0
    <3>1. l \in 1 .. l /\ \A i \in 1 .. l : i = l
      BY <2>1, <2>2
    <3>2. f[l] <= f[l]
      BY <2>1
    <3>3. \E j \in 1 .. l : \A i \in 1 .. l : f[i] <= f[j]
      BY <3>1, <3>2
    <3> QED
      BY <2>1, <3>3
  <2>3. CASE k # 0
    <3>1. k \in 1 .. n /\ \A i \in 1 .. l : i = l \/ i \in 1 .. k
      BY <2>1, <2>3
    <3>2. PICK j \in 1 .. k : \A i \in 1 .. k : f[i] <= f[j]
      BY <1>2, <3>1
    <3>3. j \in 1 .. l /\ l \in 1 .. l /\ \A i \in 1 .. l : i \in 1 .. n /\ f[i] \in Nat
      BY <2>1, <3>1, <3>2
    <3>4. CASE f[l] <= f[j]
      <4>1. \A i \in 1 .. l : f[i] <= f[j]
        BY <3>1, <3>2, <3>4
      <4> QED
        BY <2>1, <3>3, <4>1
    <3>5. CASE ~(f[l] <= f[j])
      <4>1. f[l] \in Nat /\ f[j] \in Nat
        BY <3>3
      <4>2. \A i \in 1 .. l : f[i] <= f[l]
        <5> TAKE i \in 1 .. l
        <5>1. f[i] \in Nat
          BY <3>3
        <5>2. i = l \/ f[i] <= f[j]
          BY <3>1, <3>2
        <5> QED
          BY <3>5, <4>1, <5>1, <5>2
      <4> QED
        BY <2>1, <3>3, <4>2
    <3> QED
      BY <3>4, <3>5
  <2> QED
    BY <2>2, <2>3
<1>3. n \in 1 .. n /\ n \in Nat /\ n \in 0 .. n
  OBVIOUS
<1>4. n \in G
  <2> HIDE DEF G
  <2> QED
    BY <1>1, <1>2, <1>3, UpTo
<1>5. PICK j \in 1 .. n : \A i \in 1 .. n : f[i] <= f[j]
  BY <1>3, <1>4
<1>6. V \in SUBSET Nat /\ f[j] \in V /\ \A x \in V : x <= f[j]
  BY <1>5
<1> HIDE DEF V, G
<1>7. Max(V) = f[j]
  BY <1>6, MaxIs
<1> QED
  BY <1>5, <1>7 DEF V

\* The name of a header is its first line so far.
LEMMA NameIsFine ==
  ASSUME NEW S, SP \in S, NEW nm \in Seq(S), \E i \in 1 .. Len(nm) : nm[i] # SP,
         NEW m \in Nat, Count(Chars(nm)) <= m, NEW d
  PROVE  /\ Chars(nm) \in Seq(Piece(S)) /\ LastLine(Chars(nm)) = Chars(nm) /\ Chars(nm) # <<>>
         /\ FineLine(Chars(nm), m, d)
         /\ Folded(Chars(nm), S, m, d)
<1> DEFINE name == Chars(nm)
           P == Piece(S)
           Q == P \ {Break}
           n == Len(nm)
<1>1. n \in Nat /\ \A i \in 1 .. n : nm[i] \in S
  OBVIOUS
<1>2. \A c \in S : Char(c) \in Q /\ (Char(c) = Space => c = SP)
  BY PieceFacts
<1>3. \A c \in S : FineWord(Char(c))
  BY DEF FineWord, Char
<1> HIDE DEF P, Q
<1>4. name \in Seq(Q) /\ Len(name) = n /\ \A i \in 1 .. n : name[i] = Char(nm[i])
  BY <1>1, <1>2 DEF Chars
<1> HIDE DEF name
<1>5. name \in Seq(P)
  <2>1. \A i \in 1 .. Len(name) : name[i] \in P
    <3>1. \A i \in 1 .. Len(name) : name[i] \in Q
      BY <1>4
    <3> QED
      BY <3>1 DEF Q
  <2> QED
    BY <1>4, <2>1
<1>6. LastLine(name) = name /\ ClosedLines(name) = {}
  <2> DEFINE o == <<>>
  <2>1. o \in Seq(P) /\ o \o name = name /\ LastLine(o) = o /\ ClosedLines(o) = {}
    BY <1>5, EmptyHeader, ConcatEmptySeq
  <2> HIDE DEF o
  <2>2. LastLine(o \o name) = LastLine(o) \o name /\ ClosedLines(o \o name) = ClosedLines(o)
    BY <1>4, <2>1, LineGoesOn, ZenonT(30) DEF Q
  <2> QED
    BY <2>1, <2>2
<1>7. name # <<>> /\ \E i \in 1 .. n : name[i] # Space
  <2>1. PICK i \in 1 .. n : nm[i] # SP
    OBVIOUS
  <2>2. name[i] # Space
    BY <1>1, <1>2, <1>4, <2>1
  <2> QED
    BY <1>4, <2>1, <2>2
<1>8. \A i \in 1 .. n : FineWord(name[i])
  BY <1>1, <1>3, <1>4
<1>9. FineLine(name, m, d)
  BY <1>4, <1>7, <1>8 DEF FineLine, name
<1> QED
  BY <1>5, <1>6, <1>7, <1>9 DEF Folded, name, P
\* The columns of the longest of some tokens.
LongestOf(ts) == Max({Count(ts[i]) : i \in 1 .. Len(ts)})

LEMMA LongestIsLongest ==
  ASSUME NEW S, NEW ts \in Seq(Seq(Piece(S))), ts # <<>>
  PROVE  LongestOf(ts) \in Nat /\ \A i \in 1 .. Len(ts) : Count(ts[i]) <= LongestOf(ts)
<1> DEFINE n == Len(ts)
           f == [i \in 1 .. n |-> Count(ts[i])]
<1>1. n \in Nat \ {0}
  BY EmptySeq
<1>2. \A i \in 1 .. n : Count(ts[i]) \in Nat
  BY CountAppend
<1>3. \A i \in 1 .. n : f[i] = Count(ts[i])
  OBVIOUS
<1>4. {f[i] : i \in 1 .. n} = {Count(ts[i]) : i \in 1 .. n}
  BY <1>3
<1> HIDE DEF f
<1>5. \A i \in 1 .. n : f[i] \in Nat
  BY <1>2, <1>3
<1> DEFINE V == {f[i] : i \in 1 .. n}
<1>6. Max(V) \in Nat /\ \A i \in 1 .. n : f[i] <= Max(V)
  BY <1>1, <1>5, MaxOfMany
<1>7. LongestOf(ts) = Max(V)
  BY <1>4 DEF LongestOf
<1> HIDE DEF V
<1> QED
  BY <1>3, <1>6, <1>7

\* A header of which the value is cut into tokens.
LEMMA TokensFit ==
  ASSUME NEW S, SP \in S, NEW nm \in Seq(S), \E i \in 1 .. Len(nm) : nm[i] # SP,
         NEW d \in BOOLEAN, NEW value, NEW f, NEW l, CutsInto(S, d, value, f, l)
  PROVE  LET n == LongestOf(Tokens(value))
             m == Max({FoldWidth, Count(Chars(nm)) + 1 + n})
             h == Fold(Chars(nm), value) IN
         /\ h \in Seq(Piece(S))
         /\ \A x \in ClosedLines(h) \cup {LastLine(h)} : FineLine(x, m, d)
<1> DEFINE name == Chars(nm)
           ts == Tokens(value)
           n == LongestOf(ts)
           w == Count(name) + 1 + n
           m == Max({FoldWidth, w})
           T == Token(S, d)
           K == TokenOf(S, n, d)
           h == Fold(name, value)
<1>1. f \in Seq(T) /\ l \in T /\ l \in Seq(Ink(S)) /\ ts = Append(f, l)
  BY DEF CutsInto
<1>2. \A k \in T : k \in Seq(Piece(S))
  BY DEF Token
<1> HIDE DEF T, ts
<1>3. /\ ts \in Seq(T) /\ ts # <<>> /\ Len(f) \in Nat /\ Len(ts) = Len(f) + 1 /\ ts[Len(f) + 1] = l
      /\ \A i \in 1 .. Len(f) : ts[i] = f[i]
  BY <1>1, AppendFacts
<1>4. ts \in Seq(Seq(Piece(S)))
  <2> DEFINE Q == Seq(Piece(S))
  <2>1. \A k \in T : k \in Q
    BY <1>2
  <2> HIDE DEF Q
  <2>2. \A i \in 1 .. Len(ts) : ts[i] \in Q
    BY <1>3, <2>1
  <2>3. ts \in Seq(Q)
    BY <1>3, <2>2
  <2> QED
    BY <2>3 DEF Q
<1>5. n \in Nat /\ \A i \in 1 .. Len(ts) : Count(ts[i]) <= n
  BY <1>3, <1>4, LongestIsLongest
<1> HIDE DEF n
<1>6. Count(name) \in Nat
  <2>1. name \in Seq(Piece(S))
    BY PieceFacts DEF Chars
  <2> QED
    BY <2>1, CountAppend
<1>7. w \in Nat /\ FoldWidth \in Nat
  BY <1>5, <1>6, EmlAssumption
<1> HIDE DEF w
<1>8. m \in Nat /\ m >= FoldWidth /\ m >= w
  BY <1>7, MaxOfTwo
<1> HIDE DEF m
<1>9. FoldWidth <= m /\ Count(name) + 1 + n <= m /\ Count(name) <= m
  BY <1>5, <1>6, <1>7, <1>8 DEF w
<1>10. \A k \in T : Count(k) <= n => k \in K
  BY DEF Token, TokenOf, T
<1>11. f \in Seq(K) /\ l \in K
  <2>1. Count(l) <= n
    BY <1>3, <1>5
  <2>2. ASSUME NEW i \in 1 .. Len(f) PROVE f[i] \in K
    <3>1. i \in 1 .. Len(ts) /\ f[i] \in T /\ ts[i] = f[i]
      BY <1>1, <1>3
    <3> QED
      BY <1>5, <1>10, <3>1
  <2> HIDE DEF K
  <2> QED
    BY <1>1, <1>10, <2>1, <2>2
<1>12. /\ name \in Seq(Piece(S))
       /\ Folded(name, S, m, d)
  BY <1>8, <1>9, NameIsFine
<1>13. Tokens(value) = Append(f, l)
  BY <1>1 DEF ts
<1>14. f \in Seq(TokenOf(S, n, d)) /\ l \in TokenOf(S, n, d)
  BY <1>11
<1> HIDE DEF K, name
<1>15. /\ Fold(name, value) \in Seq(Piece(S))
       /\ \A x \in ClosedLines(Fold(name, value)) : FineLine(x, m, d)
       /\ FineLine(LastLine(Fold(name, value)), m, d)
  BY <1>1, <1>5, <1>8, <1>9, <1>12, <1>13, <1>14, HeaderIsFine
<1> QED
  BY <1>15 DEF m, w, n, ts, name

\* A header without a value.
LEMMA NothingFits ==
  ASSUME NEW S, SP \in S, NEW nm \in Seq(S), \E i \in 1 .. Len(nm) : nm[i] # SP, NEW d \in BOOLEAN
  PROVE  LET n == LongestOf(Tokens(<<>>))
             m == Max({FoldWidth, Count(Chars(nm)) + 1 + n})
             h == Fold(Chars(nm), <<>>) IN
         /\ h \in Seq(Piece(S))
         /\ \A x \in ClosedLines(h) \cup {LastLine(h)} : FineLine(x, m, d)
<1> DEFINE name == Chars(nm)
           o == <<>>
           n == LongestOf(Tokens(o))
           w == Count(name) + 1 + n
           m == Max({FoldWidth, w})
           h == Fold(name, o)
           P == Piece(S)
<1>1. Tokens(o) = <<o>> /\ Append(o, o) = <<o>>
  BY NoTokens
<1>2. Count(o) = 0 /\ Count(name) \in Nat
  <2>1. name \in Seq(Piece(S))
    BY PieceFacts DEF Chars
  <2> QED
    BY <2>1, CountAppend
<1>3. n \in Nat
  <2>1. <<o>> \in Seq(Seq(Piece(S))) /\ <<o>> # <<>>
    OBVIOUS
  <2> QED
    BY <1>1, <2>1, LongestIsLongest
<1> HIDE DEF n
<1>4. w \in Nat /\ FoldWidth \in Nat
  BY <1>2, <1>3, EmlAssumption
<1> HIDE DEF w
<1>5. m \in Nat /\ m >= FoldWidth /\ m >= w
  BY <1>4, MaxOfTwo
<1> HIDE DEF m
<1>6. Count(name) + Count(o) + 1 <= m /\ Count(name) <= m
  BY <1>2, <1>3, <1>4, <1>5 DEF w
<1>7. /\ name \in Seq(P) /\ LastLine(name) = name /\ name # <<>> /\ FineLine(name, m, d)
      /\ Folded(name, S, m, d)
  BY <1>5, <1>6, NameIsFine
<1>8. h = HeaderStep(name, name, o)
  <2> DEFINE A == Seq(P)
             B == {o}
  <2>1. h = HeaderFold(name, Append(o, o), name)
    BY <1>1, FoldsAre
  <2>2. Break \in P /\ Space \in P
    BY PieceFacts DEF Space
  <2>3. PICK b \in A : b = name
    BY <1>7
  <2> HIDE DEF P
  <2>4. ASSUME NEW x \in A, NEW k \in B PROVE HeaderStep(name, x, k) \in A
    <3>1. <<Break, Space>> \in Seq(P) /\ <<Space>> \in Seq(P) /\ k \in Seq(P) /\ x \in Seq(P)
      BY <2>2
    <3>2. (x \o <<Break, Space>>) \o k \in Seq(P) /\ (x \o <<Space>>) \o k \in Seq(P)
      BY <3>1, ConcatProperties
    <3> QED
      BY <3>2 DEF HeaderStep
  <2>5. o \in Seq(B) /\ o \in B
    OBVIOUS
  <2> HIDE DEF A, B
  <2>6. b \in A
    BY <2>3
  <2>7. \A x \in A, c \in B : HeaderStep(name, x, c) \in A
    BY <2>4
  <2> HIDE DEF o, h, name
  <2>8. HeaderSteps(name, A, B, b)
    BY <2>6, <2>7, HeaderFoldStep
  <2>9. HeaderFold(name, o, b) = b
    BY <2>8 DEF HeaderSteps, o
  <2>10. HeaderFold(name, Append(o, o), b) = HeaderStep(name, HeaderFold(name, o, b), o)
    BY <2>5, <2>8 DEF HeaderSteps
  <2> QED
    BY <2>1, <2>3, <2>9, <2>10
<1>9. HeaderStep(name, name, o) = (name \o <<Space>>) \o o
  BY <1>2, <1>7 DEF HeaderStep, StartsNewLine
<1>10. o \in Seq(Ink(S)) /\ Count(LastLine(name)) + Count(o) + 1 <= m
  BY <1>6, <1>7
<1> HIDE DEF o, name, h
<1>11. /\ (name \o <<Space>>) \o o \in Seq(P)
       /\ ClosedLines((name \o <<Space>>) \o o) = ClosedLines(name)
       /\ FineLine(LastLine((name \o <<Space>>) \o o), m, d)
  BY <1>5, <1>7, <1>10, LineTakes
<1>12. \A x \in ClosedLines(name) : FineLine(x, m, d)
  BY <1>7 DEF Folded
<1>13. /\ h \in Seq(P)
       /\ \A x \in ClosedLines(h) \cup {LastLine(h)} : FineLine(x, m, d)
  BY <1>8, <1>9, <1>11, <1>12
<1> QED
  BY <1>13 DEF m, w, n, o, h, name

\* A header of any value that has no space at its ends.
LEMMA HeaderFits ==
  ASSUME NEW S, SP \in S, NEW C, C \subseteq S, \A c \in C : Bytes(c) \in Nat,
         NEW nm \in Seq(S), \E i \in 1 .. Len(nm) : nm[i] # SP,
         NEW v \in Seq(C), v = <<>> \/ (v[1] # SP /\ v[Len(v)] # SP)
  PROVE  LET value == EncodeIfNeeded(v)
             m == Max({FoldWidth, Count(Chars(nm)) + 1 + LongestOf(Tokens(value))})
             h == Fold(Chars(nm), value) IN
         /\ h \in Seq(Piece(S))
         /\ \A x \in ClosedLines(h) \cup {LastLine(h)} : FineLine(x, m, Doubled(v))
<1> DEFINE d == Doubled(v)
           value == EncodeIfNeeded(v)
<1>1. d \in BOOLEAN
  BY DEF Doubled
<1>2. v \in Seq(S)
  OBVIOUS
<1>3. CASE v = <<>>
  <2>1. value = <<>>
    BY <1>3 DEF EncodeIfNeeded, IsAscii, Chars
  <2> HIDE DEF value, d
  <2> QED
    BY <1>1, <2>1, NothingFits DEF value, d
<1>4. CASE v # <<>>
  <2>1. \E f, l : CutsInto(S, d, value, f, l)
    <3>1. CASE IsAscii(v)
      <4>1. value = Chars(v) /\ (Doubled(v) => d)
        BY <3>1 DEF EncodeIfNeeded
      <4> HIDE DEF d, value
      <4> QED
        BY <1>1, <1>2, <1>4, <4>1, PlainTokens
    <3>2. CASE ~IsAscii(v)
      <4>1. value = EncodedWord(v)
        BY <3>2 DEF EncodeIfNeeded
      <4> HIDE DEF d, value
      <4> QED
        BY <1>1, <1>4, <4>1, EncodedTokens
    <3> QED
      BY <3>1, <3>2
  <2>2. PICK f, l : CutsInto(S, d, value, f, l)
    BY <2>1
  <2> HIDE DEF value, d
  <2> DEFINE n == LongestOf(Tokens(value))
             m == Max({FoldWidth, Count(Chars(nm)) + 1 + n})
             h == Fold(Chars(nm), value)
  <2>3. /\ h \in Seq(Piece(S))
        /\ \A x \in ClosedLines(h) \cup {LastLine(h)} : FineLine(x, m, d)
    BY <1>1, <2>2, TokensFit
  <2> QED
    BY <2>3 DEF value, d
<1> QED
  BY <1>3, <1>4

\* What sanitize leaves has no space at its ends.
LEMMA SanitizedFacts ==
  ASSUME NEW S, SP \in S, NEW t \in Seq(S)
  PROVE  /\ Sanitized(t) \in Seq(S)
         /\ Sanitized(t) = <<>> \/ (Sanitized(t)[1] # SP /\ Sanitized(t)[Len(Sanitized(t))] # SP)
<1> DEFINE p == [i \in 1 .. Len(t) |->
                   IF t[i] = CR /\ i < Len(t) /\ t[i + 1] = LF THEN <<>>
                   ELSE IF t[i] \in {CR, LF} THEN <<SP>> ELSE <<t[i]>>]
           flat == FlattenSeq(p)
           I == {i \in 1 .. Len(flat) : flat[i] # SP}
<1>1. flat \in Seq(S)
  <2> DEFINE Q == Seq(S)
  <2>1. ASSUME NEW i \in 1 .. Len(t) PROVE p[i] \in Q
    <3>1. <<t[i]>> \in Q /\ <<SP>> \in Q /\ <<>> \in Q
      OBVIOUS
    <3>2. p[i] \in {<<>>, <<SP>>, <<t[i]>>}
      OBVIOUS
    <3> HIDE DEF p, Q
    <3> QED
      BY <3>1, <3>2
  <2>2. Len(t) \in Nat
    OBVIOUS
  <2>3. Len(p) = Len(t) /\ p \in Seq(Q)
    <3> HIDE DEF Q
    <3> QED
      BY <2>1, <2>2
  <2> HIDE DEF p
  <2>4. p \in Seq(Seq(S))
    BY <2>3 DEF Q
  <2> QED
    BY <2>4, FlattenTyped
<1>2. Sanitized(t) = IF I = {} THEN <<>> ELSE SubSeq(flat, Min(I), Max(I))
  BY DEF Sanitized
<1> HIDE DEF flat
<1>3. CASE I = {}
  BY <1>2, <1>3
<1>4. CASE I # {}
  <2>1. Len(flat) \in Nat /\ I \in SUBSET (1 .. Len(flat)) /\ I \subseteq Nat
    BY <1>1
  <2>2. PICK a, b : a = Min(I) /\ b = Max(I)
    OBVIOUS
  <2>3. a \in I /\ (\A k \in I : a <= k) /\ b \in I
    <3> HIDE DEF I
    <3> QED
      BY <1>4, <2>1, <2>2, MinIsLeast, MaxUpTo
  <2>4. a \in 1 .. Len(flat) /\ b \in 1 .. Len(flat) /\ a <= b /\ flat[a] # SP /\ flat[b] # SP
    BY <2>3
  <2> DEFINE v == SubSeq(flat, a, b)
  <2>5. Sanitized(t) = v
    BY <1>2, <1>4, <2>2
  <2>6. \A i \in a .. b : flat[i] \in S
    BY <1>1, <2>1, <2>4
  <2>7. /\ v \in Seq(S) /\ Len(v) = b - a + 1
        /\ \A i \in 1 .. b - a + 1 : v[i] = flat[a + i - 1]
    BY <2>4, <2>6, SubSeqProperties
  <2> HIDE DEF v
  <2>8. 1 \in 1 .. b - a + 1 /\ b - a + 1 \in 1 .. b - a + 1 /\ a + 1 - 1 = a /\ a + (b - a + 1) - 1 = b
    BY <2>4
  <2>9. v[1] = flat[a] /\ v[b - a + 1] = flat[b]
    <3>1. v[1] = flat[a + 1 - 1] /\ v[b - a + 1] = flat[a + (b - a + 1) - 1]
      BY <2>7, <2>8
    <3> QED
      BY <2>8, <3>1
  <2> QED
    BY <2>4, <2>5, <2>7, <2>9
<1> QED
  BY <1>3, <1>4
=============================================================================
