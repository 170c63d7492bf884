---------------------------- MODULE ComposerProofs ----------------------------
(***************************************************************************)
(* The proof that a reader finds in a message the parts that eml() made it *)
(* of (PartsReadAsComposed), for texts of any length.                      *)
(*                                                                         *)
(* The lines of the header are Whole: they do not start or end with a line *)
(* break and have no two in a row.  So the first empty line is the one     *)
(* after them, and as the last of them is not folded, what follows the     *)
(* last line break is the last field.  In the body the delimiters are the  *)
(* marks of the boundary at the start of a line: the three that eml() has  *)
(* written, because neither part has any.                                  *)
(***************************************************************************)
EXTENDS Composer, EmlProofs

----------------------------------------------------------------------------
(***************************************************************************)
(* Lemmas about sequences put together and read in parts.                  *)
(***************************************************************************)

\* Two sequences, element by element.
LEMMA ConcatElements ==
  ASSUME NEW S, NEW a \in Seq(S), NEW b \in Seq(S)
  PROVE  /\ a \o b \in Seq(S) /\ Len(a) \in Nat /\ Len(b) \in Nat
         /\ Len(a \o b) = Len(a) + Len(b)
         /\ \A i \in 1 .. Len(a) : (a \o b)[i] = a[i]
         /\ \A j \in 1 .. Len(b) : (a \o b)[Len(a) + j] = b[j]
<1> DEFINE c == a \o b
           m == Len(a)
           n == Len(b)
<1>1. /\ c \in Seq(S) /\ m \in Nat /\ n \in Nat /\ Len(c) = m + n
      /\ \A i \in 1 .. m + n : c[i] = IF i <= m THEN a[i] ELSE b[i - m]
  BY ConcatProperties
<1> HIDE DEF c, m, n
<1>2. ASSUME NEW i \in 1 .. m PROVE c[i] = a[i]
  <2>1. i \in 1 .. m + n /\ i <= m
    BY <1>1
  <2> QED
    BY <1>1, <2>1
<1>3. ASSUME NEW j \in 1 .. n PROVE c[m + j] = b[j]
  <2>1. PICK i : i = m + j
    OBVIOUS
  <2>2. i \in 1 .. m + n /\ ~(i <= m) /\ i - m = j
    BY <1>1, <2>1
  <2> QED
    BY <1>1, <2>1, <2>2
<1> QED
  BY <1>1, <1>2, <1>3 DEF c, m, n

LEMMA SliceFacts ==
  ASSUME NEW S, NEW s \in Seq(S), NEW f \in Nat \ {0}, NEW l \in Nat, f <= l + 1, l <= Len(s)
  PROVE  /\ SubSeq(s, f, l) \in Seq(S) /\ Len(SubSeq(s, f, l)) = l - f + 1
         /\ \A i \in 1 .. l - f + 1 : SubSeq(s, f, l)[i] = s[f + i - 1]
<1>1. \A i \in f .. l : i \in 1 .. Len(s)
  OBVIOUS
<1>2. \A i \in f .. l : s[i] \in S
  BY <1>1
<1>3. f \in Int /\ l \in Int
  OBVIOUS
<1>4. /\ SubSeq(s, f, l) \in Seq(S) /\ Len(SubSeq(s, f, l)) = IF f <= l THEN l - f + 1 ELSE 0
      /\ \A i \in 1 .. l - f + 1 : SubSeq(s, f, l)[i] = s[f + i - 1]
  BY <1>2, <1>3, SubSeqProperties
<1>5. (IF f <= l THEN l - f + 1 ELSE 0) = l - f + 1
  OBVIOUS
<1> QED
  BY <1>4, <1>5

\* A part in the middle.
LEMMA MiddleOf ==
  ASSUME NEW S, NEW a \in Seq(S), NEW m \in Seq(S), NEW b \in Seq(S), NEW s, s = (a \o m) \o b
  PROVE  SubSeq(s, Len(a) + 1, Len(a) + Len(m)) = m
<1> DEFINE x == Len(a)
           y == Len(m)
           z == Len(b)
           am == a \o m
<1>1. /\ am \in Seq(S) /\ x \in Nat /\ y \in Nat /\ Len(am) = x + y
      /\ \A j \in 1 .. y : am[x + j] = m[j]
  BY ConcatElements
<1> HIDE DEF x, y, z, am
<1>2. /\ s \in Seq(S) /\ z \in Nat /\ Len(s) = x + y + z
      /\ \A i \in 1 .. x + y : s[i] = am[i]
  <2>1. /\ am \o b \in Seq(S) /\ Len(b) \in Nat /\ Len(am \o b) = Len(am) + Len(b)
        /\ \A i \in 1 .. Len(am) : (am \o b)[i] = am[i]
    BY <1>1, ConcatElements
  <2>2. s = am \o b
    BY DEF am
  <2> QED
    BY <1>1, <2>1, <2>2 DEF z
<1>3. PICK f : f = x + 1
  OBVIOUS
<1>4. PICK l : l = x + y
  OBVIOUS
<1>5. f \in Nat \ {0} /\ l \in Nat /\ f <= l + 1 /\ l <= Len(s) /\ l - f + 1 = y
  BY <1>1, <1>2, <1>3, <1>4
<1> DEFINE u == SubSeq(s, f, l)
<1>6. u \in Seq(S) /\ Len(u) = y /\ \A i \in 1 .. y : u[i] = s[f + i - 1]
  BY <1>2, <1>5, SliceFacts, SMTT(30)
<1> HIDE DEF u
<1>7. ASSUME NEW i \in 1 .. y PROVE u[i] = m[i]
  <2>1. f + i - 1 = x + i /\ x + i \in 1 .. x + y
    BY <1>1, <1>3
  <2>2. u[i] = s[x + i] /\ s[x + i] = am[x + i]
    BY <1>2, <1>6, <2>1
  <2> QED
    BY <1>1, <2>2
<1>8. u = m
  BY <1>6, <1>7, SeqEqual DEF y
<1> QED
  BY <1>3, <1>4, <1>8 DEF u, x, y

\* What is left from a place on.
LEMMA FromFacts ==
  ASSUME NEW S, NEW s \in Seq(S), NEW i \in 1 .. Len(s) + 1
  PROVE  /\ From(s, i) \in Seq(S) /\ Len(From(s, i)) = Len(s) - i + 1
         /\ \A j \in 1 .. Len(s) - i + 1 : From(s, i)[j] = s[i + j - 1]
<1>1. i \in Nat \ {0} /\ Len(s) \in Nat /\ i <= Len(s) + 1 /\ Len(s) <= Len(s)
  OBVIOUS
<1> QED
  BY <1>1, SliceFacts DEF From

\* What is left of two texts from a place of the second.
LEMMA FromSecond ==
  ASSUME NEW S, NEW a \in Seq(S), NEW b \in Seq(S)
  PROVE  From(a \o b, Len(a) + 1) = b
<1> DEFINE s == a \o b
           o == <<>>
<1>1. o \in Seq(S) /\ s = s \o o
  BY ConcatElements, ConcatEmptySeq
<1>2. Len(s) = Len(a) + Len(b)
  BY ConcatElements
<1> HIDE DEF s, o
<1>3. s = (a \o b) \o o
  BY <1>1 DEF s
<1>4. SubSeq(s, Len(a) + 1, Len(a) + Len(b)) = b
  BY <1>1, <1>3, MiddleOf
<1> QED
  BY <1>2, <1>4 DEF From, s

\* A prefix, element by element.
LEMMA PrefixAt ==
  ASSUME NEW S, NEW p \in Seq(S), NEW s \in Seq(S), NEW i \in 1 .. Len(s) + 1
  PROVE  IsPrefix(p, From(s, i)) <=>
           Len(p) <= Len(s) - i + 1 /\ \A j \in 1 .. Len(p) : s[i + j - 1] = p[j]
<1> DEFINE f == From(s, i)
           n == Len(p)
           m == Len(s) - i + 1
<1>1. f \in Seq(S) /\ Len(f) = m /\ m \in Nat /\ n \in Nat /\ \A j \in 1 .. m : f[j] = s[i + j - 1]
  BY FromFacts
<1>2. SubSeq(p, 1, n) = p
  BY SubSeqFull
<1> HIDE DEF f, m
<1>3. n <= m => Take(f, n) \in Seq(S) /\ Len(Take(f, n)) = n /\ \A j \in 1 .. n : Take(f, n)[j] = f[j]
  <2>1. SUFFICES ASSUME n <= m PROVE Take(f, n) \in Seq(S) /\ Len(Take(f, n)) = n /\ \A j \in 1 .. n : Take(f, n)[j] = f[j]
    OBVIOUS
  <2>2. n \in 0 .. Len(f)
    BY <1>1, <2>1
  <2> HIDE DEF n
  <2> QED
    BY <1>1, <2>2, TakeElements
<1>4. IsPrefix(p, f) <=> n <= m /\ p = Take(f, n)
  BY <1>1, <1>2 DEF IsPrefix, Take
<1>5. ASSUME n <= m PROVE p = Take(f, n) <=> \A j \in 1 .. n : f[j] = p[j]
  <2>1. Take(f, n) \in Seq(S) /\ Len(Take(f, n)) = n /\ \A j \in 1 .. n : Take(f, n)[j] = f[j]
    BY <1>3, <1>5
  <2>2. p = Take(f, n) => \A j \in 1 .. n : f[j] = p[j]
    BY <2>1
  <2>3. ASSUME \A j \in 1 .. n : f[j] = p[j] PROVE p = Take(f, n)
    BY <2>1, <2>3, SeqEqual
  <2> QED
    BY <2>2, <2>3
<1>6. n <= m => \A j \in 1 .. n : f[j] = s[i + j - 1]
  BY <1>1
<1> HIDE DEF n
<1>7. IsPrefix(p, f) <=> n <= m /\ \A j \in 1 .. n : s[i + j - 1] = p[j]
  BY <1>4, <1>5, <1>6
<1> QED
  BY <1>7 DEF f, n, m

----------------------------------------------------------------------------
(***************************************************************************)
(* Delimiters: where a line of a body starts with a mark, which is part of *)
(* a line itself.                                                          *)
(***************************************************************************)
\* The places where a line of a text starts with a mark.
MarkAt(s, mark, i) ==
  StartsLine(s, i) /\ Len(mark) <= Len(s) - i + 1 /\ \A j \in 1 .. Len(mark) : s[i + j - 1] = mark[j]
Marks(s, mark) == {i \in 1 .. Len(s) : MarkAt(s, mark, i)}
InLine(mark) == mark # <<>> /\ \A j \in 1 .. Len(mark) : mark[j] \notin {CR, LF}
EndsInCrlf(s) == Len(s) >= 2 /\ s[Len(s) - 1] = CR /\ s[Len(s)] = LF

\* Delimiters: the marks of the boundary, in their order.
LEMMA DelimitersAreMarks ==
  ASSUME NEW S, Hyphen \in S, NEW b \in Seq(S), NEW s \in Seq(S)
  PROVE  Delimiters(s, b) = Ordered(Len(s), Marks(s, <<Hyphen, Hyphen>> \o b))
<1> DEFINE mark == <<Hyphen, Hyphen>> \o b
           D == {i \in 1 .. Len(s) : StartsLine(s, i) /\ IsPrefix(mark, From(s, i))}
<1>1. mark \in Seq(S)
  <2>1. <<Hyphen, Hyphen>> \in Seq(S)
    OBVIOUS
  <2> QED
    BY <2>1, ConcatElements
<1> HIDE DEF mark
<1>2. \A i \in 1 .. Len(s) : MarkAt(s, mark, i) <=> StartsLine(s, i) /\ IsPrefix(mark, From(s, i))
  <2> TAKE i \in 1 .. Len(s)
  <2>1. i \in 1 .. Len(s) + 1
    OBVIOUS
  <2>2. IsPrefix(mark, From(s, i)) <=>
          Len(mark) <= Len(s) - i + 1 /\ \A j \in 1 .. Len(mark) : s[i + j - 1] = mark[j]
    BY <1>1, <2>1, PrefixAt
  <2> QED
    BY <2>2 DEF MarkAt
<1>3. D = Marks(s, mark)
  BY <1>2 DEF Marks
<1> QED
  BY <1>3 DEF mark, Delimiters

\* Two texts, the first of which ends with a line.
LEMMA MarksConcat ==
  ASSUME NEW S, NEW a \in Seq(S), NEW s \in Seq(S), EndsInCrlf(a), NEW mark \in Seq(S), InLine(mark)
  PROVE  /\ \A i \in 1 .. Len(a) : MarkAt(a \o s, mark, i) <=> MarkAt(a, mark, i)
         /\ \A i \in 1 .. Len(s) : MarkAt(a \o s, mark, Len(a) + i) <=> MarkAt(s, mark, i)
<1> DEFINE c == a \o s
           n == Len(a)
           m == Len(s)
           k == Len(mark)
<1>1. /\ c \in Seq(S) /\ n \in Nat /\ m \in Nat /\ Len(c) = n + m
      /\ \A i \in 1 .. n : c[i] = a[i]
      /\ \A j \in 1 .. m : c[n + j] = s[j]
  BY ConcatElements
<1>2. k \in Nat \ {0} /\ \A j \in 1 .. k : mark[j] # CR /\ mark[j] # LF
  BY EmptySeq DEF InLine
<1>3. n >= 2 /\ a[n - 1] = CR /\ a[n] = LF
  BY DEF EndsInCrlf
<1> HIDE DEF c, n, m, k
<1>4. ASSUME NEW i \in 1 .. n PROVE MarkAt(c, mark, i) <=> MarkAt(a, mark, i)
  <2>1. StartsLine(c, i) <=> StartsLine(a, i)
    <3>1. i > 2 => i - 2 \in 1 .. n /\ i - 1 \in 1 .. n
      BY <1>1
    <3>2. i > 2 => c[i - 2] = a[i - 2] /\ c[i - 1] = a[i - 1]
      BY <1>1, <3>1
    <3> QED
      BY <3>2 DEF StartsLine
  <2>2. ASSUME k <= n - i + 1
        PROVE  \A j \in 1 .. k : c[i + j - 1] = a[i + j - 1]
    <3> TAKE j \in 1 .. k
    <3>1. i + j - 1 \in 1 .. n
      BY <1>1, <1>2, <2>2
    <3> QED
      BY <1>1, <3>1
  <2>3. ASSUME k > n - i + 1, \A j \in 1 .. k : c[i + j - 1] = mark[j] PROVE FALSE
    <3>1. PICK j : j = n - i + 1
      OBVIOUS
    <3>2. j \in 1 .. k /\ i + j - 1 = n /\ n \in 1 .. n
      BY <1>1, <1>2, <2>3, <3>1
    <3>3. c[n] = mark[j]
      BY <2>3, <3>2
    <3> QED
      BY <1>1, <1>2, <1>3, <3>2, <3>3
  <2>4. k <= n - i + 1 => k <= Len(c) - i + 1
    BY <1>1, <1>2
  <2>5. k <= n - i + 1 \/ k > n - i + 1
    BY <1>1, <1>2
  <2> QED
    BY <2>1, <2>2, <2>3, <2>4, <2>5 DEF MarkAt, n, k
<1>5. ASSUME NEW i \in 1 .. m PROVE MarkAt(c, mark, n + i) <=> MarkAt(s, mark, i)
  <2>1. StartsLine(c, n + i) <=> StartsLine(s, i)
    <3>1. CASE i = 1
      <4>1. PICK x : x = n + i
        OBVIOUS
      <4>2. x > 2 /\ x - 2 = n - 1 /\ x - 1 = n /\ n - 1 \in 1 .. n /\ n \in 1 .. n
        BY <1>1, <1>3, <3>1, <4>1
      <4>3. StartsLine(c, x)
        BY <1>1, <1>3, <4>2 DEF StartsLine
      <4> QED
        BY <3>1, <4>1, <4>3 DEF StartsLine
    <3>2. CASE i = 2
      <4>1. PICK x : x = n + i
        OBVIOUS
      <4>2. x > 2 /\ x - 2 = n /\ n \in 1 .. n /\ x \in Nat
        BY <1>1, <1>3, <3>2, <4>1
      <4>3. c[x - 2] # CR
        <5>1. c[x - 2] = LF
          BY <1>1, <1>3, <4>2
        <5> QED
          BY <5>1, CrlfFacts
      <4>4. ~StartsLine(c, x)
        BY <4>2, <4>3 DEF StartsLine
      <4>5. ~StartsLine(s, i)
        BY <3>2 DEF StartsLine
      <4> QED
        BY <4>1, <4>4, <4>5
    <3>3. CASE i > 2
      <4>1. PICK x : x = n + i
        OBVIOUS
      <4>2. PICK y : y = i - 2
        OBVIOUS
      <4>3. PICK z : z = i - 1
        OBVIOUS
      <4>4. x > 2 /\ x - 2 = n + y /\ x - 1 = n + z /\ y \in 1 .. m /\ z \in 1 .. m /\ i # 1 /\ x # 1
        BY <1>1, <1>3, <3>3, <4>1, <4>2, <4>3
      <4>5. c[x - 2] = s[y] /\ c[x - 1] = s[z]
        BY <1>1, <4>4
      <4> QED
        BY <3>3, <4>1, <4>2, <4>3, <4>4, <4>5 DEF StartsLine
    <3>4. i = 1 \/ i = 2 \/ i > 2
      OBVIOUS
    <3> QED
      BY <3>1, <3>2, <3>3, <3>4
  <2>2. Len(c) - (n + i) + 1 = m - i + 1
    BY <1>1
  <2>3. ASSUME k <= m - i + 1
        PROVE  \A j \in 1 .. k : c[n + i + j - 1] = s[i + j - 1]
    <3> TAKE j \in 1 .. k
    <3>1. PICK y : y = i + j - 1
      OBVIOUS
    <3>2. y \in 1 .. m /\ n + i + j - 1 = n + y
      BY <1>1, <1>2, <2>3, <3>1
    <3> QED
      BY <1>1, <3>1, <3>2
  <2> QED
    BY <2>1, <2>2, <2>3 DEF MarkAt, m, k
<1> QED
  BY <1>4, <1>5 DEF c, n, m

\* Two texts without the mark make one without it.
LEMMA MarksTogether ==
  ASSUME NEW S, NEW a \in Seq(S), NEW s \in Seq(S), EndsInCrlf(a), NEW mark \in Seq(S), InLine(mark)
  PROVE  /\ Marks(s, mark) = {} => Marks(a \o s, mark) = Marks(a, mark)
         /\ Marks(s, mark) = {1} => Marks(a \o s, mark) = Marks(a, mark) \cup {Len(a) + 1}
<1> DEFINE c == a \o s
           n == Len(a)
           m == Len(s)
<1>1. n \in Nat /\ m \in Nat /\ Len(c) = n + m
  BY ConcatElements
<1>2. /\ \A i \in 1 .. n : MarkAt(c, mark, i) <=> MarkAt(a, mark, i)
      /\ \A i \in 1 .. m : MarkAt(c, mark, n + i) <=> MarkAt(s, mark, i)
  BY MarksConcat
<1> HIDE DEF c, n, m
<1>3. \A x \in 1 .. n + m : x \in 1 .. n \/ \E i \in 1 .. m : x = n + i
  <2> TAKE x \in 1 .. n + m
  <2>1. PICK i : i = x - n
    OBVIOUS
  <2>2. x \in 1 .. n \/ (i \in 1 .. m /\ x = n + i)
    BY <1>1, <2>1
  <2> QED
    BY <2>2
<1>4. \A x \in 1 .. n : x \in 1 .. n + m
  BY <1>1
<1>5. \A i \in 1 .. m : n + i \in 1 .. n + m /\ n + i \notin 1 .. n
  BY <1>1
<1>6. /\ \A x : x \in Marks(a, mark) <=> x \in 1 .. n /\ MarkAt(a, mark, x)
      /\ \A x : x \in Marks(s, mark) <=> x \in 1 .. m /\ MarkAt(s, mark, x)
      /\ \A x : x \in Marks(c, mark) <=> x \in 1 .. n + m /\ MarkAt(c, mark, x)
  BY <1>1 DEF Marks, n, m
<1>7. ASSUME Marks(s, mark) = {} PROVE Marks(c, mark) = Marks(a, mark)
  <2>1. \A i \in 1 .. m : ~MarkAt(s, mark, i)
    BY <1>6, <1>7
  <2>2. \A x : x \in Marks(c, mark) <=> x \in Marks(a, mark)
    BY <1>2, <1>3, <1>4, <1>6, <2>1
  <2> QED
    BY <2>2
<1>8. ASSUME Marks(s, mark) = {1} PROVE Marks(c, mark) = Marks(a, mark) \cup {n + 1}
  <2>1. 1 \in 1 .. m /\ MarkAt(s, mark, 1) /\ \A i \in 1 .. m : MarkAt(s, mark, i) => i = 1
    BY <1>6, <1>8
  <2>2. \A x : x \in Marks(c, mark) <=> x \in Marks(a, mark) \/ x = n + 1
    BY <1>2, <1>3, <1>4, <1>5, <1>6, <2>1
  <2> QED
    BY <2>2
<1> QED
  BY <1>7, <1>8 DEF c, n

\* What ends a text ends the texts that end in it.
LEMMA CrlfEnds ==
  ASSUME NEW S, NEW a \in Seq(S), NEW s \in Seq(S), EndsInCrlf(s)
  PROVE  EndsInCrlf(a \o s)
<1> DEFINE c == a \o s
           n == Len(a)
           m == Len(s)
<1>1. /\ n \in Nat /\ m \in Nat /\ Len(c) = n + m
      /\ \A j \in 1 .. m : c[n + j] = s[j]
  BY ConcatElements
<1>2. m >= 2 /\ s[m - 1] = CR /\ s[m] = LF
  BY DEF EndsInCrlf
<1> HIDE DEF c, n, m
<1>3. PICK y : y = m - 1
  OBVIOUS
<1>4. y \in 1 .. m /\ m \in 1 .. m /\ Len(c) - 1 = n + y /\ Len(c) >= 2
  BY <1>1, <1>2, <1>3
<1>5. c[n + y] = CR /\ c[n + m] = LF
  BY <1>1, <1>2, <1>3, <1>4
<1> QED
  BY <1>1, <1>4, <1>5 DEF EndsInCrlf, c

\* A line that does not start as a mark has none, and one that starts with it has one.
LEMMA LineMarks ==
  ASSUME NEW S, {CR, LF} \subseteq S, NEW x \in Seq(S), \A i \in 1 .. Len(x) : x[i] \notin {CR, LF},
         NEW mark \in Seq(S), InLine(mark)
  PROVE  LET l == x \o CRLF IN
         /\ l \in Seq(S) /\ EndsInCrlf(l) /\ Len(l) = Len(x) + 2
         /\ l[1] # mark[1] => Marks(l, mark) = {}
         /\ MarkAt(l, mark, 1) => Marks(l, mark) = {1}
<1> DEFINE l == x \o CRLF
           n == Len(x)
<1>1. CRLF \in Seq(S) /\ CR \in S /\ LF \in S
  BY AppendCrlf
<1>2. /\ l \in Seq(S) /\ n \in Nat /\ Len(l) = n + 2
      /\ \A i \in 1 .. n : l[i] = x[i]
      /\ \A j \in 1 .. 2 : l[n + j] = CRLF[j]
  BY <1>1, ConcatElements, CrlfFacts
<1> HIDE DEF l
<1>3. l[n + 1] = CR /\ l[n + 2] = LF
  BY <1>2, CrlfFacts
<1>4. \A i \in 1 .. n + 2 : l[i] = LF => i = n + 2
  <2> TAKE i \in 1 .. n + 2
  <2>1. CASE i \in 1 .. n
    BY <1>2, <2>1
  <2>2. CASE i = n + 1
    BY <1>3, <2>2, CrlfFacts
  <2>3. i \in 1 .. n \/ i = n + 1 \/ i = n + 2
    BY <1>2
  <2> QED
    BY <2>1, <2>2, <2>3
<1>5. EndsInCrlf(l)
  <2>1. Len(l) >= 2 /\ Len(l) - 1 = n + 1
    BY <1>2
  <2> QED
    BY <1>2, <1>3, <2>1 DEF EndsInCrlf
<1>6. \A i \in 1 .. Len(l) : StartsLine(l, i) => i = 1
  <2> SUFFICES ASSUME NEW i \in 1 .. Len(l), i > 2, l[i - 1] = LF PROVE FALSE
    BY DEF StartsLine
  <2>1. PICK j : j = i - 1
    OBVIOUS
  <2>2. j \in 1 .. n + 2 /\ j # n + 2
    BY <1>2, <2>1
  <2> QED
    BY <1>4, <2>1, <2>2
<1>7. \A i \in Marks(l, mark) : i = 1 /\ MarkAt(l, mark, 1)
  BY <1>6 DEF Marks, MarkAt
<1>8. ASSUME MarkAt(l, mark, 1) PROVE l[1] = mark[1]
  <2>1. 1 \in 1 .. Len(mark)
    BY EmptySeq DEF InLine
  <2>2. l[1 + 1 - 1] = mark[1]
    BY <1>8, <2>1 DEF MarkAt
  <2> QED
    BY <2>2
<1>9. 1 \in 1 .. Len(l)
  BY <1>2
<1>10. MarkAt(l, mark, 1) => Marks(l, mark) = {1}
  BY <1>7, <1>9 DEF Marks
<1>11. l[1] # mark[1] => Marks(l, mark) = {}
  BY <1>7, <1>8
<1> QED
  BY <1>2, <1>5, <1>10, <1>11 DEF l, n

\* A body without the boundary has no delimiter.
LEMMA BodyHasNone ==
  ASSUME NEW S, Hyphen \in S, NEW b \in Seq(S), b # <<>>, NEW e \in Seq(S), ~HasBoundary(e, b)
  PROVE  Marks(e, <<Hyphen, Hyphen>> \o b) = {}
<1> DEFINE hh == <<Hyphen, Hyphen>>
           mark == hh \o b
           k == Len(b)
<1>0. hh \in Seq(S)
  OBVIOUS
<1>1. Len(hh) = 2 /\ k \in Nat \ {0}
  BY EmptySeq
<1> HIDE DEF hh, k
<1>2. Len(mark) = 2 + k /\ \A j \in 1 .. k : mark[2 + j] = b[j]
  <2>1. /\ Len(hh \o b) = Len(hh) + Len(b)
        /\ \A j \in 1 .. Len(b) : (hh \o b)[Len(hh) + j] = b[j]
    BY <1>0, ConcatElements
  <2> QED
    BY <1>1, <2>1 DEF k
<1> HIDE DEF mark
<1>3. SUFFICES ASSUME NEW i \in 1 .. Len(e), MarkAt(e, mark, i) PROVE FALSE
  BY DEF Marks, mark, hh
<1>4. Len(mark) <= Len(e) - i + 1 /\ \A j \in 1 .. Len(mark) : e[i + j - 1] = mark[j]
  BY <1>3 DEF MarkAt
<1>5. PICK f : f = i + 2
  OBVIOUS
<1>6. f \in 1 .. Len(e) /\ f \in 1 .. Len(e) + 1 /\ k <= Len(e) - f + 1
  BY <1>1, <1>2, <1>4, <1>5
<1>7. ASSUME NEW j \in 1 .. k PROVE e[f + j - 1] = b[j]
  <2>1. PICK x : x = 2 + j
    OBVIOUS
  <2>2. x \in 1 .. Len(mark) /\ i + x - 1 = f + j - 1
    BY <1>1, <1>2, <1>5, <2>1
  <2> QED
    BY <1>2, <1>4, <2>1, <2>2
<1>8. IsPrefix(b, From(e, f))
  BY <1>6, <1>7, PrefixAt DEF k
<1> QED
  BY <1>6, <1>8 DEF HasBoundary

LEMMA CrlfInNat == CRLF \in Seq(Nat) /\ CRLF \in Seq({CR, LF})
BY DEF CRLF, CR, LF

\* A body that has been encoded is text that ends with a line.
LEMMA EncodedFacts ==
  ASSUME NEW S, S \subseteq Nat, {CR, LF} \subseteq S, \A c \in S : Bytes(c) \in Nat, NEW t \in Seq(S)
  PROVE  /\ Encode(t).body \in Seq(Nat) /\ EndsInCrlf(Encode(t).body)
         /\ HeaderOf(Encode(t).encoding) \in {7, 64}
<1> DEFINE x == Normalized(t)
           n == Base64Length(BytesOf(x))
           e == Encode(t)
           d == FlattenSeq(Base64Parts(n, n))
<1>1. /\ x \in Seq(S) /\ n \in Nat
      /\ Fits(x) => e.body = x \/ e.body = x \o CRLF
      /\ ~Fits(x) => e.body = d \o CRLF
  BY EncodeForms
<1>2. Encode(t) = IF Fits(x)
                  THEN [encoding |-> "7bit", body |-> IF IsSuffix(CRLF, x) THEN x ELSE x \o CRLF]
                  ELSE [encoding |-> "base64", body |-> e.body]
  BY DEF Encode, x, n, d
<1> HIDE DEF x, n, e
<1>3. Base64Set \subseteq Nat /\ {CR, LF} \subseteq Nat
  BY DEF Base64Set, Base64Char, CR, LF, DOT
<1>4. d \in Seq(Base64Set)
  BY <1>1, Base64Body
<1> HIDE DEF d
<1>5. x \in Seq(Nat) /\ d \in Seq(Nat) /\ CRLF \in Seq(Nat)
  <2>1. x \in Seq(Nat)
    BY <1>1, SeqMonotonic
  <2>2. d \in Seq(Nat)
    BY <1>3, <1>4, SeqMonotonic
  <2> QED
    BY <2>1, <2>2, CrlfInNat
<1>6. EndsInCrlf(CRLF)
  BY CrlfFacts DEF EndsInCrlf
<1>7. \A y \in Seq(Nat) : y \o CRLF \in Seq(Nat) /\ EndsInCrlf(y \o CRLF)
  BY <1>5, <1>6, CrlfEnds, ConcatElements
<1>8. IsSuffix(CRLF, x) => EndsInCrlf(x)
  BY <1>5, CrlfSuffix DEF EndsInCrlf
<1>9. HeaderOf(e.encoding) \in {7, 64}
  BY DEF HeaderOf
<1>10. CASE Fits(x)
  <2>1. e = [encoding |-> "7bit", body |-> IF IsSuffix(CRLF, x) THEN x ELSE x \o CRLF]
    BY <1>2, <1>10 DEF e
  <2>2. e.body = IF IsSuffix(CRLF, x) THEN x ELSE x \o CRLF
    BY <2>1
  <2>3. e.body \in Seq(Nat) /\ EndsInCrlf(e.body)
    BY <1>5, <1>7, <1>8, <2>2
  <2> QED
    BY <1>9, <2>3 DEF e
<1>11. CASE ~Fits(x)
  <2>1. e.body \in Seq(Nat) /\ EndsInCrlf(e.body)
    BY <1>1, <1>5, <1>7, <1>11
  <2> QED
    BY <1>9, <2>1 DEF e
<1> QED
  BY <1>10, <1>11

LEMMA BlocksTogether ==
  ASSUME NEW mark \in Seq(Nat), InLine(mark), NEW a \in Seq(Nat), NEW s \in Seq(Nat),
         EndsInCrlf(a), EndsInCrlf(s), Marks(s, mark) = {}
  PROVE  a \o s \in Seq(Nat) /\ EndsInCrlf(a \o s) /\ Marks(a \o s, mark) = Marks(a, mark)
<1>1. a \o s \in Seq(Nat)
  BY ConcatElements
<1>2. EndsInCrlf(a \o s)
  BY CrlfEnds
<1>3. Marks(a \o s, mark) = Marks(a, mark)
  BY MarksTogether
<1> QED
  BY <1>1, <1>2, <1>3

LEMMA MarkFacts ==
  ASSUME NEW b \in Seq(Nat \ {CR, LF})
  PROVE  LET mark == <<Hyphen, Hyphen>> \o b IN
         /\ mark \in Seq(Nat) /\ InLine(mark) /\ mark[1] = Hyphen /\ mark[2] = Hyphen
         /\ b \in Seq(Nat) /\ Len(mark) = 2 + Len(b) /\ Len(b) \in Nat
<1> DEFINE hh == <<Hyphen, Hyphen>>
           mark == hh \o b
           T == Nat \ {CR, LF}
<1>1. Hyphen \in T
  BY DEF Hyphen, CR, LF
<1>2. b \in Seq(T) /\ T \subseteq Nat /\ \A x \in T : x \notin {CR, LF}
  OBVIOUS
<1> HIDE DEF T
<1>0. hh \in Seq(T)
  BY <1>1
<1>3. Len(hh) = 2 /\ hh[1] = Hyphen /\ hh[2] = Hyphen
  BY <1>1
<1> HIDE DEF hh
<1>4. /\ mark \in Seq(T) /\ Len(mark) = 2 + Len(b) /\ Len(b) \in Nat
      /\ \A i \in 1 .. 2 : mark[i] = hh[i]
  <2>1. /\ hh \o b \in Seq(T) /\ Len(hh \o b) = Len(hh) + Len(b) /\ Len(b) \in Nat
        /\ \A i \in 1 .. Len(hh) : (hh \o b)[i] = hh[i]
    BY <1>0, <1>2, ConcatElements
  <2> QED
    BY <1>3, <2>1
<1> HIDE DEF mark
<1>5. mark[1] = Hyphen /\ mark[2] = Hyphen
  BY <1>3, <1>4
<1>6. \A i \in 1 .. Len(mark) : mark[i] \in T
  BY <1>4
<1>7. mark # <<>>
  BY <1>4
<1>8. InLine(mark)
  BY <1>2, <1>6, <1>7 DEF InLine
<1>9. \A z \in Seq(T) : z \in Seq(Nat)
  BY <1>2, SeqMonotonic
<1>10. mark \in Seq(Nat) /\ b \in Seq(Nat)
  BY <1>2, <1>4, <1>9
<1> QED
  BY <1>4, <1>5, <1>8, <1>10 DEF mark, hh

LEMMA CharLine ==
  ASSUME NEW mark \in Seq(Nat), InLine(mark), mark[1] = Hyphen, NEW c \in Nat \ {CR, LF, Hyphen}
  PROVE  /\ <<c>> \o CRLF \in Seq(Nat) /\ EndsInCrlf(<<c>> \o CRLF) /\ Marks(<<c>> \o CRLF, mark) = {}
         /\ Len(<<c>> \o CRLF) = 3
<1> DEFINE x == <<c>>
           l == x \o CRLF
<1>1. x \in Seq(Nat) /\ Len(x) = 1 /\ x[1] = c /\ \A i \in 1 .. Len(x) : x[i] \notin {CR, LF}
  OBVIOUS
<1>2. {CR, LF} \subseteq Nat
  BY DEF CR, LF
<1> HIDE DEF x
<1>3. /\ l \in Seq(Nat) /\ EndsInCrlf(l) /\ Len(l) = Len(x) + 2
      /\ l[1] # mark[1] => Marks(l, mark) = {}
  BY <1>1, <1>2, LineMarks
<1>4. l[1] = c
  <2>1. CRLF \in Seq(Nat) /\ 1 \in 1 .. Len(x)
    BY <1>1, CrlfInNat
  <2> QED
    BY <1>1, <2>1, ConcatElements
<1> HIDE DEF l
<1>5. l[1] # mark[1] /\ Len(l) = 3
  BY <1>1, <1>3, <1>4
<1> QED
  BY <1>3, <1>5 DEF l, x

LEMMA EmptyLine ==
  ASSUME NEW mark \in Seq(Nat), InLine(mark), mark[1] = Hyphen
  PROVE  CRLF \in Seq(Nat) /\ EndsInCrlf(CRLF) /\ Marks(CRLF, mark) = {}
<1> DEFINE x == <<>>
<1>1. x \in Seq(Nat) /\ \A i \in 1 .. Len(x) : x[i] \notin {CR, LF}
  OBVIOUS
<1>2. {CR, LF} \subseteq Nat
  BY DEF CR, LF
<1>3. CRLF \in Seq(Nat) /\ x \o CRLF = CRLF
  BY CrlfInNat, ConcatEmptySeq
<1> HIDE DEF x
<1>4. /\ EndsInCrlf(CRLF)
      /\ CRLF[1] # mark[1] => Marks(CRLF, mark) = {}
  BY <1>1, <1>2, <1>3, LineMarks
<1>5. CRLF[1] # Hyphen
  BY CrlfFacts DEF CR, Hyphen
<1> QED
  BY <1>3, <1>4, <1>5

\* A part without the boundary has no delimiter.
LEMMA PartFacts ==
  ASSUME NEW S, S \subseteq Nat, {CR, LF} \subseteq S, \A c \in S : Bytes(c) \in Nat, NEW t \in Seq(S),
         NEW type \in {PLAIN, HTML}, NEW b \in Seq(Nat \ {CR, LF}), b # <<>>,
         ~HasBoundary(Encode(t).body, b)
  PROVE  /\ Part(type, t) \in Seq(Nat) /\ EndsInCrlf(Part(type, t))
         /\ Marks(Part(type, t), <<Hyphen, Hyphen>> \o b) = {}
<1> DEFINE mark == <<Hyphen, Hyphen>> \o b
           h == HeaderOf(Encode(t).encoding)
           e == Encode(t).body
           l1 == <<type>> \o CRLF
           l2 == <<h>> \o CRLF
<1>1. e \in Seq(Nat) /\ EndsInCrlf(e) /\ h \in {7, 64}
  BY EncodedFacts
<1>2. Hyphen \in Nat /\ {CR, LF} \subseteq Nat /\ CR # Hyphen /\ LF # Hyphen
  BY DEF Hyphen, CR, LF
<1>3. mark \in Seq(Nat) /\ InLine(mark) /\ mark[1] = Hyphen
  BY MarkFacts
<1>4. Marks(e, mark) = {}
  <2>1. b \in Seq(Nat) /\ Hyphen \in Nat
    BY <1>2, MarkFacts
  <2>2. ~HasBoundary(e, b)
    OBVIOUS
  <2> HIDE DEF e, mark
  <2>3. e \in Seq(Nat)
    BY <1>1
  <2>4. Marks(e, <<Hyphen, Hyphen>> \o b) = {}
    BY <2>1, <2>2, <2>3, BodyHasNone
  <2> QED
    BY <2>4 DEF mark
<1>5. Part(type, t) = (((((<<type>> \o CRLF) \o <<h>>) \o CRLF) \o CRLF) \o e)
  BY DEF Part
<1> HIDE DEF mark, h, e
<1>6. /\ type \in Nat /\ type # Hyphen /\ type \notin {CR, LF}
      /\ h \in Nat /\ h # Hyphen /\ h \notin {CR, LF}
  BY <1>1 DEF PLAIN, HTML, Hyphen, CR, LF
<1>7. \A c \in Nat \ {CR, LF, Hyphen} :
        /\ <<c>> \o CRLF \in Seq(Nat) /\ EndsInCrlf(<<c>> \o CRLF) /\ Marks(<<c>> \o CRLF, mark) = {}
  BY <1>2, <1>3, CharLine
<1>8. l1 \in Seq(Nat) /\ EndsInCrlf(l1) /\ Marks(l1, mark) = {}
  BY <1>6, <1>7
<1>9. l2 \in Seq(Nat) /\ EndsInCrlf(l2) /\ Marks(l2, mark) = {}
  BY <1>6, <1>7
<1>10. CRLF \in Seq(Nat) /\ EndsInCrlf(CRLF) /\ Marks(CRLF, mark) = {}
  BY <1>2, <1>3, EmptyLine
<1>11. <<h>> \in Seq(Nat)
  BY <1>6
<1> HIDE DEF l1, l2
<1>12. (l1 \o <<h>>) \o CRLF = l1 \o l2
  BY <1>8, <1>10, <1>11, ConcatAssociative DEF l2
<1> DEFINE l3 == l1 \o l2
           l4 == l3 \o CRLF
<1>13. l3 \in Seq(Nat) /\ EndsInCrlf(l3) /\ Marks(l3, mark) = {}
  BY <1>3, <1>8, <1>9, BlocksTogether
<1> HIDE DEF l3
<1>14. l4 \in Seq(Nat) /\ EndsInCrlf(l4) /\ Marks(l4, mark) = {}
  BY <1>3, <1>10, <1>13, BlocksTogether
<1> HIDE DEF l4
<1>15. l4 \o e \in Seq(Nat) /\ EndsInCrlf(l4 \o e) /\ Marks(l4 \o e, mark) = {}
  BY <1>1, <1>3, <1>4, <1>14, BlocksTogether
<1>16. Part(type, t) = l4 \o e
  BY <1>5, <1>12 DEF l3, l4, l1
<1> QED
  BY <1>15, <1>16 DEF mark

----------------------------------------------------------------------------
(***************************************************************************)
(* Some places in their order.                                             *)
(***************************************************************************)
\* One place more.
LEMMA OrderedNext ==
  ASSUME NEW places, NEW n \in Nat
  PROVE  /\ Ordered(n, places) \in Seq(Nat)
         /\ n + 1 \in places => Ordered(n + 1, places) = Append(Ordered(n, places), n + 1)
         /\ n + 1 \notin places => Ordered(n + 1, places) = Ordered(n, places)
<1> DEFINE at(i) == IF i \in places THEN <<i>> ELSE <<>>
           p == [i \in 1 .. n |-> at(i)]
           q == [i \in 1 .. n + 1 |-> at(i)]
           SS == Seq(Nat)
<1>1. \A i \in Nat : at(i) \in SS
  OBVIOUS
<1>2. \A i \in 1 .. n + 1 : i \in Nat
  OBVIOUS
<1> HIDE DEF at, SS
<1>3. p \in Seq(SS) /\ Len(p) = n
  BY <1>1, <1>2
<1>4. q \in Seq(SS) /\ Len(q) = n + 1 /\ q[n + 1] = at(n + 1) /\ \A i \in 1 .. n : q[i] = p[i]
  BY <1>1, <1>2
<1>5. Ordered(n, places) = FlattenSeq(p) /\ Ordered(n + 1, places) = FlattenSeq(q)
  BY DEF Ordered, at
<1> HIDE DEF p, q
<1>6. FlattenSeq(p) \in Seq(Nat)
  BY <1>3, FlattenTyped DEF SS
<1>7. FlattenSeq(q) = FlattenSeq(p) \o q[n + 1]
  BY <1>3, <1>4, FlattenLast DEF SS
<1>8. n + 1 \in places => FlattenSeq(p) \o at(n + 1) = Append(FlattenSeq(p), n + 1)
  BY <1>6, AppendIsConcat DEF at
<1>9. n + 1 \notin places => FlattenSeq(p) \o at(n + 1) = FlattenSeq(p)
  BY <1>6, ConcatEmptySeq DEF at
<1> QED
  BY <1>4, <1>5, <1>6, <1>7, <1>8, <1>9

LEMMA OrderedNone ==
  ASSUME NEW places
  PROVE  Ordered(0, places) = <<>>
<1> DEFINE p == [i \in 1 .. 0 |-> IF i \in places THEN <<i>> ELSE <<>>]
<1>1. p = <<>>
  OBVIOUS
<1> HIDE DEF p
<1>2. FlattenSeq(p) = <<>>
  BY <1>1, FlattenEmpty
<1> QED
  BY <1>2 DEF p, Ordered

\* No place between two numbers.
LEMMA OrderedSkips ==
  ASSUME NEW places, NEW n \in Nat, NEW m \in Nat, n <= m, \A i \in n + 1 .. m : i \notin places
  PROVE  Ordered(m, places) = Ordered(n, places)
<1> DEFINE G == {k \in Nat : n + k <= m => Ordered(n + k, places) = Ordered(n, places)}
<1>1. 0 \in G
  OBVIOUS
<1>2. ASSUME NEW k \in 0 .. m - n - 1, k \in G PROVE k + 1 \in G
  <2>1. PICK x : x = n + k
    OBVIOUS
  <2>2. PICK y : y = x + 1
    OBVIOUS
  <2>3. x \in Nat /\ y \in n + 1 .. m /\ x <= m /\ y = n + (k + 1) /\ k + 1 \in Nat
    BY <1>2, <2>1, <2>2
  <2>4. y \notin places
    BY <2>3
  <2>5. Ordered(x + 1, places) = Ordered(x, places)
    BY <2>2, <2>3, <2>4, OrderedNext
  <2>6. Ordered(x, places) = Ordered(n, places)
    BY <1>2, <2>1, <2>3
  <2> QED
    BY <2>2, <2>3, <2>5, <2>6
<1>3. PICK d : d = m - n
  OBVIOUS
<1>4. d \in Nat /\ d - 1 = m - n - 1 /\ n + d = m /\ d \in 0 .. d
  BY <1>3
<1> HIDE DEF G
<1>5. \A k \in 0 .. d : k \in G
  <2>1. \A k \in 0 .. d - 1 : k \in G => k + 1 \in G
    BY <1>2, <1>4
  <2> QED
    BY <1>1, <1>4, <2>1, UpTo
<1>6. d \in G
  BY <1>4, <1>5
<1> QED
  BY <1>4, <1>6 DEF G

\* The last of the places.
LEMMA OrderedLast ==
  ASSUME NEW places, NEW n \in Nat, NEW q \in 1 .. n, q \in places, \A i \in places : i <= q
  PROVE  /\ Ordered(n, places) \in Seq(Nat) /\ Ordered(n, places) # <<>>
         /\ Ordered(n, places)[Len(Ordered(n, places))] = q
<1>1. PICK k : k = q - 1
  OBVIOUS
<1>2. k \in Nat /\ k + 1 = q /\ k + 1 \in places /\ q \in Nat /\ q <= n
  BY <1>1
<1>3. Ordered(k, places) \in Seq(Nat) /\ Ordered(k + 1, places) = Append(Ordered(k, places), k + 1)
  BY <1>2, OrderedNext
<1>4. \A i \in q + 1 .. n : i \notin places
  OBVIOUS
<1>5. Ordered(n, places) = Ordered(q, places)
  BY <1>2, <1>4, OrderedSkips
<1> DEFINE o == Ordered(k, places)
<1> HIDE DEF o
<1>6. o \in Seq(Nat) /\ Ordered(n, places) = Append(o, q)
  BY <1>2, <1>3, <1>5 DEF o
<1>7. Append(o, q) \in Seq(Nat) /\ Append(o, q) # <<>> /\ Append(o, q)[Len(Append(o, q))] = q
  BY <1>2, <1>6, AppendFacts
<1> QED
  BY <1>6, <1>7

\* Three places.
LEMMA OrderedThree ==
  ASSUME NEW n \in Nat, NEW x \in Nat \ {0}, NEW y \in Nat, NEW z \in Nat, x < y, y < z, z <= n
  PROVE  Ordered(n, {x, y, z}) = <<x, y, z>>
<1> DEFINE T == {x, y, z}
<1>1. PICK a : a = x - 1
  OBVIOUS
<1>2. PICK b : b = y - 1
  OBVIOUS
<1>3. PICK c : c = z - 1
  OBVIOUS
<1>4. a \in Nat /\ b \in Nat /\ c \in Nat /\ a + 1 = x /\ b + 1 = y /\ c + 1 = z
  BY <1>1, <1>2, <1>3
<1>5. x <= b /\ y <= c /\ z <= n /\ 0 <= a
  BY <1>4
<1>6. /\ \A i \in 0 + 1 .. a : i \notin T
      /\ \A i \in x + 1 .. b : i \notin T
      /\ \A i \in y + 1 .. c : i \notin T
      /\ \A i \in z + 1 .. n : i \notin T
  BY <1>4, <1>5
<1>7. a + 1 \in T /\ b + 1 \in T /\ c + 1 \in T
  BY <1>4
<1> HIDE DEF T
<1>8. Ordered(a, T) = <<>>
  <2>1. 0 \in Nat
    OBVIOUS
  <2>2. Ordered(a, T) = Ordered(0, T)
    BY <1>4, <1>5, <1>6, <2>1, OrderedSkips
  <2> QED
    BY <2>2, OrderedNone
<1>9. Ordered(x, T) = Append(<<>>, x)
  BY <1>4, <1>7, <1>8, OrderedNext
<1>10. Ordered(b, T) = Ordered(x, T)
  BY <1>4, <1>5, <1>6, OrderedSkips
<1>11. Ordered(y, T) = Append(Append(<<>>, x), y)
  <2>1. Ordered(b + 1, T) = Append(Ordered(b, T), b + 1)
    BY <1>4, <1>7, OrderedNext
  <2> QED
    BY <1>4, <1>9, <1>10, <2>1
<1>12. Ordered(c, T) = Ordered(y, T)
  BY <1>4, <1>5, <1>6, OrderedSkips
<1>13. Ordered(z, T) = Append(Append(Append(<<>>, x), y), z)
  <2>1. Ordered(c + 1, T) = Append(Ordered(c, T), c + 1)
    BY <1>4, <1>7, OrderedNext
  <2> QED
    BY <1>4, <1>11, <1>12, <2>1
<1>14. Ordered(n, T) = Ordered(z, T)
  BY <1>4, <1>5, <1>6, OrderedSkips
<1>15. Append(Append(Append(<<>>, x), y), z) = <<x, y, z>>
  <2> DEFINE o == <<>>
             t == <<x, y, z>>
  <2>1. o \in Seq(Nat) /\ t \in Seq(Nat)
    BY <1>4
  <2> HIDE DEF o, t
  <2>2. o \o t = t
    BY <2>1, ConcatEmptySeq DEF o
  <2>3. o \o t = Append(Append(Append(o, x), y), z)
    BY <1>4, <2>1, AppendThree DEF t
  <2> QED
    BY <2>2, <2>3 DEF o, t
<1> QED
  BY <1>13, <1>14, <1>15 DEF T

----------------------------------------------------------------------------
(***************************************************************************)
(* The body of a message with two parts, block after block.                *)
(***************************************************************************)
Starts(a, s) == Len(a) <= Len(s) /\ \A i \in 1 .. Len(a) : s[i] = a[i]

LEMMA StartsMore ==
  ASSUME NEW S, NEW a \in Seq(S), NEW c \in Seq(S), NEW s \in Seq(S)
  PROVE  /\ Starts(a, a) /\ Starts(a, a \o c)
         /\ Starts(a \o c, s) => Starts(a, s)
<1> DEFINE ac == a \o c
<1>1. /\ ac \in Seq(S) /\ Len(a) \in Nat /\ Len(c) \in Nat /\ Len(ac) = Len(a) + Len(c)
      /\ \A i \in 1 .. Len(a) : ac[i] = a[i]
  BY ConcatElements
<1> HIDE DEF ac
<1>2. Starts(a, a) /\ Starts(a, ac)
  BY <1>1 DEF Starts
<1>3. Starts(ac, s) => Starts(a, s)
  <2> SUFFICES ASSUME Starts(ac, s) PROVE Starts(a, s)
    OBVIOUS
  <2>1. Len(ac) <= Len(s) /\ \A i \in 1 .. Len(ac) : s[i] = ac[i]
    BY DEF Starts
  <2>2. \A i \in 1 .. Len(a) : i \in 1 .. Len(ac)
    BY <1>1
  <2>3. \A i \in 1 .. Len(a) : s[i] = a[i]
    BY <1>1, <2>1, <2>2
  <2>4. Len(a) <= Len(s)
    BY <1>1, <2>1
  <2> QED
    BY <2>3, <2>4 DEF Starts
<1> QED
  BY <1>2, <1>3 DEF ac

\* A block of a text.
LEMMA BlockOf ==
  ASSUME NEW S, NEW a \in Seq(S), NEW c \in Seq(S), NEW s \in Seq(S), Starts(a \o c, s)
  PROVE  /\ \A j \in 1 .. Len(c) : s[Len(a) + j] = c[j]
         /\ SubSeq(s, Len(a) + 1, Len(a) + Len(c)) = c
         /\ Len(a) + Len(c) <= Len(s)
<1> DEFINE ac == a \o c
           n == Len(a)
           m == Len(c)
<1>1. /\ ac \in Seq(S) /\ n \in Nat /\ m \in Nat /\ Len(ac) = n + m
      /\ \A j \in 1 .. m : ac[n + j] = c[j]
  BY ConcatElements
<1>2. Len(ac) <= Len(s) /\ \A i \in 1 .. Len(ac) : s[i] = ac[i]
  BY DEF Starts
<1> HIDE DEF ac, n, m
<1>3. ASSUME NEW j \in 1 .. m PROVE s[n + j] = c[j]
  <2>1. n + j \in 1 .. Len(ac)
    BY <1>1
  <2> QED
    BY <1>1, <1>2, <2>1
<1>4. PICK f : f = n + 1
  OBVIOUS
<1>5. PICK l : l = n + m
  OBVIOUS
<1>6. f \in Nat \ {0} /\ l \in Nat /\ f <= l + 1 /\ l <= Len(s) /\ l - f + 1 = m
  <2>1. n + m <= Len(s)
    BY <1>1, <1>2
  <2> QED
    BY <1>1, <1>4, <1>5, <2>1
<1> DEFINE u == SubSeq(s, f, l)
<1>7. u \in Seq(S) /\ Len(u) = m /\ \A i \in 1 .. m : u[i] = s[f + i - 1]
  BY <1>6, SliceFacts
<1> HIDE DEF u
<1>8. ASSUME NEW i \in 1 .. m PROVE u[i] = c[i]
  <2>1. f + i - 1 = n + i
    BY <1>1, <1>4
  <2> QED
    BY <1>3, <1>7, <2>1
<1>9. u = c
  BY <1>7, <1>8, SeqEqual DEF m
<1> QED
  BY <1>1, <1>2, <1>3, <1>4, <1>5, <1>9 DEF u, n, m

\* The line of a delimiter.
LEMMA DelimiterLine ==
  ASSUME NEW mark \in Seq(Nat), InLine(mark), NEW y \in Seq(Nat), \A i \in 1 .. Len(y) : y[i] \notin {CR, LF}
  PROVE  LET d == (mark \o y) \o CRLF IN
         /\ d \in Seq(Nat) /\ EndsInCrlf(d) /\ Marks(d, mark) = {1}
         /\ Len(d) = Len(mark) + Len(y) + 2
<1> DEFINE x == mark \o y
           d == x \o CRLF
           n == Len(mark)
           k == Len(y)
<1>1. /\ x \in Seq(Nat) /\ n \in Nat /\ k \in Nat /\ Len(x) = n + k
      /\ \A i \in 1 .. n : x[i] = mark[i]
      /\ \A j \in 1 .. k : x[n + j] = y[j]
  BY ConcatElements
<1>2. \A i \in 1 .. n : mark[i] \notin {CR, LF}
  BY DEF InLine
<1>0. \A j \in 1 .. k : y[j] \notin {CR, LF}
  OBVIOUS
<1> HIDE DEF n, k
<1>3. ASSUME NEW i \in 1 .. Len(x) PROVE x[i] \notin {CR, LF}
  <2>1. CASE i \in 1 .. n
    BY <1>1, <1>2, <2>1
  <2>2. CASE i \notin 1 .. n
    <3>1. PICK j : j = i - n
      OBVIOUS
    <3>2. j \in 1 .. k /\ i = n + j
      BY <1>1, <2>2, <3>1
    <3>3. x[n + j] = y[j] /\ y[j] \notin {CR, LF}
      BY <1>0, <1>1, <3>2
    <3> QED
      BY <3>2, <3>3
  <2> QED
    BY <2>1, <2>2
<1>4. {CR, LF} \subseteq Nat
  BY DEF CR, LF
<1>5. CRLF \in Seq(Nat)
  BY CrlfInNat
<1> HIDE DEF x
<1>6. /\ d \in Seq(Nat) /\ EndsInCrlf(d) /\ Len(d) = Len(x) + 2
      /\ MarkAt(d, mark, 1) => Marks(d, mark) = {1}
  BY <1>1, <1>3, <1>4, LineMarks
<1>7. \A i \in 1 .. Len(x) : d[i] = x[i]
  BY <1>1, <1>5, ConcatElements
<1> HIDE DEF d
<1>8. MarkAt(d, mark, 1)
  <2>1. n <= Len(d) - 1 + 1
    BY <1>1, <1>6
  <2>2. ASSUME NEW j \in 1 .. n PROVE d[1 + j - 1] = mark[j]
    <3>1. 1 + j - 1 = j /\ j \in 1 .. Len(x)
      BY <1>1
    <3> QED
      BY <1>1, <1>7, <3>1
  <2> QED
    BY <2>1, <2>2 DEF MarkAt, StartsLine, n
<1> QED
  BY <1>1, <1>6, <1>8 DEF d, x, n, k

\* The lemmas for texts, with concatenation as an operator of its own.
Glue(x, y) == x \o y

LEMMA GlueFacts ==
  \A S : \A x, y, z \in Seq(S) : Glue(Glue(x, y), z) = Glue(x, Glue(y, z)) /\ Glue(x, y) \in Seq(S)
<1>1. ASSUME NEW S, NEW x \in Seq(S), NEW y \in Seq(S), NEW z \in Seq(S)
      PROVE  Glue(Glue(x, y), z) = Glue(x, Glue(y, z)) /\ Glue(x, y) \in Seq(S)
  <2>1. (x \o y) \o z = x \o (y \o z)
    BY AssociativeIn
  <2>2. x \o y \in Seq(S)
    BY ConcatProperties
  <2> QED
    BY <2>1, <2>2 DEF Glue
<1> QED
  BY <1>1

LEMMA RegroupFour ==
  \A S : \A x, u, v, w \in Seq(S) :
    /\ Glue(Glue(Glue(x, u), v), w) = Glue(x, Glue(Glue(u, v), w))
    /\ Glue(x, Glue(Glue(u, v), w)) = Glue(Glue(x, u), Glue(v, w))
    /\ Glue(x, Glue(u, v)) \in Seq(S)
BY GlueFacts

LEMMA NatStarts ==
  /\ \A a, c, s \in Seq(Nat) : Starts(a \o c, s) => Starts(a, s)
  /\ \A s \in Seq(Nat) : Starts(s, s)
<1> DEFINE N == Nat
<1>1. ASSUME NEW a \in Seq(N), NEW c \in Seq(N), NEW s \in Seq(N) PROVE Starts(a \o c, s) => Starts(a, s)
  <2> HIDE DEF N
  <2> QED
    BY StartsMore
<1>2. ASSUME NEW s \in Seq(N) PROVE Starts(s, s)
  <2> HIDE DEF N
  <2> QED
    BY StartsMore
<1> QED
  BY <1>1, <1>2

LEMMA NatBlocks ==
  \A a, c, s \in Seq(Nat) : Starts(a \o c, s) =>
    /\ \A j \in 1 .. Len(c) : s[Len(a) + j] = c[j]
    /\ SubSeq(s, Len(a) + 1, Len(a) + Len(c)) = c
    /\ Len(a) + Len(c) <= Len(s)
<1> DEFINE N == Nat
<1>1. ASSUME NEW a \in Seq(N), NEW c \in Seq(N), NEW s \in Seq(N), Starts(a \o c, s)
      PROVE  /\ \A j \in 1 .. Len(c) : s[Len(a) + j] = c[j]
             /\ SubSeq(s, Len(a) + 1, Len(a) + Len(c)) = c
             /\ Len(a) + Len(c) <= Len(s)
  <2> HIDE DEF N
  <2>1. Starts(a \o c, s)
    BY <1>1
  <2> QED
    BY <2>1, BlockOf
<1> QED
  BY <1>1

BlockAt(a, c, s) == \A j \in 1 .. Len(c) : s[Len(a) + j] = c[j]

LEMMA NatBlockAt ==
  \A a, c, s \in Seq(Nat) : Starts(a \o c, s) => BlockAt(a, c, s)
BY NatBlocks DEF BlockAt

LEMMA BlockMarked ==
  ASSUME NEW mark \in Seq(Nat), InLine(mark), NEW a \in Seq(Nat), NEW s \in Seq(Nat),
         EndsInCrlf(a), EndsInCrlf(s), Marks(s, mark) = {1}
  PROVE  a \o s \in Seq(Nat) /\ EndsInCrlf(a \o s) /\ Marks(a \o s, mark) = Marks(a, mark) \cup {Len(a) + 1}
<1>1. a \o s \in Seq(Nat)
  BY ConcatElements
<1>2. EndsInCrlf(a \o s)
  BY CrlfEnds
<1>3. Marks(a \o s, mark) = Marks(a, mark) \cup {Len(a) + 1}
  BY MarksTogether, SMTT(30)
<1> QED
  BY <1>1, <1>2, <1>3

LEMMA NatLengths == \A x, y \in Seq(Nat) : Len(x \o y) = Len(x) + Len(y)
BY ConcatProperties

\* The body of two parts, as blocks that end with lines.
Blocks(b, p1, p2) ==
  LET hh == <<Hyphen, Hyphen>>
      mark == hh \o b
      d == (mark \o <<>>) \o CRLF
      a1 == (<<PREAMBLE>> \o CRLF) \o CRLF IN
  (((((a1 \o d) \o p1) \o CRLF) \o d) \o p2) \o CRLF

LEMMA BlocksAre ==
  ASSUME NEW m, NEW b \in Seq(Nat \ {CR, LF}), NEW p1 \in Seq(Nat), NEW p2 \in Seq(Nat),
         Part(PLAIN, m.body) = p1, Part(HTML, m.html[1]) = p2
  PROVE  Alternative(m, b)
           = Blocks(b, p1, p2) \o (((<<Hyphen, Hyphen>> \o b) \o <<Hyphen, Hyphen>>) \o CRLF)
<1> DEFINE hh == <<Hyphen, Hyphen>>
           mark == hh \o b
           cr == CRLF
           o == <<>>
           d == mark \o cr
           w == <<PREAMBLE>> \o cr
           a1 == w \o cr
<1>1. mark \in Seq(Nat) /\ b \in Seq(Nat)
  BY MarkFacts
<1>2. hh \in Seq(Nat) /\ cr \in Seq(Nat) /\ <<PREAMBLE>> \in Seq(Nat)
  BY CrlfInNat DEF Hyphen, PREAMBLE
<1>3. mark \o o = mark
  <2> HIDE DEF mark
  <2> QED
    BY <1>1, ConcatEmptySeq
<1>4. Alternative(m, b) =
        ((((((((w \o ((cr \o hh) \o b)) \o cr) \o p1) \o ((cr \o hh) \o b)) \o cr) \o p2) \o ((cr \o hh) \o b)) \o hh) \o cr
  BY DEF Alternative, Delimiter
<1>5. Blocks(b, p1, p2) = (((((a1 \o d) \o p1) \o cr) \o d) \o p2) \o cr
  BY <1>3 DEF Blocks
<1> HIDE DEF hh, cr
<1>6. ASSUME NEW x \in Seq(Nat)
      PROVE  /\ x \o ((cr \o hh) \o b) = (x \o cr) \o mark
             /\ (x \o mark) \o cr = x \o d
             /\ ((x \o mark) \o hh) \o cr = x \o ((mark \o hh) \o cr)
             /\ x \o cr \in Seq(Nat) /\ x \o mark \in Seq(Nat) /\ x \o d \in Seq(Nat)
  <2>1. x \in Seq(Nat) /\ cr \in Seq(Nat) /\ hh \in Seq(Nat) /\ b \in Seq(Nat) /\ mark \in Seq(Nat)
    BY <1>1, <1>2, <1>6
  <2>2. Glue(x, Glue(Glue(cr, hh), b)) = Glue(Glue(x, cr), Glue(hh, b)) /\ Glue(x, cr) \in Seq(Nat)
    BY <2>1, RegroupFour, GlueFacts
  <2>5. x \o ((cr \o hh) \o b) = (x \o cr) \o mark /\ x \o cr \in Seq(Nat)
    BY <2>2 DEF Glue
  <2> HIDE DEF mark
  <2>3. /\ Glue(Glue(Glue(x, mark), hh), cr) = Glue(x, Glue(Glue(mark, hh), cr))
        /\ Glue(Glue(x, mark), cr) = Glue(x, Glue(mark, cr))
        /\ Glue(x, mark) \in Seq(Nat) /\ Glue(x, Glue(mark, cr)) \in Seq(Nat)
    <3>1. Glue(Glue(Glue(x, mark), hh), cr) = Glue(x, Glue(Glue(mark, hh), cr))
      BY <2>1, RegroupFour
    <3>2. /\ Glue(Glue(x, mark), cr) = Glue(x, Glue(mark, cr))
          /\ Glue(x, mark) \in Seq(Nat) /\ Glue(mark, cr) \in Seq(Nat)
      BY <2>1, GlueFacts
    <3>3. Glue(x, Glue(mark, cr)) \in Seq(Nat)
      BY <2>1, <3>2, GlueFacts
    <3> QED
      BY <3>1, <3>2, <3>3
  <2>4. /\ ((x \o mark) \o hh) \o cr = x \o ((mark \o hh) \o cr)
        /\ (x \o mark) \o cr = x \o (mark \o cr) /\ x \o mark \in Seq(Nat) /\ x \o (mark \o cr) \in Seq(Nat)
    BY <2>3 DEF Glue
  <2> QED
    BY <2>4, <2>5
<1> HIDE DEF mark, d
<1>7. w \in Seq(Nat)
  BY <1>2, ConcatElements
<1> HIDE DEF w
<1>8. a1 \in Seq(Nat) /\ (w \o ((cr \o hh) \o b)) \o cr = a1 \o d
  <2>1. a1 \in Seq(Nat) /\ w \o ((cr \o hh) \o b) = a1 \o mark
    BY <1>6, <1>7
  <2> HIDE DEF a1
  <2> QED
    BY <1>6, <2>1
<1> HIDE DEF a1
<1> DEFINE a2 == a1 \o d
           a3 == a2 \o p1
           a4 == a3 \o cr
           a5 == a4 \o d
           a6 == a5 \o p2
           a7 == a6 \o cr
<1>9. a2 \in Seq(Nat)
  BY <1>6, <1>8
<1> HIDE DEF a2
<1>10. a3 \in Seq(Nat)
  BY <1>9, ConcatElements
<1> HIDE DEF a3
<1>11. a4 \in Seq(Nat) /\ a3 \o ((cr \o hh) \o b) = a4 \o mark
  BY <1>6, <1>10
<1> HIDE DEF a4
<1>12. a5 \in Seq(Nat) /\ (a3 \o ((cr \o hh) \o b)) \o cr = a5
  BY <1>6, <1>11
<1> HIDE DEF a5
<1>13. a6 \in Seq(Nat)
  BY <1>12, ConcatElements
<1> HIDE DEF a6
<1>14. a7 \in Seq(Nat) /\ a6 \o ((cr \o hh) \o b) = a7 \o mark
  BY <1>6, <1>13
<1> HIDE DEF a7
<1>15. ((a6 \o ((cr \o hh) \o b)) \o hh) \o cr = a7 \o ((mark \o hh) \o cr)
  BY <1>6, <1>14
<1>16. Alternative(m, b) = ((a6 \o ((cr \o hh) \o b)) \o hh) \o cr
  BY <1>4, <1>8, <1>12 DEF a6, a3, a2
<1>17. Blocks(b, p1, p2) = a7
  BY <1>5 DEF a7, a6, a5, a4, a3, a2
<1> QED
  BY <1>15, <1>16, <1>17 DEF mark, hh, cr

\* Two parts between three delimiters are read as they are.
MarkOf(b) == <<Hyphen, Hyphen>> \o b
Wrapped(b, p1, p2) == Blocks(b, p1, p2) \o (((<<Hyphen, Hyphen>> \o b) \o <<Hyphen, Hyphen>>) \o CRLF)
Free(p, b) == p \in Seq(Nat) /\ EndsInCrlf(p) /\ Marks(p, MarkOf(b)) = {}
Outside(b) == b # <<>> /\ b \in Seq(Nat \ {CR, LF})

LEMMA TwoPartsRead ==
  ASSUME NEW b, Outside(b), NEW p1, NEW p2, Free(p1, b), Free(p2, b),
         NEW body, body = Wrapped(b, p1, p2)
  PROVE  body \in Seq(Nat) /\ PartsRead(body, b) = <<p1, p2>>
<1> DEFINE hh == <<Hyphen, Hyphen>>
           mark == hh \o b
           cr == CRLF
           o == <<>>
           k == Len(mark)
           d == (mark \o o) \o cr
           e == (mark \o hh) \o cr
           w == <<PREAMBLE>> \o cr
           a1 == w \o cr
           a2 == a1 \o d
           a3 == a2 \o p1
           a4 == a3 \o cr
           a5 == a4 \o d
           a6 == a5 \o p2
           a7 == a6 \o cr
<1>1. /\ mark \in Seq(Nat) /\ InLine(mark) /\ mark[1] = Hyphen
      /\ k = 2 + Len(b) /\ Len(b) \in Nat /\ b \in Seq(Nat)
  <2>1. b # <<>> /\ b \in Seq(Nat \ {CR, LF})
    BY DEF Outside
  <2> QED
    BY <2>1, MarkFacts
<1>2. /\ hh \in Seq(Nat) /\ \A i \in 1 .. Len(hh) : hh[i] \notin {CR, LF}
      /\ o \in Seq(Nat) /\ \A i \in 1 .. Len(o) : o[i] \notin {CR, LF}
  BY DEF Hyphen, CR, LF
<1>3. Len(hh) = 2 /\ hh[1] = Hyphen /\ hh[2] = Hyphen /\ Len(o) = 0
  OBVIOUS
<1>4. cr \in Seq(Nat) /\ EndsInCrlf(cr)
  BY CrlfInNat, CrlfFacts DEF EndsInCrlf
<1>21. Len(cr) = 2 /\ cr[1] = CR
  BY CrlfFacts
<1>5. Marks(cr, mark) = {}
  BY <1>1, EmptyLine
<1>6. (w \in Seq(Nat) /\ EndsInCrlf(w) /\ Marks(w, mark) = {}) /\ Len(w) = 3
  <2>1. PREAMBLE \in Nat \ {CR, LF, Hyphen}
    BY DEF PREAMBLE, CR, LF, Hyphen
  <2> HIDE DEF mark
  <2> QED
    BY <1>1, <2>1, CharLine
<1>7. /\ d \in Seq(Nat) /\ EndsInCrlf(d) /\ Marks(d, mark) = {1}
      /\ e \in Seq(Nat) /\ EndsInCrlf(e) /\ Marks(e, mark) = {1}
      /\ Len(d) = k + 2 /\ Len(e) = k + 4
  <2>1. /\ d \in Seq(Nat) /\ EndsInCrlf(d) /\ Marks(d, mark) = {1} /\ Len(d) = Len(mark) + Len(o) + 2
    <3> HIDE DEF mark, o
    <3> QED
      BY <1>1, <1>2, DelimiterLine
  <2>2. /\ e \in Seq(Nat) /\ EndsInCrlf(e) /\ Marks(e, mark) = {1} /\ Len(e) = Len(mark) + Len(hh) + 2
    <3> HIDE DEF mark, hh
    <3> QED
      BY <1>1, <1>2, DelimiterLine
  <2> HIDE DEF mark, d, e, hh, o
  <2> QED
    BY <1>1, <1>3, <2>1, <2>2
<1>8. /\ d[k + 1] = CR
      /\ e[k + 1] = Hyphen /\ e[k + 2] = Hyphen
  <2> HIDE DEF mark, hh, cr, k
  <2>1. mark \o o = mark
    BY <1>1, ConcatEmptySeq
  <2> HIDE DEF o
  <2>2. d[k + 1] = cr[1]
    <3>1. \A j \in 1 .. Len(cr) : (mark \o cr)[Len(mark) + j] = cr[j]
      BY <1>1, <1>4, ConcatElements
    <3>2. 1 \in 1 .. Len(cr)
      BY <1>21
    <3> QED
      BY <2>1, <3>1, <3>2 DEF k
  <2>3. e[k + 1] = Hyphen /\ e[k + 2] = Hyphen
    <3> DEFINE mh == mark \o hh
    <3>1. /\ mh \in Seq(Nat) /\ Len(mh) = Len(mark) + Len(hh)
          /\ \A j \in 1 .. Len(hh) : mh[Len(mark) + j] = hh[j]
      BY <1>1, <1>2, ConcatElements
    <3>2. mh[k + 1] = Hyphen /\ mh[k + 2] = Hyphen /\ k + 1 \in 1 .. Len(mh) /\ k + 2 \in 1 .. Len(mh)
      <4>1. k \in Nat /\ Len(mh) = k + 2 /\ 1 \in 1 .. Len(hh) /\ 2 \in 1 .. Len(hh)
        BY <1>1, <1>3, <3>1 DEF k
      <4> HIDE DEF mh
      <4> QED
        BY <1>3, <3>1, <4>1 DEF k
    <3> HIDE DEF mh
    <3>3. \A i \in 1 .. Len(mh) : (mh \o cr)[i] = mh[i]
      BY <1>4, <3>1, ConcatElements
    <3> QED
      BY <3>2, <3>3 DEF mh
  <2> QED
    BY <1>21, <2>2, <2>3
<1>9. k \in Nat
  BY <1>1
<1> HIDE DEF hh, mark, cr, o, k, d, e, w
<1>10. body = a7 \o e
  BY DEF Wrapped, Blocks, hh, mark, cr, o, d, e, w
<1>22. \A x, s \in Seq(Nat) : Len(x \o s) = Len(x) + Len(s)
  BY NatLengths
<1>23. /\ w \in Seq(Nat) /\ EndsInCrlf(w) /\ Marks(w, mark) = {}
       /\ d \in Seq(Nat) /\ EndsInCrlf(d) /\ Marks(d, mark) = {1}
       /\ e \in Seq(Nat) /\ EndsInCrlf(e) /\ Marks(e, mark) = {1}
  BY <1>6, <1>7
<1>24. ASSUME NEW x \in Seq(Nat), EndsInCrlf(x), NEW s \in Seq(Nat), EndsInCrlf(s), Marks(s, mark) = {1}
       PROVE  x \o s \in Seq(Nat) /\ EndsInCrlf(x \o s) /\ Marks(x \o s, mark) = Marks(x, mark) \cup {Len(x) + 1}
  <2>1. mark \in Seq(Nat) /\ InLine(mark)
    BY <1>1
  <2> QED
    BY <1>24, <2>1, BlockMarked
<1>25. ASSUME NEW x \in Seq(Nat), EndsInCrlf(x), NEW s \in Seq(Nat), EndsInCrlf(s), Marks(s, mark) = {}
       PROVE  x \o s \in Seq(Nat) /\ EndsInCrlf(x \o s) /\ Marks(x \o s, mark) = Marks(x, mark)
  BY <1>1, <1>25, BlocksTogether
<1>26. p1 \in Seq(Nat) /\ p2 \in Seq(Nat) /\ Marks(p1, mark) = {} /\ Marks(p2, mark) = {} /\ EndsInCrlf(p1) /\ EndsInCrlf(p2)
  BY DEF mark, hh, MarkOf, Free
<1>11. a1 \in Seq(Nat) /\ EndsInCrlf(a1) /\ Marks(a1, mark) = {}
  BY <1>4, <1>5, <1>23, <1>25
<1>27. Len(a1) = Len(w) + Len(cr)
  BY <1>4, <1>22, <1>23
<1> HIDE DEF a1
<1>12. a2 \in Seq(Nat) /\ EndsInCrlf(a2) /\ Marks(a2, mark) = Marks(a1, mark) \cup {Len(a1) + 1}
  BY <1>11, <1>23, <1>24
<1>28. Len(a2) = Len(a1) + Len(d)
  BY <1>11, <1>22, <1>23
<1> HIDE DEF a2
<1>13. a3 \in Seq(Nat) /\ EndsInCrlf(a3) /\ Marks(a3, mark) = Marks(a2, mark)
  BY <1>12, <1>25, <1>26
<1>29. Len(a3) = Len(a2) + Len(p1)
  BY <1>12, <1>22, <1>26
<1> HIDE DEF a3
<1>14. a4 \in Seq(Nat) /\ EndsInCrlf(a4) /\ Marks(a4, mark) = Marks(a3, mark)
  BY <1>4, <1>5, <1>13, <1>25
<1>30. Len(a4) = Len(a3) + Len(cr)
  BY <1>4, <1>13, <1>22
<1> HIDE DEF a4
<1>15. a5 \in Seq(Nat) /\ EndsInCrlf(a5) /\ Marks(a5, mark) = Marks(a4, mark) \cup {Len(a4) + 1}
  BY <1>14, <1>23, <1>24
<1>31. Len(a5) = Len(a4) + Len(d)
  BY <1>14, <1>22, <1>23
<1> HIDE DEF a5
<1>16. a6 \in Seq(Nat) /\ EndsInCrlf(a6) /\ Marks(a6, mark) = Marks(a5, mark)
  BY <1>15, <1>25, <1>26
<1>32. Len(a6) = Len(a5) + Len(p2)
  BY <1>15, <1>22, <1>26
<1> HIDE DEF a6
<1>17. a7 \in Seq(Nat) /\ EndsInCrlf(a7) /\ Marks(a7, mark) = Marks(a6, mark)
  BY <1>4, <1>5, <1>16, <1>25
<1>33. Len(a7) = Len(a6) + Len(cr)
  BY <1>4, <1>16, <1>22
<1> HIDE DEF a7
<1>18. body \in Seq(Nat) /\ Marks(body, mark) = Marks(a7, mark) \cup {Len(a7) + 1}
  BY <1>10, <1>17, <1>23, <1>24
<1>34. Len(body) = Len(a7) + Len(e)
  BY <1>10, <1>17, <1>22, <1>23
\* Where everything is.
<1>35. PICK n1 \in Nat : n1 = Len(p1)
  BY <1>26
<1>36. PICK n2 \in Nat : n2 = Len(p2)
  BY <1>26
<1> DEFINE y == 10 + k + n1
           z == 14 + k + k + n1 + n2
<1>37. /\ Len(a1) = 5 /\ Len(a2) = 7 + k /\ Len(a3) = 7 + k + n1 /\ Len(a4) = 9 + k + n1
       /\ Len(a5) = 11 + k + k + n1 /\ Len(a6) = 11 + k + k + n1 + n2
       /\ Len(a7) = 13 + k + k + n1 + n2 /\ Len(body) = 17 + k + k + k + n1 + n2
  <2>1. Len(a1) = 5 /\ Len(d) = k + 2 /\ Len(e) = k + 4 /\ Len(cr) = 2
    BY <1>6, <1>7, <1>21, <1>27
  <2> QED
    BY <1>9, <1>28, <1>29, <1>30, <1>31, <1>32, <1>33, <1>34, <1>35, <1>36, <2>1
<1>38. Marks(body, mark) = {6, y, z}
  <2>1. Marks(a2, mark) = {6}
    BY <1>11, <1>12, <1>37
  <2>2. Marks(a5, mark) = {6} \cup {y}
    BY <1>9, <1>13, <1>14, <1>15, <1>37, <2>1
  <2>3. Len(a7) + 1 = z
    BY <1>9, <1>35, <1>36, <1>37
  <2>4. Marks(body, mark) = ({6} \cup {y}) \cup {z}
    <3> HIDE DEF y, z
    <3> QED
      BY <1>16, <1>17, <1>18, <2>2, <2>3
  <2> HIDE DEF y, z
  <2> QED
    BY <2>4
<1>39. /\ Starts(a7 \o e, body) /\ Starts(a6 \o cr, body) /\ Starts(a5 \o p2, body)
       /\ Starts(a4 \o d, body) /\ Starts(a2 \o p1, body) /\ Starts(a1 \o d, body)
  <2>1. Starts(a7 \o e, body)
    BY <1>10, <1>18, NatStarts
  <2>2. Starts(a7, body)
    BY <1>17, <1>18, <1>23, <2>1, NatStarts
  <2>3. Starts(a6, body)
    BY <1>4, <1>16, <1>18, <2>2, NatStarts DEF a7
  <2>4. Starts(a5, body)
    BY <1>15, <1>18, <1>26, <2>3, NatStarts DEF a6
  <2>5. Starts(a4, body)
    BY <1>14, <1>18, <1>23, <2>4, NatStarts DEF a5
  <2>6. Starts(a3, body)
    BY <1>4, <1>13, <1>18, <2>5, NatStarts DEF a4
  <2>7. Starts(a2, body)
    BY <1>12, <1>18, <1>26, <2>6, NatStarts DEF a3
  <2> QED
    BY <2>1, <2>2, <2>3, <2>4, <2>6, <2>7 DEF a2, a3, a5, a6, a7
<1>40. Delimiters(body, b) = <<6, y, z>>
  <2>1. Delimiters(body, b) = Ordered(Len(body), Marks(body, mark))
    <3>1. Hyphen \in Nat
      BY DEF Hyphen
    <3> QED
      BY <1>1, <1>18, <3>1, DelimitersAreMarks DEF mark, hh
  <2>2. /\ Len(body) \in Nat /\ 6 \in Nat \ {0} /\ y \in Nat /\ z \in Nat
        /\ 6 < y /\ y < z /\ z <= Len(body)
    BY <1>9, <1>35, <1>36, <1>37
  <2> DEFINE x == 6
             n == Len(body)
  <2>3. n \in Nat /\ x \in Nat \ {0} /\ y \in Nat /\ z \in Nat /\ x < y /\ y < z /\ z <= n
    BY <2>2
  <2> HIDE DEF x, y, z, n
  <2>4. Ordered(n, {x, y, z}) = <<x, y, z>>
    <3>1. n \in Nat /\ x \in Nat \ {0}
      BY <2>3
    <3>2. y \in Nat /\ z \in Nat
      BY <2>3
    <3>3. x < y /\ y < z /\ z <= n
      BY <2>3
    <3> QED
      BY <3>1, <3>2, <3>3, OrderedThree
  <2> QED
    BY <1>38, <2>1, <2>4 DEF x, n
\* The first two delimiters go on with a line end, the third with hyphens.
<1>41. hh \in Seq(Nat) /\ Len(hh) = 2 /\ hh[1] = Hyphen /\ hh[2] = Hyphen
  BY DEF hh, Hyphen
<1>42. ASSUME NEW i \in Nat \ {0}, i + k + 2 <= Len(body) + 1
       PROVE  Closes(body, b, i) <=> (body[i + k] = Hyphen /\ body[i + k + 1] = Hyphen)
  <2>1. PICK f : f = i + k
    OBVIOUS
  <2>2. f \in 1 .. Len(body) + 1 /\ i + 2 + Len(b) = f /\ 2 <= Len(body) - f + 1
    <3>1. PICK n \in Nat : n = Len(body)
      BY <1>18
    <3>2. PICK l \in Nat : l = Len(b)
      BY <1>1
    <3>3. k = 2 + l /\ i + k + 2 <= n + 1
      BY <1>1, <1>42, <3>1, <3>2
    <3>4. f \in 1 .. n + 1 /\ i + 2 + l = f /\ 2 <= n - f + 1
      BY <1>9, <2>1, <3>3
    <3> QED
      BY <3>1, <3>2, <3>4
  <2>3. IsPrefix(hh, From(body, f)) <=>
          Len(hh) <= Len(body) - f + 1 /\ \A j \in 1 .. Len(hh) : body[f + j - 1] = hh[j]
    <3> DEFINE N == Nat
    <3>1. hh \in Seq(N) /\ body \in Seq(N) /\ f \in 1 .. Len(body) + 1
      BY <1>18, <1>41, <2>2
    <3> HIDE DEF N
    <3> QED
      BY <3>1, PrefixAt
  <2>4. (\A j \in 1 .. 2 : body[f + j - 1] = hh[j]) <=> body[f] = Hyphen /\ body[f + 1] = Hyphen
    <3>1. f + 1 - 1 = f /\ f + 2 - 1 = f + 1 /\ \A j \in 1 .. 2 : j = 1 \/ j = 2
      BY <2>2
    <3>2. 1 \in 1 .. 2 /\ 2 \in 1 .. 2
      OBVIOUS
    <3> QED
      BY <1>41, <3>1, <3>2
  <2>5. Closes(body, b, i) <=> IsPrefix(hh, From(body, f))
    BY <2>2 DEF Closes, hh
  <2> QED
    BY <1>41, <2>1, <2>2, <2>3, <2>4, <2>5
<1>43. ~Closes(body, b, 6) /\ ~Closes(body, b, y) /\ Closes(body, b, z)
  <2>1. /\ \A j \in 1 .. Len(d) : body[Len(a1) + j] = d[j]
        /\ \A j \in 1 .. Len(d) : body[Len(a4) + j] = d[j]
        /\ \A j \in 1 .. Len(e) : body[Len(a7) + j] = e[j]
    <3>1. /\ a1 \in Seq(Nat) /\ a4 \in Seq(Nat) /\ a7 \in Seq(Nat)
          /\ d \in Seq(Nat) /\ e \in Seq(Nat) /\ body \in Seq(Nat)
          /\ Starts(a1 \o d, body) /\ Starts(a4 \o d, body) /\ Starts(a7 \o e, body)
      BY <1>11, <1>14, <1>17, <1>18, <1>23, <1>39
    <3>2. BlockAt(a1, d, body)
      BY <3>1, NatBlockAt
    <3>3. BlockAt(a4, d, body)
      BY <3>1, NatBlockAt
    <3>4. BlockAt(a7, e, body)
      BY <3>1, NatBlockAt
    <3> QED
      BY <3>2, <3>3, <3>4 DEF BlockAt
  <2>2. k + 1 \in 1 .. Len(d) /\ k + 1 \in 1 .. Len(e) /\ k + 2 \in 1 .. Len(e)
    BY <1>7, <1>9
  <2>3. /\ body[Len(a1) + (k + 1)] = CR /\ body[Len(a4) + (k + 1)] = CR
        /\ body[Len(a7) + (k + 1)] = Hyphen /\ body[Len(a7) + (k + 2)] = Hyphen
    BY <1>8, <2>1, <2>2
  <2>4. /\ Len(a1) + (k + 1) = 6 + k /\ Len(a4) + (k + 1) = y + k
        /\ Len(a7) + (k + 1) = z + k /\ Len(a7) + (k + 2) = z + k + 1
    BY <1>9, <1>35, <1>36, <1>37
  <2>5. /\ 6 \in Nat \ {0} /\ y \in Nat \ {0} /\ z \in Nat \ {0}
        /\ 6 + k + 2 <= Len(body) + 1 /\ y + k + 2 <= Len(body) + 1 /\ z + k + 2 <= Len(body) + 1
    BY <1>9, <1>35, <1>36, <1>37
  <2>6. CR # Hyphen
    BY DEF CR, Hyphen
  <2> HIDE DEF y, z
  <2>7. body[6 + k] = CR /\ body[y + k] = CR /\ body[z + k] = Hyphen /\ body[z + k + 1] = Hyphen
    BY <2>3, <2>4
  <2> QED
    BY <1>42, <2>5, <2>6, <2>7
<1>44. Min({i \in 1 .. 3 : Closes(body, b, <<6, y, z>>[i])}) = 3
  <2> HIDE DEF y, z
  <2>1. <<6, y, z>>[1] = 6 /\ <<6, y, z>>[2] = y /\ <<6, y, z>>[3] = z /\ \A i \in 1 .. 3 : i = 1 \/ i = 2 \/ i = 3
    OBVIOUS
  <2>2. {i \in 1 .. 3 : Closes(body, b, <<6, y, z>>[i])} = {3}
    BY <1>43, <2>1
  <2>3. Min({3}) \in {3}
    <3>1. {3} \subseteq Nat /\ {3} # {}
      OBVIOUS
    <3> QED
      BY <3>1, MinIsLeast
  <2> QED
    BY <2>2, <2>3
<1>45. SubSeq(body, 6 + 4 + Len(b), y - 3) = p1 /\ SubSeq(body, y + 4 + Len(b), z - 3) = p2
  <2>1. /\ SubSeq(body, Len(a2) + 1, Len(a2) + Len(p1)) = p1
        /\ SubSeq(body, Len(a5) + 1, Len(a5) + Len(p2)) = p2
    BY <1>12, <1>15, <1>18, <1>26, <1>39, NatBlocks
  <2>2. /\ 6 + 4 + Len(b) = Len(a2) + 1 /\ y - 3 = Len(a2) + Len(p1)
        /\ y + 4 + Len(b) = Len(a5) + 1 /\ z - 3 = Len(a5) + Len(p2)
    BY <1>1, <1>9, <1>35, <1>36, <1>37
  <2> QED
    BY <2>1, <2>2
<1>46. PartsRead(body, b) = [i \in 1 .. 3 - 1 |-> SubSeq(body, <<6, y, z>>[i] + 4 + Len(b), <<6, y, z>>[i + 1] - 3)]
  <2> HIDE DEF y, z
  <2>1. Len(<<6, y, z>>) = 3
    OBVIOUS
  <2> QED
    BY <1>40, <1>44, <2>1 DEF PartsRead
<1>47. PartsRead(body, b) = <<p1, p2>>
  <2> HIDE DEF y, z
  <2>1. /\ <<6, y, z>>[1] = 6 /\ <<6, y, z>>[2] = y /\ <<6, y, z>>[3] = z
        /\ 1 + 1 = 2 /\ 2 + 1 = 3 /\ 3 - 1 = 2 /\ \A i \in 1 .. 2 : i = 1 \/ i = 2
    OBVIOUS
  <2> DEFINE r == PartsRead(body, b)
             t == <<6, y, z>>
  <2>2. r = [i \in 1 .. 2 |-> SubSeq(body, t[i] + 4 + Len(b), t[i + 1] - 3)]
    BY <1>46
  <2>3. 1 \in 1 .. 2 /\ 2 \in 1 .. 2
    OBVIOUS
  <2>4. t[1] = 6 /\ t[2] = y /\ t[3] = z
    BY <2>1
  <2> HIDE DEF r, t
  <2>5. r[1] = SubSeq(body, t[1] + 4 + Len(b), t[2] - 3) /\ r[2] = SubSeq(body, t[2] + 4 + Len(b), t[3] - 3)
    BY <2>1, <2>2, <2>3
  <2>6. r[1] = p1 /\ r[2] = p2
    BY <1>45, <2>4, <2>5
  <2>7. r = [i \in 1 .. 2 |-> IF i = 1 THEN p1 ELSE p2]
    <3>1. DOMAIN r = 1 .. 2 /\ r = [i \in 1 .. 2 |-> r[i]]
      BY <2>2
    <3> QED
      BY <2>1, <2>6, <3>1
  <2>8. <<p1, p2>> = [i \in 1 .. 2 |-> IF i = 1 THEN p1 ELSE p2]
    OBVIOUS
  <2> QED
    BY <2>7, <2>8 DEF r
<1> QED
  BY <1>18, <1>47

\* A message of two parts reads as they are.
LEMMA AlternativeReads ==
  ASSUME NEW S, S \subseteq Nat, {CR, LF} \subseteq S, \A c \in S : Bytes(c) \in Nat,
         NEW m, m.body \in Seq(S), m.html[1] \in Seq(S), NEW b, Outside(b), ~Collides(m, b)
  PROVE  /\ Alternative(m, b) \in Seq(Nat)
         /\ PartsRead(Alternative(m, b), b) = <<Part(PLAIN, m.body), Part(HTML, m.html[1])>>
<1> DEFINE t1 == m.body
           t2 == m.html[1]
           p1 == Part(PLAIN, t1)
           p2 == Part(HTML, t2)
           body == Alternative(m, b)
<1>1. b # <<>> /\ b \in Seq(Nat \ {CR, LF})
  BY DEF Outside
<1>2. ~HasBoundary(Encode(t1).body, b) /\ ~HasBoundary(Encode(t2).body, b)
  BY DEF Collides
<1>3. t1 \in Seq(S) /\ t2 \in Seq(S)
  OBVIOUS
<1> HIDE DEF t1, t2
<1>4. Free(p1, b)
  <2>1. PLAIN \in {PLAIN, HTML}
    OBVIOUS
  <2> QED
    BY <1>1, <1>2, <1>3, <2>1, PartFacts DEF Free, MarkOf
<1>5. Free(p2, b)
  <2>1. HTML \in {PLAIN, HTML}
    OBVIOUS
  <2> QED
    BY <1>1, <1>2, <1>3, <2>1, PartFacts DEF Free, MarkOf
<1>6. body = Wrapped(b, p1, p2)
  <2>1. p1 \in Seq(Nat) /\ p2 \in Seq(Nat)
    BY <1>4, <1>5 DEF Free
  <2>2. Part(PLAIN, m.body) = p1 /\ Part(HTML, m.html[1]) = p2
    BY DEF t1, t2
  <2> HIDE DEF p1, p2
  <2> QED
    BY <1>1, <2>1, <2>2, BlocksAre DEF Wrapped
<1> HIDE DEF body, p1, p2
<1>7. body \in Seq(Nat) /\ PartsRead(body, b) = <<p1, p2>>
  BY <1>4, <1>5, <1>6, TwoPartsRead
<1> QED
  BY <1>7 DEF body, p1, p2, t1, t2

----------------------------------------------------------------------------
(***************************************************************************)
(* The header.                                                             *)
(***************************************************************************)
HeaderPiece == Piece(Nat)

\* No two line breaks in a row.
NoDouble(h) == \A i \in 1 .. Len(h) - 1 : ~(h[i] = Break /\ h[i + 1] = Break)
EndsInBreak(h) == h # <<>> /\ h[Len(h)] = Break
StartsInBreak(h) == h # <<>> /\ h[1] = Break

\* What a value is like, and what a line is.
Neat == {v \in Seq(HeaderPiece) : NoDouble(v) /\ ~EndsInBreak(v)}
Whole == {h \in Neat : h # <<>> /\ ~StartsInBreak(h)}

LEMMA EmptyIsNeat == <<>> \in Neat
<1>1. NoDouble(<<>>) /\ ~EndsInBreak(<<>>)
  BY DEF NoDouble, EndsInBreak
<1>2. <<>> \in Seq(HeaderPiece)
  OBVIOUS
<1> QED
  BY <1>1, <1>2 DEF Neat

LEMMA NoDoubleConcat ==
  ASSUME NEW P, NEW a \in Seq(P), NEW b \in Seq(P), NoDouble(a), NoDouble(b),
         ~(EndsInBreak(a) /\ StartsInBreak(b))
  PROVE  a \o b \in Seq(P) /\ NoDouble(a \o b)
<1> DEFINE c == a \o b
           n == Len(a)
           m == Len(b)
<1>1. /\ c \in Seq(P) /\ n \in Nat /\ m \in Nat /\ Len(c) = n + m
      /\ \A i \in 1 .. n : c[i] = a[i]
      /\ \A j \in 1 .. m : c[n + j] = b[j]
  BY ConcatElements
<1> HIDE DEF c
<1>2. ASSUME NEW i \in 1 .. Len(c) - 1, c[i] = Break, c[i + 1] = Break PROVE FALSE
  <2>1. PICK k : k = i + 1
    OBVIOUS
  <2>2. i \in Nat \ {0} /\ k \in 2 .. n + m /\ c[k] = Break
    BY <1>1, <1>2, <2>1
  <2>3. CASE i < n
    <3>1. i \in 1 .. n /\ k \in 1 .. n /\ i \in 1 .. n - 1
      BY <1>1, <2>1, <2>2, <2>3
    <3>2. a[i] = Break /\ a[i + 1] = Break
      BY <1>1, <1>2, <2>1, <2>2, <3>1
    <3> QED
      BY <3>1, <3>2 DEF NoDouble
  <2>4. CASE i = n
    <3>1. n \in 1 .. n /\ 1 \in 1 .. m /\ n + 1 = k
      BY <1>1, <2>1, <2>2, <2>4
    <3>2. a[n] = Break /\ b[1] = Break
      BY <1>1, <1>2, <2>2, <2>4, <3>1
    <3>3. a # <<>> /\ b # <<>>
      BY <1>1, <3>1, EmptySeq
    <3> QED
      BY <3>2, <3>3 DEF EndsInBreak, StartsInBreak
  <2>5. CASE i > n
    <3>1. PICK j : j = i - n
      OBVIOUS
    <3>2. j \in 1 .. m - 1 /\ j \in 1 .. m /\ j + 1 \in 1 .. m /\ i = n + j /\ k = n + (j + 1)
      BY <1>1, <2>1, <2>2, <2>5, <3>1
    <3>3. b[j] = Break /\ b[j + 1] = Break
      BY <1>1, <1>2, <2>2, <3>2
    <3> QED
      BY <3>2, <3>3 DEF NoDouble
  <2> QED
    BY <1>1, <2>2, <2>3, <2>4, <2>5
<1> QED
  BY <1>1, <1>2 DEF NoDouble, c

LEMMA ConcatEnds ==
  ASSUME NEW P, NEW a \in Seq(P), NEW b \in Seq(P)
  PROVE  /\ b = <<>> => a \o b = a
         /\ b # <<>> => (EndsInBreak(a \o b) <=> EndsInBreak(b))
         /\ a = <<>> => a \o b = b
         /\ a # <<>> => a \o b # <<>> /\ (StartsInBreak(a \o b) <=> StartsInBreak(a))
<1> DEFINE c == a \o b
           n == Len(a)
           m == Len(b)
<1>1. /\ c \in Seq(P) /\ n \in Nat /\ m \in Nat /\ Len(c) = n + m
      /\ \A i \in 1 .. n : c[i] = a[i]
      /\ \A j \in 1 .. m : c[n + j] = b[j]
  BY ConcatElements
<1>2. (b = <<>> => a \o b = a) /\ (a = <<>> => a \o b = b)
  BY ConcatEmptySeq
<1> HIDE DEF c
<1>3. ASSUME b # <<>> PROVE EndsInBreak(c) <=> EndsInBreak(b)
  <2>1. m \in 1 .. m /\ n + m # 0
    BY <1>1, <1>3, EmptySeq
  <2>2. c[Len(c)] = b[m] /\ c # <<>>
    BY <1>1, <2>1
  <2> QED
    BY <1>3, <2>2 DEF EndsInBreak
<1>4. ASSUME a # <<>> PROVE c # <<>> /\ (StartsInBreak(c) <=> StartsInBreak(a))
  <2>1. 1 \in 1 .. n /\ n + m # 0
    BY <1>1, <1>4, EmptySeq
  <2>2. c[1] = a[1] /\ c # <<>>
    BY <1>1, <2>1
  <2> QED
    BY <1>4, <2>2 DEF StartsInBreak
<1> QED
  BY <1>2, <1>3, <1>4 DEF c

LEMMA NeatConcat ==
  \A a, b \in Neat : a \o b \in Neat
<1> SUFFICES ASSUME NEW a \in Neat, NEW b \in Neat PROVE a \o b \in Neat
  OBVIOUS
<1> DEFINE P == HeaderPiece
           c == a \o b
<1> HIDE DEF P
<1>1. a \in Seq(P) /\ b \in Seq(P) /\ NoDouble(a) /\ NoDouble(b) /\ ~EndsInBreak(a) /\ ~EndsInBreak(b)
  BY DEF Neat, P
<1>2. c \in Seq(P) /\ NoDouble(c)
  BY <1>1, NoDoubleConcat
<1>3. (b = <<>> => c = a) /\ (b # <<>> => (EndsInBreak(c) <=> EndsInBreak(b)))
  BY <1>1, ConcatEnds
<1>4. ~EndsInBreak(c)
  BY <1>1, <1>3
<1> QED
  BY <1>2, <1>4 DEF Neat, P

LEMMA WholeConcat ==
  \A a \in Whole, b \in Neat : a \o b \in Whole
<1> SUFFICES ASSUME NEW a \in Whole, NEW b \in Neat PROVE a \o b \in Whole
  OBVIOUS
<1> DEFINE P == HeaderPiece
           c == a \o b
<1> HIDE DEF P
<1>1. a \in Neat /\ a # <<>> /\ ~StartsInBreak(a) /\ a \in Seq(P) /\ b \in Seq(P)
  BY DEF Whole, Neat, P
<1>2. c \in Neat
  BY <1>1, NeatConcat
<1>3. c # <<>> /\ (StartsInBreak(c) <=> StartsInBreak(a))
  BY <1>1, ConcatEnds
<1> QED
  BY <1>1, <1>2, <1>3 DEF Whole

LEMMA BreakWhole ==
  \A a \in Whole : <<Break>> \o a \in Neat
<1> SUFFICES ASSUME NEW a \in Whole PROVE <<Break>> \o a \in Neat
  OBVIOUS
<1> DEFINE P == HeaderPiece
           s == <<Break>>
           c == s \o a
<1>1. a \in Neat /\ a # <<>> /\ ~StartsInBreak(a) /\ a \in Seq(P) /\ NoDouble(a) /\ ~EndsInBreak(a)
  BY DEF Whole, Neat
<1>2. s \in Seq(P) /\ NoDouble(s)
  <2>1. Break \in P
    BY PieceFacts DEF HeaderPiece
  <2> QED
    BY <2>1 DEF NoDouble
<1> HIDE DEF P, s
<1>3. c \in Seq(P) /\ NoDouble(c)
  BY <1>1, <1>2, NoDoubleConcat
<1>4. EndsInBreak(c) <=> EndsInBreak(a)
  BY <1>1, <1>2, ConcatEnds
<1> QED
  BY <1>1, <1>3, <1>4 DEF Neat, P, s

\* Neat values, one after another.
LEMMA NeatFlat ==
  ASSUME NEW vs \in Seq(Neat)
  PROVE  FlattenSeq(vs) \in Neat
<1> DEFINE SS == Seq(HeaderPiece)
           G == {s \in Seq(Neat) : FlattenSeq(s) \in Neat}
<1>1. Neat \subseteq SS
  BY DEF Neat
<1>2. <<>> \in G
  <2>1. <<>> \in Seq(Neat) /\ FlattenSeq(<<>>) = <<>>
    BY FlattenEmpty
  <2> QED
    BY <2>1, EmptyIsNeat
<1> DEFINE N == Neat
<1>3. ASSUME NEW s \in Seq(N), NEW v \in N, s \in G PROVE Append(s, v) \in G
  <2>1. FlattenSeq(s) \in Neat
    BY <1>3
  <2>2. Append(s, v) \in Seq(N)
    BY AppendFacts
  <2>3. s \in Seq(SS) /\ v \in SS
    BY <1>1, SeqMonotonic
  <2>4. FlattenSeq(Append(s, v)) = FlattenSeq(s) \o v
    BY <2>3, FlattenAppend
  <2>5. FlattenSeq(s) \o v \in Neat
    BY <2>1, NeatConcat
  <2> QED
    BY <2>2, <2>4, <2>5
<1>4. vs \in Seq(N)
  OBVIOUS
<1>5. vs \in G
  <2> HIDE DEF G, N
  <2> QED
    BY <1>2, <1>3, <1>4, ByAppending
<1> QED
  BY <1>5

LEMMA CharsAre ==
  ASSUME NEW t \in Seq(Nat)
  PROVE  /\ Chars(t) \in Seq(HeaderPiece) /\ Len(Chars(t)) = Len(t)
         /\ \A i \in 1 .. Len(t) : Chars(t)[i] = Char(t[i]) /\ Chars(t)[i] # Break
<1>1. \A c \in Nat : Char(c) \in HeaderPiece /\ Char(c) # Break
  BY PieceFacts DEF HeaderPiece
<1> DEFINE P == HeaderPiece
           n == Len(t)
<1>2. n \in Nat /\ \A i \in 1 .. n : t[i] \in Nat
  OBVIOUS
<1> HIDE DEF P
<1>3. \A i \in 1 .. n : Char(t[i]) \in P /\ Char(t[i]) # Break
  BY <1>1, <1>2 DEF P
<1>4. Chars(t) = [i \in 1 .. n |-> Char(t[i])]
  BY DEF Chars
<1> HIDE DEF n
<1>5. Chars(t) \in Seq(P) /\ Len(Chars(t)) = n
  BY <1>2, <1>3, <1>4
<1> QED
  BY <1>3, <1>4, <1>5 DEF P, n

LEMMA CharsNeat ==
  ASSUME NEW t \in Seq(Nat)
  PROVE  Chars(t) \in Neat /\ (t # <<>> => Chars(t) \in Whole)
<1> DEFINE h == Chars(t)
           n == Len(t)
<1>1. /\ h \in Seq(HeaderPiece) /\ Len(h) = n /\ n \in Nat
      /\ \A i \in 1 .. n : h[i] # Break
  BY CharsAre
<1>2. t # <<>> => n \in 1 .. n /\ 1 \in 1 .. n
  BY EmptySeq
<1> HIDE DEF h, n
<1>3. NoDouble(h)
  <2> SUFFICES ASSUME NEW i \in 1 .. Len(h) - 1 PROVE h[i] # Break
    BY DEF NoDouble
  <2>1. i \in 1 .. n
    BY <1>1
  <2> QED
    BY <1>1, <2>1
<1>4. h # <<>> => n \in 1 .. n /\ 1 \in 1 .. n
  <2>1. h # <<>> => Len(h) # 0
    BY <1>1, EmptySeq
  <2> QED
    BY <1>1, <2>1
<1>5. ~EndsInBreak(h) /\ ~StartsInBreak(h)
  BY <1>1, <1>4 DEF EndsInBreak, StartsInBreak
<1>6. t # <<>> => h # <<>>
  <2>1. t # <<>> => n # 0
    BY <1>2
  <2>2. h = <<>> => Len(h) = 0
    OBVIOUS
  <2> QED
    BY <1>1, <2>1, <2>2
<1> QED
  BY <1>1, <1>3, <1>5, <1>6 DEF h, Neat, Whole

\* Encoded words: each but the first is on a line of its own.
LEMMA WordsNeat ==
  ASSUME NEW C, C \subseteq Nat, \A c \in C : Bytes(c) \in Nat, NEW t \in Seq(C)
  PROVE  EncodedWord(t) \in Neat
<1> DEFINE cs == Chunks(t)
           n == Len(cs)
           P == HeaderPiece
<1>1. cs \in Seq(Chunk(C))
  BY ChunksFine
<1> HIDE DEF cs
<1>2. n \in Nat /\ \A i \in 1 .. n : cs[i] \in Chunk(C)
  BY <1>1
<1>3. Break \in P /\ Space \in P /\ Space # Break
  BY PieceFacts DEF HeaderPiece, Space, SP
<1>4. ASSUME NEW x \in Chunk(C) PROVE <<Word(x)>> \in Neat /\ <<Break, Space, Word(x)>> \in Neat
  <2>1. Word(x) \in P
    BY <1>4, WordInk DEF HeaderPiece
  <2>2. Word(x) # Break
    BY PieceFacts
  <2> DEFINE w == Word(x)
  <2> HIDE DEF w, P
  <2>3. w \in P /\ w # Break
    BY <2>1, <2>2 DEF w
  <2>4. <<w>> \in Seq(P) /\ NoDouble(<<w>>) /\ ~EndsInBreak(<<w>>)
    BY <2>3 DEF NoDouble, EndsInBreak
  <2> DEFINE u == <<Break, Space, w>>
  <2>5. u \in Seq(P) /\ Len(u) = 3 /\ u[2] = Space /\ u[3] = w
    BY <1>3, <2>3
  <2> HIDE DEF u
  <2>6. NoDouble(u)
    <3> SUFFICES ASSUME NEW i \in 1 .. 2, u[i] = Break, u[i + 1] = Break PROVE FALSE
      BY <2>5 DEF NoDouble
    <3>1. (i = 1 /\ i + 1 = 2) \/ (i = 2 /\ i + 1 = 3)
      OBVIOUS
    <3> QED
      BY <1>3, <2>3, <2>5, <3>1
  <2>7. ~EndsInBreak(u)
    BY <2>3, <2>5 DEF EndsInBreak
  <2> QED
    BY <2>4, <2>5, <2>6, <2>7 DEF Neat, P, w, u
<1> DEFINE at(i) == IF i = 1 THEN <<Word(cs[i])>> ELSE <<Break, Space, Word(cs[i])>>
           f == [i \in 1 .. n |-> at(i)]
           N == Neat
<1>5. \A i \in 1 .. n : at(i) \in N
  BY <1>2, <1>4
<1> HIDE DEF at, N
<1>6. f \in Seq(N)
  BY <1>2, <1>5
<1>7. EncodedWord(t) = FlattenSeq(f)
  BY DEF EncodedWord, at, cs
<1> HIDE DEF f
<1> QED
  BY <1>6, <1>7, NeatFlat DEF N

LEMMA EncodedNeat ==
  ASSUME NEW C, C \subseteq Nat, \A c \in C : Bytes(c) \in Nat, NEW t \in Seq(C)
  PROVE  EncodeIfNeeded(t) \in Neat
<1>1. t \in Seq(Nat)
  BY SeqMonotonic
<1>2. Chars(t) \in Neat
  BY <1>1, CharsNeat
<1>3. EncodedWord(t) \in Neat
  BY WordsNeat
<1> QED
  BY <1>2, <1>3 DEF EncodeIfNeeded

LEMMA QuotedTyped ==
  ASSUME NEW t \in Seq(Nat)
  PROVE  Quoted(t) \in Seq(Nat)
<1> DEFINE at(i) == IF t[i] \in {QUOTE, BACKSLASH} THEN <<BACKSLASH, t[i]>> ELSE <<t[i]>>
           f == [i \in 1 .. Len(t) |-> at(i)]
           SS == Seq(Nat)
<1>1. \A i \in 1 .. Len(t) : at(i) \in SS
  <2> TAKE i \in 1 .. Len(t)
  <2>1. t[i] \in Nat /\ BACKSLASH \in Nat
    BY DEF BACKSLASH
  <2> QED
    BY <2>1
<1>2. Len(t) \in Nat
  OBVIOUS
<1> HIDE DEF at, SS
<1>3. f \in Seq(SS)
  BY <1>1, <1>2
<1> HIDE DEF f
<1>4. FlattenSeq(f) \in Seq(Nat)
  BY <1>3, FlattenTyped DEF SS
<1>5. <<QUOTE>> \in Seq(Nat)
  BY DEF QUOTE
<1>6. Quoted(t) = (<<QUOTE>> \o FlattenSeq(f)) \o <<QUOTE>>
  BY DEF Quoted, f, at
<1> DEFINE q == <<QUOTE>>
           x == FlattenSeq(f)
<1>7. q \in SS /\ x \in SS
  BY <1>4, <1>5 DEF SS
<1> HIDE DEF q, x
<1>8. q \o x \in SS
  BY <1>7, ConcatProperties DEF SS
<1>9. (q \o x) \o q \in SS
  BY <1>7, <1>8, ConcatProperties DEF SS
<1> QED
  BY <1>6, <1>9 DEF q, x, SS

\* An address: its name may be anything, itself is a character.
LEMMA AddressNeat ==
  ASSUME NEW C, C \subseteq Nat, \A c \in C : Bytes(c) \in Nat,
         NEW a, a.name \in Seq(C), a.email \in Nat
  PROVE  FormatAddress(a) \in Neat
<1> DEFINE t == a.name
<1>1. t \in Seq(C)
  OBVIOUS
<1> HIDE DEF t
<1>2. t \in Seq(Nat)
  BY <1>1, SeqMonotonic
<1>3. Phrase(t) \in Neat
  <2>1. EncodedWord(t) \in Neat
    BY <1>1, WordsNeat
  <2>2. Chars(t) \in Neat
    BY <1>2, CharsNeat
  <2>3. Chars(Quoted(t)) \in Neat
    BY <1>2, QuotedTyped, CharsNeat
  <2> QED
    BY <2>1, <2>2, <2>3 DEF Phrase
<1>4. Chars(<<a.email>>) \in Neat
  <2>1. <<a.email>> \in Seq(Nat)
    OBVIOUS
  <2> QED
    BY <2>1, CharsNeat
<1>5. <<Space>> \in Neat
  <2>1. <<SP>> \in Seq(Nat) /\ Chars(<<SP>>) = <<Space>>
    BY DEF SP, Chars, Space
  <2> QED
    BY <2>1, CharsNeat
<1>6. Append(Phrase(t), Space) = Phrase(t) \o <<Space>>
  <2>1. Phrase(t) \in Seq(HeaderPiece) /\ Space \in HeaderPiece
    BY <1>3, PieceFacts DEF Neat, HeaderPiece, Space, SP
  <2> QED
    BY <2>1, AppendIsConcat
<1>7. Append(Phrase(t), Space) \in Neat
  BY <1>3, <1>5, <1>6, NeatConcat
<1>8. FormatAddress(a) = (IF a.named THEN Append(Phrase(t), Space) ELSE <<>>) \o Chars(<<a.email>>)
  BY DEF FormatAddress, t
<1> QED
  BY <1>4, <1>7, <1>8, EmptyIsNeat, NeatConcat

LEMMA AddressesNeat ==
  ASSUME NEW C, C \subseteq Nat, \A c \in C : Bytes(c) \in Nat,
         NEW list, Len(list) \in Nat,
         \A i \in 1 .. Len(list) : list[i].name \in Seq(C) /\ list[i].email \in Nat
  PROVE  FormatAddresses(list) \in Neat
<1> DEFINE n == Len(list)
           sep(i) == IF i = 1 THEN <<>> ELSE <<Char(COMMA), Space>>
           at(i) == sep(i) \o FormatAddress(list[i])
           f == [i \in 1 .. n |-> at(i)]
           N == Neat
<1>1. <<Char(COMMA), Space>> \in Neat
  <2> DEFINE t == <<COMMA, SP>>
  <2>1. t \in Seq(Nat)
    BY DEF COMMA, SP
  <2>2. Chars(t) = <<Char(COMMA), Space>>
    BY DEF Chars, Space
  <2> QED
    BY <2>1, <2>2, CharsNeat
<1>2. \A i \in 1 .. n : FormatAddress(list[i]) \in Neat
  BY AddressNeat
<1>3. \A i \in 1 .. n : sep(i) \in Neat
  BY <1>1, EmptyIsNeat
<1> HIDE DEF sep
<1>4. \A i \in 1 .. n : at(i) \in N
  BY <1>2, <1>3, NeatConcat
<1>7. n \in Nat
  OBVIOUS
<1>6. FormatAddresses(list) = FlattenSeq(f)
  BY DEF FormatAddresses, at, sep
<1> HIDE DEF at, N, n
<1>5. f \in Seq(N)
  BY <1>4, <1>7
<1> HIDE DEF f
<1> QED
  BY <1>5, <1>6, NeatFlat DEF N

LEMMA IdsNeat ==
  ASSUME NEW n \in Nat
  PROVE  JoinedIds(n) \in Neat
<1> DEFINE sep(i) == IF i = 1 THEN <<>> ELSE <<Space>>
           at(i) == sep(i) \o Chars(<<Id(i)>>)
           f == [i \in 1 .. n |-> at(i)]
           N == Neat
<1>1. <<Space>> \in Neat
  <2>1. <<SP>> \in Seq(Nat) /\ Chars(<<SP>>) = <<Space>>
    BY DEF SP, Chars, Space
  <2> QED
    BY <2>1, CharsNeat
<1>2. \A i \in 1 .. n : Chars(<<Id(i)>>) \in Neat
  <2> TAKE i \in 1 .. n
  <2>1. <<Id(i)>> \in Seq(Nat)
    BY DEF Id
  <2> QED
    BY <2>1, CharsNeat
<1>3. \A i \in 1 .. n : sep(i) \in Neat
  BY <1>1, EmptyIsNeat
<1> HIDE DEF sep
<1>4. \A i \in 1 .. n : at(i) \in N
  BY <1>2, <1>3, NeatConcat
<1> HIDE DEF at, N
<1>5. f \in Seq(N)
  BY <1>4
<1>6. JoinedIds(n) = FlattenSeq(f)
  BY DEF JoinedIds, at, sep
<1> HIDE DEF f
<1> QED
  BY <1>5, <1>6, NeatFlat DEF N

\* The tokens of a neat value.
Steady == {k \in Seq(HeaderPiece) : NoDouble(k)}

LEMMA NoDoubleAppend ==
  ASSUME NEW P, NEW v \in Seq(P), NEW p \in P
  PROVE  /\ NoDouble(Append(v, p)) <=> NoDouble(v) /\ ~(EndsInBreak(v) /\ p = Break)
         /\ EndsInBreak(Append(v, p)) <=> p = Break
<1> DEFINE c == Append(v, p)
           n == Len(v)
<1>1. /\ c \in Seq(P) /\ n \in Nat /\ Len(c) = n + 1 /\ c[n + 1] = p /\ \A i \in 1 .. n : c[i] = v[i]
      /\ c # <<>>
  BY AppendFacts
<1> HIDE DEF c
<1>2. EndsInBreak(c) <=> p = Break
  BY <1>1 DEF EndsInBreak
<1>3. NoDouble(c) => NoDouble(v)
  <2> SUFFICES ASSUME NoDouble(c), NEW i \in 1 .. n - 1 PROVE ~(v[i] = Break /\ v[i + 1] = Break)
    BY DEF NoDouble
  <2>1. i \in 1 .. n /\ i + 1 \in 1 .. n /\ i \in 1 .. Len(c) - 1
    BY <1>1
  <2> QED
    BY <1>1, <2>1 DEF NoDouble
<1>4. NoDouble(c) => ~(EndsInBreak(v) /\ p = Break)
  <2> SUFFICES ASSUME NoDouble(c), EndsInBreak(v), p = Break PROVE FALSE
    OBVIOUS
  <2>1. v # <<>> /\ v[n] = Break
    BY DEF EndsInBreak
  <2>2. n \in 1 .. n /\ n \in 1 .. Len(c) - 1
    BY <1>1, <2>1, EmptySeq
  <2> QED
    BY <1>1, <2>1, <2>2 DEF NoDouble
<1>5. ASSUME NoDouble(v), ~(EndsInBreak(v) /\ p = Break) PROVE NoDouble(c)
  <2> SUFFICES ASSUME NEW i \in 1 .. n, c[i] = Break, c[i + 1] = Break PROVE FALSE
    BY <1>1 DEF NoDouble
  <2>1. v[i] = Break
    BY <1>1
  <2>2. CASE i = n
    <3>1. v # <<>> /\ p = Break
      BY <1>1, <2>2, EmptySeq
    <3> QED
      BY <1>5, <2>1, <2>2, <3>1 DEF EndsInBreak
  <2>3. CASE i # n
    <3>1. i \in 1 .. n - 1 /\ i + 1 \in 1 .. n
      BY <1>1, <2>3
    <3>2. v[i + 1] = Break
      BY <1>1, <3>1
    <3> QED
      BY <1>5, <2>1, <3>1, <3>2 DEF NoDouble
  <2> QED
    BY <2>2, <2>3
<1> QED
  BY <1>2, <1>3, <1>4, <1>5 DEF c

LEMMA NeatTokens ==
  ASSUME NEW v \in Neat
  PROVE  \E f \in Seq(Steady), l \in Neat : Tokens(v) = Append(f, l)
<1> DEFINE P == HeaderPiece
           K == Steady
           Ok(u) == \E f \in Seq(K), l \in K :
                      /\ Tokens(u) = Append(f, l)
                      /\ EndsInBreak(l) => EndsInBreak(u)
           G == {u \in Seq(P) : NoDouble(u) => Ok(u)}
<1>1. <<>> \in K /\ <<>> \in Seq(P) /\ ~EndsInBreak(<<>>) /\ <<>> \in Seq(K)
  BY EmptyIsNeat DEF Neat, Steady
<1>2. <<>> \in G
  BY <1>1, NoTokens
<1>3. Space \in P /\ Space # Break
  BY PieceFacts DEF HeaderPiece, Space, SP
<1>4. K \subseteq Seq(P) /\ \A k \in K : NoDouble(k)
  BY DEF Steady
<1>5. \A k \in Seq(P) : NoDouble(k) => k \in K
  BY DEF Steady
<1> HIDE DEF P, K
<1>6. ASSUME NEW u \in Seq(P), NEW p \in P, u \in G PROVE Append(u, p) \in G
  <2> DEFINE e == Append(u, p)
  <2>1. e \in Seq(P)
    BY AppendFacts
  <2>2. ASSUME NoDouble(e) PROVE Ok(e)
    <3>1. NoDouble(u) /\ ~(EndsInBreak(u) /\ p = Break) /\ (EndsInBreak(e) <=> p = Break)
      BY <2>2, NoDoubleAppend
    <3>2. Ok(u)
      BY <1>6, <3>1
    <3>3. PICK f \in Seq(K), l \in K : Tokens(u) = Append(f, l) /\ (EndsInBreak(l) => EndsInBreak(u))
      BY <3>2
    <3>4. f \in Seq(Seq(P)) /\ l \in Seq(P) /\ NoDouble(l)
      <4>1. f \in Seq(Seq(P))
        BY <1>4, SeqMonotonic
      <4> QED
        BY <1>4, <4>1
    <3> HIDE DEF e
    <3>5. CASE p = Space
      <4>1. Tokens(e) = Append(Append(f, l), <<>>)
        <5>1. Space \in P /\ Tokens(u) = Append(f, l)
          BY <1>3, <3>3
        <5>2. Tokens(Append(u, Space)) = Append(Append(f, l), <<>>)
          BY <3>4, <5>1, SpaceTokens
        <5> QED
          BY <3>5, <5>2 DEF e
      <4>2. Append(f, l) \in Seq(K)
        BY AppendFacts
      <4> QED
        BY <1>1, <4>1, <4>2
    <3>6. CASE p # Space
      <4>1. Tokens(e) = Append(f, Append(l, p))
        <5>1. Tokens(u) = Append(f, l)
          BY <3>3
        <5>2. Tokens(Append(u, p)) = Append(f, Append(l, p))
          BY <3>4, <3>6, <5>1, InkTokens
        <5> QED
          BY <5>2 DEF e
      <4>2. NoDouble(Append(l, p)) /\ (EndsInBreak(Append(l, p)) <=> p = Break) /\ Append(l, p) \in Seq(P)
        <5>1. ~(EndsInBreak(l) /\ p = Break)
          BY <3>1, <3>3
        <5> QED
          BY <3>4, <5>1, NoDoubleAppend, AppendFacts
      <4>3. Append(l, p) \in K
        BY <1>5, <4>2
      <4> QED
        BY <3>1, <4>1, <4>2, <4>3
    <3> QED
      BY <3>5, <3>6
  <2> HIDE DEF Ok
  <2>3. e \in G
    BY <2>1, <2>2
  <2> QED
    BY <2>3
<1>7. v \in Seq(P) /\ NoDouble(v) /\ ~EndsInBreak(v)
  BY DEF Neat, P
<1>8. v \in G
  <2> HIDE DEF G
  <2> QED
    BY <1>2, <1>6, <1>7, ByAppending
<1>9. PICK f \in Seq(K), l \in K : Tokens(v) = Append(f, l) /\ (EndsInBreak(l) => EndsInBreak(v))
  BY <1>7, <1>8
<1>10. l \in Neat
  <2>1. l \in Seq(HeaderPiece) /\ NoDouble(l)
    BY <1>4, <1>9 DEF P
  <2> QED
    BY <1>7, <1>9, <2>1 DEF Neat
<1> QED
  BY <1>9, <1>10 DEF K

\* A header that is folded: it may end with a break, but only one.
Begun == {h \in Seq(HeaderPiece) : NoDouble(h) /\ h # <<>> /\ ~StartsInBreak(h)}

LEMMA BegunStep ==
  ASSUME NEW name \in Seq(HeaderPiece), NEW r \in Begun, NEW k \in Steady
  PROVE  /\ HeaderStep(name, r, k) \in Begun
         /\ k \in Neat => HeaderStep(name, r, k) \in Whole
<1> DEFINE P == HeaderPiece
           b == <<Break>>
           s == <<Space>>
<1>1. Break \in P /\ Space \in P /\ Space # Break
  BY PieceFacts DEF HeaderPiece, Space, SP
<1>2. r \in Seq(P) /\ NoDouble(r) /\ r # <<>> /\ ~StartsInBreak(r) /\ k \in Seq(P) /\ NoDouble(k)
  BY DEF Begun, Steady
<1>3. Count(name) \in Nat /\ Count(<<>>) = 0
  BY CountAppend DEF HeaderPiece
<1>4. ASSUME EndsInBreak(r) PROVE ~StartsNewLine(name, Count(LastLine(r)), k)
  <2>1. r \in Seq(P) /\ r # <<>> /\ r[Len(r)] = Break
    BY <1>2, <1>4 DEF EndsInBreak
  <2>2. LastLine(r) = <<>>
    <3> DEFINE t == Take(r, Len(r) - 1)
    <3>1. Len(r) - 1 \in 0 .. Len(r) - 1 /\ Len(r) - 1 + 1 = Len(r)
      BY <2>1, EmptySeq
    <3>2. PICK j : j = Len(r) - 1
      OBVIOUS
    <3> HIDE DEF P
    <3>3. Take(r, j) \in Seq(P) /\ Take(r, j + 1) = Append(Take(r, j), r[j + 1])
      BY <2>1, <3>1, <3>2, TakeOneMore
    <3>4. Take(r, Len(r)) = r
      BY <2>1, TakeEnds
    <3>5. r = Append(Take(r, j), Break)
      BY <2>1, <3>1, <3>2, <3>3, <3>4
    <3>6. LastLine(Append(Take(r, j), Break)) = <<>>
      BY <1>1, <3>3, LastLineAppend
    <3> QED
      BY <3>5, <3>6
  <2> QED
    BY <1>3, <2>2 DEF StartsNewLine
<1>5. /\ s \in Seq(P) /\ NoDouble(s) /\ s # <<>> /\ ~EndsInBreak(s) /\ ~StartsInBreak(s)
  BY <1>1 DEF NoDouble, EndsInBreak, StartsInBreak
<1> DEFINE bs == <<Break, Space>>
<1>6. bs \in Seq(P) /\ NoDouble(bs) /\ bs # <<>> /\ ~EndsInBreak(bs)
  <2>1. bs \in Seq(P) /\ Len(bs) = 2 /\ bs[2] = Space
    BY <1>1
  <2> HIDE DEF bs
  <2>2. NoDouble(bs)
    <3> SUFFICES ASSUME NEW i \in 1 .. 1 PROVE bs[i + 1] # Break
      BY <2>1 DEF NoDouble
    <3> QED
      BY <1>1, <2>1
  <2> QED
    BY <1>1, <2>1, <2>2 DEF EndsInBreak
<1> HIDE DEF P, b, s, bs
<1>7. ASSUME NEW x \in Seq(P), NoDouble(x), x # <<>>, ~EndsInBreak(x), ~(EndsInBreak(r) /\ StartsInBreak(x))
      PROVE  /\ (r \o x) \o k \in Seq(P) /\ NoDouble((r \o x) \o k)
             /\ (r \o x) \o k # <<>> /\ ~StartsInBreak((r \o x) \o k)
             /\ ~EndsInBreak(k) => ~EndsInBreak((r \o x) \o k)
  <2> DEFINE y == r \o x
             z == y \o k
  <2>1. y \in Seq(P) /\ NoDouble(y)
    BY <1>2, <1>7, NoDoubleConcat
  <2>2. ~EndsInBreak(y) /\ y # <<>> /\ ~StartsInBreak(y)
    BY <1>2, <1>7, ConcatEnds
  <2> HIDE DEF y
  <2>3. z \in Seq(P) /\ NoDouble(z)
    BY <1>2, <2>1, <2>2, NoDoubleConcat
  <2>4. z # <<>> /\ ~StartsInBreak(z)
    BY <1>2, <2>1, <2>2, ConcatEnds
  <2>5. (k = <<>> => z = y) /\ (k # <<>> => (EndsInBreak(z) <=> EndsInBreak(k)))
    BY <1>2, <2>1, ConcatEnds
  <2> HIDE DEF z
  <2>6. ~EndsInBreak(k) => ~EndsInBreak(z)
    BY <2>2, <2>5
  <2> QED
    BY <2>3, <2>4, <2>6 DEF y, z
<1> DEFINE z == HeaderStep(name, r, k)
<1>8. z \in Seq(P) /\ NoDouble(z) /\ z # <<>> /\ ~StartsInBreak(z) /\ (~EndsInBreak(k) => ~EndsInBreak(z))
  <2>1. CASE StartsNewLine(name, Count(LastLine(r)), k)
    <3>1. z = (r \o bs) \o k
      BY <2>1 DEF HeaderStep, bs
    <3>2. ~(EndsInBreak(r) /\ StartsInBreak(bs))
      BY <1>4, <2>1
    <3> HIDE DEF z
    <3> QED
      BY <1>6, <1>7, <3>1, <3>2
  <2>2. CASE ~StartsNewLine(name, Count(LastLine(r)), k)
    <3>1. z = (r \o s) \o k
      BY <2>2 DEF HeaderStep, s
    <3>2. ~(EndsInBreak(r) /\ StartsInBreak(s))
      BY <1>5
    <3> HIDE DEF z
    <3> QED
      BY <1>5, <1>7, <3>1, <3>2
  <2> QED
    BY <2>1, <2>2
<1> HIDE DEF z
<1>9. z \in Begun
  BY <1>8 DEF Begun, P
<1>10. k \in Neat => z \in Whole
  BY <1>8 DEF Neat, Whole, P
<1> QED
  BY <1>9, <1>10 DEF z

LEMMA FoldedWhole ==
  ASSUME NEW name \in Whole, NEW v \in Neat
  PROVE  Fold(name, v) \in Whole
<1> DEFINE A == Begun
           K == Steady
<1>1. PICK ts \in Seq(Steady), last \in Neat : Tokens(v) = Append(ts, last)
  BY NeatTokens
<1>2. name \in A /\ name \in Seq(HeaderPiece)
  BY DEF Whole, Neat, Begun
<1>3. \A x \in A, c \in K : HeaderStep(name, x, c) \in A
  BY <1>2, BegunStep
<1>4. ts \in Seq(K) /\ last \in K
  BY <1>1 DEF Neat, Steady
<1>5. \A x \in A : HeaderStep(name, x, last) \in Whole
  BY <1>1, <1>2, <1>4, BegunStep
<1> HIDE DEF A, K
<1>6. /\ \A t \in Seq(K) : HeaderFold(name, t, name) \in A
      /\ \A t \in Seq(K), c \in K :
           HeaderFold(name, Append(t, c), name) = HeaderStep(name, HeaderFold(name, t, name), c)
  <2>1. PICK b \in A : b = name
    BY <1>2
  <2>2. b \in A
    BY <2>1
  <2>3. HeaderSteps(name, A, K, b)
    BY <1>3, <2>2, HeaderFoldStep
  <2> QED
    BY <2>1, <2>3 DEF HeaderSteps
<1>7. Fold(name, v) = HeaderFold(name, Append(ts, last), name)
  <2>1. Fold(name, v) = HeaderFold(name, Tokens(v), name)
    BY FoldsAre
  <2> QED
    BY <1>1, <2>1
<1>8. HeaderFold(name, Append(ts, last), name) = HeaderStep(name, HeaderFold(name, ts, name), last)
  BY <1>4, <1>6
<1> QED
  BY <1>4, <1>5, <1>6, <1>7, <1>8

LEMMA LineWhole ==
  ASSUME NEW field \in Nat, NEW v \in Neat
  PROVE  Line(field, v) \in Whole
<1>1. <<field, COLON>> \in Seq(Nat) /\ <<field, COLON>> # <<>>
  BY DEF COLON
<1>2. Chars(<<field, COLON>>) \in Whole
  BY <1>1, CharsNeat
<1> QED
  BY <1>2, FoldedWhole DEF Line

\* Lines, one after another.
LEMMA JoinedOne ==
  \A l \in Whole : Joined(<<l>>) = l
<1> SUFFICES ASSUME NEW l \in Whole PROVE Joined(<<l>>) = l
  OBVIOUS
<1> DEFINE f == [i \in 1 .. Len(<<l>>) |-> IF i = 1 THEN <<l>>[i] ELSE <<Break>> \o <<l>>[i]]
<1>1. f = <<l>>
  <2>1. Len(<<l>>) = 1 /\ <<l>>[1] = l /\ \A i \in 1 .. 1 : i = 1
    OBVIOUS
  <2>2. f = [i \in 1 .. 1 |-> l]
    BY <2>1
  <2>3. <<l>> = [i \in 1 .. 1 |-> l]
    OBVIOUS
  <2> QED
    BY <2>2, <2>3
<1>2. l \in Seq(HeaderPiece)
  BY DEF Whole, Neat
<1> HIDE DEF f
<1>3. FlattenSeq(f) = l
  BY <1>1, <1>2, FlattenOne
<1> QED
  BY <1>3 DEF Joined, f

LEMMA JoinedAppend ==
  ASSUME NEW ls \in Seq(Whole), ls # <<>>, NEW l \in Whole
  PROVE  Joined(Append(ls, l)) = Joined(ls) \o (<<Break>> \o l)
<1> DEFINE SS == Seq(HeaderPiece)
           W == Whole
           sep(x) == <<Break>> \o x
           more == Append(ls, l)
           n == Len(ls)
           f == [i \in 1 .. n |-> IF i = 1 THEN ls[i] ELSE sep(ls[i])]
           g == [i \in 1 .. n + 1 |-> IF i = 1 THEN more[i] ELSE sep(more[i])]
<1>1. W \subseteq SS
  BY DEF Whole, Neat
<1>2. \A x \in W : sep(x) \in SS
  BY BreakWhole DEF Neat
<1> HIDE DEF sep, SS, W
<1>3. ls \in Seq(W) /\ l \in W
  BY DEF W
<1>4. /\ Len(more) = n + 1 /\ more[n + 1] = l /\ \A i \in 1 .. n : more[i] = ls[i]
      /\ n \in Nat
  BY <1>3, AppendFacts
<1>5. n # 0 /\ \A i \in 1 .. n : ls[i] \in W
  BY <1>3, EmptySeq
<1> HIDE DEF more
<1>6. f \in Seq(SS)
  <2>1. \A i \in 1 .. n : f[i] \in SS
    BY <1>1, <1>2, <1>5
  <2> QED
    BY <1>4, <2>1
<1>7. sep(l) \in SS
  BY <1>2, <1>3
<1>8. g = Append(f, sep(l))
  <2> DEFINE h == Append(f, sep(l))
  <2>1. h \in Seq(SS) /\ Len(h) = n + 1 /\ h[n + 1] = sep(l) /\ \A i \in 1 .. n : h[i] = f[i]
    <3>1. Len(f) = n
      BY <1>4
    <3> HIDE DEF f
    <3> QED
      BY <1>6, <1>7, <3>1, AppendFacts
  <2>2. n + 1 \in 1 .. n + 1 /\ n + 1 # 1
    BY <1>4, <1>5
  <2>3. g[n + 1] = sep(l)
    BY <1>4, <2>2
  <2>4. \A i \in 1 .. n : i \in 1 .. n + 1 /\ g[i] = f[i]
    BY <1>4
  <2>5. \A i \in 1 .. n + 1 : g[i] = h[i]
    <3> TAKE i \in 1 .. n + 1
    <3>1. i \in 1 .. n \/ i = n + 1
      BY <1>4
    <3> HIDE DEF g, f, h
    <3> QED
      BY <2>1, <2>3, <2>4, <3>1
  <2>6. g = [i \in 1 .. n + 1 |-> g[i]] /\ h = [i \in 1 .. n + 1 |-> h[i]]
    <3>1. h = [i \in 1 .. n + 1 |-> h[i]]
      <4> HIDE DEF h
      <4> QED
        BY <2>1
    <3> HIDE DEF h
    <3> QED
      BY <3>1
  <2> HIDE DEF g, h
  <2> QED
    BY <2>5, <2>6 DEF h
<1>9. Joined(ls) = FlattenSeq(f)
  BY DEF Joined, sep
<1>10. Joined(more) = FlattenSeq(g)
  BY <1>4 DEF Joined, sep
<1> HIDE DEF f, g
<1>11. FlattenSeq(Append(f, sep(l))) = FlattenSeq(f) \o sep(l)
  BY <1>6, <1>7, FlattenAppend DEF SS
<1> QED
  BY <1>8, <1>9, <1>10, <1>11 DEF more, sep

LEMMA JoinedWhole ==
  ASSUME NEW ls \in Seq(Whole), ls # <<>>
  PROVE  Joined(ls) \in Whole
<1> DEFINE W == Whole
           G == {s \in Seq(W) : s # <<>> => Joined(s) \in Whole}
<1>1. <<>> \in G
  OBVIOUS
<1>2. ASSUME NEW s \in Seq(W), NEW l \in W, s \in G PROVE Append(s, l) \in G
  <2>1. Append(s, l) \in Seq(W)
    BY AppendFacts
  <2>2. CASE s = <<>>
    <3>1. Append(s, l) = <<l>>
      BY <2>2
    <3>2. Joined(<<l>>) = l
      BY JoinedOne
    <3> QED
      BY <2>1, <3>1, <3>2
  <2>3. CASE s # <<>>
    <3>1. Joined(s) \in Whole
      BY <1>2, <2>3
    <3>2. <<Break>> \o l \in Neat
      BY BreakWhole
    <3>3. Joined(s) \o (<<Break>> \o l) \in Whole
      BY <3>1, <3>2, WholeConcat
    <3>4. Joined(Append(s, l)) = Joined(s) \o (<<Break>> \o l)
      BY <2>3, JoinedAppend
    <3> QED
      BY <2>1, <3>3, <3>4
  <2> QED
    BY <2>2, <2>3
<1>3. ls \in Seq(W)
  OBVIOUS
<1>4. ls \in G
  <2> HIDE DEF G, W
  <2> QED
    BY <1>1, <1>2, <1>3, ByAppending
<1> QED
  BY <1>4

\* The struct, with texts of a user's characters and of what init makes of them.
Letter == Character \cup {CR, LF, SP}
Mailbox == [named : BOOLEAN, name : Seq(Letter), email : Nat]
Struct ==
  [from : Mailbox, to : Seq(Mailbox), cc : Seq(Mailbox), bcc : Seq(Mailbox), replyTo : Seq(Mailbox),
   subject : Seq(Letter), body : Seq(Letter), html : Seq(Seq(Letter)),
   inReplyTo : BOOLEAN, references : Nat,
   userAgent : Seq(Seq(Letter)), extraHeaders : Seq(Seq(Letter)), boundary : Boundary]

LEMMA LetterFacts ==
  Letter \subseteq Nat /\ {CR, LF} \subseteq Letter /\ SP \in Letter /\ \A c \in Letter : Bytes(c) \in Nat
BY ComposerAssumption DEF Letter, CR, LF, SP

LEMMA SequenceTyped ==
  ASSUME NEW S, NEW s \in Seq(S)
  PROVE  Len(s) \in Nat /\ \A i \in 1 .. Len(s) : s[i] \in S
OBVIOUS

LEMMA MailboxesNeat ==
  \A list \in Seq(Mailbox) : FormatAddresses(list) \in Neat
<1> SUFFICES ASSUME NEW list \in Seq(Mailbox) PROVE FormatAddresses(list) \in Neat
  OBVIOUS
<1>1. Letter \subseteq Nat /\ \A c \in Letter : Bytes(c) \in Nat
  BY LetterFacts
<1>2. Len(list) \in Nat /\ \A i \in 1 .. Len(list) : list[i] \in Mailbox
  BY SequenceTyped
<1>3. \A i \in 1 .. Len(list) : list[i].name \in Seq(Letter) /\ list[i].email \in Nat
  BY <1>2 DEF Mailbox
<1> QED
  BY <1>1, <1>2, <1>3, AddressesNeat

LEMMA TextNeat ==
  \A t \in Seq(Letter) : EncodeIfNeeded(t) \in Neat
<1>1. Letter \subseteq Nat /\ \A c \in Letter : Bytes(c) \in Nat
  BY LetterFacts
<1> QED
  BY <1>1, EncodedNeat

LEMMA HeaderLinesWhole ==
  ASSUME NEW m \in Struct
  PROVE  HeaderLines(m) \in Seq(Whole) /\ HeaderLines(m) # <<>>
<1> DEFINE W == Whole
           o == <<>>
           date == Line(DATE, Chars(<<VALUE>>))
           from == Line(FROM, FormatAddresses(<<m.from>>))
           first == <<date, from>>
           second == <<Line(SUBJECT, EncodeIfNeeded(m.subject)), Line(MESSAGEID, Chars(<<VALUE>>))>>
           x1 == LineIf(m.to # <<>>, TO, FormatAddresses(m.to))
           x2 == LineIf(m.cc # <<>>, CC, FormatAddresses(m.cc))
           x3 == LineIf(m.replyTo # <<>>, REPLYTO, FormatAddresses(m.replyTo))
           x4 == LineIf(m.inReplyTo, INREPLYTO, Chars(<<Id(1)>>))
           x5 == LineIf(m.references > 0, REFERENCES, JoinedIds(m.references))
           x6 == [i \in 1 .. Len(m.userAgent) |-> Line(USERAGENT, EncodeIfNeeded(m.userAgent[i]))]
           x7 == [i \in 1 .. Len(m.extraHeaders) |-> Line(EXTRA, EncodeIfNeeded(m.extraHeaders[i]))]
<1>1. /\ m.from \in Mailbox /\ m.to \in Seq(Mailbox) /\ m.cc \in Seq(Mailbox) /\ m.replyTo \in Seq(Mailbox)
      /\ m.subject \in Seq(Letter) /\ m.references \in Nat
      /\ m.userAgent \in Seq(Seq(Letter)) /\ m.extraHeaders \in Seq(Seq(Letter))
  BY DEF Struct
<1>2. \A field \in Nat, v \in Neat : Line(field, v) \in W
  BY LineWhole
<1>3. \A condition : \A field \in Nat, v \in Neat : LineIf(condition, field, v) \in Seq(W)
  BY <1>2 DEF LineIf
<1> HIDE DEF W
<1>4. Chars(<<VALUE>>) \in Neat /\ Chars(<<Id(1)>>) \in Neat
  <2>1. <<VALUE>> \in Seq(Nat) /\ <<Id(1)>> \in Seq(Nat)
    BY DEF VALUE, Id
  <2> QED
    BY <2>1, CharsNeat
<1>5. FormatAddresses(<<m.from>>) \in Neat
  <2>1. <<m.from>> \in Seq(Mailbox)
    BY <1>1
  <2> QED
    BY <2>1, MailboxesNeat
<1>6. date \in W /\ from \in W
  BY <1>2, <1>4, <1>5 DEF DATE, FROM
<1>7. first \in Seq(W) /\ first # <<>>
  BY <1>6
<1>8. second \in Seq(W)
  <2>1. Line(SUBJECT, EncodeIfNeeded(m.subject)) \in W
    <3>1. EncodeIfNeeded(m.subject) \in Neat /\ SUBJECT \in Nat
      BY <1>1, TextNeat DEF SUBJECT
    <3> QED
      BY <1>2, <3>1
  <2>2. Line(MESSAGEID, Chars(<<VALUE>>)) \in W
    BY <1>2, <1>4 DEF MESSAGEID
  <2> QED
    BY <2>1, <2>2
<1>9. x1 \in Seq(W) /\ x2 \in Seq(W) /\ x3 \in Seq(W)
  <2>1. FormatAddresses(m.to) \in Neat /\ FormatAddresses(m.cc) \in Neat /\ FormatAddresses(m.replyTo) \in Neat
    BY <1>1, MailboxesNeat
  <2>2. TO \in Nat /\ CC \in Nat /\ REPLYTO \in Nat
    BY DEF TO, CC, REPLYTO
  <2> QED
    BY <1>3, <2>1, <2>2
<1>10. x4 \in Seq(W) /\ x5 \in Seq(W)
  <2>1. JoinedIds(m.references) \in Neat
    BY <1>1, IdsNeat
  <2>2. INREPLYTO \in Nat /\ REFERENCES \in Nat
    BY DEF INREPLYTO, REFERENCES
  <2> QED
    BY <1>3, <1>4, <2>1, <2>2
<1>11. ASSUME NEW ts \in Seq(Seq(Letter)), NEW field \in Nat
       PROVE  [i \in 1 .. Len(ts) |-> Line(field, EncodeIfNeeded(ts[i]))] \in Seq(W)
  <2> DEFINE at(i) == Line(field, EncodeIfNeeded(ts[i]))
             n == Len(ts)
  <2>1. n \in Nat /\ \A i \in 1 .. n : ts[i] \in Seq(Letter)
    OBVIOUS
  <2>2. \A i \in 1 .. n : at(i) \in W
    BY <1>2, <2>1, TextNeat
  <2> HIDE DEF at, n
  <2>3. [i \in 1 .. n |-> at(i)] \in Seq(W)
    BY <2>1, <2>2
  <2> QED
    BY <2>3 DEF at, n
<1>12. x6 \in Seq(W) /\ x7 \in Seq(W)
  <2>1. USERAGENT \in Nat /\ EXTRA \in Nat
    BY DEF USERAGENT, EXTRA
  <2> QED
    BY <1>1, <1>11, <2>1
<1>13. HeaderLines(m) = ((((((first \o ((x1 \o x2) \o x3)) \o second) \o x4) \o x5) \o x6) \o x7)
  BY DEF HeaderLines, AddressLines
<1> HIDE DEF first, second, x1, x2, x3, x4, x5, x6, x7
<1>14. \A a, b \in Seq(W) : a \o b \in Seq(W) /\ (a # <<>> => a \o b # <<>>)
  <2> TAKE a, b \in Seq(W)
  <2>1. a \o b \in Seq(W) /\ Len(a \o b) = Len(a) + Len(b) /\ Len(a) \in Nat /\ Len(b) \in Nat
    BY ConcatProperties
  <2>2. a # <<>> => Len(a) # 0
    BY EmptySeq
  <2>3. a # <<>> => Len(a \o b) # 0
    BY <2>1, <2>2
  <2>4. a \o b = <<>> => Len(a \o b) = 0
    BY EmptySeq
  <2> QED
    BY <2>1, <2>3, <2>4
<1> DEFINE y1 == first \o ((x1 \o x2) \o x3)
           y2 == y1 \o second
           y3 == y2 \o x4
           y4 == y3 \o x5
           y5 == y4 \o x6
<1>15. y1 \in Seq(W) /\ y1 # <<>>
  <2>1. x1 \o x2 \in Seq(W)
    BY <1>9, <1>14
  <2>2. (x1 \o x2) \o x3 \in Seq(W)
    BY <1>9, <1>14, <2>1
  <2> QED
    BY <1>7, <1>14, <2>2
<1> HIDE DEF y1
<1>16. y2 \in Seq(W) /\ y2 # <<>>
  BY <1>8, <1>14, <1>15
<1> HIDE DEF y2
<1>17. y3 \in Seq(W) /\ y3 # <<>>
  BY <1>10, <1>14, <1>16
<1> HIDE DEF y3
<1>18. y4 \in Seq(W) /\ y4 # <<>>
  BY <1>10, <1>14, <1>17
<1> HIDE DEF y4
<1>19. y5 \in Seq(W) /\ y5 # <<>>
  BY <1>12, <1>14, <1>18
<1> HIDE DEF y5
<1>20. y5 \o x7 \in Seq(W) /\ y5 \o x7 # <<>>
  BY <1>12, <1>14, <1>19
<1>21. HeaderLines(m) = y5 \o x7
  BY <1>13 DEF y1, y2, y3, y4, y5
<1> QED
  BY <1>20, <1>21 DEF W

----------------------------------------------------------------------------
(***************************************************************************)
(* The message.                                                            *)
(***************************************************************************)

\* A message: lines, a last one without breaks, an empty line and a text.
Composed(a, l, body) == ((a \o (<<Break>> \o l)) \o <<Break, Break>>) \o body

LaidOut(s, a, l, body, x, y) ==
  /\ Len(s) = x + y + 3 + Len(body) /\ Len(body) \in Nat
  /\ \A i \in 1 .. x : s[i] = a[i]
  /\ s[x + 1] = Break
  /\ \A i \in 1 .. y : s[x + 1 + i] = l[i]
  /\ s[x + y + 2] = Break /\ s[x + y + 3] = Break
  /\ SubSeq(s, x + 2, x + 1 + y) = l
  /\ From(s, x + y + 4) = body

\* Where the last line begins, and where the header ends.
LEMMA ComposedIs ==
  ASSUME NEW P, Break \in P, NEW a \in Seq(P), NEW l \in Seq(P), NEW body \in Seq(P),
         NEW x \in Nat, x = Len(a), NEW y \in Nat, y = Len(l), NEW s, s = Composed(a, l, body)
  PROVE  LaidOut(s, a, l, body, x, y)
<1> DEFINE z == Len(body)
           b == <<Break>>
           bb == <<Break, Break>>
           c == b \o l
           d == a \o c
           e == d \o bb
<1>1. b \in Seq(P) /\ bb \in Seq(P) /\ Len(b) = 1 /\ Len(bb) = 2 /\ b[1] = Break /\ bb[1] = Break /\ bb[2] = Break
  OBVIOUS
<1>2. s = e \o body
  BY DEF Composed
<1> HIDE DEF b, bb
<1>3. /\ c \in Seq(P) /\ Len(c) = Len(b) + Len(l)
      /\ \A i \in 1 .. Len(b) : c[i] = b[i]
      /\ \A i \in 1 .. Len(l) : c[Len(b) + i] = l[i]
  <2>1. b \in Seq(P) /\ l \in Seq(P)
    BY <1>1
  <2> QED
    BY <2>1, ConcatElements
<1> HIDE DEF c
<1>4. /\ d \in Seq(P) /\ Len(d) = Len(a) + Len(c)
      /\ \A i \in 1 .. Len(a) : d[i] = a[i]
      /\ \A i \in 1 .. Len(c) : d[Len(a) + i] = c[i]
  <2>1. a \in Seq(P) /\ c \in Seq(P)
    BY <1>3
  <2> QED
    BY <2>1, ConcatElements
<1> HIDE DEF d
<1>5. /\ e \in Seq(P) /\ Len(e) = Len(d) + Len(bb)
      /\ \A i \in 1 .. Len(d) : e[i] = d[i]
      /\ \A i \in 1 .. Len(bb) : e[Len(d) + i] = bb[i]
  <2>1. d \in Seq(P) /\ bb \in Seq(P)
    BY <1>1, <1>4
  <2> QED
    BY <2>1, ConcatElements
<1> HIDE DEF e
<1>6. /\ s \in Seq(P) /\ Len(s) = Len(e) + Len(body) /\ Len(body) \in Nat
      /\ \A i \in 1 .. Len(e) : s[i] = e[i]
  <2>1. e \in Seq(P) /\ body \in Seq(P)
    BY <1>5
  <2> QED
    BY <1>2, <2>1, ConcatElements
<1>7. Len(c) = y + 1 /\ Len(d) = x + y + 1 /\ Len(e) = x + y + 3 /\ Len(s) = x + y + 3 + z
  BY <1>1, <1>3, <1>4, <1>5, <1>6
<1>8. \A i \in 1 .. x : s[i] = a[i]
  <2> TAKE i \in 1 .. x
  <2>1. i \in 1 .. Len(a) /\ i \in 1 .. Len(d) /\ i \in 1 .. Len(e)
    BY <1>7
  <2> QED
    BY <1>4, <1>5, <1>6, <2>1
<1>9. ASSUME NEW j \in 1 .. y + 1 PROVE s[x + j] = c[j]
  <2>1. PICK i : i = x + j
    OBVIOUS
  <2>2. j \in 1 .. Len(c) /\ i \in 1 .. Len(d) /\ i \in 1 .. Len(e)
    BY <1>7, <2>1
  <2>3. d[i] = c[j]
    BY <1>4, <2>1, <2>2
  <2> QED
    BY <1>5, <1>6, <2>1, <2>2, <2>3
<1>10. s[x + 1] = Break
  <2>1. 1 \in 1 .. y + 1 /\ 1 \in 1 .. Len(b)
    BY <1>1
  <2>2. c[1] = Break
    BY <1>1, <1>3, <2>1
  <2> QED
    BY <1>9, <2>1, <2>2
<1>11. \A i \in 1 .. y : s[x + 1 + i] = l[i]
  <2> TAKE i \in 1 .. y
  <2>1. PICK j : j = 1 + i
    OBVIOUS
  <2>2. j \in 1 .. y + 1 /\ x + 1 + i = x + j /\ i \in 1 .. Len(l)
    BY <2>1
  <2>3. c[j] = l[i]
    BY <1>1, <1>3, <2>1, <2>2
  <2> QED
    BY <1>9, <2>2, <2>3
<1>12. s[x + y + 2] = Break /\ s[x + y + 3] = Break
  <2>1. 1 \in 1 .. Len(bb) /\ 2 \in 1 .. Len(bb)
    BY <1>1
  <2>2. e[Len(d) + 1] = Break /\ e[Len(d) + 2] = Break
    BY <1>1, <1>5, <2>1
  <2>3. Len(d) + 1 = x + y + 2 /\ Len(d) + 2 = x + y + 3 /\ x + y + 2 \in 1 .. Len(e) /\ x + y + 3 \in 1 .. Len(e)
    BY <1>7
  <2> QED
    BY <1>6, <2>2, <2>3
<1>13. SubSeq(s, x + 2, x + 1 + y) = l
  <2> DEFINE t == SubSeq(s, x + 2, x + 1 + y)
  <2>1. x + 2 \in Nat \ {0} /\ x + 1 + y \in Nat /\ x + 2 <= x + 1 + y + 1 /\ x + 1 + y <= Len(s)
    BY <1>6, <1>7
  <2>2. PICK u \in Nat \ {0} : u = x + 2
    BY <2>1
  <2>3. PICK w \in Nat : w = x + 1 + y
    BY <2>1
  <2>4. t \in Seq(P) /\ Len(t) = w - u + 1 /\ \A i \in 1 .. w - u + 1 : t[i] = s[u + i - 1]
    <3>1. u <= w + 1 /\ w <= Len(s)
      BY <2>1, <2>2, <2>3
    <3> QED
      BY <1>6, <2>2, <2>3, <3>1, SliceFacts
  <2>5. w - u + 1 = y
    BY <2>2, <2>3
  <2> HIDE DEF t
  <2>6. \A i \in 1 .. y : t[i] = l[i]
    <3> TAKE i \in 1 .. y
    <3>1. u + i - 1 = x + 1 + i
      BY <2>2
    <3> QED
      BY <1>11, <2>4, <2>5, <3>1
  <2>7. t = l
    BY <2>4, <2>5, <2>6, SeqEqual
  <2> QED
    BY <2>7 DEF t
<1>14. From(s, x + y + 4) = body
  <2>1. From(e \o body, Len(e) + 1) = body
    BY <1>5, FromSecond
  <2>2. Len(e) + 1 = x + y + 4
    BY <1>7
  <2> QED
    BY <1>2, <2>1, <2>2
<1> QED
  BY <1>6, <1>7, <1>8, <1>10, <1>11, <1>12, <1>13, <1>14 DEF LaidOut

Framed(s, a, l, body, x, y) ==
  /\ a \in Whole /\ l \in Whole /\ (\A i \in 1 .. Len(l) : l[i] # Break) /\ body \in Seq(HeaderPiece)
  /\ x \in Nat /\ x = Len(a) /\ y \in Nat /\ y = Len(l) /\ s = Composed(a, l, body)

LEMMA LaidOutSo ==
  \A s, a, l, body, x, y : Framed(s, a, l, body, x, y) => LaidOut(s, a, l, body, x, y)
<1> SUFFICES ASSUME NEW s, NEW a, NEW l, NEW body, NEW x, NEW y, Framed(s, a, l, body, x, y)
             PROVE  LaidOut(s, a, l, body, x, y)
  OBVIOUS
<1> DEFINE P == HeaderPiece
<1>1. a \in Seq(P) /\ l \in Seq(P) /\ Break \in P /\ body \in Seq(P)
  BY PieceFacts DEF Framed, Whole, Neat, HeaderPiece
<1>2. x \in Nat /\ x = Len(a) /\ y \in Nat /\ y = Len(l) /\ s = Composed(a, l, body)
  BY DEF Framed
<1> HIDE DEF P
<1> QED
  BY <1>1, <1>2, ComposedIs

\* The first empty line is the one that ends the header.
LEMMA HeaderEnds ==
  \A s, a, l, body, x, y : Framed(s, a, l, body, x, y) => HeaderEnd(s) = x + y + 2
<1> SUFFICES ASSUME NEW s, NEW a, NEW l, NEW body, NEW x, NEW y, Framed(s, a, l, body, x, y)
             PROVE  HeaderEnd(s) = x + y + 2
  OBVIOUS
<1> DEFINE P == HeaderPiece
           D == {i \in 1 .. Len(s) - 1 : s[i] = Break /\ s[i + 1] = Break}
           n == x + y + 2
<1>1. a \in Seq(P) /\ l \in Seq(P) /\ x \in Nat /\ y \in Nat
  BY DEF Framed, Whole, Neat
<1>12. x = Len(a) /\ y = Len(l) /\ \A i \in 1 .. y : l[i] # Break
  BY DEF Framed
<1> HIDE DEF P
<1>2. /\ Len(s) = x + y + 3 + Len(body) /\ Len(body) \in Nat
      /\ \A i \in 1 .. x : s[i] = a[i]
      /\ \A i \in 1 .. y : s[x + 1 + i] = l[i]
      /\ s[x + y + 2] = Break /\ s[x + y + 3] = Break
  BY LaidOutSo DEF LaidOut
<1>3. NoDouble(a) /\ a # <<>> /\ a[x] # Break /\ l # <<>>
  BY DEF Framed, Whole, Neat, EndsInBreak
<1>4. x \in 1 .. x /\ y >= 1
  BY <1>1, <1>3, <1>12, EmptySeq
<1>5. n \in D
  <2>1. n \in 1 .. Len(s) - 1 /\ n + 1 = x + y + 3
    BY <1>1, <1>2
  <2> QED
    BY <1>2, <2>1
<1>6. ASSUME NEW i \in D, i < n PROVE FALSE
  <2>1. i \in Nat \ {0} /\ i < x + y + 2 /\ s[i] = Break /\ s[i + 1] = Break
    BY <1>6
  <2>2. CASE i < x
    <3>1. i \in 1 .. Len(a) - 1 /\ i \in 1 .. x /\ i + 1 \in 1 .. x
      BY <1>1, <1>12, <2>1, <2>2
    <3>2. a[i] = Break /\ a[i + 1] = Break
      BY <1>2, <2>1, <3>1
    <3> QED
      BY <1>3, <3>1, <3>2 DEF NoDouble
  <2>3. CASE i = x
    BY <1>2, <1>3, <1>4, <2>1, <2>3
  <2>4. CASE i = x + 1
    <3>1. 1 \in 1 .. y /\ i + 1 = x + 1 + 1
      BY <1>1, <1>4, <2>4
    <3> QED
      BY <1>2, <1>12, <2>1, <3>1
  <2>5. CASE i > x + 1
    <3>1. PICK j : j = i - x - 1
      OBVIOUS
    <3>2. j \in 1 .. y /\ i = x + 1 + j
      BY <1>1, <2>1, <2>5, <3>1
    <3> QED
      BY <1>2, <1>12, <2>1, <3>2
  <2> QED
    BY <1>1, <2>1, <2>2, <2>3, <2>4, <2>5
<1>7. D \subseteq Nat /\ D # {}
  <2>1. D \subseteq Nat
    OBVIOUS
  <2> HIDE DEF D
  <2> QED
    BY <1>5, <2>1
<1>8. Min(D) \in D /\ \A k \in D : Min(D) <= k
  <2> HIDE DEF D
  <2> QED
    BY <1>7, MinIsLeast
<1>9. Min(D) \in Nat /\ n \in Nat /\ Min(D) <= n /\ ~(Min(D) < n)
  <2> HIDE DEF D, n
  <2>1. Min(D) \in Nat /\ n \in Nat
    BY <1>5, <1>7, <1>8
  <2> QED
    BY <1>5, <1>6, <1>8, <2>1
<1>10. HeaderEnd(s) = Min(D)
  BY DEF HeaderEnd
<1> HIDE DEF D, n
<1>11. Min(D) = n
  BY <1>9
<1> QED
  BY <1>10, <1>11 DEF n

\* The last field is the one of the last line.
LEMMA LastFieldRead ==
  \A s, a, l, body, x, y : Framed(s, a, l, body, x, y) /\ l[1] # Space =>
    Last(HeaderRead(s)).value = SubSeq(s, x + 5, x + 1 + y)
<1> SUFFICES ASSUME NEW s, NEW a, NEW l, NEW body, NEW x, NEW y, Framed(s, a, l, body, x, y), l[1] # Space
             PROVE  Last(HeaderRead(s)).value = SubSeq(s, x + 5, x + 1 + y)
  OBVIOUS
<1> DEFINE P == HeaderPiece
           end == HeaderEnd(s)
           q == x + 2
           n == x + y + 1
           places == {i \in 1 .. end - 1 : i = 1 \/ (s[i - 1] = Break /\ s[i] # Space)}
           starts == Ordered(end - 1, places)
           next == Append(Tail(starts), end + 1)
           k == Len(starts)
<1>1. end = x + y + 2
  BY HeaderEnds
<1>2. l \in Seq(P) /\ l # <<>> /\ x \in Nat /\ y \in Nat
  BY DEF Framed, Whole, Neat
<1>16. y = Len(l) /\ \A i \in 1 .. y : l[i] # Break
  BY DEF Framed
<1> HIDE DEF P
<1>3. s[x + 1] = Break /\ \A i \in 1 .. y : s[x + 1 + i] = l[i]
  BY LaidOutSo DEF LaidOut
<1>4. y >= 1
  BY <1>2, <1>16, EmptySeq
<1>5. q \in 1 .. n /\ n \in Nat /\ end - 1 = n /\ end \in Nat
  <2> HIDE DEF end
  <2> QED
    BY <1>1, <1>2, <1>4
<1>6. q \in places
  <2>1. q - 1 = x + 1 /\ q = x + 1 + 1 /\ 1 \in 1 .. y
    BY <1>2, <1>4
  <2>2. s[q] = l[1] /\ s[q - 1] = Break
    BY <1>3, <2>1
  <2> QED
    BY <1>5, <2>2
<1>7. ASSUME NEW i \in places PROVE i <= q
  <2>1. SUFFICES ASSUME i > q PROVE FALSE
    BY <1>5
  <2>2. PICK j : j = i - q
    OBVIOUS
  <2>3. i \in 1 .. n /\ (i = 1 \/ s[i - 1] = Break)
    BY <1>5
  <2>4. i \in 1 .. n
    BY <2>3
  <2>5. j \in 1 .. y /\ i - 1 = x + 1 + j /\ i # 1
    <3> HIDE DEF places, end
    <3> QED
      BY <1>2, <2>1, <2>2, <2>4
  <2>6. s[x + 1 + j] = Break /\ s[x + 1 + j] = l[j] /\ l[j] # Break
    BY <1>3, <1>16, <2>3, <2>5
  <2> QED
    BY <2>6
<1> HIDE DEF places, end, n, q
<1>8. starts \in Seq(Nat) /\ starts # <<>> /\ starts[k] = q
  <2>1. Ordered(n, places) \in Seq(Nat) /\ Ordered(n, places) # <<>> /\ Ordered(n, places)[Len(Ordered(n, places))] = q
    BY <1>5, <1>6, <1>7, OrderedLast
  <2> QED
    BY <1>5, <2>1
<1>9. HeaderRead(s) = [i \in 1 .. k |-> [field |-> s[starts[i]].text[1],
                                          value |-> SubSeq(s, starts[i] + 3, next[i] - 2)]]
  BY DEF HeaderRead, places, end
<1>10. end \in Nat
  BY <1>5
<1> HIDE DEF starts
<1>11. k \in 1 .. k
  BY <1>8, EmptySeq
<1>12. next[k] = end + 1
  <2>1. Tail(starts) \in Seq(Nat) /\ Len(Tail(starts)) = k - 1
    BY <1>8
  <2> DEFINE t == Tail(starts)
  <2>2. t \in Seq(Nat) /\ Len(t) + 1 = k /\ end + 1 \in Nat
    BY <1>10, <1>11, <2>1
  <2> HIDE DEF t
  <2>3. Append(t, end + 1)[Len(t) + 1] = end + 1
    BY <2>2, AppendFacts
  <2> QED
    BY <2>2, <2>3 DEF t
<1> HIDE DEF next, k
<1>13. Last(HeaderRead(s)) = [field |-> s[starts[k]].text[1], value |-> SubSeq(s, starts[k] + 3, next[k] - 2)]
  <2>0. k \in Nat
    BY <1>8 DEF k
  <2>1. Len(HeaderRead(s)) = k
    BY <1>9, <2>0
  <2>2. Last(HeaderRead(s)) = HeaderRead(s)[k]
    BY <2>1 DEF Last
  <2> QED
    BY <1>9, <1>11, <2>2
<1>17. starts[k] = q
  BY <1>8 DEF k
<1>14. Last(HeaderRead(s)).value = SubSeq(s, x + 5, x + 1 + y)
  <2> DEFINE first == s[starts[k]].text[1]
             second == SubSeq(s, starts[k] + 3, next[k] - 2)
  <2>1. Last(HeaderRead(s)) = [field |-> first, value |-> second]
    BY <1>13
  <2>2. second = SubSeq(s, x + 5, x + 1 + y)
    <3>1. PICK u : u = starts[k] + 3
      OBVIOUS
    <3>2. PICK v : v = next[k] - 2
      OBVIOUS
    <3>3. second = SubSeq(s, u, v)
      BY <3>1, <3>2
    <3> HIDE DEF second
    <3>4. u = x + 5
      BY <1>2, <1>17, <3>1 DEF q
    <3>5. v = x + 1 + y
      BY <1>1, <1>2, <1>12, <3>2
    <3>6. second = SubSeq(s, x + 5, x + 1 + y)
      BY <3>3, <3>4, <3>5
    <3> QED
      BY <3>6
  <2> HIDE DEF first, second
  <2>3. Last(HeaderRead(s)).value = second
    BY <2>1
  <2> QED
    BY <2>2, <2>3
<1> QED
  BY <1>14

\* A plain value reads as it is.
LEMMA PlainRead ==
  ASSUME NEW t \in Seq(Nat)
  PROVE  ReadValue(Chars(t)) = t
<1> DEFINE h == Chars(t)
           n == Len(t)
           P == HeaderPiece
           f == [i \in 1 .. n |-> IF h[i] = Break THEN <<>> ELSE <<h[i]>>]
           g == [i \in 1 .. n |->
                   IF /\ h[i] = Space /\ i > 1 /\ i < n
                      /\ h[i - 1].kind = "word" /\ h[i + 1].kind = "word"
                   THEN <<>> ELSE h[i].text]
<1>1. /\ h \in Seq(P) /\ Len(h) = n /\ n \in Nat
      /\ \A i \in 1 .. n : h[i] = Char(t[i]) /\ h[i] # Break
  BY CharsAre
<1>2. \A c : Char(c).kind = "char" /\ Char(c).text = <<c>>
  BY DEF Char
<1> HIDE DEF h, P
<1>3. \A i \in 1 .. n : f[i] = <<h[i]>>
  BY <1>1
<1>4. FlattenSeq(f) = h
  <2>1. f \in Seq(Seq(P)) /\ Len(f) = n
    <3>1. \A i \in 1 .. n : f[i] \in Seq(P)
      BY <1>1, <1>3
    <3> DEFINE SS == Seq(P)
    <3> HIDE DEF SS
    <3>2. \A i \in 1 .. n : f[i] \in SS
      BY <3>1 DEF SS
    <3>3. f \in Seq(SS) /\ Len(f) = n
      BY <1>1, <3>2
    <3> QED
      BY <3>3 DEF SS
  <2> HIDE DEF f
  <2>2. FlattenSeq(Take(f, n)) = Take(h, n)
    BY <1>1, <1>3, <2>1, FlattenSingles, SMTT(30)
  <2>3. Take(f, n) = f /\ Take(h, n) = h
    BY <1>1, <2>1, TakeEnds
  <2> QED
    BY <2>2, <2>3
<1>5. \A i \in 1 .. n : g[i] = <<t[i]>>
  <2> TAKE i \in 1 .. n
  <2>1. h[i].text = <<t[i]>>
    BY <1>1, <1>2
  <2>2. ASSUME i > 1, i < n PROVE h[i - 1].kind # "word"
    <3>1. PICK j : j = i - 1
      OBVIOUS
    <3>2. j \in 1 .. n
      BY <1>1, <2>2, <3>1
    <3>3. h[j].kind = "char"
      BY <1>1, <1>2, <3>2
    <3> QED
      BY <3>1, <3>3
  <2> QED
    BY <2>1, <2>2
<1>6. FlattenSeq(g) = t
  <2> DEFINE N == Nat
             SS == Seq(N)
  <2>0. t \in Seq(N) /\ \A i \in 1 .. n : t[i] \in N
    OBVIOUS
  <2> HIDE DEF N
  <2>1. \A i \in 1 .. n : g[i] \in SS
    <3>1. \A i \in 1 .. n : <<t[i]>> \in SS
      BY <2>0
    <3> HIDE DEF g, SS
    <3> QED
      BY <1>5, <3>1
  <2>2. g \in Seq(SS) /\ Len(g) = n
    <3> HIDE DEF SS
    <3> QED
      BY <1>1, <2>1
  <2> HIDE DEF g
  <2>3. FlattenSeq(Take(g, n)) = Take(t, n)
    BY <1>1, <1>5, <2>0, <2>2, FlattenSingles, SMTT(30)
  <2>4. Take(g, n) = g /\ Take(t, n) = t
    <3> HIDE DEF SS
    <3> QED
      BY <2>0, <2>2, TakeEnds
  <2> QED
    BY <2>3, <2>4
<1>7. ReadValue(h) = FlattenSeq(g)
  <2>1. FlattenSeq([i \in 1 .. Len(h) |-> IF h[i] = Break THEN <<>> ELSE <<h[i]>>]) = h
    BY <1>1, <1>4
  <2>2. ReadValue(h) = FlattenSeq([i \in 1 .. Len(h) |->
                   IF /\ h[i] = Space /\ i > 1 /\ i < Len(h)
                      /\ h[i - 1].kind = "word" /\ h[i + 1].kind = "word"
                   THEN <<>> ELSE h[i].text])
    BY <2>1 DEF ReadValue
  <2> QED
    BY <1>1, <2>2
<1> QED
  BY <1>6, <1>7 DEF h

\* The body of a message is the text it was made of.
LEMMA BodyIsRead ==
  ASSUME NEW t \in Seq(Nat), NEW s, NEW a, NEW l, NEW x, NEW y, Framed(s, a, l, Chars(t), x, y)
  PROVE  BodyRead(s) = t
<1> DEFINE h == Chars(t)
           n == Len(t)
<1>1. x \in Nat /\ y \in Nat
  BY DEF Framed
<1>2. /\ Len(h) = n /\ n \in Nat
      /\ \A i \in 1 .. n : h[i] = Char(t[i])
  BY CharsAre
<1>5. HeaderEnd(s) = x + y + 2
  BY HeaderEnds
<1>6. From(s, x + y + 4) = h
  BY LaidOutSo DEF LaidOut
<1> HIDE DEF h
<1>7. HeaderEnd(s) + 2 = x + y + 4
  BY <1>1, <1>5
<1>8. BodyRead(s) = [i \in 1 .. n |-> h[i].text[1]]
  BY <1>2, <1>6, <1>7 DEF BodyRead
<1>9. \A i \in 1 .. n : h[i].text[1] = t[i]
  <2>1. \A c : Char(c).text = <<c>>
    BY DEF Char
  <2>2. \A i \in 1 .. n : h[i].text = <<t[i]>>
    BY <1>2, <2>1
  <2> QED
    BY <2>2
<1>10. t = [i \in 1 .. n |-> t[i]]
  OBVIOUS
<1> QED
  BY <1>8, <1>9, <1>10

\* A last field that is not folded, and a body, are read as they are.
Ended(ls, l, t) == (Joined(Append(ls, l)) \o <<Break, Break>>) \o Chars(t)
Shows(s, v, t) == ReadValue(Last(HeaderRead(s)).value) = v /\ BodyRead(s) = t

LEMMA MessageReads ==
  ASSUME NEW ls \in Seq(Whole), ls # <<>>, NEW field \in Nat, field # SP,
         NEW v \in Seq(Nat), NEW t \in Seq(Nat), NEW s, s = Ended(ls, Plainly(field, v), t)
  PROVE  Shows(s, v, t)
<1> DEFINE p == <<field, COLON, SP>>
           w == p \o v
           l == Plainly(field, v)
           a == Joined(ls)
           x == Len(a)
           y == Len(l)
           n == Len(v)
<1>1. p \in Seq(Nat) /\ Len(p) = 3 /\ p[1] = field
  BY DEF COLON, SP
<1>2. l = Chars(w)
  BY DEF Plainly
<1> HIDE DEF p
<1>3. /\ w \in Seq(Nat) /\ n \in Nat /\ Len(w) = Len(p) + n
      /\ \A i \in 1 .. Len(p) : w[i] = p[i]
      /\ \A j \in 1 .. n : w[Len(p) + j] = v[j]
  <2>1. p \in Seq(Nat) /\ v \in Seq(Nat)
    BY <1>1
  <2> DEFINE N == Nat
  <2>2. p \in Seq(N) /\ v \in Seq(N)
    BY <2>1
  <2> HIDE DEF N
  <2>3. /\ w \in Seq(N) /\ n \in Nat /\ Len(w) = Len(p) + n
        /\ \A i \in 1 .. Len(p) : w[i] = p[i]
        /\ \A j \in 1 .. n : w[Len(p) + j] = v[j]
    BY <2>2, ConcatElements
  <2> QED
    BY <2>3 DEF N
<1> HIDE DEF w
<1>4. w # <<>> /\ Len(w) = n + 3 /\ w[1] = field /\ \A j \in 1 .. n : w[3 + j] = v[j]
  <2>1. 1 \in 1 .. Len(p) /\ Len(w) = n + 3 /\ n + 3 # 0
    BY <1>1, <1>3
  <2> QED
    BY <1>1, <1>3, <2>1, EmptySeq
<1>5. l \in Whole /\ Len(l) = Len(w) /\ \A i \in 1 .. Len(w) : l[i] = Char(w[i]) /\ l[i] # Break
  BY <1>2, <1>3, <1>4, CharsNeat, CharsAre
<1> HIDE DEF l
<1>6. l[1] # Space
  <2>1. 1 \in 1 .. Len(w)
    BY <1>3, <1>4
  <2>2. l[1] = Char(field)
    BY <1>4, <1>5, <2>1
  <2>3. Char(field) = Space <=> field = SP
    BY PieceFacts
  <2> QED
    BY <2>2, <2>3
<1>7. a \in Whole /\ Joined(Append(ls, l)) = a \o (<<Break>> \o l)
  BY <1>5, JoinedWhole, JoinedAppend
<1>8. s = Composed(a, l, Chars(t))
  BY <1>7 DEF Composed, Ended, l
<1>9. Chars(t) \in Seq(HeaderPiece)
  BY CharsAre
<1> HIDE DEF a
<1>10. x \in Nat /\ y \in Nat /\ y = n + 3
  <2>1. a \in Seq(HeaderPiece)
    BY <1>7 DEF Whole, Neat
  <2>2. x \in Nat
    BY <2>1, SequenceTyped
  <2>3. y = n + 3
    BY <1>4, <1>5
  <2> QED
    BY <1>3, <2>2, <2>3
<1>11. \A i \in 1 .. Len(l) : l[i] # Break
  BY <1>5
<1>12. Framed(s, a, l, Chars(t), x, y)
  BY <1>5, <1>7, <1>8, <1>9, <1>10, <1>11 DEF Framed
<1>13. BodyRead(s) = t
  BY <1>12, BodyIsRead
<1>14. Last(HeaderRead(s)).value = SubSeq(s, x + 5, x + 1 + y)
  BY <1>6, <1>12, LastFieldRead
<1>15. LaidOut(s, a, l, Chars(t), x, y) /\ s \in Seq(HeaderPiece)
  <2> DEFINE P == HeaderPiece
             c == Chars(t)
             b == <<Break>>
             bb == <<Break, Break>>
  <2>1. a \in Seq(P) /\ l \in Seq(P) /\ c \in Seq(P) /\ b \in Seq(P) /\ bb \in Seq(P)
    BY <1>5, <1>7, <1>9, PieceFacts DEF Whole, Neat, HeaderPiece
  <2>2. s = ((a \o (b \o l)) \o bb) \o c
    BY <1>8 DEF Composed
  <2> HIDE DEF P, c, b, bb
  <2>3. b \o l \in Seq(P)
    BY <2>1, ConcatProperties
  <2>4. a \o (b \o l) \in Seq(P)
    BY <2>1, <2>3, ConcatProperties
  <2>5. (a \o (b \o l)) \o bb \in Seq(P)
    BY <2>1, <2>4, ConcatProperties
  <2>6. s \in Seq(P)
    BY <2>1, <2>2, <2>5, ConcatProperties
  <2> QED
    BY <1>12, <2>6, LaidOutSo DEF P
<1>16. SubSeq(s, x + 5, x + 1 + y) = Chars(v)
  <2> DEFINE P == HeaderPiece
             c == Chars(v)
  <2>1. PICK f \in Nat \ {0} : f = x + 5
    BY <1>10
  <2>2. PICK e \in Nat : e = x + 1 + y
    BY <1>10
  <2>3. f <= e + 1 /\ e <= Len(s) /\ e - f + 1 = n
    <3>1. Len(s) = x + y + 3 + Len(Chars(t)) /\ Len(Chars(t)) \in Nat
      BY <1>15 DEF LaidOut
    <3> QED
      BY <1>3, <1>10, <2>1, <2>2, <3>1
  <2> DEFINE r == SubSeq(s, f, e)
  <2> HIDE DEF P
  <2>4. r \in Seq(P) /\ Len(r) = n /\ \A i \in 1 .. n : r[i] = s[f + i - 1]
    <3>1. s \in Seq(P)
      BY <1>15 DEF P
    <3>2. r \in Seq(P) /\ Len(r) = e - f + 1 /\ \A i \in 1 .. e - f + 1 : r[i] = s[f + i - 1]
      <4>1. f <= e + 1 /\ e <= Len(s)
        BY <2>3
      <4> HIDE DEF r
      <4>2. SubSeq(s, f, e) \in Seq(P) /\ Len(SubSeq(s, f, e)) = e - f + 1 /\ \A i \in 1 .. e - f + 1 : SubSeq(s, f, e)[i] = s[f + i - 1]
        BY <3>1, <4>1, SliceFacts
      <4> QED
        BY <4>2 DEF r
    <3> QED
      BY <2>3, <3>2
  <2>5. c \in Seq(P) /\ Len(c) = n /\ \A i \in 1 .. n : c[i] = Char(v[i])
    BY CharsAre DEF P
  <2> HIDE DEF r, c
  <2>6. \A i \in 1 .. n : r[i] = c[i]
    <3> TAKE i \in 1 .. n
    <3>1. PICK j : j = 3 + i
      OBVIOUS
    <3>2. j \in 1 .. y /\ f + i - 1 = x + 1 + j /\ j \in 1 .. Len(w)
      BY <1>3, <1>4, <1>10, <2>1, <3>1
    <3>3. s[x + 1 + j] = l[j]
      BY <1>15, <3>2 DEF LaidOut
    <3>4. l[j] = Char(v[i])
      BY <1>4, <1>5, <3>1, <3>2
    <3> QED
      BY <2>4, <2>5, <3>2, <3>3, <3>4
  <2>7. r = c
    BY <2>4, <2>5, <2>6, SeqEqual
  <2> QED
    BY <2>1, <2>2, <2>7 DEF r, c
<1>17. ReadValue(Chars(v)) = v
  BY PlainRead
<1> QED
  BY <1>13, <1>14, <1>16, <1>17 DEF Shows

\* The lines of a header and the ones that are not folded.
LEMMA MoreLines ==
  ASSUME NEW hs \in Seq(Whole), hs # <<>>, NEW p \in Whole
  PROVE  Append(hs, p) \in Seq(Whole) /\ Append(hs, p) # <<>>
<1> DEFINE W == Whole
<1> HIDE DEF W
<1>1. hs \in Seq(W) /\ p \in W
  BY DEF W
<1> QED
  BY <1>1, AppendFacts DEF W

LEMMA PlainlyWhole ==
  ASSUME NEW field \in Nat, NEW v \in Seq(Nat)
  PROVE  Plainly(field, v) \in Whole
<1> DEFINE p == <<field, COLON, SP>>
           N == Nat
<1>1. p \in Seq(N) /\ p # <<>>
  BY DEF COLON, SP
<1>2. v \in Seq(N)
  OBVIOUS
<1> HIDE DEF N, p
<1>3. p \o v \in Seq(N) /\ p \o v # <<>>
  <2>1. p \o v \in Seq(N) /\ Len(p \o v) = Len(p) + Len(v) /\ Len(p) \in Nat /\ Len(v) \in Nat
    BY <1>1, <1>2, ConcatProperties
  <2>2. Len(p) # 0
    BY <1>1, EmptySeq
  <2>3. Len(p \o v) # 0
    BY <2>1, <2>2
  <2> QED
    BY <2>1, <2>3, EmptySeq
<1>4. Chars(p \o v) \in Whole
  BY <1>3, CharsNeat DEF N
<1> QED
  BY <1>4 DEF Plainly, p

\* Lines that are listed come one by one.
LEMMA TwoMore ==
  \A S : \A h \in Seq(S), x, y \in S : h \o <<x, y>> = Append(Append(h, x), y)
<1> SUFFICES ASSUME NEW S, NEW h \in Seq(S), NEW x \in S, NEW y \in S
             PROVE  h \o <<x, y>> = Append(Append(h, x), y)
  OBVIOUS
<1> DEFINE u == <<x>>
           w == <<y>>
<1>1. u \in Seq(S) /\ w \in Seq(S)
  OBVIOUS
<1>2. u \o w = <<x, y>>
  BY PairOf
<1>3. Append(h, x) = h \o u
  BY AppendIsConcat
<1>4. Append(h, x) \in Seq(S)
  BY AppendFacts
<1>5. Append(Append(h, x), y) = Append(h, x) \o w
  BY <1>4, AppendIsConcat
<1> HIDE DEF u, w
<1>6. (h \o u) \o w = h \o (u \o w)
  BY <1>1, AssociativeIn
<1> QED
  BY <1>2, <1>3, <1>5, <1>6

\* What a reader should find.
PartsReadIn(m, s) ==
  LET type == ReadValue(Last(HeaderRead(s)).value)
      body == BodyRead(s) IN
  IF m.html = <<>>
  THEN <<PLAIN>> \o CRLF \o type \o CRLF \o CRLF \o body = Part(PLAIN, m.body)
  ELSE PartsRead(body, Tail(type)) = <<Part(PLAIN, m.body), Part(HTML, m.html[1])>>

\* One part.
LEMMA SingleReads ==
  ASSUME NEW m \in Struct, m.html = <<>>
  PROVE  PartsReadIn(m, Single(m))
<1> DEFINE W == Whole
           hs == HeaderLines(m)
           h == HeaderOf(Encode(m.body).encoding)
           v == <<h>>
           t == Encode(m.body).body
           p1 == Plainly(MIMEVERSION, <<VALUE>>)
           p2 == Plainly(CONTENTTYPE, <<PLAIN>>)
           p3 == Plainly(ENCODING, v)
           s == Single(m)
<1>1. m.body \in Seq(Letter)
  BY DEF Struct
<1>2. t \in Seq(Nat) /\ h \in {7, 64}
  BY <1>1, LetterFacts, EncodedFacts
<1>3. v \in Seq(Nat) /\ <<VALUE>> \in Seq(Nat) /\ <<PLAIN>> \in Seq(Nat)
  <2>1. h \in Nat /\ VALUE \in Nat /\ PLAIN \in Nat
    BY <1>2 DEF VALUE, PLAIN
  <2> HIDE DEF h
  <2> QED
    BY <2>1
<1>4. MIMEVERSION \in Nat /\ CONTENTTYPE \in Nat /\ ENCODING \in Nat /\ ENCODING # SP
  BY DEF MIMEVERSION, CONTENTTYPE, ENCODING, SP
<1>5. s = (Joined(hs \o <<p1, p2, p3>>) \o <<Break, Break>>) \o Chars(t)
  BY DEF Single
<1>6. <<PLAIN>> \o CRLF \o v \o CRLF \o CRLF \o t = Part(PLAIN, m.body)
  BY DEF Part
<1> HIDE DEF v, t, hs
<1>7. p1 \in W /\ p2 \in W
  BY <1>3, <1>4, PlainlyWhole
<1>8. p3 \in W
  BY <1>3, <1>4, PlainlyWhole
<1>9. hs \in Seq(W) /\ hs # <<>>
  BY HeaderLinesWhole DEF hs
<1> HIDE DEF p1, p2, p3, W, s
<1>10. hs \o <<p1, p2, p3>> = Append(Append(Append(hs, p1), p2), p3)
  BY <1>7, <1>8, <1>9, AppendThree
<1> DEFINE ls == Append(Append(hs, p1), p2)
<1>11. ls \in Seq(W) /\ ls # <<>>
  <2> DEFINE g == Append(hs, p1)
  <2>1. g \in Seq(W)
    BY <1>7, <1>9, AppendFacts
  <2> HIDE DEF g
  <2>2. Append(g, p2) \in Seq(W) /\ Append(g, p2) # <<>>
    BY <1>7, <2>1, AppendFacts
  <2> QED
    BY <2>2 DEF g
<1> HIDE DEF ls
<1>12. s = (Joined(Append(ls, p3)) \o <<Break, Break>>) \o Chars(t)
  BY <1>5, <1>10 DEF ls
<1>13. Shows(s, v, t)
  <2>1. ls \in Seq(Whole)
    BY <1>11 DEF W
  <2>2. s = Ended(ls, Plainly(ENCODING, v), t)
    BY <1>12 DEF p3, Ended
  <2> QED
    BY <1>2, <1>3, <1>4, <1>11, <2>1, <2>2, MessageReads
<1> QED
  BY <1>6, <1>13 DEF PartsReadIn, Shows, s

\* Two parts.
LEMMA MultipartReads ==
  ASSUME NEW m \in Struct, m.html # <<>>, NEW b, Outside(b), ~Collides(m, b)
  PROVE  PartsReadIn(m, Multipart(m, b))
<1> DEFINE W == Whole
           hs == HeaderLines(m)
           v == <<MULTIPART>> \o b
           t == Alternative(m, b)
           p1 == Plainly(MIMEVERSION, <<VALUE>>)
           p2 == Plainly(CONTENTTYPE, v)
           s == Multipart(m, b)
<1>1. m.body \in Seq(Letter) /\ m.html[1] \in Seq(Letter)
  <2>1. m.body \in Seq(Letter) /\ m.html \in Seq(Seq(Letter))
    BY DEF Struct
  <2> DEFINE SS == Seq(Letter)
  <2>2. m.html \in Seq(SS)
    BY <2>1
  <2> HIDE DEF SS
  <2>3. m.html[1] \in SS
    <3>1. Len(m.html) \in Nat /\ Len(m.html) # 0
      BY <2>2, EmptySeq
    <3>2. 1 \in 1 .. Len(m.html)
      BY <3>1
    <3> QED
      BY <2>2, <3>2, SequenceTyped
  <2> QED
    BY <2>1, <2>3 DEF SS
<1>2. t \in Seq(Nat) /\ PartsRead(t, b) = <<Part(PLAIN, m.body), Part(HTML, m.html[1])>>
  BY <1>1, LetterFacts, AlternativeReads
<1>3. v \in Seq(Nat) /\ <<VALUE>> \in Seq(Nat) /\ Tail(v) = b
  <2> DEFINE N == Nat
             u == <<MULTIPART>>
  <2>1. b \in Seq(N)
    BY MarkFacts DEF Outside
  <2>2. u \in Seq(N) /\ Len(u) = 1 /\ <<VALUE>> \in Seq(N)
    BY DEF MULTIPART, VALUE
  <2> HIDE DEF N, u
  <2>3. u \o b \in Seq(N) /\ Len(u \o b) = Len(u) + Len(b) /\ Len(b) \in Nat
    BY <2>1, <2>2, ConcatElements
  <2>4. From(u \o b, Len(u) + 1) = b
    BY <2>1, <2>2, FromSecond
  <2>5. Tail(u \o b) = SubSeq(u \o b, 2, Len(u \o b))
    <3> DEFINE c == u \o b
    <3>1. c \in Seq(N) /\ c # <<>>
      BY <2>2, <2>3, EmptySeq
    <3> HIDE DEF c
    <3> QED
      BY <3>1 DEF c
  <2>6. Len(u) + 1 = 2
    BY <2>2
  <2> QED
    BY <2>2, <2>3, <2>4, <2>5, <2>6 DEF From, N, u
<1>4. MIMEVERSION \in Nat /\ CONTENTTYPE \in Nat /\ CONTENTTYPE # SP
  BY DEF MIMEVERSION, CONTENTTYPE, SP
<1>5. s = (Joined(hs \o <<p1, p2>>) \o <<Break, Break>>) \o Chars(t)
  BY DEF Multipart
<1> HIDE DEF v, t, hs
<1>6. p1 \in W
  BY <1>3, <1>4, PlainlyWhole
<1>7. p2 \in W
  BY <1>3, <1>4, PlainlyWhole
<1>8. hs \in Seq(W) /\ hs # <<>>
  BY HeaderLinesWhole DEF hs
<1> HIDE DEF p1, p2, W, s
<1>9. hs \o <<p1, p2>> = Append(Append(hs, p1), p2)
  BY <1>6, <1>7, <1>8, TwoMore
<1> DEFINE ls == Append(hs, p1)
<1>10. ls \in Seq(W) /\ ls # <<>>
  BY <1>6, <1>8, AppendFacts
<1> HIDE DEF ls
<1>11. s = (Joined(Append(ls, p2)) \o <<Break, Break>>) \o Chars(t)
  BY <1>5, <1>9 DEF ls
<1>12. Shows(s, v, t)
  <2>1. ls \in Seq(Whole)
    BY <1>10 DEF W
  <2>2. s = Ended(ls, Plainly(CONTENTTYPE, v), t)
    BY <1>11 DEF p2, Ended
  <2> QED
    BY <1>2, <1>3, <1>4, <1>10, <2>1, <2>2, MessageReads
<1> QED
  BY <1>2, <1>3, <1>12 DEF PartsReadIn, Shows, s

----------------------------------------------------------------------------
(***************************************************************************)
(* The invariant.                                                          *)
(***************************************************************************)
OutputOf(m, s) ==
  IF m.html = <<>> THEN s = Single(m)
  ELSE \E b \in Boundary : ~Collides(m, b) /\ s = Multipart(m, b)

\* Texts have a user's characters, and eml() has returned a message of the struct as it is.
ComposerInv ==
  /\ text \in Seq(Character)
  /\ eml # <<>> => eml = <<eml[1]>> /\ eml[1] \in Struct
  /\ output # <<>> => eml # <<>> /\ OutputOf(eml[1], output)

LEMMA AddressTyped ==
  ASSUME NEW name \in Seq(Letter), NEW email \in Nat
  PROVE  Address(name, email) \in Mailbox
<1>1. Sanitized(name) \in Seq(Letter)
  BY LetterFacts, SanitizedFacts
<1>2. (name # <<>>) \in BOOLEAN
  OBVIOUS
<1> QED
  BY <1>1, <1>2 DEF Address, Mailbox

LEMMA FirstOnes ==
  ASSUME NEW S, NEW s \in Seq(S), NEW n \in Int, n <= Len(s)
  PROVE  SubSeq(s, 1, n) \in Seq(S)
<1>1. CASE n >= 1
  BY <1>1, SliceFacts
<1>2. CASE n < 1
  BY <1>2, SubSeqEmpty
<1> QED
  BY <1>1, <1>2

LEMMA FirstOfTwo ==
  \A S : \A x, y \in S, n \in Int : n <= 2 => SubSeq(<<x, y>>, 1, n) \in Seq(S)
<1> SUFFICES ASSUME NEW S, NEW x \in S, NEW y \in S, NEW n \in Int, n <= 2
             PROVE  SubSeq(<<x, y>>, 1, n) \in Seq(S)
  OBVIOUS
<1> DEFINE u == <<x, y>>
<1>1. u \in Seq(S) /\ Len(u) = 2
  OBVIOUS
<1> HIDE DEF u
<1>2. SubSeq(u, 1, n) \in Seq(S)
  BY <1>1, FirstOnes
<1> QED
  BY <1>2 DEF u

LEMMA FirstOfOne ==
  \A S : \A x \in S, n \in Int : n <= 1 => SubSeq(<<x>>, 1, n) \in Seq(S)
<1> SUFFICES ASSUME NEW S, NEW x \in S, NEW n \in Int, n <= 1
             PROVE  SubSeq(<<x>>, 1, n) \in Seq(S)
  OBVIOUS
<1> DEFINE u == <<x>>
<1>1. u \in Seq(S) /\ Len(u) = 1
  OBVIOUS
<1> HIDE DEF u
<1>2. SubSeq(u, 1, n) \in Seq(S)
  BY <1>1, FirstOnes
<1> QED
  BY <1>2 DEF u

\* init makes a struct of the texts.
LEMMA MadeTyped ==
  ASSUME text \in Seq(Character), NEW i \in 0 .. Len(text), NEW many \in 0 .. 2,
         NEW optional \in BOOLEAN, NEW boundary \in Boundary, Make(i, many, optional, boundary)
  PROVE  eml' = <<eml'[1]>> /\ eml'[1] \in Struct
<1> DEFINE first == SubSeq(text, 1, i)
           second == SubSeq(text, i + 1, Len(text))
           upTo(n, addresses) == SubSeq(addresses, 1, n)
           from == Address(first, Sender)
           to == upTo(many, <<Address(first, 701), Address(second, 702)>>)
           cc == upTo(many - 1, <<Address(second, 703)>>)
           bcc == upTo(2 - many, <<Address(second, 702), Address(first, 704)>>)
           replyTo == upTo(many - 1, <<Address(first, 705)>>)
           references == IF optional THEN 2 ELSE 0
           userAgent == IF optional THEN <<Sanitized(first)>> ELSE <<>>
           extraHeaders == IF optional THEN <<Sanitized(second), Sanitized(first)>> ELSE <<>>
           m == [from |-> from, to |-> to, cc |-> cc, bcc |-> bcc, replyTo |-> replyTo,
                 subject |-> Sanitized(text), body |-> second, html |-> <<>>,
                 inReplyTo |-> optional, references |-> references,
                 userAgent |-> userAgent, extraHeaders |-> extraHeaders, boundary |-> boundary]
<1>1. eml' = <<m>>
  BY DEF Make
<1>2. text \in Seq(Letter)
  <2>1. Character \subseteq Letter
    BY DEF Letter
  <2> QED
    BY <2>1, SeqMonotonic
<1> DEFINE L == Letter
<1>3. first \in Seq(L) /\ second \in Seq(L)
  <2>1. text \in Seq(L) /\ Len(text) \in Nat
    BY <1>2
  <2> HIDE DEF L
  <2>2. first \in Seq(L)
    BY <2>1, FirstOnes
  <2>3. i + 1 \in Nat \ {0} /\ Len(text) \in Nat /\ i + 1 <= Len(text) + 1 /\ Len(text) <= Len(text)
    BY <2>1
  <2>4. second \in Seq(L)
    BY <2>1, <2>3, SliceFacts
  <2> QED
    BY <2>2, <2>4
<1> HIDE DEF first, second
<1>4. Sanitized(text) \in Seq(L) /\ Sanitized(first) \in Seq(L) /\ Sanitized(second) \in Seq(L)
  BY <1>2, <1>3, LetterFacts, SanitizedFacts
<1>5. ASSUME NEW email \in Nat PROVE Address(first, email) \in Mailbox /\ Address(second, email) \in Mailbox
  BY <1>3, AddressTyped
<1>6. from \in Mailbox
  BY <1>5 DEF Sender
<1> DEFINE M == Mailbox
<1>8. /\ Address(first, 701) \in M /\ Address(second, 702) \in M /\ Address(second, 703) \in M
      /\ Address(first, 704) \in M /\ Address(first, 705) \in M
  BY <1>5
<1>9. many \in Int /\ many - 1 \in Int /\ 2 - many \in Int /\ many <= 2 /\ many - 1 <= 1 /\ 2 - many <= 2
  OBVIOUS
<1> HIDE DEF M
<1>10. to \in Seq(M)
  BY <1>8, <1>9, FirstOfTwo
<1>11. cc \in Seq(M) /\ replyTo \in Seq(M)
  BY <1>8, <1>9, FirstOfOne
<1>12. bcc \in Seq(M)
  BY <1>8, <1>9, FirstOfTwo
<1>13. references \in Nat
  OBVIOUS
<1> DEFINE SS == Seq(L)
<1>14. Sanitized(first) \in SS /\ Sanitized(second) \in SS
  BY <1>4
<1> HIDE DEF SS
<1>15. userAgent \in Seq(SS) /\ extraHeaders \in Seq(SS) /\ <<>> \in Seq(SS)
  BY <1>14
<1>16. second \in Seq(L) /\ Sanitized(text) \in Seq(L)
  BY <1>3, <1>4
<1>17. m \in [from : M, to : Seq(M), cc : Seq(M), bcc : Seq(M), replyTo : Seq(M),
              subject : Seq(L), body : Seq(L), html : Seq(SS), inReplyTo : BOOLEAN, references : Nat,
              userAgent : Seq(SS), extraHeaders : Seq(SS), boundary : Boundary]
  <2>1. from \in M
    BY <1>6 DEF M
  <2> HIDE DEF from, to, cc, bcc, replyTo, references, userAgent, extraHeaders, L
  <2> QED
    BY <2>1, <1>10, <1>11, <1>12, <1>13, <1>15, <1>16
<1> HIDE DEF m
<1>18. m \in Struct
  BY <1>17 DEF Struct, M, SS
<1> QED
  BY <1>1, <1>18

LEMMA ComposerInvInit == Init => ComposerInv
BY DEF Init, ComposerInv

LEMMA ComposerInvNext ==
  ASSUME ComposerInv, [Next]_vars
  PROVE  ComposerInv'
<1> USE DEF ComposerInv
<1>1. ASSUME NEW c \in Character, Type(c) PROVE ComposerInv'
  <2>1. text' \in Seq(Character)
    BY <1>1 DEF Type
  <2>2. eml' = <<>> /\ output' = <<>>
    BY <1>1 DEF Type
  <2> QED
    BY <2>1, <2>2
<1>2. ASSUME NEW i \in 0 .. Len(text), NEW many \in 0 .. 2, NEW optional \in BOOLEAN, NEW boundary \in Boundary,
             Make(i, many, optional, boundary)
      PROVE  ComposerInv'
  <2>1. text' = text /\ output' = <<>>
    BY <1>2 DEF Make
  <2>2. eml' = <<eml'[1]>> /\ eml'[1] \in Struct
    BY <1>2, MadeTyped
  <2> QED
    BY <2>1, <2>2
<1>3. ASSUME AssignHtml PROVE ComposerInv'
  <2> DEFINE m == eml[1]
             n == [m EXCEPT !.html = <<text>>]
  <2>1. eml' = <<n>> /\ text' = text /\ output' = <<>> /\ m \in Struct
    BY <1>3 DEF AssignHtml
  <2>2. <<text>> \in Seq(Seq(Letter))
    <3>1. Character \subseteq Letter
      BY DEF Letter
    <3>2. text \in Seq(Letter)
      BY <3>1, SeqMonotonic
    <3> DEFINE SS == Seq(Letter)
    <3>3. text \in SS
      BY <3>2
    <3> HIDE DEF SS
    <3>4. <<text>> \in Seq(SS)
      BY <3>3
    <3> QED
      BY <3>4 DEF SS
  <2> HIDE DEF m
  <2>3. n \in Struct
    <3> DEFINE t == <<text>>
    <3> HIDE DEF t
    <3> QED
      BY <2>1, <2>2 DEF Struct, t
  <2> HIDE DEF n
  <2> QED
    BY <2>1, <2>3
<1>4. ASSUME CallEml PROVE ComposerInv'
  <2> DEFINE m == eml[1]
  <2>1. eml' = eml /\ text' = text /\ eml # <<>> /\ m \in Struct
    BY <1>4 DEF CallEml
  <2>2. CASE m.html = <<>>
    <3>1. output' = Single(m)
      BY <1>4, <2>2 DEF CallEml
    <3>2. OutputOf(m, output')
      BY <2>2, <3>1 DEF OutputOf
    <3> QED
      BY <2>1, <3>2
  <2>3. CASE m.html # <<>>
    <3>1. PICK b \in Usable(m) : output' = Multipart(m, b)
      BY <1>4, <2>3 DEF CallEml
    <3>2. m.boundary \in Boundary
      BY <2>1 DEF Struct
    <3>3. b \in Boundary /\ ~Collides(m, b)
      BY <3>1, <3>2 DEF Usable
    <3>4. OutputOf(m, output')
      BY <2>3, <3>1, <3>3 DEF OutputOf
    <3> QED
      BY <2>1, <3>4
  <2> QED
    BY <2>2, <2>3
<1>5. CASE UNCHANGED vars
  BY <1>5 DEF vars
<1> QED
  BY <1>1, <1>2, <1>3, <1>4, <1>5 DEF Next

\* init makes a struct of texts, a caller assigns texts and boundaries to it, and what
\* eml() returns is a message of the struct with a boundary that is in neither part.
THEOREM ComposerInvHolds == Spec => []ComposerInv
<1>1. Init => ComposerInv
  BY ComposerInvInit
<1>2. ComposerInv /\ [Next]_vars => ComposerInv'
  BY ComposerInvNext
<1> QED
  BY <1>1, <1>2, PTL DEF Spec

\* Whatever eml() returns for a struct, a reader finds its parts in it.
LEMMA InvReads == ComposerInv => PartsReadAsComposed
<1> SUFFICES ASSUME ComposerInv, output # <<>> PROVE PartsReadIn(eml[1], output)
  BY DEF PartsReadAsComposed, PartsReadIn
<1> DEFINE m == eml[1]
<1>1. m \in Struct /\ OutputOf(m, output)
  BY DEF ComposerInv
<1> HIDE DEF m
<1>2. CASE m.html = <<>>
  <2>1. output = Single(m)
    BY <1>1, <1>2 DEF OutputOf
  <2> QED
    BY <1>1, <1>2, <2>1, SingleReads DEF m
<1>3. CASE m.html # <<>>
  <2>1. PICK b \in Boundary : ~Collides(m, b) /\ output = Multipart(m, b)
    BY <1>1, <1>3 DEF OutputOf
  <2>2. Outside(b)
    BY <2>1, ComposerAssumption DEF Outside
  <2>3. PartsReadIn(m, Multipart(m, b))
    BY <1>1, <1>3, <2>1, <2>2, MultipartReads
  <2> QED
    BY <2>1, <2>3 DEF m
<1> QED
  BY <1>2, <1>3

\* What eml() returns is read as the struct it was made of, for every text that a user
\* types and every boundary that is drawn or assigned: the last field of the header is
\* the one of the body, and the body has one part, or the text and the HTML in this
\* order, whole, though either may have lines that look like a delimiter.
THEOREM PartsAreReadAsComposed == Spec => []PartsReadAsComposed
<1>1. ComposerInv => PartsReadAsComposed
  BY InvReads
<1> QED
  BY <1>1, ComposerInvHolds, PTL
===============================================================================
