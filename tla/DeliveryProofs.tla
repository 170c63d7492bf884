--------------------------- MODULE DeliveryProofs ---------------------------
(***************************************************************************)
(* Proofs about MailStream and Delivery.                                   *)
(*                                                                         *)
(* Of the stream, for every size of the buffer, every byte, and any calls  *)
(* of any length: the buffer is within its bounds, and the bytes that      *)
(* mailstream_write has vouched for are the bytes that went out or wait in *)
(* the buffer, in order.                                                   *)
(*                                                                         *)
(* Of deliveries, for every text of any length: a server reads the writes  *)
(* of module EmlProofs byte by byte, and the invariants of Delivery say    *)
(* how much of the message has been handed over, and how much of the reply *)
(* has been read, in each phase of a delivery.                             *)
(***************************************************************************)
EXTENDS Delivery, EmlProofs

----------------------------------------------------------------------------
(***************************************************************************)
(* The stream.                                                             *)
(***************************************************************************)

\* Concatenation is associative (the provers instantiate the bare statement).
LEMMA Associative ==
  \A s, t, u \in Seq(Byte) : (s \o t) \o u = s \o (t \o u)
BY ConcatAssociative

\* A sequence with a line feed has a first one.
LEMMA FirstLFInRange ==
  ASSUME NEW S, NEW s \in Seq(S), HasLine(s)
  PROVE  FirstLF(s) \in 1 .. Len(s)
<1> DEFINE T == {i \in 1 .. Len(s) : s[i] = LineFeed}
           R == {ss \in Nat \X Nat : ss[1] < ss[2]}
<1>1. T \subseteq Nat /\ T # {}
  BY DEF HasLine
<1>2. IsWellFoundedOn(R, Nat)
  BY NatLessThanWellFounded, Zenon DEF OpToRel
<1>3. PICK m \in T : \A k \in T : ~(<<k, m>> \in R)
  <2> HIDE DEF T, R
  <2> QED
    BY <1>1, <1>2, WFMin, Zenon
<1>4. \A j \in 1 .. m - 1 : s[j] # LineFeed
  <2>1. ASSUME NEW j \in 1 .. m - 1, s[j] = LineFeed
        PROVE  FALSE
    <3>1. j \in T /\ j < m /\ j \in Nat /\ m \in Nat
      BY <1>1, <1>3, <2>1
    <3>2. <<j, m>> \in R
      BY <3>1
    <3> QED
      BY <1>3, <3>1, <3>2
  <2> QED
    BY <2>1
<1> QED
  BY <1>3, <1>4 DEF FirstLF

----------------------------------------------------------------------------
(***************************************************************************)
(* The inductive invariant.  While write_direct runs, a part of its        *)
(* argument is out already, and nobody has vouched for it yet.             *)
(***************************************************************************)

\* The part of the argument that write_direct has written.
Written == Take(arg, Len(arg) - Len(left))

DirectPart ==
  op = "direct" =>
    /\ write_buffer = <<>> /\ wire = taken \o Written
    /\ Len(left) <= Len(arg) /\ Written \o left = arg

IInv == StreamTypeOK /\ DirectPart /\ TakenIsWritten

LEMMA InitIInv == StreamInit => IInv
<1> SUFFICES ASSUME StreamInit PROVE IInv
  OBVIOUS
<1>1. StreamTypeOK
  BY BufferSizeAssumption DEF StreamInit, StreamTypeOK
<1>2. DirectPart
  BY DEF StreamInit, DirectPart
<1>3. TakenIsWritten
  BY DEF StreamInit, TakenIsWritten
<1> QED
  BY <1>1, <1>2, <1>3 DEF IInv

\* What the invariant says of the types of the variables, one by one.
LEMMA Types ==
  ASSUME StreamTypeOK
  PROVE  /\ write_buffer \in Seq(Byte) /\ wire \in Seq(Byte) /\ arg \in Seq(Byte)
         /\ left \in Seq(Byte) /\ taken \in Seq(Byte) /\ read_buffer \in Seq(Byte)
         /\ inbox \in Seq(Byte) /\ line \in Seq(Byte)
         /\ Len(write_buffer) <= BufferSize /\ Len(read_buffer) <= BufferSize
BY DEF StreamTypeOK

\* A step of a writer leaves the reader's variables alone, and the other way round.
LEMMA WriterTypes ==
  ASSUME StreamTypeOK, UNCHANGED readVars,
         write_buffer' \in Seq(Byte), wire' \in Seq(Byte), arg' \in Seq(Byte),
         left' \in Seq(Byte), taken' \in Seq(Byte), ret' \in Int,
         op' \in {"none", "flush", "room", "direct", "read"},
         Len(write_buffer') <= BufferSize
  PROVE  StreamTypeOK'
BY DEF StreamTypeOK, readVars

LEMMA ReaderKeepsIInv ==
  ASSUME IInv, UNCHANGED writeVars, op = op' \/ {op, op'} \subseteq {"none", "read"},
         read_buffer' \in Seq(Byte), inbox' \in Seq(Byte), line' \in Seq(Byte),
         got' \in Seq(Seq(Byte)), ret' \in Int, open' \in BOOLEAN,
         Len(read_buffer') <= BufferSize
  PROVE  IInv'
<1>1. op' \in {"none", "flush", "room", "direct", "read"}
  BY DEF IInv, StreamTypeOK
<1>2. StreamTypeOK'
  BY <1>1 DEF IInv, StreamTypeOK, writeVars
<1>3. op' = "direct" <=> op = "direct"
  OBVIOUS
<1>4. DirectPart' /\ TakenIsWritten'
  BY <1>3 DEF IInv, DirectPart, TakenIsWritten, Written, writeVars
<1> QED
  BY <1>2, <1>4 DEF IInv

----------------------------------------------------------------------------
(***************************************************************************)
(* One lemma per action: first those that write.                           *)
(***************************************************************************)

LEMMA WriteKeepsIInv ==
  ASSUME IInv, NEW bytes \in Seq(Byte), Write(bytes)
  PROVE  IInv'
<1>1. /\ write_buffer \in Seq(Byte) /\ wire \in Seq(Byte) /\ taken \in Seq(Byte)
      /\ left \in Seq(Byte) /\ ret \in Int
      /\ StreamTypeOK
  BY Types DEF IInv, StreamTypeOK
<1>2. op = "none" /\ arg' = bytes /\ wire' = wire /\ UNCHANGED readVars
  BY DEF Write
<1>3. wire \o write_buffer = taken
  BY <1>2 DEF IInv, TakenIsWritten
<1>4. CASE /\ Len(bytes) + Len(write_buffer) <= BufferSize
           /\ write_buffer' = write_buffer \o bytes
           /\ Returns(Len(bytes)) /\ UNCHANGED left
  <2>1. op' = "none" /\ ret' = Len(bytes) /\ taken' = taken \o bytes
    BY <1>2, <1>4, TakeEnds DEF Returns
  <2>2. /\ write_buffer' \in Seq(Byte) /\ taken' \in Seq(Byte)
        /\ Len(write_buffer') = Len(write_buffer) + Len(bytes)
    BY <1>1, <1>4, <2>1, ConcatProperties
  <2>3. (wire \o write_buffer) \o bytes = wire \o (write_buffer \o bytes)
    BY <1>1, Associative, SMTT(30)
  <2>4. Len(write_buffer') <= BufferSize /\ ret' \in Int
    BY <1>1, <1>4, <2>1, <2>2, BufferSizeAssumption
  <2>5. StreamTypeOK'
    BY <1>1, <1>2, <1>4, <2>1, <2>2, <2>4, WriterTypes
  <2>6. DirectPart' /\ TakenIsWritten'
    BY <1>2, <1>3, <1>4, <2>1, <2>3 DEF DirectPart, TakenIsWritten
  <2> QED
    BY <2>5, <2>6 DEF IInv
<1>5. CASE op' = "room" /\ UNCHANGED <<write_buffer, left, ret, taken>>
  <2>1. StreamTypeOK'
    BY <1>1, <1>2, <1>5, Types, WriterTypes
  <2>2. DirectPart' /\ TakenIsWritten'
    BY <1>2, <1>3, <1>5 DEF DirectPart, TakenIsWritten
  <2> QED
    BY <2>1, <2>2 DEF IInv
<1>6. CASE /\ Len(bytes) > BufferSize /\ write_buffer = <<>>
           /\ op' = "direct" /\ left' = bytes
           /\ UNCHANGED <<write_buffer, ret, taken>>
  <2>1. StreamTypeOK'
    BY <1>1, <1>2, <1>6, Types, WriterTypes
  <2>2. Len(bytes) \in Nat /\ Len(arg') - Len(left') = 0
    BY <1>2, <1>6
  <2>3. Take(arg', Len(arg') - Len(left')) = <<>>
    BY <1>2, <2>2, TakeEnds
  <2>4. wire = taken /\ taken \o <<>> = taken /\ <<>> \o bytes = bytes
    BY <1>1, <1>3, <1>6, ConcatEmptySeq
  <2>5. DirectPart'
    <3>1. Written' = <<>>
      BY <2>3 DEF Written
    <3>2. taken' \o Written' = taken /\ Written' \o left' = bytes
      BY <1>6, <2>4, <3>1
    <3> QED
      BY <1>2, <1>6, <2>2, <2>4, <3>2 DEF DirectPart
  <2>6. TakenIsWritten'
    BY <1>6 DEF TakenIsWritten
  <2> QED
    BY <2>1, <2>5, <2>6 DEF IInv
<1> QED
  BY <1>4, <1>5, <1>6 DEF Write

LEMMA FlushKeepsIInv ==
  ASSUME IInv, Flush
  PROVE  IInv'
<1>1. op = "none" /\ op' \in {"none", "flush"} /\ ret' \in Int
  BY DEF IInv, StreamTypeOK, Flush
<1>2. UNCHANGED <<writeVars, readVars>>
  BY DEF Flush
<1>3. StreamTypeOK'
  BY <1>1, <1>2 DEF IInv, StreamTypeOK, writeVars, readVars
<1>4. DirectPart' /\ TakenIsWritten'
  BY <1>1, <1>2 DEF IInv, DirectPart, TakenIsWritten, writeVars
<1> QED
  BY <1>3, <1>4 DEF IInv

\* What goes out leaves the buffer: together they stay the same.
LEMMA FlushSomeKeepsIInv ==
  ASSUME IInv, NEW n \in Int, FlushSome(n)
  PROVE  IInv'
<1>1. /\ write_buffer \in Seq(Byte) /\ wire \in Seq(Byte) /\ arg \in Seq(Byte)
      /\ left \in Seq(Byte) /\ taken \in Seq(Byte)
      /\ Len(write_buffer) <= BufferSize
      /\ StreamTypeOK
  BY Types DEF IInv
<1>2. UNCHANGED readVars
  BY DEF FlushSome
<1>3. /\ op \in {"flush", "room"} /\ n \in 1 .. Len(write_buffer) - 1
      /\ UNCHANGED <<op, arg, left, ret, taken>>
      /\ wire' = wire \o Take(write_buffer, n) /\ write_buffer' = Drop(write_buffer, n)
  BY DEF FlushSome, Flushing
<1>4. ret \in Int /\ n \in 0 .. Len(write_buffer)
  BY <1>1, <1>3 DEF StreamTypeOK
<1>5. /\ Take(write_buffer, n) \in Seq(Byte) /\ Drop(write_buffer, n) \in Seq(Byte)
      /\ Len(Drop(write_buffer, n)) = Len(write_buffer) - n
      /\ Take(write_buffer, n) \o Drop(write_buffer, n) = write_buffer
  BY <1>1, <1>4, CutFacts
<1>6. wire' \in Seq(Byte)
  BY <1>1, <1>3, <1>5, ConcatProperties
<1>7. Len(write_buffer') <= BufferSize
  BY <1>1, <1>4, <1>3, <1>5, BufferSizeAssumption
<1>8. StreamTypeOK'
  BY <1>2, <1>1, <1>4, <1>3, <1>5, <1>6, <1>7, WriterTypes
<1>9. wire' \o write_buffer' = wire \o write_buffer
  <2>1. (wire \o Take(write_buffer, n)) \o Drop(write_buffer, n)
          = wire \o (Take(write_buffer, n) \o Drop(write_buffer, n))
    BY <1>1, <1>5, Associative, ZenonT(30)
  <2> QED
    BY <1>3, <1>5, <2>1
<1>10. DirectPart' /\ TakenIsWritten'
  BY <1>3, <1>9 DEF IInv, DirectPart, TakenIsWritten
<1> QED
  BY <1>8, <1>10 DEF IInv

LEMMA FlushLastKeepsIInv ==
  ASSUME IInv, FlushLast
  PROVE  IInv'
<1>1. /\ write_buffer \in Seq(Byte) /\ wire \in Seq(Byte) /\ arg \in Seq(Byte)
      /\ left \in Seq(Byte) /\ taken \in Seq(Byte)
      /\ StreamTypeOK
  BY Types DEF IInv
<1>2. UNCHANGED readVars
  BY DEF FlushLast
<1>3. /\ ret \in Int /\ op \in {"flush", "room"}
      /\ arg' = arg /\ wire' = wire \o write_buffer
  BY <1>1 DEF StreamTypeOK, FlushLast, Flushing, readVars
<1>4. wire' \in Seq(Byte) /\ wire' = taken
  BY <1>1, <1>3 DEF IInv, TakenIsWritten
<1>5. wire' \o <<>> = wire' /\ taken \o <<>> = taken /\ <<>> \o arg = arg
  BY <1>1, <1>4, ConcatEmptySeq
<1>6. <<>> \in Seq(Byte) /\ Len(<<>>) = 0 /\ 0 <= BufferSize
  BY BufferSizeAssumption
<1>7. CASE write_buffer' = <<>> /\ op' = "none" /\ ret' = 0 /\ UNCHANGED <<left, taken>>
  <2>1. StreamTypeOK'
    BY <1>2, <1>1, <1>3, <1>4, <1>6, <1>7, WriterTypes
  <2>2. DirectPart' /\ TakenIsWritten'
    BY <1>4, <1>5, <1>7 DEF DirectPart, TakenIsWritten
  <2> QED
    BY <2>1, <2>2 DEF IInv
<1>8. CASE Len(arg) <= BufferSize /\ write_buffer' = arg /\ Returns(Len(arg)) /\ UNCHANGED left
  <2>1. op' = "none" /\ ret' = Len(arg) /\ taken' = taken \o arg
    BY <1>1, <1>3, <1>8, TakeEnds DEF Returns
  <2>2. taken' \in Seq(Byte) /\ ret' \in Int
    BY <1>1, <2>1, ConcatProperties
  <2>3. StreamTypeOK'
    BY <1>2, <1>1, <1>3, <1>4, <1>8, <2>1, <2>2, WriterTypes
  <2>4. DirectPart' /\ TakenIsWritten'
    BY <1>4, <1>8, <2>1 DEF DirectPart, TakenIsWritten
  <2> QED
    BY <2>3, <2>4 DEF IInv
<1>9. CASE write_buffer' = <<>> /\ op' = "direct" /\ left' = arg /\ UNCHANGED <<ret, taken>>
  <2>1. StreamTypeOK'
    BY <1>2, <1>1, <1>3, <1>4, <1>6, <1>9, WriterTypes
  <2>2. Len(arg) \in Nat /\ Len(arg') - Len(left') = 0
    BY <1>1, <1>3, <1>9
  <2>3. Written' = <<>>
    BY <1>1, <1>3, <2>2, TakeEnds DEF Written
  <2>4. DirectPart'
    <3>1. taken' \o Written' = taken /\ Written' \o left' = arg
      BY <1>5, <1>9, <2>3
    <3> QED
      BY <1>3, <1>4, <1>9, <2>2, <3>1 DEF DirectPart
  <2>5. TakenIsWritten'
    BY <1>9 DEF TakenIsWritten
  <2> QED
    BY <2>1, <2>4, <2>5 DEF IInv
<1> QED
  BY <1>7, <1>8, <1>9 DEF FlushLast

LEMMA FlushFailsKeepsIInv ==
  ASSUME IInv, FlushFails
  PROVE  IInv'
<1>1. /\ op \in {"flush", "room"} /\ op' = "none" /\ ret' = -1
      /\ UNCHANGED <<writeVars, readVars>>
  BY DEF FlushFails, Flushing
<1>2. StreamTypeOK'
  BY <1>1 DEF IInv, StreamTypeOK, writeVars, readVars
<1>3. DirectPart' /\ TakenIsWritten'
  BY <1>1 DEF IInv, DirectPart, TakenIsWritten, writeVars
<1> QED
  BY <1>2, <1>3 DEF IInv

\* What is written and what is left of the argument, while write_direct runs.
LEMMA WrittenFacts ==
  ASSUME IInv, op = "direct"
  PROVE  /\ Written \in Seq(Byte)
         /\ Len(arg) - Len(left) \in 0 .. Len(arg)
<1>1. arg \in Seq(Byte) /\ left \in Seq(Byte) /\ Len(left) <= Len(arg)
  BY Types DEF IInv, DirectPart
<1>2. Len(arg) - Len(left) \in 0 .. Len(arg)
  BY <1>1
<1> QED
  BY <1>1, <1>2, CutFacts DEF Written

LEMMA DirectSomeKeepsIInv ==
  ASSUME IInv, NEW n \in Int, DirectSome(n)
  PROVE  IInv'
<1>1. /\ write_buffer \in Seq(Byte) /\ wire \in Seq(Byte) /\ arg \in Seq(Byte)
      /\ left \in Seq(Byte) /\ taken \in Seq(Byte)
      /\ Len(write_buffer) <= BufferSize
      /\ StreamTypeOK
  BY Types DEF IInv
<1>2. UNCHANGED readVars
  BY DEF DirectSome
<1>3. /\ op = "direct" /\ op' = "direct" /\ n \in 1 .. Len(left) - 1
      /\ wire' = wire \o Take(left, n) /\ left' = Drop(left, n)
      /\ UNCHANGED <<write_buffer, arg, ret, taken>>
  BY DEF DirectSome
<1>4. /\ write_buffer = <<>> /\ wire = taken \o Written
      /\ Len(left) <= Len(arg) /\ Written \o left = arg
      /\ Written \in Seq(Byte)
  BY <1>3, WrittenFacts DEF IInv, DirectPart
<1>5. /\ Take(left, n) \in Seq(Byte) /\ Len(Take(left, n)) = n
      /\ Drop(left, n) \in Seq(Byte) /\ Len(Drop(left, n)) = Len(left) - n
      /\ Take(left, n) \o Drop(left, n) = left
  <2>1. n \in 0 .. Len(left)
    BY <1>1, <1>3
  <2> QED
    BY <1>1, <2>1, CutFacts
<1>6. wire' \in Seq(Byte) /\ ret \in Int /\ left' \in Seq(Byte)
  BY <1>1, <1>3, <1>5, ConcatProperties DEF StreamTypeOK
<1>7. StreamTypeOK'
  BY <1>1, <1>2, <1>3, <1>6, WriterTypes
<1>8. Written' = Written \o Take(left, n)
  <2> DEFINE more == Written \o Take(left, n)
  <2>1. more \o Drop(left, n) = arg
    <3>1. more \o Drop(left, n) = Written \o (Take(left, n) \o Drop(left, n))
      BY <1>4, <1>5, Associative
    <3> QED
      BY <1>4, <1>5, <3>1
  <2>2. more \in Seq(Byte) /\ Len(arg) = Len(more) + Len(Drop(left, n))
    <3>1. more \in Seq(Byte)
      BY <1>4, <1>5, ConcatProperties
    <3>2. Len(more \o Drop(left, n)) = Len(more) + Len(Drop(left, n))
      BY <1>5, <3>1, ConcatProperties
    <3> QED
      BY <2>1, <3>1, <3>2
  <2> HIDE DEF more
  <2>3. Len(more) \in Nat /\ Len(arg) - Len(Drop(left, n)) = Len(more)
    BY <1>1, <1>5, <2>2
  <2>4. Take(arg, Len(more)) = more
    BY <1>5, <2>1, <2>2, TakeOfConcat
  <2>5. Len(arg') - Len(left') = Len(more)
    BY <1>3, <2>3
  <2>6. Written' = more
    BY <1>3, <2>4, <2>5 DEF Written
  <2> QED
    BY <2>6 DEF more
<1>9. DirectPart'
  <2>1. Written' \o left' = arg'
    <3>1. (Written \o Take(left, n)) \o Drop(left, n)
            = Written \o (Take(left, n) \o Drop(left, n))
      BY <1>4, <1>5, Associative
    <3>2. (Written \o Take(left, n)) \o Drop(left, n) = arg
      BY <1>4, <1>5, <3>1
    <3>3. left' = Drop(left, n) /\ arg' = arg
      BY <1>3
    <3> QED
      BY <1>8, <3>2, <3>3
  <2>2. wire' = taken' \o Written'
    <3>1. taken \in Seq(Byte) /\ Written \in Seq(Byte) /\ Take(left, n) \in Seq(Byte)
      BY <1>1, <1>4, <1>5
    <3>2. (taken \o Written) \o Take(left, n) = taken \o (Written \o Take(left, n))
      BY <3>1, Associative
    <3> QED
      BY <1>3, <1>4, <1>8, <3>2
  <2>3. Len(left') <= Len(arg')
    BY <1>1, <1>3, <1>4, <1>5
  <2> QED
    BY <1>3, <1>4, <2>1, <2>2, <2>3 DEF DirectPart
<1>10. TakenIsWritten'
  BY <1>3 DEF TakenIsWritten
<1> QED
  BY <1>7, <1>9, <1>10 DEF IInv

LEMMA DirectLastKeepsIInv ==
  ASSUME IInv, DirectLast
  PROVE  IInv'
<1>1. /\ write_buffer \in Seq(Byte) /\ wire \in Seq(Byte) /\ arg \in Seq(Byte)
      /\ left \in Seq(Byte) /\ taken \in Seq(Byte)
      /\ Len(write_buffer) <= BufferSize
      /\ StreamTypeOK
  BY Types DEF IInv
<1>2. UNCHANGED readVars
  BY DEF DirectLast
<1>3. /\ op = "direct" /\ op' = "none" /\ ret' = Len(arg) /\ taken' = taken \o arg
      /\ wire' = wire \o left /\ left' = <<>> /\ arg' = arg
      /\ UNCHANGED write_buffer
  BY <1>1, TakeEnds DEF DirectLast, Returns
<1>4. /\ write_buffer = <<>> /\ wire = taken \o Written
      /\ Written \o left = arg /\ Written \in Seq(Byte)
  BY <1>3, WrittenFacts DEF IInv, DirectPart
<1>5. wire' \in Seq(Byte) /\ taken' \in Seq(Byte) /\ ret' \in Int /\ left' \in Seq(Byte)
  BY <1>1, <1>3, ConcatProperties
<1>6. StreamTypeOK'
  BY <1>1, <1>2, <1>3, <1>5, WriterTypes
<1>7. wire' \o write_buffer' = taken'
  <2>1. (taken \o Written) \o left = taken \o (Written \o left)
    <3>1. taken \in Seq(Byte) /\ Written \in Seq(Byte) /\ left \in Seq(Byte)
      BY <1>1, <1>4
    <3> QED
      BY <3>1, Associative
  <2>2. wire' \o <<>> = wire' /\ write_buffer' = <<>>
    BY <1>3, <1>4, <1>5, ConcatEmptySeq
  <2>3. wire' = (taken \o Written) \o left /\ taken' = taken \o (Written \o left)
    BY <1>3, <1>4
  <2> QED
    BY <2>1, <2>2, <2>3
<1>8. DirectPart' /\ TakenIsWritten'
  BY <1>3, <1>7 DEF DirectPart, TakenIsWritten
<1> QED
  BY <1>6, <1>8 DEF IInv

LEMMA DirectFailsKeepsIInv ==
  ASSUME IInv, DirectFails
  PROVE  IInv'
<1>1. /\ write_buffer \in Seq(Byte) /\ wire \in Seq(Byte) /\ arg \in Seq(Byte)
      /\ left \in Seq(Byte) /\ taken \in Seq(Byte)
      /\ Len(write_buffer) <= BufferSize
      /\ StreamTypeOK
  BY Types DEF IInv
<1>2. UNCHANGED readVars
  BY DEF DirectFails
<1> DEFINE n == IF left = arg THEN -1 ELSE Len(arg) - Len(left)
<1>3. /\ op = "direct" /\ op' = "none" /\ ret' = n /\ taken' = taken \o Take(arg, n)
      /\ left' = <<>> /\ arg' = arg /\ UNCHANGED <<write_buffer, wire>>
  BY DEF DirectFails, Returns
<1>4. /\ write_buffer = <<>> /\ wire = taken \o Written /\ Written \in Seq(Byte)
      /\ Len(arg) - Len(left) \in 0 .. Len(arg)
  BY <1>3, WrittenFacts DEF IInv, DirectPart
<1>5. Take(arg, n) = Written
  <2>1. CASE left = arg
    <3>1. Len(arg) - Len(left) = 0
      BY <1>1, <2>1
    <3> QED
      BY <1>1, <2>1, <3>1, TakeEnds DEF Written
  <2>2. CASE left # arg
    BY <2>2 DEF Written
  <2> QED
    BY <2>1, <2>2
<1>6. n \in Int
  BY <1>4
<1> HIDE DEF n
<1>7. taken' = wire /\ left' \in Seq(Byte) /\ ret' \in Int
  BY <1>3, <1>4, <1>5, <1>6
<1>8. StreamTypeOK'
  BY <1>1, <1>2, <1>3, <1>7, WriterTypes
<1>9. wire' \o write_buffer' = taken'
  BY <1>1, <1>3, <1>4, <1>7, ConcatEmptySeq
<1>10. DirectPart' /\ TakenIsWritten'
  BY <1>3, <1>9 DEF DirectPart, TakenIsWritten
<1> QED
  BY <1>8, <1>10 DEF IInv

----------------------------------------------------------------------------
(***************************************************************************)
(* The actions that read.                                                  *)
(***************************************************************************)

LEMMA ArriveKeepsIInv ==
  ASSUME IInv, NEW bytes \in Seq(Byte), Arrive(bytes)
  PROVE  IInv'
<1>1. /\ inbox' = inbox \o bytes
      /\ UNCHANGED <<op, ret, read_buffer, line, got, open>>
  BY DEF Arrive
<1>2. UNCHANGED writeVars
  BY DEF Arrive
<1>3. inbox' \in Seq(Byte)
  BY <1>1, Types, ConcatProperties DEF IInv
<1>4. /\ read_buffer' \in Seq(Byte) /\ line' \in Seq(Byte) /\ got' \in Seq(Seq(Byte))
      /\ ret' \in Int /\ open' \in BOOLEAN /\ Len(read_buffer') <= BufferSize
      /\ op = op'
  BY <1>1 DEF IInv, StreamTypeOK
<1> QED
  BY <1>2, <1>3, <1>4, ReaderKeepsIInv

LEMMA PeerClosesKeepsIInv ==
  ASSUME IInv, PeerCloses
  PROVE  IInv'
<1>1. open' = FALSE /\ UNCHANGED <<op, ret, read_buffer, inbox, line, got>>
  BY DEF PeerCloses
<1>2. UNCHANGED writeVars
  BY DEF PeerCloses
<1>3. /\ read_buffer' \in Seq(Byte) /\ inbox' \in Seq(Byte) /\ line' \in Seq(Byte)
      /\ got' \in Seq(Seq(Byte)) /\ ret' \in Int /\ open' \in BOOLEAN
      /\ Len(read_buffer') <= BufferSize /\ op = op'
  BY <1>1 DEF IInv, StreamTypeOK
<1> QED
  BY <1>2, <1>3, ReaderKeepsIInv

LEMMA ReadLineKeepsIInv ==
  ASSUME IInv, ReadLine
  PROVE  IInv'
<1>1. /\ op = "none" /\ op' = "read" /\ line' = <<>>
      /\ UNCHANGED <<ret, read_buffer, inbox, got, open>>
  BY DEF ReadLine
<1>2. UNCHANGED writeVars
  BY DEF ReadLine
<1>3. /\ read_buffer' \in Seq(Byte) /\ inbox' \in Seq(Byte) /\ line' \in Seq(Byte)
      /\ got' \in Seq(Seq(Byte)) /\ ret' \in Int /\ open' \in BOOLEAN
      /\ Len(read_buffer') <= BufferSize /\ {op, op'} \subseteq {"none", "read"}
  BY <1>1 DEF IInv, StreamTypeOK
<1> QED
  BY <1>2, <1>3, ReaderKeepsIInv

\* The end of mailstream_read_line: a line of bytes is added to those returned, and
\* no more than there was stays in the buffer.
LEMMA LineReturned ==
  ASSUME IInv, op = "read", op' = "none", ret' = 0, UNCHANGED <<inbox, open>>,
         UNCHANGED writeVars,
         NEW n \in 0 .. Len(read_buffer),
         line' = line \o Take(read_buffer, n), read_buffer' = Drop(read_buffer, n),
         got' = Append(got, line')
  PROVE  IInv'
<1>1. /\ line \in Seq(Byte) /\ read_buffer \in Seq(Byte) /\ inbox \in Seq(Byte)
      /\ Len(read_buffer) <= BufferSize
  BY Types DEF IInv
<1>2. got \in Seq(Seq(Byte)) /\ open \in BOOLEAN
  BY DEF IInv, StreamTypeOK
<1>3. /\ Take(read_buffer, n) \in Seq(Byte) /\ Drop(read_buffer, n) \in Seq(Byte)
      /\ Len(Drop(read_buffer, n)) = Len(read_buffer) - n
  BY <1>1, CutFacts
<1>4. line' \in Seq(Byte)
  BY <1>1, <1>3, ConcatProperties
<1>5. got' \in Seq(Seq(Byte))
  BY <1>2, <1>4, AppendProperties
<1>6. Len(read_buffer') <= BufferSize
  BY <1>1, <1>3, BufferSizeAssumption
<1>7. {op, op'} \subseteq {"none", "read"} /\ ret' \in Int
  OBVIOUS
<1>8. read_buffer' \in Seq(Byte) /\ inbox' \in Seq(Byte) /\ open' \in BOOLEAN
  BY <1>1, <1>2, <1>3
<1> QED
  BY <1>4, <1>5, <1>6, <1>7, <1>8, ReaderKeepsIInv

LEMMA LineEndsKeepsIInv ==
  ASSUME IInv, LineEnds
  PROVE  IInv'
<1> DEFINE n == FirstLF(read_buffer)
<1>1. /\ op = "read" /\ HasLine(read_buffer) /\ op' = "none" /\ ret' = 0
      /\ line' = line \o Take(read_buffer, n) /\ read_buffer' = Drop(read_buffer, n)
      /\ got' = Append(got, line') /\ UNCHANGED <<inbox, open>>
  BY DEF LineEnds
<1>2. UNCHANGED writeVars
  BY DEF LineEnds
<1>3. n \in 0 .. Len(read_buffer)
  <2>1. read_buffer \in Seq(Byte)
    BY Types DEF IInv
  <2>2. n \in 1 .. Len(read_buffer)
    BY <1>1, <2>1, FirstLFInRange
  <2> QED
    BY <2>2
<1> HIDE DEF n
<1> QED
  BY <1>1, <1>2, <1>3, LineReturned

LEMMA FeedEndsKeepsIInv ==
  ASSUME IInv, FeedEnds
  PROVE  IInv'
<1> DEFINE n == Len(read_buffer)
<1>1. read_buffer \in Seq(Byte)
  BY Types DEF IInv
<1>2. n \in 0 .. Len(read_buffer)
  BY <1>1
<1>3. Take(read_buffer, n) = read_buffer /\ Drop(read_buffer, n) = <<>>
  <2>1. Len(Drop(read_buffer, n)) = 0 /\ Drop(read_buffer, n) \in Seq(Byte)
    BY <1>1, <1>2, CutFacts
  <2> QED
    BY <1>1, <2>1, TakeEnds, EmptySeq
<1>4. /\ op = "read" /\ op' = "none" /\ ret' = 0
      /\ line' = line \o read_buffer /\ read_buffer' = <<>>
      /\ got' = Append(got, line') /\ UNCHANGED <<inbox, open>>
  BY DEF FeedEnds
<1>5. UNCHANGED writeVars
  BY DEF FeedEnds
<1> HIDE DEF n
<1> QED
  BY <1>2, <1>3, <1>4, <1>5, LineReturned

LEMMA FeedKeepsIInv ==
  ASSUME IInv, NEW n \in Int, Feed(n)
  PROVE  IInv'
<1>1. /\ line \in Seq(Byte) /\ read_buffer \in Seq(Byte) /\ inbox \in Seq(Byte)
  BY Types DEF IInv
<1>2. /\ op = "read" /\ n \in 1 .. Len(inbox) /\ n <= BufferSize
      /\ line' = line \o read_buffer
      /\ read_buffer' = Take(inbox, n) /\ inbox' = Drop(inbox, n)
      /\ UNCHANGED <<op, ret, got, open>>
  BY DEF Feed
<1>3. UNCHANGED writeVars
  BY DEF Feed
<1>4. /\ Take(inbox, n) \in Seq(Byte) /\ Len(Take(inbox, n)) = n
      /\ Drop(inbox, n) \in Seq(Byte)
  <2>1. n \in 0 .. Len(inbox)
    BY <1>1, <1>2
  <2> QED
    BY <1>1, <2>1, CutFacts
<1>5. line' \in Seq(Byte)
  BY <1>1, <1>2, ConcatProperties
<1>6. got' \in Seq(Seq(Byte)) /\ ret' \in Int /\ open' \in BOOLEAN
  BY <1>2 DEF IInv, StreamTypeOK
<1>7. read_buffer' \in Seq(Byte) /\ inbox' \in Seq(Byte) /\ Len(read_buffer') <= BufferSize
  BY <1>2, <1>4
<1>8. op = op'
  BY <1>2
<1> QED
  BY <1>3, <1>5, <1>6, <1>7, <1>8, ReaderKeepsIInv

LEMMA FeedFailsKeepsIInv ==
  ASSUME IInv, FeedFails
  PROVE  IInv'
<1>1. /\ op = "read" /\ op' = "none" /\ line' = <<>> /\ read_buffer' = <<>> /\ ret' = -1
      /\ UNCHANGED <<inbox, got, open>>
  BY DEF FeedFails
<1>2. UNCHANGED writeVars
  BY DEF FeedFails
<1>3. /\ read_buffer' \in Seq(Byte) /\ inbox' \in Seq(Byte) /\ line' \in Seq(Byte)
      /\ got' \in Seq(Seq(Byte)) /\ ret' \in Int /\ open' \in BOOLEAN
      /\ Len(read_buffer') <= BufferSize /\ {op, op'} \subseteq {"none", "read"}
  BY <1>1, BufferSizeAssumption DEF IInv, StreamTypeOK
<1> QED
  BY <1>2, <1>3, ReaderKeepsIInv

----------------------------------------------------------------------------
(***************************************************************************)
(* The theorems.                                                           *)
(***************************************************************************)

LEMMA StutterKeepsIInv ==
  ASSUME IInv, UNCHANGED streamVars
  PROVE  IInv'
<1>1. UNCHANGED writeVars /\ UNCHANGED readVars /\ UNCHANGED <<op, ret>>
  BY DEF streamVars
<1> QED
  BY <1>1 DEF IInv, StreamTypeOK, DirectPart, TakenIsWritten, Written, writeVars, readVars

LEMMA LowLayerKeepsIInv ==
  ASSUME IInv, LowLayer
  PROVE  IInv'
<1>1. /\ (\A n \in 1 .. Len(write_buffer) : n \in Int)
      /\ (\A n \in 1 .. Len(left) : n \in Int)
      /\ (\A n \in 1 .. Len(inbox) : n \in Int)
  BY Types DEF IInv
<1> QED
  BY <1>1, FlushSomeKeepsIInv, FlushLastKeepsIInv, FlushFailsKeepsIInv,
     DirectSomeKeepsIInv, DirectLastKeepsIInv, DirectFailsKeepsIInv,
     LineEndsKeepsIInv, FeedEndsKeepsIInv, FeedFailsKeepsIInv, FeedKeepsIInv, Zenon
  DEF LowLayer

LEMMA NextKeepsIInv ==
  ASSUME IInv, [StreamNext]_streamVars
  PROVE  IInv'
<1>1. CASE \E bytes \in Seq(Byte) : Write(bytes)
  BY <1>1, WriteKeepsIInv
<1>2. CASE \E bytes \in Seq(Byte) : Arrive(bytes)
  BY <1>2, ArriveKeepsIInv
<1>3. ASSUME inbox' \in Seq(Byte) /\ Arrive(Drop(inbox', Len(inbox)))
      PROVE  \E bytes \in Seq(Byte) : Arrive(bytes)
  <2> DEFINE bytes == Drop(inbox', Len(inbox))
  <2>1. inbox' = inbox \o bytes /\ inbox \in Seq(Byte)
    BY <1>3, Types DEF Arrive, IInv
  <2>2. CASE Len(inbox) \in 0 .. Len(inbox')
    BY <1>3, <2>2, CutFacts
  <2>3. CASE Len(inbox) \notin 0 .. Len(inbox')
    <3>1. Len(inbox) \in Nat /\ Len(inbox') \in Nat /\ Len(inbox') < Len(inbox) + 1
      BY <1>3, <2>1, <2>3
    <3>2. bytes = <<>>
      BY <3>1, SubSeqEmpty DEF Drop
    <3>3. bytes \in Seq(Byte)
      BY <3>2, EmptySeq
    <3> QED
      BY <1>3, <3>3
  <2> QED
    BY <2>2, <2>3
<1> QED
  BY <1>1, <1>2, <1>3, FlushKeepsIInv, ReadLineKeepsIInv, LowLayerKeepsIInv,
     PeerClosesKeepsIInv, StutterKeepsIInv, Zenon
  DEF StreamNext

\* The invariant holds throughout.
LEMMA IInvInvariant == StreamSpec => []IInv
<1>1. IInv /\ [StreamNext]_streamVars => IInv'
  BY NextKeepsIInv
<1> QED
  BY <1>1, InitIInv, PTL DEF StreamSpec

\* The buffers of a stream stay within their size, whatever is written and however
\* much the network takes or brings at a time.
THEOREM StreamTypeCorrect == StreamSpec => []StreamTypeOK
<1>1. IInv => StreamTypeOK
  BY DEF IInv
<1> QED
  BY <1>1, IInvInvariant, PTL

\* No byte that mailstream_write has vouched for is lost, doubled or overtaken: the
\* flush that fails half-way keeps the rest, and write_direct counts what it wrote.
THEOREM TakenIsAlwaysWritten == StreamSpec => []TakenIsWritten
<1>1. IInv => TakenIsWritten
  BY DEF IInv
<1> QED
  BY <1>1, IInvInvariant, PTL
----------------------------------------------------------------------------
(***************************************************************************)
(* What a reader makes of a text, byte by byte.                            *)
(***************************************************************************)

EndAt(b, i) == StartsLine(b, i) /\ b[i] = DOT /\ b[i + 1] = CR /\ b[i + 2] = LF
UnAt(b, i) == IF b[i] = DOT /\ StartsLine(b, i) THEN <<>> ELSE <<b[i]>>
Undots(b) == [i \in 1 .. Len(b) |-> UnAt(b, i)]
Undot(b) == FlattenSeq(Undots(b))

\* A text so far: the next byte starts a line.
AtLineStart(b) == StartsLine(b, Len(b) + 1)
\* A text so far that has not ended, and would not if the line ended here.
GoesOn(b) == TextEnds(b) = {} /\ ~(Len(b) >= 1 /\ b[Len(b)] = DOT /\ StartsLine(b, Len(b)))

LEMMA ThreeOfOne ==
  ASSUME NEW S, NEW x \in S, NEW y \in S, NEW z \in S
  PROVE  <<x>> \o <<y, z>> = <<x, y, z>>
<1>1. <<x>> \in Seq(S) /\ <<y, z>> \in Seq(S) /\ <<x, y, z>> \in Seq(S)
  OBVIOUS
<1> DEFINE u == <<x>> \o <<y, z>>
           v == <<x, y, z>>
<1>2. u \in Seq(S) /\ Len(u) = 3 /\ u[1] = x /\ u[2] = y /\ u[3] = z
  <2>1. Len(<<x>>) = 1 /\ Len(<<y, z>>) = 2 /\ <<x>>[1] = x /\ <<y, z>>[1] = y /\ <<y, z>>[2] = z
    OBVIOUS
  <2> DEFINE p == <<x>>
             q == <<y, z>>
  <2>2. p \in Seq(S) /\ q \in Seq(S) /\ Len(p) = 1 /\ Len(q) = 2 /\ p[1] = x /\ q[1] = y /\ q[2] = z
    BY <1>1, <2>1
  <2> HIDE DEF p, q
  <2>3. /\ p \o q \in Seq(S) /\ Len(p \o q) = 3
        /\ (p \o q)[1] = p[1] /\ (p \o q)[2] = q[1] /\ (p \o q)[3] = q[2]
    <3>1. /\ p \o q \in Seq(S) /\ Len(p \o q) = Len(p) + Len(q)
          /\ \A i \in 1 .. Len(p) + Len(q) : (p \o q)[i] = IF i <= Len(p) THEN p[i] ELSE q[i - Len(p)]
      BY <2>2, ConcatProperties
    <3> DEFINE c == p \o q
    <3> HIDE DEF c
    <3>2. \A i \in 1 .. 3 : c[i] = IF i <= 1 THEN p[i] ELSE q[i - 1]
      BY <2>2, <3>1 DEF c
    <3>3. c[1] = p[1] /\ c[2] = q[2 - 1] /\ c[3] = q[3 - 1]
      BY <3>2
    <3> QED
      BY <2>2, <3>1, <3>3 DEF c
  <2> QED
    BY <2>2, <2>3 DEF p, q
<1>3. v \in Seq(S) /\ Len(v) = 3 /\ v[1] = x /\ v[2] = y /\ v[3] = z
  BY <1>1
<1>4. \A i \in 1 .. 3 : i = 1 \/ i = 2 \/ i = 3
  OBVIOUS
<1> HIDE DEF u, v
<1>5. \A i \in 1 .. 3 : u[i] = v[i]
  BY <1>2, <1>3, <1>4, Zenon
<1>6. u = v
  BY <1>2, <1>3, <1>5, SeqEqual
<1> QED
  BY <1>6 DEF u, v

LEMMA DotCrlf == <<DOT>> \o CRLF = <<DOT, CR, LF>>
<1>1. DOT \in Int /\ CR \in Int /\ LF \in Int
  BY DEF DOT, CR, LF
<1> QED
  BY <1>1, ThreeOfOne DEF CRLF

LEMMA ThreeOf ==
  ASSUME NEW S, NEW b \in Seq(S), NEW i \in 1 .. Len(b) - 2
  PROVE  SubSeq(b, i, i + 2) = <<b[i], b[i + 1], b[i + 2]>>
<1>1. Len(b) \in Nat /\ i \in Nat /\ i + 2 \in Int /\ i <= i + 2 /\ i + 2 - i + 1 = 3
  OBVIOUS
<1>2. \A j \in i .. i + 2 : j \in 1 .. Len(b)
  OBVIOUS
<1>3. \A j \in i .. i + 2 : b[j] \in S
  BY <1>2
<1> DEFINE s == SubSeq(b, i, i + 2)
<1>4. s \in Seq(S) /\ Len(s) = 3 /\ \A j \in 1 .. 3 : s[j] = b[i + j - 1]
  BY <1>1, <1>3, SubSeqProperties
<1>5. 1 \in 1 .. 3 /\ 2 \in 1 .. 3 /\ 3 \in 1 .. 3 /\ i + 1 - 1 = i /\ i + 2 - 1 = i + 1 /\ i + 3 - 1 = i + 2
  BY <1>1
<1> HIDE DEF s
<1>6. s[1] = b[i] /\ s[2] = b[i + 1] /\ s[3] = b[i + 2]
  BY <1>4, <1>5
<1>7. s = <<s[1], s[2], s[3]>>
  BY <1>4
<1> QED
  BY <1>6, <1>7 DEF s

LEMMA EndsIff ==
  ASSUME NEW S, NEW b \in Seq(S), NEW i
  PROVE  i \in TextEnds(b) <=> i \in 1 .. Len(b) - 2 /\ EndAt(b, i)
<1>1. ASSUME i \in 1 .. Len(b) - 2
      PROVE  SubSeq(b, i, i + 2) = <<DOT>> \o CRLF
               <=> b[i] = DOT /\ b[i + 1] = CR /\ b[i + 2] = LF
  <2> DEFINE x == b[i]
             y == b[i + 1]
             z == b[i + 2]
  <2>1. SubSeq(b, i, i + 2) = <<x, y, z>>
    BY <1>1, ThreeOf
  <2> HIDE DEF x, y, z
  <2>2. <<x, y, z>> = <<DOT, CR, LF>> <=> x = DOT /\ y = CR /\ z = LF
    OBVIOUS
  <2>3. SubSeq(b, i, i + 2) = <<DOT>> \o CRLF <=> x = DOT /\ y = CR /\ z = LF
    BY <2>1, <2>2, DotCrlf, Zenon
  <2> QED
    BY <2>3 DEF x, y, z
<1>2. i \in TextEnds(b)
        <=> i \in 1 .. Len(b) - 2 /\ StartsLine(b, i) /\ SubSeq(b, i, i + 2) = <<DOT>> \o CRLF
  BY DEF TextEnds
<1> QED
  BY <1>1, <1>2, Zenon DEF EndAt

\* Where a line starts depends on what is before it.
LEMMA SameStarts ==
  ASSUME NEW S, NEW b \in Seq(S), NEW y \in Seq(S), NEW i \in 1 .. Len(b) + 1
  PROVE  StartsLine(b \o y, i) <=> StartsLine(b, i)
<1>1. Len(b) \in Nat /\ \A j \in 1 .. Len(b) : (b \o y)[j] = b[j]
  OBVIOUS
<1>2. i > 2 => i - 2 \in 1 .. Len(b) /\ i - 1 \in 1 .. Len(b)
  BY <1>1
<1> QED
  BY <1>1, <1>2 DEF StartsLine

\* What has ended stays ended at the same place.
LEMMA SameEnds ==
  ASSUME NEW S, NEW b \in Seq(S), NEW y \in Seq(S), NEW i \in 1 .. Len(b) - 2
  PROVE  i \in TextEnds(b \o y) <=> i \in TextEnds(b)
<1>1. /\ Len(b) \in Nat /\ Len(y) \in Nat /\ b \o y \in Seq(S) /\ Len(b \o y) = Len(b) + Len(y)
      /\ \A j \in 1 .. Len(b) : (b \o y)[j] = b[j]
  BY ConcatProperties
<1>2. /\ i \in 1 .. Len(b) /\ i + 1 \in 1 .. Len(b) /\ i + 2 \in 1 .. Len(b)
      /\ i \in 1 .. Len(b) + 1 /\ i \in 1 .. Len(b \o y) - 2
  BY <1>1
<1>3. StartsLine(b \o y, i) <=> StartsLine(b, i)
  BY <1>2, SameStarts
<1>4. EndAt(b \o y, i) <=> EndAt(b, i)
  <2> DEFINE e == b \o y
  <2>1. e[i] = b[i] /\ e[i + 1] = b[i + 1] /\ e[i + 2] = b[i + 2] /\ (StartsLine(e, i) <=> StartsLine(b, i))
    BY <1>1, <1>2, <1>3
  <2> HIDE DEF e
  <2>2. EndAt(e, i) <=> EndAt(b, i)
    BY <2>1, Zenon DEF EndAt
  <2> QED
    BY <2>2 DEF e
<1> QED
  BY <1>1, <1>2, <1>4, EndsIff

\* One more byte.
LEMMA ByteFacts ==
  ASSUME NEW S, NEW b \in Seq(S), NEW c \in S
  PROVE  /\ b \o <<c>> \in Seq(S) /\ Len(b \o <<c>>) = Len(b) + 1
         /\ (b \o <<c>>)[Len(b) + 1] = c
         /\ \A j \in 1 .. Len(b) : (b \o <<c>>)[j] = b[j]
OBVIOUS

LEMMA ByteStart ==
  ASSUME NEW S, NEW b \in Seq(S), NEW c \in S
  PROVE  AtLineStart(b \o <<c>>) <=> Len(b) >= 1 /\ b[Len(b)] = CR /\ c = LF
<1> DEFINE e == b \o <<c>>
           n == Len(b)
<1>1. /\ n \in Nat /\ Len(e) = n + 1 /\ e[n + 1] = c
      /\ \A j \in 1 .. n : e[j] = b[j]
  OBVIOUS
<1> HIDE DEF e
<1>2. Len(e) + 1 # 1 /\ (Len(e) + 1 > 2 <=> n >= 1) /\ Len(e) + 1 - 2 = n /\ Len(e) + 1 - 1 = n + 1
  BY <1>1
<1>3. n >= 1 => e[n] = b[n]
  BY <1>1
<1>4. AtLineStart(e) <=> n >= 1 /\ e[n] = CR /\ e[n + 1] = LF
  BY <1>2 DEF AtLineStart, StartsLine
<1> QED
  BY <1>1, <1>3, <1>4 DEF e

LEMMA ByteEnds ==
  ASSUME NEW S, NEW b \in Seq(S), NEW c \in S
  PROVE  TextEnds(b \o <<c>>) =
           TextEnds(b) \cup
             {i \in {Len(b) - 1} : i >= 1 /\ StartsLine(b, i) /\ b[i] = DOT /\ b[i + 1] = CR /\ c = LF}
<1> DEFINE e == b \o <<c>>
           n == Len(b)
           last == {i \in {n - 1} : i >= 1 /\ StartsLine(b, i) /\ b[i] = DOT /\ b[i + 1] = CR /\ c = LF}
<1>1. /\ n \in Nat /\ e \in Seq(S) /\ Len(e) = n + 1 /\ e[n + 1] = c
      /\ \A j \in 1 .. n : e[j] = b[j]
      /\ <<c>> \in Seq(S)
  OBVIOUS
<1>2. ASSUME NEW i \in 1 .. n - 2 PROVE i \in TextEnds(e) <=> i \in TextEnds(b)
  BY <1>1, SameEnds
<1>3. ASSUME NEW i, i = n - 1, i >= 1
      PROVE  i \in TextEnds(e) <=> i \in last
  <2>1. /\ i \in 1 .. n /\ i + 1 \in 1 .. n /\ i + 2 = n + 1 /\ i \in 1 .. n + 1
        /\ i \in 1 .. Len(e) - 2
    BY <1>1, <1>3
  <2>2. StartsLine(e, i) <=> StartsLine(b, i)
    BY <1>1, <2>1, SameStarts
  <2>3. i \in TextEnds(e) <=> i \in 1 .. Len(e) - 2 /\ EndAt(e, i)
    BY <1>1, EndsIff
  <2> HIDE DEF e
  <2>4. e[i] = b[i] /\ e[i + 1] = b[i + 1] /\ e[i + 2] = c
    BY <1>1, <2>1
  <2>5. EndAt(e, i) <=> StartsLine(b, i) /\ b[i] = DOT /\ b[i + 1] = CR /\ c = LF
    BY <2>2, <2>4, Zenon DEF EndAt
  <2>6. i \in last <=> StartsLine(b, i) /\ b[i] = DOT /\ b[i + 1] = CR /\ c = LF
    BY <1>3, Zenon
  <2> QED
    BY <2>1, <2>3, <2>5, <2>6, Zenon
<1>4. ASSUME NEW i PROVE i \in TextEnds(e) => i \in 1 .. n - 2 \/ (i = n - 1 /\ i >= 1)
  <2>1. i \in TextEnds(e) => i \in 1 .. Len(e) - 2
    <3> HIDE DEF e
    <3> QED
      BY <1>1, EndsIff
  <2> HIDE DEF e, last
  <2> QED
    BY <1>1, <2>1
<1>5. ASSUME NEW i PROVE i \in TextEnds(b) => i \in 1 .. n - 2
  BY <1>1, EndsIff
<1>6. ASSUME NEW i PROVE i \in last => i = n - 1 /\ i >= 1
  OBVIOUS
<1>7. ASSUME NEW i PROVE i \in TextEnds(e) <=> i \in TextEnds(b) \/ i \in last
  <2>1. i \in 1 .. n - 2 => ~(i = n - 1)
    BY <1>1
  <2> HIDE DEF e, last
  <2> QED
    BY <1>2, <1>3, <1>4, <1>5, <1>6, <2>1, Zenon
<1> HIDE DEF e, last
<1>8. TextEnds(e) = TextEnds(b) \cup last
  BY <1>7
<1> QED
  BY <1>8 DEF e, last

LEMMA NoLineFeedEnds ==
  ASSUME NEW S, NEW b \in Seq(S), NEW c \in S, c # LF
  PROVE  TextEnds(b \o <<c>>) = TextEnds(b)
<1> DEFINE last == {i \in {Len(b) - 1} :
                      i >= 1 /\ StartsLine(b, i) /\ b[i] = DOT /\ b[i + 1] = CR /\ c = LF}
<1>1. TextEnds(b \o <<c>>) = TextEnds(b) \cup last
  BY ByteEnds
<1>2. last = {}
  OBVIOUS
<1> HIDE DEF last
<1> QED
  BY <1>1, <1>2

LEMMA UndotsTyped ==
  ASSUME NEW S, NEW b \in Seq(S)
  PROVE  /\ Undots(b) \in Seq(Seq(S)) /\ Len(Undots(b)) = Len(b)
         /\ Undot(b) \in Seq(S)
<1> DEFINE SS == Seq(S)
<1>1. Len(b) \in Nat
  OBVIOUS
<1>2. ASSUME NEW i \in 1 .. Len(b) PROVE UnAt(b, i) \in SS
  <2>1. b[i] \in S
    OBVIOUS
  <2>2. <<b[i]>> \in Seq(S) /\ <<>> \in Seq(S)
    BY <2>1
  <2> QED
    BY <2>2 DEF UnAt
<1>3. \A i \in 1 .. Len(b) : UnAt(b, i) \in SS
  BY <1>2
<1>4. Undots(b) \in Seq(SS) /\ Len(Undots(b)) = Len(b)
  <2> HIDE DEF SS
  <2> QED
    BY <1>1, <1>3 DEF Undots
<1>5. Undot(b) \in Seq(S)
  BY <1>4, FlattenTyped DEF Undot
<1> QED
  BY <1>4, <1>5

LEMMA ByteUndot ==
  ASSUME NEW S, NEW b \in Seq(S), NEW c \in S
  PROVE  Undot(b \o <<c>>) = Undot(b) \o (IF c = DOT /\ AtLineStart(b) THEN <<>> ELSE <<c>>)
<1> DEFINE e == b \o <<c>>
           n == Len(b)
           s == IF c = DOT /\ AtLineStart(b) THEN <<>> ELSE <<c>>
           SS == Seq(S)
           u == Append(Undots(b), s)
<1>1. /\ n \in Nat /\ e \in Seq(S) /\ Len(e) = n + 1 /\ e[n + 1] = c
      /\ \A j \in 1 .. n : e[j] = b[j]
      /\ <<c>> \in Seq(S) /\ <<>> \in Seq(S)
  OBVIOUS
<1>2. s \in SS
  BY <1>1
<1>3. /\ Undots(b) \in Seq(SS) /\ Len(Undots(b)) = n
      /\ Undots(e) \in Seq(SS) /\ Len(Undots(e)) = n + 1
  <2>1. Undots(b) \in Seq(SS) /\ Len(Undots(b)) = n
    BY UndotsTyped
  <2>2. Undots(e) \in Seq(SS) /\ Len(Undots(e)) = Len(e)
    <3> HIDE DEF e
    <3> QED
      BY <1>1, UndotsTyped
  <2> HIDE DEF e
  <2> QED
    BY <1>1, <2>1, <2>2
<1>4. ASSUME NEW i \in 1 .. n + 1 PROVE StartsLine(e, i) <=> StartsLine(b, i)
  BY <1>1, SameStarts
<1>5. ASSUME NEW i \in 1 .. n PROVE Undots(e)[i] = Undots(b)[i]
  <2>1. i \in 1 .. n + 1 /\ i \in 1 .. Len(e)
    BY <1>1
  <2>2. e[i] = b[i] /\ (StartsLine(e, i) <=> StartsLine(b, i))
    BY <1>1, <1>4, <2>1
  <2>3. Undots(e)[i] = UnAt(e, i)
    <3> HIDE DEF e
    <3> QED
      BY <2>1 DEF Undots
  <2>4. Undots(b)[i] = UnAt(b, i)
    BY DEF Undots
  <2> HIDE DEF e
  <2>5. UnAt(e, i) = UnAt(b, i)
    BY <2>2 DEF UnAt
  <2> QED
    BY <2>3, <2>4, <2>5
<1>6. Undots(e)[n + 1] = s
  <2>1. n + 1 \in 1 .. n + 1 /\ n + 1 \in 1 .. Len(e)
    BY <1>1
  <2>2. StartsLine(e, n + 1) <=> AtLineStart(b)
    BY <1>4, <2>1 DEF AtLineStart
  <2>3. Undots(e)[n + 1] = UnAt(e, n + 1)
    <3> HIDE DEF e, n
    <3> QED
      BY <2>1 DEF Undots
  <2> HIDE DEF e, n
  <2>4. UnAt(e, n + 1) = s
    BY <1>1, <2>2 DEF UnAt
  <2> QED
    BY <2>3, <2>4
<1>7. Undots(e) = u
  <2> DEFINE ue == Undots(e)
             ub == Undots(b)
  <2> HIDE DEF e, s, SS, n, ue, ub
  <2>1. ub \in Seq(SS) /\ Len(ub) = n /\ ue \in Seq(SS) /\ Len(ue) = n + 1
    BY <1>3 DEF ue, ub
  <2>2. \A i \in 1 .. n : ue[i] = ub[i]
    BY <1>5 DEF ue, ub
  <2>3. ue[n + 1] = s
    BY <1>6 DEF ue
  <2>4. /\ Append(ub, s) \in Seq(SS) /\ Len(Append(ub, s)) = n + 1
        /\ Append(ub, s)[n + 1] = s /\ \A i \in 1 .. n : Append(ub, s)[i] = ub[i]
    BY <1>1, <1>2, <2>1
  <2>5. \A i \in 1 .. n + 1 : i \in 1 .. n \/ i = n + 1
    BY <1>1
  <2>6. \A i \in 1 .. n + 1 : ue[i] = Append(ub, s)[i]
    BY <2>2, <2>3, <2>4, <2>5
  <2>7. ue = Append(ub, s)
    BY <2>1, <2>4, <2>6, SeqEqual
  <2> QED
    BY <2>7 DEF ue, ub
<1> HIDE DEF e, s
<1>8. FlattenSeq(Append(Undots(b), s)) = FlattenSeq(Undots(b)) \o s
  BY <1>2, <1>3, FlattenAppend
<1>9. Undot(e) = Undot(b) \o s
  BY <1>7, <1>8 DEF Undot
<1> QED
  BY <1>9 DEF e, s

\* A byte that is no line end, nor a dot at the start of a line.
LEMMA PlainByte ==
  ASSUME NEW S, NEW b \in Seq(S), NEW c \in S, c \notin {CR, LF}
  PROVE  /\ TextEnds(b \o <<c>>) = TextEnds(b)
         /\ ~AtLineStart(b \o <<c>>)
         /\ TextEnds(b) = {} /\ (c = DOT => ~AtLineStart(b)) =>
              /\ GoesOn(b \o <<c>>)
              /\ Undot(b \o <<c>>) = Undot(b) \o <<c>>
<1> DEFINE e == b \o <<c>>
           n == Len(b)
<1>1. n \in Nat /\ e \in Seq(S) /\ Len(e) = n + 1 /\ e[n + 1] = c /\ <<c>> \in Seq(S)
  OBVIOUS
<1>2. TextEnds(e) = TextEnds(b)
  BY NoLineFeedEnds
<1>3. ~AtLineStart(e)
  BY ByteStart
<1>4. StartsLine(e, n + 1) <=> AtLineStart(b)
  <2>1. n + 1 \in 1 .. n + 1
    BY <1>1
  <2> QED
    BY <1>1, <2>1, SameStarts DEF AtLineStart
<1>5. ASSUME TextEnds(b) = {}, c = DOT => ~AtLineStart(b)
      PROVE  GoesOn(e) /\ Undot(e) = Undot(b) \o <<c>>
  <2>1. Undot(e) = Undot(b) \o <<c>>
    BY <1>5, ByteUndot
  <2> HIDE DEF e
  <2>2. GoesOn(e)
    BY <1>1, <1>2, <1>4, <1>5 DEF GoesOn
  <2> QED
    BY <2>1, <2>2
<1> QED
  BY <1>2, <1>3, <1>5

\* A CR: no text ends with it.
LEMMA ReturnByte ==
  ASSUME NEW S, CR \in S, NEW b \in Seq(S)
  PROVE  /\ TextEnds(b \o <<CR>>) = TextEnds(b)
         /\ Undot(b \o <<CR>>) = Undot(b) \o <<CR>>
<1>1. CR # LF /\ CR # DOT
  BY DEF CR, LF, DOT
<1>2. TextEnds(b \o <<CR>>) = TextEnds(b)
  BY <1>1, NoLineFeedEnds
<1>3. Undot(b \o <<CR>>) = Undot(b) \o <<CR>>
  BY <1>1, ByteUndot
<1> QED
  BY <1>2, <1>3

\* A line end.
LEMMA LineEndBytes ==
  ASSUME NEW S, {CR, LF} \subseteq S, NEW b \in Seq(S)
  PROVE  /\ b \o CRLF \in Seq(S) /\ Len(b \o CRLF) = Len(b) + 2
         /\ AtLineStart(b \o CRLF)
         /\ TextEnds(b \o CRLF) =
              TextEnds(b) \cup {i \in {Len(b)} : i >= 1 /\ StartsLine(b, i) /\ b[i] = DOT}
         /\ Undot(b \o CRLF) = Undot(b) \o CRLF
         /\ GoesOn(b) => GoesOn(b \o CRLF)
<1> DEFINE e == b \o <<CR>>
           g == e \o <<LF>>
           n == Len(b)
           u == Undot(b)
<1>1. /\ n \in Nat /\ e \in Seq(S) /\ Len(e) = n + 1 /\ e[n + 1] = CR
      /\ \A j \in 1 .. n : e[j] = b[j]
      /\ <<CR>> \in Seq(S) /\ <<LF>> \in Seq(S) /\ u \in Seq(S)
  BY UndotsTyped
<1>2. CR # LF /\ CR # DOT /\ LF # DOT
  BY DEF CR, LF, DOT
<1>3. <<CR>> \o <<LF>> = CRLF
  BY PairOf DEF CRLF
<1>a. \A x, y, z \in Seq(S) : (x \o y) \o z = x \o (y \o z)
  BY AssociativeIn, SMTT(30)
<1>4. g = b \o CRLF
  <2> HIDE DEF n, u
  <2>1. (b \o <<CR>>) \o <<LF>> = b \o (<<CR>> \o <<LF>>)
    BY <1>1, <1>a, Zenon
  <2> QED
    BY <1>3, <2>1
<1>5. TextEnds(e) = TextEnds(b) /\ Undot(e) = u \o <<CR>>
  BY ReturnByte
<1> HIDE DEF e
<1>6. g \in Seq(S) /\ Len(g) = n + 2 /\ g[n + 2] = LF
  BY <1>1
<1>7. AtLineStart(g)
  BY <1>1, ByteStart
<1>8. TextEnds(g) = TextEnds(e) \cup {i \in {n} : i >= 1 /\ StartsLine(b, i) /\ b[i] = DOT}
  <2>1. TextEnds(g) = TextEnds(e) \cup
          {i \in {n + 1 - 1} : i >= 1 /\ StartsLine(e, i) /\ e[i] = DOT /\ e[i + 1] = CR /\ LF = LF}
    BY <1>1, ByteEnds
  <2>2. n + 1 - 1 = n
    BY <1>1
  <2>3. ASSUME n >= 1
        PROVE  StartsLine(e, n) /\ e[n] = DOT /\ e[n + 1] = CR <=> StartsLine(b, n) /\ b[n] = DOT
    <3>1. n \in 1 .. n + 1 /\ n \in 1 .. n
      BY <1>1, <2>3
    <3>2. StartsLine(e, n) <=> StartsLine(b, n)
      BY <1>1, <3>1, SameStarts DEF e
    <3> QED
      BY <1>1, <3>1, <3>2
  <2> HIDE DEF g
  <2> QED
    BY <2>1, <2>2, <2>3
<1>9. Undot(g) = u \o CRLF
  <2>1. Undot(g) = Undot(e) \o <<LF>>
    BY <1>1, <1>2, ByteUndot
  <2> HIDE DEF u
  <2>2. (u \o <<CR>>) \o <<LF>> = u \o (<<CR>> \o <<LF>>)
    BY <1>1, <1>a, Zenon
  <2> QED
    BY <1>3, <1>5, <2>1, <2>2
<1>10. ASSUME GoesOn(b) PROVE GoesOn(g)
  <2>1. TextEnds(g) = {}
    BY <1>5, <1>8, <1>10 DEF GoesOn
  <2> HIDE DEF g
  <2> QED
    BY <1>2, <1>6, <2>1 DEF GoesOn
<1> HIDE DEF g, u
<1> QED
  BY <1>4, <1>5, <1>6, <1>7, <1>8, <1>9, <1>10 DEF u

\* A dot at the start of a line goes out twice, and comes in once.
LEMMA StuffedDot ==
  ASSUME NEW S, DOT \in S, NEW b \in Seq(S), GoesOn(b), AtLineStart(b)
  PROVE  LET e == b \o (<<DOT>> \o <<DOT>>) IN
         e \in Seq(S) /\ GoesOn(e) /\ ~AtLineStart(e) /\ Undot(e) = Undot(b) \o <<DOT>>
<1> DEFINE e == b \o <<DOT>>
           g == e \o <<DOT>>
           u == Undot(b)
<1>1. /\ e \in Seq(S) /\ <<DOT>> \in Seq(S) /\ u \in Seq(S)
      /\ DOT # CR /\ DOT # LF /\ DOT \notin {CR, LF}
  BY UndotsTyped DEF DOT, CR, LF
<1>2. TextEnds(e) = {} /\ ~AtLineStart(e)
  BY <1>1, PlainByte DEF GoesOn
<1>3. Undot(e) = u
  <2>1. Undot(e) = u \o <<>>
    BY ByteUndot
  <2> HIDE DEF u, e
  <2> QED
    BY <1>1, <2>1, ConcatEmptySeq
<1> HIDE DEF e
<1>4. GoesOn(g) /\ ~AtLineStart(g) /\ Undot(g) = u \o <<DOT>> /\ g \in Seq(S)
  BY <1>1, <1>2, <1>3, PlainByte
<1>5. \A x, y, z \in Seq(S) : (x \o y) \o z = x \o (y \o z)
  BY AssociativeIn, SMTT(30)
<1>6. g = b \o (<<DOT>> \o <<DOT>>)
  BY <1>1, <1>5, Zenon DEF e
<1> HIDE DEF g
<1> QED
  BY <1>4, <1>6 DEF u

\* What goes out for the first j characters.
Out(t, j) == FlattenSeq(Take(Pieces(t, TRUE), j))
Canon(t, j) == FlattenSeq(Take(Canons(t), j))

TextSoFar(t, j) ==
  /\ Out(t, j) \in Seq(Byte) /\ Undot(Out(t, j)) = Canon(t, j) /\ GoesOn(Out(t, j))
  /\ j = 0 => AtLineStart(Out(t, j))
  /\ j >= 1 /\ ~IsPair(t, j) => (AtLineStart(Out(t, j)) <=> IsEnd(t[j]))

LEMMA TextGoesOn ==
  ASSUME {CR, LF, DOT} \subseteq Byte, NEW t \in Seq(Byte), NEW j \in 0 .. Len(t) - 1,
         TextSoFar(t, j), NEW k \in Nat, k = j + 1
  PROVE  TextSoFar(t, k)
<1> DEFINE o == Out(t, j)
           c == Canon(t, j)
           p == PieceAt(t, TRUE, k)
           q == CanonAt(t, k)
<1>1. /\ Len(t) \in Nat /\ j \in Nat /\ k \in 1 .. Len(t) /\ k >= 1 /\ k # 0 /\ (k = 1 <=> j = 0)
      /\ k - 1 = j /\ (j # 0 => j >= 1) /\ t[k] \in Byte
  OBVIOUS
<1>2. Pieces(t, TRUE) \in Seq(Seq(Byte)) /\ Canons(t) \in Seq(Seq(Byte))
      /\ Len(Pieces(t, TRUE)) = Len(t) /\ Len(Canons(t)) = Len(t)
  BY PiecesTyped
<1>3. Pieces(t, TRUE)[k] = p /\ Canons(t)[k] = q
  BY <1>1 DEF Pieces, Canons
<1>4. Out(t, k) = o \o p /\ p \in Seq(Byte)
  <2> DEFINE ps == Pieces(t, TRUE)
  <2> HIDE DEF ps, p
  <2>1. ps \in Seq(Seq(Byte)) /\ Len(ps) = Len(t) /\ ps[k] = p
    BY <1>2, <1>3 DEF ps
  <2>2. /\ Take(ps, j) \in Seq(Seq(Byte)) /\ ps[j + 1] \in Seq(Byte)
        /\ Take(ps, j + 1) = Append(Take(ps, j), ps[j + 1])
    BY <2>1, TakeOneMore
  <2>3. FlattenSeq(Append(Take(ps, j), p)) = FlattenSeq(Take(ps, j)) \o p
    BY <2>1, <2>2, FlattenAppend
  <2> QED
    BY <2>1, <2>2, <2>3 DEF Out, ps
<1>5. Canon(t, k) = c \o q /\ q \in Seq(Byte)
  <2> DEFINE ps == Canons(t)
  <2> HIDE DEF ps, q
  <2>1. ps \in Seq(Seq(Byte)) /\ Len(ps) = Len(t) /\ ps[k] = q
    BY <1>2, <1>3 DEF ps
  <2>2. /\ Take(ps, j) \in Seq(Seq(Byte)) /\ ps[j + 1] \in Seq(Byte)
        /\ Take(ps, j + 1) = Append(Take(ps, j), ps[j + 1])
    BY <2>1, TakeOneMore
  <2>3. FlattenSeq(Append(Take(ps, j), q)) = FlattenSeq(Take(ps, j)) \o q
    BY <2>1, <2>2, FlattenAppend
  <2> QED
    BY <2>1, <2>2, <2>3 DEF Canon, ps
<1>6. /\ o \in Seq(Byte) /\ Undot(o) = c /\ GoesOn(o) /\ TextEnds(o) = {}
      /\ j = 0 => AtLineStart(o)
      /\ j >= 1 /\ ~IsPair(t, j) => (AtLineStart(o) <=> IsEnd(t[j]))
  BY DEF TextSoFar, GoesOn
<1>7. DOT # CR /\ DOT # LF /\ CR # LF
  BY DEF DOT, CR, LF
<1>8. t[k] # LF => ~IsPair(t, j)
  BY DEF IsPair
<1>9. c \in Seq(Byte)
  BY <1>6, UndotsTyped
<1>10. CASE IsPair(t, k)
  <2>1. p = <<>> /\ q = <<>>
    BY <1>7, <1>10 DEF IsPair, PieceAt, CanonAt
  <2> HIDE DEF o, c, p, q
  <2>2. o \o p = o /\ c \o q = c
    BY <1>6, <1>9, <2>1, ConcatEmptySeq
  <2> QED
    BY <1>1, <1>4, <1>5, <1>6, <1>10, <2>2 DEF TextSoFar
<1>11. CASE IsEnd(t[k]) /\ ~IsPair(t, k)
  <2>1. p = CRLF /\ q = CRLF
    BY <1>7, <1>11 DEF IsPair, IsEnd, PieceAt, CanonAt
  <2> HIDE DEF o, c, p, q
  <2>2. o \o CRLF \in Seq(Byte) /\ AtLineStart(o \o CRLF) /\ Undot(o \o CRLF) = Undot(o) \o CRLF
        /\ GoesOn(o \o CRLF)
    BY <1>6, LineEndBytes
  <2> QED
    BY <1>1, <1>4, <1>5, <1>6, <1>11, <2>1, <2>2 DEF TextSoFar
<1>12. CASE ~IsEnd(t[k])
  <2>1. t[k] # CR /\ t[k] # LF /\ t[k] \notin {CR, LF} /\ ~IsPair(t, j)
    BY <1>8, <1>12 DEF IsEnd
  <2>2. q = <<t[k]>>
    BY <2>1 DEF CanonAt
  <2>3. CASE t[k] = DOT /\ (k = 1 \/ IsEnd(t[k - 1]))
    <3>1. p = <<DOT>> \o <<DOT>> /\ q = <<DOT>>
      BY <2>2, <2>3 DEF PieceAt
    <3>2. AtLineStart(o)
      BY <1>1, <1>6, <2>1, <2>3
    <3> HIDE DEF o, c, p, q
    <3>3. LET e == o \o (<<DOT>> \o <<DOT>>) IN
          e \in Seq(Byte) /\ GoesOn(e) /\ ~AtLineStart(e) /\ Undot(e) = Undot(o) \o <<DOT>>
      BY <1>6, <3>2, StuffedDot
    <3> QED
      BY <1>1, <1>4, <1>5, <1>6, <1>12, <3>1, <3>3 DEF TextSoFar
  <2>4. CASE ~(t[k] = DOT /\ (k = 1 \/ IsEnd(t[k - 1])))
    <3>1. p = <<t[k]>>
      BY <2>2, <2>4 DEF PieceAt
    <3>2. t[k] = DOT => ~AtLineStart(o)
      BY <1>1, <1>6, <2>1, <2>4
    <3> DEFINE x == t[k]
    <3>3. x \in Byte /\ x \notin {CR, LF} /\ (x = DOT => ~AtLineStart(o)) /\ p = <<x>> /\ q = <<x>>
      BY <1>1, <2>1, <2>2, <3>1, <3>2
    <3> HIDE DEF o, c, p, q, x
    <3>4. o \o <<x>> \in Seq(Byte)
      BY <1>6, <3>3, ByteFacts
    <3>5. ~AtLineStart(o \o <<x>>) /\ GoesOn(o \o <<x>>) /\ Undot(o \o <<x>>) = Undot(o) \o <<x>>
      BY <1>6, <3>3, PlainByte
    <3> QED
      BY <1>1, <1>4, <1>5, <1>6, <1>12, <3>3, <3>4, <3>5 DEF TextSoFar
  <2> QED
    BY <2>3, <2>4
<1> QED
  BY <1>10, <1>11, <1>12

\* What is sent for a quoted text, but for the end, reads as the text in its canonical
\* form, and has not ended.
LEMMA QuotedText ==
  ASSUME {CR, LF, DOT} \subseteq Byte, NEW t \in Seq(Byte)
  PROVE  LET q == FlattenSeq(DataWrites(t, TRUE)) IN
         q \in Seq(Byte) /\ GoesOn(q) /\ Undot(q) = Canonical(t)
<1> DEFINE G == {k \in Nat : k \in 0 .. Len(t) => TextSoFar(t, k)}
           n == Len(t)
<1>1. n \in Nat /\ n \in 0 .. n
  OBVIOUS
<1>2. 0 \in G
  <2>1. Out(t, 0) = <<>> /\ Canon(t, 0) = <<>>
    BY TakeNone, FlattenEmpty DEF Out, Canon
  <2>2. <<>> \in Seq(Byte) /\ Len(<<>>) = 0
    OBVIOUS
  <2>3. Undots(<<>>) = <<>>
    <3> DEFINE SS == Seq(Byte)
    <3>1. Undots(<<>>) \in Seq(SS) /\ Len(Undots(<<>>)) = 0
      BY <2>2, UndotsTyped
    <3> HIDE DEF SS
    <3> QED
      BY <3>1, EmptySeq
  <2>4. Undot(<<>>) = <<>>
    BY <2>3, FlattenEmpty DEF Undot
  <2>5. TextEnds(<<>>) = {}
    <3>1. \A i : i \in TextEnds(<<>>) => i \in 1 .. Len(<<>>) - 2
      BY <2>2, EndsIff
    <3>2. 1 .. Len(<<>>) - 2 = {}
      BY <2>2
    <3> QED
      BY <3>1, <3>2, Zenon
  <2>6. GoesOn(<<>>) /\ AtLineStart(<<>>)
    BY <2>2, <2>5 DEF GoesOn, AtLineStart, StartsLine
  <2>7. TextSoFar(t, 0)
    <3>1. /\ Out(t, 0) \in Seq(Byte) /\ Undot(Out(t, 0)) = Canon(t, 0) /\ GoesOn(Out(t, 0))
          /\ AtLineStart(Out(t, 0))
      BY <2>1, <2>2, <2>4, <2>6, Zenon
    <3>2. ~(0 >= 1)
      OBVIOUS
    <3> QED
      BY <3>1, <3>2, Zenon DEF TextSoFar
  <2> QED
    BY <2>7
<1>3. ASSUME NEW j \in 0 .. n - 1, j \in G PROVE j + 1 \in G
  <2>1. PICK k \in Nat : k = j + 1
    OBVIOUS
  <2>2. j \in 0 .. Len(t)
    BY <1>1
  <2>3. TextSoFar(t, j)
    BY <1>3, <2>2
  <2>4. TextSoFar(t, k)
    BY <2>1, <2>3, TextGoesOn
  <2>5. k \in G
    BY <2>4
  <2> HIDE DEF G
  <2> QED
    BY <2>1, <2>5
<1>4. TextSoFar(t, n)
  <2>1. n \in G
    <3> HIDE DEF G
    <3> QED
      BY <1>1, <1>2, <1>3, UpTo
  <2> QED
    BY <1>1, <2>1
<1>5. Out(t, n) = FlattenSeq(Pieces(t, TRUE)) /\ Canon(t, n) = FlattenSeq(Canons(t))
  <2>1. /\ Pieces(t, TRUE) \in Seq(Seq(Byte)) /\ Canons(t) \in Seq(Seq(Byte))
        /\ Len(Pieces(t, TRUE)) = n /\ Len(Canons(t)) = n
    BY PiecesTyped
  <2>2. Take(Pieces(t, TRUE), n) = Pieces(t, TRUE)
    BY <2>1, TakeEnds
  <2>3. Take(Canons(t), n) = Canons(t)
    BY <2>1, TakeEnds
  <2> QED
    BY <2>2, <2>3 DEF Out, Canon
<1>6. FlattenSeq(DataWrites(t, TRUE)) = FlattenSeq(Pieces(t, TRUE))
  BY DataWritesFlat
<1>7. Canonical(t) = FlattenSeq(Canons(t))
  BY CanonicalIsCanons
<1> QED
  BY <1>4, <1>5, <1>6, <1>7 DEF TextSoFar

\* The message with its end: the text ends there and nowhere before, and the server
\* reads the message in its canonical form and one more line end.
LEMMA EndOfTextParts == EndOfText = CRLF \o (<<DOT>> \o CRLF)
<1>1. <<DOT>> \o CRLF = <<DOT, CR, LF>>
  BY DotCrlf
<1>2. DOT \in Int /\ CR \in Int /\ LF \in Int
  BY DEF DOT, CR, LF
<1> DEFINE p == <<CR, LF>>
           q == <<DOT, CR, LF>>
           w == <<CR, LF, DOT, CR, LF>>
<1>3. /\ p \in Seq(Int) /\ Len(p) = 2 /\ p[1] = CR /\ p[2] = LF
      /\ q \in Seq(Int) /\ Len(q) = 3 /\ q[1] = DOT /\ q[2] = CR /\ q[3] = LF
      /\ w \in Seq(Int) /\ Len(w) = 5
      /\ w[1] = CR /\ w[2] = LF /\ w[3] = DOT /\ w[4] = CR /\ w[5] = LF
  BY <1>2
<1> HIDE DEF p, q, w
<1>4. /\ p \o q \in Seq(Int) /\ Len(p \o q) = Len(p) + Len(q)
      /\ \A i \in 1 .. Len(p) + Len(q) : (p \o q)[i] = IF i <= Len(p) THEN p[i] ELSE q[i - Len(p)]
  BY <1>3, ConcatProperties
<1> DEFINE c == p \o q
<1> HIDE DEF c
<1>a. Len(p) = 2 /\ Len(p) + Len(q) = 5
  BY <1>3
<1>5. \A i \in 1 .. 5 : c[i] = IF i <= 2 THEN p[i] ELSE q[i - 2]
  <2>1. \A i \in 1 .. Len(p) + Len(q) : c[i] = IF i <= Len(p) THEN p[i] ELSE q[i - Len(p)]
    BY <1>4 DEF c
  <2> QED
    BY <1>a, <2>1
<1>6. c[1] = p[1] /\ c[2] = p[2] /\ c[3] = q[3 - 2] /\ c[4] = q[4 - 2] /\ c[5] = q[5 - 2]
  BY <1>5
<1>7. 3 - 2 = 1 /\ 4 - 2 = 2 /\ 5 - 2 = 3 /\ \A i \in 1 .. 5 : i = 1 \/ i = 2 \/ i = 3 \/ i = 4 \/ i = 5
  OBVIOUS
<1>8. c[1] = w[1] /\ c[2] = w[2] /\ c[3] = w[3] /\ c[4] = w[4] /\ c[5] = w[5]
  BY <1>3, <1>6, <1>7
<1>9. \A i \in 1 .. 5 : c[i] = w[i]
  BY <1>7, <1>8, Zenon
<1>10. c \in Seq(Int) /\ Len(c) = 5
  BY <1>3, <1>4 DEF c
<1>11. c = w
  BY <1>3, <1>9, <1>10, SeqEqual
<1> QED
  BY <1>1, <1>11 DEF c, p, q, w, EndOfText, CRLF

Unended(t) == FlattenSeq(DataWrites(t, TRUE))
Whole(t) == Unended(t) \o EndOfText

LEMMA WholeText ==
  ASSUME {CR, LF, DOT} \subseteq Byte, NEW t \in Seq(Byte)
  PROVE  LET q == Unended(t)
             w == Whole(t) IN
         /\ q \in Seq(Byte) /\ TextEnds(q) = {}
         /\ EndOfText \in Seq(Byte) /\ w \in Seq(Byte) /\ Len(w) = Len(q) + 5
         /\ TextEnds(w) = {Len(w) - 2}
         /\ Take(w, Len(w) - 3) = q \o CRLF /\ Undot(q \o CRLF) = Canonical(t) \o CRLF
<1> DEFINE q == Unended(t)
           g == q \o CRLF
           d == g \o <<DOT>>
           w == d \o CRLF
<1>1. q \in Seq(Byte) /\ GoesOn(q) /\ Undot(q) = Canonical(t)
  BY QuotedText DEF Unended
<1>2. CRLF \in Seq(Byte) /\ <<DOT>> \in Seq(Byte) /\ Len(CRLF) = 2 /\ Len(q) \in Nat
  BY <1>1 DEF CRLF
<1>3. TextEnds(q) = {}
  BY <1>1 DEF GoesOn
<1>4. w = Whole(t) /\ EndOfText \in Seq(Byte) /\ w = g \o (<<DOT>> \o CRLF)
  <2>1. \A x, y, z \in Seq(Byte) : (x \o y) \o z = x \o (y \o z)
    BY Associative
  <2>2. g \in Seq(Byte) /\ <<DOT>> \o CRLF \in Seq(Byte)
    <3> HIDE DEF q
    <3> QED
      BY <1>1, <1>2, ConcatProperties
  <2> HIDE DEF q
  <2>3. CRLF \o (<<DOT>> \o CRLF) \in Seq(Byte)
    BY <1>2, <2>2, ConcatProperties
  <2>4. d \o CRLF = g \o (<<DOT>> \o CRLF)
    <3> HIDE DEF g
    <3> QED
      BY <1>2, <2>1, <2>2, ZenonT(30)
  <2>5. g \o (<<DOT>> \o CRLF) = q \o (CRLF \o (<<DOT>> \o CRLF))
    BY <1>1, <1>2, <2>1, <2>2, Zenon
  <2> QED
    BY <2>3, <2>4, <2>5, EndOfTextParts, Zenon DEF Whole, q
<1> HIDE DEF q
<1>5. /\ g \in Seq(Byte) /\ Len(g) = Len(q) + 2 /\ AtLineStart(g)
      /\ Undot(g) = Undot(q) \o CRLF /\ TextEnds(g) = {}
  BY <1>1, LineEndBytes DEF GoesOn
<1> HIDE DEF g
<1>6. TextEnds(d) = {} /\ d \in Seq(Byte) /\ Len(d) = Len(g) + 1 /\ d[Len(g) + 1] = DOT
  <2>1. DOT # LF
    BY DEF DOT, LF
  <2> QED
    BY <1>5, <2>1, NoLineFeedEnds
<1>7. StartsLine(d, Len(g) + 1)
  <2>1. Len(g) + 1 \in 1 .. Len(g) + 1
    BY <1>5
  <2>2. StartsLine(g, Len(g) + 1)
    BY <1>5 DEF AtLineStart
  <2> QED
    BY <1>2, <1>5, <2>1, <2>2, SameStarts
<1> HIDE DEF d
<1>8. /\ w \in Seq(Byte) /\ Len(w) = Len(d) + 2
      /\ TextEnds(w) = TextEnds(d) \cup {i \in {Len(d)} : i >= 1 /\ StartsLine(d, i) /\ d[i] = DOT}
  BY <1>6, LineEndBytes
<1>9. TextEnds(w) = {Len(d)}
  <2>1. Len(d) >= 1 /\ StartsLine(d, Len(d)) /\ d[Len(d)] = DOT
    BY <1>2, <1>5, <1>6, <1>7
  <2> QED
    BY <1>6, <1>8, <2>1
<1>10. Len(w) = Len(q) + 5 /\ Len(w) - 2 = Len(d) /\ Len(w) - 3 = Len(g)
  <2> HIDE DEF w
  <2> QED
    BY <1>2, <1>5, <1>6, <1>8
<1>11. Take(w, Len(g)) = g
  <2> DEFINE z == <<DOT>> \o CRLF
  <2>1. z \in Seq(Byte)
    BY <1>2, ConcatProperties
  <2>2. Take(g \o z, Len(g)) = g
    <3> HIDE DEF z
    <3> QED
      BY <1>5, <2>1, TakeOfConcat
  <2> QED
    BY <1>4, <2>2
<1>12. Take(w, Len(w) - 3) = g /\ TextEnds(w) = {Len(w) - 2}
  BY <1>9, <1>10, <1>11
<1> HIDE DEF w
<1> QED
  BY <1>1, <1>3, <1>4, <1>5, <1>8, <1>10, <1>12 DEF g, q

\* What starts with the whole text, and has no other end, reads as the message.
LEMMA WholeIsReceived ==
  ASSUME {CR, LF, DOT} \subseteq Byte, NEW t \in Seq(Byte), NEW b \in Seq(Byte),
         Len(Whole(t)) <= Len(b), Take(b, Len(Whole(t))) = Whole(t),
         TextEnds(b) = {Len(Whole(t)) - 2}
  PROVE  TextReceived(b) = Canonical(t) \o CRLF
<1> DEFINE q == Unended(t)
           w == Whole(t)
           m == Len(w) - 3
<1>1. /\ q \in Seq(Byte) /\ w \in Seq(Byte) /\ Len(w) = Len(q) + 5
      /\ Take(w, m) = q \o CRLF /\ Undot(q \o CRLF) = Canonical(t) \o CRLF
  BY WholeText
<1> HIDE DEF q, w
<1>2. Len(w) \in Nat /\ Len(q) \in Nat /\ Len(b) \in Nat /\ Len(w) <= Len(b)
      /\ Take(b, Len(w)) = w /\ TextEnds(b) = {Len(w) - 2}
  BY <1>1 DEF w
<1>3. Min(TextEnds(b)) = Len(w) - 2
  <2> DEFINE x == Len(w) - 2
  <2>1. x \in Nat /\ TextEnds(b) = {x}
    <3>1. Len(w) = Len(q) + 5
      BY <1>1
    <3>2. x \in Nat
      BY <1>2, <3>1
    <3>3. TextEnds(b) = {x}
      BY <1>2, Zenon
    <3> QED
      BY <3>2, <3>3
  <2> HIDE DEF x
  <2>2. {x} \subseteq Nat /\ {x} # {}
    BY <2>1
  <2>3. Min({x}) \in {x}
    BY <2>2, MinIsLeast
  <2> QED
    BY <2>1, <2>3 DEF x
<1>4. Min(TextEnds(b)) - 1 = m
  BY <1>1, <1>2, <1>3
<1>5. Take(b, m) = Take(w, m)
  <2>1. m \in 0 .. Len(w) /\ m \in 0 .. Len(b) /\ Len(w) \in 0 .. Len(b) /\ \A j \in 1 .. m : j \in 1 .. Len(w)
    BY <1>1, <1>2
  <2> HIDE DEF m
  <2>2. /\ Take(b, m) \in Seq(Byte) /\ Len(Take(b, m)) = m /\ \A j \in 1 .. m : Take(b, m)[j] = b[j]
        /\ Take(w, m) \in Seq(Byte) /\ Len(Take(w, m)) = m /\ \A j \in 1 .. m : Take(w, m)[j] = w[j]
        /\ \A j \in 1 .. Len(w) : Take(b, Len(w))[j] = b[j]
    BY <1>1, <2>1, TakeElements
  <2>3. \A j \in 1 .. Len(w) : w[j] = b[j]
    BY <1>2, <2>2
  <2>4. \A j \in 1 .. m : Take(b, m)[j] = Take(w, m)[j]
    BY <2>1, <2>2, <2>3
  <2> QED
    BY <2>2, <2>4, SeqEqual
<1> DEFINE s == SubSeq(b, 1, Min(TextEnds(b)) - 1)
<1>6. s = q \o CRLF
  BY <1>1, <1>4, <1>5 DEF Take
<1>7. TextReceived(b) = Undot(s)
  BY DEF TextReceived, Undot, Undots, UnAt
<1> HIDE DEF s
<1> QED
  BY <1>1, <1>6, <1>7

\* A prefix of what has not ended, or has ended behind it, has not ended.
LEMMA PrefixEnds ==
  ASSUME NEW S, NEW b \in Seq(S), NEW y \in Seq(S)
  PROVE  TextEnds(b) \subseteq TextEnds(b \o y)
<1> SUFFICES ASSUME NEW i \in TextEnds(b) PROVE i \in TextEnds(b \o y)
  OBVIOUS
<1>1. i \in 1 .. Len(b) - 2
  BY EndsIff
<1> QED
  BY <1>1, SameEnds

\* A command neither ends a text nor moves its end.
LEMMA CommandEndsNothing ==
  ASSUME {CR, LF, Verb} \subseteq Byte, NEW b \in Seq(Byte)
  PROVE  /\ <<Verb>> \o CRLF \in Seq(Byte) /\ Len(<<Verb>> \o CRLF) = 3
         /\ TextEnds(b \o (<<Verb>> \o CRLF)) = TextEnds(b)
<1> DEFINE v == <<Verb>>
           e == b \o v
<1>1. Verb # LF /\ Verb # DOT /\ Verb # CR
  BY DEF Verb, LF, DOT, CR
<1>2. v \in Seq(Byte) /\ CRLF \in Seq(Byte) /\ Len(v) = 1 /\ Len(CRLF) = 2
  BY DEF CRLF
<1>3. e \in Seq(Byte) /\ TextEnds(e) = TextEnds(b) /\ Len(e) = Len(b) + 1 /\ e[Len(b) + 1] = Verb
  BY <1>1, NoLineFeedEnds
<1> HIDE DEF e, v
<1>4. TextEnds(e \o CRLF) =
        TextEnds(e) \cup {i \in {Len(e)} : i >= 1 /\ StartsLine(e, i) /\ e[i] = DOT}
  BY <1>3, LineEndBytes
<1>5. TextEnds(e \o CRLF) = TextEnds(b)
  BY <1>1, <1>3, <1>4
<1>6. e \o CRLF = b \o (v \o CRLF)
  BY <1>2, Associative, Zenon DEF e
<1>7. v \o CRLF \in Seq(Byte) /\ Len(v \o CRLF) = 3
  <2> DEFINE u == CRLF
  <2> HIDE DEF u
  <2>1. v \o u \in Seq(Byte) /\ Len(v \o u) = Len(v) + Len(u)
    BY <1>2, ConcatProperties DEF u
  <2> QED
    BY <1>2, <2>1 DEF u
<1> QED
  BY <1>5, <1>6, <1>7 DEF v

----------------------------------------------------------------------------
(***************************************************************************)
(* What is composed is made of bytes.                                      *)
(***************************************************************************)

\* The characters of base64 are bytes too.
Base64Bytes == \A i \in Nat \ {0} : Base64Char(i) \in Byte

LEMMA CrlfTyped == CRLF \in Seq(Byte) /\ <<DOT>> \in Seq(Byte) /\ EndOfText \in Seq(Byte) /\ LF = LineFeed
BY AlphabetAssumption DEF CRLF, EndOfText

LEMMA ConcatTyped == \A x, y \in Seq(Byte) : x \o y \in Seq(Byte)
BY ConcatProperties

LEMMA EncodeTyped ==
  ASSUME Base64Bytes, NEW t \in Seq(Character)
  PROVE  /\ Encode(t).encoding \in {"7bit", "base64"}
         /\ Encode(t).body \in Seq(Byte)
<1> DEFINE S == Character \cup {CR, LF}
           x == Normalized(t)
           n == Base64Length(BytesOf(x))
<1>1. S \subseteq Byte /\ {CR, LF} \subseteq S /\ \A c \in S : Bytes(c) \in Nat
  BY AlphabetAssumption
<1>2. t \in Seq(S)
  OBVIOUS
<1> HIDE DEF S
<1>3. x \in Seq(S)
  BY <1>1, <1>2, NormalizedTyped
<1>4. x \in Seq(Byte)
  BY <1>1, <1>3
<1> HIDE DEF x
<1>5. BytesOf(x) \in Nat
  BY <1>1, <1>3, BytesOfTyped
<1>6. n \in Nat
  BY <1>5 DEF Base64Length
<1> HIDE DEF n
<1> DEFINE p == [i \in 1 .. n |->
                   IF i % Base64Line = 0 /\ i < n THEN <<Base64Char(i)>> \o CRLF
                   ELSE <<Base64Char(i)>>]
           SS == Seq(Byte)
<1>7. \A i \in 1 .. n : <<Base64Char(i)>> \in SS /\ <<Base64Char(i)>> \o CRLF \in SS
  <2> TAKE i \in 1 .. n
  <2>1. i \in Nat \ {0}
    BY <1>6
  <2>2. Base64Char(i) \in Byte
    BY <2>1 DEF Base64Bytes
  <2>3. <<Base64Char(i)>> \in Seq(Byte)
    BY <2>2
  <2> QED
    BY <2>3, CrlfTyped, ConcatTyped
<1>8. p \in Seq(SS)
  <2> HIDE DEF SS
  <2> QED
    BY <1>6, <1>7
<1> HIDE DEF p
<1>9. FlattenSeq(p) \in Seq(Byte)
  BY <1>8, FlattenTyped
<1>10. x \o CRLF \in Seq(Byte) /\ FlattenSeq(p) \o CRLF \in Seq(Byte)
  BY <1>4, <1>9, CrlfTyped, ConcatTyped
<1>11. Encode(t) = IF Fits(x)
                   THEN [encoding |-> "7bit", body |-> IF IsSuffix(CRLF, x) THEN x ELSE x \o CRLF]
                   ELSE [encoding |-> "base64", body |-> FlattenSeq(p) \o CRLF]
  BY DEF Encode, x, n, p
<1> QED
  BY <1>4, <1>10, <1>11

LEMMA ComposeTyped ==
  ASSUME Base64Bytes, NEW t \in Seq(Character)
  PROVE  Compose(t) \in Seq(Byte)
<1> DEFINE e == Encode(t)
           h == HeaderOf(e.encoding)
<1>1. e.encoding \in {"7bit", "base64"} /\ e.body \in Seq(Byte)
  BY EncodeTyped
<1>2. Compose(t) = <<h>> \o CRLF \o CRLF \o e.body
  BY DEF Compose
<1> HIDE DEF e
<1>3. h \in Byte
  BY <1>1, AlphabetAssumption
<1> HIDE DEF h
<1>4. <<h>> \in Seq(Byte)
  BY <1>3
<1>5. <<h>> \o CRLF \in Seq(Byte)
  BY <1>4, CrlfTyped, ConcatTyped
<1>6. <<h>> \o CRLF \o CRLF \in Seq(Byte)
  BY <1>5, CrlfTyped, ConcatTyped
<1> QED
  BY <1>1, <1>2, <1>6, ConcatTyped

----------------------------------------------------------------------------
(***************************************************************************)
(* The message that is handed over: with the line ends set right, and for  *)
(* a transaction without those at its end.                                 *)
(***************************************************************************)

LEMMA EmptySides ==
  \A x \in Seq(Byte) : <<>> \o x = x /\ x \o <<>> = x
BY ConcatEmptySeq

LEMMA ConcatElements ==
  \A s, r \in Seq(Byte) :
    /\ s \o r \in Seq(Byte) /\ Len(s \o r) = Len(s) + Len(r)
    /\ Len(s) \in Nat /\ Len(r) \in Nat
    /\ \A j \in 1 .. Len(s) : (s \o r)[j] = s[j]
    /\ \A j \in 1 .. Len(r) : (s \o r)[Len(s) + j] = r[j]
<1> SUFFICES ASSUME NEW s \in Seq(Byte), NEW r \in Seq(Byte)
             PROVE  /\ s \o r \in Seq(Byte) /\ Len(s \o r) = Len(s) + Len(r)
                    /\ Len(s) \in Nat /\ Len(r) \in Nat
                    /\ \A j \in 1 .. Len(s) : (s \o r)[j] = s[j]
                    /\ \A j \in 1 .. Len(r) : (s \o r)[Len(s) + j] = r[j]
  OBVIOUS
<1> QED
  OBVIOUS

Alphabet == Character \cup {CR, LF}

LEMMA AlphabetFacts ==
  /\ Alphabet \subseteq Byte /\ {CR, LF} \subseteq Alphabet /\ {CR, LF, DOT} \subseteq Byte
  /\ \A c \in Alphabet : Bytes(c) \in Nat
  /\ Seq(Character) \subseteq Seq(Alphabet) /\ Seq(Character) \subseteq Seq(Byte)
BY AlphabetAssumption DEF Alphabet

LEMMA TrimmedEnd ==
  ASSUME NEW t \in Seq(Byte), NEW c \in Byte, IsEnd(c)
  PROVE  Trimmed(Append(t, c)) = Trimmed(t)
<1> DEFINE e == Append(t, c)
           l == Len(t)
           I == {i \in 1 .. l : t[i] \notin {CR, LF}}
           J == {i \in 1 .. Len(e) : e[i] \notin {CR, LF}}
<1>1. /\ l \in Nat /\ Len(e) = l + 1 /\ e[l + 1] = c
      /\ \A i \in 1 .. l : e[i] = t[i]
      /\ e = t \o <<c>> /\ <<c>> \in Seq(Byte)
  BY AppendFacts, AppendIsConcat
<1> HIDE DEF e
<1>2. I = J
  BY <1>1 DEF IsEnd
<1>3. ASSUME I # {} PROVE SubSeq(e, 1, Max(I)) = SubSeq(t, 1, Max(I))
  <2>1. I \in SUBSET (1 .. l)
    OBVIOUS
  <2> DEFINE m == Max(I)
  <2>2. m \in I
    <3> HIDE DEF I
    <3> QED
      BY <1>1, <1>3, <2>1, MaxUpTo
  <2> HIDE DEF m
  <2>3. m \in 1 .. l /\ 1 \in 1 .. l
    BY <2>2
  <2>4. SubSeq(e, 1, m) = SubSeq(t, 1, m)
    BY <1>1, <2>3, SubSeqOfConcat1
  <2> QED
    BY <2>4 DEF m
<1>4. Trimmed(e) = IF J = {} THEN <<>> ELSE SubSeq(e, 1, Max(J))
  BY DEF Trimmed
<1>5. Trimmed(t) = IF I = {} THEN <<>> ELSE SubSeq(t, 1, Max(I))
  BY DEF Trimmed
<1> HIDE DEF I, J
<1>6. CASE I = {}
  BY <1>2, <1>4, <1>5, <1>6, Zenon DEF e
<1>7. CASE I # {}
  <2>1. Trimmed(e) = SubSeq(e, 1, Max(I)) /\ Trimmed(t) = SubSeq(t, 1, Max(I))
    BY <1>2, <1>4, <1>5, <1>7, Zenon
  <2> QED
    BY <1>3, <1>7, <2>1, Zenon DEF e
<1> QED
  BY <1>6, <1>7, Zenon

LEMMA TrimmedCrlf ==
  ASSUME NEW t \in Seq(Byte)
  PROVE  Trimmed(t \o CRLF) = Trimmed(t)
<1> DEFINE e == Append(t, CR)
<1>1. {CR, LF} \subseteq Byte /\ IsEnd(CR) /\ IsEnd(LF)
  BY AlphabetAssumption DEF IsEnd
<1>2. e \in Seq(Byte) /\ t \o CRLF = Append(e, LF)
  BY <1>1, AppendCrlf, AppendFacts
<1>3. Trimmed(e) = Trimmed(t)
  BY <1>1, TrimmedEnd
<1> HIDE DEF e
<1> QED
  BY <1>1, <1>2, <1>3, TrimmedEnd, Zenon

LEMMA LastOfText ==
  ASSUME NEW m \in Seq(Byte), m # <<>>
  PROVE  \E x \in Seq(Byte), c \in Byte : m = Append(x, c)
<1> DEFINE n == Len(m)
<1>1. n \in Nat /\ n # 0 /\ n \in 1 .. n
  BY EmptySeq
<1>2. PICK k \in Nat : n = k + 1
  <2>1. n - 1 \in Nat /\ n = (n - 1) + 1
    BY <1>1
  <2> QED
    BY <2>1
<1>3. k \in 0 .. n - 1
  BY <1>2
<1>4. Take(m, k) \in Seq(Byte) /\ m[k + 1] \in Byte /\ Take(m, k + 1) = Append(Take(m, k), m[k + 1])
  BY <1>3, TakeOneMore
<1>5. Take(m, n) = m
  BY TakeEnds
<1> QED
  BY <1>2, <1>4, <1>5

LEMMA SameAppended ==
  ASSUME NEW x \in Seq(Byte), NEW y \in Seq(Byte), NEW c \in Byte, NEW d \in Byte,
         Append(x, c) = Append(y, d)
  PROVE  y = x
<1> DEFINE u == Append(x, c)
           v == Append(y, d)
<1>1. /\ Len(x) \in Nat /\ Len(u) = Len(x) + 1 /\ \A i \in 1 .. Len(x) : u[i] = x[i]
      /\ Len(y) \in Nat /\ Len(v) = Len(y) + 1 /\ \A i \in 1 .. Len(y) : v[i] = y[i]
  BY AppendFacts
<1>2. u = v
  OBVIOUS
<1> HIDE DEF u, v
<1>3. Len(x) = Len(y)
  BY <1>1, <1>2
<1>4. \A i \in 1 .. Len(x) : y[i] = x[i]
  BY <1>1, <1>2, <1>3
<1> QED
  BY <1>3, <1>4, SeqEqual

\* No line is longer than the text.
LEMMA AnyIsShort ==
  ASSUME NEW t \in Seq(Byte)
  PROVE  \E n \in Nat : ShortRuns(t, n)
<1>1. Len(t) \in Nat
  OBVIOUS
<1>2. ShortRuns(t, Len(t))
  BY <1>1 DEF ShortRuns
<1> QED
  BY <1>1, <1>2

EndsInLF(t) == t # <<>> /\ t[Len(t)] = LF

\* The j-th pair of characters from the end of a text is CRLF.
CrlfAt(t, j) == t[Len(t) - 2 * j + 1] = CR /\ t[Len(t) - 2 * j + 2] = LF

LEMMA CrlfsAre ==
  \A t : CrlfsAtEnd(t) = {k \in 0 .. Len(t) \div 2 : \A j \in 1 .. k : CrlfAt(t, j)}
BY DEF CrlfsAtEnd, CrlfAt

LEMMA GreatestOf ==
  ASSUME NEW n \in Nat, NEW K \in SUBSET (0 .. n), K # {}
  PROVE  Max(K) \in K /\ \A k \in K : k <= Max(K)
<1> DEFINE T == {d \in 0 .. n : n - d \in K}
<1>1. PICK z : z \in K
  OBVIOUS
<1>2. T \subseteq Nat /\ n - z \in T
  <2>1. z \in 0 .. n /\ n - z \in 0 .. n /\ n - (n - z) = z
    BY <1>1
  <2> QED
    BY <1>1, <2>1
<1>3. PICK d \in T : \A e \in T : d <= e
  <2> HIDE DEF T
  <2> QED
    BY <1>2, LeastOf
<1>4. PICK m \in Nat : m = n - d
  BY <1>3
<1>5. m \in K
  BY <1>3, <1>4
<1>6. ASSUME NEW k \in K PROVE k <= m
  <2>1. k \in 0 .. n /\ n - k \in 0 .. n /\ n - (n - k) = k
    OBVIOUS
  <2>2. n - k \in T
    BY <2>1
  <2>3. d <= n - k
    BY <1>3, <2>2
  <2> QED
    BY <1>3, <1>4, <2>1, <2>3
<1>7. K \in SUBSET Nat
  OBVIOUS
<1>8. Max(K) = m
  BY <1>5, <1>6, <1>7, MaxIs
<1> QED
  BY <1>5, <1>6, <1>8

LEMMA MostCrlfs ==
  ASSUME NEW t \in Seq(Byte)
  PROVE  /\ Max(CrlfsAtEnd(t)) \in CrlfsAtEnd(t)
         /\ \A k \in CrlfsAtEnd(t) : k <= Max(CrlfsAtEnd(t))
         /\ Max(CrlfsAtEnd(t)) \in Nat /\ 2 * Max(CrlfsAtEnd(t)) <= Len(t)
<1> DEFINE K == CrlfsAtEnd(t)
           n == Len(t)
           h == n \div 2
<1>1. n \in Nat /\ h \in Nat /\ 2 * h <= n
  OBVIOUS
<1>2. K = {k \in 0 .. h : \A j \in 1 .. k : CrlfAt(t, j)}
  BY CrlfsAre
<1> HIDE DEF n, h, K
<1>3. K \subseteq 0 .. h /\ 0 \in K
  BY <1>1, <1>2
<1>4. K \in SUBSET (0 .. h) /\ K # {}
  BY <1>3
<1>5. Max(K) \in K /\ \A k \in K : k <= Max(K)
  BY <1>1, <1>4, GreatestOf
<1>6. Max(K) \in 0 .. h
  BY <1>3, <1>5
<1>7. Max(K) \in Nat /\ 2 * Max(K) <= n
  BY <1>1, <1>6
<1> QED
  BY <1>5, <1>7 DEF K, n

LEMMA StrippedTyped ==
  ASSUME NEW t \in Seq(Byte)
  PROVE  /\ \E k \in 0 .. Len(t) : Stripped(t) = Take(t, k)
         /\ Stripped(t) \in Seq(Byte)
<1> DEFINE m == Max(CrlfsAtEnd(t))
<1>1. m \in Nat /\ 2 * m <= Len(t) /\ Len(t) \in Nat
  BY MostCrlfs
<1>2. Stripped(t) = SubSeq(t, 1, Len(t) - 2 * m)
  BY DEF Stripped
<1> HIDE DEF m
<1>3. PICK k \in 0 .. Len(t) : k = Len(t) - 2 * m
  BY <1>1
<1>4. Stripped(t) = Take(t, k)
  BY <1>2, <1>3 DEF Take
<1> QED
  BY <1>4, TakeElements

\* What does not end in LF stays.
LEMMA NothingStripped ==
  ASSUME NEW t \in Seq(Byte), ~EndsInLF(t)
  PROVE  Stripped(t) = t
<1> DEFINE m == Max(CrlfsAtEnd(t))
<1>1. m \in CrlfsAtEnd(t) /\ m \in Nat /\ 2 * m <= Len(t) /\ Len(t) \in Nat
  BY MostCrlfs
<1>2. Stripped(t) = SubSeq(t, 1, Len(t) - 2 * m)
  BY DEF Stripped
<1> HIDE DEF m
<1>3. m = 0
  <2> SUFFICES ASSUME m # 0 PROVE FALSE
    OBVIOUS
  <2>1. 1 \in 1 .. m
    BY <1>1
  <2>2. CrlfAt(t, 1)
    BY <1>1, <2>1, CrlfsAre
  <2>3. Len(t) - 2 * 1 + 2 = Len(t)
    BY <1>1
  <2>4. t[Len(t)] = LF
    BY <2>2, <2>3 DEF CrlfAt
  <2>5. t # <<>>
    BY <1>1, <2>1
  <2> QED
    BY <2>4, <2>5 DEF EndsInLF
<1>4. Len(t) - 2 * m = Len(t)
  BY <1>1, <1>3
<1>5. Stripped(t) = SubSeq(t, 1, Len(t))
  BY <1>2, <1>4
<1> QED
  BY <1>5, TakeEnds DEF Take

\* A CRLF at the end goes.
LEMMA CrlfIsStripped ==
  ASSUME NEW t \in Seq(Byte)
  PROVE  Stripped(t \o CRLF) = Stripped(t)
<1> DEFINE e == t \o CRLF
           n == Len(t)
           m == Max(CrlfsAtEnd(t))
<1>1. /\ n \in Nat /\ e \in Seq(Byte) /\ Len(e) = n + 2
      /\ e[n + 1] = CR /\ e[n + 2] = LF /\ \A i \in 1 .. n : e[i] = t[i]
  BY CrlfTyped, CrlfFacts, ConcatElements
<1>2. /\ m \in CrlfsAtEnd(t) /\ m \in Nat /\ 2 * m <= n
      /\ \A k \in CrlfsAtEnd(t) : k <= m
  BY MostCrlfs
<1>3. PICK h \in Nat : h = n \div 2 /\ (n + 2) \div 2 = h + 1 /\ 2 * h <= n
  BY <1>1
<1>4. /\ CrlfsAtEnd(t) = {k \in 0 .. h : \A j \in 1 .. k : CrlfAt(t, j)}
      /\ CrlfsAtEnd(e) = {k \in 0 .. h + 1 : \A j \in 1 .. k : CrlfAt(e, j)}
  BY <1>1, <1>3, CrlfsAre
<1>5. Stripped(t) = SubSeq(t, 1, n - 2 * m) /\ Stripped(e) = SubSeq(e, 1, Len(e) - 2 * Max(CrlfsAtEnd(e)))
  BY DEF Stripped
<1> HIDE DEF e, n, m
<1>6. CrlfAt(e, 1)
  <2>1. Len(e) - 2 * 1 + 1 = n + 1 /\ Len(e) - 2 * 1 + 2 = n + 2
    BY <1>1
  <2> QED
    BY <1>1, <2>1 DEF CrlfAt
<1>7. ASSUME NEW j \in 1 .. h, NEW k \in Nat, k = j + 1 PROVE CrlfAt(e, k) <=> CrlfAt(t, j)
  <2>1. PICK x \in Nat : x = n - 2 * j + 1
    BY <1>1, <1>3
  <2>2. PICK y \in Nat : y = n - 2 * j + 2
    BY <1>1, <1>3
  <2>3. Len(e) - 2 * k + 1 = x /\ Len(e) - 2 * k + 2 = y /\ x \in 1 .. n /\ y \in 1 .. n
    BY <1>1, <1>3, <1>7, <2>1, <2>2
  <2>4. e[x] = t[x] /\ e[y] = t[y]
    BY <1>1, <2>3
  <2>5. CrlfAt(e, k) <=> e[x] = CR /\ e[y] = LF
    BY <2>3 DEF CrlfAt
  <2>6. CrlfAt(t, j) <=> t[x] = CR /\ t[y] = LF
    BY <2>1, <2>2 DEF CrlfAt, n
  <2> QED
    BY <2>4, <2>5, <2>6
<1>8. m + 1 \in CrlfsAtEnd(e)
  <2>1. m \in 0 .. h /\ \A j \in 1 .. m : CrlfAt(t, j)
    BY <1>2, <1>4
  <2>2. ASSUME NEW k \in 1 .. m + 1 PROVE CrlfAt(e, k)
    <3>1. CASE k = 1
      BY <1>6, <3>1
    <3>2. CASE k # 1
      <4>1. PICK j \in 1 .. m : k = j + 1
        <5>1. k - 1 \in 1 .. m /\ k = (k - 1) + 1
          BY <2>1, <3>2
        <5> QED
          BY <5>1
      <4>2. CrlfAt(t, j) /\ j \in 1 .. h /\ k \in Nat
        BY <2>1
      <4> QED
        BY <1>7, <4>1, <4>2
    <3> QED
      BY <3>1, <3>2
  <2>3. m + 1 \in 0 .. h + 1
    BY <1>3, <2>1
  <2> QED
    BY <1>4, <2>2, <2>3
<1>9. ASSUME NEW k \in CrlfsAtEnd(e) PROVE k <= m + 1
  <2>1. k \in 0 .. h + 1 /\ \A j \in 1 .. k : CrlfAt(e, j)
    BY <1>4
  <2>2. CASE k = 0
    BY <1>2, <2>2
  <2>3. CASE k # 0
    <3>1. PICK i \in 0 .. h : k = i + 1
      <4>1. k - 1 \in 0 .. h /\ k = (k - 1) + 1
        BY <1>3, <2>1, <2>3
      <4> QED
        BY <4>1
    <3>2. ASSUME NEW j \in 1 .. i PROVE CrlfAt(t, j)
      <4>1. PICK q \in Nat : q = j + 1
        BY <3>1
      <4>2. q \in 1 .. k /\ j \in 1 .. h
        BY <1>3, <3>1, <4>1
      <4>3. CrlfAt(e, q)
        BY <2>1, <4>2
      <4> QED
        BY <1>7, <4>1, <4>2, <4>3
    <3>3. i \in CrlfsAtEnd(t)
      BY <1>4, <3>1, <3>2
    <3>4. i <= m
      BY <1>2, <3>3
    <3> QED
      BY <1>2, <3>1, <3>4
  <2> QED
    BY <2>2, <2>3
<1>10. Max(CrlfsAtEnd(e)) = m + 1
  <2>1. CrlfsAtEnd(e) \in SUBSET Nat
    BY <1>3, <1>4
  <2> QED
    BY <1>8, <1>9, <2>1, MaxIs
<1>11. PICK k \in 0 .. n : k = n - 2 * m
  BY <1>1, <1>2
<1>12. Len(e) - 2 * Max(CrlfsAtEnd(e)) = k
  BY <1>1, <1>2, <1>10, <1>11
<1>13. Stripped(e) = Take(e, k) /\ Stripped(t) = Take(t, k)
  BY <1>5, <1>11, <1>12 DEF Take
<1>14. /\ Take(t, k) \in Seq(Byte) /\ Len(Take(t, k)) = k /\ \A i \in 1 .. k : Take(t, k)[i] = t[i]
       /\ Take(e, k) \in Seq(Byte) /\ Len(Take(e, k)) = k /\ \A i \in 1 .. k : Take(e, k)[i] = e[i]
  <2>1. k \in 0 .. Len(t) /\ k \in 0 .. Len(e)
    BY <1>1, <1>11 DEF n
  <2> QED
    BY <1>1, <2>1, TakeElements
<1>15. \A i \in 1 .. k : Take(e, k)[i] = Take(t, k)[i]
  <2>1. \A i \in 1 .. k : i \in 1 .. n
    BY <1>1, <1>11
  <2> QED
    BY <1>1, <1>14, <2>1
<1>16. Take(e, k) = Take(t, k)
  BY <1>14, <1>15, SeqEqual
<1> QED
  BY <1>13, <1>16 DEF e

\* The characters of a message that are not a newline at its end.
KeptAt(m, i) == m[i] # LF /\ ~(m[i] = CR /\ i < Len(m) /\ m[i + 1] = LF)
Kept(m) == {i \in 1 .. Len(m) : KeptAt(m, i)}

LEMMA ClosedIs ==
  ASSUME NEW m \in Seq(Byte)
  PROVE  /\ Kept(m) = {} => Closed(m) = <<>>
         /\ Kept(m) # {} => Max(Kept(m)) \in Kept(m) /\ Closed(m) = Take(m, Max(Kept(m)))
         /\ Closed(m) \in Seq(Byte) /\ \A S : m \in Seq(S) => Closed(m) \in Seq(S)
<1> DEFINE K == Kept(m)
           n == Len(m)
<1>1. n \in Nat /\ K \in SUBSET (1 .. n)
  BY DEF Kept
<1>2. Closed(m) = SubSeq(m, 1, Max({0} \cup K))
  BY DEF Closed, Kept, KeptAt
<1> HIDE DEF K, n
<1>3. CASE K = {}
  <2>1. {0} \cup K \in SUBSET Nat /\ 0 \in {0} \cup K /\ \A x \in {0} \cup K : x <= 0
    BY <1>3
  <2>2. Max({0} \cup K) = 0
    <3> DEFINE Z == {0} \cup K
    <3>1. Z \in SUBSET Nat /\ 0 \in Z /\ \A x \in Z : x <= 0
      BY <2>1
    <3> HIDE DEF Z
    <3>2. Max(Z) = 0
      BY <3>1, MaxIs
    <3> QED
      BY <3>2 DEF Z
  <2>3. Closed(m) = Take(m, 0)
    BY <1>2, <2>2 DEF Take
  <2>4. Closed(m) = <<>>
    BY <2>3, TakeEnds
  <2>5. \A S : <<>> \in Seq(S)
    OBVIOUS
  <2> QED
    BY <1>3, <2>4, <2>5 DEF K
<1>4. CASE K # {}
  <2>1. PICK x : x = Max(K)
    OBVIOUS
  <2>2. x \in K /\ \A y \in K : y <= x
    <3>1. K \in SUBSET (0 .. n)
      BY <1>1
    <3> QED
      BY <1>1, <1>4, <2>1, <3>1, GreatestOf
  <2>3. x \in 1 .. n
    BY <1>1, <2>2
  <2>4. Max({0} \cup K) = x
    <3> DEFINE Z == {0} \cup K
    <3>1. Z \in SUBSET Nat /\ x \in Z /\ \A y \in Z : y <= x
      BY <1>1, <2>2, <2>3
    <3> HIDE DEF Z
    <3>2. Max(Z) = x
      BY <3>1, MaxIs
    <3> QED
      BY <3>2 DEF Z
  <2>5. Closed(m) = Take(m, x)
    BY <1>2, <2>4 DEF Take
  <2>6. \A S : m \in Seq(S) => Take(m, x) \in Seq(S)
    <3>1. x \in 0 .. Len(m)
      BY <1>1, <2>3 DEF n
    <3> QED
      BY <3>1, TakeElements
  <2> QED
    BY <1>4, <2>1, <2>2, <2>5, <2>6 DEF K
<1> QED
  BY <1>3, <1>4

LEMMA EmptyClosed == Closed(<<>>) = <<>>
<1>1. Kept(<<>>) = {} /\ <<>> \in Seq(Byte)
  BY DEF Kept
<1> QED
  BY <1>1, ClosedIs

\* What does not end in LF keeps its end.
LEMMA NothingClosed ==
  ASSUME NEW m \in Seq(Byte), ~EndsInLF(m)
  PROVE  Closed(m) = m
<1> DEFINE n == Len(m)
<1>1. CASE m = <<>>
  BY <1>1, EmptyClosed
<1>2. CASE m # <<>>
  <2>1. n \in Nat /\ n \in 1 .. n /\ m[n] # LF /\ ~(n < n)
    BY <1>2, EmptySeq DEF EndsInLF
  <2>2. n \in Kept(m)
    BY <2>1 DEF Kept, KeptAt
  <2>3. Kept(m) \subseteq 1 .. n
    BY DEF Kept
  <2>4. Max(Kept(m)) = n
    <3>1. Kept(m) \in SUBSET Nat /\ \A x \in Kept(m) : x <= n
      BY <2>3
    <3> HIDE DEF n
    <3> QED
      BY <2>2, <3>1, MaxIs
  <2>5. Closed(m) = Take(m, n)
    BY <2>2, <2>4, ClosedIs
  <2> QED
    BY <2>5, TakeEnds
<1> QED
  BY <1>1, <1>2

\* A message keeps the same characters when a newline comes at its end.
LEMMA SameClosed ==
  ASSUME NEW m \in Seq(Byte), NEW e \in Seq(Byte), Len(m) <= Len(e),
         \A i \in 1 .. Len(m) : e[i] = m[i], Kept(e) = Kept(m)
  PROVE  Closed(e) = Closed(m)
<1>1. CASE Kept(m) = {}
  BY <1>1, ClosedIs
<1>2. CASE Kept(m) # {}
  <2>1. PICK k : k = Max(Kept(m))
    OBVIOUS
  <2>2. k \in Kept(m) /\ Closed(m) = Take(m, k) /\ Closed(e) = Take(e, k)
    BY <1>2, <2>1, ClosedIs
  <2>3. k \in 1 .. Len(m) /\ Len(m) \in Nat /\ Len(e) \in Nat
    BY <2>2 DEF Kept
  <2>4. k \in 0 .. Len(m) /\ k \in 0 .. Len(e)
    BY <2>3
  <2>5. /\ Take(m, k) \in Seq(Byte) /\ Len(Take(m, k)) = k /\ \A i \in 1 .. k : Take(m, k)[i] = m[i]
        /\ Take(e, k) \in Seq(Byte) /\ Len(Take(e, k)) = k /\ \A i \in 1 .. k : Take(e, k)[i] = e[i]
    BY <2>4, TakeElements
  <2>6. \A i \in 1 .. k : Take(e, k)[i] = Take(m, k)[i]
    BY <2>3, <2>5
  <2>7. Take(e, k) = Take(m, k)
    BY <2>5, <2>6, SeqEqual
  <2> QED
    BY <2>2, <2>7
<1> QED
  BY <1>1, <1>2

LEMMA LineFeedIsClosed ==
  ASSUME NEW m \in Seq(Byte), ~EndsInCR(m)
  PROVE  Closed(Append(m, LF)) = Closed(m)
<1> DEFINE e == Append(m, LF)
           n == Len(m)
<1>1. LF \in Byte
  BY AlphabetFacts
<1>2. /\ e \in Seq(Byte) /\ n \in Nat /\ Len(e) = n + 1
      /\ e[n + 1] = LF /\ \A i \in 1 .. n : e[i] = m[i]
  BY <1>1, AppendFacts
<1> HIDE DEF e
<1>3. ASSUME NEW i \in 1 .. n PROVE KeptAt(e, i) <=> KeptAt(m, i)
  <2>1. CASE i = n
    <3>1. m[n] # CR
      BY <1>2, <2>1 DEF EndsInCR
    <3> QED
      BY <1>2, <2>1, <3>1 DEF KeptAt
  <2>2. CASE i # n
    <3>1. PICK k \in Nat : k = i + 1
      OBVIOUS
    <3>2. k \in 1 .. n /\ i < n /\ i < n + 1
      BY <1>2, <2>2, <3>1
    <3>3. e[k] = m[k] /\ e[i] = m[i]
      BY <1>2, <3>2
    <3> QED
      BY <1>2, <3>1, <3>2, <3>3 DEF KeptAt
  <2> QED
    BY <2>1, <2>2
<1>4. ~KeptAt(e, n + 1)
  BY <1>2 DEF KeptAt
<1>5. Kept(e) = Kept(m)
  <2>1. Kept(e) = {i \in 1 .. n + 1 : KeptAt(e, i)} /\ Kept(m) = {i \in 1 .. n : KeptAt(m, i)}
    BY <1>2 DEF Kept
  <2>2. \A i \in 1 .. n + 1 : i \in 1 .. n \/ i = n + 1
    BY <1>2
  <2>3. \A i \in 1 .. n : i \in 1 .. n + 1
    BY <1>2
  <2> QED
    BY <1>3, <1>4, <2>1, <2>2, <2>3
<1>6. Len(m) <= Len(e)
  BY <1>2
<1>7. Closed(e) = Closed(m)
  BY <1>2, <1>5, <1>6, SameClosed
<1> QED
  BY <1>7 DEF e

LEMMA CrlfIsClosed ==
  ASSUME NEW m \in Seq(Byte)
  PROVE  Closed(m \o CRLF) = Closed(m)
<1> DEFINE e == m \o CRLF
           n == Len(m)
<1>1. /\ n \in Nat /\ e \in Seq(Byte) /\ Len(e) = n + 2
      /\ e[n + 1] = CR /\ e[n + 2] = LF /\ CR # LF /\ \A i \in 1 .. n : e[i] = m[i]
  BY CrlfTyped, CrlfFacts, ConcatElements
<1> HIDE DEF e
<1>2. ASSUME NEW i \in 1 .. n PROVE KeptAt(e, i) <=> KeptAt(m, i)
  <2>1. CASE i = n
    <3>1. e[n] = m[n] /\ n \in 1 .. n
      BY <1>1, <2>1
    <3>2. KeptAt(e, n) <=> m[n] # LF
      BY <1>1, <3>1 DEF KeptAt
    <3>3. KeptAt(m, n) <=> m[n] # LF
      BY <1>1 DEF KeptAt
    <3> QED
      BY <2>1, <3>2, <3>3
  <2>2. CASE i # n
    <3>1. PICK k \in Nat : k = i + 1
      OBVIOUS
    <3>2. k \in 1 .. n /\ i < n /\ i < n + 2
      BY <1>1, <2>2, <3>1
    <3>3. e[k] = m[k] /\ e[i] = m[i]
      BY <1>1, <3>2
    <3> QED
      BY <1>1, <3>1, <3>2, <3>3 DEF KeptAt
  <2> QED
    BY <2>1, <2>2
<1>3. ~KeptAt(e, n + 1) /\ ~KeptAt(e, n + 2)
  <2>1. PICK k \in Nat : k = n + 1
    BY <1>1
  <2>2. k + 1 = n + 2 /\ k < n + 2 /\ e[k] = CR /\ e[k + 1] = LF
    BY <1>1, <2>1
  <2>3. ~KeptAt(e, k)
    BY <1>1, <2>2 DEF KeptAt
  <2> QED
    BY <1>1, <2>1, <2>3 DEF KeptAt
<1>4. Kept(e) = Kept(m)
  <2>1. Kept(e) = {i \in 1 .. n + 2 : KeptAt(e, i)} /\ Kept(m) = {i \in 1 .. n : KeptAt(m, i)}
    BY <1>1 DEF Kept
  <2>2. \A i \in 1 .. n + 2 : i \in 1 .. n \/ i = n + 1 \/ i = n + 2
    BY <1>1
  <2>3. \A i \in 1 .. n : i \in 1 .. n + 2
    BY <1>1
  <2> QED
    BY <1>2, <1>3, <2>1, <2>2, <2>3
<1>5. Len(m) <= Len(e)
  BY <1>1
<1>6. Closed(e) = Closed(m)
  BY <1>1, <1>4, <1>5, SameClosed
<1> QED
  BY <1>6 DEF e

----------------------------------------------------------------------------
(***************************************************************************)
(* Closing a message.                                                      *)
(***************************************************************************)

\* What is cut off is nothing that a reader would miss.
Closing(m) ==
  /\ Stripped(Normalized(m)) = Normalized(Closed(m))
  /\ Trimmed(Canonical(Closed(m))) = Trimmed(Canonical(m))
  /\ Unbroken(Closed(m)) = Unbroken(m)

\* A LF comes at the end of a normalized text only if one was at the end of the text.
LEMMA NormalizedEnds ==
  ASSUME NEW m \in Seq(Byte), ~EndsInLF(m)
  PROVE  ~EndsInLF(Normalized(m))
<1>1. {CR, LF, DOT} \subseteq Byte
  BY AlphabetFacts
<1>2. CASE m = <<>>
  BY <1>2, EmptyNormalized DEF EndsInLF
<1>3. CASE m # <<>>
  <2>1. PICK x \in Seq(Byte), c \in Byte : m = Append(x, c)
    BY <1>3, LastOfText
  <2>2. c # LF
    BY <1>3, <2>1, AppendFacts DEF EndsInLF
  <2>3. Normalized(m) = Normalized(x) \o <<c>>
    BY <1>1, <2>1, <2>2, NormalizedByte
  <2>4. Normalized(x) \in Seq(Byte)
    BY <1>1, NormalizedTyped
  <2>5. Normalized(m) = Append(Normalized(x), c)
    BY <2>3, <2>4, AppendIsConcat
  <2> DEFINE n == Normalized(x)
  <2>6. Append(n, c)[Len(Append(n, c))] = c
    <3> HIDE DEF n
    <3> QED
      BY <2>4, AppendFacts DEF n
  <2> QED
    BY <2>2, <2>5, <2>6 DEF EndsInLF
<1> QED
  BY <1>2, <1>3

LEMMA OpenCloses ==
  ASSUME NEW m \in Seq(Byte), ~EndsInLF(m)
  PROVE  Closing(m)
<1>1. Closed(m) = m
  BY NothingClosed
<1>2. Normalized(m) \in Seq(Byte)
  BY AlphabetFacts, NormalizedTyped
<1>3. Stripped(Normalized(m)) = Normalized(m)
  BY <1>2, NormalizedEnds, NothingStripped
<1> QED
  BY <1>1, <1>3 DEF Closing

LEMMA CrlfCloses ==
  ASSUME NEW m \in Seq(Byte), Closing(m)
  PROVE  Closing(Append(Append(m, CR), LF))
<1> DEFINE e == m \o CRLF
           n == Normalized(m)
<1>1. {CR, LF, DOT} \subseteq Byte /\ {CR, LF} \subseteq Byte /\ CR \in Byte /\ LF \in Byte
  BY AlphabetFacts
<1>2. e = Append(Append(m, CR), LF) /\ Append(m, CR) \in Seq(Byte)
  BY <1>1, AppendCrlf, AppendFacts
<1>3. n \in Seq(Byte)
  BY <1>1, NormalizedTyped
<1>4. Normalized(e) = n \o CRLF
  <2>1. Normalized(Append(m, CR)) = n \o <<CR>>
    BY <1>1, NormalizedByte, CrlfFacts
  <2>2. EndsInCR(Append(m, CR))
    BY <1>1, LastAppended
  <2>3. Normalized(Append(Append(m, CR), LF)) = Normalized(Append(m, CR)) \o <<LF>>
    BY <1>1, <1>2, <2>2, NormalizedByte
  <2>4. (n \o <<CR>>) \o <<LF>> = n \o (<<CR>> \o <<LF>>)
    <3>1. <<CR>> \in Seq(Byte) /\ <<LF>> \in Seq(Byte)
      BY <1>1
    <3> HIDE DEF n
    <3> QED
      BY <1>3, <3>1, AssociativeIn
  <2> QED
    BY <1>2, <2>1, <2>3, <2>4, CrlfParts
<1>5. Closed(e) = Closed(m)
  BY CrlfIsClosed
<1>6. Canonical(e) = Canonical(m) \o CRLF
  BY <1>1, CanonicalCrlf
<1>7. Canonical(m) \in Seq(Byte)
  BY <1>1, CanonicalTyped
<1>8. Unbroken(e) = Unbroken(m)
  <2>1. Append(m, CR) \in Seq(Byte) /\ CR \in {CR, LF} /\ LF \in {CR, LF}
    BY <1>2
  <2>2. Unbroken(Append(m, CR)) = Unbroken(m)
    BY <1>1, <2>1, UnbrokenByte
  <2>3. Unbroken(Append(Append(m, CR), LF)) = Unbroken(Append(m, CR))
    BY <1>1, <2>1, UnbrokenByte
  <2> QED
    BY <1>2, <2>2, <2>3
<1>9. Stripped(n \o CRLF) = Stripped(n)
  BY <1>3, CrlfIsStripped
<1>10. Trimmed(Canonical(m) \o CRLF) = Trimmed(Canonical(m))
  BY <1>7, TrimmedCrlf
<1> HIDE DEF e
<1>11. Closing(e)
  BY <1>4, <1>5, <1>6, <1>8, <1>9, <1>10 DEF Closing
<1> QED
  BY <1>2, <1>11

LEMMA LineFeedCloses ==
  ASSUME NEW m \in Seq(Byte), ~EndsInCR(m), Closing(m)
  PROVE  Closing(Append(m, LF))
<1> DEFINE e == Append(m, LF)
           n == Normalized(m)
<1>1. {CR, LF, DOT} \subseteq Byte /\ LF \in Byte /\ LF \in {CR, LF}
  BY AlphabetFacts
<1>2. n \in Seq(Byte) /\ Canonical(m) \in Seq(Byte)
  BY <1>1, NormalizedTyped, CanonicalTyped
<1>3. Normalized(e) = n \o CRLF
  BY <1>1, NormalizedByte
<1>4. Closed(e) = Closed(m)
  BY LineFeedIsClosed
<1>5. Canonical(e) = Canonical(m) \o CRLF
  BY <1>1, CanonicalByte
<1>6. Unbroken(e) = Unbroken(m)
  BY <1>1, UnbrokenByte
<1>7. Stripped(n \o CRLF) = Stripped(n)
  BY <1>2, CrlfIsStripped
<1>8. Trimmed(Canonical(m) \o CRLF) = Trimmed(Canonical(m))
  BY <1>2, TrimmedCrlf
<1> HIDE DEF e
<1>9. Closing(e)
  BY <1>3, <1>4, <1>5, <1>6, <1>7, <1>8 DEF Closing
<1> QED
  BY <1>9 DEF e

\* Of every message.
LEMMA EveryMessageCloses ==
  ASSUME NEW m \in Seq(Byte)
  PROVE  Closing(m)
<1> DEFINE G == {s \in Seq(Byte) :
                   Closing(s) /\ \A y \in Seq(Byte) : s = Append(y, CR) => Closing(y)}
<1>1. <<>> \in G
  <2>1. <<>> \in Seq(Byte) /\ ~EndsInLF(<<>>)
    BY DEF EndsInLF
  <2>2. Closing(<<>>)
    BY <2>1, OpenCloses
  <2>3. \A y \in Seq(Byte) : <<>> # Append(y, CR)
    BY AlphabetFacts, AppendFacts
  <2> QED
    BY <2>1, <2>2, <2>3
<1>2. ASSUME NEW s \in Seq(Byte), NEW c \in Byte, s \in G PROVE Append(s, c) \in G
  <2>1. Closing(s) /\ \A y \in Seq(Byte) : s = Append(y, CR) => Closing(y)
    BY <1>2
  <2>2. Append(s, c) \in Seq(Byte)
    BY AppendFacts
  <2>3. Closing(Append(s, c))
    <3>1. CASE c # LF
      <4>1. ~EndsInLF(Append(s, c))
        BY <3>1, AppendFacts DEF EndsInLF
      <4> QED
        BY <2>2, <4>1, OpenCloses
    <3>2. CASE c = LF /\ ~EndsInCR(s)
      BY <2>1, <3>2, LineFeedCloses
    <3>3. CASE c = LF /\ EndsInCR(s)
      <4>1. PICK y \in Seq(Byte), d \in Byte : s = Append(y, d)
        BY <3>3, LastOfText DEF EndsInCR
      <4>2. d = CR
        BY <3>3, <4>1, LastAppended
      <4>3. Closing(y)
        BY <2>1, <4>1, <4>2
      <4> QED
        BY <3>3, <4>1, <4>2, <4>3, CrlfCloses
    <3> QED
      BY <3>1, <3>2, <3>3
  <2>4. ASSUME NEW y \in Seq(Byte), Append(s, c) = Append(y, CR) PROVE Closing(y)
    <3>1. CR \in Byte
      BY AlphabetFacts
    <3>2. y = s
      BY <2>4, <3>1, SameAppended
    <3> QED
      BY <2>1, <3>2
  <2> QED
    BY <2>2, <2>3, <2>4
<1>3. m \in G
  <2> HIDE DEF G
  <2> QED
    BY <1>1, <1>2, ByAppending
<1> QED
  BY <1>3

\* A message is handed over as its canonical form, without the newlines at its end when
\* it is the text of a transaction.
LEMMA ConvertedFacts ==
  ASSUME NEW m \in Seq(Byte), NEW quote \in BOOLEAN
  PROVE  /\ Converted(m, quote) \in Seq(Byte)
         /\ quote => Canonical(Converted(m, quote)) = Canonical(Closed(m))
         /\ ~quote => Canonical(Converted(m, quote)) = Canonical(m)
<1>1. {CR, LF, DOT} \subseteq Byte /\ Normalized(m) \in Seq(Byte) /\ Closed(m) \in Seq(Byte)
  BY AlphabetFacts, NormalizedTyped, ClosedIs
<1>2. Stripped(Normalized(m)) \in Seq(Byte)
  BY <1>1, StrippedTyped
<1>3. Stripped(Normalized(m)) = Normalized(Closed(m))
  BY EveryMessageCloses DEF Closing
<1>4. /\ Canonical(Normalized(m)) = Canonical(m)
      /\ Canonical(Normalized(Closed(m))) = Canonical(Closed(m))
  BY <1>1, CanonicalNormalized
<1> QED
  BY <1>1, <1>2, <1>3, <1>4 DEF Converted

\* Its lines are not longer than those of the message.
LEMMA PrefixIsShort ==
  ASSUME NEW t \in Seq(Byte), NEW n \in Nat, ShortRuns(t, n), NEW k \in 0 .. Len(t)
  PROVE  ShortRuns(Take(t, k), n)
<1> DEFINE e == Take(t, k)
<1>1. e \in Seq(Byte) /\ Len(e) = k /\ \A i \in 1 .. k : e[i] = t[i]
  BY TakeElements
<1> HIDE DEF e
<1>2. ASSUME NEW i \in 1 .. k, NEW j \in 1 .. k, Inside(e, i, j) PROVE j - i < n
  <2>1. i \in 1 .. Len(t) /\ j \in 1 .. Len(t) /\ \A q \in i .. j : q \in 1 .. k
    OBVIOUS
  <2>2. Inside(t, i, j)
    BY <1>1, <1>2, <2>1 DEF Inside
  <2> QED
    BY <2>1, <2>2 DEF ShortRuns
<1>3. ShortRuns(e, n)
  BY <1>1, <1>2 DEF ShortRuns
<1> QED
  BY <1>3 DEF e

\* What comes before the last character of a text with short lines.
LEMMA BeforeIsShort ==
  ASSUME NEW t \in Seq(Byte), NEW c \in Byte, NEW n \in Nat
  PROVE  /\ ShortRuns(Append(t, c), n) => ShortRuns(t, n)
         /\ ~IsEnd(c) /\ ShortTail(Append(t, c), n) => n # 0 /\ ShortTail(t, n - 1)
         /\ ~IsEnd(c) /\ ShortRuns(Append(t, c), n) => ShortTail(Append(t, c), n)
<1> DEFINE e == Append(t, c)
           l == Len(t)
<1>1. /\ l \in Nat /\ e \in Seq(Byte) /\ Len(e) = l + 1 /\ e[l + 1] = c
      /\ \A i \in 1 .. l : e[i] = t[i]
  BY AppendFacts
<1> HIDE DEF e
<1>2. ASSUME ShortRuns(e, n) PROVE ShortRuns(t, n)
  <2>1. ASSUME NEW i \in 1 .. l, NEW j \in 1 .. l, Inside(t, i, j) PROVE j - i < n
    <3>1. i \in 1 .. l + 1 /\ j \in 1 .. l + 1 /\ \A q \in i .. j : q \in 1 .. l
      BY <1>1
    <3>2. Inside(e, i, j)
      BY <1>1, <2>1, <3>1 DEF Inside
    <3> QED
      BY <1>1, <1>2, <3>1, <3>2 DEF ShortRuns
  <2> QED
    BY <2>1 DEF ShortRuns
<1>3. ASSUME ~IsEnd(c), ShortTail(e, n) PROVE n # 0 /\ ShortTail(t, n - 1)
  <2>1. ASSUME NEW i \in 1 .. l + 1, Inside(e, i, l + 1) PROVE l + 1 - i < n
    BY <1>1, <1>3, <2>1 DEF ShortTail
  <2>2. n # 0
    <3>1. l + 1 \in 1 .. l + 1 /\ \A q \in l + 1 .. l + 1 : q = l + 1
      BY <1>1
    <3>2. Inside(e, l + 1, l + 1)
      BY <1>1, <1>3, <3>1 DEF Inside
    <3>3. l + 1 - (l + 1) < n
      BY <2>1, <3>1, <3>2
    <3> QED
      BY <1>1, <3>3
  <2>3. ASSUME NEW i \in 1 .. l, Inside(t, i, l) PROVE l - i < n - 1
    <3>1. i \in 1 .. l + 1 /\ \A q \in i .. l + 1 : (q \in 1 .. l /\ q \in i .. l) \/ q = l + 1
      BY <1>1
    <3>2. Inside(e, i, l + 1)
      BY <1>1, <1>3, <2>3, <3>1 DEF Inside
    <3>3. l + 1 - i < n
      BY <2>1, <3>1, <3>2
    <3> QED
      BY <1>1, <3>3
  <2> QED
    BY <2>2, <2>3 DEF ShortTail
<1>4. ASSUME ShortRuns(e, n) PROVE ShortTail(e, n)
  <2>1. l + 1 \in 1 .. l + 1
    BY <1>1
  <2> QED
    BY <1>1, <1>4, <2>1 DEF ShortRuns, ShortTail
<1> QED
  BY <1>2, <1>3, <1>4 DEF e

\* The normalized text has the same lines.
SameShort(s, n) ==
  /\ ShortRuns(s, n) => ShortRuns(Normalized(s), n)
  /\ \A k \in Nat : ShortTail(s, k) => ShortTail(Normalized(s), k)

LEMMA NormalizedIsShort ==
  ASSUME NEW t \in Seq(Byte), NEW n \in Nat, ShortRuns(t, n)
  PROVE  ShortRuns(Normalized(t), n)
<1> DEFINE G == {s \in Seq(Byte) : SameShort(s, n)}
<1>0. {CR, LF, DOT} \subseteq Byte /\ {CR, LF} \subseteq Byte
  BY AlphabetFacts
<1>1. <<>> \in G
  BY EmptyNormalized, EmptyIsShort DEF SameShort
<1>2. ASSUME NEW s \in Seq(Byte), NEW c \in Byte, s \in G PROVE Append(s, c) \in G
  <2> DEFINE e == Append(s, c)
             x == Normalized(s)
             y == Normalized(e)
  <2>1. SameShort(s, n) /\ e \in Seq(Byte) /\ x \in Seq(Byte)
    BY <1>0, <1>2, AppendFacts, NormalizedTyped
  <2>2. y = IF c = LF /\ EndsInCR(s) THEN x \o <<LF>>
            ELSE x \o (IF c = LF THEN CRLF ELSE <<c>>)
    BY <1>0, NormalizedByte
  <2>3. \A d \in Byte : x \o <<d>> = Append(x, d)
    <3> HIDE DEF x
    <3> QED
      BY <2>1, AppendIsConcat
  <2>4. /\ ShortRuns(e, n) => ShortRuns(s, n)
        /\ \A k \in Nat : ~IsEnd(c) /\ ShortTail(e, k) => k # 0 /\ ShortTail(s, k - 1)
        /\ ~IsEnd(c) /\ ShortRuns(e, n) => ShortTail(e, n)
    BY BeforeIsShort
  <2>5. /\ ShortRuns(s, n) => ShortRuns(x, n)
        /\ \A k \in Nat : ShortTail(s, k) => ShortTail(x, k)
    BY <2>1 DEF SameShort
  <2> HIDE DEF e, x, y
  <2>6. CASE IsEnd(c)
    <3>1. y = x \o CRLF \/ y = Append(x, c)
      BY <1>0, <2>2, <2>3, <2>6 DEF IsEnd
    <3>2. ASSUME NEW k \in Nat, NEW j \in Nat, ShortRuns(x, j) PROVE ShortRuns(y, j) /\ ShortTail(y, k)
      <4>1. CASE y = x \o CRLF
        BY <1>0, <2>1, <3>2, <4>1, ShortCrlf
      <4>2. CASE y = Append(x, c)
        BY <2>1, <2>6, <3>2, <4>2, EndIsShort
      <4> QED
        BY <3>1, <4>1, <4>2
    <3>3. PICK j \in Nat : ShortRuns(x, j)
      BY <2>1, AnyIsShort
    <3>4. \A k \in Nat : ShortTail(y, k)
      BY <3>2, <3>3
    <3>5. ShortRuns(e, n) => ShortRuns(y, n)
      BY <2>4, <2>5, <3>2
    <3> QED
      BY <2>1, <3>4, <3>5 DEF SameShort, y, e
  <2>7. CASE ~IsEnd(c)
    <3>1. y = Append(x, c)
      BY <2>2, <2>3, <2>7 DEF IsEnd
    <3>2. ASSUME NEW j \in Nat, ShortRuns(x, j), NEW k \in Nat, ShortTail(e, k), k <= j
          PROVE  ShortRuns(y, j) /\ ShortTail(y, k)
      <4>1. PICK i \in Nat : k = i + 1 /\ ShortTail(s, i)
        <5>1. k # 0 /\ ShortTail(s, k - 1)
          BY <2>4, <2>7, <3>2
        <5>2. k - 1 \in Nat /\ k = (k - 1) + 1
          BY <5>1
        <5> QED
          BY <5>1, <5>2
      <4>2. ShortTail(x, i)
        BY <2>5, <4>1
      <4>3. ShortRuns(Append(x, c), j) /\ ShortTail(Append(x, c), i + 1)
        BY <2>1, <2>7, <3>2, <4>1, <4>2, InkIsShort
      <4> QED
        BY <3>1, <4>1, <4>3
    <3>3. ShortRuns(e, n) => ShortRuns(y, n)
      BY <2>4, <2>5, <2>7, <3>2
    <3>4. ASSUME NEW k \in Nat, ShortTail(e, k) PROVE ShortTail(y, k)
      <4>1. PICK j \in Nat : ShortRuns(x, j)
        BY <2>1, AnyIsShort
      <4>2. PICK i \in Nat : i = j + k
        OBVIOUS
      <4>3. j <= i /\ k <= i
        BY <4>2
      <4>4. ShortRuns(x, i)
        BY <2>1, <4>1, <4>3, ShortOf
      <4> QED
        BY <3>2, <3>4, <4>3, <4>4
    <3> QED
      BY <2>1, <3>3, <3>4 DEF SameShort, y, e
  <2> QED
    BY <2>6, <2>7
<1>3. t \in G
  <2> HIDE DEF G
  <2> QED
    BY <1>1, <1>2, ByAppending
<1> QED
  BY <1>3 DEF SameShort

LEMMA ConvertedIsShort ==
  ASSUME NEW m \in Seq(Byte), NEW n \in Nat, ShortRuns(m, n), NEW quote \in BOOLEAN
  PROVE  ShortRuns(Converted(m, quote), n)
<1> DEFINE x == Normalized(m)
<1>1. x \in Seq(Byte) /\ ShortRuns(x, n)
  BY AlphabetFacts, NormalizedTyped, NormalizedIsShort
<1>2. Converted(m, quote) = IF quote THEN Stripped(x) ELSE x
  BY DEF Converted
<1> HIDE DEF x
<1>3. PICK k \in 0 .. Len(x) : Stripped(x) = Take(x, k)
  BY <1>1, StrippedTyped
<1>4. ShortRuns(Take(x, k), n)
  BY <1>1, PrefixIsShort
<1> QED
  BY <1>1, <1>2, <1>3, <1>4

\* A message that is closed keeps its first part, if that ends a line, or the rest is
\* nothing but newlines.
LEMMA ClosedConcat ==
  ASSUME NEW a \in Seq(Byte), NEW b \in Seq(Byte), ~EndsInCR(a)
  PROVE  /\ Closed(b) # <<>> => Closed(a \o b) = a \o Closed(b)
         /\ Closed(b) = <<>> => Closed(a \o b) = Closed(a)
<1> DEFINE e == a \o b
           l == Len(a)
           r == Len(b)
<1>1. /\ l \in Nat /\ r \in Nat /\ e \in Seq(Byte) /\ Len(e) = l + r
      /\ \A i \in 1 .. l : e[i] = a[i]
      /\ \A j \in 1 .. r : e[l + j] = b[j]
  BY ConcatElements
<1> HIDE DEF e
<1>0. l \in Nat /\ r \in Nat /\ Len(e) = l + r /\ Len(b) = r
  BY <1>1
<1>2. ASSUME NEW i \in 1 .. l PROVE KeptAt(e, i) <=> KeptAt(a, i)
  <2>1. CASE i = l
    <3>1. a[l] # CR /\ e[l] = a[l]
      BY <1>1, <2>1 DEF EndsInCR
    <3> QED
      BY <2>1, <3>1 DEF KeptAt
  <2>2. CASE i # l
    <3>1. PICK k \in Nat : k = i + 1
      OBVIOUS
    <3>2. k \in 1 .. l /\ i < l /\ i < l + r
      BY <1>1, <2>2, <3>1
    <3>3. e[k] = a[k] /\ e[i] = a[i]
      BY <1>1, <3>2
    <3> QED
      BY <1>1, <3>1, <3>2, <3>3 DEF KeptAt
  <2> QED
    BY <2>1, <2>2
<1>3. ASSUME NEW j \in 1 .. r, NEW i \in Nat, i = l + j PROVE KeptAt(e, i) <=> KeptAt(b, j)
  <2>1. e[i] = b[j]
    BY <1>1, <1>3
  <2>2. CASE j = r
    <3>1. ~(i < Len(e)) /\ ~(j < Len(b))
      BY <1>1, <1>3, <2>2
    <3> QED
      BY <2>1, <3>1 DEF KeptAt
  <2>3. CASE j # r
    <3>1. PICK k \in Nat : k = j + 1
      OBVIOUS
    <3>2. k \in 1 .. r /\ i + 1 = l + k
      BY <1>0, <1>3, <2>3, <3>1
    <3>4. i < Len(e) /\ j < Len(b)
      BY <1>0, <1>3, <2>3
    <3>5. e[l + k] = b[k]
      BY <1>1, <3>2
    <3>3. e[i + 1] = b[j + 1]
      BY <3>1, <3>2, <3>5
    <3> QED
      BY <2>1, <3>3, <3>4 DEF KeptAt
  <2> QED
    BY <2>2, <2>3
<1>4. /\ Kept(a) = {i \in 1 .. l : KeptAt(a, i)} /\ Kept(b) = {i \in 1 .. r : KeptAt(b, i)}
      /\ Kept(e) = {i \in 1 .. l + r : KeptAt(e, i)}
  BY <1>1 DEF Kept
<1>5. \A i \in 1 .. l + r : i \in 1 .. l \/ \E j \in 1 .. r : i = l + j
  <2> TAKE i \in 1 .. l + r
  <2>1. CASE i > l
    <3>1. i - l \in 1 .. r /\ i = l + (i - l)
      BY <1>1, <2>1
    <3> QED
      BY <3>1
  <2> QED
    BY <1>1, <2>1
<1> HIDE DEF l, r
<1>6. ASSUME Closed(b) # <<>> PROVE Closed(e) = a \o Closed(b)
  <2>1. PICK m : m = Max(Kept(b))
    OBVIOUS
  <2>2. m \in Kept(b) /\ Closed(b) = Take(b, m)
    BY <1>6, <2>1, ClosedIs
  <2>3. m \in 1 .. r /\ KeptAt(b, m)
    BY <1>4, <2>2
  <2>4. \A k \in Kept(b) : k <= m
    <3>1. Kept(b) \in SUBSET (0 .. r) /\ Kept(b) # {}
      BY <1>4, <2>2
    <3> QED
      BY <1>1, <2>1, <3>1, GreatestOf
  <2>5. PICK k \in Nat : k = l + m
    BY <1>1, <2>3
  <2>6. k \in 1 .. l + r
    BY <1>1, <2>3, <2>5
  <2>7. k \in Kept(e)
    BY <1>3, <1>4, <2>3, <2>5, <2>6
  <2>8. ASSUME NEW i \in Kept(e) PROVE i <= k
    <3>1. i \in 1 .. l + r /\ KeptAt(e, i)
      BY <1>4
    <3>2. CASE i \in 1 .. l
      BY <1>1, <2>3, <2>5, <3>2
    <3>3. CASE \E j \in 1 .. r : i = l + j
      <4>1. PICK j \in 1 .. r : i = l + j
        BY <3>3
      <4>2. j \in Kept(b)
        BY <1>3, <1>4, <3>1, <4>1
      <4>3. j <= m
        BY <2>4, <4>2
      <4> QED
        BY <1>1, <2>3, <2>5, <4>1, <4>3
    <3> QED
      BY <1>5, <3>1, <3>2, <3>3
  <2>9. Max(Kept(e)) = k
    <3>1. Kept(e) \in SUBSET Nat
      BY <1>4
    <3> QED
      BY <2>7, <2>8, <3>1, MaxIs
  <2>10. Closed(e) = Take(e, k)
    BY <1>1, <2>7, <2>9, ClosedIs
  <2> DEFINE c == Take(b, m)
             d == Take(e, k)
             u == a \o c
  <2>11. c \in Seq(Byte) /\ Len(c) = m /\ \A j \in 1 .. m : c[j] = b[j]
    <3>1. m \in 0 .. Len(b)
      BY <1>1, <2>3 DEF r
    <3> QED
      BY <3>1, TakeElements
  <2>12. d \in Seq(Byte) /\ Len(d) = k /\ \A j \in 1 .. k : d[j] = e[j]
    <3>1. k \in 0 .. Len(e)
      BY <1>1, <2>6
    <3> QED
      BY <1>1, <3>1, TakeElements
  <2> HIDE DEF c, d
  <2>13. /\ u \in Seq(Byte) /\ Len(u) = l + m
         /\ \A j \in 1 .. l : u[j] = a[j]
         /\ \A i \in 1 .. m : u[l + i] = c[i]
    BY <2>11, ConcatElements DEF l
  <2> HIDE DEF u
  <2>14. ASSUME NEW i \in 1 .. k PROVE d[i] = u[i]
    <3>1. d[i] = e[i] /\ i \in 1 .. l + r
      BY <1>1, <2>3, <2>5, <2>12
    <3>2. CASE i \in 1 .. l
      BY <1>1, <2>13, <3>1, <3>2
    <3>3. CASE \E j \in 1 .. r : i = l + j
      <4>1. PICK j \in 1 .. r : i = l + j
        BY <3>3
      <4>2. j \in 1 .. m
        BY <1>1, <2>3, <2>5, <4>1
      <4>3. c[j] = b[j]
        BY <2>11, <4>2
      <4>4. e[l + j] = b[j]
        BY <1>1
      <4>5. u[l + j] = c[j]
        BY <2>13, <4>2
      <4> QED
        BY <3>1, <4>1, <4>3, <4>4, <4>5
    <3> QED
      BY <1>5, <3>1, <3>2, <3>3
  <2>15. Len(u) = k
    BY <2>5, <2>13
  <2>16. d = u
    BY <2>12, <2>13, <2>14, <2>15, SeqEqual
  <2> QED
    BY <2>2, <2>10, <2>16 DEF c, d, u
<1>7. ASSUME Closed(b) = <<>> PROVE Closed(e) = Closed(a)
  <2>1. Kept(b) = {}
    <3> SUFFICES ASSUME Kept(b) # {} PROVE FALSE
      OBVIOUS
    <3>1. PICK m : m = Max(Kept(b)) /\ m \in Kept(b) /\ Closed(b) = Take(b, m)
      BY ClosedIs
    <3>2. m \in 0 .. Len(b) /\ m # 0
      BY <1>1, <1>4, <3>1 DEF r
    <3>3. Len(Take(b, m)) = m
      BY <3>2, TakeElements
    <3> QED
      BY <1>7, <3>1, <3>2, <3>3
  <2>2. \A i \in 1 .. l : i \in 1 .. l + r
    BY <1>1
  <2>3. ASSUME NEW i \in 1 .. l + r, KeptAt(e, i) PROVE i \in 1 .. l
    <3> SUFFICES ASSUME i \notin 1 .. l PROVE FALSE
      OBVIOUS
    <3>1. PICK j \in 1 .. r : i = l + j
      BY <1>5
    <3>2. KeptAt(b, j)
      BY <1>3, <2>3, <3>1
    <3> QED
      BY <1>4, <2>1, <3>2
  <2>4. Kept(e) = Kept(a)
    BY <1>2, <1>4, <2>2, <2>3
  <2>5. Len(a) <= Len(e) /\ \A i \in 1 .. Len(a) : e[i] = a[i]
    BY <1>1 DEF l
  <2> QED
    BY <1>1, <2>4, <2>5, SameClosed
<1> QED
  BY <1>6, <1>7 DEF e

----------------------------------------------------------------------------
(***************************************************************************)
(* Every step of a delivery is one of the stream's or leaves it alone.     *)
(***************************************************************************)

LEMMA DropOfConcat ==
  ASSUME NEW S, NEW s \in Seq(S), NEW t \in Seq(S)
  PROVE  Drop(s \o t, Len(s)) = t
<1> DEFINE c == s \o t
           n == Len(s)
<1>1. /\ c \in Seq(S) /\ Len(c) = n + Len(t) /\ n \in Nat /\ Len(t) \in Nat
      /\ \A j \in 1 .. Len(t) : c[n + j] = t[j]
  OBVIOUS
<1> HIDE DEF c, n
<1>2. n \in 0 .. Len(c) /\ Len(c) - n = Len(t)
  BY <1>1
<1>3. /\ Drop(c, n) \in Seq(S) /\ Len(Drop(c, n)) = Len(t)
      /\ \A j \in 1 .. Len(c) - n : Drop(c, n)[j] = c[n + j]
  BY <1>1, <1>2, DropElements
<1>4. \A j \in 1 .. Len(t) : Drop(c, n)[j] = t[j]
  BY <1>1, <1>2, <1>3
<1>5. Drop(c, n) = t
  BY <1>3, <1>4, SeqEqual
<1> QED
  BY <1>5 DEF c, n

SenderTypes ==
  /\ pc \in {"typing", "writing", "flushing", "sent", "idle", "command", "command flush",
             "reading", "done"}
  /\ result \in {"none", "ok", "error"}
  /\ text \in Seq(Character) /\ {eml, message, reply} \subseteq Seq(Byte)
  /\ todo \in Seq(Seq(Byte)) /\ quoted \in BOOLEAN /\ commands \in 0 .. MaxCommands

LEMMA CallsTyped ==
  ASSUME NEW m \in Seq(Byte), NEW quote \in BOOLEAN
  PROVE  /\ DataWrites(m, quote) \in Seq(Seq(Byte))
         /\ Append(DataWrites(m, quote), IF quote THEN EndOfText ELSE CRLF) \in Seq(Seq(Byte))
<1>1. {CR, LF, DOT} \subseteq Byte
  BY AlphabetAssumption
<1>2. DataWrites(m, quote) \in Seq(Seq(Byte))
  BY <1>1, DataWritesFlat
<1> DEFINE SS == Seq(Byte)
           e == IF quote THEN EndOfText ELSE CRLF
           w == DataWrites(m, quote)
<1>3. e \in SS /\ w \in Seq(SS)
  BY <1>2, CrlfTyped
<1> HIDE DEF SS, e, w
<1>4. Append(w, e) \in Seq(SS)
  BY <1>3
<1> QED
  BY <1>2, <1>4 DEF SS, e, w

LEMMA MessagesTyped ==
  ASSUME Base64Bytes, text \in Seq(Character)
  PROVE  Messages \subseteq Seq(Byte)
<1>1. Compose(text) \in Seq(Byte)
  BY ComposeTyped
<1>2. text \in Seq(Byte)
  BY AlphabetAssumption
<1>3. ExtraMessages \subseteq Seq(Byte)
  BY AlphabetAssumption
<1> QED
  BY <1>1, <1>2, <1>3 DEF Messages

LEMMA VerbTyped == <<Verb>> \o CRLF \in Seq(Byte) /\ Len(<<Verb>> \o CRLF) = 3
<1>1. {CR, LF, Verb} \subseteq Byte
  BY AlphabetAssumption
<1>2. <<>> \in Seq(Byte)
  OBVIOUS
<1> QED
  BY <1>1, <1>2, CommandEndsNothing

LEMMA StepUsesTheStream ==
  ASSUME StreamTypeOK, SenderTypes, [Next]_vars
  PROVE  [StreamNext]_streamVars
<1>1. CASE WriteNext
  <2>1. Head(todo) \in Seq(Byte)
    <3> DEFINE SS == Seq(Byte)
    <3>1. todo \in Seq(SS) /\ todo # <<>>
      BY <1>1 DEF SenderTypes, WriteNext
    <3> HIDE DEF SS
    <3>2. Head(todo) \in SS
      BY <3>1
    <3> QED
      BY <3>2 DEF SS
  <2>2. Write(Head(todo)) /\ arg' = Head(todo)
    BY <1>1 DEF WriteNext, Write
  <2> QED
    BY <2>1, <2>2 DEF StreamNext
<1>2. CASE Command
  <2>1. Write(<<Verb>> \o CRLF) /\ arg' = <<Verb>> \o CRLF
    BY <1>2 DEF Command, Write
  <2> QED
    BY <2>1, VerbTyped DEF StreamNext
<1>3. CASE FlushAll \/ CommandFlush \/ ReadNext \/ Hangup \/ Network
  BY <1>3 DEF FlushAll, CommandFlush, ReadNext, Hangup, Network, StreamNext
<1>4. CASE SendSucceeds \/ SendFails \/ CommandEnds \/ ReadEnds
  BY <1>4 DEF SendSucceeds, SendFails, CommandEnds, ReadEnds
<1>5. CASE \E c \in Character : Type(c)
  BY <1>5 DEF Type
<1>6. CASE \E m \in Messages, quote \in BOOLEAN : Send(m, quote)
  BY <1>6 DEF Send
<1>7. CASE \E r \in Replies : Answer(r)
  <2>1. PICK r \in Replies : Answer(r)
    BY <1>7
  <2>2. r \in Seq(Byte) /\ inbox \in Seq(Byte)
    BY Types, AlphabetAssumption
  <2>3. Arrive(r) /\ inbox' = inbox \o r
    BY <2>1 DEF Answer, Arrive
  <2>4. inbox' \in Seq(Byte)
    BY <2>2, <2>3, ConcatTyped
  <2>5. Drop(inbox', Len(inbox)) = r
    BY <2>2, <2>3, DropOfConcat
  <2> QED
    BY <2>3, <2>4, <2>5 DEF StreamNext
<1>8. CASE UNCHANGED vars
  BY <1>8 DEF vars
<1> QED
  BY <1>1, <1>2, <1>3, <1>4, <1>5, <1>6, <1>7, <1>8 DEF Next, SenderStep

LEMMA StepKeepsTypes ==
  ASSUME Base64Bytes, SenderTypes, [Next]_vars
  PROVE  SenderTypes'
<1> USE DEF SenderTypes
<1>1. CASE WriteNext
  <2>1. Tail(todo) \in Seq(Seq(Byte))
    <3> DEFINE SS == Seq(Byte)
    <3>1. todo \in Seq(SS) /\ todo # <<>>
      BY <1>1 DEF WriteNext
    <3> HIDE DEF SS
    <3>2. Tail(todo) \in Seq(SS)
      BY <3>1, HeadTailProperties
    <3> QED
      BY <3>2 DEF SS
  <2> QED
    BY <1>1, <2>1 DEF WriteNext
<1>2. CASE Command
  <2>1. commands + 1 \in 0 .. MaxCommands
    BY <1>2, AlphabetAssumption DEF Command
  <2> QED
    BY <1>2, <2>1 DEF Command
<1>3. CASE FlushAll \/ CommandFlush \/ ReadNext \/ SendSucceeds \/ CommandEnds \/ ReadEnds
  BY <1>3 DEF FlushAll, CommandFlush, ReadNext, SendSucceeds, CommandEnds, ReadEnds
<1>4. CASE SendFails
  <2>1. <<>> \in Seq(Seq(Byte))
    BY EmptySeq, Zenon
  <2> QED
    BY <1>4, <2>1 DEF SendFails
<1>5. CASE Hangup \/ Network
  BY <1>5 DEF Hangup, Network, senderVars
<1>6. CASE \E c \in Character : Type(c)
  BY <1>6 DEF Type
<1>7. CASE \E m \in Messages, quote \in BOOLEAN : Send(m, quote)
  <2>1. PICK m \in Messages, quote \in BOOLEAN : Send(m, quote)
    BY <1>7
  <2>2. m \in Seq(Byte)
    BY MessagesTyped
  <2>3. Converted(m, quote) \in Seq(Byte)
    BY <2>2, ConvertedFacts
  <2>4. todo' \in Seq(Seq(Byte))
    BY <2>1, <2>3, CallsTyped DEF Send
  <2>5. eml' = m /\ message' = Converted(m, quote) /\ quoted' = quote /\ pc' = "writing"
        /\ UNCHANGED <<text, result, commands, reply>>
    BY <2>1 DEF Send
  <2> QED
    BY <2>2, <2>3, <2>4, <2>5
<1>8. CASE \E r \in Replies : Answer(r)
  BY <1>8, AlphabetAssumption DEF Answer
<1>9. CASE UNCHANGED vars
  BY <1>9 DEF vars, senderVars
<1> QED
  BY <1>1, <1>2, <1>3, <1>4, <1>5, <1>6, <1>7, <1>8, <1>9 DEF Next, SenderStep

DeliveryInv == IInv /\ SenderTypes

LEMMA InitDeliveryInv == Init => DeliveryInv
<1> SUFFICES ASSUME Init PROVE DeliveryInv
  OBVIOUS
<1>1. IInv
  BY InitIInv DEF Init
<1>2. SenderTypes
  BY AlphabetAssumption DEF Init, SenderTypes
<1> QED
  BY <1>1, <1>2 DEF DeliveryInv

LEMMA StepKeepsDeliveryInv ==
  ASSUME Base64Bytes, DeliveryInv, [Next]_vars
  PROVE  DeliveryInv' /\ [StreamNext]_streamVars
<1>1. [StreamNext]_streamVars
  BY StepUsesTheStream DEF DeliveryInv, IInv
<1>2. IInv'
  BY <1>1, NextKeepsIInv DEF DeliveryInv
<1>3. SenderTypes'
  BY StepKeepsTypes DEF DeliveryInv
<1> QED
  BY <1>1, <1>2, <1>3 DEF DeliveryInv

LEMMA DeliveryInvInvariant == ASSUME Base64Bytes PROVE Spec => []DeliveryInv
<1>1. DeliveryInv /\ [Next]_vars => DeliveryInv'
  BY StepKeepsDeliveryInv
<1> QED
  BY <1>1, InitDeliveryInv, PTL DEF Spec

\* A delivery has the types that its sender and its stream expect.
THEOREM DeliveryTypeCorrect == ASSUME Base64Bytes PROVE Spec => []TypeOK
<1>1. DeliveryInv => TypeOK
  <2> SUFFICES ASSUME DeliveryInv PROVE TypeOK
    OBVIOUS
  <2>1. text \in Seq(Byte)
    <3>1. text \in Seq(Character)
      BY DEF DeliveryInv, SenderTypes
    <3>2. Character \subseteq Byte
      BY AlphabetAssumption
    <3> QED
      BY <3>1, <3>2
  <2> QED
    BY <2>1 DEF DeliveryInv, SenderTypes, IInv, TypeOK
<1> QED
  BY <1>1, DeliveryInvInvariant, PTL

\* The senders of texts, literals and commands and the reader of replies use the
\* stream as its specification allows any caller: what is proved of StreamSpec holds
\* of every delivery.
THEOREM DeliveryUsesTheStream == ASSUME Base64Bytes PROVE Spec => UsesTheStream
<1>1. Init => StreamInit
  BY DEF Init
<1>2. DeliveryInv /\ [Next]_vars => [StreamNext]_streamVars
  BY StepKeepsDeliveryInv
<1> QED
  BY <1>1, <1>2, DeliveryInvInvariant, PTL DEF Spec, UsesTheStream, StreamSpec

----------------------------------------------------------------------------
(***************************************************************************)
(* Replies.                                                                *)
(***************************************************************************)

\* Which call of the stream runs while the sender does what.
Phases ==
  /\ pc \in {"typing", "sent", "idle", "done"} => op = "none"
  /\ pc \in {"writing", "command"} => op \in {"none", "room", "direct"}
  /\ pc \in {"flushing", "command flush"} => op \in {"none", "flush"}
  /\ pc = "reading" => op \in {"none", "read"}
  /\ pc = "sent" => ret # -1

Answered == pc \in {"sent", "reading", "done"}
Untouched == ~Answered => got = <<>> /\ reply = <<>> /\ read_buffer = <<>> /\ inbox = <<>>

\* A line that is being read, and those that have been.
NoLF(s) == \A j \in 1 .. Len(s) : s[j] # LF
IsLine(s) ==
  /\ \A j \in 1 .. Len(s) - 1 : s[j] # LF
  /\ (s # <<>> /\ Last(s) = LF) \/ ~open
LineSoFar == op = "read" => NoLF(line)
LinesWhole == \A i \in 1 .. Len(got) : IsLine(got[i])

\* As long as no read has failed, nothing of the reply is lost.
Current == IF op = "read" THEN line ELSE <<>>
Consumed ==
  pc \in {"sent", "reading"} /\ (op = "none" => ret # -1) =>
    FlattenSeq(got) \o (Current \o (read_buffer \o inbox)) = reply
ReplyPrefix == \E rest \in Seq(Byte) : FlattenSeq(got) \o rest = reply

ReplyInv ==
  /\ Phases /\ Untouched /\ LineSoFar /\ LinesWhole /\ ReplyPrefix /\ Consumed

LEMMA FirstLFIsFirst ==
  ASSUME NEW S, NEW s \in Seq(S), HasLine(s)
  PROVE  /\ FirstLF(s) \in 1 .. Len(s) /\ s[FirstLF(s)] = LineFeed
         /\ \A j \in 1 .. FirstLF(s) - 1 : s[j] # LineFeed
<1> DEFINE T == {i \in 1 .. Len(s) : s[i] = LineFeed}
<1>1. T \subseteq Nat /\ T # {}
  BY DEF HasLine
<1>2. PICK m \in T : \A k \in T : m <= k
  <2> HIDE DEF T
  <2> QED
    BY <1>1, LeastOf
<1>3. m \in 1 .. Len(s) /\ s[m] = LineFeed /\ \A j \in 1 .. m - 1 : s[j] # LineFeed
  <2>1. ASSUME NEW j \in 1 .. m - 1, s[j] = LineFeed PROVE FALSE
    <3>1. j \in T /\ j < m
      BY <1>2, <2>1
    <3> QED
      BY <1>2, <3>1
  <2> QED
    BY <1>2, <2>1
<1> QED
  BY <1>3 DEF FirstLF

LEMMA NoLFGoesOn ==
  ASSUME NEW s \in Seq(Byte), NEW r \in Seq(Byte), NoLF(s), ~HasLine(r)
  PROVE  NoLF(s \o r)
<1> DEFINE x == s \o r
<1>1. /\ Len(x) = Len(s) + Len(r) /\ Len(s) \in Nat /\ Len(r) \in Nat
      /\ (\A j \in 1 .. Len(s) : x[j] = s[j])
      /\ (\A j \in 1 .. Len(r) : x[Len(s) + j] = r[j])
  OBVIOUS
<1> HIDE DEF x
<1>2. \A j \in 1 .. Len(r) : r[j] # LF
  BY AlphabetAssumption DEF HasLine
<1>3. ASSUME NEW j \in 1 .. Len(x) PROVE x[j] # LF
  <2>1. CASE j \in 1 .. Len(s)
    BY <1>1, <2>1 DEF NoLF
  <2>2. CASE j \notin 1 .. Len(s)
    <3>1. j - Len(s) \in 1 .. Len(r) /\ j = Len(s) + (j - Len(s))
      BY <1>1, <2>2
    <3>2. PICK k \in 1 .. Len(r) : j = Len(s) + k
      BY <3>1
    <3> QED
      BY <1>1, <1>2, <3>2
  <2> QED
    BY <2>1, <2>2
<1>4. NoLF(x)
  BY <1>3 DEF NoLF
<1> QED
  BY <1>4 DEF x

LEMMA EmptyConcat ==
  ASSUME NEW x \in Seq(Byte), NEW y \in Seq(Byte), x \o y = <<>>
  PROVE  x = <<>> /\ y = <<>>
<1>1. Len(x \o y) = Len(x) + Len(y) /\ Len(x) \in Nat /\ Len(y) \in Nat
  BY ConcatProperties
<1>2. Len(x) = 0 /\ Len(y) = 0
  BY <1>1
<1> QED
  BY <1>2, EmptySeq

\* Concatenation, for steps that only need that it is associative.
Glue(x, y) == x \o y

LEMMA Reassociates ==
  /\ \A l, s, d \in Seq(Byte) : Glue(Glue(l, s), d) = Glue(l, Glue(s, d))
  /\ \A f, l, s, d \in Seq(Byte) :
       Glue(Glue(f, Glue(l, s)), d) = Glue(f, Glue(l, Glue(s, d)))
<1>1. \A x, y \in Seq(Byte) : Glue(x, y) \in Seq(Byte)
  BY ConcatTyped DEF Glue
<1>2. \A x, y, z \in Seq(Byte) : Glue(Glue(x, y), z) = Glue(x, Glue(y, z))
  BY Associative DEF Glue
<1>3. ASSUME NEW f \in Seq(Byte), NEW l \in Seq(Byte), NEW s \in Seq(Byte), NEW d \in Seq(Byte)
      PROVE  Glue(Glue(f, Glue(l, s)), d) = Glue(f, Glue(l, Glue(s, d)))
  <2> DEFINE ls == Glue(l, s)
  <2>1. ls \in Seq(Byte)
    BY <1>1
  <2>2. Glue(ls, d) = Glue(l, Glue(s, d))
    BY <1>2
  <2> HIDE DEF ls
  <2>3. Glue(Glue(f, ls), d) = Glue(f, Glue(ls, d))
    BY <1>2, <2>1, SMTT(30)
  <2>4. Glue(Glue(f, ls), d) = Glue(f, Glue(l, Glue(s, d)))
    BY <2>2, <2>3, Zenon
  <2> QED
    BY <2>4 DEF ls
<1> QED
  BY <1>2, <1>3, Zenon

LEMMA ReplyTypes ==
  ASSUME DeliveryInv
  PROVE  /\ got \in Seq(Seq(Byte)) /\ FlattenSeq(got) \in Seq(Byte)
         /\ line \in Seq(Byte) /\ read_buffer \in Seq(Byte) /\ inbox \in Seq(Byte)
         /\ reply \in Seq(Byte) /\ open \in BOOLEAN /\ ret \in Int
         /\ op \in {"none", "flush", "room", "direct", "read"}
         /\ pc \in {"typing", "writing", "flushing", "sent", "idle", "command",
                    "command flush", "reading", "done"}
<1>1. /\ got \in Seq(Seq(Byte)) /\ line \in Seq(Byte)
      /\ read_buffer \in Seq(Byte) /\ inbox \in Seq(Byte) /\ open \in BOOLEAN /\ ret \in Int
      /\ op \in {"none", "flush", "room", "direct", "read"}
  BY DEF DeliveryInv, IInv, StreamTypeOK
<1>2. FlattenSeq(got) \in Seq(Byte)
  BY <1>1, FlattenTyped
<1> QED
  BY <1>1, <1>2 DEF DeliveryInv, SenderTypes

\* A step that returns no line.
LEMMA NoLineReturned ==
  ASSUME ReplyInv, UNCHANGED <<got, reply>>, open' => open,
         Phases', Untouched', LineSoFar', Consumed'
  PROVE  ReplyInv'
<1>1. LinesWhole'
  BY DEF ReplyInv, LinesWhole, IsLine
<1>2. ReplyPrefix'
  BY DEF ReplyInv, ReplyPrefix
<1> QED
  BY <1>1, <1>2 DEF ReplyInv

\* A line is returned.
LEMMA LineIsReturned ==
  ASSUME DeliveryInv, DeliveryInv', ReplyInv, op = "read", NEW x \in Seq(Byte),
         got' = Append(got, x), op' = "none", ret' = 0, UNCHANGED <<pc, reply, open>>,
         IsLine(x),
         FlattenSeq(got) \o (line \o (read_buffer \o inbox))
           = (FlattenSeq(got) \o x) \o (<<>> \o (read_buffer' \o inbox'))
  PROVE  ReplyInv'
<1>1. pc = "reading"
  BY ReplyTypes DEF ReplyInv, Phases
<1>2. Phases' /\ Untouched' /\ LineSoFar'
  BY <1>1 DEF Phases, Untouched, Answered, LineSoFar
<1>3. FlattenSeq(got') = FlattenSeq(got) \o x
  BY ReplyTypes, FlattenAppend
<1>4. FlattenSeq(got) \o (line \o (read_buffer \o inbox)) = reply
  BY <1>1 DEF ReplyInv, Consumed, Current
<1>5. read_buffer' \in Seq(Byte) /\ inbox' \in Seq(Byte)
  BY DEF DeliveryInv, IInv, StreamTypeOK
<1>6. FlattenSeq(got') \o (<<>> \o (read_buffer' \o inbox')) = reply
  BY <1>3, <1>4
<1>7. Consumed'
  BY <1>6 DEF Consumed, Current
<1>8. ReplyPrefix'
  <2>1. read_buffer' \o inbox' \in Seq(Byte)
    BY <1>5, ConcatTyped
  <2>2. <<>> \o (read_buffer' \o inbox') \in Seq(Byte)
    BY <2>1, EmptySides
  <2> QED
    BY <1>6, <2>2 DEF ReplyPrefix
<1>9. LinesWhole'
  <2>1. Len(got') = Len(got) + 1 /\ got'[Len(got) + 1] = x /\ Len(got) \in Nat
        /\ \A i \in 1 .. Len(got) : got'[i] = got[i]
    <3> DEFINE SS == Seq(Byte)
    <3>1. got \in Seq(SS) /\ x \in SS
      BY ReplyTypes
    <3> HIDE DEF SS
    <3> QED
      BY <3>1
  <2>2. \A i \in 1 .. Len(got') : i \in 1 .. Len(got) \/ i = Len(got) + 1
    BY <2>1
  <2> QED
    BY <2>1, <2>2 DEF ReplyInv, LinesWhole, IsLine
<1> QED
  BY <1>2, <1>7, <1>8, <1>9 DEF ReplyInv

\* The calls of the sender and of the reader, and what the network does with them.
LEMMA StepKeepsPhases ==
  ASSUME DeliveryInv, Phases, [Next]_vars
  PROVE  Phases'
<1> USE DEF Phases
<1>1. CASE WriteNext
  BY <1>1 DEF WriteNext, Write, Returns
<1>2. CASE FlushAll
  BY <1>2 DEF FlushAll, Flush
<1>3. CASE SendSucceeds \/ SendFails \/ CommandEnds \/ ReadEnds
  BY <1>3 DEF SendSucceeds, SendFails, CommandEnds, ReadEnds, streamVars
<1>4. CASE CommandFlush
  BY <1>4 DEF CommandFlush, Flush
<1>5. CASE Command
  BY <1>5 DEF Command, Write, Returns
<1>6. CASE ReadNext
  BY <1>6 DEF ReadNext, ReadLine
<1>7. CASE Network
  <2>1. UNCHANGED pc
    BY <1>7 DEF Network, senderVars
  <2>2. LowLayer
    BY <1>7 DEF Network
  <2>3. CASE \E n \in 1 .. Len(write_buffer) : FlushSome(n)
    BY <2>1, <2>3 DEF FlushSome
  <2>4. CASE FlushLast
    BY <2>1, <2>4 DEF FlushLast, Flushing, Returns
  <2>5. CASE FlushFails
    BY <2>1, <2>5 DEF FlushFails, Flushing
  <2>6. CASE \E n \in 1 .. Len(left) : DirectSome(n)
    BY <2>1, <2>6 DEF DirectSome
  <2>7. CASE DirectLast \/ DirectFails
    BY <2>1, <2>7 DEF DirectLast, DirectFails, Returns
  <2>8. CASE LineEnds \/ FeedEnds \/ FeedFails
    BY <2>1, <2>8 DEF LineEnds, FeedEnds, FeedFails
  <2>9. CASE \E n \in 1 .. Len(inbox) : Feed(n)
    BY <2>1, <2>9 DEF Feed
  <2> QED
    BY <2>2, <2>3, <2>4, <2>5, <2>6, <2>7, <2>8, <2>9 DEF LowLayer
<1>8. CASE (\E c \in Character : Type(c)) \/ UNCHANGED vars
  BY <1>8 DEF Type, streamVars, vars, senderVars
<1>9. CASE \E m \in Messages, quote \in BOOLEAN : Send(m, quote)
  BY <1>9 DEF Send, streamVars
<1>10. CASE (\E r \in Replies : Answer(r)) \/ Hangup
  BY <1>10 DEF Answer, Arrive, Hangup, PeerCloses, senderVars
<1> QED
  BY <1>1, <1>2, <1>3, <1>4, <1>5, <1>6, <1>7, <1>8, <1>9, <1>10 DEF Next, SenderStep

\* Before the message is sent nothing is read.
LEMMA NothingRead ==
  ASSUME DeliveryInv, ReplyInv, Phases', ~Answered, ~Answered', UNCHANGED <<readVars, reply>>,
         DeliveryInv'
  PROVE  ReplyInv'
<1>1. op' # "read" /\ pc' \notin {"sent", "reading"}
  <2>1. op' \in {"none", "flush", "room", "direct", "read"}
    BY DEF DeliveryInv, IInv, StreamTypeOK
  <2>2. pc' \in {"typing", "writing", "flushing", "sent", "idle", "command",
                 "command flush", "reading", "done"}
    BY DEF DeliveryInv, SenderTypes
  <2> QED
    BY <2>1, <2>2 DEF Phases, Answered
<1>2. Untouched' /\ LineSoFar' /\ Consumed'
  BY <1>1 DEF ReplyInv, Untouched, LineSoFar, Consumed, readVars
<1> QED
  BY <1>2, NoLineReturned DEF readVars

\* The steps of the sender and of the network that writes.
LEMMA WriterKeepsReplyInv ==
  ASSUME DeliveryInv, DeliveryInv', ReplyInv, Phases', ~Answered, [Next]_vars
  PROVE  ReplyInv'
<1>1. CASE SendSucceeds
  <2>1. /\ got = <<>> /\ reply = <<>> /\ read_buffer = <<>> /\ inbox = <<>>
        /\ UNCHANGED <<readVars, reply, op>> /\ op = "none" /\ pc' = "sent"
    BY <1>1 DEF ReplyInv, Untouched, SendSucceeds, streamVars
  <2>2. FlattenSeq(<<>>) \o (<<>> \o (<<>> \o <<>>)) = <<>>
    <3>1. FlattenSeq(<<>>) = <<>> /\ <<>> \in Seq(Byte)
      BY FlattenEmpty
    <3> QED
      BY <3>1, EmptySides
  <2>3. FlattenSeq(got') \o (Current' \o (read_buffer' \o inbox')) = reply'
    BY <2>1, <2>2 DEF Current, readVars
  <2>4. Untouched' /\ LineSoFar' /\ Consumed'
    BY <2>1, <2>3 DEF Untouched, Answered, LineSoFar, Consumed
  <2> QED
    BY <2>1, <2>4, NoLineReturned DEF readVars
<1>2. CASE ~SendSucceeds
  <2>1. pc \in {"typing", "writing", "flushing", "idle", "command", "command flush"}
    BY ReplyTypes DEF Answered
  <2>2. UNCHANGED <<readVars, reply>> /\ ~Answered'
    <3>1. op # "read"
      BY <2>1, ReplyTypes DEF ReplyInv, Phases
    <3>2. CASE Network
      <4>1. UNCHANGED <<readVars, reply, pc>>
        BY <3>1, <3>2 DEF Network, senderVars, LowLayer, FlushSome, FlushLast, FlushFails,
           DirectSome, DirectLast, DirectFails, LineEnds, FeedEnds, FeedFails, Feed
      <4> QED
        BY <4>1 DEF Answered
    <3>3. CASE WriteNext \/ Command
      BY <2>1, <3>3 DEF WriteNext, Command, Write, Answered
    <3>4. CASE FlushAll \/ CommandFlush
      BY <2>1, <3>4 DEF FlushAll, CommandFlush, Flush, Answered
    <3>5. CASE SendFails \/ CommandEnds
      BY <2>1, <3>5 DEF SendFails, CommandEnds, Answered, streamVars
    <3>6. CASE (\E c \in Character : Type(c)) \/ UNCHANGED vars
      BY <2>1, <3>6 DEF Type, vars, senderVars, Answered, streamVars
    <3>7. CASE \E m \in Messages, quote \in BOOLEAN : Send(m, quote)
      BY <2>1, <3>7 DEF Send, Answered, streamVars
    <3>8. CASE ReadNext \/ ReadEnds \/ Hangup \/ \E r \in Replies : Answer(r)
      BY <2>1, <3>8 DEF ReadNext, ReadEnds, Hangup, Answer
    <3> QED
      BY <1>2, <3>2, <3>3, <3>4, <3>5, <3>6, <3>7, <3>8 DEF Next, SenderStep
  <2> QED
    BY <2>2, NothingRead
<1> QED
  BY <1>1, <1>2

\* The steps of the reader and of its peer.
LEMMA LineEndsKeepsReplyInv ==
  ASSUME DeliveryInv, DeliveryInv', ReplyInv, LineEnds, UNCHANGED senderVars
  PROVE  ReplyInv'
<1> DEFINE n == FirstLF(read_buffer)
           s == Take(read_buffer, n)
           d == Drop(read_buffer, n)
           x == line \o s
<1>1. /\ op = "read" /\ HasLine(read_buffer) /\ got' = Append(got, x) /\ op' = "none" /\ ret' = 0
      /\ read_buffer' = d /\ inbox' = inbox /\ UNCHANGED <<pc, reply, open>>
  BY DEF LineEnds, senderVars
<1>0. read_buffer \in Seq(Byte) /\ inbox \in Seq(Byte) /\ line \in Seq(Byte)
      /\ FlattenSeq(got) \in Seq(Byte)
  BY ReplyTypes
<1>2. /\ n \in 1 .. Len(read_buffer) /\ read_buffer[n] = LineFeed
      /\ \A j \in 1 .. n - 1 : read_buffer[j] # LineFeed
  BY <1>0, <1>1, FirstLFIsFirst
<1> HIDE DEF n
<1>3. Len(read_buffer) \in Nat /\ n \in 0 .. Len(read_buffer) /\ n \in Nat \ {0}
  BY <1>0, <1>2
<1>4. /\ s \in Seq(Byte) /\ Len(s) = n /\ d \in Seq(Byte) /\ s \o d = read_buffer
  BY <1>0, <1>3, CutFacts
<1>5. \A j \in 1 .. n : s[j] = read_buffer[j]
  BY <1>0, <1>3, TakeElements
<1> HIDE DEF s, d
<1>6. x \in Seq(Byte) /\ Len(x) = Len(line) + n /\ Len(line) \in Nat
      /\ (\A j \in 1 .. Len(line) : x[j] = line[j])
      /\ (\A j \in 1 .. n : x[Len(line) + j] = s[j])
  <2>1. s \in Seq(Byte) /\ line \in Seq(Byte) /\ Len(s) = n
    BY <1>0, <1>4
  <2> QED
    BY <2>1, ConcatElements, Zenon
<1> HIDE DEF x
<1>7. IsLine(x)
  <2>1. NoLF(line)
    BY <1>1 DEF ReplyInv, LineSoFar
  <2>2. ASSUME NEW j \in 1 .. Len(x) - 1 PROVE x[j] # LF
    <3>1. CASE j \in 1 .. Len(line)
      BY <1>6, <2>1, <3>1 DEF NoLF
    <3>2. CASE j \notin 1 .. Len(line)
      <4>1. PICK k \in 1 .. n - 1 : j = Len(line) + k
        <5>1. j - Len(line) \in 1 .. n - 1 /\ j = Len(line) + (j - Len(line))
          BY <1>3, <1>6, <3>2
        <5> QED
          BY <5>1
      <4>2. k \in 1 .. n /\ read_buffer[k] # LineFeed
        BY <1>2, <1>3
      <4> QED
        BY <1>5, <1>6, <4>1, <4>2, AlphabetAssumption
    <3> QED
      BY <3>1, <3>2
  <2>3. x # <<>> /\ Last(x) = LF
    <3>1. n \in 1 .. n
      BY <1>3
    <3>2. x[Len(line) + n] = LineFeed /\ Len(x) # 0
      BY <1>2, <1>3, <1>5, <1>6, <3>1
    <3> QED
      BY <1>6, <3>2, AlphabetAssumption DEF Last
  <2> QED
    BY <2>2, <2>3 DEF IsLine
<1>8. FlattenSeq(got) \o (line \o (read_buffer \o inbox))
        = (FlattenSeq(got) \o x) \o (<<>> \o (read_buffer' \o inbox'))
  <2>1. read_buffer \o inbox = s \o (d \o inbox)
    <3>1. (s \o d) \o inbox = s \o (d \o inbox)
      <4>1. s \in Seq(Byte) /\ d \in Seq(Byte) /\ inbox \in Seq(Byte)
        BY <1>0, <1>4
      <4> QED
        BY <4>1, Associative
    <3> QED
      BY <1>4, <3>1
  <2>2. PICK di \in Seq(Byte) : di = d \o inbox
    <3>1. d \o inbox \in Seq(Byte)
      BY <1>0, <1>4, ConcatTyped, Zenon
    <3> QED
      BY <3>1
  <2>3. (FlattenSeq(got) \o (line \o s)) \o di = FlattenSeq(got) \o (line \o (s \o di))
    <3>1. s \in Seq(Byte) /\ line \in Seq(Byte) /\ FlattenSeq(got) \in Seq(Byte)
      BY <1>0, <1>4
    <3>2. Glue(Glue(FlattenSeq(got), Glue(line, s)), di)
            = Glue(FlattenSeq(got), Glue(line, Glue(s, di)))
      BY <3>1, Reassociates
    <3> QED
      BY <3>2 DEF Glue
  <2>4. <<>> \o di = di
    BY EmptySides
  <2> QED
    BY <1>1, <2>1, <2>2, <2>3, <2>4 DEF x
<1> QED
  BY <1>1, <1>6, <1>7, <1>8, LineIsReturned

LEMMA FeedEndsKeepsReplyInv ==
  ASSUME DeliveryInv, DeliveryInv', ReplyInv, FeedEnds, UNCHANGED senderVars
  PROVE  ReplyInv'
<1> DEFINE x == line \o read_buffer
<1>1. /\ op = "read" /\ ~HasLine(read_buffer) /\ got' = Append(got, x) /\ op' = "none" /\ ret' = 0
      /\ read_buffer' = <<>> /\ inbox = <<>> /\ inbox' = <<>> /\ UNCHANGED <<pc, reply, open>>
      /\ ~open
  BY DEF FeedEnds, senderVars
<1>0. read_buffer \in Seq(Byte) /\ line \in Seq(Byte) /\ FlattenSeq(got) \in Seq(Byte)
  BY ReplyTypes
<1>2. x \in Seq(Byte) /\ Len(x) = Len(line) + Len(read_buffer)
      /\ Len(line) \in Nat /\ Len(read_buffer) \in Nat
      /\ (\A j \in 1 .. Len(line) : x[j] = line[j])
      /\ (\A j \in 1 .. Len(read_buffer) : x[Len(line) + j] = read_buffer[j])
  BY <1>0, ConcatElements, Zenon
<1> HIDE DEF x
<1>3. IsLine(x)
  <2>1. NoLF(x)
    BY <1>1, <1>2, NoLFGoesOn DEF ReplyInv, LineSoFar, x
  <2> QED
    BY <1>1, <1>2, <2>1 DEF IsLine, NoLF
<1>4. FlattenSeq(got) \o (line \o (read_buffer \o inbox))
        = (FlattenSeq(got) \o x) \o (<<>> \o (read_buffer' \o inbox'))
  <2>1. FlattenSeq(got) \o x \in Seq(Byte)
    BY <1>2, ReplyTypes, ConcatTyped
  <2>2. read_buffer \o <<>> = read_buffer /\ <<>> \o <<>> = <<>>
        /\ (FlattenSeq(got) \o x) \o <<>> = FlattenSeq(got) \o x
    <3>1. <<>> \in Seq(Byte)
      OBVIOUS
    <3> QED
      BY <1>0, <2>1, <3>1, EmptySides, Zenon
  <2> QED
    BY <1>1, <2>2 DEF x
<1> QED
  BY <1>1, <1>2, <1>3, <1>4, LineIsReturned

LEMMA FeedKeepsReplyInv ==
  ASSUME DeliveryInv, DeliveryInv', ReplyInv, NEW n \in 1 .. Len(inbox), Feed(n),
         UNCHANGED senderVars
  PROVE  ReplyInv'
<1> DEFINE s == Take(inbox, n)
           d == Drop(inbox, n)
<1>1. /\ op = "read" /\ op' = "read" /\ ~HasLine(read_buffer) /\ line' = line \o read_buffer
      /\ read_buffer' = s /\ inbox' = d /\ UNCHANGED <<pc, reply, open, got, ret>>
  BY DEF Feed, senderVars
<1>0. inbox \in Seq(Byte)
  BY ReplyTypes
<1>2. n \in 0 .. Len(inbox)
  BY <1>0
<1>3. /\ s \in Seq(Byte) /\ d \in Seq(Byte) /\ s \o d = inbox
  BY <1>2, ReplyTypes, CutFacts
<1> HIDE DEF s, d
<1>4. pc = "reading"
  BY <1>1, ReplyTypes DEF ReplyInv, Phases
<1>5. Phases' /\ Untouched'
  BY <1>1, <1>4 DEF Phases, Untouched, Answered
<1>6. LineSoFar'
  <2>1. NoLF(line \o read_buffer)
    BY <1>1, ReplyTypes, NoLFGoesOn DEF ReplyInv, LineSoFar
  <2> QED
    BY <1>1, <2>1 DEF LineSoFar
<1>7. Consumed'
  <2>1. FlattenSeq(got) \o (line \o (read_buffer \o inbox)) = reply
    BY <1>1, <1>4 DEF ReplyInv, Consumed, Current
  <2>2. (line \o read_buffer) \o inbox = line \o (read_buffer \o inbox)
    BY ReplyTypes, Associative, ZenonT(30)
  <2>3. FlattenSeq(got') \o (Current' \o (read_buffer' \o inbox')) = reply'
    BY <1>1, <1>3, <2>1, <2>2 DEF Current
  <2> QED
    BY <2>3 DEF Consumed
<1> QED
  BY <1>1, <1>5, <1>6, <1>7, NoLineReturned

LEMMA ReaderKeepsReplyInv ==
  ASSUME DeliveryInv, DeliveryInv', ReplyInv, Phases', Answered, [Next]_vars
  PROVE  ReplyInv'
<1>1. CASE ReadNext
  <2>1. /\ op = "none" /\ op' = "read" /\ line' = <<>> /\ pc' = "reading"
        /\ UNCHANGED <<ret, read_buffer, inbox, got, open, reply>>
        /\ pc \in {"sent", "reading"} /\ (pc = "reading" => ret # -1)
    BY <1>1 DEF ReadNext, ReadLine
  <2>2. Untouched' /\ LineSoFar'
    BY <2>1 DEF Untouched, Answered, LineSoFar, NoLF
  <2>3. Consumed'
    <3>1. FlattenSeq(got) \o (<<>> \o (read_buffer \o inbox)) = reply
      BY <2>1 DEF ReplyInv, Phases, Consumed, Current
    <3> QED
      BY <2>1, <3>1 DEF Consumed, Current
  <2> QED
    BY <2>1, <2>2, <2>3, NoLineReturned
<1>2. CASE ReadEnds \/ UNCHANGED vars
  <2>1. /\ UNCHANGED <<op, ret, read_buffer, inbox, line, got, open, reply>>
        /\ Answered' /\ (pc' = pc \/ pc' = "done")
    BY <1>2 DEF ReadEnds, vars, streamVars, readVars, senderVars, Answered
  <2>2. Untouched' /\ LineSoFar' /\ Consumed'
    BY <2>1 DEF ReplyInv, Untouched, LineSoFar, Consumed, Current
  <2> QED
    BY <2>1, <2>2, NoLineReturned
<1>3. CASE Hangup
  <2>1. /\ UNCHANGED <<op, ret, read_buffer, inbox, line, got, reply, pc>> /\ open' = FALSE
    BY <1>3 DEF Hangup, PeerCloses, senderVars
  <2>2. Untouched' /\ LineSoFar' /\ Consumed'
    BY <2>1 DEF ReplyInv, Untouched, Answered, LineSoFar, Consumed, Current
  <2> QED
    BY <2>1, <2>2, NoLineReturned
<1>4. CASE \E r \in Replies : Answer(r)
  <2>1. PICK r \in Replies : Answer(r)
    BY <1>4
  <2>2. /\ UNCHANGED <<op, ret, read_buffer, line, got, open, pc>>
        /\ reply = <<>> /\ reply' = r /\ inbox' = inbox \o r
    BY <2>1 DEF Answer, Arrive
  <2>3. r \in Seq(Byte)
    BY AlphabetAssumption
  <2>4. Untouched' /\ LineSoFar'
    BY <2>2 DEF ReplyInv, Untouched, Answered, LineSoFar
  <2>5. FlattenSeq(got) = <<>>
    <3>1. PICK rest \in Seq(Byte) : FlattenSeq(got) \o rest = <<>>
      BY <2>2 DEF ReplyInv, ReplyPrefix
    <3> QED
      BY <3>1, ReplyTypes, EmptyConcat
  <2>6. Consumed'
    <3>1. SUFFICES ASSUME pc \in {"sent", "reading"}, op = "none" => ret # -1
                   PROVE  FlattenSeq(got) \o (Current' \o (read_buffer \o (inbox \o r))) = r
      BY <2>2 DEF Consumed
    <3>2. FlattenSeq(got) \o (Current \o (read_buffer \o inbox)) = <<>>
      BY <2>2, <3>1 DEF ReplyInv, Consumed
    <3>3. Current \in Seq(Byte) /\ Current' = Current
      BY <2>2, ReplyTypes DEF Current
    <3>4. read_buffer \o inbox \in Seq(Byte)
      BY ReplyTypes, ConcatTyped
    <3>5. Current \o (read_buffer \o inbox) \in Seq(Byte)
      BY <3>3, <3>4, ConcatTyped
    <3>6. Current \o (read_buffer \o inbox) = <<>>
      BY <3>2, <3>5, ReplyTypes, EmptyConcat
    <3>7. Current = <<>> /\ read_buffer \o inbox = <<>>
      BY <3>3, <3>4, <3>6, EmptyConcat
    <3>8. read_buffer = <<>> /\ inbox = <<>>
      BY <3>7, ReplyTypes, EmptyConcat
    <3>9. <<>> \o r = r
      BY <2>3, EmptySides
    <3> QED
      BY <2>5, <3>3, <3>7, <3>8, <3>9
  <2>7. ReplyPrefix'
    <3>1. <<>> \o r = r
      BY <2>3, EmptySides
    <3>2. FlattenSeq(got') \o r = reply'
      BY <2>2, <2>5, <3>1
    <3> QED
      BY <2>3, <3>2 DEF ReplyPrefix
  <2>8. LinesWhole'
    BY <2>2 DEF ReplyInv, LinesWhole, IsLine
  <2> QED
    BY <2>4, <2>6, <2>7, <2>8 DEF ReplyInv
<1>5. CASE Network
  <2>1. LowLayer /\ UNCHANGED senderVars /\ UNCHANGED <<pc, reply>>
    BY <1>5 DEF Network, senderVars
  <2>2. op \in {"none", "read"}
    BY ReplyTypes DEF Answered, ReplyInv, Phases
  <2>3. CASE LineEnds
    BY <2>1, <2>3, LineEndsKeepsReplyInv
  <2>4. CASE FeedEnds
    BY <2>1, <2>4, FeedEndsKeepsReplyInv
  <2>5. CASE \E n \in 1 .. Len(inbox) : Feed(n)
    BY <2>1, <2>5, FeedKeepsReplyInv
  <2>6. CASE FeedFails
    <3>1. /\ op' = "none" /\ ret' = -1 /\ UNCHANGED <<got, open, reply, pc>>
      BY <2>1, <2>6 DEF FeedFails
    <3>2. Untouched' /\ LineSoFar' /\ Consumed'
      BY <3>1 DEF Untouched, Answered, LineSoFar, Consumed
    <3> QED
      BY <3>1, <3>2, NoLineReturned
  <2> QED
    BY <2>1, <2>2, <2>3, <2>4, <2>5, <2>6 DEF LowLayer, FlushSome, FlushLast, FlushFails,
       Flushing, DirectSome, DirectLast, DirectFails
<1>6. CASE ~(ReadNext \/ ReadEnds \/ UNCHANGED vars \/ Hangup \/ (\E r \in Replies : Answer(r)) \/ Network)
  <2>1. pc \in {"typing", "writing", "flushing", "idle", "command", "command flush"}
    BY <1>6 DEF Next, SenderStep, WriteNext, FlushAll, SendSucceeds, SendFails, CommandFlush,
       CommandEnds, Command, Type, Send
  <2> QED
    BY <2>1 DEF Answered
<1> QED
  BY <1>1, <1>2, <1>3, <1>4, <1>5, <1>6

LEMMA ReplyInvInvariant == ASSUME Base64Bytes PROVE Spec => []ReplyInv
<1>1. Init => ReplyInv
  <2> SUFFICES ASSUME Init PROVE ReplyInv
    OBVIOUS
  <2>1. pc = "typing" /\ op = "none" /\ got = <<>> /\ reply = <<>> /\ read_buffer = <<>> /\ inbox = <<>>
    BY DEF Init, StreamInit
  <2>2. FlattenSeq(got) \o <<>> = reply /\ <<>> \in Seq(Byte)
    <3>1. <<>> \in Seq(Byte)
      OBVIOUS
    <3> QED
      BY <2>1, <3>1, FlattenEmpty, EmptySides
  <2>3. ReplyPrefix
    BY <2>2 DEF ReplyPrefix
  <2> QED
    BY <2>1, <2>3 DEF ReplyInv, Phases, Untouched, LineSoFar, LinesWhole, Consumed
<1>2. DeliveryInv /\ DeliveryInv' /\ ReplyInv /\ [Next]_vars => ReplyInv'
  <2> SUFFICES ASSUME DeliveryInv, DeliveryInv', ReplyInv, [Next]_vars PROVE ReplyInv'
    OBVIOUS
  <2>1. Phases'
    BY StepKeepsPhases DEF ReplyInv
  <2> QED
    BY <2>1, WriterKeepsReplyInv, ReaderKeepsReplyInv
<1> QED
  BY <1>1, <1>2, DeliveryInvInvariant, PTL DEF Spec

\* What a client reads of a reply is the reply, in order and in whole lines, wherever
\* the network cuts it, and after a read that failed it is a part of it from its start.
THEOREM RepliesAlwaysInOrder == ASSUME Base64Bytes PROVE Spec => []RepliesInOrder
<1>1. DeliveryInv /\ ReplyInv => RepliesInOrder
  <2> SUFFICES ASSUME DeliveryInv, ReplyInv PROVE RepliesInOrder
    OBVIOUS
  <2>1. PICK rest \in Seq(Byte) : FlattenSeq(got) \o rest = reply
    BY DEF ReplyInv, ReplyPrefix
  <2>2. Take(reply, Len(FlattenSeq(got))) = FlattenSeq(got)
    BY <2>1, ReplyTypes, TakeOfConcat
  <2>3. SubSeq(FlattenSeq(got), 1, Len(FlattenSeq(got))) = FlattenSeq(got)
    BY ReplyTypes, SubSeqFull
  <2>4. Len(FlattenSeq(got)) <= Len(reply)
    <3>1. Len(FlattenSeq(got) \o rest) = Len(FlattenSeq(got)) + Len(rest)
          /\ Len(FlattenSeq(got)) \in Nat /\ Len(rest) \in Nat
      <4>1. FlattenSeq(got) \in Seq(Byte)
        BY ReplyTypes
      <4> QED
        BY <4>1, ConcatElements, Zenon
    <3> QED
      BY <2>1, <3>1
  <2>5. IsPrefix(FlattenSeq(got), reply)
    BY <2>2, <2>3, <2>4 DEF IsPrefix, Take
  <2> QED
    BY <2>5 DEF RepliesInOrder, ReplyInv, LinesWhole, IsLine
<1> QED
  BY <1>1, DeliveryInvInvariant, ReplyInvInvariant, PTL

----------------------------------------------------------------------------
(***************************************************************************)
(* Sending.                                                                *)
(***************************************************************************)

\* The calls of mailstream_write for a message, and all that they hand over.
Calls(m, quote) == Append(DataWrites(m, quote), IF quote THEN EndOfText ELSE CRLF)
AllBytesOf(m, quote) == FlattenSeq(Calls(m, quote))

\* What has at most the end of the message m, and the message before it.
OnlyItsEnd(m, b) ==
  \/ TextEnds(b) = {}
  \/ (\E y \in Seq(Byte) : b = Whole(m) \o y) /\ TextEnds(b) = {Len(Whole(m)) - 2}

LEMMA FlattenHead ==
  ASSUME NEW S, NEW seqs \in Seq(Seq(S)), seqs # <<>>
  PROVE  /\ Head(seqs) \in Seq(S) /\ Tail(seqs) \in Seq(Seq(S))
         /\ FlattenSeq(seqs) = Head(seqs) \o FlattenSeq(Tail(seqs))
<1> DEFINE SS == Seq(S)
           h == Head(seqs)
           r == Tail(seqs)
<1>1. h \in SS /\ r \in Seq(SS) /\ <<h>> \o r = seqs /\ <<h>> \in Seq(SS)
  <2> HIDE DEF SS
  <2>1. seqs \in Seq(SS)
    BY DEF SS
  <2> QED
    BY <2>1, HeadTailProperties
<1> HIDE DEF h, r
<1>2. FlattenSeq(<<h>> \o r) = FlattenSeq(<<h>>) \o FlattenSeq(r)
  BY <1>1, FlattenConcat
<1>3. FlattenSeq(<<h>>) = h
  BY <1>1, FlattenOne
<1> QED
  BY <1>1, <1>2, <1>3 DEF h, r

\* Every call but a long line fits into the buffer.
LEMMA CallsFit ==
  ASSUME Len(EndOfText) <= BufferSize, NEW m \in Seq(Byte), NEW quote \in BOOLEAN,
         \A i \in 1 .. Len(DataWrites(m, quote)) : Len(DataWrites(m, quote)[i]) <= BufferSize
  PROVE  \A i \in 1 .. Len(Calls(m, quote)) : Len(Calls(m, quote)[i]) <= BufferSize
<1> DEFINE SS == Seq(Byte)
           w == DataWrites(m, quote)
           e == IF quote THEN EndOfText ELSE CRLF
<1>1. w \in Seq(SS) /\ e \in SS
  BY CallsTyped, CrlfTyped
<1>2. Len(e) <= BufferSize
  <2>1. Len(CRLF) = 2 /\ Len(EndOfText) = 5
    BY DEF CRLF, EndOfText
  <2>2. Len(EndOfText) <= BufferSize /\ BufferSize \in Nat
    BY BufferSizeAssumption
  <2>3. 5 <= BufferSize /\ 2 <= BufferSize
    BY <2>1, <2>2
  <2>4. CASE quote
    BY <2>1, <2>3, <2>4
  <2>5. CASE ~quote
    BY <2>1, <2>3, <2>5
  <2> QED
    BY <2>4, <2>5
<1>3. \A i \in 1 .. Len(w) : Len(w[i]) <= BufferSize
  OBVIOUS
<1> HIDE DEF SS, w, e
<1>4. /\ Len(Append(w, e)) = Len(w) + 1 /\ Len(w) \in Nat /\ Append(w, e)[Len(w) + 1] = e
      /\ \A i \in 1 .. Len(w) : Append(w, e)[i] = w[i]
  BY <1>1
<1>5. \A i \in 1 .. Len(Append(w, e)) : i \in 1 .. Len(w) \/ i = Len(w) + 1
  BY <1>4
<1>6. \A i \in 1 .. Len(Append(w, e)) : Len(Append(w, e)[i]) <= BufferSize
  BY <1>2, <1>3, <1>4, <1>5
<1> QED
  BY <1>6 DEF w, e, Calls

\* They hand over the text with its end, or the message in its canonical form.
LEMMA WhatIsSent ==
  ASSUME NEW m \in Seq(Byte)
  PROVE  /\ AllBytesOf(m, TRUE) = Whole(m)
         /\ AllBytesOf(m, FALSE) = Canonical(m) \o CRLF
<1>1. {CR, LF, DOT} \subseteq Byte
  BY AlphabetAssumption
<1>2. /\ DataWrites(m, TRUE) \in Seq(Seq(Byte)) /\ EndOfText \in Seq(Byte)
      /\ DataWrites(m, FALSE) \in Seq(Seq(Byte)) /\ CRLF \in Seq(Byte)
  BY CallsTyped, CrlfTyped
<1>3. FlattenSeq(Append(DataWrites(m, TRUE), EndOfText))
        = FlattenSeq(DataWrites(m, TRUE)) \o EndOfText
  BY <1>2, FlattenAppend
<1>4. FlattenSeq(Append(DataWrites(m, FALSE), CRLF))
        = FlattenSeq(DataWrites(m, FALSE)) \o CRLF
  BY <1>2, FlattenAppend
<1>5. FlattenSeq(DataWrites(m, FALSE)) = Canonical(m)
  BY <1>1, AnnouncedSizeIsSent
<1> QED
  BY <1>3, <1>4, <1>5 DEF AllBytesOf, Calls, Whole, Unended

LEMMA WholeFacts ==
  ASSUME NEW m \in Seq(Byte)
  PROVE  /\ Whole(m) \in Seq(Byte) /\ Len(Whole(m)) \in Nat
         /\ TextEnds(Whole(m)) = {Len(Whole(m)) - 2}
<1>1. {CR, LF, DOT} \subseteq Byte
  BY AlphabetAssumption
<1>2. Whole(m) \in Seq(Byte) /\ TextEnds(Whole(m)) = {Len(Whole(m)) - 2}
  BY <1>1, WholeText
<1>3. Len(Whole(m)) \in Nat
  BY <1>2
<1> QED
  BY <1>2, <1>3

\* What reaches an end has all that comes before it.
LEMMA EndIsReached ==
  ASSUME NEW b \in Seq(Byte), NEW r \in Seq(Byte), NEW n \in Nat,
         n <= Len(b \o r), TextEnds(b \o r) = {n - 2}, TextEnds(b) # {}
  PROVE  n <= Len(b) /\ TextEnds(b) = {n - 2}
<1>1. TextEnds(b) = {n - 2}
  BY PrefixEnds
<1>2. n - 2 \in 1 .. Len(b) - 2 /\ Len(b) \in Nat
  BY <1>1, EndsIff
<1> QED
  BY <1>1, <1>2

\* A part of the text from its start.
LEMMA PartHasOneEnd ==
  ASSUME NEW m \in Seq(Byte), NEW b \in Seq(Byte), NEW r \in Seq(Byte), b \o r = Whole(m)
  PROVE  OnlyItsEnd(m, b)
<1>1. CASE TextEnds(b) = {}
  BY <1>1 DEF OnlyItsEnd
<1>2. CASE TextEnds(b) # {}
  <2> DEFINE n == Len(Whole(m))
  <2>1. n \in Nat /\ TextEnds(b \o r) = {n - 2} /\ n <= Len(b \o r)
    BY WholeFacts
  <2> HIDE DEF n
  <2>2. n <= Len(b) /\ TextEnds(b) = {n - 2}
    BY <1>2, <2>1, EndIsReached
  <2>3. n = Len(b) + Len(r) /\ Len(b) \in Nat /\ Len(r) \in Nat
    BY ConcatElements DEF n
  <2>4. Len(r) = 0
    BY <2>2, <2>3
  <2>5. r = <<>>
    BY <2>4, EmptySeq
  <2>6. <<>> \in Seq(Byte) /\ b = Whole(m) /\ Whole(m) \o <<>> = Whole(m)
    <3>1. b \o <<>> = b
      BY EmptySides
    <3> QED
      BY <2>5, <3>1
  <2>7. \E y \in Seq(Byte) : b = Whole(m) \o y
    BY <2>6
  <2> QED
    BY <2>2, <2>7 DEF OnlyItsEnd, n
<1> QED
  BY <1>1, <1>2

\* A command after it changes nothing.
LEMMA CommandKeepsOneEnd ==
  ASSUME NEW m \in Seq(Byte), NEW b \in Seq(Byte), OnlyItsEnd(m, b)
  PROVE  OnlyItsEnd(m, b \o (<<Verb>> \o CRLF))
<1> DEFINE c == <<Verb>> \o CRLF
<1>1. {CR, LF, Verb} \subseteq Byte
  BY AlphabetAssumption
<1>2. c \in Seq(Byte) /\ TextEnds(b \o c) = TextEnds(b)
  BY <1>1, CommandEndsNothing
<1> HIDE DEF c
<1>3. ASSUME NEW y \in Seq(Byte), b = Whole(m) \o y
      PROVE  \E z \in Seq(Byte) : b \o c = Whole(m) \o z
  <2>1. y \o c \in Seq(Byte)
    BY <1>2, ConcatTyped
  <2>2. (Whole(m) \o y) \o c = Whole(m) \o (y \o c)
    <3>1. Whole(m) \in Seq(Byte)
      BY WholeFacts
    <3>2. Glue(Glue(Whole(m), y), c) = Glue(Whole(m), Glue(y, c))
      BY <1>2, <3>1, Reassociates
    <3> QED
      BY <3>2 DEF Glue
  <2> QED
    BY <1>3, <2>1, <2>2
<1>4. OnlyItsEnd(m, b \o c)
  BY <1>2, <1>3 DEF OnlyItsEnd
<1> QED
  BY <1>4 DEF c

\* What a server reads, when it sees an end.
LEMMA OneEndIsReceived ==
  ASSUME NEW m \in Seq(Byte), NEW b \in Seq(Byte), NEW r \in Seq(Byte), OnlyItsEnd(m, b \o r),
         TextEnds(b) # {}
  PROVE  TextReceived(b) = Canonical(m) \o CRLF
<1> DEFINE n == Len(Whole(m))
           x == b \o r
<1>1. {CR, LF, DOT} \subseteq Byte
  BY AlphabetAssumption
<1>2. n \in Nat /\ Whole(m) \in Seq(Byte)
  BY WholeFacts
<1>3. x \in Seq(Byte) /\ Len(x) = Len(b) + Len(r) /\ Len(b) \in Nat /\ Len(r) \in Nat
  BY ConcatElements, Zenon
<1>4. TextEnds(b) \subseteq TextEnds(x)
  BY PrefixEnds
<1>5. PICK y \in Seq(Byte) : x = Whole(m) \o y
  BY <1>4 DEF OnlyItsEnd
<1>6. TextEnds(x) = {n - 2}
  BY <1>4 DEF OnlyItsEnd
<1> HIDE DEF x, n
<1>7. n <= Len(x)
  <2>1. Len(Whole(m) \o y) = Len(Whole(m)) + Len(y) /\ Len(y) \in Nat
    BY <1>2, ConcatElements, Zenon
  <2> QED
    BY <1>2, <1>5, <2>1 DEF n
<1>8. n <= Len(b) /\ TextEnds(b) = {n - 2}
  BY <1>2, <1>6, <1>7, EndIsReached DEF x
<1>9. Take(b, n) = Whole(m)
  <2>1. Take(x, n) = Whole(m)
    BY <1>2, <1>5, TakeOfConcat DEF n
  <2>2. n \in 0 .. Len(b) /\ n \in 0 .. Len(x)
    BY <1>2, <1>3, <1>8
  <2>3. /\ Take(b, n) \in Seq(Byte) /\ Len(Take(b, n)) = n /\ \A j \in 1 .. n : Take(b, n)[j] = b[j]
        /\ Take(x, n) \in Seq(Byte) /\ Len(Take(x, n)) = n /\ \A j \in 1 .. n : Take(x, n)[j] = x[j]
    BY <1>3, <2>2, TakeElements
  <2>4. \A j \in 1 .. Len(b) : x[j] = b[j]
    BY ConcatElements, Zenon DEF x
  <2>5. \A j \in 1 .. n : Take(b, n)[j] = Take(x, n)[j]
    <3>1. \A j \in 1 .. n : j \in 1 .. Len(b)
      BY <1>2, <1>3, <1>8
    <3> QED
      BY <2>3, <2>4, <3>1
  <2>6. Take(b, n) = Take(x, n)
    BY <2>3, <2>5, SeqEqual
  <2> QED
    BY <2>1, <2>6
<1> QED
  BY <1>1, <1>8, <1>9, WholeIsReceived DEF n

\* The calls that are made, and those still to be made, hand over all of the message,
\* in order, until one of them fails; then what was handed over is a part of it from
\* its start, and commands.
All == AllBytesOf(message, quoted)

Handed ==
  pc = "writing" =>
    /\ \A i \in 1 .. Len(todo) : Len(todo[i]) <= BufferSize
    /\ op = "none" /\ ret # -1 => taken \o FlattenSeq(todo) = All
    /\ ~(op = "none" /\ ret # -1) => taken \o (arg \o FlattenSeq(todo)) = All

Fitting ==
  /\ op # "direct"
  /\ op = "room" => Len(arg) <= BufferSize
  /\ pc = "command" /\ op = "room" => arg = <<Verb>> \o CRLF

AllTaken ==
  /\ pc = "flushing" => taken = All /\ (op = "none" /\ ret # -1 => write_buffer = <<>>)
  /\ Answered => taken = All /\ write_buffer = <<>>

EndsOnce == quoted => OnlyItsEnd(message, taken)

Fresh == pc = "typing" => op = "none" /\ ret # -1 /\ taken = <<>> /\ write_buffer = <<>>

SendInv ==
  /\ Fresh /\ (result = "ok" => Answered)
  /\ pc # "typing" /\ NoLongLine => Handed /\ Fitting /\ AllTaken /\ EndsOnce

LEMMA SendTypes ==
  ASSUME DeliveryInv
  PROVE  /\ taken \in Seq(Byte) /\ arg \in Seq(Byte) /\ write_buffer \in Seq(Byte)
         /\ wire \in Seq(Byte) /\ ret \in Int
         /\ op \in {"none", "flush", "room", "direct", "read"}
         /\ message \in Seq(Byte) /\ quoted \in BOOLEAN /\ todo \in Seq(Seq(Byte))
         /\ FlattenSeq(todo) \in Seq(Byte) /\ All \in Seq(Byte)
         /\ pc \in {"typing", "writing", "flushing", "sent", "idle", "command",
                    "command flush", "reading", "done"}
<1>1. /\ taken \in Seq(Byte) /\ arg \in Seq(Byte) /\ write_buffer \in Seq(Byte)
      /\ wire \in Seq(Byte) /\ ret \in Int
      /\ op \in {"none", "flush", "room", "direct", "read"}
  BY DEF DeliveryInv, IInv, StreamTypeOK
<1>2. /\ message \in Seq(Byte) /\ quoted \in BOOLEAN /\ todo \in Seq(Seq(Byte))
      /\ pc \in {"typing", "writing", "flushing", "sent", "idle", "command",
                 "command flush", "reading", "done"}
  BY DEF DeliveryInv, SenderTypes
<1>3. FlattenSeq(todo) \in Seq(Byte)
  BY <1>2, FlattenTyped
<1>4. All \in Seq(Byte)
  <2>1. Calls(message, quoted) \in Seq(Seq(Byte))
    BY <1>2, CallsTyped DEF Calls
  <2> QED
    BY <2>1, FlattenTyped DEF All, AllBytesOf
<1> QED
  BY <1>1, <1>2, <1>3, <1>4

\* What is a part of all that is handed over has at most its end.
LEMMA HandedHasOneEnd ==
  ASSUME DeliveryInv, NEW b \in Seq(Byte), NEW r \in Seq(Byte), b \o r = All, quoted
  PROVE  OnlyItsEnd(message, b)
<1>1. All = Whole(message)
  <2>1. quoted = TRUE /\ message \in Seq(Byte)
    BY SendTypes
  <2> QED
    BY <2>1, WhatIsSent DEF All
<1>2. message \in Seq(Byte)
  BY SendTypes
<1> QED
  BY <1>1, <1>2, PartHasOneEnd

\* A step that hands nothing over.
LEMMA NothingHanded ==
  ASSUME SendInv, UNCHANGED <<message, quoted, taken>>, pc # "typing", pc' # "typing",
         result' = "ok" => Answered',
         NoLongLine /\ Handed /\ Fitting /\ AllTaken => Handed' /\ Fitting' /\ AllTaken'
  PROVE  SendInv'
<1>1. NoLongLine' = NoLongLine
  BY DEF NoLongLine
<1>2. EndsOnce' = EndsOnce
  BY DEF EndsOnce
<1>3. Fresh'
  BY DEF Fresh
<1> QED
  BY <1>1, <1>2, <1>3 DEF SendInv

LEMMA SendStarts ==
  ASSUME Len(EndOfText) <= BufferSize, DeliveryInv, DeliveryInv', SendInv,
         NEW e \in Messages, NEW quote \in BOOLEAN, Send(e, quote)
  PROVE  SendInv'
<1> DEFINE m == Converted(e, quote)
<1>1. /\ pc = "typing" /\ pc' = "writing" /\ message' = m /\ quoted' = quote
      /\ todo' = Calls(m, quote) /\ UNCHANGED <<op, ret, taken, write_buffer, result>>
  BY DEF Send, Calls, streamVars, writeVars
<1> HIDE DEF m
<1>2. op = "none" /\ ret # -1 /\ taken = <<>> /\ result # "ok"
  BY <1>1 DEF SendInv, Fresh, Answered
<1>3. m \in Seq(Byte) /\ All' = AllBytesOf(m, quote) /\ All' \in Seq(Byte)
  <2>1. m \in Seq(Byte)
    BY <1>1 DEF DeliveryInv, SenderTypes
  <2>2. Calls(m, quote) \in Seq(Seq(Byte))
    BY <2>1, CallsTyped DEF Calls
  <2>3. AllBytesOf(m, quote) \in Seq(Byte)
    BY <2>2, FlattenTyped DEF AllBytesOf
  <2> QED
    BY <1>1, <2>1, <2>3 DEF All
<1>4. ASSUME NoLongLine' PROVE Handed'
  <2>1. \A i \in 1 .. Len(DataWrites(m, quote)) : Len(DataWrites(m, quote)[i]) <= BufferSize
    BY <1>1, <1>4 DEF NoLongLine
  <2>2. \A i \in 1 .. Len(Calls(m, quote)) : Len(Calls(m, quote)[i]) <= BufferSize
    BY <1>3, <2>1, CallsFit
  <2>3. <<>> \o All' = All'
    BY <1>3, EmptySides
  <2>4. taken' \o FlattenSeq(todo') = All'
    BY <1>1, <1>2, <1>3, <2>3 DEF AllBytesOf
  <2> QED
    BY <1>1, <1>2, <2>2, <2>4 DEF Handed
<1>5. Fitting' /\ AllTaken'
  BY <1>1, <1>2 DEF Fitting, AllTaken, Answered
<1>6. EndsOnce'
  <2>1. CASE quote
    <3>1. <<>> \in Seq(Byte) /\ Whole(m) \in Seq(Byte) /\ <<>> \o Whole(m) = Whole(m)
      BY <1>3, WholeFacts, EmptySides
    <3>2. OnlyItsEnd(m, <<>>)
      BY <1>3, <3>1, PartHasOneEnd
    <3> QED
      BY <1>1, <1>2, <3>2 DEF EndsOnce
  <2>2. CASE ~quote
    BY <1>1, <2>2 DEF EndsOnce
  <2> QED
    BY <2>1, <2>2
<1> QED
  BY <1>1, <1>2, <1>4, <1>5, <1>6 DEF SendInv, Fresh

\* mailstream_write of the next piece.
LEMMA WriteNextKeepsSendInv ==
  ASSUME DeliveryInv, DeliveryInv', SendInv, WriteNext
  PROVE  SendInv'
<1> DEFINE h == Head(todo)
           u == FlattenSeq(Tail(todo))
<1>1. /\ pc = "writing" /\ op = "none" /\ ret # -1 /\ todo # <<>> /\ Write(h)
      /\ todo' = Tail(todo) /\ UNCHANGED <<pc, message, quoted, result>> /\ arg' = h
  BY DEF WriteNext, Write
<1>2. h \in Seq(Byte) /\ Tail(todo) \in Seq(Seq(Byte)) /\ FlattenSeq(todo) = h \o u
  BY <1>1, SendTypes, FlattenHead
<1>3. u \in Seq(Byte)
  BY <1>2, FlattenTyped
<1>4. SUFFICES ASSUME NoLongLine PROVE Handed' /\ Fitting' /\ AllTaken' /\ EndsOnce'
  <2>1. NoLongLine' = NoLongLine
    BY <1>1 DEF NoLongLine
  <2>2. Fresh' /\ result' # "ok"
    BY <1>1 DEF SendInv, Fresh, Answered
  <2> QED
    BY <2>1, <2>2 DEF SendInv
<1>5. /\ \A i \in 1 .. Len(todo) : Len(todo[i]) <= BufferSize
      /\ taken \o (h \o u) = All /\ All' = All
  <2>1. Handed
    BY <1>1, <1>4 DEF SendInv
  <2> QED
    BY <1>1, <1>2, <2>1 DEF Handed, All
<1>6. /\ Len(h) <= BufferSize
      /\ \A i \in 1 .. Len(todo') : Len(todo'[i]) <= BufferSize
  <2> DEFINE SS == Seq(Byte)
             r == Tail(todo)
  <2>1. todo \in Seq(SS) /\ todo # <<>>
    BY <1>1, SendTypes
  <2> HIDE DEF SS
  <2>2. /\ h = todo[1] /\ Len(todo) \in Nat \ {0} /\ Len(r) = Len(todo) - 1
        /\ \A i \in 1 .. Len(r) : r[i] = todo[i + 1]
    BY <2>1
  <2>3. 1 \in 1 .. Len(todo) /\ \A i \in 1 .. Len(r) : i + 1 \in 1 .. Len(todo)
    BY <2>2
  <2> HIDE DEF r
  <2>4. \A i \in 1 .. Len(r) : Len(r[i]) <= BufferSize
    BY <1>5, <2>2, <2>3
  <2>5. Len(h) <= BufferSize
    BY <1>5, <2>2, <2>3
  <2> QED
    BY <1>1, <2>4, <2>5 DEF r
<1> HIDE DEF h, u
<1>7. Take(h, Len(h)) = h /\ Len(h) \in Nat
  BY <1>2, TakeEnds
<1>8. taken \in Seq(Byte)
  BY SendTypes
<1>9. CASE op' = "none"
  <2>2. taken' = taken \o h /\ ret' = Len(h)
    BY <1>1, <1>7, <1>9 DEF Write, Returns
  <2>3. (taken \o h) \o u = taken \o (h \o u)
    BY <1>2, <1>3, <1>8, Associative
  <2>4. taken' \o u = All'
    BY <1>5, <2>2, <2>3
  <2>5. ret' # -1
    BY <1>7, <2>2
  <2>6. Handed'
    BY <1>1, <1>6, <1>9, <2>4, <2>5 DEF Handed, u
  <2>7. EndsOnce'
    <3>1. taken' \in Seq(Byte)
      BY <1>2, <1>8, <2>2, ConcatTyped
    <3>2. quoted => OnlyItsEnd(message, taken')
      BY <1>3, <1>5, <2>4, <3>1, HandedHasOneEnd
    <3> QED
      BY <1>1, <3>2 DEF EndsOnce
  <2> QED
    BY <1>1, <1>9, <2>6, <2>7 DEF Fitting, AllTaken, Answered
<1>10. CASE op' # "none"
  <2>1. op' = "room" /\ taken' = taken
    BY <1>1, <1>6, <1>7, <1>10, BufferSizeAssumption DEF Write, Returns
  <2>2. Handed'
    BY <1>1, <1>5, <1>6, <2>1 DEF Handed, u
  <2>3. EndsOnce'
    BY <1>1, <1>4, <2>1 DEF SendInv, EndsOnce
  <2> QED
    BY <1>1, <1>6, <2>1, <2>2, <2>3 DEF Fitting, AllTaken, Answered
<1> QED
  BY <1>9, <1>10

\* A command on the stream of a send that failed.
LEMMA CommandKeepsSendInv ==
  ASSUME Len(EndOfText) <= BufferSize, DeliveryInv, DeliveryInv', SendInv, Command
  PROVE  SendInv'
<1> DEFINE c == <<Verb>> \o CRLF
<1>1. /\ pc = "idle" /\ pc' = "command" /\ op = "none" /\ Write(c) /\ arg' = c
      /\ result = "error" /\ UNCHANGED <<message, quoted, todo, result>>
  BY DEF Command, Write
<1>2. c \in Seq(Byte) /\ Len(c) = 3
  BY VerbTyped
<1> HIDE DEF c
<1>3. Len(c) <= BufferSize
  <2>1. Len(EndOfText) = 5
    BY DEF EndOfText
  <2> QED
    BY <1>2, <2>1, BufferSizeAssumption
<1>4. SUFFICES ASSUME NoLongLine PROVE Handed' /\ Fitting' /\ AllTaken' /\ EndsOnce'
  <2>1. NoLongLine' = NoLongLine
    BY <1>1 DEF NoLongLine
  <2> QED
    BY <1>1, <2>1 DEF SendInv, Fresh
<1>5. Handed' /\ AllTaken'
  BY <1>1 DEF Handed, AllTaken, Answered
<1>6. EndsOnce
  BY <1>1, <1>4 DEF SendInv
<1>7. Take(c, Len(c)) = c
  BY <1>2, TakeEnds
<1>8. CASE op' = "none"
  <2>1. taken' = taken \o c
    BY <1>1, <1>7, <1>8 DEF Write, Returns
  <2>2. quoted => OnlyItsEnd(message, taken \o c)
    BY <1>6, SendTypes, CommandKeepsOneEnd DEF EndsOnce, c
  <2>3. EndsOnce'
    BY <1>1, <2>1, <2>2 DEF EndsOnce
  <2> QED
    BY <1>5, <1>8, <2>3 DEF Fitting
<1>9. CASE op' # "none"
  <2>1. op' = "room" /\ taken' = taken
    BY <1>1, <1>2, <1>3, <1>9, BufferSizeAssumption DEF Write, Returns
  <2>2. EndsOnce'
    BY <1>1, <1>6, <2>1 DEF EndsOnce
  <2> QED
    BY <1>1, <1>3, <1>5, <2>1, <2>2 DEF Fitting, c
<1> QED
  BY <1>8, <1>9

\* The network takes the last byte of the buffer, and the call that waited for room
\* hands over its own bytes.
LEMMA FlushLastKeepsSendInv ==
  ASSUME DeliveryInv, DeliveryInv', Phases, SendInv, FlushLast, UNCHANGED senderVars
  PROVE  SendInv'
<1>1. /\ op \in {"flush", "room"} /\ arg' = arg
      /\ UNCHANGED <<pc, message, quoted, todo, result>>
  BY DEF FlushLast, Flushing, senderVars
<1>2. pc \in {"writing", "command", "flushing", "command flush"}
  BY <1>1, SendTypes DEF Phases
<1>3. SUFFICES ASSUME NoLongLine PROVE Handed' /\ Fitting' /\ AllTaken' /\ EndsOnce'
  <2>1. NoLongLine' = NoLongLine
    BY <1>1 DEF NoLongLine
  <2> QED
    BY <1>1, <1>2, <2>1 DEF SendInv, Fresh, Answered
<1>4. Handed /\ Fitting /\ AllTaken /\ EndsOnce
  BY <1>2, <1>3 DEF SendInv
<1>5. CASE op = "flush"
  <2>1. op' = "none" /\ ret' = 0 /\ taken' = taken /\ write_buffer' = <<>>
    BY <1>5 DEF FlushLast
  <2>2. pc \in {"flushing", "command flush"}
    BY <1>2, <1>5 DEF Phases
  <2> QED
    BY <1>1, <1>4, <2>1, <2>2 DEF Handed, Fitting, AllTaken, EndsOnce, Answered, All
<1>6. CASE op = "room"
  <2>1. pc \in {"writing", "command"}
    BY <1>2, <1>6 DEF Phases
  <2>2. arg \in Seq(Byte) /\ taken \in Seq(Byte) /\ FlattenSeq(todo) \in Seq(Byte)
    BY SendTypes
  <2>3. Take(arg, Len(arg)) = arg /\ Len(arg) \in Nat /\ Len(arg) <= BufferSize
    BY <1>4, <1>6, <2>2, TakeEnds DEF Fitting
  <2>4. op' = "none" /\ taken' = taken \o arg /\ ret' = Len(arg)
    BY <1>6, <2>3, BufferSizeAssumption DEF FlushLast, Returns
  <2>5. Fitting' /\ AllTaken'
    BY <1>1, <2>1, <2>4 DEF Fitting, AllTaken, Answered
  <2>6. CASE pc = "writing"
    <3>1. taken \o (arg \o FlattenSeq(todo)) = All
      BY <1>4, <1>6, <2>6 DEF Handed
    <3>2. (taken \o arg) \o FlattenSeq(todo) = taken \o (arg \o FlattenSeq(todo))
      BY <2>2, Associative
    <3>3. taken' \o FlattenSeq(todo') = All'
      BY <1>1, <2>4, <3>1, <3>2 DEF All
    <3>4. Handed'
      BY <1>1, <1>4, <2>3, <2>4, <2>6, <3>3 DEF Handed
    <3>5. EndsOnce'
      <4>1. taken \o arg \in Seq(Byte)
        BY <2>2, ConcatTyped
      <4>2. quoted => OnlyItsEnd(message, taken \o arg)
        BY <2>2, <3>1, <3>2, <4>1, HandedHasOneEnd
      <4> QED
        BY <1>1, <2>4, <4>2 DEF EndsOnce
    <3> QED
      BY <2>5, <3>4, <3>5
  <2>7. CASE pc = "command"
    <3>1. arg = <<Verb>> \o CRLF
      BY <1>4, <1>6, <2>7 DEF Fitting
    <3>2. quoted => OnlyItsEnd(message, taken \o (<<Verb>> \o CRLF))
      BY <1>4, SendTypes, CommandKeepsOneEnd DEF EndsOnce
    <3>3. EndsOnce'
      BY <1>1, <2>4, <3>1, <3>2 DEF EndsOnce
    <3> QED
      BY <1>1, <2>5, <2>7, <3>3 DEF Handed
  <2> QED
    BY <2>1, <2>6, <2>7
<1> QED
  BY <1>1, <1>5, <1>6

\* The other steps of the network.
LEMMA NetworkKeepsSendInv ==
  ASSUME DeliveryInv, DeliveryInv', Phases, SendInv, Network
  PROVE  SendInv'
<1>1. LowLayer /\ UNCHANGED senderVars /\ UNCHANGED <<pc, message, quoted, todo, result>>
  BY DEF Network, senderVars
<1>2. pc # "typing" /\ pc' # "typing" /\ (result' = "ok" => Answered')
  <2>1. op # "none"
    BY <1>1 DEF LowLayer, FlushSome, FlushLast, FlushFails, Flushing, DirectSome,
       DirectLast, DirectFails, LineEnds, Feed, FeedEnds, FeedFails
  <2> QED
    BY <1>1, <2>1 DEF SendInv, Fresh, Answered
<1>3. CASE FlushLast
  BY <1>1, <1>3, FlushLastKeepsSendInv
<1>4. CASE FlushFails
  <2>1. op \in {"flush", "room"} /\ op' = "none" /\ ret' = -1 /\ UNCHANGED <<taken, arg, write_buffer>>
    BY <1>4 DEF FlushFails, Flushing, writeVars
  <2>2. ASSUME Handed, Fitting, AllTaken PROVE Handed' /\ Fitting' /\ AllTaken'
    <3>1. ~Answered
      BY <2>1 DEF Phases, Answered
    <3> QED
      BY <1>1, <2>1, <2>2, <3>1 DEF Handed, Fitting, AllTaken, All, Answered
  <2> QED
    BY <1>1, <1>2, <2>1, <2>2, NothingHanded
<1>5. CASE \E n \in 1 .. Len(write_buffer) : FlushSome(n)
  <2>1. op \in {"flush", "room"} /\ UNCHANGED <<op, ret, taken, arg>>
    BY <1>5 DEF FlushSome, Flushing
  <2>2. ASSUME Handed, Fitting, AllTaken PROVE Handed' /\ Fitting' /\ AllTaken'
    <3>1. ~Answered
      BY <2>1 DEF Phases, Answered
    <3> QED
      BY <1>1, <2>1, <2>2, <3>1 DEF Handed, Fitting, AllTaken, All, Answered
  <2> QED
    BY <1>1, <1>2, <2>1, <2>2, NothingHanded
<1>6. CASE (\E n \in 1 .. Len(left) : DirectSome(n)) \/ DirectLast \/ DirectFails
  <2>1. op = "direct"
    BY <1>6 DEF DirectSome, DirectLast, DirectFails
  <2>2. ~NoLongLine
    BY <1>2, <2>1 DEF SendInv, Fitting
  <2>3. ~NoLongLine'
    BY <1>1, <2>2 DEF NoLongLine
  <2> QED
    BY <1>2, <2>3 DEF SendInv, Fresh
<1>7. CASE LineEnds \/ FeedEnds \/ FeedFails \/ \E n \in 1 .. Len(inbox) : Feed(n)
  <2>1. op = "read" /\ op' \in {"none", "read"} /\ UNCHANGED <<taken, arg, write_buffer>>
    BY <1>7 DEF LineEnds, FeedEnds, FeedFails, Feed, writeVars
  <2>2. pc = "reading"
    BY <2>1, SendTypes DEF Phases
  <2>3. ASSUME Handed, Fitting, AllTaken PROVE Handed' /\ Fitting' /\ AllTaken'
    BY <1>1, <2>1, <2>2, <2>3 DEF Handed, Fitting, AllTaken, All, Answered
  <2> QED
    BY <1>1, <1>2, <2>1, <2>3, NothingHanded
<1> QED
  BY <1>1, <1>3, <1>4, <1>5, <1>6, <1>7 DEF LowLayer

LEMMA StepKeepsSendInv ==
  ASSUME Len(EndOfText) <= BufferSize, DeliveryInv, DeliveryInv', Phases, SendInv, [Next]_vars
  PROVE  SendInv'
<1>1. CASE \E c \in Character : Type(c)
  BY <1>1 DEF Type, streamVars, writeVars, SendInv, Fresh, Answered
<1>2. CASE \E m \in Messages, quote \in BOOLEAN : Send(m, quote)
  BY <1>2, SendStarts
<1>3. CASE WriteNext
  BY <1>3, WriteNextKeepsSendInv
<1>4. CASE Command
  BY <1>4, CommandKeepsSendInv
<1>5. CASE Network
  BY <1>5, NetworkKeepsSendInv
<1>6. CASE FlushAll
  <2>1. /\ pc = "writing" /\ pc' = "flushing" /\ op = "none" /\ ret # -1 /\ todo = <<>>
        /\ UNCHANGED <<message, quoted, result, taken, todo>>
        /\ \/ op' = "none" /\ write_buffer' = <<>>
           \/ op' = "flush"
    BY <1>6 DEF FlushAll, Flush, writeVars
  <2>2. ASSUME Handed PROVE Handed' /\ Fitting' /\ AllTaken'
    <3>1. taken \o FlattenSeq(<<>>) = All
      BY <2>1, <2>2 DEF Handed
    <3>2. taken = All
      BY <3>1, FlattenEmpty, SendTypes, EmptySides
    <3> QED
      BY <2>1, <3>2 DEF Handed, Fitting, AllTaken, Answered, All
  <2>3. result' # "ok"
    BY <2>1 DEF SendInv, Answered
  <2> QED
    BY <2>1, <2>2, <2>3, NothingHanded
<1>7. CASE SendSucceeds
  <2>1. /\ pc = "flushing" /\ pc' = "sent" /\ op = "none" /\ ret # -1
        /\ UNCHANGED <<message, quoted, taken, op, write_buffer>>
    BY <1>7 DEF SendSucceeds, streamVars, writeVars
  <2>2. ASSUME AllTaken PROVE Handed' /\ Fitting' /\ AllTaken'
    BY <2>1, <2>2 DEF Handed, Fitting, AllTaken, Answered, All
  <2> QED
    BY <2>1, <2>2, NothingHanded DEF Answered
<1>8. CASE SendFails \/ CommandEnds
  <2>1. /\ pc \in {"writing", "flushing", "command", "command flush"} /\ pc' = "idle"
        /\ (result' = result \/ result' = "error")
        /\ op = "none" /\ UNCHANGED <<message, quoted, taken, op>>
    BY <1>8 DEF SendFails, CommandEnds, streamVars, writeVars
  <2>2. Handed' /\ Fitting' /\ AllTaken'
    BY <2>1 DEF Handed, Fitting, AllTaken, Answered
  <2>3. result' # "ok"
    BY <2>1 DEF SendInv, Answered
  <2> QED
    BY <2>1, <2>2, <2>3, NothingHanded
<1>9. CASE CommandFlush
  <2>1. /\ pc = "command" /\ pc' = "command flush" /\ op' \in {"none", "flush"}
        /\ UNCHANGED <<message, quoted, taken, result>>
    BY <1>9 DEF CommandFlush, Flush, writeVars
  <2>2. Handed' /\ Fitting' /\ AllTaken'
    BY <2>1 DEF Handed, Fitting, AllTaken, Answered
  <2>3. result' # "ok"
    BY <2>1 DEF SendInv, Answered
  <2> QED
    BY <2>1, <2>2, <2>3, NothingHanded
<1>10. CASE ReadNext \/ ReadEnds \/ Hangup \/ \E r \in Replies : Answer(r)
  <2>1. /\ Answered /\ Answered' /\ UNCHANGED <<message, quoted, taken, arg, write_buffer, todo, result>>
        /\ (op' = op \/ op' = "read")
    BY <1>10 DEF ReadNext, ReadLine, ReadEnds, Hangup, PeerCloses, Answer, Arrive, writeVars,
       streamVars, senderVars, Answered
  <2>2. ASSUME Fitting, AllTaken PROVE Handed' /\ Fitting' /\ AllTaken'
    BY <2>1, <2>2 DEF Handed, Fitting, AllTaken, Answered, All
  <2>3. pc # "typing" /\ pc' # "typing"
    BY <2>1 DEF Answered
  <2> QED
    BY <2>1, <2>2, <2>3, NothingHanded
<1>11. CASE UNCHANGED vars
  BY <1>11 DEF vars, streamVars, writeVars, senderVars, SendInv, Fresh, Handed, Fitting,
     AllTaken, EndsOnce, NoLongLine, All, Answered
<1> QED
  BY <1>1, <1>2, <1>3, <1>4, <1>5, <1>6, <1>7, <1>8, <1>9, <1>10, <1>11 DEF Next, SenderStep

LEMMA SendInvInvariant ==
  ASSUME Base64Bytes, Len(EndOfText) <= BufferSize
  PROVE  Spec => []SendInv
<1>1. Init => SendInv
  BY DEF Init, StreamInit, SendInv, Fresh, Answered
<1>2. DeliveryInv /\ DeliveryInv' /\ ReplyInv /\ SendInv /\ [Next]_vars => SendInv'
  BY StepKeepsSendInv DEF ReplyInv
<1> QED
  BY <1>1, <1>2, DeliveryInvInvariant, ReplyInvInvariant, PTL DEF Spec

\* What is sent is what the caller's message has been made into.
Converts == pc # "typing" => message = Converted(eml, quoted)

LEMMA ConvertsInvariant == Spec => []Converts
<1>1. Init => Converts
  BY DEF Init, Converts
<1>2. ASSUME Converts, [Next]_vars PROVE Converts'
  <2>1. CASE \E m \in Messages, quote \in BOOLEAN : Send(m, quote)
    BY <2>1 DEF Send, Converts
  <2>2. CASE ~\E m \in Messages, quote \in BOOLEAN : Send(m, quote)
    <3>1. UNCHANGED <<eml, message, quoted>> /\ (pc' # "typing" => pc # "typing")
      BY <1>2, <2>2 DEF Next, SenderStep, Type, WriteNext, FlushAll, SendSucceeds, SendFails,
         Command, CommandFlush, CommandEnds, ReadNext, ReadEnds, Network, Answer, Hangup,
         vars, senderVars
    <3> QED
      BY <1>2, <3>1 DEF Converts
  <2> QED
    BY <2>1, <2>2
<1> QED
  BY <1>1, <1>2, PTL DEF Spec

\* The canonical form of what is sent.
LEMMA SentForm ==
  ASSUME DeliveryInv, Converts, pc # "typing"
  PROVE  /\ quoted => Canonical(message) = Canonical(Closed(eml))
         /\ ~quoted => Canonical(message) = Canonical(eml)
<1>1. eml \in Seq(Byte) /\ quoted \in BOOLEAN /\ message = Converted(eml, quoted)
  BY DEF DeliveryInv, SenderTypes, Converts
<1> QED
  BY <1>1, ConvertedFacts

\* A send that succeeds has got the message through.
LEMMA SentIsGot ==
  ASSUME DeliveryInv, SendInv, Converts
  PROVE  OkMeansSent
<1> SUFFICES ASSUME result = "ok", NoLongLine PROVE GotMessage
  BY DEF OkMeansSent
<1>1. Answered /\ pc # "typing"
  BY DEF SendInv, Answered
<1>2. Fitting /\ AllTaken /\ EndsOnce
  BY <1>1 DEF SendInv
<1>3. taken = All /\ write_buffer = <<>> /\ op # "direct"
  BY <1>1, <1>2 DEF AllTaken, Fitting
<1>4. wire = All
  <2>1. wire \o write_buffer = taken
    BY <1>3 DEF DeliveryInv, IInv, TakenIsWritten
  <2>2. wire \o <<>> = wire
    BY SendTypes, EmptySides
  <2> QED
    BY <1>3, <2>1, <2>2
<1>5. message \in Seq(Byte) /\ quoted \in BOOLEAN /\ wire \in Seq(Byte)
  BY SendTypes
<1>6. CASE quoted
  <2>1. wire = Whole(message)
    BY <1>4, <1>5, <1>6, WhatIsSent DEF All
  <2>2. TextEnds(wire) = {Len(wire) - 2}
    BY <1>5, <2>1, WholeFacts
  <2>3. TextReceived(wire) = Canonical(message) \o CRLF
    <3>1. OnlyItsEnd(message, taken) /\ wire \o <<>> = taken /\ <<>> \in Seq(Byte)
      BY <1>2, <1>3, <1>4, <1>5, <1>6, EmptySides DEF EndsOnce
    <3>2. OnlyItsEnd(message, wire \o <<>>)
      BY <3>1
    <3>3. TextEnds(wire) # {}
      BY <2>2
    <3> QED
      BY <1>5, <3>1, <3>2, <3>3, OneEndIsReceived
  <2>4. Canonical(message) = Canonical(Closed(eml))
    BY <1>1, <1>6, SentForm
  <2> QED
    BY <1>6, <2>2, <2>3, <2>4 DEF GotMessage
<1>7. CASE ~quoted
  <2>1. wire = Canonical(message) \o CRLF
    BY <1>4, <1>5, <1>7, WhatIsSent DEF All
  <2>2. DataCrlfSize(message) = Len(Canonical(message))
    BY <1>5, AlphabetAssumption, AnnouncedSizeIsSent
  <2>3. Canonical(message) = Canonical(eml)
    BY <1>1, <1>7, SentForm
  <2> QED
    BY <1>7, <2>1, <2>2, <2>3 DEF GotMessage
<1> QED
  BY <1>6, <1>7


\* A send that succeeds has handed over the whole message of its caller, whatever line
\* ends and dots it is made of: as a text (_beSend), the server sees its end at its last
\* byte and reads the canonical form of the message without the newlines at its end, so
\* that no empty line follows it; as a literal (_beAppend), it is the canonical form and
\* has the announced size.  This needs a buffer that holds the end of a text, as every
\* buffer of libetpan does.
THEOREM OkAlwaysMeansSent ==
  ASSUME Base64Bytes, Len(EndOfText) <= BufferSize
  PROVE  Spec => []OkMeansSent
BY SentIsGot, DeliveryInvInvariant, SendInvInvariant, ConvertsInvariant, PTL

\* Wherever a send fails, and whatever commands follow it on its stream, a server that
\* sees the end of the text has got all of the message, without the newlines at its end.
THEOREM TextNeverEndsEarly ==
  ASSUME Base64Bytes, Len(EndOfText) <= BufferSize
  PROVE  Spec => []NeverEndsEarly
<1>1. DeliveryInv /\ SendInv /\ Converts => NeverEndsEarly
  <2> SUFFICES ASSUME DeliveryInv, SendInv, Converts, pc # "typing", quoted, NoLongLine,
                      TextEnds(wire) # {}
               PROVE  TextReceived(wire) = Canonical(Closed(eml)) \o CRLF
    BY DEF NeverEndsEarly
  <2>1. Fitting /\ EndsOnce
    BY DEF SendInv
  <2>2. wire \o write_buffer = taken
    BY <2>1 DEF Fitting, DeliveryInv, IInv, TakenIsWritten
  <2>3. OnlyItsEnd(message, wire \o write_buffer)
    BY <2>1, <2>2 DEF EndsOnce
  <2>4. message \in Seq(Byte) /\ wire \in Seq(Byte) /\ write_buffer \in Seq(Byte)
    BY SendTypes
  <2>5. TextReceived(wire) = Canonical(message) \o CRLF
    BY <2>3, <2>4, OneEndIsReceived
  <2>6. Canonical(message) = Canonical(Closed(eml))
    BY SentForm
  <2> QED
    BY <2>5, <2>6
<1> QED
  BY <1>1, DeliveryInvInvariant, SendInvInvariant, ConvertsInvariant, PTL

----------------------------------------------------------------------------
(***************************************************************************)
(* The lines that arrive are the lines that were typed.                    *)
(***************************************************************************)

\* The two forms of a composed message.
LEMMA ComposeForms ==
  ASSUME Base64Bytes, NEW t \in Seq(Character)
  PROVE  LET x == Normalized(t)
             n == Base64Length(BytesOf(x))
             h == HeaderOf(Encode(t).encoding)
             b == Encode(t).body IN
         /\ x \in Seq(Byte) /\ n \in Nat /\ b \in Seq(Byte) /\ h \in Byte \ {CR, LF}
         /\ Compose(t) = HeaderText(h) \o b
         /\ ShortRuns(b, LineLimit)
         /\ h = HeaderOf("7bit") => Fits(x) /\ (b = x \/ b = x \o CRLF)
         /\ h # HeaderOf("7bit") => b = FlattenSeq(Base64Parts(n, n)) \o CRLF
<1> DEFINE x == Normalized(t)
           n == Base64Length(BytesOf(x))
           e == Encode(t).encoding
           b == Encode(t).body
<1>1. t \in Seq(Alphabet) /\ t \in Seq(Byte)
  BY AlphabetFacts
<1>2. /\ x \in Seq(Alphabet) /\ n \in Nat
      /\ Fits(x) => e = "7bit" /\ (b = x \/ b = x \o CRLF)
      /\ ~Fits(x) => e = "base64" /\ b = FlattenSeq(Base64Parts(n, n)) \o CRLF
  BY <1>1, AlphabetFacts, EncodeForms
<1>3. x \in Seq(Byte)
  BY <1>1, AlphabetFacts, NormalizedTyped
<1>4. b \in Seq(Byte) /\ e \in {"7bit", "base64"}
  BY EncodeTyped
<1>5. ShortRuns(b, LineLimit)
  BY <1>1, AlphabetFacts, EncodeIsShort
<1>6. Compose(t) = HeaderText(HeaderOf(e)) \o b
  BY DEF Compose, HeaderText
<1> HIDE DEF x, n, e, b
<1>7. HeaderOf(e) \in Byte \ {CR, LF}
  BY <1>4, AlphabetAssumption DEF HeaderOf, CR, LF
<1>8. HeaderOf(e) = HeaderOf("7bit") <=> e = "7bit"
  BY <1>4 DEF HeaderOf
<1> QED
  BY <1>2, <1>3, <1>4, <1>5, <1>6, <1>7, <1>8 DEF x, n, e, b

\* A buffer that holds a line of LineLimit and its CRLF holds every write.
LEMMA ComposedFits ==
  ASSUME Base64Bytes, LineLimit + 2 <= BufferSize, NEW t \in Seq(Character), NEW quote \in BOOLEAN,
         NEW i \in 1 .. Len(DataWrites(Converted(Compose(t), quote), quote))
  PROVE  Len(DataWrites(Converted(Compose(t), quote), quote)[i]) <= BufferSize
<1> DEFINE h == HeaderOf(Encode(t).encoding)
           b == Encode(t).body
<1>1. /\ b \in Seq(Byte) /\ h \in Byte /\ h \notin {CR, LF}
      /\ Compose(t) = HeaderText(h) \o b
      /\ ShortRuns(b, LineLimit)
  BY ComposeForms
<1> HIDE DEF h, b
<1>2. LineLimit \in Nat \ {0} /\ {CR, LF, DOT} \subseteq Byte /\ LineLimit \in Nat
  BY EmlAssumption, AlphabetFacts
<1>3. HeaderText(h) \in Seq(Byte) /\ ShortTail(HeaderText(h), 0) /\ ShortRuns(HeaderText(h), LineLimit)
  BY <1>1, <1>2, HeaderFacts
<1> DEFINE m == HeaderText(h) \o b
           x == Converted(m, quote)
<1>4. ShortRuns(m, LineLimit)
  BY <1>1, <1>2, <1>3, ShortConcat
<1>5. m \in Seq(Byte)
  BY <1>1, <1>3, ConcatTyped
<1> HIDE DEF m
<1>6. x \in Seq(Byte) /\ ShortRuns(x, LineLimit)
  BY <1>2, <1>4, <1>5, ConvertedFacts, ConvertedIsShort
<1> HIDE DEF x
<1> DEFINE w == DataWrites(x, quote)
<1>7. w \in Seq(ShortWrites(Byte, LineLimit))
  BY <1>2, <1>6, DataWritesShort
<1> HIDE DEF w
<1>8. w = DataWrites(Converted(Compose(t), quote), quote)
  BY <1>1 DEF w, m, x
<1>9. w[i] \in ShortWrites(Byte, LineLimit)
  BY <1>7, <1>8
<1>10. w[i] \in Seq(Byte) /\ Len(w[i]) <= LineLimit + 2
  BY <1>9 DEF ShortWrites
<1>11. Len(w[i]) \in Nat /\ BufferSize \in Nat
  BY <1>10, BufferSizeAssumption
<1> QED
  BY <1>2, <1>8, <1>10, <1>11

\* The header and the body of what is received.
LEMMA ReceivedParts ==
  ASSUME NEW h \in Byte \ {CR, LF}, NEW b \in Seq(Byte)
  PROVE  LET r == Canonical(HeaderText(h) \o b) \o CRLF IN
         r[1] = h /\ Drop(r, 5) = Canonical(b) \o CRLF
<1> DEFINE a == HeaderText(h)
           c == Canonical(b)
           d == c \o CRLF
<1>1. {CR, LF, DOT} \subseteq Byte /\ h \in Byte /\ h \notin {CR, LF}
  BY AlphabetFacts
<1>2. a \in Seq(Byte) /\ Len(a) = 5 /\ a[1] = h /\ ~EndsInCR(a) /\ Canonical(a) = a
  BY <1>1, HeaderFacts
<1> HIDE DEF a
<1>3. Canonical(a \o b) = a \o c
  BY <1>1, <1>2, CanonicalConcat
<1>4. c \in Seq(Byte) /\ CRLF \in Seq(Byte)
  BY <1>1, CanonicalTyped, CrlfTyped
<1> HIDE DEF c
<1>5. d \in Seq(Byte)
  BY <1>4, ConcatTyped
<1>6. (a \o c) \o CRLF = a \o d
  BY <1>2, <1>4, AssociativeIn, SMTT(30)
<1> HIDE DEF d
<1>7. (a \o d)[1] = h
  <2>1. 1 \in 1 .. Len(a)
    BY <1>2
  <2> QED
    BY <1>2, <1>5, <2>1, ConcatElements
<1>8. Drop(a \o d, 5) = d
  BY <1>2, <1>5, DropOfConcat
<1> QED
  BY <1>3, <1>6, <1>7, <1>8 DEF a, c, d

\* The same of a message that is closed: of a body of newlines only, nothing is left.
LEMMA ClosedParts ==
  ASSUME NEW h \in Byte \ {CR, LF}, NEW b \in Seq(Byte)
  PROVE  LET r == Canonical(Closed(HeaderText(h) \o b)) \o CRLF IN
         /\ r[1] = h
         /\ Closed(b) # <<>> => Drop(r, 5) = Canonical(Closed(b)) \o CRLF
         /\ Closed(b) = <<>> => Drop(r, 5) = <<>>
<1> DEFINE a == HeaderText(h)
           m == a \o b
           r == Canonical(Closed(m)) \o CRLF
<1>1. {CR, LF, DOT} \subseteq Byte /\ h \in Byte /\ h \notin {CR, LF} /\ <<>> \in Seq(Byte)
  BY AlphabetFacts
<1>2. a \in Seq(Byte) /\ ~EndsInCR(a)
  BY <1>1, HeaderFacts
<1>3. CASE Closed(b) # <<>>
  <2>1. Closed(m) = a \o Closed(b) /\ Closed(b) \in Seq(Byte)
    BY <1>2, <1>3, ClosedConcat, ClosedIs
  <2>2. r = Canonical(a \o Closed(b)) \o CRLF
    BY <2>1
  <2>3. r[1] = h /\ Drop(r, 5) = Canonical(Closed(b)) \o CRLF
    BY <2>1, <2>2, ReceivedParts
  <2> QED
    BY <1>3, <2>3
<1>4. CASE Closed(b) = <<>>
  <2> DEFINE x == <<h>>
  <2>1. x \in Seq(Byte) /\ x = Append(<<>>, h) /\ Len(x) = 1 /\ x[1] = h
    BY <1>1
  <2>2. Canonical(x) = x
    <3>1. Canonical(Append(<<>>, h)) = Canonical(<<>>) \o <<h>>
      BY <1>1, CanonicalByte
    <3>2. <<>> \o <<h>> = <<h>>
      BY <2>1, EmptySides
    <3> QED
      BY <2>1, <3>1, <3>2, EmptyCanonical
  <2>3. Closed(x) = x
    <3>1. ~EndsInLF(x)
      BY <1>1, <2>1 DEF EndsInLF
    <3> QED
      BY <2>1, <3>1, NothingClosed
  <2>4. a = (x \o CRLF) \o CRLF
    BY DEF HeaderText
  <2> HIDE DEF x
  <2>5. x \o CRLF \in Seq(Byte)
    BY <2>1, CrlfTyped, ConcatTyped
  <2>6. Closed(a) = x
    BY <2>1, <2>3, <2>4, <2>5, CrlfIsClosed
  <2>7. Closed(m) = x
    BY <1>2, <1>4, <2>6, ClosedConcat
  <2>8. r = x \o CRLF
    BY <2>2, <2>7
  <2> HIDE DEF r
  <2>9. Len(r) = 3 /\ r[1] = h
    <3>1. Len(x \o CRLF) = Len(x) + Len(CRLF) /\ 1 \in 1 .. Len(x) /\ (x \o CRLF)[1] = x[1]
      BY <2>1, CrlfTyped, ConcatElements
    <3> QED
      BY <2>1, <2>8, <3>1, CrlfFacts
  <2>10. SubSeq(r, 5 + 1, 3) = <<>>
    BY SubSeqEmpty
  <2>11. Drop(r, 5) = <<>>
    BY <2>9, <2>10 DEF Drop
  <2> QED
    BY <1>4, <2>9, <2>11 DEF r
<1> QED
  BY <1>3, <1>4

LEMMA NothingTrimmed == Trimmed(<<>>) = <<>>
BY DEF Trimmed

\* A text in ASCII comes back line by line, whether or not its newlines at the end have
\* gone.
LEMMA PlainLinesArrive ==
  ASSUME NEW t \in Seq(Character), Fits(Normalized(t)), NEW b, NEW g,
         b = Normalized(t) \/ b = Normalized(t) \o CRLF,
         g = b \/ g = Closed(b)
  PROVE  LET body == Canonical(g) \o CRLF IN
         /\ IsAscii(body) /\ Trimmed(Canonical(body)) = Trimmed(Canonical(t))
         /\ g = <<>> => IsAscii(<<>>) /\ Trimmed(Canonical(<<>>)) = Trimmed(Canonical(t))
<1> DEFINE A == {c \in Byte : c < 128}
           x == Normalized(t)
           c == Canonical(t)
           d == Canonical(g)
           e == d \o CRLF
<1>1. {CR, LF, DOT} \subseteq Byte /\ t \in Seq(Byte)
  BY AlphabetFacts
<1>2. {CR, LF, DOT} \subseteq A /\ A \subseteq Byte
  BY <1>1 DEF CR, LF, DOT
<1>3. x \in Seq(Byte) /\ Canonical(x) = c
  BY <1>1, NormalizedTyped, CanonicalNormalized
<1>4. \A i \in 1 .. Len(x) : x[i] < 128
  BY DEF Fits, IsAscii
<1>5. b = x \/ b = x \o CRLF
  OBVIOUS
<1> HIDE DEF x, c
<1>6. x \in Seq(A)
  BY <1>3, <1>4
<1> HIDE DEF A
<1>7. x \o CRLF \in Seq(A)
  BY <1>2, <1>6, AppendCrlf
<1>8. b \in Seq(A)
  BY <1>5, <1>6, <1>7
<1>9. b \in Seq(Byte)
  BY <1>2, <1>8
<1>10. g \in Seq(A)
  BY <1>8, <1>9, ClosedIs
<1>11. g \in Seq(Byte) /\ d \in Seq(A)
  BY <1>2, <1>10, CanonicalTyped
<1>12. d \in Seq(Byte)
  BY <1>2, <1>11
<1>13. Trimmed(Canonical(b)) = Trimmed(c)
  <2>1. Canonical(x \o CRLF) = Canonical(x) \o CRLF
    BY <1>1, <1>3, CanonicalCrlf
  <2>2. c \in Seq(Byte)
    BY <1>1, CanonicalTyped DEF c
  <2>3. Trimmed(c \o CRLF) = Trimmed(c)
    BY <2>2, TrimmedCrlf
  <2> QED
    BY <1>3, <1>5, <2>1, <2>3
<1>14. Trimmed(d) = Trimmed(c)
  <2>1. Trimmed(Canonical(Closed(b))) = Trimmed(Canonical(b))
    BY <1>9, EveryMessageCloses DEF Closing
  <2> QED
    BY <1>13, <2>1
<1>15. Canonical(d) = d
  BY <1>1, <1>11, CanonicalTwice
<1>16. g = <<>> => d = <<>>
  BY EmptyCanonical
<1> HIDE DEF d
<1>17. e \in Seq(A)
  BY <1>2, <1>11, AppendCrlf
<1>18. Canonical(e) = e
  BY <1>1, <1>12, <1>15, CanonicalCrlf
<1>19. Trimmed(e) = Trimmed(d)
  BY <1>12, TrimmedCrlf
<1> HIDE DEF e
<1>20. IsAscii(e)
  BY <1>17 DEF IsAscii, A
<1>21. IsAscii(<<>>)
  BY DEF IsAscii
<1> QED
  BY <1>14, <1>16, <1>18, <1>19, <1>20, <1>21, EmptyCanonical DEF c, d, e

\* Any other text comes back as its base64 characters.
LEMMA EncodedLinesArrive ==
  ASSUME Base64Bytes, NEW n \in Nat, NEW g,
         \/ g = FlattenSeq(Base64Parts(n, n)) \o CRLF
         \/ g = Closed(FlattenSeq(Base64Parts(n, n)) \o CRLF)
  PROVE  /\ Unbroken(Canonical(g) \o CRLF) = [i \in 1 .. n |-> Base64Char(i)]
         /\ g = <<>> => Unbroken(<<>>) = [i \in 1 .. n |-> Base64Char(i)]
<1> DEFINE b == FlattenSeq(Base64Parts(n, n)) \o CRLF
           c == Canonical(g)
<1>1. b \in Seq(Base64Set) /\ Unbroken(b) = Base64Chars(n) /\ (g = b \/ g = Closed(b))
  BY Base64Body
<1>2. {CR, LF, DOT} \subseteq Base64Set /\ Base64Set \subseteq Byte
  BY AlphabetFacts DEF Base64Set, Base64Bytes
<1> HIDE DEF b
<1>3. b \in Seq(Byte)
  BY <1>1, <1>2
<1>4. g \in Seq(Base64Set)
  BY <1>1, <1>3, ClosedIs
<1>5. Unbroken(g) = Base64Chars(n)
  <2>1. Unbroken(Closed(b)) = Unbroken(b)
    BY <1>3, EveryMessageCloses DEF Closing
  <2> QED
    BY <1>1, <2>1
<1>6. c \in Seq(Base64Set) /\ Unbroken(c) = Unbroken(g)
  BY <1>2, <1>4, CanonicalTyped, UnbrokenCanonical
<1> HIDE DEF c
<1>7. CRLF \in Seq(Base64Set)
  BY <1>2, <1>6, AppendCrlf
<1>8. Unbroken(c \o CRLF) = Unbroken(c) \o Unbroken(CRLF)
  BY <1>6, <1>7, UnbrokenConcat
<1>9. Base64Chars(n) \o <<>> = Base64Chars(n)
  BY Base64PartTyped, ConcatEmptySeq
<1>10. Unbroken(c \o CRLF) = Base64Chars(n)
  BY <1>5, <1>6, <1>8, <1>9, UnbrokenCrlf
<1> QED
  BY <1>5, <1>10 DEF c, Base64Chars

\* What a server has received of a message that was composed of a text gives the lines
\* of the text.
LEMMA GotLinesArrive ==
  ASSUME Base64Bytes, DeliveryInv, eml = Compose(text), GotMessage
  PROVE  LET received == IF quoted THEN TextReceived(wire) ELSE wire
             body == Drop(received, 5)
             size == Base64Length(BytesOf(Normalized(text))) IN
         IF received[1] = HeaderOf("7bit")
         THEN IsAscii(body) /\ Trimmed(Canonical(body)) = Trimmed(Canonical(text))
         ELSE /\ Unbroken(body) = [i \in 1 .. size |-> Base64Char(i)]
              /\ Canonical(Normalized(text)) = Canonical(text)
<1> DEFINE r == IF quoted THEN TextReceived(wire) ELSE wire
           x == Normalized(text)
           n == Base64Length(BytesOf(x))
           h == HeaderOf(Encode(text).encoding)
           b == Encode(text).body
           g == IF quoted THEN Closed(b) ELSE b
           d == Drop(r, 5)
<1>1. text \in Seq(Character) /\ text \in Seq(Byte) /\ {CR, LF, DOT} \subseteq Byte
  BY AlphabetFacts DEF DeliveryInv, SenderTypes
<1>2. /\ n \in Nat /\ b \in Seq(Byte) /\ h \in Byte \ {CR, LF}
      /\ Compose(text) = HeaderText(h) \o b
      /\ h = HeaderOf("7bit") => Fits(x) /\ (b = x \/ b = x \o CRLF)
      /\ h # HeaderOf("7bit") => b = FlattenSeq(Base64Parts(n, n)) \o CRLF
  BY <1>1, ComposeForms
<1>3. /\ quoted => r = Canonical(Closed(eml)) \o CRLF
      /\ ~quoted => r = Canonical(eml) \o CRLF
  BY DEF GotMessage
<1>4. Canonical(x) = Canonical(text)
  BY <1>1, CanonicalNormalized
<1>5. g = b \/ g = Closed(b)
  OBVIOUS
<1>6. (quoted => g = Closed(b)) /\ (~quoted => g = b)
  OBVIOUS
<1> HIDE DEF r, n, h, b, g
<1>7. eml = HeaderText(h) \o b
  BY <1>2
<1>8. r[1] = h /\ (d = Canonical(g) \o CRLF \/ (d = <<>> /\ g = <<>>))
  <2>1. CASE quoted
    <3>1. r = Canonical(Closed(HeaderText(h) \o b)) \o CRLF
      BY <1>3, <1>7, <2>1
    <3>2. /\ r[1] = h
          /\ Closed(b) # <<>> => d = Canonical(Closed(b)) \o CRLF
          /\ Closed(b) = <<>> => d = <<>>
      BY <1>2, <3>1, ClosedParts
    <3> QED
      BY <1>6, <2>1, <3>2
  <2>2. CASE ~quoted
    <3>1. r = Canonical(HeaderText(h) \o b) \o CRLF
      BY <1>3, <1>7, <2>2
    <3> QED
      BY <1>2, <1>6, <2>2, <3>1, ReceivedParts
  <2> QED
    BY <2>1, <2>2
<1> HIDE DEF d
<1>9. CASE h = HeaderOf("7bit")
  <2>1. Fits(Normalized(text)) /\ (b = Normalized(text) \/ b = Normalized(text) \o CRLF)
    BY <1>2, <1>9
  <2>2. LET body == Canonical(g) \o CRLF IN
        /\ IsAscii(body) /\ Trimmed(Canonical(body)) = Trimmed(Canonical(text))
        /\ g = <<>> => IsAscii(<<>>) /\ Trimmed(Canonical(<<>>)) = Trimmed(Canonical(text))
    BY <1>1, <1>5, <2>1, PlainLinesArrive
  <2>3. IsAscii(d) /\ Trimmed(Canonical(d)) = Trimmed(Canonical(text))
    BY <1>8, <2>2
  <2> QED
    BY <1>8, <1>9, <2>3 DEF r, d
<1>10. CASE h # HeaderOf("7bit")
  <2>1. \/ g = FlattenSeq(Base64Parts(n, n)) \o CRLF
        \/ g = Closed(FlattenSeq(Base64Parts(n, n)) \o CRLF)
    BY <1>2, <1>5, <1>10
  <2>2. /\ Unbroken(Canonical(g) \o CRLF) = [i \in 1 .. n |-> Base64Char(i)]
        /\ g = <<>> => Unbroken(<<>>) = [i \in 1 .. n |-> Base64Char(i)]
    BY <1>2, <2>1, EncodedLinesArrive
  <2>3. Unbroken(d) = [i \in 1 .. n |-> Base64Char(i)]
    BY <1>8, <2>2
  <2> QED
    BY <1>4, <1>8, <1>10, <2>3 DEF r, d, n
<1> QED
  BY <1>9, <1>10

\* What a user reads is what the user has typed: whatever characters and line ends a
\* text is made of, in whichever form it is sent, when the send succeeds the server has
\* received its lines, but for empty ones at the end.  The buffer has to hold a line of
\* the greatest length, as the buffers of libetpan do many times over.
THEOREM SameLinesAlwaysArrive ==
  ASSUME Base64Bytes, Len(EndOfText) <= BufferSize, LineLimit + 2 <= BufferSize
  PROVE  Spec => []SameLinesArrive
<1>1. ASSUME DeliveryInv, SendInv, Converts PROVE SameLinesArrive
  <2> SUFFICES ASSUME result = "ok", eml = Compose(text)
               PROVE  LET received == IF quoted THEN TextReceived(wire) ELSE wire
                          body == Drop(received, 5)
                          size == Base64Length(BytesOf(Normalized(text))) IN
                      IF received[1] = HeaderOf("7bit")
                      THEN IsAscii(body) /\ Trimmed(Canonical(body)) = Trimmed(Canonical(text))
                      ELSE /\ Unbroken(body) = [i \in 1 .. size |-> Base64Char(i)]
                           /\ Canonical(Normalized(text)) = Canonical(text)
    BY DEF SameLinesArrive
  <2>1. text \in Seq(Character) /\ quoted \in BOOLEAN
    BY <1>1 DEF DeliveryInv, SenderTypes
  <2>2. message = Converted(Compose(text), quoted)
    BY <1>1 DEF SendInv, Answered, Converts
  <2>3. NoLongLine
    BY <2>1, <2>2, ComposedFits DEF NoLongLine
  <2>4. GotMessage
    BY <1>1, <2>3, SentIsGot DEF OkMeansSent
  <2> QED
    BY <1>1, <2>4, GotLinesArrive
<1> QED
  BY <1>1, DeliveryInvInvariant, SendInvInvariant, ConvertsInvariant, PTL

----------------------------------------------------------------------------
(***************************************************************************)
(* No line is too long.                                                    *)
(***************************************************************************)

\* The lines of a header are those that its breaks end, and the last one.
LEMMA LineBeforeBreak ==
  ASSUME NEW P, NEW h \in Seq(P), NEW i \in 0 .. Len(h), NEW k \in Nat, i <= k, k <= Len(h),
         i = 0 \/ h[i] = Break, \A q \in 1 .. k : h[q] = Break => q <= i
  PROVE  SubSeq(h, i + 1, k) = LastLine(Take(h, k))
<1> DEFINE t == Take(h, k)
           I == {q \in 1 .. Len(t) : t[q] = Break}
<1>1. t \in Seq(P) /\ Len(t) = k /\ (\A q \in 1 .. k : t[q] = h[q]) /\ Len(h) \in Nat
  <2>1. k \in 0 .. Len(h)
    OBVIOUS
  <2> QED
    BY <2>1, TakeElements
<1>2. SubSeq(h, 1, k) = t
  BY DEF Take
<1>3. LastLine(t) = IF I = {} THEN t ELSE SubSeq(t, Max(I) + 1, Len(t))
  BY DEF LastLine
<1> HIDE DEF t
<1>4. I \in SUBSET Nat /\ \A q \in I : q \in 1 .. k /\ q <= i
  <2> SUFFICES ASSUME NEW q \in I PROVE q \in Nat /\ q \in 1 .. k /\ q <= i
    OBVIOUS
  <2>1. q \in 1 .. k /\ t[q] = Break
    BY <1>1
  <2>2. h[q] = Break
    BY <1>1, <2>1
  <2> QED
    BY <2>1, <2>2
<1>5. CASE i = 0
  <2>1. I = {}
    BY <1>4, <1>5
  <2> QED
    BY <1>2, <1>3, <1>5, <2>1 DEF t
<1>6. CASE i # 0
  <2>1. i \in 1 .. k
    BY <1>6
  <2>2. i \in I
    BY <1>1, <1>6, <2>1
  <2> DEFINE m == Max(I)
  <2>3. m = i
    <3> HIDE DEF I
    <3> QED
      BY <1>4, <2>2, MaxIs
  <2>4. LastLine(t) = SubSeq(t, i + 1, k)
    <3>1. LastLine(t) = SubSeq(t, m + 1, Len(t))
      BY <1>3, <2>2
    <3> HIDE DEF m
    <3> QED
      BY <1>1, <2>3, <3>1
  <2> HIDE DEF I, m
  <2>5. PICK a \in Nat : a = i + 1
    OBVIOUS
  <2>6. \A q \in a .. k : q \in 1 .. k /\ t[q] \in P /\ h[q] \in P /\ t[q] = h[q]
    <3> TAKE q \in a .. k
    <3>1. q \in 1 .. k
      BY <2>5
    <3>2. q \in 1 .. Len(h) /\ q \in 1 .. Len(t)
      BY <1>1, <3>1
    <3> QED
      BY <1>1, <3>1, <3>2
  <2>7. /\ SubSeq(t, a, k) \in Seq(P) /\ Len(SubSeq(t, a, k)) = (IF a <= k THEN k - a + 1 ELSE 0)
        /\ \A q \in 1 .. k - a + 1 : SubSeq(t, a, k)[q] = t[a + q - 1]
    BY <2>6, SubSeqProperties
  <2>8. /\ SubSeq(h, a, k) \in Seq(P) /\ Len(SubSeq(h, a, k)) = (IF a <= k THEN k - a + 1 ELSE 0)
        /\ \A q \in 1 .. k - a + 1 : SubSeq(h, a, k)[q] = h[a + q - 1]
    BY <2>6, SubSeqProperties
  <2> DEFINE x == SubSeq(t, a, k)
             y == SubSeq(h, a, k)
  <2> HIDE DEF x, y
  <2>9. x \in Seq(P) /\ y \in Seq(P) /\ Len(x) = Len(y)
    BY <2>7, <2>8 DEF x, y
  <2>10. ASSUME NEW q \in 1 .. Len(x) PROVE x[q] = y[q]
    <3>1. q \in 1 .. k - a + 1
      BY <2>5, <2>7 DEF x
    <3>2. a + q - 1 \in a .. k
      BY <2>5, <3>1
    <3>3. t[a + q - 1] = h[a + q - 1]
      BY <2>6, <3>2
    <3> QED
      BY <2>7, <2>8, <3>1, <3>3 DEF x, y
  <2>11. x = y
    BY <2>9, <2>10, SeqEqual
  <2> QED
    BY <2>4, <2>5, <2>11 DEF x, y, t
<1> QED
  BY <1>5, <1>6

LEMMA HeaderLinesAre ==
  ASSUME NEW P, NEW h \in Seq(P), NEW x \in HeaderLines(h)
  PROVE  x \in ClosedLines(h) \cup {LastLine(h)}
<1> DEFINE n == Len(h)
           I == {i \in 1 .. n : h[i] = Break}
           B == {0, n + 1} \cup I
<1>1. n \in Nat
  OBVIOUS
<1>2. HeaderLines(h) = {SubSeq(h, i + 1, Min({j \in B : j > i}) - 1) : i \in B \ {n + 1}}
  BY DEF HeaderLines
<1>3. PICK i \in B \ {n + 1} : x = SubSeq(h, i + 1, Min({j \in B : j > i}) - 1)
  BY <1>2
<1>4. B \subseteq Nat /\ i \in 0 .. n /\ (i = 0 \/ h[i] = Break)
  BY <1>1
<1> DEFINE T == {j \in B : j > i}
<1>5. T \subseteq Nat /\ n + 1 \in T
  BY <1>1, <1>4
<1>6. PICK j : j = Min(T)
  OBVIOUS
<1>7. j \in T /\ \A q \in T : j <= q
  <2> HIDE DEF T
  <2> QED
    BY <1>5, <1>6, MinIsLeast
<1>8. j \in 1 .. n + 1 /\ j > i
  BY <1>1, <1>4, <1>5, <1>7
<1>9. PICK k \in Nat : k = j - 1
  BY <1>8
<1>10. i <= k /\ k <= n /\ k + 1 = j
  BY <1>1, <1>4, <1>8, <1>9
<1>11. \A q \in 1 .. k : h[q] = Break => q <= i
  <2> SUFFICES ASSUME NEW q \in 1 .. k, h[q] = Break, q > i PROVE FALSE
    BY <1>4
  <2>1. q \in 1 .. n
    BY <1>1, <1>10
  <2>2. q \in T
    BY <2>1
  <2> QED
    BY <1>7, <1>8, <1>9, <2>2
<1>12. x = LastLine(Take(h, k))
  <2>1. x = SubSeq(h, i + 1, k)
    BY <1>3, <1>6, <1>9
  <2>2. SubSeq(h, i + 1, k) = LastLine(Take(h, k))
    <3> HIDE DEF B
    <3> QED
      BY <1>4, <1>10, <1>11, LineBeforeBreak
  <2> QED
    BY <2>1, <2>2
<1>13. CASE j = n + 1
  <2>1. k = n
    BY <1>1, <1>9, <1>13
  <2>2. Take(h, n) = h
    <3>1. n \in 0 .. Len(h)
      BY <1>1
    <3>2. Take(h, n) \in Seq(P) /\ Len(Take(h, n)) = n /\ \A q \in 1 .. n : Take(h, n)[q] = h[q]
      BY <3>1, TakeElements
    <3> QED
      BY <3>2, SeqEqual
  <2> QED
    BY <1>12, <2>1, <2>2
<1>14. CASE j # n + 1
  <2>1. j \in I
    BY <1>1, <1>7, <1>8, <1>14
  <2>2. LastLine(Take(h, j - 1)) \in ClosedLines(h)
    BY <2>1 DEF ClosedLines
  <2> QED
    BY <1>9, <1>12, <2>2
<1> QED
  BY <1>13, <1>14
\* What is written of a body, line by line, is short.
LEMMA BodyFits ==
  ASSUME Base64Bytes, NEW t \in Seq(Character)
  PROVE  LET writes == DataWrites(Encode(t).body, FALSE) IN
         \A i \in 1 .. Len(writes) : Len(Unbroken(writes[i])) <= LineLimit
<1> DEFINE b == Encode(t).body
           w == DataWrites(b, FALSE)
<1>1. b \in Seq(Byte) /\ ShortRuns(b, LineLimit)
  BY ComposeForms
<1>2. LineLimit \in Nat \ {0} /\ {CR, LF, DOT} \subseteq Byte
  BY EmlAssumption, AlphabetFacts
<1> HIDE DEF b
<1> DEFINE W == ShortWrites(Byte, LineLimit)
<1>3. w \in Seq(W)
  BY <1>1, <1>2, DataWritesShort
<1> HIDE DEF w, W
<1>4. ASSUME NEW i \in 1 .. Len(w) PROVE Len(Unbroken(w[i])) <= LineLimit
  <2>1. w[i] \in W
    BY <1>3
  <2> QED
    BY <2>1 DEF W, ShortWrites
<1> QED
  BY <1>4 DEF w, b

\* The lines of the header of a text.
LEMMA SanitizedFits ==
  ASSUME NEW t \in Seq(Character), NEW n \in HeaderNames
  PROVE  LET value == Sanitized(t)
             pieces == EncodeIfNeeded(value)
             m == Max({FoldWidth, Count(Chars(n)) + 1 + LongestOf(Tokens(pieces))}) IN
         \A l \in HeaderLines(Fold(Chars(n), pieces)) : FineLine(l, m, Doubled(value))
<1> DEFINE C == Character \cup {SP}
           S == Byte \cup Nat \cup {SP}
           v == Sanitized(t)
           value == EncodeIfNeeded(v)
           m == Max({FoldWidth, Count(Chars(n)) + 1 + LongestOf(Tokens(value))})
           h == Fold(Chars(n), value)
<1>1. SP \in S /\ SP \in C /\ C \subseteq S /\ \A c \in C : Bytes(c) \in Nat
  BY AlphabetAssumption
<1>2. n \in Seq(S) /\ \E i \in 1 .. Len(n) : n[i] # SP
  BY HeaderNamesAssumption
<1>3. t \in Seq(C)
  OBVIOUS
<1>4. v \in Seq(C) /\ (v = <<>> \/ (v[1] # SP /\ v[Len(v)] # SP))
  <2> HIDE DEF C
  <2> QED
    BY <1>1, <1>3, SanitizedFacts
<1> HIDE DEF C, S, v
<1>5. /\ h \in Seq(Piece(S))
      /\ \A x \in ClosedLines(h) \cup {LastLine(h)} : FineLine(x, m, Doubled(v))
  BY <1>1, <1>2, <1>4, HeaderFits
<1> HIDE DEF h, m
<1>6. \A x \in HeaderLines(h) : FineLine(x, m, Doubled(v))
  BY <1>5, HeaderLinesAre
<1> QED
  BY <1>6 DEF h, m, v

\* No line is too long, whatever is typed: neither one of the body that is composed
\* (encode(body:)) nor one of a header (encodeIfNeeded and fold), and no header line
\* is blank unless two spaces follow each other.
THEOREM LinesAlwaysFit == ASSUME Base64Bytes PROVE Spec => []LinesFit
<1>1. ASSUME DeliveryInv PROVE LinesFit
  <2>1. text \in Seq(Character)
    BY <1>1 DEF DeliveryInv, SenderTypes
  <2> DEFINE writes == DataWrites(Encode(text).body, FALSE)
             value == Sanitized(text)
             pieces == EncodeIfNeeded(value)
             longest == Max({Count(Tokens(pieces)[i]) : i \in 1 .. Len(Tokens(pieces))})
  <2>2. \A i \in 1 .. Len(writes) : Len(Unbroken(writes[i])) <= LineLimit
    BY <2>1, BodyFits
  <2>3. longest = LongestOf(Tokens(pieces))
    BY DEF LongestOf
  <2>4. \A n \in HeaderNames : \A l \in HeaderLines(Fold(Chars(n), pieces)) :
          FineLine(l, Max({FoldWidth, Count(Chars(n)) + 1 + LongestOf(Tokens(pieces))}), Doubled(value))
    BY <2>1, SanitizedFits
  <2> HIDE DEF writes, value, pieces, longest
  <2>5. ASSUME NEW name \in {Chars(n) : n \in HeaderNames}, NEW l \in HeaderLines(Fold(name, pieces))
        PROVE  /\ Count(l) <= Max({FoldWidth, Count(name) + 1 + longest})
               /\ \/ \E i \in 1 .. Len(l) : l[i] # Space
                  \/ \E i \in 1 .. Len(value) - 1 : value[i] = SP /\ value[i + 1] = SP
    <3>1. PICK n \in HeaderNames : name = Chars(n)
      BY <2>5
    <3>2. FineLine(l, Max({FoldWidth, Count(name) + 1 + longest}), Doubled(value))
      BY <2>3, <2>4, <2>5, <3>1
    <3> QED
      BY <3>2 DEF FineLine, Doubled
  <2> QED
    BY <2>2, <2>5 DEF LinesFit, writes, value, pieces, longest
<1> QED
  BY <1>1, DeliveryInvInvariant, PTL

\* As many bytes or fewer make no longer text in base64.
LEMMA Base64Grows ==
  ASSUME NEW m \in Nat, NEW n \in Nat, m <= n
  PROVE  Base64Length(m) \in Nat /\ Base64Length(n) \in Nat /\ Base64Length(m) <= Base64Length(n)
<1>1. PICK p \in Int, q \in Int : p = (m + 2) \div 3 /\ q = (n + 2) \div 3
  OBVIOUS
<1>2. p \in Nat /\ q \in Nat /\ p <= q
  BY <1>1
<1>3. Base64Length(m) = 4 * p /\ Base64Length(n) = 4 * q
  BY <1>1 DEF Base64Length
<1> QED
  BY <1>2, <1>3

\* The full words fit, and no character is longer than a word may be.
ShortCharacters ==
  /\ WordOverhead + Base64Length(WordBytes) <= WordLimit
  /\ \A c \in Character \cup {SP} : Bytes(c) <= WordBytes

LEMMA WordIsShort ==
  ASSUME ShortCharacters, WordLimit \in Nat, NEW x \in Chunk(Character \cup {SP})
  PROVE  Word(x).width <= WordLimit
<1> DEFINE C == Character \cup {SP}
<1>1. \A c \in C : Bytes(c) \in Nat /\ Bytes(c) <= WordBytes
  BY AlphabetAssumption DEF ShortCharacters
<1>2. x \in Seq(C) /\ (BytesOf(x) <= WordBytes \/ Len(x) = 1)
  BY DEF Chunk
<1> HIDE DEF C
<1>3. BytesOf(x) \in Nat /\ BytesOf(x) <= WordBytes
  <2>1. BytesOf(x) \in Nat
    BY <1>1, <1>2, BytesAppend
  <2>2. CASE Len(x) = 1
    <3>1. PICK c \in C : x = Append(<<>>, c)
      BY <1>2, <2>2
    <3>2. BytesOf(x) = 0 + Bytes(c)
      <4>1. <<>> \in Seq(C)
        OBVIOUS
      <4> QED
        BY <1>1, <3>1, <4>1, BytesAppend
    <3> QED
      BY <1>1, <2>1, <3>2
  <2> QED
    BY <1>2, <2>1, <2>2
<1>4. WordBytes \in Nat /\ WordOverhead \in Nat
  BY EmlAssumption
<1>5. /\ Base64Length(BytesOf(x)) \in Nat /\ Base64Length(WordBytes) \in Nat
      /\ Base64Length(BytesOf(x)) <= Base64Length(WordBytes)
  BY <1>3, <1>4, Base64Grows
<1>6. Word(x).width = WordOverhead + Base64Length(BytesOf(x))
  BY DEF Word
<1>7. WordOverhead + Base64Length(WordBytes) <= WordLimit
  BY DEF ShortCharacters
<1> QED
  BY <1>4, <1>5, <1>6, <1>7

\* encodedWord keeps what it says of its words as long as no character is longer than
\* the 45 bytes it counts: the words that are too long are those of one such character.
THEOREM ShortCharactersFit ==
  ASSUME Base64Bytes, ShortCharacters, WordLimit \in Nat
  PROVE  Spec => []WordsFit
<1> DEFINE C == Character \cup {SP}
           K == Chunk(C)
           Short == {Word(x) : x \in K} \cup {Break, Space} \cup {Char(c) : c \in C}
<1>1. ASSUME NEW p \in Short, p.kind = "word" PROVE p.width <= WordLimit
  <2>1. CASE p \in {Word(x) : x \in K}
    BY <2>1, WordIsShort
  <2>2. Break.kind = "break" /\ Space.kind = "char" /\ \A c \in C : Char(c).kind = "char"
    BY DEF Break, Space, Char
  <2> QED
    BY <1>1, <2>1, <2>2
<1>2. \A c \in C : Bytes(c) \in Nat
  BY AlphabetAssumption
<1>3. ASSUME NEW t \in Seq(C) PROVE EncodeIfNeeded(t) \in Seq(Short)
  <2> DEFINE Q == Seq(Short)
             chunks == Chunks(t)
             words == WordsOf(chunks)
  <2>1. Chars(t) \in Seq(Short)
    BY DEF Chars
  <2>2. chunks \in Seq(K)
    <3> HIDE DEF C
    <3> QED
      BY <1>2, <1>3, ChunksFine DEF K
  <2>3. \A x \in K : <<Word(x)>> \in Q /\ <<Break, Space, Word(x)>> \in Q
    <3>1. Break \in Short /\ Space \in Short /\ \A x \in K : Word(x) \in Short
      OBVIOUS
    <3> HIDE DEF Short, K
    <3> QED
      BY <3>1
  <2> HIDE DEF Q, chunks, K
  <2>4. words \in Seq(Q)
    BY <2>2, <2>3 DEF WordsOf
  <2>5. EncodedWord(t) = FlattenSeq(words)
    BY DEF EncodedWord, WordsOf, chunks
  <2> HIDE DEF words, Short
  <2>6. EncodedWord(t) \in Seq(Short)
    BY <2>4, <2>5, FlattenTyped DEF Q
  <2> QED
    BY <2>1, <2>6 DEF EncodeIfNeeded
<1>4. ASSUME DeliveryInv PROVE WordsFit
  <2> DEFINE pieces == EncodeIfNeeded(Sanitized(text))
  <2>1. text \in Seq(C) /\ SP \in C
    <3>1. text \in Seq(Character)
      BY <1>4 DEF DeliveryInv, SenderTypes
    <3> QED
      BY <3>1
  <2>2. Sanitized(text) \in Seq(C)
    <3> HIDE DEF C
    <3> QED
      BY <2>1, SanitizedFacts
  <2>3. pieces \in Seq(Short)
    BY <1>3, <2>2
  <2> HIDE DEF pieces, Short
  <2>4. \A i \in 1 .. Len(pieces) : pieces[i] \in Short
    BY <2>3
  <2>5. \A i \in 1 .. Len(pieces) : pieces[i].kind = "word" => pieces[i].width <= WordLimit
    BY <1>1, <2>4
  <2> QED
    BY <2>5 DEF WordsFit, pieces
<1> QED
  BY <1>4, DeliveryInvInvariant, PTL
=============================================================================
