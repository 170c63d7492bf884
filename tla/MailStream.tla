----------------------------- MODULE MailStream -----------------------------
(***************************************************************************)
(* A buffered stream of libetpan (data-types/mailstream.c): what           *)
(* mailstream_write and mailstream_flush hand to the network, and what     *)
(* mailstream_read_line makes of the bytes that come back.                 *)
(*                                                                         *)
(* A call is a sequence of writes to, or reads from, the low layer (TLS,   *)
(* socket or CFStream), each an action: it moves some of the bytes, or it  *)
(* fails, which a timeout does too, and the stream stays as it is.  A      *)
(* low-level write of 0 bytes is tried again: a stuttering step.           *)
(***************************************************************************)
EXTENDS Cuts

CONSTANTS
  Byte,        \* what a stream is made of
  LineFeed,    \* the byte that ends a line
  BufferSize   \* buffer_max_size

ASSUME BufferSizeAssumption == BufferSize \in Nat \ {0}
ASSUME LineFeedAssumption == LineFeed \in Byte

VARIABLES
  write_buffer,  \* bytes taken, not yet handed to the network
  wire,          \* bytes handed to the network so far
  op,            \* the call that is running, "none" between two calls
  arg,           \* the bytes that the last mailstream_write was called with
  left,          \* write_direct: what remains of them
  ret,           \* what the last call returned
  taken,         \* history: the bytes that the returned values vouch for
  read_buffer,   \* bytes that came from the network and are not read yet
  inbox,         \* bytes that the peer has sent and the network still has
  line,          \* mailstream_read_line: the line so far
  got,           \* history: the lines returned
  open           \* the peer has not closed the connection

writeVars == <<write_buffer, wire, arg, left, taken>>
readVars == <<read_buffer, inbox, line, got, open>>
streamVars == <<writeVars, op, ret, readVars>>

StreamInit ==
  /\ write_buffer = <<>> /\ wire = <<>> /\ arg = <<>> /\ left = <<>> /\ taken = <<>>
  /\ op = "none" /\ ret = 0
  /\ read_buffer = <<>> /\ inbox = <<>> /\ line = <<>> /\ got = <<>> /\ open = TRUE

----------------------------------------------------------------------------
(***************************************************************************)
(* Writing.                                                                *)
(***************************************************************************)

\* The end of a call.  Its caller takes n bytes of the argument for written.
Returns(n) ==
  /\ op' = "none" /\ ret' = n
  /\ taken' = taken \o Take(arg', n)

\* mailstream_write: into the buffer if there is room, else after a flush that makes
\* room ("room"), and past the buffer when the bytes would never fit.  The mutant only asks whether
\* they would fit into an empty buffer.
WriteUnflushed(bytes) ==
  /\ op = "none" /\ arg' = bytes
  /\ IF Len(bytes) <= BufferSize
     THEN write_buffer' = write_buffer \o bytes /\ Returns(Len(bytes)) /\ UNCHANGED left
     ELSE op' = "direct" /\ left' = bytes /\ UNCHANGED <<write_buffer, ret, taken>>
  /\ UNCHANGED <<wire, readVars>>
Write(bytes) ==
  /\ op = "none" /\ arg' = bytes
  /\ \/ /\ Len(bytes) + Len(write_buffer) <= BufferSize
        /\ write_buffer' = write_buffer \o bytes
        /\ Returns(Len(bytes))
        /\ UNCHANGED left
     \/ /\ Len(bytes) + Len(write_buffer) > BufferSize /\ write_buffer # <<>>
        /\ op' = "room"
        /\ UNCHANGED <<write_buffer, left, ret, taken>>
     \/ /\ Len(bytes) > BufferSize /\ write_buffer = <<>>
        /\ op' = "direct" /\ left' = bytes
        /\ UNCHANGED <<write_buffer, ret, taken>>
  /\ UNCHANGED <<wire, readVars>>

\* mailstream_flush.
Flush ==
  /\ op = "none"
  /\ IF write_buffer = <<>> THEN ret' = 0 /\ UNCHANGED op
     ELSE op' = "flush" /\ UNCHANGED ret
  /\ UNCHANGED <<writeVars, readVars>>

Flushing == op \in {"flush", "room"}

FlushSome(n) ==
  /\ Flushing /\ n \in 1 .. Len(write_buffer) - 1
  /\ wire' = wire \o Take(write_buffer, n)
  /\ write_buffer' = Drop(write_buffer, n)
  /\ UNCHANGED <<op, arg, left, ret, taken, readVars>>

\* The buffer is empty: a flush ends here, a write goes on with its own bytes.
FlushLast ==
  /\ Flushing
  /\ wire' = wire \o write_buffer
  /\ UNCHANGED <<arg, readVars>>
  /\ \/ /\ op = "flush"
        /\ write_buffer' = <<>> /\ op' = "none" /\ ret' = 0
        /\ UNCHANGED <<left, taken>>
     \/ /\ op = "room" /\ Len(arg) <= BufferSize
        /\ write_buffer' = arg
        /\ Returns(Len(arg))
        /\ UNCHANGED left
     \/ /\ op = "room" /\ Len(arg) > BufferSize
        /\ write_buffer' = <<>> /\ op' = "direct" /\ left' = arg
        /\ UNCHANGED <<ret, taken>>

\* What was not flushed stays in the buffer; the argument of a write is not taken.
\* The mutant forgets the buffer.
FlushFailsEmpty ==
  /\ Flushing
  /\ op' = "none" /\ ret' = -1 /\ write_buffer' = <<>>
  /\ UNCHANGED <<wire, arg, left, taken, readVars>>
FlushFails ==
  /\ Flushing
  /\ op' = "none" /\ ret' = -1
  /\ UNCHANGED <<writeVars, readVars>>

DirectSome(n) ==
  /\ op = "direct" /\ n \in 1 .. Len(left) - 1
  /\ wire' = wire \o Take(left, n)
  /\ left' = Drop(left, n)
  /\ UNCHANGED <<write_buffer, op, arg, ret, taken, readVars>>

DirectLast ==
  /\ op = "direct"
  /\ wire' = wire \o left
  /\ left' = <<>>
  /\ arg' = arg /\ Returns(Len(arg))
  /\ UNCHANGED <<write_buffer, readVars>>

\* -1 when nothing was written, else the number of bytes that were.  The mutant
\* reports an error for both.
DirectFailsAlways ==
  /\ op = "direct"
  /\ left' = <<>>
  /\ arg' = arg /\ Returns(-1)
  /\ UNCHANGED <<write_buffer, wire, readVars>>
DirectFails ==
  /\ op = "direct"
  /\ left' = <<>>
  /\ arg' = arg /\ Returns(IF left = arg THEN -1 ELSE Len(arg) - Len(left))
  /\ UNCHANGED <<write_buffer, wire, readVars>>

----------------------------------------------------------------------------
(***************************************************************************)
(* Reading.                                                                *)
(***************************************************************************)

\* The peer sends, and may close the connection.
Arrive(bytes) ==
  /\ open /\ inbox' = inbox \o bytes
  /\ UNCHANGED <<writeVars, op, ret, read_buffer, line, got, open>>
PeerCloses ==
  /\ open /\ open' = FALSE
  /\ UNCHANGED <<writeVars, op, ret, read_buffer, inbox, line, got>>

HasLine(bytes) == \E i \in 1 .. Len(bytes) : bytes[i] = LineFeed
FirstLF(bytes) ==
  CHOOSE i \in 1 .. Len(bytes) : bytes[i] = LineFeed /\ \A j \in 1 .. i - 1 : bytes[j] # LineFeed

\* mailstream_read_line.
ReadLine ==
  /\ op = "none"
  /\ op' = "read" /\ line' = <<>>
  /\ UNCHANGED <<writeVars, ret, read_buffer, inbox, got, open>>

\* There is the end of a line in the buffer: the rest of the buffer stays.  The
\* mutant takes all of it.
LineEndsGreedily ==
  /\ op = "read" /\ HasLine(read_buffer)
  /\ line' = line \o read_buffer
  /\ read_buffer' = <<>>
  /\ got' = Append(got, line') /\ op' = "none" /\ ret' = 0
  /\ UNCHANGED <<writeVars, inbox, open>>
LineEnds ==
  /\ op = "read" /\ HasLine(read_buffer)
  /\ line' = line \o Take(read_buffer, FirstLF(read_buffer))
  /\ read_buffer' = Drop(read_buffer, FirstLF(read_buffer))
  /\ got' = Append(got, line') /\ op' = "none" /\ ret' = 0
  /\ UNCHANGED <<writeVars, inbox, open>>

\* The whole buffer is a part of the line, and the next piece comes in.
Feed(n) ==
  /\ op = "read" /\ ~HasLine(read_buffer)
  /\ n \in 1 .. Len(inbox) /\ n <= BufferSize
  /\ line' = line \o read_buffer
  /\ read_buffer' = Take(inbox, n) /\ inbox' = Drop(inbox, n)
  /\ UNCHANGED <<writeVars, op, ret, got, open>>

\* Nothing will come any more: what there is of the line is returned.
FeedEnds ==
  /\ op = "read" /\ ~HasLine(read_buffer)
  /\ inbox = <<>> /\ ~open
  /\ line' = line \o read_buffer /\ read_buffer' = <<>>
  /\ got' = Append(got, line') /\ op' = "none" /\ ret' = 0
  /\ UNCHANGED <<writeVars, inbox, open>>

\* A timeout or an error: NULL, and what there was of the line is gone.
FeedFails ==
  /\ op = "read" /\ ~HasLine(read_buffer)
  /\ line' = <<>> /\ read_buffer' = <<>>
  /\ op' = "none" /\ ret' = -1
  /\ UNCHANGED <<writeVars, inbox, got, open>>

----------------------------------------------------------------------------
LowLayer ==
  \/ \E n \in 1 .. Len(write_buffer) : FlushSome(n)
  \/ FlushLast \/ FlushFails
  \/ \E n \in 1 .. Len(left) : DirectSome(n)
  \/ DirectLast \/ DirectFails
  \/ LineEnds \/ FeedEnds \/ FeedFails
  \/ \E n \in 1 .. Len(inbox) : Feed(n)

\* Any caller, and any peer.
StreamNext ==
  \/ arg' \in Seq(Byte) /\ Write(arg')
  \/ Flush \/ ReadLine
  \/ LowLayer
  \/ inbox' \in Seq(Byte) /\ Arrive(Drop(inbox', Len(inbox)))
  \/ PeerCloses

StreamSpec == StreamInit /\ [][StreamNext]_streamVars

----------------------------------------------------------------------------
(***************************************************************************)
(* Properties.                                                             *)
(***************************************************************************)
StreamTypeOK ==
  /\ {write_buffer, wire, arg, left, taken, read_buffer, inbox, line} \subseteq Seq(Byte)
  /\ got \in Seq(Seq(Byte))
  /\ op \in {"none", "flush", "room", "direct", "read"}
  /\ ret \in Int
  /\ open \in BOOLEAN
  /\ Len(write_buffer) <= BufferSize /\ Len(read_buffer) <= BufferSize

\* Between two calls, what has gone to the network and what is in the buffer are,
\* in this order, the bytes that mailstream_write has vouched for: none is lost,
\* doubled or overtaken, whichever low-level writes are short or fail.
TakenIsWritten == op \notin {"direct"} => wire \o write_buffer = taken
=============================================================================
