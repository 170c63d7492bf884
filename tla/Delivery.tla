------------------------------ MODULE Delivery ------------------------------
(***************************************************************************)
(* The way of a message: a text becomes the body and a header of an EML    *)
(* (module Eml) or is itself a message; beSend or beAppend sets its line   *)
(* ends right; mailstream_send_data sends it as the text of an SMTP        *)
(* transaction, or mailimap_append as a literal (module DataText), through *)
(* a buffered stream whose network takes what it likes and may fail        *)
(* (module MailStream); then the reply is read.                            *)
(*                                                                         *)
(* A send that failed leaves the stream as it is, and a later command goes *)
(* out on it: what the server then takes for the message is the question.  *)
(***************************************************************************)
EXTENDS MailStream, Eml

Verb == 65     \* the first byte of a command
Hyphen == 45   \* in a reply line: another line follows

CONSTANTS
  Character,     \* the characters of a text
  RawCharacter,  \* those of a text that may be a message itself
  ExtraMessages, \* messages given whole
  HeaderNames,   \* names of headers, with their colon
  WordLimit,     \* the length no encoded word may exceed: 75
  Replies,       \* what a server may answer
  MaxText,       \* bound: the length of a text
  MaxSent,       \* bound: the length of a text that is sent
  MaxCommands    \* bound: commands after a send that failed

\* Everything that is sent or answered is made of bytes.
ASSUME AlphabetAssumption ==
  /\ LineFeed = LF
  /\ {CR, LF, DOT, Verb, HeaderOf("7bit"), HeaderOf("base64")} \cup Character \subseteq Byte
  /\ ExtraMessages \cup Replies \subseteq Seq(Byte)
  /\ \A c \in Character \cup {CR, LF, SP} : Bytes(c) \in Nat
  /\ MaxCommands \in Nat

\* A name has its colon: it is never blank.
ASSUME HeaderNamesAssumption ==
  /\ HeaderNames \subseteq Seq(Nat)
  /\ \A n \in HeaderNames : \E i \in 1 .. Len(n) : n[i] # SP

VARIABLES
  text,      \* what the user has typed
  eml,       \* the message that beSend or beAppend is called with
  message,   \* the bytes it hands over to be sent
  quoted,    \* as the text of a transaction, or as a literal
  pc,        \* what the sender does
  todo,      \* its calls of mailstream_write still to be made
  result,    \* of the send
  commands,  \* later commands so far
  reply      \* what the server has answered

senderVars == <<text, eml, message, quoted, pc, todo, result, commands, reply>>
vars == <<streamVars, senderVars>>

Init ==
  /\ StreamInit
  /\ text = <<>> /\ eml = <<>> /\ message = <<>> /\ quoted = TRUE /\ pc = "typing"
  /\ todo = <<>> /\ result = "none" /\ commands = 0 /\ reply = <<>>

Type(c) ==
  /\ pc = "typing" /\ Len(text) < MaxText
  /\ text' = Append(text, c)
  /\ UNCHANGED <<streamVars, eml, message, quoted, pc, todo, result, commands, reply>>

\* The messages that a text can become.
Messages ==
  {Compose(text)}
    \cup {m \in {text} : \A i \in 1 .. Len(text) : text[i] \in RawCharacter}
    \cup {m \in ExtraMessages : text = <<>>}

\* How many CRLFs there may be taken from the end of a text.
CrlfsAtEnd(t) ==
  {k \in 0 .. Len(t) \div 2 :
     \A j \in 1 .. k : t[Len(t) - 2 * j + 1] = CR /\ t[Len(t) - 2 * j + 2] = LF}

\* _beSend: every CRLF at the end goes, as the text gets one of its own.  The mutant
\* takes one.
StrippedOnce(t) == IF IsSuffix(CRLF, t) THEN SubSeq(t, 1, Len(t) - 2) ELSE t
Stripped(t) == SubSeq(t, 1, Len(t) - 2 * Max(CrlfsAtEnd(t)))

\* _beSend, or _beAppend, which leaves the end as it is.
Converted(m, quote) == IF quote THEN Stripped(Normalized(m)) ELSE Normalized(m)

\* Then mailstream_send_data, or mailimap_literal_data_send with mailimap_crlf_send:
\* the calls of mailstream_write they are going to make.
Send(m, quote) ==
  /\ pc = "typing" /\ Len(text) <= MaxSent
  /\ eml' = m /\ message' = Converted(m, quote) /\ quoted' = quote
  /\ todo' = Append(DataWrites(message', quote), IF quote THEN EndOfText ELSE CRLF)
  /\ pc' = "writing"
  /\ UNCHANGED <<streamVars, text, result, commands, reply>>

\* The next mailstream_write, if the last one has not failed.  The mutant does not
\* look.
WriteNextAnyway ==
  /\ pc = "writing" /\ op = "none" /\ todo # <<>>
  /\ Write(Head(todo)) /\ todo' = Tail(todo)
  /\ UNCHANGED <<text, eml, message, quoted, pc, result, commands, reply>>
WriteNext ==
  /\ pc = "writing" /\ op = "none" /\ todo # <<>> /\ ret # -1
  /\ Write(Head(todo)) /\ todo' = Tail(todo)
  /\ UNCHANGED <<text, eml, message, quoted, pc, result, commands, reply>>

FlushAll ==
  /\ pc = "writing" /\ op = "none" /\ todo = <<>> /\ ret # -1
  /\ Flush /\ pc' = "flushing"
  /\ UNCHANGED <<text, eml, message, quoted, todo, result, commands, reply>>

SendSucceeds ==
  /\ pc = "flushing" /\ op = "none" /\ ret # -1
  /\ pc' = "sent" /\ result' = "ok"
  /\ UNCHANGED <<streamVars, text, eml, message, quoted, todo, commands, reply>>

\* The stream is left as it is.  The mutant clears its buffer.
SendFailsClears ==
  /\ pc \in {"writing", "flushing"} /\ op = "none" /\ ret = -1
  /\ pc' = "idle" /\ result' = "error" /\ todo' = <<>>
  /\ write_buffer' = <<>> /\ UNCHANGED <<wire, arg, left, taken, op, ret, readVars>>
  /\ UNCHANGED <<text, eml, message, quoted, commands, reply>>
SendFails ==
  /\ pc \in {"writing", "flushing"} /\ op = "none" /\ ret = -1
  /\ pc' = "idle" /\ result' = "error" /\ todo' = <<>>
  /\ UNCHANGED <<streamVars, text, eml, message, quoted, commands, reply>>

\* send_command on the same stream: a verb, here one byte, and CRLF.
Command ==
  /\ pc = "idle" /\ result = "error" /\ commands < MaxCommands
  /\ Write(<<Verb>> \o CRLF)
  /\ pc' = "command" /\ commands' = commands + 1
  /\ UNCHANGED <<text, eml, message, quoted, todo, result, reply>>
CommandFlush ==
  /\ pc = "command" /\ op = "none" /\ ret # -1
  /\ Flush /\ pc' = "command flush"
  /\ UNCHANGED <<text, eml, message, quoted, todo, result, commands, reply>>
CommandEnds ==
  /\ pc \in {"command", "command flush"} /\ op = "none"
  /\ pc = "command" => ret = -1
  /\ pc' = "idle"
  /\ UNCHANGED <<streamVars, text, eml, message, quoted, todo, result, commands, reply>>

----------------------------------------------------------------------------
(***************************************************************************)
(* The reply: the server sends it when the message has ended, in one piece *)
(* or in several, and may close the connection.                            *)
(***************************************************************************)
Answer(r) ==
  /\ pc \in {"sent", "reading"} /\ reply = <<>>
  /\ Arrive(r) /\ reply' = r
  /\ UNCHANGED <<text, eml, message, quoted, pc, todo, result, commands>>

Hangup ==
  /\ pc \in {"sent", "reading"}
  /\ PeerCloses
  /\ UNCHANGED senderVars

\* read_response: it reads on as long as a line says that another one follows.
Continues(l) == l # <<>> /\ l[1] = Hyphen

ReadNext ==
  /\ op = "none"
  /\ \/ pc = "sent"
     \/ pc = "reading" /\ ret # -1 /\ Continues(line)
  /\ ReadLine /\ pc' = "reading"
  /\ UNCHANGED <<text, eml, message, quoted, todo, result, commands, reply>>

ReadEnds ==
  /\ pc = "reading" /\ op = "none"
  /\ ret = -1 \/ ~Continues(line)
  /\ pc' = "done"
  /\ UNCHANGED <<streamVars, text, eml, message, quoted, todo, result, commands, reply>>

Network == LowLayer /\ UNCHANGED senderVars

----------------------------------------------------------------------------
SenderStep ==
  \/ WriteNext \/ FlushAll \/ SendSucceeds \/ SendFails
  \/ CommandFlush \/ CommandEnds \/ ReadNext \/ ReadEnds

Next ==
  \/ \E c \in Character : Type(c)
  \/ \E m \in Messages, quote \in BOOLEAN : Send(m, quote)
  \/ SenderStep \/ Command
  \/ Network
  \/ \E r \in Replies : Answer(r)
  \/ Hangup

Spec == Init /\ [][Next]_vars

\* The senders and the reader use the stream as any caller may: what is proved of
\* StreamSpec holds of every delivery.
UsesTheStream == StreamSpec

----------------------------------------------------------------------------
(***************************************************************************)
(* Properties.                                                             *)
(***************************************************************************)
TypeOK ==
  /\ StreamTypeOK
  /\ pc \in {"typing", "writing", "flushing", "sent", "idle", "command", "command flush",
             "reading", "done"}
  /\ result \in {"none", "ok", "error"}
  /\ {text, eml, message, reply} \subseteq Seq(Byte) /\ todo \in Seq(Seq(Byte))
  /\ quoted \in BOOLEAN /\ commands \in 0 .. MaxCommands

\* A line that does not fit into the buffer goes past it, and write_direct says
\* how much of it was written: the sender does not look.
NoLongLine ==
  LET writes == DataWrites(message, quoted) IN
  \A i \in 1 .. Len(writes) : Len(writes[i]) <= BufferSize

\* A message without the newlines, CRLF or LF, at its end.
Closed(m) ==
  LET kept == {i \in 1 .. Len(m) :
                 m[i] # LF /\ ~(m[i] = CR /\ i < Len(m) /\ m[i + 1] = LF)} IN
  SubSeq(m, 1, Max({0} \cup kept))

\* The server has got all of the message, and nothing more: for SMTP as a text that
\* ends, without an empty line at its end, for IMAP as a literal of the announced size.
GotMessage ==
  IF quoted
  THEN /\ TextEnds(wire) = {Len(wire) - 2}
       /\ TextReceived(wire) = Canonical(Closed(eml)) \o CRLF
  ELSE /\ wire = Canonical(eml) \o CRLF
       /\ DataCrlfSize(message) = Len(Canonical(eml))

\* A send that succeeds has handed the whole message of its caller to the network,
\* whatever line ends and dots it is made of and however the network cut its writes.
OkMeansSent == result = "ok" /\ NoLongLine => GotMessage

\* The text never ends before the message does, also when the send fails anywhere
\* and other commands follow on the same stream: no server accepts a part of a
\* message for the whole.
NeverEndsEarly ==
  pc # "typing" /\ quoted /\ NoLongLine /\ TextEnds(wire) # {} =>
    TextReceived(wire) = Canonical(Closed(eml)) \o CRLF

\* The text without the line ends at its end.
Trimmed(t) ==
  LET inked == {i \in 1 .. Len(t) : t[i] \notin {CR, LF}} IN
  IF inked = {} THEN <<>> ELSE SubSeq(t, 1, Max(inked))

\* What a user reads is what the user has typed, apart from empty lines at the end
\* and the kind of the line ends: the encoding that the header names, undone on
\* what the server has received, gives the lines of the body.
SameLinesArrive ==
  result = "ok" /\ eml = Compose(text) =>
    LET received == IF quoted THEN TextReceived(wire) ELSE wire
        body == Drop(received, 5)
        size == Base64Length(BytesOf(Normalized(text))) IN
    IF received[1] = HeaderOf("7bit")
    THEN IsAscii(body) /\ Trimmed(Canonical(body)) = Trimmed(Canonical(text))
    ELSE /\ Unbroken(body) = [i \in 1 .. size |-> Base64Char(i)]
         /\ Canonical(Normalized(text)) = Canonical(text)

HeaderLines(header) ==
  LET breaks == {0, Len(header) + 1} \cup {i \in 1 .. Len(header) : header[i] = Break} IN
  {SubSeq(header, i + 1, Min({j \in breaks : j > i}) - 1) : i \in breaks \ {Len(header) + 1}}

\* No line is too long.  One of a composed body is what an SMTP server must take, and,
\* as base64 is cut, what fits into the buffer.  A folded header line keeps the width,
\* but for one token that is too long for any.  And no header line is blank, which
\* would end the header, as long as no two spaces follow each other.
LinesFit ==
  pc = "typing" =>
    LET writes == DataWrites(Encode(text).body, FALSE)
        value == Sanitized(text)
        pieces == EncodeIfNeeded(value)
        longest == Max({Count(Tokens(pieces)[i]) : i \in 1 .. Len(Tokens(pieces))}) IN
    /\ \A i \in 1 .. Len(writes) :
         Len(Unbroken(writes[i])) <= LineLimit
    /\ \A name \in {Chars(n) : n \in HeaderNames} :
         \A l \in HeaderLines(Fold(name, pieces)) :
           /\ Count(l) <= Max({FoldWidth, Count(name) + 1 + longest})
           /\ \/ \E i \in 1 .. Len(l) : l[i] # Space
              \/ \E i \in 1 .. Len(value) - 1 : value[i] = SP /\ value[i + 1] = SP

\* encodedWord splits a text "so no single word exceeds 75 characters".
WordsFit ==
  pc = "typing" =>
    LET pieces == EncodeIfNeeded(Sanitized(text)) IN
    \A i \in 1 .. Len(pieces) : pieces[i].kind = "word" => pieces[i].width <= WordLimit

\* The lines that are read are the lines of the reply, in order and whole, however
\* the network cut it; only the end of the connection ends a line without a LF.
RepliesInOrder ==
  /\ IsPrefix(FlattenSeq(got), reply)
  /\ \A i \in 1 .. Len(got) :
       /\ \A j \in 1 .. Len(got[i]) - 1 : got[i][j] # LF
       /\ (got[i] # <<>> /\ Last(got[i]) = LF) \/ ~open
=============================================================================
