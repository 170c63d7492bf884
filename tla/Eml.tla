-------------------------------- MODULE Eml --------------------------------
(***************************************************************************)
(* The composer of messages (Sources/MailPacket/EML.swift): how it encodes *)
(* a body, and how it encodes and folds a header, so that any text gets    *)
(* through lines of limited length.                                        *)
(*                                                                         *)
(* A text is a sequence of characters.  What is left of one after base64   *)
(* is the number of its bytes.                                             *)
(***************************************************************************)
EXTENDS DataText

CONSTANTS
  FoldWidth,    \* the width a header line should keep: 78
  WordBytes,    \* the bytes an encoded word may hold: 45
  WordOverhead, \* the characters of an encoded word without its text: 12
  LineLimit,    \* the length no line of a body may exceed: 998
  Base64Line,   \* the length of the lines of base64: 76
  Bytes(_)      \* the length of a character in UTF-8

ASSUME EmlAssumption ==
  /\ {FoldWidth, WordBytes, WordOverhead, LineLimit, Base64Line} \subseteq Nat \ {0}
  /\ Base64Line <= LineLimit

SP == 32
QUOTE == 34
COMMA == 44
BACKSLASH == 92
LESS == 60
IsAscii(text) == \A i \in 1 .. Len(text) : text[i] < 128
BytesOf(text) == FoldLeft(LAMBDA sum, c : sum + Bytes(c), 0, text)
Base64Length(n) == 4 * ((n + 2) \div 3)

----------------------------------------------------------------------------
(***************************************************************************)
(* Bodies.                                                                 *)
(***************************************************************************)

\* The line ends CRLF and LF become CRLF.
Normalized(body) ==
  FlattenSeq([i \in 1 .. Len(body) |->
    IF body[i] = LF THEN CRLF
    ELSE IF body[i] = CR /\ i < Len(body) /\ body[i + 1] = LF THEN <<>> ELSE <<body[i]>>])

\* The length of the longest line: CR does not count, and only LF ends a line.
LongestLine(text) ==
  FoldLeft(LAMBDA acc, c :
             IF c = LF THEN [acc EXCEPT !.current = 0]
             ELSE IF c = CR THEN acc
             ELSE [current |-> acc.current + 1, longest |-> Max({acc.longest, acc.current + 1})],
           [current |-> 0, longest |-> 0], text).longest

\* The i-th character of the base64 text of a body.
Base64Char(i) == 1000 + i

\* The mutant looks at the lines only.
FitsIfShort(text) == LongestLine(text) <= LineLimit
Fits(text) == IsAscii(text) /\ LongestLine(text) <= LineLimit

\* encode(body:): as it is, with CRLF at its end, if its characters and its lines
\* allow it, else base64 in short lines.
Encode(body) ==
  LET text == Normalized(body)
      length == Base64Length(BytesOf(text)) IN
  IF Fits(text)
  THEN [encoding |-> "7bit", body |-> IF IsSuffix(CRLF, text) THEN text ELSE text \o CRLF]
  ELSE [encoding |-> "base64",
        body |-> FlattenSeq([i \in 1 .. length |->
                   IF i % Base64Line = 0 /\ i < length THEN <<Base64Char(i)>> \o CRLF
                   ELSE <<Base64Char(i)>>]) \o CRLF]

\* eml(), without an HTML part: the header, here one character that names the
\* encoding, an empty line and the body.
HeaderOf(encoding) == IF encoding = "7bit" THEN 7 ELSE 64
Compose(body) ==
  LET encoded == Encode(body) IN
  <<HeaderOf(encoded.encoding)>> \o CRLF \o CRLF \o encoded.body

----------------------------------------------------------------------------
(***************************************************************************)
(* Headers.  A value is a sequence of pieces: characters, encoded words    *)
(* and line breaks, each with the columns it takes up.                     *)
(***************************************************************************)
Char(c) == [kind |-> "char", text |-> <<c>>, width |-> 1]
Word(text) ==
  [kind |-> "word", text |-> text, width |-> WordOverhead + Base64Length(BytesOf(text))]
\* "\r\n" is one Character in Swift.
Break == [kind |-> "break", text |-> <<>>, width |-> 1]
Space == Char(SP)

Chars(text) == [i \in 1 .. Len(text) |-> Char(text[i])]
Count(pieces) == FoldLeft(LAMBDA sum, p : sum + p.width, 0, pieces)

\* sanitize: line ends become spaces, spaces at both ends go.
Sanitized(text) ==
  LET flat == FlattenSeq([i \in 1 .. Len(text) |->
                IF text[i] = CR /\ i < Len(text) /\ text[i + 1] = LF THEN <<>>
                ELSE IF text[i] \in {CR, LF} THEN <<SP>> ELSE <<text[i]>>])
      inked == {i \in 1 .. Len(flat) : flat[i] # SP} IN
  IF inked = {} THEN <<>> ELSE SubSeq(flat, Min(inked), Max(inked))

\* encodedWord: chunks of WordBytes at most, unless one character is longer; a
\* first character that is makes an empty first chunk.
Chunks(text) ==
  LET step(acc, c) ==
        IF BytesOf(acc.chunk) + Bytes(c) > WordBytes
        THEN [words |-> Append(acc.words, acc.chunk), chunk |-> <<c>>]
        ELSE [acc EXCEPT !.chunk = Append(@, c)]
      end == FoldLeft(step, [words |-> <<>>, chunk |-> <<>>], text) IN
  IF end.chunk = <<>> THEN end.words ELSE Append(end.words, end.chunk)
EncodedWord(text) ==
  LET chunks == Chunks(text) IN
  FlattenSeq([i \in 1 .. Len(chunks) |->
    IF i = 1 THEN <<Word(chunks[i])>> ELSE <<Break, Space, Word(chunks[i])>>])

EncodeIfNeeded(text) == IF IsAscii(text) THEN Chars(text) ELSE EncodedWord(text)

\* format(address:): the display name is encoded, quoted or taken as it is.  An
\* address is one character that stands for "<address>"; it is alone where there is
\* no name.  The mutant forgets the comma.
SpecialsNoComma == {DOT, QUOTE, BACKSLASH}
Specials == {COMMA, DOT, QUOTE, BACKSLASH}
Quoted(name) ==
  <<QUOTE>> \o FlattenSeq([i \in 1 .. Len(name) |->
     IF name[i] \in {QUOTE, BACKSLASH} THEN <<BACKSLASH, name[i]>> ELSE <<name[i]>>]) \o <<QUOTE>>
Phrase(name) ==
  IF ~IsAscii(name) THEN EncodedWord(name)
  ELSE IF \E i \in 1 .. Len(name) : name[i] \in Specials THEN Chars(Quoted(name))
  ELSE Chars(name)
FormatAddress(address) ==
  (IF address.named THEN Append(Phrase(address.name), Space) ELSE <<>>) \o Chars(<<address.email>>)

\* format(addresses:).
FormatAddresses(addresses) ==
  FlattenSeq([i \in 1 .. Len(addresses) |->
    (IF i = 1 THEN <<>> ELSE <<Char(COMMA), Space>>) \o FormatAddress(addresses[i])])

\* components(separatedBy: " ").
Tokens(pieces) ==
  LET step(acc, p) == IF p = Space THEN Append(acc, <<>>)
                      ELSE Front(acc) \o <<Append(Last(acc), p)>>
  IN FoldLeft(step, <<<<>>>>, pieces)

\* The columns of the last line of a header.
LastLine(pieces) ==
  LET breaks == {i \in 1 .. Len(pieces) : pieces[i] = Break} IN
  IF breaks = {} THEN pieces ELSE SubSeq(pieces, Max(breaks) + 1, Len(pieces))

\* fold: a token that does not fit goes to a new line, unless there is next to
\* nothing on this one.  The mutant forgets the space before the token.
StartsNewLineLate(name, length, token) ==
  length + Count(token) > FoldWidth /\ length > Count(name)
StartsNewLine(name, length, token) ==
  length + Count(token) + 1 > FoldWidth /\ length > Count(name)

Fold(name, value) ==
  LET step(result, token) ==
        IF StartsNewLine(name, Count(LastLine(result)), token)
        THEN result \o <<Break, Space>> \o token
        ELSE result \o <<Space>> \o token
  IN FoldLeft(step, name, Tokens(value))

----------------------------------------------------------------------------
(***************************************************************************)
(* The reader of a header (RFC 5322 and RFC 2047).                         *)
(***************************************************************************)

\* Unfold a value, and leave out the space between encoded words.
ReadValue(pieces) ==
  LET unfolded == FlattenSeq([i \in 1 .. Len(pieces) |->
                    IF pieces[i] = Break THEN <<>> ELSE <<pieces[i]>>]) IN
  FlattenSeq([i \in 1 .. Len(unfolded) |->
    IF /\ unfolded[i] = Space /\ i > 1 /\ i < Len(unfolded)
       /\ unfolded[i - 1].kind = "word" /\ unfolded[i + 1].kind = "word"
    THEN <<>> ELSE unfolded[i].text])

\* A quoted string ends at the first quote that is not escaped.
Unquoted(t) ==
  FoldLeft(LAMBDA acc, c :
             IF acc.closed THEN acc
             ELSE IF acc.escaped THEN [acc EXCEPT !.escaped = FALSE, !.name = Append(@, c)]
             ELSE IF c = BACKSLASH THEN [acc EXCEPT !.escaped = TRUE]
             ELSE IF c = QUOTE THEN [acc EXCEPT !.closed = TRUE]
             ELSE [acc EXCEPT !.name = Append(@, c)],
           [escaped |-> FALSE, closed |-> FALSE, name |-> <<>>], t).name

\* One address: its display name, if any, and itself.
ReadAddress(pieces) ==
  LET display == ReadValue(Front(pieces)) IN
  IF pieces = <<>> THEN [name |-> <<>>, email |-> 0] ELSE
  [name  |-> IF display = <<>> THEN <<>>
             ELSE IF Head(display) = QUOTE /\ pieces[1] = Char(QUOTE) THEN Unquoted(Tail(display))
             ELSE Front(display),
   email |-> Last(pieces).text[1]]
=============================================================================
