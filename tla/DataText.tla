------------------------------ MODULE DataText ------------------------------
(***************************************************************************)
(* The text of a message as it is sent (data-types/mailstream_helper.c):   *)
(* cut into lines, with the line ends set right and, for SMTP, the dots    *)
(* doubled and the end marked.  And the same text as a server reads it.    *)
(***************************************************************************)
EXTENDS Integers, Sequences, FiniteSetsExt, SequencesExt

CR == 13
LF == 10
DOT == 46
CRLF == <<CR, LF>>

----------------------------------------------------------------------------
(***************************************************************************)
(* The sender.                                                             *)
(***************************************************************************)

\* send_data_line: how much of the text its first line takes up.  CRLF, a lone CR
\* and a lone LF end a line.
LineLength(text) ==
  LET ends == {i \in 1 .. Len(text) : text[i] \in {CR, LF}}
      first == Min(ends) IN
  IF ends = {} THEN Len(text)
  ELSE IF text[first] = CR /\ first < Len(text) /\ text[first + 1] = LF THEN first + 1
  ELSE first

\* send_data_line: the calls of mailstream_write for that line.
LineWrites(text) ==
  LET whole == SubSeq(text, 1, LineLength(text)) IN
  IF IsSuffix(CRLF, whole) \/ Last(whole) \notin {CR, LF} THEN <<whole>>
  ELSE <<Front(whole), CRLF>>

\* send_data_crlf_progress: all calls of mailstream_write for a text, with a dot
\* before a line that starts with one if the text is quoted.
DataWrites(text, quoted) ==
  LET from[i \in 1 .. Len(text) + 1] ==
        IF i > Len(text) THEN <<>>
        ELSE LET rest == SubSeq(text, i, Len(text)) IN
             (IF quoted /\ text[i] = DOT THEN <<<<DOT>>>> ELSE <<>>)
               \o LineWrites(rest) \o from[i + LineLength(rest)]
  IN from[1]

\* mailstream_send_data_progress: the end of a quoted text.
EndOfText == <<CR, LF, DOT, CR, LF>>

\* mailstream_get_data_crlf_size: the size announced for an unquoted text, counted
\* by a loop of its own (get_data_size).
DataCrlfSize(text) ==
  LET from[i \in 1 .. Len(text) + 1] ==
        IF i > Len(text) THEN 0
        ELSE LET length == LineLength(SubSeq(text, i, Len(text)))
                 last == i + length - 1
                 fixed == \/ text[last] = CR
                          \/ (text[last] = LF /\ (length = 1 \/ text[last - 1] # CR)) IN
             length + (IF fixed THEN 1 ELSE 0) + from[last + 1]
  IN from[1]

----------------------------------------------------------------------------
(***************************************************************************)
(* The reader of the text.                                                 *)
(***************************************************************************)

\* The text with every line end written as CRLF.
Canonical(text) ==
  FlattenSeq([i \in 1 .. Len(text) |->
    IF text[i] = CR /\ i < Len(text) /\ text[i + 1] = LF THEN <<>>
    ELSE IF text[i] \in {CR, LF} THEN CRLF ELSE <<text[i]>>])

\* The text without its line ends.
Unbroken(text) ==
  FlattenSeq([i \in 1 .. Len(text) |-> IF text[i] \in {CR, LF} THEN <<>> ELSE <<text[i]>>])

StartsLine(bytes, i) == i = 1 \/ (i > 2 /\ bytes[i - 2] = CR /\ bytes[i - 1] = LF)

\* RFC 5321, 4.5.2: a line that is a dot ends the text, a dot before a line goes.
TextEnds(bytes) ==
  {i \in 1 .. Len(bytes) - 2 : StartsLine(bytes, i) /\ SubSeq(bytes, i, i + 2) = <<DOT>> \o CRLF}
TextReceived(bytes) ==
  LET text == SubSeq(bytes, 1, Min(TextEnds(bytes)) - 1) IN
  FlattenSeq([i \in 1 .. Len(text) |->
    IF text[i] = DOT /\ StartsLine(text, i) THEN <<>> ELSE <<text[i]>>])
=============================================================================
