------------------------------ MODULE Composer ------------------------------
(***************************************************************************)
(* A message of Sources/MailPacket/EML.swift from its parts: the fields of *)
(* the struct, which init sets and a caller may assign, the header and the *)
(* parts that eml() makes of them with a boundary that is in neither part, *)
(* and the recipients of the envelope.  And the message as a reader takes  *)
(* it apart again (RFC 5322, RFC 2046).                                    *)
(*                                                                         *)
(* A message is a sequence of pieces (module Eml): the line breaks of its  *)
(* header are breaks, its body is characters.                              *)
(***************************************************************************)
EXTENDS Eml

CONSTANTS
  Character,  \* of the text that a user types
  Boundary,   \* what generateBoundary draws, or a caller assigns
  MaxText     \* bound: the length of the text

\* generateBoundary draws a prefix and a UUID; eml() does not look at a boundary that a
\* caller assigns, which is taken to be one that RFC 2046 allows: some text of a line.
ASSUME ComposerAssumption ==
  /\ Character \subseteq Nat /\ \A c \in Character \cup {CR, LF, SP} : Bytes(c) \in Nat
  /\ \A b \in Boundary : b # <<>> /\ b \in Seq(Nat \ {CR, LF})

VARIABLES
  text,   \* what the user has typed; names, subject and bodies are taken from it
  eml,    \* the struct, in a sequence of one once it has been made
  output  \* what eml() has returned, <<>> before

vars == <<text, eml, output>>

Hyphen == 45
COLON == 58

\* The names of the fields, what stands for values without characters of interest,
\* and the parts' types: characters that a user does not type.
DATE == 601
FROM == 602
TO == 603
CC == 604
REPLYTO == 605
SUBJECT == 606
MESSAGEID == 607
INREPLYTO == 608
REFERENCES == 609
USERAGENT == 610
EXTRA == 611
MIMEVERSION == 612
CONTENTTYPE == 613
ENCODING == 614
VALUE == 620
MULTIPART == 621
PLAIN == 622
HTML == 623
PREAMBLE == 624
Id(i) == 630 + i
Sender == 700

----------------------------------------------------------------------------
(***************************************************************************)
(* The struct.                                                             *)
(***************************************************************************)

\* EML.Address.init: no name, or one without line ends.
Address(name, email) ==
  [named |-> name # <<>>, name |-> Sanitized(name), email |-> email]

\* recipients: the envelope.  The mutant forgets Cc.
RecipientsWithoutCc(m) == {a.email : a \in ToSet(m.to \o m.bcc)}
Recipients(m) == {a.email : a \in ToSet(m.to \o m.cc \o m.bcc)}

----------------------------------------------------------------------------
(***************************************************************************)
(* eml().                                                                  *)
(***************************************************************************)
Line(field, value) == Fold(Chars(<<field, COLON>>), value)
LineIf(condition, field, value) == IF condition THEN <<Line(field, value)>> ELSE <<>>

\* The header up to the content; optional fields are left out, and Bcc always is.
AddressLines(m) ==
  LineIf(m.to # <<>>, TO, FormatAddresses(m.to))
    \o LineIf(m.cc # <<>>, CC, FormatAddresses(m.cc))
    \o LineIf(m.replyTo # <<>>, REPLYTO, FormatAddresses(m.replyTo))

JoinedIds(n) ==
  FlattenSeq([i \in 1 .. n |-> (IF i = 1 THEN <<>> ELSE <<Space>>) \o Chars(<<Id(i)>>)])

HeaderLines(m) ==
  <<Line(DATE, Chars(<<VALUE>>)), Line(FROM, FormatAddresses(<<m.from>>))>>
    \o AddressLines(m)
    \o <<Line(SUBJECT, EncodeIfNeeded(m.subject)), Line(MESSAGEID, Chars(<<VALUE>>))>>
    \o LineIf(m.inReplyTo, INREPLYTO, Chars(<<Id(1)>>))
    \o LineIf(m.references > 0, REFERENCES, JoinedIds(m.references))
    \o [i \in 1 .. Len(m.userAgent) |-> Line(USERAGENT, EncodeIfNeeded(m.userAgent[i]))]
    \o [i \in 1 .. Len(m.extraHeaders) |-> Line(EXTRA, EncodeIfNeeded(m.extraHeaders[i]))]

\* These lines are not folded.
Plainly(field, value) == Chars(<<field, COLON, SP>> \o value)

Joined(lines) ==
  FlattenSeq([i \in 1 .. Len(lines) |-> IF i = 1 THEN lines[i] ELSE <<Break>> \o lines[i]])

\* contains(boundary).
From(s, i) == SubSeq(s, i, Len(s))
HasBoundary(body, boundary) ==
  \E i \in 1 .. Len(body) : IsPrefix(boundary, From(body, i))

\* The boundary has to be in neither part.  The mutant looks at the first.
CollidesWithPlain(m, boundary) == HasBoundary(Encode(m.body).body, boundary)
Collides(m, boundary) ==
  HasBoundary(Encode(m.body).body, boundary) \/ HasBoundary(Encode(m.html[1]).body, boundary)

\* The boundaries that the while loop may end with: the struct's own, or one that
\* generateBoundary has drawn, after any others.
Usable(m) ==
  IF ~Collides(m, m.boundary) THEN {m.boundary} ELSE {b \in Boundary : ~Collides(m, b)}

\* A part: its type, its encoding, an empty line and its body.
Part(type, body) ==
  LET encoded == Encode(body) IN
  <<type>> \o CRLF \o <<HeaderOf(encoded.encoding)>> \o CRLF \o CRLF \o encoded.body

Delimiter(boundary) == CRLF \o <<Hyphen, Hyphen>> \o boundary

Alternative(m, boundary) ==
  <<PREAMBLE>> \o CRLF
    \o Delimiter(boundary) \o CRLF \o Part(PLAIN, m.body)
    \o Delimiter(boundary) \o CRLF \o Part(HTML, m.html[1])
    \o Delimiter(boundary) \o <<Hyphen, Hyphen>> \o CRLF

\* eml() with one part, or with two and a boundary.
Single(m) ==
  LET encoded == Encode(m.body) IN
  Joined(HeaderLines(m) \o <<Plainly(MIMEVERSION, <<VALUE>>), Plainly(CONTENTTYPE, <<PLAIN>>),
                             Plainly(ENCODING, <<HeaderOf(encoded.encoding)>>)>>)
    \o <<Break, Break>> \o Chars(encoded.body)
Multipart(m, boundary) ==
  Joined(HeaderLines(m) \o <<Plainly(MIMEVERSION, <<VALUE>>),
                             Plainly(CONTENTTYPE, <<MULTIPART>> \o boundary)>>)
    \o <<Break, Break>> \o Chars(Alternative(m, boundary))

----------------------------------------------------------------------------
(***************************************************************************)
(* A caller.                                                               *)
(***************************************************************************)
Init == text = <<>> /\ eml = <<>> /\ output = <<>>

Type(c) ==
  /\ eml = <<>> /\ Len(text) < MaxText
  /\ text' = Append(text, c)
  /\ UNCHANGED <<eml, output>>

\* EML.init: the text is cut in two, and everything is named after its halves, with
\* no, one or two addresses in each field.  The first Bcc is the second recipient, too.
Make(i, many, optional, boundary) ==
  LET first == SubSeq(text, 1, i)
      second == SubSeq(text, i + 1, Len(text))
      upTo(n, addresses) == SubSeq(addresses, 1, n) IN
  /\ eml = <<>>
  /\ eml' = <<[from |-> Address(first, Sender),
               to |-> upTo(many, <<Address(first, 701), Address(second, 702)>>),
               cc |-> upTo(many - 1, <<Address(second, 703)>>),
               bcc |-> upTo(2 - many, <<Address(second, 702), Address(first, 704)>>),
               replyTo |-> upTo(many - 1, <<Address(first, 705)>>),
               subject |-> Sanitized(text),
               body |-> second, html |-> <<>>,
               inReplyTo |-> optional, references |-> IF optional THEN 2 ELSE 0,
               userAgent |-> IF optional THEN <<Sanitized(first)>> ELSE <<>>,
               extraHeaders |-> IF optional THEN <<Sanitized(second), Sanitized(first)>> ELSE <<>>,
               boundary |-> boundary]>>
  /\ UNCHANGED <<text, output>>

\* html is a variable of the struct.
AssignHtml ==
  /\ eml # <<>> /\ eml[1].html = <<>>
  /\ eml' = <<[eml[1] EXCEPT !.html = <<text>>]>>
  /\ output' = <<>>
  /\ UNCHANGED text

\* One call of eml().
CallEml ==
  /\ eml # <<>>
  /\ IF eml[1].html = <<>> THEN output' = Single(eml[1])
     ELSE \E boundary \in Usable(eml[1]) : output' = Multipart(eml[1], boundary)
  /\ UNCHANGED <<text, eml>>

Next ==
  \/ \E c \in Character : Type(c)
  \/ \E i \in 0 .. Len(text), many \in 0 .. 2, optional \in BOOLEAN, boundary \in Boundary :
       Make(i, many, optional, boundary)
  \/ AssignHtml
  \/ CallEml

Spec == Init /\ [][Next]_vars

----------------------------------------------------------------------------
(***************************************************************************)
(* The reader.                                                             *)
(***************************************************************************)

\* Some places in their order.
Ordered(n, places) == FlattenSeq([i \in 1 .. n |-> IF i \in places THEN <<i>> ELSE <<>>])

\* The header ends at the first empty line, its fields at breaks that no space follows.
HeaderEnd(message) ==
  Min({i \in 1 .. Len(message) - 1 : message[i] = Break /\ message[i + 1] = Break})
HeaderRead(message) ==
  LET end == HeaderEnd(message)
      starts == Ordered(end - 1, {i \in 1 .. end - 1 :
                                    i = 1 \/ (message[i - 1] = Break /\ message[i] # Space)})
      next == Append(Tail(starts), end + 1)
  IN [k \in 1 .. Len(starts) |-> [field |-> message[starts[k]].text[1],
                                  value |-> SubSeq(message, starts[k] + 3, next[k] - 2)]]
BodyRead(message) ==
  LET body == From(message, HeaderEnd(message) + 2) IN [i \in 1 .. Len(body) |-> body[i].text[1]]

\* A list of addresses: a comma outside quotes starts the next one.
AddressesRead(pieces) ==
  LET inked(list) == LET ink == {i \in 1 .. Len(list) : list[i] \notin {Space, Break}} IN
                     IF ink = {} THEN <<>> ELSE SubSeq(list, Min(ink), Len(list))
      step(acc, p) ==
        IF p = Char(COMMA) /\ ~acc.quoted THEN [acc EXCEPT !.list = Append(@, <<>>)]
        ELSE [quoted |-> IF p = Char(QUOTE) /\ ~acc.escaped THEN ~acc.quoted ELSE acc.quoted,
              escaped |-> acc.quoted /\ p = Char(BACKSLASH) /\ ~acc.escaped,
              list |-> Front(acc.list) \o <<Append(Last(acc.list), p)>>]
      list == FoldLeft(step, [quoted |-> FALSE, escaped |-> FALSE, list |-> <<<<>>>>], pieces).list
  IN [i \in 1 .. Len(list) |-> ReadAddress(inked(list[i]))]

\* RFC 2046: a delimiter starts a line, the one that ends in two hyphens is the last.
Delimiters(body, boundary) ==
  Ordered(Len(body), {i \in 1 .. Len(body) :
                        /\ StartsLine(body, i)
                        /\ IsPrefix(<<Hyphen, Hyphen>> \o boundary, From(body, i))})
Closes(body, boundary, i) ==
  IsPrefix(<<Hyphen, Hyphen>>, From(body, i + 2 + Len(boundary)))
PartsRead(body, boundary) ==
  LET at == Delimiters(body, boundary)
      last == Min({k \in 1 .. Len(at) : Closes(body, boundary, at[k])}) IN
  [k \in 1 .. last - 1 |-> SubSeq(body, at[k] + 4 + Len(boundary), at[k + 1] - 3)]

----------------------------------------------------------------------------
(***************************************************************************)
(* Properties.                                                             *)
(***************************************************************************)

Entry(field, value) == [field |-> field, value |-> value]
EntryIf(condition, field, value) == IF condition THEN <<Entry(field, value)>> ELSE <<>>
NamesOf(addresses) ==
  [i \in 1 .. Len(addresses) |-> [name |-> addresses[i].name, email |-> addresses[i].email]]

\* The header of a message reads as the struct it was made of: each field that is set,
\* once and in its order, each name with its own address, whatever line ends, commas,
\* quotes and long characters are in them, and however the lines were folded.  No line
\* ends in it but at the breaks.
HeaderReadsAsComposed ==
  output # <<>> =>
    LET m == eml[1]
        fields == HeaderRead(output)
        ends == UNION {ToSet(output[i].text) : i \in 1 .. HeaderEnd(output)} \cap {CR, LF}
        isList(f) == f \in {FROM, TO, CC, REPLYTO}
        read == [k \in 1 .. Len(fields) |->
                   Entry(fields[k].field, IF isList(fields[k].field) THEN AddressesRead(fields[k].value)
                                          ELSE ReadValue(fields[k].value))]
        list(f, addresses) == EntryIf(addresses # <<>>, f, NamesOf(addresses)) IN
    ends = {} /\ SubSeq(read, 1, Len(read) - (IF m.html = <<>> THEN 3 ELSE 2)) =
      <<Entry(DATE, <<VALUE>>)>>
        \o list(FROM, <<m.from>>) \o list(TO, m.to) \o list(CC, m.cc) \o list(REPLYTO, m.replyTo)
        \o <<Entry(SUBJECT, m.subject), Entry(MESSAGEID, <<VALUE>>)>>
        \o EntryIf(m.inReplyTo, INREPLYTO, <<Id(1)>>)
        \o EntryIf(m.references > 0, REFERENCES, <<Id(1), SP, Id(2)>>)
        \o [i \in 1 .. Len(m.userAgent) |-> Entry(USERAGENT, m.userAgent[i])]
        \o [i \in 1 .. Len(m.extraHeaders) |-> Entry(EXTRA, m.extraHeaders[i])]

\* A reader finds in the body what the struct has: one part, or the text and the HTML
\* in this order, whole and each with its encoding, though either may have a line that
\* looks like a delimiter.
PartsReadAsComposed ==
  output # <<>> =>
    LET m == eml[1]
        fields == HeaderRead(output)
        type == ReadValue(Last(fields).value)
        body == BodyRead(output) IN
    IF m.html = <<>>
    THEN <<PLAIN>> \o CRLF \o type \o CRLF \o CRLF \o body = Part(PLAIN, m.body)
    ELSE PartsRead(body, Tail(type)) = <<Part(PLAIN, m.body), Part(HTML, m.html[1])>>

\* The envelope has every address that the header shows, and nobody who is in Bcc only
\* can be found in the message.
EnvelopeMatchesHeader ==
  output # <<>> =>
    LET m == eml[1]
        fields == HeaderRead(output)
        shown == UNION {{a.email : a \in ToSet(AddressesRead(f.value))} :
                          f \in {g \in ToSet(fields) : g.field \in {TO, CC}}}
        blind == {a.email : a \in ToSet(m.bcc)} IN
    /\ Recipients(m) = shown \cup blind
    /\ \A p \in ToSet(output) : \A i \in 1 .. Len(p.text) :
         p.text[i] \notin blind \ {a.email : a \in ToSet(m.to \o m.cc)}
=============================================================================
