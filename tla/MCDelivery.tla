----------------------------- MODULE MCDelivery -----------------------------
(* Values of Delivery's constants for TLC. *)
EXTENDS Delivery

a == 97
eAcute == 233
Family == 8000   \* one character of many bytes

Characters == {CR, LF, DOT, SP, QUOTE, BACKSLASH, a, eAcute, Family}
RawCharacters == {CR, LF, DOT, a}
AllBytes == Characters \cup {LESS, Verb, Hyphen, 50, 7, 64} \cup {Base64Char(i) : i \in 1 .. 40}

Utf8Length(c) == IF c = eAcute THEN 2 ELSE IF c = Family THEN 5 ELSE 1

\* A line longer than the buffer, and a message of two lines.
LongMessages == {<<DOT, a, a, a, a, a, a, a>>, <<a, LF, DOT, CR, LF, a>>}

ShortAndLong == {<<84, 58>>, <<83, 117, 98, 58>>}

SomeReplies == {<<50, CR, LF>>, <<Hyphen, CR, LF, 50, LF>>, <<Hyphen, 50>>}
=============================================================================
