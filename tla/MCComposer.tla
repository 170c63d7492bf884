----------------------------- MODULE MCComposer -----------------------------
(* Values of Composer's constants for TLC. *)
EXTENDS Composer

a == 97
eAcute == 233

Typed == {LF, SP, COMMA, QUOTE, BACKSLASH, Hyphen, a, eAcute}

Utf8Length(c) == IF c = eAcute THEN 2 ELSE 1

\* One that a text may contain, and two that are drawn.
Boundaries == {<<a>>, <<901, 902>>, <<903, 904>>}
=============================================================================
