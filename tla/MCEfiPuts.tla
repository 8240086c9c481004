----------------------------- MODULE MCEfiPuts -----------------------------
(* Texts and octets at the edges of every length of encoding.              *)
EXTENDS EfiPuts

UpTo(n, S) == UNION {[1 .. k -> S] : k \in 0 .. n}

\* Both ends of what one, two, three and four octets encode, and a line feed.
MCTexts == UpTo(4, {10, 127, 128, 2047, 2048, 57344, 65536, 1114111})

\* U+1D800, a sign of SignWriting, alone and after a letter.
MCSigns == {<<120832>>, <<97, 120832>>}

\* Leads of two, three, four and five octets, the ends of the trailing ones, a letter.
MCStrays == UpTo(4, {97, 128, 191, 192, 224, 237, 240, 244, 255})

MCNone == {}
=============================================================================
