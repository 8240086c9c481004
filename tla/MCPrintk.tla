------------------------------ MODULE MCPrintk ------------------------------
(* A buffer of four octets, so that a text can fit, just not fit, end with  *)
(* a character of several octets that does not fit, or hold a zero.         *)
EXTENDS Printk, TLC

P == INSTANCE PrintfText WITH ZeroPrefix <- FALSE

MCBits == [q \in {"H", "h", "", "l", "L"} |->
               CASE q = "H" -> 2 [] q = "h" -> 3 [] q = "" -> 4 [] q = "l" -> 5 [] q = "L" -> 6]
MCUtf8 == (<<"20AC">> :> <<"E2", "82", "AC">>) @@ (<<"FFFD">> :> <<"EF", "BF", "BD">>)

\* The words of a level before a format.
Written(level) == IF level = "" THEN <<>> ELSE <<"SOH", level>>
Number(level) == CASE level = "3" -> 3 [] level = "7" -> 7 [] OTHER -> -1

\* A level that is none is part of the text.
Message(level, parts) ==
    LET head == IF level = "8" THEN <<<<"SOH">>, <<"8">>>> ELSE <<>>
    IN  [level |-> Number(level), fmt |-> Written(level) \o P!Format(parts),
         args |-> P!Passed(parts), meant |-> head \o P!Meant(parts)]

Of(conv, qual, arg) == P!Dir(<<>>, P!Without, P!Without, qual, conv, arg)
Str(s) == Of("s", <<>>, [str |-> s])
A == P!Char("a")

MCMessages ==
    {Message(level, <<A>>) : level \in {"", "3", "7", "c", "8"}}
      \cup {Message("3", <<A, Str(<<"b", "c">>), A>>), Message("", <<A, Of("s", <<"l">>, [str |-> <<"20AC">>])>>),
            Message("", <<A, Of("c", <<>>, [chr |-> ""]), A>>)}

MCReport == <<Message("", <<Str(<<"f", ".", "c", "c">>)>>), Message("", <<Of("d", <<>>, [num |-> -7])>>)>>
MCTruncated == <<"[", "]">>
MCStub == <<"E">>
=============================================================================
