--------------------------- MODULE MCDecodeBundle ----------------------------
(***************************************************************************)
(* A small instance of DecodeBundle: 6-bit integers, KiB = 2, and every    *)
(* file of up to three stream keywords, and some of five.                  *)
(***************************************************************************)
EXTENDS DecodeBundle

Zlib(b, n) == [bytes |-> b, nulls |-> n, bounded |-> TRUE]
Hex(b, n)  == [bytes |-> b, nulls |-> n, bounded |-> FALSE]

\* Plain text, one stream with NULs, hex around zlib, three levels, a bomb.
Bodies == {<< >>, <<Zlib(2, 2)>>, <<Hex(3, 1), Zlib(4, 1)>>,
           <<Zlib(1, 0), Zlib(2, 0), Hex(1, 0)>>, <<Zlib(30, 1)>>}

\* A keyword is two bytes here, and a file holds NULs besides.
FileOf(t, n) == [bytes |-> 2 * Len(t) + n, nulls |-> n, tokens |-> t]

Starts(layers) == [opens |-> TRUE, layers |-> layers]
End == [opens |-> FALSE, layers |-> << >>]

MCTokens == {Starts(b) : b \in Bodies} \cup {End}

\* Three streams one after the other need five keywords.
MCFiles ==
  {FileOf(t, n) : t \in UNION {[1..k -> MCTokens] : k \in 0..3}, n \in {0, 3}}
    \cup {FileOf(<<Starts(a), End, Starts(b), End, Starts(c)>>, 0) :
            a, b, c \in {<< >>, <<Zlib(2, 2)>>, <<Zlib(30, 1)>>}}

\* Unset, negative, small, at and over the ceiling, and 16G = 128, which is 0.
MCSettings ==
  {[number |-> n, unit |-> u] : n \in {0, -1, 7, 31}, u \in {""}} \cup
  {[number |-> 16, unit |-> "G"], [number |-> 5, unit |-> "K"],
   [number |-> 9, unit |-> "M"], [number |-> 2, unit |-> "K"]}
=============================================================================
