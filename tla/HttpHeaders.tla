---------------------------- MODULE HttpHeaders ----------------------------
(***************************************************************************)
(* What the lines of a client of HttpServer say when the headers among     *)
(* them are written as in the example of HttpContext.cpp.                  *)
(***************************************************************************)
EXTENDS HttpServer, SequencesExt

Documented == [t \in {"colon"} |-> "close"]

\* What the first k lines say when headers are written as they are documented.
SaidAsDocumented(k) == FoldLeft(LAMBDA s, line : Read(s, line.text, Documented), Silence,
                                SubSeq(lines, 1, k))

\* The example request above processRequestLine has header lines with a colon: they are read as
\* headers (parseRequest).
HeadersAsDocumented == \E k \in Arrived : calls = SaidAsDocumented(k).requests
=============================================================================
