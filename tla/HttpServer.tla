----------------------------- MODULE HttpServer -----------------------------
(***************************************************************************)
(* HttpServer.cpp and HttpContext.cpp on one connection: the lines of the  *)
(* client arrive in pieces of any size, are put into the Buffer of the     *)
(* connection and parsed, and each message answers at most one request.    *)
(* A byte is CR, LF or a whole text: one of the kinds of line that the     *)
(* parser tells apart.  Paths, other headers and bodies are left out.      *)
(* handleRead takes one step for each round of the loop of parseRequest.   *)
(***************************************************************************)
EXTENDS Buffer, FiniteSetsExt

CONSTANTS
  Texts,       \* the lines the client sends, without their CRLF
  LinesMax     \* bound: how many lines

\* "GET / HTTP/1.1", "GET /?q HTTP/1.0", "GET / HTTP/2.0", "Connection;close",
\* "Connection;Keep-Alive", "Connection: close" and the empty line.
KnownTexts == {"http11", "http10", "http20", "close", "keep", "colon", ""}

ASSUME HttpAssumption ==
  /\ Texts \subseteq KnownTexts /\ LinesMax \in Nat
  /\ (Texts \ {""}) \cup {"CR", "LF"} \subseteq Bytes

VARIABLES
  ctx,        \* the HttpContext: state_ and what matters of request_
  hasMore,    \* hasMore of parseRequest, FALSE outside of it
  connected,  \* state_ = kConnected: neither shutdown() nor closed
  calls,      \* history: the requests given to httpCallback_
  out,        \* history: the answers sent
  fault,      \* the assert in setMethod failed
  wire,       \* bytes of the client that have not been read
  lines,      \* history: the lines of the client
  stream,     \* history: the bytes of the client
  done        \* history: how many lines parseRequest has taken from the buffer

serverVars == <<ctx, hasMore, connected, calls, out, fault, done>>
clientVars == <<lines, stream>>
httpVars == <<buf, content, serverVars, wire, clientVars>>

Versions == {"Unknown", "Http10", "Http11"}

Contexts ==
  [state : {"ExpectRequestLine", "ExpectHeaders", "GotAll"}, method : BOOLEAN,
   version : Versions, query : BOOLEAN, connection : {"", "close", "Keep-Alive"}]

Requests == [version : Versions \ {"Unknown"}, query : BOOLEAN,
             connection : {"", "close", "Keep-Alive"}]

\* What lines say: the requests, whether one is open and what it has said so far, and whether a
\* line that should begin a request did not.
Sayings ==
  {s \in [requests : Seq(Requests), bad : BOOLEAN, open : BOOLEAN,
          request : [version : Versions, query : BOOLEAN,
                     connection : {"", "close", "Keep-Alive"}]] :
     s.open => s.request.version # "Unknown"}

HttpTypeOK ==
  /\ TypeOK
  /\ ctx \in Contexts /\ ctx.state # "GotAll"
  /\ hasMore \in BOOLEAN /\ connected \in BOOLEAN /\ fault \in BOOLEAN
  /\ calls \in Seq(Requests) /\ out \in Seq([status : {"answer", "400"}, close : BOOLEAN])
  /\ wire \in Seq(Bytes) /\ stream \in Seq(Bytes)
  /\ lines \in Seq([text : Texts, end : Nat, said : Sayings])
  /\ done \in 0..Len(lines)

EmptyContext == [state |-> "ExpectRequestLine", method |-> FALSE, version |-> "Unknown",
                 query |-> FALSE, connection |-> ""]

\* The connection is established: onConnection has set the context.
HttpInit ==
  /\ Init
  /\ ctx = EmptyContext /\ hasMore = FALSE /\ connected = TRUE /\ fault = FALSE
  /\ calls = <<>> /\ out = <<>> /\ done = 0
  /\ wire = <<>> /\ lines = <<>> /\ stream = <<>>
-----------------------------------------------------------------------------
(* HttpContext *)

\* Where a CRLF begins in the readable part, and where the first one does.
CRLFs(b) ==
  {i \in b.readerIndex..(b.writerIndex - 2) : b.bytes[i] = "CR" /\ b.bytes[i + 1] = "LF"}

FindCRLF(b) == Min(CRLFs(b))

TextBefore(b, crlf) == IF crlf = b.readerIndex THEN "" ELSE b.bytes[b.readerIndex]

RetrieveUntil(b, end) == Retrieve(b, end - b.readerIndex)

HasSpace(text) == text \in {"http11", "http10", "http20", "colon"}
Method(text)   == text \in {"http11", "http10", "http20"}
Version(text)  == CASE text = "http11" -> "Http11" [] text = "http10" -> "Http10"
                    [] OTHER -> "Unknown"

\* setMethod, setQuery and setVersion, as far as the line is in order.
ProcessRequestLine(c, text) ==
  IF ~HasSpace(text) THEN c
  ELSE [c EXCEPT !.method = Method(text), !.query = @ \/ text = "http10",
                 !.version = IF Version(text) = "Unknown" THEN @ ELSE Version(text)]

\* The value that addHeader stores for the field Connection, by the text of the line.
Separated == [t \in {"close", "keep"} |-> IF t = "close" THEN "close" ELSE "Keep-Alive"]

LineEnd(crlf) == crlf + 2

\* Mutant: method_ is kept.
ResetMethod(c) == [EmptyContext EXCEPT !.query = c.query, !.method = c.method]

\* Mutant: the headers are kept.
ResetHalf(c) == [c EXCEPT !.state = "ExpectRequestLine", !.method = FALSE, !.version = "Unknown"]

\* HttpRequest::swap leaves query_ out.
Reset(c) == [EmptyContext EXCEPT !.query = c.query]
-----------------------------------------------------------------------------
(* HttpServer *)

\* Mutant: answers are sent whatever the state of the connection.
SendAnyhow(answer) == out' = Append(out, answer)

Send(answer) == out' = IF connected THEN Append(out, answer) ELSE out

\* Should the server close after its answer to request r?
Closes(r) == r.connection = "close" \/ (r.version = "Http10" /\ r.connection # "Keep-Alive")

\* appendToBuffer: an answer that closes has no Content-Length, the other has one.
Answer(close) == [status |-> "answer", close |-> close]

\* onRequest: a callback of the user leaves closeConnection_ as it is, the default one sets it.
OnRequest(c) ==
  LET r == [version |-> c.version, query |-> c.query, connection |-> c.connection]
  IN \E close \in {Closes(r), TRUE} :
       /\ calls' = Append(calls, r)
       /\ Send(Answer(close))
       /\ connected' = (connected /\ ~close)

\* The bad request is refused.
OnBadRequest ==
  /\ Send([status |-> "400", close |-> TRUE])
  /\ connected' = FALSE
  /\ UNCHANGED calls

\* Mutant: a request that is complete is not answered while more input is in the buffer.
OnMessageDrained(ok, c) ==
  /\ ctx' = IF c.state = "GotAll" THEN Reset(c) ELSE c
  /\ \/ ~ok /\ OnBadRequest
     \/ c.state = "GotAll" /\ ReadableBytes(buf') = 0 /\ OnRequest(c)
     \/ ok /\ (c.state # "GotAll" \/ ReadableBytes(buf') > 0) /\ UNCHANGED <<calls, out, connected>>

\* onMessage, when parseRequest has returned ok and left the context c.
OnMessage(ok, c) ==
  /\ ctx' = IF c.state = "GotAll" THEN Reset(c) ELSE c
  /\ \/ ~ok /\ OnBadRequest
     \/ c.state = "GotAll" /\ OnRequest(c)
     \/ ok /\ c.state # "GotAll" /\ UNCHANGED <<calls, out, connected>>

\* TcpConnection::handleRead: n bytes are read, and the message callback begins to parse.
HandleRead(n) ==
  /\ ~fault /\ ~hasMore
  /\ buf' = ReadFd(buf, SubSeq(wire, 1, n))
  /\ content' = content \o SubSeq(wire, 1, n)
  /\ wire' = SubSeq(wire, n + 1, Len(wire))
  /\ hasMore' = TRUE
  /\ UNCHANGED <<ctx, connected, calls, out, fault, done, clientVars>>
-----------------------------------------------------------------------------
(* A round of the loop of parseRequest. *)

\* The line up to crlf is taken from the buffer.
Takes(crlf) ==
  /\ buf' = RetrieveUntil(buf, LineEnd(crlf))
  /\ content' = SubSeq(content, LineEnd(crlf) - buf.readerIndex + 1, Len(content))
  /\ done' = done + 1

\* The loop goes on, or it ends and parseRequest returns.
GoesOn == UNCHANGED <<hasMore, connected, calls, out, fault>>

Returns(ok, c) == hasMore' = FALSE /\ OnMessage(ok, c) /\ UNCHANGED fault

\* The buffer holds no complete line.
NoLine ==
  /\ CRLFs(buf) = {}
  /\ UNCHANGED <<buf, content, done>>
  /\ Returns(TRUE, ctx)

\* The assert in setMethod fails: there is a method already.
RequestLineFails(text) ==
  /\ HasSpace(text) /\ ctx.method
  /\ fault' = TRUE
  /\ UNCHANGED <<buf, content, ctx, hasMore, connected, calls, out, done>>

RequestLine(crlf, text) ==
  LET c == ProcessRequestLine(ctx, text)
  IN /\ ~(HasSpace(text) /\ ctx.method)
     /\ \/ /\ Version(text) = "Unknown"
           /\ UNCHANGED <<buf, content, done>>
           /\ Returns(FALSE, c)
        \/ /\ Version(text) # "Unknown"
           /\ Takes(crlf)
           /\ ctx' = [c EXCEPT !.state = "ExpectHeaders"]
           /\ GoesOn

Header(crlf, text) ==
  /\ Takes(crlf)
  /\ \/ /\ text \in DOMAIN Separated
        /\ ctx' = [ctx EXCEPT !.connection = Separated[text]]
        /\ GoesOn
     \/ /\ text \notin DOMAIN Separated
        /\ Returns(TRUE, [ctx EXCEPT !.state = "GotAll"])

ParseRequest ==
  /\ ~fault /\ hasMore
  /\ \/ NoLine
     \/ /\ CRLFs(buf) # {}
        /\ \E crlf \in {FindCRLF(buf)} : \E text \in {TextBefore(buf, crlf)} :
             \/ ctx.state = "ExpectRequestLine" /\ (RequestLineFails(text) \/ RequestLine(crlf, text))
             \/ ctx.state = "ExpectHeaders" /\ Header(crlf, text)
  /\ UNCHANGED <<wire, clientVars>>
-----------------------------------------------------------------------------
(* The client, and what its lines say. *)

Silence == [requests |-> <<>>, bad |-> FALSE, open |-> FALSE,
            request |-> [version |-> "Unknown", connection |-> "", query |-> FALSE]]

\* What the lines say that said s and go on with this one.  headers gives the lines that are
\* headers and the value of Connection.  A request without a query has that of the last one
\* before it that had one.
Read(s, text, headers) ==
  CASE s.bad -> s
    [] ~s.bad /\ s.open /\ text \in DOMAIN headers ->
         [s EXCEPT !.request = [version |-> s.request.version, connection |-> headers[text],
                                query |-> s.request.query]]
    [] ~s.bad /\ s.open /\ text \notin DOMAIN headers ->
         [s EXCEPT !.open = FALSE, !.requests = Append(@, s.request)]
    [] ~s.bad /\ ~s.open /\ Version(text) # "Unknown" ->
         [s EXCEPT !.open = TRUE,
                   !.request = [version |-> Version(text), connection |-> "",
                                query |-> s.request.query \/ text = "http10"]]
    [] OTHER -> [s EXCEPT !.bad = TRUE]

\* The bytes of the first k lines, and what these lines say.
End(k)  == IF k = 0 THEN 0 ELSE lines[k].end
Said(k) == IF k = 0 THEN Silence ELSE lines[k].said

LineOf(text) == IF text = "" THEN <<"CR", "LF">> ELSE <<text, "CR", "LF">>

\* The client sends a line.
ClientSends(text) ==
  /\ ~fault
  /\ Len(lines) < LinesMax /\ Len(wire) < ChunkMax
  /\ lines' = Append(lines, [text |-> text, end |-> Len(stream) + Len(LineOf(text)),
                             said |-> Read(Said(Len(lines)), text, Separated)])
  /\ wire' = wire \o LineOf(text)
  /\ stream' = stream \o LineOf(text)
  /\ UNCHANGED <<buf, content, serverVars>>

HttpNext ==
  \/ \E n \in 1..ChunkMax : n <= Len(wire) /\ HandleRead(n)
  \/ ParseRequest
  \/ \E text \in Texts : ClientSends(text)

HttpSpec == HttpInit /\ [][HttpNext]_httpVars
-----------------------------------------------------------------------------
(* Properties *)

\* How many lines have arrived completely: any number up to the most.
Arrived == {k \in 0..Len(lines) : End(k) <= Len(stream) - Len(wire)}

\* However the lines are cut into messages, the callback is given the requests they say, in
\* order, each with its own version and headers; only the query, which HttpRequest::swap leaves
\* out, may be that of an earlier request (parseRequest, onMessage, reset).
RequestsAsSent == \E k \in Arrived : calls = Said(k).requests

\* Every request given to the callback is answered until the connection is shut down, nothing is
\* sent after an answer that closes (which carries no Content-Length), and only a line that does
\* not begin a request is refused, after all the requests before it (onRequest, onMessage, send).
AnsweredUntilClosed ==
  /\ connected => Len(out) = Len(calls)
  /\ \A i \in 1..(Len(out) - 1) : ~out[i].close
  /\ \A i \in DOMAIN out : out[i].status = "400" =>
       \E k \in Arrived : Said(k).bad /\ calls = Said(k).requests

\* A message leaves a complete request in the buffer only if it answered one: there is never
\* more waiting than the client sent ahead of the answers (parseRequest, onMessage).
OneRequestPerMessage ==
  [][hasMore /\ ~hasMore' /\ calls' = calls
       => \A k \in Arrived : Len(Said(k).requests) <= Len(calls)]_httpVars

\* The assert in setMethod fails only on a connection that is shut down already, when its client
\* goes on after a line that did not begin a request: the line stays in the buffer and request_
\* as it is, and both are used again (parseRequest, processRequestLine, onMessage).
FaultOnlyAfterRefusal == fault => ~connected /\ \E k \in Arrived : Said(k).bad
=============================================================================
