--------------------------- MODULE HttpConnection ---------------------------
(***************************************************************************)
(* tornado::HTTPConnection (src/tornado/HttpServer.cpp) and the             *)
(* RequestHandler that answers its request (src/tornado/Web.cpp), as the    *)
(* application of one accepted IOStream.                                    *)
(*                                                                         *)
(* The connection reads the headers, a body if there is one, hands the      *)
(* request to a handler, which sooner or later finishes it, and closes once *)
(* the response is out.  It goes from one of its methods to the next        *)
(* through callbacks that the stream posts to the IOLoop: an iteration of   *)
(* the loop runs those posted before it began, then polls.  A method that   *)
(* calls the stream more than once is a step for each call, joined by       *)
(* `then`; in between nothing runs but the stream's own loops.  What a      *)
(* parser makes of the bytes is abstracted to its outcomes.                 *)
(***************************************************************************)
EXTENDS Integers, Sequences, FiniteSets

CONSTANTS
    Capacity, ReadChunk, WriteChunk, SendBuffer, PeerBytes, Delimiters,  \* of IOStream
    ContentLength,  \* the length of a request's body
    ContinueLen,    \* the length of "HTTP/1.1 100 (Continue)"
    HeaderLen,      \* the length of a response's headers
    BodyLens        \* the lengths of the bodies that handlers write

ASSUME HttpConnectionAssumption ==
    /\ Capacity \in Nat \ {0}
    /\ WriteChunk \in Nat \ {0}
    /\ SendBuffer \in Nat \ {0}
    /\ ContentLength \in Nat \ {0}
    /\ ContinueLen \in Nat \ {0}
    /\ HeaderLen \in Nat \ {0}
    /\ BodyLens \subseteq Nat

VARIABLES s, pc, caller, reported, conn, sent, got, fin, outq, reads, writes, overlaid

streamVars == <<s, pc, caller, reported, conn, sent, got, fin, outq, reads, writes, overlaid>>

VARIABLES
    request,   \* what the connection is about: "headers", "body", "handling",
               \*   "finished" (request_finished_), or "refused"
    then,      \* what the method on the stack does next, or "return"
    phase,     \* of the loop's iteration: "callbacks" or "dispatch"
    batch,     \* how many of s.posted were there when the iteration began
    ran        \* how many of them have run

vars == <<streamVars, request, then, phase, batch, ran>>

Stream == INSTANCE IOStream WITH ReadSizes <- {ContentLength},
             WriteSizes <- {ContinueLen}, MaxReads <- 2, MaxWrites <- 3

\* HTTPServer::handleStream, in a handler of the loop: a stream was accepted.
Init ==
    /\ Stream!Init
    /\ conn = "up"
    /\ request = "headers"
    /\ then = "start"
    /\ phase = "dispatch"
    /\ batch = 0
    /\ ran = 0

-----------------------------------------------------------------------------
(* HTTPConnection.                                                         *)

\* The stream's call has returned and the method goes on to do what.
Goes(what) == Stream!Idle /\ then = what

\* Mutant of StartRun: nobody is told when the stream closes.
StartRunUntold ==
    /\ Goes("start")
    /\ then' = "read headers"
    /\ UNCHANGED <<streamVars, request, phase, batch, ran>>

StartRun ==
    /\ Goes("start")
    /\ Stream!SetCloseCallback
    /\ then' = "read headers"
    /\ UNCHANGED <<request, phase, batch, ran>>

ReadHeaders ==
    /\ Goes("read headers")
    /\ Stream!ReadUntil
    /\ then' = "return"
    /\ UNCHANGED <<request, phase, batch, ran>>

\* The loop calls the next callback of its batch, which is of the given kind.
Called(kind) ==
    /\ Goes("return")
    /\ phase = "callbacks"
    /\ ran < batch
    /\ s.posted[ran + 1].kind = kind
    /\ ran' = ran + 1
    /\ UNCHANGED <<phase, batch>>

\* A request that does not parse, or whose body is too long.
Refuse ==
    /\ Stream!CloseStream
    /\ request' = "refused"
    /\ UNCHANGED then

\* onHeaders: there may be a body, and the client may expect to be asked for it.
OnHeaders ==
    /\ Called("read")
    /\ request = "headers"
    /\ \/ Refuse
       \/ /\ request' = "handling"
          /\ UNCHANGED <<streamVars, then>>
       \/ /\ request' = "body"
          /\ then' \in {"continue", "read body"}
          /\ UNCHANGED streamVars

Continue ==
    /\ Goes("continue")
    /\ then' = "read body"
    /\ \/ ~s.closed /\ Stream!WriteBytes(ContinueLen, FALSE)
       \/ s.closed /\ UNCHANGED streamVars
    /\ UNCHANGED <<request, phase, batch, ran>>

ReadBody ==
    /\ Goes("read body")
    /\ Stream!ReadBytes(ContentLength)
    /\ then' = "return"
    /\ UNCHANGED <<request, phase, batch, ran>>

OnRequestBody ==
    /\ Called("read")
    /\ request = "body"
    /\ \/ Refuse
       \/ /\ request' = "handling"
          /\ UNCHANGED <<streamVars, then>>

\* Mutant of OnWriteComplete: the connection is kept open.
OnWriteCompleteKeeps ==
    /\ Called("write")
    /\ UNCHANGED <<streamVars, request, then>>

OnWriteComplete ==
    /\ Called("write")
    /\ \/ /\ request = "finished" /\ ~Stream!Writing(s) /\ ~s.closed
          /\ Stream!CloseStream
       \/ /\ ~(request = "finished" /\ ~Stream!Writing(s) /\ ~s.closed)
          /\ UNCHANGED streamVars
    /\ UNCHANGED <<request, then>>

\* onStreamColse, and on_connect_close of the handler: nothing but releasing.
OnStreamClose ==
    /\ Called("close")
    /\ UNCHANGED <<streamVars, request, then>>

-----------------------------------------------------------------------------
(* RequestHandler.  It may finish in the callback that gave it the request,  *)
(* or at any later time, from code of the application.                      *)

\* Mutant of Finish: finish() may be called twice.
FinishAgain ==
    /\ Goes("return")
    /\ request \in {"handling", "finished"}
    /\ request' = "finished"
    /\ then' = "write body"
    /\ \/ ~s.closed /\ Stream!JustWriteBytesToBuff(HeaderLen)
       \/ s.closed /\ UNCHANGED streamVars
    /\ UNCHANGED <<phase, batch, ran>>

\* finish() and the first half of flush(): the headers go to the buffer.
Finish ==
    /\ Goes("return")
    /\ request = "handling"
    /\ request' = "finished"
    /\ then' = "write body"
    /\ \/ ~s.closed /\ Stream!JustWriteBytesToBuff(HeaderLen)
       \/ s.closed /\ UNCHANGED streamVars
    /\ UNCHANGED <<phase, batch, ran>>

\* The second half of flush(): an empty body is refused by writeBytes.
WriteBody ==
    /\ Goes("write body")
    /\ then' = "finish"
    /\ \E n \in BodyLens :
          \/ n > 0 /\ ~s.closed /\ Stream!WriteBytes(n, TRUE)
          \/ (n = 0 \/ s.closed) /\ UNCHANGED streamVars
    /\ UNCHANGED <<request, phase, batch, ran>>

\* Mutant of ConnectionFinish: closes with a part of the response unwritten.
ConnectionFinishAtOnce ==
    /\ Goes("finish")
    /\ Stream!CloseStream
    /\ then' = "return"
    /\ UNCHANGED <<request, phase, batch, ran>>

\* HTTPConnection::finish().
ConnectionFinish ==
    /\ Goes("finish")
    /\ \/ ~Stream!Writing(s) /\ Stream!CloseStream
       \/ Stream!Writing(s) /\ UNCHANGED streamVars
    /\ then' = "return"
    /\ UNCHANGED <<request, phase, batch, ran>>

-----------------------------------------------------------------------------
(* The loop: see module IOLoop.                                            *)

\* Events of this stream, or a poll that returns for another reason.
Poll ==
    /\ Goes("return")
    /\ phase = "callbacks"
    /\ ran = batch
    /\ phase' = "dispatch"
    /\ \/ Stream!Poll
       \/ Stream!Raised = {} /\ ran < Len(s.posted) /\ UNCHANGED streamVars
    /\ UNCHANGED <<request, then, batch, ran>>

Dispatch ==
    /\ Goes("return")
    /\ phase = "dispatch"
    /\ Stream!Dispatch
    /\ UNCHANGED <<request, then, phase, batch, ran>>

Iterate ==
    /\ Goes("return")
    /\ phase = "dispatch"
    /\ reported = {}
    /\ phase' = "callbacks"
    /\ batch' = Len(s.posted)
    /\ UNCHANGED <<streamVars, request, then, ran>>

\* The loops of handleRead and handleWrite, and the world outside.
StreamLoops ==
    /\ \/ Stream!ReadSome \/ Stream!ReadFails \/ Stream!ReadBlocks
       \/ Stream!WriteSome \/ Stream!WriteFails \/ Stream!WriteBlocksOrEnds
    /\ UNCHANGED <<request, then, phase, batch, ran>>

Network ==
    /\ \/ Stream!PeerSends \/ Stream!PeerCloses
       \/ Stream!PeerResets \/ Stream!PeerReceives
    /\ UNCHANGED <<request, then, phase, batch, ran>>

ServerStep ==
    \/ StartRun
    \/ ReadHeaders
    \/ OnHeaders
    \/ Continue
    \/ ReadBody
    \/ OnRequestBody
    \/ OnWriteComplete
    \/ OnStreamClose
    \/ WriteBody
    \/ ConnectionFinish
    \/ Poll
    \/ Dispatch
    \/ Iterate
    \/ StreamLoops

Next == ServerStep \/ Finish \/ Network

Spec == Init /\ [][Next]_vars

\* The thread is scheduled, and the client takes what it is sent.
Fairness ==
    /\ WF_vars(ServerStep)
    /\ WF_vars(Stream!PeerReceives /\ UNCHANGED <<request, then, phase, batch, ran>>)

FairSpec == Spec /\ Fairness

-----------------------------------------------------------------------------
(* Correctness.                                                            *)

\* The connection never calls the stream in a way it asserts against
\* (IOStream.cpp:170 and 202-203): no read while one is pending, no second
\* write callback, whatever the stream did in the meantime.
AssertsHold ==
    Stream!Idle =>
      /\ then \in {"read headers", "read body"} =>
            /\ ~s.read_callback /\ ~s.read_until_close
            /\ s.read_bytes = 0 /\ ~s.read_delimiter
      /\ then = "write body" /\ ~s.closed => ~s.write_callback

\* A client that keeps its side open gets the whole response: the server
\* closes with bytes unwritten only when a buffer is too small.
ResponseNotCut ==
    [][~s.closed /\ s'.closed /\ request \in {"handling", "finished"} /\ conn = "up" /\ ~fin
         => \/ s.write_len = 0
            \/ pc = "reading" /\ ~Stream!HasRoom
            \/ then = "return" /\ s.write_len + HeaderLen > Capacity
            \/ then = "write body" /\ \E n \in BodyLens : s.write_len + n > Capacity]_vars

\* The write callback is bound to a bare `this` (HttpServer.cpp:356).  As long
\* as it may be called, the close callback, which owns the connection, has not
\* been: it is still with the stream, or behind it in the loop's queue.
OwnedUntilWritten ==
    /\ s.write_callback => s.close_callback
    /\ \A i \in (ran + 1)..Len(s.posted) : s.posted[i].kind = "write" =>
          s.close_callback \/ \E j \in i..Len(s.posted) : s.posted[j].kind = "close"

\* A response without a body: writeBytes refused it and with it the callback that
\* would close.  Its headers are in the write buffer until, and unless, WRITE is
\* watched for another reason (Web.cpp:163, IOStream.cpp:141).
EmptyResponse ==
    /\ Goes("return") /\ request = "finished"
    /\ ~s.write_callback /\ \A i \in DOMAIN s.posted : s.posted[i].kind # "write"

\* "Finishes the request." (HttpServer.cpp:333): a request whose handler has
\* finished is answered and its connection closed, but for the one response
\* whose body is empty.
FinishedCloses ==
    (request = "finished") ~> (s.closed \/ (0 \in BodyLens /\ EmptyResponse))
=============================================================================
