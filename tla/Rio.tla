-------------------------------- MODULE Rio --------------------------------
(***************************************************************************)
(* The buffered reads and the whole writes of csapp.c (Rio), under the     *)
(* programs that use them: the echo server of TP7 that sends a file to its *)
(* client, line by line for the latter (echo.c, echoclient.c), the sender  *)
(* and the receiver of TP6/q1.c, and TP6/q2.c that reads a line, then      *)
(* bytes, of one file.                                                     *)
(*                                                                         *)
(* A byte is a letter or a line feed.  A read or a write of the system may *)
(* move fewer bytes than asked; one that a signal interrupts is made again *)
(* by rio_read and rio_writen, so that it moves nothing.                   *)
(***************************************************************************)
EXTENDS Integers, Sequences, SequencesExt

CONSTANTS
    Contents,   \* what the file may hold
    BufSize,    \* rio_buf, 8192 in the code
    MaxLine,    \* MAXLINE, 8192 in the code
    WireSize    \* what the pipe or the socket holds

ASSUME RioAssumption ==
    /\ \A c \in Contents : c \in Seq({"a", "\n"})
    /\ BufSize \in Nat \ {0} /\ WireSize \in Nat \ {0}
    /\ MaxLine \in Nat /\ MaxLine >= 2

VARIABLES
    rioProg,    \* "echo", "q1" or "q2"
    request,    \* what the client of echo asks for: "file", "missing" or "none"
    content,    \* the file
    wpc,        \* the writer: "open", "send" or "closed"
    file,       \* what the writer has not read of it
    chunk,      \* what rio_writen has left to write
    wire,       \* the pipe or the connection
    rpc,        \* the reader: "ask", "call", "done" or "crashed"
    rbuf,       \* the unread bytes of rio_buf
    got,        \* what the current call has put in the user's buffer
    delivered,  \* history: all that was put there
    returns     \* history: the results of the calls, [data, n]

writerVars == <<wpc, file>>
readerVars == <<rpc, returns>>
rioVars == <<rioProg, request, content, writerVars, chunk, wire, readerVars,
             rbuf, got, delivered>>

Least(a, b) == IF a < b THEN a ELSE b

-----------------------------------------------------------------------------
(* The writer.                                                             *)

\* echo reads the name of the file.  A client that closes at once leaves fich
\* as it was, and what open() makes of it is unknown: no such file, or one.
OpenFile ==
    /\ wpc = "open" /\ rpc # "ask"
    /\ \E found \in BOOLEAN :
        /\ request = "file" => found
        /\ request = "missing" => ~ found
        /\ IF found THEN wpc' = "send" /\ file' = content
                    ELSE wpc' = "closed" /\ file' = file
    /\ UNCHANGED <<rioProg, request, content, chunk, wire, readerVars, rbuf, got, delivered>>

\* The next piece of the file, of any size: MAXLINE in echo, drawn in q1.
ReadFile ==
    /\ wpc = "send" /\ chunk = <<>> /\ file # <<>>
    /\ \E n \in 1..Len(file) :
        /\ chunk' = SubSeq(file, 1, n)
        /\ file' = SubSeq(file, n + 1, Len(file))
    /\ UNCHANGED <<rioProg, request, content, wpc, wire, readerVars, rbuf, got, delivered>>

Mut_Unsent(n) == <<>>
\* nleft -= nwritten; bufp += nwritten
Unsent(n) == SubSeq(chunk, n + 1, Len(chunk))

\* One write() of rio_writen.
rio_writen ==
    /\ wpc = "send" /\ rpc \notin {"done", "crashed"}
    /\ \E n \in 1..Least(Len(chunk), WireSize - Len(wire)) :
        /\ wire' = wire \o SubSeq(chunk, 1, n)
        /\ chunk' = Unsent(n)
    /\ UNCHANGED <<rioProg, request, content, writerVars, readerVars, rbuf, got, delivered>>

\* The end of the file; or a write to a reader that has gone, which kills.
CloseWire ==
    /\ wpc = "send"
    /\ \/ chunk = <<>> /\ file = <<>>
       \/ chunk # <<>> /\ rpc \in {"done", "crashed"}
    /\ wpc' = "closed"
    /\ UNCHANGED <<rioProg, request, content, file, chunk, wire, readerVars, rbuf, got, delivered>>

-----------------------------------------------------------------------------
(* The reader.                                                             *)

\* echoclient sends a line, or closes when nothing is typed.
Ask ==
    /\ rpc = "ask"
    /\ rpc' = IF request = "none" THEN "done" ELSE "call"
    /\ UNCHANGED <<rioProg, request, content, writerVars, chunk, wire, returns, rbuf, got, delivered>>

\* q1: rio_readinitb() is given a pointer that was never set.
Readinitb_wild ==
    /\ rioProg = "q1" /\ rpc = "call" /\ returns = <<>> /\ got = <<>> /\ rbuf = <<>>
    /\ rpc' = "crashed"
    /\ UNCHANGED <<rioProg, request, content, writerVars, chunk, wire, returns, rbuf, got, delivered>>

\* The call being made: rio_readlineb, or in q2 two rio_readnb after it (of 1
\* and 2 bytes for 3 and 6).
ByLine == rioProg # "q2" \/ returns = <<>>
Nbytes == Len(returns)

LineComplete == got # <<>> /\ (Last(got) = "\n" \/ Len(got) = MaxLine - 1)
BytesComplete == Len(got) = Nbytes
Complete == IF ByLine THEN LineComplete ELSE BytesComplete

AtEof == rbuf = <<>> /\ wire = <<>> /\ wpc = "closed"

Mut_RefillsAlways == rpc = "call"
\* while (rp->rio_cnt <= 0)
NeedsRefill == rbuf = <<>>

\* rio_read, when its buffer is empty.
Refill ==
    /\ rpc = "call" /\ ~ Complete /\ NeedsRefill
    /\ \E n \in 1..Least(BufSize, Len(wire)) :
        /\ rbuf' = SubSeq(wire, 1, n)
        /\ wire' = SubSeq(wire, n + 1, Len(wire))
    /\ UNCHANGED <<rioProg, request, content, writerVars, chunk, readerVars, got, delivered>>

\* rio_read copies one byte for rio_readlineb, all it can for rio_readnb.
CopyOut ==
    /\ rpc = "call" /\ ~ Complete /\ rbuf # <<>>
    /\ LET n == IF ByLine THEN 1 ELSE Least(Nbytes - Len(got), Len(rbuf)) IN
        /\ got' = got \o SubSeq(rbuf, 1, n)
        /\ delivered' = delivered \o SubSeq(rbuf, 1, n)
        /\ rbuf' = SubSeq(rbuf, n + 1, Len(rbuf))
    /\ UNCHANGED <<rioProg, request, content, writerVars, chunk, wire, readerVars>>

\* rio_readlineb counts the '\0' it adds, but for a line that ends with a
\* line feed or a read that got nothing.
Result ==
    IF ~ ByLine \/ got = <<>> \/ Last(got) = "\n" THEN Len(got) ELSE Len(got) + 1

\* The call returns; the callers stop at 0, q2 after three calls.
Return_rio ==
    /\ rpc = "call" /\ (Complete \/ AtEof)
    /\ returns' = Append(returns, [data |-> got, n |-> Result])
    /\ got' = <<>>
    /\ rpc' = IF IF rioProg = "q2" THEN Len(returns') = 3 ELSE Result = 0
              THEN "done" ELSE "call"
    /\ UNCHANGED <<rioProg, request, content, writerVars, chunk, wire, rbuf, delivered>>

-----------------------------------------------------------------------------
\* rio_cnt = 0: nothing is buffered.
rio_readinitb == rbuf = <<>>

\* In q2 the wire is the file itself, all of it there.
RioInit ==
    /\ rioProg \in {"echo", "q1", "q2"}
    /\ request \in IF rioProg = "echo" THEN {"file", "missing", "none"} ELSE {"file"}
    /\ content \in Contents
    /\ wpc = CASE rioProg = "echo" -> "open" [] rioProg = "q1" -> "send" [] OTHER -> "closed"
    /\ file = IF rioProg = "q1" THEN content ELSE <<>>
    /\ chunk = <<>>
    /\ wire = IF rioProg = "q2" THEN content ELSE <<>>
    /\ rpc = IF rioProg = "echo" THEN "ask" ELSE "call"
    /\ rio_readinitb /\ got = <<>> /\ delivered = <<>> /\ returns = <<>>

\* When another program runs.
RioIdle ==
    /\ rioProg = "echo" /\ request = "none" /\ content = <<>>
    /\ wpc = "closed" /\ file = <<>> /\ chunk = <<>> /\ wire = <<>>
    /\ rpc = "done" /\ rbuf = <<>> /\ got = <<>> /\ delivered = <<>> /\ returns = <<>>

WriterSteps == OpenFile \/ ReadFile \/ rio_writen \/ CloseWire
ReaderSteps == Ask \/ Refill \/ CopyOut \/ Return_rio

RioNext == WriterSteps \/ ReaderSteps \/ Readinitb_wild

RioFair == WF_rioVars(WriterSteps) /\ WF_rioVars(ReaderSteps)

RioSpec == RioInit /\ [][RioNext]_rioVars /\ RioFair

-----------------------------------------------------------------------------
(* Properties.                                                             *)

\* The bytes on their way: in the user's buffers, in rio_buf, in the pipe, in
\* rio_writen, in the file.
OnTheWay == delivered \o (rbuf \o (wire \o (chunk \o file)))

\* Whatever the sizes of the reads and the writes (csapp.c:583, :613), no byte
\* is lost, doubled or displaced on its way from the file to the reader.
StreamIntegrity ==
    /\ OnTheWay \in {<<>>, content}
    /\ wpc = "open" => OnTheWay = <<>>
    /\ wpc = "send" \/ (wpc = "closed" /\ request = "file") => OnTheWay = content

\* The lines rio_readlineb should return for a content: cut after each line
\* feed and after MaxLine - 1 bytes.
LinesOf(text) ==
    LET cut[k \in 0..Len(text)] ==
            IF k = 0 THEN <<<<>>>>
            ELSE LET line == Append(Last(cut[k - 1]), text[k]) IN
                 IF text[k] = "\n" \/ Len(line) = MaxLine - 1
                 THEN Append(Front(cut[k - 1]), line) \o <<<<>>>>
                 ELSE Append(Front(cut[k - 1]), line)
    IN SelectSeq(cut[Len(text)], LAMBDA line : line # <<>>)

Text == IF request = "file" THEN content ELSE <<>>

\* The results of the calls: every line with its length, the unfinished ones
\* with one more, and 0 at the end; in q2 the line and then the bytes.
RightReturns ==
    LET data == [k \in DOMAIN returns |-> returns[k].data] IN
    IF rioProg = "q2"
    THEN LET first == IF content = <<>> THEN <<>> ELSE LinesOf(content)[1]
             bytes(from, n) == SubSeq(content, from, Least(from + n - 1, Len(content)))
             here == Len(first) + 1
         IN data = <<first, bytes(here, 1), bytes(here + 1, 2)>>
    ELSE /\ data = Append(LinesOf(Text), <<>>)
         /\ \A k \in DOMAIN returns :
                returns[k].n = IF data[k] = <<>> \/ Last(data[k]) = "\n"
                               THEN Len(data[k]) ELSE Len(data[k]) + 1

\* The reader ends, with the whole file in the right pieces, or with nothing
\* when there is no file; not the one of q1 when its pointer is wild, nor the
\* client that asked nothing.
ReaderGetsAll == 
    <>(\/ rpc = "crashed"
       \/ rpc = "done" /\ (request # "none" => RightReturns))
=============================================================================
