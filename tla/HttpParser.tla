----------------------------- MODULE HttpParser -----------------------------
(***************************************************************************)
(* Request parsing of one connection (webServer/http_conn.cpp): read()     *)
(* fills readBuffer with whatever the socket holds, processRead() scans it *)
(* line by line, and the scan is resumed when more data arrives.           *)
(*                                                                         *)
(* A cell of readBuffer is a token: a word of a request or header line     *)
(* (the blanks between words are implied), "CR", "LF", or "NUL".  Cells    *)
(* beyond readIndex are NUL, so readBuffer is kept as a sequence of        *)
(* readIndex cells; the code's index i is position i + 1.                  *)
(***************************************************************************)
EXTENDS Integers, Sequences, FiniteSetsExt

CONSTANTS
    Requests,           \* the token sequences a client sends as one request
    READ_BUFFER_SIZE

Words == {"GET", "POST", "PATH", "ABSOLUTE", "NOPATH", "HTTP/1.1", "HTTP/1.0",
          "Connection:", "keep-alive", "Content-Length:", "0", "1", "2", "Host:", "x"}
Tokens == Words \cup {"CR", "LF"}
Cells == Tokens \cup {"NUL"}

ASSUME ParserAssumption ==
    /\ Requests # {} /\ Requests \subseteq Seq(Tokens) \ {<<>>}
    /\ READ_BUFFER_SIZE \in Nat \ {0}

VARIABLES
    rest,               \* tokens of the client's request still in the network
    received,           \* tokens read since the last init()
    stray,              \* history: a read ended inside a line of these tokens
    readBuffer, checkIndex, startLine,
    checkState, contentLength, linger,
    lineStatus,         \* local variable of processRead()
    phase,              \* where the connection is: waiting for EPOLLIN, in
                        \* processRead(), answering, closed, or crashed
    ret                 \* result of processRead()

connVars == <<checkIndex, startLine, checkState, contentLength, linger>>
vars == <<rest, received, stray, readBuffer, checkIndex, startLine, checkState,
          contentLength, linger, lineStatus, phase, ret>>

CheckStates == {"REQUESTLINE", "HEADER", "CONTENT"}
LineStates == {"LINE_OK", "LINE_BAD", "LINE_OPEN"}

readIndex == Len(readBuffer)

-----------------------------------------------------------------------------
(* parseLine() and the line parsers, as functions of the buffer            *)

\* The C string that starts at index from.
Text(buf, from) ==
    LET nul == {i \in from + 1 .. Len(buf) : buf[i] = "NUL"}
    IN  SubSeq(buf, from + 1, IF nul = {} THEN Len(buf) ELSE Min(nul) - 1)

\* Mutant: no test for a CR in the last cell.
parseLinePastEnd(buf, from) ==
    LET ends == {i \in from .. Len(buf) - 1 : buf[i + 1] \in {"CR", "LF"}}
        i == Min(ends)
    IN  IF ends = {}
        THEN [status |-> "LINE_OK", check |-> Len(buf), buf |-> buf]
        ELSE [status |-> "LINE_OK", check |-> i + 2,
              buf |-> [buf EXCEPT ![i + 1] = "NUL", ![i + 2] = "NUL"]]

\* The scan stops at the first CR or LF; when it meets neither before
\* readIndex it reports LINE_OK all the same.
parseLine(buf, from) ==
    LET ends == {i \in from .. Len(buf) - 1 : buf[i + 1] \in {"CR", "LF"}}
        i == Min(ends)
        Found(s, c, b) == [status |-> s, check |-> c, buf |-> b]
    IN  CASE ends = {} -> Found("LINE_OK", Len(buf), buf)
          [] ends # {} /\ buf[i + 1] = "CR" ->
                CASE i + 1 = Len(buf) -> Found("LINE_OPEN", i, buf)
                  [] i + 1 < Len(buf) /\ buf[i + 2] = "LF" ->
                        Found("LINE_OK", i + 2, [buf EXCEPT ![i + 1] = "NUL", ![i + 2] = "NUL"])
                  [] OTHER -> Found("LINE_BAD", i, buf)
          [] OTHER ->
                IF i > 1 /\ buf[i] = "CR"
                THEN Found("LINE_OK", i + 1, [buf EXCEPT ![i] = "NUL", ![i + 1] = "NUL"])
                ELSE Found("LINE_BAD", i, buf)

\* parseRequestLine() accepts the line: GET, a URL with a path, HTTP/1.1.
parseRequestLine(text) ==
    /\ Len(text) = 3
    /\ text[1] = "GET"
    /\ text[2] \in {"PATH", "ABSOLUTE"}
    /\ text[3] = "HTTP/1.1"

\* strtol on the words after the header name; no digits give 0.
strtol(text) ==
    CASE Len(text) > 1 /\ text[2] = "1" -> 1
      [] Len(text) > 1 /\ text[2] = "2" -> 2
      [] OTHER -> 0

keepAlive(text) == text = <<"Connection:", "keep-alive">>

isContentLength(text) == text # <<>> /\ text[1] = "Content-Length:"

\* What the loop of processRead() sees: the line parseLine() has found, or,
\* in the first round on a body, the buffer as it is.
Scan ==
    IF checkState = "CONTENT" /\ lineStatus = "LINE_OK"
    THEN [status |-> "LINE_OK", check |-> checkIndex, buf |-> readBuffer]
    ELSE parseLine(readBuffer, checkIndex)

Line == Text(Scan.buf, startLine)

-----------------------------------------------------------------------------
(* The connection                                                          *)

\* Mutant: init() forgets linger.
initKeepsLinger ==
    /\ received' = <<>>
    /\ readBuffer' = <<>>
    /\ checkIndex' = 0
    /\ startLine' = 0
    /\ checkState' = "REQUESTLINE"
    /\ contentLength' = 0
    /\ UNCHANGED linger

init ==
    /\ received' = <<>>
    /\ readBuffer' = <<>>
    /\ checkIndex' = 0
    /\ startLine' = 0
    /\ checkState' = "REQUESTLINE"
    /\ contentLength' = 0
    /\ linger' = FALSE

Init ==
    /\ rest \in Requests
    /\ received = <<>> /\ stray = FALSE
    /\ readBuffer = <<>>
    /\ checkIndex = 0
    /\ startLine = 0
    /\ checkState = "REQUESTLINE"
    /\ contentLength = 0
    /\ linger = FALSE
    /\ lineStatus = "LINE_OK"
    /\ phase = "waiting"
    /\ ret = "NO_REQUEST"

\* The network delivers n tokens and cuts the request elsewhere than behind a CR.
CutsLine(n) == n < Len(rest) /\ rest[n] # "CR"

\* Mutant: recv() always stores at the start of the buffer.
readFromStart(n) ==
    /\ phase = "waiting"
    /\ readIndex + n <= READ_BUFFER_SIZE
    /\ received' = received \o SubSeq(rest, 1, n)
    /\ stray' = (stray \/ CutsLine(n))
    /\ readBuffer' = SubSeq(rest, 1, n) \o SubSeq(readBuffer, 1, readIndex)
    /\ rest' = SubSeq(rest, n + 1, Len(rest))
    /\ lineStatus' = "LINE_OK"
    /\ phase' = "parsing"
    /\ UNCHANGED <<connVars, ret>>

\* read() takes everything that is there, until recv() reports EAGAIN, and
\* the worker that gets the connection enters processRead().
read(n) ==
    /\ phase = "waiting"
    /\ readIndex + n <= READ_BUFFER_SIZE
    /\ received' = received \o SubSeq(rest, 1, n)
    /\ stray' = (stray \/ CutsLine(n))
    /\ readBuffer' = readBuffer \o SubSeq(rest, 1, n)
    /\ rest' = SubSeq(rest, n + 1, Len(rest))
    /\ lineStatus' = "LINE_OK"
    /\ phase' = "parsing"
    /\ UNCHANGED <<connVars, ret>>

\* read() fails and the main thread closes the connection.  A full buffer
\* makes recv() ask for zero bytes, which returns 0 when more data is there
\* and may return 0 when none is; otherwise recv() reports the end of the
\* stream or an error.
readFails ==
    /\ phase = "waiting"
    /\ phase' = "closed"
    /\ UNCHANGED <<rest, received, stray, readBuffer, connVars, lineStatus, ret>>

\* The loop of processRead() ends: the connection waits for more data.
LoopEnds ==
    /\ phase = "parsing"
    /\ Scan.status # "LINE_OK"
    /\ lineStatus' = Scan.status
    /\ checkIndex' = Scan.check
    /\ readBuffer' = Scan.buf
    /\ ret' = "NO_REQUEST"
    /\ phase' = "waiting"
    /\ UNCHANGED <<rest, received, stray, startLine, checkState, contentLength, linger>>

\* A line was found: every round of the loop moves startLine to checkIndex.
LineFound(state) ==
    /\ phase = "parsing"
    /\ checkState = state
    /\ Scan.status = "LINE_OK"
    /\ startLine' = Scan.check
    /\ checkIndex' = Scan.check
    /\ UNCHANGED <<rest, received, stray>>

RequestLine ==
    /\ LineFound("REQUESTLINE")
    /\ readBuffer' = Scan.buf
    /\ lineStatus' = "LINE_OK"
    /\ IF parseRequestLine(Line)
       THEN checkState' = "HEADER" /\ UNCHANGED <<phase, ret>>
       ELSE phase' = "answering" /\ ret' = "BAD_REQUEST" /\ UNCHANGED checkState
    /\ UNCHANGED <<contentLength, linger>>

\* parseHeader() on a line that is not empty.
Header ==
    /\ LineFound("HEADER")
    /\ Line # <<>>
    /\ readBuffer' = Scan.buf
    /\ lineStatus' = "LINE_OK"
    /\ linger' = (linger \/ keepAlive(Line))
    /\ contentLength' = IF isContentLength(Line) THEN strtol(Line) ELSE contentLength
    /\ UNCHANGED <<checkState, phase, ret>>

\* strtol() gets &text + strlen(text) as the place for its end pointer and
\* writes outside the variable: the process may not survive it.
HeaderCrashes ==
    /\ LineFound("HEADER")
    /\ isContentLength(Line)
    /\ phase' = "crashed"
    /\ UNCHANGED <<readBuffer, lineStatus, linger, contentLength, checkState, ret>>

\* parseHeader() on an empty line: the end of the headers.
HeadersEnd ==
    /\ LineFound("HEADER")
    /\ Line = <<>>
    /\ readBuffer' = Scan.buf
    /\ lineStatus' = "LINE_OK"
    /\ IF contentLength # 0
       THEN checkState' = "CONTENT" /\ UNCHANGED <<phase, ret>>
       ELSE phase' = "answering" /\ ret' = "GET_REQUEST" /\ UNCHANGED checkState
    /\ UNCHANGED <<contentLength, linger>>

\* Mutant: a body that ends with the data is taken for incomplete.
ContentPastEnd ==
    /\ LineFound("CONTENT")
    /\ LET end == startLine + contentLength + 1
       IN  IF readIndex > contentLength + Scan.check
           THEN /\ readBuffer' = IF end <= readIndex THEN [Scan.buf EXCEPT ![end] = "NUL"]
                                                    ELSE Scan.buf
                /\ phase' = "answering"
                /\ ret' = "GET_REQUEST"
                /\ UNCHANGED lineStatus
           ELSE /\ readBuffer' = Scan.buf
                /\ lineStatus' = "LINE_OPEN"
                /\ UNCHANGED <<phase, ret>>
    /\ UNCHANGED <<checkState, contentLength, linger>>

\* parseContext(): the body counts from checkIndex, which parseLine() moves.
Content ==
    /\ LineFound("CONTENT")
    /\ LET end == startLine + contentLength + 1
       IN  IF readIndex >= contentLength + Scan.check
           THEN /\ readBuffer' = IF end <= readIndex THEN [Scan.buf EXCEPT ![end] = "NUL"]
                                                    ELSE Scan.buf
                /\ phase' = "answering"
                /\ ret' = "GET_REQUEST"
                /\ UNCHANGED lineStatus
           ELSE /\ readBuffer' = Scan.buf
                /\ lineStatus' = "LINE_OPEN"
                /\ UNCHANGED <<phase, ret>>
    /\ UNCHANGED <<checkState, contentLength, linger>>

processRead ==
    \/ LoopEnds
    \/ RequestLine
    \/ Header
    \/ HeaderCrashes
    \/ HeadersEnd
    \/ Content

\* The response is sent (module HttpResponse); a lingering connection starts
\* over and the others are closed.
Answered ==
    /\ phase = "answering"
    /\ IF linger
       THEN phase' = "waiting" /\ init /\ stray' = (stray /\ rest # <<>>)
       ELSE phase' = "closed" /\ UNCHANGED <<received, stray, readBuffer, connVars>>
    /\ UNCHANGED <<rest, lineStatus, ret>>

\* The client of a lingering connection sends its next request after it got
\* the response to the last one.
NextRequest(r) ==
    /\ phase = "waiting"
    /\ received = <<>>
    /\ rest = <<>>
    /\ rest' = r
    /\ UNCHANGED <<received, stray, readBuffer, connVars, lineStatus, phase, ret>>

\* The object serves another client.
NewConnection(r) ==
    /\ phase = "closed"
    /\ rest' = r
    /\ phase' = "waiting"
    /\ init /\ stray' = FALSE
    /\ UNCHANGED <<lineStatus, ret>>

Next ==
    \/ \E n \in 1 .. Len(rest) : read(n)
    \/ readFails
    \/ processRead
    \/ Answered
    \/ \E r \in Requests : NextRequest(r) \/ NewConnection(r)

Spec == Init /\ [][Next]_vars

\* A worker that is in processRead() keeps running.
FairSpec == Spec /\ WF_vars(processRead)

-----------------------------------------------------------------------------
(* A reference definition of the same syntax, on the received tokens       *)

\* Positions p with CR at p and LF at p + 1.
Breaks(s) == {p \in 1 .. Len(s) - 1 : s[p] = "CR" /\ s[p + 1] = "LF"}

\* Starts of the lines that are complete in s.
LineAt(s, from) == SubSeq(s, from, Min({p \in Breaks(s) : p >= from}) - 1)
Starts(s) == {f \in {1} \cup {p + 2 : p \in Breaks(s)} : \E p \in Breaks(s) : p >= f}

\* Header lines: the complete lines between the first line and the first
\* empty one.
BlankLines(s) == {f \in Starts(s) \ {1} : LineAt(s, f) = <<>>}
HeaderStarts(s) == {f \in Starts(s) \ {1} : \A b \in BlankLines(s) : f < b}

\* The length that the last Content-Length header announces.
Announced(s) ==
    LET lengths == {f \in HeaderStarts(s) : isContentLength(LineAt(s, f))}
    IN  IF lengths = {} THEN 0 ELSE strtol(LineAt(s, Max(lengths)))

Verdict(s) ==
    CASE Breaks(s) = {} -> "NO_REQUEST"
      [] Breaks(s) # {} /\ ~parseRequestLine(LineAt(s, 1)) -> "BAD_REQUEST"
      [] Breaks(s) # {} /\ parseRequestLine(LineAt(s, 1)) ->
            IF /\ BlankLines(s) # {}
               /\ Len(s) >= Min(BlankLines(s)) + 1 + Announced(s)
            THEN "GET_REQUEST"
            ELSE "NO_REQUEST"

-----------------------------------------------------------------------------
(* Properties                                                              *)

\* The fields of the connection hold values of their types.
TypeOK ==
    /\ rest \in Seq(Tokens) /\ received \in Seq(Tokens)
    /\ readBuffer \in Seq(Cells)
    /\ checkIndex \in Nat /\ startLine \in Nat
    /\ checkState \in CheckStates
    /\ contentLength \in 0 .. 2
    /\ linger \in BOOLEAN
    /\ lineStatus \in LineStates
    /\ phase \in {"waiting", "parsing", "answering", "closed", "crashed"}
    /\ ret \in {"NO_REQUEST", "BAD_REQUEST", "GET_REQUEST"}

\* The three cursors into readBuffer stay in order and inside the buffer,
\* however the request is cut and however often the scan is resumed.  Nor is
\* it ever resumed just after a CR, so the branch of parseLine() for "the last
\* read ended with CR, this one starts with LF" is never needed: LINE_OPEN
\* leaves the cursor on the CR itself.
IndexOrder ==
    /\ TypeOK
    /\ startLine <= checkIndex
    /\ checkIndex <= readIndex
    /\ readIndex <= READ_BUFFER_SIZE
    /\ phase \in {"waiting", "parsing"} /\ checkIndex > 0 => readBuffer[checkIndex] # "CR"

\* What parseLine() has not scanned yet is as the client sent it, and what it
\* has scanned differs only in the line ends it turned into NUL.
UnscannedIntact ==
    phase \in {"waiting", "parsing"} =>
        /\ readIndex = Len(received)
        /\ \A i \in 1 .. readIndex :
              \/ readBuffer[i] = received[i]
              \/ i <= checkIndex /\ readBuffer[i] = "NUL" /\ received[i] \in {"CR", "LF"}

\* Every CR is followed by LF, every LF preceded by CR.
WholeLineEnds(s) ==
    \A i \in 1 .. Len(s) : /\ s[i] = "CR" /\ i < Len(s) => s[i + 1] = "LF"
                           /\ s[i] = "LF" => i > 1 /\ s[i - 1] = "CR"

\* Unless a read ended inside a line the incremental scan agrees with the
\* reference: it answers exactly the complete requests, with the right
\* verdict and the right linger flag, and waits for the others.  (Cut inside
\* a line, a request is answered before it is complete: parseLine() reports
\* LINE_OK when it meets no line end.)
AgreesWithReference ==
    ~stray /\ WholeLineEnds(received) =>
        /\ phase = "waiting" => Verdict(received) = "NO_REQUEST"
        /\ phase = "answering" => ret = Verdict(received)
        /\ phase = "answering" /\ ret = "GET_REQUEST" =>
              (linger <=> \E f \in HeaderStarts(received) : keepAlive(LineAt(received, f)))

\* processRead() returns: with an answer, or to wait for more data.
ProcessReadReturns == phase = "parsing" ~> phase # "parsing"

\* It does so whenever no read ended inside a line or a body.
ProcessReadReturnsUncut == phase = "parsing" /\ ~stray ~> phase # "parsing"

=============================================================================
