---------------------------- MODULE HttpResponse ----------------------------
(***************************************************************************)
(* The answer of one connection (webServer/http_conn.cpp): doRequest()     *)
(* finds the file and maps it, processWrite() fills writeBuffer and the    *)
(* two iovec entries, and write() drives them through writev(), which may  *)
(* take only a part, report EAGAIN or fail.                                *)
(*                                                                         *)
(* A byte is named by where it lies: <<"head", k>> is writeBuffer[k] and   *)
(* <<"file", k>> is fileAddress[k].                                        *)
(***************************************************************************)
EXTENDS Integers, Sequences, SequencesExt

CONSTANTS
    Files,              \* what the URL can name: records [kind, size]
    HeaderPieces,       \* lengths of the status line and the four header parts
    FormLength,         \* length of an error page
    WRITE_BUFFER_SIZE,
    INT_MAX,            \* largest int
    HeaderCuts          \* how many writev() calls of one response may end
                        \* inside writeBuffer

Kinds == {"syntax", "missing", "forbidden", "directory", "regular"}

ASSUME ResponseAssumption ==
    /\ \A f \in Files : f.kind \in Kinds /\ f.size \in Nat
    /\ HeaderPieces \in Seq(Nat \ {0})
    /\ FormLength \in Nat \ {0}
    /\ WRITE_BUFFER_SIZE \in Nat /\ INT_MAX \in Nat \ {0} /\ HeaderCuts \in Nat

VARIABLES
    phase,              \* "reading": the request is being read and parsed;
                        \* "armed": waiting for EPOLLOUT; "writing": in the
                        \* loop of write(); "closed"
    linger, writeIndex, bytesToSend, bytesHaveSend,
    iv,                 \* the two entries: offset of iov_base, iov_len
    ivCount,
    fileAddress,        \* "null", "failed" (MAP_FAILED) or "mapped"
    mappedSize,         \* length of the region at fileAddress
    st_size,            \* fileStat.st_size
    orphan,             \* history: the response the mapping was made for ended
                        \* without unmap()
    wire,               \* bytes of this response accepted by the kernel
    cuts                \* writev() calls of this response that ended in the header

countVars == <<writeIndex, bytesToSend, bytesHaveSend, iv, ivCount>>
fileVars == <<fileAddress, mappedSize, st_size, orphan>>
vars == <<phase, linger, writeIndex, bytesToSend, bytesHaveSend, iv, ivCount,
          fileAddress, mappedSize, st_size, orphan, wire, cuts>>

\* Conversion to int.
ToInt(x) == ((x + INT_MAX + 1) % (2 * (INT_MAX + 1))) - (INT_MAX + 1)

\* The bytes from offset base on, of a memory area.
Bytes(area, base, len) == [k \in 1 .. len |-> <<area, base + k - 1>>]

Init ==
    /\ phase = "reading"
    /\ linger = FALSE
    /\ writeIndex = 0 /\ bytesToSend = 0 /\ bytesHaveSend = 0
    /\ iv = [i \in 0 .. 1 |-> [base |-> 0, len |-> 0]]
    /\ ivCount = 0
    /\ fileAddress = "null" /\ mappedSize = 0 /\ st_size = 0 /\ orphan = FALSE
    /\ wire = <<>>
    /\ cuts = 0

\* The part of init() that concerns the response.
init ==
    /\ linger' = FALSE
    /\ writeIndex' = 0
    /\ bytesToSend' = 0
    /\ bytesHaveSend' = 0

\* munmap(fileAddress, fileStat.st_size)
unmap == fileAddress' = "null" /\ orphan' = FALSE /\ UNCHANGED <<mappedSize, st_size>>

\* A response ends and leaves the file mapped.
leave == orphan' = (fileAddress = "mapped") /\ UNCHANGED <<fileAddress, mappedSize, st_size>>

-----------------------------------------------------------------------------
(* process(): the part after the request has been parsed                   *)

\* addResponse(): what does not fit is dropped.
Room(index) == WRITE_BUFFER_SIZE - 1 - index
addResponse(index, len) == IF len >= Room(index) THEN index ELSE index + len

\* addStatusLine() and addHeaders() ignore the results of addResponse().
HeaderLength == FoldLeft(addResponse, 0, HeaderPieces)

\* doRequest(): stat() fills fileStat unless the file is missing, and a
\* readable regular file is mapped; open() or mmap() may fail unnoticed.
doRequest(f) ==
    /\ st_size' = IF f.kind \in {"syntax", "missing"} THEN st_size ELSE f.size
    /\ IF f.kind = "regular"
       THEN \/ fileAddress' = "mapped" /\ mappedSize' = f.size /\ f.size > 0 /\ orphan' = FALSE
            \/ fileAddress' = "failed" /\ orphan' = FALSE /\ UNCHANGED mappedSize
       ELSE UNCHANGED <<fileAddress, mappedSize, orphan>>

\* Mutant: the header is not counted in bytesToSend.
FileResponseBodyOnly(f) ==
    /\ writeIndex' = HeaderLength
    /\ iv' = [i \in 0 .. 1 |-> IF i = 0 THEN [base |-> 0, len |-> HeaderLength]
                                        ELSE [base |-> 0, len |-> f.size]]
    /\ ivCount' = 2
    /\ bytesToSend' = f.size
    /\ phase' = "armed"

\* processWrite() for FILE_REQUEST.
FileResponse(f) ==
    /\ writeIndex' = HeaderLength
    /\ iv' = [i \in 0 .. 1 |-> IF i = 0 THEN [base |-> 0, len |-> HeaderLength]
                                        ELSE [base |-> 0, len |-> f.size]]
    /\ ivCount' = 2
    /\ bytesToSend' = ToInt(HeaderLength + f.size)
    /\ phase' = "armed"

\* processWrite() for an error page; if the page does not fit, the
\* connection is closed.
ErrorResponse ==
    LET index == addResponse(HeaderLength, FormLength)
    IN  /\ writeIndex' = index
        /\ IF index = HeaderLength
           THEN phase' = "closed" /\ UNCHANGED <<iv, ivCount, bytesToSend>>
           ELSE /\ iv' = [iv EXCEPT ![0] = [base |-> 0, len |-> index]]
                /\ ivCount' = 1
                /\ bytesToSend' = index
                /\ phase' = "armed"

process(f, keep) ==
    /\ phase = "reading"
    /\ f.kind = "syntax" => ~keep
    /\ linger' = keep
    /\ doRequest(f)
    /\ IF f.kind = "regular" THEN FileResponse(f) ELSE ErrorResponse
    /\ wire' = <<>>
    /\ cuts' = 0
    /\ UNCHANGED bytesHaveSend

-----------------------------------------------------------------------------
(* write()                                                                 *)

\* An EPOLLOUT event; nothing to send ends the response at once.
writeStarts ==
    /\ phase = "armed"
    /\ IF bytesToSend = 0
       THEN phase' = "reading" /\ init /\ leave
       ELSE /\ phase' = "writing"
            /\ UNCHANGED <<linger, writeIndex, bytesToSend, bytesHaveSend, fileVars>>
    /\ UNCHANGED <<iv, ivCount, wire, cuts>>

\* What the iovec entries describe, and how much of it can be read.
Gathered ==
    Bytes("head", iv[0].base, iv[0].len)
        \o (IF ivCount = 2 THEN Bytes("file", iv[1].base, iv[1].len) ELSE <<>>)
Readable ==
    iv[0].len + (IF ivCount = 2 /\ fileAddress = "mapped" THEN iv[1].len ELSE 0)

\* Mutant: the file is sent from its start again after a short write.
AdvanceRestartsFile(have, left, n) ==
    IF have >= iv[0].len
    THEN [i \in 0 .. 1 |-> IF i = 0 THEN [iv[0] EXCEPT !.len = 0]
                                    ELSE [base |-> 0, len |-> left]]
    ELSE [iv EXCEPT ![0] = [base |-> have, len |-> iv[0].len - n]]

\* Mutant: the header is taken as sent after the first writev().
AdvanceAlways(have, left, n) ==
    [i \in 0 .. 1 |-> IF i = 0 THEN [iv[0] EXCEPT !.len = 0]
                               ELSE [base |-> have - writeIndex, len |-> left]]

\* The entries after writev() took n bytes: the running total is compared
\* with the length entry 0 has left.
Advance(have, left, n) ==
    IF have >= iv[0].len
    THEN [i \in 0 .. 1 |-> IF i = 0 THEN [iv[0] EXCEPT !.len = 0]
                                    ELSE [base |-> have - writeIndex, len |-> left]]
    ELSE [iv EXCEPT ![0] = [base |-> have, len |-> iv[0].len - n]]

\* writev() takes n bytes; 0 only if there is nothing in the entries.
writev(n) ==
    LET have == bytesHaveSend + n
        left == bytesToSend - n
    IN  /\ phase = "writing"
        /\ n > 0 \/ Gathered = <<>>
        /\ wire' = wire \o SubSeq(Gathered, 1, n)
        /\ cuts' = IF n > 0 /\ have < writeIndex THEN cuts + 1 ELSE cuts
        /\ cuts' <= HeaderCuts
        /\ iv' = Advance(have, left, n)
        /\ IF left > 0
           THEN /\ bytesToSend' = left
                /\ bytesHaveSend' = have
                /\ UNCHANGED <<phase, linger, writeIndex, fileVars>>
           ELSE /\ unmap
                /\ IF linger
                   THEN phase' = "reading" /\ init
                   ELSE /\ phase' = "closed"
                        /\ bytesToSend' = left
                        /\ bytesHaveSend' = have
                        /\ UNCHANGED <<linger, writeIndex>>
        /\ UNCHANGED ivCount

\* EAGAIN, if there are bytes to take: the connection waits for the next
\* EPOLLOUT.
writevBlocks ==
    /\ phase = "writing"
    /\ Gathered # <<>>
    /\ phase' = "armed"
    /\ UNCHANGED <<linger, countVars, fileVars, wire, cuts>>

\* Mutant: the error path does not unmap.
writevFailsLeaks ==
    /\ phase = "writing"
    /\ phase' = "closed"
    /\ UNCHANGED <<linger, countVars, fileVars, wire, cuts>>

\* Any other error, EFAULT of a failed mapping included.
writevFails ==
    /\ phase = "writing"
    /\ unmap
    /\ phase' = "closed"
    /\ UNCHANGED <<linger, countVars, wire, cuts>>

writevReturns == (\E n \in 0 .. Readable : writev(n)) \/ writevBlocks

write == writevReturns \/ writevFails

\* EPOLLRDHUP, EPOLLHUP or EPOLLERR: close_conn() without unmap().
hangUp ==
    /\ phase \in {"reading", "armed"}
    /\ phase' = "closed"
    /\ leave
    /\ UNCHANGED <<linger, countVars, wire, cuts>>

\* init(sockfd, addr) for the next client of the same object.
reconnect ==
    /\ phase = "closed"
    /\ phase' = "reading"
    /\ init
    /\ UNCHANGED <<iv, ivCount, fileVars, wire, cuts>>

Next ==
    \/ \E f \in Files, keep \in BOOLEAN : process(f, keep)
    \/ writeStarts
    \/ write
    \/ hangUp
    \/ reconnect

Spec == Init /\ [][Next]_vars

\* The main thread goes on while it is in the loop of write(): each round
\* gets a result of writev(), but not necessarily an error.
FairSpec == Spec /\ WF_vars(writevReturns)

-----------------------------------------------------------------------------
(* Properties                                                              *)

\* What the client must get, in this order.
Response ==
    Bytes("head", 0, writeIndex)
        \o (IF ivCount = 2 THEN Bytes("file", 0, st_size) ELSE <<>>)

\* The size of the response can be held by bytesToSend.
FitsInt == HeaderLength + st_size <= INT_MAX

\* The fields of the connection hold values of their types.
TypeOK ==
    /\ phase \in {"reading", "armed", "writing", "closed"}
    /\ linger \in BOOLEAN
    /\ writeIndex \in 0 .. WRITE_BUFFER_SIZE
    /\ bytesToSend \in Int /\ bytesHaveSend \in Nat
    /\ \A i \in 0 .. 1 : iv[i].base \in Int /\ iv[i].len \in Int
    /\ iv[0].base >= 0 /\ iv[0].base + iv[0].len <= WRITE_BUFFER_SIZE
    /\ ivCount \in 0 .. 2
    /\ fileAddress \in {"null", "failed", "mapped"}
    /\ mappedSize \in Nat /\ st_size \in Nat
    /\ cuts \in Nat

\* Short writes, EAGAIN and resumed responses never repeat, skip or reorder
\* a byte: what the kernel has is always a prefix of the response, and the
\* two counters of the connection agree with it.
WirePrefix ==
    /\ TypeOK
    /\ phase \in {"armed", "writing"} /\ FitsInt =>
          /\ IsPrefix(wire, Response)
          /\ bytesHaveSend = Len(wire)
          /\ bytesToSend = Len(Response) - Len(wire)

\* write() ends a response as sent only when all of it has been sent.
CompleteWhenDone ==
    [][ phase = "writing" /\ phase' # "writing" /\ wire' # wire /\ FitsInt
            => wire' = Response ]_vars

\* Whichever way write() ends a response (sent and kept, sent and closed, or
\* failed), no mapping is left at fileAddress, not even one that an earlier
\* client of the object left there.  And the length that unmap() passes to
\* munmap, the size of the last file stat() saw, is the length that was mapped,
\* except for a mapping left behind by a connection that hung up (or had
\* nothing to send): the next client of the object unmaps it with the size of
\* its own file.
MappingReleased ==
    [][ /\ phase = "writing" /\ phase' \in {"reading", "closed"} => fileAddress' = "null"
        /\ fileAddress = "mapped" /\ fileAddress' = "null" /\ ~orphan => st_size = mappedSize ]_vars

\* http_conn.h:75 calls write() a non-blocking write: it returns.
WriteReturns == phase = "writing" ~> phase # "writing"

\* The comment at http_conn.cpp:388 says that the branch which empties iv[0]
\* is taken when the header has been sent.
EmptiedMeansHeaderSent ==
    phase = "writing" /\ iv[0].len = 0 => bytesHaveSend >= writeIndex

=============================================================================
