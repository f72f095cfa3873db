---------------------------- MODULE MCHttpParser ----------------------------
(* Requests for TLC: a valid request line with every choice of up to two   *)
(* header lines that matter, the others with up to one, each with a body   *)
(* of up to two tokens; and a few with stray line ends.                    *)
EXTENDS HttpParser

CRLF == <<"CR", "LF">>

Valid == <<"GET", "PATH", "HTTP/1.1">>

OtherLines ==
    {<<"GET", "ABSOLUTE", "HTTP/1.1">>, <<"POST", "PATH", "HTTP/1.1">>, <<"GET">>}

HeaderLines ==
    {<<"Connection:", "keep-alive">>, <<"Content-Length:", "1">>, <<"Content-Length:", "2">>}

ShortBlocks == {<<>>} \cup {h \o CRLF : h \in HeaderLines \cup {<<"Host:", "x">>}}
HeaderBlocks == ShortBlocks \cup {h \o CRLF \o g \o CRLF : h \in HeaderLines, g \in HeaderLines}

Bodies(s) == {SubSeq(<<"x", "x", "x">>, 1, n) : n \in Announced(s) .. 2}

Assemble(lines, blocks) ==
    UNION { {l \o CRLF \o b \o CRLF \o body : body \in Bodies(l \o CRLF \o b \o CRLF)} :
            l \in lines, b \in blocks }

WellFormed == Assemble({Valid}, HeaderBlocks) \cup Assemble(OtherLines, ShortBlocks)

\* A handful of requests, cut anywhere, and lines that end with CR or LF alone.
Samples ==
    Assemble({Valid, <<"GET", "NOPATH", "HTTP/1.1">>,
              <<"GET", "PATH", "HTTP/1.0">>},
             {<<>>, <<"Connection:", "keep-alive">> \o CRLF, <<"Content-Length:", "2">> \o CRLF,
              <<"Content-Length:", "0">> \o CRLF \o <<"Connection:", "x">> \o CRLF})
    \cup {<<"GET", "PATH", "HTTP/1.1", "LF", "LF">>,
          <<"GET", "PATH", "HTTP/1.1", "CR", "Host:", "x", "CR", "LF", "CR", "LF">>,
          <<"GET", "PATH", "HTTP/1.1", "CR", "LF", "LF", "x">>}

AllRequests == WellFormed \cup Samples

=============================================================================
