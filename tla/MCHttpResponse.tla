--------------------------- MODULE MCHttpResponse ---------------------------
(* Small responses for TLC: a header of five bytes and files that are      *)
(* empty, small, or too large for an int of INT_MAX.                       *)
EXTENDS HttpResponse

SomeFiles ==
    {[kind |-> "syntax", size |-> 0], [kind |-> "missing", size |-> 0],
     [kind |-> "forbidden", size |-> 2], [kind |-> "directory", size |-> 1]}
        \cup {[kind |-> "regular", size |-> n] : n \in {0, 1, 3, 6}}

OneByteEach == <<1, 1, 1, 1, 1>>

=============================================================================
