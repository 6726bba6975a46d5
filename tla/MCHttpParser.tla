---------------------------- MODULE MCHttpParser ----------------------------
(* What the client sends (the start page, messages to read, a message to   *)
(* leave, also with a separator in its text or in the user's name, or with *)
(* what looks like a request line and a header), a page that a browser     *)
(* asks for, and a HEAD.                                                   *)
EXTENDS HttpParser

Ask(m, p) == [method |-> m, path |-> p, text |-> <<>>]
Leave(t) == [method |-> "POST", path |-> "msg", text |-> t]

MCHello == Ask("GET", Index)
MCRequests == {MCHello, Ask("GET", "0@5"), Ask("HEAD", Index), Ask("GET", "icon")}
              \cup {Leave(t) : t \in {<<"n@x">>, <<"GET", ":", " ", "n@x">>,
                                      <<"n@x", "^", "y">>, <<"n", "^", "m@x">>}}
=============================================================================
