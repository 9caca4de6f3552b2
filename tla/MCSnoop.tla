------------------------------ MODULE MCSnoop -------------------------------
(***************************************************************************)
(* A small instance of Snoop: an HTTP/2 connection whose frames are spread *)
(* over its writes, an HTTP/1 one (to a host that is filtered, and with a  *)
(* body that looks like a header), and a second HTTP/2 one, in another     *)
(* container, at the same address as the HTTP/1 one, with a large frame    *)
(* and a header block in two frames; and a connection without HTTP, the    *)
(* third one for a table of two.                                           *)
(***************************************************************************)
EXTENDS Snoop

Preface == <<[kind |-> "preface"]>>
Line(r) == <<[kind |-> "request", path |-> r]>>
Host(h) == <<[kind |-> "host", host |-> h]>>
Blank == <<[kind |-> "blank"]>>
Text == <<[kind |-> "text"]>>

Part(type, end, r, block, i, n) ==
  [kind |-> "frame", type |-> type, end |-> end,
   request |-> [path |-> r, host |-> "a"], block |-> block, part |-> i, of |-> n]

\* A frame of n parts, cut after the first m.
Begin(type, r, block, m, n) == [i \in 1..m |-> Part(type, TRUE, r, block, i, n)]
Rest(type, r, block, m, n) == [i \in 1..(n - m) |-> Part(type, TRUE, r, block, m + i, n)]
Frame(type, r, block, n) == Begin(type, r, block, n, n)

MCConns == {1, 2, 3, 4}
MCPtrOf == <<1, 2, 2, 3>>
MCLibOf == <<1, 1, 2, 2>>

MCStreamOf ==
  << << Preface \o Begin("HEADERS", 1, 0, 1, 2),
        Rest("HEADERS", 1, 0, 1, 2) \o Frame("HEADERS", 2, 1, 1) >>,
     << Line(3) \o Host("b"), Line(4) \o Blank \o Host("a") >>,
     << Preface \o Frame("HEADERS", 5, 0, 1) \o Frame("DATA", 0, 0, 2),
        <<Part("HEADERS", FALSE, 6, 1, 1, 1)>> \o Frame("HEADERS", 7, 2, 1) >>,
     << Text >> >>
=============================================================================
