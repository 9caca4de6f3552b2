------------------------------- MODULE Snoop --------------------------------
(***************************************************************************)
(* HTTPS snooping (internal/sslsnoop, internal/l7, bpf/sslsnoop.bpf.c):    *)
(* discoverLoop puts a probe on the libssl of every container; the probe   *)
(* copies what is handed to SSL_write into a ring buffer, up to a limit;   *)
(* the reader decodes it per connection, which it knows by the SSL*        *)
(* pointer only.  Pointers are used again, writes are tried again, events  *)
(* are lost, cut or unreadable, and the table of connections is cleared    *)
(* when it is full.                                                        *)
(*                                                                         *)
(* Data is a sequence of pieces: the "preface" of HTTP/2; the lines of     *)
(* HTTP/1, [kind |-> "request", path], [kind |-> "host", host], "blank"    *)
(* and other "text"; and the parts of HTTP/2 frames, [kind |-> "frame",    *)
(* type, end, request, block, part, of].  Part 1 has the frame's header;   *)
(* block counts the header blocks its sender has compressed before.  A     *)
(* request is [path, host].                                                *)
(***************************************************************************)
EXTENDS Integers, FiniteSets, SequencesExt, TLC

CONSTANTS
  Conns,     \* TLS connections
  PtrOf,     \* connection -> its SSL* pointer
  LibOf,     \* connection -> the libssl inode its process has mapped
  StreamOf,  \* connection -> the data of its calls of SSL_write
  Skipped,   \* hosts that the configured filter drops
  MaxData,   \* MAX_DATA, in pieces
  RingSize,  \* capacity of ssl_events
  maxConns,
  MaxFails   \* how many attachments fail (bound)

VARIABLES
  running,   \* libraries of running containers
  attached,  \* libraries with a probe
  failed,    \* libraries for which an error was logged
  dpc, found,\* where discoverLoop is, and what it has still to look at
  fails,
  sent,      \* connection -> how many of its writes are done
  ring,      \* events: [conn, data]
  conns,     \* pointer -> connState, with the connection it is used for now
  handled,   \* history: connection -> how many of its events were handled
  reported,  \* connection -> requests emitted for it, while it is not spoilt
  spoilt     \* history: connections something went wrong for

dvars == <<running, attached, failed, dpc, found, fails>>
svars == <<sent, ring, conns, handled, reported, spoilt>>
vars == <<dvars, svars>>

Libs == {LibOf[c] : c \in Conns}

Init ==
  /\ running = {}
  /\ attached = {}
  /\ failed = {}
  /\ dpc = "scan"
  /\ found = {}
  /\ fails = 0
  /\ sent = [c \in Conns |-> 0]
  /\ ring = <<>>
  /\ conns = <<>>
  /\ handled = [c \in Conns |-> 0]
  /\ reported = [c \in Conns |-> <<>>]
  /\ spoilt = {}

-----------------------------------------------------------------------------
(* discoverLoop.                                                           *)

StartContainer(l) ==
  /\ running' = running \cup {l}
  /\ UNCHANGED <<attached, failed, dpc, found, fails, svars>>

\* Bound: not after it got its probe; from then on its connections just end.
ExitContainer(l) ==
  /\ l \notin attached
  /\ running' = running \ {l}
  /\ UNCHANGED <<attached, failed, dpc, found, fails, svars>>

\* Fault: a library that failed is not looked at again.
DiscoverOnce ==
  /\ dpc = "scan"
  /\ dpc' = "attach"
  /\ found' = running \ (attached \cup failed)
  /\ UNCHANGED <<running, attached, failed, fails, svars>>

\* One round begins: the libraries that are there and have no probe.
Discover ==
  /\ dpc = "scan"
  /\ dpc' = "attach"
  /\ found' = running \ attached
  /\ UNCHANGED <<running, attached, failed, fails, svars>>

\* Opening the library or placing the probe may fail, certainly once the process
\* is gone whose root directory it was found in.
Attach(l) ==
  /\ dpc = "attach"
  /\ l \in found
  /\ found' = found \ {l}
  /\ \/ /\ l \in running
        /\ attached' = attached \cup {l}
        /\ failed' = failed \ {l}
        /\ UNCHANGED fails
     \/ /\ l \notin running \/ fails < MaxFails
        /\ failed' = failed \cup {l}
        /\ fails' = IF l \in running THEN fails + 1 ELSE fails
        /\ UNCHANGED attached
  /\ UNCHANGED <<running, dpc, svars>>

\* The ticker starts another round.
NextRound ==
  /\ dpc = "attach"
  /\ found = {}
  /\ dpc' = "scan"
  /\ UNCHANGED <<running, attached, failed, found, fails, svars>>

-----------------------------------------------------------------------------
(* The probe, at the entry of SSL_write.                                   *)

Clamped(data) == SubSeq(data, 1, IF Len(data) < MaxData THEN Len(data) ELSE MaxData)

\* The event, if the ring has room; its data is empty when it cannot be read.
Capture(c, data) ==
  IF LibOf[c] \in attached /\ Len(ring) < RingSize
  THEN \E d \in {Clamped(data), <<>>} :
         /\ ring' = Append(ring, [conn |-> c, data |-> d])
         /\ spoilt' = IF d = data THEN spoilt ELSE spoilt \cup {c}
  ELSE UNCHANGED ring /\ spoilt' = spoilt \cup {c}

SSL_write(c) ==
  /\ LibOf[c] \in running
  /\ sent[c] < Len(StreamOf[c])
  /\ sent' = [sent EXCEPT ![c] = @ + 1]
  /\ Capture(c, StreamOf[c][sent[c] + 1])
  /\ UNCHANGED <<dvars, conns, handled, reported>>

\* A call that could not write yet and will be made again: the probe is at its
\* entry and sees the data twice.  Bound: once per connection.
SSL_writeAgain(c) ==
  /\ LibOf[c] \in attached \cap running
  /\ sent[c] < Len(StreamOf[c])
  /\ c \notin spoilt
  /\ Len(ring) < RingSize
  /\ ring' = Append(ring, [conn |-> c, data |-> Clamped(StreamOf[c][sent[c] + 1])])
  /\ spoilt' = spoilt \cup {c}
  /\ UNCHANGED <<dvars, sent, conns, handled, reported>>

-----------------------------------------------------------------------------
(* The reader.                                                             *)

IsRequest(data) == data[1].kind = "request"

\* The last Host header counts; headers end at the blank line.
ParseRequest(data) ==
  LET blank == SelectInSeq(data, LAMBDA d : d.kind = "blank")
      headers == IF blank = 0 THEN data ELSE SubSeq(data, 1, blank)
      i == SelectLastInSeq(headers, LAMBDA d : d.kind = "host")
  IN  [path |-> data[1].path, host |-> IF i = 0 THEN "" ELSE headers[i].host]

HasPreface(data) == data[1].kind = "preface"

\* A decoder: what is not a whole frame yet, the header blocks that went into
\* the compression table, the requests found, and whether it lost track.
NewH2Conn == [buf |-> <<>>, blocks |-> 0, out |-> <<>>, garbled |-> FALSE]

\* Out of step with frames or table, what is in the buffer does not matter: the
\* decoder may find anything, or nothing.
Garbled(h) == [h EXCEPT !.buf = <<>>, !.garbled = TRUE]

\* parseHeaders: a block makes sense only after those its sender has used.
parseHeaders(h, payload) ==
  LET f == payload[1]
  IN  IF /\ f.block = h.blocks
         /\ \A i \in DOMAIN payload : payload[i] = [f EXCEPT !.part = i]
      THEN [h EXCEPT !.blocks = @ + 1, !.out = Append(@, f.request)]
      ELSE Garbled(h)

\* The frames at the front of the buffer.  Its header gives a frame its length,
\* whatever the bytes are that follow; only HEADERS frames that end the block
\* are decoded.
RECURSIVE Frames(_)
Frames(h) ==
  IF h.garbled \/ h.buf = <<>> THEN h
  ELSE LET f == Head(h.buf)
           rest == [h EXCEPT !.buf = SubSeq(@, f.of + 1, Len(@))]
       IN  IF f.kind # "frame" \/ f.part # 1 THEN Garbled(h)
           ELSE IF Len(h.buf) < f.of THEN h
           ELSE IF f.type = "HEADERS" /\ f.end
                THEN Frames(parseHeaders(rest, SubSeq(h.buf, 1, f.of)))
           ELSE Frames(rest)

\* Fault: an incomplete frame is dropped.
FeedUnbuffered(h, data) == [Frames([h EXCEPT !.buf = data]) EXCEPT !.buf = <<>>]

Feed(h, data) == Frames([h EXCEPT !.buf = @ \o data])

\* What the connection's state becomes, and the requests in the data.
Decode(s, data) ==
  LET http2(h, d) == [mode |-> "HTTP2", h2 |-> Feed(h, d)]
  IN  CASE s.mode = "Unknown" /\ HasPreface(data) -> http2(NewH2Conn, Tail(data))
        [] s.mode = "Unknown" /\ ~HasPreface(data) ->
             [s EXCEPT !.mode = IF IsRequest(data) THEN "HTTP1" ELSE "Ignore"]
        [] s.mode = "HTTP2" -> http2(s.h2, data)
        [] OTHER -> s

\* The requests that are found, and those that are emitted.
Requests(s, data) ==
  CASE s.mode = "HTTP1" /\ IsRequest(data) -> <<ParseRequest(data)>>
    [] s.mode = "HTTP2" -> s.h2.out
    [] OTHER -> <<>>

emit(requests) == SelectSeq(requests, LAMBDA r : r.host \notin Skipped)

Unknown == [mode |-> "Unknown", h2 |-> NewH2Conn]

\* The table the event's connection is looked up in: a full one is cleared before
\* another pointer is added.
Table(p) ==
  IF p \notin DOMAIN conns /\ Cardinality(DOMAIN conns) >= maxConns THEN <<>>
  ELSE conns

\* handle(): an event without data is skipped.
handle ==
  LET e == Head(ring)
      c == e.conn
      p == PtrOf[c]
      before == IF p \in DOMAIN conns THEN conns[p].state ELSE Unknown
      after == Decode(before, e.data)
  IN  /\ ring # <<>>
      /\ ring' = Tail(ring)
      /\ IF e.data = <<>> THEN UNCHANGED <<conns, handled, reported, spoilt>>
         ELSE /\ conns' = (p :> [state |-> [after EXCEPT !.h2.out = <<>>], conn |-> c])
                           @@ Table(p)
              /\ spoilt' = IF \/ p \in DOMAIN conns /\ conns[p].conn # c
                              \/ p \notin DOMAIN conns /\ handled[c] > 0
                           THEN spoilt \cup {c} ELSE spoilt
              /\ handled' = [handled EXCEPT ![c] = IF c \in spoilt' THEN 1 ELSE @ + 1]
              /\ reported' = [reported EXCEPT ![c] =
                                IF c \in spoilt' THEN <<>>
                                ELSE @ \o emit(Requests(after, e.data))]
      /\ UNCHANGED <<dvars, sent>>

-----------------------------------------------------------------------------
Next ==
  \/ \E l \in Libs \ running : StartContainer(l)
  \/ \E l \in running : ExitContainer(l)
  \/ Discover \/ (\E l \in found : Attach(l)) \/ NextRound
  \/ \E c \in Conns : SSL_write(c) \/ SSL_writeAgain(c)
  \/ handle

Spec == Init /\ [][Next]_vars

\* discoverLoop runs on; containers and connections owe nothing.
FairSpec ==
  Spec /\ WF_vars(Discover \/ (\E l \in found : Attach(l)) \/ NextRound)

-----------------------------------------------------------------------------
\* The requests that are complete in the first n writes of a stream: a write that
\* begins with a request line holds its headers, too.
RequestsIn(stream, n) ==
  LET ends(d) == \/ d.kind = "request"
                 \/ d.kind = "frame" /\ d.type = "HEADERS" /\ d.part = d.of
      hostIn(w) == {w[j].host : j \in {j \in DOMAIN w :
                      w[j].kind = "host" /\ \A k \in 1..j : w[k].kind # "blank"}}
      written(w) ==
        LET last == SelectSeq(w, ends)
        IN  [i \in DOMAIN last |->
               IF last[i].kind = "frame" THEN last[i].request
               ELSE [path |-> last[i].path,
                     host |-> CHOOSE h \in hostIn(w) \cup {""} :
                                h = "" => hostIn(w) = {}]]
  IN  FlattenSeq([i \in 1..n |-> written(stream[i])])

\* What the decoder can follow: HTTP/2 after a preface that is written at once,
\* with blocks in one frame, or HTTP/1 from the first write on.
Decodable(stream) ==
  \/ /\ HasPreface(stream[1])
     /\ \A i \in DOMAIN stream : \A j \in DOMAIN stream[i] :
          stream[i][j].kind = "frame" /\ stream[i][j].type = "HEADERS"
            => stream[i][j].end
  \/ /\ IsRequest(stream[1])
     /\ \A i \in DOMAIN stream : \A j \in DOMAIN stream[i] :
          /\ stream[i][j].kind \in {"request", "host", "blank", "text"}
          /\ stream[i][j].kind = "request" => j = 1

\* Every request of a connection that the filter lets through is reported, once
\* and in order, as soon as the event with its last byte is handled, if all
\* events of the connection were recorded whole and it had its table entry to
\* itself (sslsnoop.go:5-6): frames may be spread over writes in any way, and
\* other connections be interleaved, lost, cut, repeated or garbled as they like.
CaptureIsComplete ==
  \A c \in Conns : c \notin spoilt /\ Decodable(StreamOf[c]) =>
    reported[c] = SelectSeq(RequestsIn(StreamOf[c], handled[c]),
                            LAMBDA r : r.host \notin Skipped)

\* No library of a container that keeps running stays without its probe, although
\* single attempts fail (sslsnoop.go:186-187).
EveryLibraryProbed ==
  \A l \in Libs : []<>(l \in attached \/ l \notin running)
=============================================================================
