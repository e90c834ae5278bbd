----------------------------- MODULE ByteStream -----------------------------
(***************************************************************************)
(* The two loops of a connection at the level of bytes: write_all of a     *)
(* packet's bytes, which the socket takes piece by piece, and the          *)
(* read_exact of a header and of the body whose length the header states.  *)
(*                                                                         *)
(* A byte is a position in a packet: byte number at of the n-th packet of  *)
(* its direction. Bytes read out of step have no meaning of their own, so  *)
(* a header taken from such bytes is any header.                           *)
(*                                                                         *)
(* A TLS stream takes bytes over from the write task before the socket has *)
(* room for them and keeps them until it is written to or flushed again;   *)
(* the loops of tls_connection.rs are otherwise those of TCP.              *)
(***************************************************************************)
EXTENDS Naturals, Sequences, FiniteSets, FiniteSetsExt

CONSTANTS
  HeaderLen,   \* TACACS_HEADER_LENGTH, 12
  MaxBody,     \* bound of the model: the longest body a header states
  Limits,      \* bound of the model: numbers of packets sent in each direction
  Transports,  \* the streams a connection may run over, of "tcp" and "tls"
  Keyed,       \* the connection has an obfuscation_key, and the server the same
  Faults       \* a subset of {"bad_header", "close", "write_error"}

ASSUME ByteStreamAssumption ==
  /\ HeaderLen \in Nat /\ HeaderLen >= 1
  /\ MaxBody \in Nat
  /\ Limits \subseteq [requests : Nat, replies : Nat]
  /\ Transports \subseteq {"tcp", "tls"}
  /\ Keyed \in BOOLEAN
  /\ Faults \subseteq {"bad_header", "close", "write_error"}

\* What the loops look at in a header: the length, TAC_PLUS_UNENCRYPTED_FLAG
\* (clear), and whether Header::from_bytes accepts it.
Packet == [length : 0 .. MaxBody, clear : BOOLEAN, decodes : BOOLEAN]

\* Packet::to_obfuscated and to_deobfuscated, in a connection that has a key:
\* the flag changes together with the body.
Outgoing(p) == IF Keyed THEN [p EXCEPT !.clear = FALSE] ELSE p
Incoming(p) == IF Keyed THEN [p EXCEPT !.clear = TRUE] ELSE p

\* Sessions make packets with the flag set; servers obfuscate or do not.
Requests == {p \in Packet : p.clear /\ p.decodes}
Replies == {p \in Packet : p.decodes \/ "bad_header" \in Faults}

\* Packet::to_bytes: the header, then the body.
Size(p) == HeaderLen + p.length
Bytes(p, k) == [j \in 1 .. Size(p) |-> [n |-> k, at |-> j, of |-> p]]

VARIABLES
  transport,  \* the stream of this connection
  limit,      \* bound of the model: how many packets are sent
  queued,     \* history: packets put in the connection's channel
  channel,    \* those the write task has not received
  writer,     \* "recv", "write", "ended"
  writing,    \* bytes of the packet being written that are left
  held,       \* bytes in the stream's own buffer, on their way to the socket
  received,   \* bytes that reached the server
  open,       \* the server has not closed
  sent,       \* packets the server has sent
  wire,       \* their bytes that read_exact has not taken
  reader,     \* "header", "body", "handing" (a packet over), "ended"
  buffer,     \* bytes read_exact has so far
  header,     \* the header of the body being read
  delivered   \* history: arguments of send_message_to_session

writeVars == <<transport, limit, queued, channel, writer, writing, held, received>>
readVars == <<reader, buffer, header, delivered>>
vars == <<writeVars, open, sent, wire, readVars>>

NoHeader == [length |-> 0, clear |-> TRUE, decodes |-> FALSE]

Init ==
  /\ transport \in Transports
  /\ limit \in Limits
  /\ queued = <<>>
  /\ channel = <<>>
  /\ writer = "recv"
  /\ writing = <<>>
  /\ held = <<>>
  /\ received = <<>>
  /\ open = TRUE
  /\ sent = <<>>
  /\ wire = <<>>
  /\ reader = "header"
  /\ buffer = <<>>
  /\ header = NoHeader
  /\ delivered = <<>>

Drop(q, k) == SubSeq(q, k + 1, Len(q))
Take(q, k) == SubSeq(q, 1, k)

-----------------------------------------------------------------------------
Enqueue(p) ==
  /\ writer # "ended"
  /\ Len(queued) < limit.requests
  /\ queued' = Append(queued, p)
  /\ channel' = Append(channel, p)
  /\ UNCHANGED <<transport, limit, writer, writing, held, received, open, sent, wire, readVars>>

\* The packet is converted and turned into bytes; it is the k-th one.
WriterRecv ==
  /\ writer = "recv"
  /\ channel # <<>>
  /\ writing' = Bytes(Outgoing(Head(channel)), Len(queued) - Len(channel) + 1)
  /\ channel' = Tail(channel)
  /\ writer' = "write"
  /\ UNCHANGED <<transport, limit, queued, held, received, open, sent, wire, readVars>>

\* How many of the bytes it is to send the stream gets rid of at once: a TCP
\* stream accepts only what the socket takes, a TLS stream more than that.
TakenBySocket(bytes) ==
  IF transport = "tls" THEN 0 .. Len(bytes) ELSE {Len(bytes)}

\* The stream accepts k bytes of the packet. What the socket takes goes nowhere if
\* the peer has closed.
Accept(k) ==
  LET unsent == held \o Take(writing, k)
  IN \E n \in TakenBySocket(unsent) :
       /\ held' = Drop(unsent, n)
       /\ received' = IF open THEN received \o Take(unsent, n) ELSE received

\* Mutant: write instead of write_all.
WriteSomeOnce ==
  /\ writer = "write"
  /\ \E k \in 1 .. Len(writing) : Accept(k)
  /\ writing' = <<>>
  /\ writer' = "recv"
  /\ UNCHANGED <<transport, limit, queued, channel, open, sent, wire, readVars>>

\* One write of write_all, which goes on until the whole packet is accepted. The
\* loop does not flush the stream then.
WriteSome ==
  /\ writer = "write"
  /\ \E k \in 1 .. Len(writing) :
       /\ Accept(k)
       /\ writing' = Drop(writing, k)
  /\ writer' = IF writing' = <<>> THEN "recv" ELSE "write"
  /\ UNCHANGED <<transport, limit, queued, channel, open, sent, wire, readVars>>

\* Mutant: a failed write is logged and the loop goes on with the next packet.
WriteFailedSkips ==
  /\ writer = "write"
  /\ ~open \/ "write_error" \in Faults
  /\ writer' = "recv"
  /\ writing' = <<>>
  /\ UNCHANGED <<transport, limit, queued, channel, held, received, open, sent, wire, readVars>>

\* write_all fails, with any number of the packet's bytes already sent: the
\* task ends, the packets still queued go with its receiver, and nobody writes to
\* the stream any more, which is what would get rid of the bytes it holds.
WriteFailed ==
  /\ writer = "write"
  /\ ~open \/ "write_error" \in Faults
  /\ writer' = "ended"
  /\ writing' = <<>>
  /\ held' = <<>>
  /\ channel' = <<>>
  /\ UNCHANGED <<transport, limit, queued, received, open, sent, wire, readVars>>

-----------------------------------------------------------------------------
ServerSend(p) ==
  /\ open
  /\ Len(sent) < limit.replies
  /\ sent' = Append(sent, p)
  /\ wire' = wire \o Bytes(p, Len(sent) + 1)
  /\ UNCHANGED <<writeVars, open, readVars>>

\* The server closes. What it sent is still on the wire, as far as it came: it
\* may have stopped inside a packet, and a reset loses what was not yet read.
ServerClose ==
  /\ "close" \in Faults
  /\ open
  /\ open' = FALSE
  /\ \E k \in 0 .. Len(wire) : wire' = Take(wire, k)
  /\ UNCHANGED <<writeVars, sent, readVars>>

-----------------------------------------------------------------------------
\* How many bytes the current read_exact is to fill.
Wanted == IF reader = "header" THEN HeaderLen ELSE header.length

Reading == reader \in {"header", "body"}

\* Mutant: read instead of read_exact, into a buffer that grows.
ReadSomeGreedy ==
  /\ Reading
  /\ \E k \in 1 .. Len(wire) :
       /\ buffer' = buffer \o Take(wire, k)
       /\ wire' = Drop(wire, k)
  /\ UNCHANGED <<writeVars, open, sent, reader, header, delivered>>

\* The socket has some of them.
ReadSome ==
  /\ Reading
  /\ \E k \in 1 .. Len(wire) :
       /\ Len(buffer) + k <= Wanted
       /\ buffer' = buffer \o Take(wire, k)
       /\ wire' = Drop(wire, k)
  /\ UNCHANGED <<writeVars, open, sent, reader, header, delivered>>

\* Mutant: the loop ends when the peer closes, whatever is left to be read.
ReadFailedEarly ==
  /\ Reading
  /\ ~open
  /\ reader' = "ended"
  /\ buffer' = <<>>
  /\ UNCHANGED <<writeVars, open, sent, wire, header, delivered>>

\* End of file before the buffer is full.
ReadFailed ==
  /\ Reading
  /\ Len(buffer) < Wanted
  /\ ~open /\ wire = <<>>
  /\ reader' = "ended"
  /\ buffer' = <<>>
  /\ UNCHANGED <<writeVars, open, sent, wire, header, delivered>>

\* What Header::from_bytes can make of the bytes: the packet's own header if
\* they are one, anything otherwise.
Headers(bytes) ==
  IF \A j \in 1 .. HeaderLen : bytes[j].n = bytes[1].n /\ bytes[j].at = j
  THEN {bytes[1].of}
  ELSE Packet

HeaderComplete == reader = "header" /\ Len(buffer) = HeaderLen

ReadHeader ==
  /\ HeaderComplete
  /\ \E h \in Headers(buffer) :
       /\ h.decodes
       /\ header' = h
  /\ reader' = "body"
  /\ buffer' = <<>>
  /\ UNCHANGED <<writeVars, open, sent, wire, delivered>>

\* The error is logged and the loop goes on with the next header.
SkipHeader ==
  /\ HeaderComplete
  /\ \E h \in Headers(buffer) : ~h.decodes
  /\ buffer' = <<>>
  /\ UNCHANGED <<writeVars, open, sent, wire, reader, header, delivered>>

\* Mutant: the body's buffer is handed over as far as one read filled it.
ReadBodyShort ==
  /\ reader = "body"
  /\ Len(buffer) <= header.length
  /\ delivered' = Append(delivered, Incoming(header))
  /\ reader' = "handing"
  /\ buffer' = <<>>
  /\ header' = NoHeader
  /\ UNCHANGED <<writeVars, open, sent, wire>>

\* Packet::new succeeds, as the buffer has the length of the header; the packet
\* is deobfuscated and given to send_message_to_session, which is awaited.
ReadBody ==
  /\ reader = "body"
  /\ Len(buffer) = header.length
  /\ delivered' = Append(delivered, Incoming(header))
  /\ reader' = "handing"
  /\ buffer' = <<>>
  /\ header' = NoHeader
  /\ UNCHANGED <<writeVars, open, sent, wire>>

\* The await returns, at once or when the session has room for its packet; what it
\* returns is ignored.
HandedOver ==
  /\ reader = "handing"
  /\ reader' = "header"
  /\ UNCHANGED <<writeVars, open, sent, wire, buffer, header, delivered>>

ReaderStep == ReadSome \/ ReadFailed \/ ReadHeader \/ SkipHeader \/ ReadBody

Next ==
  \/ \E p \in Requests : Enqueue(p)
  \/ WriterRecv
  \/ WriteSome
  \/ WriteFailed
  \/ \E p \in Replies : ServerSend(p)
  \/ ServerClose
  \/ ReaderStep
  \/ HandedOver

Spec == Init /\ [][Next]_vars

\* The loops are polled when the socket or the channel is ready. That a session takes
\* the packet handed to it is not assumed.
FairSpec ==
  /\ Spec
  /\ WF_vars(WriterRecv) /\ WF_vars(WriteSome \/ WriteFailed)
  /\ WF_vars(ReaderStep)

-----------------------------------------------------------------------------
\* Type invariant of both loops and the socket.
TypeOK ==
  /\ transport \in Transports /\ (held # <<>> => transport = "tls")
  /\ limit \in Limits
  /\ queued \in Seq(Requests) /\ channel \in Seq(Requests)
  /\ writer \in {"recv", "write", "ended"} /\ (writer = "write" <=> writing # <<>>)
  /\ open \in BOOLEAN
  /\ sent \in Seq(Replies)
  /\ reader \in {"header", "body", "handing", "ended"} /\ Len(buffer) <= Wanted
  /\ header \in Packet
  /\ delivered \in Seq(Packet)

\* The byte that follows b in the stream of its direction.
Follows(c, b) ==
  IF b.at < Size(b.of) THEN c.n = b.n /\ c.at = b.at + 1 ELSE c.n = b.n + 1 /\ c.at = 1

\* The server receives the queued packets in the order of the channel, each
\* obfuscated if there is a key, and never the rest of the stream after a packet
\* of which it got a part, however the write task ends.
ServerSeesPackets ==
  /\ \A j \in DOMAIN received : received[j].of = Outgoing(queued[received[j].n])
  /\ received # <<>> => received[1].n = 1 /\ received[1].at = 1
  /\ \A j \in 1 .. Len(received) - 1 : Follows(received[j + 1], received[j])

\* The packets before the first header that does not decode.
InStep == {k \in DOMAIN sent : \A j \in 1 .. k : sent[j].decodes}

\* The read loop implements a stream of packets: what send_message_to_session
\* gets is what the server sent, in order, whole, once, and deobfuscated. The
\* promise ends with the first header that does not decode.
Inbound ==
  INSTANCE PacketStream WITH
    Message <- Replies,
    Seen <- Incoming,
    got <- SubSeq(delivered, 1, Min({Len(delivered), Cardinality(InStep)}))
InboundStream == Inbound!Spec

MaxRequests == Max({l.requests : l \in Limits})
MaxReplies == Max({l.replies : l \in Limits})

LastByteOf(k) == \E j \in DOMAIN wire : wire[j].n = k /\ wire[j].at = Size(wire[j].of)

\* As long as sessions take their packets, so that the read loop does not wait for one
\* of them for ever, a packet that has arrived as a whole is handed over, also when
\* the peer has closed in the meantime and when its body is empty.
ArrivedIsDelivered ==
  []<>(reader # "handing") =>
    \A k \in 1 .. MaxReplies :
      /\ ~open /\ k \in InStep /\ LastByteOf(k) ~> Len(delivered) >= k
      /\ k \in InStep ~> Len(delivered) >= k \/ ~open

ReachedServer(k) ==
  \E j \in DOMAIN received : received[j].n = k /\ received[j].at = Size(received[j].of)

\* Over TCP, every packet put in the connection's channel reaches the server to
\* its last byte while the connection stands, in whatever pieces the socket takes
\* it and whether or not another packet ever follows.
TcpPacketsReachServer ==
  \A k \in 1 .. MaxRequests :
    transport = "tcp" /\ Len(queued) >= k
      ~> ReachedServer(k) \/ ~open \/ writer = "ended"

\* tls_connection.rs:88-92: after write_all a packet is "sent to network".
SentPacketsReachServer ==
  \A k \in 1 .. MaxRequests :
    writer = "recv" /\ Len(queued) - Len(channel) >= k
      ~> ReachedServer(k) \/ ~open \/ writer = "ended"

\* tcp_connection.rs:179: the body is always read, to prevent the stream from
\* getting out of sync: where a header is expected, a packet starts.
StaysInSync ==
  reader = "header" /\ buffer = <<>> /\ wire # <<>> => wire[1].at = 1
=============================================================================
