------------------------------ MODULE Encoding ------------------------------
(***************************************************************************)
(* The message library: bodies of accounting requests and replies, packet  *)
(* headers, packets and their obfuscation, as operators on sequences of    *)
(* bytes; and the way of one message through them, from the Session or     *)
(* the server that makes it to the loop that reads it.                     *)
(*                                                                         *)
(* Lengths and offsets are those of the code. The width of a byte is a     *)
(* parameter, so that a field can be too long for it.                      *)
(***************************************************************************)
EXTENDS Naturals, Sequences, SequencesExt

CONSTANTS
  Nibble,     \* 2^4 in the code
  Major,      \* the major version, 12 in the code
  NotText,    \* bytes that do not occur in UTF-8
  Corrupt,    \* what a damaged byte may be
  Service, CmdPrefix, ArgPrefix, \* "service=shell", "cmd=", "cmd-arg="
  ExclusiveOr(_, _),  \* exclusive or of two bytes
  Hash(_),    \* md5
  HashLen,    \* 16 in the code
  Key,        \* the obfuscation key
  Headers,    \* session id and sequence number of the packets that are sent
  Requests,   \* the requests and replies that are sent
  Replies,
  Error, Panic, NoPacket

ByteMod == Nibble * Nibble
Byte == 0 .. ByteMod - 1
WordMod == ByteMod * ByteMod
Quad == 0 .. WordMod * WordMod - 1   \* what four bytes hold

\* Mutant: a length is not cut to its field.
U8Wide(n) == n

U8(n) == n % ByteMod
U16(n) == <<U8(n \div ByteMod), U8(n)>>
U32(n) ==
  LET m == n \div WordMod IN <<U8(m \div ByteMod), U8(m), U8(n \div ByteMod), U8(n)>>

\* read_u16 and read_u32, big-endian, from the k-th byte.
U16At(data, k) == data[k] * ByteMod + data[k + 1]
U32At(data, k) == U16At(data, k) * WordMod + U16At(data, k + 2)

\* Where the k-th of the strings of these sizes ends, from where the first begins.
Ends(sizes) ==
  LET end[k \in 0 .. Len(sizes)] == IF k = 0 THEN 0 ELSE end[k - 1] + sizes[k]
  IN end
Total(sizes) == Ends(sizes)[Len(sizes)]

\* The strings of these sizes, one after the other.
StringsAt(data, start, sizes) ==
  [k \in DOMAIN sizes |->
     SubSeq(data, start + Ends(sizes)[k - 1] + 1, start + Ends(sizes)[k])]

IsText(strings) ==
  \A k \in DOMAIN strings : \A j \in DOMAIN strings[k] : strings[k][j] \notin NotText

\* read_string, for each size from where the one before ended: enough data is
\* left, and it is UTF-8.
Readable(data, start, sizes) ==
  start + Total(sizes) <= Len(data) /\ IsText(StringsAt(data, start, sizes))

-----------------------------------------------------------------------------
\* The values from_bits and try_from_primitive accept.
AccountingFlags == {n \in 0 .. 14 : n % 2 = 0}   \* START 2, STOP 4, WATCHDOG 8
AuthenMethods == (0 .. 6) \cup {8, 16, 17, 32}
AuthenTypes == (0 .. 6) \ {4}
AuthenServices == (0 .. 9) \ {4}
Statuses == {1, 2, 33}

\* The first five bytes of a request; every privilege level is accepted.
Fixed == <<AccountingFlags, AuthenMethods, Byte, AuthenTypes, AuthenServices>>

-----------------------------------------------------------------------------
\* An accounting request: five bytes of enumerations and the privilege level,
\* and the strings user, port, rem_address, arg_1, .., arg_N.
ArgCount(r) == Len(r.strings) - 3

\* Mutant: the sizes of the arguments are left out.
RequestBytesNoSizes(r) ==
  r.fixed \o [i \in 1 .. 3 |-> U8(Len(r.strings[i]))] \o <<U8(ArgCount(r))>>
    \o FlattenSeq(r.strings)

RequestBytes(r) ==
  LET size(i) == U8(Len(r.strings[i])) IN
  r.fixed \o [i \in 1 .. 3 |-> size(i)] \o <<U8(ArgCount(r))>>
    \o [i \in 1 .. ArgCount(r) |-> size(i + 3)]
    \o FlattenSeq(r.strings)

RequestMinLen == 9

HasSizes(data) == Len(data) >= RequestMinLen /\ Len(data) >= RequestMinLen + data[9]

\* Mutant: the last argument is left out.
RequestSizesButLast(data) ==
  SubSeq(data, 6, 8) \o SubSeq(data, RequestMinLen + 1, RequestMinLen + data[9] - 1)

\* The sizes of a request's strings, if the data has them all.
RequestSizes(data) ==
  SubSeq(data, 6, 8) \o SubSeq(data, RequestMinLen + 1, RequestMinLen + data[9])

RequestFromBytes(data) ==
  LET start == RequestMinLen + data[9]
      sizes == RequestSizes(data)
  IN IF /\ HasSizes(data)
        /\ \A i \in 1 .. 5 : data[i] \in Fixed[i]
        /\ Readable(data, start, sizes)
     THEN [fixed |-> SubSeq(data, 1, 5), strings |-> StringsAt(data, start, sizes)]
     ELSE Error

\* Mutant: the least length is counted one too high.
RequestSizeOver(data) == RequestMinLen + 1 + Total(RequestSizes(data))

\* size_from_bytes indexes the data without a look at its length, and does not
\* count the bytes that hold the arguments' sizes.
RequestSize(data) == RequestMinLen + Total(RequestSizes(data))

RequestFromPacket(body) ==
  IF ~HasSizes(body) THEN Panic
  ELSE IF Len(body) < RequestSize(body) THEN Error
  ELSE RequestFromBytes(body)

\* tacon's accounting command: START and STOP at once for the command line, each
\* of its words a string of its own.
TaconRequest(user, port, remAddr, cmd, args) ==
  [ fixed |-> <<6, 1, 0, 0, 0>>,
    strings |-> <<user, port, remAddr, Service, CmdPrefix \o cmd>>
                  \o [k \in DOMAIN args |-> ArgPrefix \o args[k]] ]

-----------------------------------------------------------------------------
ReplyBytes(r) == U16(Len(r.msg)) \o U16(Len(r.data)) \o <<r.status>> \o r.msg \o r.data

ReplySizes(data) == <<U16At(data, 1), U16At(data, 3)>>

ReplyMinLen == 5

ReplyFromBytes(data) ==
  IF /\ Len(data) >= ReplyMinLen
     /\ data[5] \in Statuses
     /\ Readable(data, ReplyMinLen, ReplySizes(data))
  THEN LET strings == StringsAt(data, ReplyMinLen, ReplySizes(data))
       IN [status |-> data[5], msg |-> strings[1], data |-> strings[2]]
  ELSE Error

ReplyFromPacket(body) ==
  IF Len(body) < 4 \/ Len(body) < ReplyMinLen + Total(ReplySizes(body)) THEN Error
  ELSE ReplyFromBytes(body)

-----------------------------------------------------------------------------
HeaderLen == 12
Minors == {0, 1}
Types == 1 .. 3
KnownFlags == {0, 1, 4, 5}   \* TAC_PLUS_UNENCRYPTED_FLAG 1, SINGLE_CONNECT 4

IsClear(h) == h.flags % 2 = 1
Version(h) == h.major * Nibble + h.minor

HeaderBytes(h) ==
  <<Version(h), h.type, h.seq, h.flags>> \o U32(h.id) \o U32(h.length)

\* Mutant: unknown flags are dropped, as bitflags' from_bits_truncate does.
FlagsFromBitsTruncate(b) == (b % 2) + 4 * ((b \div 4) % 2)

\* TacacsFlags::from_bits
FlagsFromBits(b) == IF b \in KnownFlags THEN b ELSE Error

HeaderAccepted(data) ==
  /\ Len(data) >= HeaderLen
  /\ data[1] \div Nibble = Major /\ data[1] % Nibble \in Minors
  /\ data[2] \in Types
  /\ FlagsFromBits(data[4]) # Error

HeaderFromBytes(data) ==
  IF HeaderAccepted(data)
  THEN [ major |-> data[1] \div Nibble, minor |-> data[1] % Nibble, type |-> data[2],
         seq |-> data[3], flags |-> FlagsFromBits(data[4]),
         id |-> U32At(data, 5), length |-> U32At(data, 9) ]
  ELSE Error

-----------------------------------------------------------------------------
\* get_first_block
FirstBlock(h) == U32(h.id) \o Key \o <<Version(h), h.seq>>

\* n hashes, of the first block followed by the hash before.
Hashes(first, n) ==
  LET hashed[k \in 1 .. n] ==
        IF k = 1 THEN Hash(first) ELSE Hash(first \o hashed[k - 1])
  IN hashed

\* The first n bytes of as many hashes as the header's length asks for.
Padding(h, n) ==
  LET hashes == Hashes(FirstBlock(h), 1 + h.length \div HashLen)
  IN [i \in 1 .. n |-> hashes[1 + (i - 1) \div HashLen][1 + ((i - 1) % HashLen)]]

\* Mutant: whole hashes only.
PadWhole(h) == Padding(h, HashLen * (h.length \div HashLen))

\* generate_pad
Pad(h) == Padding(h, h.length)

\* convert stops with the shorter of data and pad; convert_inplace indexes the
\* pad at every byte of the data.
Convert(h, data) ==
  LET pad == Pad(h) IN [i \in DOMAIN data \cap DOMAIN pad |-> ExclusiveOr(data[i], pad[i])]

ConvertInplace(h, data) ==
  LET pad == Pad(h)
  IN IF Len(data) > Len(pad) THEN Panic ELSE [i \in DOMAIN data |-> ExclusiveOr(data[i], pad[i])]

NewPacket(h, body) ==
  IF Len(body) < h.length THEN Error ELSE [header |-> h, body |-> body]

PacketBytes(p) == HeaderBytes(p.header) \o p.body

\* as_obfuscated (clear = FALSE) and as_deobfuscated: a copy, or None if the
\* packet is like that already. Packet::new is unwrapped.
Flip(h) == [h EXCEPT !.flags = IF IsClear(h) THEN @ - 1 ELSE @ + 1]

AsConverted(p, clear) ==
  IF IsClear(p.header) = clear THEN NoPacket
  ELSE LET converted == NewPacket(Flip(p.header), Convert(p.header, p.body))
       IN IF converted = Error THEN Panic ELSE converted

\* to_obfuscated and to_deobfuscated: the packet itself. The flag changes first.
ToConverted(p, clear) ==
  IF IsClear(p.header) = clear THEN p
  ELSE LET body == ConvertInplace(Flip(p.header), p.body)
       IN IF body = Panic THEN Panic ELSE [header |-> Flip(p.header), body |-> body]

-----------------------------------------------------------------------------
ASSUME EncodingAssumption ==
  /\ Nibble \in Nat /\ Nibble >= 2
  /\ Major \in 0 .. Nibble - 1
  /\ HashLen \in Nat \ {0}
  /\ Key \in Seq(Byte)
  /\ Corrupt \subseteq Byte
  /\ Headers \subseteq [id : Quad, seq : Byte]
  /\ \A a, b \in Byte : ExclusiveOr(a, b) \in Byte /\ ExclusiveOr(ExclusiveOr(a, b), b) = a

\* The messages hold values of the enumerations, and text; with a byte more their
\* bodies still are so short that data.len() as u32 is the length.
ASSUME MessageAssumption ==
  /\ \A r \in Requests :
       /\ r \in [fixed : Seq(Byte), strings : Seq(Seq(Byte \ NotText))]
       /\ Len(r.fixed) = 5 /\ \A i \in 1 .. 5 : r.fixed[i] \in Fixed[i]
       /\ Len(r.strings) >= 3
  /\ Replies \subseteq [ status : Statuses \cap Byte,
                          msg : Seq(Byte \ NotText), data : Seq(Byte \ NotText) ]
  /\ \A r \in Requests : Len(RequestBytes(r)) + 1 \in Quad
  /\ \A r \in Replies : Len(ReplyBytes(r)) + 1 \in Quad

Header ==
  [ major : Nat, minor : Nat, type : Nat, seq : Byte, flags : Nat, id : Quad, length : Nat ]
Packet == [header : Header, body : Seq(Byte)]
Request == [fixed : Seq(Byte), strings : Seq(Seq(Byte))]
Reply == [status : Byte, msg : Seq(Byte), data : Seq(Byte)]

\* The errors are none of what the functions return otherwise.
ASSUME ErrorAssumption ==
  /\ Error # Panic /\ NoPacket \notin {Error, Panic}
  /\ Error \notin Nat /\ Error \notin Header /\ Panic \notin Seq(Byte)
  /\ \A e \in {Error, Panic, NoPacket} : e \notin Packet /\ e \notin Request /\ e \notin Reply

VARIABLES
  stage,    \* "made", "packed", "written", "read"
  message,  \* the request or reply
  keyed,    \* both ends have the key
  packet,   \* the packet made of it, and then the one read
  damage,   \* what the sender did to the packet: "none", "short", "long", "flags", "byte"
  bytes,    \* what is written
  result    \* what the reader makes of the body

vars == <<stage, message, keyed, packet, damage, bytes, result>>

IsRequest == message \in Requests

Init ==
  /\ stage = "made"
  /\ message \in Requests \cup Replies
  /\ keyed \in BOOLEAN
  /\ packet = NoPacket
  /\ damage = "none"
  /\ bytes = <<>>
  /\ result = Error

\* send_accounting_request, or the server, makes a packet of the message.
Pack ==
  /\ stage = "made"
  /\ LET body == IF IsRequest THEN RequestBytes(message) ELSE ReplyBytes(message) IN
     \E i \in Headers :
       packet' = NewPacket([ major |-> Major, minor |-> 0, type |-> 3, seq |-> i.seq,
                             flags |-> 1, id |-> i.id, length |-> Len(body) ], body)
  /\ stage' = "packed"
  /\ UNCHANGED <<message, keyed, damage, bytes, result>>

\* A sender whose lengths do not agree with each other, whose strings are not
\* UTF-8, or who uses a flag or another value this library does not know.
Damage ==
  /\ stage = "packed"
  /\ damage = "none"
  /\ \/ /\ \E n \in 0 .. Len(packet.body) - 1 :
             packet' = [header |-> [packet.header EXCEPT !.length = n],
                        body |-> SubSeq(packet.body, 1, n)]
        /\ damage' = "short"
     \/ /\ packet' = [header |-> [packet.header EXCEPT !.length = @ + 1],
                      body |-> Append(packet.body, 0)]
        /\ damage' = "long"
     \/ /\ packet' = [packet EXCEPT !.header.flags = @ + 2]
        /\ damage' = "flags"
     \/ /\ \E k \in DOMAIN packet.body, b \in Corrupt :
             packet' = [packet EXCEPT !.body[k] = b]
        /\ damage' = "byte"
  /\ UNCHANGED <<stage, message, keyed, bytes, result>>

\* The write loop: a packet with the flag set is obfuscated if there is a key.
Write ==
  /\ stage = "packed"
  /\ bytes' = PacketBytes(IF keyed THEN ToConverted(packet, FALSE) ELSE packet)
  /\ stage' = "written"
  /\ UNCHANGED <<message, keyed, packet, damage, result>>

\* The read loop and the decoding of the body.
Read ==
  /\ stage = "written"
  /\ LET header == HeaderFromBytes(SubSeq(bytes, 1, HeaderLen)) IN
     IF header = Error
     THEN /\ packet' = NoPacket
          /\ result' = Error
     ELSE LET read == NewPacket(header, SubSeq(bytes, HeaderLen + 1, HeaderLen + header.length)) IN
          /\ packet' = IF keyed THEN ToConverted(read, TRUE) ELSE read
          /\ result' = IF IsRequest THEN RequestFromPacket(packet'.body)
                                    ELSE ReplyFromBytes(packet'.body)
  /\ stage' = "read"
  /\ UNCHANGED <<message, keyed, damage, bytes>>

Next == Pack \/ Damage \/ Write \/ Read

Spec == Init /\ [][Next]_vars

-----------------------------------------------------------------------------
\* The widths of the length fields.
FitsRequest(r) ==
  ArgCount(r) < ByteMod /\ \A k \in DOMAIN r.strings : Len(r.strings[k]) < ByteMod
FitsReply(r) == Len(r.msg) < WordMod /\ Len(r.data) < WordMod
Fits == IF IsRequest THEN FitsRequest(message) ELSE FitsReply(message)

\* Type invariant: what goes over the wire are bytes.
TypeOK ==
  /\ stage \in {"made", "packed", "written", "read"}
  /\ bytes \in Seq(Byte)
  /\ packet # NoPacket => packet.body \in Seq(Byte) /\ packet.header.length = Len(packet.body)

\* A message whose fields fit the widths of their lengths is read as it was
\* made, with and without a key, also when more bytes follow it in the body.
RoundTrip ==
  stage = "read" /\ damage \in {"none", "long"} /\ Fits => result = message

\* A body that ends before its last field does is never taken for a message:
\* the reader gets an error (or, for a request that ends within its lengths,
\* the panic of size_from_bytes).
ShortBodyRefused ==
  stage = "read" /\ damage = "short" /\ Fits
    => result = Error \/ (IsRequest /\ ~HasSizes(packet.body) /\ result = Panic)

\* Decoding keeps everything: a header, or a message, that is accepted is
\* encoded to the very bytes it was read from, whatever was done to them.
DecodingFaithful ==
  /\ stage \in {"written", "read"} /\ HeaderFromBytes(bytes) # Error
       => HeaderBytes(HeaderFromBytes(bytes)) = SubSeq(bytes, 1, HeaderLen)
  /\ stage = "read" /\ result \notin {Error, Panic}
       => IsPrefix(IF IsRequest THEN RequestBytes(result) ELSE ReplyBytes(result), packet.body)

\* The length checks of from_packet refuse nothing that from_bytes accepts.
LengthCheckAgrees ==
  stage = "read" /\ packet # NoPacket =>
    IF IsRequest THEN result # Panic => result = RequestFromBytes(packet.body)
                 ELSE result = ReplyFromPacket(packet.body)

\* On the packets the two loops handle, converting in place and into a copy is
\* the same, never panics, and is undone by the way back.
ConversionsAgree ==
  stage = "packed" =>
    LET hidden == ToConverted(packet, FALSE)
    IN /\ hidden # Panic
       /\ AsConverted(packet, FALSE) = hidden
       /\ ToConverted(hidden, TRUE) = packet
=============================================================================
