----------------------------- MODULE MCEncoding -----------------------------
(***************************************************************************)
(* Bytes of two two-bit nibbles: a length overflows at 16, two at 256.     *)
(***************************************************************************)
EXTENDS Encoding, Bitwise

Repeat(b, n) == [k \in 1 .. n |-> b]

MCService == <<9, 9>>
MCCmdPrefix == <<8, 1>>
MCArgPrefix == <<8, 2>>

\* Strings up to, at and above the width of a length; 15 is not UTF-8, and 4 is
\* neither an authentication type nor a service.
MCRequests ==
  {[fixed |-> <<2, 1, 15, 0, 3>>, strings |-> <<user, <<1>>, <<>>>> \o args] :
     user \in {<<>>, <<1>>, <<2, 3>>, Repeat(4, 15), Repeat(4, 16)},
     args \in {<<>>, <<<<5>>>>, <<<<>>, <<6, 7>>, <<2>>>>}}
  \cup {TaconRequest(<<1>>, <<2, 3>>, <<>>, cmd, args) :
     cmd \in {<<7>>, Repeat(4, 13), Repeat(4, 14)}, args \in {<<>>, <<<<5>>, <<>>>>}}

MCReplies ==
  {[status |-> 1, msg |-> m, data |-> d] :
     m \in {<<>>, <<1>>, Repeat(4, 16)}, d \in {<<>>, Repeat(5, 17)}}

MCKey == <<7, 9>>
MCHeaders == {[id |-> 4660, seq |-> 15], [id |-> 1, seq |-> 2]}

MCExclusiveOr(a, b) == a ^^ b

\* Any function of all its input will do for md5.
MCHash(q) == [k \in 1 .. 4 |-> (Total(q) * k + Len(q) + q[1]) % 16]
=============================================================================
