---------------------------- MODULE MCByteStream ----------------------------
\* Values for ByteStream. The directions share nothing but the end of the
\* connection, so two packets at once one way come with one the other way.
EXTENDS ByteStream

Limit(m, n) == [requests |-> m, replies |-> n]

MCLimits == {Limit(2, 1), Limit(1, 2)}
MCSync == {Limit(0, 2)}
MCOneRequest == {Limit(1, 0)}
=============================================================================
