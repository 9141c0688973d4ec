-------------------------------- MODULE Lines --------------------------------
(***************************************************************************)
(* Lines in the stream of bytes between the program and the home control   *)
(* server: how sendMessage ends one and what ReceiveLine makes of them.    *)
(***************************************************************************)
EXTENDS Texts

\* sendMessage appends "\r\n".
Line(text) == text \o <<CR, LF>>

\* Receive makes a C string of each byte, which a byte 0 leaves empty.
CStrings(chars) ==
    IF \A k \in DOMAIN chars : chars[k] # 0 THEN chars
    ELSE FlattenSeq([k \in DOMAIN chars |-> IF chars[k] = 0 THEN <<>> ELSE <<chars[k]>>])

\* ReceiveLine, for a stream that comes without a pause: the line at place i
\* and the place behind it.
ReceiveLine(stream, i) ==
    LET cr == Min({k \in i .. Len(stream) : stream[k] = CR})
    IN  [line |-> CStrings(SubSeq(stream, i, cr - 1)), next |-> cr + 2]

=============================================================================
