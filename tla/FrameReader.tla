----------------------------- MODULE FrameReader -----------------------------
(***************************************************************************)
(* WebSocket frames on the wire: what send() writes and what the read loop *)
(* of the other end makes of it, byte by byte, for both directions of      *)
(* src/websocket/client_ws.hpp and server_ws.hpp.                          *)
(*                                                                         *)
(* A client reads the upgrade response up to its blank line, and may get   *)
(* any number of bytes behind it in the same read; they stay in the        *)
(* buffer, and the arithmetic of num_additional_bytes takes them off what  *)
(* is still to be read from the network.  All later reads are exact.  The  *)
(* server starts to read with an empty buffer and unmasks what it reads.   *)
(*                                                                         *)
(* The widths are constants: the code has ShortLen = 126, Base = 256,      *)
(* NarrowBytes = 2, WideBytes = 8, MaskBytes = 4.  Payload bytes are bits, *)
(* as far as masking goes.                                                 *)
(***************************************************************************)
EXTENDS Sequences, Naturals

CONSTANTS
  ShortLen, Base, NarrowBytes, WideBytes, MaskBytes,
  MaxMessage,  \* max_message_size
  Payloads,    \* of data frames
  Controls,    \* of control frames
  Masks,       \* masks of client frames
  MaxFrames    \* bound on the frames the peer sends

ASSUME WidthsAssumption ==
  /\ ShortLen \in 1..126 /\ Base \in 2..256
  /\ NarrowBytes \in Nat /\ WideBytes \in Nat /\ MaskBytes \in Nat \ {0}
  /\ ShortLen < Base ^ NarrowBytes /\ NarrowBytes < WideBytes

(* What a power is; the provers know nothing of `^'. *)
ASSUME PowersAssumption ==
  /\ Base ^ 0 = 1
  /\ \A k \in 1..WideBytes : Base ^ k = Base * Base ^ (k - 1)

ASSUME InputsAssumption ==
  /\ MaxMessage \in Nat /\ MaxFrames \in Nat
  /\ Payloads \cup Controls \subseteq Seq({0, 1})
  /\ \A p \in Payloads \cup Controls : Len(p) < Base ^ WideBytes
  /\ Masks \subseteq [1..MaskBytes -> {0, 1}]

(* What a connection carries, all together, is less than what a            *)
(* std::size_t can count.                                                  *)
ASSUME TotalAssumption ==
  \E longest \in 0..Base ^ WideBytes :
    /\ \A p \in Payloads \cup Controls : Len(p) <= longest
    /\ MaxFrames * longest < Base ^ WideBytes

VARIABLES
  toServer,   \* the direction: a client sends, masked, and a server reads
  due,        \* history: what the application should hear of
  begun,      \* the message whose first fragments the peer has sent
  count,      \* frames sent
  incoming,   \* bytes sent and not yet read from the socket
  at,         \* the read in progress, "done" when the loop has ended
  buffer,     \* the streambuf
  extra,      \* num_additional_bytes
  op,         \* fin_rsv_opcode of the present frame
  length,     \* its length
  fragmented, \* fragmented_in_message
  heard       \* history: what the application was told

peer == <<due, begun, count>>
vars == <<toServer, peer, incoming, at, buffer, extra, op, length,
          fragmented, heard>>

-----------------------------------------------------------------------------
(* fin_rsv_opcode *)

Fin(o) == o \div 128 = 1
Opcode(o) == o % 16
WithFin(o) == 128 + (o % 128)

Text == 129
FirstFragment == 1
Fragment == 0
LastFragment == 128
Close == 136
Ping == 137
Pong == 138

-----------------------------------------------------------------------------
(* The sending end. *)

BigEndian(n, width) ==
  [c \in 1..width |-> (n \div Base ^ (width - c)) % Base]

(* (faulty) The first length that needs a field of its own does not get it. *)
LengthFieldOffByOne(n) ==
  IF n >= Base ^ NarrowBytes
    THEN <<ShortLen + 1>> \o BigEndian(n, WideBytes)
    ELSE IF n > ShortLen THEN <<ShortLen>> \o BigEndian(n, NarrowBytes)
                         ELSE <<n>>

LengthField(n) ==
  IF n >= Base ^ NarrowBytes
    THEN <<ShortLen + 1>> \o BigEndian(n, WideBytes)
    ELSE IF n >= ShortLen THEN <<ShortLen>> \o BigEndian(n, NarrowBytes)
                          ELSE <<n>>

(* `^ mask[c % 4]', of a payload and of its masked form. *)
Masked(payload, mask) ==
  [c \in DOMAIN payload |-> (payload[c] + mask[((c - 1) % MaskBytes) + 1]) % 2]

(* send(), without a mask for a client, with one for a server. *)
Encode(f) ==
  LET field == LengthField(Len(f.payload)) IN
  IF f.mask = <<>>
    THEN <<f.op>> \o field \o f.payload
    ELSE <<f.op, 128 + field[1]>> \o Tail(field) \o f.mask
           \o Masked(f.payload, f.mask)

-----------------------------------------------------------------------------
(* What the application hears of. *)

Arrival(kind, o, payload) == [kind |-> kind, op |-> o,
                              size |-> Len(payload), payload |-> payload]

Nothing == Arrival("none", 0, <<>>)
TooBig == Arrival("toobig", 0, <<>>)
NotMasked == Arrival("close", 0, <<>>)
Error == Arrival("error", 0, <<>>)

Finals == {"close", "toobig"}

-----------------------------------------------------------------------------
Init == /\ toServer \in BOOLEAN
        /\ due = <<>> /\ begun = Nothing /\ count = 0
        /\ incoming = <<>>
        /\ at = IF toServer THEN "header" ELSE "upgrade"
        /\ buffer = <<>> /\ extra = 0
        /\ op = 0 /\ length = 0 /\ fragmented = Nothing
        /\ heard = <<>>

(* The peer, when it has begun message b.  Its fragments are in order,     *)
(* control frames may come between them, and it sends nothing after a      *)
(* close.  An empty message may be masked wrongly.                         *)
Sendable(b) ==
  LET right == IF toServer THEN Masks ELSE {<<>>}
      wrong == IF toServer THEN {<<>>} ELSE Masks
  IN
  [op : IF b = Nothing THEN {Text, FirstFragment} ELSE {Fragment, LastFragment},
   payload : Payloads, mask : right]
    \cup [op : {Close, Ping, Pong}, payload : Controls, mask : right]
    \cup [op : {Text}, payload : {<<>>}, mask : wrong]

Ended == due # <<>> /\ due[Len(due)].kind \in Finals

(* Message b with frame f, its last or not. *)
Whole(b, f) ==
  IF b = Nothing THEN Arrival("message", WithFin(f.op), f.payload)
                 ELSE Arrival("message", b.op, b.payload \o f.payload)

(* What the application should hear when frame f has arrived. *)
Says(b, f) ==
  IF (f.mask = <<>>) = toServer THEN NotMasked
  ELSE IF b.size + Len(f.payload) > MaxMessage THEN TooBig
  ELSE CASE f.op = Close -> Arrival("close", f.op, f.payload)
         [] f.op = Ping -> Arrival("answer", Pong, f.payload)
         [] f.op = Pong -> Arrival("pong", f.op, <<>>)
         [] f.op \in {FirstFragment, Fragment} -> Nothing
         [] OTHER -> Whole(b, f)

(* What has then been begun. *)
After(b, f) ==
  CASE Says(b, f) = Nothing -> Whole(b, f)
    [] Says(b, f).kind = "message" -> Nothing
    [] OTHER -> b

Owe(f) ==
  IF Ended THEN UNCHANGED <<due, begun>>
  ELSE /\ due' = IF Says(begun, f) = Nothing THEN due
                 ELSE Append(due, Says(begun, f))
       /\ begun' = After(begun, f)

SendFrame ==
  /\ count < MaxFrames
  /\ count' = count + 1
  /\ due # <<>> => due[Len(due)].op # Close
  /\ \E f \in Sendable(begun) : Owe(f) /\ incoming' = incoming \o Encode(f)
  /\ UNCHANGED <<toServer, at, buffer, extra, op, length, fragmented, heard>>

-----------------------------------------------------------------------------
(* The reading end. *)

(* How much of n bytes is to be read from the network... *)
Wanted(n) == IF extra > n THEN 0 ELSE n - extra

(* (faulty) What is taken from the buffer is still counted as there. *)
LeftFaulty(n) == IF extra > n THEN extra ELSE 0

(* ... and the num_additional_bytes that remain after them. *)
Left(n) == IF extra > n THEN extra - n ELSE 0

Readable(n) == Len(incoming) >= Wanted(n)

(* The buffer when the read has completed. *)
Read(n) == buffer \o SubSeq(incoming, 1, Wanted(n))

Consumed(n) == incoming' = SubSeq(incoming, Wanted(n) + 1, Len(incoming))

Drop(s, n) == SubSeq(s, n + 1, Len(s))

(* async_read_until() of the upgrade response: it may have read on. *)
Upgraded ==
  /\ at = "upgrade"
  /\ \E k \in 0..Len(incoming) : /\ extra' = k
                                 /\ buffer' = SubSeq(incoming, 1, k)
                                 /\ incoming' = Drop(incoming, k)
  /\ at' = "header"
  /\ UNCHANGED <<toServer, peer, op, length, fragmented, heard>>

Tell(a) == heard' = Append(heard, a)

(* connection_error(), send_close(), connection_close(): the loop ends. *)
EndWith(a) == /\ Tell(a)
              /\ at' = "done"

(* The sum of read_message_content() is a std::size_t. *)
SizeT(n) == n % Base ^ WideBytes

(* read_message_content(), before its read. *)
Content(n) ==
  /\ length' = n
  /\ IF SizeT(n + fragmented.size) > MaxMessage
       THEN EndWith(TooBig)
       ELSE at' = "content" /\ UNCHANGED heard

(* A read that ends with no byte is repeated with nothing changed          *)
(* (server_ws.hpp:622, client_ws.hpp:497): a stutter.                      *)
ReadHeader ==
  /\ at = "header" /\ Readable(2)
  /\ LET bytes == Read(2)
         code == bytes[2] % 128
     IN /\ op' = bytes[1]
        /\ buffer' = Drop(bytes, 2)
        /\ IF (bytes[2] >= 128) # toServer
             THEN EndWith(NotMasked) /\ UNCHANGED length
             ELSE IF code \in {ShortLen, ShortLen + 1}
                    THEN /\ at' = IF code = ShortLen THEN "narrow" ELSE "wide"
                         /\ UNCHANGED <<length, heard>>
                    ELSE Content(code)
  /\ Consumed(2)
  /\ extra' = Left(2)
  /\ UNCHANGED <<toServer, peer, fragmented>>

(* The number that length_bytes stand for. *)
Value(bytes) ==
  LET value[i \in 0..Len(bytes)] ==
        IF i = 0 THEN 0 ELSE SizeT(value[i - 1] * Base + bytes[i])
  IN value[Len(bytes)]

(* The two or eight bytes of a longer length. *)
ReadLength(width) ==
  /\ Readable(width)
  /\ Content(Value(SubSeq(Read(width), 1, width)))
  /\ buffer' = Drop(Read(width), width)
  /\ Consumed(width)
  /\ extra' = Left(width)
  /\ UNCHANGED <<toServer, peer, op, fragmented>>

ReadNarrow == at = "narrow" /\ ReadLength(NarrowBytes)
ReadWide == at = "wide" /\ ReadLength(WideBytes)

(* The message a data frame belongs to: fragmented_in_message, with the    *)
(* FIN bit set, or its own.  The server does not let a final frame that is *)
(* no continuation end another message.                                    *)
Message(payload) ==
  IF fragmented # Nothing /\ (toServer => ~Fin(op) \/ Opcode(op) = 0)
    THEN [fragmented EXCEPT !.size = @ + length,
                            !.payload = @ \o payload]
    ELSE [kind |-> "message", op |-> WithFin(op), size |-> length,
          payload |-> payload]

(* What the handler does with a frame. *)

Dispatch(payload) ==
  CASE Opcode(op) = Opcode(Close) ->
         /\ EndWith([kind |-> "close", op |-> op, size |-> length,
                     payload |-> payload])
         /\ UNCHANGED fragmented
    [] Opcode(op) = Opcode(Ping) ->
         /\ Tell([kind |-> "answer", op |-> op + 1, size |-> length,
                  payload |-> payload])
         /\ at' = "header" /\ UNCHANGED fragmented
    [] Opcode(op) = Opcode(Pong) ->
         /\ Tell(Arrival("pong", op, <<>>))
         /\ at' = "header" /\ UNCHANGED fragmented
    [] ~Fin(op) /\ Opcode(op) \notin {Opcode(c) : c \in {Close, Ping, Pong}} ->
         /\ fragmented' = Message(payload)
         /\ at' = "header" /\ UNCHANGED heard
    [] OTHER ->
         /\ Tell(Message(payload))
         /\ at' = "header" /\ fragmented' = Nothing

(* The client: bytes of later frames go to a buffer of their own, if there *)
(* are any; if not, the buffer is the message.                             *)
ReadContent ==
  /\ at = "content" /\ ~toServer /\ Readable(length)
  /\ LET bytes == Read(length) IN
       IF Left(length) > 0
         THEN /\ Dispatch(SubSeq(bytes, 1, length))
              /\ buffer' = Drop(bytes, length)
         ELSE /\ Dispatch(bytes)
              /\ buffer' = <<>>
  /\ Consumed(length)
  /\ extra' = Left(length)
  /\ UNCHANGED <<toServer, peer, op, length>>

(* The server: mask and payload are one read. *)
ReadMaskedContent ==
  /\ at = "content" /\ toServer /\ Readable(MaskBytes + length)
  /\ LET bytes == Read(MaskBytes + length) IN
       /\ Dispatch(Masked(SubSeq(bytes, MaskBytes + 1, MaskBytes + length),
                          SubSeq(bytes, 1, MaskBytes)))
       /\ buffer' = Drop(bytes, MaskBytes + length)
  /\ Consumed(MaskBytes + length)
  /\ UNCHANGED <<toServer, peer, extra, op, length>>

(* The read fails, or continue_lock() is refused. *)
ReadFails ==
  /\ at # "done"
  /\ at' = "done"
  /\ heard' \in {heard, Append(heard, Error)}
  /\ UNCHANGED <<toServer, peer, incoming, buffer, extra, op, length, fragmented>>

Reader == \/ Upgraded \/ ReadHeader \/ ReadNarrow \/ ReadWide
          \/ ReadContent \/ ReadMaskedContent

Next == SendFrame \/ Reader \/ ReadFails

(* Reads whose bytes are there complete. *)
Spec == Init /\ [][Next]_vars /\ WF_vars(Reader)

-----------------------------------------------------------------------------
Bytes == 0..255
Kinds == {"none", "message", "answer", "pong", "close", "toobig", "error"}
Arrivals == [kind : Kinds, op : Bytes, size : Nat, payload : Seq(Bytes)]

TypeOK ==
  /\ toServer \in BOOLEAN
  /\ due \in Seq(Arrivals) /\ begun \in Arrivals /\ count \in 0..MaxFrames
  /\ incoming \in Seq(Bytes) /\ buffer \in Seq(Bytes)
  /\ at \in {"upgrade", "header", "narrow", "wide", "content", "done"}
  /\ extra \in Nat /\ length \in Nat /\ op \in Bytes
  /\ fragmented \in Arrivals
  /\ heard \in Seq(Arrivals)

(* The bytes of the upgrade response's read that belong to frames are in   *)
(* the buffer exactly while num_additional_bytes counts them, whatever the *)
(* bounds of frames, header fields and reads are.                          *)
ExtraIsBuffered == at # "done" => extra = Len(buffer)

(* The message being assembled knows its size: max_message_size compares   *)
(* it, and the JUCE wrapper copies that many bytes from it.                *)
SizesAreTrue ==
  /\ fragmented.size = Len(fragmented.payload)
  /\ \A i \in DOMAIN heard : heard[i].size = Len(heard[i].payload)

(* The server's reads are all exact. *)
ServerExact == toServer => extra = 0 /\ at # "upgrade"

IInv == TypeOK /\ ExtraIsBuffered /\ SizesAreTrue /\ ServerExact

(* The application hears of each message of the peer once, whole, in order *)
(* and as soon as its frames have arrived, wherever the reads cut them and *)
(* whatever control frames are between its fragments; nothing is heard     *)
(* after a close, a frame masked wrongly or a message too big.             *)
M == INSTANCE MessageStream WITH sent <- due, received <- heard,
                                 over <- at = "done", Broken <- Error

StreamSpec == M!Spec
=============================================================================
