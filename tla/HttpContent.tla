----------------------------- MODULE HttpContent -----------------------------
(***************************************************************************)
(* Reading requests from one kept-alive HTTP connection, byte by byte:     *)
(* read() and read_chunked_transfer_encoded() of                           *)
(* src/webserver/server_http.hpp.  async_read_until() may read any number  *)
(* of bytes behind what it was looking for; what it got is taken off the   *)
(* later, exact reads.                                                     *)
(*                                                                         *)
(* A byte is a number.  The head of a request, up to its blank line, is    *)
(* one symbol from 256 on that says how the content is framed; HttpSession *)
(* has what happens around the reads: timers, locks, answers.              *)
(***************************************************************************)
EXTENDS Sequences, Naturals

CONSTANTS
  Contents,    \* contents and chunks that a client may send
  Sizes,       \* forms of a chunk's size: how many digits, what is behind them
  LineBuffer,  \* capacity of chunk_size_streambuf, 16 + 2 in the code
  MaxStream,   \* max_request_streambuf_size
  MaxChunks,   \* bound on the chunks of a request
  MaxRequests  \* bound on the requests of a connection

ASSUME BoundsAssumption ==
  /\ LineBuffer \in Nat /\ MaxStream \in Nat
  /\ MaxChunks \in Nat /\ MaxRequests \in Nat

ASSUME ContentsAssumption == Contents \subseteq Seq(0..255)

VARIABLES
  incoming,  \* bytes sent and not yet read from the socket
  at,        \* the read in progress, "refused" or "closed" after the last
  content,   \* request->streambuf
  line,      \* chunk_size_streambuf
  capacity,  \* its max_size()
  wanted,    \* bytes of a read that asks for a number of them
  due,       \* history: what the client sent, as requests
  served     \* history: contents that find_resource() was called with

reader == <<at, content, line, capacity, wanted, served>>
vars == <<incoming, due, reader>>

-----------------------------------------------------------------------------
(* The client. *)

CR == 13
LF == 10
CRLF == <<CR, LF>>
Semicolon == 59
Zero == 48

(* Size lines fit the line buffer; the shortest one is that of size 0.     *)
ASSUME SizesAssumption ==
  /\ 3 <= LineBuffer
  /\ \A z \in Sizes :
       /\ z.digits \in 1..16
       /\ z.extension \in Seq((0..255) \ {LF})
       /\ z.extension # <<>> => z.extension[1] = Semicolon
       /\ z.digits + Len(z.extension) + 2 <= LineBuffer

NoContent == 256
Chunked == 257
BadLength == 258
ContentLength(n) == 259 + n
Heads == {NoContent, Chunked, BadLength}
           \cup {ContentLength(Len(c)) : c \in Contents}

(* n in w hexadecimal digits, the last of them from the first remainder.   *)
Quotients(n, w) ==
  LET q[i \in 0..w] == IF i = 0 THEN n ELSE q[i - 1] \div 16 IN q

Hex(d) == IF d < 10 THEN Zero + d ELSE 87 + d

SizeText(n, w) == [i \in 1..w |-> Hex(Quotients(n, w)[w - i] % 16)]

SizeLine(n, z) == SizeText(n, z.digits) \o z.extension \o CRLF

Chunks == {c \in [data : Contents \ {<<>>}, size : Sizes] :
             Quotients(Len(c.data), c.size.digits)[c.size.digits] = 0}

EncodeChunk(c) == SizeLine(Len(c.data), c.size) \o c.data \o CRLF

(* Requests as they are sent: a head, bytes behind it, and the content     *)
(* that these stand for.                                                   *)
Framed ==
  {[head |-> ContentLength(Len(c)), bytes |-> c, content |-> c] : c \in Contents}
    \cup [head : {NoContent, BadLength}, bytes : {<<>>}, content : {<<>>}]

LastChunk == <<Zero>> \o CRLF \o CRLF

ChunkedRequest(cs) ==
  LET all[i \in 0..Len(cs)] ==
        IF i = 0 THEN [bytes |-> <<>>, content |-> <<>>]
        ELSE [bytes |-> all[i - 1].bytes \o EncodeChunk(cs[i]),
              content |-> all[i - 1].content \o cs[i].data]
  IN [head |-> Chunked, bytes |-> all[Len(cs)].bytes \o LastChunk,
      content |-> all[Len(cs)].content]

Requests ==
  Framed \cup {ChunkedRequest(cs) : cs \in UNION {[1..n -> Chunks] : n \in 0..MaxChunks}}

Init == /\ incoming = <<>> /\ due = <<>> /\ served = <<>>
        /\ at = "head"
        /\ content = <<>> /\ line = <<>> /\ capacity = 0 /\ wanted = 0

(* The client sends its next request when it has the answer to the last.   *)
SendRequest ==
  /\ at = "head" /\ Len(due) = Len(served) /\ Len(due) < MaxRequests
  /\ \E r \in Requests :
       /\ due' = Append(due, [head |-> r.head, content |-> r.content])
       /\ incoming' = incoming \o <<r.head>> \o r.bytes
  /\ UNCHANGED reader

-----------------------------------------------------------------------------
(* The server. *)

Drop(s, n) == SubSeq(s, n + 1, Len(s))
Least(m, n) == IF m < n THEN m ELSE n
Greatest(m, n) == IF m < n THEN n ELSE m

Refuse == /\ at' = "refused"
          /\ UNCHANGED <<content, line, capacity, wanted, served>>

(* find_resource(), the answer, and a new session that reads on.  What the *)
(* old one has in its buffers is lost.                                     *)
Serve(c) == /\ served' = Append(served, c)
            /\ at' = "head"
            /\ content' = <<>> /\ line' = <<>>
            /\ UNCHANGED <<capacity, wanted>>

(* The first request head among the bytes that are there. *)
HeadAt(i) == /\ i \in DOMAIN incoming /\ incoming[i] >= 256
             /\ \A j \in 1..(i - 1) : incoming[j] < 256

(* (faulty) All of the content is still to be read. *)
ReadWithLengthFaulty(n, over) ==
  IF n > MaxStream THEN Refuse
  ELSE IF n > Len(over)
         THEN /\ at' = "content" /\ wanted' = n
              /\ content' = over
              /\ UNCHANGED <<line, capacity, served>>
         ELSE Serve(over)

(* read() with a Content-Length n; the bytes read too far are over. *)
ReadWithLength(n, over) ==
  IF n > MaxStream THEN Refuse
  ELSE IF n > Len(over)
         THEN /\ at' = "content" /\ wanted' = n - Len(over)
              /\ content' = over
              /\ UNCHANGED <<line, capacity, served>>
         ELSE Serve(over)

(* The head is there.  A line before it is no request line. *)
ReadHead ==
  /\ at = "head"
  /\ \E i \in DOMAIN incoming : \E k \in i..Len(incoming) :
       LET head == incoming[i]
           over == SubSeq(incoming, i + 1, k)
       IN /\ HeadAt(i)
          /\ incoming' = Drop(incoming, k)
          /\ CASE i > 1 \/ head = BadLength -> Refuse
               [] i = 1 /\ head = NoContent -> Serve(over)
               [] i = 1 /\ head = Chunked ->
                    /\ at' = "size"
                    /\ line' = over
                    /\ capacity' = Greatest(LineBuffer, Len(over))
                    /\ UNCHANGED <<content, wanted, served>>
               [] OTHER -> ReadWithLength(head - ContentLength(0), over)
  /\ UNCHANGED due

ReadContent == /\ at = "content" /\ Len(incoming) >= wanted
               /\ Serve(content \o SubSeq(incoming, 1, wanted))
               /\ incoming' = Drop(incoming, wanted)
               /\ UNCHANGED due

(* The end of the first "\r\n" in s, or of the first '\n'. *)
LineEnd(s, e) == /\ e \in 2..Len(s) /\ SubSeq(s, e - 1, e) = CRLF
                 /\ \A j \in 2..(e - 1) : SubSeq(s, j - 1, j) # CRLF

FirstLF(s) == CHOOSE i \in DOMAIN s : s[i] = LF /\ \A j \in 1..(i - 1) : s[j] # LF

(* stoul(line, 0, 16): the digits that the line begins with. *)
HexBytes == (Zero..(Zero + 9)) \cup (65..70) \cup (97..102)

DigitValue(b) == b - (IF b < 65 THEN Zero ELSE IF b < 97 THEN 55 ELSE 87)

Digits(s) == CHOOSE n \in 0..Len(s) :
               /\ \A i \in 1..n : s[i] \in HexBytes
               /\ n < Len(s) => s[n + 1] \notin HexBytes

Number(s) == LET value[i \in 0..Digits(s)] ==
                   IF i = 0 THEN 0 ELSE 16 * value[i - 1] + DigitValue(s[i])
             IN value[Digits(s)]

(* (faulty) All bytes that are there are taken for the chunk's. *)
MovedAll(size, over) == over

(* bytes_to_move. *)
Moved(size, over) == Least(size, over)

(* (faulty) The case of one byte behind the chunk is left out. *)
ChunkFollowsFaulty(size, rest, over) ==
  LET moved == Moved(size, over) IN
  /\ content' = content \o SubSeq(rest, 1, moved)
  /\ CASE size > over ->
            /\ at' = "data" /\ wanted' = size - over
            /\ line' = Drop(rest, moved)
       [] size <= over /\ size + 2 > over ->
            /\ at' = "end" /\ wanted' = 2 + size - over
            /\ line' = Drop(rest, moved)
       [] OTHER ->
            /\ at' = "size" /\ wanted' = 0
            /\ line' = Drop(rest, moved + 2)
  /\ UNCHANGED <<capacity, served>>

(* A chunk of some size begins; rest is behind its size line, and over of  *)
(* its bytes count as read.                                                *)
ChunkFollows(size, rest, over) ==
  LET moved == Moved(size, over) IN
  /\ content' = content \o SubSeq(rest, 1, moved)
  /\ CASE size > over ->
            /\ at' = "data" /\ wanted' = size - over
            /\ line' = Drop(rest, moved)
       [] size <= over /\ size + 2 > over ->
            /\ at' = "end" /\ wanted' = 2 + size - over
            /\ line' = Drop(rest, moved + (IF wanted' = 1 THEN 1 ELSE 0))
       [] OTHER ->
            /\ at' = "size" /\ wanted' = 0
            /\ line' = Drop(rest, moved + 2)
  /\ UNCHANGED <<capacity, served>>

(* read_chunked_transfer_encoded(): the handler of async_read_until(), when *)
(* `transferred' bytes of s are up to the end of the line.  The sum of the  *)
(* sizes counts bytes that a client sends: no size_t wraps.                *)
ChunkSize(s, transferred) ==
  \E lf \in {FirstLF(s)} :
  \E size \in {Number(SubSeq(s, 1, lf - 1))} :
    CASE Digits(s) = 0 -> Refuse
      [] Digits(s) > 0 /\ size = 0 -> Serve(content)
      [] size > 0 /\ size + Len(content) > MaxStream -> Refuse
      [] OTHER -> ChunkFollows(size, Drop(s, lf), Len(s) - lf - (transferred - lf))

(* What the line buffer may come to hold. *)
Received ==
  LET room == Least(Len(line) + Len(incoming), capacity)
  IN SubSeq(line \o incoming, 1, Greatest(room, Len(line)))

ReadSize ==
  /\ at = "size"
  /\ \E s \in {Received} :
       \/ \E e \in DOMAIN s :
            /\ LineEnd(s, e)
            /\ \E k \in Greatest(e, Len(line))..Len(s) :
                 /\ e <= Len(line) => k = Len(line)
                 /\ ChunkSize(SubSeq(s, 1, k), e)
                 /\ incoming' = Drop(incoming, k - Len(line))
       \/ /\ Len(s) >= capacity /\ \A e \in DOMAIN s : ~LineEnd(s, e)
          /\ Refuse
          /\ UNCHANGED incoming
  /\ UNCHANGED due

ReadData == /\ at = "data" /\ Len(incoming) >= wanted
            /\ content' = content \o SubSeq(incoming, 1, wanted)
            /\ incoming' = Drop(incoming, wanted)
            /\ at' = "end" /\ wanted' = 2
            /\ UNCHANGED <<due, line, capacity, served>>

(* The "\r\n" behind a chunk, or its second half. *)
ReadEnd == /\ at = "end" /\ Len(incoming) >= wanted
           /\ incoming' = Drop(incoming, wanted)
           /\ at' = "size"
           /\ UNCHANGED <<due, content, line, capacity, wanted, served>>

(* A read fails or times out, or its handler gets no lock.  on_error is    *)
(* called unguarded after a chunk (lines 679, 698): with none set it       *)
(* throws, and for this reading that is the same end.  For the server it   *)
(* is ServerLifecycle's HandlerThrows.                                     *)
ReadFails == /\ at \notin {"refused", "closed"}
             /\ at' = "closed"
             /\ UNCHANGED <<incoming, due, content, line, capacity, wanted, served>>

Read == ReadHead \/ ReadContent \/ ReadSize \/ ReadData \/ ReadEnd

Next == SendRequest \/ Read \/ ReadFails

(* Reads whose bytes are there complete. *)
Spec == Init /\ [][Next]_vars /\ WF_vars(Read)

-----------------------------------------------------------------------------
TypeOK ==
  /\ incoming \in Seq(Nat) /\ content \in Seq(0..255) /\ line \in Seq(0..255)
  /\ at \in {"head", "content", "size", "data", "end", "refused", "closed"}
  /\ capacity \in Nat /\ wanted \in Nat
  /\ due \in Seq([head : Heads, content : Seq(0..255)])
  /\ served \in Seq(Seq(0..255))
  /\ Len(served) <= Len(due) /\ Len(due) <= MaxRequests

(* A resource function finds in the request the content that the client    *)
(* sent, wherever the reads cut the bytes and however the chunks are       *)
(* framed.                                                                 *)
ContentIntact == \A i \in DOMAIN served : served[i] = due[i].content

(* A request is refused because it says nothing of its length, is too      *)
(* large, or follows a chunked one: the "\r\n" of that one's last chunk is *)
(* only taken away if it was read too far.                                 *)
RefusedForCause ==
  at = "refused" =>
    LET n == Len(due) IN
    \/ due[n].head = BadLength
    \/ Len(due[n].content) > MaxStream
    \/ n > 1 /\ due[n - 1].head = Chunked

(* Between two requests nothing of the old one is left but that "\r\n".    *)
CleanStart ==
  at = "head" /\ Len(served) = Len(due) =>
    incoming = <<>> \/ (due[Len(due)].head = Chunked
                        /\ incoming \in {CRLF, <<LF>>})

IInv == TypeOK /\ RefusedForCause /\ CleanStart

(* A request whose bytes have been sent is not waited for: it is served,   *)
(* refused, or the connection closed.                                      *)
EveryRequestAnswered ==
  \A n \in 1..MaxRequests :
    Len(due) >= n ~> Len(served) >= n \/ at \in {"refused", "closed"}
=============================================================================
