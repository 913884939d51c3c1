-------------------------------- MODULE Text --------------------------------
(***************************************************************************)
(* The conversions of src/common/utility.hpp and src/common/WSCrypto.cpp   *)
(* that requests, responses and the handshake go through, and that of the  *)
(* address a client is given, as functions on sequences of bytes.          *)
(* A multimap of fields is the sequence of the <<name, value>> that were   *)
(* put into it.                                                            *)
(***************************************************************************)
EXTENDS Integers, Sequences, SequencesExt

Return == 13
Space == 32
Quote == 34
PercentSign == 37
Ampersand == 38
Plus == 43
Minus == 45
Slash == 47
Colon == 58
Semi == 59
Equals == 61
Question == 63

Digit == 48..57
Upper == 65..90
Lower == 97..122
Byte == 0..255

(* The first place of a byte in some set, or the place behind the end. *)
FirstOf(s, bytes) ==
  CHOOSE i \in 1..(Len(s) + 1) :
    /\ i <= Len(s) => s[i] \in bytes
    /\ \A j \in 1..(i - 1) : s[j] \notin bytes

Before(s, i) == SubSeq(s, 1, i - 1)
Behind(s, i) == SubSeq(s, i + 1, Len(s))
Without(s, byte) == IF s # <<>> /\ Last(s) = byte THEN Front(s) ELSE s
Has(s, byte) == \E i \in DOMAIN s : s[i] = byte

Split(s, byte) ==
  FoldLeft(LAMBDA parts, b :
             IF b = byte THEN Append(parts, <<>>)
             ELSE [parts EXCEPT ![Len(parts)] = Append(@, b)],
           << <<>> >>, s)

-----------------------------------------------------------------------------
(* Percent::encode and decode. *)

HexDigit(n) == IF n < 10 THEN 48 + n ELSE 55 + n
HexDigits == Digit \cup 65..70 \cup 97..102
HexValue(c) == CASE c \in Digit -> c - 48 [] c \in 65..70 -> c - 55 [] OTHER -> c - 87

Unreserved == Digit \cup Upper \cup Lower \cup {45, 46, 95, 126}

PercentEncode(s) ==
  FlattenSeq([i \in DOMAIN s |->
    IF s[i] \in Unreserved THEN <<s[i]>>
    ELSE <<PercentSign, HexDigit(s[i] \div 16), HexDigit(s[i] % 16)>>])

(* strtol() of two bytes, as a char: what is no number is 0. *)
FromHex(a, b) ==
  CASE a \in HexDigits /\ b \in HexDigits -> 16 * HexValue(a) + HexValue(b)
    [] a \in HexDigits /\ b \notin HexDigits -> HexValue(a)
    [] a \in {Space, Plus} \cup 9..13 /\ b \in HexDigits -> HexValue(b)
    [] a = Minus /\ b \in HexDigits -> (256 - HexValue(b)) % 256
    [] OTHER -> 0

PercentDecode(s) ==
  LET from[i \in 1..(Len(s) + 1)] ==
        IF i > Len(s) THEN <<>>
        ELSE IF s[i] = PercentSign /\ i + 2 <= Len(s)
               THEN <<FromHex(s[i + 1], s[i + 2])>> \o from[i + 3]
               ELSE <<IF s[i] = Plus THEN Space ELSE s[i]>> \o from[i + 1]
  IN from[1]

-----------------------------------------------------------------------------
(* QueryString: names are taken as they are, values are encoded. *)

QueryCreate(fields) ==
  FlattenSeq([i \in DOMAIN fields |->
    (IF i = 1 THEN <<>> ELSE <<Ampersand>>)
      \o fields[i][1] \o <<Equals>> \o PercentEncode(fields[i][2])])

QueryField(s) == LET e == FirstOf(s, {Equals})
                 IN <<Before(s, e), PercentDecode(Behind(s, e))>>

QueryParse(s) ==
  LET parts == Split(s, Ampersand)
  IN SelectSeq([i \in DOMAIN parts |-> QueryField(parts[i])],
               LAMBDA field : field[1] # <<>>)

-----------------------------------------------------------------------------
(* HttpHeader::parse of lines as getline() gives them, up to the first one *)
(* without a colon.  Spaces before a value are passed over but for a last  *)
(* byte.                                                                   *)

HeaderValue(s) ==
  LET skipped == CHOOSE n \in 0..(Len(s) - 1) :
                   /\ \A i \in 1..n : s[i] = Space
                   /\ n + 1 < Len(s) => s[n + 1] # Space
  IN Without(Behind(s, skipped), Return)

HeaderParse(lines) ==
  LET end == CHOOSE i \in 1..(Len(lines) + 1) :
               /\ i <= Len(lines) => ~Has(lines[i], Colon)
               /\ \A j \in 1..(i - 1) : Has(lines[j], Colon)
      colon(i) == FirstOf(lines[i], {Colon})
      fields == SelectSeq([i \in 1..(end - 1) |->
                            <<Before(lines[i], colon(i)), Behind(lines[i], colon(i))>>],
                          LAMBDA field : field[2] # <<>>)
  IN [i \in DOMAIN fields |-> <<fields[i][1], HeaderValue(fields[i][2])>>]

-----------------------------------------------------------------------------
(* SemicolonSeparatedAttributes::parse, byte by byte.  A value begins with *)
(* whatever follows '=', a semicolon too, and ends at a quote or semicolon. *)

AttributeStep(state, byte, last) ==
  CASE state.at = "gap" ->
         [state EXCEPT !.at = "value",
                       !.value = IF byte = Quote /\ ~last THEN <<>> ELSE <<byte>>]
    [] state.at = "value" /\ byte \in {Quote, Semi} ->
         [state EXCEPT !.at = "out",
                       !.found = Append(@, <<state.name, PercentDecode(state.value)>>)]
    [] state.at = "value" /\ byte \notin {Quote, Semi} ->
         [state EXCEPT !.value = Append(@, byte)]
    [] state.at = "name" /\ byte = Semi ->
         [state EXCEPT !.at = "out", !.found = Append(@, <<state.name, <<>>>>)]
    [] state.at = "name" /\ byte = Equals -> [state EXCEPT !.at = "gap"]
    [] state.at = "name" /\ byte \notin {Semi, Equals} ->
         [state EXCEPT !.name = Append(@, byte)]
    [] state.at = "out" /\ byte \in {Space, Semi} -> state
    [] OTHER -> [state EXCEPT !.at = "name", !.name = <<byte>>]

AttributesParse(s) ==
  LET end == FoldLeftDomain(LAMBDA state, i : AttributeStep(state, s[i], i = Len(s)),
                            [at |-> "out", name |-> <<>>, value |-> <<>>,
                             found |-> <<>>], s)
  IN CASE end.at = "name" -> Append(end.found, <<end.name, <<>>>>)
       [] end.at = "value" -> Append(end.found, <<end.name, PercentDecode(end.value)>>)
       [] OTHER -> end.found

-----------------------------------------------------------------------------
(* RequestMessage::parse, the request line with its '\r'. *)

Http == <<72, 84, 84, 80>>

Malformed == [ok |-> FALSE]

RequestLineParse(line) ==
  LET afterMethod == Behind(line, FirstOf(line, {Space}))
      target == Before(afterMethod, FirstOf(afterMethod, {Space}))
      protocol == Behind(afterMethod, FirstOf(afterMethod, {Space}))
      q == FirstOf(target, {Question})
      slash == FirstOf(protocol, {Slash})
  IN IF /\ Has(line, Space) /\ Has(afterMethod, Space)
        /\ Has(protocol, Slash) /\ Before(protocol, slash) = Http
       THEN [ok |-> TRUE,
             method |-> Before(line, FirstOf(line, {Space})),
             path |-> Before(target, q),
             query |-> Behind(target, q),
             version |-> SubSeq(protocol, slash + 1, Len(protocol) - 1)]
       ELSE Malformed

-----------------------------------------------------------------------------
(* ResponseMessage::parse, the status line.  The length of the version is  *)
(* unsigned: a blank among the first five bytes makes it the whole rest.   *)

StatusLineParse(line) ==
  LET e == FirstOf(line, {Space})
  IN IF e < Len(line) /\ Len(line) > 5
       THEN [ok |-> TRUE,
             version |-> SubSeq(line, 6, IF e > 5 THEN e - 1 ELSE Len(line)),
             status |-> Without(Behind(line, e), Return)]
       ELSE Malformed

(* The client goes on if the status begins with "101 ". *)
Switching(status) == Len(status) >= 4 /\ SubSeq(status, 1, 4) = <<49, 48, 49, Space>>

-----------------------------------------------------------------------------
(* The address given to a client.  The port is what stoul() reads, as an   *)
(* unsigned short; the default port where that is no number.  (A number    *)
(* that is out of the range of stoul() counts as none.)                    *)

Numeral(s) == FoldLeft(LAMBDA n, digit : 10 * n + digit - 48, 0, s)

Port(s, default) ==
  LET number == SubSeq(s, FirstOf(s, Byte \ ({Space} \cup 9..13)), Len(s))
      signed == number # <<>> /\ number[1] \in {Plus, Minus}
      rest == IF signed THEN Tail(number) ELSE number
      digits == Before(rest, FirstOf(rest, Byte \ Digit))
  IN CASE digits = <<>> -> default
       [] digits # <<>> /\ signed /\ number[1] = Minus -> (0 - Numeral(digits)) % 65536
       [] OTHER -> Numeral(digits) % 65536

ServerAddress(s, default) ==
  LET slash == FirstOf(s, {Slash})
      hostPort == Before(s, slash)
      colon == FirstOf(hostPort, {Colon})
  IN [host |-> Before(hostPort, colon),
      port |-> IF Has(hostPort, Colon) THEN Port(Behind(hostPort, colon), default)
               ELSE default,
      path |-> IF Has(s, Slash) THEN SubSeq(s, slash, Len(s)) ELSE <<Slash>>]

-----------------------------------------------------------------------------
(* WSCrypto::base64_encode and decode; a character is its value, '=' is    *)
(* Pad, which B64index gives the value 0.                                  *)

Pad == 64

ByteAt(s, i) == IF i <= Len(s) THEN s[i] ELSE 0

Base64Encode(s) ==
  [i \in 1..(4 * ((Len(s) + 2) \div 3)) |->
    LET group == 3 * ((i - 1) \div 4)
        place == (i - 1) % 4
        bits == 65536 * ByteAt(s, group + 1) + 256 * ByteAt(s, group + 2)
                  + ByteAt(s, group + 3)
    IN IF group + place > Len(s) THEN Pad
       ELSE (bits \div <<262144, 4096, 64, 1>>[place + 1]) % 64]

Base64Value(s, i) == IF ByteAt(s, i) = Pad THEN 0 ELSE ByteAt(s, i)

Base64Decode(s) ==
  LET padded == Len(s) > 0 /\ (Len(s) % 4 # 0 \/ Last(s) = Pad)
      whole == ((Len(s) + 3) \div 4) - (IF padded THEN 1 ELSE 0)
      bits(g) == 262144 * Base64Value(s, 4 * g + 1) + 4096 * Base64Value(s, 4 * g + 2)
                   + 64 * Base64Value(s, 4 * g + 3) + Base64Value(s, 4 * g + 4)
      octet(i) == (bits((i - 1) \div 3) \div <<65536, 256, 1>>[((i - 1) % 3) + 1]) % 256
      two == Len(s) > 4 * whole + 2 /\ s[4 * whole + 3] # Pad
  IN [i \in 1..(3 * whole + (IF ~padded THEN 0 ELSE IF two THEN 2 ELSE 1)) |-> octet(i)]

-----------------------------------------------------------------------------
(* The accept key of a handshake: a std::string made of the hash as a C    *)
(* string, resized to the length of the hash, loses what is behind a zero. *)

CString(s) == Before(s, FirstOf(s, {0}))

Through(hash) == [i \in DOMAIN hash |-> IF i <= Len(CString(hash)) THEN hash[i] ELSE 0]

ServerAccept(hash) == Base64Encode(Through(hash))

(* The client's strcmp() with its own hash. *)
ClientAccepts(key, hash) ==
  CString(Base64Decode(key)) = CString(Through(hash))
=============================================================================
