----------------------------- MODULE TextChecks -----------------------------
(***************************************************************************)
(* What the conversions of module Text compute, checked by TLC on all      *)
(* inputs up to some length over the bytes that the code tells apart.      *)
(***************************************************************************)
EXTENDS Text

A == 97
Tricky == {0, Space, PercentSign, Plus, 50, A, 200}

(* What Percent::encode makes, Percent::decode takes apart. *)
ASSUME PercentRoundTrip ==
  \A s \in BoundedSeq(Tricky, 3) : PercentDecode(PercentEncode(s)) = s

(* A query string that was created is parsed to the same fields, as long   *)
(* as no name has a '&' or '=' or is empty: names are not encoded.         *)
Names == {<<A>>, <<A, PercentSign>>, <<Plus, A>>}
Values == {<<>>, <<Ampersand>>, <<A, Equals>>, <<Space, 200>>}

ASSUME QueryRoundTrip ==
  \A fields \in BoundedSeq(Names \X Values, 2) :
    QueryParse(QueryCreate(fields)) = fields

(* A header field comes back without the spaces before its value and the   *)
(* line end behind it, whatever colons and spaces the value has; the blank *)
(* line ends the header.                                                   *)
HeaderLine(field) == field[1] \o <<Colon, Space>> \o field[2] \o <<Return>>

ASSUME HeaderRoundTrip ==
  \A fields \in BoundedSeq({<<A>>, <<A, Space>>}
                           \X {<<>>, <<A>>, <<Colon, A>>, <<A, Space>>}, 3) :
    HeaderParse([i \in DOMAIN fields |-> HeaderLine(fields[i])]
                  \o << <<Return>>, <<A, Colon, A>> >>) = fields

(* Attributes come back, quoted or not, if no value is empty.  One that is *)
(* empty is lost at the end, and takes the next attribute with it          *)
(* elsewhere.                                                              *)
Attribute(name, value, quoted) ==
  name \o (IF value = <<>> THEN <<>> ELSE
             <<Equals>> \o (IF quoted THEN <<Quote>> ELSE <<>>)
               \o PercentEncode(value) \o (IF quoted THEN <<Quote>> ELSE <<>>))

ASSUME AttributesRoundTrip ==
  \A fields \in BoundedSeq({<<A>>, <<A, 98>>} \X {<<>>, <<A>>, <<Semi, Quote>>}, 2) :
    \A quoted \in [DOMAIN fields -> BOOLEAN] :
      AttributesParse(FlattenSeq([i \in DOMAIN fields |->
        (IF i = 1 THEN <<>> ELSE <<Semi, Space>>)
          \o Attribute(fields[i][1], fields[i][2], quoted[i])])) = fields

ASSUME EmptyAttributeValue ==
  /\ AttributesParse(<<A, Equals>>) = <<>>
  /\ AttributesParse(<<A, Equals, Semi, 98, Equals, A>>)
       = << <<<<A>>, <<Semi, 98, Equals, A>>>> >>

(* A request line comes back in its parts; the path ends at the first '?'. *)
ASSUME RequestLineRoundTrip ==
  \A path \in BoundedSeq({A, Slash}, 2),
     query \in BoundedSeq({A, Question, Equals}, 2),
     version \in {<<49>>, <<49, 46, 49>>} :
    RequestLineParse(<<71>> \o <<Space>> \o path
                     \o (IF query = <<>> THEN <<>> ELSE <<Question>> \o query)
                     \o <<Space>> \o Http \o <<Slash>> \o version \o <<Return>>)
      = [ok |-> TRUE, method |-> <<71>>, path |-> path, query |-> query,
         version |-> version]

(* A line without a blank or a protocol is refused. *)
ASSUME RequestLineRefused ==
  \A s \in BoundedSeq({A, Space, Slash, Return}, 4) : RequestLineParse(s) = Malformed

(* A status line comes back in its parts, and only one that says 101 and a *)
(* blank, as the server's does, completes an upgrade: a status without a   *)
(* reason and its blank does not.                                          *)
ASSUME StatusLineRoundTrip ==
  \A version \in {<<49>>, <<49, 46, 49>>}, code \in BoundedSeq({48, 49}, 3),
     reason \in {<<>>, <<Space>>, <<Space, A, Space, A>>} :
    LET status == code \o reason
        parsed == StatusLineParse(Http \o <<Slash>> \o version
                                    \o <<Space>> \o status \o <<Return>>)
    IN /\ parsed = [ok |-> TRUE, version |-> version, status |-> status]
       /\ Switching(status) <=> code = <<49, 48, 49>> /\ reason # <<>>

(* The address of a server comes back in its parts if its port fits, and   *)
(* with the default port and path where it has none.                       *)
Decimal(n) == IF n < 10 THEN <<48 + n>> ELSE
                <<48 + (n \div 10000), 48 + ((n \div 1000) % 10),
                  48 + ((n \div 100) % 10), 48 + ((n \div 10) % 10), 48 + (n % 10)>>

ASSUME AddressRoundTrip ==
  \A host \in BoundedSeq({A, 46, 49}, 2), path \in {<<>>, <<Slash>>, <<Slash, Colon, A>>} :
    \A port \in {0, 9, 80, 65535, 65536, 70000, 99999} :
      LET address == ServerAddress(host \o <<Colon>> \o Decimal(port) \o path, 80)
      IN /\ address.host = host
         /\ address.path = IF path = <<>> THEN <<Slash>> ELSE path
         /\ address.port = port <=> port < 65536
         /\ ServerAddress(host \o path, 80) = [address EXCEPT !.port = 80]

(* A scheme is taken for the host, and the rest for a path. *)
ASSUME SchemeIsHost ==
  ServerAddress(<<119, 115, Colon, Slash, Slash, A>>, 80)
    = [host |-> <<119, 115>>, port |-> 80, path |-> <<Slash, Slash, A>>]

ASSUME Base64RoundTrip ==
  \A s \in BoundedSeq({0, 1, 63, 255}, 5) : Base64Decode(Base64Encode(s)) = s

(* The key that the server sends is that of RFC 6455 only if the hash has  *)
(* no byte but zeros behind its first zero.                                *)
Hashes == BoundedSeq({0, 1, 255}, 5)

ASSUME AcceptIsCut ==
  \A hash \in Hashes :
    ServerAccept(hash) = Base64Encode(hash) <=>
      \A i, j \in DOMAIN hash : i < j /\ hash[i] = 0 => hash[j] = 0

(* This client is content with the key of this server, and with the true   *)
(* one; but also with any that agrees up to the first zero.                *)
ASSUME ClientIsContent ==
  \A hash \in Hashes :
    /\ ClientAccepts(ServerAccept(hash), hash)
    /\ ClientAccepts(Base64Encode(hash), hash)
    /\ \A other \in Hashes :
         Len(other) = Len(hash) =>
           (ClientAccepts(Base64Encode(other), hash)
              <=> CString(other) = CString(hash))
=============================================================================
