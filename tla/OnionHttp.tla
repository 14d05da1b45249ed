---------------------------- MODULE OnionHttp ----------------------------
(***************************************************************************)
(* The HTTP side of a connection: the buffer of http.c, the requests of    *)
(* request.c and the parser of parser.c that joins them.                   *)
(*                                                                         *)
(* onion_http_parser_request is called with each piece of data that        *)
(* arrives.  It appends the piece to the buffer, and has the first request *)
(* that is not ready parse what it can.  A client sends messages one after *)
(* another; what is received of them is cut into pieces anywhere, so that  *)
(* a piece may hold the end of a message and the beginning of the next.    *)
(*                                                                         *)
(* A byte string is a sequence of tokens: a start line, a header field, a  *)
(* line end, a chunk size, a byte of a body.  The size of a token is 1.    *)
(* What a start line or a header field says is in a table: its characters, *)
(* as their codes, where the code looks at them.  The line of a chunk size *)
(* is not longer than the 16 characters the code reads (request.c:298).    *)
(***************************************************************************)
EXTENDS Integers, Sequences, FiniteSets, SequencesExt

CONSTANTS
    Messages,      \* the messages of the client
    Lines,         \* what its start lines say: [method, url, version]
    Fields,        \* what its header fields say: [name, value]
    Streamed,      \* those of them it may send without a pause
    MaxSent,       \* bound: how many messages it sends
    MaxAhead,      \* bound: what is not handed over yet as the next one is begun
    MaxRequests,   \* ONION_HTTP_MAX_REQUESTS
    MaxHeaders,    \* ONION_HTTP_MAX_HEADERS
    LineMax,       \* ONION_HTTP_LINE_MAX_SIZE, also the first capacity
    UrlMax,        \* ONION_HTTP_LINE_URL_MAX_SIZE
    NameMax,       \* ONION_HTTP_HEADER_NAME_SIZE
    ValueMax,      \* ONION_HTTP_HEADER_VALUE_SIZE
    HeaderMax,     \* ONION_HTTP_MAX_HEADER_SIZE
    BodyMax,       \* ONION_HTTP_MAX_BODY_SIZE
    MessageMax,    \* ONION_HTTP_MAX_MESSAGE_SIZE, the limit of the capacity
    SizeRange      \* 2^64, the values of size_t: more than any size here

ASSUME SizesAssumption ==
    /\ {MaxSent, MaxRequests, MaxHeaders, LineMax, UrlMax, NameMax, ValueMax,
        HeaderMax, BodyMax, MessageMax, SizeRange} \subseteq Nat \ {0}
    /\ MaxAhead \in Nat
    /\ LineMax <= MessageMax
    /\ \A n \in {BodyMax, MessageMax} : n < SizeRange

VARIABLES
    buff,       \* onion_http_buffer_t: the bytes up to `end', start, capacity
    requests,   \* onion_http_request_t of each index
    answer,     \* what the last call returned
    fault,      \* how the process came to harm, or "none"
    message,    \* the message that is being handed over to the parser
    pending,    \* what the client sent and was not handed over yet
    sent,       \* how many messages the client has begun
    place,      \* ghost: where in `message' the parser is.  "known", or "joined"
                \* when pending holds, or held, the beginning of the next one too,
                \* or "lost" when a request was made of such bytes
    origin,     \* ghost: the message of which a request was made
    whole,      \* ghost: the requests made of pieces of no other message
    stream,     \* ghost: what was appended for the request that is open
    clean       \* ghost: nothing happened yet that the code does not cope with

parser == <<buff, requests>>
client == <<message, pending, sent, place>>
ghosts == <<origin, whole, stream>>
vars == <<parser, answer, fault, client, ghosts, clean>>

(***************************************************************************)
(* Messages.  `coding' says how the end of the body is known: by its       *)
(* length, in chunks, or not at all.  `body' is a sequence of chunks.      *)
(***************************************************************************)
Tokens == [kind : {"line", "field", "crlf", "size", "byte", "junk"}, n : Nat]
Token(kind, n) == [kind |-> kind, n |-> n]
Crlf == Token("crlf", 0)

Payload(m) == FlattenSeq(m.body)

NoMessage == [line |-> Crlf, fields |-> <<>>, coding |-> "none", body |-> <<>>]

BodyOnWire(m) ==
    CASE m.coding = "length"  -> Payload(m)
      [] m.coding = "chunked" ->
            FlattenSeq([i \in DOMAIN m.body |->
                <<Token("size", Len(m.body[i])), Crlf>> \o m.body[i] \o <<Crlf>>])
            \o <<Token("size", 0), Crlf, Crlf>>
      [] m.coding = "none"    -> <<>>

Wire(m) == <<m.line, Crlf>>
           \o FlattenSeq([i \in DOMAIN m.fields |-> <<m.fields[i], Crlf>>])
           \o <<Crlf>> \o BodyOnWire(m)

(***************************************************************************)
(* What the code makes of the characters of a line.  A name or a value it  *)
(* looks for stands here with its first character.                         *)
(***************************************************************************)
MethodList == <<"GET", "POST", "PUT", "DELETE", "HEAD", "OPTIONS", "PATCH">>
VersionList == <<"HTTP/1.1">>

\* onion_http_choice_get: the tokens count from 0.
ChoiceGet(list, name) ==
    IF \E i \in DOMAIN list : list[i] = name
    THEN (CHOOSE i \in DOMAIN list : list[i] = name) - 1 ELSE -1

\* onion_http_get_valid_method, with ONION_HTTP_METHOD_INVALID behind the others
ValidMethod(name) ==
    LET i == ChoiceGet(MethodList, name) IN IF i >= 0 THEN i ELSE Len(MethodList)

\* onion_http_get_valid_version, with ONION_HTTP_VERSION_INVALID
ValidVersion(name) == ChoiceGet(VersionList, name)

\* onion_http_check_in_range
InRange(text, min, max, exceptions) ==
    \A i \in DOMAIN text : text[i] \in min .. max \cup exceptions

\* ( ) < > @ , ; : \ " / [ ] ? = { }
Separators == {40, 41, 60, 62, 64, 44, 59, 58, 92, 34, 47, 91, 93, 63, 61, 123, 125}

\* onion_http_get_valid_header_name
ValidHeaderName(name) ==
    \A i \in DOMAIN name : name[i] \in (33 .. 126) \ Separators

Lower(text) == [i \in DOMAIN text |-> IF text[i] \in 65 .. 90 THEN text[i] + 32 ELSE text[i]]

\* onion_http_check_header
CheckHeader(name, target) == Lower(name) = Lower(target)

Host             == <<72>>
TransferEncoding == <<84>>
ContentLength    == <<67>>
Chunked          == <<99>>

\* The text without the characters at its beginning that are in `chars'.
Behind(text, chars) ==
    LET k == SelectInSeq(text, LAMBDA c : c \notin chars)
    IN IF k = 0 THEN <<>> ELSE SubSeq(text, k, Len(text))

\* The value begins behind the spaces.
Value(text) == Behind(text, {32})

\* atoi: blanks, a sign, and the digits up to the first other character.
Atoi(text) ==
    LET t      == Behind(text, {9, 32})
        signed == t # <<>> /\ t[1] \in {43, 45}
        number == IF signed THEN Tail(t) ELSE t
        k      == SelectInSeq(number, LAMBDA c : c \notin 48 .. 57)
        digits == IF k = 0 THEN number ELSE SubSeq(number, 1, k - 1)
        n      == FoldLeft(LAMBDA sum, c : 10 * sum + c - 48, 0, digits)
    IN IF signed /\ t[1] = 45 THEN -n ELSE n

(***************************************************************************)
(* The buffer.  `data' is what lies before `end'.  A buffer without        *)
(* capacity is one that was given back.                                    *)
(***************************************************************************)
FreshBuffer == [data |-> <<>>, start |-> 0, capacity |-> LineMax, limit |-> MessageMax]

NoBuffer == [data |-> <<>>, start |-> 0, capacity |-> 0, limit |-> 0]

\* What the buffer holds between start and end.
Unread(b) == SubSeq(b.data, b.start + 1, Len(b.data))

\* onion_http_buff_consume
Consume(b, n) ==
    IF b.start + n >= Len(b.data) THEN [b EXCEPT !.data = <<>>, !.start = 0]
                                  ELSE [b EXCEPT !.start = @ + n]

\* Mutant: the bytes stay where they are.
CompactsNothing(b, len) ==
    IF b.capacity - Len(b.data) < len /\ b.start > 0
    THEN [b EXCEPT !.start = 0]
    ELSE b

\* The bytes are moved to the front when the piece does not fit behind them.
Compact(b, len) ==
    IF b.capacity - Len(b.data) < len /\ b.start > 0
    THEN [b EXCEPT !.data = Unread(b), !.start = 0]
    ELSE b

\* The capacities that doubling reaches and that hold `size' bytes.
Capacities(b, size) ==
    {c \in size .. b.limit : \E k \in 0 .. b.limit \div b.capacity : c = b.capacity * 2^k}

\* The loop at http.c:126 ends: with no capacity doubling makes no progress.
DoublingEnds(b) == b.capacity > 0

Grows(b, len) == Capacities(Compact(b, len), Len(Compact(b, len).data) + len) # {}

\* The piece fits neither behind the bytes nor, with one to spare, after the move.
Reallocates(b, len) ==
    LET c == Compact(b, len) IN
    /\ b.capacity - Len(b.data) < len
    /\ c.capacity - Len(c.data) <= len

\* onion_http_buff_append, where it succeeds
BuffAppend(b, piece) ==
    LET c == Compact(b, Len(piece)) IN
    [c EXCEPT !.data = @ \o piece,
              !.capacity = Min(Capacities(c, Len(c.data) + Len(piece)))]

(***************************************************************************)
(* A request.  `url', `headers' and `body' are memory of its own; `method' *)
(* is never cleared; the rest is what onion_http_request_reset clears.     *)
(***************************************************************************)
NewRequest ==
    [state |-> "done", ready |-> FALSE, active |-> FALSE,
     received |-> 0, lineEnd |-> 0, headerEnd |-> 0,
     host |-> FALSE, chunked |-> FALSE, hasLength |-> FALSE,
     capacity |-> 0, bodyLen |-> 0, chunkDirty |-> 0,
     method |-> 0, url |-> 0, headers |-> <<>>, body |-> <<>>]

\* onion_http_request_exit
Exited(r) == [NewRequest EXCEPT !.method = r.method]

\* Mutant: the header fields are cleared as well.
ResetsAll(r) == [Exited(r) EXCEPT !.url = r.url, !.body = r.body]

\* onion_http_request_reset
Reset(r) == [Exited(r) EXCEPT !.url = r.url, !.headers = r.headers, !.body = r.body]

\* onion_http_request_init
Initialised(r) == [Reset(r) EXCEPT !.active = TRUE]

\* What a parsing function answers: to go on, to wait, an error, or a request
\* that is ready; and what it made of request and buffer.
Outcome(ret, r, b) == [ret |-> ret, r |-> r, b |-> b]

LineEnds(s) == {i \in DOMAIN s : s[i] = Crlf}

\* The target is neither empty nor too long, and printable.
IsUrl(url) == Len(url) \in 1 .. UrlMax - 1 /\ InRange(url, 32, 126, {})

\* The request as far as a start line of three parts changes it: the method, then
\* the memory for the target, then the version.
StartLine(r, n) ==
    LET line   == Lines[n]
        method == ValidMethod(line.method)
    IN CASE ~IsUrl(line.url) -> r
         [] IsUrl(line.url) /\ method = Len(MethodList) -> [r EXCEPT !.method = method]
         [] OTHER -> [r EXCEPT !.method = method, !.url = n]

IsStartLine(t) ==
    /\ t.kind = "line"
    /\ IsUrl(Lines[t.n].url)
    /\ ValidMethod(Lines[t.n].method) < Len(MethodList)
    /\ ValidVersion(Lines[t.n].version) >= 0

\* onion_http_parse_start_line
ParseStartLine(r, b) ==
    LET s == Unread(b) IN
    CASE Len(s) >= LineMax -> Outcome("error", r, b)
      [] Len(s) < LineMax /\ LineEnds(s) = {} -> Outcome("more", r, b)
      [] Len(s) < LineMax /\ LineEnds(s) # {} ->
            IF s[1].kind # "line" THEN Outcome("error", r, b)
            ELSE IF ~IsStartLine(s[1]) THEN Outcome("error", StartLine(r, s[1].n), b)
            ELSE Outcome("next",
                         [StartLine(r, s[1].n) EXCEPT !.lineEnd = 2, !.state = "headers"],
                         Consume(b, 2))

\* Where an empty line begins, that is where "\r\n\r\n" is found.
EmptyLines(s) == {i \in LineEnds(s) : i + 1 \in LineEnds(s)}

\* The header fields before the first empty line, each a token and its end.
FieldsOf(s) ==
    IF s[1] = Crlf THEN <<>>
    ELSE [i \in 1 .. Min(EmptyLines(s)) \div 2 |-> s[2 * i - 1]]

\* A line with a colon and a name, which is written before the value is looked at.
HasName(t) ==
    /\ t.kind = "field"
    /\ Len(Fields[t.n].name) < NameMax
    /\ ValidHeaderName(Fields[t.n].name)

IsField(t) ==
    /\ HasName(t)
    /\ Len(Value(Fields[t.n].value)) < ValueMax
    /\ InRange(Value(Fields[t.n].value), 32, 255, {9})

IsHost(t) == CheckHeader(Fields[t.n].name, Host)

IsChunked(t) == /\ CheckHeader(Fields[t.n].name, TransferEncoding)
                /\ CheckHeader(Value(Fields[t.n].value), Chunked)

IsLength(t) == CheckHeader(Fields[t.n].name, ContentLength)

\* The name of a field more than there is room for is written behind the array.
Overruns(fields) ==
    /\ Len(fields) > MaxHeaders
    /\ \A i \in 1 .. MaxHeaders : IsField(fields[i])
    /\ HasName(fields[MaxHeaders + 1])

\* The lengths that stand before the transfer encoding.
LengthFields(fields) ==
    {i \in DOMAIN fields : IsLength(fields[i]) /\ \A j \in 1 .. i : ~IsChunked(fields[j])}

\* The last of them counts, as a size_t.
LengthOf(fields) ==
    Atoi(Value(Fields[fields[Max(LengthFields(fields))].n].value)) % SizeRange

HasHost(fields) == \E i \in DOMAIN fields : IsHost(fields[i])

HasChunked(fields) == \E i \in DOMAIN fields : IsChunked(fields[i])

AreFields(fields) == \A i \in DOMAIN fields : IsField(fields[i])

\* The header fields that end n bytes further on.
TakeFields(r, b, fields, n) ==
    CASE Overruns(fields) -> Outcome("overrun", r, b)
      [] ~Overruns(fields) /\ ~(AreFields(fields) /\ HasHost(fields)) -> Outcome("error", r, b)
      [] OTHER ->
            Outcome("next",
                    [r EXCEPT !.headers = fields,
                              !.host = TRUE,
                              !.chunked = HasChunked(fields),
                              !.hasLength = LengthFields(fields) # {},
                              !.capacity = IF LengthFields(fields) = {} THEN @
                                           ELSE LengthOf(fields),
                              !.headerEnd = r.lineEnd + n,
                              !.state = "body"],
                    Consume(b, n))

\* onion_http_parse_headers
ParseHeaders(r, b) ==
    LET s == Unread(b)
    IN IF EmptyLines(s) = {}
       THEN Outcome(IF Len(s) >= HeaderMax THEN "error" ELSE "more", r, b)
       ELSE TakeFields(r, b, FieldsOf(s), Min(EmptyLines(s)) + 1)

\* http_request_set_ready: a body of no bytes cannot be allocated.
SetReady(r, b, body) ==
    IF Len(body) >= BodyMax \/ body = <<>> THEN Outcome("error", r, b)
    ELSE Outcome("ready",
                 [Reset(r) EXCEPT !.body = body, !.capacity = Len(body), !.ready = TRUE],
                 b)

\* One round of the loop at request.c:290.  The payload of a chunk is moved
\* to the front of the buffer, behind that of the chunks before it (with memcpy
\* at 332, although the two overlap: on the platforms of the build memcpy moves).
\* A line of more than 16 characters, for which 298 waits as for an empty one, is
\* not among what the client sends.
DecodeChunk(d, received) ==
    LET rest == SubSeq(d.s, d.dirty + 1, Len(d.s))
        size == rest[1].n
    IN CASE LineEnds(rest) = {} \/ rest[1] = Crlf -> [d EXCEPT !.ret = "more"]
         [] OTHER ->
              IF rest[1].kind # "size" \/ size >= BodyMax THEN [d EXCEPT !.ret = "error"]
              ELSE IF size = 0 THEN [d EXCEPT !.ret = "last"]
              ELSE IF Len(rest) < size + 3 THEN [d EXCEPT !.ret = "more"]
              ELSE IF received + size >= BodyMax THEN [d EXCEPT !.ret = "error"]
              ELSE [d EXCEPT !.s = [i \in DOMAIN d.s |->
                                        IF i \in d.len + 1 .. d.len + size
                                        THEN rest[i - d.len + 2] ELSE d.s[i]],
                             !.len = @ + size,
                             !.dirty = @ + size + 3]

\* The loop, on what the buffer holds: it goes on where it has stopped.
Decoded(r, s) ==
    LET Round[k \in 0 .. Len(s) + 1] ==
            IF k = 0
            THEN [s |-> s, len |-> r.bodyLen, dirty |-> r.chunkDirty, ret |-> "next"]
            ELSE LET d == Round[k - 1] IN
                 IF d.ret = "next" THEN DecodeChunk(d, r.received) ELSE d
    IN Round[Len(s) + 1]

\* The payload and the chunks not decoded yet stay in the buffer.
AfterChunks(r, b, d) ==
    LET r1 == [r EXCEPT !.bodyLen = d.len, !.chunkDirty = d.dirty]
        b1 == [b EXCEPT !.data = SubSeq(b.data, 1, b.start) \o d.s]
    IN IF d.ret = "last" THEN SetReady(r1, b1, SubSeq(d.s, 1, d.len))
                         ELSE Outcome(d.ret, r1, b1)

\* onion_http_transfer_encoding_handle
HandleChunks(r, b) == AfterChunks(r, b, Decoded(r, Unread(b)))

\* Mutant: the last bytes received are taken for the body.
TakesLast(r, b) ==
    LET got == r.received - r.headerEnd
        r1 == [r EXCEPT !.bodyLen = got]
    IN IF got >= r.capacity
       THEN SetReady(r1, b, SubSeq(Unread(b), got - r.capacity + 1, got))
       ELSE Outcome("more", r1, b)

\* Mutant: a body that is complete is still waited for.
AwaitsMore(r, b) ==
    LET got == r.received - r.headerEnd
        r1 == [r EXCEPT !.bodyLen = got]
    IN IF got > r.capacity THEN SetReady(r1, b, SubSeq(Unread(b), 1, got))
                           ELSE Outcome("more", r1, b)

\* onion_http_content_length_handle
HandleLength(r, b) ==
    LET got == r.received - r.headerEnd
        r1 == [r EXCEPT !.bodyLen = got]
    IN IF got >= r.capacity THEN SetReady(r1, b, SubSeq(Unread(b), 1, got))
                            ELSE Outcome("more", r1, b)

\* onion_http_parse_body
ParseBody(r, b) ==
    IF Len(Unread(b)) >= BodyMax THEN Outcome("error", r, b)
    ELSE IF r.chunked THEN HandleChunks(r, b)
    ELSE IF r.hasLength /\ r.capacity > 0 THEN HandleLength(r, b)
    ELSE Outcome("error", r, b)

HeadersAfter(p) ==
    IF p.ret = "next" /\ p.r.state = "headers" THEN ParseHeaders(p.r, p.b) ELSE p

BodyAfter(p) == IF p.ret = "next" THEN ParseBody(p.r, p.b) ELSE p

\* onion_http_request_parse: from the state reached as far as the data goes.
Parse(r, b) ==
    BodyAfter(HeadersAfter(
        IF r.state \in {"headers", "body"} THEN Outcome("next", r, b)
        ELSE ParseStartLine([r EXCEPT !.state = "start"], b)))

(***************************************************************************)
(* The parser.  A call gets the next k tokens of what the client sends,    *)
(* whatever messages they belong to.                                       *)
(***************************************************************************)
Free == {i \in 0 .. MaxRequests - 1 : ~requests[i].ready}

\* onion_http_find_free_request: req_pos is always 0.
Slot == Min(Free)

Piece(k) == SubSeq(pending, 1, k)

\* onion_http_request_append
Counted(r, k) == [r EXCEPT !.received = @ + k]

\* The request as it is parsed: initialised unless it is open.
Opened(k) ==
    LET r == requests[Slot]
        r0 == IF r.active THEN r ELSE Initialised(r)
    IN Counted(r0, k)

Parsed(k) == Parse(Opened(k), BuffAppend(buff, Piece(k)))

Receive(k) ==
    /\ fault = "none"
    /\ k \in 1 .. Len(pending)
    /\ pending' = SubSeq(pending, k + 1, Len(pending))
    /\ UNCHANGED <<message, sent>>

\* A call that makes no request of what it gets.
KeepsPlace == UNCHANGED <<place, origin, whole>>

\* A chunked message without its last line end is complete for the parser.
LeavesLineEnd == message.coding = "chunked" /\ pending' = <<Crlf>>

\* The piece is appended, and the parser goes on to parse.
Appends(k) ==
    /\ Receive(k)
    /\ Free # {}
    /\ DoublingEnds(buff)
    /\ Grows(buff, k)

\* Every request is ready: the piece is lost.
ReceiveLimit(k) ==
    /\ Receive(k)
    /\ Free = {}
    /\ answer' = "limit"
    /\ KeepsPlace
    /\ UNCHANGED <<parser, fault, stream, clean>>

ReceiveSpins(k) ==
    /\ Receive(k)
    /\ Free # {}
    /\ ~DoublingEnds(buff)
    /\ fault' = "spins"
    /\ KeepsPlace
    /\ UNCHANGED <<parser, answer, stream, clean>>

\* parser_error_exit: the buffer is given back, and the request, which has come to
\* be r, is emptied.
Fails(r) ==
    /\ buff' = NoBuffer
    /\ requests' = [requests EXCEPT ![Slot] = Exited(r)]
    /\ answer' = "error"
    /\ stream' = <<>>
    /\ KeepsPlace
    /\ UNCHANGED fault

\* The buffer would grow beyond its limit.
ReceiveTooMuch(k) ==
    /\ Receive(k)
    /\ Free # {}
    /\ DoublingEnds(buff)
    /\ ~Grows(buff, k)
    /\ Fails(requests[Slot])
    /\ clean' = (clean /\ ~LeavesLineEnd)

ReceiveError(k) ==
    /\ Appends(k)
    /\ Parsed(k).ret = "error"
    /\ Fails(Parsed(k).r)
    /\ clean' = (clean /\ ~LeavesLineEnd)

\* What is parsed takes memory: for a copy of the target or of a header field, for
\* the body, or for the buffer of the next request.
TakesMemory(k) ==
    \/ Parsed(k).r.url # Opened(k).url
    \/ Parsed(k).r.headers # Opened(k).headers
    \/ Parsed(k).ret = "ready"

\* The slab refuses it, or the memory for a larger buffer.
ReceiveNoMemory(k) ==
    /\ Appends(k)
    /\ \/ Reallocates(buff, k) /\ Fails(Opened(k))
       \/ TakesMemory(k) /\ Fails(Parsed(k).r)
    /\ clean' = FALSE

ReceiveOverrun(k) ==
    /\ Appends(k)
    /\ Parsed(k).ret = "overrun"
    /\ fault' = "overrun"
    /\ KeepsPlace
    /\ UNCHANGED <<parser, answer, stream, clean>>

ReceiveMore(k) ==
    /\ Appends(k)
    /\ Parsed(k).ret = "more"
    /\ buff' = Parsed(k).b
    /\ requests' = [requests EXCEPT ![Slot] = Parsed(k).r]
    /\ answer' = "ok"
    /\ stream' = stream \o Piece(k)
    /\ clean' = (clean /\ ~LeavesLineEnd)
    /\ KeepsPlace
    /\ UNCHANGED fault

\* The buffer is exchanged for a fresh one: what is left in it, the beginning of the
\* next message or all of it, is gone.
ReceiveReady(k) ==
    /\ Appends(k)
    /\ Parsed(k).ret = "ready"
    /\ buff' = FreshBuffer
    /\ requests' = [requests EXCEPT ![Slot] = Parsed(k).r]
    /\ answer' = "ok"
    /\ origin' = [origin EXCEPT ![Slot] = IF place = "lost" THEN NoMessage ELSE message]
    /\ whole' = IF place = "known" THEN whole \cup {Slot} ELSE whole
    /\ place' = IF place = "known" THEN "known" ELSE "lost"
    /\ stream' = <<>>
    /\ clean' = (clean /\ ~LeavesLineEnd)
    /\ UNCHANGED fault

(***************************************************************************)
(* The client, and the specification.                                      *)
(***************************************************************************)
IsAcceptable(m) ==
    /\ IsStartLine(m.line)
    /\ AreFields(m.fields)
    /\ HasHost(m.fields)
    /\ Len(m.fields) <= MaxHeaders
    /\ 2 * Len(m.fields) < HeaderMax
    /\ m.coding = "chunked" <=> HasChunked(m.fields)
    /\ m.coding # "chunked" =>
          LengthFields(m.fields) # {} /\ LengthOf(m.fields) = Len(Payload(m))
    /\ Payload(m) # <<>>
    /\ Len(Wire(m)) < LineMax
    /\ \A i \in DOMAIN m.body : Len(Wire(m)) + Len(m.body[i]) < BodyMax

\* A message says of its body what is true, if the fields that say so are read at
\* all, or claims a length that is refused.  No field is an empty line, and no chunk
\* but the last is empty; without an end there is no body.
IsFramed(m) ==
    /\ m.line \in Tokens
    /\ m.fields \in Seq(Tokens \ {Crlf})
    /\ m.body \in Seq(Seq(Tokens))
    /\ m.coding \in {"length", "chunked", "none"}
    /\ m.coding = "chunked" => \A i \in DOMAIN m.body : m.body[i] # <<>>
    /\ m.coding = "none" => m.body = <<>>
    /\ AreFields(m.fields) /\ HasHost(m.fields) =>
          /\ m.coding = "chunked" <=> HasChunked(m.fields)
          /\ m.coding # "chunked" /\ LengthFields(m.fields) # {} =>
                /\ LengthOf(m.fields) \in Nat
                /\ \/ LengthOf(m.fields) = Len(BodyOnWire(m))
                   \/ LengthOf(m.fields) >= BodyMax

ASSUME MessagesAssumption == \A m \in Messages : IsFramed(m)

\* The client sends a message, when all before is handed over, or in one stream with
\* the message before: then a piece may hold bytes of both.
Begin(m) ==
    /\ fault = "none"
    /\ \/ pending = <<>>
       \/ {message, m} \subseteq Streamed /\ Len(pending) <= MaxAhead
    /\ sent < MaxSent
    /\ pending' = pending \o Wire(m)
    /\ sent' = sent + 1
    /\ place' = IF place = "known" /\ pending # <<>> THEN "joined" ELSE place
    /\ message' = IF place' = "known" THEN m ELSE message
    /\ clean' = (clean /\ pending = <<>> /\ IsAcceptable(m) /\ sent < MaxRequests)
    /\ UNCHANGED <<parser, answer, fault, ghosts>>

\* onion_http_parser_exit: req_active is 0, so no request is emptied.
Exit ==
    /\ fault = "none"
    /\ fault' = "closed"
    /\ buff' = NoBuffer
    /\ UNCHANGED <<requests, answer, client, ghosts, clean>>

Init ==
    /\ buff = FreshBuffer
    /\ requests = [i \in 0 .. MaxRequests - 1 |-> NewRequest]
    /\ answer = "ok"
    /\ fault = "none"
    /\ message = NoMessage
    /\ pending = <<>>
    /\ sent = 0
    /\ place = "known"
    /\ origin = [i \in 0 .. MaxRequests - 1 |-> NoMessage]
    /\ whole = {}
    /\ stream = <<>>
    /\ clean = TRUE

Next ==
    \/ \E m \in Messages : Begin(m)
    \/ \E k \in 1 .. Len(pending) :
          \/ ReceiveLimit(k) \/ ReceiveSpins(k) \/ ReceiveTooMuch(k)
          \/ ReceiveError(k) \/ ReceiveNoMemory(k) \/ ReceiveOverrun(k)
          \/ ReceiveMore(k) \/ ReceiveReady(k)
    \/ Exit

Spec == Init /\ [][Next]_vars

(***************************************************************************)
(* Properties.                                                             *)
(***************************************************************************)

\* A request made of pieces that hold bytes of one message only is ready with the
\* method, the target, the header fields and the body of that message, however it
\* was cut (parser.c:40).
DeliversMessage ==
    \A i \in DOMAIN requests : requests[i].ready /\ i \in whole =>
        /\ requests[i].method = ValidMethod(Lines[origin[i].line.n].method)
        /\ requests[i].url = origin[i].line.n
        /\ requests[i].headers = origin[i].fields
        /\ requests[i].body = Payload(origin[i])

\* When its last piece holds bytes of the next message too, a request still has the
\* method, the target and the header fields of its message, and a body that begins
\* with that of the message; a body by length goes on with the bytes of the next one
\* (request.c:343), one in chunks ends where it should.
HeadDelivered ==
    \A i \in DOMAIN requests : requests[i].ready /\ origin[i] # NoMessage =>
        /\ requests[i].method = ValidMethod(Lines[origin[i].line.n].method)
        /\ requests[i].url = origin[i].line.n
        /\ requests[i].headers = origin[i].fields
        /\ IsPrefix(Payload(origin[i]), requests[i].body)
        /\ origin[i].coding = "chunked" => requests[i].body = Payload(origin[i])

\* As long as nothing happened that the code does not cope with (a message begun
\* before all of the one before was handed over is such a thing: parser.c:70 drops
\* what a piece holds of it), every message that has arrived is a request that is
\* ready, and no index was skipped.
ServesAll ==
    clean /\ pending = <<>> /\ fault = "none" =>
        {i \in DOMAIN requests : requests[i].ready} = 0 .. sent - 1

\* The counters of the open request say what of its bytes the buffer still
\* holds: all after the start line, all after the header fields, or, of a
\* chunked body, the payload so far and the chunks not decoded yet.  (Of what
\* message the payload is, is not known of a request made of bytes in between.)
BufferHoldsRest ==
    buff.capacity > 0 /\ Free # {} =>
    LET r == requests[Slot]
        rest == Unread(buff)
        From(n) == SubSeq(stream, n + 1, Len(stream))
    IN /\ r.received = Len(stream)
       /\ r.state \in {"done", "start"} => rest = stream
       /\ r.state = "headers" => rest = From(r.lineEnd)
       /\ r.state = "body" =>
             /\ r.headerEnd = 2 * Len(r.headers) + 3
             /\ ~r.chunked => rest = From(r.headerEnd)
             /\ r.chunked =>
                   /\ SubSeq(rest, r.chunkDirty + 1, Len(rest))
                          = From(r.headerEnd + r.chunkDirty)
                   /\ place # "lost" =>
                          SubSeq(rest, 1, r.bodyLen) = SubSeq(Payload(message), 1, r.bodyLen)
==========================================================================
