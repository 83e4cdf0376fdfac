---------------------------- MODULE HttpDecoder ----------------------------
(***************************************************************************)
(* The ReplayingDecoder and the HTTP request decoder that is built on it,  *)
(* on a TCP channel: requests arrive in reads of any size, decode runs as  *)
(* if all bytes were there, and when they are not it is played again from  *)
(* the last checkpoint.                                                    *)
(*                                                                         *)
(* A word, a header name and a character are one byte here.  The decoder   *)
(* writes zero bytes into the buffer to end its C strings; those that a    *)
(* replay can meet again are modelled.  The streams stay below the maximum *)
(* line and header sizes, and a CR is always followed by a LF.             *)
(***************************************************************************)
EXTENDS Integers, Sequences, FiniteSetsExt, SequencesExt

CONSTANTS
    Setups      \* the requests sent, maxChunkSize and the size of the read buffer

Digits == <<"0", "1", "2", "3">>
Names == {"length", "expect", "encoding", "other"}
Whitespace == {" ", "CR", "LF"}
Control == Whitespace \cup {"NUL"}
Bytes == Names \cup Control \cup Range(Digits) \cup {"w", ":", "chunked", "continue", "HTTP/", "1.1"}

(* A request as it is sent; the body of a chunked one is in chunks.         *)
Fields == [name : Bytes, value : Seq(Bytes)]
Requests == [lead : Seq(Whitespace), eol : {<<"LF">>, <<"CR", "LF">>},
             fields : Seq(Fields), body : Seq(Bytes)]

ASSUME HttpAssumption ==
    \A s \in Setups : /\ s.requests \in Seq(Requests)
                      /\ s.max \in Nat \ {0} /\ s.capacity \in Nat \ {0}

Version == <<"HTTP/", "1.1">>
HeadLine(r) == <<"w", " ", "w", " ">> \o Version \o r.eol
FieldLine(r, f) == <<f.name, ":", " ">> \o f.value \o r.eol
Preamble(r) ==
    HeadLine(r) \o FlattenSeq([i \in DOMAIN r.fields |-> FieldLine(r, r.fields[i])]) \o r.eol
Text(r) == r.lead \o Preamble(r) \o r.body

VARIABLES
    setup,      \* the requests and the parameters
    stream,     \* their bytes
    arrived,    \* number of bytes that have arrived
    split,      \* history: a read ended where the first lines of a request must not be cut
    buf,        \* the channel's read buffer: the cumulation, and its reader index
    dec,        \* the decoder: state, chunkSize and message
    running,    \* callDecode runs for a "message" or for "cleanup", or decodeLast, or "no"
    told,       \* the last step was a call of a handler upstream
    out,        \* the messages sent upstream
    open,       \* the channel is open
    fault       \* a NULL string, a NULL buffer or memory outside of the buffer was used

vars == <<setup, stream, arrived, split, buf, dec, running, told, out, open, fault>>

States == {"SKIP_CONTROL_CHARS", "READ_INITIAL", "READ_HEADER",
           "READ_FIXED_LENGTH_CONTENT", "READ_FIXED_LENGTH_CONTENT_AS_CHUNKS",
           "READ_CHUNK_SIZE", "READ_CHUNKED_CONTENT", "READ_CHUNKED_CONTENT_AS_CHUNKS",
           "READ_CHUNK_DELIMITER", "READ_CHUNK_FOOTER"}

Message(fields, chunked, content) ==
    [kind |-> "request", fields |-> fields, chunked |-> chunked, content |-> content]
Chunk(content) == [kind |-> "chunk", content |-> content]
LAST_CHUNK == [kind |-> "last"]
Messages ==
    [kind : {"request"}, fields : Seq(Fields), chunked : BOOLEAN, content : Seq(Bytes)]
      \cup [kind : {"chunk"}, content : Seq(Bytes)] \cup {LAST_CHUNK}

(* The types; the reader index stays within the buffer and chunkSize never  *)
(* becomes negative.                                                        *)
TypeOK ==
    /\ setup \in Setups
    /\ stream \in Seq(Bytes)
    /\ arrived \in 0 .. Len(stream)
    /\ buf \in [bytes : Seq(Bytes), reader : Nat] /\ buf.reader <= Len(buf.bytes)
    /\ dec \in [state : States, chunkSize : Nat, fields : Seq(Fields)]
    /\ running \in {"no", "message", "cleanup", "last"}
    /\ split \in BOOLEAN /\ told \in BOOLEAN /\ open \in BOOLEAN /\ fault \in BOOLEAN
    /\ out \in Seq(Messages)

Init ==
    /\ setup \in Setups
    /\ stream = FlattenSeq([i \in DOMAIN setup.requests |-> Text(setup.requests[i])])
    /\ arrived = 0
    /\ split = FALSE
    /\ buf = [bytes |-> <<>>, reader |-> 0]
    /\ dec = [state |-> "SKIP_CONTROL_CHARS", chunkSize |-> 0, fields |-> <<>>]
    /\ running = "no"
    /\ told = FALSE
    /\ out = <<>>
    /\ open = TRUE
    /\ fault = FALSE

-----------------------------------------------------------------------------
(* Where the requests start in the stream, and the places where the end of  *)
(* a read does harm: inside of the first line of a request, and between its *)
(* first complete header line and the end of its headers.                   *)
Start(requests, i) ==
    LET after[k \in 0 .. Len(requests)] ==
            IF k = 0 THEN 0 ELSE after[k - 1] + Len(Text(requests[k]))
    IN  after[i - 1]
HarmfulCuts(requests, i) ==
    LET r == requests[i]
        start == Start(requests, i) + Len(r.lead)
        headers == start + Len(HeadLine(r))
        end == start + Len(Preamble(r))
    IN  start + 1 .. headers - 1
          \cup (IF r.fields = <<>> THEN {} ELSE headers + Len(FieldLine(r, r.fields[1])) .. end - 1)
InHead(requests, place) == \E i \in DOMAIN requests : place \in HarmfulCuts(requests, i)

-----------------------------------------------------------------------------
readableBytes(b) == Len(b.bytes) - b.reader
Slice(b, n) == SubSeq(b.bytes, b.reader + 1, b.reader + n)
MoveTo(b, index) == [b EXCEPT !.reader = index]
ToEnd(b) == MoveTo(b, Len(b.bytes))

(* What a call of decode does: the buffer and the decoder afterwards,       *)
(* whether the last read found too few bytes (needMoreBytes), the messages  *)
(* it returns, and whether it set a checkpoint, always at the final reader  *)
(* index, or threw.                                                         *)
Outcome(b, d, more, msgs, checked, ends) ==
    [buf |-> b, dec |-> d, more |-> more, msgs |-> msgs, checked |-> checked, ends |-> ends]
NeedMore(b) == Outcome(b, dec, TRUE, <<>>, FALSE, "returns")
Throws(b) == Outcome(b, dec, FALSE, <<>>, FALSE, "throws")
Faults(b) == Outcome(b, dec, FALSE, <<>>, FALSE, "faults")
checkpoint(b, state) ==
    Outcome(b, [dec EXCEPT !.state = state], FALSE, <<>>, TRUE, "returns")
Returns(o, msgs) == [o EXCEPT !.msgs = msgs]
reset(b, msgs) == Returns(checkpoint(b, "SKIP_CONTROL_CHARS"), msgs)

(* The line that starts after byte p: its text without the line end, the    *)
(* index of the byte that ends it, and whether it is complete.              *)
LineAt(b, p) ==
    LET ends == {j \in p + 1 .. Len(b.bytes) : b.bytes[j] = "LF"}
        j == IF ends = {} THEN Len(b.bytes) + 1 ELSE Min(ends)
        eol == IF j > p + 1 /\ b.bytes[j - 1] = "CR" THEN j - 1 ELSE j
    IN  [from |-> p, text |-> SubSeq(b.bytes, p + 1, eol - 1), eol |-> eol, next |-> j,
         complete |-> ends # {}]

(* The complete lines after byte p, up to and with the first empty one.     *)
LinesAfter(b, p) ==
    LET after[q \in p .. Len(b.bytes)] ==
            LET l == LineAt(b, q)
            IN  IF ~l.complete THEN <<>>
                ELSE IF l.text = <<>> THEN <<l>>
                ELSE <<l>> \o after[l.next]
    IN  after[p]

Zeroed(b, indexes) ==
    [b EXCEPT !.bytes = [i \in DOMAIN @ |-> IF i \in indexes THEN "NUL" ELSE @[i]]]

skipControlCharacters(b) ==
    LET starts == {i \in b.reader + 1 .. Len(b.bytes) : b.bytes[i] \notin Control}
    IN  IF starts = {} THEN [checkpoint(ToEnd(b), dec.state) EXCEPT !.more = TRUE]
        ELSE checkpoint(MoveTo(b, Min(starts) - 1), "READ_INITIAL")

(* splitInitialLine: an incomplete line is taken like a complete one; the   *)
(* last character of a complete one is cut off; createMessage must not be   *)
(* called with less than three words, and throws if the third, which is     *)
(* read to the end of the line, is no HTTP version.                         *)
Words(t) == Cardinality({i \in DOMAIN t : t[i] # " " /\ (i = 1 \/ t[i - 1] = " ")})
LineLength(l) == Len(l.text) - (IF l.complete THEN 1 ELSE 0)

ReadInitial(b) ==
    LET l == LineAt(b, b.reader)
        after == MoveTo(b, IF l.complete THEN l.next ELSE Len(b.bytes))
        created == checkpoint(after, "READ_HEADER")
    IN  IF LineLength(l) = 0
        THEN Outcome(after, dec, ~l.complete, <<>>, FALSE, "returns")
        ELSE IF Words(SubSeq(l.text, 1, LineLength(l))) < 3 THEN Faults(after)
        ELSE IF ~IsSuffix(Version, l.text) THEN Throws(after)
        ELSE [created EXCEPT !.more = ~l.complete, !.dec.fields = <<>>]

-----------------------------------------------------------------------------
(* splitHeader: where the value begins, and the byte after the name, which  *)
(* is set to zero if there is a value.                                      *)
ValueAt(t) ==
    {i \in DOMAIN t : /\ t[i] \notin Whitespace
                      /\ \E c \in 1 .. i - 1 : t[c] = ":" /\ \A j \in c + 1 .. i - 1 : t[j] = " "}
NameEnd(t) == Min({i \in DOMAIN t : t[i] \in {":", " "}})
CString(t) == SubSeq(t, 1, Min({i \in DOMAIN t : t[i] = "NUL"} \cup {Len(t) + 1}) - 1)
splitHeader(t) ==
    [name |-> t[1],
     value |-> IF ValueAt(t) = {} THEN <<>> ELSE CString(SubSeq(t, Min(ValueAt(t)), Len(t)))]
ZeroesOf(l) ==
    {l.eol} \cup (IF ValueAt(l.text) = {} THEN {} ELSE {l.from + NameEnd(l.text)})

(* readHeaders on the complete lines: a header is added when the line after *)
(* it has been read; a folded line (trim does not return) and a header      *)
(* without a value (a string made of NULL) are faults.                      *)
AddedHeaders(lines) == [k \in 1 .. Len(lines) - 1 |-> splitHeader(lines[k].text)]
HeaderFault(lines) ==
    \/ \E k \in 1 .. Len(lines) - 1 : ValueAt(lines[k].text) = {}
    \/ \E k \in 2 .. Len(lines) : lines[k].text # <<>> /\ lines[k].text[1] = " "

isChunked(fields) ==
    \E i \in DOMAIN fields : fields[i].name = "encoding" /\ fields[i].value = <<"chunked">>
is100ContinueExpected(fields) ==
    \E i \in DOMAIN fields : fields[i].name = "expect" /\ fields[i].value = <<"continue">>

DigitValue(d) == CHOOSE n \in 0 .. Len(Digits) - 1 : Digits[n + 1] = d
Number(t, radix) ==
    LET value[i \in 0 .. Len(t)] == IF i = 0 THEN 0 ELSE radix * value[i - 1] + DigitValue(t[i])
    IN  value[Len(t)]

(* The header that was added last is found first; atoi takes the digits     *)
(* that it begins with.                                                     *)
LeadingDigits(t) ==
    SubSeq(t, 1, Min({i \in DOMAIN t : t[i] \notin Range(Digits)} \cup {Len(t) + 1}) - 1)
getContentLength(fields) ==
    LET found == {i \in DOMAIN fields : fields[i].name = "length"}
    IN  IF found = {} \/ fields[Max(found)].value = <<>> THEN -1
        ELSE Number(LeadingDigits(fields[Max(found)].value), 10)

(* After the last header: which content follows. *)
HeadersRead(b, fields) ==
    LET length == getContentLength(fields)
        To(state) == [checkpoint(b, state) EXCEPT !.dec.fields = fields]
        first == <<Message(fields, TRUE, <<>>)>>
    IN  IF isChunked(fields) THEN Returns(To("READ_CHUNK_SIZE"), first)
        ELSE IF length <= 0
        THEN Returns(To("SKIP_CONTROL_CHARS"), <<Message(fields, FALSE, <<>>)>>)
        ELSE IF length > setup.max \/ is100ContinueExpected(fields)
        THEN [Returns(To("READ_FIXED_LENGTH_CONTENT_AS_CHUNKS"), first)
                EXCEPT !.dec.chunkSize = length]
        ELSE To("READ_FIXED_LENGTH_CONTENT")

ReadHeader(b) ==
    LET lines == LinesAfter(b, b.reader)
        zeroed == Zeroed(b, UNION {ZeroesOf(lines[k]) : k \in DOMAIN lines})
        fields == dec.fields \o AddedHeaders(lines)
    IN  IF HeaderFault(lines) THEN Faults(b)
        ELSE IF lines = <<>> \/ Last(lines).text # <<>>
        THEN [NeedMore(ToEnd(zeroed)) EXCEPT !.dec.fields = fields]
        ELSE HeadersRead(MoveTo(zeroed, Last(lines).next), fields)

-----------------------------------------------------------------------------
ReadFixedLength(b) ==
    LET length == getContentLength(dec.fields)
    IN  IF readableBytes(b) < length THEN NeedMore(b)
        ELSE reset(MoveTo(b, b.reader + length), <<Message(dec.fields, FALSE, Slice(b, length))>>)

(* Mutant of SliceSize: every slice has the maximal size. *)
SliceSize_Full == setup.max

(* Content that is too long, or expected after a 100 Continue, is passed on *)
(* in slices; after the last one come the messages `end` and state `next`.  *)
SliceSize == Min({dec.chunkSize, setup.max})

ReadSlice(b, next, end) ==
    LET after == MoveTo(b, b.reader + SliceSize)
        left == dec.chunkSize - SliceSize
        chunk == Chunk(Slice(b, SliceSize))
    IN  IF readableBytes(b) < SliceSize THEN NeedMore(b)
        ELSE IF left = 0
        THEN Outcome(after, [dec EXCEPT !.state = next, !.chunkSize = 0],
                     FALSE, <<chunk>> \o end, TRUE, "returns")
        ELSE Outcome(after, [dec EXCEPT !.chunkSize = left], FALSE, <<chunk>>, FALSE, "returns")

ReadFixedLengthAsChunks(b) == ReadSlice(b, "SKIP_CONTROL_CHARS", <<LAST_CHUNK>>)

(* getChunkSize gets the line without its last digit. *)
ReadChunkSize(b) ==
    LET l == LineAt(b, b.reader)
        after == MoveTo(b, l.next)
        digits == SubSeq(l.text, 1, Len(l.text) - 1)
        size == Number(digits, 16)
        next == IF size = 0 THEN "READ_CHUNK_FOOTER"
                ELSE IF size > setup.max THEN "READ_CHUNKED_CONTENT_AS_CHUNKS"
                ELSE "READ_CHUNKED_CONTENT"
    IN  IF ~l.complete THEN NeedMore(ToEnd(b))
        ELSE IF digits = <<>> \/ ~Range(digits) \subseteq Range(Digits) THEN Throws(after)
        ELSE [checkpoint(after, next) EXCEPT !.dec.chunkSize = size]

ReadChunked(b) ==
    IF readableBytes(b) < dec.chunkSize THEN NeedMore(b)
    ELSE Returns(checkpoint(MoveTo(b, b.reader + dec.chunkSize), "READ_CHUNK_DELIMITER"),
                 <<Chunk(Slice(b, dec.chunkSize))>>)

ReadChunkedAsChunks(b) == ReadSlice(b, "READ_CHUNK_DELIMITER", <<>>)

ReadDelimiter(b) ==
    LET l == LineAt(b, b.reader)
    IN  IF l.complete THEN checkpoint(MoveTo(b, l.next), "READ_CHUNK_SIZE") ELSE NeedMore(ToEnd(b))

(* Whether the trailer is complete is not asked; its headers are dropped.   *)
ReadFooter(b) ==
    LET lines == LinesAfter(b, b.reader)
        complete == lines # <<>> /\ Last(lines).text = <<>>
    IN  reset(MoveTo(b, IF complete THEN Last(lines).next ELSE Len(b.bytes)), <<LAST_CHUNK>>)

decode(b) ==
    CASE dec.state = "SKIP_CONTROL_CHARS" -> skipControlCharacters(b)
      [] dec.state = "READ_INITIAL" -> ReadInitial(b)
      [] dec.state = "READ_HEADER" -> ReadHeader(b)
      [] dec.state = "READ_FIXED_LENGTH_CONTENT" -> ReadFixedLength(b)
      [] dec.state = "READ_FIXED_LENGTH_CONTENT_AS_CHUNKS" -> ReadFixedLengthAsChunks(b)
      [] dec.state = "READ_CHUNK_SIZE" -> ReadChunkSize(b)
      [] dec.state = "READ_CHUNKED_CONTENT" -> ReadChunked(b)
      [] dec.state = "READ_CHUNKED_CONTENT_AS_CHUNKS" -> ReadChunkedAsChunks(b)
      [] dec.state = "READ_CHUNK_DELIMITER" -> ReadDelimiter(b)
      [] dec.state = "READ_CHUNK_FOOTER" -> ReadFooter(b)

-----------------------------------------------------------------------------
(* handleRead and messageReceived.  The own buffer of a TCP channel is the  *)
(* cumulation, and nobody discards what has been read of it.                *)
Receive(n) ==
    /\ open /\ running = "no" /\ ~fault
    /\ arrived + n <= Len(stream)
    /\ n <= setup.capacity - buf.reader
    /\ fault' = (Len(buf.bytes) + n > setup.capacity)
    /\ buf' = [buf EXCEPT !.bytes = @ \o SubSeq(stream, arrived + 1, arrived + n)]
    /\ arrived' = arrived + n
    /\ split' = (split \/ InHead(setup.requests, arrived + n))
    /\ running' = "message"
    /\ told' = FALSE
    /\ UNCHANGED <<setup, stream, dec, out, open>>

(* callDecode, one iteration of its loop per step. *)
Decoding == running \in {"message", "cleanup"} /\ ~fault /\ readableBytes(buf) > 0
Progress(o) == o.buf.reader # buf.reader \/ o.dec.state # dec.state

Iterate ==
    /\ Decoding
    /\ \E o \in {decode(buf)} :
           /\ o.ends = "returns" /\ Progress(o)
           /\ o.msgs # <<>> \/ ~o.more
           /\ buf' = o.buf /\ dec' = o.dec
           /\ out' = out \o o.msgs
           /\ told' = (o.msgs # <<>>)
    /\ UNCHANGED <<setup, stream, arrived, split, running, open, fault>>

Rewound_Not(o) == o.buf                                    \* mutant
Rewound(o) == IF o.checked THEN o.buf ELSE MoveTo(o.buf, buf.reader)

(* callDecode is left: cleanup goes on with decodeLast, unless by a throw.  *)
Leave(b, d, next) ==
    /\ buf' = b
    /\ dec' = d
    /\ running' = next
    /\ told' = FALSE
    /\ UNCHANGED <<setup, stream, arrived, split, open, fault>>
AfterLoop == IF running = "cleanup" THEN "last" ELSE "no"

(* Too few bytes: the loop ends, and the next call starts at the checkpoint. *)
WaitForMore ==
    /\ Decoding
    /\ \E o \in {decode(buf)} :
           /\ o.ends = "returns" /\ o.more /\ o.msgs = <<>>
           /\ Leave(Rewound(o), o.dec, AfterLoop)
    /\ UNCHANGED out

AllRead ==
    /\ running \in {"message", "cleanup"} /\ ~fault /\ readableBytes(buf) = 0
    /\ Leave(buf, dec, AfterLoop)
    /\ UNCHANGED out

(* decode throws, or has returned without any progress. *)
Throw ==
    /\ Decoding
    /\ \E o \in {decode(buf)} :
           /\ \/ o.ends = "throws"
              \/ o.ends = "returns" /\ ~Progress(o) /\ (o.msgs # <<>> \/ ~o.more)
           /\ Leave(o.buf, o.dec, "no")
    /\ UNCHANGED out

Break ==
    /\ Decoding \/ (running = "last" /\ ~fault)
    /\ decode(buf).ends = "faults"
    /\ fault' = TRUE
    /\ UNCHANGED <<setup, stream, arrived, split, buf, dec, running, told, out, open>>

(* decodeLast is decode, called once more whatever is left to read. *)
decodeLast ==
    /\ running = "last" /\ ~fault
    /\ \E o \in {decode(buf)} :
           /\ o.ends # "faults"
           /\ Leave(o.buf, o.dec, "no")
           /\ out' = out \o o.msgs

(* The channel is closed: between two reads, when cleanup runs if there was *)
(* a read, or by the handler of a message, when cleanup resets the pointer  *)
(* that the loop of callDecode goes on with.                                *)
Close ==
    /\ open /\ ~fault
    /\ running = "no" \/ (told /\ running = "message")
    /\ open' = FALSE
    /\ fault' = (running # "no")
    /\ running' = IF arrived > 0 THEN "cleanup" ELSE "no"
    /\ told' = FALSE
    /\ UNCHANGED <<setup, stream, arrived, split, buf, dec, out>>

Next ==
    \/ \E n \in 1 .. Len(stream) : Receive(n)
    \/ Iterate \/ WaitForMore \/ Throw \/ Break \/ AllRead \/ decodeLast
    \/ Close

Spec == Init /\ [][Next]_vars

-----------------------------------------------------------------------------
AtRest == running = "no" /\ ~fault

(* What a receiver is owed once n bytes of a request have arrived: the      *)
(* message with its content, or the message, the slices of the content that *)
(* have arrived completely, and the last chunk.                             *)
SliceEnd(max, body, k) == Min({k * max, Len(body)})
SliceOf(max, body, k) == SubSeq(body, (k - 1) * max + 1, SliceEnd(max, body, k))
SlicesDue(max, body, got) ==
    {k \in 1 .. Len(body) : (k - 1) * max < Len(body) /\ SliceEnd(max, body, k) <= got}
Sliced(max, r) == r.body # <<>> /\ (Len(r.body) > max \/ is100ContinueExpected(r.fields))

Due(max, r, n) ==
    LET got == n - Len(r.lead) - Len(Preamble(r))
    IN  IF Sliced(max, r)
        THEN IF got < 0 THEN <<>>
             ELSE <<Message(r.fields, TRUE, <<>>)>>
                    \o [k \in SlicesDue(max, r.body, got) |-> Chunk(SliceOf(max, r.body, k))]
                    \o (IF got < Len(r.body) THEN <<>> ELSE <<LAST_CHUNK>>)
        ELSE IF got < Len(r.body) THEN <<>> ELSE <<Message(r.fields, FALSE, r.body)>>

AllDue(max, requests, n) ==
    FlattenSeq([i \in DOMAIN requests |-> Due(max, requests[i], n - Start(requests, i))])

(* A request with a content of the announced length, whose header values    *)
(* have no line ends in them and are not empty.                             *)
WellFormed(r) ==
    /\ ~isChunked(r.fields)
    /\ Len(r.body) = Max({0, getContentLength(r.fields)})
    /\ \A i \in DOMAIN r.fields :
          /\ r.fields[i].name \in Names
          /\ r.fields[i].value # <<>> /\ r.fields[i].value[1] # " "
          /\ Range(r.fields[i].value) \cap {"CR", "LF", "NUL"} = {}

Plain == \A i \in DOMAIN setup.requests : WellFormed(setup.requests[i])

(* As long as no read ends inside of a first line or between two headers of *)
(* a request, the handlers get the requests as they were sent, each as soon *)
(* as its bytes are there and once only: contents cut into any number of    *)
(* reads, long contents passed on in slices, requests that share a read,    *)
(* and a close after any of the reads.                                      *)
RequestsIntact ==
    (AtRest /\ Plain /\ ~split)
        => out = AllDue(setup.max, setup.requests, arrived)

(* HttpMessageDecoder.h on splitInitialLine: "true can read out a line      *)
(* completely. false means need to read more bytes": a first line that has  *)
(* not arrived completely is not taken for a request.                       *)
InitialLineComplete ==
    (AtRest /\ Plain) => (dec.state = "READ_HEADER" =>
        \E i \in DOMAIN setup.requests :
            LET r == setup.requests[i]
                start == Start(setup.requests, i)
            IN  /\ arrived >= start + Len(r.lead) + Len(HeadLine(r))
                /\ arrived < start + Len(Text(r)))
=============================================================================
