---------------------------- MODULE FrameDecoder ----------------------------
(***************************************************************************)
(* FrameDecoder and its three framings: fixed length, length field and     *)
(* delimiters.  A stream of bytes arrives in pieces of any size; decode is *)
(* called again and again on what has been gathered.                       *)
(*                                                                         *)
(* With channelOwnBuffer (TCP) the pieces are appended to the channel's    *)
(* own read buffer.  Otherwise each piece is a buffer of its own, and what *)
(* is left of it is gathered in `cumulation`.                              *)
(*                                                                         *)
(* The handler that receives a frame or an exception may close the channel *)
(* on the spot; cleanup then runs inside the call that sent it.            *)
(***************************************************************************)
EXTENDS Integers, Sequences, FiniteSetsExt

CONSTANTS
    Setups,    \* the decoders, channels and streams considered
    Garbage    \* what the uninitialised bytesToDiscard may hold

(* A decoder as its constructor accepts it. *)
Codecs ==
    [kind : {"fixed"}, length : Nat \ {0}]
      \cup [kind : {"length"}, offset : Nat, width : {1, 2, 3, 4, 8}, adjust : Int,
            strip : Nat, max : Nat \ {0}]
      \cup [kind : {"delimiter"}, delimiters : Seq(Seq(Nat)), strip : BOOLEAN,
            max : Nat \ {0}]

ASSUME FrameAssumption ==
    /\ Garbage \subseteq Int
    /\ \A s \in Setups :
         /\ s.codec \in Codecs /\ s.own \in BOOLEAN /\ s.stream \in Seq(0 .. 255)
         /\ s.capacity \in Nat \ {0}
         /\ s.codec.kind = "length" => s.codec.offset <= s.codec.max - s.codec.width
         /\ s.codec.kind = "delimiter" =>
               /\ s.codec.delimiters # <<>>
               /\ \A i \in DOMAIN s.codec.delimiters : s.codec.delimiters[i] # <<>>

VARIABLES
    setup,       \* the decoder, the stream and the capacity of the read buffer
    arrived,     \* number of bytes of the stream that have arrived
    input,       \* the channel's buffer, or the last piece
    cumulation, made,    \* the gathered bytes, and whether getCumulation made it
    calls,       \* the calls of callDecode that run, the innermost first
    told,        \* the last step was a call of a handler upstream
    discard,     \* discardingTooLongFrame and bytesToDiscard
    frames,      \* the frames decode returned
    reports,     \* TooLongFrameExceptions fired
    lost,        \* which of them an IllegalStateException kept from going upstream
    open,        \* the channel is open
    passed,      \* life cycle events sent upstream
    fault        \* memory outside of a buffer was used

buffers == <<input, cumulation, made>>
upstream == <<frames, reports, lost, passed>>
vars == <<setup, arrived, buffers, calls, told, discard, upstream, open, fault>>

codec == setup.codec

(* A ChannelBuffer: its bytes up to the writer index, and the reader index. *)
Buffers == [bytes : Seq(0 .. 255), reader : Int]
Bytes(b, n) == SubSeq(b.bytes, b.reader + 1, b.reader + n)
readableBytes(b) == Len(b.bytes) - b.reader
skipBytes(b, n) == [b EXCEPT !.reader = @ + n]
writeBytes(b, s) == [b EXCEPT !.bytes = @ \o s]
Empty == [bytes |-> <<>>, reader |-> 0]

discardReadBytes(b) == [bytes |-> Bytes(b, readableBytes(b)), reader |-> 0]

(* readBytes(n) rewinds a buffer that has been read to its end. *)
AfterReadBytes(b, n) ==
    IF n > 0 /\ n = readableBytes(b) THEN Empty ELSE skipBytes(b, n)

Events == {"disconnected", "closed"}

(* A call of callDecode: on which buffer, and for which event if it is      *)
(* cleanup that calls.                                                      *)
Calls == [on : {"input", "cumulation"}, event : {"none"} \cup Events]

(* The types of the variables; no reader index passes its writer index.     *)
TypeOK ==
    /\ setup \in Setups
    /\ arrived \in 0 .. Len(setup.stream)
    /\ input \in Buffers
    /\ cumulation \in Buffers /\ made \in BOOLEAN
    /\ calls \in Seq(Calls)
    /\ told \in BOOLEAN
    /\ discard \in [on : BOOLEAN, left : Int]
    /\ frames \in Seq(Seq(0 .. 255))
    /\ reports \in Nat /\ lost \subseteq DOMAIN frames
    /\ open \in BOOLEAN
    /\ passed \in Seq(Events)
    /\ fault \in BOOLEAN
    /\ fault \/ \A b \in {input, cumulation} : b.reader \in 0 .. Len(b.bytes)

(* The LengthFieldBasedFrameDecoder is constructed in the state of          *)
(* discarding, with a bytesToDiscard that nothing initialises.              *)
Init ==
    /\ setup \in Setups
    /\ arrived = 0
    /\ input = Empty
    /\ cumulation = Empty /\ made = FALSE
    /\ calls = <<>>
    /\ told = FALSE
    /\ IF codec.kind = "length"
       THEN \E left \in Garbage : discard = [on |-> TRUE, left |-> left]
       ELSE discard = [on |-> FALSE, left |-> 0]
    /\ frames = <<>>
    /\ reports = 0
    /\ lost = {}
    /\ open = TRUE
    /\ passed = <<>>
    /\ fault = FALSE

-----------------------------------------------------------------------------
(* What a call of decode on the buffer b does: the buffer and the discard   *)
(* state it leaves, whether it fires a TooLongFrameException, and how it    *)
(* ends: without a frame, with one, or with a CorruptedFrameException.      *)
Outcome(b, d, fails, ends, frame) ==
    [buffer |-> b, discard |-> d, fails |-> fails, ends |-> ends, frame |-> frame]
NoFrame(b) == Outcome(b, discard, FALSE, "none", <<>>)
Frame(b, frame) == Outcome(b, discard, FALSE, "frame", frame)
Corrupted(b) == Outcome(b, discard, FALSE, "throw", <<>>)

FixedLength(b) ==
    IF readableBytes(b) < codec.length THEN NoFrame(b)
    ELSE Frame(skipBytes(b, codec.length), Bytes(b, codec.length))

(* The length field, big endian, as an int: of eight bytes the last four    *)
(* remain, and four bytes are read as a signed number.                      *)
FieldValue(field) ==
    LET low == IF Len(field) = 8 THEN SubSeq(field, 5, 8) ELSE field
        signed == [i \in DOMAIN low |-> IF i = 1 /\ Len(low) = 4 /\ low[1] >= 128
                                        THEN low[1] - 256 ELSE low[i]]
        value[i \in 0 .. Len(low)] == IF i = 0 THEN 0 ELSE value[i - 1] * 256 + signed[i]
    IN  value[Len(low)]

EndOffset == codec.offset + codec.width         \* lengthFieldEndOffset

(* Discarding the rest of a too long frame: the exception is fired when     *)
(* nothing is left to discard, and the decoder goes on discarding.          *)
DiscardRest_Unbounded(b) ==                   \* mutant: all at once
    Outcome(skipBytes(b, discard.left), [discard EXCEPT !.left = 0], TRUE, "none", <<>>)

DiscardRest(b) ==
    LET n == Min({discard.left, readableBytes(b)})
    IN  Outcome(skipBytes(b, n), [discard EXCEPT !.left = @ - n], discard.left = n,
                "none", <<>>)

LengthField(b) ==
    LET readable == readableBytes(b)
        value == FieldValue(SubSeq(b.bytes, b.reader + codec.offset + 1,
                                            b.reader + EndOffset))
        length == value + codec.adjust + EndOffset
    IN  IF discard.on THEN DiscardRest(b)
        ELSE IF readable < EndOffset THEN NoFrame(b)
        ELSE IF value < 0 \/ length < EndOffset THEN Corrupted(skipBytes(b, EndOffset))
        ELSE IF length > codec.max
             THEN Outcome(skipBytes(b, readable), [on |-> TRUE, left |-> length - readable],
                          FALSE, "none", <<>>)
        ELSE IF readable < length THEN NoFrame(b)
        ELSE IF codec.strip > length THEN Corrupted(skipBytes(b, length))
        ELSE Frame(skipBytes(b, length),
                   Bytes(skipBytes(b, codec.strip), length - codec.strip))

(* indexOf: how far from the reader index a delimiter is, if it is there.   *)
Found(b, needle) ==
    {i \in 0 .. (readableBytes(b) - Len(needle)) :
        Bytes(skipBytes(b, i), Len(needle)) = needle}

(* Mutant of NoDelimiter: only what follows a too long frame is discarded. *)
NoDelimiter_Keeps(b) ==
    IF discard.on THEN Outcome(skipBytes(b, readableBytes(b)), discard, FALSE, "none", <<>>)
    ELSE NoFrame(b)

(* Without a delimiter everything is discarded once there is too much.      *)
NoDelimiter(b) ==
    IF discard.on \/ readableBytes(b) > codec.max
    THEN Outcome(skipBytes(b, readableBytes(b)), [discard EXCEPT !.on = TRUE],
                 FALSE, "none", <<>>)
    ELSE NoFrame(b)

Delimiter(b) ==
    LET hits == UNION {{<<i, k>> : i \in Found(b, codec.delimiters[k])} :
                       k \in DOMAIN codec.delimiters}
        hit == CHOOSE h \in hits : \A g \in hits :
                  h[1] < g[1] \/ (h[1] = g[1] /\ h[2] <= g[2])
        length == hit[1]
        total == length + Len(codec.delimiters[hit[2]])
        rest == skipBytes(b, total)
        read == IF codec.strip THEN rest ELSE AfterReadBytes(b, total)
    IN  IF hits = {} THEN NoDelimiter(b)
        ELSE IF discard.on \/ length > codec.max
        THEN Outcome(rest, [discard EXCEPT !.on = FALSE], TRUE, "none", <<>>)
        ELSE Frame(read, Bytes(b, IF codec.strip THEN length ELSE total))

decode(b) ==
    CASE codec.kind = "fixed" -> FixedLength(b)
      [] codec.kind = "length" -> LengthField(b)
      [] codec.kind = "delimiter" -> Delimiter(b)

-----------------------------------------------------------------------------
(* The connection delivers n bytes: messageReceived.  asio is offered       *)
(* length - readerIndex bytes from the writer index on (writableBytes of    *)
(* HeapChannelBuffer), which may reach past the end of the buffer.          *)
Piece(n) == SubSeq(setup.stream, arrived + 1, arrived + n)

ReceiveOwn(n) ==
    /\ setup.own
    /\ n <= setup.capacity - input.reader
    /\ input' = writeBytes(input, Piece(n))
    /\ fault' = (Len(input.bytes) + n > setup.capacity)
    /\ calls' = <<[on |-> "input", event |-> "none"]>>
    /\ UNCHANGED <<cumulation, made>>

ReceivePiece(n) ==
    /\ ~setup.own
    /\ made' = TRUE
    /\ \/ /\ readableBytes(cumulation) > 0
          /\ cumulation' = writeBytes(discardReadBytes(cumulation), Piece(n))
          /\ calls' = <<[on |-> "cumulation", event |-> "none"]>>
          /\ UNCHANGED input
       \/ /\ readableBytes(cumulation) = 0
          /\ input' = [bytes |-> Piece(n), reader |-> 0]
          /\ calls' = <<[on |-> "input", event |-> "none"]>>
          /\ UNCHANGED cumulation
    /\ UNCHANGED fault

Receive(n) ==
    /\ open /\ calls = <<>> /\ ~fault
    /\ arrived + n <= Len(setup.stream)
    /\ arrived' = arrived + n
    /\ told' = FALSE
    /\ ReceiveOwn(n) \/ ReceivePiece(n)
    /\ UNCHANGED <<setup, discard, upstream, open>>

-----------------------------------------------------------------------------
(* callDecode, one iteration of its loop per step. *)
Call == Head(calls)
Buffer == IF Call.on = "input" THEN input ELSE cumulation

Becomes(b) ==
    IF Call.on = "input" THEN input' = b /\ UNCHANGED cumulation
    ELSE cumulation' = b /\ UNCHANGED input

(* Mutant of CanContinue: unread bytes alone keep the loop going. *)
CanContinue_Readable(out) == out.ends = "none"

(* The loop goes on after a frame, or when decode has discarded something.  *)
CanContinue(out) ==
    /\ out.buffer.reader # Buffer.reader
    /\ out.ends \in {"none", "frame"}

(* What the outcomes of two calls of decode send upstream. *)
Reports(out) == IF out.fails THEN 1 ELSE 0
FrameOf(out) == IF out.ends = "frame" THEN <<out.frame>> ELSE <<>>
Sent(first, second) ==
    /\ reports' = reports + Reports(first) + Reports(second)
    /\ frames' = frames \o FrameOf(first) \o FrameOf(second)
    /\ told' = \E out \in {first, second} : out.fails \/ out.ends = "frame"

Iterate ==
    /\ calls # <<>> /\ ~fault
    /\ readableBytes(Buffer) > 0
    /\ LET out == decode(Buffer)
       IN  /\ CanContinue(out)
           /\ Becomes(out.buffer)
           /\ discard' = out.discard
           /\ Sent(NoFrame(Buffer), out)
           /\ fault' = (out.buffer.reader < 0)
    /\ UNCHANGED <<setup, arrived, made, calls, lost, open, passed>>

(* decode threw, or returned a frame and had read nothing as far as the     *)
(* reader index shows: the exception ends callDecode, and cleanup sends its *)
(* event upstream only now.                                                 *)
Throw ==
    /\ calls # <<>> /\ ~fault
    /\ readableBytes(Buffer) > 0
    /\ LET out == decode(Buffer)
       IN  /\ out.ends = "throw" \/ (out.ends = "frame" /\ ~CanContinue(out))
           /\ Becomes(out.buffer)
           /\ IF out.ends = "throw" THEN UNCHANGED <<frames, lost>>
              ELSE /\ frames' = Append(frames, out.frame)
                   /\ lost' = lost \cup {Len(frames) + 1}
    /\ calls' = Tail(calls)
    /\ passed' = IF Call.event = "none" THEN passed ELSE Append(passed, Call.event)
    /\ told' = TRUE                      \* the pipeline fires the exception
    /\ UNCHANGED <<setup, arrived, made, discard, reports, open, fault>>

(* The loop ends: the buffer is empty, or decode needs more bytes.          *)
LoopEnds(out) == readableBytes(Buffer) = 0 \/ (out.ends = "none" /\ ~CanContinue(out))

(* The state of discarding, and whether an exception was fired, when the    *)
(* loop ends: decode ran once more unless there was nothing to read.        *)
LastDecode(out) ==
    IF readableBytes(Buffer) = 0 THEN NoFrame(Buffer) ELSE out

(* Mutant of KeepRest: what is left of a piece is not gathered. *)
KeepRest_Dropped(b) ==
    /\ input' = IF setup.own THEN discardReadBytes(b) ELSE Empty
    /\ UNCHANGED cumulation

(* An own buffer is compacted; the rest of a piece goes to the cumulation.  *)
KeepRest(b) ==
    IF setup.own THEN input' = discardReadBytes(b) /\ UNCHANGED cumulation
    ELSE /\ input' = Empty
         /\ cumulation' = writeBytes(cumulation, Bytes(b, readableBytes(b)))

ReturnToMessage ==
    /\ calls # <<>> /\ ~fault
    /\ Call.event = "none"
    /\ LET out == decode(Buffer)
       IN  /\ LoopEnds(out)
           /\ discard' = LastDecode(out).discard
           /\ Sent(NoFrame(Buffer), LastDecode(out))
    /\ IF Call.on = "input" THEN KeepRest(Buffer) ELSE UNCHANGED <<input, cumulation>>
    /\ calls' = Tail(calls)
    /\ UNCHANGED <<setup, arrived, made, lost, open, passed, fault>>

(* cleanup goes on with decodeLast, which is decode, and clears. *)
ReturnToCleanup ==
    /\ calls # <<>> /\ ~fault
    /\ Call.event # "none"
    /\ LET out == decode(Buffer)
       IN  /\ LoopEnds(out)
           /\ discard' = out.discard
           /\ Sent(LastDecode(out), out)
    /\ cumulation' = Empty
    /\ calls' = Tail(calls)
    /\ UNCHANGED <<setup, arrived, input, made, lost, open, passed, fault>>

(* The channel is closed, between two messages or by a handler that is      *)
(* called with a frame or an exception.  Without a cumulation cleanup just  *)
(* returns.                                                                 *)
Close ==
    /\ open /\ ~fault
    /\ calls = <<>> \/ told
    /\ open' = FALSE
    /\ told' = FALSE
    /\ calls' = IF ~made THEN calls
                ELSE << [on |-> "cumulation", event |-> "disconnected"],
                        [on |-> "cumulation", event |-> "closed"] >> \o calls
    /\ UNCHANGED <<setup, arrived, buffers, discard, upstream, fault>>

Next ==
    \/ \E n \in 1 .. Len(setup.stream) : Receive(n)
    \/ Iterate \/ Throw \/ ReturnToMessage \/ ReturnToCleanup
    \/ Close

Spec == Init /\ [][Next]_vars

(* The I/O thread does not stop in the middle of a call. *)
FairSpec == Spec /\ WF_vars(Iterate \/ Throw \/ ReturnToMessage \/ ReturnToCleanup)

-----------------------------------------------------------------------------
(* The reference: how the framing divides the first n bytes of the stream,  *)
(* seen as one text.  A piece begins after byte `from`; its frame is the    *)
(* bytes first .. last, and its size is what the maximum is compared with.  *)
Limit == IF codec.kind = "fixed" THEN codec.length ELSE codec.max
PieceOf(first, last, size, next) ==
    [first |-> first, last |-> last, size |-> size, next |-> next]

FixedPieces(from) == {PieceOf(from + 1, from + codec.length, codec.length, from + codec.length)}

Matches(from, n) ==
    UNION {{<<j, Len(d)>> : j \in {j \in from .. n - Len(d) :
                                    SubSeq(setup.stream, j + 1, j + Len(d)) = d}} :
           d \in Range(codec.delimiters)}
DelimitedPieces(from, n) ==
    LET ms == Matches(from, n)
    IN  {PieceOf(from + 1, IF codec.strip THEN m[1] ELSE m[1] + m[2], m[1] - from, m[1] + m[2]) :
            m \in {m \in ms : \A o \in ms : m[1] < o[1] \/ m = o}}

PiecesAfter(from, n) ==
    {p \in CASE codec.kind = "fixed" -> FixedPieces(from)
             [] codec.kind = "delimiter" -> DelimitedPieces(from, n) : p.next <= n}

(* The frames after each byte, and how many pieces are too long. *)
Division(n) ==
    LET after[from \in 0 .. n] ==
            LET ps == PiecesAfter(from, n)
                p == CHOOSE q \in ps : TRUE
            IN  IF ps = {} THEN [frames |-> <<>>, long |-> 0]
                ELSE IF p.size <= Limit
                THEN [after[p.next] EXCEPT
                        !.frames = <<SubSeq(setup.stream, p.first, p.last)>> \o @]
                ELSE [after[p.next] EXCEPT !.long = @ + 1]
    IN  after

AtRest == calls = <<>> /\ ~fault

(* A delimiter that lies in another one, and not at its end, is met before  *)
(* the other one is complete.                                               *)
Separate(delimiters) ==
    \A d, e \in Range(delimiters) :
        \A i \in 0 .. Len(e) - Len(d) - 1 : SubSeq(e, i + 1, i + Len(d)) # d

(* The decoders for which the division cannot depend on the reads: with a   *)
(* delimiter of several bytes, one that arrives in two parts while a too    *)
(* long frame is discarded is not recognised.                               *)
Robust ==
    \/ codec.kind = "fixed"
    \/ /\ codec.kind = "delimiter" /\ Separate(codec.delimiters)
       /\ codec.max >= Len(setup.stream) \/ \A d \in Range(codec.delimiters) : Len(d) = 1

(* However the stream is cut into reads, whichever buffer gathers it, and   *)
(* whenever a handler closes the channel: the frames that callDecode takes  *)
(* out are the ones of the text, in order, none twice and none missing;     *)
(* every too long one is reported; and where the delimiter is stripped      *)
(* every frame goes upstream.                                               *)
SplitIndependent ==
    AtRest /\ Robust =>
        /\ [frames |-> frames, long |-> reports] = Division(arrived)[0]
        /\ lost # {} => codec.kind = "delimiter" /\ ~codec.strip

(* Between two messages the decoder holds at most one incomplete frame that *)
(* may still be short enough: discarding keeps up with what arrives.        *)
BufferBounded ==
    AtRest /\ codec.kind # "length" =>
        readableBytes(input) <= Limit /\ readableBytes(cumulation) <= Limit

(* The loop of callDecode ends, also when decode discards without a frame   *)
(* and when cleanup runs inside of it.                                      *)
CallsReturn == calls # <<>> ~> calls = <<>> \/ fault
=============================================================================
