------------------------- MODULE FrameDecoderProofs -------------------------
(***************************************************************************)
(* Proofs about the frame decoders, for all setups: streams of any length, *)
(* fixed lengths, delimiters, maxima and capacities of the read buffer.    *)
(*                                                                         *)
(* CallsInv says which calls of callDecode can be under way, PlaceInv in   *)
(* which buffer the unread bytes are; together with TypeOK they bound the  *)
(* buffers.  DivideInv ties the decoder to the text: there is a byte pos   *)
(* such that the frames and reports so far, followed by those of the       *)
(* division of the text after pos, are those of the whole text, however    *)
(* much of it is still to arrive (CountedAt); and the unread bytes are     *)
(* those of the text from a byte q on, which is pos unless a too long      *)
(* piece is being discarded (Here).  Every call of decode on such bytes    *)
(* waits, discards, or takes the piece that begins after pos (DecodeReads).*)
(***************************************************************************)
EXTENDS FrameDecoder, SequenceLemmas

(***************************************************************************)
(* Buffers and sequences of bytes.                                         *)
(***************************************************************************)
IsBuffer(b) == b \in Buffers /\ b.reader \in 0 .. Len(b.bytes)

LEMMA BytesOf ==
    ASSUME NEW b, IsBuffer(b), NEW n \in 0 .. readableBytes(b)
    PROVE  /\ Bytes(b, n) \in Seq(0 .. 255)
           /\ Len(Bytes(b, n)) = n
           /\ \A i \in 1 .. n : Bytes(b, n)[i] = b.bytes[b.reader + i]
<1>1. b.bytes \in Seq(0 .. 255) /\ b.reader \in Nat
  BY DEF IsBuffer, Buffers
<1>2. Len(b.bytes) \in Nat
  BY <1>1, LenProperties
<1>3. n \in Nat /\ b.reader + n <= Len(b.bytes)
  BY <1>1, <1>2 DEF readableBytes
<1>4. PICK s, m : s = b.bytes /\ m = b.reader
  OBVIOUS
<1>5. s \in Seq(0 .. 255) /\ m \in Nat /\ m + n <= Len(s)
  BY <1>1, <1>3, <1>4
<1>6. /\ SubSeq(s, m + 1, m + n) \in Seq(0 .. 255)
      /\ Len(SubSeq(s, m + 1, m + n)) = n
      /\ \A i \in 1 .. n : SubSeq(s, m + 1, m + n)[i] = s[m + i]
  BY <1>3, <1>5, PartOf
<1> QED
  BY <1>4, <1>6 DEF Bytes

LEMMA Readable ==
    ASSUME NEW b, IsBuffer(b)
    PROVE  /\ readableBytes(b) \in Nat /\ b.reader \in Nat /\ Len(b.bytes) \in Nat
           /\ Len(b.bytes) = b.reader + readableBytes(b)
<1>1. b.bytes \in Seq(0 .. 255) /\ b.reader \in 0 .. Len(b.bytes)
  BY DEF IsBuffer, Buffers
<1>2. Len(b.bytes) \in Nat
  BY <1>1, LenProperties
<1> QED
  BY <1>1, <1>2 DEF readableBytes

LEMMA Skip ==
    ASSUME NEW b, b \in Buffers, NEW n \in Int
    PROVE  /\ skipBytes(b, n) \in Buffers
           /\ skipBytes(b, n).bytes = b.bytes
           /\ skipBytes(b, n).reader = b.reader + n
           /\ readableBytes(skipBytes(b, n)) = readableBytes(b) - n
<1>1. /\ skipBytes(b, n) \in Buffers
      /\ skipBytes(b, n).bytes = b.bytes
      /\ skipBytes(b, n).reader = b.reader + n
  BY DEF skipBytes, Buffers
<1>2. b.reader \in Int /\ Len(b.bytes) \in Int
  BY LenProperties DEF Buffers
<1> QED
  BY <1>1, <1>2 DEF readableBytes

LEMMA SkipBuffer ==
    ASSUME NEW b, IsBuffer(b), NEW n \in 0 .. readableBytes(b)
    PROVE  /\ IsBuffer(skipBytes(b, n))
           /\ skipBytes(b, n).bytes = b.bytes
           /\ skipBytes(b, n).reader = b.reader + n
           /\ readableBytes(skipBytes(b, n)) = readableBytes(b) - n
<1>1. /\ skipBytes(b, n) \in Buffers
      /\ skipBytes(b, n).bytes = b.bytes
      /\ skipBytes(b, n).reader = b.reader + n
      /\ readableBytes(skipBytes(b, n)) = readableBytes(b) - n
  BY Skip DEF IsBuffer
<1>2. /\ readableBytes(b) \in Nat /\ b.reader \in Nat
      /\ Len(b.bytes) = b.reader + readableBytes(b)
  BY Readable
<1>3. b.reader + n \in 0 .. Len(b.bytes)
  BY <1>2
<1> QED
  BY <1>1, <1>3 DEF IsBuffer

LEMMA EmptyBuffer == IsBuffer(Empty) /\ readableBytes(Empty) = 0 /\ Empty.reader = 0
<1>1. <<>> \in Seq(0 .. 255) /\ Len(<<>>) = 0
  BY EmptySeq
<1>2. Empty.bytes = <<>> /\ Empty.reader = 0 /\ Empty \in Buffers
  BY <1>1 DEF Empty, Buffers
<1> QED
  BY <1>1, <1>2 DEF IsBuffer, readableBytes

LEMMA AfterReadBuffer ==
    ASSUME NEW b, IsBuffer(b), NEW n \in 0 .. readableBytes(b)
    PROVE  /\ IsBuffer(AfterReadBytes(b, n))
           /\ readableBytes(AfterReadBytes(b, n)) = readableBytes(b) - n
<1>1. CASE n > 0 /\ n = readableBytes(b)
  BY <1>1, EmptyBuffer DEF AfterReadBytes
<1>2. CASE ~(n > 0 /\ n = readableBytes(b))
  <2>1. readableBytes(skipBytes(b, n)) = readableBytes(b) - n
    BY Skip, Readable DEF IsBuffer
  <2> QED
    BY <1>2, <2>1, SkipBuffer DEF AfterReadBytes
<1> QED
  BY <1>1, <1>2

LEMMA Written ==
    ASSUME NEW b, IsBuffer(b), NEW s \in Seq(0 .. 255)
    PROVE  /\ IsBuffer(writeBytes(b, s))
           /\ readableBytes(writeBytes(b, s)) = readableBytes(b) + Len(s)
           /\ writeBytes(b, s).reader = b.reader
           /\ writeBytes(b, s).bytes = b.bytes \o s
<1>1. b.bytes \in Seq(0 .. 255) /\ b.reader \in 0 .. Len(b.bytes) /\ b.reader \in Int
  BY DEF IsBuffer, Buffers
<1>2. /\ b.bytes \o s \in Seq(0 .. 255)
      /\ Len(b.bytes \o s) = Len(b.bytes) + Len(s)
  BY <1>1, ConcatProperties
<1>3. Len(b.bytes) \in Nat /\ Len(s) \in Nat
  BY <1>1, LenProperties
<1>4. /\ writeBytes(b, s) \in Buffers
      /\ writeBytes(b, s).bytes = b.bytes \o s
      /\ writeBytes(b, s).reader = b.reader
  BY <1>1, <1>2 DEF writeBytes, Buffers, IsBuffer
<1>5. b.reader \in 0 .. Len(b.bytes \o s)
  BY <1>1, <1>2, <1>3
<1> QED
  BY <1>1, <1>2, <1>3, <1>4, <1>5 DEF IsBuffer, readableBytes

LEMMA Compacted ==
    ASSUME NEW b, IsBuffer(b)
    PROVE  /\ IsBuffer(discardReadBytes(b))
           /\ readableBytes(discardReadBytes(b)) = readableBytes(b)
           /\ discardReadBytes(b).reader = 0
           /\ discardReadBytes(b).bytes = Bytes(b, readableBytes(b))
<1>1. readableBytes(b) \in Nat
  BY Readable
<1>2. /\ Bytes(b, readableBytes(b)) \in Seq(0 .. 255)
      /\ Len(Bytes(b, readableBytes(b))) = readableBytes(b)
  BY <1>1, BytesOf
<1>3. /\ discardReadBytes(b).reader = 0
      /\ discardReadBytes(b).bytes = Bytes(b, readableBytes(b))
      /\ discardReadBytes(b) \in Buffers
  BY <1>2 DEF discardReadBytes, Buffers
<1> QED
  BY <1>1, <1>2, <1>3 DEF IsBuffer, readableBytes

(***************************************************************************)
(* The value of a length field is a number.                                *)
(***************************************************************************)
Low(field) == IF Len(field) = 8 THEN SubSeq(field, 5, 8) ELSE field
Signed(low) ==
    [i \in DOMAIN low |-> IF i = 1 /\ Len(low) = 4 /\ low[1] >= 128
                          THEN low[1] - 256 ELSE low[i]]
ValueStep(low, f, i) == IF i = 0 THEN 0 ELSE f[i - 1] * 256 + Signed(low)[i]
ValueOf(low) == CHOOSE f : f = [i \in 0 .. Len(low) |-> ValueStep(low, f, i)]

LEMMA FieldValueIs ==
    ASSUME NEW field
    PROVE  FieldValue(field) = ValueOf(Low(field))[Len(Low(field))]
BY DEF FieldValue, ValueOf, ValueStep, Signed, Low

LEMMA SignedType ==
    ASSUME NEW low \in Seq(0 .. 255), NEW i \in 1 .. Len(low)
    PROVE  Signed(low)[i] \in Int
<1>1. low[i] \in 0 .. 255 /\ DOMAIN low = 1 .. Len(low)
  BY LenProperties
<1>2. Signed(low)[i] = IF i = 1 /\ Len(low) = 4 /\ low[1] >= 128
                       THEN low[1] - 256 ELSE low[i]
  BY <1>1 DEF Signed
<1>3. PICK x : x = low[i]
  OBVIOUS
<1>4. Signed(low)[i] = x - 256 \/ Signed(low)[i] = x
  BY <1>2, <1>3
<1>5. x \in 0 .. 255
  BY <1>1, <1>3, Zenon
<1>6. x \in Int /\ x - 256 \in Int
  BY <1>5
<1> QED
  BY <1>4, <1>6, Zenon

LEMMA ValueExists ==
    ASSUME NEW low \in Seq(0 .. 255)
    PROVE  \E f \in [0 .. Len(low) -> Int] : f = [i \in 0 .. Len(low) |-> ValueStep(low, f, i)]
<1> DEFINE Good(k, f) == \A i \in 0 .. k : f[i] = ValueStep(low, f, i)
           T == {k \in Nat : \E f \in [0 .. k -> Int] : Good(k, f)}
<1>0. Len(low) \in Nat
  BY LenProperties
<1>1. \A i \in 1 .. Len(low) : Signed(low)[i] \in Int
  BY SignedType
<1>2. 0 \in T
  <2>1. [i \in 0 .. 0 |-> 0] \in [0 .. 0 -> Int] /\ Good(0, [i \in 0 .. 0 |-> 0])
    BY DEF ValueStep
  <2> QED
    BY <2>1
<1>3. ASSUME NEW k \in 0 .. Len(low) - 1, k \in T
      PROVE  k + 1 \in T
  <2>1. PICK f \in [0 .. k -> Int] : Good(k, f)
    BY <1>3
  <2>2. PICK v : v = f[k] * 256 + Signed(low)[k + 1]
    OBVIOUS
  <2>3. k + 1 \in 1 .. Len(low) /\ k \in 0 .. k
    BY <1>0
  <2>4. v \in Int
    <3>1. f[k] \in Int /\ Signed(low)[k + 1] \in Int
      BY <1>1, <2>1, <2>3
    <3> QED
      BY <2>2, <3>1
  <2> DEFINE g == [i \in 0 .. k + 1 |-> IF i = k + 1 THEN v ELSE f[i]]
  <2>5. g \in [0 .. k + 1 -> Int]
    BY <2>1, <2>4
  <2>6. ASSUME NEW i \in 0 .. k + 1 PROVE g[i] = ValueStep(low, g, i)
    <3>1. CASE i = k + 1
      <4>1. g[i] = v /\ g[i - 1] = f[k] /\ i # 0
        BY <3>1
      <4> QED
        BY <3>1, <4>1, <2>2 DEF ValueStep
    <3>2. CASE i = 0
      <4>1. g[i] = f[0] /\ f[0] = ValueStep(low, f, 0)
        BY <2>1, <3>2
      <4> QED
        BY <3>2, <4>1 DEF ValueStep
    <3>3. CASE i \in 1 .. k
      <4>1. g[i] = f[i] /\ g[i - 1] = f[i - 1] /\ i # 0
        BY <3>3
      <4>2. f[i] = ValueStep(low, f, i)
        BY <3>3, <2>1
      <4> QED
        BY <4>1, <4>2 DEF ValueStep
    <3> QED
      BY <3>1, <3>2, <3>3
  <2>7. Good(k + 1, g)
    BY <2>6
  <2> HIDE DEF g, Good
  <2> QED
    BY <2>5, <2>7
<1>4. Len(low) \in T
  <2> HIDE DEF T
  <2>1. \A i \in 0 .. Len(low) : i \in T
    BY <1>0, <1>2, <1>3, UpTo
  <2> QED
    BY <1>0, <2>1
<1>5. PICK f \in [0 .. Len(low) -> Int] : Good(Len(low), f)
  BY <1>4
<1>6. f = [i \in 0 .. Len(low) |-> ValueStep(low, f, i)]
  <2> DEFINE v == [i \in 0 .. Len(low) |-> ValueStep(low, f, i)]
  <2>1. \A i \in 0 .. Len(low) : f[i] = v[i]
    BY <1>5
  <2>2. f = v
    <3> HIDE DEF ValueStep
    <3> QED BY <2>1
  <2> QED BY <2>2
<1> QED
  BY <1>6

LEMMA ValueType ==
    ASSUME NEW low \in Seq(0 .. 255)
    PROVE  ValueOf(low)[Len(low)] \in Int
<1> DEFINE T == {k \in Nat : ValueOf(low)[k] \in Int}
<1>0. Len(low) \in Nat
  BY LenProperties
<1>1. ValueOf(low) = [i \in 0 .. Len(low) |-> ValueStep(low, ValueOf(low), i)]
  <2>1. \E f : f = [i \in 0 .. Len(low) |-> ValueStep(low, f, i)]
    BY ValueExists
  <2>2. ValueOf(low) = CHOOSE f : f = [i \in 0 .. Len(low) |-> ValueStep(low, f, i)]
    BY DEF ValueOf
  <2> HIDE DEF ValueStep
  <2> QED
    BY <2>1, <2>2
<1>2. \A i \in 0 .. Len(low) : ValueOf(low)[i] = ValueStep(low, ValueOf(low), i)
  <2> DEFINE v == [i \in 0 .. Len(low) |-> ValueStep(low, ValueOf(low), i)]
  <2>1. \A i \in 0 .. Len(low) : v[i] = ValueStep(low, ValueOf(low), i)
    OBVIOUS
  <2>2. ValueOf(low) = v
    BY <1>1
  <2> HIDE DEF v
  <2> QED
    BY <2>1, <2>2
<1>3. \A i \in 1 .. Len(low) : Signed(low)[i] \in Int
  BY SignedType
<1>4. 0 \in T
  BY <1>0, <1>2 DEF ValueStep
<1>5. ASSUME NEW k \in 0 .. Len(low) - 1, k \in T
      PROVE  k + 1 \in T
  <2>1. k + 1 \in 0 .. Len(low) /\ k + 1 \in 1 .. Len(low) /\ k + 1 # 0 /\ (k + 1) - 1 = k
    BY <1>0
  <2>2. ValueOf(low)[k + 1] = ValueOf(low)[k] * 256 + Signed(low)[k + 1]
    BY <1>2, <2>1 DEF ValueStep
  <2>3. ValueOf(low)[k] \in Int /\ Signed(low)[k + 1] \in Int
    BY <1>3, <1>5, <2>1
  <2> QED
    BY <2>1, <2>2, <2>3
<1>6. Len(low) \in T
  <2> HIDE DEF T
  <2>1. \A i \in 0 .. Len(low) : i \in T
    BY <1>0, <1>4, <1>5, UpTo
  <2> QED
    BY <1>0, <2>1
<1> QED
  BY <1>6

LEMMA FieldValueType ==
    ASSUME NEW field \in Seq(0 .. 255)
    PROVE  FieldValue(field) \in Int
<1>1. Low(field) \in Seq(0 .. 255)
  <2>1. CASE Len(field) = 8
    <3>1. PICK m \in Nat : m = 4
      OBVIOUS
    <3>2. SubSeq(field, m + 1, m + m) \in Seq(0 .. 255)
      <4>1. m + m <= Len(field)
        BY <2>1, <3>1
      <4> QED
        BY <4>1, PartOf
    <3>3. m + 1 = 5 /\ m + m = 8
      BY <3>1
    <3> QED
      BY <2>1, <3>2, <3>3 DEF Low
  <2> QED
    BY <2>1 DEF Low
<1> QED
  BY <1>1, FieldValueIs, ValueType

(***************************************************************************)
(* What decode returns.                                                    *)
(***************************************************************************)
Discards == [on : BOOLEAN, left : Int]
Outcomes ==
    [buffer : Buffers, discard : Discards, fails : BOOLEAN,
     ends : {"none", "frame", "throw"}, frame : Seq(0 .. 255)]

(* The outcome of a call of decode on a buffer: only discarding with a      *)
(* negative bytesToDiscard leads to a place before the buffer.              *)
Fits(out) ==
    /\ out \in Outcomes
    /\ out.buffer.reader <= Len(out.buffer.bytes)
    /\ out.ends # "none" \/ codec.kind # "length" => IsBuffer(out.buffer)

LEMMA FitsWhen ==
    ASSUME NEW b, IsBuffer(b), NEW d \in Discards, NEW fails \in BOOLEAN,
           NEW ends \in {"none", "frame", "throw"}, NEW frame \in Seq(0 .. 255)
    PROVE  Fits(Outcome(b, d, fails, ends, frame))
<1>1. b \in Buffers /\ b.reader <= Len(b.bytes)
  BY Readable DEF IsBuffer
<1> QED
  BY <1>1 DEF Fits, Outcomes, Outcome

LEMMA NoFrameFits ==
    ASSUME NEW b, IsBuffer(b), discard \in Discards
    PROVE  Fits(NoFrame(b)) /\ Fits(Corrupted(b))
<1>1. <<>> \in Seq(0 .. 255)
  BY EmptySeq
<1> QED
  BY <1>1, FitsWhen DEF NoFrame, Corrupted

LEMMA FixedSetup ==
    ASSUME setup \in Setups, codec.kind = "fixed"
    PROVE  codec.length \in Nat \ {0} /\ Limit = codec.length
<1>1. codec \in Codecs
  BY FrameAssumption DEF codec
<1> QED
  BY <1>1 DEF Codecs, Limit

LEMMA LengthSetup ==
    ASSUME setup \in Setups, codec.kind = "length"
    PROVE  /\ codec.offset \in Nat /\ codec.width \in Nat \ {0} /\ codec.adjust \in Int
           /\ codec.strip \in Nat /\ codec.max \in Nat
           /\ EndOffset \in Nat \ {0} /\ EndOffset = codec.offset + codec.width
<1>1. codec \in Codecs
  BY FrameAssumption DEF codec
<1>2. codec \in [kind : {"length"}, offset : Nat, width : {1, 2, 3, 4, 8}, adjust : Int,
                 strip : Nat, max : Nat \ {0}]
  BY <1>1 DEF Codecs
<1>3. codec.offset \in Nat /\ codec.width \in Nat \ {0}
  BY <1>2
<1> QED
  BY <1>2, <1>3 DEF EndOffset

LEMMA DelimiterSetup ==
    ASSUME setup \in Setups, codec.kind = "delimiter"
    PROVE  /\ codec.delimiters \in Seq(Seq(Nat)) /\ codec.strip \in BOOLEAN
           /\ codec.max \in Nat /\ Limit = codec.max
           /\ \A k \in DOMAIN codec.delimiters :
                 codec.delimiters[k] \in Seq(Nat) /\ Len(codec.delimiters[k]) \in Nat \ {0}
<1>1. codec \in Codecs /\ \A i \in DOMAIN codec.delimiters : codec.delimiters[i] # <<>>
  BY FrameAssumption DEF codec
<1>2. codec \in [kind : {"delimiter"}, delimiters : Seq(Seq(Nat)), strip : BOOLEAN,
                 max : Nat \ {0}]
  BY <1>1 DEF Codecs
<1>3. codec.delimiters \in Seq(Seq(Nat))
  BY <1>2
<1>4. ASSUME NEW k \in DOMAIN codec.delimiters
      PROVE  codec.delimiters[k] \in Seq(Nat) /\ Len(codec.delimiters[k]) \in Nat \ {0}
  <2>1. PICK s : s = codec.delimiters
    OBVIOUS
  <2>2. s \in Seq(Seq(Nat)) /\ k \in DOMAIN s
    BY <1>3, <1>4, <2>1
  <2>3. s[k] \in Seq(Nat)
    BY <2>2, LenProperties
  <2>4. s[k] # <<>>
    BY <1>1, <1>4, <2>1
  <2>5. Len(s[k]) \in Nat \ {0}
    BY <2>3, <2>4, EmptySeq, LenProperties
  <2> QED
    BY <2>1, <2>3, <2>5
<1> QED
  BY <1>2, <1>4 DEF Limit

LEMMA FixedFits ==
    ASSUME setup \in Setups, discard \in Discards, codec.kind = "fixed",
           NEW b, IsBuffer(b)
    PROVE  Fits(FixedLength(b))
<1>0. codec.length \in Nat
  BY FixedSetup
<1>1. CASE readableBytes(b) < codec.length
  BY <1>1, NoFrameFits DEF FixedLength
<1>2. CASE ~(readableBytes(b) < codec.length)
  <2>1. codec.length \in 0 .. readableBytes(b)
    BY <1>0, <1>2, Readable
  <2>2. IsBuffer(skipBytes(b, codec.length)) /\ Bytes(b, codec.length) \in Seq(0 .. 255)
    BY <2>1, SkipBuffer, BytesOf
  <2>3. Fits(Frame(skipBytes(b, codec.length), Bytes(b, codec.length)))
    BY <2>2, FitsWhen DEF Frame
  <2> QED
    BY <1>2, <2>3 DEF FixedLength
<1> QED
  BY <1>1, <1>2

LEMMA MinOfTwo ==
    ASSUME NEW m \in Int, NEW n \in Int
    PROVE  Min({m, n}) \in {m, n} /\ Min({m, n}) <= m /\ Min({m, n}) <= n
<1>1. Min({m, n}) = CHOOSE x \in {m, n} : \A y \in {m, n} : x <= y
  BY DEF Min
<1>2. \E x \in {m, n} : \A y \in {m, n} : x <= y
  OBVIOUS
<1>3. Min({m, n}) \in {m, n} /\ \A y \in {m, n} : Min({m, n}) <= y
  BY <1>1, <1>2
<1> QED
  BY <1>3

LEMMA DiscardRestFits ==
    ASSUME discard \in Discards, codec.kind = "length", NEW b, IsBuffer(b)
    PROVE  Fits(DiscardRest(b))
<1>1. PICK n : n = Min({discard.left, readableBytes(b)})
  OBVIOUS
<1>2. discard.left \in Int /\ readableBytes(b) \in Nat
  BY Readable DEF Discards
<1>3. n \in Int /\ n <= readableBytes(b)
  <2>1. PICK x, y : x = discard.left /\ y = readableBytes(b)
    OBVIOUS
  <2>2. x \in Int /\ y \in Int
    BY <1>2, <2>1
  <2>3. Min({x, y}) \in {x, y} /\ Min({x, y}) <= y
    BY <2>2, MinOfTwo
  <2>4. n = Min({x, y})
    BY <1>1, <2>1
  <2> QED
    BY <2>1, <2>2, <2>3, <2>4
<1>4. /\ skipBytes(b, n) \in Buffers
      /\ skipBytes(b, n).bytes = b.bytes
      /\ skipBytes(b, n).reader = b.reader + n
  BY <1>3, Skip DEF IsBuffer
<1>5. b.reader + n <= Len(b.bytes)
  BY <1>2, <1>3, Readable
<1>6. PICK d : d = [discard EXCEPT !.left = @ - n]
  OBVIOUS
<1>7. d \in Discards
  BY <1>3, <1>6 DEF Discards
<1>8. <<>> \in Seq(0 .. 255)
  BY EmptySeq
<1>9. PICK f : f = (discard.left = n)
  OBVIOUS
<1>10. f \in BOOLEAN
  BY <1>9
<1>11. DiscardRest(b) = Outcome(skipBytes(b, n), d, f, "none", <<>>)
  BY <1>1, <1>6, <1>9 DEF DiscardRest
<1>12. PICK c : c = skipBytes(b, n)
  OBVIOUS
<1>13. c \in Buffers /\ c.reader <= Len(c.bytes)
  BY <1>4, <1>5, <1>12
<1>14. Fits(Outcome(c, d, f, "none", <<>>))
  BY <1>7, <1>8, <1>10, <1>13 DEF Fits, Outcomes, Outcome
<1> QED
  BY <1>11, <1>12, <1>14

LEMMA LengthFits ==
    ASSUME setup \in Setups, discard \in Discards, codec.kind = "length",
           NEW b, IsBuffer(b)
    PROVE  Fits(LengthField(b))
<1> DEFINE readable == readableBytes(b)
           field == SubSeq(b.bytes, b.reader + codec.offset + 1, b.reader + EndOffset)
<1>0. /\ codec.offset \in Nat /\ codec.width \in Nat \ {0} /\ codec.adjust \in Int
      /\ codec.strip \in Nat /\ codec.max \in Nat
      /\ EndOffset \in Nat \ {0} /\ EndOffset = codec.offset + codec.width
  BY LengthSetup
<1>a. readable \in Nat /\ b.reader \in Nat /\ Len(b.bytes) = b.reader + readable
  BY Readable
<1>1. CASE discard.on
  BY <1>1, DiscardRestFits DEF LengthField
<1>2. CASE ~discard.on /\ readable < EndOffset
  BY <1>2, NoFrameFits DEF LengthField
<1>3. CASE ~discard.on /\ ~(readable < EndOffset)
  <2>1. PICK v : v = FieldValue(field)
    OBVIOUS
  <2>2. v \in Int
    <3>1. b.bytes \in Seq(0 .. 255)
      BY DEF IsBuffer, Buffers
    <3>2. PICK m : m = b.reader + codec.offset
      OBVIOUS
    <3>3. m \in Nat /\ m + codec.width <= Len(b.bytes) /\ codec.width \in Nat
      BY <1>0, <1>a, <1>3, <3>2
    <3>4. SubSeq(b.bytes, m + 1, m + codec.width) \in Seq(0 .. 255)
      BY <3>1, <3>3, PartOf
    <3>5. b.reader + codec.offset + 1 = m + 1 /\ b.reader + EndOffset = m + codec.width
      BY <1>0, <1>a, <3>2
    <3>6. field \in Seq(0 .. 255)
      BY <3>4, <3>5
    <3> HIDE DEF field
    <3> QED
      BY <2>1, <3>6, FieldValueType
  <2>3. PICK l : l = v + codec.adjust + EndOffset
    OBVIOUS
  <2>4. l \in Int
    BY <1>0, <2>2, <2>3
  <2>5. LengthField(b) =
          IF v < 0 \/ l < EndOffset THEN Corrupted(skipBytes(b, EndOffset))
          ELSE IF l > codec.max
               THEN Outcome(skipBytes(b, readable), [on |-> TRUE, left |-> l - readable],
                            FALSE, "none", <<>>)
          ELSE IF readable < l THEN NoFrame(b)
          ELSE IF codec.strip > l THEN Corrupted(skipBytes(b, l))
          ELSE Frame(skipBytes(b, l), Bytes(skipBytes(b, codec.strip), l - codec.strip))
    BY <1>3, <2>1, <2>3 DEF LengthField
  <2> HIDE DEF readable
  <2>6. CASE v < 0 \/ l < EndOffset
    <3>1. EndOffset \in 0 .. readable
      BY <1>0, <1>a, <1>3
    <3>2. IsBuffer(skipBytes(b, EndOffset))
      BY <3>1, SkipBuffer DEF readable
    <3> QED
      BY <2>5, <2>6, <3>2, NoFrameFits
  <2>7. CASE ~(v < 0 \/ l < EndOffset) /\ l > codec.max
    <3>1. readable \in 0 .. readable
      BY <1>a
    <3>2. IsBuffer(skipBytes(b, readable))
      BY <3>1, SkipBuffer DEF readable
    <3>3. PICK d : d = [on |-> TRUE, left |-> l - readable]
      OBVIOUS
    <3>4. d \in Discards
      BY <1>a, <2>4, <3>3 DEF Discards
    <3>5. LengthField(b) = Outcome(skipBytes(b, readable), d, FALSE, "none", <<>>)
      BY <2>5, <2>7, <3>3
    <3>6. <<>> \in Seq(0 .. 255)
      BY EmptySeq
    <3> QED
      BY <3>2, <3>4, <3>5, <3>6, FitsWhen
  <2>8. CASE ~(v < 0 \/ l < EndOffset) /\ ~(l > codec.max) /\ readable < l
    BY <2>5, <2>8, NoFrameFits
  <2>9. CASE ~(v < 0 \/ l < EndOffset) /\ ~(l > codec.max) /\ ~(readable < l) /\ codec.strip > l
    <3>1. l \in 0 .. readable
      BY <1>0, <1>a, <2>4, <2>9
    <3>2. IsBuffer(skipBytes(b, l))
      BY <3>1, SkipBuffer DEF readable
    <3> QED
      BY <2>5, <2>9, <3>2, NoFrameFits
  <2>10. CASE ~(v < 0 \/ l < EndOffset) /\ ~(l > codec.max) /\ ~(readable < l) /\ ~(codec.strip > l)
    <3>1. l \in 0 .. readable /\ codec.strip \in 0 .. readable
      BY <1>0, <1>a, <2>4, <2>10
    <3>2. IsBuffer(skipBytes(b, l)) /\ IsBuffer(skipBytes(b, codec.strip))
      BY <3>1, SkipBuffer DEF readable
    <3>3. readableBytes(skipBytes(b, codec.strip)) = readable - codec.strip
      <4>1. codec.strip \in Int /\ b \in Buffers
        BY <1>0 DEF IsBuffer
      <4> QED
        BY <4>1, Skip DEF readable
    <3>4. l - codec.strip \in 0 .. readable - codec.strip
      BY <1>0, <1>a, <2>4, <2>10, <3>1
    <3>5. Bytes(skipBytes(b, codec.strip), l - codec.strip) \in Seq(0 .. 255)
      BY <3>2, <3>3, <3>4, BytesOf
    <3>6. LengthField(b) = Frame(skipBytes(b, l), Bytes(skipBytes(b, codec.strip), l - codec.strip))
      BY <2>5, <2>10
    <3> QED
      BY <3>2, <3>5, <3>6, FitsWhen DEF Frame
  <2> QED
    BY <2>6, <2>7, <2>8, <2>9, <2>10
<1> QED
  BY <1>1, <1>2, <1>3

(***************************************************************************)
(* The first delimiter in a buffer.                                        *)
(***************************************************************************)
Hits(b) ==
    UNION {{<<i, k>> : i \in Found(b, codec.delimiters[k])} : k \in DOMAIN codec.delimiters}
IsFirst(h, H) == \A g \in H : h[1] < g[1] \/ (h[1] = g[1] /\ h[2] <= g[2])
Hit(b) == CHOOSE h \in Hits(b) : IsFirst(h, Hits(b))
Total(b) == Hit(b)[1] + Len(codec.delimiters[Hit(b)[2]])

LEMMA DelimiterIs ==
    ASSUME NEW b
    PROVE  Delimiter(b) =
             IF Hits(b) = {} THEN NoDelimiter(b)
             ELSE IF discard.on \/ Hit(b)[1] > codec.max
             THEN Outcome(skipBytes(b, Total(b)), [discard EXCEPT !.on = FALSE], TRUE, "none", <<>>)
             ELSE Frame(IF codec.strip THEN skipBytes(b, Total(b)) ELSE AfterReadBytes(b, Total(b)),
                        Bytes(b, IF codec.strip THEN Hit(b)[1] ELSE Total(b)))
BY DEF Delimiter, Hits, Hit, IsFirst, Total

LEMMA HitsAre ==
    ASSUME NEW b
    PROVE  /\ \A h \in Hits(b) : \E k \in DOMAIN codec.delimiters :
                 \E i \in Found(b, codec.delimiters[k]) : h = <<i, k>>
           /\ \A k \in DOMAIN codec.delimiters :
                 \A i \in Found(b, codec.delimiters[k]) : <<i, k>> \in Hits(b)
<1> DEFINE D == DOMAIN codec.delimiters
           F(k) == Found(b, codec.delimiters[k])
           P(k) == {<<i, k>> : i \in F(k)}
<1>1. Hits(b) = UNION {P(k) : k \in D}
  BY DEF Hits
<1>2. ASSUME NEW h \in Hits(b) PROVE \E k \in D : \E i \in F(k) : h = <<i, k>>
  <2>1. PICK k \in D : h \in P(k)
    <3> HIDE DEF D, P
    <3> QED
      BY <1>1, <1>2
  <2> HIDE DEF D, F
  <2> QED
    BY <2>1
<1>3. ASSUME NEW k \in D, NEW i \in F(k) PROVE <<i, k>> \in Hits(b)
  <2>1. <<i, k>> \in P(k)
    <3> HIDE DEF D, F
    <3> QED
      BY <1>3
  <2> HIDE DEF D, P
  <2> QED
    BY <1>1, <1>3, <2>1
<1> QED
  BY <1>2, <1>3

LEMMA FirstExists ==
    ASSUME NEW H, H # {}, \A h \in H : \E i, k \in Nat : h = <<i, k>>
    PROVE  \E h \in H : IsFirst(h, H)
<1> DEFINE I == {i \in Nat : \E k \in Nat : <<i, k>> \in H}
<1>1. I # {}
  OBVIOUS
<1>2. PICK i \in I : \A j \in I : i <= j
  <2>1. I \subseteq Nat
    OBVIOUS
  <2> HIDE DEF I
  <2> QED
    BY <1>1, <2>1, LeastNumber
<1> DEFINE K == {k \in Nat : <<i, k>> \in H}
<1>3. K # {} /\ i \in Nat
  BY <1>2
<1>4. PICK k \in K : \A l \in K : k <= l
  <2>1. K \subseteq Nat
    OBVIOUS
  <2> HIDE DEF K
  <2> QED
    BY <1>3, <2>1, LeastNumber
<1>5. <<i, k>> \in H /\ k \in Nat
  BY <1>4
<1>6. ASSUME NEW g \in H
      PROVE  i < g[1] \/ (i = g[1] /\ k <= g[2])
  <2>1. PICK j \in Nat, l \in Nat : g = <<j, l>>
    OBVIOUS
  <2>2. j \in I /\ (j = i => l \in K)
    BY <2>1
  <2>3. i <= j /\ (j = i => k <= l)
    BY <1>2, <1>4, <2>2
  <2> QED
    BY <1>3, <2>1, <2>3
<1>7. IsFirst(<<i, k>>, H)
  BY <1>6 DEF IsFirst
<1> QED
  BY <1>5, <1>7

LEMMA FoundIs ==
    ASSUME setup \in Setups, codec.kind = "delimiter", NEW b, IsBuffer(b),
           NEW k \in DOMAIN codec.delimiters, NEW i
    PROVE  i \in Found(b, codec.delimiters[k]) <=>
             /\ i \in Nat /\ i + Len(codec.delimiters[k]) <= readableBytes(b)
             /\ \A j \in 1 .. Len(codec.delimiters[k]) :
                   b.bytes[b.reader + i + j] = codec.delimiters[k][j]
<1>1. PICK d : d = codec.delimiters[k]
  OBVIOUS
<1>2. d \in Seq(Nat) /\ Len(d) \in Nat \ {0}
  BY <1>1, DelimiterSetup
<1>3. readableBytes(b) \in Nat
  BY Readable
<1>4. i \in Found(b, d) <=> i \in 0 .. (readableBytes(b) - Len(d)) /\ Bytes(skipBytes(b, i), Len(d)) = d
  BY DEF Found
<1>5. i \in 0 .. (readableBytes(b) - Len(d)) <=> i \in Nat /\ i + Len(d) <= readableBytes(b)
  BY <1>2, <1>3
<1>6. ASSUME i \in Nat, i + Len(d) <= readableBytes(b)
      PROVE  Bytes(skipBytes(b, i), Len(d)) = d <=>
               \A j \in 1 .. Len(d) : b.bytes[b.reader + i + j] = d[j]
  <2>1. i \in 0 .. readableBytes(b) /\ i \in Int
    BY <1>2, <1>3, <1>6
  <2>2. PICK c : c = skipBytes(b, i)
    OBVIOUS
  <2>3. /\ IsBuffer(c) /\ c.bytes = b.bytes /\ c.reader = b.reader + i
        /\ readableBytes(c) = readableBytes(b) - i
    BY <2>1, <2>2, SkipBuffer
  <2>4. Len(d) \in 0 .. readableBytes(c)
    BY <1>2, <1>3, <1>6, <2>3
  <2>5. PICK e : e = Bytes(c, Len(d))
    OBVIOUS
  <2>6. /\ e \in Seq(0 .. 255) /\ Len(e) = Len(d)
        /\ \A j \in 1 .. Len(d) : e[j] = b.bytes[b.reader + i + j]
    BY <2>3, <2>4, <2>5, BytesOf
  <2>7. e = d <=> \A j \in 1 .. Len(d) : e[j] = d[j]
    <3>1. e \in [1 .. Len(d) -> 0 .. 255] /\ d \in [1 .. Len(d) -> Nat]
      BY <1>2, <2>6, LenProperties
    <3> QED
      BY <3>1
  <2> QED
    BY <2>2, <2>5, <2>6, <2>7
<1> QED
  BY <1>1, <1>4, <1>5, <1>6

LEMMA HitFacts ==
    ASSUME setup \in Setups, codec.kind = "delimiter", NEW b, IsBuffer(b), Hits(b) # {}
    PROVE  /\ Hit(b) \in Hits(b) /\ IsFirst(Hit(b), Hits(b))
           /\ Hit(b)[1] \in Nat /\ Hit(b)[2] \in DOMAIN codec.delimiters
           /\ Hit(b)[1] \in Found(b, codec.delimiters[Hit(b)[2]])
           /\ Len(codec.delimiters[Hit(b)[2]]) \in Nat \ {0}
           /\ Total(b) \in 1 .. readableBytes(b) /\ Hit(b)[1] < Total(b)
<1>0. DOMAIN codec.delimiters \subseteq Nat
  <2>1. codec.delimiters \in Seq(Seq(Nat))
    BY DelimiterSetup
  <2>2. DOMAIN codec.delimiters = 1 .. Len(codec.delimiters)
    BY <2>1, LenProperties
  <2> QED
    BY <2>2
<1>1. \A h \in Hits(b) : \E k \in DOMAIN codec.delimiters :
         \E i \in Found(b, codec.delimiters[k]) : h = <<i, k>>
  BY HitsAre
<1>2. \A h \in Hits(b) : \E i, k \in Nat : h = <<i, k>>
  BY <1>0, <1>1, FoundIs
<1>3. \E h \in Hits(b) : IsFirst(h, Hits(b))
  <2>1. PICK H : H = Hits(b)
    OBVIOUS
  <2> QED
    BY <1>2, <2>1, FirstExists
<1>4. Hit(b) \in Hits(b) /\ IsFirst(Hit(b), Hits(b))
  <2>1. Hit(b) = CHOOSE h \in Hits(b) : IsFirst(h, Hits(b))
    BY DEF Hit
  <2> QED
    BY <1>3, <2>1
<1>k. PICK k \in DOMAIN codec.delimiters :
         \E i \in Found(b, codec.delimiters[k]) : Hit(b) = <<i, k>>
  BY <1>1, <1>4
<1>5. PICK i \in Found(b, codec.delimiters[k]) : Hit(b) = <<i, k>>
  BY <1>k
<1>6. Hit(b)[1] = i /\ Hit(b)[2] = k
  BY <1>5
<1>7. i \in Nat /\ i + Len(codec.delimiters[k]) <= readableBytes(b)
  BY FoundIs
<1>8. Len(codec.delimiters[k]) \in Nat \ {0}
  BY DelimiterSetup
<1>9. Total(b) = i + Len(codec.delimiters[k])
  BY <1>6 DEF Total
<1>10. readableBytes(b) \in Nat
  BY Readable
<1>11. Total(b) \in 1 .. readableBytes(b) /\ i < Total(b)
  BY <1>7, <1>8, <1>9, <1>10
<1> QED
  BY <1>4, <1>6, <1>7, <1>8, <1>11

LEMMA DelimiterFits ==
    ASSUME setup \in Setups, discard \in Discards, codec.kind = "delimiter",
           NEW b, IsBuffer(b)
    PROVE  Fits(Delimiter(b))
<1>0. readableBytes(b) \in Nat /\ readableBytes(b) \in 0 .. readableBytes(b)
  BY Readable
<1>a. <<>> \in Seq(0 .. 255)
  BY EmptySeq
<1>1. CASE Hits(b) = {}
  <2>1. Delimiter(b) = NoDelimiter(b)
    BY <1>1, DelimiterIs
  <2>2. IsBuffer(skipBytes(b, readableBytes(b)))
    BY <1>0, SkipBuffer
  <2>3. PICK d : d = [discard EXCEPT !.on = TRUE]
    OBVIOUS
  <2>4. d \in Discards
    BY <2>3 DEF Discards
  <2>5. Fits(Outcome(skipBytes(b, readableBytes(b)), d, FALSE, "none", <<>>))
    BY <1>a, <2>2, <2>4, FitsWhen
  <2> QED
    BY <2>1, <2>3, <2>5, NoFrameFits DEF NoDelimiter
<1>2. CASE Hits(b) # {}
  <2>1. Total(b) \in 1 .. readableBytes(b) /\ Hit(b)[1] \in Nat /\ Hit(b)[1] < Total(b)
    BY <1>2, HitFacts
  <2>2. Total(b) \in 0 .. readableBytes(b) /\ Hit(b)[1] \in 0 .. readableBytes(b)
    BY <1>0, <2>1
  <2>3. IsBuffer(skipBytes(b, Total(b))) /\ IsBuffer(AfterReadBytes(b, Total(b)))
    BY <2>2, SkipBuffer, AfterReadBuffer
  <2>4. Bytes(b, Total(b)) \in Seq(0 .. 255) /\ Bytes(b, Hit(b)[1]) \in Seq(0 .. 255)
    BY <2>2, BytesOf
  <2>5. CASE discard.on \/ Hit(b)[1] > codec.max
    <3>1. PICK d : d = [discard EXCEPT !.on = FALSE]
      OBVIOUS
    <3>2. d \in Discards
      BY <3>1 DEF Discards
    <3>3. Delimiter(b) = Outcome(skipBytes(b, Total(b)), d, TRUE, "none", <<>>)
      BY <1>2, <2>5, <3>1, DelimiterIs
    <3> QED
      BY <1>a, <2>3, <3>2, <3>3, FitsWhen
  <2>6. CASE ~(discard.on \/ Hit(b)[1] > codec.max)
    <3>1. PICK c, f : /\ c = IF codec.strip THEN skipBytes(b, Total(b)) ELSE AfterReadBytes(b, Total(b))
                      /\ f = Bytes(b, IF codec.strip THEN Hit(b)[1] ELSE Total(b))
      OBVIOUS
    <3>2. IsBuffer(c) /\ f \in Seq(0 .. 255)
      BY <2>3, <2>4, <3>1
    <3>3. Delimiter(b) = Frame(c, f)
      BY <1>2, <2>6, <3>1, DelimiterIs
    <3> QED
      BY <3>2, <3>3, FitsWhen DEF Frame
  <2> QED
    BY <2>5, <2>6
<1> QED
  BY <1>1, <1>2

LEMMA DecodeFits ==
    ASSUME setup \in Setups, discard \in Discards, NEW b, IsBuffer(b)
    PROVE  Fits(decode(b))
<1>1. codec.kind \in {"fixed", "length", "delimiter"}
  <2>1. codec \in Codecs
    BY FrameAssumption DEF codec
  <2> QED
    BY <2>1 DEF Codecs
<1>2. CASE codec.kind = "fixed"
  BY <1>2, FixedFits DEF decode
<1>3. CASE codec.kind = "length"
  BY <1>3, LengthFits DEF decode
<1>4. CASE codec.kind = "delimiter"
  BY <1>4, DelimiterFits DEF decode
<1> QED
  BY <1>1, <1>2, <1>3, <1>4

(***************************************************************************)
(* Type correctness.                                                       *)
(***************************************************************************)
LEMMA Running ==
    ASSUME TypeOK, ~fault
    PROVE  /\ IsBuffer(input) /\ IsBuffer(cumulation) /\ discard \in Discards
           /\ calls # <<>> =>
                 /\ Call \in Calls /\ Tail(calls) \in Seq(Calls)
                 /\ IsBuffer(Buffer) /\ Fits(decode(Buffer)) /\ Fits(NoFrame(Buffer))
<1>1. /\ setup \in Setups /\ discard \in Discards /\ calls \in Seq(Calls)
      /\ input \in Buffers /\ cumulation \in Buffers
      /\ \A b \in {input, cumulation} : b.reader \in 0 .. Len(b.bytes)
  BY DEF TypeOK, Discards
<1>2. IsBuffer(input) /\ IsBuffer(cumulation)
  BY <1>1 DEF IsBuffer
<1>3. ASSUME calls # <<>>
      PROVE  Call \in Calls /\ Tail(calls) \in Seq(Calls)
  <2>1. Head(calls) \in Calls /\ Tail(calls) \in Seq(Calls)
    BY <1>1, <1>3, HeadTailProperties
  <2> QED
    BY <2>1 DEF Call
<1>4. IsBuffer(Buffer)
  BY <1>2 DEF Buffer
<1> QED
  BY <1>1, <1>2, <1>3, <1>4, DecodeFits, NoFrameFits

LEMMA SentType ==
    ASSUME TypeOK, NEW first, Fits(first), NEW second, Fits(second), Sent(first, second)
    PROVE  /\ frames' \in Seq(Seq(0 .. 255)) /\ reports' \in Nat /\ told' \in BOOLEAN
           /\ lost \subseteq DOMAIN frames'
<1>1. frames \in Seq(Seq(0 .. 255)) /\ reports \in Nat /\ lost \subseteq DOMAIN frames
  BY DEF TypeOK
<1>2. ASSUME NEW out, Fits(out)
      PROVE  FrameOf(out) \in Seq(Seq(0 .. 255)) /\ Reports(out) \in Nat
  <2>1. out.frame \in Seq(0 .. 255) /\ out.fails \in BOOLEAN
    BY <1>2 DEF Fits, Outcomes
  <2>2. <<out.frame>> \in Seq(Seq(0 .. 255)) /\ <<>> \in Seq(Seq(0 .. 255))
    BY <2>1, EmptySeq
  <2> QED
    BY <2>1, <2>2 DEF FrameOf, Reports
<1>3. PICK f, g : f = FrameOf(first) /\ g = FrameOf(second)
  OBVIOUS
<1>4. f \in Seq(Seq(0 .. 255)) /\ g \in Seq(Seq(0 .. 255))
  BY <1>2, <1>3
<1>5. frames' = frames \o f \o g
  BY <1>3 DEF Sent
<1>6. PICK e : e = frames \o f
  OBVIOUS
<1>7. e \in Seq(Seq(0 .. 255)) /\ Len(e) = Len(frames) + Len(f)
  BY <1>1, <1>4, <1>6, ConcatProperties
<1>8. frames' \in Seq(Seq(0 .. 255)) /\ Len(frames') = Len(e) + Len(g)
  BY <1>4, <1>5, <1>6, <1>7, ConcatProperties
<1>9. DOMAIN frames \subseteq DOMAIN frames'
  <2>1. Len(frames) \in Nat /\ Len(f) \in Nat /\ Len(g) \in Nat
    BY <1>1, <1>4, LenProperties
  <2>2. Len(frames) <= Len(frames')
    BY <1>7, <1>8, <2>1
  <2>3. DOMAIN frames = 1 .. Len(frames) /\ DOMAIN frames' = 1 .. Len(frames')
    BY <1>1, <1>8, LenProperties
  <2>4. Len(frames') \in Nat
    BY <1>8, LenProperties
  <2> QED
    BY <2>1, <2>2, <2>3, <2>4
<1>10. reports' \in Nat
  <2>1. PICK m, n : m = Reports(first) /\ n = Reports(second)
    OBVIOUS
  <2>2. m \in Nat /\ n \in Nat
    BY <1>2, <2>1
  <2>3. reports' = reports + m + n
    BY <2>1 DEF Sent
  <2> QED
    BY <1>1, <2>2, <2>3
<1>11. told' \in BOOLEAN
  BY Zenon DEF Sent
<1> QED
  BY <1>1, <1>8, <1>9, <1>10, <1>11

(* The part of the type invariant that is about buffers. *)
GoodBuffers(i, c, f) ==
    i \in Buffers /\ c \in Buffers /\ (f \/ (IsBuffer(i) /\ IsBuffer(c)))

LEMMA BecomesType ==
    ASSUME TypeOK, ~fault, calls # <<>>, NEW b, b \in Buffers, Becomes(b), NEW f \in BOOLEAN,
           f \/ IsBuffer(b)
    PROVE  GoodBuffers(input', cumulation', f)
<1>1. IsBuffer(input) /\ IsBuffer(cumulation) /\ input \in Buffers /\ cumulation \in Buffers
  BY Running DEF IsBuffer
<1> QED
  BY <1>1 DEF Becomes, GoodBuffers

LEMMA TypeWhen ==
    ASSUME TypeOK, setup' = setup, arrived' \in 0 .. Len(setup.stream),
           GoodBuffers(input', cumulation', fault'), made' \in BOOLEAN,
           calls' \in Seq(Calls), told' \in BOOLEAN, discard' \in Discards,
           frames' \in Seq(Seq(0 .. 255)), reports' \in Nat, lost' \subseteq DOMAIN frames',
           open' \in BOOLEAN, passed' \in Seq(Events), fault' \in BOOLEAN
    PROVE  TypeOK'
<1>1. setup' \in Setups /\ setup'.stream = setup.stream
  BY DEF TypeOK
<1>2. fault' \/ \A b \in {input', cumulation'} : b.reader \in 0 .. Len(b.bytes)
  BY DEF GoodBuffers, IsBuffer
<1>3. input' \in Buffers /\ cumulation' \in Buffers
  BY DEF GoodBuffers
<1> QED
  BY <1>1, <1>2, <1>3 DEF TypeOK, Discards

LEMMA PieceType ==
    ASSUME TypeOK, NEW n \in Nat, arrived + n <= Len(setup.stream)
    PROVE  Piece(n) \in Seq(0 .. 255) /\ Len(Piece(n)) = n
           /\ \A i \in 1 .. n : Piece(n)[i] = setup.stream[arrived + i]
<1>1. setup.stream \in Seq(0 .. 255) /\ arrived \in 0 .. Len(setup.stream)
  BY FrameAssumption DEF TypeOK
<1>2. arrived \in Nat
  BY <1>1
<1>3. PICK s, m : s = setup.stream /\ m = arrived
  OBVIOUS
<1>4. s \in Seq(0 .. 255) /\ m \in Nat /\ m + n <= Len(s)
  BY <1>1, <1>2, <1>3
<1>5. /\ SubSeq(s, m + 1, m + n) \in Seq(0 .. 255)
      /\ Len(SubSeq(s, m + 1, m + n)) = n
      /\ \A i \in 1 .. n : SubSeq(s, m + 1, m + n)[i] = s[m + i]
  BY <1>4, PartOf
<1> QED
  BY <1>3, <1>5 DEF Piece

LEMMA ReceiveType ==
    ASSUME TypeOK, NEW n \in 1 .. Len(setup.stream), Receive(n)
    PROVE  TypeOK'
<1>0. /\ setup.stream \in Seq(0 .. 255) /\ arrived \in 0 .. Len(setup.stream)
      /\ setup.capacity \in Nat /\ Len(setup.stream) \in Nat
  BY FrameAssumption, LenProperties DEF TypeOK
<1>1. ~fault /\ arrived + n <= Len(setup.stream) /\ arrived' = arrived + n
  BY DEF Receive
<1>2. n \in Nat /\ arrived' \in 0 .. Len(setup.stream)
  BY <1>0, <1>1
<1>3. IsBuffer(input) /\ IsBuffer(cumulation)
  BY <1>1, Running
<1>4. Piece(n) \in Seq(0 .. 255) /\ Len(Piece(n)) = n
  BY <1>1, <1>2, PieceType
<1>5. calls' \in Seq(Calls)
  <2>1. [on |-> "input", event |-> "none"] \in Calls /\ [on |-> "cumulation", event |-> "none"] \in Calls
    BY DEF Calls
  <2>2. PICK c \in Calls : calls' = <<c>>
    BY <2>1 DEF Receive, ReceiveOwn, ReceivePiece
  <2> QED
    BY <2>2
<1>6. GoodBuffers(input', cumulation', fault') /\ made' \in BOOLEAN /\ fault' \in BOOLEAN
  <2>1. made \in BOOLEAN /\ fault \in BOOLEAN
    BY DEF TypeOK
  <2>2. CASE ReceiveOwn(n)
    <3>1. IsBuffer(writeBytes(input, Piece(n)))
      BY <1>3, <1>4, Written
    <3>2. input' = writeBytes(input, Piece(n)) /\ cumulation' = cumulation /\ made' = made
      BY <2>2 DEF ReceiveOwn
    <3>3. fault' \in BOOLEAN
      <4>1. fault' = (Len(input.bytes) + n > setup.capacity)
        BY <2>2 DEF ReceiveOwn
      <4>2. CASE Len(input.bytes) + n > setup.capacity
        BY <4>1, <4>2
      <4>3. CASE ~(Len(input.bytes) + n > setup.capacity)
        BY <4>1, <4>3
      <4> QED
        BY <4>2, <4>3
    <3>4. IsBuffer(input') /\ IsBuffer(cumulation')
      BY <1>3, <3>1, <3>2
    <3> QED
      BY <2>1, <3>2, <3>3, <3>4 DEF GoodBuffers, IsBuffer
  <2>3. CASE ReceivePiece(n)
    <3>1. IsBuffer(writeBytes(discardReadBytes(cumulation), Piece(n)))
      BY <1>3, <1>4, Written, Compacted
    <3>2. IsBuffer([bytes |-> Piece(n), reader |-> 0])
      BY <1>2, <1>4 DEF IsBuffer, Buffers
    <3>3. IsBuffer(input') /\ IsBuffer(cumulation') /\ made' = TRUE /\ fault' = fault
      BY <1>3, <2>3, <3>1, <3>2 DEF ReceivePiece
    <3> QED
      BY <2>1, <3>3 DEF GoodBuffers, IsBuffer
  <2> QED
    BY <2>2, <2>3 DEF Receive
<1>7. /\ setup' = setup /\ discard' = discard /\ upstream' = upstream /\ open' = open
      /\ told' = FALSE
  BY DEF Receive
<1>8. /\ discard' \in Discards /\ told' \in BOOLEAN /\ open' \in BOOLEAN
      /\ frames' \in Seq(Seq(0 .. 255)) /\ reports' \in Nat /\ lost' \subseteq DOMAIN frames'
      /\ passed' \in Seq(Events)
  BY <1>7 DEF TypeOK, upstream, Discards
<1> QED
  BY <1>2, <1>5, <1>6, <1>7, <1>8, TypeWhen

LEMMA IterateType ==
    ASSUME TypeOK, Iterate
    PROVE  TypeOK'
<1>1. ~fault /\ calls # <<>>
  BY DEF Iterate
<1>2. PICK out : out = decode(Buffer)
  OBVIOUS
<1>3. /\ Becomes(out.buffer) /\ discard' = out.discard /\ Sent(NoFrame(Buffer), out)
      /\ fault' = (out.buffer.reader < 0)
      /\ UNCHANGED <<setup, arrived, made, calls, lost, open, passed>>
  BY <1>2 DEF Iterate
<1>4. Fits(out) /\ Fits(NoFrame(Buffer))
  BY <1>1, <1>2, Running
<1>5. out.buffer \in Buffers /\ out.buffer.reader <= Len(out.buffer.bytes) /\ out.discard \in Discards
  BY <1>4 DEF Fits, Outcomes
<1>6. fault' \in BOOLEAN /\ (fault' \/ IsBuffer(out.buffer))
  <2>1. out.buffer.bytes \in Seq(0 .. 255) /\ out.buffer.reader \in Int
    BY <1>5 DEF Buffers
  <2>2. Len(out.buffer.bytes) \in Nat
    BY <2>1, LenProperties
  <2>3. CASE out.buffer.reader < 0
    BY <1>3, <2>3
  <2>4. CASE ~(out.buffer.reader < 0)
    <3>1. fault' \in BOOLEAN
      BY <1>3, <2>4
    <3>2. IsBuffer(out.buffer)
      BY <1>5, <2>1, <2>2, <2>4 DEF IsBuffer
    <3> QED
      BY <3>1, <3>2
  <2> QED
    BY <2>3, <2>4
<1>7. fault' \in BOOLEAN
  BY <1>6
<1>8. GoodBuffers(input', cumulation', fault')
  <2>1. PICK f : f = fault'
    OBVIOUS
  <2> QED
    BY <1>1, <1>3, <1>5, <1>6, <1>7, <2>1, BecomesType
<1>9. /\ frames' \in Seq(Seq(0 .. 255)) /\ reports' \in Nat /\ told' \in BOOLEAN
      /\ lost' \subseteq DOMAIN frames'
  BY <1>3, <1>4, SentType
<1>10. /\ discard' \in Discards /\ arrived' \in 0 .. Len(setup.stream) /\ setup' = setup
       /\ made' \in BOOLEAN /\ calls' \in Seq(Calls) /\ open' \in BOOLEAN /\ passed' \in Seq(Events)
  BY <1>3, <1>5 DEF TypeOK
<1> QED
  BY <1>7, <1>8, <1>9, <1>10, TypeWhen

LEMMA ThrowType ==
    ASSUME TypeOK, Throw
    PROVE  TypeOK'
<1>1. ~fault /\ calls # <<>>
  BY DEF Throw
<1>2. PICK out : out = decode(Buffer)
  OBVIOUS
<1>3. /\ out.ends = "throw" \/ (out.ends = "frame" /\ ~CanContinue(out))
      /\ Becomes(out.buffer)
      /\ IF out.ends = "throw" THEN UNCHANGED <<frames, lost>>
         ELSE /\ frames' = Append(frames, out.frame)
              /\ lost' = lost \cup {Len(frames) + 1}
      /\ calls' = Tail(calls)
      /\ passed' = IF Call.event = "none" THEN passed ELSE Append(passed, Call.event)
      /\ told' = TRUE
      /\ UNCHANGED <<setup, arrived, made, discard, reports, open, fault>>
  BY <1>2 DEF Throw
<1>4. Fits(out) /\ Call \in Calls /\ Tail(calls) \in Seq(Calls)
  BY <1>1, <1>2, Running
<1>5. IsBuffer(out.buffer) /\ out.buffer \in Buffers /\ out.frame \in Seq(0 .. 255)
  BY <1>3, <1>4 DEF Fits, Outcomes
<1>6. GoodBuffers(input', cumulation', FALSE)
  BY <1>1, <1>3, <1>5, BecomesType
<1>7. GoodBuffers(input', cumulation', fault')
  BY <1>6 DEF GoodBuffers
<1>8. frames' \in Seq(Seq(0 .. 255)) /\ lost' \subseteq DOMAIN frames'
  <2>1. frames \in Seq(Seq(0 .. 255)) /\ lost \subseteq DOMAIN frames
    BY DEF TypeOK
  <2>2. CASE out.ends = "throw"
    BY <1>3, <2>1, <2>2
  <2>3. CASE out.ends # "throw"
    <3>1. frames' = Append(frames, out.frame) /\ lost' = lost \cup {Len(frames) + 1}
      BY <1>3, <2>3
    <3>2. /\ Append(frames, out.frame) \in Seq(Seq(0 .. 255))
          /\ Len(Append(frames, out.frame)) = Len(frames) + 1
      BY <1>5, <2>1, AppendProperties
    <3>3. DOMAIN frames' = 1 .. Len(frames) + 1 /\ DOMAIN frames = 1 .. Len(frames) /\ Len(frames) \in Nat
      BY <2>1, <3>1, <3>2, LenProperties
    <3> QED
      BY <2>1, <3>1, <3>2, <3>3
  <2> QED
    BY <2>2, <2>3
<1>9. passed' \in Seq(Events)
  <2>1. passed \in Seq(Events)
    BY DEF TypeOK
  <2>2. CASE Call.event = "none"
    BY <1>3, <2>1, <2>2
  <2>3. CASE Call.event # "none"
    <3>1. Call.event \in Events
      BY <1>4, <2>3 DEF Calls
    <3>2. Append(passed, Call.event) \in Seq(Events)
      BY <2>1, <3>1, AppendProperties
    <3> QED
      BY <1>3, <2>3, <3>2
  <2> QED
    BY <2>2, <2>3
<1>10. /\ setup' = setup /\ arrived' \in 0 .. Len(setup.stream) /\ made' \in BOOLEAN
       /\ calls' \in Seq(Calls) /\ told' \in BOOLEAN /\ discard' \in Discards /\ reports' \in Nat
       /\ open' \in BOOLEAN /\ fault' \in BOOLEAN
  BY <1>3, <1>4 DEF TypeOK, Discards
<1> QED
  BY <1>7, <1>8, <1>9, <1>10, TypeWhen

LEMMA LastDecodeFits ==
    ASSUME TypeOK, ~fault, calls # <<>>, NEW out, Fits(out)
    PROVE  Fits(LastDecode(out))
BY Running DEF LastDecode

LEMMA ReturnToMessageType ==
    ASSUME TypeOK, ReturnToMessage
    PROVE  TypeOK'
<1>1. ~fault /\ calls # <<>>
  BY DEF ReturnToMessage
<1>2. PICK out : out = decode(Buffer)
  OBVIOUS
<1>3. PICK last : last = LastDecode(out)
  OBVIOUS
<1>4. /\ discard' = last.discard /\ Sent(NoFrame(Buffer), last)
      /\ IF Call.on = "input" THEN KeepRest(Buffer) ELSE UNCHANGED <<input, cumulation>>
      /\ calls' = Tail(calls)
      /\ UNCHANGED <<setup, arrived, made, lost, open, passed, fault>>
  BY <1>2, <1>3 DEF ReturnToMessage
<1>5. /\ Fits(out) /\ Fits(NoFrame(Buffer)) /\ Call \in Calls /\ Tail(calls) \in Seq(Calls)
      /\ IsBuffer(Buffer) /\ IsBuffer(input) /\ IsBuffer(cumulation)
  BY <1>1, <1>2, Running
<1>6. Fits(last)
  BY <1>1, <1>3, <1>5, LastDecodeFits
<1>7. /\ frames' \in Seq(Seq(0 .. 255)) /\ reports' \in Nat /\ told' \in BOOLEAN
      /\ lost' \subseteq DOMAIN frames'
  BY <1>4, <1>5, <1>6, SentType
<1>8. GoodBuffers(input', cumulation', fault')
  <2>1. readableBytes(Buffer) \in 0 .. readableBytes(Buffer)
    BY <1>5, Readable
  <2>2. Bytes(Buffer, readableBytes(Buffer)) \in Seq(0 .. 255)
    BY <1>5, <2>1, BytesOf
  <2>3. /\ IsBuffer(discardReadBytes(Buffer)) /\ IsBuffer(Empty)
        /\ IsBuffer(writeBytes(cumulation, Bytes(Buffer, readableBytes(Buffer))))
    BY <1>5, <2>2, Compacted, Written, EmptyBuffer
  <2>4. IsBuffer(input') /\ IsBuffer(cumulation')
    <3>1. CASE Call.on = "input"
      <4>1. KeepRest(Buffer)
        BY <1>4, <3>1
      <4> QED
        BY <1>5, <2>3, <4>1 DEF KeepRest
    <3>2. CASE Call.on # "input"
      BY <1>4, <1>5, <3>2
    <3> QED
      BY <3>1, <3>2
  <2> QED
    BY <2>4 DEF GoodBuffers, IsBuffer
<1>9. /\ setup' = setup /\ arrived' \in 0 .. Len(setup.stream) /\ made' \in BOOLEAN
      /\ calls' \in Seq(Calls) /\ discard' \in Discards
      /\ open' \in BOOLEAN /\ fault' \in BOOLEAN /\ passed' \in Seq(Events)
  BY <1>4, <1>5, <1>6 DEF TypeOK, Fits, Outcomes
<1> QED
  BY <1>7, <1>8, <1>9, TypeWhen

LEMMA ReturnToCleanupType ==
    ASSUME TypeOK, ReturnToCleanup
    PROVE  TypeOK'
<1>1. ~fault /\ calls # <<>>
  BY DEF ReturnToCleanup
<1>2. PICK out : out = decode(Buffer)
  OBVIOUS
<1>3. PICK last : last = LastDecode(out)
  OBVIOUS
<1>4. /\ discard' = out.discard /\ Sent(last, out) /\ cumulation' = Empty
      /\ calls' = Tail(calls)
      /\ UNCHANGED <<setup, arrived, input, made, lost, open, passed, fault>>
  BY <1>2, <1>3 DEF ReturnToCleanup
<1>5. Fits(out) /\ Tail(calls) \in Seq(Calls) /\ IsBuffer(input)
  BY <1>1, <1>2, Running
<1>6. Fits(last)
  BY <1>1, <1>3, <1>5, LastDecodeFits
<1>7. /\ frames' \in Seq(Seq(0 .. 255)) /\ reports' \in Nat /\ told' \in BOOLEAN
      /\ lost' \subseteq DOMAIN frames'
  BY <1>4, <1>5, <1>6, SentType
<1>8. GoodBuffers(input', cumulation', fault')
  BY <1>4, <1>5, EmptyBuffer DEF GoodBuffers, IsBuffer
<1>9. /\ setup' = setup /\ arrived' \in 0 .. Len(setup.stream) /\ made' \in BOOLEAN
      /\ calls' \in Seq(Calls) /\ discard' \in Discards
      /\ open' \in BOOLEAN /\ fault' \in BOOLEAN /\ passed' \in Seq(Events)
  BY <1>4, <1>5 DEF TypeOK, Fits, Outcomes
<1> QED
  BY <1>7, <1>8, <1>9, TypeWhen

Cleanups == << [on |-> "cumulation", event |-> "disconnected"],
               [on |-> "cumulation", event |-> "closed"] >>

LEMMA CleanupsType == Cleanups \in Seq(Calls) /\ Len(Cleanups) = 2
<1>1. PICK c, d : c = [on |-> "cumulation", event |-> "disconnected"] /\ d = [on |-> "cumulation", event |-> "closed"]
  OBVIOUS
<1>2. c \in Calls /\ d \in Calls
  BY <1>1 DEF Calls, Events
<1>3. Cleanups = <<c, d>>
  BY <1>1 DEF Cleanups
<1> QED
  BY <1>2, <1>3

LEMMA CloseType ==
    ASSUME TypeOK, Close
    PROVE  TypeOK'
<1>1. /\ ~fault /\ open' = FALSE /\ told' = FALSE
      /\ calls' = IF ~made THEN calls ELSE Cleanups \o calls
      /\ setup' = setup /\ arrived' = arrived /\ buffers' = buffers /\ discard' = discard
      /\ upstream' = upstream /\ fault' = fault
  BY DEF Close, Cleanups
<1>2. calls' \in Seq(Calls)
  <2>1. calls \in Seq(Calls)
    BY DEF TypeOK
  <2>2. Cleanups \o calls \in Seq(Calls)
    BY <2>1, CleanupsType, ConcatProperties
  <2> QED
    BY <1>1, <2>1, <2>2
<1>3. input' = input /\ cumulation' = cumulation /\ made' = made
  BY <1>1 DEF buffers
<1>4. GoodBuffers(input', cumulation', fault')
  BY <1>1, <1>3, Running DEF GoodBuffers, IsBuffer
<1>5. /\ arrived' \in 0 .. Len(setup.stream) /\ made' \in BOOLEAN /\ told' \in BOOLEAN
      /\ discard' \in Discards /\ frames' \in Seq(Seq(0 .. 255)) /\ reports' \in Nat
      /\ lost' \subseteq DOMAIN frames' /\ open' \in BOOLEAN /\ passed' \in Seq(Events)
      /\ fault' \in BOOLEAN
  BY <1>1, <1>3 DEF TypeOK, upstream, Discards
<1> QED
  BY <1>1, <1>2, <1>4, <1>5, TypeWhen

LEMMA TypeInit ==
    ASSUME Init
    PROVE  TypeOK
<1>1. /\ setup \in Setups /\ setup.stream \in Seq(0 .. 255) /\ Len(setup.stream) \in Nat
  BY FrameAssumption, LenProperties DEF Init
<1>2. discard \in [on : BOOLEAN, left : Int]
  <2>1. CASE codec.kind = "length"
    <3>1. PICK left \in Garbage : discard = [on |-> TRUE, left |-> left]
      BY <2>1 DEF Init
    <3>2. left \in Int
      BY FrameAssumption
    <3> QED
      BY <3>1, <3>2
  <2>2. CASE codec.kind # "length"
    <3>1. discard = [on |-> FALSE, left |-> 0]
      BY <2>2 DEF Init
    <3> QED
      BY <3>1
  <2> QED
    BY <2>1, <2>2
<1>3. input = Empty /\ cumulation = Empty /\ IsBuffer(Empty)
  BY EmptyBuffer DEF Init
<1>4. /\ input \in Buffers /\ cumulation \in Buffers
      /\ \A b \in {input, cumulation} : b.reader \in 0 .. Len(b.bytes)
  BY <1>3 DEF IsBuffer
<1>5. calls \in Seq(Calls) /\ frames \in Seq(Seq(0 .. 255)) /\ passed \in Seq(Events)
  BY EmptySeq DEF Init
<1>6. /\ arrived = 0 /\ made = FALSE /\ told = FALSE /\ reports = 0 /\ lost = {} /\ open = TRUE
      /\ fault = FALSE
  BY DEF Init
<1>7. arrived \in 0 .. Len(setup.stream) /\ reports \in Nat
  BY <1>1, <1>6
<1>8. /\ lost \subseteq DOMAIN frames
      /\ made \in BOOLEAN /\ told \in BOOLEAN /\ open \in BOOLEAN /\ fault \in BOOLEAN
  BY <1>6
<1> HIDE DEF Init
<1> QED
  BY <1>1, <1>2, <1>4, <1>5, <1>7, <1>8, Zenon DEF TypeOK

LEMMA TypeStep ==
    ASSUME TypeOK, [Next]_vars
    PROVE  TypeOK'
<1>1. CASE UNCHANGED vars
  BY <1>1 DEF TypeOK, vars, buffers, upstream
<1>2. CASE Next
  BY <1>2, ReceiveType, IterateType, ThrowType, ReturnToMessageType, ReturnToCleanupType,
     CloseType DEF Next
<1> QED
  BY <1>1, <1>2

(* The variables of FrameDecoder keep their types, whichever of the three   *)
(* framings decodes the stream, and unless memory outside of a buffer has   *)
(* been used no reader index passes its writer index.                       *)
THEOREM TypeCorrect == Spec => []TypeOK
<1>1. Init => TypeOK
  BY TypeInit
<1>2. TypeOK /\ [Next]_vars => TypeOK'
  BY TypeStep
<1> QED
  BY <1>1, <1>2, PTL DEF Spec

(***************************************************************************)
(* The calls that run: cleanup calls only the ones of a closed channel, on *)
(* the gathered bytes, and inside of the call for a message.               *)
(***************************************************************************)
ACall(c, i, n, own, isOpen) ==
    /\ c.event = "none" => i = n
    /\ c.on = "input" => c.event = "none"
    /\ c.event # "none" => ~isOpen
    /\ own => c.on = "input"

CallsInv ==
    /\ \A i \in DOMAIN calls : ACall(calls[i], i, Len(calls), setup.own, open)
    /\ setup.own => ~made

OnInput == \E i \in DOMAIN calls : calls[i].on = "input"

(* Unread bytes are in one buffer: in the channel's own one, in the piece   *)
(* while a message is decoded from it, or else in the gathered bytes.       *)
Apart(i, c, on) ==
    /\ setup.own => readableBytes(c) = 0
    /\ ~setup.own /\ ~on => readableBytes(i) = 0
    /\ ~setup.own /\ on => readableBytes(c) = 0

PlaceInv == codec.kind # "length" /\ ~fault => Apart(input, cumulation, OnInput)

LEMMA OneCall ==
    ASSUME TypeOK, CallsInv, calls # <<>>
    PROVE  /\ calls \in Seq(Calls) /\ Len(calls) \in Nat \ {0} /\ Call = calls[1]
           /\ 1 \in DOMAIN calls /\ DOMAIN calls = 1 .. Len(calls)
           /\ Call \in Calls /\ ACall(Call, 1, Len(calls), setup.own, open)
           /\ Tail(calls) \in Seq(Calls) /\ Len(Tail(calls)) = Len(calls) - 1
           /\ DOMAIN Tail(calls) = 1 .. Len(calls) - 1
           /\ \A i \in DOMAIN Tail(calls) : Tail(calls)[i] = calls[i + 1] /\ i + 1 \in DOMAIN calls
<1>1. calls \in Seq(Calls)
  BY DEF TypeOK
<1>2. Len(calls) \in Nat /\ Len(calls) # 0 /\ DOMAIN calls = 1 .. Len(calls)
  BY <1>1, LenProperties, EmptySeq
<1>3. 1 \in DOMAIN calls
  BY <1>2
<1>4. /\ Head(calls) = calls[1] /\ Head(calls) \in Calls
      /\ Tail(calls) \in Seq(Calls) /\ Len(Tail(calls)) = Len(calls) - 1
      /\ \A i \in 1 .. Len(Tail(calls)) : Tail(calls)[i] = calls[i + 1]
  BY <1>1, HeadTailProperties
<1>5. DOMAIN Tail(calls) = 1 .. Len(calls) - 1
  BY <1>4, LenProperties
<1>6. \A i \in DOMAIN Tail(calls) : i + 1 \in DOMAIN calls
  BY <1>2, <1>5
<1>7. ACall(calls[1], 1, Len(calls), setup.own, open)
  BY <1>3 DEF CallsInv
<1> QED
  BY <1>1, <1>2, <1>3, <1>4, <1>5, <1>6, <1>7 DEF Call

LEMMA TailInput ==
    ASSUME TypeOK, CallsInv, calls # <<>>, calls' = Tail(calls)
    PROVE  /\ Call.on = "input" => calls' = <<>>
           /\ Call.event = "none" => calls' = <<>>
           /\ Call.on # "input" => (OnInput' <=> OnInput)
           /\ calls' = <<>> => ~OnInput'
<1>1. /\ calls \in Seq(Calls) /\ Len(calls) \in Nat \ {0} /\ Call = calls[1]
      /\ DOMAIN calls = 1 .. Len(calls)
      /\ ACall(Call, 1, Len(calls), setup.own, open)
      /\ Tail(calls) \in Seq(Calls) /\ Len(Tail(calls)) = Len(calls) - 1
      /\ DOMAIN Tail(calls) = 1 .. Len(calls) - 1
      /\ \A i \in DOMAIN Tail(calls) : Tail(calls)[i] = calls[i + 1] /\ i + 1 \in DOMAIN calls
  BY OneCall
<1>2. ASSUME Call.event = "none" PROVE calls' = <<>>
  <2>1. 1 = Len(calls)
    BY <1>1, <1>2 DEF ACall
  <2>2. Len(Tail(calls)) = 0
    BY <1>1, <2>1
  <2> QED
    BY <1>1, <2>2, EmptySeq
<1>3. Call.on = "input" => Call.event = "none"
  BY <1>1 DEF ACall
<1>4. ASSUME Call.on # "input" PROVE OnInput' <=> OnInput
  <2>1. ASSUME OnInput PROVE OnInput'
    <3>1. PICK i \in DOMAIN calls : calls[i].on = "input"
      BY <2>1 DEF OnInput
    <3>2. i # 1
      BY <1>1, <1>4, <3>1
    <3>3. PICK j : j = i - 1
      OBVIOUS
    <3>4. j \in DOMAIN Tail(calls) /\ j + 1 = i
      BY <1>1, <3>2, <3>3
    <3>5. Tail(calls)[j].on = "input"
      BY <1>1, <3>1, <3>4
    <3> QED
      BY <3>4, <3>5 DEF OnInput
  <2>2. ASSUME OnInput' PROVE OnInput
    <3>1. PICK i \in DOMAIN Tail(calls) : Tail(calls)[i].on = "input"
      BY <2>2 DEF OnInput
    <3> QED
      BY <1>1, <3>1 DEF OnInput
  <2> QED
    BY <2>1, <2>2
<1>5. calls' = <<>> => ~OnInput'
  BY DEF OnInput
<1> QED
  BY <1>2, <1>3, <1>4, <1>5

LEMMA TailCalls ==
    ASSUME TypeOK, CallsInv, calls # <<>>, calls' = Tail(calls),
           UNCHANGED <<setup, made, open>>
    PROVE  CallsInv'
<1>1. /\ Len(calls) \in Nat \ {0}
      /\ Tail(calls) \in Seq(Calls) /\ Len(Tail(calls)) = Len(calls) - 1
      /\ DOMAIN Tail(calls) = 1 .. Len(calls) - 1
      /\ \A i \in DOMAIN Tail(calls) : Tail(calls)[i] = calls[i + 1] /\ i + 1 \in DOMAIN calls
  BY OneCall
<1>2. ASSUME NEW i \in DOMAIN Tail(calls)
      PROVE  ACall(Tail(calls)[i], i, Len(Tail(calls)), setup.own, open)
  <2>1. ACall(calls[i + 1], i + 1, Len(calls), setup.own, open)
    BY <1>1 DEF CallsInv
  <2>2. i + 1 = Len(calls) => i = Len(Tail(calls))
    BY <1>1
  <2>3. Tail(calls)[i] = calls[i + 1]
    BY <1>1
  <2> QED
    BY <2>1, <2>2, <2>3 DEF ACall
<1>3. setup'.own = setup.own /\ open' = open /\ made' = made
  OBVIOUS
<1> QED
  BY <1>2, <1>3 DEF CallsInv

(***************************************************************************)
(* How the fixed length and the delimiters decide, whatever the bytes are. *)
(***************************************************************************)
Nothing(out) ==
    out.ends = "none" /\ ~out.fails /\ out.discard = discard

(* b has been given to decode: a frame without a trace is the last one of   *)
(* its buffer, and without any progress there is not too much to read.      *)
Decides(b, out) ==
    /\ out.ends \in {"none", "frame"} /\ IsBuffer(out.buffer)
    /\ out.ends = "frame" /\ out.buffer.reader = b.reader =>
          out.buffer = Empty /\ codec.kind = "delimiter" /\ ~codec.strip
    /\ out.ends = "none" /\ out.buffer.reader = b.reader /\ readableBytes(b) > 0 =>
          out = NoFrame(b) /\ readableBytes(b) <= Limit
    /\ readableBytes(b) = 0 => Nothing(out)

LEMMA FixedDecides ==
    ASSUME setup \in Setups, discard \in Discards, codec.kind = "fixed", NEW b, IsBuffer(b)
    PROVE  Decides(b, FixedLength(b))
<1>0. codec.length \in Nat \ {0} /\ Limit = codec.length
  BY FixedSetup
<1>1. readableBytes(b) \in Nat /\ b.reader \in Nat
  BY Readable
<1>2. CASE readableBytes(b) < codec.length
  <2>1. FixedLength(b) = NoFrame(b)
    BY <1>2 DEF FixedLength
  <2>2. NoFrame(b).buffer = b /\ NoFrame(b).ends = "none" /\ Nothing(NoFrame(b))
    BY DEF NoFrame, Outcome, Nothing
  <2> QED
    BY <1>0, <1>1, <1>2, <2>1, <2>2 DEF Decides
<1>3. CASE ~(readableBytes(b) < codec.length)
  <2>1. PICK c, f : c = skipBytes(b, codec.length) /\ f = Bytes(b, codec.length)
    OBVIOUS
  <2>2. FixedLength(b) = Frame(c, f)
    BY <1>3, <2>1 DEF FixedLength
  <2>3. codec.length \in 0 .. readableBytes(b)
    BY <1>0, <1>1, <1>3
  <2>4. IsBuffer(c) /\ c.reader = b.reader + codec.length
    BY <2>1, <2>3, SkipBuffer
  <2>5. c.reader # b.reader /\ readableBytes(b) # 0
    BY <1>0, <1>1, <1>3, <2>4
  <2>6. Frame(c, f).buffer = c /\ Frame(c, f).ends = "frame"
    BY DEF Frame, Outcome
  <2> QED
    BY <2>2, <2>4, <2>5, <2>6 DEF Decides
<1> QED
  BY <1>2, <1>3

LEMMA DelimiterDecides ==
    ASSUME setup \in Setups, discard \in Discards, codec.kind = "delimiter", NEW b, IsBuffer(b)
    PROVE  Decides(b, Delimiter(b))
<1>0. codec.max \in Nat /\ Limit = codec.max /\ codec.strip \in BOOLEAN
  BY DelimiterSetup
<1>1. readableBytes(b) \in Nat /\ b.reader \in Nat /\ readableBytes(b) \in 0 .. readableBytes(b)
  BY Readable
<1>2. CASE Hits(b) = {} /\ (discard.on \/ readableBytes(b) > codec.max)
  <2>1. PICK c, d : c = skipBytes(b, readableBytes(b)) /\ d = [discard EXCEPT !.on = TRUE]
    OBVIOUS
  <2>2. Delimiter(b) = Outcome(c, d, FALSE, "none", <<>>)
    BY <1>2, <2>1, DelimiterIs DEF NoDelimiter
  <2>3. IsBuffer(c) /\ c.reader = b.reader + readableBytes(b)
    BY <1>1, <2>1, SkipBuffer
  <2>4. readableBytes(b) > 0 => c.reader # b.reader
    BY <1>1, <2>3
  <2>5. readableBytes(b) = 0 => discard.on
    BY <1>0, <1>2
  <2>6. discard.on => d = discard
    BY <2>1 DEF Discards
  <2>7. PICK out : out = Outcome(c, d, FALSE, "none", <<>>)
    OBVIOUS
  <2>8. out.buffer = c /\ out.discard = d /\ out.fails = FALSE /\ out.ends = "none"
    BY <2>7 DEF Outcome
  <2>9. readableBytes(b) = 0 => Nothing(out)
    BY <2>5, <2>6, <2>8 DEF Nothing
  <2> QED
    BY <2>2, <2>3, <2>4, <2>7, <2>8, <2>9 DEF Decides
<1>3. CASE Hits(b) = {} /\ ~(discard.on \/ readableBytes(b) > codec.max)
  <2>1. Delimiter(b) = NoFrame(b)
    BY <1>3, DelimiterIs DEF NoDelimiter
  <2>2. NoFrame(b).buffer = b /\ NoFrame(b).ends = "none" /\ Nothing(NoFrame(b))
    BY DEF NoFrame, Outcome, Nothing
  <2> QED
    BY <1>0, <1>1, <1>3, <2>1, <2>2 DEF Decides
<1>4. ASSUME Hits(b) # {}
      PROVE  /\ Total(b) \in 0 .. readableBytes(b) /\ Total(b) > 0 /\ Total(b) \in Nat
             /\ IsBuffer(skipBytes(b, Total(b))) /\ skipBytes(b, Total(b)).reader # b.reader
             /\ IsBuffer(AfterReadBytes(b, Total(b)))
             /\ AfterReadBytes(b, Total(b)).reader = b.reader => AfterReadBytes(b, Total(b)) = Empty
             /\ readableBytes(b) # 0
  <2>1. Total(b) \in 1 .. readableBytes(b)
    BY <1>4, HitFacts
  <2>2. Total(b) \in 0 .. readableBytes(b) /\ Total(b) > 0 /\ Total(b) \in Nat /\ readableBytes(b) # 0
    BY <1>1, <2>1
  <2>3. PICK n \in Nat : n = Total(b)
    BY <2>2
  <2>4. n \in 0 .. readableBytes(b) /\ n > 0
    BY <2>2, <2>3
  <2>5. IsBuffer(skipBytes(b, n)) /\ skipBytes(b, n).reader = b.reader + n
    BY <2>4, SkipBuffer
  <2>6. skipBytes(b, n).reader # b.reader
    BY <1>1, <2>4, <2>5
  <2>7. IsBuffer(AfterReadBytes(b, n))
    BY <2>4, AfterReadBuffer
  <2>8. AfterReadBytes(b, n) = Empty \/ AfterReadBytes(b, n) = skipBytes(b, n)
    BY DEF AfterReadBytes
  <2> QED
    BY <2>2, <2>3, <2>5, <2>6, <2>7, <2>8
<1>5. CASE Hits(b) # {} /\ (discard.on \/ Hit(b)[1] > codec.max)
  <2>1. PICK c, d : c = skipBytes(b, Total(b)) /\ d = [discard EXCEPT !.on = FALSE]
    OBVIOUS
  <2>2. Delimiter(b) = Outcome(c, d, TRUE, "none", <<>>)
    BY <1>5, <2>1, DelimiterIs
  <2>3. IsBuffer(c) /\ c.reader # b.reader /\ readableBytes(b) # 0
    BY <1>4, <1>5, <2>1
  <2>4. PICK out : out = Outcome(c, d, TRUE, "none", <<>>)
    OBVIOUS
  <2>5. out.buffer = c /\ out.ends = "none"
    BY <2>4 DEF Outcome
  <2> QED
    BY <2>2, <2>3, <2>4, <2>5 DEF Decides
<1>6. CASE Hits(b) # {} /\ ~(discard.on \/ Hit(b)[1] > codec.max)
  <2>1. PICK c, f : /\ c = IF codec.strip THEN skipBytes(b, Total(b)) ELSE AfterReadBytes(b, Total(b))
                    /\ f = Bytes(b, IF codec.strip THEN Hit(b)[1] ELSE Total(b))
    OBVIOUS
  <2>2. Delimiter(b) = Frame(c, f)
    BY <1>6, <2>1, DelimiterIs
  <2>3. IsBuffer(c) /\ (c.reader = b.reader => c = Empty /\ ~codec.strip) /\ readableBytes(b) # 0
    BY <1>4, <1>6, <2>1
  <2>4. Frame(c, f).buffer = c /\ Frame(c, f).ends = "frame"
    BY DEF Frame, Outcome
  <2> QED
    BY <2>2, <2>3, <2>4 DEF Decides
<1> QED
  BY <1>2, <1>3, <1>5, <1>6

LEMMA DecodeDecides ==
    ASSUME setup \in Setups, discard \in Discards, codec.kind # "length", NEW b, IsBuffer(b)
    PROVE  Decides(b, decode(b))
<1>1. codec.kind \in {"fixed", "length", "delimiter"}
  <2>1. codec \in Codecs
    BY FrameAssumption DEF codec
  <2> QED
    BY <2>1 DEF Codecs
<1>2. CASE codec.kind = "fixed"
  BY <1>2, FixedDecides DEF decode
<1>3. CASE codec.kind = "delimiter"
  BY <1>3, DelimiterDecides DEF decode
<1> QED
  BY <1>1, <1>2, <1>3

(***************************************************************************)
(* What is kept between two messages is bounded.                           *)
(***************************************************************************)
Small(i, c) == readableBytes(i) <= Limit /\ readableBytes(c) <= Limit

BoundInv == TypeOK /\ CallsInv /\ PlaceInv /\ BufferBounded

LEMMA LimitType ==
    ASSUME setup \in Setups, codec.kind # "length"
    PROVE  Limit \in Nat /\ codec.kind \in {"fixed", "delimiter"}
<1>1. codec.kind \in {"fixed", "length", "delimiter"}
  <2>1. codec \in Codecs
    BY FrameAssumption DEF codec
  <2> QED
    BY <2>1 DEF Codecs
<1>2. codec.kind \in {"fixed", "delimiter"}
  BY <1>1
<1> QED
  BY <1>2, FixedSetup, DelimiterSetup

LEMMA BoundWhen ==
    ASSUME setup' = setup,
           ASSUME codec.kind # "length", ~fault'
           PROVE  Apart(input', cumulation', OnInput')
                  /\ (calls' = <<>> => Small(input', cumulation'))
    PROVE  PlaceInv' /\ BufferBounded'
<1>1. codec' = codec /\ Limit' = Limit /\ setup'.own = setup.own
  BY DEF codec, Limit
<1> QED
  BY <1>1 DEF PlaceInv, BufferBounded, AtRest, Apart, Small

LEMMA Rests ==
    ASSUME TypeOK, CallsInv, PlaceInv, ~fault, codec.kind # "length", calls # <<>>
    PROVE  /\ Call.on = "input" => readableBytes(cumulation) = 0 /\ OnInput
           /\ Call.on # "input" => /\ ~setup.own /\ Buffer = cumulation
                                   /\ ~OnInput => readableBytes(input) = 0
                                   /\ OnInput => readableBytes(cumulation) = 0
           /\ Call.on = "input" => Buffer = input
<1>1. Apart(input, cumulation, OnInput)
  BY DEF PlaceInv
<1>2. Call = calls[1] /\ 1 \in DOMAIN calls /\ ACall(Call, 1, Len(calls), setup.own, open)
  BY OneCall
<1>3. Call.on = "input" => OnInput
  BY <1>2 DEF OnInput
<1>4. Call.on # "input" => ~setup.own
  BY <1>2 DEF ACall
<1>5. setup.own \in BOOLEAN
  BY FrameAssumption DEF TypeOK
<1> QED
  BY <1>1, <1>3, <1>4, <1>5 DEF Apart, Buffer

LEMMA ReceiveBound ==
    ASSUME BoundInv, NEW n \in 1 .. Len(setup.stream), Receive(n)
    PROVE  CallsInv' /\ PlaceInv' /\ BufferBounded'
<1>0. TypeOK /\ CallsInv /\ PlaceInv
  BY DEF BoundInv
<1>1. /\ open /\ calls = <<>> /\ ~fault /\ setup' = setup /\ open' = open
      /\ ReceiveOwn(n) \/ ReceivePiece(n)
  BY DEF Receive
<1>2. PICK c : /\ calls' = <<c>> /\ c.event = "none"
               /\ \/ ReceiveOwn(n) /\ c.on = "input"
                  \/ ReceivePiece(n) /\ c.on = "input" /\ readableBytes(cumulation) = 0
                     /\ cumulation' = cumulation
                  \/ ReceivePiece(n) /\ c.on = "cumulation" /\ input' = input
  BY <1>1 DEF ReceiveOwn, ReceivePiece
<1>3. DOMAIN calls' = {1} /\ calls'[1] = c /\ Len(calls') = 1 /\ calls' # <<>>
  BY <1>2
<1>4. /\ ReceiveOwn(n) => setup.own /\ made' = made /\ cumulation' = cumulation
      /\ ReceivePiece(n) => ~setup.own
  BY DEF ReceiveOwn, ReceivePiece
<1>5. ACall(c, 1, 1, setup.own, open)
  BY <1>1, <1>2, <1>4 DEF ACall
<1>6. CallsInv'
  <2>1. setup'.own => ~made'
    BY <1>0, <1>1, <1>2, <1>4 DEF CallsInv
  <2> QED
    BY <1>1, <1>3, <1>5, <2>1 DEF CallsInv
<1>7. OnInput' <=> c.on = "input"
  BY <1>3 DEF OnInput
<1>8. ~OnInput
  BY <1>1 DEF OnInput
<1>9. ASSUME codec.kind # "length" PROVE Apart(input', cumulation', OnInput')
  <2>1. Apart(input, cumulation, OnInput)
    BY <1>0, <1>1, <1>9 DEF PlaceInv
  <2> QED
    BY <1>2, <1>4, <1>7, <1>8, <2>1 DEF Apart
<1> QED
  BY <1>1, <1>3, <1>6, <1>9, BoundWhen

LEMMA IterateBound ==
    ASSUME BoundInv, Iterate
    PROVE  CallsInv' /\ PlaceInv' /\ BufferBounded'
<1>0. TypeOK /\ CallsInv /\ PlaceInv
  BY DEF BoundInv
<1>1. ~fault /\ calls # <<>> /\ readableBytes(Buffer) > 0
  BY DEF Iterate
<1>2. PICK out : out = decode(Buffer)
  OBVIOUS
<1>3. Becomes(out.buffer) /\ UNCHANGED <<setup, arrived, made, calls, lost, open, passed>>
  BY <1>2 DEF Iterate
<1>4. CallsInv' /\ (OnInput' <=> OnInput)
  BY <1>0, <1>3 DEF CallsInv, OnInput
<1>5. ASSUME codec.kind # "length" PROVE Apart(input', cumulation', OnInput')
  <2>1. /\ Apart(input, cumulation, OnInput)
    BY <1>0, <1>1, <1>5 DEF PlaceInv
  <2>2. /\ Call.on = "input" => readableBytes(cumulation) = 0 /\ OnInput
        /\ Call.on # "input" => /\ ~setup.own /\ Buffer = cumulation
                                /\ OnInput => readableBytes(cumulation) = 0
    BY <1>0, <1>1, <1>5, Rests
  <2>3. CASE Call.on = "input"
    <3>1. cumulation' = cumulation
      BY <1>3, <2>3 DEF Becomes
    <3> QED
      BY <1>4, <2>1, <2>2, <2>3, <3>1 DEF Apart
  <2>4. CASE Call.on # "input"
    <3>1. input' = input
      BY <1>3, <2>4 DEF Becomes
    <3>2. ~OnInput
      BY <1>1, <2>2, <2>4
    <3> QED
      BY <1>4, <2>1, <2>2, <2>4, <3>1, <3>2 DEF Apart
  <2> QED
    BY <2>3, <2>4
<1> QED
  BY <1>1, <1>3, <1>4, <1>5, BoundWhen

LEMMA ThrowBound ==
    ASSUME BoundInv, Throw
    PROVE  CallsInv' /\ PlaceInv' /\ BufferBounded'
<1>0. TypeOK /\ CallsInv /\ PlaceInv
  BY DEF BoundInv
<1>1. ~fault /\ calls # <<>> /\ readableBytes(Buffer) > 0
  BY DEF Throw
<1>2. PICK out : out = decode(Buffer)
  OBVIOUS
<1>3. /\ out.ends = "throw" \/ (out.ends = "frame" /\ ~CanContinue(out))
      /\ Becomes(out.buffer) /\ calls' = Tail(calls)
      /\ UNCHANGED <<setup, arrived, made, discard, reports, open, fault>>
  BY <1>2 DEF Throw
<1>4. CallsInv'
  BY <1>0, <1>1, <1>3, TailCalls
<1>5. ASSUME codec.kind # "length"
      PROVE  Apart(input', cumulation', OnInput') /\ (calls' = <<>> => Small(input', cumulation'))
  <2>0. setup \in Setups /\ Limit \in Nat
    BY <1>0, <1>5, LimitType DEF TypeOK
  <2>1. Decides(Buffer, out)
    BY <1>0, <1>1, <1>2, <1>5, <2>0, DecodeDecides, Running
  <2>2. out.ends = "frame" /\ out.buffer.reader = Buffer.reader
    BY <1>3, <2>1 DEF Decides, CanContinue
  <2>3. out.buffer = Empty /\ readableBytes(Empty) = 0
    BY <2>1, <2>2, EmptyBuffer DEF Decides
  <2>4. /\ Call.on = "input" => readableBytes(cumulation) = 0 /\ OnInput
        /\ Call.on # "input" => /\ ~setup.own /\ Buffer = cumulation
                                /\ ~OnInput => readableBytes(input) = 0
                                /\ OnInput => readableBytes(cumulation) = 0
    BY <1>0, <1>1, <1>5, Rests
  <2>5. CASE Call.on = "input"
    <3>1. cumulation' = cumulation /\ input' = Empty
      BY <1>3, <2>3, <2>5 DEF Becomes
    <3> QED
      BY <2>0, <2>3, <2>4, <2>5, <3>1 DEF Apart, Small
  <2>6. CASE Call.on # "input"
    <3>1. cumulation' = Empty /\ input' = input
      BY <1>3, <2>3, <2>6 DEF Becomes
    <3>2. ~OnInput /\ readableBytes(input) = 0
      BY <1>1, <2>4, <2>6
    <3> QED
      BY <2>0, <2>3, <2>4, <2>6, <3>1, <3>2 DEF Apart, Small
  <2> QED
    BY <2>5, <2>6
<1> QED
  BY <1>3, <1>4, <1>5, BoundWhen

LEMMA ReturnToMessageBound ==
    ASSUME BoundInv, ReturnToMessage
    PROVE  CallsInv' /\ PlaceInv' /\ BufferBounded'
<1>0. TypeOK /\ CallsInv /\ PlaceInv
  BY DEF BoundInv
<1>1. ~fault /\ calls # <<>> /\ Call.event = "none"
  BY DEF ReturnToMessage
<1>2. PICK out : out = decode(Buffer)
  OBVIOUS
<1>3. /\ LoopEnds(out)
      /\ IF Call.on = "input" THEN KeepRest(Buffer) ELSE UNCHANGED <<input, cumulation>>
      /\ calls' = Tail(calls)
      /\ UNCHANGED <<setup, arrived, made, lost, open, passed, fault>>
  BY <1>2 DEF ReturnToMessage
<1>4. CallsInv'
  BY <1>0, <1>1, <1>3, TailCalls
<1>5. calls' = <<>> /\ ~OnInput' /\ (Call.on # "input" => (OnInput' <=> OnInput))
  BY <1>0, <1>1, <1>3, TailInput
<1>6. ASSUME codec.kind # "length"
      PROVE  Apart(input', cumulation', OnInput') /\ Small(input', cumulation')
  <2>0. setup \in Setups /\ Limit \in Nat
    BY <1>0, <1>6, LimitType DEF TypeOK
  <2>1. Decides(Buffer, out) /\ IsBuffer(Buffer) /\ IsBuffer(cumulation)
    BY <1>0, <1>1, <1>2, <1>6, <2>0, DecodeDecides, Running
  <2>2. readableBytes(Buffer) \in Nat /\ readableBytes(Buffer) <= Limit
    <3>1. readableBytes(Buffer) \in Nat
      BY <2>1, Readable
    <3>2. CASE readableBytes(Buffer) = 0
      BY <2>0, <3>2
    <3>3. CASE readableBytes(Buffer) # 0
      <4>1. out.ends = "none" /\ out.buffer.reader = Buffer.reader
        BY <1>3, <3>3 DEF LoopEnds, CanContinue
      <4>2. readableBytes(Buffer) > 0
        BY <3>1, <3>3
      <4> QED
        BY <2>1, <3>1, <4>1, <4>2 DEF Decides
    <3> QED
      BY <3>2, <3>3
  <2>3. /\ Call.on = "input" => readableBytes(cumulation) = 0 /\ OnInput /\ Buffer = input
        /\ Call.on # "input" => /\ ~setup.own /\ Buffer = cumulation
                                /\ ~OnInput => readableBytes(input) = 0
    BY <1>0, <1>1, <1>6, Rests
  <2>4. CASE Call.on = "input" /\ setup.own
    <3>1. input' = discardReadBytes(Buffer) /\ cumulation' = cumulation
      BY <1>3, <2>4 DEF KeepRest
    <3>2. readableBytes(input') = readableBytes(Buffer)
      BY <2>1, <3>1, Compacted
    <3> QED
      BY <2>0, <2>2, <2>3, <2>4, <3>1, <3>2 DEF Apart, Small
  <2>5. CASE Call.on = "input" /\ ~setup.own
    <3>1. PICK s : s = Bytes(Buffer, readableBytes(Buffer))
      OBVIOUS
    <3>2. input' = Empty /\ cumulation' = writeBytes(cumulation, s)
      BY <1>3, <2>5, <3>1 DEF KeepRest
    <3>3. readableBytes(Buffer) \in 0 .. readableBytes(Buffer)
      BY <2>2
    <3>4. s \in Seq(0 .. 255) /\ Len(s) = readableBytes(Buffer)
      BY <2>1, <3>1, <3>3, BytesOf
    <3>5. readableBytes(writeBytes(cumulation, s)) = readableBytes(cumulation) + Len(s)
      BY <2>1, <3>4, Written
    <3>6. readableBytes(cumulation') = readableBytes(Buffer)
      BY <2>2, <2>3, <2>5, <3>2, <3>4, <3>5
    <3>7. readableBytes(input') = 0
      BY <3>2, EmptyBuffer
    <3> QED
      BY <1>5, <2>0, <2>2, <2>5, <3>6, <3>7 DEF Apart, Small
  <2>6. CASE Call.on # "input"
    <3>1. input' = input /\ cumulation' = cumulation
      BY <1>3, <2>6
    <3> QED
      BY <1>5, <2>0, <2>2, <2>3, <2>6, <3>1 DEF Apart, Small
  <2> QED
    BY <2>4, <2>5, <2>6
<1> QED
  BY <1>3, <1>4, <1>6, BoundWhen

LEMMA ReturnToCleanupBound ==
    ASSUME BoundInv, ReturnToCleanup
    PROVE  CallsInv' /\ PlaceInv' /\ BufferBounded'
<1>0. TypeOK /\ CallsInv /\ PlaceInv
  BY DEF BoundInv
<1>1. /\ ~fault /\ calls # <<>> /\ Call.event # "none"
      /\ cumulation' = Empty /\ calls' = Tail(calls)
      /\ UNCHANGED <<setup, arrived, input, made, lost, open, passed, fault>>
  BY DEF ReturnToCleanup
<1>2. CallsInv'
  BY <1>0, <1>1, TailCalls
<1>3. Call.on # "input"
  <2>1. ACall(Call, 1, Len(calls), setup.own, open)
    BY <1>0, <1>1, OneCall
  <2> QED
    BY <1>1, <2>1 DEF ACall
<1>4. (OnInput' <=> OnInput) /\ (calls' = <<>> => ~OnInput')
  BY <1>0, <1>1, <1>3, TailInput
<1>5. ASSUME codec.kind # "length"
      PROVE  Apart(input', cumulation', OnInput') /\ (calls' = <<>> => Small(input', cumulation'))
  <2>0. Limit \in Nat
    BY <1>0, <1>5, LimitType DEF TypeOK
  <2>1. ~setup.own /\ (~OnInput => readableBytes(input) = 0)
    BY <1>0, <1>1, <1>3, <1>5, Rests
  <2>2. readableBytes(cumulation') = 0
    BY <1>1, EmptyBuffer
  <2> QED
    BY <1>1, <1>4, <2>0, <2>1, <2>2 DEF Apart, Small
<1> QED
  BY <1>1, <1>2, <1>5, BoundWhen

LEMMA CloseCalls ==
    ASSUME TypeOK, CallsInv, Close
    PROVE  CallsInv' /\ (OnInput' <=> OnInput) /\ (calls' = <<>> => calls = <<>>)
<1>1. /\ open' = FALSE /\ setup' = setup /\ made' = made
      /\ calls' = IF ~made THEN calls ELSE Cleanups \o calls
  BY DEF Close, Cleanups, buffers
<1>2. calls \in Seq(Calls) /\ Len(calls) \in Nat /\ DOMAIN calls = 1 .. Len(calls)
  BY LenProperties DEF TypeOK
<1>3. CASE ~made
  <2>1. calls' = calls
    BY <1>1, <1>3
  <2> QED
    BY <1>1, <2>1 DEF CallsInv, ACall, OnInput
<1>4. CASE made
  <2>1. calls' = Cleanups \o calls /\ Cleanups \in Seq(Calls) /\ Len(Cleanups) = 2
    BY <1>1, <1>4, CleanupsType
  <2>2. /\ Len(calls') = Len(calls) + 2 /\ calls' \in Seq(Calls)
        /\ \A i \in 1 .. Len(Cleanups) + Len(calls) :
              calls'[i] = IF i <= Len(Cleanups) THEN Cleanups[i] ELSE calls[i - Len(Cleanups)]
    BY <1>2, <2>1, ConcatProperties
  <2>3. DOMAIN calls' = 1 .. Len(calls) + 2
    BY <2>2, LenProperties
  <2>4. \A i \in {1, 2} : Cleanups[i].on = "cumulation" /\ Cleanups[i].event # "none"
    BY DEF Cleanups
  <2>5. \A i \in 1 .. Len(calls) + 2 :
           \/ i \in {1, 2} /\ calls'[i] = Cleanups[i]
           \/ i - 2 \in DOMAIN calls /\ calls'[i] = calls[i - 2]
    BY <1>2, <2>1, <2>2
  <2>6. ~setup.own
    BY <1>4 DEF CallsInv
  <2>7. ASSUME NEW i \in 1 .. Len(calls) + 2
        PROVE  ACall(calls'[i], i, Len(calls) + 2, setup.own, FALSE)
    <3>1. CASE i \in {1, 2} /\ calls'[i] = Cleanups[i]
      BY <2>4, <2>6, <3>1 DEF ACall
    <3>2. CASE i - 2 \in DOMAIN calls /\ calls'[i] = calls[i - 2]
      <4>1. ACall(calls[i - 2], i - 2, Len(calls), setup.own, open)
        BY <3>2 DEF CallsInv
      <4>2. i - 2 = Len(calls) => i = Len(calls) + 2
        BY <1>2
      <4> QED
        BY <2>6, <3>2, <4>1, <4>2 DEF ACall
    <3> QED
      BY <2>5, <3>1, <3>2
  <2>8. CallsInv'
    BY <1>1, <2>2, <2>3, <2>6, <2>7 DEF CallsInv
  <2>9. OnInput' <=> OnInput
    <3>1. ASSUME OnInput' PROVE OnInput
      <4>1. PICK i \in 1 .. Len(calls) + 2 : calls'[i].on = "input"
        BY <2>3, <3>1 DEF OnInput
      <4>2. i - 2 \in DOMAIN calls /\ calls'[i] = calls[i - 2]
        BY <2>4, <2>5, <4>1
      <4> QED
        BY <4>1, <4>2 DEF OnInput
    <3>2. ASSUME OnInput PROVE OnInput'
      <4>1. PICK j \in DOMAIN calls : calls[j].on = "input"
        BY <3>2 DEF OnInput
      <4>2. PICK i : i = j + 2
        OBVIOUS
      <4>3. i \in 1 .. Len(calls) + 2 /\ i - 2 = j /\ i \notin {1, 2}
        BY <1>2, <4>2
      <4>4. calls'[i] = calls[j]
        BY <2>5, <4>3
      <4> QED
        BY <2>3, <4>1, <4>3, <4>4 DEF OnInput
    <3> QED
      BY <3>1, <3>2
  <2>10. calls' # <<>>
    <3>1. Len(calls') # 0
      BY <1>2, <2>2
    <3> QED
      BY <2>2, <3>1, EmptySeq
  <2> QED
    BY <2>8, <2>9, <2>10
<1> QED
  BY <1>3, <1>4

LEMMA CloseBound ==
    ASSUME BoundInv, Close
    PROVE  CallsInv' /\ PlaceInv' /\ BufferBounded'
<1>0. TypeOK /\ CallsInv /\ PlaceInv /\ BufferBounded
  BY DEF BoundInv
<1>1. ~fault /\ setup' = setup /\ input' = input /\ cumulation' = cumulation /\ fault' = fault
  BY DEF Close, buffers
<1>2. CallsInv' /\ (OnInput' <=> OnInput) /\ (calls' = <<>> => calls = <<>>)
  BY <1>0, CloseCalls
<1>3. ASSUME codec.kind # "length"
      PROVE  Apart(input', cumulation', OnInput') /\ (calls' = <<>> => Small(input', cumulation'))
  <2>1. Apart(input, cumulation, OnInput) /\ (calls = <<>> => Small(input, cumulation))
    BY <1>0, <1>1, <1>3 DEF PlaceInv, BufferBounded, AtRest, Small
  <2> QED
    BY <1>1, <1>2, <2>1 DEF Apart, Small
<1> QED
  BY <1>1, <1>2, <1>3, BoundWhen

LEMMA BoundInit ==
    ASSUME Init
    PROVE  BoundInv
<1>1. TypeOK
  BY TypeInit
<1>2. setup \in Setups /\ calls = <<>> /\ made = FALSE /\ input = Empty /\ cumulation = Empty
  BY DEF Init
<1>3. CallsInv /\ ~OnInput
  BY <1>2 DEF CallsInv, OnInput
<1>4. PlaceInv
  BY <1>2, <1>3, EmptyBuffer DEF PlaceInv, Apart
<1>5. ASSUME codec.kind # "length" PROVE readableBytes(input) <= Limit /\ readableBytes(cumulation) <= Limit
  <2>1. Limit \in Nat
    BY <1>2, <1>5, LimitType
  <2> QED
    BY <1>2, <2>1, EmptyBuffer
<1> QED
  BY <1>1, <1>3, <1>4, <1>5 DEF BoundInv, BufferBounded

LEMMA BoundStep ==
    ASSUME BoundInv, [Next]_vars
    PROVE  BoundInv'
<1>1. TypeOK'
  BY TypeStep DEF BoundInv
<1>2. CallsInv' /\ PlaceInv' /\ BufferBounded'
  <2>1. CASE UNCHANGED vars
    BY <2>1 DEF BoundInv, CallsInv, PlaceInv, Apart, OnInput, BufferBounded, AtRest, Limit, codec,
                vars, buffers, upstream
  <2>2. CASE Next
    BY <2>2, ReceiveBound, IterateBound, ThrowBound, ReturnToMessageBound, ReturnToCleanupBound,
       CloseBound DEF Next
  <2> QED
    BY <2>1, <2>2
<1> QED
  BY <1>1, <1>2 DEF BoundInv

LEMMA BoundCorrect == Spec => []BoundInv
<1>1. Init => BoundInv
  BY BoundInit
<1>2. BoundInv /\ [Next]_vars => BoundInv'
  BY BoundStep
<1> QED
  BY <1>1, <1>2, PTL DEF Spec

(* Between two messages neither buffer holds more unread bytes than the     *)
(* longest frame has, with the fixed length and the delimiters: callDecode  *)
(* goes on until decode neither takes nor discards anything.                *)
THEOREM BuffersBounded == Spec => []BufferBounded
<1>1. BoundInv => BufferBounded
  BY DEF BoundInv
<1> QED
  BY <1>1, BoundCorrect, PTL

(***************************************************************************)
(* The division of the text.                                               *)
(***************************************************************************)
Results == [frames : Seq(Seq(0 .. 255)), long : Nat]
NoResult == [frames |-> <<>>, long |-> 0]

(* p is a piece after byte `from` within the first n bytes. *)
Proper(p, from, n) ==
    /\ p.next \in from + 1 .. n /\ p.size \in Nat
    /\ p.first = from + 1 /\ p.last \in from .. p.next

LEMMA StreamType ==
    ASSUME setup \in Setups
    PROVE  /\ setup.stream \in Seq(0 .. 255) /\ Len(setup.stream) \in Nat
           /\ \A i \in 1 .. Len(setup.stream) : setup.stream[i] \in 0 .. 255
<1>1. setup.stream \in Seq(0 .. 255)
  BY FrameAssumption
<1> QED
  BY <1>1, LenProperties

LEMMA PieceOfIs ==
    ASSUME NEW first, NEW last, NEW size, NEW next
    PROVE  /\ PieceOf(first, last, size, next).first = first
           /\ PieceOf(first, last, size, next).last = last
           /\ PieceOf(first, last, size, next).size = size
           /\ PieceOf(first, last, size, next).next = next
BY DEF PieceOf

(* The piece that ends with the delimiter m: its place and its length. *)
Delimited(from, m) ==
    PieceOf(from + 1, IF codec.strip THEN m[1] ELSE m[1] + m[2], m[1] - from, m[1] + m[2])
Earliest(ms) == {m \in ms : \A o \in ms : m[1] < o[1] \/ m = o}

LEMMA DelimitedPiecesAre ==
    ASSUME NEW from, NEW n
    PROVE  DelimitedPieces(from, n) = {Delimited(from, m) : m \in Earliest(Matches(from, n))}
BY DEF DelimitedPieces, Delimited, Earliest

LEMMA MatchesAre ==
    ASSUME setup \in Setups, codec.kind = "delimiter", NEW from \in Nat, NEW n \in Nat, NEW m
    PROVE  m \in Matches(from, n) <=>
             \E k \in DOMAIN codec.delimiters : \E j \in from .. n - Len(codec.delimiters[k]) :
                /\ m = <<j, Len(codec.delimiters[k])>>
                /\ SubSeq(setup.stream, j + 1, j + Len(codec.delimiters[k])) = codec.delimiters[k]
<1> DEFINE D == codec.delimiters
           J(d) == {j \in from .. n - Len(d) : SubSeq(setup.stream, j + 1, j + Len(d)) = d}
           M(d) == {<<j, Len(d)>> : j \in J(d)}
<1>1. Matches(from, n) = UNION {M(d) : d \in Range(D)}
  BY DEF Matches
<1>2. Range(D) = {D[k] : k \in DOMAIN D}
  BY DEF Range
<1>3. m \in Matches(from, n) <=> \E k \in DOMAIN D : m \in M(D[k])
  <2> HIDE DEF M, D
  <2> QED
    BY <1>1, <1>2
<1>4. \A d : m \in M(d) <=> \E j \in J(d) : m = <<j, Len(d)>>
  <2> HIDE DEF J
  <2> QED
    OBVIOUS
<1> HIDE DEF M
<1> QED
  BY <1>3, <1>4

LEMMA PiecesProper ==
    ASSUME setup \in Setups, codec.kind # "length", NEW from \in Nat, NEW n \in Nat,
           NEW p \in PiecesAfter(from, n)
    PROVE  Proper(p, from, n)
<1>0. codec.kind \in {"fixed", "delimiter"} /\ p.next <= n
  BY LimitType DEF PiecesAfter
<1>1. CASE codec.kind = "fixed"
  <2>1. codec.length \in Nat \ {0}
    BY <1>1, FixedSetup
  <2>2. p = PieceOf(from + 1, from + codec.length, codec.length, from + codec.length)
    BY <1>1 DEF PiecesAfter, FixedPieces
  <2>3. /\ p.first = from + 1 /\ p.last = from + codec.length /\ p.size = codec.length
        /\ p.next = from + codec.length
    BY <2>2, PieceOfIs
  <2> QED
    BY <1>0, <2>1, <2>3 DEF Proper
<1>2. CASE codec.kind = "delimiter"
  <2>1. p \in DelimitedPieces(from, n)
    BY <1>2 DEF PiecesAfter
  <2>2. PICK m \in Earliest(Matches(from, n)) : p = Delimited(from, m)
    BY <2>1, DelimitedPiecesAre
  <2>3. m \in Matches(from, n)
    BY <2>2 DEF Earliest
  <2>k. PICK k \in DOMAIN codec.delimiters :
          \E j \in from .. n - Len(codec.delimiters[k]) : m = <<j, Len(codec.delimiters[k])>>
    BY <1>2, <2>3, MatchesAre
  <2>4. PICK j \in from .. n - Len(codec.delimiters[k]) : m = <<j, Len(codec.delimiters[k])>>
    BY <2>k
  <2>5. Len(codec.delimiters[k]) \in Nat \ {0} /\ codec.strip \in BOOLEAN
    BY <1>2, DelimiterSetup
  <2>6. PICK l : l = Len(codec.delimiters[k])
    OBVIOUS
  <2>7. l \in Nat \ {0} /\ j \in from .. n - l /\ m[1] = j /\ m[2] = l
    BY <2>4, <2>5, <2>6
  <2>8. /\ p.first = from + 1 /\ p.last = (IF codec.strip THEN j ELSE j + l) /\ p.size = j - from
        /\ p.next = j + l
    BY <2>2, <2>7, PieceOfIs DEF Delimited
  <2>9. j \in Nat /\ j + l \in from + 1 .. n /\ j - from \in Nat /\ j \in from .. j + l /\ j + l \in from .. j + l
    BY <2>7
  <2> QED
    BY <2>8, <2>9 DEF Proper
<1> QED
  BY <1>0, <1>1, <1>2

PieceFrom(from, n) == CHOOSE q \in PiecesAfter(from, n) : TRUE
FrameFrom(p) == SubSeq(setup.stream, p.first, p.last)
DivideStep(n, f, from) ==
    IF PiecesAfter(from, n) = {} THEN NoResult
    ELSE IF PieceFrom(from, n).size <= Limit
    THEN [f[PieceFrom(from, n).next] EXCEPT !.frames = <<FrameFrom(PieceFrom(from, n))>> \o @]
    ELSE [f[PieceFrom(from, n).next] EXCEPT !.long = @ + 1]

LEMMA DivisionIs ==
    ASSUME NEW n
    PROVE  Division(n) = CHOOSE f : f = [from \in 0 .. n |-> DivideStep(n, f, from)]
BY DEF Division, DivideStep, NoResult, PieceFrom, FrameFrom

LEMMA PieceFromIs ==
    ASSUME setup \in Setups, codec.kind # "length", NEW from \in Nat, NEW n \in Nat,
           PiecesAfter(from, n) # {}
    PROVE  PieceFrom(from, n) \in PiecesAfter(from, n) /\ Proper(PieceFrom(from, n), from, n)
<1>1. PieceFrom(from, n) \in PiecesAfter(from, n)
  <2>1. PICK P : P = PiecesAfter(from, n)
    OBVIOUS
  <2>2. (CHOOSE q \in P : TRUE) \in P
    BY <2>1
  <2> QED
    BY <2>1, <2>2 DEF PieceFrom
<1> QED
  BY <1>1, PiecesProper

LEMMA FrameFromType ==
    ASSUME setup \in Setups, NEW from \in Nat, NEW n \in 0 .. Len(setup.stream), NEW p,
           Proper(p, from, n)
    PROVE  FrameFrom(p) \in Seq(0 .. 255)
<1>1. setup.stream \in Seq(0 .. 255) /\ Len(setup.stream) \in Nat
  BY StreamType
<1>2. /\ p.first = from + 1 /\ p.last \in from .. p.next /\ p.next \in from + 1 .. n
  BY DEF Proper
<1>3. PICK l, x, k : l = p.last /\ x = p.next /\ k = l - from
  OBVIOUS
<1>4. k \in Nat /\ from + k <= Len(setup.stream) /\ p.last = from + k
  <2>1. l \in from .. x /\ x \in from + 1 .. n
    BY <1>2, <1>3
  <2>2. n \in Nat /\ n <= Len(setup.stream)
    BY <1>1
  <2>3. k \in Nat /\ from + k <= n /\ l = from + k
    BY <1>3, <2>1
  <2> QED
    BY <1>1, <1>3, <2>2, <2>3
<1>5. SubSeq(setup.stream, from + 1, from + k) \in Seq(0 .. 255)
  BY <1>1, <1>4, PartOf
<1> QED
  BY <1>2, <1>4, <1>5 DEF FrameFrom

(* A step only looks at what follows, and keeps the type. *)
LEMMA DivideStepType ==
    ASSUME setup \in Setups, codec.kind # "length", NEW n \in 0 .. Len(setup.stream),
           NEW from \in 0 .. n, NEW f, NEW g,
           \A i \in from + 1 .. n : f[i] \in Results /\ f[i] = g[i]
    PROVE  DivideStep(n, f, from) \in Results /\ DivideStep(n, f, from) = DivideStep(n, g, from)
<1>0. n \in Nat /\ from \in Nat
  BY StreamType
<1>1. CASE PiecesAfter(from, n) = {}
  <2>1. NoResult \in Results
    BY EmptySeq DEF NoResult, Results
  <2> QED
    BY <1>1, <2>1 DEF DivideStep
<1>2. CASE PiecesAfter(from, n) # {}
  <2>1. PICK p : p = PieceFrom(from, n)
    OBVIOUS
  <2>2. Proper(p, from, n)
    BY <1>0, <1>2, <2>1, PieceFromIs
  <2>3. FrameFrom(p) \in Seq(0 .. 255)
    BY <1>0, <2>2, FrameFromType
  <2>4. f[p.next] \in Results /\ f[p.next] = g[p.next]
    BY <2>2 DEF Proper
  <2>5. PICK r : r = f[p.next]
    OBVIOUS
  <2>6. r \in Results /\ r = g[p.next]
    BY <2>4, <2>5
  <2>7. DivideStep(n, f, from) =
          IF p.size <= Limit THEN [r EXCEPT !.frames = <<FrameFrom(p)>> \o @]
          ELSE [r EXCEPT !.long = @ + 1]
    BY <1>2, <2>1, <2>5 DEF DivideStep
  <2>8. DivideStep(n, g, from) =
          IF p.size <= Limit THEN [r EXCEPT !.frames = <<FrameFrom(p)>> \o @]
          ELSE [r EXCEPT !.long = @ + 1]
    BY <1>2, <2>1, <2>6 DEF DivideStep
  <2>9. <<FrameFrom(p)>> \o r.frames \in Seq(Seq(0 .. 255))
    <3>1. <<FrameFrom(p)>> \in Seq(Seq(0 .. 255)) /\ r.frames \in Seq(Seq(0 .. 255))
      BY <2>3, <2>6 DEF Results
    <3> QED
      BY <3>1, ConcatProperties
  <2>10. /\ [r EXCEPT !.frames = <<FrameFrom(p)>> \o @] \in Results
         /\ [r EXCEPT !.long = @ + 1] \in Results
    <3>1. PICK e : e = <<FrameFrom(p)>> \o r.frames
      OBVIOUS
    <3>2. e \in Seq(Seq(0 .. 255))
      BY <2>9, <3>1
    <3>3. [r EXCEPT !.frames = e] \in Results
      BY <2>6, <3>2 DEF Results
    <3>4. [r EXCEPT !.long = @ + 1] \in Results
      BY <2>6 DEF Results
    <3> QED
      BY <3>1, <3>3, <3>4
  <2> QED
    BY <2>7, <2>8, <2>10
<1> QED
  BY <1>1, <1>2

LEMMA DivisionExists ==
    ASSUME setup \in Setups, codec.kind # "length", NEW n \in 0 .. Len(setup.stream)
    PROVE  \E f : f = [from \in 0 .. n |-> DivideStep(n, f, from)]
<1> DEFINE Good(k, f) == \A i \in n - k .. n : f[i] \in Results /\ f[i] = DivideStep(n, f, i)
           T == {k \in Nat : \E f : Good(k, f)}
<1>0. n \in Nat
  BY StreamType
<1>1. 0 \in T
  <2>1. PICK f : f = [i \in {n} |-> DivideStep(n, <<>>, n)]
    OBVIOUS
  <2>2. n \in 0 .. n
    BY <1>0
  <2>3. \A g : \A i \in n + 1 .. n : g[i] \in Results /\ g[i] = f[i]
    BY <1>0
  <2>4. \A g : DivideStep(n, g, n) \in Results /\ DivideStep(n, g, n) = DivideStep(n, f, n)
    BY <2>2, <2>3, DivideStepType
  <2>5. f[n] = DivideStep(n, <<>>, n)
    BY <2>1
  <2>6. f[n] \in Results /\ f[n] = DivideStep(n, f, n)
    BY <2>4, <2>5
  <2>7. \A i \in n - 0 .. n : i = n
    BY <1>0
  <2>8. Good(0, f)
    BY <2>6, <2>7
  <2> HIDE DEF Good
  <2> QED
    BY <2>8
<1>2. ASSUME NEW k \in 0 .. n - 1, k \in T
      PROVE  k + 1 \in T
  <2>1. PICK f : Good(k, f)
    BY <1>2
  <2>2. PICK x : x = n - (k + 1)
    OBVIOUS
  <2>3. x \in 0 .. n /\ x + 1 = n - k /\ \A i \in x + 1 .. n : i # x /\ i \in n - k .. n /\ i \in 0 .. n
    BY <1>0, <2>2
  <2>4. PICK v : v = DivideStep(n, f, x)
    OBVIOUS
  <2>5. PICK g : g = [i \in x .. n |-> IF i = x THEN v ELSE f[i]]
    OBVIOUS
  <2>6. g[x] = v /\ \A i \in x + 1 .. n : g[i] = f[i] /\ f[i] \in Results /\ f[i] = DivideStep(n, f, i)
    <3>1. x \in x .. n /\ \A i \in x + 1 .. n : i \in x .. n
      BY <1>0, <2>3
    <3>2. \A i \in x + 1 .. n : f[i] \in Results /\ f[i] = DivideStep(n, f, i)
      BY <2>1, <2>3
    <3> QED
      BY <2>3, <2>5, <3>1, <3>2
  <2>7. ASSUME NEW i \in x .. n
        PROVE  DivideStep(n, f, i) \in Results /\ DivideStep(n, f, i) = DivideStep(n, g, i)
    <3>1. i \in 0 .. n /\ \A j \in i + 1 .. n : j \in x + 1 .. n
      BY <1>0, <2>3
    <3>2. \A j \in i + 1 .. n : f[j] \in Results /\ f[j] = g[j]
      BY <2>6, <3>1
    <3> QED
      BY <3>1, <3>2, DivideStepType
  <2>8. ASSUME NEW i \in x .. n
        PROVE  g[i] \in Results /\ g[i] = DivideStep(n, g, i)
    <3>1. CASE i = x
      BY <2>4, <2>6, <2>7, <3>1
    <3>2. CASE i # x
      <4>1. i \in x + 1 .. n
        BY <2>3, <3>2
      <4> QED
        BY <2>6, <2>7, <4>1
    <3> QED
      BY <3>1, <3>2
  <2>9. Good(k + 1, g)
    BY <2>2, <2>8
  <2>10. k + 1 \in Nat
    BY <1>0
  <2> HIDE DEF Good
  <2> QED
    BY <2>9, <2>10
<1>3. n \in T
  <2> HIDE DEF T
  <2>1. \A i \in 0 .. n : i \in T
    BY <1>0, <1>1, <1>2, UpTo
  <2> QED
    BY <1>0, <2>1
<1>4. PICK f : Good(n, f)
  BY <1>3
<1>5. PICK g : g = [i \in 0 .. n |-> f[i]]
  OBVIOUS
<1>6. ASSUME NEW i \in 0 .. n PROVE g[i] = DivideStep(n, g, i)
  <2>1. \A j \in 0 .. n : j \in n - n .. n
    BY <1>0
  <2>2. \A j \in 0 .. n : f[j] \in Results /\ f[j] = DivideStep(n, f, j) /\ f[j] = g[j]
    BY <1>4, <1>5, <2>1
  <2>3. \A j \in i + 1 .. n : j \in 0 .. n
    BY <1>0
  <2>4. DivideStep(n, f, i) = DivideStep(n, g, i)
    BY <2>2, <2>3, DivideStepType
  <2> QED
    BY <2>2, <2>4
<1>7. g = [i \in 0 .. n |-> DivideStep(n, g, i)]
  <2>1. \A i \in 0 .. n : g[i] = [j \in 0 .. n |-> DivideStep(n, g, j)][i]
    BY <1>6
  <2>2. PICK v : v = [j \in 0 .. n |-> DivideStep(n, g, j)]
    OBVIOUS
  <2>3. \A i \in 0 .. n : g[i] = v[i]
    BY <2>1, <2>2
  <2>4. DOMAIN v = 0 .. n /\ DOMAIN g = 0 .. n /\ v = [i \in 0 .. n |-> v[i]] /\ g = [i \in 0 .. n |-> g[i]]
    BY <1>5, <2>2
  <2>5. g = v
    BY <2>3, <2>4
  <2> QED
    BY <2>2, <2>5
<1> QED
  BY <1>7

LEMMA DivisionUnfolds ==
    ASSUME setup \in Setups, codec.kind # "length", NEW n \in 0 .. Len(setup.stream)
    PROVE  \A i \in 0 .. n : /\ Division(n)[i] \in Results
                             /\ Division(n)[i] = DivideStep(n, Division(n), i)
<1>0. n \in Nat
  BY StreamType
<1>1. PICK f : f = Division(n)
  OBVIOUS
<1>2. f = [i \in 0 .. n |-> DivideStep(n, f, i)]
  <2>1. \E g : g = [i \in 0 .. n |-> DivideStep(n, g, i)]
    BY DivisionExists
  <2>2. f = CHOOSE g : g = [i \in 0 .. n |-> DivideStep(n, g, i)]
    BY <1>1, DivisionIs
  <2> HIDE DEF DivideStep
  <2> QED
    BY <2>1, <2>2
<1>3. \A i \in 0 .. n : f[i] = DivideStep(n, f, i)
  <2>1. PICK v : v = [i \in 0 .. n |-> DivideStep(n, f, i)]
    OBVIOUS
  <2>2. \A i \in 0 .. n : v[i] = DivideStep(n, f, i)
    BY <2>1
  <2> QED
    BY <1>2, <2>1, <2>2
<1> DEFINE T == {k \in Nat : \A i \in n - k .. n : f[i] \in Results}
<1>4. 0 \in T
  <2>1. n \in 0 .. n /\ \A i \in n + 1 .. n : f[i] \in Results /\ f[i] = f[i]
    BY <1>0
  <2>2. DivideStep(n, f, n) \in Results
    BY <2>1, DivideStepType
  <2>3. f[n] \in Results
    BY <1>3, <2>1, <2>2
  <2>4. \A i \in n - 0 .. n : i = n
    BY <1>0
  <2> QED
    BY <2>3, <2>4
<1>5. ASSUME NEW k \in 0 .. n - 1, k \in T
      PROVE  k + 1 \in T
  <2>1. PICK x : x = n - (k + 1)
    OBVIOUS
  <2>2. x \in 0 .. n /\ \A i \in x + 1 .. n : i \in n - k .. n
    BY <1>0, <2>1
  <2>3. \A i \in x + 1 .. n : f[i] \in Results /\ f[i] = f[i]
    BY <1>5, <2>2
  <2>4. DivideStep(n, f, x) \in Results
    BY <2>2, <2>3, DivideStepType
  <2>5. f[x] \in Results
    BY <1>3, <2>2, <2>4
  <2>6. \A i \in x .. n : i = x \/ i \in x + 1 .. n
    BY <2>2
  <2>7. \A i \in x .. n : f[i] \in Results
    BY <2>3, <2>5, <2>6
  <2>8. k + 1 \in Nat
    BY <1>0
  <2> QED
    BY <2>1, <2>7, <2>8
<1>6. n \in T
  <2> HIDE DEF T
  <2>1. \A i \in 0 .. n : i \in T
    BY <1>0, <1>4, <1>5, UpTo
  <2> QED
    BY <1>0, <2>1
<1>7. \A i \in 0 .. n : f[i] \in Results
  <2>1. \A i \in 0 .. n : i \in n - n .. n
    BY <1>0
  <2> QED
    BY <1>6, <2>1
<1> QED
  BY <1>1, <1>3, <1>7

(***************************************************************************)
(* Counting along the text: what has been sent upstream and what the       *)
(* division has after byte pos are the division of the whole, however many *)
(* bytes are still to come.                                                *)
(***************************************************************************)
Later(a) == a .. Len(setup.stream)
CountedAt(pos, a, fs, rs) ==
    \A n \in Later(a) :
        /\ Division(n)[0].frames = fs \o Division(n)[pos].frames
        /\ Division(n)[0].long = rs + Division(n)[pos].long

(* Whatever arrives after byte a, p is the piece after byte pos. *)
Sure(pos, p, a) == \A n \in Later(a) : PiecesAfter(pos, n) = {p}

LEMMA LaterIs ==
    ASSUME setup \in Setups, NEW a \in 0 .. Len(setup.stream), NEW n \in Later(a)
    PROVE  n \in 0 .. Len(setup.stream) /\ n \in Nat /\ a <= n /\ a \in Nat /\ a \in Later(a)
BY StreamType DEF Later

LEMMA DivisionNone ==
    ASSUME setup \in Setups, codec.kind # "length", NEW n \in 0 .. Len(setup.stream),
           NEW from \in 0 .. n, PiecesAfter(from, n) = {}
    PROVE  Division(n)[from] = NoResult
<1>1. Division(n)[from] = DivideStep(n, Division(n), from)
  BY DivisionUnfolds
<1> QED
  BY <1>1 DEF DivideStep

LEMMA DivisionPiece ==
    ASSUME setup \in Setups, codec.kind # "length", NEW n \in 0 .. Len(setup.stream),
           NEW from \in 0 .. n, NEW p, PiecesAfter(from, n) = {p}
    PROVE  /\ Proper(p, from, n)
           /\ p.size <= Limit =>
                /\ Division(n)[from].frames = <<FrameFrom(p)>> \o Division(n)[p.next].frames
                /\ Division(n)[from].long = Division(n)[p.next].long
           /\ ~(p.size <= Limit) =>
                /\ Division(n)[from].frames = Division(n)[p.next].frames
                /\ Division(n)[from].long = Division(n)[p.next].long + 1
<1>0. n \in Nat /\ from \in Nat
  BY StreamType
<1>1. PieceFrom(from, n) = p
  <2>1. PieceFrom(from, n) \in PiecesAfter(from, n)
    BY <1>0, PieceFromIs
  <2> QED
    BY <2>1
<1>2. Proper(p, from, n)
  BY <1>0, PiecesProper
<1>3. p.next \in 0 .. n
  <2>1. PICK x : x = p.next
    OBVIOUS
  <2>2. x \in from + 1 .. n
    BY <1>2, <2>1 DEF Proper
  <2> QED
    BY <1>0, <2>1, <2>2
<1>4. PICK r, t : r = Division(n)[p.next] /\ t = Division(n)[from]
  OBVIOUS
<1>5. r \in Results
  BY <1>3, <1>4, DivisionUnfolds
<1>6. t = DivideStep(n, Division(n), from)
  BY <1>4, DivisionUnfolds
<1>7. t = IF p.size <= Limit THEN [r EXCEPT !.frames = <<FrameFrom(p)>> \o @]
          ELSE [r EXCEPT !.long = @ + 1]
  BY <1>1, <1>4, <1>6 DEF DivideStep
<1>8. CASE p.size <= Limit
  <2>1. PICK e : e = <<FrameFrom(p)>> \o r.frames
    OBVIOUS
  <2>2. t = [r EXCEPT !.frames = e]
    BY <1>7, <1>8, <2>1
  <2>3. t.frames = e /\ t.long = r.long
    BY <1>5, <2>2 DEF Results
  <2> QED
    BY <1>2, <1>4, <1>8, <2>1, <2>3
<1>9. CASE ~(p.size <= Limit)
  <2>1. t = [r EXCEPT !.long = @ + 1]
    BY <1>7, <1>9
  <2>2. t.frames = r.frames /\ t.long = r.long + 1
    BY <1>5, <2>1 DEF Results
  <2> QED
    BY <1>2, <1>4, <1>9, <2>2
<1> QED
  BY <1>8, <1>9

LEMMA FramesAssociative ==
    \A s, t, u \in Seq(Seq(0 .. 255)) : (s \o t) \o u = s \o (t \o u)
<1> DEFINE S == Seq(0 .. 255)
<1> HIDE DEF S
<1>1. \A s, t, u \in Seq(S) : (s \o t) \o u = s \o (t \o u)
  BY ConcatAssociative
<1> QED
  BY <1>1 DEF S

LEMMA CountPiece ==
    ASSUME setup \in Setups, codec.kind # "length", NEW a \in 0 .. Len(setup.stream),
           NEW pos \in 0 .. a, NEW fs \in Seq(Seq(0 .. 255)), NEW rs \in Nat,
           CountedAt(pos, a, fs, rs), NEW p, Sure(pos, p, a), p.next <= a
    PROVE  /\ p.size <= Limit => CountedAt(p.next, a, fs \o <<FrameFrom(p)>>, rs)
           /\ ~(p.size <= Limit) => CountedAt(p.next, a, fs, rs + 1)
<1>1. ASSUME NEW n \in Later(a)
      PROVE  /\ p.size <= Limit =>
                  /\ Division(n)[0].frames = (fs \o <<FrameFrom(p)>>) \o Division(n)[p.next].frames
                  /\ Division(n)[0].long = rs + Division(n)[p.next].long
             /\ ~(p.size <= Limit) =>
                  /\ Division(n)[0].frames = fs \o Division(n)[p.next].frames
                  /\ Division(n)[0].long = (rs + 1) + Division(n)[p.next].long
  <2>1. n \in 0 .. Len(setup.stream) /\ n \in Nat /\ a <= n /\ a \in Nat
    BY LaterIs
  <2>2. pos \in 0 .. n /\ pos \in Nat
    BY <2>1
  <2>3. PiecesAfter(pos, n) = {p}
    BY DEF Sure
  <2>4. /\ Proper(p, pos, n)
        /\ p.size <= Limit =>
             /\ Division(n)[pos].frames = <<FrameFrom(p)>> \o Division(n)[p.next].frames
             /\ Division(n)[pos].long = Division(n)[p.next].long
        /\ ~(p.size <= Limit) =>
             /\ Division(n)[pos].frames = Division(n)[p.next].frames
             /\ Division(n)[pos].long = Division(n)[p.next].long + 1
    BY <2>1, <2>2, <2>3, DivisionPiece
  <2>5. /\ Division(n)[0].frames = fs \o Division(n)[pos].frames
        /\ Division(n)[0].long = rs + Division(n)[pos].long
    BY DEF CountedAt
  <2>6. p.next \in 0 .. n
    <3>1. PICK x : x = p.next
      OBVIOUS
    <3>2. x \in pos + 1 .. n
      BY <2>4, <3>1 DEF Proper
    <3> QED
      BY <2>2, <3>1, <3>2
  <2>7. PICK r : r = Division(n)[p.next]
    OBVIOUS
  <2>8. r.frames \in Seq(Seq(0 .. 255)) /\ r.long \in Nat
    <3>1. r \in Results
      BY <2>1, <2>6, <2>7, DivisionUnfolds
    <3> QED
      BY <3>1 DEF Results
  <2>9. FrameFrom(p) \in Seq(0 .. 255)
    BY <2>1, <2>2, <2>4, FrameFromType
  <2>10. PICK x : x = <<FrameFrom(p)>>
    OBVIOUS
  <2>11. x \in Seq(Seq(0 .. 255))
    BY <2>9, <2>10
  <2>12. (fs \o x) \o r.frames = fs \o (x \o r.frames)
    <3>1. PICK g : g = r.frames
      OBVIOUS
    <3>2. g \in Seq(Seq(0 .. 255))
      BY <2>8, <3>1
    <3>3. (fs \o x) \o g = fs \o (x \o g)
      BY <2>11, <3>2, FramesAssociative, Zenon
    <3> QED
      BY <3>1, <3>3
  <2>13. rs + (r.long + 1) = (rs + 1) + r.long
    BY <2>8
  <2> QED
    BY <2>4, <2>5, <2>7, <2>10, <2>12, <2>13
<1> QED
  BY <1>1 DEF CountedAt

LEMMA CountAtRest ==
    ASSUME setup \in Setups, codec.kind # "length", NEW a \in 0 .. Len(setup.stream),
           NEW pos \in 0 .. a, NEW fs \in Seq(Seq(0 .. 255)), NEW rs \in Nat,
           CountedAt(pos, a, fs, rs), PiecesAfter(pos, a) = {}
    PROVE  [frames |-> fs, long |-> rs] = Division(a)[0]
<1>1. a \in Later(a) /\ a \in Nat /\ 0 \in 0 .. a
  BY StreamType DEF Later
<1>2. PICK t : t = Division(a)[0]
  OBVIOUS
<1>3. t.frames = fs \o Division(a)[pos].frames /\ t.long = rs + Division(a)[pos].long
  BY <1>1, <1>2 DEF CountedAt
<1>4. Division(a)[pos].frames = <<>> /\ Division(a)[pos].long = 0
  <2>1. Division(a)[pos] = NoResult
    BY DivisionNone
  <2> QED
    BY <2>1 DEF NoResult
<1>5. fs \o <<>> = fs
  BY ConcatEmptySeq
<1>6. t.frames = fs /\ t.long = rs
  BY <1>3, <1>4, <1>5
<1>7. t \in Results
  BY <1>1, <1>2, DivisionUnfolds
<1>8. t = [frames |-> fs, long |-> rs]
  BY <1>6, <1>7 DEF Results
<1> QED
  BY <1>2, <1>8

(***************************************************************************)
(* The unread bytes of a buffer are the ones of the text from byte q to    *)
(* the last one that has arrived.                                          *)
(***************************************************************************)
HoldsAt(b, q, a) ==
    /\ readableBytes(b) = a - q
    /\ \A i \in 1 .. readableBytes(b) : b.bytes[b.reader + i] = setup.stream[q + i]

LEMMA HoldsSkip ==
    ASSUME NEW b, IsBuffer(b), NEW a \in Nat, NEW q \in Nat, HoldsAt(b, q, a),
           NEW n \in 0 .. readableBytes(b)
    PROVE  /\ HoldsAt(skipBytes(b, n), q + n, a)
           /\ HoldsAt(AfterReadBytes(b, n), q + n, a)
<1>1. /\ IsBuffer(skipBytes(b, n)) /\ skipBytes(b, n).bytes = b.bytes
      /\ skipBytes(b, n).reader = b.reader + n
      /\ readableBytes(skipBytes(b, n)) = readableBytes(b) - n
  BY SkipBuffer
<1>2. readableBytes(b) \in Nat /\ b.reader \in Nat /\ n \in Nat
  BY Readable
<1>3. readableBytes(b) = a - q /\ readableBytes(b) - n = a - (q + n)
  BY <1>2 DEF HoldsAt
<1>4. ASSUME NEW i \in 1 .. readableBytes(b) - n
      PROVE  b.bytes[(b.reader + n) + i] = setup.stream[(q + n) + i]
  <2>1. PICK j : j = n + i
    OBVIOUS
  <2>2. j \in 1 .. readableBytes(b) /\ (b.reader + n) + i = b.reader + j /\ (q + n) + i = q + j
    BY <1>2, <2>1
  <2> QED
    BY <2>2 DEF HoldsAt
<1>5. HoldsAt(skipBytes(b, n), q + n, a)
  BY <1>1, <1>3, <1>4 DEF HoldsAt
<1>6. CASE n > 0 /\ n = readableBytes(b)
  <2>1. AfterReadBytes(b, n) = Empty /\ readableBytes(Empty) = 0
    BY <1>6, EmptyBuffer DEF AfterReadBytes
  <2>2. a - (q + n) = 0
    BY <1>2, <1>3, <1>6
  <2>3. HoldsAt(Empty, q + n, a)
    BY <2>1, <2>2 DEF HoldsAt
  <2> QED
    BY <1>5, <2>1, <2>3
<1>7. CASE ~(n > 0 /\ n = readableBytes(b))
  BY <1>5, <1>7 DEF AfterReadBytes
<1> QED
  BY <1>6, <1>7

LEMMA HoldsCompacted ==
    ASSUME NEW b, IsBuffer(b), NEW a \in Nat, NEW q \in Nat, HoldsAt(b, q, a)
    PROVE  HoldsAt(discardReadBytes(b), q, a)
<1>1. /\ readableBytes(discardReadBytes(b)) = readableBytes(b)
      /\ discardReadBytes(b).reader = 0
      /\ discardReadBytes(b).bytes = Bytes(b, readableBytes(b))
  BY Compacted
<1>2. readableBytes(b) \in Nat /\ readableBytes(b) \in 0 .. readableBytes(b)
  BY Readable
<1>3. \A i \in 1 .. readableBytes(b) : Bytes(b, readableBytes(b))[i] = b.bytes[b.reader + i]
  BY <1>2, BytesOf
<1>4. \A i \in 1 .. readableBytes(b) : 0 + i = i
  BY <1>2
<1> QED
  BY <1>1, <1>3, <1>4 DEF HoldsAt

LEMMA HoldsWritten ==
    ASSUME NEW b, IsBuffer(b), NEW a \in Nat, NEW q \in Nat, HoldsAt(b, q, a),
           NEW s \in Seq(0 .. 255), \A i \in 1 .. Len(s) : s[i] = setup.stream[a + i]
    PROVE  HoldsAt(writeBytes(b, s), q, a + Len(s))
<1>1. /\ readableBytes(writeBytes(b, s)) = readableBytes(b) + Len(s)
      /\ writeBytes(b, s).reader = b.reader
      /\ writeBytes(b, s).bytes = b.bytes \o s
  BY Written
<1>2. /\ readableBytes(b) \in Nat /\ b.reader \in Nat /\ Len(b.bytes) \in Nat
      /\ Len(b.bytes) = b.reader + readableBytes(b)
  BY Readable
<1>3. Len(s) \in Nat
  BY LenProperties
<1>4. readableBytes(b) = a - q
  BY DEF HoldsAt
<1>5. \A i \in 1 .. Len(b.bytes) + Len(s) :
         (b.bytes \o s)[i] = IF i <= Len(b.bytes) THEN b.bytes[i] ELSE s[i - Len(b.bytes)]
  <2>1. b.bytes \in Seq(0 .. 255)
    BY DEF IsBuffer, Buffers
  <2> QED
    BY <2>1, ConcatProperties
<1>6. ASSUME NEW i \in 1 .. readableBytes(b) + Len(s)
      PROVE  (b.bytes \o s)[b.reader + i] = setup.stream[q + i]
  <2>1. b.reader + i \in 1 .. Len(b.bytes) + Len(s)
    BY <1>2, <1>3
  <2>2. CASE i <= readableBytes(b)
    <3>1. i \in 1 .. readableBytes(b) /\ b.reader + i <= Len(b.bytes)
      BY <1>2, <2>2
    <3>2. (b.bytes \o s)[b.reader + i] = b.bytes[b.reader + i]
      BY <1>5, <2>1, <3>1
    <3> QED
      BY <3>1, <3>2 DEF HoldsAt
  <2>3. CASE ~(i <= readableBytes(b))
    <3>1. PICK j : j = i - readableBytes(b)
      OBVIOUS
    <3>2. /\ j \in 1 .. Len(s) /\ ~(b.reader + i <= Len(b.bytes))
          /\ (b.reader + i) - Len(b.bytes) = j /\ a + j = q + i
      BY <1>2, <1>3, <1>4, <2>3, <3>1
    <3>3. (b.bytes \o s)[b.reader + i] = s[j]
      BY <1>5, <2>1, <3>2
    <3> QED
      BY <3>2, <3>3
  <2> QED
    BY <2>2, <2>3
<1>7. readableBytes(b) + Len(s) = (a + Len(s)) - q
  BY <1>3, <1>4
<1> QED
  BY <1>1, <1>6, <1>7 DEF HoldsAt

LEMMA HoldsFrame ==
    ASSUME setup \in Setups, NEW b, IsBuffer(b), NEW a \in 0 .. Len(setup.stream), NEW q \in Nat,
           HoldsAt(b, q, a), NEW n \in 0 .. readableBytes(b)
    PROVE  Bytes(b, n) = SubSeq(setup.stream, q + 1, q + n)
<1>1. /\ Bytes(b, n) \in Seq(0 .. 255) /\ Len(Bytes(b, n)) = n
      /\ \A i \in 1 .. n : Bytes(b, n)[i] = b.bytes[b.reader + i]
  BY BytesOf
<1>2. setup.stream \in Seq(0 .. 255) /\ Len(setup.stream) \in Nat
  BY StreamType
<1>3. n \in Nat /\ q + n <= Len(setup.stream) /\ \A i \in 1 .. n : i \in 1 .. readableBytes(b)
  BY <1>2, Readable DEF HoldsAt
<1>4. PICK s : s = SubSeq(setup.stream, q + 1, q + n)
  OBVIOUS
<1>5. s \in Seq(0 .. 255) /\ Len(s) = n /\ \A i \in 1 .. n : s[i] = setup.stream[q + i]
  <2>1. PICK t : t = setup.stream
    OBVIOUS
  <2>2. t \in Seq(0 .. 255) /\ q + n <= Len(t) /\ s = SubSeq(t, q + 1, q + n)
    BY <1>2, <1>3, <1>4, <2>1
  <2>3. /\ SubSeq(t, q + 1, q + n) \in Seq(0 .. 255)
        /\ Len(SubSeq(t, q + 1, q + n)) = n
        /\ \A i \in 1 .. n : SubSeq(t, q + 1, q + n)[i] = t[q + i]
    BY <1>3, <2>2, PartOf
  <2> QED
    BY <2>1, <2>2, <2>3
<1>6. \A i \in 1 .. n : Bytes(b, n)[i] = s[i]
  BY <1>1, <1>3, <1>5 DEF HoldsAt
<1>7. Bytes(b, n) = s
  BY <1>1, <1>5, <1>6, SeqEqual
<1> QED
  BY <1>4, <1>7

(***************************************************************************)
(* The delimiters of the text and the ones decode finds in a buffer.       *)
(***************************************************************************)
Size(k) == Len(codec.delimiters[k])
Occurs(k, j) == \A i \in 1 .. Size(k) : setup.stream[j + i] = codec.delimiters[k][i]

LEMMA SizeType ==
    ASSUME setup \in Setups, codec.kind = "delimiter", NEW k \in DOMAIN codec.delimiters
    PROVE  Size(k) \in Nat \ {0} /\ codec.delimiters[k] \in Seq(Nat)
BY DelimiterSetup DEF Size

LEMMA OccursIs ==
    ASSUME setup \in Setups, codec.kind = "delimiter", NEW k \in DOMAIN codec.delimiters,
           NEW j \in Nat, j + Size(k) <= Len(setup.stream)
    PROVE  SubSeq(setup.stream, j + 1, j + Size(k)) = codec.delimiters[k] <=> Occurs(k, j)
<1>1. PICK t, d, l : t = setup.stream /\ d = codec.delimiters[k] /\ l = Size(k)
  OBVIOUS
<1>2. t \in Seq(0 .. 255) /\ d \in Seq(Nat) /\ l \in Nat /\ Len(d) = l /\ j + l <= Len(t)
  BY <1>1, SizeType, StreamType DEF Size
<1>3. PICK e : e = SubSeq(t, j + 1, j + l)
  OBVIOUS
<1>4. /\ SubSeq(t, j + 1, j + l) \in Seq(0 .. 255)
      /\ Len(SubSeq(t, j + 1, j + l)) = l
      /\ \A i \in 1 .. l : SubSeq(t, j + 1, j + l)[i] = t[j + i]
  <2>1. t \in Seq(0 .. 255) /\ l \in Nat /\ j \in Nat /\ j + l <= Len(t)
    BY <1>2
  <2> QED
    BY <2>1, PartOf
<1>5. e \in Seq(0 .. 255) /\ Len(e) = l /\ \A i \in 1 .. l : e[i] = t[j + i]
  BY <1>3, <1>4
<1>6. e = d <=> \A i \in 1 .. l : e[i] = d[i]
  <2>1. e \in [1 .. l -> 0 .. 255] /\ d \in [1 .. l -> Nat]
    BY <1>2, <1>5, LenProperties
  <2>2. ASSUME \A i \in 1 .. l : e[i] = d[i] PROVE e = d
    <3>1. e = [i \in 1 .. l |-> e[i]] /\ d = [i \in 1 .. l |-> d[i]]
      BY <2>1
    <3>2. [i \in 1 .. l |-> e[i]] = [i \in 1 .. l |-> d[i]]
      BY <2>2
    <3> QED
      BY <3>1, <3>2
  <2> QED
    BY <2>2
<1>7. e = d <=> \A i \in 1 .. l : t[j + i] = d[i]
  BY <1>5, <1>6
<1> QED
  BY <1>1, <1>3, <1>7 DEF Occurs

LEMMA MatchesOccur ==
    ASSUME setup \in Setups, codec.kind = "delimiter", NEW from \in Nat,
           NEW n \in 0 .. Len(setup.stream), NEW m
    PROVE  m \in Matches(from, n) <=>
             \E k \in DOMAIN codec.delimiters, j \in Nat :
                from <= j /\ j + Size(k) <= n /\ m = <<j, Size(k)>> /\ Occurs(k, j)
<1>0. n \in Nat /\ n <= Len(setup.stream) /\ Len(setup.stream) \in Nat
  BY StreamType
<1>1. m \in Matches(from, n) <=>
         \E k \in DOMAIN codec.delimiters : \E j \in from .. n - Size(k) :
            /\ m = <<j, Size(k)>>
            /\ SubSeq(setup.stream, j + 1, j + Size(k)) = codec.delimiters[k]
  BY <1>0, MatchesAre DEF Size
<1>2. ASSUME NEW k \in DOMAIN codec.delimiters, NEW j
      PROVE  j \in from .. n - Size(k) <=> j \in Nat /\ from <= j /\ j + Size(k) <= n
  <2>1. Size(k) \in Nat
    BY SizeType
  <2> QED
    BY <1>0, <2>1
<1>3. ASSUME NEW k \in DOMAIN codec.delimiters, NEW j \in Nat, j + Size(k) <= n
      PROVE  SubSeq(setup.stream, j + 1, j + Size(k)) = codec.delimiters[k] <=> Occurs(k, j)
  <2>1. Size(k) \in Nat
    BY SizeType
  <2>2. j + Size(k) <= Len(setup.stream)
    BY <1>0, <1>3, <2>1
  <2> QED
    BY <2>2, OccursIs
<1>4. ASSUME m \in Matches(from, n)
      PROVE  \E k \in DOMAIN codec.delimiters, j \in Nat :
                from <= j /\ j + Size(k) <= n /\ m = <<j, Size(k)>> /\ Occurs(k, j)
  <2>1. PICK k \in DOMAIN codec.delimiters : \E j \in from .. n - Size(k) :
            /\ m = <<j, Size(k)>>
            /\ SubSeq(setup.stream, j + 1, j + Size(k)) = codec.delimiters[k]
    BY <1>1, <1>4
  <2>2. PICK j \in from .. n - Size(k) :
            /\ m = <<j, Size(k)>>
            /\ SubSeq(setup.stream, j + 1, j + Size(k)) = codec.delimiters[k]
    BY <2>1
  <2>3. j \in Nat /\ from <= j /\ j + Size(k) <= n
    BY <1>2, <2>2
  <2>4. Occurs(k, j)
    BY <1>3, <2>2, <2>3
  <2> QED
    BY <2>2, <2>3, <2>4
<1>5. ASSUME NEW k \in DOMAIN codec.delimiters, NEW j \in Nat,
             from <= j, j + Size(k) <= n, m = <<j, Size(k)>>, Occurs(k, j)
      PROVE  m \in Matches(from, n)
  <2>1. j \in from .. n - Size(k)
    BY <1>2, <1>5
  <2>2. SubSeq(setup.stream, j + 1, j + Size(k)) = codec.delimiters[k]
    BY <1>3, <1>5
  <2> QED
    BY <1>1, <1>5, <2>1, <2>2
<1> QED
  BY <1>4, <1>5

LEMMA HitsOccur ==
    ASSUME setup \in Setups, codec.kind = "delimiter", NEW b, IsBuffer(b), NEW a \in Nat,
           NEW q \in Nat, HoldsAt(b, q, a), NEW k \in DOMAIN codec.delimiters, NEW i \in Nat
    PROVE  <<i, k>> \in Hits(b) <=> (q + i) + Size(k) <= a /\ Occurs(k, q + i)
<1>0. readableBytes(b) \in Nat /\ b.reader \in Nat /\ Size(k) \in Nat /\ readableBytes(b) = a - q
  BY Readable, SizeType DEF HoldsAt
<1>1. <<i, k>> \in Hits(b) <=> i \in Found(b, codec.delimiters[k])
  <2>1. ASSUME <<i, k>> \in Hits(b) PROVE i \in Found(b, codec.delimiters[k])
    <3>1. PICK l \in DOMAIN codec.delimiters :
             \E j \in Found(b, codec.delimiters[l]) : <<i, k>> = <<j, l>>
      BY <2>1, HitsAre
    <3> QED
      BY <3>1
  <2>2. i \in Found(b, codec.delimiters[k]) => <<i, k>> \in Hits(b)
    BY HitsAre
  <2> QED
    BY <2>1, <2>2
<1>2. i \in Found(b, codec.delimiters[k]) <=>
         /\ i \in Nat /\ i + Size(k) <= readableBytes(b)
         /\ \A j \in 1 .. Size(k) : b.bytes[b.reader + i + j] = codec.delimiters[k][j]
  BY FoundIs DEF Size
<1>3. i + Size(k) <= readableBytes(b) <=> (q + i) + Size(k) <= a
  BY <1>0
<1>4. ASSUME i + Size(k) <= readableBytes(b), NEW j \in 1 .. Size(k)
      PROVE  b.bytes[b.reader + i + j] = setup.stream[(q + i) + j]
  <2>1. PICK x : x = i + j
    OBVIOUS
  <2>2. x \in 1 .. readableBytes(b) /\ b.reader + i + j = b.reader + x /\ (q + i) + j = q + x
    BY <1>0, <1>4, <2>1
  <2> QED
    BY <2>2 DEF HoldsAt
<1> QED
  BY <1>1, <1>2, <1>3, <1>4 DEF Occurs

(* The bytes of the text that have been discarded after a too long frame    *)
(* began at byte pos.                                                       *)
Skipped(pos, q) ==
    /\ codec.kind = "delimiter" /\ q - pos > codec.max
    /\ \A d \in Range(codec.delimiters) :
          Len(d) = 1 /\ \A j \in pos .. q - 1 : setup.stream[j + 1] # d[1]

Placed(pos, q, on) == IF on THEN Skipped(pos, q) ELSE q = pos

LEMMA SkippedOccurs ==
    ASSUME setup \in Setups, NEW pos \in Nat, NEW q \in Nat, Skipped(pos, q),
           NEW k \in DOMAIN codec.delimiters
    PROVE  Size(k) = 1 /\ \A j \in pos .. q - 1 : ~Occurs(k, j)
<1>1. codec.delimiters[k] \in Range(codec.delimiters)
  BY DEF Range
<1>2. Size(k) = 1 /\ \A j \in pos .. q - 1 : setup.stream[j + 1] # codec.delimiters[k][1]
  BY <1>1 DEF Skipped, Size
<1>3. 1 \in 1 .. Size(k)
  BY <1>2
<1> QED
  BY <1>2, <1>3 DEF Occurs

(* A delimiter that is found is not in front of the unread bytes. *)
LEMMA PlacedOccurs ==
    ASSUME setup \in Setups, codec.kind = "delimiter", NEW pos \in Nat, NEW q \in Nat, NEW on,
           Placed(pos, q, on), NEW k \in DOMAIN codec.delimiters, NEW j \in Nat,
           Occurs(k, j), pos <= j
    PROVE  q <= j
<1>1. CASE on
  <2>1. Skipped(pos, q)
    BY <1>1 DEF Placed
  <2>2. \A i \in pos .. q - 1 : ~Occurs(k, i)
    BY <2>1, SkippedOccurs
  <2>3. j \notin pos .. q - 1
    BY <2>2
  <2> QED
    BY <2>3
<1>2. CASE ~on
  BY <1>2 DEF Placed
<1> QED
  BY <1>1, <1>2

LEMMA NoMatch ==
    ASSUME setup \in Setups, codec.kind = "delimiter", NEW b, IsBuffer(b),
           NEW a \in 0 .. Len(setup.stream), NEW pos \in Nat, NEW q \in Nat, pos <= q,
           HoldsAt(b, q, a), NEW on, Placed(pos, q, on), Hits(b) = {}
    PROVE  /\ \A k \in DOMAIN codec.delimiters, j \in Nat :
                 ~(pos <= j /\ j + Size(k) <= a /\ Occurs(k, j))
           /\ PiecesAfter(pos, a) = {}
<1>0. a \in Nat
  BY StreamType
<1>1. ASSUME NEW k \in DOMAIN codec.delimiters, NEW j \in Nat,
             pos <= j, j + Size(k) <= a, Occurs(k, j)
      PROVE  FALSE
  <2>1. q <= j
    BY <1>1, PlacedOccurs
  <2>2. PICK i \in Nat : i = j - q
    BY <2>1
  <2>3. q + i = j
    BY <2>2
  <2>4. <<i, k>> \in Hits(b)
    BY <1>0, <1>1, <2>3, HitsOccur
  <2> QED
    BY <2>4
<1>2. Matches(pos, a) = {}
  <2>1. ASSUME NEW m \in Matches(pos, a) PROVE FALSE
    <3>1. PICK k \in DOMAIN codec.delimiters, j \in Nat :
             pos <= j /\ j + Size(k) <= a /\ m = <<j, Size(k)>> /\ Occurs(k, j)
      BY <2>1, MatchesOccur
    <3> QED
      BY <1>1, <3>1
  <2> QED
    BY <2>1
<1>3. PiecesAfter(pos, a) = {}
  <2>1. DelimitedPieces(pos, a) = {}
    BY <1>2, DelimitedPiecesAre DEF Earliest
  <2> QED
    BY <2>1 DEF PiecesAfter
<1> QED
  BY <1>1, <1>3

LEMMA SeparateOccurs ==
    ASSUME setup \in Setups, codec.kind = "delimiter", Separate(codec.delimiters),
           NEW k \in DOMAIN codec.delimiters, NEW l \in DOMAIN codec.delimiters,
           NEW j \in Nat, NEW o \in Nat, Occurs(l, j), Occurs(k, j + o), o + Size(k) < Size(l)
    PROVE  FALSE
<1>1. PICK d, e : d = codec.delimiters[k] /\ e = codec.delimiters[l]
  OBVIOUS
<1>2. d \in Range(codec.delimiters) /\ e \in Range(codec.delimiters)
  BY <1>1 DEF Range
<1>3. Size(k) \in Nat \ {0} /\ Size(l) \in Nat /\ d \in Seq(Nat) /\ e \in Seq(Nat)
  BY <1>1, SizeType
<1>4. Len(d) = Size(k) /\ Len(e) = Size(l)
  BY <1>1 DEF Size
<1>5. o \in 0 .. Len(e) - Len(d) - 1
  BY <1>3, <1>4
<1>6. SubSeq(e, o + 1, o + Len(d)) # d
  BY <1>2, <1>5 DEF Separate
<1>7. PICK n \in Nat : n = Len(d)
  BY <1>3, <1>4
<1>8. o + n <= Len(e)
  BY <1>3, <1>4, <1>7
<1>9. /\ SubSeq(e, o + 1, o + n) \in Seq(Nat) /\ Len(SubSeq(e, o + 1, o + n)) = n
      /\ \A i \in 1 .. n : SubSeq(e, o + 1, o + n)[i] = e[o + i]
  BY <1>3, <1>8, PartOf
<1>10. ASSUME NEW i \in 1 .. n PROVE e[o + i] = d[i]
  <2>1. o + i \in 1 .. Size(l) /\ i \in 1 .. Size(k) /\ j + (o + i) = (j + o) + i
    BY <1>3, <1>4, <1>7
  <2>2. setup.stream[j + (o + i)] = e[o + i]
    BY <1>1, <2>1 DEF Occurs
  <2>3. setup.stream[(j + o) + i] = d[i]
    BY <1>1, <2>1 DEF Occurs
  <2> QED
    BY <2>1, <2>2, <2>3
<1>11. PICK s : s = SubSeq(e, o + 1, o + n)
  OBVIOUS
<1>12. s \in Seq(Nat) /\ Len(s) = n /\ \A i \in 1 .. n : s[i] = d[i]
  BY <1>9, <1>10, <1>11
<1>13. s = d
  BY <1>3, <1>7, <1>12, SeqEqual
<1> QED
  BY <1>6, <1>7, <1>11, <1>13

(* The delimiter that decode finds is the earliest one of the text, also    *)
(* when more bytes have arrived.                                            *)
LEMMA FirstMatch ==
    ASSUME setup \in Setups, codec.kind = "delimiter", Separate(codec.delimiters),
           NEW b, IsBuffer(b), NEW a \in 0 .. Len(setup.stream), NEW pos \in Nat, NEW q \in Nat,
           pos <= q, HoldsAt(b, q, a), NEW on, Placed(pos, q, on),
           NEW k \in DOMAIN codec.delimiters, NEW i \in Nat,
           <<i, k>> \in Hits(b), IsFirst(<<i, k>>, Hits(b)), NEW n \in Later(a)
    PROVE  Earliest(Matches(pos, n)) = {<<q + i, Size(k)>>}
<1>0. n \in 0 .. Len(setup.stream) /\ n \in Nat /\ a <= n /\ a \in Nat
  BY LaterIs
<1>1. (q + i) + Size(k) <= a /\ Occurs(k, q + i)
  BY <1>0, HitsOccur
<1>2. PICK x \in Nat, y \in Nat : x = q + i /\ y = Size(k) /\ y # 0
  <2>1. Size(k) \in Nat /\ Size(k) # 0
    BY SizeType
  <2>2. q + i \in Nat
    OBVIOUS
  <2> QED
    BY <2>1, <2>2
<1>3. <<x, y>> \in Matches(pos, n)
  <2>1. pos <= x /\ x + Size(k) <= n /\ <<x, y>> = <<x, Size(k)>> /\ Occurs(k, x)
    BY <1>0, <1>1, <1>2
  <2> QED
    BY <1>0, <2>1, MatchesOccur
<1>4. ASSUME NEW m \in Matches(pos, n)
      PROVE  x < m[1] \/ <<x, y>> = m
  <2>1. PICK l \in DOMAIN codec.delimiters, j \in Nat :
           pos <= j /\ j + Size(l) <= n /\ m = <<j, Size(l)>> /\ Occurs(l, j)
    BY <1>0, <1>4, MatchesOccur
  <2>2. q <= j
    BY <2>1, PlacedOccurs
  <2>3. PICK z \in Nat : z = Size(l) /\ z # 0
    BY SizeType
  <2>4. ~(j < x)
    <3>1. SUFFICES ASSUME j < x PROVE FALSE
      OBVIOUS
    <3>2. CASE j + z <= a
      <4>1. PICK g \in Nat : g = j - q /\ q + g = j
        BY <2>2
      <4>2. <<g, l>> \in Hits(b)
        BY <1>0, <2>1, <2>3, <3>2, <4>1, HitsOccur
      <4>3. <<i, k>>[1] < <<g, l>>[1] \/ <<i, k>>[1] = <<g, l>>[1]
        BY <4>2 DEF IsFirst
      <4>4. i < g \/ i = g
        BY <4>3
      <4> QED
        BY <1>2, <3>1, <4>1, <4>4
    <3>3. CASE ~(j + z <= a)
      <4>1. PICK o \in Nat : o = x - j /\ j + o = x
        BY <3>1
      <4>2. o + Size(k) < Size(l)
        BY <1>0, <1>1, <1>2, <2>3, <3>3, <4>1
      <4>3. Occurs(k, j + o)
        BY <1>1, <1>2, <4>1
      <4> QED
        BY <2>1, <4>2, <4>3, SeparateOccurs
    <3> QED
      BY <3>2, <3>3
  <2>5. CASE j = x
    <3>1. j + 0 = j
      OBVIOUS
    <3>2. ~(y < z)
      <4>1. y < z => 0 + Size(k) < Size(l) /\ Occurs(k, j + 0)
        BY <1>1, <1>2, <2>3, <2>5, <3>1
      <4> QED
        BY <2>1, <4>1, SeparateOccurs
    <3>3. ~(z < y)
      <4>1. z < y => 0 + Size(l) < Size(k) /\ Occurs(l, j + 0) /\ Occurs(k, j)
        BY <1>1, <1>2, <2>1, <2>3, <2>5, <3>1
      <4> QED
        BY <4>1, SeparateOccurs
    <3>4. y = z
      BY <3>2, <3>3
    <3> QED
      BY <2>1, <2>3, <2>5, <3>4
  <2>6. CASE j # x
    <3>1. x < j
      BY <2>4, <2>6
    <3> QED
      BY <2>1, <3>1
  <2> QED
    BY <2>5, <2>6
<1>5. <<x, y>> \in Earliest(Matches(pos, n))
  <2>1. \A o \in Matches(pos, n) : <<x, y>>[1] < o[1] \/ <<x, y>> = o
    BY <1>4
  <2> QED
    BY <1>3, <2>1 DEF Earliest
<1>6. ASSUME NEW m \in Earliest(Matches(pos, n)) PROVE m = <<x, y>>
  <2>1. m \in Matches(pos, n) /\ (m[1] < <<x, y>>[1] \/ m = <<x, y>>)
    BY <1>3, <1>6 DEF Earliest
  <2>2. PICK l \in DOMAIN codec.delimiters, j \in Nat :
           pos <= j /\ j + Size(l) <= n /\ m = <<j, Size(l)>> /\ Occurs(l, j)
    BY <1>0, <2>1, MatchesOccur
  <2>3. (j < x \/ m = <<x, y>>) /\ (x < j \/ <<x, y>> = m)
    BY <1>4, <2>1, <2>2
  <2> QED
    BY <2>3
<1> QED
  BY <1>2, <1>5, <1>6

(***************************************************************************)
(* What decode does with the unread bytes of the text, when byte pos ends  *)
(* the last piece, q bytes have been read and a bytes have arrived: it     *)
(* waits for more, discards what cannot be part of a frame, or takes the   *)
(* next piece of the text.                                                 *)
(***************************************************************************)
Waits(b, out, pos, a) ==
    /\ out.ends = "none" /\ ~out.fails /\ out.buffer = b /\ out.discard = discard
    /\ PiecesAfter(pos, a) = {}

Drops(out, pos, a) ==
    /\ out.ends = "none" /\ ~out.fails /\ out.discard.on
    /\ Skipped(pos, a) /\ HoldsAt(out.buffer, a, a)
    /\ PiecesAfter(pos, a) = {}

Takes(out, p, pos, q, a) ==
    /\ Sure(pos, p, a) /\ p.next \in q + 1 .. a
    /\ ~out.discard.on /\ HoldsAt(out.buffer, p.next, a)
    /\ \/ /\ p.size <= Limit /\ ~out.fails /\ out.ends = "frame"
          /\ out.frame = FrameFrom(p) /\ out.discard = discard
       \/ ~(p.size <= Limit) /\ out.fails /\ out.ends = "none"

Reads(b, out, pos, q, a) ==
    Waits(b, out, pos, a) \/ Drops(out, pos, a) \/ \E p : Takes(out, p, pos, q, a)

LEMMA FixedReads ==
    ASSUME setup \in Setups, discard \in Discards, codec.kind = "fixed", NEW b, IsBuffer(b),
           NEW a \in 0 .. Len(setup.stream), NEW pos \in 0 .. a, NEW q \in 0 .. a,
           HoldsAt(b, q, a), Placed(pos, q, discard.on)
    PROVE  Reads(b, FixedLength(b), pos, q, a)
<1>0. codec.length \in Nat \ {0} /\ Limit = codec.length
  BY FixedSetup
<1>1. readableBytes(b) = a - q /\ a \in Nat /\ pos \in Nat /\ q \in Nat
  BY StreamType DEF HoldsAt
<1>2. ~discard.on /\ q = pos
  BY DEF Placed, Skipped
<1>3. PICK l \in Nat : l = codec.length /\ l # 0
  BY <1>0
<1>4. PICK p : p = PieceOf(pos + 1, pos + l, l, pos + l)
  OBVIOUS
<1>5. p.first = pos + 1 /\ p.last = pos + l /\ p.size = l /\ p.next = pos + l
  BY <1>4, PieceOfIs
<1>6. \A n : PiecesAfter(pos, n) = {x \in {p} : x.next <= n}
  BY <1>3, <1>4 DEF PiecesAfter, FixedPieces
<1>7. CASE readableBytes(b) < codec.length
  <2>1. FixedLength(b) = NoFrame(b)
    BY <1>7 DEF FixedLength
  <2>2. /\ NoFrame(b).buffer = b /\ NoFrame(b).ends = "none" /\ NoFrame(b).fails = FALSE
        /\ NoFrame(b).discard = discard
    BY DEF NoFrame, Outcome
  <2>3. ~(p.next <= a)
    BY <1>1, <1>2, <1>3, <1>5, <1>7
  <2>4. PiecesAfter(pos, a) = {}
    BY <1>6, <2>3
  <2> QED
    BY <2>1, <2>2, <2>4 DEF Reads, Waits
<1>8. CASE ~(readableBytes(b) < codec.length)
  <2>1. l \in 0 .. readableBytes(b) /\ p.next \in q + 1 .. a
    BY <1>1, <1>2, <1>3, <1>5, <1>8
  <2>2. PICK c, f : c = skipBytes(b, l) /\ f = Bytes(b, l)
    OBVIOUS
  <2>3. PICK out : out = FixedLength(b)
    OBVIOUS
  <2>4. out = Frame(c, f)
    BY <1>3, <1>8, <2>2, <2>3 DEF FixedLength
  <2>5. /\ out.buffer = c /\ out.ends = "frame" /\ out.fails = FALSE /\ out.discard = discard
        /\ out.frame = f
    BY <2>4 DEF Frame, Outcome
  <2>6. HoldsAt(c, p.next, a)
    BY <1>1, <1>2, <1>5, <2>1, <2>2, HoldsSkip
  <2>7. f = FrameFrom(p)
    <3>1. Bytes(b, l) = SubSeq(setup.stream, q + 1, q + l)
      BY <1>1, <2>1, HoldsFrame
    <3> QED
      BY <1>2, <1>5, <2>2, <3>1 DEF FrameFrom
  <2>8. Sure(pos, p, a)
    <3>1. ASSUME NEW n \in Later(a) PROVE PiecesAfter(pos, n) = {p}
      <4>1. n \in Nat /\ a <= n
        BY LaterIs
      <4>2. p.next <= n
        BY <1>1, <2>1, <4>1
      <4> QED
        BY <1>6, <4>2
    <3> QED
      BY <3>1 DEF Sure
  <2>9. p.size <= Limit
    BY <1>0, <1>3, <1>5
  <2>10. Takes(out, p, pos, q, a)
    BY <1>2, <2>1, <2>5, <2>6, <2>7, <2>8, <2>9 DEF Takes
  <2> QED
    BY <2>3, <2>10 DEF Reads
<1> QED
  BY <1>7, <1>8

LEMMA RobustDelimiter ==
    ASSUME setup \in Setups, codec.kind = "delimiter", Robust
    PROVE  /\ Separate(codec.delimiters)
           /\ codec.max >= Len(setup.stream) \/ \A d \in Range(codec.delimiters) : Len(d) = 1
BY DEF Robust

LEMMA DelimiterReads ==
    ASSUME setup \in Setups, discard \in Discards, codec.kind = "delimiter", Robust,
           NEW b, IsBuffer(b),
           NEW a \in 0 .. Len(setup.stream), NEW pos \in 0 .. a, NEW q \in 0 .. a, pos <= q,
           HoldsAt(b, q, a), Placed(pos, q, discard.on)
    PROVE  Reads(b, Delimiter(b), pos, q, a)
<1>0. codec.max \in Nat /\ Limit = codec.max /\ codec.strip \in BOOLEAN
  BY DelimiterSetup
<1>1. /\ readableBytes(b) = a - q /\ a \in Nat /\ pos \in Nat /\ q \in Nat
      /\ readableBytes(b) \in Nat /\ readableBytes(b) \in 0 .. readableBytes(b)
      /\ Len(setup.stream) \in Nat /\ a <= Len(setup.stream)
  BY StreamType DEF HoldsAt
<1>2. PICK out : out = Delimiter(b)
  OBVIOUS
<1>3. CASE Hits(b) = {}
  <2>1. /\ \A k \in DOMAIN codec.delimiters, j \in Nat :
              ~(pos <= j /\ j + Size(k) <= a /\ Occurs(k, j))
        /\ PiecesAfter(pos, a) = {}
    BY <1>1, <1>3, NoMatch
  <2>2. CASE discard.on \/ readableBytes(b) > codec.max
    <3>1. PICK c, d : c = skipBytes(b, readableBytes(b)) /\ d = [discard EXCEPT !.on = TRUE]
      OBVIOUS
    <3>2. out = Outcome(c, d, FALSE, "none", <<>>)
      BY <1>2, <1>3, <2>2, <3>1, DelimiterIs DEF NoDelimiter
    <3>3. out.buffer = c /\ out.discard = d /\ out.fails = FALSE /\ out.ends = "none"
      BY <3>2 DEF Outcome
    <3>4. d.on
      BY <3>1 DEF Discards
    <3>5. HoldsAt(c, a, a)
      <4>1. HoldsAt(c, q + readableBytes(b), a)
        BY <1>1, <3>1, HoldsSkip
      <4>2. q + readableBytes(b) = a
        BY <1>1
      <4> QED
        BY <4>1, <4>2
    <3>6. a - pos > codec.max /\ \A e \in Range(codec.delimiters) : Len(e) = 1
      <4>1. CASE discard.on
        <5>1. Skipped(pos, q)
          BY <4>1 DEF Placed
        <5>2. q - pos > codec.max /\ \A e \in Range(codec.delimiters) : Len(e) = 1
          BY <5>1 DEF Skipped
        <5>3. a - pos > codec.max
          BY <1>0, <1>1, <5>2
        <5> QED
          BY <5>2, <5>3
      <4>2. CASE ~discard.on
        <5>1. q = pos /\ readableBytes(b) > codec.max
          BY <2>2, <4>2 DEF Placed
        <5>2. a - pos > codec.max /\ ~(codec.max >= Len(setup.stream))
          BY <1>0, <1>1, <5>1
        <5> QED
          BY <5>2, RobustDelimiter
      <4> QED
        BY <4>1, <4>2
    <3>7. ASSUME NEW e \in Range(codec.delimiters), NEW j \in pos .. a - 1
          PROVE  setup.stream[j + 1] # e[1]
      <4>1. PICK k \in DOMAIN codec.delimiters : e = codec.delimiters[k]
        BY DEF Range
      <4>2. Size(k) = 1
        BY <3>6, <4>1 DEF Size
      <4>3. j \in Nat /\ pos <= j /\ j + Size(k) <= a
        BY <1>1, <4>2
      <4>4. ~Occurs(k, j)
        BY <2>1, <4>3
      <4>5. \A i \in 1 .. 1 : i = 1
        OBVIOUS
      <4> QED
        BY <4>1, <4>2, <4>4, <4>5 DEF Occurs
    <3>8. Skipped(pos, a)
      BY <3>6, <3>7 DEF Skipped
    <3>9. Drops(out, pos, a)
      BY <2>1, <3>3, <3>4, <3>5, <3>8 DEF Drops
    <3> QED
      BY <1>2, <3>9 DEF Reads
  <2>3. CASE ~(discard.on \/ readableBytes(b) > codec.max)
    <3>1. out = NoFrame(b)
      BY <1>2, <1>3, <2>3, DelimiterIs DEF NoDelimiter
    <3>2. out.buffer = b /\ out.ends = "none" /\ out.fails = FALSE /\ out.discard = discard
      BY <3>1 DEF NoFrame, Outcome
    <3>3. Waits(b, out, pos, a)
      BY <2>1, <3>2 DEF Waits
    <3> QED
      BY <1>2, <3>3 DEF Reads
  <2> QED
    BY <2>2, <2>3
<1>4. CASE Hits(b) # {}
  <2>1. /\ Hit(b) \in Hits(b) /\ IsFirst(Hit(b), Hits(b))
        /\ Hit(b)[1] \in Nat /\ Hit(b)[2] \in DOMAIN codec.delimiters
        /\ Total(b) \in 1 .. readableBytes(b) /\ Hit(b)[1] < Total(b)
    BY <1>4, HitFacts
  <2>2. PICK i \in Nat, k \in DOMAIN codec.delimiters : i = Hit(b)[1] /\ k = Hit(b)[2]
    BY <2>1
  <2>3. Hit(b) = <<i, k>>
    <3>1. PICK l \in DOMAIN codec.delimiters :
             \E j \in Found(b, codec.delimiters[l]) : Hit(b) = <<j, l>>
      BY <2>1, HitsAre
    <3>2. PICK j : Hit(b) = <<j, l>>
      BY <3>1
    <3> QED
      BY <2>2, <3>2
  <2>4. PICK t \in Nat : t = Total(b)
    BY <1>1, <2>1
  <2>5. /\ t \in 0 .. readableBytes(b) /\ i \in 0 .. readableBytes(b) /\ t # 0
        /\ t = i + Size(k) /\ i < t
    BY <1>1, <2>1, <2>2, <2>4 DEF Total, Size
  <2>6. <<i, k>> \in Hits(b) /\ IsFirst(<<i, k>>, Hits(b))
    BY <2>1, <2>3
  <2>7. PICK m : m = <<q + i, Size(k)>>
    OBVIOUS
  <2>8. \A n \in Later(a) : Earliest(Matches(pos, n)) = {m}
    BY <1>1, <2>6, <2>7, FirstMatch, RobustDelimiter
  <2>9. PICK p : p = Delimited(pos, m)
    OBVIOUS
  <2>10. m[1] + m[2] = q + t /\ m[1] = q + i
    <3>1. Size(k) \in Nat
      BY SizeType
    <3>2. m[1] = q + i /\ m[2] = Size(k)
      BY <2>7
    <3> QED
      BY <1>1, <2>5, <3>1, <3>2
  <2>11. /\ p.first = pos + 1 /\ p.last = (IF codec.strip THEN q + i ELSE q + t)
         /\ p.size = (q + i) - pos /\ p.next = q + t
    BY <2>9, <2>10, PieceOfIs DEF Delimited
  <2>12. p.next \in q + 1 .. a
    BY <1>1, <2>5, <2>11
  <2>13. Sure(pos, p, a)
    <3>1. ASSUME NEW n \in Later(a) PROVE PiecesAfter(pos, n) = {p}
      <4>1. n \in Nat /\ a <= n
        BY LaterIs
      <4>2. p.next <= n
        BY <1>1, <2>12, <4>1
      <4>3. DelimitedPieces(pos, n) = {p}
        BY <2>8, <2>9, DelimitedPiecesAre
      <4> QED
        BY <4>2, <4>3 DEF PiecesAfter
    <3> QED
      BY <3>1 DEF Sure
  <2>14. HoldsAt(skipBytes(b, t), p.next, a) /\ HoldsAt(AfterReadBytes(b, t), p.next, a)
    BY <1>1, <2>5, <2>11, HoldsSkip
  <2>15. CASE discard.on \/ Hit(b)[1] > codec.max
    <3>1. PICK d : d = [discard EXCEPT !.on = FALSE]
      OBVIOUS
    <3>2. ~d.on
      BY <3>1 DEF Discards
    <3>3. out = Outcome(skipBytes(b, t), d, TRUE, "none", <<>>)
      BY <1>2, <1>4, <2>4, <2>15, <3>1, DelimiterIs
    <3>4. out.buffer = skipBytes(b, t) /\ out.discard = d /\ out.fails = TRUE /\ out.ends = "none"
      BY <3>3 DEF Outcome
    <3>5. ~(p.size <= Limit)
      <4>1. CASE discard.on
        <5>1. q - pos > codec.max
          BY <4>1 DEF Placed, Skipped
        <5> QED
          BY <1>0, <1>1, <2>11, <5>1
      <4>2. CASE ~discard.on
        <5>1. q = pos /\ i > codec.max
          BY <2>2, <2>15, <4>2 DEF Placed
        <5> QED
          BY <1>0, <1>1, <2>11, <5>1
      <4> QED
        BY <4>1, <4>2
    <3>6. Takes(out, p, pos, q, a)
      BY <2>12, <2>13, <2>14, <3>2, <3>4, <3>5 DEF Takes
    <3> QED
      BY <1>2, <3>6 DEF Reads
  <2>16. CASE ~(discard.on \/ Hit(b)[1] > codec.max)
    <3>1. PICK c, f : /\ c = IF codec.strip THEN skipBytes(b, t) ELSE AfterReadBytes(b, t)
                      /\ f = Bytes(b, IF codec.strip THEN i ELSE t)
      OBVIOUS
    <3>2. out = Frame(c, f)
      BY <1>2, <1>4, <2>2, <2>4, <2>16, <3>1, DelimiterIs
    <3>3. /\ out.buffer = c /\ out.ends = "frame" /\ out.fails = FALSE /\ out.discard = discard
          /\ out.frame = f
      BY <3>2 DEF Frame, Outcome
    <3>4. q = pos /\ ~discard.on /\ ~(i > codec.max)
      BY <2>2, <2>16 DEF Placed
    <3>5. p.size <= Limit
      BY <1>0, <1>1, <2>11, <3>4
    <3>6. f = FrameFrom(p)
      <4>1. /\ Bytes(b, i) = SubSeq(setup.stream, q + 1, q + i)
            /\ Bytes(b, t) = SubSeq(setup.stream, q + 1, q + t)
        BY <1>1, <2>5, HoldsFrame
      <4> QED
        BY <2>11, <3>1, <3>4, <4>1 DEF FrameFrom
    <3>7. HoldsAt(c, p.next, a)
      BY <2>14, <3>1
    <3>8. Takes(out, p, pos, q, a)
      BY <2>12, <2>13, <3>3, <3>4, <3>5, <3>6, <3>7 DEF Takes
    <3> QED
      BY <1>2, <3>8 DEF Reads
  <2> QED
    BY <2>15, <2>16
<1> QED
  BY <1>3, <1>4

LEMMA DecodeReads ==
    ASSUME setup \in Setups, discard \in Discards, Robust, NEW b, IsBuffer(b),
           NEW a \in 0 .. Len(setup.stream), NEW pos \in 0 .. a, NEW q \in 0 .. a, pos <= q,
           HoldsAt(b, q, a), Placed(pos, q, discard.on)
    PROVE  Reads(b, decode(b), pos, q, a)
<1>1. CASE codec.kind = "fixed"
  BY <1>1, FixedReads DEF decode
<1>2. CASE codec.kind = "delimiter"
  BY <1>2, DelimiterReads DEF decode
<1> QED
  BY <1>1, <1>2 DEF Robust

(***************************************************************************)
(* Along the way: the pieces up to byte pos have been sent upstream, and   *)
(* the unread bytes are those of the text after byte q, which is pos       *)
(* unless a too long frame is discarded.  When the channel is closed the   *)
(* rest is dropped.                                                        *)
(***************************************************************************)
Rest == IF setup.own \/ OnInput THEN input ELSE cumulation

Gone(pos, a, i, c) ==
    readableBytes(i) = 0 /\ readableBytes(c) = 0 /\ PiecesAfter(pos, a) = {}

Here(pos, q, a, on, rest, i, c, isOpen, none) ==
    /\ q \in 0 .. a /\ pos \in 0 .. q
    /\ Placed(pos, q, on)
    /\ HoldsAt(rest, q, a) \/ (~isOpen /\ Gone(pos, a, i, c))
    /\ none => PiecesAfter(pos, a) = {}

LostOnly(ls) == ls # {} => codec.kind = "delimiter" /\ ~codec.strip

DivideInv ==
    Robust /\ ~fault =>
        /\ \E pos, q : /\ CountedAt(pos, arrived, frames, reports)
                       /\ Here(pos, q, arrived, discard.on, Rest, input, cumulation, open, calls = <<>>)
        /\ LostOnly(lost)

LEMMA SameDivision ==
    ASSUME setup' = setup, NEW n
    PROVE  Division(n)' = Division(n)
BY DEF Division, Limit, PiecesAfter, FixedPieces, DelimitedPieces, Matches, codec,
       PieceOf, Range

LEMMA SameCount ==
    ASSUME setup' = setup, NEW pos, CountedAt(pos, arrived', frames', reports')
    PROVE  CountedAt(pos, arrived, frames, reports)'
<1>1. PICK a, fs, rs : a = arrived' /\ fs = frames' /\ rs = reports'
  OBVIOUS
<1>2. ASSUME NEW n \in Later(a)
      PROVE  /\ Division(n)'[0].frames = fs \o Division(n)'[pos].frames
             /\ Division(n)'[0].long = rs + Division(n)'[pos].long
  <2>1. Division(n)' = Division(n)
    BY SameDivision
  <2>2. /\ Division(n)[0].frames = fs \o Division(n)[pos].frames
        /\ Division(n)[0].long = rs + Division(n)[pos].long
    BY <1>1 DEF CountedAt
  <2> QED
    BY <2>1, <2>2
<1>3. Later(arrived)' = Later(a)
  BY <1>1 DEF Later
<1> QED
  BY <1>1, <1>2, <1>3 DEF CountedAt

LEMMA SamePlace ==
    ASSUME setup' = setup, NEW pos, NEW q,
           Here(pos, q, arrived', discard'.on, Rest', input', cumulation', open', calls' = <<>>)
    PROVE  Here(pos, q, arrived, discard.on, Rest, input, cumulation, open, calls = <<>>)'
<1>1. PiecesAfter(pos, arrived)' = PiecesAfter(pos, arrived')
  <2>1. PICK a : a = arrived'
    OBVIOUS
  <2> QED
    BY <2>1 DEF PiecesAfter, FixedPieces, DelimitedPieces, Matches, codec, PieceOf, Range
<1>2. Placed(pos, q, discard.on)' <=> Placed(pos, q, discard'.on)
  BY DEF Placed, Skipped, codec, Range
<1>3. HoldsAt(Rest, q, arrived)' <=> HoldsAt(Rest', q, arrived')
  BY DEF HoldsAt, readableBytes
<1>4. Gone(pos, arrived, input, cumulation)' <=> Gone(pos, arrived', input', cumulation')
  BY <1>1 DEF Gone, readableBytes
<1> QED
  BY <1>1, <1>2, <1>3, <1>4 DEF Here

LEMMA DivideWhen ==
    ASSUME setup' = setup,
           ASSUME Robust, ~fault'
           PROVE  /\ \E pos, q :
                        /\ CountedAt(pos, arrived', frames', reports')
                        /\ Here(pos, q, arrived', discard'.on, Rest', input', cumulation', open',
                                calls' = <<>>)
                  /\ LostOnly(lost')
    PROVE  DivideInv'
<1>1. Robust' <=> Robust
  BY DEF Robust, codec, Separate, Range
<1>2. LostOnly(lost)' <=> LostOnly(lost')
  BY DEF LostOnly, codec
<1> QED
  BY <1>1, <1>2, SameCount, SamePlace DEF DivideInv

DecodeInv == BoundInv /\ DivideInv

LEMMA DecodeFacts ==
    ASSUME DecodeInv
    PROVE  /\ TypeOK /\ CallsInv /\ PlaceInv /\ setup \in Setups
           /\ arrived \in 0 .. Len(setup.stream) /\ arrived \in Nat
           /\ frames \in Seq(Seq(0 .. 255)) /\ reports \in Nat
           /\ Robust => codec.kind # "length"
<1>1. TypeOK /\ CallsInv /\ PlaceInv
  BY DEF DecodeInv, BoundInv
<1>2. setup \in Setups /\ arrived \in 0 .. Len(setup.stream)
  BY <1>1 DEF TypeOK
<1>3. arrived \in Nat
  BY <1>2, StreamType
<1> QED
  BY <1>1, <1>2, <1>3 DEF TypeOK, Robust

LEMMA BufferIsRest ==
    ASSUME DecodeInv, Robust, ~fault, calls # <<>>
    PROVE  /\ readableBytes(Buffer) > 0 \/ Call.on = "input" \/ ~OnInput => Buffer = Rest
           /\ IsBuffer(Buffer) /\ readableBytes(Buffer) \in Nat
           /\ Decides(Buffer, decode(Buffer)) /\ discard \in Discards
<1>0. TypeOK /\ CallsInv /\ PlaceInv /\ codec.kind # "length" /\ setup \in Setups
  BY DecodeFacts
<1>1. /\ Call.on = "input" => OnInput /\ Buffer = input
      /\ Call.on # "input" => /\ ~setup.own /\ Buffer = cumulation
                              /\ OnInput => readableBytes(cumulation) = 0
  BY <1>0, Rests
<1>2. IsBuffer(Buffer) /\ discard \in Discards
  BY <1>0, Running
<1>3. readableBytes(Buffer) \in Nat
  BY <1>2, Readable
<1>4. Decides(Buffer, decode(Buffer))
  BY <1>0, <1>2, DecodeDecides
<1>5. readableBytes(Buffer) > 0 \/ Call.on = "input" \/ ~OnInput => Buffer = Rest
  <2>1. CASE Call.on = "input"
    BY <1>1, <2>1 DEF Rest
  <2>2. CASE Call.on # "input"
    <3>1. readableBytes(Buffer) > 0 => ~OnInput
      BY <1>1, <2>2
    <3> QED
      BY <1>1, <2>2, <3>1 DEF Rest
  <2> QED
    BY <2>1, <2>2
<1> QED
  BY <1>2, <1>3, <1>4, <1>5

(* What the text says of the call of decode on the unread bytes. *)
LEMMA RestReads ==
    ASSUME DecodeInv, Robust, ~fault, calls # <<>>, NEW pos, NEW q,
           Here(pos, q, arrived, discard.on, Rest, input, cumulation, open, calls = <<>>),
           Buffer = Rest
    PROVE  \/ Reads(Buffer, decode(Buffer), pos, q, arrived) /\ HoldsAt(Buffer, q, arrived)
           \/ ~open /\ Gone(pos, arrived, input, cumulation) /\ readableBytes(Buffer) = 0
<1>0. setup \in Setups /\ arrived \in 0 .. Len(setup.stream) /\ arrived \in Nat
  BY DecodeFacts
<1>1. IsBuffer(Buffer) /\ discard \in Discards
  BY BufferIsRest
<1>2. q \in 0 .. arrived /\ pos \in 0 .. q /\ Placed(pos, q, discard.on)
  BY DEF Here
<1>3. pos \in 0 .. arrived /\ pos <= q
  BY <1>0, <1>2
<1>4. CASE HoldsAt(Rest, q, arrived)
  <2>1. PICK b, a : b = Buffer /\ a = arrived
    OBVIOUS
  <2>2. /\ IsBuffer(b) /\ a \in 0 .. Len(setup.stream) /\ q \in 0 .. a /\ pos \in 0 .. a
        /\ HoldsAt(b, q, a)
    BY <1>0, <1>1, <1>2, <1>3, <1>4, <2>1
  <2>3. Reads(b, decode(b), pos, q, a)
    BY <1>0, <1>1, <1>2, <1>3, <2>2, DecodeReads
  <2> QED
    BY <2>1, <2>2, <2>3
<1>5. CASE ~open /\ Gone(pos, arrived, input, cumulation)
  BY <1>5 DEF Gone, Buffer
<1> QED
  BY <1>4, <1>5 DEF Here

LEMMA SentFrames ==
    ASSUME TypeOK, NEW first, NEW second, Sent(first, second),
           first.ends = "none", ~first.fails
    PROVE  /\ second.ends = "frame" /\ ~second.fails =>
                 frames' = frames \o <<second.frame>> /\ reports' = reports
           /\ second.ends = "none" /\ ~second.fails => frames' = frames /\ reports' = reports
           /\ second.ends = "none" /\ second.fails => frames' = frames /\ reports' = reports + 1
<1>1. frames \in Seq(Seq(0 .. 255)) /\ reports \in Nat
  BY DEF TypeOK
<1>2. frames \o <<>> = frames
  BY <1>1, ConcatEmptySeq
<1>3. FrameOf(first) = <<>> /\ Reports(first) = 0
  BY DEF FrameOf, Reports
<1>4. frames' = frames \o FrameOf(second) /\ reports' = reports + Reports(second)
  BY <1>1, <1>2, <1>3 DEF Sent, Reports
<1>5. CASE second.ends = "frame" /\ ~second.fails
  <2>1. FrameOf(second) = <<second.frame>> /\ Reports(second) = 0
    BY <1>5 DEF FrameOf, Reports
  <2> QED
    BY <1>1, <1>4, <1>5, <2>1
<1>6. CASE second.ends = "none" /\ ~second.fails
  <2>1. FrameOf(second) = <<>> /\ Reports(second) = 0
    BY <1>6 DEF FrameOf, Reports
  <2> QED
    BY <1>1, <1>2, <1>4, <1>6, <2>1
<1>7. CASE second.ends = "none" /\ second.fails
  <2>1. FrameOf(second) = <<>> /\ Reports(second) = 1
    BY <1>7 DEF FrameOf, Reports
  <2> QED
    BY <1>1, <1>2, <1>4, <1>7, <2>1
<1> QED
  BY <1>5, <1>6, <1>7

LEMMA NoFrameIs ==
    ASSUME NEW b
    PROVE  NoFrame(b).ends = "none" /\ ~NoFrame(b).fails /\ NoFrame(b).discard = discard
           /\ NoFrame(b).buffer = b
BY DEF NoFrame, Outcome

LEMMA ReceiveDivide ==
    ASSUME DecodeInv, NEW n \in 1 .. Len(setup.stream), Receive(n)
    PROVE  DivideInv'
<1>0. /\ TypeOK /\ setup \in Setups /\ arrived \in 0 .. Len(setup.stream) /\ arrived \in Nat
      /\ PlaceInv /\ CallsInv
  BY DecodeFacts
<1>1. /\ open /\ calls = <<>> /\ ~fault /\ setup' = setup /\ open' = open /\ discard' = discard
      /\ arrived + n <= Len(setup.stream) /\ arrived' = arrived + n
      /\ frames' = frames /\ reports' = reports /\ lost' = lost
      /\ ReceiveOwn(n) \/ ReceivePiece(n)
  BY DEF Receive, upstream
<1>2. SUFFICES ASSUME Robust
               PROVE  /\ \E pos, q :
                            /\ CountedAt(pos, arrived', frames', reports')
                            /\ Here(pos, q, arrived', discard'.on, Rest', input', cumulation', open',
                                    calls' = <<>>)
                      /\ LostOnly(lost')
  BY <1>1, DivideWhen
<1>3. PICK pos, q :
         /\ CountedAt(pos, arrived, frames, reports)
         /\ Here(pos, q, arrived, discard.on, Rest, input, cumulation, open, calls = <<>>)
  BY <1>1, <1>2 DEF DecodeInv, DivideInv
<1>4. /\ q \in 0 .. arrived /\ pos \in 0 .. q /\ Placed(pos, q, discard.on)
      /\ HoldsAt(Rest, q, arrived)
  BY <1>1, <1>3 DEF Here
<1>5. n \in Nat /\ Piece(n) \in Seq(0 .. 255) /\ Len(Piece(n)) = n
      /\ \A i \in 1 .. n : Piece(n)[i] = setup.stream[arrived + i]
  BY <1>0, <1>1, PieceType
<1>6. IsBuffer(input) /\ IsBuffer(cumulation)
  BY <1>0, <1>1, Running
<1>7. ~OnInput
  BY <1>1 DEF OnInput
<1>8. q \in Nat /\ q \in 0 .. arrived'
  BY <1>0, <1>1, <1>4, <1>5
<1>9. PICK s : s = Piece(n)
  OBVIOUS
<1>10. s \in Seq(0 .. 255) /\ Len(s) = n /\ \A i \in 1 .. Len(s) : s[i] = setup.stream[arrived + i]
  BY <1>5, <1>9
<1>11. ASSUME NEW b, IsBuffer(b), HoldsAt(b, q, arrived)
       PROVE  HoldsAt(writeBytes(b, s), q, arrived + n)
  <2>1. PICK a \in Nat : a = arrived
    BY <1>0
  <2>2. HoldsAt(b, q, a) /\ \A i \in 1 .. Len(s) : s[i] = setup.stream[a + i]
    BY <1>10, <1>11, <2>1
  <2>3. HoldsAt(writeBytes(b, s), q, a + Len(s))
    BY <1>8, <1>10, <1>11, <2>2, HoldsWritten
  <2> QED
    BY <1>10, <2>1, <2>3
<1>12. HoldsAt(Rest', q, arrived') /\ calls' # <<>>
  <2>1. CASE ReceiveOwn(n)
    <3>1. setup.own /\ input' = writeBytes(input, s) /\ calls' # <<>>
      BY <1>9, <2>1 DEF ReceiveOwn
    <3>2. Rest = input /\ Rest' = input'
      BY <1>1, <3>1 DEF Rest
    <3> QED
      BY <1>1, <1>4, <1>6, <1>11, <3>1, <3>2
  <2>2. CASE ReceivePiece(n) /\ readableBytes(cumulation) > 0
    <3>1. /\ ~setup.own /\ cumulation' = writeBytes(discardReadBytes(cumulation), s)
          /\ calls' = <<[on |-> "cumulation", event |-> "none"]>>
      BY <1>6, <1>9, <2>2, Readable DEF ReceivePiece
    <3>2. ~OnInput' /\ calls' # <<>>
      BY <3>1 DEF OnInput
    <3>3. Rest = cumulation /\ Rest' = cumulation'
      BY <1>1, <1>7, <3>1, <3>2 DEF Rest
    <3>4. HoldsAt(discardReadBytes(cumulation), q, arrived) /\ IsBuffer(discardReadBytes(cumulation))
      BY <1>0, <1>4, <1>6, <1>8, <3>3, HoldsCompacted, Compacted
    <3> QED
      BY <1>1, <1>11, <3>1, <3>2, <3>3, <3>4
  <2>3. CASE ReceivePiece(n) /\ ~(readableBytes(cumulation) > 0)
    <3>1. /\ ~setup.own /\ input' = [bytes |-> s, reader |-> 0]
          /\ calls' = <<[on |-> "input", event |-> "none"]>> /\ readableBytes(cumulation) = 0
      BY <1>6, <1>9, <2>3, Readable DEF ReceivePiece
    <3>2. OnInput' /\ calls' # <<>>
      BY <3>1 DEF OnInput
    <3>3. Rest = cumulation /\ Rest' = input'
      BY <1>1, <1>7, <3>1, <3>2 DEF Rest
    <3>4. q = arrived
      BY <1>0, <1>4, <1>8, <3>1, <3>3 DEF HoldsAt
    <3>5. readableBytes(input') = n /\ input'.reader = 0 /\ input'.bytes = s
      BY <1>5, <1>10, <3>1 DEF readableBytes
    <3>6. n = (arrived + n) - q
      BY <1>0, <1>5, <3>4
    <3>7. \A i \in 1 .. n : input'.bytes[input'.reader + i] = setup.stream[q + i]
      <4>1. \A i \in 1 .. n : 0 + i = i
        OBVIOUS
      <4> QED
        BY <1>10, <3>4, <3>5, <4>1
    <3>8. HoldsAt(input', q, arrived + n)
      BY <3>5, <3>6, <3>7 DEF HoldsAt
    <3> QED
      BY <1>1, <3>2, <3>3, <3>8
  <2> QED
    BY <1>1, <2>1, <2>2, <2>3
<1>13. CountedAt(pos, arrived', frames', reports')
  <2>1. ASSUME NEW m \in Later(arrived') PROVE m \in Later(arrived)
    BY <1>0, <1>1, <1>5 DEF Later
  <2>2. CountedAt(pos, arrived', frames, reports)
    BY <1>3, <2>1 DEF CountedAt
  <2> QED
    BY <1>1, <2>2
<1>14. Here(pos, q, arrived', discard'.on, Rest', input', cumulation', open', calls' = <<>>)
  BY <1>1, <1>4, <1>8, <1>12 DEF Here
<1>15. LostOnly(lost')
  BY <1>1, <1>2 DEF DecodeInv, DivideInv, LostOnly
<1> QED
  BY <1>13, <1>14, <1>15

(* decode takes a piece of the text: its frame, or its report, is the next. *)
LEMMA TakenCounts ==
    ASSUME DecodeInv, Robust, NEW pos, NEW q, q \in 0 .. arrived, pos \in 0 .. q,
           CountedAt(pos, arrived, frames, reports), NEW out, NEW p,
           Takes(out, p, pos, q, arrived)
    PROVE  /\ out.ends = "frame" => CountedAt(p.next, arrived, frames \o <<out.frame>>, reports)
           /\ out.ends = "none" => CountedAt(p.next, arrived, frames, reports + 1)
           /\ p.next \in 0 .. arrived /\ p.next \in 0 .. p.next /\ Placed(p.next, p.next, FALSE)
<1>0. /\ setup \in Setups /\ arrived \in 0 .. Len(setup.stream) /\ arrived \in Nat
      /\ frames \in Seq(Seq(0 .. 255)) /\ reports \in Nat /\ codec.kind # "length"
  BY DecodeFacts
<1>1. PICK a, fs, rs : a = arrived /\ fs = frames /\ rs = reports
  OBVIOUS
<1>2. /\ a \in 0 .. Len(setup.stream) /\ fs \in Seq(Seq(0 .. 255)) /\ rs \in Nat /\ a \in Nat
      /\ CountedAt(pos, a, fs, rs) /\ Takes(out, p, pos, q, a) /\ q \in 0 .. a
  BY <1>0, <1>1
<1>3. pos \in 0 .. a
  BY <1>2
<1>4. Sure(pos, p, a) /\ p.next \in q + 1 .. a
  BY <1>2 DEF Takes
<1>5. PICK x : x = p.next
  OBVIOUS
<1>6. x \in 0 .. a /\ x <= a /\ x \in 0 .. x
  BY <1>2, <1>4, <1>5
<1>7. /\ p.size <= Limit => CountedAt(p.next, a, fs \o <<FrameFrom(p)>>, rs)
      /\ ~(p.size <= Limit) => CountedAt(p.next, a, fs, rs + 1)
  BY <1>0, <1>2, <1>3, <1>4, <1>5, <1>6, CountPiece
<1>8. /\ out.ends = "frame" => p.size <= Limit /\ out.frame = FrameFrom(p)
      /\ out.ends = "none" => ~(p.size <= Limit)
  BY <1>2 DEF Takes
<1>9. Placed(p.next, p.next, FALSE)
  BY DEF Placed
<1> QED
  BY <1>1, <1>5, <1>6, <1>7, <1>8, <1>9

LEMMA IterateDivide ==
    ASSUME DecodeInv, Iterate
    PROVE  DivideInv'
<1>0. /\ TypeOK /\ setup \in Setups /\ arrived \in Nat
  BY DecodeFacts
<1>1. ~fault /\ calls # <<>> /\ readableBytes(Buffer) > 0
  BY DEF Iterate
<1>2. PICK out : out = decode(Buffer)
  OBVIOUS
<1>3. /\ CanContinue(out) /\ Becomes(out.buffer) /\ discard' = out.discard
      /\ Sent(NoFrame(Buffer), out)
      /\ UNCHANGED <<setup, arrived, made, calls, lost, open, passed>>
  BY <1>2 DEF Iterate
<1>4. SUFFICES ASSUME Robust
               PROVE  /\ \E pos, q :
                            /\ CountedAt(pos, arrived', frames', reports')
                            /\ Here(pos, q, arrived', discard'.on, Rest', input', cumulation', open',
                                    calls' = <<>>)
                      /\ LostOnly(lost')
  BY <1>3, DivideWhen
<1>5. PICK pos, q :
         /\ CountedAt(pos, arrived, frames, reports)
         /\ Here(pos, q, arrived, discard.on, Rest, input, cumulation, open, calls = <<>>)
  BY <1>1, <1>4 DEF DecodeInv, DivideInv
<1>6. q \in 0 .. arrived /\ pos \in 0 .. q
  BY <1>5 DEF Here
<1>7. Buffer = Rest
  BY <1>1, <1>4, BufferIsRest
<1>8. Reads(Buffer, out, pos, q, arrived)
  BY <1>1, <1>2, <1>4, <1>5, <1>7, RestReads
<1>9. Rest' = out.buffer
  <2>1. OnInput' <=> OnInput
    BY <1>3 DEF OnInput
  <2>2. /\ Call.on = "input" => OnInput
        /\ Call.on # "input" => ~setup.own /\ Buffer = cumulation
                                /\ (OnInput => readableBytes(cumulation) = 0)
    BY <1>0, <1>1, <1>4, Rests, DecodeFacts
  <2>3. CASE Call.on = "input"
    BY <1>3, <2>1, <2>2, <2>3 DEF Becomes, Rest
  <2>4. CASE Call.on # "input"
    <3>1. ~OnInput /\ ~setup.own
      BY <1>1, <2>2, <2>4
    <3> QED
      BY <1>3, <2>1, <2>4, <3>1 DEF Becomes, Rest
  <2> QED
    BY <2>3, <2>4
<1>10. LostOnly(lost')
  BY <1>1, <1>3, <1>4 DEF DecodeInv, DivideInv, LostOnly
<1>11. NoFrame(Buffer).ends = "none" /\ ~NoFrame(Buffer).fails
  BY NoFrameIs
<1>12. /\ out.ends = "frame" /\ ~out.fails => frames' = frames \o <<out.frame>> /\ reports' = reports
       /\ out.ends = "none" /\ ~out.fails => frames' = frames /\ reports' = reports
       /\ out.ends = "none" /\ out.fails => frames' = frames /\ reports' = reports + 1
  BY <1>0, <1>3, <1>11, SentFrames
<1>13. CASE Waits(Buffer, out, pos, arrived)
  BY <1>3, <1>13 DEF Waits, CanContinue
<1>14. CASE Drops(out, pos, arrived)
  <2>1. frames' = frames /\ reports' = reports
    BY <1>12, <1>14 DEF Drops
  <2>2. CountedAt(pos, arrived', frames', reports')
    BY <1>3, <1>5, <2>1
  <2>3. arrived \in 0 .. arrived /\ pos \in 0 .. arrived
    BY <1>0, <1>6
  <2>4. Placed(pos, arrived, discard'.on) /\ HoldsAt(Rest', arrived, arrived)
    BY <1>3, <1>9, <1>14 DEF Drops, Placed
  <2>5. Here(pos, arrived, arrived', discard'.on, Rest', input', cumulation', open', calls' = <<>>)
    BY <1>1, <1>3, <2>3, <2>4 DEF Here
  <2> QED
    BY <1>10, <2>2, <2>5
<1>15. CASE \E p : Takes(out, p, pos, q, arrived)
  <2>1. PICK p : Takes(out, p, pos, q, arrived)
    BY <1>15
  <2>2. /\ out.ends = "frame" => CountedAt(p.next, arrived, frames \o <<out.frame>>, reports)
        /\ out.ends = "none" => CountedAt(p.next, arrived, frames, reports + 1)
        /\ p.next \in 0 .. arrived /\ p.next \in 0 .. p.next /\ Placed(p.next, p.next, FALSE)
    BY <1>4, <1>5, <1>6, <2>1, TakenCounts
  <2>3. CountedAt(p.next, arrived', frames', reports')
    <3>1. CountedAt(p.next, arrived, frames', reports')
      BY <1>12, <2>1, <2>2 DEF Takes
    <3> QED
      BY <1>3, <3>1
  <2>4. ~discard'.on /\ HoldsAt(Rest', p.next, arrived)
    BY <1>3, <1>9, <2>1 DEF Takes
  <2>5. Placed(p.next, p.next, discard'.on)
    BY <2>4 DEF Placed
  <2>6. Here(p.next, p.next, arrived', discard'.on, Rest', input', cumulation', open', calls' = <<>>)
    BY <1>1, <1>3, <2>2, <2>4, <2>5 DEF Here
  <2> QED
    BY <1>10, <2>3, <2>6
<1> QED
  BY <1>8, <1>13, <1>14, <1>15 DEF Reads

LEMMA NoPieceAtEnd ==
    ASSUME setup \in Setups, codec.kind # "length", NEW a \in Nat
    PROVE  PiecesAfter(a, a) = {}
<1>1. SUFFICES ASSUME NEW p \in PiecesAfter(a, a) PROVE FALSE
  OBVIOUS
<1>2. p.next \in a + 1 .. a
  BY PiecesProper DEF Proper
<1> QED
  BY <1>2

LEMMA ThrowDivide ==
    ASSUME DecodeInv, Throw
    PROVE  DivideInv'
<1>0. /\ TypeOK /\ CallsInv /\ PlaceInv /\ setup \in Setups /\ arrived \in Nat
      /\ frames \in Seq(Seq(0 .. 255))
  BY DecodeFacts
<1>1. ~fault /\ calls # <<>> /\ readableBytes(Buffer) > 0
  BY DEF Throw
<1>2. PICK out : out = decode(Buffer)
  OBVIOUS
<1>3. /\ out.ends = "throw" \/ (out.ends = "frame" /\ ~CanContinue(out))
      /\ Becomes(out.buffer)
      /\ IF out.ends = "throw" THEN UNCHANGED <<frames, lost>>
         ELSE /\ frames' = Append(frames, out.frame)
              /\ lost' = lost \cup {Len(frames) + 1}
      /\ calls' = Tail(calls)
      /\ UNCHANGED <<setup, arrived, made, discard, reports, open, fault>>
  BY <1>2 DEF Throw
<1>4. SUFFICES ASSUME Robust
               PROVE  /\ \E pos, q :
                            /\ CountedAt(pos, arrived', frames', reports')
                            /\ Here(pos, q, arrived', discard'.on, Rest', input', cumulation', open',
                                    calls' = <<>>)
                      /\ LostOnly(lost')
  BY <1>3, DivideWhen
<1>a. codec.kind # "length"
  BY <1>4, DecodeFacts
<1>5. PICK pos, q :
         /\ CountedAt(pos, arrived, frames, reports)
         /\ Here(pos, q, arrived, discard.on, Rest, input, cumulation, open, calls = <<>>)
  BY <1>1, <1>4 DEF DecodeInv, DivideInv
<1>6. q \in 0 .. arrived /\ pos \in 0 .. q
  BY <1>5 DEF Here
<1>7. Buffer = Rest /\ Decides(Buffer, out)
  BY <1>1, <1>2, <1>4, BufferIsRest
<1>8. Reads(Buffer, out, pos, q, arrived)
  BY <1>1, <1>2, <1>4, <1>5, <1>7, RestReads
<1>9. out.ends = "frame" /\ out.buffer.reader = Buffer.reader
  BY <1>3, <1>7 DEF Decides, CanContinue
<1>10. out.buffer = Empty /\ codec.kind = "delimiter" /\ ~codec.strip /\ readableBytes(Empty) = 0
  BY <1>7, <1>9, EmptyBuffer DEF Decides
<1>11. PICK p : Takes(out, p, pos, q, arrived)
  BY <1>8, <1>9 DEF Reads, Waits, Drops
<1>12. /\ CountedAt(p.next, arrived, frames \o <<out.frame>>, reports)
       /\ p.next \in 0 .. arrived /\ p.next \in 0 .. p.next /\ Placed(p.next, p.next, FALSE)
  BY <1>4, <1>5, <1>6, <1>9, <1>11, TakenCounts
<1>13. ~discard.on /\ HoldsAt(out.buffer, p.next, arrived)
  BY <1>9, <1>11 DEF Takes
<1>14. p.next = arrived
  <2>1. arrived - p.next = 0
    BY <1>10, <1>13 DEF HoldsAt
  <2> QED
    BY <1>0, <1>12, <2>1
<1>15. readableBytes(Rest') = 0
  <2>1. /\ Call.on = "input" => calls' = <<>>
        /\ Call.on # "input" => (OnInput' <=> OnInput)
        /\ calls' = <<>> => ~OnInput'
    BY <1>0, <1>1, <1>3, TailInput
  <2>2. /\ Call.on = "input" => readableBytes(cumulation) = 0
        /\ Call.on # "input" => /\ ~setup.own /\ Buffer = cumulation
                                /\ (OnInput => readableBytes(cumulation) = 0)
    BY <1>0, <1>1, <1>a, Rests
  <2>3. CASE Call.on = "input"
    <3>1. input' = Empty /\ cumulation' = cumulation
      BY <1>3, <1>10, <2>3 DEF Becomes
    <3> QED
      BY <1>10, <2>2, <2>3, <3>1 DEF Rest
  <2>4. CASE Call.on # "input"
    <3>1. cumulation' = Empty
      BY <1>3, <1>10, <2>4 DEF Becomes
    <3>2. ~OnInput /\ ~setup.own
      BY <1>1, <2>2, <2>4
    <3>3. Rest' = cumulation'
      BY <1>3, <2>1, <2>4, <3>2 DEF Rest
    <3> QED
      BY <1>10, <3>1, <3>3
  <2> QED
    BY <2>3, <2>4
<1>16. HoldsAt(Rest', p.next, arrived)
  <2>1. arrived - p.next = 0 /\ 1 .. 0 = {}
    BY <1>0, <1>14
  <2> QED
    BY <1>15, <2>1 DEF HoldsAt
<1>17. PiecesAfter(p.next, arrived) = {}
  BY <1>0, <1>a, <1>14, NoPieceAtEnd
<1>18. CountedAt(p.next, arrived', frames', reports')
  <2>1. Append(frames, out.frame) = frames \o <<out.frame>>
    <3>1. out.frame \in Seq(0 .. 255)
      <4>1. Fits(out)
        BY <1>0, <1>1, <1>2, Running
      <4> QED
        BY <4>1 DEF Fits, Outcomes
    <3> QED
      BY <1>0, <3>1, AppendIsConcat
  <2> QED
    BY <1>3, <1>9, <1>12, <2>1
<1>19. Placed(p.next, p.next, discard'.on)
  BY <1>3, <1>13 DEF Placed
<1>20. Here(p.next, p.next, arrived', discard'.on, Rest', input', cumulation', open', calls' = <<>>)
  BY <1>3, <1>12, <1>16, <1>17, <1>19 DEF Here
<1>21. LostOnly(lost')
  BY <1>10 DEF LostOnly
<1> QED
  BY <1>18, <1>20, <1>21

(* When the loop ends, the last call of decode sent nothing. *)
LEMMA LoopEndsIs ==
    ASSUME DecodeInv, Robust, ~fault, calls # <<>>, NEW out, out = decode(Buffer), LoopEnds(out)
    PROVE  /\ out.ends = "none" /\ ~out.fails /\ out.discard = discard
           /\ LastDecode(out).ends = "none" /\ ~LastDecode(out).fails
           /\ LastDecode(out).discard = discard
<1>1. Decides(Buffer, out) /\ readableBytes(Buffer) \in Nat
  BY BufferIsRest
<1>2. /\ NoFrame(Buffer).ends = "none" /\ ~NoFrame(Buffer).fails
      /\ NoFrame(Buffer).discard = discard
  BY NoFrameIs
<1>3. CASE readableBytes(Buffer) = 0
  <2>1. out.ends = "none" /\ ~out.fails /\ out.discard = discard
    BY <1>1, <1>3 DEF Decides, Nothing
  <2> QED
    BY <1>2, <1>3, <2>1 DEF LastDecode
<1>4. CASE readableBytes(Buffer) # 0
  <2>1. readableBytes(Buffer) > 0
    BY <1>1, <1>4
  <2>2. out.ends = "none" /\ out.buffer.reader = Buffer.reader
    BY <1>4 DEF LoopEnds, CanContinue
  <2>3. out = NoFrame(Buffer)
    BY <1>1, <2>1, <2>2 DEF Decides
  <2> QED
    BY <1>2, <1>4, <2>3 DEF LastDecode
<1> QED
  BY <1>3, <1>4

LEMMA LoopEndsAt ==
    ASSUME DecodeInv, Robust, ~fault, calls # <<>>, NEW out, out = decode(Buffer), LoopEnds(out),
           NEW pos, NEW q,
           Here(pos, q, arrived, discard.on, Rest, input, cumulation, open, calls = <<>>),
           Buffer = Rest
    PROVE  /\ PiecesAfter(pos, arrived) = {}
           /\ HoldsAt(Buffer, q, arrived) \/ (~open /\ Gone(pos, arrived, input, cumulation))
<1>1. \/ Reads(Buffer, out, pos, q, arrived) /\ HoldsAt(Buffer, q, arrived)
      \/ ~open /\ Gone(pos, arrived, input, cumulation) /\ readableBytes(Buffer) = 0
  BY RestReads
<1>2. out.ends = "none" /\ ~out.fails
  BY LoopEndsIs
<1>3. CASE Reads(Buffer, out, pos, q, arrived)
  <2>1. \A p : ~Takes(out, p, pos, q, arrived)
    BY <1>2 DEF Takes
  <2>2. PiecesAfter(pos, arrived) = {}
    BY <1>3, <2>1 DEF Reads, Waits, Drops
  <2> QED
    BY <1>1, <2>2
<1>4. CASE ~open /\ Gone(pos, arrived, input, cumulation)
  BY <1>4 DEF Gone
<1> QED
  BY <1>1, <1>3, <1>4

LEMMA CloseDivide ==
    ASSUME DecodeInv, Close
    PROVE  DivideInv'
<1>0. TypeOK /\ CallsInv
  BY DecodeFacts
<1>1. /\ open /\ ~fault
      /\ UNCHANGED <<setup, arrived, buffers, discard, upstream, fault>>
  BY DEF Close
<1>2. /\ setup' = setup /\ arrived' = arrived /\ input' = input /\ cumulation' = cumulation
      /\ discard' = discard /\ frames' = frames /\ reports' = reports /\ lost' = lost
  BY <1>1 DEF buffers, upstream
<1>3. SUFFICES ASSUME Robust
               PROVE  /\ \E pos, q :
                            /\ CountedAt(pos, arrived', frames', reports')
                            /\ Here(pos, q, arrived', discard'.on, Rest', input', cumulation', open',
                                    calls' = <<>>)
                      /\ LostOnly(lost')
  BY <1>2, DivideWhen
<1>4. PICK pos, q :
         /\ CountedAt(pos, arrived, frames, reports)
         /\ Here(pos, q, arrived, discard.on, Rest, input, cumulation, open, calls = <<>>)
  BY <1>1, <1>3 DEF DecodeInv, DivideInv
<1>5. (OnInput' <=> OnInput) /\ (calls' = <<>> => calls = <<>>)
  BY <1>0, CloseCalls
<1>6. Rest' = Rest
  BY <1>2, <1>5 DEF Rest
<1>7. Here(pos, q, arrived', discard'.on, Rest', input', cumulation', open', calls' = <<>>)
  BY <1>1, <1>2, <1>4, <1>5, <1>6 DEF Here
<1>8. LostOnly(lost')
  BY <1>1, <1>2, <1>3 DEF DecodeInv, DivideInv, LostOnly
<1>9. CountedAt(pos, arrived', frames', reports')
  BY <1>2, <1>4
<1> QED
  BY <1>7, <1>8, <1>9

LEMMA ReturnToCleanupDivide ==
    ASSUME DecodeInv, ReturnToCleanup
    PROVE  DivideInv'
<1>0. /\ TypeOK /\ CallsInv /\ PlaceInv /\ arrived \in Nat
  BY DecodeFacts
<1>1. ~fault /\ calls # <<>> /\ Call.event # "none"
  BY DEF ReturnToCleanup
<1>2. PICK out : out = decode(Buffer)
  OBVIOUS
<1>3. /\ LoopEnds(out) /\ discard' = out.discard /\ Sent(LastDecode(out), out)
      /\ cumulation' = Empty /\ calls' = Tail(calls)
      /\ UNCHANGED <<setup, arrived, input, made, lost, open, passed, fault>>
  BY <1>2 DEF ReturnToCleanup
<1>4. SUFFICES ASSUME Robust
               PROVE  /\ \E pos, q :
                            /\ CountedAt(pos, arrived', frames', reports')
                            /\ Here(pos, q, arrived', discard'.on, Rest', input', cumulation', open',
                                    calls' = <<>>)
                      /\ LostOnly(lost')
  BY <1>3, DivideWhen
<1>a. codec.kind # "length"
  BY <1>4, DecodeFacts
<1>5. PICK pos, q :
         /\ CountedAt(pos, arrived, frames, reports)
         /\ Here(pos, q, arrived, discard.on, Rest, input, cumulation, open, calls = <<>>)
  BY <1>1, <1>4 DEF DecodeInv, DivideInv
<1>6. /\ out.ends = "none" /\ ~out.fails /\ out.discard = discard
      /\ LastDecode(out).ends = "none" /\ ~LastDecode(out).fails
  BY <1>1, <1>2, <1>3, <1>4, LoopEndsIs
<1>7. frames' = frames /\ reports' = reports /\ discard' = discard
  BY <1>0, <1>3, <1>6, SentFrames
<1>8. Call.on # "input" /\ ~open
  <2>1. 1 \in DOMAIN calls /\ Call = calls[1]
    BY <1>0, <1>1 DEF TypeOK, Call
  <2>2. ACall(Call, 1, Len(calls), setup.own, open)
    BY <1>0, <2>1 DEF CallsInv
  <2> QED
    BY <1>1, <2>2 DEF ACall
<1>9. /\ ~setup.own /\ Buffer = cumulation /\ (~OnInput => readableBytes(input) = 0)
      /\ (OnInput' <=> OnInput) /\ (calls' = <<>> => ~OnInput')
  BY <1>0, <1>1, <1>3, <1>8, <1>a, Rests, TailInput
<1>10. readableBytes(cumulation') = 0
  BY <1>3, EmptyBuffer
<1>11. /\ q \in 0 .. arrived /\ pos \in 0 .. q /\ Placed(pos, q, discard.on)
       /\ HoldsAt(Rest, q, arrived) \/ Gone(pos, arrived, input, cumulation)
  BY <1>5 DEF Here
<1>12. Here(pos, q, arrived', discard'.on, Rest', input', cumulation', open', calls' = <<>>)
  <2>1. CASE OnInput
    <3>1. Rest = input /\ Rest' = input' /\ calls' # <<>> /\ input' = input
      BY <1>3, <1>9, <2>1 DEF Rest
    <3>2. Gone(pos, arrived, input, cumulation) => Gone(pos, arrived, input', cumulation')
      BY <1>10, <3>1 DEF Gone
    <3> QED
      BY <1>3, <1>7, <1>8, <1>11, <3>1, <3>2 DEF Here
  <2>2. CASE ~OnInput
    <3>1. Buffer = Rest
      BY <1>9, <2>2 DEF Rest
    <3>2. PiecesAfter(pos, arrived) = {}
      BY <1>1, <1>2, <1>3, <1>4, <1>5, <3>1, LoopEndsAt
    <3>3. Gone(pos, arrived, input', cumulation')
      BY <1>3, <1>9, <1>10, <2>2, <3>2 DEF Gone
    <3> QED
      BY <1>3, <1>7, <1>8, <1>11, <3>2, <3>3 DEF Here
  <2> QED
    BY <2>1, <2>2
<1>13. LostOnly(lost')
  BY <1>1, <1>3, <1>4 DEF DecodeInv, DivideInv, LostOnly
<1>14. CountedAt(pos, arrived', frames', reports')
  BY <1>3, <1>5, <1>7
<1> QED
  BY <1>12, <1>13, <1>14

LEMMA ReturnToMessageDivide ==
    ASSUME DecodeInv, ReturnToMessage
    PROVE  DivideInv'
<1>0. /\ TypeOK /\ CallsInv /\ PlaceInv /\ arrived \in Nat /\ setup \in Setups
  BY DecodeFacts
<1>1. ~fault /\ calls # <<>> /\ Call.event = "none"
  BY DEF ReturnToMessage
<1>2. PICK out : out = decode(Buffer)
  OBVIOUS
<1>3. /\ LoopEnds(out) /\ discard' = LastDecode(out).discard
      /\ Sent(NoFrame(Buffer), LastDecode(out))
      /\ IF Call.on = "input" THEN KeepRest(Buffer) ELSE UNCHANGED <<input, cumulation>>
      /\ calls' = Tail(calls)
      /\ UNCHANGED <<setup, arrived, made, lost, open, passed, fault>>
  BY <1>2 DEF ReturnToMessage
<1>4. SUFFICES ASSUME Robust
               PROVE  /\ \E pos, q :
                            /\ CountedAt(pos, arrived', frames', reports')
                            /\ Here(pos, q, arrived', discard'.on, Rest', input', cumulation', open',
                                    calls' = <<>>)
                      /\ LostOnly(lost')
  BY <1>3, DivideWhen
<1>a. codec.kind # "length"
  BY <1>4, DecodeFacts
<1>5. PICK pos, q :
         /\ CountedAt(pos, arrived, frames, reports)
         /\ Here(pos, q, arrived, discard.on, Rest, input, cumulation, open, calls = <<>>)
  BY <1>1, <1>4 DEF DecodeInv, DivideInv
<1>6. /\ LastDecode(out).ends = "none" /\ ~LastDecode(out).fails
      /\ LastDecode(out).discard = discard
  BY <1>1, <1>2, <1>3, <1>4, LoopEndsIs
<1>7. frames' = frames /\ reports' = reports /\ discard' = discard
  <2>1. NoFrame(Buffer).ends = "none" /\ ~NoFrame(Buffer).fails
    BY NoFrameIs
  <2> QED
    BY <1>0, <1>3, <1>6, <2>1, SentFrames
<1>8. calls' = <<>> /\ ~OnInput' /\ (Call.on # "input" => (OnInput' <=> OnInput))
  BY <1>0, <1>1, <1>3, TailInput
<1>9. Buffer = Rest /\ IsBuffer(Buffer)
  BY <1>1, <1>4, <1>8, BufferIsRest
<1>10. /\ PiecesAfter(pos, arrived) = {}
       /\ HoldsAt(Buffer, q, arrived) \/ (~open /\ Gone(pos, arrived, input, cumulation))
  BY <1>1, <1>2, <1>3, <1>4, <1>5, <1>9, LoopEndsAt
<1>11. q \in 0 .. arrived /\ pos \in 0 .. q /\ Placed(pos, q, discard.on) /\ q \in Nat
  BY <1>0, <1>5 DEF Here
<1>12. /\ Call.on = "input" => readableBytes(cumulation) = 0 /\ Buffer = input
       /\ Call.on # "input" => ~setup.own /\ Buffer = cumulation
       /\ IsBuffer(cumulation) /\ IsBuffer(input)
  BY <1>0, <1>1, <1>a, Rests, Running
<1>13. readableBytes(Buffer) \in Nat /\ readableBytes(Buffer) \in 0 .. readableBytes(Buffer)
  BY <1>9, Readable
<1>14. HoldsAt(Rest', q, arrived) \/ (~open /\ Gone(pos, arrived, input', cumulation'))
  <2>1. CASE Call.on # "input"
    <3>1. Rest' = cumulation /\ input' = input /\ cumulation' = cumulation
      BY <1>3, <1>8, <1>12, <2>1 DEF Rest
    <3> QED
      BY <1>10, <1>12, <2>1, <3>1
  <2>2. CASE Call.on = "input" /\ setup.own
    <3>1. Rest' = discardReadBytes(Buffer) /\ input' = Rest' /\ cumulation' = cumulation
      BY <1>3, <2>2 DEF Rest, KeepRest
    <3>2. CASE HoldsAt(Buffer, q, arrived)
      BY <1>0, <1>9, <1>11, <3>1, <3>2, HoldsCompacted
    <3>3. CASE ~open /\ Gone(pos, arrived, input, cumulation)
      <4>1. readableBytes(input') = readableBytes(Buffer)
        BY <1>9, <3>1, Compacted
      <4> QED
        BY <1>12, <2>2, <3>1, <3>3, <4>1 DEF Gone
    <3> QED
      BY <1>10, <3>2, <3>3
  <2>3. CASE Call.on = "input" /\ ~setup.own
    <3>1. PICK b, c, s, l : b = Buffer /\ c = cumulation /\ l = readableBytes(b) /\ s = Bytes(b, l)
      OBVIOUS
    <3>2. input' = Empty /\ cumulation' = writeBytes(c, s) /\ Rest' = cumulation'
      BY <1>3, <1>8, <2>3, <3>1 DEF Rest, KeepRest
    <3>3. l \in 0 .. readableBytes(b) /\ l \in Nat /\ IsBuffer(b) /\ IsBuffer(c)
      BY <1>9, <1>12, <1>13, <3>1
    <3>4. s \in Seq(0 .. 255) /\ Len(s) = l /\ \A i \in 1 .. l : s[i] = b.bytes[b.reader + i]
      BY <3>1, <3>3, BytesOf
    <3>5. readableBytes(c) = 0
      BY <1>12, <2>3, <3>1
    <3>6. CASE HoldsAt(Buffer, q, arrived)
      <4>1. l = arrived - q /\ \A i \in 1 .. l : b.bytes[b.reader + i] = setup.stream[q + i]
        BY <3>1, <3>6 DEF HoldsAt
      <4>2. \A i \in 1 .. Len(s) : s[i] = setup.stream[q + i]
        BY <3>4, <4>1
      <4>3. HoldsAt(c, q, q)
        <5>1. q - q = 0 /\ 1 .. 0 = {}
          BY <1>11
        <5> QED
          BY <3>5, <5>1 DEF HoldsAt
      <4>4. HoldsAt(writeBytes(c, s), q, q + Len(s))
        BY <1>11, <3>3, <3>4, <4>2, <4>3, HoldsWritten
      <4>5. q + Len(s) = arrived
        BY <1>0, <1>11, <3>3, <3>4, <4>1
      <4> QED
        BY <3>2, <4>4, <4>5
    <3>7. CASE ~open /\ Gone(pos, arrived, input, cumulation)
      <4>1. l = 0
        BY <1>12, <2>3, <3>1, <3>7 DEF Gone
      <4>2. readableBytes(writeBytes(c, s)) = readableBytes(c) + Len(s)
        BY <3>3, <3>4, Written
      <4>3. readableBytes(cumulation') = 0 /\ readableBytes(input') = 0
        BY <3>2, <3>4, <3>5, <4>1, <4>2, EmptyBuffer
      <4> QED
        BY <3>7, <4>3 DEF Gone
    <3> QED
      BY <1>10, <3>6, <3>7
  <2> QED
    BY <2>1, <2>2, <2>3
<1>15. Here(pos, q, arrived', discard'.on, Rest', input', cumulation', open', calls' = <<>>)
  BY <1>3, <1>7, <1>10, <1>11, <1>14 DEF Here
<1>16. LostOnly(lost')
  BY <1>1, <1>3, <1>4 DEF DecodeInv, DivideInv, LostOnly
<1>17. CountedAt(pos, arrived', frames', reports')
  BY <1>3, <1>5, <1>7
<1> QED
  BY <1>15, <1>16, <1>17

LEMMA DivideInit ==
    ASSUME Init
    PROVE  DivideInv
<1>1. /\ setup \in Setups /\ arrived = 0 /\ input = Empty /\ cumulation = Empty /\ calls = <<>>
      /\ frames = <<>> /\ reports = 0 /\ lost = {}
      /\ codec.kind # "length" => discard = [on |-> FALSE, left |-> 0]
  BY DEF Init
<1>2. SUFFICES ASSUME Robust
               PROVE  /\ CountedAt(0, arrived, frames, reports)
                      /\ Here(0, 0, arrived, discard.on, Rest, input, cumulation, open,
                              calls = <<>>)
  BY <1>1 DEF DivideInv, LostOnly
<1>3. codec.kind # "length"
  BY <1>2 DEF Robust
<1>4. ~discard.on
  BY <1>1, <1>3
<1>5. CountedAt(0, arrived, frames, reports)
  <2>1. ASSUME NEW n \in Later(0)
        PROVE  /\ Division(n)[0].frames = <<>> \o Division(n)[0].frames
               /\ Division(n)[0].long = 0 + Division(n)[0].long
    <3>1. n \in 0 .. Len(setup.stream) /\ 0 \in 0 .. n
      BY <1>1, StreamType DEF Later
    <3>2. Division(n)[0] \in Results
      BY <1>1, <1>3, <3>1, DivisionUnfolds
    <3>3. PICK fs, l : fs = Division(n)[0].frames /\ l = Division(n)[0].long
      OBVIOUS
    <3>4. fs \in Seq(Seq(0 .. 255)) /\ l \in Nat
      BY <3>2, <3>3 DEF Results
    <3>5. <<>> \o fs = fs
      BY <3>4, ConcatEmptySeq
    <3> QED
      BY <3>3, <3>4, <3>5
  <2> QED
    BY <1>1, <2>1 DEF CountedAt
<1>6. HoldsAt(Rest, 0, 0)
  <2>1. Rest = Empty /\ 0 - 0 = 0 /\ 1 .. 0 = {}
    BY <1>1 DEF Rest
  <2> QED
    BY <2>1, EmptyBuffer DEF HoldsAt
<1>7. PiecesAfter(0, 0) = {} /\ 0 \in 0 .. 0
  BY <1>1, <1>3, NoPieceAtEnd
<1>8. Here(0, 0, arrived, discard.on, Rest, input, cumulation, open, calls = <<>>)
  BY <1>1, <1>4, <1>6, <1>7 DEF Here, Placed
<1> QED
  BY <1>5, <1>8

LEMMA DivideStutter ==
    ASSUME DecodeInv, UNCHANGED vars
    PROVE  DivideInv'
<1>1. /\ setup' = setup /\ arrived' = arrived /\ input' = input /\ cumulation' = cumulation
      /\ calls' = calls /\ discard' = discard /\ frames' = frames /\ reports' = reports
      /\ lost' = lost /\ open' = open /\ fault' = fault
  BY DEF vars, buffers, upstream
<1>2. SUFFICES ASSUME Robust, ~fault'
               PROVE  /\ \E pos, q :
                            /\ CountedAt(pos, arrived', frames', reports')
                            /\ Here(pos, q, arrived', discard'.on, Rest', input', cumulation', open',
                                    calls' = <<>>)
                      /\ LostOnly(lost')
  BY <1>1, DivideWhen
<1>3. Rest' = Rest
  BY <1>1 DEF Rest, OnInput
<1>4. PICK pos, q :
         /\ CountedAt(pos, arrived, frames, reports)
         /\ Here(pos, q, arrived, discard.on, Rest, input, cumulation, open, calls = <<>>)
  BY <1>1, <1>2 DEF DecodeInv, DivideInv
<1>5. /\ CountedAt(pos, arrived', frames', reports')
      /\ Here(pos, q, arrived', discard'.on, Rest', input', cumulation', open', calls' = <<>>)
  BY <1>1, <1>3, <1>4
<1>6. LostOnly(lost')
  BY <1>1, <1>2 DEF DecodeInv, DivideInv
<1> QED
  BY <1>5, <1>6

LEMMA DecodeStep ==
    ASSUME DecodeInv, [Next]_vars
    PROVE  DecodeInv'
<1>1. BoundInv'
  BY BoundStep DEF DecodeInv
<1>2. DivideInv'
  <2>1. CASE Next
    <3>1. ASSUME NEW n \in 1 .. Len(setup.stream), Receive(n) PROVE DivideInv'
      BY <3>1, ReceiveDivide
    <3> QED
      BY <2>1, <3>1, IterateDivide, ThrowDivide, ReturnToMessageDivide, ReturnToCleanupDivide,
         CloseDivide DEF Next
  <2>2. CASE UNCHANGED vars
    BY <2>2, DivideStutter
  <2> QED
    BY <2>1, <2>2
<1> QED
  BY <1>1, <1>2 DEF DecodeInv

LEMMA DecodeSplits ==
    ASSUME DecodeInv
    PROVE  SplitIndependent
<1>0. /\ setup \in Setups /\ arrived \in 0 .. Len(setup.stream) /\ arrived \in Nat
      /\ frames \in Seq(Seq(0 .. 255)) /\ reports \in Nat /\ (Robust => codec.kind # "length")
  BY DecodeFacts
<1>1. SUFFICES ASSUME AtRest, Robust
               PROVE  /\ [frames |-> frames, long |-> reports] = Division(arrived)[0]
                      /\ LostOnly(lost)
  BY DEF SplitIndependent, LostOnly
<1>2. calls = <<>> /\ ~fault
  BY <1>1 DEF AtRest
<1>3. PICK pos, q :
         /\ CountedAt(pos, arrived, frames, reports)
         /\ Here(pos, q, arrived, discard.on, Rest, input, cumulation, open, calls = <<>>)
  BY <1>1, <1>2 DEF DecodeInv, DivideInv
<1>4. q \in 0 .. arrived /\ pos \in 0 .. q /\ PiecesAfter(pos, arrived) = {}
  BY <1>2, <1>3 DEF Here
<1>5. pos \in 0 .. arrived
  BY <1>0, <1>4
<1>6. PICK a, fs, rs : a = arrived /\ fs = frames /\ rs = reports
  OBVIOUS
<1>7. [frames |-> fs, long |-> rs] = Division(a)[0]
  BY <1>0, <1>1, <1>3, <1>4, <1>5, <1>6, CountAtRest
<1>8. LostOnly(lost)
  BY <1>1, <1>2 DEF DecodeInv, DivideInv
<1> QED
  BY <1>6, <1>7, <1>8

(* For every stream, every way to cut it into reads, both kinds of buffer   *)
(* and every moment at which a handler closes the channel, callDecode takes *)
(* out exactly the frames the framing divides the text into, and reports    *)
(* exactly the too long ones, for a fixed length and for delimiters that    *)
(* are Robust.                                                              *)
THEOREM SplitsIndependent == Spec => []SplitIndependent
<1>1. Init => DecodeInv
  BY BoundInit, DivideInit DEF DecodeInv
<1>2. DecodeInv /\ [Next]_vars => DecodeInv'
  BY DecodeStep
<1>3. DecodeInv => SplitIndependent
  BY DecodeSplits
<1> QED
  BY <1>1, <1>2, <1>3, PTL DEF Spec
=============================================================================
