------------------------- MODULE HttpDecoderProofs -------------------------
(***************************************************************************)
(* Proofs about the replaying decoder and the HTTP request decoder, for    *)
(* all requests, contents, sizes of slices and of the read buffer.         *)
(*                                                                         *)
(* Every call of decode returns a buffer of the same length with its       *)
(* reader index inside, a decoder of the right type and messages           *)
(* (IsOutcome); that needs ContentInv: content of a fixed length is read   *)
(* only when there is some, for the length of a request without one is -1. *)
(*                                                                         *)
(* RequestsIntact rests on where the decoder is in the stream of requests. *)
(* Reads says that it is at a known place of request i, one per state of   *)
(* the decoder, and that the messages sent are those of the stream before  *)
(* that place; Rests, that it has to wait there for more bytes.  DecodeReads: *)
(* every call of decode goes on to the next such place, or stays and is    *)
(* rewound.  RestsDue: where it has to wait, all that is owed for the bytes *)
(* that have arrived (AllDue) has been sent.  The invariant is HttpInv,    *)
(* StreamInv (the buffer holds what has arrived) and SoundInv (the decoder *)
(* follows the stream, and rests whenever no read is being handled).       *)
(***************************************************************************)
EXTENDS HttpDecoder, SequenceLemmas

(***************************************************************************)
(* The smallest and the largest number of a set.                           *)
(***************************************************************************)
LEMMA MinIs ==
    ASSUME NEW T, T \subseteq Nat, T # {}
    PROVE  Min(T) \in T /\ \A y \in T : Min(T) <= y
<1>1. \E x \in T : \A y \in T : x <= y
  BY LeastNumber
<1>2. Min(T) = CHOOSE x \in T : \A y \in T : x <= y
  BY DEF Min
<1> QED
  BY <1>1, <1>2

LEMMA MaxIs ==
    ASSUME NEW n \in Nat, NEW T, T \subseteq 0 .. n, T # {}
    PROVE  Max(T) \in T /\ \A y \in T : Max(T) >= y
<1> DEFINE U == {k \in 0 .. n : n - k \in T}
<1>1. U # {} /\ U \subseteq Nat
  <2>1. PICK y : y \in T
    OBVIOUS
  <2>2. n - y \in 0 .. n /\ n - (n - y) = y
    BY <2>1
  <2>3. n - y \in U
    BY <2>1, <2>2
  <2> QED
    BY <2>3
<1>2. PICK k \in U : \A j \in U : k <= j
  <2> HIDE DEF U
  <2> QED
    BY <1>1, LeastNumber
<1>3. n - k \in T /\ k \in 0 .. n
  BY <1>2
<1>4. ASSUME NEW y \in T PROVE n - k >= y
  <2>1. n - y \in 0 .. n /\ n - (n - y) = y
    OBVIOUS
  <2>2. n - y \in U
    BY <2>1
  <2>3. k <= n - y /\ y \in Int
    BY <1>2, <2>2
  <2> QED
    BY <1>3, <2>1, <2>3
<1>5. \E x \in T : \A y \in T : x >= y
  BY <1>3, <1>4
<1>6. Max(T) = CHOOSE x \in T : \A y \in T : x >= y
  BY DEF Max
<1> QED
  BY <1>5, <1>6

LEMMA MinOfTwo ==
    ASSUME NEW m \in Nat, NEW n \in Nat
    PROVE  Min({m, n}) \in Nat /\ Min({m, n}) <= m /\ Min({m, n}) <= n
           /\ (Min({m, n}) = m \/ Min({m, n}) = n)
<1>1. {m, n} \subseteq Nat /\ {m, n} # {}
  OBVIOUS
<1>2. Min({m, n}) \in {m, n} /\ \A y \in {m, n} : Min({m, n}) <= y
  BY <1>1, MinIs
<1> QED
  BY <1>2

(***************************************************************************)
(* Sequences that are put together.                                        *)
(***************************************************************************)
(* J[i] joins the first i sequences. *)
Joins(J, seqs, S) ==
    /\ J \in [0 .. Len(seqs) -> Seq(S)]
    /\ J[0] = <<>>
    /\ \A i \in 1 .. Len(seqs) : J[i] = J[i - 1] \o seqs[i]

LEMMA JoinExists ==
    ASSUME NEW S, NEW seqs \in Seq(Seq(S))
    PROVE  \E J : Joins(J, seqs, S)
<1>0. Len(seqs) \in Nat /\ \A i \in 1 .. Len(seqs) : seqs[i] \in Seq(S)
  BY LenProperties
<1>1. PICK n, Q, G : n = Len(seqs) /\ Q = Seq(S) /\ G = [i \in 1 .. n |-> [s \in Q |-> s \o seqs[i]]]
  OBVIOUS
<1>2. ASSUME NEW i \in 1 .. n, NEW s \in Q PROVE G[i][s] = s \o seqs[i] /\ G[i][s] \in Q
  <2>1. s \in Seq(S) /\ seqs[i] \in Seq(S)
    BY <1>0, <1>1
  <2>2. s \o seqs[i] \in Seq(S)
    BY <2>1, ConcatProperties
  <2> QED
    BY <1>1, <2>2
<1>3. n \in Nat /\ <<>> \in Q
  BY <1>0, <1>1
<1>4. PICK f \in [0 .. n -> Q] : f[0] = <<>> /\ \A i \in 1 .. n : f[i] = G[i][f[i - 1]]
  <2>1. UpwardSteps(G, n, Q)
    BY <1>2 DEF UpwardSteps
  <2>2. PICK v : v = <<>>
    OBVIOUS
  <2>3. v \in Q
    BY <1>3, <2>2
  <2>4. \E f : IsUpward(f, G, n, Q, v)
    BY <1>3, <2>1, <2>3, Upward
  <2> QED
    BY <2>2, <2>4 DEF IsUpward
<1>5. ASSUME NEW i \in 1 .. n PROVE f[i] = f[i - 1] \o seqs[i]
  <2>1. i - 1 \in 0 .. n
    BY <1>3
  <2>2. f[i - 1] \in Q
    BY <1>4, <2>1
  <2> QED
    BY <1>2, <1>4, <2>2
<1> QED
  BY <1>1, <1>4, <1>5 DEF Joins

FlattenStep(seqs, f, i) == IF i = 1 THEN seqs[i] ELSE f[i - 1] \o seqs[i]

LEMMA FlattenIs ==
    ASSUME NEW S, NEW seqs \in Seq(Seq(S)), NEW J, Joins(J, seqs, S)
    PROVE  FlattenSeq(seqs) = J[Len(seqs)]
<1>0. Len(seqs) \in Nat /\ \A i \in 1 .. Len(seqs) : seqs[i] \in Seq(S)
  BY LenProperties
<1>1. CASE Len(seqs) = 0
  <2>1. seqs = <<>>
    BY <1>1, EmptySeq
  <2> QED
    BY <1>1, <2>1 DEF FlattenSeq, Joins
<1>2. CASE Len(seqs) # 0
  <2>1. PICK n : n = Len(seqs)
    OBVIOUS
  <2>2. PICK F : F = CHOOSE f : f = [i \in 1 .. n |-> FlattenStep(seqs, f, i)]
    OBVIOUS
  <2>3. FlattenSeq(seqs) = F[n]
    BY <1>2, <2>1, <2>2 DEF FlattenSeq, FlattenStep
  <2>4. n \in Nat /\ n # 0
    BY <1>0, <1>2, <2>1
  <2>5. \E f : f = [i \in 1 .. n |-> FlattenStep(seqs, f, i)]
    <3>1. PICK g : g = [i \in 1 .. n |-> J[i]]
      OBVIOUS
    <3>2. ASSUME NEW i \in 1 .. n PROVE g[i] = FlattenStep(seqs, g, i)
      <4>1. CASE i = 1
        <5>0. 1 - 1 = 0 /\ 1 \in 1 .. Len(seqs)
          BY <2>1, <4>1
        <5>1. J[1] = J[0] \o seqs[1] /\ J[0] = <<>> /\ seqs[1] \in Seq(S)
          BY <1>0, <5>0 DEF Joins
        <5>2. <<>> \o seqs[1] = seqs[1]
          BY <5>1, ConcatEmptySeq
        <5> QED
          BY <3>1, <4>1, <5>1, <5>2 DEF FlattenStep
      <4>2. CASE i # 1
        <5>1. i - 1 \in 1 .. n
          BY <2>4, <4>2
        <5>2. g[i] = J[i] /\ g[i - 1] = J[i - 1]
          BY <3>1, <5>1
        <5>3. J[i] = J[i - 1] \o seqs[i]
          BY <2>1 DEF Joins
        <5> QED
          BY <4>2, <5>2, <5>3 DEF FlattenStep
      <4> QED
        BY <4>1, <4>2
    <3>3. PICK v : v = [j \in 1 .. n |-> FlattenStep(seqs, g, j)]
      OBVIOUS
    <3>4. \A i \in 1 .. n : g[i] = v[i]
      BY <3>2, <3>3
    <3>5. v = [i \in 1 .. n |-> v[i]] /\ g = [i \in 1 .. n |-> g[i]]
      BY <3>1, <3>3
    <3>6. g = v
      BY <3>4, <3>5
    <3> QED
      BY <3>3, <3>6
  <2>6. F = [i \in 1 .. n |-> FlattenStep(seqs, F, i)]
    <3> HIDE DEF FlattenStep
    <3> QED
      BY <2>2, <2>5
  <2>7. \A i \in 1 .. n : F[i] = FlattenStep(seqs, F, i)
    <3>1. PICK v : v = [i \in 1 .. n |-> FlattenStep(seqs, F, i)]
      OBVIOUS
    <3>2. \A i \in 1 .. n : v[i] = FlattenStep(seqs, F, i)
      BY <3>1
    <3> QED
      BY <2>6, <3>1, <3>2
  <2> DEFINE T == {i \in Nat : i = 0 \/ F[i] = J[i]}
  <2>8. 0 \in T
    OBVIOUS
  <2>9. ASSUME NEW k \in 0 .. n - 1, k \in T PROVE k + 1 \in T
    <3>1. k + 1 \in 1 .. n /\ (k + 1) - 1 = k /\ k + 1 \in Nat
      BY <2>4
    <3>2. J[k + 1] = J[k] \o seqs[k + 1]
      BY <2>1, <3>1 DEF Joins
    <3>3. F[k + 1] = FlattenStep(seqs, F, k + 1)
      BY <2>7, <3>1
    <3>4. CASE k = 0
      <4>1. F[1] = seqs[1]
        BY <3>3, <3>4 DEF FlattenStep
      <4>2. J[0] = <<>> /\ seqs[1] \in Seq(S)
        BY <1>0, <2>1, <3>1, <3>4 DEF Joins
      <4>3. <<>> \o seqs[1] = seqs[1]
        BY <4>2, ConcatEmptySeq
      <4> QED
        BY <3>1, <3>2, <3>4, <4>1, <4>2, <4>3
    <3>5. CASE k # 0
      <4>1. k + 1 # 1 /\ F[k] = J[k]
        BY <2>9, <3>5
      <4>2. F[k + 1] = F[k] \o seqs[k + 1]
        BY <3>1, <3>3, <4>1 DEF FlattenStep
      <4> QED
        BY <3>1, <3>2, <4>1, <4>2
    <3> QED
      BY <3>4, <3>5
  <2>10. n \in T
    <3> HIDE DEF T
    <3>1. \A i \in 0 .. n : i \in T
      BY <2>4, <2>8, <2>9, UpTo
    <3> QED
      BY <2>4, <3>1
  <2> QED
    BY <2>1, <2>3, <2>4, <2>10
<1> QED
  BY <1>1, <1>2

LEMMA FlattenType ==
    ASSUME NEW S, NEW seqs \in Seq(Seq(S))
    PROVE  FlattenSeq(seqs) \in Seq(S)
<1>1. PICK J : Joins(J, seqs, S)
  BY JoinExists
<1>2. Len(seqs) \in 0 .. Len(seqs)
  BY LenProperties
<1> QED
  BY <1>1, <1>2, FlattenIs DEF Joins

(***************************************************************************)
(* Numbers.                                                                *)
(***************************************************************************)
NumberStep(t, radix, f, i) == IF i = 0 THEN 0 ELSE radix * f[i - 1] + DigitValue(t[i])

LEMMA DigitType ==
    ASSUME NEW d \in Range(Digits)
    PROVE  DigitValue(d) \in Nat
<1>1. Len(Digits) = 4 /\ DOMAIN Digits = 1 .. 4
  BY DEF Digits
<1>2. PICK i \in 1 .. 4 : d = Digits[i]
  BY <1>1 DEF Range
<1>3. i - 1 \in 0 .. Len(Digits) - 1 /\ (i - 1) + 1 = i
  BY <1>1
<1>4. \E n \in 0 .. Len(Digits) - 1 : Digits[n + 1] = d
  BY <1>2, <1>3
<1>5. DigitValue(d) \in 0 .. Len(Digits) - 1
  BY <1>4 DEF DigitValue
<1> QED
  BY <1>1, <1>5

LEMMA NumberType ==
    ASSUME NEW t \in Seq(Range(Digits)), NEW radix \in Nat
    PROVE  Number(t, radix) \in Nat
<1>0. Len(t) \in Nat /\ \A i \in 1 .. Len(t) : DigitValue(t[i]) \in Nat
  BY DigitType, LenProperties
<1>1. PICK n : n = Len(t)
  OBVIOUS
<1>2. PICK F : F = CHOOSE f : f = [i \in 0 .. n |-> NumberStep(t, radix, f, i)]
  OBVIOUS
<1>3. Number(t, radix) = F[n] /\ n \in Nat
  BY <1>0, <1>1, <1>2 DEF Number, NumberStep
<1>4. \E f : f = [i \in 0 .. n |-> NumberStep(t, radix, f, i)]
  <2>1. PICK G : G = [i \in 1 .. n |-> [x \in Nat |-> radix * x + DigitValue(t[i])]]
    OBVIOUS
  <2>2. ASSUME NEW i \in 1 .. n, NEW x \in Nat
        PROVE  G[i][x] = radix * x + DigitValue(t[i]) /\ G[i][x] \in Nat
    <3>1. DigitValue(t[i]) \in Nat
      BY <1>0, <1>1
    <3>2. PICK d \in Nat : d = DigitValue(t[i])
      BY <3>1
    <3>3. radix * x \in Nat
      OBVIOUS
    <3>4. radix * x + d \in Nat
      BY <3>3
    <3>5. G[i][x] = radix * x + DigitValue(t[i])
      BY <2>1, Zenon
    <3> QED
      BY <3>2, <3>4, <3>5, Zenon
  <2>3. UpwardSteps(G, n, Nat)
    BY <2>2 DEF UpwardSteps
  <2>4. PICK v \in Nat : v = 0
    OBVIOUS
  <2>5. PICK f : IsUpward(f, G, n, Nat, v)
    BY <1>3, <2>3, Upward
  <2>6. f \in [0 .. n -> Nat] /\ f[0] = 0 /\ \A i \in 1 .. n : f[i] = G[i][f[i - 1]]
    BY <2>4, <2>5 DEF IsUpward
  <2>7. ASSUME NEW i \in 0 .. n PROVE f[i] = NumberStep(t, radix, f, i)
    <3>1. CASE i = 0
      BY <2>6, <3>1 DEF NumberStep
    <3>2. CASE i # 0
      <4>1. i \in 1 .. n /\ i - 1 \in 0 .. n
        BY <1>3, <3>2
      <4>2. f[i - 1] \in Nat
        BY <2>6, <4>1
      <4>3. G[i][f[i - 1]] = radix * f[i - 1] + DigitValue(t[i])
        BY <2>2, <4>1, <4>2
      <4>4. f[i] = G[i][f[i - 1]]
        BY <2>6, <4>1
      <4> QED
        BY <3>2, <4>3, <4>4 DEF NumberStep
    <3> QED
      BY <3>1, <3>2
  <2>8. PICK w : w = [i \in 0 .. n |-> NumberStep(t, radix, f, i)]
    OBVIOUS
  <2>9. \A i \in 0 .. n : f[i] = w[i]
    BY <2>7, <2>8
  <2>10. w = [i \in 0 .. n |-> w[i]] /\ f = [i \in 0 .. n |-> f[i]]
    BY <2>6, <2>8
  <2>11. f = w
    BY <2>9, <2>10
  <2> QED
    BY <2>8, <2>11
<1>5. F = [i \in 0 .. n |-> NumberStep(t, radix, F, i)]
  <2> HIDE DEF NumberStep
  <2> QED
    BY <1>2, <1>4
<1>6. \A i \in 0 .. n : F[i] = NumberStep(t, radix, F, i)
  <2>1. PICK v : v = [i \in 0 .. n |-> NumberStep(t, radix, F, i)]
    OBVIOUS
  <2>2. \A i \in 0 .. n : v[i] = NumberStep(t, radix, F, i)
    BY <2>1
  <2> QED
    BY <1>5, <2>1, <2>2
<1> DEFINE T == {i \in Nat : F[i] \in Nat}
<1>7. 0 \in T
  <2>1. F[0] = NumberStep(t, radix, F, 0)
    BY <1>3, <1>6
  <2> QED
    BY <2>1 DEF NumberStep
<1>8. ASSUME NEW k \in 0 .. n - 1, k \in T PROVE k + 1 \in T
  <2>1. k + 1 \in 0 .. n /\ k + 1 \in 1 .. n /\ (k + 1) - 1 = k /\ k + 1 # 0 /\ k + 1 \in Nat
    BY <1>3
  <2>2. F[k + 1] = radix * F[k] + DigitValue(t[k + 1])
    BY <1>6, <2>1 DEF NumberStep
  <2>3. F[k] \in Nat /\ DigitValue(t[k + 1]) \in Nat
    BY <1>0, <1>1, <1>8, <2>1
  <2>4. radix * F[k] \in Nat
    BY <2>3
  <2> QED
    BY <2>1, <2>2, <2>3, <2>4
<1>9. n \in T
  <2> HIDE DEF T
  <2>1. \A i \in 0 .. n : i \in T
    BY <1>3, <1>7, <1>8, UpTo
  <2> QED
    BY <1>3, <2>1
<1> QED
  BY <1>3, <1>9

LEMMA LeadingType ==
    ASSUME NEW t \in Seq(Bytes)
    PROVE  LeadingDigits(t) \in Seq(Range(Digits))
<1>0. Len(t) \in Nat /\ DOMAIN t = 1 .. Len(t)
  BY LenProperties
<1>1. PICK T : T = {i \in DOMAIN t : t[i] \notin Range(Digits)} \cup {Len(t) + 1}
  OBVIOUS
<1>2. T \subseteq Nat /\ T # {} /\ Len(t) + 1 \in T
  BY <1>0, <1>1
<1>3. PICK m : m = Min(T)
  OBVIOUS
<1>4. m \in T /\ \A y \in T : m <= y
  BY <1>2, <1>3, MinIs
<1>5. m \in 1 .. Len(t) + 1
  BY <1>0, <1>1, <1>4
<1>6. PICK z, n \in Nat : z = 0 /\ n = m - 1
  BY <1>0, <1>5
<1>7. z \in Nat /\ z + n <= Len(t) /\ z + 1 = 1 /\ z + n = m - 1
  BY <1>0, <1>5, <1>6
<1>8. PICK s : s = SubSeq(t, 1, m - 1)
  OBVIOUS
<1>9. s \in Seq(Bytes) /\ Len(s) = n /\ \A i \in 1 .. n : s[i] = t[z + i]
  BY <1>7, <1>8, PartOf
<1>10. ASSUME NEW i \in 1 .. n PROVE s[i] \in Range(Digits)
  <2>1. z + i = i /\ i \in DOMAIN t /\ ~(m <= i)
    BY <1>0, <1>5, <1>6
  <2>2. s[i] = t[i] /\ i \notin T
    BY <1>4, <1>9, <2>1
  <2> QED
    BY <1>1, <2>1, <2>2
<1>11. s \in Seq(Range(Digits))
  <2>1. s \in [1 .. n -> Range(Digits)]
    <3>1. s = [i \in 1 .. n |-> s[i]]
      BY <1>9, LenProperties
    <3> QED
      BY <1>10, <3>1
  <2> QED
    BY <2>1, SeqDef
<1> QED
  BY <1>1, <1>3, <1>8, <1>11 DEF LeadingDigits

LEMMA ContentLengthType ==
    ASSUME NEW fields \in Seq(Fields)
    PROVE  getContentLength(fields) \in Nat \cup {-1}
<1>0. Len(fields) \in Nat /\ DOMAIN fields = 1 .. Len(fields) /\ \A i \in DOMAIN fields : fields[i] \in Fields
  BY LenProperties
<1>1. PICK found : found = {i \in DOMAIN fields : fields[i].name = "length"}
  OBVIOUS
<1>2. CASE found = {} \/ fields[Max(found)].value = <<>>
  BY <1>1, <1>2 DEF getContentLength
<1>3. CASE ~(found = {} \/ fields[Max(found)].value = <<>>)
  <2>1. found \subseteq 0 .. Len(fields) /\ found # {}
    BY <1>0, <1>1, <1>3
  <2>2. Max(found) \in found
    BY <1>0, <2>1, MaxIs
  <2>3. PICK t : t = fields[Max(found)].value
    OBVIOUS
  <2>4. fields[Max(found)] \in Fields
    BY <1>0, <1>1, <2>2
  <2>5. t \in Seq(Bytes)
    BY <2>3, <2>4 DEF Fields
  <2>6. Number(LeadingDigits(t), 10) \in Nat
    BY <2>5, LeadingType, NumberType
  <2> QED
    BY <1>1, <1>3, <2>3, <2>6 DEF getContentLength
<1> QED
  BY <1>2, <1>3

(***************************************************************************)
(* Lines.                                                                  *)
(***************************************************************************)
Buffers == [bytes : Seq(Bytes), reader : Nat]
IsBuffer(b) == b \in Buffers /\ b.reader <= Len(b.bytes)

LEMMA BufferFacts ==
    ASSUME NEW b, IsBuffer(b)
    PROVE  /\ b.bytes \in Seq(Bytes) /\ Len(b.bytes) \in Nat /\ DOMAIN b.bytes = 1 .. Len(b.bytes)
           /\ b.reader \in 0 .. Len(b.bytes) /\ b.reader \in Nat
           /\ readableBytes(b) \in Nat /\ Len(b.bytes) = b.reader + readableBytes(b)
           /\ b = [bytes |-> b.bytes, reader |-> b.reader]
<1>1. b.bytes \in Seq(Bytes) /\ b.reader \in Nat /\ b.reader <= Len(b.bytes)
      /\ b = [bytes |-> b.bytes, reader |-> b.reader]
  BY DEF IsBuffer, Buffers
<1>2. Len(b.bytes) \in Nat /\ DOMAIN b.bytes = 1 .. Len(b.bytes)
  BY <1>1, LenProperties
<1> QED
  BY <1>1, <1>2 DEF readableBytes

LEMMA MoveType ==
    ASSUME NEW b, IsBuffer(b), NEW i \in 0 .. Len(b.bytes)
    PROVE  /\ IsBuffer(MoveTo(b, i)) /\ MoveTo(b, i).reader = i /\ MoveTo(b, i).bytes = b.bytes
           /\ IsBuffer(ToEnd(b)) /\ ToEnd(b).reader = Len(b.bytes) /\ ToEnd(b).bytes = b.bytes
<1>1. Len(b.bytes) \in Nat /\ i \in Nat /\ i <= Len(b.bytes)
  BY BufferFacts
<1>2. /\ MoveTo(b, i).reader = i /\ MoveTo(b, i).bytes = b.bytes /\ MoveTo(b, i) \in Buffers
      /\ ToEnd(b).reader = Len(b.bytes) /\ ToEnd(b).bytes = b.bytes /\ ToEnd(b) \in Buffers
  BY <1>1 DEF MoveTo, ToEnd, IsBuffer, Buffers
<1> QED
  BY <1>1, <1>2 DEF IsBuffer

LEMMA SliceType ==
    ASSUME NEW b, IsBuffer(b), NEW n \in 0 .. readableBytes(b)
    PROVE  /\ Slice(b, n) \in Seq(Bytes) /\ Len(Slice(b, n)) = n
           /\ \A i \in 1 .. n : Slice(b, n)[i] = b.bytes[b.reader + i]
<1>1. /\ b.bytes \in Seq(Bytes) /\ b.reader \in Nat /\ readableBytes(b) \in Nat
      /\ Len(b.bytes) = b.reader + readableBytes(b)
  BY BufferFacts
<1>2. PICK s, m : s = b.bytes /\ m = b.reader
  OBVIOUS
<1>3. s \in Seq(Bytes) /\ m \in Nat /\ n \in Nat /\ m + n <= Len(s)
  BY <1>1, <1>2
<1>4. /\ SubSeq(s, m + 1, m + n) \in Seq(Bytes) /\ Len(SubSeq(s, m + 1, m + n)) = n
      /\ \A i \in 1 .. n : SubSeq(s, m + 1, m + n)[i] = s[m + i]
  BY <1>3, PartOf
<1> QED
  BY <1>2, <1>4 DEF Slice

EndsOf(b, p) == {j \in p + 1 .. Len(b.bytes) : b.bytes[j] = "LF"}

LEMMA LineIncomplete ==
    ASSUME NEW b, NEW p, EndsOf(b, p) = {}
    PROVE  LineAt(b, p).complete = FALSE
BY DEF LineAt, EndsOf

(* Byte j is the first line feed after byte p. *)
LineEnd(b, p, j) ==
    /\ j \in p + 1 .. Len(b.bytes) /\ b.bytes[j] = "LF"
    /\ \A i \in p + 1 .. j - 1 : b.bytes[i] # "LF"
Eol(b, p, j) == IF j > p + 1 /\ b.bytes[j - 1] = "CR" THEN j - 1 ELSE j

LEMMA LineComplete ==
    ASSUME NEW b, IsBuffer(b), NEW p \in Nat, NEW j, LineEnd(b, p, j)
    PROVE  /\ LineAt(b, p).complete = TRUE /\ LineAt(b, p).from = p /\ LineAt(b, p).next = j
           /\ LineAt(b, p).eol = Eol(b, p, j)
           /\ LineAt(b, p).text = SubSeq(b.bytes, p + 1, Eol(b, p, j) - 1)
<1>0. Len(b.bytes) \in Nat
  BY BufferFacts
<1>1. EndsOf(b, p) \subseteq Nat /\ j \in EndsOf(b, p) /\ EndsOf(b, p) # {}
  BY <1>0 DEF EndsOf, LineEnd
<1>2. Min(EndsOf(b, p)) \in EndsOf(b, p) /\ \A y \in EndsOf(b, p) : Min(EndsOf(b, p)) <= y
  BY <1>1, MinIs
<1>3. PICK m : m = Min(EndsOf(b, p))
  OBVIOUS
<1>4. m = j
  <2>1. m \in p + 1 .. Len(b.bytes) /\ b.bytes[m] = "LF" /\ m <= j
    BY <1>1, <1>2, <1>3 DEF EndsOf
  <2>2. j \in Nat /\ m \in Nat
    BY <1>0, <2>1 DEF LineEnd
  <2>3. ~(m \in p + 1 .. j - 1)
    BY <2>1 DEF LineEnd
  <2> QED
    BY <1>0, <2>1, <2>2, <2>3
<1>5. PICK t, e, l : /\ e = Eol(b, p, j) /\ t = SubSeq(b.bytes, p + 1, e - 1)
                     /\ l = LineAt(b, p)
  OBVIOUS
<1>6. l = [from |-> p, text |-> t, eol |-> e, next |-> j, complete |-> TRUE]
  BY <1>1, <1>3, <1>4, <1>5 DEF LineAt, EndsOf, Eol
<1>7. l.complete = TRUE /\ l.from = p /\ l.next = j /\ l.eol = e /\ l.text = t
  BY <1>6
<1> QED
  BY <1>5, <1>7

LEMMA EndFirst ==
    ASSUME NEW b, IsBuffer(b), NEW p \in Nat, EndsOf(b, p) # {}
    PROVE  \E j : LineEnd(b, p, j)
<1>0. Len(b.bytes) \in Nat
  BY BufferFacts
<1>1. EndsOf(b, p) \subseteq Nat
  BY <1>0 DEF EndsOf
<1>2. PICK j \in EndsOf(b, p) : \A y \in EndsOf(b, p) : j <= y
  BY <1>1, LeastNumber
<1>3. j \in p + 1 .. Len(b.bytes) /\ b.bytes[j] = "LF"
  BY <1>2 DEF EndsOf
<1>4. ASSUME NEW i \in p + 1 .. j - 1 PROVE b.bytes[i] # "LF"
  <2>1. i \in p + 1 .. Len(b.bytes) /\ ~(j <= i)
    BY <1>0, <1>3
  <2> QED
    BY <1>2, <2>1 DEF EndsOf
<1> QED
  BY <1>3, <1>4 DEF LineEnd

(* What every line is. *)
IsLine(b, p, l) ==
    /\ l.from = p /\ l.text \in Seq(Bytes) /\ l.complete \in BOOLEAN
    /\ l.complete => l.next \in p + 1 .. Len(b.bytes) /\ l.eol \in p + 1 .. l.next

LEMMA LineType ==
    ASSUME NEW b, IsBuffer(b), NEW p \in 0 .. Len(b.bytes)
    PROVE  IsLine(b, p, LineAt(b, p))
<1>0. Len(b.bytes) \in Nat /\ p \in Nat /\ b.bytes \in Seq(Bytes)
  BY BufferFacts
<1>1. PICK s : s = b.bytes
  OBVIOUS
<1>2. ASSUME NEW e \in p + 1 .. Len(b.bytes) + 1
      PROVE  SubSeq(b.bytes, p + 1, e - 1) \in Seq(Bytes)
  <2>1. PICK n \in Nat : n = (e - 1) - p
    BY <1>0
  <2>2. p + n = e - 1 /\ p + n <= Len(s) /\ s \in Seq(Bytes)
    BY <1>0, <1>1, <2>1
  <2>3. SubSeq(s, p + 1, p + n) \in Seq(Bytes)
    BY <1>0, <2>2, PartOf
  <2> QED
    BY <1>1, <2>2, <2>3
<1>3. CASE EndsOf(b, p) = {}
  <2>1. PICK j : j = Len(b.bytes) + 1
    OBVIOUS
  <2>2. PICK e : e = Eol(b, p, j)
    OBVIOUS
  <2>3. LineAt(b, p) = [from |-> p, text |-> SubSeq(b.bytes, p + 1, e - 1),
                        eol |-> e, next |-> j, complete |-> FALSE]
    BY <1>3, <2>1, <2>2 DEF LineAt, EndsOf, Eol
  <2>4. e \in p + 1 .. Len(b.bytes) + 1
    BY <1>0, <2>1, <2>2 DEF Eol
  <2> QED
    BY <1>2, <2>3, <2>4 DEF IsLine
<1>4. CASE EndsOf(b, p) # {}
  <2>1. PICK j : LineEnd(b, p, j)
    BY <1>0, <1>4, EndFirst
  <2>2. PICK e : e = Eol(b, p, j)
    OBVIOUS
  <2>3. j \in p + 1 .. Len(b.bytes)
    BY <2>1 DEF LineEnd
  <2>4. e \in p + 1 .. j /\ e \in p + 1 .. Len(b.bytes) + 1
    BY <1>0, <2>2, <2>3 DEF Eol
  <2>5. /\ LineAt(b, p).complete = TRUE /\ LineAt(b, p).from = p /\ LineAt(b, p).next = j
        /\ LineAt(b, p).eol = e /\ LineAt(b, p).text = SubSeq(b.bytes, p + 1, e - 1)
    BY <1>0, <2>1, <2>2, LineComplete
  <2> QED
    BY <1>2, <2>3, <2>4, <2>5 DEF IsLine
<1> QED
  BY <1>3, <1>4

LinesOf(b) == {l \in {LineAt(b, p) : p \in 0 .. Len(b.bytes)} : l.complete}

LinesStep(b, f, q) ==
    IF ~LineAt(b, q).complete THEN <<>>
    ELSE IF LineAt(b, q).text = <<>> THEN <<LineAt(b, q)>>
    ELSE <<LineAt(b, q)>> \o f[LineAt(b, q).next]
LinesFrom(b, p) == CHOOSE f : f = [q \in p .. Len(b.bytes) |-> LinesStep(b, f, q)]

LEMMA LinesAfterIs ==
    ASSUME NEW b, NEW p
    PROVE  LinesAfter(b, p) = LinesFrom(b, p)[p]
BY DEF LinesAfter, LinesFrom, LinesStep

(* Two functions that give the same lines after byte q. *)
SameLines(b, q, f, g) ==
    \A i \in q + 1 .. Len(b.bytes) : f[i] \in Seq(LinesOf(b)) /\ f[i] = g[i]

LEMMA LinesStepType ==
    ASSUME NEW b, IsBuffer(b), NEW q \in 0 .. Len(b.bytes), NEW f, NEW g, SameLines(b, q, f, g)
    PROVE  LinesStep(b, f, q) \in Seq(LinesOf(b)) /\ LinesStep(b, f, q) = LinesStep(b, g, q)
<1>1. PICK l, L : l = LineAt(b, q) /\ L = LinesOf(b)
  OBVIOUS
<1>2. IsLine(b, q, l)
  BY <1>1, LineType
<1>3. CASE ~l.complete
  BY <1>1, <1>3 DEF LinesStep
<1>4. CASE l.complete /\ l.text = <<>>
  <2>1. l \in L
    BY <1>1, <1>4 DEF LinesOf
  <2>2. <<l>> \in Seq(L)
    BY <2>1
  <2> QED
    BY <1>1, <1>4, <2>2 DEF LinesStep
<1>5. CASE l.complete /\ l.text # <<>>
  <2>1. l \in L
    BY <1>1, <1>5 DEF LinesOf
  <2>2. <<l>> \in Seq(L)
    BY <2>1
  <2>3. l.next \in q + 1 .. Len(b.bytes)
    BY <1>2, <1>5 DEF IsLine
  <2>4. PICK s : s = f[l.next]
    OBVIOUS
  <2>5. s \in Seq(L) /\ s = g[l.next]
    BY <1>1, <2>3, <2>4 DEF SameLines
  <2>6. <<l>> \o s \in Seq(L)
    BY <2>2, <2>5, ConcatProperties
  <2>7. LinesStep(b, f, q) = <<l>> \o s /\ LinesStep(b, g, q) = <<l>> \o s
    BY <1>1, <1>5, <2>4, <2>5 DEF LinesStep
  <2> QED
    BY <1>1, <2>6, <2>7
<1> QED
  BY <1>2, <1>3, <1>4, <1>5 DEF IsLine

LEMMA LinesUnfold ==
    ASSUME NEW b, IsBuffer(b), NEW p \in 0 .. Len(b.bytes)
    PROVE  \A q \in p .. Len(b.bytes) :
               /\ LinesFrom(b, p)[q] \in Seq(LinesOf(b))
               /\ LinesFrom(b, p)[q] = LinesStep(b, LinesFrom(b, p), q)
<1>0. Len(b.bytes) \in Nat
  BY BufferFacts
<1>1. PICK n, S : n = Len(b.bytes) /\ S = Seq(LinesOf(b))
  OBVIOUS
<1>2. n \in Nat /\ p \in Nat /\ p \in 0 .. n
  BY <1>0, <1>1
<1>3. PICK f : f \in [0 .. n -> S] /\ \A i \in 0 .. n : f[i] = LinesStep(b, f, i)
  <2>1. PICK G : G = [i \in 0 .. n |-> [h \in [i + 1 .. n -> S] |-> LinesStep(b, h, i)]]
    OBVIOUS
  <2>2. ASSUME NEW i \in 0 .. n, NEW h \in [i + 1 .. n -> S]
        PROVE  G[i][h] = LinesStep(b, h, i) /\ G[i][h] \in S
    <3>1. G[i][h] = LinesStep(b, h, i)
      BY <2>1, Zenon
    <3>2. SameLines(b, i, h, h)
      BY <1>1 DEF SameLines
    <3>3. LinesStep(b, h, i) \in S
      BY <1>1, <3>2, LinesStepType
    <3> QED
      BY <3>1, <3>3
  <2>3. DownwardSteps(G, n, S)
    BY <2>2 DEF DownwardSteps
  <2>4. PICK f : IsDownward(f, G, n, S)
    BY <1>2, <2>3, Downward
  <2>5. f \in [0 .. n -> S] /\ \A i \in 0 .. n : f[i] = G[i][[j \in i + 1 .. n |-> f[j]]]
    BY <2>4 DEF IsDownward
  <2>6. ASSUME NEW i \in 0 .. n PROVE f[i] = LinesStep(b, f, i)
    <3>1. PICK h : h = [j \in i + 1 .. n |-> f[j]]
      OBVIOUS
    <3>2. \A j \in i + 1 .. n : j \in 0 .. n
      BY <1>2
    <3>3. \A j \in i + 1 .. n : h[j] = f[j] /\ f[j] \in S
      BY <2>5, <3>1, <3>2
    <3>4. h \in [i + 1 .. n -> S]
      BY <3>1, <3>3
    <3>5. f[i] = LinesStep(b, h, i)
      BY <2>2, <2>5, <3>1, <3>4
    <3>6. SameLines(b, i, h, f)
      BY <1>1, <3>3 DEF SameLines
    <3>7. LinesStep(b, h, i) = LinesStep(b, f, i)
      BY <1>1, <3>6, LinesStepType
    <3> QED
      BY <3>5, <3>7
  <2> QED
    BY <2>5, <2>6
<1>4. PICK g : g = [i \in p .. n |-> f[i]]
  OBVIOUS
<1>5. ASSUME NEW i \in p .. n PROVE g[i] = LinesStep(b, g, i)
  <2>1. i \in 0 .. n /\ \A j \in i + 1 .. n : j \in p .. n /\ j \in 0 .. n
    BY <1>2
  <2>2. SameLines(b, i, f, g)
    BY <1>1, <1>3, <1>4, <2>1 DEF SameLines
  <2>3. LinesStep(b, f, i) = LinesStep(b, g, i)
    BY <1>1, <2>1, <2>2, LinesStepType
  <2> QED
    BY <1>3, <1>4, <2>1, <2>3
<1>6. g = [i \in p .. n |-> LinesStep(b, g, i)]
  <2>1. PICK v : v = [i \in p .. n |-> LinesStep(b, g, i)]
    OBVIOUS
  <2>2. \A i \in p .. n : g[i] = v[i]
    BY <1>5, <2>1
  <2>3. v = [i \in p .. n |-> v[i]] /\ g = [i \in p .. n |-> g[i]]
    BY <1>4, <2>1
  <2>4. g = v
    BY <2>2, <2>3
  <2> QED
    BY <2>1, <2>4
<1>7. PICK F : F = LinesFrom(b, p)
  OBVIOUS
<1>8. F = [i \in p .. n |-> LinesStep(b, F, i)]
  <2>1. F = CHOOSE h : h = [i \in p .. n |-> LinesStep(b, h, i)]
    BY <1>1, <1>7 DEF LinesFrom
  <2>2. \E h : h = [i \in p .. n |-> LinesStep(b, h, i)]
    BY <1>6
  <2> HIDE DEF LinesStep
  <2> QED
    BY <2>1, <2>2
<1>9. \A i \in p .. n : F[i] = LinesStep(b, F, i)
  <2>1. PICK v : v = [i \in p .. n |-> LinesStep(b, F, i)]
    OBVIOUS
  <2>2. \A i \in p .. n : v[i] = LinesStep(b, F, i)
    BY <2>1
  <2> QED
    BY <1>8, <2>1, <2>2
<1> DEFINE T == {k \in Nat : k > n - p \/ \A i \in n - k .. n : F[i] \in S}
<1>10. 0 \in T
  <2>1. n \in p .. n /\ n \in 0 .. Len(b.bytes) /\ SameLines(b, n, F, F)
    BY <1>1, <1>2 DEF SameLines
  <2>2. LinesStep(b, F, n) \in S
    BY <1>1, <1>2, <2>1, LinesStepType
  <2>3. \A i \in n - 0 .. n : i = n
    BY <1>2
  <2>4. \A i \in n - 0 .. n : F[i] \in S
    BY <1>9, <2>1, <2>2, <2>3
  <2> QED
    BY <2>4
<1>11. ASSUME NEW k \in 0 .. n - 1, k \in T PROVE k + 1 \in T
  <2>1. k + 1 \in Nat
    BY <1>2
  <2>2. CASE k + 1 > n - p
    BY <2>1, <2>2
  <2>3. CASE ~(k + 1 > n - p)
    <3>1. PICK x : x = n - (k + 1)
      OBVIOUS
    <3>2. x \in p .. n /\ x \in 0 .. n /\ ~(k > n - p) /\ x + 1 = n - k
      BY <1>2, <2>3, <3>1
    <3>3. \A i \in x + 1 .. n : F[i] \in S
      BY <1>11, <3>2
    <3>4. SameLines(b, x, F, F) /\ x \in 0 .. Len(b.bytes)
      BY <1>1, <3>2, <3>3 DEF SameLines
    <3>5. F[x] \in S
      <4>1. LinesStep(b, F, x) \in S
        BY <1>1, <3>4, LinesStepType
      <4> QED
        BY <1>9, <3>2, <4>1
    <3>6. \A i \in x .. n : i = x \/ i \in x + 1 .. n
      BY <1>2, <3>2
    <3>7. \A i \in n - (k + 1) .. n : F[i] \in S
      BY <3>1, <3>3, <3>5, <3>6
    <3> QED
      BY <2>1, <3>7
  <2> QED
    BY <2>2, <2>3
<1>12. \A i \in 0 .. n : i \in T
  <2> HIDE DEF T
  <2> QED
    BY <1>2, <1>10, <1>11, UpTo
<1>13. ASSUME NEW q \in p .. n PROVE F[q] \in S
  <2>1. PICK k : k = n - q
    OBVIOUS
  <2>2. k \in 0 .. n /\ ~(k > n - p) /\ q \in n - k .. n
    BY <1>2, <2>1
  <2>3. k \in T
    BY <1>12, <2>2
  <2> QED
    BY <2>2, <2>3
<1> QED
  BY <1>1, <1>7, <1>9, <1>13

LEMMA LinesType ==
    ASSUME NEW b, IsBuffer(b), NEW p \in 0 .. Len(b.bytes)
    PROVE  /\ LinesAfter(b, p) \in Seq(LinesOf(b))
           /\ \A l \in LinesOf(b) : /\ l.text \in Seq(Bytes) /\ l.next \in 1 .. Len(b.bytes)
                                    /\ l.complete /\ l.from \in Nat
<1>0. Len(b.bytes) \in Nat
  BY BufferFacts
<1>1. p \in p .. Len(b.bytes)
  BY <1>0
<1>2. LinesAfter(b, p) \in Seq(LinesOf(b))
  BY <1>1, LinesAfterIs, LinesUnfold
<1>3. ASSUME NEW l \in LinesOf(b)
      PROVE  l.text \in Seq(Bytes) /\ l.next \in 1 .. Len(b.bytes) /\ l.complete /\ l.from \in Nat
  <2>1. PICK q \in 0 .. Len(b.bytes) : l = LineAt(b, q)
    BY DEF LinesOf
  <2>2. IsLine(b, q, l) /\ l.complete
    BY <2>1, LineType DEF LinesOf
  <2> QED
    BY <1>0, <2>2 DEF IsLine
<1> QED
  BY <1>2, <1>3

(***************************************************************************)
(* What a call of decode returns.                                          *)
(***************************************************************************)
Decoders == [state : States, chunkSize : Nat, fields : Seq(Fields)]
DecOf(state, size, fields) == [state |-> state, chunkSize |-> size, fields |-> fields]

LEMMA DecFacts ==
    ASSUME NEW d \in Decoders
    PROVE  /\ d.state \in States /\ d.chunkSize \in Nat /\ d.fields \in Seq(Fields)
           /\ d = DecOf(d.state, d.chunkSize, d.fields)
BY DEF Decoders, DecOf

LEMMA DecParts ==
    ASSUME NEW s, NEW c, NEW f
    PROVE  DecOf(s, c, f).state = s /\ DecOf(s, c, f).chunkSize = c /\ DecOf(s, c, f).fields = f
BY DEF DecOf

LEMMA OutcomeParts ==
    ASSUME NEW b, NEW d, NEW more, NEW msgs, NEW checked, NEW ends, NEW o,
           o = Outcome(b, d, more, msgs, checked, ends)
    PROVE  /\ o.buf = b /\ o.dec = d /\ o.more = more /\ o.msgs = msgs
           /\ o.checked = checked /\ o.ends = ends
BY DEF Outcome

(* An outcome with a checkpoint, and one without that waits for bytes.     *)
Checked(b, d, msgs) == Outcome(b, d, FALSE, msgs, TRUE, "returns")
Waiting(b, d) == Outcome(b, d, TRUE, <<>>, FALSE, "returns")

LEMMA CheckedParts ==
    ASSUME NEW b, NEW d, NEW msgs, NEW o, o = Checked(b, d, msgs)
    PROVE  o.buf = b /\ o.dec = d /\ o.msgs = msgs /\ o.ends = "returns" /\ ~o.more /\ o.checked
<1>1. PICK no, yes, r : no = FALSE /\ yes = TRUE /\ r = "returns"
  OBVIOUS
<1>2. o = Outcome(b, d, no, msgs, yes, r)
  BY <1>1 DEF Checked
<1>3. o.buf = b /\ o.dec = d /\ o.more = no /\ o.msgs = msgs /\ o.checked = yes /\ o.ends = r
  BY <1>2, OutcomeParts
<1> QED
  BY <1>1, <1>3

LEMMA WaitingParts ==
    ASSUME NEW b, NEW d, NEW o, o = Waiting(b, d)
    PROVE  o.buf = b /\ o.dec = d /\ o.msgs = <<>> /\ o.ends = "returns" /\ o.more /\ ~o.checked
<1>1. PICK no, yes, e, r : no = FALSE /\ yes = TRUE /\ e = <<>> /\ r = "returns"
  OBVIOUS
<1>2. o = Outcome(b, d, yes, e, no, r)
  BY <1>1 DEF Waiting
<1>3. o.buf = b /\ o.dec = d /\ o.more = yes /\ o.msgs = e /\ o.checked = no /\ o.ends = r
  BY <1>2, OutcomeParts
<1> QED
  BY <1>1, <1>3

LEMMA CheckpointIs ==
    ASSUME NEW b, NEW s, dec \in Decoders
    PROVE  checkpoint(b, s) = Checked(b, DecOf(s, dec.chunkSize, dec.fields), <<>>)
<1>1. PICK d : d = dec
  OBVIOUS
<1>2. d \in [state : States, chunkSize : Nat, fields : Seq(Fields)]
  BY <1>1 DEF Decoders
<1>3. [d EXCEPT !.state = s] = [state |-> s, chunkSize |-> d.chunkSize, fields |-> d.fields]
  BY <1>2
<1> QED
  BY <1>1, <1>3 DEF checkpoint, DecOf, Checked

LEMMA ReturnsIs ==
    ASSUME NEW b, NEW d, NEW msgs, NEW new, NEW o, o = Checked(b, d, msgs)
    PROVE  Returns(o, new) = Checked(b, d, new)
<1>1. PICK no, yes, r : no = FALSE /\ yes = TRUE /\ r = "returns"
  OBVIOUS
<1>2. o = Outcome(b, d, no, msgs, yes, r)
  BY <1>1 DEF Checked
<1>3. Returns(o, new) = Outcome(b, d, no, new, yes, r)
  BY <1>2 DEF Returns, Outcome
<1>4. Checked(b, d, new) = Outcome(b, d, no, new, yes, r)
  BY <1>1 DEF Checked
<1> QED
  BY <1>3, <1>4

LEMMA FieldsIs ==
    ASSUME NEW b, NEW s, NEW c, NEW f, NEW msgs, NEW new, NEW o,
           o = Checked(b, DecOf(s, c, f), msgs)
    PROVE  [o EXCEPT !.dec.fields = new] = Checked(b, DecOf(s, c, new), msgs)
<1>1. PICK no, yes, r : no = FALSE /\ yes = TRUE /\ r = "returns"
  OBVIOUS
<1>2. o = Outcome(b, DecOf(s, c, f), no, msgs, yes, r)
  BY <1>1 DEF Checked
<1>3. [o EXCEPT !.dec.fields = new] = Outcome(b, DecOf(s, c, new), no, msgs, yes, r)
  BY <1>2 DEF Outcome, DecOf
<1>4. Checked(b, DecOf(s, c, new), msgs) = Outcome(b, DecOf(s, c, new), no, msgs, yes, r)
  BY <1>1 DEF Checked
<1> QED
  BY <1>3, <1>4

LEMMA SizeIs ==
    ASSUME NEW b, NEW s, NEW c, NEW f, NEW msgs, NEW new, NEW o,
           o = Checked(b, DecOf(s, c, f), msgs)
    PROVE  [o EXCEPT !.dec.chunkSize = new] = Checked(b, DecOf(s, new, f), msgs)
<1>1. PICK no, yes, r : no = FALSE /\ yes = TRUE /\ r = "returns"
  OBVIOUS
<1>2. o = Outcome(b, DecOf(s, c, f), no, msgs, yes, r)
  BY <1>1 DEF Checked
<1>3. [o EXCEPT !.dec.chunkSize = new] = Outcome(b, DecOf(s, new, f), no, msgs, yes, r)
  BY <1>2 DEF Outcome, DecOf
<1>4. Checked(b, DecOf(s, new, f), msgs) = Outcome(b, DecOf(s, new, f), no, msgs, yes, r)
  BY <1>1 DEF Checked
<1> QED
  BY <1>3, <1>4

LEMMA WaitingFieldsIs ==
    ASSUME NEW b, NEW s, NEW c, NEW f, NEW new, NEW o, o = Waiting(b, DecOf(s, c, f))
    PROVE  [o EXCEPT !.dec.fields = new] = Waiting(b, DecOf(s, c, new))
<1>1. PICK no, yes, e, r : no = FALSE /\ yes = TRUE /\ e = <<>> /\ r = "returns"
  OBVIOUS
<1>2. o = Outcome(b, DecOf(s, c, f), yes, e, no, r)
  BY <1>1 DEF Waiting
<1>3. [o EXCEPT !.dec.fields = new] = Outcome(b, DecOf(s, c, new), yes, e, no, r)
  BY <1>2 DEF Outcome, DecOf
<1>4. Waiting(b, DecOf(s, c, new)) = Outcome(b, DecOf(s, c, new), yes, e, no, r)
  BY <1>1 DEF Waiting
<1> QED
  BY <1>3, <1>4

(* What every outcome is: reader and bytes fit, and content of a fixed     *)
(* length is read only if there is some.                                   *)
IsDecoder(d) ==
    d \in Decoders /\ (d.state = "READ_FIXED_LENGTH_CONTENT" => getContentLength(d.fields) > 0)
IsOutcome(b, o) ==
    IsBuffer(o.buf) /\ Len(o.buf.bytes) = Len(b.bytes) /\ IsDecoder(o.dec) /\ o.msgs \in Seq(Messages)

LEMMA OutcomeType ==
    ASSUME NEW b, NEW b2, NEW d, NEW more, NEW msgs, NEW checked, NEW ends,
           IsBuffer(b2), Len(b2.bytes) = Len(b.bytes), IsDecoder(d), msgs \in Seq(Messages)
    PROVE  IsOutcome(b, Outcome(b2, d, more, msgs, checked, ends))
BY OutcomeParts DEF IsOutcome

LEMMA CheckedType ==
    ASSUME NEW b, NEW b2, NEW d, NEW msgs, IsBuffer(b2), Len(b2.bytes) = Len(b.bytes),
           IsDecoder(d), msgs \in Seq(Messages)
    PROVE  IsOutcome(b, Checked(b2, d, msgs))
<1>1. PICK o : o = Checked(b2, d, msgs)
  OBVIOUS
<1>2. o.buf = b2 /\ o.dec = d /\ o.msgs = msgs
  BY <1>1, CheckedParts
<1> QED
  BY <1>1, <1>2 DEF IsOutcome

LEMMA WaitingType ==
    ASSUME NEW b, NEW b2, NEW d, IsBuffer(b2), Len(b2.bytes) = Len(b.bytes), IsDecoder(d)
    PROVE  IsOutcome(b, Waiting(b2, d))
<1>1. <<>> \in Seq(Messages)
  OBVIOUS
<1>2. PICK o : o = Waiting(b2, d)
  OBVIOUS
<1>3. o.buf = b2 /\ o.dec = d /\ o.msgs = <<>>
  BY <1>2, WaitingParts
<1> QED
  BY <1>1, <1>2, <1>3 DEF IsOutcome

LEMMA DecType ==
    ASSUME NEW s \in States, NEW c \in Nat, NEW f \in Seq(Fields),
           s = "READ_FIXED_LENGTH_CONTENT" => getContentLength(f) > 0
    PROVE  IsDecoder(DecOf(s, c, f))
BY DecParts DEF IsDecoder, Decoders, DecOf

LEMMA CheckpointType ==
    ASSUME NEW b, IsBuffer(b), NEW i \in 0 .. Len(b.bytes), NEW s \in States, IsDecoder(dec),
           s # "READ_FIXED_LENGTH_CONTENT"
    PROVE  IsOutcome(b, checkpoint(MoveTo(b, i), s))
<1>1. PICK m : m = MoveTo(b, i)
  OBVIOUS
<1>2. IsBuffer(m) /\ m.bytes = b.bytes
  BY <1>1, MoveType
<1>3. dec \in Decoders
  BY DEF IsDecoder
<1>4. PICK c, f : c = dec.chunkSize /\ f = dec.fields
  OBVIOUS
<1>5. c \in Nat /\ f \in Seq(Fields)
  BY <1>3, <1>4, DecFacts
<1>6. IsDecoder(DecOf(s, c, f))
  BY <1>5, DecType
<1>7. <<>> \in Seq(Messages)
  OBVIOUS
<1>8. checkpoint(m, s) = Checked(m, DecOf(s, c, f), <<>>)
  BY <1>3, <1>4, CheckpointIs
<1> QED
  BY <1>1, <1>2, <1>6, <1>7, <1>8, CheckedType

LEMMA PlainType ==
    ASSUME NEW b, NEW b2, IsBuffer(b2), Len(b2.bytes) = Len(b.bytes), IsDecoder(dec)
    PROVE  IsOutcome(b, NeedMore(b2)) /\ IsOutcome(b, Throws(b2)) /\ IsOutcome(b, Faults(b2))
<1>1. <<>> \in Seq(Messages)
  OBVIOUS
<1>2. PICK d : d = dec
  OBVIOUS
<1>3. ASSUME NEW more, NEW checked, NEW ends
      PROVE  IsOutcome(b, Outcome(b2, d, more, <<>>, checked, ends))
  BY <1>1, <1>2, OutcomeType
<1> QED
  BY <1>2, <1>3 DEF NeedMore, Throws, Faults

StartsOf(b) == {i \in b.reader + 1 .. Len(b.bytes) : b.bytes[i] \notin Control}

LEMMA SkipType ==
    ASSUME NEW b, IsBuffer(b), IsDecoder(dec), dec.state = "SKIP_CONTROL_CHARS"
    PROVE  IsOutcome(b, skipControlCharacters(b))
<1>0. Len(b.bytes) \in Nat /\ b.reader \in Nat
  BY BufferFacts
<1>1. CASE StartsOf(b) = {}
  <2>1. PICK o : o = checkpoint(ToEnd(b), dec.state)
    OBVIOUS
  <2>2. Len(b.bytes) \in 0 .. Len(b.bytes) /\ dec.state \in States
    BY <1>0, DecFacts DEF IsDecoder
  <2>3. IsOutcome(b, o)
    <3>1. PICK n, s : n = Len(b.bytes) /\ s = dec.state
      OBVIOUS
    <3>2. IsOutcome(b, checkpoint(MoveTo(b, n), s))
      BY <2>2, <3>1, CheckpointType
    <3> QED
      BY <2>1, <3>1, <3>2 DEF ToEnd
  <2>4. PICK c, f : c = dec.chunkSize /\ f = dec.fields
    OBVIOUS
  <2>5. o = Checked(ToEnd(b), DecOf(dec.state, c, f), <<>>)
    BY <2>1, <2>4, CheckpointIs DEF IsDecoder
  <2>6. PICK p : p = [o EXCEPT !.more = TRUE]
    OBVIOUS
  <2>7. p.buf = o.buf /\ p.dec = o.dec /\ p.msgs = o.msgs
    BY <2>5, <2>6 DEF Outcome, Checked
  <2>8. IsOutcome(b, p)
    BY <2>3, <2>7 DEF IsOutcome
  <2>9. skipControlCharacters(b) = p
    BY <1>1, <2>1, <2>6 DEF skipControlCharacters, StartsOf
  <2> QED
    BY <2>8, <2>9
<1>2. CASE StartsOf(b) # {}
  <2>1. StartsOf(b) \subseteq Nat
    BY <1>0 DEF StartsOf
  <2>2. PICK m : m = Min(StartsOf(b))
    OBVIOUS
  <2>3. m \in StartsOf(b)
    BY <1>2, <2>1, <2>2, MinIs
  <2>4. m - 1 \in 0 .. Len(b.bytes)
    BY <1>0, <2>3 DEF StartsOf
  <2>5. IsOutcome(b, checkpoint(MoveTo(b, m - 1), "READ_INITIAL"))
    BY <2>4, CheckpointType DEF States
  <2>6. skipControlCharacters(b) = checkpoint(MoveTo(b, m - 1), "READ_INITIAL")
    BY <1>2, <2>2 DEF skipControlCharacters, StartsOf
  <2> QED
    BY <2>5, <2>6
<1> QED
  BY <1>1, <1>2

LEMMA InitialType ==
    ASSUME NEW b, IsBuffer(b), IsDecoder(dec), dec.state = "READ_INITIAL"
    PROVE  IsOutcome(b, ReadInitial(b))
<1>0. Len(b.bytes) \in Nat /\ b.reader \in Nat /\ b.reader \in 0 .. Len(b.bytes)
  BY BufferFacts
<1>1. PICK l : l = LineAt(b, b.reader)
  OBVIOUS
<1>2. IsLine(b, b.reader, l)
  <2>1. PICK p : p = b.reader
    OBVIOUS
  <2>2. IsLine(b, p, LineAt(b, p))
    BY <1>0, <2>1, LineType
  <2> QED
    BY <1>1, <2>1, <2>2
<1>3. PICK i : i = IF l.complete THEN l.next ELSE Len(b.bytes)
  OBVIOUS
<1>4. i \in 0 .. Len(b.bytes)
  BY <1>0, <1>2, <1>3 DEF IsLine
<1>5. PICK after : after = MoveTo(b, i)
  OBVIOUS
<1>6. IsBuffer(after) /\ Len(after.bytes) = Len(b.bytes)
  BY <1>4, <1>5, MoveType
<1>7. PICK o : o = checkpoint(after, "READ_HEADER")
  OBVIOUS
<1>8. IsOutcome(b, o)
  BY <1>4, <1>5, <1>7, CheckpointType DEF States
<1>9. PICK c, f : c = dec.chunkSize /\ f = dec.fields
  OBVIOUS
<1>10. o = Checked(after, DecOf("READ_HEADER", c, f), <<>>)
  BY <1>7, <1>9, CheckpointIs DEF IsDecoder
<1>11. PICK p : p = [o EXCEPT !.more = ~l.complete, !.dec.fields = <<>>]
  OBVIOUS
<1>12. p.buf = after /\ p.dec = DecOf("READ_HEADER", c, <<>>) /\ p.msgs = <<>>
  BY <1>10, <1>11 DEF Outcome, Checked, DecOf
<1>13. IsOutcome(b, p)
  <2>1. c \in Nat
    BY <1>9, DecFacts DEF IsDecoder
  <2>2. PICK e : e = <<>>
    OBVIOUS
  <2>3. e \in Seq(Fields) /\ e \in Seq(Messages)
    BY <2>2
  <2>4. IsDecoder(DecOf("READ_HEADER", c, e))
    BY <2>1, <2>3, DecType DEF States
  <2> QED
    BY <1>6, <1>12, <2>2, <2>3, <2>4 DEF IsOutcome
<1>14. IsOutcome(b, Outcome(after, dec, ~l.complete, <<>>, FALSE, "returns"))
  <2>1. PICK d, e, more : d = dec /\ e = <<>> /\ more = ~l.complete
    OBVIOUS
  <2>2. IsDecoder(d) /\ e \in Seq(Messages)
    BY <2>1
  <2>3. IsOutcome(b, Outcome(after, d, more, e, FALSE, "returns"))
    BY <1>6, <2>2, OutcomeType
  <2> QED
    BY <2>1, <2>3
<1>15. IsOutcome(b, Throws(after)) /\ IsOutcome(b, Faults(after))
  BY <1>6, PlainType
<1>16. \/ ReadInitial(b) = Outcome(after, dec, ~l.complete, <<>>, FALSE, "returns")
       \/ ReadInitial(b) = Throws(after) \/ ReadInitial(b) = Faults(after) \/ ReadInitial(b) = p
  BY <1>1, <1>3, <1>5, <1>7, <1>11 DEF ReadInitial
<1> QED
  BY <1>13, <1>14, <1>15, <1>16

(***************************************************************************)
(* Header lines.                                                           *)
(***************************************************************************)
LEMMA TailType ==
    ASSUME NEW t \in Seq(Bytes), NEW i \in 1 .. Len(t)
    PROVE  /\ SubSeq(t, i, Len(t)) \in Seq(Bytes)
           /\ Len(SubSeq(t, i, Len(t))) = Len(t) - (i - 1)
           /\ \A j \in 1 .. Len(t) - (i - 1) : SubSeq(t, i, Len(t))[j] = t[(i - 1) + j]
<1>0. Len(t) \in Nat
  BY LenProperties
<1>1. PICK m \in Nat, n \in Nat : m = i - 1 /\ n = Len(t) - m
  <2>1. i - 1 \in Nat /\ Len(t) - (i - 1) \in Nat
    BY <1>0
  <2> QED
    BY <2>1
<1>2. m + 1 = i /\ m + n = Len(t) /\ m + n <= Len(t)
  BY <1>0, <1>1
<1>3. /\ SubSeq(t, m + 1, m + n) \in Seq(Bytes) /\ Len(SubSeq(t, m + 1, m + n)) = n
      /\ \A j \in 1 .. n : SubSeq(t, m + 1, m + n)[j] = t[m + j]
  BY <1>2, PartOf
<1> QED
  BY <1>1, <1>2, <1>3

LEMMA HeadType ==
    ASSUME NEW t \in Seq(Bytes), NEW n \in 0 .. Len(t)
    PROVE  /\ SubSeq(t, 1, n) \in Seq(Bytes) /\ Len(SubSeq(t, 1, n)) = n
           /\ \A j \in 1 .. n : SubSeq(t, 1, n)[j] = t[j]
<1>0. Len(t) \in Nat /\ n \in Nat
  BY LenProperties
<1>1. PICK m \in Nat : m = 0
  OBVIOUS
<1>2. m + 1 = 1 /\ m + n = n /\ m + n <= Len(t)
  BY <1>0, <1>1
<1>3. /\ SubSeq(t, m + 1, m + n) \in Seq(Bytes) /\ Len(SubSeq(t, m + 1, m + n)) = n
      /\ \A j \in 1 .. n : SubSeq(t, m + 1, m + n)[j] = t[m + j]
  BY <1>0, <1>2, PartOf
<1>4. \A j \in 1 .. n : m + j = j
  BY <1>0, <1>1
<1> QED
  BY <1>2, <1>3, <1>4

LEMMA CStringType ==
    ASSUME NEW t \in Seq(Bytes)
    PROVE  /\ CString(t) \in Seq(Bytes)
           /\ (\A i \in 1 .. Len(t) : t[i] # "NUL") => CString(t) = t
<1>0. Len(t) \in Nat /\ DOMAIN t = 1 .. Len(t)
  BY LenProperties
<1>1. PICK T : T = {i \in DOMAIN t : t[i] = "NUL"} \cup {Len(t) + 1}
  OBVIOUS
<1>2. T \subseteq Nat /\ T # {}
  BY <1>0, <1>1
<1>3. PICK m : m = Min(T)
  OBVIOUS
<1>4. m \in T
  BY <1>2, <1>3, MinIs
<1>5. m - 1 \in 0 .. Len(t)
  BY <1>0, <1>1, <1>4
<1>6. PICK n : n = m - 1
  OBVIOUS
<1>7. CString(t) = SubSeq(t, 1, n)
  BY <1>1, <1>3, <1>6 DEF CString
<1>8. CString(t) \in Seq(Bytes)
  BY <1>5, <1>6, <1>7, HeadType
<1>9. ASSUME \A i \in 1 .. Len(t) : t[i] # "NUL" PROVE CString(t) = t
  <2>1. T = {Len(t) + 1}
    BY <1>0, <1>1, <1>9
  <2>2. n = Len(t) /\ n \in 0 .. Len(t)
    BY <1>0, <1>4, <1>6, <2>1
  <2>3. PICK s : s = SubSeq(t, 1, n)
    OBVIOUS
  <2>4. s \in Seq(Bytes) /\ Len(s) = n /\ \A i \in 1 .. n : s[i] = t[i]
    BY <2>2, <2>3, HeadType
  <2>5. s = [i \in 1 .. n |-> s[i]] /\ t = [i \in 1 .. n |-> t[i]]
    BY <2>2, <2>4, LenProperties
  <2>6. s = t
    BY <2>4, <2>5
  <2> QED
    BY <1>7, <2>3, <2>6
<1> QED
  BY <1>8, <1>9

LEMMA HeaderType ==
    ASSUME NEW t \in Seq(Bytes), ValueAt(t) # {}
    PROVE  splitHeader(t) \in Fields
<1>0. Len(t) \in Nat /\ DOMAIN t = 1 .. Len(t)
  BY LenProperties
<1>1. ValueAt(t) \subseteq DOMAIN t /\ ValueAt(t) \subseteq Nat
  <2>1. ValueAt(t) \subseteq DOMAIN t
    BY Zenon DEF ValueAt
  <2>2. DOMAIN t \subseteq Nat
    BY <1>0
  <2> QED
    BY <2>1, <2>2
<1>2. PICK m : m = Min(ValueAt(t))
  OBVIOUS
<1>3. m \in 1 .. Len(t)
  BY <1>0, <1>1, <1>2, MinIs
<1>4. SubSeq(t, m, Len(t)) \in Seq(Bytes)
  BY <1>3, TailType
<1>5. PICK v : v = CString(SubSeq(t, m, Len(t)))
  OBVIOUS
<1>6. v \in Seq(Bytes)
  BY <1>4, <1>5, CStringType
<1>7. 1 \in 1 .. Len(t)
  BY <1>0, <1>3
<1>8. t[1] \in Bytes
  BY <1>7, LenProperties
<1>9. splitHeader(t) = [name |-> t[1], value |-> v]
  BY <1>2, <1>5 DEF splitHeader
<1> QED
  BY <1>6, <1>8, <1>9 DEF Fields

LEMMA ZeroedType ==
    ASSUME NEW b, IsBuffer(b), NEW T
    PROVE  /\ IsBuffer(Zeroed(b, T)) /\ Zeroed(b, T).reader = b.reader
           /\ Len(Zeroed(b, T).bytes) = Len(b.bytes)
           /\ \A i \in 1 .. Len(b.bytes) :
                 Zeroed(b, T).bytes[i] = IF i \in T THEN "NUL" ELSE b.bytes[i]
<1>0. /\ b.bytes \in Seq(Bytes) /\ Len(b.bytes) \in Nat /\ DOMAIN b.bytes = 1 .. Len(b.bytes)
      /\ b.reader \in Nat /\ b.reader <= Len(b.bytes) /\ b = [bytes |-> b.bytes, reader |-> b.reader]
  BY BufferFacts DEF IsBuffer
<1>1. PICK s, n, r : s = b.bytes /\ n = Len(b.bytes) /\ r = b.reader
  OBVIOUS
<1>2. PICK z : z = [i \in 1 .. n |-> IF i \in T THEN "NUL" ELSE s[i]]
  OBVIOUS
<1>3. ASSUME NEW i \in 1 .. n PROVE z[i] \in Bytes /\ z[i] = IF i \in T THEN "NUL" ELSE b.bytes[i]
  <2>1. s[i] \in Bytes /\ "NUL" \in Bytes
    BY <1>0, <1>1 DEF Bytes, Control
  <2> QED
    BY <1>1, <1>2, <2>1
<1>4. z \in [1 .. n -> Bytes] /\ n \in Nat
  BY <1>0, <1>1, <1>2, <1>3
<1>5. z \in Seq(Bytes) /\ Len(z) = n
  BY <1>4, SeqDef
<1>6. Zeroed(b, T) = [bytes |-> z, reader |-> r]
  <2>1. b = [bytes |-> s, reader |-> r] /\ DOMAIN s = 1 .. n
    BY <1>0, <1>1
  <2>2. PICK e : e = [i \in DOMAIN b.bytes |-> IF i \in T THEN "NUL" ELSE b.bytes[i]]
    OBVIOUS
  <2>3. e = z
    BY <1>1, <1>2, <2>1, <2>2
  <2>4. Zeroed(b, T) = [b EXCEPT !.bytes = e]
    BY <2>2 DEF Zeroed
  <2> QED
    BY <2>1, <2>3, <2>4
<1> QED
  BY <1>0, <1>1, <1>3, <1>5, <1>6 DEF IsBuffer, Buffers

LEMMA AddedType ==
    ASSUME NEW b, IsBuffer(b), NEW lines \in Seq(LinesOf(b)), ~HeaderFault(lines)
    PROVE  AddedHeaders(lines) \in Seq(Fields)
<1>0. Len(lines) \in Nat /\ \A k \in 1 .. Len(lines) : lines[k] \in LinesOf(b)
  BY LenProperties
<1>1. \A l \in LinesOf(b) : l.text \in Seq(Bytes)
  <2>1. b.reader \in 0 .. Len(b.bytes)
    BY BufferFacts
  <2> QED
    BY <2>1, LinesType
<1>2. PICK n \in Nat : 1 .. n = 1 .. Len(lines) - 1
  <2>1. CASE Len(lines) = 0
    <3>1. 1 .. 0 = 1 .. Len(lines) - 1
      BY <2>1
    <3> QED
      BY <3>1
  <2>2. CASE Len(lines) # 0
    BY <1>0, <2>2
  <2> QED
    BY <2>1, <2>2
<1>3. ASSUME NEW k \in 1 .. n PROVE splitHeader(lines[k].text) \in Fields
  <2>1. k \in 1 .. Len(lines) - 1 /\ k \in 1 .. Len(lines)
    BY <1>0, <1>2
  <2>2. PICK t : t = lines[k].text
    OBVIOUS
  <2>3. t \in Seq(Bytes)
    BY <1>0, <1>1, <2>1, <2>2
  <2>4. ValueAt(t) # {}
    BY <2>1, <2>2 DEF HeaderFault
  <2> QED
    BY <2>2, <2>3, <2>4, HeaderType
<1>4. AddedHeaders(lines) = [k \in 1 .. n |-> splitHeader(lines[k].text)]
  BY <1>2 DEF AddedHeaders
<1>5. PICK a : a = [k \in 1 .. n |-> splitHeader(lines[k].text)]
  OBVIOUS
<1>6. a \in [1 .. n -> Fields]
  BY <1>3, <1>5
<1>7. a \in Seq(Fields)
  BY <1>6, SeqDef
<1> QED
  BY <1>4, <1>5, <1>7

IsSetup(s) == /\ s.requests \in Seq(Requests)
              /\ s.max \in Nat \ {0} /\ s.capacity \in Nat \ {0}

LEMMA SetupFacts ==
    ASSUME setup \in Setups
    PROVE  IsSetup(setup)
BY HttpAssumption DEF IsSetup

(* The outcome of the headers: which content follows. *)
LEMMA HeadersReadIs ==
    ASSUME NEW b, NEW f \in Seq(Fields), dec \in Decoders, NEW n, n = getContentLength(f),
           NEW c, c = dec.chunkSize
    PROVE  /\ isChunked(f) =>
                 HeadersRead(b, f)
                   = Checked(b, DecOf("READ_CHUNK_SIZE", c, f), <<Message(f, TRUE, <<>>)>>)
           /\ ~isChunked(f) /\ n <= 0 =>
                 HeadersRead(b, f)
                   = Checked(b, DecOf("SKIP_CONTROL_CHARS", c, f), <<Message(f, FALSE, <<>>)>>)
           /\ ~isChunked(f) /\ ~(n <= 0) /\ (n > setup.max \/ is100ContinueExpected(f)) =>
                 HeadersRead(b, f)
                   = Checked(b, DecOf("READ_FIXED_LENGTH_CONTENT_AS_CHUNKS", n, f),
                             <<Message(f, TRUE, <<>>)>>)
           /\ ~isChunked(f) /\ ~(n <= 0) /\ ~(n > setup.max \/ is100ContinueExpected(f)) =>
                 HeadersRead(b, f) = Checked(b, DecOf("READ_FIXED_LENGTH_CONTENT", c, f), <<>>)
<1>1. PICK first, plain : first = <<Message(f, TRUE, <<>>)>> /\ plain = <<Message(f, FALSE, <<>>)>>
  OBVIOUS
<1>2. PICK To : To = [s \in States |-> [checkpoint(b, s) EXCEPT !.dec.fields = f]]
  OBVIOUS
<1>3. ASSUME NEW s \in States
      PROVE  To[s] = Checked(b, DecOf(s, c, f), <<>>)
  <2>1. PICK o, g, e : o = checkpoint(b, s) /\ g = dec.fields /\ e = <<>>
    OBVIOUS
  <2>2. o = Checked(b, DecOf(s, c, g), e)
    BY <2>1, CheckpointIs
  <2>3. To[s] = [o EXCEPT !.dec.fields = f]
    BY <1>2, <2>1, Zenon
  <2>4. [o EXCEPT !.dec.fields = f] = Checked(b, DecOf(s, c, f), e)
    BY <2>2, FieldsIs
  <2> QED
    BY <2>1, <2>3, <2>4
<1>4. ASSUME NEW s \in States, NEW msgs
      PROVE  Returns(To[s], msgs) = Checked(b, DecOf(s, c, f), msgs)
  <2>1. PICK o, e : o = To[s] /\ e = <<>>
    OBVIOUS
  <2>2. o = Checked(b, DecOf(s, c, f), e)
    BY <1>3, <2>1
  <2>3. Returns(o, msgs) = Checked(b, DecOf(s, c, f), msgs)
    BY <2>2, ReturnsIs
  <2> QED
    BY <2>1, <2>3
<1>5. ASSUME isChunked(f)
      PROVE  HeadersRead(b, f) = Checked(b, DecOf("READ_CHUNK_SIZE", c, f), first)
  <2>1. PICK s : s = "READ_CHUNK_SIZE"
    OBVIOUS
  <2>2. s \in States
    BY <2>1 DEF States
  <2>3. HeadersRead(b, f) = Returns(To[s], first)
    BY <1>1, <1>2, <1>5, <2>1, <2>2 DEF HeadersRead
  <2> QED
    BY <1>4, <2>1, <2>2, <2>3
<1>6. ASSUME ~isChunked(f), n <= 0
      PROVE  HeadersRead(b, f) = Checked(b, DecOf("SKIP_CONTROL_CHARS", c, f), plain)
  <2>1. PICK s : s = "SKIP_CONTROL_CHARS"
    OBVIOUS
  <2>2. s \in States
    BY <2>1 DEF States
  <2>3. HeadersRead(b, f) = Returns(To[s], plain)
    BY <1>1, <1>2, <1>6, <2>1, <2>2 DEF HeadersRead
  <2> QED
    BY <1>4, <2>1, <2>2, <2>3
<1>7. ASSUME ~isChunked(f), ~(n <= 0), n > setup.max \/ is100ContinueExpected(f)
      PROVE  HeadersRead(b, f)
               = Checked(b, DecOf("READ_FIXED_LENGTH_CONTENT_AS_CHUNKS", n, f), first)
  <2>1. PICK s, o : s = "READ_FIXED_LENGTH_CONTENT_AS_CHUNKS" /\ o = Returns(To[s], first)
    OBVIOUS
  <2>2. s \in States
    BY <2>1 DEF States
  <2>3. HeadersRead(b, f) = [o EXCEPT !.dec.chunkSize = n]
    BY <1>1, <1>2, <1>7, <2>1, <2>2 DEF HeadersRead
  <2>4. o = Checked(b, DecOf(s, c, f), first)
    BY <1>4, <2>1, <2>2
  <2>5. [o EXCEPT !.dec.chunkSize = n] = Checked(b, DecOf(s, n, f), first)
    BY <2>4, SizeIs
  <2> QED
    BY <2>1, <2>3, <2>5
<1>8. ASSUME ~isChunked(f), ~(n <= 0), ~(n > setup.max \/ is100ContinueExpected(f))
      PROVE  HeadersRead(b, f) = Checked(b, DecOf("READ_FIXED_LENGTH_CONTENT", c, f), <<>>)
  <2>1. PICK s : s = "READ_FIXED_LENGTH_CONTENT"
    OBVIOUS
  <2>2. s \in States
    BY <2>1 DEF States
  <2>3. HeadersRead(b, f) = To[s]
    BY <1>1, <1>2, <1>8, <2>1, <2>2 DEF HeadersRead
  <2> QED
    BY <1>3, <2>1, <2>2, <2>3
<1> QED
  BY <1>1, <1>5, <1>6, <1>7, <1>8

LEMMA HeadersReadType ==
    ASSUME NEW b, NEW b2, IsBuffer(b2), Len(b2.bytes) = Len(b.bytes),
           NEW f \in Seq(Fields), dec \in Decoders
    PROVE  IsOutcome(b, HeadersRead(b2, f))
<1>1. PICK n, c, first, plain : /\ n = getContentLength(f) /\ c = dec.chunkSize
                                /\ first = <<Message(f, TRUE, <<>>)>>
                                /\ plain = <<Message(f, FALSE, <<>>)>>
  OBVIOUS
<1>2. n \in Nat \cup {-1} /\ c \in Nat
  BY <1>1, ContentLengthType, DecFacts
<1>3. <<>> \in Seq(Bytes)
  OBVIOUS
<1>4. \A t \in BOOLEAN : Message(f, t, <<>>) \in Messages
  BY <1>3 DEF Message, Messages
<1>5. first \in Seq(Messages) /\ plain \in Seq(Messages) /\ <<>> \in Seq(Messages)
  <2>1. PICK x, y : x = Message(f, TRUE, <<>>) /\ y = Message(f, FALSE, <<>>)
    OBVIOUS
  <2>2. x \in Messages /\ y \in Messages
    BY <1>4, <2>1
  <2>3. <<x>> \in Seq(Messages) /\ <<y>> \in Seq(Messages)
    BY <2>2
  <2>4. first = <<x>> /\ plain = <<y>>
    BY <1>1, <2>1, Zenon
  <2> QED
    BY <2>3, <2>4
<1>6. ASSUME NEW s \in States, s # "READ_FIXED_LENGTH_CONTENT" \/ n > 0, NEW k \in Nat,
             NEW msgs \in Seq(Messages)
      PROVE  IsOutcome(b, Checked(b2, DecOf(s, k, f), msgs))
  <2>1. IsDecoder(DecOf(s, k, f))
    BY <1>1, <1>6, DecType
  <2> QED
    BY <2>1, CheckedType
<1>7. CASE isChunked(f)
  <2>1. IsOutcome(b, Checked(b2, DecOf("READ_CHUNK_SIZE", c, f), first))
    BY <1>2, <1>5, <1>6 DEF States
  <2> QED
    BY <1>1, <1>7, <2>1, HeadersReadIs
<1>8. CASE ~isChunked(f) /\ n <= 0
  <2>1. IsOutcome(b, Checked(b2, DecOf("SKIP_CONTROL_CHARS", c, f), plain))
    BY <1>2, <1>5, <1>6 DEF States
  <2> QED
    BY <1>1, <1>8, <2>1, HeadersReadIs
<1>9. CASE ~isChunked(f) /\ ~(n <= 0) /\ (n > setup.max \/ is100ContinueExpected(f))
  <2>1. n \in Nat
    BY <1>2, <1>9
  <2>2. IsOutcome(b, Checked(b2, DecOf("READ_FIXED_LENGTH_CONTENT_AS_CHUNKS", n, f), first))
    BY <1>5, <1>6, <2>1 DEF States
  <2> QED
    BY <1>1, <1>9, <2>2, HeadersReadIs
<1>10. CASE ~isChunked(f) /\ ~(n <= 0) /\ ~(n > setup.max \/ is100ContinueExpected(f))
  <2>1. n > 0
    BY <1>2, <1>10
  <2>2. IsOutcome(b, Checked(b2, DecOf("READ_FIXED_LENGTH_CONTENT", c, f), <<>>))
    BY <1>2, <1>5, <1>6, <2>1 DEF States
  <2> QED
    BY <1>1, <1>10, <2>2, HeadersReadIs
<1> QED
  BY <1>7, <1>8, <1>9, <1>10

LEMMA HeaderReadType ==
    ASSUME NEW b, IsBuffer(b), IsDecoder(dec), dec.state = "READ_HEADER"
    PROVE  IsOutcome(b, ReadHeader(b))
<1>0. b.reader \in 0 .. Len(b.bytes) /\ Len(b.bytes) \in Nat
  BY BufferFacts
<1>1. PICK lines, T : /\ lines = LinesAfter(b, b.reader)
                      /\ T = UNION {ZeroesOf(lines[k]) : k \in DOMAIN lines}
  OBVIOUS
<1>2. /\ lines \in Seq(LinesOf(b))
      /\ \A l \in LinesOf(b) : l.next \in 1 .. Len(b.bytes)
  <2>1. PICK p : p = b.reader
    OBVIOUS
  <2>2. LinesAfter(b, p) \in Seq(LinesOf(b)) /\ \A l \in LinesOf(b) : l.next \in 1 .. Len(b.bytes)
    BY <1>0, <2>1, LinesType
  <2> QED
    BY <1>1, <2>1, <2>2
<1>3. PICK z : z = Zeroed(b, T)
  OBVIOUS
<1>4. IsBuffer(z) /\ Len(z.bytes) = Len(b.bytes)
  BY <1>3, ZeroedType
<1>5. dec \in Decoders
  BY DEF IsDecoder
<1>6. CASE HeaderFault(lines)
  <2>1. ReadHeader(b) = Faults(b)
    BY <1>1, <1>6 DEF ReadHeader
  <2> QED
    BY <2>1, PlainType
<1>7. CASE ~HeaderFault(lines)
  <2>1. PICK a, f : a = AddedHeaders(lines) /\ f = dec.fields \o a
    OBVIOUS
  <2>2. a \in Seq(Fields) /\ dec.fields \in Seq(Fields)
    BY <1>2, <1>5, <1>7, <2>1, AddedType, DecFacts
  <2>3. f \in Seq(Fields)
    BY <2>1, <2>2, ConcatProperties
  <2>4. CASE lines = <<>> \/ Last(lines).text # <<>>
    <3>1. ReadHeader(b) = [NeedMore(ToEnd(z)) EXCEPT !.dec.fields = f]
      BY <1>1, <1>3, <1>7, <2>1, <2>4 DEF ReadHeader
    <3>2. PICK e, s, c : e = ToEnd(z) /\ s = dec.state /\ c = dec.chunkSize
      OBVIOUS
    <3>3. IsBuffer(e) /\ e.bytes = z.bytes
      BY <1>0, <1>4, <3>2, MoveType
    <3>4. s \in States /\ c \in Nat /\ dec = DecOf(s, c, dec.fields)
          /\ s # "READ_FIXED_LENGTH_CONTENT"
      BY <1>5, <3>2, DecFacts
    <3>5. NeedMore(e) = Waiting(e, DecOf(s, c, dec.fields))
      BY <3>4 DEF NeedMore, Waiting
    <3>6. ReadHeader(b) = Waiting(e, DecOf(s, c, f))
      <4>1. PICK o, g : o = NeedMore(e) /\ g = dec.fields
        OBVIOUS
      <4>2. [o EXCEPT !.dec.fields = f] = Waiting(e, DecOf(s, c, f))
        BY <3>5, <4>1, WaitingFieldsIs
      <4> QED
        BY <3>1, <3>2, <4>1, <4>2
    <3>9. IsDecoder(DecOf(s, c, f))
      BY <2>3, <3>4, DecType
    <3> QED
      BY <1>4, <3>3, <3>6, <3>9, WaitingType
  <2>5. CASE ~(lines = <<>> \/ Last(lines).text # <<>>)
    <3>1. ReadHeader(b) = HeadersRead(MoveTo(z, Last(lines).next), f)
      BY <1>1, <1>3, <1>7, <2>1, <2>5 DEF ReadHeader
    <3>2. lines # <<>> /\ Len(lines) \in Nat
      BY <1>2, <2>5, LenProperties
    <3>3. Len(lines) \in 1 .. Len(lines)
      BY <1>2, <3>2, EmptySeq
    <3>4. Last(lines) \in LinesOf(b)
      BY <1>2, <3>3, LenProperties DEF Last
    <3>5. PICK i : i = Last(lines).next
      OBVIOUS
    <3>6. i \in 1 .. Len(b.bytes)
      BY <1>2, <3>4, <3>5
    <3>7. i \in 0 .. Len(z.bytes)
      BY <1>0, <1>4, <3>6
    <3>8. PICK m : m = MoveTo(z, i)
      OBVIOUS
    <3>9. IsBuffer(m) /\ Len(m.bytes) = Len(b.bytes)
      BY <1>4, <3>7, <3>8, MoveType
    <3> QED
      BY <1>5, <2>3, <3>1, <3>5, <3>8, <3>9, HeadersReadType
  <2> QED
    BY <2>4, <2>5
<1> QED
  BY <1>6, <1>7

(***************************************************************************)
(* Contents.                                                               *)
(***************************************************************************)
LEMMA ChunkType ==
    ASSUME NEW t \in Seq(Bytes)
    PROVE  /\ Chunk(t) \in Messages /\ <<Chunk(t)>> \in Seq(Messages)
           /\ <<LAST_CHUNK>> \in Seq(Messages) /\ <<Chunk(t)>> \o <<LAST_CHUNK>> \in Seq(Messages)
<1>1. PICK x, y : x = Chunk(t) /\ y = LAST_CHUNK
  OBVIOUS
<1>2. x \in Messages /\ y \in Messages
  BY <1>1 DEF Chunk, Messages
<1>3. <<x>> \in Seq(Messages) /\ <<y>> \in Seq(Messages)
  BY <1>2
<1>4. <<x>> \o <<y>> \in Seq(Messages)
  BY <1>3, ConcatProperties
<1> QED
  BY <1>1, <1>2, <1>3, <1>4

LEMMA FixedIs ==
    ASSUME NEW b, dec \in Decoders, NEW n, n = getContentLength(dec.fields)
    PROVE  /\ readableBytes(b) < n => ReadFixedLength(b) = Waiting(b, dec)
           /\ ~(readableBytes(b) < n) =>
                 ReadFixedLength(b)
                   = Checked(MoveTo(b, b.reader + n),
                             DecOf("SKIP_CONTROL_CHARS", dec.chunkSize, dec.fields),
                             <<Message(dec.fields, FALSE, Slice(b, n))>>)
<1>1. ASSUME readableBytes(b) < n PROVE ReadFixedLength(b) = Waiting(b, dec)
  BY <1>1 DEF ReadFixedLength, NeedMore, Waiting
<1>2. PICK m, msgs, s, c, f, e : /\ m = MoveTo(b, b.reader + n)
                              /\ msgs = <<Message(dec.fields, FALSE, Slice(b, n))>>
                              /\ s = "SKIP_CONTROL_CHARS" /\ c = dec.chunkSize /\ f = dec.fields
                              /\ e = <<>>
  OBVIOUS
<1>3. PICK o : o = checkpoint(m, s)
  OBVIOUS
<1>4. o = Checked(m, DecOf(s, c, f), e)
  BY <1>2, <1>3, CheckpointIs
<1>5. Returns(o, msgs) = Checked(m, DecOf(s, c, f), msgs)
  BY <1>4, ReturnsIs
<1>6. ASSUME ~(readableBytes(b) < n) PROVE ReadFixedLength(b) = Returns(o, msgs)
  BY <1>2, <1>3, <1>6 DEF ReadFixedLength, reset
<1> QED
  BY <1>1, <1>2, <1>5, <1>6

LEMMA FixedType ==
    ASSUME NEW b, IsBuffer(b), IsDecoder(dec), dec.state = "READ_FIXED_LENGTH_CONTENT"
    PROVE  IsOutcome(b, ReadFixedLength(b))
<1>0. /\ b.reader \in Nat /\ readableBytes(b) \in Nat /\ Len(b.bytes) = b.reader + readableBytes(b)
      /\ Len(b.bytes) \in Nat
  BY BufferFacts
<1>1. dec \in Decoders
  BY DEF IsDecoder
<1>2. PICK n, c, f : n = getContentLength(dec.fields) /\ c = dec.chunkSize /\ f = dec.fields
  OBVIOUS
<1>3. n > 0 /\ n \in Nat \cup {-1} /\ c \in Nat /\ f \in Seq(Fields)
  <2>1. n > 0
    BY <1>2 DEF IsDecoder
  <2>2. c \in Nat /\ f \in Seq(Fields)
    BY <1>1, <1>2, DecFacts
  <2> QED
    BY <1>2, <2>1, <2>2, ContentLengthType
<1>4. n \in Nat
  BY <1>3
<1>5. CASE readableBytes(b) < n
  <2>1. PICK d : d = dec
    OBVIOUS
  <2>2. IsOutcome(b, Waiting(b, d))
    BY <2>1, WaitingType
  <2> QED
    BY <1>1, <1>2, <1>5, <2>1, <2>2, FixedIs
<1>6. CASE ~(readableBytes(b) < n)
  <2>1. n \in 0 .. readableBytes(b) /\ b.reader + n \in 0 .. Len(b.bytes)
    BY <1>0, <1>4, <1>6
  <2>2. PICK m, t : m = MoveTo(b, b.reader + n) /\ t = Slice(b, n)
    OBVIOUS
  <2>3. IsBuffer(m) /\ Len(m.bytes) = Len(b.bytes)
    <3>1. PICK i : i = b.reader + n
      OBVIOUS
    <3>2. IsBuffer(MoveTo(b, i)) /\ MoveTo(b, i).bytes = b.bytes
      BY <2>1, <3>1, MoveType
    <3> QED
      BY <2>2, <3>1, <3>2
  <2>4. t \in Seq(Bytes)
    BY <2>1, <2>2, SliceType
  <2>5. PICK x : x = Message(f, FALSE, t)
    OBVIOUS
  <2>6. x \in Messages
    BY <1>3, <2>4, <2>5 DEF Message, Messages
  <2>7. <<x>> \in Seq(Messages)
    BY <2>6
  <2>8. IsDecoder(DecOf("SKIP_CONTROL_CHARS", c, f))
    BY <1>3, DecType DEF States
  <2>9. IsOutcome(b, Checked(m, DecOf("SKIP_CONTROL_CHARS", c, f), <<x>>))
    BY <2>3, <2>7, <2>8, CheckedType
  <2> QED
    BY <1>1, <1>2, <1>6, <2>2, <2>5, <2>9, FixedIs
<1> QED
  BY <1>5, <1>6

(* An outcome without a checkpoint, and with a message. *)
Going(b, d, msgs) == Outcome(b, d, FALSE, msgs, FALSE, "returns")

LEMMA GoingParts ==
    ASSUME NEW b, NEW d, NEW msgs, NEW o, o = Going(b, d, msgs)
    PROVE  o.buf = b /\ o.dec = d /\ o.msgs = msgs /\ o.ends = "returns" /\ ~o.more /\ ~o.checked
<1>1. PICK no, r : no = FALSE /\ r = "returns"
  OBVIOUS
<1>2. o = Outcome(b, d, no, msgs, no, r)
  BY <1>1 DEF Going
<1>3. o.buf = b /\ o.dec = d /\ o.more = no /\ o.msgs = msgs /\ o.checked = no /\ o.ends = r
  BY <1>2, OutcomeParts
<1> QED
  BY <1>1, <1>3

LEMMA GoingType ==
    ASSUME NEW b, NEW b2, NEW d, NEW msgs, IsBuffer(b2), Len(b2.bytes) = Len(b.bytes),
           IsDecoder(d), msgs \in Seq(Messages)
    PROVE  IsOutcome(b, Going(b2, d, msgs))
<1>1. PICK o : o = Going(b2, d, msgs)
  OBVIOUS
<1>2. o.buf = b2 /\ o.dec = d /\ o.msgs = msgs
  BY <1>1, GoingParts
<1> QED
  BY <1>1, <1>2 DEF IsOutcome

LEMMA SliceIs ==
    ASSUME NEW b, dec \in Decoders, NEW next, NEW end, NEW n, n = SliceSize,
           NEW after, after = MoveTo(b, b.reader + n), NEW x, x = Chunk(Slice(b, n)),
           NEW left, left = dec.chunkSize - n
    PROVE  /\ readableBytes(b) < n => ReadSlice(b, next, end) = Waiting(b, dec)
           /\ ~(readableBytes(b) < n) /\ left = 0 =>
                 ReadSlice(b, next, end)
                   = Checked(after, DecOf(next, 0, dec.fields), <<x>> \o end)
           /\ ~(readableBytes(b) < n) /\ left # 0 =>
                 ReadSlice(b, next, end) = Going(after, DecOf(dec.state, left, dec.fields), <<x>>)
<1>1. ASSUME readableBytes(b) < n PROVE ReadSlice(b, next, end) = Waiting(b, dec)
  BY <1>1 DEF ReadSlice, NeedMore, Waiting
<1>2. PICK d, z : d = dec /\ z = 0
  OBVIOUS
<1>3. d \in [state : States, chunkSize : Nat, fields : Seq(Fields)]
  BY <1>2 DEF Decoders
<1>4. /\ [d EXCEPT !.state = next, !.chunkSize = z] = DecOf(next, z, d.fields)
      /\ [d EXCEPT !.chunkSize = left] = DecOf(d.state, left, d.fields)
  <2>1. PICK a, k, f : d = [state |-> a, chunkSize |-> k, fields |-> f]
    BY <1>3
  <2>2. /\ [d EXCEPT !.state = next] = [state |-> next, chunkSize |-> k, fields |-> f]
        /\ [d EXCEPT !.chunkSize = left] = [state |-> a, chunkSize |-> left, fields |-> f]
        /\ d.state = a /\ d.fields = f
    BY <2>1
  <2>3. PICK e : e = [d EXCEPT !.state = next]
    OBVIOUS
  <2>4. [e EXCEPT !.chunkSize = z] = [state |-> next, chunkSize |-> z, fields |-> f]
    <3>1. e = [state |-> next, chunkSize |-> k, fields |-> f]
      BY <2>2, <2>3
    <3> QED
      BY <3>1
  <2>5. [d EXCEPT !.state = next, !.chunkSize = z] = [e EXCEPT !.chunkSize = z]
    BY <2>3
  <2> QED
    BY <2>2, <2>4, <2>5 DEF DecOf
<1>5. ASSUME ~(readableBytes(b) < n), left = 0
      PROVE  ReadSlice(b, next, end) = Checked(after, [d EXCEPT !.state = next, !.chunkSize = z], <<x>> \o end)
  BY <1>2, <1>5 DEF ReadSlice, Checked
<1>6. ASSUME ~(readableBytes(b) < n), left # 0
      PROVE  ReadSlice(b, next, end) = Going(after, [d EXCEPT !.chunkSize = left], <<x>>)
  BY <1>2, <1>6 DEF ReadSlice, Going
<1> QED
  BY <1>1, <1>2, <1>4, <1>5, <1>6

LEMMA SliceSizeFacts ==
    ASSUME dec \in Decoders, IsSetup(setup)
    PROVE  /\ SliceSize \in Nat /\ SliceSize <= dec.chunkSize /\ SliceSize <= setup.max
           /\ (SliceSize = dec.chunkSize \/ SliceSize = setup.max)
           /\ dec.chunkSize - SliceSize \in Nat
<1>1. PICK c, m : c = dec.chunkSize /\ m = setup.max
  OBVIOUS
<1>2. c \in Nat /\ m \in Nat
  BY <1>1, DecFacts DEF IsSetup
<1>3. PICK z : z = Min({c, m})
  OBVIOUS
<1>4. z \in Nat /\ z <= c /\ z <= m /\ (z = c \/ z = m)
  BY <1>2, <1>3, MinOfTwo
<1>5. SliceSize = z
  BY <1>1, <1>3 DEF SliceSize
<1> QED
  BY <1>1, <1>2, <1>4, <1>5

LEMMA SlicesType ==
    ASSUME NEW b, IsBuffer(b), IsDecoder(dec), IsSetup(setup),
           NEW next \in States, next # "READ_FIXED_LENGTH_CONTENT",
           dec.state # "READ_FIXED_LENGTH_CONTENT", NEW end \in Seq(Messages)
    PROVE  IsOutcome(b, ReadSlice(b, next, end))
<1>0. /\ b.reader \in Nat /\ readableBytes(b) \in Nat /\ Len(b.bytes) = b.reader + readableBytes(b)
      /\ Len(b.bytes) \in Nat
  BY BufferFacts
<1>1. dec \in Decoders
  BY DEF IsDecoder
<1>2. PICK n, after, t, x, s, f, left : /\ n = SliceSize /\ after = MoveTo(b, b.reader + n)
                                        /\ t = Slice(b, n) /\ x = Chunk(t)
                                        /\ s = dec.state /\ f = dec.fields
                                        /\ left = dec.chunkSize - n
  OBVIOUS
<1>3. n \in Nat /\ left \in Nat
  BY <1>1, <1>2, SliceSizeFacts
<1>4. s \in States /\ f \in Seq(Fields) /\ s # "READ_FIXED_LENGTH_CONTENT"
  BY <1>1, <1>2, DecFacts
<1>5. CASE readableBytes(b) < n
  <2>1. PICK d : d = dec
    OBVIOUS
  <2>2. IsOutcome(b, Waiting(b, d))
    BY <2>1, WaitingType
  <2> QED
    BY <1>1, <1>2, <1>5, <2>1, <2>2, SliceIs
<1>6. CASE ~(readableBytes(b) < n)
  <2>1. n \in 0 .. readableBytes(b) /\ b.reader + n \in 0 .. Len(b.bytes)
    BY <1>0, <1>3, <1>6
  <2>2. IsBuffer(after) /\ Len(after.bytes) = Len(b.bytes)
    <3>1. PICK i : i = b.reader + n
      OBVIOUS
    <3>2. IsBuffer(MoveTo(b, i)) /\ MoveTo(b, i).bytes = b.bytes
      BY <2>1, <3>1, MoveType
    <3> QED
      BY <1>2, <3>1, <3>2
  <2>3. t \in Seq(Bytes)
    BY <1>2, <2>1, SliceType
  <2>4. <<x>> \in Seq(Messages)
    BY <1>2, <2>3, ChunkType
  <2>5. <<x>> \o end \in Seq(Messages)
    BY <2>4, ConcatProperties
  <2>6. 0 \in Nat
    OBVIOUS
  <2>7. IsDecoder(DecOf(next, 0, f)) /\ IsDecoder(DecOf(s, left, f))
    BY <1>3, <1>4, <2>6, DecType
  <2>8. /\ IsOutcome(b, Checked(after, DecOf(next, 0, f), <<x>> \o end))
        /\ IsOutcome(b, Going(after, DecOf(s, left, f), <<x>>))
    BY <2>2, <2>4, <2>5, <2>7, CheckedType, GoingType
  <2> QED
    BY <1>1, <1>2, <1>6, <2>8, SliceIs
<1> QED
  BY <1>5, <1>6

LEMMA LineFacts ==
    ASSUME NEW b, IsBuffer(b), NEW l, l = LineAt(b, b.reader)
    PROVE  /\ l.text \in Seq(Bytes) /\ Len(l.text) \in Nat
           /\ l.complete => l.next \in 0 .. Len(b.bytes)
<1>0. b.reader \in 0 .. Len(b.bytes) /\ Len(b.bytes) \in Nat
  BY BufferFacts
<1>1. PICK p : p = b.reader
  OBVIOUS
<1>2. IsLine(b, p, LineAt(b, p))
  BY <1>0, <1>1, LineType
<1>3. IsLine(b, p, l)
  BY <1>1, <1>2
<1> QED
  BY <1>0, <1>1, <1>3, LenProperties DEF IsLine

LEMMA EndType ==
    ASSUME NEW b, IsBuffer(b)
    PROVE  IsBuffer(ToEnd(b)) /\ Len(ToEnd(b).bytes) = Len(b.bytes)
<1>1. b.reader \in 0 .. Len(b.bytes)
  BY BufferFacts
<1> QED
  BY <1>1, MoveType

LEMMA ChunkSizeType ==
    ASSUME NEW b, IsBuffer(b), IsDecoder(dec)
    PROVE  IsOutcome(b, ReadChunkSize(b))
<1>0. Len(b.bytes) \in Nat
  BY BufferFacts
<1>1. PICK l : l = LineAt(b, b.reader)
  OBVIOUS
<1>2. l.text \in Seq(Bytes) /\ Len(l.text) \in Nat /\ (l.complete => l.next \in 0 .. Len(b.bytes))
  BY <1>1, LineFacts
<1>3. PICK after, t, size : /\ after = MoveTo(b, l.next) /\ t = SubSeq(l.text, 1, Len(l.text) - 1)
                            /\ size = Number(t, 16)
  OBVIOUS
<1>4. CASE ~l.complete
  <2>1. ReadChunkSize(b) = NeedMore(ToEnd(b))
    BY <1>1, <1>4 DEF ReadChunkSize
  <2>2. PICK e : e = ToEnd(b)
    OBVIOUS
  <2>3. IsBuffer(e) /\ Len(e.bytes) = Len(b.bytes)
    BY <2>2, EndType
  <2> QED
    BY <2>1, <2>2, <2>3, PlainType
<1>5. CASE l.complete
  <2>1. IsBuffer(after) /\ Len(after.bytes) = Len(b.bytes)
    <3>1. PICK i : i = l.next
      OBVIOUS
    <3>2. IsBuffer(MoveTo(b, i)) /\ MoveTo(b, i).bytes = b.bytes
      BY <1>2, <1>5, <3>1, MoveType
    <3> QED
      BY <1>3, <3>1, <3>2
  <2>2. CASE t = <<>> \/ ~(Range(t) \subseteq Range(Digits))
    <3>1. ReadChunkSize(b) = Throws(after)
      BY <1>1, <1>3, <1>5, <2>2 DEF ReadChunkSize
    <3> QED
      BY <2>1, <3>1, PlainType
  <2>3. CASE t # <<>> /\ Range(t) \subseteq Range(Digits)
    <3>1. t \in Seq(Range(Digits))
      <4>1. Len(l.text) # 0
        <5>1. ASSUME Len(l.text) = 0 PROVE FALSE
          <6>1. l.text = <<>>
            BY <1>2, <5>1, EmptySeq
          <6>2. t = <<>>
            BY <1>3, <5>1, <6>1
          <6> QED
            BY <2>3, <6>2
        <5> QED
          BY <5>1
      <4>2. PICK w, n : w = l.text /\ n = Len(l.text) - 1
        OBVIOUS
      <4>3. w \in Seq(Bytes) /\ n \in 0 .. Len(w)
        BY <1>2, <4>1, <4>2
      <4>4. t \in Seq(Bytes)
        BY <1>3, <4>2, <4>3, HeadType
      <4>5. Len(t) \in Nat /\ t \in [1 .. Len(t) -> Bytes]
        BY <4>4, LenProperties
      <4>6. \A i \in 1 .. Len(t) : t[i] \in Range(Digits)
        BY <2>3, <4>5 DEF Range
      <4>7. t \in [1 .. Len(t) -> Range(Digits)]
        BY <4>5, <4>6
      <4> QED
        BY <4>5, <4>7, SeqDef
    <3>2. size \in Nat
      BY <1>3, <3>1, NumberType
    <3>3. PICK next : next = IF size = 0 THEN "READ_CHUNK_FOOTER"
                ELSE IF size > setup.max THEN "READ_CHUNKED_CONTENT_AS_CHUNKS"
                ELSE "READ_CHUNKED_CONTENT"
      OBVIOUS
    <3>4. next \in States /\ next # "READ_FIXED_LENGTH_CONTENT"
      BY <3>3 DEF States
    <3>5. PICK o, e : o = checkpoint(after, next) /\ e = <<>>
      OBVIOUS
    <3>6. PICK c, f : c = dec.chunkSize /\ f = dec.fields
      OBVIOUS
    <3>7. o = Checked(after, DecOf(next, c, f), e)
      BY <3>5, <3>6, CheckpointIs DEF IsDecoder
    <3>8. [o EXCEPT !.dec.chunkSize = size] = Checked(after, DecOf(next, size, f), e)
      BY <3>7, SizeIs
    <3>9. ReadChunkSize(b) = [o EXCEPT !.dec.chunkSize = size]
      BY <1>1, <1>3, <1>5, <2>3, <3>3, <3>5 DEF ReadChunkSize
    <3>10. f \in Seq(Fields)
      BY <3>6, DecFacts DEF IsDecoder
    <3>11. IsDecoder(DecOf(next, size, f))
      BY <3>2, <3>4, <3>10, DecType
    <3>12. e \in Seq(Messages)
      BY <3>5
    <3> QED
      BY <2>1, <3>8, <3>9, <3>11, <3>12, CheckedType
  <2> QED
    BY <2>2, <2>3
<1> QED
  BY <1>4, <1>5

LEMMA ChunkedType ==
    ASSUME NEW b, IsBuffer(b), IsDecoder(dec)
    PROVE  IsOutcome(b, ReadChunked(b))
<1>0. /\ b.reader \in Nat /\ readableBytes(b) \in Nat /\ Len(b.bytes) = b.reader + readableBytes(b)
      /\ Len(b.bytes) \in Nat
  BY BufferFacts
<1>1. PICK c, f, after, t, x, s : /\ c = dec.chunkSize /\ f = dec.fields /\ after = MoveTo(b, b.reader + c)
                                  /\ t = Slice(b, c) /\ x = <<Chunk(t)>> /\ s = "READ_CHUNK_DELIMITER"
  OBVIOUS
<1>2. c \in Nat /\ f \in Seq(Fields) /\ s \in States /\ s # "READ_FIXED_LENGTH_CONTENT"
  BY <1>1, DecFacts DEF IsDecoder, States
<1>3. CASE readableBytes(b) < c
  <2>1. ReadChunked(b) = NeedMore(b)
    BY <1>1, <1>3 DEF ReadChunked
  <2> QED
    BY <2>1, PlainType
<1>4. CASE ~(readableBytes(b) < c)
  <2>1. c \in 0 .. readableBytes(b) /\ b.reader + c \in 0 .. Len(b.bytes)
    BY <1>0, <1>2, <1>4
  <2>2. IsBuffer(after) /\ Len(after.bytes) = Len(b.bytes)
    <3>1. PICK i : i = b.reader + c
      OBVIOUS
    <3>2. IsBuffer(MoveTo(b, i)) /\ MoveTo(b, i).bytes = b.bytes
      BY <2>1, <3>1, MoveType
    <3> QED
      BY <1>1, <3>1, <3>2
  <2>3. t \in Seq(Bytes)
    BY <1>1, <2>1, SliceType
  <2>4. x \in Seq(Messages)
    BY <1>1, <2>3, ChunkType
  <2>5. PICK o, e : o = checkpoint(after, s) /\ e = <<>>
    OBVIOUS
  <2>6. o = Checked(after, DecOf(s, c, f), e)
    BY <1>1, <2>5, CheckpointIs DEF IsDecoder
  <2>7. Returns(o, x) = Checked(after, DecOf(s, c, f), x)
    BY <2>6, ReturnsIs
  <2>8. ReadChunked(b) = Returns(o, x)
    BY <1>1, <1>4, <2>5 DEF ReadChunked
  <2>9. IsDecoder(DecOf(s, c, f))
    BY <1>2, DecType
  <2> QED
    BY <2>2, <2>4, <2>7, <2>8, <2>9, CheckedType
<1> QED
  BY <1>3, <1>4

LEMMA DelimiterType ==
    ASSUME NEW b, IsBuffer(b), IsDecoder(dec)
    PROVE  IsOutcome(b, ReadDelimiter(b))
<1>1. PICK l, i, e : l = LineAt(b, b.reader) /\ i = l.next /\ e = ToEnd(b)
  OBVIOUS
<1>2. l.complete => i \in 0 .. Len(b.bytes)
  BY <1>1, LineFacts
<1>3. IsBuffer(e) /\ Len(e.bytes) = Len(b.bytes)
  BY <1>1, EndType
<1>4. CASE l.complete
  <2>1. ReadDelimiter(b) = checkpoint(MoveTo(b, i), "READ_CHUNK_SIZE")
    BY <1>1, <1>4 DEF ReadDelimiter
  <2>2. IsOutcome(b, checkpoint(MoveTo(b, i), "READ_CHUNK_SIZE"))
    BY <1>2, <1>4, CheckpointType DEF States
  <2> QED
    BY <2>1, <2>2
<1>5. CASE ~l.complete
  <2>1. ReadDelimiter(b) = NeedMore(e)
    BY <1>1, <1>5 DEF ReadDelimiter
  <2> QED
    BY <1>3, <2>1, PlainType
<1> QED
  BY <1>4, <1>5

LEMMA FooterType ==
    ASSUME NEW b, IsBuffer(b), IsDecoder(dec)
    PROVE  IsOutcome(b, ReadFooter(b))
<1>0. b.reader \in 0 .. Len(b.bytes) /\ Len(b.bytes) \in Nat
  BY BufferFacts
<1>1. PICK lines : lines = LinesAfter(b, b.reader)
  OBVIOUS
<1>2. /\ lines \in Seq(LinesOf(b))
      /\ \A l \in LinesOf(b) : l.next \in 1 .. Len(b.bytes)
  <2>1. PICK p : p = b.reader
    OBVIOUS
  <2>2. LinesAfter(b, p) \in Seq(LinesOf(b)) /\ \A l \in LinesOf(b) : l.next \in 1 .. Len(b.bytes)
    BY <1>0, <2>1, LinesType
  <2> QED
    BY <1>1, <2>1, <2>2
<1>3. PICK i : i = IF lines # <<>> /\ Last(lines).text = <<>> THEN Last(lines).next ELSE Len(b.bytes)
  OBVIOUS
<1>4. i \in 0 .. Len(b.bytes)
  <2>1. CASE lines # <<>> /\ Last(lines).text = <<>>
    <3>1. Len(lines) \in 1 .. Len(lines)
      BY <1>2, <2>1, EmptySeq, LenProperties
    <3>2. Last(lines) \in LinesOf(b)
      BY <1>2, <3>1, LenProperties DEF Last
    <3> QED
      BY <1>0, <1>2, <1>3, <2>1, <3>2
  <2>2. CASE ~(lines # <<>> /\ Last(lines).text = <<>>)
    BY <1>0, <1>3, <2>2
  <2> QED
    BY <2>1, <2>2
<1>5. PICK m, s, msgs : m = MoveTo(b, i) /\ s = "SKIP_CONTROL_CHARS" /\ msgs = <<LAST_CHUNK>>
  OBVIOUS
<1>6. IsBuffer(m) /\ Len(m.bytes) = Len(b.bytes)
  BY <1>4, <1>5, MoveType
<1>7. PICK o, e, c, f : o = checkpoint(m, s) /\ e = <<>> /\ c = dec.chunkSize /\ f = dec.fields
  OBVIOUS
<1>8. o = Checked(m, DecOf(s, c, f), e)
  BY <1>7, CheckpointIs DEF IsDecoder
<1>9. Returns(o, msgs) = Checked(m, DecOf(s, c, f), msgs)
  BY <1>8, ReturnsIs
<1>10. ReadFooter(b) = Returns(o, msgs)
  BY <1>1, <1>3, <1>5, <1>7 DEF ReadFooter, reset
<1>11. c \in Nat /\ f \in Seq(Fields) /\ s \in States /\ s # "READ_FIXED_LENGTH_CONTENT"
  BY <1>5, <1>7, DecFacts DEF IsDecoder, States
<1>12. IsDecoder(DecOf(s, c, f))
  BY <1>11, DecType
<1>13. msgs \in Seq(Messages)
  <2>1. <<>> \in Seq(Bytes)
    OBVIOUS
  <2> QED
    BY <1>5, <2>1, ChunkType
<1> QED
  BY <1>6, <1>9, <1>10, <1>12, <1>13, CheckedType

LEMMA DecodeType ==
    ASSUME NEW b, IsBuffer(b), IsDecoder(dec), setup \in Setups
    PROVE  IsOutcome(b, decode(b))
<1>0. dec.state \in States /\ IsSetup(setup)
  BY DecFacts, SetupFacts DEF IsDecoder
<1>1. CASE dec.state = "SKIP_CONTROL_CHARS"
  <2>1. decode(b) = skipControlCharacters(b)
    BY <1>1 DEF decode
  <2> QED
    BY <1>1, <2>1, SkipType
<1>2. CASE dec.state = "READ_INITIAL"
  <2>1. decode(b) = ReadInitial(b)
    BY <1>2 DEF decode
  <2> QED
    BY <1>2, <2>1, InitialType
<1>3. CASE dec.state = "READ_HEADER"
  <2>1. decode(b) = ReadHeader(b)
    BY <1>3 DEF decode
  <2> QED
    BY <1>3, <2>1, HeaderReadType
<1>4. CASE dec.state = "READ_FIXED_LENGTH_CONTENT"
  <2>1. decode(b) = ReadFixedLength(b)
    BY <1>4 DEF decode
  <2> QED
    BY <1>4, <2>1, FixedType
<1>5. CASE dec.state = "READ_FIXED_LENGTH_CONTENT_AS_CHUNKS"
  <2>1. PICK s, end : s = "SKIP_CONTROL_CHARS" /\ end = <<LAST_CHUNK>>
    OBVIOUS
  <2>2. decode(b) = ReadSlice(b, s, end)
    BY <1>5, <2>1 DEF decode, ReadFixedLengthAsChunks
  <2>3. s \in States /\ s # "READ_FIXED_LENGTH_CONTENT" /\ dec.state # "READ_FIXED_LENGTH_CONTENT"
    BY <1>5, <2>1 DEF States
  <2>4. end \in Seq(Messages)
    <3>1. <<>> \in Seq(Bytes)
      OBVIOUS
    <3> QED
      BY <2>1, <3>1, ChunkType
  <2> QED
    BY <1>0, <2>2, <2>3, <2>4, SlicesType
<1>6. CASE dec.state = "READ_CHUNK_SIZE"
  <2>1. decode(b) = ReadChunkSize(b)
    BY <1>6 DEF decode
  <2> QED
    BY <2>1, ChunkSizeType
<1>7. CASE dec.state = "READ_CHUNKED_CONTENT"
  <2>1. decode(b) = ReadChunked(b)
    BY <1>7 DEF decode
  <2> QED
    BY <2>1, ChunkedType
<1>8. CASE dec.state = "READ_CHUNKED_CONTENT_AS_CHUNKS"
  <2>1. PICK s, end : s = "READ_CHUNK_DELIMITER" /\ end = <<>>
    OBVIOUS
  <2>2. decode(b) = ReadSlice(b, s, end)
    BY <1>8, <2>1 DEF decode, ReadChunkedAsChunks
  <2>3. s \in States /\ s # "READ_FIXED_LENGTH_CONTENT" /\ dec.state # "READ_FIXED_LENGTH_CONTENT"
    BY <1>8, <2>1 DEF States
  <2>4. end \in Seq(Messages)
    BY <2>1
  <2> QED
    BY <1>0, <2>2, <2>3, <2>4, SlicesType
<1>9. CASE dec.state = "READ_CHUNK_DELIMITER"
  <2>1. decode(b) = ReadDelimiter(b)
    BY <1>9 DEF decode
  <2> QED
    BY <2>1, DelimiterType
<1>10. CASE dec.state = "READ_CHUNK_FOOTER"
  <2>1. decode(b) = ReadFooter(b)
    BY <1>10 DEF decode
  <2> QED
    BY <2>1, FooterType
<1> QED
  BY <1>0, <1>1, <1>2, <1>3, <1>4, <1>5, <1>6, <1>7, <1>8, <1>9, <1>10 DEF States

(***************************************************************************)
(* The bytes of the requests.                                              *)
(***************************************************************************)
LEMMA RequestFacts ==
    ASSUME NEW r \in Requests
    PROVE  /\ r.lead \in Seq(Bytes) /\ r.lead \in Seq(Whitespace) /\ r.eol \in Seq(Bytes)
           /\ (r.eol = <<"LF">> \/ r.eol = <<"CR", "LF">>)
           /\ r.fields \in Seq(Fields) /\ r.body \in Seq(Bytes)
<1>1. /\ r.lead \in Seq(Whitespace) /\ r.fields \in Seq(Fields) /\ r.body \in Seq(Bytes)
      /\ (r.eol = <<"LF">> \/ r.eol = <<"CR", "LF">>)
  BY DEF Requests
<1>2. Whitespace \subseteq Bytes /\ "LF" \in Bytes /\ "CR" \in Bytes
  BY DEF Bytes, Control, Whitespace
<1>3. PICK t : t = r.lead
  OBVIOUS
<1>4. t \in Seq(Bytes)
  <2>1. Len(t) \in Nat /\ t \in [1 .. Len(t) -> Whitespace]
    BY <1>1, <1>3, LenProperties
  <2>2. t \in [1 .. Len(t) -> Bytes]
    BY <1>2, <2>1
  <2> QED
    BY <2>1, <2>2, SeqDef
<1>5. <<"LF">> \in Seq(Bytes) /\ <<"CR", "LF">> \in Seq(Bytes)
  BY <1>2
<1> QED
  BY <1>1, <1>3, <1>4, <1>5

LEMMA LinesOfRequest ==
    ASSUME NEW r \in Requests
    PROVE  /\ HeadLine(r) \in Seq(Bytes)
           /\ \A f \in Fields : FieldLine(r, f) \in Seq(Bytes)
           /\ [i \in DOMAIN r.fields |-> FieldLine(r, r.fields[i])] \in Seq(Seq(Bytes))
           /\ Preamble(r) \in Seq(Bytes) /\ Text(r) \in Seq(Bytes)
<1>1. PICK e, g, h, y : e = r.eol /\ g = r.fields /\ h = r.lead /\ y = r.body
  OBVIOUS
<1>2. e \in Seq(Bytes) /\ g \in Seq(Fields) /\ h \in Seq(Bytes) /\ y \in Seq(Bytes)
  BY <1>1, RequestFacts
<1>3. HeadLine(r) \in Seq(Bytes)
  <2>1. PICK a, v : a = <<"w", " ", "w", " ">> /\ v = Version
    OBVIOUS
  <2>2. /\ "w" \in Bytes /\ " " \in Bytes /\ "HTTP/" \in Bytes /\ "1.1" \in Bytes
    BY DEF Bytes, Control, Whitespace
  <2>3. a \in Seq(Bytes) /\ v \in Seq(Bytes)
    <3>1. PICK w, p, x, z : w = "w" /\ p = " " /\ x = "HTTP/" /\ z = "1.1"
      OBVIOUS
    <3>2. w \in Bytes /\ p \in Bytes /\ x \in Bytes /\ z \in Bytes
      BY <2>2, <3>1
    <3>3. <<w, p, w, p>> \in Seq(Bytes) /\ <<x, z>> \in Seq(Bytes)
      BY <3>2
    <3>4. a = <<w, p, w, p>> /\ v = <<x, z>>
      BY <2>1, <3>1, Zenon DEF Version
    <3> QED
      BY <3>3, <3>4
  <2>4. a \o v \in Seq(Bytes)
    BY <2>3, ConcatProperties
  <2>5. (a \o v) \o e \in Seq(Bytes)
    BY <1>2, <2>4, ConcatProperties
  <2> QED
    BY <1>1, <2>1, <2>5 DEF HeadLine
<1>4. ASSUME NEW f \in Fields PROVE FieldLine(r, f) \in Seq(Bytes)
  <2>1. PICK n, v : n = f.name /\ v = f.value
    OBVIOUS
  <2>2. n \in Bytes /\ v \in Seq(Bytes) /\ ":" \in Bytes /\ " " \in Bytes
    BY <2>1 DEF Fields, Bytes, Control, Whitespace
  <2>3. PICK a : a = <<n, ":", " ">>
    OBVIOUS
  <2>4. a \in Seq(Bytes)
    <3>1. PICK c, p : c = ":" /\ p = " "
      OBVIOUS
    <3>2. <<n, c, p>> \in Seq(Bytes)
      <4>1. n \in Bytes /\ c \in Bytes /\ p \in Bytes
        BY <2>2, <3>1
      <4> QED
        BY <4>1
    <3> QED
      BY <2>3, <3>1, <3>2
  <2>5. a \o v \in Seq(Bytes)
    BY <2>2, <2>4, ConcatProperties
  <2>6. (a \o v) \o e \in Seq(Bytes)
    BY <1>2, <2>5, ConcatProperties
  <2> QED
    BY <1>1, <2>1, <2>3, <2>6 DEF FieldLine
<1>5. PICK q : q = [i \in DOMAIN g |-> FieldLine(r, g[i])]
  OBVIOUS
<1>6. q \in Seq(Seq(Bytes))
  <2>1. Len(g) \in Nat /\ DOMAIN g = 1 .. Len(g) /\ \A i \in 1 .. Len(g) : g[i] \in Fields
    BY <1>2, LenProperties
  <2>2. \A i \in 1 .. Len(g) : FieldLine(r, g[i]) \in Seq(Bytes)
    BY <1>4, <2>1
  <2>3. q \in [1 .. Len(g) -> Seq(Bytes)]
    BY <1>5, <2>1, <2>2
  <2> QED
    BY <2>1, <2>3, SeqDef
<1>7. Preamble(r) \in Seq(Bytes)
  <2>1. FlattenSeq(q) \in Seq(Bytes)
    BY <1>6, FlattenType
  <2>2. PICK a, w : a = HeadLine(r) /\ w = FlattenSeq(q)
    OBVIOUS
  <2>3. a \o w \in Seq(Bytes)
    BY <1>3, <2>1, <2>2, ConcatProperties
  <2>4. (a \o w) \o e \in Seq(Bytes)
    BY <1>2, <2>3, ConcatProperties
  <2> QED
    BY <1>1, <1>5, <2>2, <2>4 DEF Preamble
<1>8. Text(r) \in Seq(Bytes)
  <2>1. PICK a : a = Preamble(r)
    OBVIOUS
  <2>2. h \o a \in Seq(Bytes)
    BY <1>2, <1>7, <2>1, ConcatProperties
  <2>3. (h \o a) \o y \in Seq(Bytes)
    BY <1>2, <2>2, ConcatProperties
  <2> QED
    BY <1>1, <2>1, <2>3 DEF Text
<1> QED
  BY <1>1, <1>3, <1>4, <1>5, <1>6, <1>7, <1>8

Texts(requests) == [i \in DOMAIN requests |-> Text(requests[i])]

LEMMA TextsType ==
    ASSUME NEW q \in Seq(Requests)
    PROVE  /\ Texts(q) \in Seq(Seq(Bytes)) /\ Len(Texts(q)) = Len(q)
           /\ \A i \in 1 .. Len(q) : Texts(q)[i] = Text(q[i])
<1>1. Len(q) \in Nat /\ DOMAIN q = 1 .. Len(q) /\ \A i \in 1 .. Len(q) : q[i] \in Requests
  BY LenProperties
<1>2. \A i \in 1 .. Len(q) : Text(q[i]) \in Seq(Bytes)
  BY <1>1, LinesOfRequest
<1>3. PICK s : s = [i \in 1 .. Len(q) |-> Text(q[i])]
  OBVIOUS
<1>4. s \in [1 .. Len(q) -> Seq(Bytes)] /\ \A i \in 1 .. Len(q) : s[i] = Text(q[i])
  BY <1>2, <1>3
<1>5. s \in Seq(Seq(Bytes)) /\ Len(s) = Len(q)
  BY <1>1, <1>4, SeqDef
<1>6. Texts(q) = s
  BY <1>1, <1>3 DEF Texts
<1> QED
  BY <1>4, <1>5, <1>6

-----------------------------------------------------------------------------
(* Content of a fixed length is read only if there is some. *)
ContentInv == dec.state = "READ_FIXED_LENGTH_CONTENT" => getContentLength(dec.fields) > 0
HttpInv == TypeOK /\ ContentInv

LEMMA InvParts ==
    ASSUME HttpInv
    PROVE  IsBuffer(buf) /\ IsDecoder(dec) /\ setup \in Setups /\ out \in Seq(Messages)
           /\ stream \in Seq(Bytes) /\ Len(stream) \in Nat /\ arrived \in 0 .. Len(stream)
<1>1. IsBuffer(buf)
  BY DEF HttpInv, TypeOK, IsBuffer, Buffers
<1>2. IsDecoder(dec)
  BY DEF HttpInv, TypeOK, ContentInv, IsDecoder, Decoders
<1>3. setup \in Setups /\ out \in Seq(Messages) /\ stream \in Seq(Bytes) /\ arrived \in 0 .. Len(stream)
  BY DEF HttpInv, TypeOK
<1> QED
  BY <1>1, <1>2, <1>3, LenProperties

LEMMA InitInv == Init => HttpInv
<1> SUFFICES ASSUME Init PROVE HttpInv
  OBVIOUS
<1>1. IsSetup(setup)
  BY SetupFacts DEF Init
<1>2. PICK q : q = setup.requests
  OBVIOUS
<1>3. q \in Seq(Requests)
  BY <1>1, <1>2 DEF IsSetup
<1>4. Texts(q) \in Seq(Seq(Bytes))
  BY <1>3, TextsType
<1>5. FlattenSeq(Texts(q)) \in Seq(Bytes)
  BY <1>4, FlattenType
<1>6. stream = FlattenSeq(Texts(q))
  BY <1>2 DEF Init, Texts
<1>7. stream \in Seq(Bytes)
  BY <1>5, <1>6
<1>8. Len(stream) \in Nat
  BY <1>7, LenProperties
<1>9. buf \in [bytes : Seq(Bytes), reader : Nat] /\ buf.reader <= Len(buf.bytes)
  <2>1. PICK e : e = <<>>
    OBVIOUS
  <2>2. e \in Seq(Bytes) /\ Len(e) = 0
    BY <2>1
  <2>3. buf = [bytes |-> e, reader |-> 0]
    BY <2>1 DEF Init
  <2> QED
    BY <2>2, <2>3
<1>10. dec \in [state : States, chunkSize : Nat, fields : Seq(Fields)] /\ ContentInv
  <2>1. PICK e : e = <<>>
    OBVIOUS
  <2>2. e \in Seq(Fields)
    BY <2>1
  <2>3. dec = [state |-> "SKIP_CONTROL_CHARS", chunkSize |-> 0, fields |-> e]
    BY <2>1 DEF Init
  <2>4. dec.state = "SKIP_CONTROL_CHARS"
    BY <2>3
  <2> QED
    BY <2>2, <2>3, <2>4 DEF States, ContentInv
<1>11. out \in Seq(Messages) /\ arrived \in 0 .. Len(stream)
  BY <1>8 DEF Init
<1> QED
  BY <1>7, <1>9, <1>10, <1>11 DEF HttpInv, TypeOK, Init

LEMMA NextParts ==
    ASSUME IsBuffer(buf'), IsDecoder(dec'), (setup \in Setups)', (out \in Seq(Messages))',
           (stream \in Seq(Bytes))', (arrived \in 0 .. Len(stream))',
           (running \in {"no", "message", "cleanup", "last"})',
           (split \in BOOLEAN /\ told \in BOOLEAN /\ open \in BOOLEAN /\ fault \in BOOLEAN)'
    PROVE  HttpInv'
<1>1. (buf \in [bytes : Seq(Bytes), reader : Nat] /\ buf.reader <= Len(buf.bytes))'
  BY DEF IsBuffer, Buffers
<1>2. (dec \in [state : States, chunkSize : Nat, fields : Seq(Fields)])' /\ ContentInv'
  BY DEF IsDecoder, Decoders, ContentInv
<1> QED
  BY <1>1, <1>2 DEF HttpInv, TypeOK

LEMMA StepInv == HttpInv /\ [Next]_vars => HttpInv'
<1> SUFFICES ASSUME HttpInv, [Next]_vars PROVE HttpInv'
  OBVIOUS
<1>0. /\ IsBuffer(buf) /\ IsDecoder(dec) /\ setup \in Setups /\ out \in Seq(Messages)
      /\ stream \in Seq(Bytes) /\ Len(stream) \in Nat /\ arrived \in 0 .. Len(stream)
  BY InvParts
<1>t. /\ running \in {"no", "message", "cleanup", "last"}
      /\ split \in BOOLEAN /\ told \in BOOLEAN /\ open \in BOOLEAN /\ fault \in BOOLEAN
  BY DEF HttpInv, TypeOK
<1>o. PICK o : o = decode(buf)
  OBVIOUS
<1>d. IsOutcome(buf, o)
  <2>1. PICK b : b = buf
    OBVIOUS
  <2>2. IsOutcome(b, decode(b))
    BY <1>0, <2>1, DecodeType
  <2> QED
    BY <1>o, <2>1, <2>2
<1>e. /\ IsBuffer(o.buf) /\ Len(o.buf.bytes) = Len(buf.bytes) /\ IsDecoder(o.dec)
      /\ o.msgs \in Seq(Messages)
  BY <1>d DEF IsOutcome
<1>f. out \o o.msgs \in Seq(Messages)
  <2>1. PICK x, y : x = out /\ y = o.msgs
    OBVIOUS
  <2>2. x \o y \in Seq(Messages)
    BY <1>0, <1>e, <2>1, ConcatProperties
  <2> QED
    BY <2>1, <2>2
<1>l. ASSUME NEW b, NEW d, NEW next, Leave(b, d, next), IsBuffer(b), IsDecoder(d),
             next \in {"no", "last"}, out' \in Seq(Messages)
      PROVE  HttpInv'
  <2>1. /\ buf' = b /\ dec' = d /\ running' = next /\ told' = FALSE /\ setup' = setup
        /\ stream' = stream /\ arrived' = arrived /\ split' = split /\ open' = open /\ fault' = fault
    BY <1>l DEF Leave
  <2> QED
    BY <1>0, <1>t, <1>l, <2>1, NextParts
<1>m. AfterLoop \in {"no", "last"}
  BY DEF AfterLoop
<1>1. ASSUME NEW n \in 1 .. Len(stream), Receive(n) PROVE HttpInv'
  <2>1. /\ buf' = [buf EXCEPT !.bytes = @ \o SubSeq(stream, arrived + 1, arrived + n)]
        /\ arrived' = arrived + n /\ arrived + n <= Len(stream)
        /\ running' = "message" /\ told' = FALSE
        /\ setup' = setup /\ stream' = stream /\ dec' = dec /\ out' = out /\ open' = open
    BY <1>1 DEF Receive
  <2>2. split' \in BOOLEAN /\ fault' \in BOOLEAN
    <3>1. CASE Len(buf.bytes) + n > setup.capacity
      BY <1>1, <3>1 DEF Receive
    <3>2. CASE ~(Len(buf.bytes) + n > setup.capacity)
      BY <1>1, <3>2 DEF Receive
    <3>3. split' \in BOOLEAN
      <4>1. CASE split \/ InHead(setup.requests, arrived + n)
        BY <1>1, <4>1 DEF Receive
      <4>2. CASE ~(split \/ InHead(setup.requests, arrived + n))
        BY <1>1, <4>2 DEF Receive
      <4> QED
        BY <4>1, <4>2
    <3> QED
      BY <3>1, <3>2, <3>3
  <2>3. PICK t, s, a, p, r : /\ t = stream /\ a = arrived /\ s = buf.bytes /\ r = buf.reader
                             /\ p = SubSeq(stream, arrived + 1, arrived + n)
    OBVIOUS
  <2>4. t \in Seq(Bytes) /\ a \in Nat /\ n \in Nat /\ a + n <= Len(t)
    BY <1>0, <2>1, <2>3
  <2>5. p \in Seq(Bytes) /\ Len(p) = n
    BY <2>3, <2>4, PartOf
  <2>6. s \in Seq(Bytes) /\ Len(s) \in Nat /\ r \in Nat /\ r <= Len(s)
        /\ buf = [bytes |-> s, reader |-> r]
    BY <1>0, <2>3, BufferFacts
  <2>7. s \o p \in Seq(Bytes) /\ Len(s \o p) = Len(s) + Len(p)
    BY <2>5, <2>6, ConcatProperties
  <2>8. PICK w : w = s \o p
    OBVIOUS
  <2>9. buf' = [bytes |-> w, reader |-> r]
    <3>1. buf' = [buf EXCEPT !.bytes = w]
      BY <2>1, <2>3, <2>8
    <3> QED
      BY <2>6, <3>1
  <2>10. IsBuffer(buf')
    <3>1. PICK b : b = buf'
      OBVIOUS
    <3>2. b = [bytes |-> w, reader |-> r] /\ w \in Seq(Bytes) /\ r <= Len(w)
      BY <2>4, <2>5, <2>6, <2>7, <2>8, <2>9, <3>1
    <3>3. IsBuffer(b)
      BY <2>6, <3>2 DEF IsBuffer, Buffers
    <3> QED
      BY <3>1, <3>3
  <2>11. arrived' \in 0 .. Len(stream')
    BY <1>0, <2>1, <2>4
  <2> QED
    BY <1>0, <1>t, <2>1, <2>2, <2>10, <2>11, NextParts
<1>2. ASSUME Iterate PROVE HttpInv'
  <2>1. /\ buf' = o.buf /\ dec' = o.dec /\ out' = out \o o.msgs /\ told' = (o.msgs # <<>>)
        /\ setup' = setup /\ stream' = stream /\ arrived' = arrived /\ split' = split
        /\ running' = running /\ open' = open /\ fault' = fault
    BY <1>2, <1>o DEF Iterate
  <2>2. told' \in BOOLEAN
    BY <2>1
  <2> QED
    BY <1>0, <1>t, <1>e, <1>f, <2>1, <2>2, NextParts
<1>3. ASSUME WaitForMore PROVE HttpInv'
  <2>1. Leave(Rewound(o), o.dec, AfterLoop) /\ out' = out
    BY <1>3, <1>o DEF WaitForMore
  <2>2. IsBuffer(Rewound(o))
    <3>1. PICK b, i : b = o.buf /\ i = buf.reader
      OBVIOUS
    <3>2. i \in 0 .. Len(b.bytes)
      BY <1>0, <1>e, <3>1, BufferFacts
    <3>3. IsBuffer(MoveTo(b, i))
      BY <1>e, <3>1, <3>2, MoveType
    <3> QED
      BY <1>e, <3>1, <3>3 DEF Rewound
  <2>3. PICK b, d, next : b = Rewound(o) /\ d = o.dec /\ next = AfterLoop
    OBVIOUS
  <2> QED
    BY <1>0, <1>e, <1>l, <1>m, <2>1, <2>2, <2>3
<1>4. ASSUME AllRead PROVE HttpInv'
  <2>1. Leave(buf, dec, AfterLoop) /\ out' = out
    BY <1>4 DEF AllRead
  <2>2. PICK b, d, next : b = buf /\ d = dec /\ next = AfterLoop
    OBVIOUS
  <2> QED
    BY <1>0, <1>l, <1>m, <2>1, <2>2
<1>5. ASSUME Throw PROVE HttpInv'
  <2>1. Leave(o.buf, o.dec, "no") /\ out' = out
    BY <1>5, <1>o DEF Throw
  <2>2. PICK b, d, next : b = o.buf /\ d = o.dec /\ next = "no"
    OBVIOUS
  <2> QED
    BY <1>0, <1>e, <1>l, <2>1, <2>2
<1>6. ASSUME Break PROVE HttpInv'
  <2>1. /\ fault' = TRUE /\ setup' = setup /\ stream' = stream /\ arrived' = arrived
        /\ split' = split /\ buf' = buf /\ dec' = dec /\ running' = running /\ told' = told
        /\ out' = out /\ open' = open
    BY <1>6 DEF Break
  <2> QED
    BY <1>0, <1>t, <2>1, NextParts
<1>7. ASSUME decodeLast PROVE HttpInv'
  <2>1. Leave(o.buf, o.dec, "no") /\ out' = out \o o.msgs
    BY <1>7, <1>o DEF decodeLast
  <2>2. PICK b, d, next : b = o.buf /\ d = o.dec /\ next = "no"
    OBVIOUS
  <2>3. out' \in Seq(Messages)
    BY <1>f, <2>1
  <2> QED
    BY <1>e, <1>l, <2>1, <2>2, <2>3
<1>8. ASSUME Close PROVE HttpInv'
  <2>1. /\ open' = FALSE /\ fault' = (running # "no") /\ told' = FALSE
        /\ running' = (IF arrived > 0 THEN "cleanup" ELSE "no")
        /\ setup' = setup /\ stream' = stream /\ arrived' = arrived /\ split' = split
        /\ buf' = buf /\ dec' = dec /\ out' = out
    BY <1>8 DEF Close
  <2>2. fault' \in BOOLEAN /\ running' \in {"no", "message", "cleanup", "last"}
    BY <2>1
  <2> QED
    BY <1>0, <1>t, <2>1, <2>2, NextParts
<1>9. ASSUME UNCHANGED vars PROVE HttpInv'
  BY <1>9 DEF vars, HttpInv, TypeOK, ContentInv
<1> QED
  BY <1>1, <1>2, <1>3, <1>4, <1>5, <1>6, <1>7, <1>8, <1>9 DEF Next

(* The types hold in every reachable state, for all requests and sizes: the *)
(* reader index of the replaying decoder stays within the buffer, whatever *)
(* is read, replayed or left, and chunkSize never becomes negative.        *)
THEOREM TypeCorrect == Spec => []TypeOK
<1>1. Spec => []HttpInv
  BY InitInv, StepInv, PTL DEF Spec
<1>2. HttpInv => TypeOK
  BY DEF HttpInv
<1> QED
  BY <1>1, <1>2, PTL

-----------------------------------------------------------------------------
(***************************************************************************)
(* Sequences inside of sequences.                                          *)
(***************************************************************************)
(* The sequence w stands after element p of t. *)
At(t, p, w) == p + Len(w) <= Len(t) /\ \A j \in 1 .. Len(w) : t[p + j] = w[j]

LEMMA AtConcat ==
    ASSUME NEW S, NEW t \in Seq(S), NEW p \in Nat, NEW u \in Seq(S), NEW v \in Seq(S),
           At(t, p, u \o v)
    PROVE  /\ At(t, p, u) /\ At(t, p + Len(u), v)
           /\ Len(u) \in Nat /\ Len(v) \in Nat /\ Len(u \o v) = Len(u) + Len(v)
<1>1. PICK w, m, n : w = u \o v /\ m = Len(u) /\ n = Len(v)
  OBVIOUS
<1>2. /\ m \in Nat /\ n \in Nat /\ Len(w) = m + n /\ Len(t) \in Nat
      /\ \A j \in 1 .. m : w[j] = u[j]
      /\ \A j \in m + 1 .. m + n : w[j] = v[j - m]
  <2>1. m \in Nat /\ n \in Nat /\ Len(w) = m + n /\ Len(t) \in Nat
    BY <1>1, ConcatProperties, LenProperties
  <2>2. \A i \in 1 .. m + n : w[i] = IF i <= m THEN u[i] ELSE v[i - m]
    BY <1>1, ConcatProperties
  <2>3. \A j \in 1 .. m : j \in 1 .. m + n /\ j <= m
    BY <2>1
  <2>4. \A j \in m + 1 .. m + n : j \in 1 .. m + n /\ ~(j <= m)
    BY <2>1
  <2> QED
    BY <2>1, <2>2, <2>3, <2>4
<1>3. p + (m + n) <= Len(t) /\ \A j \in 1 .. m + n : t[p + j] = w[j]
  BY <1>1, <1>2 DEF At
<1>4. At(t, p, u)
  <2>1. p + m <= Len(t) /\ \A j \in 1 .. m : j \in 1 .. m + n
    BY <1>2, <1>3
  <2>2. \A j \in 1 .. m : t[p + j] = u[j]
    BY <1>2, <1>3, <2>1
  <2> QED
    BY <1>1, <2>1, <2>2 DEF At
<1>5. At(t, p + m, v)
  <2>1. (p + m) + n <= Len(t)
    BY <1>2, <1>3
  <2>2. ASSUME NEW j \in 1 .. n PROVE t[(p + m) + j] = v[j]
    <3>1. m + j \in 1 .. m + n /\ m + j \in m + 1 .. m + n /\ (m + j) - m = j
          /\ p + (m + j) = (p + m) + j
      BY <1>2
    <3> QED
      BY <1>2, <1>3, <3>1
  <2> QED
    BY <1>1, <2>1, <2>2 DEF At
<1> QED
  BY <1>1, <1>2, <1>4, <1>5

(* The sequence u stands after element p of t, and v after u. *)
OneAfter(t, p, u, v) ==
    /\ At(t, p, u) /\ At(t, p + Len(u), v)
    /\ Len(u) \in Nat /\ Len(v) \in Nat /\ Len(u \o v) = Len(u) + Len(v)

LEMMA AtJoined ==
    ASSUME NEW S, NEW t \in Seq(S), NEW p \in Nat, NEW u \in Seq(S), NEW v \in Seq(S),
           NEW w, w = u \o v, At(t, p, w)
    PROVE  OneAfter(t, p, u, v)
  BY AtConcat DEF OneAfter

(* Sequence x is sequence u followed by sequence v. *)
Joined(x, u, v, S) ==
    /\ x \in Seq(S) /\ u \in Seq(S) /\ v \in Seq(S) /\ x = u \o v
    /\ Len(x) \in Nat /\ Len(u) \in Nat /\ Len(v) \in Nat /\ Len(x) = Len(u) + Len(v)

LEMMA JoinLen ==
    ASSUME NEW S, NEW seqs \in Seq(Seq(S)), NEW J, Joins(J, seqs, S), NEW i \in 1 .. Len(seqs)
    PROVE  Joined(J[i], J[i - 1], seqs[i], S)
<1>0. Len(seqs) \in Nat /\ seqs[i] \in Seq(S)
  BY LenProperties
<1>1. i \in 0 .. Len(seqs) /\ i - 1 \in 0 .. Len(seqs)
  BY <1>0
<1>2. J[i] \in Seq(S) /\ J[i - 1] \in Seq(S) /\ J[i] = J[i - 1] \o seqs[i]
  BY <1>1 DEF Joins
<1>3. PICK x, u, v : x = J[i] /\ u = J[i - 1] /\ v = seqs[i]
  OBVIOUS
<1>4. x \in Seq(S) /\ u \in Seq(S) /\ v \in Seq(S) /\ x = u \o v
  BY <1>0, <1>2, <1>3
<1>5. Joined(x, u, v, S)
  BY <1>4, ConcatProperties, LenProperties DEF Joined
<1> QED
  BY <1>3, <1>5

(* Every sequence that was joined stands at its place. *)
LEMMA JoinAt ==
    ASSUME NEW S, NEW seqs \in Seq(Seq(S)), NEW J, Joins(J, seqs, S), NEW i \in 1 .. Len(seqs)
    PROVE  /\ At(J[Len(seqs)], Len(J[i - 1]), seqs[i])
           /\ Len(J[i]) <= Len(J[Len(seqs)])
<1>0. Len(seqs) \in Nat
  BY LenProperties
<1>1. PICK n, w, u, y, p : /\ n = Len(seqs) /\ w = seqs[i] /\ u = J[i - 1] /\ y = J[i]
                           /\ p = Len(u)
  OBVIOUS
<1>2. n \in Nat /\ i \in 1 .. n
  BY <1>0, <1>1
<1>3. Joined(y, u, w, S)
  BY <1>1, JoinLen
<1>4. p \in Nat /\ Len(w) \in Nat /\ Len(y) \in Nat
  BY <1>1, <1>3 DEF Joined
<1> DEFINE T == {k \in Nat : i + k > n \/ (Len(y) <= Len(J[i + k]) /\ At(J[i + k], p, w))}
<1>5. 0 \in T
  <2>1. i + 0 = i
    BY <1>2
  <2>2. \A j \in 1 .. Len(w) : y[p + j] = w[j]
    <3>1. \A j \in 1 .. Len(u) + Len(w) : (u \o w)[j] = IF j <= Len(u) THEN u[j] ELSE w[j - Len(u)]
      BY <1>3, ConcatProperties DEF Joined
    <3>2. \A j \in 1 .. Len(w) : p + j \in 1 .. Len(u) + Len(w) /\ ~(p + j <= Len(u)) /\ (p + j) - Len(u) = j
      <4>1. PICK lw : lw = Len(w)
        OBVIOUS
      <4>2. lw \in Nat /\ p \in Nat
        BY <1>4, <4>1
      <4>3. \A j \in 1 .. lw : p + j \in 1 .. p + lw /\ ~(p + j <= p) /\ (p + j) - p = j
        BY <4>2
      <4> QED
        BY <1>1, <4>1, <4>3
    <3>3. \A j \in 1 .. Len(w) : (u \o w)[p + j] = w[j]
      BY <3>1, <3>2
    <3> QED
      BY <1>3, <3>3 DEF Joined
  <2>3. p + Len(w) <= Len(y)
    BY <1>1, <1>3, <1>4 DEF Joined
  <2>4. At(y, p, w) /\ Len(y) <= Len(y)
    BY <1>4, <2>2, <2>3 DEF At
  <2>5. J[i + 0] = y
    BY <1>1, <2>1
  <2>6. Len(y) <= Len(J[i + 0]) /\ At(J[i + 0], p, w)
    BY <2>4, <2>5
  <2> QED
    BY <2>6
<1>6. ASSUME NEW k \in 0 .. n - 1, k \in T PROVE k + 1 \in T
  <2>1. k + 1 \in Nat
    BY <1>2
  <2>2. CASE i + (k + 1) > n
    BY <2>1, <2>2
  <2>3. CASE ~(i + (k + 1) > n)
    <3>1. PICK x : x = i + (k + 1)
      OBVIOUS
    <3>2. x \in 1 .. n /\ x - 1 = i + k /\ ~(i + k > n)
      BY <1>2, <2>3, <3>1
    <3>3. Len(y) <= Len(J[x - 1]) /\ At(J[x - 1], p, w)
      BY <1>6, <3>2
    <3>4. PICK a, b, c : a = J[x] /\ b = J[x - 1] /\ c = seqs[x]
      OBVIOUS
    <3>5. Joined(a, b, c, S)
      BY <1>1, <3>2, <3>4, JoinLen
    <3>6. /\ b \in Seq(S) /\ c \in Seq(S) /\ a = b \o c
          /\ Len(b) \in Nat /\ Len(c) \in Nat /\ Len(a) \in Nat /\ Len(a) = Len(b) + Len(c)
      BY <3>5 DEF Joined
    <3>7. Len(y) <= Len(b) /\ p + Len(w) <= Len(b) /\ \A j \in 1 .. Len(w) : b[p + j] = w[j]
      BY <3>3, <3>4 DEF At
    <3>8. Len(y) <= Len(a) /\ p + Len(w) <= Len(a)
      <4>1. PICK la, lb, lc, ly, lw : /\ la = Len(a) /\ lb = Len(b) /\ lc = Len(c)
                                      /\ ly = Len(y) /\ lw = Len(w)
        OBVIOUS
      <4>2. /\ la \in Nat /\ lb \in Nat /\ lc \in Nat /\ ly \in Nat /\ lw \in Nat
            /\ la = lb + lc /\ ly <= lb /\ p + lw <= lb
        BY <1>4, <3>6, <3>7, <4>1
      <4>3. ly <= la /\ p + lw <= la
        BY <1>4, <4>2
      <4> QED
        BY <4>1, <4>3
    <3>9. \A j \in 1 .. Len(w) : (b \o c)[p + j] = w[j]
      <4>1. \A j \in 1 .. Len(b) + Len(c) : (b \o c)[j] = IF j <= Len(b) THEN b[j] ELSE c[j - Len(b)]
        BY <3>6, ConcatProperties
      <4>2. \A j \in 1 .. Len(w) : p + j \in 1 .. Len(b) + Len(c) /\ p + j <= Len(b)
        BY <1>4, <3>6, <3>7
      <4> QED
        BY <3>7, <4>1, <4>2
    <3>10. At(a, p, w)
      BY <3>6, <3>8, <3>9 DEF At
    <3>11. Len(y) <= Len(J[i + (k + 1)]) /\ At(J[i + (k + 1)], p, w)
      BY <3>1, <3>4, <3>8, <3>10
    <3> QED
      BY <2>1, <3>11
  <2> QED
    BY <2>2, <2>3
<1>7. \A k \in 0 .. n : k \in T
  <2> HIDE DEF T
  <2> QED
    BY <1>2, <1>5, <1>6, UpTo
<1>8. PICK k : k = n - i
  OBVIOUS
<1>9. k \in 0 .. n /\ i + k = n /\ ~(i + k > n)
  BY <1>2, <1>8
<1>10. k \in T
  BY <1>7, <1>9
<1>11. Len(y) <= Len(J[n]) /\ At(J[n], p, w)
  BY <1>9, <1>10
<1> QED
  BY <1>1, <1>11

(* Joins that agree on the first k sequences, and sequences that are empty. *)
LEMMA JoinSame ==
    ASSUME NEW S, NEW f \in Seq(Seq(S)), NEW g \in Seq(Seq(S)), NEW J, NEW K,
           Joins(J, f, S), Joins(K, g, S), NEW m \in Nat, m <= Len(f), m <= Len(g),
           \A i \in 1 .. m : f[i] = g[i]
    PROVE  J[m] = K[m]
<1>0. Len(f) \in Nat /\ Len(g) \in Nat
  BY LenProperties
<1> DEFINE T == {k \in Nat : J[k] = K[k]}
<1>1. 0 \in T
  BY DEF Joins
<1>2. ASSUME NEW k \in 0 .. m - 1, k \in T PROVE k + 1 \in T
  <2>1. k + 1 \in 1 .. m /\ k + 1 \in 1 .. Len(f) /\ k + 1 \in 1 .. Len(g) /\ (k + 1) - 1 = k
        /\ k + 1 \in Nat
    BY <1>0
  <2>2. J[k + 1] = J[k] \o f[k + 1] /\ K[k + 1] = K[k] \o g[k + 1]
    BY <2>1 DEF Joins
  <2>3. J[k] = K[k] /\ f[k + 1] = g[k + 1]
    BY <1>2, <2>1
  <2>4. J[k + 1] = K[k + 1]
    BY <2>2, <2>3
  <2> QED
    BY <2>1, <2>4
<1>3. \A i \in 0 .. m : i \in T
  <2> HIDE DEF T
  <2> QED
    BY <1>1, <1>2, UpTo
<1>4. m \in T
  BY <1>3
<1> QED
  BY <1>4

LEMMA JoinEmpty ==
    ASSUME NEW S, NEW f \in Seq(Seq(S)), NEW J, Joins(J, f, S), NEW m \in 0 .. Len(f),
           \A i \in m + 1 .. Len(f) : f[i] = <<>>
    PROVE  J[Len(f)] = J[m]
<1>0. Len(f) \in Nat /\ m \in Nat
  BY LenProperties
<1>1. PICK n : n = Len(f)
  OBVIOUS
<1> DEFINE T == {k \in Nat : m + k > n \/ J[m + k] = J[m]}
<1>2. 0 \in T
  <2>1. m + 0 = m
    BY <1>0
  <2> QED
    BY <2>1
<1>3. ASSUME NEW k \in 0 .. n - 1, k \in T PROVE k + 1 \in T
  <2>1. k + 1 \in Nat
    BY <1>0, <1>1
  <2>2. CASE m + (k + 1) > n
    BY <2>1, <2>2
  <2>3. CASE ~(m + (k + 1) > n)
    <3>1. PICK x : x = m + (k + 1)
      OBVIOUS
    <3>2. x \in 1 .. n /\ x - 1 = m + k /\ ~(m + k > n) /\ x \in m + 1 .. n
      BY <1>0, <1>1, <2>3, <3>1
    <3>3. J[x - 1] = J[m]
      BY <1>3, <3>2
    <3>4. J[x] = J[x - 1] \o f[x] /\ J[x - 1] \in Seq(S)
      <4>1. Joined(J[x], J[x - 1], f[x], S)
        BY <1>1, <3>2, JoinLen
      <4> QED
        BY <4>1 DEF Joined
    <3>5. f[x] = <<>>
      BY <1>1, <3>2
    <3>6. J[x] = J[x - 1]
      <4>1. PICK u : u = J[x - 1]
        OBVIOUS
      <4>2. u \o <<>> = u
        BY <3>4, <4>1, ConcatEmptySeq
      <4> QED
        BY <3>4, <3>5, <4>1, <4>2
    <3> QED
      BY <2>1, <3>1, <3>3, <3>6
  <2> QED
    BY <2>2, <2>3
<1>4. \A k \in 0 .. n : k \in T
  <2> HIDE DEF T
  <2>1. n \in Nat
    BY <1>0, <1>1
  <2> QED
    BY <1>2, <1>3, <2>1, UpTo
<1>5. PICK k : k = n - m
  OBVIOUS
<1>6. k \in 0 .. n /\ m + k = n /\ ~(m + k > n)
  BY <1>0, <1>1, <1>5
<1>7. k \in T
  BY <1>4, <1>6
<1> QED
  BY <1>1, <1>6, <1>7

LEMMA AtAt ==
    ASSUME NEW S, NEW t \in Seq(S), NEW w \in Seq(S), NEW v \in Seq(S), NEW p \in Nat, NEW q \in Nat,
           At(t, p, w), At(w, q, v)
    PROVE  At(t, p + q, v)
<1>0. Len(t) \in Nat /\ Len(w) \in Nat /\ Len(v) \in Nat
  BY LenProperties
<1>1. PICK lt, lw, lv : lt = Len(t) /\ lw = Len(w) /\ lv = Len(v)
  OBVIOUS
<1>2. lt \in Nat /\ lw \in Nat /\ lv \in Nat /\ p + lw <= lt /\ q + lv <= lw
  BY <1>0, <1>1 DEF At
<1>3. (p + q) + lv <= lt
  BY <1>2
<1>4. ASSUME NEW j \in 1 .. lv PROVE t[(p + q) + j] = v[j]
  <2>1. q + j \in 1 .. lw /\ p + (q + j) = (p + q) + j
    BY <1>2
  <2>2. t[p + (q + j)] = w[q + j] /\ w[q + j] = v[j]
    BY <1>1, <2>1 DEF At
  <2> QED
    BY <2>1, <2>2
<1> QED
  BY <1>1, <1>3, <1>4 DEF At

StartStep(R, f, k) == IF k = 0 THEN 0 ELSE f[k - 1] + Len(Text(R[k]))

LEMMA StartIs ==
    ASSUME NEW R \in Seq(Requests), NEW J, Joins(J, Texts(R), Bytes), NEW i \in 1 .. Len(R) + 1
    PROVE  Start(R, i) = Len(J[i - 1]) /\ Start(R, i) \in Nat
<1>0. Len(R) \in Nat
  BY LenProperties
<1>1. PICK n, q : n = Len(R) /\ q = Texts(R)
  OBVIOUS
<1>2. n \in Nat /\ q \in Seq(Seq(Bytes)) /\ Len(q) = n /\ \A k \in 1 .. n : q[k] = Text(R[k])
  BY <1>0, <1>1, TextsType
<1>3. PICK F : F = CHOOSE f : f = [k \in 0 .. n |-> StartStep(R, f, k)]
  OBVIOUS
<1>4. Start(R, i) = F[i - 1]
  BY <1>1, <1>3 DEF Start, StartStep
<1>5. PICK g : g = [k \in 0 .. n |-> Len(J[k])]
  OBVIOUS
<1>6. g[0] = 0
  <2>1. J[0] = <<>>
    BY DEF Joins
  <2> QED
    BY <1>2, <1>5, <2>1
<1>7. ASSUME NEW k \in 1 .. n PROVE g[k] = g[k - 1] + Len(Text(R[k])) /\ g[k] \in Nat
  <2>1. Joined(J[k], J[k - 1], q[k], Bytes)
    BY <1>1, <1>2, JoinLen
  <2>2. Len(J[k]) = Len(J[k - 1]) + Len(q[k]) /\ Len(J[k]) \in Nat
    BY <2>1 DEF Joined
  <2>3. k \in 0 .. n /\ k - 1 \in 0 .. n
    BY <1>2
  <2>4. g[k] = Len(J[k]) /\ g[k - 1] = Len(J[k - 1])
    BY <1>5, <2>3
  <2> QED
    BY <1>2, <2>2, <2>4
<1>8. ASSUME NEW k \in 0 .. n PROVE g[k] = StartStep(R, g, k)
  <2>1. CASE k = 0
    BY <1>6, <2>1 DEF StartStep
  <2>2. CASE k # 0
    <3>1. k \in 1 .. n
      BY <1>2, <2>2
    <3> QED
      BY <1>7, <2>2, <3>1 DEF StartStep
  <2> QED
    BY <2>1, <2>2
<1>9. \E f : f = [k \in 0 .. n |-> StartStep(R, f, k)]
  <2>1. PICK v : v = [k \in 0 .. n |-> StartStep(R, g, k)]
    OBVIOUS
  <2>2. \A k \in 0 .. n : g[k] = v[k]
    BY <1>8, <2>1
  <2>3. v = [k \in 0 .. n |-> v[k]] /\ g = [k \in 0 .. n |-> g[k]]
    BY <1>5, <2>1
  <2>4. g = v
    BY <2>2, <2>3
  <2> QED
    BY <2>1, <2>4
<1>10. F = [k \in 0 .. n |-> StartStep(R, F, k)]
  <2> HIDE DEF StartStep
  <2> QED
    BY <1>3, <1>9
<1>11. \A k \in 0 .. n : F[k] = StartStep(R, F, k)
  <2>1. PICK v : v = [k \in 0 .. n |-> StartStep(R, F, k)]
    OBVIOUS
  <2>2. \A k \in 0 .. n : v[k] = StartStep(R, F, k)
    BY <2>1
  <2> QED
    BY <1>10, <2>1, <2>2
<1> DEFINE T == {k \in Nat : F[k] = g[k]}
<1>12. 0 \in T
  <2>1. F[0] = 0
    BY <1>2, <1>11 DEF StartStep
  <2> QED
    BY <1>6, <2>1
<1>13. ASSUME NEW k \in 0 .. n - 1, k \in T PROVE k + 1 \in T
  <2>1. k + 1 \in 1 .. n /\ k + 1 \in 0 .. n /\ (k + 1) - 1 = k /\ k + 1 # 0 /\ k + 1 \in Nat
    BY <1>2
  <2>2. F[k + 1] = F[k] + Len(Text(R[k + 1]))
    BY <1>11, <2>1 DEF StartStep
  <2>3. g[k + 1] = g[k] + Len(Text(R[k + 1]))
    BY <1>7, <2>1
  <2>4. F[k + 1] = g[k + 1]
    BY <1>13, <2>2, <2>3
  <2> QED
    BY <2>1, <2>4
<1>14. \A k \in 0 .. n : k \in T
  <2> HIDE DEF T
  <2> QED
    BY <1>2, <1>12, <1>13, UpTo
<1>15. i - 1 \in 0 .. n
  BY <1>1, <1>2
<1>16. F[i - 1] = g[i - 1] /\ g[i - 1] = Len(J[i - 1])
  BY <1>5, <1>14, <1>15
<1>17. g[i - 1] \in Nat
  <2>1. i - 1 = 0 \/ i - 1 \in 1 .. n
    BY <1>2, <1>15
  <2> QED
    BY <1>6, <1>7, <2>1
<1> QED
  BY <1>4, <1>16, <1>17

HeadAt(R, i) == Start(R, i) + Len(R[i].lead)
FieldsAt(R, i) == HeadAt(R, i) + Len(HeadLine(R[i]))
BodyAt(R, i) == HeadAt(R, i) + Len(Preamble(R[i]))
FieldLines(r) == [k \in DOMAIN r.fields |-> FieldLine(r, r.fields[k])]
HeadText == <<"w", " ", "w", " ">> \o Version

LEMMA HeadTextIs ==
    /\ HeadText \in Seq(Bytes) /\ Len(HeadText) = 6
    /\ HeadText[1] = "w" /\ HeadText[2] = " " /\ HeadText[3] = "w" /\ HeadText[4] = " "
    /\ HeadText[5] = "HTTP/" /\ HeadText[6] = "1.1"
<1>1. PICK a, v, w, p, x, z : /\ a = <<w, p, w, p>> /\ v = <<x, z>>
                              /\ w = "w" /\ p = " " /\ x = "HTTP/" /\ z = "1.1"
  OBVIOUS
<1>2. w \in Bytes /\ p \in Bytes /\ x \in Bytes /\ z \in Bytes
  BY <1>1 DEF Bytes, Control, Whitespace
<1>3. HeadText = a \o v
  BY <1>1, Zenon DEF HeadText, Version
<1>4. a \in Seq(Bytes) /\ v \in Seq(Bytes) /\ Len(a) = 4 /\ Len(v) = 2
      /\ a[1] = w /\ a[2] = p /\ a[3] = w /\ a[4] = p /\ v[1] = x /\ v[2] = z
  <2>1. <<w, p, w, p>> \in Seq(Bytes) /\ <<x, z>> \in Seq(Bytes)
    BY <1>2
  <2>2. Len(<<w, p, w, p>>) = 4 /\ Len(<<x, z>>) = 2
    OBVIOUS
  <2>3. a[1] = w /\ a[2] = p /\ a[3] = w /\ a[4] = p /\ v[1] = x /\ v[2] = z
    BY <1>1
  <2> QED
    BY <1>1, <2>1, <2>2, <2>3
<1>5. PICK h : h = a \o v
  OBVIOUS
<1>6. h \in Seq(Bytes) /\ Len(h) = 6
      /\ \A i \in 1 .. 6 : h[i] = IF i <= 4 THEN a[i] ELSE v[i - 4]
  <2>1. h \in Seq(Bytes) /\ Len(h) = Len(a) + Len(v)
        /\ \A i \in 1 .. Len(a) + Len(v) : h[i] = IF i <= Len(a) THEN a[i] ELSE v[i - Len(a)]
    BY <1>4, <1>5, ConcatProperties
  <2>2. Len(a) + Len(v) = 6
    BY <1>4
  <2> QED
    BY <1>4, <2>1, <2>2
<1>7. h[1] = a[1] /\ h[2] = a[2] /\ h[3] = a[3] /\ h[4] = a[4] /\ h[5] = v[1] /\ h[6] = v[2]
  <2>1. 5 - 4 = 1 /\ 6 - 4 = 2 /\ ~(5 <= 4) /\ ~(6 <= 4)
    OBVIOUS
  <2>2. 1 \in 1 .. 6 /\ 2 \in 1 .. 6 /\ 3 \in 1 .. 6 /\ 4 \in 1 .. 6 /\ 5 \in 1 .. 6 /\ 6 \in 1 .. 6
    OBVIOUS
  <2> QED
    BY <1>6, <2>1, <2>2
<1> QED
  BY <1>1, <1>3, <1>4, <1>5, <1>6, <1>7

LEMMA EolIs ==
    ASSUME NEW r \in Requests
    PROVE  /\ r.eol \in Seq(Bytes) /\ (Len(r.eol) = 1 \/ Len(r.eol) = 2)
           /\ r.eol[Len(r.eol)] = "LF" /\ (Len(r.eol) = 2 => r.eol[1] = "CR")
<1>1. PICK e, x, y : e = r.eol /\ x = "LF" /\ y = "CR"
  OBVIOUS
<1>2. e \in Seq(Bytes) /\ (e = <<x>> \/ e = <<y, x>>)
  BY <1>1, RequestFacts
<1>3. CASE e = <<x>>
  BY <1>1, <1>2, <1>3
<1>4. CASE e = <<y, x>>
  BY <1>1, <1>2, <1>4
<1> QED
  BY <1>2, <1>3, <1>4

(* Request i has its place in the stream t. *)
Places(R, i) ==
    /\ Start(R, i) \in Nat /\ HeadAt(R, i) \in Nat /\ FieldsAt(R, i) \in Nat
    /\ BodyAt(R, i) \in Nat /\ Start(R, i + 1) \in Nat
    /\ Len(R[i].lead) \in Nat /\ Len(R[i].body) \in Nat /\ Len(Preamble(R[i])) \in Nat
    /\ HeadAt(R, i) = Start(R, i) + Len(R[i].lead)
    /\ HeadAt(R, i) < FieldsAt(R, i) /\ FieldsAt(R, i) < BodyAt(R, i)
    /\ BodyAt(R, i) = HeadAt(R, i) + Len(Preamble(R[i]))
    /\ Start(R, i + 1) = BodyAt(R, i) + Len(R[i].body)
    /\ Len(Text(R[i])) = Len(R[i].lead) + Len(Preamble(R[i])) + Len(R[i].body)
Placed(t, R, i) ==
    /\ Start(R, i + 1) <= Len(t)
    /\ At(t, Start(R, i), R[i].lead)
    /\ At(t, HeadAt(R, i), HeadLine(R[i]))
    /\ At(t, FieldsAt(R, i), FlattenSeq(FieldLines(R[i])))
    /\ At(t, FieldsAt(R, i) + Len(FlattenSeq(FieldLines(R[i]))), R[i].eol)
    /\ BodyAt(R, i) = FieldsAt(R, i) + Len(FlattenSeq(FieldLines(R[i]))) + Len(R[i].eol)
    /\ At(t, BodyAt(R, i), R[i].body)

LEMMA StreamEnds ==
    ASSUME NEW R \in Seq(Requests), NEW t, t = FlattenSeq(Texts(R))
    PROVE  /\ t \in Seq(Bytes) /\ Start(R, 1) = 0 /\ Start(R, Len(R) + 1) = Len(t)
           /\ \A i \in 1 .. Len(R) + 1 : Start(R, i) \in Nat
<1>1. PICK q, n : q = Texts(R) /\ n = Len(R)
  OBVIOUS
<1>2. q \in Seq(Seq(Bytes)) /\ Len(q) = n /\ n \in Nat
  BY <1>1, TextsType, LenProperties
<1>3. PICK J : Joins(J, q, Bytes)
  BY <1>2, JoinExists
<1>4. t = J[n] /\ t \in Seq(Bytes)
  BY <1>1, <1>2, <1>3, FlattenIs, FlattenType
<1>5. ASSUME NEW i \in 1 .. n + 1 PROVE Start(R, i) = Len(J[i - 1]) /\ Start(R, i) \in Nat
  BY <1>1, <1>3, StartIs
<1>6. 1 \in 1 .. n + 1 /\ n + 1 \in 1 .. n + 1 /\ 1 - 1 = 0 /\ (n + 1) - 1 = n
  BY <1>2
<1>7. Start(R, 1) = Len(J[0]) /\ Start(R, n + 1) = Len(J[n])
  BY <1>5, <1>6
<1>8. Len(J[0]) = 0
  <2>1. J[0] = <<>>
    BY <1>3 DEF Joins
  <2> QED
    BY <2>1
<1> QED
  BY <1>1, <1>4, <1>5, <1>7, <1>8

LEMMA RequestPlaces ==
    ASSUME NEW R \in Seq(Requests), NEW t, t = FlattenSeq(Texts(R)), NEW i \in 1 .. Len(R)
    PROVE  R[i] \in Requests /\ Places(R, i) /\ Placed(t, R, i)
<1>1. PICK q, n, r : q = Texts(R) /\ n = Len(R) /\ r = R[i]
  OBVIOUS
<1>2. q \in Seq(Seq(Bytes)) /\ Len(q) = n /\ n \in Nat /\ q[i] = Text(r) /\ r \in Requests
  BY <1>1, TextsType, LenProperties
<1>3. PICK J : Joins(J, q, Bytes)
  BY <1>2, JoinExists
<1>4. t = J[n] /\ t \in Seq(Bytes)
  BY <1>1, <1>2, <1>3, FlattenIs, FlattenType
<1>5. i \in 1 .. n + 1 /\ i + 1 \in 1 .. n + 1 /\ (i + 1) - 1 = i /\ i \in 1 .. Len(q)
  BY <1>1, <1>2
<1>6. /\ Start(R, i) = Len(J[i - 1]) /\ Start(R, i) \in Nat
      /\ Start(R, i + 1) = Len(J[i]) /\ Start(R, i + 1) \in Nat
  BY <1>1, <1>3, <1>5, StartIs
<1>7. Joined(J[i], J[i - 1], Text(r), Bytes)
  BY <1>2, <1>3, <1>5, JoinLen
<1>8. At(t, Start(R, i), Text(r)) /\ Start(R, i + 1) <= Len(t)
  BY <1>2, <1>3, <1>4, <1>5, <1>6, JoinAt
<1>9. Start(R, i + 1) = Start(R, i) + Len(Text(r)) /\ Len(Text(r)) \in Nat
  BY <1>6, <1>7 DEF Joined
<1>10. PICK s, h, p, y, hl, fl, e : /\ s = Start(R, i) /\ h = r.lead /\ p = Preamble(r) /\ y = r.body
                                    /\ hl = HeadLine(r) /\ fl = FlattenSeq(FieldLines(r)) /\ e = r.eol
  OBVIOUS
<1>11. /\ h \in Seq(Bytes) /\ p \in Seq(Bytes) /\ y \in Seq(Bytes) /\ hl \in Seq(Bytes)
       /\ fl \in Seq(Bytes) /\ e \in Seq(Bytes) /\ s \in Nat
  <2>1. FieldLines(r) \in Seq(Seq(Bytes))
    BY <1>2, LinesOfRequest DEF FieldLines
  <2>2. fl \in Seq(Bytes)
    BY <1>10, <2>1, FlattenType
  <2> QED
    BY <1>2, <1>6, <1>10, <2>2, RequestFacts, LinesOfRequest
<1>12. Text(r) = (h \o p) \o y /\ p = (hl \o fl) \o e
  BY <1>10 DEF Text, Preamble, FieldLines
<1>13. PICK hp, hf : hp = h \o p /\ hf = hl \o fl
  OBVIOUS
<1>14. hp \in Seq(Bytes) /\ hf \in Seq(Bytes)
  BY <1>11, <1>13, ConcatProperties
<1>15. PICK lh, lp, ly, lhl, lfl, le : /\ lh = Len(h) /\ lp = Len(p) /\ ly = Len(y)
                                       /\ lhl = Len(hl) /\ lfl = Len(fl) /\ le = Len(e)
  OBVIOUS
<1>16. At(t, s, hp) /\ At(t, s + Len(hp), y) /\ ly \in Nat /\ Len(Text(r)) = Len(hp) + ly
  <2>1. At(t, s, hp \o y)
    BY <1>8, <1>10, <1>12, <1>13
  <2>2. OneAfter(t, s, hp, y)
    BY <1>4, <1>11, <1>14, <2>1, AtJoined
  <2>3. At(t, s, hp) /\ At(t, s + Len(hp), y) /\ ly \in Nat /\ Len(hp \o y) = Len(hp) + ly
    BY <1>15, <2>2 DEF OneAfter
  <2> QED
    BY <1>12, <1>13, <2>3
<1>17. At(t, s, h) /\ At(t, s + lh, p) /\ lh \in Nat /\ lp \in Nat /\ Len(hp) = lh + lp
  <2>1. OneAfter(t, s, h, p)
    BY <1>4, <1>11, <1>13, <1>16, AtJoined
  <2> QED
    BY <1>13, <1>15, <2>1 DEF OneAfter
<1>18. PICK u : u = s + lh
  OBVIOUS
<1>19. u \in Nat
  BY <1>11, <1>17, <1>18
<1>20. At(t, u, hf) /\ At(t, u + Len(hf), e) /\ le \in Nat /\ lp = Len(hf) + le
  <2>1. At(t, u, hf \o e)
    BY <1>12, <1>13, <1>17, <1>18
  <2>2. OneAfter(t, u, hf, e)
    BY <1>4, <1>11, <1>14, <1>19, <2>1, AtJoined
  <2>3. At(t, u, hf) /\ At(t, u + Len(hf), e) /\ le \in Nat /\ Len(hf \o e) = Len(hf) + le
    BY <1>15, <2>2 DEF OneAfter
  <2> QED
    BY <1>12, <1>13, <1>15, <2>3
<1>21. At(t, u, hl) /\ At(t, u + lhl, fl) /\ lhl \in Nat /\ lfl \in Nat /\ Len(hf) = lhl + lfl
  <2>1. OneAfter(t, u, hl, fl)
    BY <1>4, <1>11, <1>13, <1>19, <1>20, AtJoined
  <2> QED
    BY <1>13, <1>15, <2>1 DEF OneAfter
<1>22. lhl > 0 /\ le > 0
  <2>1. le = 1 \/ le = 2
    BY <1>2, <1>10, <1>15, EolIs
  <2>2. hl = HeadText \o e
    BY <1>10 DEF HeadLine, HeadText
  <2>3. PICK x : x = HeadText
    OBVIOUS
  <2>4. x \in Seq(Bytes) /\ Len(x) = 6 /\ hl = x \o e
    BY <2>2, <2>3, HeadTextIs
  <2>5. lhl = 6 + le
    <3>1. Len(x \o e) = Len(x) + Len(e)
      BY <1>11, <2>4, ConcatProperties
    <3> QED
      BY <1>15, <2>4, <3>1
  <2> QED
    BY <2>1, <2>5
<1>23. PICK z : z = Start(R, i + 1)
  OBVIOUS
<1>24. z \in Nat /\ z = s + ((lh + lp) + ly) /\ lp = (lhl + lfl) + le /\ Len(Text(r)) = (lh + lp) + ly
  BY <1>6, <1>9, <1>10, <1>16, <1>17, <1>20, <1>21, <1>23
<1>25. HeadAt(R, i) = u /\ FieldsAt(R, i) = u + lhl /\ BodyAt(R, i) = u + lp
  BY <1>1, <1>10, <1>15, <1>18 DEF HeadAt, FieldsAt, BodyAt
<1>26. Places(R, i)
  <2>1. /\ u + lhl \in Nat /\ u + lp \in Nat /\ u < u + lhl /\ u + lhl < u + lp
        /\ z = (u + lp) + ly /\ u = s + lh
    <3>1. /\ s \in Nat /\ lh \in Nat /\ lp \in Nat /\ ly \in Nat /\ lhl \in Nat /\ lfl \in Nat
          /\ le \in Nat /\ u = s + lh /\ lhl > 0 /\ le > 0 /\ z = s + ((lh + lp) + ly)
          /\ lp = (lhl + lfl) + le
      BY <1>11, <1>16, <1>17, <1>18, <1>20, <1>21, <1>22, <1>24
    <3>2. /\ u \in Nat /\ u + lhl \in Nat /\ u + lp \in Nat /\ u < u + lhl
      BY <3>1
    <3>3. u + lhl < u + lp
      BY <3>1
    <3>4. z = (u + lp) + ly
      BY <3>1
    <3> QED
      BY <3>1, <3>2, <3>3, <3>4
  <2> QED
    BY <1>1, <1>6, <1>10, <1>15, <1>16, <1>17, <1>19, <1>23, <1>24, <1>25, <2>1 DEF Places
<1>27. Placed(t, R, i)
  <2>1. s + Len(hp) = u + lp /\ u + Len(hf) = (u + lhl) + lfl /\ u + lp = ((u + lhl) + lfl) + le
    BY <1>11, <1>16, <1>17, <1>18, <1>19, <1>20, <1>21, <1>24
  <2>2. At(t, u + lp, y) /\ At(t, (u + lhl) + lfl, e)
    BY <1>16, <1>20, <2>1
  <2> QED
    BY <1>1, <1>8, <1>10, <1>15, <1>17, <1>21, <1>25, <2>1, <2>2 DEF Placed
<1> QED
  BY <1>1, <1>2, <1>26, <1>27

(***************************************************************************)
(* Lines in the buffer.                                                    *)
(***************************************************************************)
IsEol(e) ==
    /\ e \in Seq(Bytes) /\ (Len(e) = 1 \/ Len(e) = 2)
    /\ e[Len(e)] = "LF" /\ (Len(e) = 2 => e[1] = "CR")
NoBreak(w) == \A j \in 1 .. Len(w) : w[j] # "CR" /\ w[j] # "LF"

(* The line after byte p has the text w and ends with byte n. *)
LineIs(b, p, w, n) ==
    /\ LineAt(b, p).complete = TRUE /\ LineAt(b, p).from = p /\ LineAt(b, p).text = w
    /\ LineAt(b, p).eol = p + Len(w) + 1 /\ LineAt(b, p).next = n

LEMMA LineParts ==
    ASSUME NEW t \in Seq(Bytes), NEW p \in Nat, NEW w \in Seq(Bytes), NEW e, IsEol(e),
           NoBreak(w), At(t, p, w \o e)
    PROVE  /\ p + Len(w) + Len(e) <= Len(t)
           /\ \A j \in 1 .. Len(w) : t[p + j] = w[j]
           /\ t[p + Len(w) + Len(e)] = "LF"
           /\ Len(e) = 2 => t[p + Len(w) + 1] = "CR"
           /\ \A i \in p + 1 .. p + Len(w) + Len(e) - 1 : t[i] # "LF"
<1>1. PICK lw, le, lt : lw = Len(w) /\ le = Len(e) /\ lt = Len(t)
  OBVIOUS
<1>2. lw \in Nat /\ (le = 1 \/ le = 2) /\ lt \in Nat /\ e \in Seq(Bytes)
  BY <1>1, LenProperties DEF IsEol
<1>3. At(t, p, w) /\ At(t, p + lw, e)
  BY <1>1, <1>2, AtConcat
<1>4. \A j \in 1 .. lw : t[p + j] = w[j]
  BY <1>1, <1>3 DEF At
<1>5. (p + lw) + le <= lt /\ \A j \in 1 .. le : t[(p + lw) + j] = e[j]
  BY <1>1, <1>3 DEF At
<1>6. t[(p + lw) + le] = "LF"
  <2>1. le \in 1 .. le
    BY <1>2
  <2>2. e[le] = "LF"
    BY <1>1 DEF IsEol
  <2> QED
    BY <1>5, <2>1, <2>2
<1>7. le = 2 => t[(p + lw) + 1] = "CR"
  <2>1. ASSUME le = 2 PROVE t[(p + lw) + 1] = "CR"
    <3>1. 1 \in 1 .. le
      BY <2>1
    <3>2. e[1] = "CR"
      BY <1>1, <2>1 DEF IsEol
    <3> QED
      BY <1>5, <3>1, <3>2
  <2> QED
    BY <2>1
<1>8. ASSUME NEW i \in p + 1 .. ((p + lw) + le) - 1 PROVE t[i] # "LF"
  <2>1. CASE i <= p + lw
    <3>1. PICK j : j = i - p
      OBVIOUS
    <3>2. j \in 1 .. lw /\ p + j = i
      BY <1>2, <2>1, <3>1
    <3>3. w[j] # "LF"
      BY <1>1, <3>2 DEF NoBreak
    <3>4. t[p + j] = w[j]
      BY <1>4, <3>2
    <3> QED
      BY <3>2, <3>3, <3>4
  <2>2. CASE ~(i <= p + lw)
    <3>1. le = 2 /\ i = (p + lw) + 1
      BY <1>2, <2>2
    <3> QED
      BY <1>7, <3>1
  <2> QED
    BY <2>1, <2>2
<1> QED
  BY <1>1, <1>4, <1>5, <1>6, <1>7, <1>8

LEMMA LineRead ==
    ASSUME NEW b, IsBuffer(b), NEW p \in Nat, NEW w \in Seq(Bytes), NEW e, IsEol(e), NoBreak(w),
           At(b.bytes, p, w \o e)
    PROVE  LineIs(b, p, w, p + Len(w) + Len(e))
<1>1. PICK lw, le, t, lt : lw = Len(w) /\ le = Len(e) /\ t = b.bytes /\ lt = Len(t)
  OBVIOUS
<1>2. lw \in Nat /\ (le = 1 \/ le = 2) /\ lt \in Nat /\ t \in Seq(Bytes)
  BY <1>1, LenProperties, BufferFacts DEF IsEol
<1>3. /\ (p + lw) + le <= lt
      /\ \A j \in 1 .. lw : t[p + j] = w[j]
      /\ t[(p + lw) + le] = "LF"
      /\ le = 2 => t[(p + lw) + 1] = "CR"
      /\ \A i \in p + 1 .. ((p + lw) + le) - 1 : t[i] # "LF"
  <2>1. At(t, p, w \o e)
    BY <1>1
  <2>2. /\ p + Len(w) + Len(e) <= Len(t)
        /\ \A j \in 1 .. Len(w) : t[p + j] = w[j]
        /\ t[p + Len(w) + Len(e)] = "LF"
        /\ Len(e) = 2 => t[p + Len(w) + 1] = "CR"
        /\ \A i \in p + 1 .. p + Len(w) + Len(e) - 1 : t[i] # "LF"
    BY <1>2, <2>1, LineParts
  <2> QED
    BY <1>1, <2>2
<1>4. PICK n : n = (p + lw) + le
  OBVIOUS
<1>5. n \in p + 1 .. lt /\ n \in Nat
  BY <1>2, <1>3, <1>4
<1>6. LineEnd(b, p, n)
  BY <1>1, <1>3, <1>4, <1>5 DEF LineEnd
<1>7. Eol(b, p, n) = (p + lw) + 1
  <2>1. CASE le = 2
    <3>1. n > p + 1 /\ n - 1 = (p + lw) + 1
      BY <1>2, <1>4, <2>1
    <3>2. b.bytes[n - 1] = "CR"
      BY <1>1, <1>3, <2>1, <3>1
    <3> QED
      BY <3>1, <3>2 DEF Eol
  <2>2. CASE le = 1
    <3>1. n = (p + lw) + 1
      BY <1>4, <2>2
    <3>2. ASSUME n > p + 1 PROVE b.bytes[n - 1] # "CR"
      <4>1. lw \in 1 .. lw /\ p + lw = n - 1
        BY <1>2, <3>1, <3>2
      <4>2. t[p + lw] = w[lw]
        BY <1>3, <4>1
      <4>3. w[lw] # "CR"
        BY <1>1, <4>1 DEF NoBreak
      <4> QED
        BY <1>1, <4>1, <4>2, <4>3
    <3>3. ~(n > p + 1 /\ b.bytes[n - 1] = "CR")
      BY <3>2
    <3> QED
      BY <3>1, <3>3 DEF Eol
  <2> QED
    BY <1>2, <2>1, <2>2
<1>8. /\ LineAt(b, p).complete = TRUE /\ LineAt(b, p).from = p /\ LineAt(b, p).next = n
      /\ LineAt(b, p).eol = Eol(b, p, n)
      /\ LineAt(b, p).text = SubSeq(b.bytes, p + 1, Eol(b, p, n) - 1)
  BY <1>6, LineComplete
<1>9. ((p + lw) + 1) - 1 = p + lw /\ p + lw <= lt
  BY <1>2, <1>3
<1>10. PICK s : s = SubSeq(t, p + 1, p + lw)
  OBVIOUS
<1>11. s \in Seq(Bytes) /\ Len(s) = lw /\ \A i \in 1 .. lw : s[i] = t[p + i]
  BY <1>1, <1>2, <1>9, <1>10, PartOf
<1>12. s = w
  <2>1. \A i \in 1 .. lw : s[i] = w[i]
    BY <1>3, <1>11
  <2> QED
    BY <1>1, <1>11, <2>1, SeqEqual
<1>13. LineAt(b, p).text = w
  BY <1>1, <1>7, <1>8, <1>9, <1>10, <1>12
<1> QED
  BY <1>1, <1>4, <1>7, <1>8, <1>13 DEF LineIs

(* A line whose end has not arrived. *)
Same(b, t, p) == \A j \in p + 1 .. Len(b.bytes) : b.bytes[j] = t[j]
Unread(b, t) == Same(b, t, b.reader)

LEMMA LineMissing ==
    ASSUME NEW b, IsBuffer(b), NEW t \in Seq(Bytes), NEW p \in Nat, NEW w \in Seq(Bytes),
           NEW e, IsEol(e), NoBreak(w), At(t, p, w \o e), Same(b, t, p),
           Len(b.bytes) < p + Len(w) + Len(e)
    PROVE  LineAt(b, p).complete = FALSE
<1>1. PICK n, m : n = p + Len(w) + Len(e) /\ m = Len(b.bytes)
  OBVIOUS
<1>2. \A i \in p + 1 .. n - 1 : t[i] # "LF"
  BY <1>1, LineParts
<1>3. n \in Nat /\ m \in Nat /\ m < n
  BY <1>1, LenProperties, BufferFacts DEF IsEol
<1>4. \A i \in p + 1 .. m : i \in p + 1 .. n - 1
  BY <1>3
<1>5. \A i \in p + 1 .. m : b.bytes[i] = t[i]
  BY <1>1 DEF Same
<1>6. EndsOf(b, p) = {}
  BY <1>1, <1>2, <1>4, <1>5 DEF EndsOf
<1> QED
  BY <1>6, LineIncomplete

LEMMA AtSame ==
    ASSUME NEW b, IsBuffer(b), NEW t, NEW q \in Nat, NEW p \in Nat, q <= p, Same(b, t, q),
           NEW w \in Seq(Bytes), At(t, p, w), p + Len(w) <= Len(b.bytes)
    PROVE  At(b.bytes, p, w)
<1>1. PICK lw, m : lw = Len(w) /\ m = Len(b.bytes)
  OBVIOUS
<1>2. lw \in Nat /\ m \in Nat /\ p + lw <= m
  BY <1>1, LenProperties, BufferFacts
<1>3. ASSUME NEW j \in 1 .. lw PROVE b.bytes[p + j] = w[j]
  <2>1. p + j \in q + 1 .. m
    BY <1>2
  <2>2. b.bytes[p + j] = t[p + j]
    BY <1>1, <2>1 DEF Same
  <2>3. t[p + j] = w[j]
    BY <1>1 DEF At
  <2> QED
    BY <2>2, <2>3
<1> QED
  BY <1>1, <1>2, <1>3 DEF At

LEMMA SameLater ==
    ASSUME NEW b, IsBuffer(b), NEW t, NEW q \in Nat, NEW p \in Nat, q <= p, Same(b, t, q)
    PROVE  Same(b, t, p)
<1>1. PICK m : m = Len(b.bytes)
  OBVIOUS
<1>2. m \in Nat
  BY <1>1, BufferFacts
<1>3. \A j \in p + 1 .. m : j \in q + 1 .. m
  BY <1>2
<1> QED
  BY <1>1, <1>3 DEF Same

(***************************************************************************)
(* The buffer b holds the first a bytes of the requests, those before its  *)
(* reader index perhaps changed; no read has ended where it does harm.     *)
(***************************************************************************)
Context(b, t, R, a) ==
    /\ IsBuffer(b) /\ R \in Seq(Requests) /\ t = FlattenSeq(Texts(R))
    /\ Len(b.bytes) = a /\ a <= Len(t) /\ Unread(b, t) /\ ~InHead(R, a)
    /\ \A i \in 1 .. Len(R) : WellFormed(R[i])

LEMMA ContextFacts ==
    ASSUME NEW b, NEW t, NEW R, NEW a, Context(b, t, R, a)
    PROVE  /\ IsBuffer(b) /\ t \in Seq(Bytes) /\ R \in Seq(Requests) /\ Len(R) \in Nat
           /\ a \in Nat /\ b.reader \in Nat /\ b.reader <= a /\ Len(b.bytes) = a
           /\ Len(t) \in Nat /\ a <= Len(t)
           /\ Start(R, 1) = 0 /\ Start(R, Len(R) + 1) = Len(t)
           /\ \A i \in 1 .. Len(R) + 1 : Start(R, i) \in Nat
           /\ \A i \in 1 .. Len(R) : R[i] \in Requests /\ WellFormed(R[i])
           /\ \A i \in 1 .. Len(R) : Places(R, i)
           /\ \A i \in 1 .. Len(R) : Placed(t, R, i)
<1>1. IsBuffer(b) /\ R \in Seq(Requests) /\ t = FlattenSeq(Texts(R)) /\ Len(b.bytes) = a /\ a <= Len(t)
      /\ \A i \in 1 .. Len(R) : WellFormed(R[i])
  BY DEF Context
<1>2. a \in Nat /\ b.reader \in Nat /\ b.reader <= a
  BY <1>1, BufferFacts
<1>3. /\ t \in Seq(Bytes) /\ Start(R, 1) = 0 /\ Start(R, Len(R) + 1) = Len(t)
      /\ \A i \in 1 .. Len(R) + 1 : Start(R, i) \in Nat
  BY <1>1, StreamEnds
<1>4. Len(R) \in Nat /\ Len(t) \in Nat
  BY <1>1, <1>3, LenProperties
<1>5. \A i \in 1 .. Len(R) : R[i] \in Requests /\ Places(R, i) /\ Placed(t, R, i)
  BY <1>1, RequestPlaces
<1> QED
  BY <1>1, <1>2, <1>3, <1>4, <1>5

LEMMA NoCut ==
    ASSUME NEW b, NEW t, NEW R, NEW a, Context(b, t, R, a), NEW i \in 1 .. Len(R)
    PROVE  /\ ~(a \in HeadAt(R, i) + 1 .. FieldsAt(R, i) - 1)
           /\ R[i].fields # <<>> =>
                 ~(a \in FieldsAt(R, i) + Len(FieldLine(R[i], R[i].fields[1])) .. BodyAt(R, i) - 1)
<1>1. DOMAIN R = 1 .. Len(R)
  BY ContextFacts, LenProperties
<1>2. a \notin HarmfulCuts(R, i)
  BY <1>1 DEF Context, InHead
<1> QED
  BY <1>2 DEF HarmfulCuts, HeadAt, FieldsAt, BodyAt

(* The call of decode waits for more bytes; the buffer is b2 afterwards.   *)
Halts(o, b2, d, p) ==
    /\ o.ends = "returns" /\ o.more /\ o.msgs = <<>> /\ o.dec = d
    /\ (IF o.checked THEN o.buf ELSE MoveTo(o.buf, p)) = b2

LeadEnd(R, i) == IF i <= Len(R) THEN HeadAt(R, i) ELSE Start(R, i)

LEMMA SkipHalts ==
    ASSUME NEW b, IsBuffer(b), dec \in Decoders, StartsOf(b) = {}, NEW o, o = skipControlCharacters(b),
           NEW p
    PROVE  Halts(o, MoveTo(b, Len(b.bytes)), dec, p)
<1>1. PICK n, s, c, f, d, e, z : /\ n = MoveTo(b, Len(b.bytes)) /\ s = dec.state /\ c = dec.chunkSize
                              /\ f = dec.fields /\ d = dec /\ e = <<>> /\ z = DecOf(s, c, f)
  OBVIOUS
<1>2. PICK k : k = checkpoint(n, s)
  OBVIOUS
<1>3. o = [k EXCEPT !.more = TRUE]
  BY <1>1, <1>2 DEF skipControlCharacters, StartsOf, ToEnd
<1>4. z = d
  BY <1>1, DecFacts
<1>5. k = Checked(n, z, e)
  BY <1>1, <1>2, CheckpointIs
<1>6. o.buf = n /\ o.dec = z /\ o.msgs = e /\ o.ends = "returns" /\ o.more /\ o.checked
  <2>1. PICK no, yes, r : no = FALSE /\ yes = TRUE /\ r = "returns"
    OBVIOUS
  <2>2. k = Outcome(n, z, no, e, yes, r)
    BY <1>5, <2>1 DEF Checked
  <2>3. o = [k EXCEPT !.more = yes]
    BY <1>3, <2>1
  <2>4. o = Outcome(n, z, yes, e, yes, r)
    BY <2>2, <2>3 DEF Outcome
  <2>5. o.buf = n /\ o.dec = z /\ o.more = yes /\ o.msgs = e /\ o.checked = yes /\ o.ends = r
    BY <2>4, OutcomeParts
  <2> QED
    BY <2>1, <2>5
<1> QED
  BY <1>1, <1>4, <1>6 DEF Halts

LEMMA SkipStep ==
    ASSUME NEW b, NEW t, NEW R, NEW a, Context(b, t, R, a), dec \in Decoders,
           NEW i \in 1 .. Len(R) + 1, b.reader \in Start(R, i) .. LeadEnd(R, i),
           NEW o, o = skipControlCharacters(b)
    PROVE  \/ a <= LeadEnd(R, i) /\ Halts(o, MoveTo(b, a), dec, b.reader)
           \/ /\ i <= Len(R) /\ HeadAt(R, i) < a
              /\ o = Checked(MoveTo(b, HeadAt(R, i)),
                             DecOf("READ_INITIAL", dec.chunkSize, dec.fields), <<>>)
<1>0. /\ IsBuffer(b) /\ t \in Seq(Bytes) /\ R \in Seq(Requests) /\ Len(R) \in Nat
      /\ a \in Nat /\ b.reader \in Nat /\ b.reader <= a /\ Len(b.bytes) = a
      /\ Len(t) \in Nat /\ a <= Len(t) /\ Start(R, Len(R) + 1) = Len(t)
  BY ContextFacts
<1>1. \A j \in b.reader + 1 .. a : b.bytes[j] = t[j]
  BY <1>0 DEF Context, Unread, Same
<1>2. ASSUME StartsOf(b) = {} PROVE Halts(o, MoveTo(b, a), dec, b.reader)
  BY <1>0, <1>2, SkipHalts
<1>3. CASE i = Len(R) + 1
  <2>1. LeadEnd(R, i) = Len(t) /\ Start(R, i) = Len(t)
    BY <1>0, <1>3 DEF LeadEnd
  <2>2. b.reader = a /\ a <= LeadEnd(R, i)
    BY <1>0, <2>1
  <2>3. StartsOf(b) = {}
    BY <1>0, <2>2 DEF StartsOf
  <2> QED
    BY <1>2, <2>2, <2>3
<1>4. CASE i # Len(R) + 1
  <2>0. i \in 1 .. Len(R) /\ i <= Len(R)
    BY <1>0, <1>4
  <2>1. PICK s, h, l, p, n : s = Start(R, i) /\ h = HeadAt(R, i) /\ l = R[i].lead /\ p = b.reader /\ n = Len(l)
    OBVIOUS
  <2>2. Places(R, i) /\ Placed(t, R, i) /\ R[i] \in Requests
    BY <2>0, ContextFacts
  <2>3. s \in Nat /\ h \in Nat /\ n \in Nat /\ h = s + n /\ h < FieldsAt(R, i)
    BY <2>1, <2>2 DEF Places
  <2>4. At(t, s, l) /\ At(t, h, HeadLine(R[i]))
    BY <2>1, <2>2 DEF Placed
  <2>5. LeadEnd(R, i) = h /\ p \in s .. h
    BY <2>0, <2>1 DEF LeadEnd
  <2>6. ASSUME NEW j \in p + 1 .. h PROVE t[j] \in Control
    <3>1. PICK k : k = j - s
      OBVIOUS
    <3>2. k \in 1 .. n /\ s + k = j
      BY <2>3, <2>5, <3>1
    <3>3. t[j] = l[k]
      BY <2>1, <2>4, <3>2 DEF At
    <3>4. l[k] \in Whitespace
      <4>1. l \in Seq(Whitespace)
        BY <2>1, <2>2, RequestFacts
      <4> QED
        BY <2>1, <3>2, <4>1, LenProperties
    <3> QED
      BY <3>3, <3>4 DEF Control
  <2>7. CASE a <= h
    <3>1. \A j \in p + 1 .. a : b.bytes[j] \in Control
      <4>1. \A j \in p + 1 .. a : j \in p + 1 .. h
        BY <1>0, <2>1, <2>3, <2>7
      <4> QED
        BY <1>1, <2>1, <2>6, <4>1
    <3>2. StartsOf(b) = {}
      BY <1>0, <2>1, <3>1 DEF StartsOf
    <3> QED
      BY <1>2, <2>5, <2>7, <3>2
  <2>8. CASE ~(a <= h)
    <3>1. t[h + 1] = "w"
      <4>1. PICK w, x, e : w = HeadLine(R[i]) /\ x = HeadText /\ e = R[i].eol
        OBVIOUS
      <4>2. w = x \o e /\ x \in Seq(Bytes) /\ e \in Seq(Bytes) /\ Len(x) = 6 /\ x[1] = "w"
        BY <2>2, <4>1, HeadTextIs, RequestFacts DEF HeadLine, HeadText
      <4>3. At(t, h, x)
        <5>1. At(t, h, x \o e)
          BY <2>4, <4>1, <4>2
        <5> QED
          BY <1>0, <2>3, <4>2, <5>1, AtConcat
      <4>4. 1 \in 1 .. Len(x)
        BY <4>2
      <4> QED
        BY <4>2, <4>3, <4>4 DEF At
    <3>2. h + 1 \in p + 1 .. a
      <4>1. p \in Nat /\ h \in Nat /\ a \in Nat /\ p <= h /\ ~(a <= h)
        BY <1>0, <2>1, <2>3, <2>5, <2>8
      <4> QED
        BY <4>1
    <3>3. h + 1 \in StartsOf(b)
      <4>1. b.bytes[h + 1] = "w"
        BY <1>1, <2>1, <3>1, <3>2
      <4>2. "w" \notin Control
        BY DEF Control, Whitespace
      <4> QED
        BY <1>0, <2>1, <3>2, <4>1, <4>2 DEF StartsOf
    <3>4. PICK T, m : T = StartsOf(b) /\ m = Min(T)
      OBVIOUS
    <3>5. T \subseteq Nat /\ T # {} /\ T \subseteq p + 1 .. a
      BY <1>0, <2>1, <3>3, <3>4 DEF StartsOf
    <3>6. m \in T /\ m <= h + 1
      BY <3>3, <3>4, <3>5, MinIs
    <3>7. m = h + 1
      <4>1. SUFFICES ASSUME m # h + 1 PROVE FALSE
        OBVIOUS
      <4>2. m \in p + 1 .. h /\ m \in p + 1 .. a
        BY <2>3, <3>5, <3>6, <4>1
      <4>3. b.bytes[m] \in Control
        BY <1>1, <2>1, <2>6, <4>2
      <4> QED
        BY <3>4, <3>6, <4>3 DEF StartsOf
    <3>8. PICK d, s2 : d = dec /\ s2 = "READ_INITIAL"
      OBVIOUS
    <3>9. o = checkpoint(MoveTo(b, m - 1), s2)
      BY <3>4, <3>5, <3>8 DEF skipControlCharacters, StartsOf
    <3>10. m - 1 = h
      BY <2>3, <3>7
    <3>11. checkpoint(MoveTo(b, h), s2) = Checked(MoveTo(b, h), DecOf(s2, dec.chunkSize, dec.fields), <<>>)
      BY CheckpointIs
    <3> QED
      BY <1>0, <2>0, <2>1, <2>3, <2>8, <3>8, <3>9, <3>10, <3>11
  <2> QED
    BY <2>7, <2>8
<1> QED
  BY <1>3, <1>4

LEMMA ThreeWords == Words(SubSeq(HeadText, 1, 5)) = 3
<1>1. PICK h, s : h = HeadText /\ s = SubSeq(h, 1, 5)
  OBVIOUS
<1>2. /\ h \in Seq(Bytes) /\ Len(h) = 6
      /\ h[1] = "w" /\ h[2] = " " /\ h[3] = "w" /\ h[4] = " " /\ h[5] = "HTTP/"
  BY <1>1, HeadTextIs
<1>3. 5 \in 0 .. Len(h)
  <2>1. Len(h) = 6
    BY <1>2
  <2> QED
    BY <2>1
<1>4. s \in Seq(Bytes) /\ Len(s) = 5 /\ \A j \in 1 .. 5 : s[j] = h[j]
  BY <1>1, <1>2, <1>3, HeadType
<1>5. DOMAIN s = 1 .. 5
  BY <1>4, LenProperties
<1>6. s[1] = "w" /\ s[2] = " " /\ s[3] = "w" /\ s[4] = " " /\ s[5] = "HTTP/"
  <2>1. 1 \in 1 .. 5 /\ 2 \in 1 .. 5 /\ 3 \in 1 .. 5 /\ 4 \in 1 .. 5 /\ 5 \in 1 .. 5
    OBVIOUS
  <2>2. s[1] = h[1] /\ s[2] = h[2] /\ s[3] = h[3] /\ s[4] = h[4] /\ s[5] = h[5]
    BY <1>4, <2>1, Zenon
  <2> QED
    BY <1>2, <2>2, Zenon
<1>7. {i \in DOMAIN s : s[i] # " " /\ (i = 1 \/ s[i - 1] = " ")} = {1, 3, 5}
  <2>1. ASSUME NEW i \in 1 .. 5
        PROVE  (s[i] # " " /\ (i = 1 \/ s[i - 1] = " ")) <=> i \in {1, 3, 5}
    <3>1. i = 1 \/ i = 2 \/ i = 3 \/ i = 4 \/ i = 5
      OBVIOUS
    <3>2. 3 - 1 = 2 /\ 5 - 1 = 4
      OBVIOUS
    <3>3. CASE i = 1
      BY <1>6, <3>3
    <3>4. CASE i = 2
      BY <1>6, <3>4
    <3>5. CASE i = 3
      BY <1>6, <3>2, <3>5
    <3>6. CASE i = 4
      BY <1>6, <3>6
    <3>7. CASE i = 5
      BY <1>6, <3>2, <3>7
    <3> QED
      BY <3>1, <3>3, <3>4, <3>5, <3>6, <3>7
  <2>2. \A i \in {1, 3, 5} : i \in 1 .. 5
    OBVIOUS
  <2> QED
    BY <1>5, <2>1, <2>2
<1>8. Cardinality({1, 3, 5}) = 3
  <2>1. IsFiniteSet({}) /\ Cardinality({}) = 0
    BY FS_EmptySet
  <2>2. IsFiniteSet({1}) /\ Cardinality({1}) = 1
    BY FS_Singleton
  <2>3. IsFiniteSet({1} \cup {3}) /\ Cardinality({1} \cup {3}) = 2
    <3>1. 3 \notin {1}
      OBVIOUS
    <3>2. PICK S : S = {1}
      OBVIOUS
    <3>3. IsFiniteSet(S \cup {3}) /\ Cardinality(S \cup {3}) = Cardinality(S) + 1
      BY <2>2, <3>1, <3>2, FS_AddElement
    <3> QED
      BY <2>2, <3>2, <3>3
  <2>4. PICK S : S = {1} \cup {3}
    OBVIOUS
  <2>5. 5 \notin S
    BY <2>4
  <2>6. Cardinality(S \cup {5}) = Cardinality(S) + 1
    BY <2>3, <2>4, <2>5, FS_AddElement
  <2>7. S \cup {5} = {1, 3, 5}
    BY <2>4
  <2> QED
    BY <2>3, <2>4, <2>6, <2>7
<1> QED
  BY <1>1, <1>7, <1>8 DEF Words

LEMMA VersionIsSuffix == IsSuffix(Version, HeadText)
<1>1. PICK h, v : h = HeadText /\ v = Version
  OBVIOUS
<1>2. h \in Seq(Bytes) /\ Len(h) = 6 /\ h[5] = "HTTP/" /\ h[6] = "1.1"
  BY <1>1, HeadTextIs
<1>3. v \in Seq(Bytes) /\ Len(v) = 2 /\ v[1] = "HTTP/" /\ v[2] = "1.1"
  <2>1. PICK x, z : x = "HTTP/" /\ z = "1.1"
    OBVIOUS
  <2>2. x \in Bytes /\ z \in Bytes
    BY <2>1 DEF Bytes
  <2>3. v = <<x, z>>
    BY <1>1, <2>1 DEF Version
  <2>4. v \in Seq(Bytes) /\ Len(v) = 2 /\ v[1] = x /\ v[2] = z
    BY <2>2, <2>3
  <2> QED
    BY <2>1, <2>4
<1>4. PICK rh, rv : rh = Reverse(h) /\ rv = Reverse(v)
  OBVIOUS
<1>5. rh = [i \in 1 .. 6 |-> h[(6 - i) + 1]] /\ rv = [i \in 1 .. 2 |-> v[(2 - i) + 1]]
  BY <1>2, <1>3, <1>4 DEF Reverse
<1>6. rh[1] = "1.1" /\ rh[2] = "HTTP/" /\ rv[1] = "1.1" /\ rv[2] = "HTTP/"
  <2>1. (6 - 1) + 1 = 6 /\ (6 - 2) + 1 = 5 /\ (2 - 1) + 1 = 2 /\ (2 - 2) + 1 = 1
    OBVIOUS
  <2>2. 1 \in 1 .. 6 /\ 2 \in 1 .. 6 /\ 1 \in 1 .. 2 /\ 2 \in 1 .. 2
    OBVIOUS
  <2>3. rh[1] = h[6] /\ rh[2] = h[5] /\ rv[1] = v[2] /\ rv[2] = v[1]
    BY <1>5, <2>1, <2>2
  <2> QED
    BY <1>2, <1>3, <2>3
<1>7. rh \in Seq(Bytes) /\ Len(rh) = 6
  <2>1. \A i \in 1 .. 6 : (6 - i) + 1 \in 1 .. 6
    OBVIOUS
  <2>2. \A i \in 1 .. 6 : h[i] \in Bytes
    BY <1>2, LenProperties
  <2>3. rh \in [1 .. 6 -> Bytes]
    BY <1>5, <2>1, <2>2
  <2>4. rh \in Seq(Bytes)
    BY <2>3, SeqDef
  <2> QED
    BY <2>3, <2>4, LenProperties
<1>8. rv \in Seq(Bytes) /\ Len(rv) = 2
  <2>1. \A i \in 1 .. 2 : (2 - i) + 1 \in 1 .. 2
    OBVIOUS
  <2>2. \A i \in 1 .. 2 : v[i] \in Bytes
    BY <1>3, LenProperties
  <2>3. rv \in [1 .. 2 -> Bytes]
    BY <1>5, <2>1, <2>2
  <2>4. rv \in Seq(Bytes)
    BY <2>3, SeqDef
  <2> QED
    BY <2>3, <2>4, LenProperties
<1>9. 2 \in 0 .. Len(rh) /\ 2 \in 0 .. Len(rv)
  BY <1>7, <1>8
<1>10. PICK x, y : x = SubSeq(rv, 1, 2) /\ y = SubSeq(rh, 1, 2)
  OBVIOUS
<1>11. /\ x \in Seq(Bytes) /\ Len(x) = 2 /\ \A j \in 1 .. 2 : x[j] = rv[j]
       /\ y \in Seq(Bytes) /\ Len(y) = 2 /\ \A j \in 1 .. 2 : y[j] = rh[j]
  BY <1>7, <1>8, <1>9, <1>10, HeadType
<1>12. \A j \in 1 .. 2 : x[j] = y[j]
  <2>1. \A j \in 1 .. 2 : j = 1 \/ j = 2
    OBVIOUS
  <2> QED
    BY <1>6, <1>11, <2>1
<1>13. x = y
  BY <1>11, <1>12, SeqEqual
<1>14. IsPrefix(rv, rh)
  BY <1>7, <1>8, <1>10, <1>13 DEF IsPrefix
<1> QED
  BY <1>1, <1>4, <1>14 DEF IsSuffix

LEMMA InitialStep ==
    ASSUME NEW b, NEW t, NEW R, NEW a, Context(b, t, R, a), dec \in Decoders,
           NEW i \in 1 .. Len(R), b.reader = HeadAt(R, i), HeadAt(R, i) < a,
           NEW o, o = ReadInitial(b)
    PROVE  /\ FieldsAt(R, i) <= a
           /\ o = Checked(MoveTo(b, FieldsAt(R, i)), DecOf("READ_HEADER", dec.chunkSize, <<>>), <<>>)
<1>0. /\ IsBuffer(b) /\ t \in Seq(Bytes) /\ a \in Nat /\ Len(b.bytes) = a
      /\ R[i] \in Requests /\ Places(R, i) /\ Placed(t, R, i)
  BY ContextFacts
<1>1. PICK p, n, w, e : p = HeadAt(R, i) /\ n = FieldsAt(R, i) /\ w = HeadText /\ e = R[i].eol
  OBVIOUS
<1>2. p \in Nat /\ n \in Nat /\ b.reader = p /\ p < a
  BY <1>0, <1>1 DEF Places
<1>3. n <= a
  <2>1. ~(a \in p + 1 .. n - 1)
    BY <1>1, NoCut
  <2> QED
    BY <1>0, <1>2, <2>1
<1>4. w \in Seq(Bytes) /\ Len(w) = 6 /\ IsEol(e) /\ NoBreak(w)
  <2>1. IsEol(e)
    BY <1>0, <1>1, EolIs DEF IsEol
  <2>2. /\ w \in Seq(Bytes) /\ Len(w) = 6
        /\ w[1] = "w" /\ w[2] = " " /\ w[3] = "w" /\ w[4] = " " /\ w[5] = "HTTP/" /\ w[6] = "1.1"
    BY <1>1, HeadTextIs
  <2>3. \A j \in 1 .. 6 : j = 1 \/ j = 2 \/ j = 3 \/ j = 4 \/ j = 5 \/ j = 6
    OBVIOUS
  <2>4. \A j \in 1 .. 6 : w[j] # "CR" /\ w[j] # "LF"
    BY <2>2, <2>3
  <2> QED
    BY <2>1, <2>2, <2>4 DEF NoBreak
<1>5. HeadLine(R[i]) = w \o e
  BY <1>1 DEF HeadLine, HeadText
<1>6. n = p + Len(w) + Len(e) /\ Len(w \o e) = Len(w) + Len(e) /\ Len(e) \in Nat
  <2>1. n = p + Len(w \o e)
    BY <1>1, <1>5 DEF FieldsAt
  <2>2. e \in Seq(Bytes)
    BY <1>4 DEF IsEol
  <2>3. Len(w \o e) = Len(w) + Len(e) /\ Len(e) \in Nat
    BY <1>4, <2>2, ConcatProperties, LenProperties
  <2> QED
    BY <1>2, <1>4, <2>1, <2>3
<1>7. At(b.bytes, p, w \o e)
  <2>1. At(t, p, w \o e)
    BY <1>0, <1>1, <1>5 DEF Placed
  <2>2. Same(b, t, p)
    BY <1>2 DEF Context, Unread
  <2>3. p + Len(w \o e) <= Len(b.bytes)
    BY <1>0, <1>2, <1>3, <1>4, <1>6
  <2>4. w \o e \in Seq(Bytes)
    BY <1>4, ConcatProperties DEF IsEol
  <2>5. PICK x : x = w \o e
    OBVIOUS
  <2>6. p <= p
    BY <1>2
  <2>7. At(b.bytes, p, x)
    BY <1>0, <1>2, <2>1, <2>2, <2>3, <2>4, <2>5, <2>6, AtSame
  <2> QED
    BY <2>5, <2>7
<1>8. LineIs(b, p, w, n)
  BY <1>0, <1>2, <1>4, <1>6, <1>7, LineRead
<1>9. PICK l : l = LineAt(b, b.reader)
  OBVIOUS
<1>10. l.complete = TRUE /\ l.text = w /\ l.next = n
  BY <1>2, <1>8, <1>9 DEF LineIs
<1>11. LineLength(l) = 5
  BY <1>4, <1>10 DEF LineLength
<1>12. Words(SubSeq(l.text, 1, LineLength(l))) = 3 /\ IsSuffix(Version, l.text)
  BY <1>1, <1>10, <1>11, ThreeWords, VersionIsSuffix
<1>13. PICK after, k : after = MoveTo(b, n) /\ k = checkpoint(after, "READ_HEADER")
  OBVIOUS
<1>14. PICK q : q = [k EXCEPT !.more = ~l.complete, !.dec.fields = <<>>]
  OBVIOUS
<1>15. o = q
  <2>1. ~(LineLength(l) = 0) /\ ~(Words(SubSeq(l.text, 1, LineLength(l))) < 3)
    BY <1>11, <1>12
  <2>2. MoveTo(b, IF l.complete THEN l.next ELSE Len(b.bytes)) = after
    BY <1>10, <1>13
  <2> QED
    BY <1>9, <1>12, <1>13, <1>14, <2>1, <2>2 DEF ReadInitial
<1>16. PICK c, f, s, v : c = dec.chunkSize /\ f = dec.fields /\ s = "READ_HEADER" /\ v = <<>>
  OBVIOUS
<1>17. k = Checked(after, DecOf(s, c, f), v)
  BY <1>13, <1>16, CheckpointIs
<1>18. q = Checked(after, DecOf(s, c, v), v)
  <2>1. PICK no, yes, r : no = FALSE /\ yes = TRUE /\ r = "returns"
    OBVIOUS
  <2>2. k = Outcome(after, DecOf(s, c, f), no, v, yes, r)
    BY <1>17, <2>1 DEF Checked
  <2>3. q = [k EXCEPT !.more = no, !.dec.fields = v]
    BY <1>10, <1>14, <1>16, <2>1
  <2>4. q = Outcome(after, DecOf(s, c, v), no, v, yes, r)
    BY <2>2, <2>3 DEF Outcome, DecOf
  <2> QED
    BY <2>1, <2>4 DEF Checked
<1> QED
  BY <1>1, <1>3, <1>13, <1>15, <1>16, <1>18

(***************************************************************************)
(* Header lines.                                                           *)
(***************************************************************************)
HeaderText(f) == <<f.name, ":", " ">> \o f.value
GoodField(f) ==
    /\ f \in Fields /\ f.name \in Names /\ f.value # <<>> /\ f.value[1] # " "
    /\ Range(f.value) \cap {"CR", "LF", "NUL"} = {}

LEMMA HeaderParts ==
    ASSUME NEW f, GoodField(f), NEW t, t = HeaderText(f)
    PROVE  /\ t \in Seq(Bytes) /\ Len(t) \in Nat /\ Len(t) = 3 + Len(f.value) /\ Len(t) > 3
           /\ t[1] = f.name /\ t[2] = ":" /\ t[3] = " " /\ t[4] = f.value[1]
           /\ \A j \in 1 .. Len(f.value) : t[3 + j] = f.value[j]
           /\ \A j \in 1 .. Len(f.value) : f.value[j] # "CR" /\ f.value[j] # "LF" /\ f.value[j] # "NUL"
           /\ f.value \in Seq(Bytes) /\ Len(f.value) \in Nat
<1>1. PICK n, v, c, s : n = f.name /\ v = f.value /\ c = ":" /\ s = " "
  OBVIOUS
<1>2. n \in Bytes /\ v \in Seq(Bytes) /\ c \in Bytes /\ s \in Bytes /\ v # <<>>
  BY <1>1 DEF GoodField, Fields, Bytes, Control, Whitespace
<1>3. PICK a : a = <<n, c, s>>
  OBVIOUS
<1>4. a \in Seq(Bytes) /\ Len(a) = 3 /\ a[1] = n /\ a[2] = c /\ a[3] = s
  BY <1>2, <1>3
<1>5. t = a \o v
  BY <1>1, <1>3 DEF HeaderText
<1>6. PICK lv : lv = Len(v)
  OBVIOUS
<1>7. lv \in Nat /\ lv > 0
  <2>1. Len(v) \in Nat \ {0}
    BY <1>2, EmptySeq
  <2> QED
    BY <1>6, <2>1
<1>8. t \in Seq(Bytes) /\ Len(t) = 3 + lv
      /\ \A i \in 1 .. 3 + lv : t[i] = IF i <= 3 THEN a[i] ELSE v[i - 3]
  <2>1. /\ t \in Seq(Bytes) /\ Len(t) = Len(a) + Len(v)
        /\ \A i \in 1 .. Len(a) + Len(v) : t[i] = IF i <= Len(a) THEN a[i] ELSE v[i - Len(a)]
    <3>1. a \in Seq(Bytes) /\ v \in Seq(Bytes)
      BY <1>2, <1>4
    <3>2. /\ a \o v \in Seq(Bytes) /\ Len(a \o v) = Len(a) + Len(v)
          /\ \A i \in 1 .. Len(a) + Len(v) : (a \o v)[i] = IF i <= Len(a) THEN a[i] ELSE v[i - Len(a)]
      BY <3>1, ConcatProperties
    <3> QED
      BY <1>5, <3>2
  <2>2. Len(a) = 3 /\ Len(v) = lv
    BY <1>4, <1>6
  <2> QED
    BY <2>1, <2>2
<1>9. t[1] = a[1] /\ t[2] = a[2] /\ t[3] = a[3]
  <2>1. 1 \in 1 .. 3 + lv /\ 2 \in 1 .. 3 + lv /\ 3 \in 1 .. 3 + lv
    BY <1>7
  <2>2. 1 <= 3 /\ 2 <= 3 /\ 3 <= 3
    OBVIOUS
  <2> QED
    BY <1>8, <2>1, <2>2
<1>10. ASSUME NEW j \in 1 .. lv PROVE t[3 + j] = v[j]
  <2>1. 3 + j \in 1 .. 3 + lv /\ ~(3 + j <= 3) /\ (3 + j) - 3 = j
    BY <1>7
  <2> QED
    BY <1>8, <2>1
<1>11. t[4] = v[1]
  <2>1. 1 \in 1 .. lv /\ 3 + 1 = 4
    BY <1>7
  <2> QED
    BY <1>10, <2>1
<1>12. ASSUME NEW j \in 1 .. lv PROVE v[j] # "CR" /\ v[j] # "LF" /\ v[j] # "NUL"
  <2>1. v[j] \in Range(v)
    BY <1>2, <1>6, LenProperties DEF Range
  <2> QED
    BY <1>1, <2>1 DEF GoodField
<1>13. Len(t) \in Nat /\ Len(t) = 3 + Len(f.value) /\ Len(t) > 3 /\ Len(f.value) \in Nat
  <2>1. Len(t) = 3 + lv /\ lv = Len(f.value)
    BY <1>1, <1>6, <1>8
  <2> QED
    BY <1>7, <2>1
<1>14. t[1] = f.name /\ t[2] = ":" /\ t[3] = " " /\ t[4] = f.value[1]
  BY <1>1, <1>4, <1>9, <1>11, Zenon
<1>15. /\ \A j \in 1 .. Len(f.value) : t[3 + j] = f.value[j]
       /\ \A j \in 1 .. Len(f.value) : f.value[j] # "CR" /\ f.value[j] # "LF" /\ f.value[j] # "NUL"
  BY <1>1, <1>6, <1>10, <1>12
<1> QED
  BY <1>1, <1>2, <1>8, <1>13, <1>14, <1>15

LEMMA HeaderTextFacts ==
    ASSUME NEW f, GoodField(f), NEW t, t = HeaderText(f)
    PROVE  t \in Seq(Bytes) /\ NoBreak(t) /\ t # <<>> /\ t[1] # " " /\ Len(t) \in Nat
<1>1. PICK v, lv, lt : v = f.value /\ lv = Len(v) /\ lt = Len(t)
  OBVIOUS
<1>2. t \in Seq(Bytes) /\ lt \in Nat /\ lt = 3 + lv /\ lt > 3 /\ lv \in Nat
  BY <1>1, HeaderParts
<1>3. t[1] # "CR" /\ t[1] # "LF" /\ t[1] # " "
  <2>1. t[1] = f.name
    BY HeaderParts
  <2>2. f.name \in Names
    BY DEF GoodField
  <2> QED
    BY <2>1, <2>2 DEF Names
<1>4. ASSUME NEW j \in 1 .. lt PROVE t[j] # "CR" /\ t[j] # "LF"
  <2>1. CASE j > 3
    <3>1. PICK k : k = j - 3
      OBVIOUS
    <3>2. k \in 1 .. lv /\ 3 + k = j
      BY <1>2, <2>1, <3>1
    <3>3. t[3 + k] = v[k] /\ v[k] # "CR" /\ v[k] # "LF"
      BY <1>1, <3>2, HeaderParts
    <3> QED
      BY <3>2, <3>3
  <2>2. CASE ~(j > 3)
    <3>1. j = 1 \/ j = 2 \/ j = 3
      BY <1>2, <2>2
    <3>2. t[2] = ":" /\ t[3] = " "
      BY HeaderParts
    <3> QED
      BY <1>3, <3>1, <3>2
  <2> QED
    BY <2>1, <2>2
<1>5. t # <<>>
  <2>1. Len(t) # 0
    BY <1>1, <1>2
  <2> QED
    BY <2>1, EmptySeq
<1> QED
  BY <1>1, <1>2, <1>3, <1>4, <1>5 DEF NoBreak

LEMMA HeaderSplit ==
    ASSUME NEW f, GoodField(f), NEW t, t = HeaderText(f)
    PROVE  /\ ValueAt(t) # {} /\ splitHeader(t) = f
           /\ NameEnd(t) \in Nat /\ NameEnd(t) <= Len(t)
<1>1. PICK v, lv, lt, V : v = f.value /\ lv = Len(v) /\ lt = Len(t) /\ V = ValueAt(t)
  OBVIOUS
<1>2. t \in Seq(Bytes) /\ v \in Seq(Bytes) /\ lt \in Nat /\ lt = 3 + lv /\ lt > 3 /\ lv \in Nat
  BY <1>1, HeaderParts
<1>3. t[1] = f.name /\ t[2] = ":" /\ t[3] = " " /\ t[4] = v[1]
  BY <1>1, HeaderParts
<1>4. DOMAIN t = 1 .. lt
  BY <1>1, <1>2, LenProperties
<1>5. 2 \in 1 .. lt /\ 3 \in 1 .. lt /\ 4 \in 1 .. lt /\ 1 \in 1 .. lv
  BY <1>2
<1>6. 4 \in V
  <2>1. v[1] # " " /\ v[1] # "CR" /\ v[1] # "LF"
    BY <1>1, <1>5, HeaderParts DEF GoodField
  <2>2. t[4] \notin Whitespace
    BY <1>3, <2>1 DEF Whitespace
  <2>3. 2 \in 1 .. 4 - 1 /\ \A j \in 2 + 1 .. 4 - 1 : j = 3
    OBVIOUS
  <2>4. \A j \in 2 + 1 .. 4 - 1 : t[j] = " "
    BY <1>3, <2>3
  <2>5. \E c \in 1 .. 4 - 1 : t[c] = ":" /\ \A j \in c + 1 .. 4 - 1 : t[j] = " "
    BY <1>3, <2>3, <2>4
  <2> QED
    BY <1>1, <1>4, <1>5, <2>2, <2>5 DEF ValueAt
<1>7. V \subseteq 1 .. lt
  BY <1>1, <1>4 DEF ValueAt
<1>8. V \subseteq Nat /\ V # {}
  <2>1. 1 .. lt \subseteq Nat
    BY <1>2
  <2> QED
    BY <1>6, <1>7, <2>1, Zenon
<1>9. PICK m : m = Min(V)
  OBVIOUS
<1>10. m \in V /\ m <= 4 /\ m \in Nat
  BY <1>6, <1>8, <1>9, MinIs
<1>11. m # 1
  <2>1. SUFFICES ASSUME 1 \in V PROVE FALSE
    BY <1>10
  <2>2. \E c \in 1 .. 1 - 1 : t[c] = ":"
    BY <1>1, <2>1 DEF ValueAt
  <2>3. 1 .. 1 - 1 = {}
    OBVIOUS
  <2> QED
    BY <2>2, <2>3, Zenon
<1>12. m # 2
  <2>1. SUFFICES ASSUME 2 \in V PROVE FALSE
    BY <1>10
  <2>2. \E c \in 1 .. 2 - 1 : t[c] = ":"
    BY <1>1, <2>1 DEF ValueAt
  <2>3. 1 .. 2 - 1 = {1}
    OBVIOUS
  <2>4. t[1] = ":"
    BY <2>2, <2>3, Zenon
  <2> QED
    BY <1>3, <2>4 DEF GoodField, Names
<1>13. m # 3
  <2>1. SUFFICES ASSUME 3 \in V PROVE FALSE
    BY <1>10
  <2>2. t[3] \notin Whitespace
    BY <1>1, <2>1 DEF ValueAt
  <2> QED
    BY <1>3, <2>2 DEF Whitespace
<1>14. m = 4
  <2>1. m \in 1 .. lt
    BY <1>7, <1>10
  <2>2. m = 1 \/ m = 2 \/ m = 3 \/ m = 4
    BY <1>2, <1>10, <2>1
  <2> QED
    BY <1>11, <1>12, <1>13, <2>2
<1>15. PICK x, k : x = SubSeq(t, k, lt) /\ k = 4
  OBVIOUS
<1>16. x = v
  <2>1. k \in 1 .. lt /\ lt - (k - 1) = lv /\ \A j \in 1 .. lv : (k - 1) + j = 3 + j
    BY <1>2, <1>15
  <2>2. /\ x \in Seq(Bytes) /\ Len(x) = lt - (k - 1)
        /\ \A j \in 1 .. lt - (k - 1) : x[j] = t[(k - 1) + j]
    <3>1. k \in 1 .. Len(t) /\ t \in Seq(Bytes)
      BY <1>1, <1>2, <2>1
    <3>2. /\ SubSeq(t, k, Len(t)) \in Seq(Bytes)
          /\ Len(SubSeq(t, k, Len(t))) = Len(t) - (k - 1)
          /\ \A j \in 1 .. Len(t) - (k - 1) : SubSeq(t, k, Len(t))[j] = t[(k - 1) + j]
      BY <3>1, TailType
    <3> QED
      BY <1>1, <1>15, <3>2
  <2>3. \A j \in 1 .. lv : t[3 + j] = v[j]
    <3>1. \A j \in 1 .. Len(f.value) : t[3 + j] = f.value[j]
      BY HeaderParts
    <3> QED
      BY <1>1, <3>1
  <2>4. Len(x) = lv /\ \A j \in 1 .. lv : x[j] = v[j]
    BY <2>1, <2>2, <2>3
  <2> QED
    BY <1>1, <1>2, <2>2, <2>4, SeqEqual
<1>17. CString(v) = v
  <2>1. \A j \in 1 .. lv : v[j] # "NUL"
    BY <1>1, HeaderParts
  <2> QED
    BY <1>1, <1>2, <2>1, CStringType
<1>18. splitHeader(t) = [name |-> f.name, value |-> v]
  <2>1. CString(SubSeq(t, Min(ValueAt(t)), Len(t))) = v
    BY <1>1, <1>9, <1>14, <1>15, <1>16, <1>17
  <2>2. ValueAt(t) # {}
    BY <1>1, <1>8
  <2>3. splitHeader(t) = [name |-> t[1], value |-> v]
    BY <2>1, <2>2 DEF splitHeader
  <2> QED
    BY <1>3, <2>3
<1>19. f = [name |-> f.name, value |-> f.value]
  BY DEF GoodField, Fields
<1>20. NameEnd(t) \in Nat /\ NameEnd(t) <= 2
  <2>1. PICK N : N = {i \in DOMAIN t : t[i] \in {":", " "}}
    OBVIOUS
  <2>2. 2 \in N
    BY <1>3, <1>4, <1>5, <2>1
  <2>3. N \subseteq 1 .. lt
    BY <1>4, <2>1
  <2>4. N \subseteq Nat
    BY <1>2, <2>3
  <2>5. Min(N) \in N /\ Min(N) <= 2
    BY <2>2, <2>4, MinIs
  <2> QED
    BY <2>1, <2>4, <2>5 DEF NameEnd
<1>21. 2 <= lt
  BY <1>2
<1> QED
  <2>1. splitHeader(t) = f
    BY <1>1, <1>18, <1>19
  <2>2. NameEnd(t) <= lt
    BY <1>2, <1>20, <1>21
  <2> QED
    BY <1>1, <1>8, <1>20, <2>1, <2>2

(* The lines after byte Q[0] start after the bytes Q[0], ..., Q[n]; only   *)
(* the last one is empty.                                                  *)
HeaderLines(b, n, Q) ==
    /\ Q \in [0 .. n -> 0 .. Len(b.bytes)]
    /\ \A k \in 0 .. n : Q[0] <= Q[k] /\ LineAt(b, Q[k]).complete = TRUE
    /\ \A k \in 1 .. n : LineAt(b, Q[k - 1]).next = Q[k] /\ LineAt(b, Q[k - 1]).text # <<>>
    /\ LineAt(b, Q[n]).text = <<>>

LEMMA HeaderLinesAre ==
    ASSUME NEW b, IsBuffer(b), NEW n \in Nat, NEW Q, HeaderLines(b, n, Q)
    PROVE  LinesAfter(b, Q[0]) = [j \in 1 .. n + 1 |-> LineAt(b, Q[j - 1])]
<1>0. PICK p, F, M : p = Q[0] /\ F = LinesFrom(b, p) /\ M = Len(b.bytes)
  OBVIOUS
<1>1. /\ \A k \in 0 .. n : Q[k] \in 0 .. M /\ p <= Q[k] /\ LineAt(b, Q[k]).complete = TRUE
      /\ \A k \in 1 .. n : LineAt(b, Q[k - 1]).next = Q[k] /\ LineAt(b, Q[k - 1]).text # <<>>
      /\ LineAt(b, Q[n]).text = <<>>
  BY <1>0 DEF HeaderLines
<1>2. M \in Nat
  BY <1>0, BufferFacts
<1>3. p \in 0 .. M
  <2>1. 0 \in 0 .. n
    OBVIOUS
  <2> QED
    BY <1>0, <1>1, <2>1
<1>4. ASSUME NEW k \in 0 .. n PROVE F[Q[k]] = LinesStep(b, F, Q[k])
  <2>1. PICK q : q = Q[k]
    OBVIOUS
  <2>2. q \in 0 .. M /\ p <= q
    BY <1>1, <2>1
  <2>3. q \in p .. M
    BY <1>2, <1>3, <2>2
  <2>4. F[q] = LinesStep(b, F, q)
    BY <1>0, <1>3, <2>3, LinesUnfold
  <2> QED
    BY <2>1, <2>4
<1>5. F[Q[n]] = <<LineAt(b, Q[n])>>
  <2>1. n \in 0 .. n
    OBVIOUS
  <2>2. LineAt(b, Q[n]).complete = TRUE /\ LineAt(b, Q[n]).text = <<>>
    BY <1>1, <2>1
  <2> QED
    BY <1>4, <2>1, <2>2 DEF LinesStep
<1>6. ASSUME NEW k \in 1 .. n PROVE F[Q[k - 1]] = <<LineAt(b, Q[k - 1])>> \o F[Q[k]]
  <2>1. k - 1 \in 0 .. n
    OBVIOUS
  <2>2. /\ LineAt(b, Q[k - 1]).complete = TRUE /\ LineAt(b, Q[k - 1]).text # <<>>
        /\ LineAt(b, Q[k - 1]).next = Q[k]
    BY <1>1, <2>1
  <2> QED
    BY <1>4, <2>1, <2>2 DEF LinesStep
<1>7. PICK A, S : A = [k \in 0 .. n |-> LineAt(b, Q[k])] /\ S = {A[k] : k \in 0 .. n}
  OBVIOUS
<1>8. \A k \in 0 .. n : A[k] = LineAt(b, Q[k]) /\ A[k] \in S
  BY <1>7
(* the lines from line k on *)
<1> DEFINE From(k) == [j \in 1 .. (n - k) + 1 |-> A[k + (j - 1)]]
           T == {d \in Nat : d > n \/ F[Q[n - d]] = From(n - d)}
<1>9. 0 \in T
  <2>1. n - 0 = n /\ n \in 0 .. n /\ (n - n) + 1 = 1 /\ \A j \in 1 .. 1 : n + (j - 1) = n
    OBVIOUS
  <2>2. F[Q[n]] = <<A[n]>>
    BY <1>5, <1>8, <2>1
  <2>3. PICK z : z = A[n]
    OBVIOUS
  <2>4. From(n) = [j \in 1 .. 1 |-> z]
    BY <2>1, <2>3
  <2>5. <<z>> = [j \in 1 .. 1 |-> z]
    OBVIOUS
  <2>6. F[Q[n - 0]] = From(n - 0)
    BY <2>1, <2>2, <2>3, <2>4, <2>5
  <2> QED
    BY <2>6
<1>10. ASSUME NEW d \in 0 .. n - 1, d \in T PROVE d + 1 \in T
  <2>1. PICK k : k = n - d
    OBVIOUS
  <2>2. k \in 1 .. n /\ k \in 0 .. n /\ k - 1 \in 0 .. n /\ n - (d + 1) = k - 1 /\ ~(d > n)
        /\ d + 1 \in Nat /\ k \in Nat
    BY <2>1
  <2>3. F[Q[k]] = From(k)
    BY <1>10, <2>1, <2>2
  <2>4. F[Q[k - 1]] = <<A[k - 1]>> \o From(k)
    BY <1>6, <1>8, <2>2, <2>3
  <2>5. PICK x, y, z, m : x = From(k) /\ y = From(k - 1) /\ z = A[k - 1] /\ m = (n - k) + 1
    OBVIOUS
  <2>6. m \in Nat /\ (n - (k - 1)) + 1 = m + 1
    BY <2>2, <2>5
  <2>7. x = [j \in 1 .. m |-> A[k + (j - 1)]] /\ y = [j \in 1 .. m + 1 |-> A[(k - 1) + (j - 1)]]
    BY <2>5, <2>6
  <2>8. x \in Seq(S) /\ Len(x) = m
    <3>1. \A j \in 1 .. m : k + (j - 1) \in 0 .. n
      BY <2>2, <2>5
    <3>2. x \in [1 .. m -> S]
      BY <1>8, <2>7, <3>1
    <3>3. x \in Seq(S)
      BY <2>6, <3>2, SeqDef
    <3> QED
      BY <2>6, <3>2, <3>3, LenProperties
  <2>9. y \in Seq(S) /\ Len(y) = m + 1
    <3>1. \A j \in 1 .. m + 1 : (k - 1) + (j - 1) \in 0 .. n
      BY <2>2, <2>5
    <3>2. y \in [1 .. m + 1 -> S]
      BY <1>8, <2>7, <3>1
    <3>3. m + 1 \in Nat
      BY <2>6
    <3>4. y \in Seq(S)
      BY <3>2, <3>3, SeqDef
    <3> QED
      BY <3>2, <3>3, <3>4, LenProperties
  <2>10. PICK u : u = <<z>>
    OBVIOUS
  <2>11. u \in Seq(S) /\ Len(u) = 1 /\ u[1] = z
    <3>1. z \in S
      BY <1>8, <2>2, <2>5
    <3> QED
      BY <2>10, <3>1
  <2>12. PICK w : w = u \o x
    OBVIOUS
  <2>13. /\ w \in Seq(S) /\ Len(w) = 1 + m
         /\ \A j \in 1 .. 1 + m : w[j] = IF j <= 1 THEN u[j] ELSE x[j - 1]
    <3>1. /\ w \in Seq(S) /\ Len(w) = Len(u) + Len(x)
          /\ \A j \in 1 .. Len(u) + Len(x) : w[j] = IF j <= Len(u) THEN u[j] ELSE x[j - Len(u)]
      BY <2>8, <2>11, <2>12, ConcatProperties
    <3>2. Len(u) = 1 /\ Len(x) = m
      BY <2>8, <2>11
    <3> QED
      BY <3>1, <3>2
  <2>14. ASSUME NEW j \in 1 .. m + 1 PROVE w[j] = y[j]
    <3>1. CASE j = 1
      <4>1. 1 \in 1 .. 1 + m /\ 1 <= 1 /\ 1 \in 1 .. m + 1
        BY <2>6
      <4>2. w[1] = u[1]
        BY <2>13, <4>1
      <4>3. y[1] = A[k - 1]
        <5>1. (k - 1) + (1 - 1) = k - 1
          BY <2>2
        <5>2. y[1] = A[(k - 1) + (1 - 1)]
          BY <2>7, <4>1
        <5> QED
          BY <5>1, <5>2
      <4> QED
        BY <2>5, <2>11, <3>1, <4>2, <4>3
    <3>2. CASE j # 1
      <4>1. j \in 1 .. 1 + m /\ ~(j <= 1) /\ j - 1 \in 1 .. m
            /\ k + ((j - 1) - 1) = (k - 1) + (j - 1)
        BY <2>2, <2>6, <3>2
      <4>2. w[j] = x[j - 1]
        BY <2>13, <4>1
      <4>3. x[j - 1] = A[k + ((j - 1) - 1)]
        BY <2>7, <4>1
      <4>4. y[j] = A[(k - 1) + (j - 1)]
        BY <2>7
      <4> QED
        BY <4>1, <4>2, <4>3, <4>4
    <3> QED
      BY <3>1, <3>2
  <2>15. w = y
    <3>1. Len(w) = Len(y) /\ \A j \in 1 .. Len(w) : w[j] = y[j]
      BY <2>6, <2>9, <2>13, <2>14
    <3> QED
      BY <2>9, <2>13, <3>1, SeqEqual
  <2>16. F[Q[n - (d + 1)]] = From(n - (d + 1))
    BY <2>2, <2>4, <2>5, <2>10, <2>12, <2>15
  <2> HIDE DEF From
  <2> QED
    BY <2>2, <2>16
<1>11. n \in T
  <2> HIDE DEF T
  <2>1. \A i \in 0 .. n : i \in T
    BY <1>9, <1>10, UpTo
  <2> QED
    BY <2>1
<1>12. n - n = 0 /\ ~(n > n) /\ (n - 0) + 1 = n + 1
  OBVIOUS
<1>13. F[Q[0]] = From(0)
  BY <1>11, <1>12
<1>14. From(0) = [j \in 1 .. n + 1 |-> LineAt(b, Q[j - 1])]
  <2>1. \A j \in 1 .. n + 1 : j - 1 \in 0 .. n /\ 0 + (j - 1) = j - 1
    OBVIOUS
  <2>2. \A j \in 1 .. n + 1 : A[0 + (j - 1)] = LineAt(b, Q[j - 1])
    BY <1>8, <2>1
  <2>3. From(0) = [j \in 1 .. n + 1 |-> A[0 + (j - 1)]]
    BY <1>12
  <2> QED
    BY <2>2, <2>3
<1> QED
  BY <1>0, <1>13, <1>14, LinesAfterIs

(* Header line k of request i starts after byte Q[k - 1], the empty line   *)
(* after byte Q[n].                                                        *)
FieldPlaces(t, R, i, n, Q) ==
    /\ n \in Nat /\ n = Len(R[i].fields) /\ Q \in [0 .. n -> Nat] /\ Q[0] = FieldsAt(R, i)
    /\ \A k \in 0 .. n : Q[0] <= Q[k] /\ Q[k] + Len(R[i].eol) <= BodyAt(R, i)
    /\ \A k \in 1 .. n : /\ At(t, Q[k - 1], HeaderText(R[i].fields[k]) \o R[i].eol)
                         /\ Q[k] = Q[k - 1] + Len(HeaderText(R[i].fields[k])) + Len(R[i].eol)
    /\ At(t, Q[n], R[i].eol) /\ BodyAt(R, i) = Q[n] + Len(R[i].eol)

LEMMA GoodFields ==
    ASSUME NEW r \in Requests, WellFormed(r), NEW k \in 1 .. Len(r.fields)
    PROVE  GoodField(r.fields[k])
<1>1. r.fields \in Seq(Fields)
  BY RequestFacts
<1>2. DOMAIN r.fields = 1 .. Len(r.fields) /\ r.fields[k] \in Fields
  BY <1>1, LenProperties
<1> QED
  BY <1>2 DEF WellFormed, GoodField

LEMMA FieldsPlaced ==
    ASSUME NEW b, NEW t, NEW R, NEW a, Context(b, t, R, a), NEW i \in 1 .. Len(R)
    PROVE  \E Q : FieldPlaces(t, R, i, Len(R[i].fields), Q)
<1>0. t \in Seq(Bytes) /\ R[i] \in Requests /\ WellFormed(R[i]) /\ Places(R, i) /\ Placed(t, R, i)
  BY ContextFacts
<1>1. PICK r, g, n, e, q, p : /\ r = R[i] /\ g = r.fields /\ n = Len(g) /\ e = r.eol
                              /\ q = FieldLines(r) /\ p = FieldsAt(R, i)
  OBVIOUS
<1>2. r \in Requests /\ g \in Seq(Fields) /\ n \in Nat /\ e \in Seq(Bytes) /\ DOMAIN g = 1 .. n /\ p \in Nat
  <2>1. r \in Requests /\ p \in Nat
    BY <1>0, <1>1 DEF Places
  <2>2. g \in Seq(Fields) /\ e \in Seq(Bytes)
    BY <1>1, <2>1, RequestFacts
  <2> QED
    BY <1>1, <2>1, <2>2, LenProperties
<1>3. q \in Seq(Seq(Bytes)) /\ Len(q) = n /\ \A k \in 1 .. n : q[k] = HeaderText(g[k]) \o e
  <2>1. q \in Seq(Seq(Bytes))
    BY <1>1, <1>2, LinesOfRequest DEF FieldLines
  <2>2. q = [k \in 1 .. n |-> FieldLine(r, g[k])]
    BY <1>1, <1>2 DEF FieldLines
  <2>3. Len(q) = n
    BY <1>2, <2>1, <2>2, LenProperties
  <2>4. \A k \in 1 .. n : q[k] = HeaderText(g[k]) \o e
    BY <1>1, <2>2 DEF FieldLine, HeaderText
  <2> QED
    BY <2>1, <2>3, <2>4
<1>4. PICK K : Joins(K, q, Bytes)
  BY <1>3, JoinExists
<1>5. FlattenSeq(q) = K[n]
  BY <1>3, <1>4, FlattenIs
<1>6. PICK Q : Q = [k \in 0 .. n |-> p + Len(K[k])]
  OBVIOUS
<1>7. \A k \in 0 .. n : K[k] \in Seq(Bytes) /\ Len(K[k]) \in Nat
  <2>1. \A k \in 0 .. n : K[k] \in Seq(Bytes)
    BY <1>3, <1>4 DEF Joins
  <2> QED
    BY <2>1, LenProperties
<1>8. Q \in [0 .. n -> Nat] /\ Q[0] = p
  <2>1. \A k \in 0 .. n : p + Len(K[k]) \in Nat
    BY <1>2, <1>7
  <2>2. 0 \in 0 .. n /\ K[0] = <<>>
    BY <1>2, <1>4 DEF Joins
  <2>3. Q[0] = p + 0
    BY <1>6, <2>2
  <2> QED
    BY <1>2, <1>6, <2>1, <2>3
<1>9. At(t, p, K[n]) /\ At(t, p + Len(K[n]), e) /\ BodyAt(R, i) = p + Len(K[n]) + Len(e)
  BY <1>0, <1>1, <1>5 DEF Placed
<1>10. Len(e) \in Nat /\ n \in 0 .. n
  BY <1>2, LenProperties
<1>11. ASSUME NEW k \in 1 .. n
       PROVE  /\ At(t, Q[k - 1], HeaderText(g[k]) \o e)
              /\ Q[k] = Q[k - 1] + Len(HeaderText(g[k])) + Len(e)
              /\ Len(K[k]) <= Len(K[n])
  <2>1. PICK f, w, x, y, z, m : /\ f = g[k] /\ w = HeaderText(f) /\ x = w \o e /\ y = K[k - 1]
                                /\ z = K[k] /\ m = K[n]
    OBVIOUS
  <2>2. k \in 0 .. n /\ k - 1 \in 0 .. n /\ k \in 1 .. Len(q)
    BY <1>2, <1>3
  <2>3. w \in Seq(Bytes) /\ Len(w) \in Nat
    <3>1. k \in 1 .. Len(r.fields) /\ WellFormed(r)
      BY <1>0, <1>1
    <3>2. GoodField(f)
      BY <1>1, <1>2, <2>1, <3>1, GoodFields
    <3> QED
      BY <2>1, <3>2, HeaderTextFacts
  <2>4. x \in Seq(Bytes) /\ Len(x) = Len(w) + Len(e)
    BY <1>2, <2>1, <2>3, ConcatProperties
  <2>5. Joined(z, y, x, Bytes)
    <3>1. q[k] = x
      BY <1>3, <2>1
    <3>2. Joined(K[k], K[k - 1], q[k], Bytes)
      BY <1>3, <1>4, <2>2, JoinLen
    <3> QED
      BY <2>1, <3>1, <3>2
  <2>6. At(m, Len(y), x) /\ Len(z) <= Len(m)
    <3>1. At(K[Len(q)], Len(K[k - 1]), q[k]) /\ Len(K[k]) <= Len(K[Len(q)])
      BY <1>3, <1>4, <2>2, JoinAt
    <3> QED
      BY <1>3, <2>1, <3>1
  <2>7. m \in Seq(Bytes) /\ Len(y) \in Nat
    BY <1>7, <1>10, <2>1, <2>2
  <2>8. PICK ly : ly = Len(y)
    OBVIOUS
  <2>9. At(t, p, m) /\ At(m, ly, x) /\ ly \in Nat
    BY <1>9, <2>1, <2>6, <2>7, <2>8
  <2>10. At(t, p + ly, x)
    BY <1>0, <1>2, <2>4, <2>7, <2>9, AtAt
  <2>11. Q[k - 1] = p + ly /\ Q[k] = p + Len(z)
    BY <1>6, <2>1, <2>2, <2>8
  <2>12. Len(z) = ly + (Len(w) + Len(e))
    BY <2>4, <2>5, <2>8 DEF Joined
  <2>13. Q[k] = Q[k - 1] + Len(w) + Len(e)
    BY <1>2, <1>10, <2>3, <2>9, <2>11, <2>12
  <2> QED
    BY <2>1, <2>6, <2>10, <2>11, <2>13
<1>12. ASSUME NEW k \in 0 .. n PROVE Q[0] <= Q[k] /\ Q[k] + Len(e) <= BodyAt(R, i)
  <2>1. Len(K[k]) <= Len(K[n])
    <3>1. CASE k = 0
      <4>1. Len(K[0]) = 0
        <5>1. K[0] = <<>>
          BY <1>4 DEF Joins
        <5> QED
          BY <5>1
      <4> QED
        BY <1>7, <1>10, <3>1, <4>1
    <3>2. CASE k # 0
      <4>1. k \in 1 .. n
        BY <1>2, <3>2
      <4> QED
        BY <1>11, <4>1
    <3> QED
      BY <3>1, <3>2
  <2>2. PICK lk, ln, le, y : lk = Len(K[k]) /\ ln = Len(K[n]) /\ le = Len(e) /\ y = BodyAt(R, i)
    OBVIOUS
  <2>3. lk \in Nat /\ ln \in Nat /\ le \in Nat /\ lk <= ln /\ y = p + ln + le
    BY <1>7, <1>9, <1>10, <2>1, <2>2
  <2>4. Q[k] = p + lk
    BY <1>6, <2>2
  <2>5. p <= p + lk /\ (p + lk) + le <= y
    BY <1>2, <2>3
  <2> QED
    BY <1>8, <2>2, <2>4, <2>5
<1>13. At(t, Q[n], e) /\ BodyAt(R, i) = Q[n] + Len(e)
  BY <1>6, <1>9, <1>10
<1>14. FieldPlaces(t, R, i, n, Q)
  BY <1>1, <1>2, <1>8, <1>11, <1>12, <1>13 DEF FieldPlaces
<1> QED
  BY <1>1, <1>14

(* All header lines of request i have arrived: the lines that are read.    *)
LEMMA LinesRead ==
    ASSUME NEW b, NEW t, NEW R, NEW a, Context(b, t, R, a), NEW i \in 1 .. Len(R),
           b.reader = FieldsAt(R, i), BodyAt(R, i) <= a, NEW n, NEW Q, FieldPlaces(t, R, i, n, Q)
    PROVE  /\ \A k \in 1 .. n : LineIs(b, Q[k - 1], HeaderText(R[i].fields[k]), Q[k])
           /\ LineIs(b, Q[n], <<>>, BodyAt(R, i))
           /\ HeaderLines(b, n, Q)
<1>0. /\ IsBuffer(b) /\ t \in Seq(Bytes) /\ a \in Nat /\ Len(b.bytes) = a
      /\ R[i] \in Requests /\ WellFormed(R[i]) /\ Places(R, i)
  BY ContextFacts
<1>1. PICK r, g, e, p, y : r = R[i] /\ g = r.fields /\ e = r.eol /\ p = FieldsAt(R, i) /\ y = BodyAt(R, i)
  OBVIOUS
<1>2. /\ n \in Nat /\ n = Len(g) /\ Q \in [0 .. n -> Nat] /\ Q[0] = p
      /\ \A k \in 0 .. n : Q[0] <= Q[k] /\ Q[k] + Len(e) <= y
      /\ \A k \in 1 .. n : /\ At(t, Q[k - 1], HeaderText(g[k]) \o e)
                           /\ Q[k] = Q[k - 1] + Len(HeaderText(g[k])) + Len(e)
      /\ At(t, Q[n], e) /\ y = Q[n] + Len(e)
  BY <1>1 DEF FieldPlaces
<1>3. IsEol(e) /\ e \in Seq(Bytes) /\ Len(e) \in Nat
  <2>1. IsEol(e)
    BY <1>0, <1>1, EolIs DEF IsEol
  <2>2. e \in Seq(Bytes)
    BY <2>1 DEF IsEol
  <2> QED
    BY <2>1, <2>2, LenProperties
<1>4. p \in Nat /\ y \in Nat /\ y <= a /\ Same(b, t, p)
  BY <1>0, <1>1 DEF Places, Context, Unread
<1>5. ASSUME NEW k \in 1 .. n
      PROVE  /\ LineIs(b, Q[k - 1], HeaderText(g[k]), Q[k])
             /\ HeaderText(g[k]) # <<>>
  <2>1. PICK w, q, x, z : w = HeaderText(g[k]) /\ q = Q[k - 1] /\ x = w \o e /\ z = Q[k]
    OBVIOUS
  <2>2. k \in 0 .. n /\ k - 1 \in 0 .. n
    BY <1>2
  <2>3. q \in Nat /\ z \in Nat /\ p <= q /\ z + Len(e) <= y
    BY <1>2, <2>1, <2>2
  <2>4. At(t, q, x) /\ z = q + Len(w) + Len(e)
    BY <1>2, <2>1
  <2>5. w \in Seq(Bytes) /\ Len(w) \in Nat /\ NoBreak(w) /\ w # <<>>
    <3>1. PICK f : f = g[k]
      OBVIOUS
    <3>2. k \in 1 .. Len(r.fields) /\ WellFormed(r) /\ r \in Requests
      BY <1>0, <1>1, <1>2
    <3>3. GoodField(f)
      BY <1>1, <3>1, <3>2, GoodFields
    <3> QED
      BY <2>1, <3>1, <3>3, HeaderTextFacts
  <2>6. x \in Seq(Bytes) /\ Len(x) = Len(w) + Len(e)
    BY <1>3, <2>1, <2>5, ConcatProperties
  <2>7. q + Len(x) <= a
    <3>1. PICK lw, le, lx : lw = Len(w) /\ le = Len(e) /\ lx = Len(x)
      OBVIOUS
    <3>2. /\ lw \in Nat /\ le \in Nat /\ lx = lw + le /\ q \in Nat /\ z = q + lw + le
          /\ z + le <= y /\ y <= a /\ y \in Nat /\ a \in Nat
      BY <1>0, <1>3, <1>4, <2>3, <2>4, <2>5, <2>6, <3>1
    <3>3. q + lx <= a
      BY <3>2
    <3> QED
      BY <3>1, <3>3
  <2>8. At(b.bytes, q, x)
    BY <1>0, <1>4, <2>3, <2>4, <2>6, <2>7, AtSame
  <2>9. LineIs(b, q, w, q + Len(w) + Len(e))
    BY <1>0, <1>3, <2>1, <2>3, <2>5, <2>8, LineRead
  <2> QED
    BY <2>1, <2>4, <2>5, <2>9
<1>6. LineIs(b, Q[n], <<>>, y)
  <2>1. PICK w, q : w = <<>> /\ q = Q[n]
    OBVIOUS
  <2>2. w \in Seq(Bytes) /\ Len(w) = 0 /\ NoBreak(w)
    BY <2>1 DEF NoBreak
  <2>3. w \o e = e
    BY <1>3, <2>1, ConcatEmptySeq
  <2>4. q \in Nat /\ p <= q /\ At(t, q, e) /\ y = q + Len(e)
    <3>1. n \in 0 .. n
      BY <1>2
    <3> QED
      BY <1>2, <2>1, <3>1
  <2>5. q + Len(e) <= Len(b.bytes)
    BY <1>0, <1>4, <2>4
  <2>6. At(b.bytes, q, e)
    BY <1>0, <1>3, <1>4, <2>4, <2>5, AtSame
  <2>7. At(b.bytes, q, w \o e)
    BY <2>3, <2>6
  <2>8. LineIs(b, q, w, q + Len(w) + Len(e))
    BY <1>0, <1>3, <2>2, <2>4, <2>7, LineRead
  <2>9. q + Len(w) + Len(e) = y
    BY <1>3, <2>2, <2>4
  <2> QED
    BY <2>1, <2>8, <2>9
<1>7. HeaderLines(b, n, Q)
  <2>1. ASSUME NEW k \in 0 .. n
        PROVE  Q[0] <= Q[k] /\ LineAt(b, Q[k]).complete = TRUE /\ Q[k] \in 0 .. Len(b.bytes)
    <3>1. Q[0] <= Q[k]
      BY <1>2
    <3>2. LineAt(b, Q[k]).complete = TRUE
      <4>1. CASE k = n
        BY <1>6, <4>1 DEF LineIs
      <4>2. CASE k # n
        <5>1. k + 1 \in 1 .. n /\ (k + 1) - 1 = k
          BY <1>2, <4>2
        <5>2. PICK j : j = k + 1
          OBVIOUS
        <5>3. j \in 1 .. n /\ j - 1 = k
          BY <5>1, <5>2
        <5>4. LineAt(b, Q[j - 1]).complete = TRUE
          BY <1>5, <5>3 DEF LineIs
        <5> QED
          BY <5>3, <5>4
      <4> QED
        BY <4>1, <4>2
    <3>3. Q[k] \in 0 .. Len(b.bytes)
      <4>1. PICK q, le : q = Q[k] /\ le = Len(e)
        OBVIOUS
      <4>2. q \in Nat /\ le \in Nat /\ q + le <= y
        BY <1>2, <1>3, <4>1
      <4>3. q \in 0 .. a
        BY <1>0, <1>4, <4>2
      <4> QED
        BY <1>0, <4>1, <4>3
    <3> QED
      BY <3>1, <3>2, <3>3
  <2>2. Q \in [0 .. n -> 0 .. Len(b.bytes)]
    <3>1. Q = [k \in 0 .. n |-> Q[k]]
      BY <1>2
    <3> QED
      BY <2>1, <3>1
  <2>3. ASSUME NEW k \in 1 .. n
        PROVE  LineAt(b, Q[k - 1]).next = Q[k] /\ LineAt(b, Q[k - 1]).text # <<>>
    BY <1>5 DEF LineIs
  <2>4. LineAt(b, Q[n]).text = <<>>
    BY <1>6 DEF LineIs
  <2> QED
    BY <2>1, <2>2, <2>3, <2>4 DEF HeaderLines
<1> QED
  BY <1>1, <1>5, <1>6, <1>7

(* ReadHeader reads all header lines once the empty line has arrived.       *)
LEMMA HeaderStep ==
    ASSUME NEW b, NEW t, NEW R, NEW a, Context(b, t, R, a), dec \in Decoders,
           NEW i \in 1 .. Len(R), b.reader = FieldsAt(R, i), dec.fields = <<>>,
           BodyAt(R, i) <= a, NEW o, o = ReadHeader(b)
    PROVE  \E b2 : /\ IsBuffer(b2) /\ Len(b2.bytes) = a /\ b2.reader = BodyAt(R, i) /\ Unread(b2, t)
                   /\ o = HeadersRead(b2, R[i].fields)
<1>0. /\ IsBuffer(b) /\ t \in Seq(Bytes) /\ a \in Nat /\ Len(b.bytes) = a
      /\ R[i] \in Requests /\ WellFormed(R[i]) /\ Places(R, i)
  BY ContextFacts
<1>1. PICK r, g, e, y, n : r = R[i] /\ g = r.fields /\ e = r.eol /\ y = BodyAt(R, i) /\ n = Len(g)
  OBVIOUS
<1>2. PICK Q : FieldPlaces(t, R, i, n, Q)
  BY <1>1, FieldsPlaced
<1>3. /\ n \in Nat /\ Q \in [0 .. n -> Nat] /\ Q[0] = b.reader
      /\ \A k \in 0 .. n : Q[0] <= Q[k] /\ Q[k] + Len(e) <= y
      /\ \A k \in 1 .. n : Q[k] = Q[k - 1] + Len(HeaderText(g[k])) + Len(e)
      /\ y = Q[n] + Len(e)
  BY <1>1, <1>2 DEF FieldPlaces
<1>4. /\ \A k \in 1 .. n : LineIs(b, Q[k - 1], HeaderText(g[k]), Q[k])
      /\ LineIs(b, Q[n], <<>>, y) /\ HeaderLines(b, n, Q)
  BY <1>1, <1>2, LinesRead
<1>5. y \in Nat /\ y <= a /\ g \in Seq(Fields)
  BY <1>0, <1>1, RequestFacts DEF Places
<1>6. IsEol(e) /\ Len(e) \in Nat /\ Len(e) >= 1
  <2>1. IsEol(e)
    BY <1>0, <1>1, EolIs DEF IsEol
  <2>2. Len(e) = 1 \/ Len(e) = 2
    BY <2>1 DEF IsEol
  <2> QED
    BY <2>1, <2>2
<1>7. PICK lines : lines = LinesAfter(b, b.reader)
  OBVIOUS
<1>8. lines = [j \in 1 .. n + 1 |-> LineAt(b, Q[j - 1])]
  <2>1. IsBuffer(b) /\ n \in Nat /\ HeaderLines(b, n, Q)
    BY <1>0, <1>3, <1>4
  <2>2. LinesAfter(b, Q[0]) = [j \in 1 .. n + 1 |-> LineAt(b, Q[j - 1])]
    BY <2>1, HeaderLinesAre
  <2>3. Q[0] = b.reader
    BY <1>3
  <2> QED
    BY <1>7, <2>2, <2>3
<1>9. lines \in Seq(LinesOf(b)) /\ Len(lines) = n + 1 /\ DOMAIN lines = 1 .. n + 1
  <2>1. PICK p : p = b.reader
    OBVIOUS
  <2>2. p \in 0 .. Len(b.bytes)
    BY <1>0, <2>1, BufferFacts
  <2>3. LinesAfter(b, p) \in Seq(LinesOf(b))
    BY <1>0, <2>2, LinesType
  <2>4. lines \in Seq(LinesOf(b))
    BY <1>7, <2>1, <2>3
  <2>5. DOMAIN lines = 1 .. n + 1
    BY <1>8
  <2>6. n + 1 \in Nat
    BY <1>3
  <2> QED
    BY <2>4, <2>5, <2>6, LenProperties
<1>10. ASSUME NEW k \in 1 .. n
       PROVE  /\ GoodField(g[k])
              /\ lines[k].text = HeaderText(g[k]) /\ lines[k].from = Q[k - 1]
              /\ lines[k].eol = Q[k - 1] + Len(HeaderText(g[k])) + 1
  <2>1. k \in 1 .. n + 1
    BY <1>3
  <2>2. lines[k] = LineAt(b, Q[k - 1])
    BY <1>8, <2>1
  <2>3. k \in 1 .. Len(r.fields) /\ WellFormed(r) /\ r \in Requests
    BY <1>0, <1>1
  <2>4. GoodField(g[k])
    BY <1>1, <2>3, GoodFields
  <2> QED
    BY <1>4, <2>2, <2>4 DEF LineIs
<1>11. lines[n + 1].text = <<>> /\ lines[n + 1].next = y /\ lines[n + 1].eol = Q[n] + 1
  <2>1. n + 1 \in 1 .. n + 1 /\ (n + 1) - 1 = n
    BY <1>3
  <2>2. lines[n + 1] = LineAt(b, Q[n])
    BY <1>8, <2>1
  <2>3. LineAt(b, Q[n]).text = <<>> /\ LineAt(b, Q[n]).next = y /\ LineAt(b, Q[n]).eol = Q[n] + Len(<<>>) + 1
    BY <1>4 DEF LineIs
  <2>4. Q[n] + Len(<<>>) + 1 = Q[n] + 1
    <3>1. PICK q : q = Q[n]
      OBVIOUS
    <3>2. q \in Nat /\ Len(<<>>) = 0
      BY <1>3, <3>1
    <3> QED
      BY <3>1, <3>2
  <2> QED
    BY <2>2, <2>3, <2>4
<1>12. Len(lines) - 1 = n
  BY <1>3, <1>9
<1>13. ~HeaderFault(lines)
  <2>1. ASSUME NEW k \in 1 .. n PROVE ValueAt(lines[k].text) # {}
    BY <1>10, HeaderSplit
  <2>2. ASSUME NEW k \in 2 .. n + 1, lines[k].text # <<>> PROVE lines[k].text[1] # " "
    <3>1. CASE k = n + 1
      BY <1>11, <2>2, <3>1
    <3>2. CASE k # n + 1
      <4>1. k \in 1 .. n
        BY <1>3, <3>2
      <4>2. PICK w, f : f = g[k] /\ w = HeaderText(f)
        OBVIOUS
      <4>3. GoodField(f) /\ lines[k].text = w
        BY <1>10, <4>1, <4>2
      <4>4. w[1] # " "
        BY <4>2, <4>3, HeaderTextFacts
      <4> QED
        BY <4>3, <4>4
    <3> QED
      BY <3>1, <3>2
  <2> QED
    BY <1>9, <1>12, <2>1, <2>2 DEF HeaderFault
<1>14. AddedHeaders(lines) = g
  <2>1. ASSUME NEW k \in 1 .. n PROVE splitHeader(lines[k].text) = g[k]
    BY <1>10, HeaderSplit
  <2>2. AddedHeaders(lines) = [k \in 1 .. n |-> splitHeader(lines[k].text)]
    BY <1>12 DEF AddedHeaders
  <2>3. g = [k \in 1 .. n |-> g[k]]
    BY <1>1, <1>5, LenProperties
  <2> QED
    BY <2>1, <2>2, <2>3
<1>15. dec.fields \o AddedHeaders(lines) = g
  <2>1. <<>> \o g = g
    BY <1>5, ConcatEmptySeq
  <2> QED
    BY <1>14, <2>1
<1>16. PICK Z : Z = UNION {ZeroesOf(lines[k]) : k \in DOMAIN lines}
  OBVIOUS
<1>17. ASSUME NEW k \in 1 .. n + 1, NEW z \in ZeroesOf(lines[k]) PROVE z \in Nat /\ z <= y
  <2>0. PICK le : le = Len(e)
    OBVIOUS
  <2>1. CASE k = n + 1
    <3>1. ValueAt(lines[k].text) = {}
      <4>1. ValueAt(<<>>) = {}
        BY DEF ValueAt
      <4> QED
        BY <1>11, <2>1, <4>1
    <3>2. z = Q[n] + 1
      BY <1>11, <1>17, <2>1, <3>1 DEF ZeroesOf
    <3>3. Q[n] \in Nat /\ y = Q[n] + le /\ le >= 1 /\ le \in Nat
      <4>1. n \in 0 .. n
        BY <1>3
      <4> QED
        BY <1>3, <1>6, <2>0, <4>1
    <3> QED
      BY <3>2, <3>3
  <2>2. CASE k # n + 1
    <3>1. k \in 1 .. n
      BY <1>3, <2>2
    <3>2. PICK f, w, q, lw, u : f = g[k] /\ w = HeaderText(f) /\ q = Q[k - 1] /\ lw = Len(w) /\ u = NameEnd(w)
      OBVIOUS
    <3>3. GoodField(f) /\ lines[k].text = w /\ lines[k].from = q /\ lines[k].eol = q + lw + 1
      BY <1>10, <3>1, <3>2
    <3>4. lw \in Nat /\ u \in Nat /\ u <= lw
      BY <3>2, <3>3, HeaderSplit, HeaderTextFacts
    <3>5. q \in Nat /\ Q[k] \in Nat /\ Q[k] = q + lw + le /\ Q[k] + le <= y
      <4>1. k \in 0 .. n /\ k - 1 \in 0 .. n
        BY <1>3, <3>1
      <4> QED
        BY <1>3, <2>0, <3>1, <3>2, <4>1
    <3>6. z = q + lw + 1 \/ z = q + u
      BY <1>17, <3>2, <3>3 DEF ZeroesOf
    <3>7. PICK x : x = Q[k]
      OBVIOUS
    <3>8. x \in Nat /\ x = q + lw + le /\ x + le <= y /\ le \in Nat /\ le >= 1
      BY <1>6, <2>0, <3>5, <3>7
    <3> QED
      BY <1>5, <3>4, <3>5, <3>6, <3>8
  <2> QED
    BY <2>1, <2>2
<1>18. \A z \in Z : z \in Nat /\ z <= y
  BY <1>9, <1>16, <1>17
<1>19. PICK b1 : b1 = Zeroed(b, Z)
  OBVIOUS
<1>20. /\ IsBuffer(b1) /\ Len(b1.bytes) = a
       /\ \A j \in 1 .. a : b1.bytes[j] = IF j \in Z THEN "NUL" ELSE b.bytes[j]
  BY <1>0, <1>19, ZeroedType
<1>21. PICK b2 : b2 = MoveTo(b1, y)
  OBVIOUS
<1>22. IsBuffer(b2) /\ b2.reader = y /\ b2.bytes = b1.bytes
  <2>1. y \in 0 .. Len(b1.bytes)
    BY <1>0, <1>5, <1>20
  <2> QED
    BY <1>20, <1>21, <2>1, MoveType
<1>23. Unread(b2, t)
  <2>1. ASSUME NEW j \in y + 1 .. a PROVE b2.bytes[j] = t[j]
    <3>1. j \in 1 .. a /\ ~(j <= y)
      BY <1>0, <1>5
    <3>2. j \notin Z
      BY <1>18, <3>1
    <3>3. b2.bytes[j] = b.bytes[j]
      BY <1>20, <1>22, <3>1, <3>2
    <3>4. Same(b, t, y)
      <4>1. PICK p : p = b.reader
        OBVIOUS
      <4>2. Same(b, t, p)
        BY <4>1 DEF Context, Unread
      <4>3. p \in Nat /\ p <= y
        BY <1>0, <1>1, <4>1 DEF Places
      <4> QED
        BY <1>0, <1>5, <4>2, <4>3, SameLater
    <3>5. b.bytes[j] = t[j]
      BY <1>0, <3>4 DEF Same
    <3> QED
      BY <3>3, <3>5
  <2> QED
    BY <1>20, <1>22, <2>1 DEF Unread, Same
<1>24. Last(lines).text = <<>> /\ Last(lines).next = y /\ lines # <<>>
  <2>1. Last(lines) = lines[n + 1]
    BY <1>9 DEF Last
  <2>2. lines # <<>>
    <3>1. Len(lines) # 0
      BY <1>3, <1>9
    <3> QED
      BY <3>1
  <2> QED
    BY <1>11, <2>1, <2>2
<1>25. o = HeadersRead(b2, g)
  <2>1. PICK p, fields : p = b.reader /\ fields = dec.fields \o AddedHeaders(lines)
    OBVIOUS
  <2>2. o = HeadersRead(MoveTo(Zeroed(b, Z), Last(lines).next), fields)
    BY <1>7, <1>13, <1>16, <1>24, <2>1 DEF ReadHeader
  <2> QED
    BY <1>15, <1>19, <1>21, <1>24, <2>1, <2>2
<1> QED
  BY <1>1, <1>20, <1>22, <1>23, <1>25

LEMMA HeaderWaits ==
    ASSUME NEW b, NEW t, NEW R, NEW a, Context(b, t, R, a), dec \in Decoders,
           NEW i \in 1 .. Len(R), b.reader = FieldsAt(R, i), dec.fields = <<>>,
           a < BodyAt(R, i), NEW o, o = ReadHeader(b)
    PROVE  Halts(o, b, dec, b.reader)
<1>0. /\ IsBuffer(b) /\ t \in Seq(Bytes) /\ a \in Nat /\ Len(b.bytes) = a /\ b.reader \in Nat
      /\ R[i] \in Requests /\ WellFormed(R[i]) /\ Places(R, i) /\ b.reader <= a
  BY ContextFacts
<1>1. PICK r, g, e, y, n, p : /\ r = R[i] /\ g = r.fields /\ e = r.eol /\ y = BodyAt(R, i) /\ n = Len(g)
                              /\ p = FieldsAt(R, i)
  OBVIOUS
<1>2. PICK Q : FieldPlaces(t, R, i, n, Q)
  BY <1>1, FieldsPlaced
<1>3. /\ n \in Nat /\ Q[0] = p
      /\ \A k \in 1 .. n : At(t, Q[k - 1], HeaderText(g[k]) \o e)
      /\ y = Q[n] + Len(e) /\ At(t, Q[n], e)
  BY <1>1, <1>2 DEF FieldPlaces
<1>4. IsEol(e) /\ e \in Seq(Bytes) /\ Len(e) \in Nat
  <2>1. IsEol(e)
    BY <1>0, <1>1, EolIs DEF IsEol
  <2>2. e \in Seq(Bytes)
    BY <2>1 DEF IsEol
  <2> QED
    BY <2>1, <2>2, LenProperties
<1>5. p \in Nat /\ y \in Nat /\ a < y /\ Same(b, t, p) /\ g \in Seq(Fields) /\ b.reader = p /\ p <= a
  BY <1>0, <1>1, RequestFacts DEF Places, Context, Unread
<1>6. LineAt(b, p).complete = FALSE
  <2>1. CASE n = 0
    <3>1. PICK w : w = <<>>
      OBVIOUS
    <3>2. w \in Seq(Bytes) /\ Len(w) = 0 /\ NoBreak(w)
      BY <3>1 DEF NoBreak
    <3>3. w \o e = e
      BY <1>4, <3>1, ConcatEmptySeq
    <3>4. At(t, p, w \o e) /\ y = p + Len(e)
      BY <1>3, <2>1, <3>3
    <3>5. Len(b.bytes) < p + Len(w) + Len(e)
      BY <1>0, <1>4, <1>5, <3>2, <3>4
    <3> QED
      BY <1>0, <1>4, <1>5, <3>2, <3>4, <3>5, LineMissing
  <2>2. CASE n # 0
    <3>1. 1 \in 1 .. n /\ 1 - 1 = 0
      BY <1>3, <2>2
    <3>2. PICK f, w : f = g[1] /\ w = HeaderText(f)
      OBVIOUS
    <3>3. At(t, p, w \o e)
      BY <1>3, <3>1, <3>2
    <3>4. w \in Seq(Bytes) /\ Len(w) \in Nat /\ NoBreak(w)
      <4>1. 1 \in 1 .. Len(r.fields) /\ WellFormed(r) /\ r \in Requests
        BY <1>0, <1>1, <3>1
      <4>2. GoodField(f)
        BY <1>1, <3>2, <4>1, GoodFields
      <4> QED
        BY <3>2, <4>2, HeaderTextFacts
    <3>5. FieldLine(r, f) = w \o e
      BY <1>1, <3>2 DEF FieldLine, HeaderText
    <3>6. Len(w \o e) = Len(w) + Len(e)
      BY <1>4, <3>4, ConcatProperties
    <3>7. g # <<>>
      BY <1>1, <1>5, <2>2
    <3>8. ~(a \in p + Len(w \o e) .. y - 1)
      <4>1. ~(a \in p + Len(FieldLine(r, g[1])) .. y - 1)
        BY <1>1, <3>7, NoCut
      <4> QED
        BY <3>2, <3>5, <4>1
    <3>9. a < p + Len(w) + Len(e)
      <4>1. PICK lw, le, lx : lw = Len(w) /\ le = Len(e) /\ lx = Len(w \o e)
        OBVIOUS
      <4>2. lw \in Nat /\ le \in Nat /\ lx = lw + le /\ ~(a \in p + lx .. y - 1)
        BY <1>4, <3>4, <3>6, <3>8, <4>1
      <4>3. a < p + lw + le
        BY <1>0, <1>5, <4>2
      <4> QED
        BY <4>1, <4>3
    <3>10. Len(b.bytes) < p + Len(w) + Len(e)
      BY <1>0, <3>9
    <3> QED
      BY <1>0, <1>4, <1>5, <3>3, <3>4, <3>10, LineMissing
  <2> QED
    BY <2>1, <2>2
<1>7. LinesAfter(b, p) = <<>>
  <2>1. p \in 0 .. Len(b.bytes) /\ p \in p .. Len(b.bytes)
    BY <1>0, <1>5
  <2>2. PICK F : F = LinesFrom(b, p)
    OBVIOUS
  <2>3. F[p] = LinesStep(b, F, p)
    BY <1>0, <2>1, <2>2, LinesUnfold
  <2>4. LinesStep(b, F, p) = <<>>
    BY <1>6 DEF LinesStep
  <2> QED
    BY <2>2, <2>3, <2>4, LinesAfterIs
<1>8. PICK lines : lines = LinesAfter(b, b.reader)
  OBVIOUS
<1>9. lines = <<>>
  BY <1>5, <1>7, <1>8
<1>10. Len(lines) = 0 /\ DOMAIN lines = {}
  BY <1>9
<1>11. ~HeaderFault(lines)
  <2>1. 1 .. 0 - 1 = {} /\ 2 .. 0 = {}
    OBVIOUS
  <2>2. 1 .. Len(lines) - 1 = {} /\ 2 .. Len(lines) = {}
    BY <1>10, <2>1
  <2> QED
    BY <2>2, Zenon DEF HeaderFault
<1>12. AddedHeaders(lines) = <<>>
  <2>1. 1 .. 0 - 1 = {}
    OBVIOUS
  <2>2. 1 .. Len(lines) - 1 = {}
    BY <1>10, <2>1
  <2>3. AddedHeaders(lines) = [k \in {} |-> splitHeader(lines[k].text)]
    BY <2>2 DEF AddedHeaders
  <2>4. [k \in {} |-> splitHeader(lines[k].text)] = <<>>
    OBVIOUS
  <2> QED
    BY <2>3, <2>4
<1>13. PICK Z : Z = UNION {ZeroesOf(lines[k]) : k \in DOMAIN lines}
  OBVIOUS
<1>14. Z = {}
  BY <1>10, <1>13
<1>15. PICK b1 : b1 = Zeroed(b, Z)
  OBVIOUS
<1>16. IsBuffer(b1) /\ b1.bytes = b.bytes /\ b1.reader = b.reader
  <2>1. /\ IsBuffer(b1) /\ b1.reader = b.reader /\ Len(b1.bytes) = a
        /\ \A j \in 1 .. a : b1.bytes[j] = IF j \in Z THEN "NUL" ELSE b.bytes[j]
    BY <1>0, <1>15, ZeroedType
  <2>2. PICK x, z : x = b1.bytes /\ z = b.bytes
    OBVIOUS
  <2>3. x \in Seq(Bytes) /\ z \in Seq(Bytes) /\ Len(x) = a /\ Len(z) = a
    BY <1>0, <2>1, <2>2, BufferFacts
  <2>4. \A j \in 1 .. a : x[j] = z[j]
    BY <1>14, <2>1, <2>2
  <2>5. x = z
    BY <2>3, <2>4, SeqEqual
  <2> QED
    BY <2>1, <2>2, <2>5
<1>17. PICK v, d, c, s, b3 : v = <<>> /\ d = dec /\ c = dec.chunkSize /\ s = dec.state /\ b3 = ToEnd(b1)
  OBVIOUS
<1>18. d = DecOf(s, c, v)
  BY <1>17, DecFacts
<1>19. PICK k : k = NeedMore(b3)
  OBVIOUS
<1>20. k = Waiting(b3, d)
  BY <1>17, <1>19 DEF NeedMore, Waiting
<1>21. v \o v = v
  BY <1>17
<1>22. o = [k EXCEPT !.dec.fields = v]
  <2>1. dec.fields \o AddedHeaders(lines) = v
    BY <1>12, <1>17, <1>21
  <2>2. o = [NeedMore(ToEnd(Zeroed(b, Z))) EXCEPT !.dec.fields = dec.fields \o AddedHeaders(lines)]
    BY <1>8, <1>9, <1>11, <1>13 DEF ReadHeader
  <2> QED
    BY <1>15, <1>17, <1>19, <2>1, <2>2
<1>23. o = Waiting(b3, DecOf(s, c, v))
  <2>1. k = Waiting(b3, DecOf(s, c, v))
    BY <1>18, <1>20
  <2> QED
    BY <1>22, <2>1, WaitingFieldsIs
<1>24. o.buf = b3 /\ o.dec = d /\ o.msgs = <<>> /\ o.ends = "returns" /\ o.more /\ ~o.checked
  <2>1. o = Waiting(b3, d)
    BY <1>18, <1>23
  <2> QED
    BY <2>1, WaitingParts
<1>25. MoveTo(b3, b.reader) = b
  <2>1. b3 = [bytes |-> b.bytes, reader |-> Len(b.bytes)]
    <3>1. PICK z, q, l : z = b1.bytes /\ q = b1.reader /\ l = Len(z)
      OBVIOUS
    <3>2. b1 = [bytes |-> z, reader |-> q]
      BY <1>16, <3>1, BufferFacts
    <3>3. [b1 EXCEPT !.reader = l] = [bytes |-> z, reader |-> l]
      BY <3>2
    <3>4. b3 = [b1 EXCEPT !.reader = l]
      BY <1>17, <3>1 DEF ToEnd, MoveTo
    <3> QED
      BY <1>16, <3>1, <3>3, <3>4
  <2>2. PICK z, q, l : z = b.bytes /\ q = b.reader /\ l = Len(z)
    OBVIOUS
  <2>3. b3 = [bytes |-> z, reader |-> l] /\ b = [bytes |-> z, reader |-> q]
    BY <1>0, <2>1, <2>2, BufferFacts
  <2>4. [b3 EXCEPT !.reader = q] = [bytes |-> z, reader |-> q]
    BY <2>3
  <2> QED
    BY <2>2, <2>3, <2>4 DEF MoveTo
<1> QED
  BY <1>17, <1>24, <1>25 DEF Halts

(***************************************************************************)
(* What is owed.                                                           *)
(***************************************************************************)
LEMMA Times ==
    ASSUME NEW k \in Nat, NEW m \in Nat \ {0}
    PROVE  k * m \in Nat /\ (k + 1) * m = k * m + m /\ k <= k * m
<1>1. k * m \in Nat
  OBVIOUS
<1>2. (k + 1) * m = k * m + m
  OBVIOUS
<1>3. PICK d \in Nat : m = d + 1
  <2>1. m - 1 \in Nat /\ m = (m - 1) + 1
    OBVIOUS
  <2> QED
    BY <2>1
<1>4. k * (d + 1) = k * d + k /\ k * d \in Nat
  OBVIOUS
<1> QED
  BY <1>1, <1>2, <1>3, <1>4

LEMMA TimesMono ==
    ASSUME NEW j \in Nat, NEW k \in Nat, NEW m \in Nat, j <= k
    PROVE  j * m <= k * m
<1>1. PICK d \in Nat : k = j + d
  <2>1. k - j \in Nat /\ k = j + (k - j)
    OBVIOUS
  <2> QED
    BY <2>1
<1>2. (j + d) * m = j * m + d * m /\ j * m \in Nat /\ d * m \in Nat
  OBVIOUS
<1> QED
  BY <1>1, <1>2

LEMMA SliceEndIs ==
    ASSUME NEW max \in Nat \ {0}, NEW body \in Seq(Bytes), NEW k \in Nat
    PROVE  /\ SliceEnd(max, body, k) \in Nat /\ k * max \in Nat /\ Len(body) \in Nat
           /\ SliceEnd(max, body, k) <= Len(body)
           /\ k * max <= Len(body) => SliceEnd(max, body, k) = k * max
           /\ Len(body) <= k * max => SliceEnd(max, body, k) = Len(body)
<1>1. PICK x, l, s : x = k * max /\ l = Len(body) /\ s = SliceEnd(max, body, k)
  OBVIOUS
<1>2. x \in Nat /\ l \in Nat
  BY <1>1, Times, LenProperties
<1>3. s = Min({x, l})
  BY <1>1 DEF SliceEnd
<1>4. s \in Nat /\ s <= x /\ s <= l /\ (s = x \/ s = l)
  BY <1>2, <1>3, MinOfTwo
<1>5. s \in Nat /\ s <= l /\ (x <= l => s = x) /\ (l <= x => s = l)
  BY <1>2, <1>4
<1> QED
  BY <1>1, <1>2, <1>5

(* The first m slices have arrived, and no other. *)
LEMMA SlicesAre ==
    ASSUME NEW max \in Nat \ {0}, NEW body \in Seq(Bytes), NEW got \in Nat, NEW m \in Nat,
           m = 0 \/ ((m - 1) * max < Len(body) /\ SliceEnd(max, body, m) <= got),
           Len(body) <= m * max \/ got < SliceEnd(max, body, m + 1)
    PROVE  SlicesDue(max, body, got) = 1 .. m
<1>1. PICK l, z : l = Len(body) /\ z = m * max
  OBVIOUS
<1>2. l \in Nat /\ z \in Nat
  BY <1>1, Times, LenProperties
<1>3. ASSUME NEW k \in 1 .. m
      PROVE  k \in 1 .. l /\ (k - 1) * max < l /\ SliceEnd(max, body, k) <= got
  <2>1. m # 0 /\ k \in Nat /\ k - 1 \in Nat /\ m - 1 \in Nat /\ k - 1 <= m - 1 /\ k <= m
    OBVIOUS
  <2>2. PICK k1, m1, x, y, u, v : /\ k1 = k - 1 /\ m1 = m - 1 /\ x = k1 * max /\ y = m1 * max
                                  /\ u = k * max /\ v = SliceEnd(max, body, k)
    OBVIOUS
  <2>3. k1 \in Nat /\ m1 \in Nat /\ k1 <= m1 /\ m1 + 1 = m /\ k1 + 1 = k
    BY <2>1, <2>2
  <2>4. x <= y /\ x \in Nat /\ y \in Nat /\ m1 <= y /\ u <= z /\ u \in Nat
    BY <1>1, <2>1, <2>2, <2>3, Times, TimesMono
  <2>5. y < l /\ SliceEnd(max, body, m) <= got
    BY <1>1, <2>1, <2>2
  <2>6. x < l /\ k \in 1 .. l
    BY <1>2, <2>3, <2>4, <2>5
  <2>7. PICK s : s = SliceEnd(max, body, m)
    OBVIOUS
  <2>8. s \in Nat /\ s <= l /\ (z <= l => s = z) /\ (l <= z => s = l)
    BY <1>1, <2>7, SliceEndIs
  <2>9. v \in Nat /\ v <= l /\ (u <= l => v = u) /\ (l <= u => v = l)
    BY <1>1, <2>1, <2>2, SliceEndIs
  <2>10. v <= s /\ s <= got
    BY <1>2, <2>4, <2>5, <2>7, <2>8, <2>9
  <2>11. v <= got
    BY <2>8, <2>9, <2>10
  <2> QED
    BY <2>2, <2>6, <2>11
<1>4. ASSUME NEW k \in 1 .. l, (k - 1) * max < l, SliceEnd(max, body, k) <= got PROVE k \in 1 .. m
  <2>1. SUFFICES ASSUME ~(k <= m) PROVE FALSE
    BY <1>2
  <2>2. PICK k1, x, u, v, m2, w, s : /\ k1 = k - 1 /\ x = k1 * max /\ u = k * max
                                     /\ v = SliceEnd(max, body, k) /\ m2 = m + 1 /\ w = m2 * max
                                     /\ s = SliceEnd(max, body, m2)
    OBVIOUS
  <2>3. k1 \in Nat /\ k \in Nat /\ m2 \in Nat /\ m <= k1 /\ m2 <= k
    BY <1>2, <2>1, <2>2
  <2>4. z <= x /\ w <= u /\ x \in Nat /\ u \in Nat /\ w \in Nat
    BY <1>1, <2>2, <2>3, Times, TimesMono
  <2>5. x < l /\ v <= got
    BY <1>4, <2>2
  <2>6. z < l
    BY <1>2, <2>4, <2>5
  <2>7. got < s
    <3>1. ~(l <= z)
      BY <1>2, <2>6
    <3> QED
      BY <1>1, <2>2, <3>1
  <2>8. s \in Nat /\ s <= l /\ (w <= l => s = w) /\ (l <= w => s = l)
    BY <1>1, <2>2, <2>3, SliceEndIs
  <2>9. v \in Nat /\ v <= l /\ (u <= l => v = u) /\ (l <= u => v = l)
    BY <1>1, <2>2, <2>3, SliceEndIs
  <2>10. s <= v
    BY <1>2, <2>4, <2>8, <2>9
  <2> QED
    BY <2>5, <2>7, <2>8, <2>9, <2>10
<1> QED
  BY <1>1, <1>3, <1>4 DEF SlicesDue

LEMMA TextLen ==
    ASSUME NEW r \in Requests
    PROVE  /\ Len(r.lead) \in Nat /\ Len(Preamble(r)) \in Nat /\ Len(r.body) \in Nat
           /\ Len(Text(r)) = Len(r.lead) + Len(Preamble(r)) + Len(r.body)
           /\ r.body \in Seq(Bytes)
<1>1. PICK h, p, y : h = r.lead /\ p = Preamble(r) /\ y = r.body
  OBVIOUS
<1>2. h \in Seq(Bytes) /\ p \in Seq(Bytes) /\ y \in Seq(Bytes)
  BY <1>1, RequestFacts, LinesOfRequest
<1>3. PICK x : x = h \o p
  OBVIOUS
<1>4. x \in Seq(Bytes) /\ Len(x) = Len(h) + Len(p)
  BY <1>2, <1>3, ConcatProperties
<1>5. Len(x \o y) = Len(x) + Len(y)
  BY <1>2, <1>4, ConcatProperties
<1>6. Text(r) = x \o y
  BY <1>1, <1>3 DEF Text
<1> QED
  BY <1>1, <1>2, <1>4, <1>5, <1>6, LenProperties

Full(max, r) == Due(max, r, Len(Text(r)))
SlicesSent(max, r, k) ==
    <<Message(r.fields, TRUE, <<>>)>> \o [j \in 1 .. k |-> Chunk(SliceOf(max, r.body, j))]
Got(r, n) == n - Len(r.lead) - Len(Preamble(r))

LEMMA SentType ==
    ASSUME NEW max \in Nat \ {0}, NEW r \in Requests, NEW m \in Nat,
           m = 0 \/ (m - 1) * max < Len(r.body)
    PROVE  /\ SlicesSent(max, r, m) \in Seq(Messages)
           /\ [j \in 1 .. m |-> Chunk(SliceOf(max, r.body, j))] \in Seq(Messages)
           /\ <<Message(r.fields, TRUE, <<>>)>> \in Seq(Messages)
           /\ Len([j \in 1 .. m |-> Chunk(SliceOf(max, r.body, j))]) = m
<1>1. PICK y, l, x : y = r.body /\ l = Len(y) /\ x = [j \in 1 .. m |-> Chunk(SliceOf(max, y, j))]
  OBVIOUS
<1>2. y \in Seq(Bytes) /\ l \in Nat
  BY <1>1, TextLen
<1>3. ASSUME NEW j \in 1 .. m PROVE Chunk(SliceOf(max, y, j)) \in Messages
  <2>1. PICK j1, m1, u, v, s : /\ j1 = j - 1 /\ m1 = m - 1 /\ u = j1 * max /\ v = j * max
                            /\ s = SliceEnd(max, y, j)
    OBVIOUS
  <2>2. j1 \in Nat /\ m1 \in Nat /\ j1 <= m1 /\ j = j1 + 1 /\ m # 0 /\ j \in Nat
    BY <2>1
  <2>3. u \in Nat /\ v \in Nat /\ v = u + max /\ u <= m1 * max /\ m1 * max \in Nat
    BY <2>1, <2>2, Times, TimesMono
  <2>4. m1 * max < l
    BY <1>1, <2>1, <2>2
  <2>5. s \in Nat /\ s <= l /\ (v <= l => s = v) /\ (l <= v => s = l)
    BY <1>1, <1>2, <2>1, <2>2, SliceEndIs
  <2>6. PICK q \in Nat : s = u + q
    <3>1. u < l
      BY <1>2, <2>3, <2>4
    <3>2. s - u \in Nat /\ s = u + (s - u)
      BY <1>2, <2>3, <2>5, <3>1
    <3> QED
      BY <3>2
  <2>7. u + q <= Len(y)
    BY <1>1, <2>5, <2>6
  <2>8. SubSeq(y, u + 1, u + q) \in Seq(Bytes)
    BY <1>2, <2>3, <2>7, PartOf
  <2>9. SliceOf(max, y, j) \in Seq(Bytes)
    BY <2>1, <2>6, <2>8 DEF SliceOf
  <2> QED
    BY <2>9, ChunkType
<1>4. x \in Seq(Messages) /\ Len(x) = m
  <2>1. x \in [1 .. m -> Messages]
    BY <1>1, <1>3
  <2>2. x \in Seq(Messages)
    BY <2>1, SeqDef
  <2> QED
    BY <2>1, <2>2, LenProperties
<1>5. PICK f, u, e, yes : f = r.fields /\ e = <<>> /\ yes = TRUE /\ u = Message(f, yes, e)
  OBVIOUS
<1>6. u \in Messages
  <2>1. f \in Seq(Fields) /\ e \in Seq(Bytes) /\ yes \in BOOLEAN
    BY <1>5, RequestFacts
  <2> QED
    BY <1>5, <2>1 DEF Messages, Message
<1>7. PICK w : w = <<u>>
  OBVIOUS
<1>8. w \in Seq(Messages)
  BY <1>6, <1>7
<1>9. w \o x \in Seq(Messages)
  BY <1>4, <1>8, ConcatProperties
<1>10. <<Message(r.fields, TRUE, <<>>)>> = w
  BY <1>5, <1>7
<1> QED
  BY <1>1, <1>4, <1>8, <1>9, <1>10 DEF SlicesSent

(* A request whose content is not handed over in slices is one message.     *)
Whole(r) == <<Message(r.fields, FALSE, r.body)>>

LEMMA DueIs ==
    ASSUME NEW max, NEW r, NEW n, NEW g, g = Got(r, n)
    PROVE  /\ Sliced(max, r) /\ g < 0 => Due(max, r, n) = <<>>
           /\ \A m : Sliced(max, r) /\ ~(g < 0) /\ SlicesDue(max, r.body, g) = 1 .. m
                       /\ g < Len(r.body) => Due(max, r, n) = SlicesSent(max, r, m) \o <<>>
           /\ \A m : Sliced(max, r) /\ ~(g < 0) /\ SlicesDue(max, r.body, g) = 1 .. m
                       /\ ~(g < Len(r.body)) => Due(max, r, n) = SlicesSent(max, r, m) \o <<LAST_CHUNK>>
           /\ ~Sliced(max, r) /\ g < Len(r.body) => Due(max, r, n) = <<>>
           /\ ~Sliced(max, r) /\ ~(g < Len(r.body)) => Due(max, r, n) = Whole(r)
<1>1. PICK s, f, e, w, x, y : /\ s = Sliced(max, r) /\ f = <<Message(r.fields, TRUE, <<>>)>>
                              /\ e = <<>> /\ w = <<LAST_CHUNK>> /\ x = SlicesDue(max, r.body, g)
                              /\ y = [k \in x |-> Chunk(SliceOf(max, r.body, k))]
  OBVIOUS
<1>2. Due(max, r, n) = IF s THEN IF g < 0 THEN e ELSE f \o y \o (IF g < Len(r.body) THEN e ELSE w)
                            ELSE IF g < Len(r.body) THEN e ELSE Whole(r)
  BY <1>1 DEF Due, Got, Whole
<1>3. ASSUME NEW m, x = 1 .. m PROVE f \o y = SlicesSent(max, r, m)
  BY <1>1, <1>3 DEF SlicesSent
<1>4. s /\ g < 0 => Due(max, r, n) = e
  BY <1>2
<1>5. ASSUME NEW m, s, ~(g < 0), x = 1 .. m, g < Len(r.body)
      PROVE  Due(max, r, n) = SlicesSent(max, r, m) \o e
  BY <1>2, <1>3, <1>5
<1>6. ASSUME NEW m, s, ~(g < 0), x = 1 .. m, ~(g < Len(r.body))
      PROVE  Due(max, r, n) = SlicesSent(max, r, m) \o w
  BY <1>2, <1>3, <1>6
<1>7. ~s /\ g < Len(r.body) => Due(max, r, n) = e
  BY <1>2
<1>8. ~s /\ ~(g < Len(r.body)) => Due(max, r, n) = Whole(r)
  BY <1>2
<1>9. /\ \A m : s /\ ~(g < 0) /\ x = 1 .. m /\ g < Len(r.body)
                  => Due(max, r, n) = SlicesSent(max, r, m) \o e
      /\ \A m : s /\ ~(g < 0) /\ x = 1 .. m /\ ~(g < Len(r.body))
                  => Due(max, r, n) = SlicesSent(max, r, m) \o w
  BY <1>5, <1>6
<1> QED
  BY <1>1, <1>4, <1>7, <1>8, <1>9

LEMMA GotType ==
    ASSUME NEW r \in Requests, NEW n \in Int
    PROVE  Got(r, n) \in Int /\ Got(r, n) = n - Len(r.lead) - Len(Preamble(r))
<1>1. Len(r.lead) \in Nat /\ Len(Preamble(r)) \in Nat
  BY TextLen
<1> QED
  BY <1>1 DEF Got

LEMMA DueNothing ==
    ASSUME NEW max, NEW r \in Requests, NEW n \in Int, Got(r, n) < 0
    PROVE  Due(max, r, n) = <<>>
<1>1. PICK g, l : g = Got(r, n) /\ l = Len(r.body)
  OBVIOUS
<1>2. g \in Int /\ l \in Nat /\ g < 0
  BY <1>1, GotType, TextLen
<1>3. g < l
  BY <1>2
<1>4. g < Len(r.body)
  BY <1>1, <1>3
<1> QED
  BY <1>1, <1>2, <1>4, DueIs

(* The last slice of a content is the one after which nothing is left. *)
LEMMA LastSlice ==
    ASSUME NEW max \in Nat \ {0}, NEW l \in Nat
    PROVE  \E m \in Nat : l <= m * max /\ (m = 0 \/ (m - 1) * max < l)
<1>1. PICK T : T = {m \in Nat : l <= m * max}
  OBVIOUS
<1>2. l \in T
  <2>1. l <= l * max
    BY Times
  <2> QED
    BY <1>1, <2>1
<1>3. T \subseteq Nat /\ T # {}
  BY <1>1, <1>2
<1>4. PICK m \in T : \A k \in T : m <= k
  BY <1>3, LeastNumber
<1>5. m \in Nat /\ l <= m * max
  BY <1>1, <1>4
<1>6. ASSUME m # 0 PROVE (m - 1) * max < l
  <2>1. PICK m1, z : m1 = m - 1 /\ z = m1 * max
    OBVIOUS
  <2>2. m1 \in Nat /\ ~(m <= m1)
    BY <1>5, <1>6, <2>1
  <2>3. z \in Nat
    BY <2>1, <2>2, Times
  <2>4. ~(l <= z)
    BY <1>1, <1>4, <2>1, <2>2
  <2>5. z < l
    BY <2>3, <2>4
  <2> QED
    BY <2>1, <2>5
<1> QED
  BY <1>5, <1>6

WholeSlices(max, r, m) ==
    m \in Nat /\ Len(r.body) <= m * max /\ (m = 0 \/ (m - 1) * max < Len(r.body))

LEMMA DueWhole ==
    ASSUME NEW max \in Nat \ {0}, NEW r \in Requests, NEW n \in Int, Len(r.body) <= Got(r, n),
           NEW m, WholeSlices(max, r, m)
    PROVE  /\ Sliced(max, r) => Due(max, r, n) = SlicesSent(max, r, m) \o <<LAST_CHUNK>>
           /\ ~Sliced(max, r) => Due(max, r, n) = Whole(r)
<1>1. PICK g, l, y : g = Got(r, n) /\ y = r.body /\ l = Len(y)
  OBVIOUS
<1>2. g \in Int /\ l \in Nat /\ l <= g /\ y \in Seq(Bytes)
  BY <1>1, GotType, TextLen
<1>3. g \in Nat /\ ~(g < 0) /\ ~(g < l)
  BY <1>2
<1>4. ~(g < Len(r.body))
  BY <1>1, <1>3
<1>5. m \in Nat /\ l <= m * max /\ (m = 0 \/ (m - 1) * max < l)
  BY <1>1 DEF WholeSlices
<1>6. SliceEnd(max, y, m) <= g
  <2>1. PICK s : s = SliceEnd(max, y, m)
    OBVIOUS
  <2>2. s \in Nat /\ s <= Len(y)
    BY <1>2, <1>5, <2>1, SliceEndIs
  <2>3. s <= g
    BY <1>1, <1>2, <2>2
  <2> QED
    BY <2>1, <2>3
<1>7. SlicesDue(max, y, g) = 1 .. m
  <2>1. m = 0 \/ ((m - 1) * max < Len(y) /\ SliceEnd(max, y, m) <= g)
    BY <1>1, <1>5, <1>6
  <2>2. Len(y) <= m * max \/ g < SliceEnd(max, y, m + 1)
    BY <1>1, <1>5
  <2> QED
    BY <1>2, <1>3, <1>5, <2>1, <2>2, SlicesAre
<1>8. SlicesDue(max, r.body, g) = 1 .. m
  BY <1>1, <1>7
<1> QED
  BY <1>1, <1>3, <1>4, <1>8, DueIs

LEMMA DueComplete ==
    ASSUME NEW max \in Nat \ {0}, NEW r \in Requests, NEW n \in Int, Len(r.body) <= Got(r, n)
    PROVE  Due(max, r, n) = Full(max, r)
<1>1. PICK m : WholeSlices(max, r, m)
  <2>1. Len(r.body) \in Nat
    BY TextLen
  <2> QED
    BY <2>1, LastSlice DEF WholeSlices
<1>2. PICK z : z = Len(Text(r))
  OBVIOUS
<1>3. z \in Int /\ Len(r.body) <= Got(r, z)
  <2>1. PICK h, p, y : h = Len(r.lead) /\ p = Len(Preamble(r)) /\ y = Len(r.body)
    OBVIOUS
  <2>2. h \in Nat /\ p \in Nat /\ y \in Nat /\ z = h + p + y
    BY <1>2, <2>1, TextLen
  <2>3. Got(r, z) = z - h - p
    BY <2>1 DEF Got
  <2>4. z \in Int /\ y <= z - h - p
    BY <2>2
  <2> QED
    BY <2>1, <2>3, <2>4
<1>4. /\ Sliced(max, r) => Due(max, r, n) = SlicesSent(max, r, m) \o <<LAST_CHUNK>>
      /\ ~Sliced(max, r) => Due(max, r, n) = Whole(r)
  BY <1>1, DueWhole
<1>5. /\ Sliced(max, r) => Due(max, r, z) = SlicesSent(max, r, m) \o <<LAST_CHUNK>>
      /\ ~Sliced(max, r) => Due(max, r, z) = Whole(r)
  BY <1>1, <1>3, DueWhole
<1>6. Due(max, r, n) = Due(max, r, z)
  BY <1>4, <1>5
<1> QED
  BY <1>2, <1>6 DEF Full

LEMMA FullIs ==
    ASSUME NEW max \in Nat \ {0}, NEW r \in Requests, NEW m, WholeSlices(max, r, m)
    PROVE  /\ Sliced(max, r) => Full(max, r) = SlicesSent(max, r, m) \o <<LAST_CHUNK>>
           /\ ~Sliced(max, r) => Full(max, r) = Whole(r)
<1>2. PICK z : z = Len(Text(r))
  OBVIOUS
<1>3. z \in Int /\ Len(r.body) <= Got(r, z)
  <2>1. PICK h, p, y : h = Len(r.lead) /\ p = Len(Preamble(r)) /\ y = Len(r.body)
    OBVIOUS
  <2>2. h \in Nat /\ p \in Nat /\ y \in Nat /\ z = h + p + y
    BY <1>2, <2>1, TextLen
  <2>3. Got(r, z) = z - h - p
    BY <2>1 DEF Got
  <2>4. z \in Int /\ y <= z - h - p
    BY <2>2
  <2> QED
    BY <2>1, <2>3, <2>4
<1>5. /\ Sliced(max, r) => Due(max, r, z) = SlicesSent(max, r, m) \o <<LAST_CHUNK>>
      /\ ~Sliced(max, r) => Due(max, r, z) = Whole(r)
  BY <1>3, DueWhole
<1>6. Full(max, r) = Due(max, r, z)
  BY <1>2 DEF Full
<1> QED
  BY <1>5, <1>6

LEMMA WholeType ==
    ASSUME NEW r \in Requests
    PROVE  Whole(r) \in Seq(Messages)
<1>1. PICK f, y, no, u : f = r.fields /\ y = r.body /\ no = FALSE /\ u = Message(f, no, y)
  OBVIOUS
<1>2. f \in Seq(Fields) /\ y \in Seq(Bytes) /\ no \in BOOLEAN
  BY <1>1, RequestFacts
<1>3. u \in Messages
  BY <1>1, <1>2 DEF Messages, Message
<1>4. Whole(r) = <<u>>
  BY <1>1 DEF Whole
<1> QED
  BY <1>3, <1>4

LEMMA FullType ==
    ASSUME NEW max \in Nat \ {0}, NEW r \in Requests
    PROVE  Full(max, r) \in Seq(Messages)
<1>1. PICK m : WholeSlices(max, r, m)
  <2>1. Len(r.body) \in Nat
    BY TextLen
  <2> QED
    BY <2>1, LastSlice DEF WholeSlices
<1>2. m \in Nat /\ (m = 0 \/ (m - 1) * max < Len(r.body))
  BY <1>1 DEF WholeSlices
<1>3. SlicesSent(max, r, m) \in Seq(Messages)
  BY <1>2, SentType
<1>4. PICK e : e = <<LAST_CHUNK>>
  OBVIOUS
<1>5. e \in Seq(Messages)
  BY <1>4 DEF Messages
<1>6. SlicesSent(max, r, m) \o e \in Seq(Messages)
  BY <1>3, <1>5, ConcatProperties
<1>7. Whole(r) \in Seq(Messages)
  BY WholeType
<1> QED
  BY <1>1, <1>4, <1>6, <1>7, FullIs

(***************************************************************************)
(* What the requests before request i amount to, and what is owed for all  *)
(* the requests when a bytes of the stream have arrived.                   *)
(***************************************************************************)
Fulls(max, R, n) == [j \in 1 .. n |-> Full(max, R[j])]
SentBefore(max, R, i) == FlattenSeq(Fulls(max, R, i - 1))

LEMMA FullsType ==
    ASSUME NEW max \in Nat \ {0}, NEW R \in Seq(Requests), NEW n \in 0 .. Len(R)
    PROVE  /\ Fulls(max, R, n) \in Seq(Seq(Messages)) /\ Len(Fulls(max, R, n)) = n
           /\ \A j \in 1 .. n : Fulls(max, R, n)[j] = Full(max, R[j])
<1>1. Len(R) \in Nat /\ n \in Nat
  BY LenProperties
<1>2. ASSUME NEW j \in 1 .. n PROVE Full(max, R[j]) \in Seq(Messages)
  <2>1. R[j] \in Requests
    BY <1>1, <1>2, ElementOfSeq
  <2> QED
    BY <2>1, FullType
<1>3. Fulls(max, R, n) \in [1 .. n -> Seq(Messages)]
  BY <1>2 DEF Fulls
<1>4. Fulls(max, R, n) \in Seq(Seq(Messages))
  BY <1>1, <1>3, SeqDef
<1> QED
  BY <1>1, <1>3, <1>4, LenProperties DEF Fulls

LEMMA SentIs ==
    ASSUME NEW max \in Nat \ {0}, NEW R \in Seq(Requests), NEW M,
           Joins(M, Fulls(max, R, Len(R)), Messages), NEW i \in 1 .. Len(R) + 1
    PROVE  SentBefore(max, R, i) = M[i - 1] /\ SentBefore(max, R, i) \in Seq(Messages)
<1>1. PICK l, n, f, g : /\ l = Len(R) /\ n = i - 1 /\ f = Fulls(max, R, l) /\ g = Fulls(max, R, n)
  OBVIOUS
<1>2. l \in Nat /\ n \in 0 .. l /\ l \in 0 .. l /\ n \in Nat /\ n <= l
  BY <1>1, LenProperties
<1>3. /\ f \in Seq(Seq(Messages)) /\ Len(f) = l /\ g \in Seq(Seq(Messages)) /\ Len(g) = n
      /\ \A j \in 1 .. l : f[j] = Full(max, R[j])
      /\ \A j \in 1 .. n : g[j] = Full(max, R[j])
  BY <1>1, <1>2, FullsType
<1>4. PICK K : Joins(K, g, Messages)
  BY <1>3, JoinExists
<1>5. FlattenSeq(g) = K[n] /\ FlattenSeq(g) \in Seq(Messages)
  BY <1>3, <1>4, FlattenIs, FlattenType
<1>6. \A j \in 1 .. n : f[j] = g[j]
  BY <1>2, <1>3
<1>7. n <= Len(f) /\ n <= Len(g)
  BY <1>2, <1>3
<1>8. Joins(M, f, Messages)
  BY <1>1
<1>9. M[n] = K[n]
  <2>1. f \in Seq(Seq(Messages)) /\ g \in Seq(Seq(Messages)) /\ n \in Nat
    BY <1>2, <1>3
  <2> QED
    BY <1>4, <1>6, <1>7, <1>8, <2>1, JoinSame
<1> QED
  BY <1>1, <1>5, <1>9 DEF SentBefore

LEMMA SentStep ==
    ASSUME NEW max \in Nat \ {0}, NEW R \in Seq(Requests), NEW i \in 1 .. Len(R)
    PROVE  /\ SentBefore(max, R, i + 1) = SentBefore(max, R, i) \o Full(max, R[i])
           /\ SentBefore(max, R, i) \in Seq(Messages)
<1>1. PICK l, n, f : l = Len(R) /\ n = i - 1 /\ f = Fulls(max, R, l)
  OBVIOUS
<1>2. /\ l \in Nat /\ l \in 0 .. l /\ n \in Nat /\ i \in 1 .. l + 1 /\ i + 1 \in 1 .. l + 1
      /\ (i + 1) - 1 = i /\ i \in 1 .. l
  BY <1>1, LenProperties
<1>3. f \in Seq(Seq(Messages)) /\ Len(f) = l /\ \A j \in 1 .. l : f[j] = Full(max, R[j])
  BY <1>1, <1>2, FullsType
<1>4. PICK M : Joins(M, f, Messages)
  BY <1>3, JoinExists
<1>5. SentBefore(max, R, i) = M[i - 1] /\ SentBefore(max, R, i) \in Seq(Messages)
  BY <1>1, <1>2, <1>4, SentIs
<1>6. PICK i2 : i2 = i + 1
  OBVIOUS
<1>7. SentBefore(max, R, i2) = M[i2 - 1]
  BY <1>1, <1>2, <1>4, <1>6, SentIs
<1>8. M[i] = M[i - 1] \o f[i]
  BY <1>2, <1>3, <1>4 DEF Joins
<1> QED
  BY <1>2, <1>3, <1>5, <1>6, <1>7, <1>8

LEMMA SentSeq ==
    ASSUME NEW max \in Nat \ {0}, NEW R \in Seq(Requests), NEW i \in 1 .. Len(R) + 1
    PROVE  SentBefore(max, R, i) \in Seq(Messages)
<1>1. PICK l, f : l = Len(R) /\ f = Fulls(max, R, l)
  OBVIOUS
<1>2. l \in Nat /\ l \in 0 .. l
  BY <1>1, LenProperties
<1>3. f \in Seq(Seq(Messages))
  BY <1>1, <1>2, FullsType
<1>4. PICK M : Joins(M, f, Messages)
  BY <1>3, JoinExists
<1> QED
  BY <1>1, <1>4, SentIs

LEMMA SentFirst ==
    ASSUME NEW max \in Nat \ {0}, NEW R \in Seq(Requests)
    PROVE  SentBefore(max, R, 1) = <<>>
<1>1. PICK l, f, one : l = Len(R) /\ f = Fulls(max, R, l) /\ one = 1
  OBVIOUS
<1>2. l \in Nat /\ l \in 0 .. l /\ one \in 1 .. l + 1 /\ one - 1 = 0
  BY <1>1, LenProperties
<1>3. f \in Seq(Seq(Messages))
  BY <1>1, <1>2, FullsType
<1>4. PICK M : Joins(M, f, Messages)
  BY <1>3, JoinExists
<1>5. SentBefore(max, R, one) = M[one - 1]
  BY <1>1, <1>2, <1>4, SentIs
<1>6. M[0] = <<>>
  BY <1>4 DEF Joins
<1> QED
  BY <1>1, <1>2, <1>5, <1>6

LEMMA StartNext ==
    ASSUME NEW R \in Seq(Requests), NEW i \in 1 .. Len(R)
    PROVE  /\ Places(R, i) /\ R[i] \in Requests
           /\ Start(R, i) \in Nat /\ Start(R, i + 1) \in Nat /\ Start(R, i) <= Start(R, i + 1)
<1>1. PICK t : t = FlattenSeq(Texts(R))
  OBVIOUS
<1>2. Places(R, i) /\ R[i] \in Requests
  BY <1>1, RequestPlaces
<1>3. PICK s, h, f, b, s2, l, y : /\ s = Start(R, i) /\ h = HeadAt(R, i) /\ f = FieldsAt(R, i)
         /\ b = BodyAt(R, i) /\ s2 = Start(R, i + 1) /\ l = Len(R[i].lead) /\ y = Len(R[i].body)
  OBVIOUS
<1>4. /\ s \in Nat /\ h \in Nat /\ f \in Nat /\ b \in Nat /\ s2 \in Nat /\ l \in Nat /\ y \in Nat
      /\ h = s + l /\ h < f /\ f < b /\ s2 = b + y
  BY <1>2, <1>3 DEF Places
<1>5. s <= s2
  BY <1>4
<1> QED
  BY <1>2, <1>3, <1>4, <1>5

LEMMA StartMono ==
    ASSUME NEW R \in Seq(Requests), NEW i \in 1 .. Len(R) + 1, NEW j \in i .. Len(R) + 1
    PROVE  Start(R, i) \in Nat /\ Start(R, j) \in Nat /\ Start(R, i) <= Start(R, j)
<1>0. PICK l : l = Len(R)
  OBVIOUS
<1>1. l \in Nat /\ i \in Nat /\ j \in Nat
  BY <1>0, LenProperties
<1>2. \A k \in 1 .. l + 1 : Start(R, k) \in Nat
  BY <1>0, StreamEnds
<1> DEFINE T == {n \in Nat : i + n <= l + 1 => Start(R, i) <= Start(R, i + n)}
<1>3. 0 \in T
  <2>1. i + 0 = i /\ 0 \in Nat
    BY <1>1
  <2>2. Start(R, i) <= Start(R, i)
    BY <1>0, <1>2
  <2> QED
    BY <2>1, <2>2
<1>4. PICK d \in Nat : j = i + d
  <2>1. j - i \in Nat /\ j = i + (j - i)
    BY <1>0, <1>1
  <2> QED
    BY <2>1
<1>5. \A n \in 0 .. d - 1 : n \in T => n + 1 \in T
  <2> SUFFICES ASSUME NEW n \in 0 .. d - 1, n \in T PROVE n + 1 \in T
    OBVIOUS
  <2>1. n \in Nat /\ n + 1 \in Nat /\ i + (n + 1) = (i + n) + 1 /\ i + n \in 1 .. l /\ i + n <= l + 1
    BY <1>0, <1>1, <1>4
  <2>2. PICK k : k = i + n
    OBVIOUS
  <2>3. Start(R, k) \in Nat /\ Start(R, k + 1) \in Nat /\ Start(R, k) <= Start(R, k + 1)
    BY <1>0, <2>1, <2>2, StartNext
  <2>4. Start(R, i) \in Nat /\ Start(R, i) <= Start(R, k)
    BY <1>0, <1>2, <2>1, <2>2
  <2>5. Start(R, i) <= Start(R, k + 1)
    BY <2>3, <2>4
  <2> QED
    BY <2>1, <2>2, <2>5
<1> HIDE DEF T
<1>6. \A n \in 0 .. d : n \in T
  BY <1>3, <1>4, <1>5, UpTo
<1>7. d \in T
  BY <1>4, <1>6
<1>8. Start(R, i) <= Start(R, j)
  BY <1>0, <1>1, <1>4, <1>7 DEF T
<1>9. i \in 1 .. l + 1 /\ j \in 1 .. l + 1
  BY <1>0, <1>1
<1> QED
  BY <1>2, <1>8, <1>9

(* Which bytes of a request are there once a of the stream have arrived. *)
LEMMA GotIs ==
    ASSUME NEW R \in Seq(Requests), NEW i \in 1 .. Len(R), NEW a \in Nat
    PROVE  /\ a - Start(R, i) \in Int /\ R[i] \in Requests /\ BodyAt(R, i) \in Nat
           /\ Got(R[i], a - Start(R, i)) = a - BodyAt(R, i)
           /\ Start(R, i) <= BodyAt(R, i) /\ Len(R[i].body) \in Nat
           /\ Start(R, i + 1) = BodyAt(R, i) + Len(R[i].body)
<1>1. Places(R, i) /\ R[i] \in Requests
  BY StartNext
<1>2. PICK s, h, f, b, l, p, n : /\ s = Start(R, i) /\ h = HeadAt(R, i) /\ f = FieldsAt(R, i)
         /\ b = BodyAt(R, i) /\ l = Len(R[i].lead) /\ p = Len(Preamble(R[i])) /\ n = a - s
  OBVIOUS
<1>3. /\ s \in Nat /\ h \in Nat /\ f \in Nat /\ b \in Nat /\ l \in Nat /\ p \in Nat
      /\ h = s + l /\ b = h + p /\ h < f /\ f < b
  BY <1>1, <1>2 DEF Places
<1>4. n \in Int /\ n - l - p = a - b /\ s <= b
  <2>1. n = a - s
    BY <1>2
  <2> QED
    BY <1>3, <2>1
<1>5. Got(R[i], n) = n - l - p
  BY <1>2 DEF Got
<1>6. Start(R, i + 1) = BodyAt(R, i) + Len(R[i].body) /\ Len(R[i].body) \in Nat
  BY <1>1 DEF Places
<1> QED
  BY <1>1, <1>2, <1>3, <1>4, <1>5, <1>6

LEMMA DueBefore ==
    ASSUME NEW max \in Nat \ {0}, NEW R \in Seq(Requests), NEW i \in 1 .. Len(R), NEW a \in Nat,
           Start(R, i + 1) <= a
    PROVE  Due(max, R[i], a - Start(R, i)) = Full(max, R[i])
<1>1. PICK n, b, y : n = a - Start(R, i) /\ b = BodyAt(R, i) /\ y = Len(R[i].body)
  OBVIOUS
<1>2. n \in Int /\ R[i] \in Requests /\ b \in Nat /\ y \in Nat /\ Got(R[i], n) = a - b
  BY <1>1, GotIs
<1>3. Start(R, i + 1) = b + y
  BY <1>1, GotIs
<1>4. y <= a - b
  BY <1>2, <1>3
<1>5. Len(R[i].body) <= Got(R[i], n)
  BY <1>1, <1>2, <1>4
<1> QED
  BY <1>1, <1>2, <1>5, DueComplete

LEMMA DueAfter ==
    ASSUME NEW max, NEW R \in Seq(Requests), NEW i \in 1 .. Len(R), NEW a \in Nat, a < BodyAt(R, i)
    PROVE  Due(max, R[i], a - Start(R, i)) = <<>>
<1>1. PICK n, b : n = a - Start(R, i) /\ b = BodyAt(R, i)
  OBVIOUS
<1>2. n \in Int /\ R[i] \in Requests /\ b \in Nat /\ Got(R[i], n) = a - b
  BY <1>1, GotIs
<1>3. a - b < 0
  BY <1>1, <1>2
<1> QED
  BY <1>1, <1>2, <1>3, DueNothing

Dues(max, R, a) == [i \in DOMAIN R |-> Due(max, R[i], a - Start(R, i))]

LEMMA DuesFrom ==
    ASSUME NEW max \in Nat \ {0}, NEW R \in Seq(Requests), NEW a \in Nat, NEW i \in 1 .. Len(R) + 1,
           Start(R, i) <= a
    PROVE  \A j \in 1 .. i - 1 : Due(max, R[j], a - Start(R, j)) = Full(max, R[j])
<1> SUFFICES ASSUME NEW j \in 1 .. i - 1
             PROVE  Due(max, R[j], a - Start(R, j)) = Full(max, R[j])
  OBVIOUS
<1>1. PICK l, j2 : l = Len(R) /\ j2 = j + 1
  OBVIOUS
<1>2. l \in Nat /\ j \in 1 .. l /\ j2 \in 1 .. l + 1 /\ i \in j2 .. l + 1
  BY <1>1, LenProperties
<1>3. Start(R, j2) \in Nat /\ Start(R, i) \in Nat /\ Start(R, j2) <= Start(R, i)
  BY <1>1, <1>2, StartMono
<1>4. Start(R, j2) <= a
  BY <1>3
<1> QED
  BY <1>1, <1>2, <1>4, DueBefore

LEMMA DuesUntil ==
    ASSUME NEW max \in Nat \ {0}, NEW R \in Seq(Requests), NEW a \in Nat, NEW i \in 1 .. Len(R),
           a <= Start(R, i + 1)
    PROVE  \A j \in i + 1 .. Len(R) : Due(max, R[j], a - Start(R, j)) = <<>>
<1> SUFFICES ASSUME NEW j \in i + 1 .. Len(R)
             PROVE  Due(max, R[j], a - Start(R, j)) = <<>>
  OBVIOUS
<1>1. PICK l, i2 : l = Len(R) /\ i2 = i + 1
  OBVIOUS
<1>2. l \in Nat /\ j \in 1 .. l /\ i2 \in 1 .. l + 1 /\ j \in i2 .. l + 1
  BY <1>1, LenProperties
<1>3. Start(R, i2) \in Nat /\ Start(R, j) \in Nat /\ Start(R, i2) <= Start(R, j)
  BY <1>1, <1>2, StartMono
<1>4. Places(R, j)
  BY <1>1, <1>2, StartNext
<1>5. PICK s, h, f, b, x : /\ s = Start(R, j) /\ h = HeadAt(R, j) /\ f = FieldsAt(R, j)
                           /\ b = BodyAt(R, j) /\ x = Len(R[j].lead)
  OBVIOUS
<1>6. /\ s \in Nat /\ h \in Nat /\ f \in Nat /\ b \in Nat /\ x \in Nat /\ h = s + x /\ h < f /\ f < b
  BY <1>4, <1>5 DEF Places
<1>7. a <= s
  BY <1>1, <1>3, <1>5
<1>8. a < b
  BY <1>6, <1>7
<1>9. a < BodyAt(R, j)
  BY <1>5, <1>8
<1> QED
  BY <1>1, <1>2, <1>9, DueAfter

LEMMA AllDueEnd ==
    ASSUME NEW max \in Nat \ {0}, NEW R \in Seq(Requests), NEW a \in Nat, Start(R, Len(R) + 1) <= a
    PROVE  AllDue(max, R, a) = SentBefore(max, R, Len(R) + 1)
<1>1. PICK l, i : l = Len(R) /\ i = l + 1
  OBVIOUS
<1>2. l \in Nat /\ DOMAIN R = 1 .. l /\ i \in 1 .. l + 1 /\ i - 1 = l
  BY <1>1, LenProperties
<1>3. Start(R, i) <= a
  BY <1>1
<1>4. \A j \in 1 .. i - 1 : Due(max, R[j], a - Start(R, j)) = Full(max, R[j])
  BY <1>1, <1>2, <1>3, DuesFrom
<1>5. \A j \in 1 .. l : Due(max, R[j], a - Start(R, j)) = Full(max, R[j])
  BY <1>2, <1>4
<1>6. Dues(max, R, a) = Fulls(max, R, l)
  BY <1>2, <1>5 DEF Dues, Fulls
<1>7. AllDue(max, R, a) = FlattenSeq(Dues(max, R, a))
  BY DEF AllDue, Dues
<1> QED
  BY <1>1, <1>2, <1>6, <1>7 DEF SentBefore

LEMMA AllDueAt ==
    ASSUME NEW max \in Nat \ {0}, NEW R \in Seq(Requests), NEW a \in Nat, NEW i \in 1 .. Len(R),
           Start(R, i) <= a, a <= Start(R, i + 1),
           NEW x \in Seq(Messages), Due(max, R[i], a - Start(R, i)) = x
    PROVE  AllDue(max, R, a) = SentBefore(max, R, i) \o x
<1>1. PICK l, D, F : l = Len(R) /\ D = Dues(max, R, a) /\ F = Fulls(max, R, l)
  OBVIOUS
<1>2. l \in Nat /\ DOMAIN R = 1 .. l /\ i \in 1 .. l + 1 /\ i \in Nat /\ i - 1 \in Nat /\ l \in 0 .. l
  BY <1>1, LenProperties
<1>3. DOMAIN D = 1 .. l /\ \A j \in 1 .. l : D[j] = Due(max, R[j], a - Start(R, j))
  BY <1>1, <1>2 DEF Dues
<1>4. \A j \in 1 .. i - 1 : D[j] = Full(max, R[j])
  <2>1. \A j \in 1 .. i - 1 : Due(max, R[j], a - Start(R, j)) = Full(max, R[j])
    BY <1>1, <1>2, DuesFrom
  <2>2. \A j \in 1 .. i - 1 : j \in 1 .. l
    BY <1>1, <1>2
  <2> QED
    BY <1>3, <2>1, <2>2
<1>5. \A j \in i + 1 .. l : D[j] = <<>>
  <2>1. \A j \in i + 1 .. l : Due(max, R[j], a - Start(R, j)) = <<>>
    BY <1>1, DuesUntil
  <2>2. \A j \in i + 1 .. l : j \in 1 .. l
    BY <1>2
  <2> QED
    BY <1>3, <2>1, <2>2
<1>6. D[i] = x
  BY <1>1, <1>3
<1>7. /\ F \in Seq(Seq(Messages)) /\ Len(F) = l
      /\ \A j \in 1 .. l : F[j] = Full(max, R[j])
  BY <1>1, <1>2, FullsType
<1>8. \A j \in 1 .. l : D[j] \in Seq(Messages)
  <2> SUFFICES ASSUME NEW j \in 1 .. l PROVE D[j] \in Seq(Messages)
    OBVIOUS
  <2>1. CASE j < i
    <3>1. j \in 1 .. i - 1
      BY <1>2, <2>1
    <3>2. F[j] \in Seq(Messages)
      BY <1>7, ElementOfSeq
    <3> QED
      BY <1>4, <1>7, <3>1, <3>2
  <2>2. CASE j = i
    BY <1>6, <2>2
  <2>3. CASE j > i
    <3>1. j \in i + 1 .. l
      BY <1>2, <2>3
    <3>2. <<>> \in Seq(Messages)
      OBVIOUS
    <3>3. D[j] = <<>>
      BY <1>5, <3>1
    <3> QED
      BY <3>2, <3>3
  <2> QED
    BY <1>2, <2>1, <2>2, <2>3
<1>9. D \in Seq(Seq(Messages)) /\ Len(D) = l
  <2>1. D \in [1 .. l -> Seq(Messages)]
    BY <1>1, <1>2, <1>3, <1>8 DEF Dues
  <2>2. D \in Seq(Seq(Messages))
    BY <1>2, <2>1, SeqDef
  <2> QED
    BY <1>2, <2>1, <2>2, LenProperties
<1>10. PICK J : Joins(J, D, Messages)
  BY <1>9, JoinExists
<1>11. PICK M : Joins(M, F, Messages)
  BY <1>7, JoinExists
<1>12. AllDue(max, R, a) = J[l]
  <2>1. FlattenSeq(D) = J[l]
    BY <1>9, <1>10, FlattenIs
  <2> QED
    BY <1>1, <2>1 DEF AllDue, Dues
<1>13. J[l] = J[i]
  <2>1. i \in 0 .. Len(D) /\ \A j \in i + 1 .. Len(D) : D[j] = <<>>
    BY <1>1, <1>2, <1>5, <1>9
  <2>2. D \in Seq(Seq(Messages))
    BY <1>9
  <2>3. J[Len(D)] = J[i]
    BY <1>10, <2>1, <2>2, JoinEmpty
  <2> QED
    BY <1>9, <2>3
<1>14. J[i] = J[i - 1] \o x
  <2>1. i \in 1 .. Len(D)
    BY <1>1, <1>9
  <2> QED
    BY <1>6, <1>10, <2>1 DEF Joins
<1>15. PICK m : m = i - 1
  OBVIOUS
<1>16. J[m] = M[m]
  <2>1. m \in Nat /\ m <= Len(D) /\ m <= Len(F)
    BY <1>1, <1>2, <1>7, <1>9, <1>15
  <2>2. \A j \in 1 .. m : D[j] = F[j]
    <3>1. \A j \in 1 .. m : j \in 1 .. l
      BY <1>1, <1>2, <1>15
    <3> QED
      BY <1>4, <1>7, <1>15, <3>1
  <2>3. D \in Seq(Seq(Messages)) /\ F \in Seq(Seq(Messages))
    BY <1>7, <1>9
  <2> QED
    BY <1>10, <1>11, <2>1, <2>2, <2>3, JoinSame
<1>17. SentBefore(max, R, i) = M[i - 1]
  BY <1>1, <1>2, <1>11, SentIs
<1> QED
  BY <1>12, <1>13, <1>14, <1>15, <1>16, <1>17

(* The decoder d reads request i at byte p, a bytes have arrived, and the  *)
(* messages sent are those before it.                                      *)
Skips(max, R, i, p, d, sent) ==
    /\ d.state = "SKIP_CONTROL_CHARS" /\ p \in Start(R, i) .. LeadEnd(R, i)
    /\ sent = SentBefore(max, R, i)
ReadsInitial(max, R, i, a, p, d, sent) ==
    /\ d.state = "READ_INITIAL" /\ i <= Len(R) /\ p = HeadAt(R, i) /\ p < a
    /\ sent = SentBefore(max, R, i)
ReadsHeader(max, R, i, p, d, sent) ==
    /\ d.state = "READ_HEADER" /\ i <= Len(R) /\ p = FieldsAt(R, i) /\ d.fields = <<>>
    /\ sent = SentBefore(max, R, i)
ReadsFixed(max, R, i, p, d, sent) ==
    /\ d.state = "READ_FIXED_LENGTH_CONTENT" /\ i <= Len(R) /\ p = BodyAt(R, i)
    /\ d.fields = R[i].fields /\ R[i].body # <<>> /\ ~Sliced(max, R[i])
    /\ sent = SentBefore(max, R, i)
ReadsSlice(max, R, i, p, d, sent, k) ==
    /\ d.state = "READ_FIXED_LENGTH_CONTENT_AS_CHUNKS" /\ i <= Len(R) /\ Sliced(max, R[i])
    /\ k \in Nat /\ k * max < Len(R[i].body) /\ p = BodyAt(R, i) + k * max
    /\ d.chunkSize = Len(R[i].body) - k * max
    /\ sent = SentBefore(max, R, i) \o SlicesSent(max, R[i], k)

Reads(max, R, i, a, p, d, sent) ==
    \/ Skips(max, R, i, p, d, sent) \/ ReadsInitial(max, R, i, a, p, d, sent)
    \/ ReadsHeader(max, R, i, p, d, sent) \/ ReadsFixed(max, R, i, p, d, sent)
    \/ \E k : ReadsSlice(max, R, i, p, d, sent, k)

(* It can go on only when more has arrived.                                *)
Rests(max, R, i, a, p, d) ==
    \/ d.state = "SKIP_CONTROL_CHARS" /\ p = a
    \/ d.state = "READ_HEADER" /\ a < BodyAt(R, i)
    \/ d.state = "READ_FIXED_LENGTH_CONTENT" /\ a - p < Len(R[i].body)
    \/ d.state = "READ_FIXED_LENGTH_CONTENT_AS_CHUNKS" /\ a - p < Min({d.chunkSize, max})

LEMMA AllDueNone ==
    ASSUME NEW max \in Nat \ {0}, NEW R \in Seq(Requests), NEW a \in Nat, NEW i \in 1 .. Len(R),
           Start(R, i) <= a, a <= Start(R, i + 1), Due(max, R[i], a - Start(R, i)) = <<>>
    PROVE  AllDue(max, R, a) = SentBefore(max, R, i)
<1>1. PICK e : e = <<>>
  OBVIOUS
<1>2. e \in Seq(Messages) /\ Due(max, R[i], a - Start(R, i)) = e
  BY <1>1
<1>3. AllDue(max, R, a) = SentBefore(max, R, i) \o e
  BY <1>2, AllDueAt
<1>4. SentBefore(max, R, i) \in Seq(Messages)
  BY SentStep
<1>5. SentBefore(max, R, i) \o <<>> = SentBefore(max, R, i)
  BY <1>4, ConcatEmptySeq
<1> QED
  BY <1>1, <1>3, <1>5

LEMMA RestsSkip ==
    ASSUME NEW max \in Nat \ {0}, NEW R \in Seq(Requests), NEW a \in Nat, NEW i \in 1 .. Len(R) + 1,
           NEW d, NEW sent, Skips(max, R, i, a, d, sent)
    PROVE  sent = AllDue(max, R, a)
<1>1. a \in Start(R, i) .. LeadEnd(R, i) /\ sent = SentBefore(max, R, i)
  BY DEF Skips
<1>2. PICK l : l = Len(R)
  OBVIOUS
<1>3. l \in Nat /\ i \in Nat
  BY <1>2, LenProperties
<1>4. CASE i <= l
  <2>1. i \in 1 .. Len(R)
    BY <1>2, <1>3, <1>4
  <2>2. Places(R, i)
    BY <2>1, StartNext
  <2>3. PICK s, h, f, b, s2, y : /\ s = Start(R, i) /\ h = HeadAt(R, i) /\ f = FieldsAt(R, i)
             /\ b = BodyAt(R, i) /\ s2 = Start(R, i + 1) /\ y = Len(R[i].body)
    OBVIOUS
  <2>4. /\ s \in Nat /\ h \in Nat /\ f \in Nat /\ b \in Nat /\ s2 \in Nat /\ y \in Nat
        /\ h < f /\ f < b /\ s2 = b + y
    BY <2>2, <2>3 DEF Places
  <2>5. a \in s .. h
    BY <1>1, <1>2, <1>4, <2>3 DEF LeadEnd
  <2>6. s <= a /\ a < b /\ a <= s2
    BY <2>4, <2>5
  <2>7. Due(max, R[i], a - Start(R, i)) = <<>>
    BY <2>1, <2>3, <2>6, DueAfter
  <2>8. AllDue(max, R, a) = SentBefore(max, R, i)
    BY <2>1, <2>3, <2>6, <2>7, AllDueNone
  <2> QED
    BY <1>1, <2>8
<1>5. CASE ~(i <= l)
  <2>1. i = l + 1
    BY <1>2, <1>3, <1>5
  <2>2. a \in Start(R, i) .. Start(R, i)
    BY <1>1, <1>2, <1>5 DEF LeadEnd
  <2>3. Start(R, i) <= a
    BY <2>2
  <2>4. AllDue(max, R, a) = SentBefore(max, R, i)
    BY <1>2, <2>1, <2>3, AllDueEnd
  <2> QED
    BY <1>1, <2>4
<1> QED
  BY <1>4, <1>5

LEMMA RestsHeader ==
    ASSUME NEW max \in Nat \ {0}, NEW R \in Seq(Requests), NEW a \in Nat, NEW i \in 1 .. Len(R),
           FieldsAt(R, i) <= a, a < BodyAt(R, i)
    PROVE  AllDue(max, R, a) = SentBefore(max, R, i)
<1>1. Places(R, i)
  BY StartNext
<1>2. PICK s, h, f, b, s2, y, x : /\ s = Start(R, i) /\ h = HeadAt(R, i) /\ f = FieldsAt(R, i)
           /\ b = BodyAt(R, i) /\ s2 = Start(R, i + 1) /\ y = Len(R[i].body) /\ x = Len(R[i].lead)
  OBVIOUS
<1>3. /\ s \in Nat /\ h \in Nat /\ f \in Nat /\ b \in Nat /\ s2 \in Nat /\ y \in Nat /\ x \in Nat
      /\ h = s + x /\ h < f /\ f < b /\ s2 = b + y
  BY <1>1, <1>2 DEF Places
<1>4. f <= a /\ a < b
  BY <1>2
<1>5. s <= a /\ a <= s2
  BY <1>3, <1>4
<1>6. Due(max, R[i], a - Start(R, i)) = <<>>
  BY DueAfter
<1> QED
  BY <1>2, <1>5, <1>6, AllDueNone

LEMMA RestsFixed ==
    ASSUME NEW max \in Nat \ {0}, NEW R \in Seq(Requests), NEW a \in Nat, NEW i \in 1 .. Len(R),
           BodyAt(R, i) <= a, a - BodyAt(R, i) < Len(R[i].body), ~Sliced(max, R[i])
    PROVE  AllDue(max, R, a) = SentBefore(max, R, i)
<1>1. PICK n, b, y, s, s2 : /\ n = a - s /\ b = BodyAt(R, i) /\ y = Len(R[i].body)
                            /\ s = Start(R, i) /\ s2 = Start(R, i + 1)
  OBVIOUS
<1>2. n \in Int /\ R[i] \in Requests /\ b \in Nat /\ Got(R[i], n) = a - b
  BY <1>1, GotIs
<1>3. s <= b /\ y \in Nat /\ s2 = b + y /\ s \in Nat
  BY <1>1, GotIs, StartNext
<1>4. b <= a /\ a - b < y
  BY <1>1
<1>5. s <= a /\ a <= s2
  BY <1>2, <1>3, <1>4
<1>6. Got(R[i], n) < Len(R[i].body)
  BY <1>1, <1>2, <1>4
<1>7. Due(max, R[i], n) = <<>>
  BY <1>6, DueIs
<1>8. Due(max, R[i], a - Start(R, i)) = <<>>
  BY <1>1, <1>7
<1> QED
  BY <1>1, <1>5, <1>8, AllDueNone

LEMMA RestsSlice ==
    ASSUME NEW max \in Nat \ {0}, NEW R \in Seq(Requests), NEW a \in Nat, NEW i \in 1 .. Len(R),
           NEW k \in Nat, k * max < Len(R[i].body), Sliced(max, R[i]),
           BodyAt(R, i) + k * max <= a,
           a - (BodyAt(R, i) + k * max) < Min({Len(R[i].body) - k * max, max})
    PROVE  AllDue(max, R, a) = SentBefore(max, R, i) \o SlicesSent(max, R[i], k)
<1>1. PICK n, b, y, s, s2, z, g, w : /\ n = a - s /\ b = BodyAt(R, i) /\ w = R[i].body /\ y = Len(w)
                               /\ s = Start(R, i) /\ s2 = Start(R, i + 1) /\ z = k * max /\ g = a - b
  OBVIOUS
<1>2. n \in Int /\ R[i] \in Requests /\ b \in Nat /\ Got(R[i], n) = g
  BY <1>1, GotIs
<1>3. s <= b /\ y \in Nat /\ s2 = b + y /\ s \in Nat /\ w \in Seq(Bytes)
  BY <1>1, <1>2, GotIs, StartNext, TextLen
<1>4. z \in Nat /\ (k + 1) * max = z + max
  BY <1>1, Times
<1>5. z < y /\ b + z <= a /\ a - (b + z) < Min({y - z, max})
  BY <1>1
<1>6. PICK q, c : q = Min({c, max}) /\ c = y - z
  OBVIOUS
<1>7. c \in Nat /\ c = y - z
  BY <1>3, <1>4, <1>5, <1>6
<1>8. q \in Nat /\ q <= c /\ q <= max
  BY <1>6, <1>7, MinOfTwo
<1>9. a - (b + z) < q
  BY <1>5, <1>6
<1>10. g = a - b
  BY <1>1
<1>11. g \in Nat /\ s <= a /\ a <= s2 /\ z <= g /\ g < y /\ g < z + max
  BY <1>2, <1>3, <1>4, <1>5, <1>7, <1>8, <1>9, <1>10
<1>12. SlicesDue(max, w, g) = 1 .. k
  <2>1. PICK e, e2, k2 : e = SliceEnd(max, w, k) /\ k2 = k + 1 /\ e2 = SliceEnd(max, w, k2)
    OBVIOUS
  <2>2. e \in Nat /\ e = z
    <3>1. z <= Len(w)
      BY <1>1, <1>3, <1>4, <1>5
    <3> QED
      BY <1>1, <1>3, <1>4, <2>1, <3>1, SliceEndIs
  <2>3. e <= g
    BY <1>11, <2>2
  <2>4. k2 \in Nat /\ k2 * max = z + max
    BY <1>4, <2>1
  <2>5. PICK z2 : z2 = k2 * max
    OBVIOUS
  <2>6. e2 \in Nat /\ (z2 <= y => e2 = z2) /\ (y <= z2 => e2 = y)
    BY <1>1, <1>3, <2>1, <2>4, <2>5, SliceEndIs
  <2>7. g < e2
    BY <1>3, <1>4, <1>11, <2>4, <2>5, <2>6
  <2>8. k = 0 \/ (k - 1) * max < y
    <3>1. SUFFICES ASSUME k # 0 PROVE (k - 1) * max < y
      OBVIOUS
    <3>2. PICK k1, z1 : k1 = k - 1 /\ z1 = k1 * max
      OBVIOUS
    <3>3. k1 \in Nat /\ k1 <= k
      BY <3>1, <3>2
    <3>4. z1 <= z /\ z1 \in Nat
      BY <1>1, <3>2, <3>3, Times, TimesMono
    <3>5. z1 < y
      BY <1>3, <1>4, <1>5, <3>4
    <3> QED
      BY <3>2, <3>5
  <2>9. k = 0 \/ ((k - 1) * max < Len(w) /\ SliceEnd(max, w, k) <= g)
    BY <1>1, <2>1, <2>3, <2>8
  <2>10. Len(w) <= k * max \/ g < SliceEnd(max, w, k + 1)
    BY <2>1, <2>7
  <2>11. g \in Nat
    BY <1>11
  <2> QED
    BY <1>3, <2>9, <2>10, <2>11, SlicesAre
<1>13. PICK x : x = SlicesSent(max, R[i], k)
  OBVIOUS
<1>14. Due(max, R[i], n) = x \o <<>>
  <2>1. ~(g < 0)
    BY <1>11
  <2>2. g < Len(R[i].body) /\ SlicesDue(max, R[i].body, g) = 1 .. k
    BY <1>1, <1>11, <1>12
  <2>3. g = Got(R[i], n)
    BY <1>2
  <2> QED
    BY <1>13, <2>1, <2>2, <2>3, DueIs
<1>15. x \in Seq(Messages)
  <2>1. k = 0 \/ (k - 1) * max < Len(R[i].body)
    <3>1. SUFFICES ASSUME k # 0 PROVE (k - 1) * max < y
      BY <1>1
    <3>2. PICK k1, z1 : k1 = k - 1 /\ z1 = k1 * max
      OBVIOUS
    <3>3. k1 \in Nat /\ k1 <= k
      BY <3>1, <3>2
    <3>4. z1 <= z /\ z1 \in Nat
      BY <1>1, <3>2, <3>3, Times, TimesMono
    <3>5. z1 < y
      BY <1>3, <1>4, <1>5, <3>4
    <3> QED
      BY <3>2, <3>5
  <2> QED
    BY <1>2, <1>13, <2>1, SentType
<1>16. x \o <<>> = x
  BY <1>15, ConcatEmptySeq
<1>17. Due(max, R[i], a - Start(R, i)) = x
  BY <1>1, <1>14, <1>16
<1>18. Start(R, i) <= a /\ a <= Start(R, i + 1)
  BY <1>1, <1>11
<1>19. AllDue(max, R, a) = SentBefore(max, R, i) \o x
  BY <1>15, <1>17, <1>18, AllDueAt
<1> QED
  BY <1>13, <1>19

LEMMA RestsDue ==
    ASSUME NEW max \in Nat \ {0}, NEW R \in Seq(Requests), NEW a \in Nat, NEW i \in 1 .. Len(R) + 1,
           NEW p, p <= a, NEW d, NEW sent, Reads(max, R, i, a, p, d, sent), Rests(max, R, i, a, p, d)
    PROVE  sent = AllDue(max, R, a)
<1>0. ASSUME i <= Len(R) PROVE i \in 1 .. Len(R)
  <2>1. Len(R) \in Nat
    BY LenProperties
  <2> QED
    BY <1>0, <2>1
<1>1. CASE Skips(max, R, i, p, d, sent)
  <2>1. p = a
    BY <1>1 DEF Skips, Rests
  <2> QED
    BY <1>1, <2>1, RestsSkip
<1>2. CASE ReadsInitial(max, R, i, a, p, d, sent)
  BY <1>2 DEF ReadsInitial, Rests
<1>3. CASE ReadsHeader(max, R, i, p, d, sent)
  <2>1. i <= Len(R) /\ p = FieldsAt(R, i) /\ sent = SentBefore(max, R, i) /\ a < BodyAt(R, i)
    BY <1>3 DEF ReadsHeader, Rests
  <2> QED
    BY <1>0, <2>1, RestsHeader
<1>4. CASE ReadsFixed(max, R, i, p, d, sent)
  <2>1. /\ i <= Len(R) /\ p = BodyAt(R, i) /\ sent = SentBefore(max, R, i)
        /\ a - p < Len(R[i].body) /\ ~Sliced(max, R[i])
    BY <1>4 DEF ReadsFixed, Rests
  <2> QED
    BY <1>0, <2>1, RestsFixed
<1>5. CASE \E k : ReadsSlice(max, R, i, p, d, sent, k)
  <2>1. PICK k : ReadsSlice(max, R, i, p, d, sent, k)
    BY <1>5
  <2>2. /\ i <= Len(R) /\ p = BodyAt(R, i) + k * max /\ a - p < Min({d.chunkSize, max})
        /\ Sliced(max, R[i]) /\ k \in Nat /\ k * max < Len(R[i].body)
        /\ d.chunkSize = Len(R[i].body) - k * max
        /\ sent = SentBefore(max, R, i) \o SlicesSent(max, R[i], k)
    BY <2>1 DEF ReadsSlice, Rests
  <2>3. /\ BodyAt(R, i) + k * max <= a
        /\ a - (BodyAt(R, i) + k * max) < Min({Len(R[i].body) - k * max, max})
    BY <2>2
  <2> QED
    BY <1>0, <2>2, <2>3, RestsSlice
<1> QED
  BY <1>1, <1>2, <1>3, <1>4, <1>5 DEF Reads

(***************************************************************************)
(* What a call of decode makes of it: it goes on to the next part of the   *)
(* stream, or waits at the same one.                                       *)
(***************************************************************************)
Goes(o, p, t, max, R, a, sent) ==
    /\ o.ends = "returns" /\ ~o.more /\ Unread(o.buf, t)
    /\ o.buf.reader # p \/ o.dec.state # dec.state
    /\ \E j \in 1 .. Len(R) + 1 : Reads(max, R, j, a, o.buf.reader, o.dec, sent \o o.msgs)
Stays(o, p, t, max, R, i, a, sent) ==
    \E b2 : /\ Halts(o, b2, dec, p) /\ Unread(b2, t)
            /\ Reads(max, R, i, a, b2.reader, dec, sent) /\ Rests(max, R, i, a, b2.reader, dec)
Continues(o, p, t, max, R, i, a, sent) ==
    \/ Goes(o, p, t, max, R, a, sent) /\ ~Rests(max, R, i, a, p, dec)
    \/ Stays(o, p, t, max, R, i, a, sent)

LEMMA GoesChecked ==
    ASSUME NEW b2, NEW d2, NEW msgs, NEW o, o = Checked(b2, d2, msgs),
           NEW p, NEW t, NEW max, NEW R, NEW a, NEW sent, Unread(b2, t),
           b2.reader # p \/ d2.state # dec.state,
           NEW j \in 1 .. Len(R) + 1, NEW s2, s2 = sent \o msgs,
           Reads(max, R, j, a, b2.reader, d2, s2)
    PROVE  Goes(o, p, t, max, R, a, sent)
<1>1. o.buf = b2 /\ o.dec = d2 /\ o.msgs = msgs /\ o.ends = "returns" /\ ~o.more
  BY CheckedParts
<1> QED
  BY <1>1 DEF Goes

LEMMA GoesGoing ==
    ASSUME NEW b2, NEW d2, NEW msgs, NEW o, o = Going(b2, d2, msgs),
           NEW p, NEW t, NEW max, NEW R, NEW a, NEW sent, Unread(b2, t),
           b2.reader # p \/ d2.state # dec.state,
           NEW j \in 1 .. Len(R) + 1, NEW s2, s2 = sent \o msgs,
           Reads(max, R, j, a, b2.reader, d2, s2)
    PROVE  Goes(o, p, t, max, R, a, sent)
<1>1. o.buf = b2 /\ o.dec = d2 /\ o.msgs = msgs /\ o.ends = "returns" /\ ~o.more
  BY GoingParts
<1> QED
  BY <1>1 DEF Goes

LEMMA UnreadMove ==
    ASSUME NEW b, NEW t, IsBuffer(b), Unread(b, t), NEW q \in b.reader .. Len(b.bytes)
    PROVE  /\ Unread(MoveTo(b, q), t) /\ MoveTo(b, q).reader = q
           /\ IsBuffer(MoveTo(b, q)) /\ MoveTo(b, q).bytes = b.bytes
<1>1. b.reader \in Nat /\ Len(b.bytes) \in Nat
  BY BufferFacts
<1>2. q \in Nat /\ b.reader <= q /\ q \in 0 .. Len(b.bytes)
  BY <1>1
<1>3. PICK b2 : b2 = MoveTo(b, q)
  OBVIOUS
<1>4. b2.reader = q /\ b2.bytes = b.bytes /\ IsBuffer(b2)
  BY <1>2, <1>3, MoveType
<1>5. Same(b, t, q)
  BY <1>1, <1>2, SameLater DEF Unread
<1>6. Unread(b2, t)
  BY <1>4, <1>5 DEF Unread, Same
<1> QED
  BY <1>3, <1>4, <1>6

LEMMA StaysWaiting ==
    ASSUME NEW b, NEW o, o = Waiting(b, dec), NEW t, IsBuffer(b), Unread(b, t), NEW p, p = b.reader,
           NEW max, NEW R, NEW i, NEW a, NEW sent,
           Reads(max, R, i, a, p, dec, sent), Rests(max, R, i, a, p, dec)
    PROVE  Stays(o, p, t, max, R, i, a, sent)
<1>1. PICK d : d = dec
  OBVIOUS
<1>2. o = Waiting(b, d)
  BY <1>1
<1>3. o.buf = b /\ o.dec = d /\ o.msgs = <<>> /\ o.ends = "returns" /\ o.more /\ ~o.checked
  BY <1>2, WaitingParts
<1>4. PICK b2 : b2 = MoveTo(b, p)
  OBVIOUS
<1>5. p \in b.reader .. Len(b.bytes)
  BY BufferFacts
<1>6. Unread(b2, t) /\ b2.reader = p
  BY <1>4, <1>5, UnreadMove
<1>7. (IF o.checked THEN o.buf ELSE MoveTo(o.buf, p)) = b2
  BY <1>3, <1>4
<1>8. Halts(o, b2, d, p)
  BY <1>3, <1>7 DEF Halts
<1>9. Halts(o, b2, dec, p)
  BY <1>1, <1>8
<1> QED
  BY <1>6, <1>9 DEF Stays

LEMMA StepSkip ==
    ASSUME NEW b, NEW t, NEW R, NEW a, Context(b, t, R, a), dec \in Decoders,
           NEW max \in Nat \ {0}, NEW i \in 1 .. Len(R) + 1, NEW sent,
           Skips(max, R, i, b.reader, dec, sent), NEW o, o = skipControlCharacters(b)
    PROVE  Continues(o, b.reader, t, max, R, i, a, sent)
<1>1. /\ IsBuffer(b) /\ R \in Seq(Requests) /\ Len(R) \in Nat /\ a \in Nat
      /\ b.reader \in Nat /\ b.reader <= a /\ Len(b.bytes) = a
  BY ContextFacts
<1>2. Unread(b, t)
  BY DEF Context
<1>3. dec.state = "SKIP_CONTROL_CHARS" /\ sent = SentBefore(max, R, i)
  BY DEF Skips
<1>4. b.reader \in Start(R, i) .. LeadEnd(R, i)
  BY DEF Skips
<1>5. CASE a <= LeadEnd(R, i) /\ Halts(o, MoveTo(b, a), dec, b.reader)
  <2>1. PICK b2 : b2 = MoveTo(b, a)
    OBVIOUS
  <2>2. a \in b.reader .. Len(b.bytes)
    BY <1>1
  <2>3. Unread(b2, t) /\ b2.reader = a
    BY <1>1, <1>2, <2>1, <2>2, UnreadMove
  <2>4. a \in Start(R, i) .. LeadEnd(R, i)
    <3>1. PICK s, e, p : s = Start(R, i) /\ e = LeadEnd(R, i) /\ p = b.reader
      OBVIOUS
    <3>2. p \in s .. e /\ a <= e /\ p <= a
      BY <1>1, <1>4, <1>5, <3>1
    <3>3. s \in Nat
      BY <1>1, <3>1, StartMono
    <3>4. e \in Int
      <4>1. \A k \in 1 .. Len(R) : HeadAt(R, k) \in Nat
        BY <1>1, StartNext DEF Places
      <4> QED
        BY <1>1, <3>1, <3>3, <4>1 DEF LeadEnd
    <3>5. a \in s .. e
      BY <1>1, <3>2, <3>3, <3>4
    <3> QED
      BY <3>1, <3>5
  <2>5. Skips(max, R, i, a, dec, sent)
    BY <1>3, <2>4 DEF Skips
  <2>6. Reads(max, R, i, a, a, dec, sent) /\ Rests(max, R, i, a, a, dec)
    BY <1>3, <2>5 DEF Reads, Rests
  <2>7. Stays(o, b.reader, t, max, R, i, a, sent)
    BY <1>5, <2>1, <2>3, <2>6 DEF Stays
  <2> QED
    BY <2>7 DEF Continues
<1>6. CASE /\ i <= Len(R) /\ HeadAt(R, i) < a
           /\ o = Checked(MoveTo(b, HeadAt(R, i)),
                          DecOf("READ_INITIAL", dec.chunkSize, dec.fields), <<>>)
  <2>1. PICK h, b2, s, d2, e : /\ h = HeadAt(R, i) /\ b2 = MoveTo(b, h) /\ s = "READ_INITIAL"
                            /\ d2 = DecOf(s, dec.chunkSize, dec.fields) /\ e = <<>>
    OBVIOUS
  <2>2. i \in 1 .. Len(R)
    BY <1>1, <1>6
  <2>3. h \in Nat
    BY <1>1, <2>1, <2>2, StartNext DEF Places
  <2>4. b.reader <= h /\ h < a
    <3>1. b.reader \in Start(R, i) .. h
      BY <1>4, <1>6, <2>1 DEF LeadEnd
    <3>2. Start(R, i) \in Nat
      BY <1>1, StartMono
    <3>3. h < a
      BY <1>6, <2>1
    <3> QED
      BY <2>3, <3>1, <3>2, <3>3
  <2>5. h \in b.reader .. Len(b.bytes)
    BY <1>1, <2>3, <2>4
  <2>6. Unread(b2, t) /\ b2.reader = h
    BY <1>1, <1>2, <2>1, <2>5, UnreadMove
  <2>7. d2.state = s /\ d2.state = "READ_INITIAL"
    BY <2>1, DecParts
  <2>8. sent \in Seq(Messages)
    BY <1>1, <1>3, SentSeq
  <2>9. sent \o e = sent
    BY <2>1, <2>8, ConcatEmptySeq
  <2>10. ReadsInitial(max, R, i, a, h, d2, sent)
    BY <1>3, <1>6, <2>1, <2>4, <2>7 DEF ReadsInitial
  <2>11. Reads(max, R, i, a, b2.reader, d2, sent)
    BY <2>6, <2>10 DEF Reads
  <2>12. o = Checked(b2, d2, e)
    BY <1>6, <2>1
  <2>13. d2.state # dec.state
    BY <1>3, <2>7
  <2>14. Goes(o, b.reader, t, max, R, a, sent)
    BY <2>6, <2>9, <2>11, <2>12, <2>13, GoesChecked
  <2>15. b.reader # a
    BY <1>1, <2>3, <2>4
  <2>16. ~Rests(max, R, i, a, b.reader, dec)
    BY <1>3, <2>15 DEF Rests
  <2> QED
    BY <2>14, <2>16 DEF Continues
<1> QED
  BY <1>4, <1>5, <1>6, SkipStep

LEMMA StepInitial ==
    ASSUME NEW b, NEW t, NEW R, NEW a, Context(b, t, R, a), dec \in Decoders,
           NEW max \in Nat \ {0}, NEW i \in 1 .. Len(R) + 1, NEW sent,
           ReadsInitial(max, R, i, a, b.reader, dec, sent), NEW o, o = ReadInitial(b)
    PROVE  Continues(o, b.reader, t, max, R, i, a, sent)
<1>1. /\ IsBuffer(b) /\ R \in Seq(Requests) /\ Len(R) \in Nat /\ a \in Nat
      /\ b.reader \in Nat /\ b.reader <= a /\ Len(b.bytes) = a
  BY ContextFacts
<1>2. Unread(b, t)
  BY DEF Context
<1>3. dec.state = "READ_INITIAL" /\ sent = SentBefore(max, R, i)
  BY DEF ReadsInitial
<1>4. i <= Len(R) /\ b.reader = HeadAt(R, i) /\ b.reader < a
  BY DEF ReadsInitial
<1>5. i \in 1 .. Len(R)
  BY <1>1, <1>4
<1>6. PICK f, b2, s, d2, e : /\ f = FieldsAt(R, i) /\ b2 = MoveTo(b, f) /\ s = "READ_HEADER" /\ e = <<>>
                             /\ d2 = DecOf(s, dec.chunkSize, e)
  OBVIOUS
<1>7. f <= a /\ o = Checked(b2, d2, e)
  <2>1. HeadAt(R, i) < a
    BY <1>4
  <2> QED
    BY <1>4, <1>5, <1>6, <2>1, InitialStep
<1>8. f \in Nat /\ HeadAt(R, i) < f
  BY <1>1, <1>5, <1>6, StartNext DEF Places
<1>9. f \in b.reader .. Len(b.bytes) /\ f # b.reader
  BY <1>1, <1>4, <1>7, <1>8
<1>10. Unread(b2, t) /\ b2.reader = f
  BY <1>1, <1>2, <1>6, <1>9, UnreadMove
<1>11. d2.state = "READ_HEADER" /\ d2.fields = <<>>
  BY <1>6, DecParts
<1>12. sent \in Seq(Messages)
  BY <1>1, <1>3, SentSeq
<1>13. sent \o e = sent
  BY <1>6, <1>12, ConcatEmptySeq
<1>14. ReadsHeader(max, R, i, f, d2, sent)
  BY <1>3, <1>4, <1>6, <1>11 DEF ReadsHeader
<1>15. Reads(max, R, i, a, b2.reader, d2, sent)
  BY <1>10, <1>14 DEF Reads
<1>16. Goes(o, b.reader, t, max, R, a, sent)
  BY <1>7, <1>9, <1>10, <1>13, <1>15, GoesChecked
<1>17. ~Rests(max, R, i, a, b.reader, dec)
  BY <1>3 DEF Rests
<1> QED
  BY <1>16, <1>17 DEF Continues

(***************************************************************************)
(* After the headers: the request is complete, or its content follows.     *)
(***************************************************************************)
LEMMA MaxWithZero ==
    ASSUME NEW n \in Nat \cup {-1}
    PROVE  (n <= 0 => Max({0, n}) = 0) /\ (~(n <= 0) => Max({0, n}) = n)
<1>1. n \in Int
  OBVIOUS
<1>2. ASSUME n <= 0 PROVE Max({0, n}) = 0
  <2>1. 0 \in {0, n} /\ \A y \in {0, n} : 0 >= y
    BY <1>1, <1>2
  <2>2. \A x \in {0, n} : (\A y \in {0, n} : x >= y) => x = 0
    BY <1>1, <1>2
  <2> QED
    BY <2>1, <2>2 DEF Max
<1>3. ASSUME ~(n <= 0) PROVE Max({0, n}) = n
  <2>1. n \in {0, n} /\ \A y \in {0, n} : n >= y
    BY <1>1, <1>3
  <2>2. \A x \in {0, n} : (\A y \in {0, n} : x >= y) => x = n
    BY <1>1, <1>3
  <2> QED
    BY <2>1, <2>2 DEF Max
<1> QED
  BY <1>2, <1>3

LEMMA ContentIs ==
    ASSUME NEW r \in Requests, WellFormed(r), NEW n, n = getContentLength(r.fields),
           NEW max \in Nat \ {0}
    PROVE  /\ ~isChunked(r.fields) /\ n \in Int /\ Len(r.body) \in Nat
           /\ n <= 0 => Len(r.body) = 0 /\ r.body = <<>> /\ ~Sliced(max, r)
           /\ ~(n <= 0) => Len(r.body) = n /\ r.body # <<>>
           /\ ~(n <= 0) => (Sliced(max, r) <=> (n > max \/ is100ContinueExpected(r.fields)))
<1>1. PICK y, l : y = r.body /\ l = Len(y)
  OBVIOUS
<1>2. y \in Seq(Bytes) /\ l \in Nat /\ r.fields \in Seq(Fields)
  BY <1>1, RequestFacts, TextLen
<1>3. n \in Nat \cup {-1}
  BY <1>2, ContentLengthType
<1>4. ~isChunked(r.fields) /\ l = Max({0, n})
  BY <1>1 DEF WellFormed
<1>5. (n <= 0 => l = 0) /\ (~(n <= 0) => l = n)
  BY <1>3, <1>4, MaxWithZero
<1>6. n \in Int
  BY <1>3
<1>7. l = 0 => y = <<>>
  BY <1>1, <1>2, EmptySeq
<1>8. y = <<>> => l = 0
  BY <1>1, EmptySeq
<1>9. ~(n <= 0) => l # 0
  BY <1>5, <1>6
<1>10. ~(n <= 0) => y # <<>>
  BY <1>8, <1>9
<1>11. n <= 0 => y = <<>>
  BY <1>5, <1>7
<1>12. n <= 0 => ~Sliced(max, r)
  BY <1>1, <1>11 DEF Sliced
<1>13. ~(n <= 0) => (Sliced(max, r) <=> (n > max \/ is100ContinueExpected(r.fields)))
  BY <1>1, <1>5, <1>10 DEF Sliced
<1> QED
  BY <1>1, <1>2, <1>4, <1>5, <1>6, <1>10, <1>11, <1>12, <1>13

LEMMA NextRequest ==
    ASSUME NEW max \in Nat \ {0}, NEW R \in Seq(Requests), NEW i \in 1 .. Len(R), NEW a,
           NEW d, d.state = "SKIP_CONTROL_CHARS", NEW s2,
           s2 = SentBefore(max, R, i) \o Full(max, R[i])
    PROVE  i + 1 \in 1 .. Len(R) + 1 /\ Reads(max, R, i + 1, a, Start(R, i + 1), d, s2)
<1>1. PICK l, j, p : l = Len(R) /\ j = i + 1 /\ p = Start(R, j)
  OBVIOUS
<1>2. l \in Nat /\ j \in 1 .. l + 1
  BY <1>1, LenProperties
<1>3. p \in Nat
  BY <1>1, <1>2, StartMono
<1>4. p \in p .. LeadEnd(R, j)
  <2>1. CASE j <= l
    <3>1. j \in 1 .. Len(R)
      BY <1>1, <1>2, <2>1
    <3>2. PICK h, x : h = HeadAt(R, j) /\ x = Len(R[j].lead)
      OBVIOUS
    <3>3. h \in Nat /\ x \in Nat /\ h = p + x
      BY <1>1, <3>1, <3>2, StartNext DEF Places
    <3>4. p \in p .. h
      BY <1>3, <3>3
    <3> QED
      BY <1>1, <2>1, <3>2, <3>4 DEF LeadEnd
  <2>2. CASE ~(j <= l)
    BY <1>1, <1>3, <2>2 DEF LeadEnd
  <2> QED
    BY <2>1, <2>2
<1>5. SentBefore(max, R, j) = s2
  BY <1>1, SentStep
<1>6. Skips(max, R, j, p, d, s2)
  BY <1>1, <1>4, <1>5 DEF Skips
<1> QED
  BY <1>1, <1>2, <1>6 DEF Reads

LEMMA NoSlices ==
    ASSUME NEW max \in Nat \ {0}, NEW r \in Requests
    PROVE  SlicesSent(max, r, 0) = <<Message(r.fields, TRUE, <<>>)>>
<1>1. PICK z, x, m : /\ z = 0 /\ m = <<Message(r.fields, TRUE, <<>>)>>
                     /\ x = [j \in 1 .. z |-> Chunk(SliceOf(max, r.body, j))]
  OBVIOUS
<1>2. z \in Nat /\ z = 0
  BY <1>1
<1>3. x \in Seq(Messages) /\ m \in Seq(Messages) /\ Len(x) = z
  BY <1>1, <1>2, SentType
<1>4. x = <<>>
  BY <1>2, <1>3, EmptySeq
<1>5. m \o x = m
  BY <1>3, <1>4, ConcatEmptySeq
<1>6. SlicesSent(max, r, z) = m \o x
  BY <1>1 DEF SlicesSent
<1> QED
  BY <1>1, <1>5, <1>6

LEMMA HeaderGoes ==
    ASSUME NEW R \in Seq(Requests), NEW i \in 1 .. Len(R), WellFormed(R[i]), NEW a,
           dec \in Decoders, NEW max \in Nat \ {0}, max = setup.max, NEW sent,
           sent = SentBefore(max, R, i), NEW t,
           NEW b2, b2.reader = BodyAt(R, i), Unread(b2, t), NEW p, p = FieldsAt(R, i),
           NEW o, o = HeadersRead(b2, R[i].fields)
    PROVE  Goes(o, p, t, max, R, a, sent)
<1>1. PICK r, f, n, c, l, q : /\ r = R[i] /\ f = r.fields /\ n = getContentLength(f) /\ c = dec.chunkSize
                              /\ l = Len(R) /\ q = BodyAt(R, i)
  OBVIOUS
<1>2. r \in Requests /\ Places(R, i) /\ l \in Nat
  BY <1>1, StartNext, LenProperties
<1>3. f \in Seq(Fields) /\ WellFormed(r)
  BY <1>1, <1>2, RequestFacts
<1>4. /\ ~isChunked(f) /\ n \in Int /\ Len(r.body) \in Nat
      /\ n <= 0 => Len(r.body) = 0 /\ r.body = <<>> /\ ~Sliced(max, r)
      /\ ~(n <= 0) => Len(r.body) = n /\ r.body # <<>>
      /\ ~(n <= 0) => (Sliced(max, r) <=> (n > max \/ is100ContinueExpected(f)))
  BY <1>1, <1>2, <1>3, ContentIs
<1>5. q \in Nat /\ FieldsAt(R, i) \in Nat /\ FieldsAt(R, i) < q /\ Start(R, i + 1) = q + Len(r.body)
  BY <1>1, <1>2 DEF Places
<1>6. b2.reader # p
  BY <1>1, <1>5
<1>7. sent \in Seq(Messages)
  BY SentStep
<1>8. i \in 1 .. Len(R) + 1 /\ i <= Len(R)
  BY <1>1, <1>2
<1>c. n = getContentLength(f) /\ c = dec.chunkSize /\ f \in Seq(Fields)
  BY <1>1, <1>3
<1>r. /\ ~isChunked(f) /\ n <= 0 =>
             HeadersRead(b2, f)
               = Checked(b2, DecOf("SKIP_CONTROL_CHARS", c, f), <<Message(f, FALSE, <<>>)>>)
      /\ ~isChunked(f) /\ ~(n <= 0) /\ ~(n > setup.max \/ is100ContinueExpected(f)) =>
             HeadersRead(b2, f) = Checked(b2, DecOf("READ_FIXED_LENGTH_CONTENT", c, f), <<>>)
  BY <1>c, HeadersReadIs
<1>k. ~isChunked(f) /\ ~(n <= 0) /\ (n > setup.max \/ is100ContinueExpected(f)) =>
          HeadersRead(b2, f) = Checked(b2, DecOf("READ_FIXED_LENGTH_CONTENT_AS_CHUNKS", n, f),
                                       <<Message(f, TRUE, <<>>)>>)
  BY <1>c, HeadersReadIs
<1>9. CASE n <= 0
  <2>1. PICK s, d2, e, no, m : /\ s = "SKIP_CONTROL_CHARS" /\ d2 = DecOf(s, c, f) /\ e = <<>> /\ no = FALSE
                               /\ m = <<Message(f, no, e)>>
    OBVIOUS
  <2>2. o = Checked(b2, d2, m)
    <3>1. HeadersRead(b2, f) = Checked(b2, DecOf("SKIP_CONTROL_CHARS", c, f), <<Message(f, FALSE, <<>>)>>)
      BY <1>4, <1>9, <1>r
    <3> QED
      BY <1>1, <2>1, <3>1
  <2>3. m = Whole(r)
    BY <1>1, <1>4, <1>9, <2>1 DEF Whole
  <2>4. Full(max, r) = Whole(r)
    <3>1. PICK k : WholeSlices(max, r, k)
      <4>1. Len(r.body) \in Nat
        BY <1>4
      <4> QED
        BY <4>1, LastSlice DEF WholeSlices
    <3> QED
      BY <1>2, <1>4, <1>9, <3>1, FullIs
  <2>5. d2.state = "SKIP_CONTROL_CHARS"
    BY <2>1, DecParts
  <2>6. PICK s2, j : s2 = sent \o m /\ j = i + 1
    OBVIOUS
  <2>7. s2 = SentBefore(max, R, i) \o Full(max, R[i])
    BY <1>1, <2>3, <2>4, <2>6
  <2>8. j \in 1 .. Len(R) + 1 /\ Reads(max, R, j, a, Start(R, j), d2, s2)
    BY <2>5, <2>6, <2>7, NextRequest
  <2>9. Start(R, j) = q
    BY <1>4, <1>5, <1>9, <2>6
  <2>10. Reads(max, R, j, a, b2.reader, d2, s2)
    BY <1>1, <2>8, <2>9
  <2> QED
    BY <1>6, <2>2, <2>6, <2>8, <2>10, GoesChecked
<1>10. CASE ~(n <= 0) /\ (n > max \/ is100ContinueExpected(f))
  <2>1. PICK s, d2, m : /\ s = "READ_FIXED_LENGTH_CONTENT_AS_CHUNKS" /\ d2 = DecOf(s, n, f)
                        /\ m = <<Message(f, TRUE, <<>>)>>
    OBVIOUS
  <2>2. o = Checked(b2, d2, m)
    <3>1. ~isChunked(f) /\ ~(n <= 0) /\ (n > setup.max \/ is100ContinueExpected(f))
      BY <1>4, <1>10
    <3>2. HeadersRead(b2, f) = Checked(b2, DecOf("READ_FIXED_LENGTH_CONTENT_AS_CHUNKS", n, f),
                                       <<Message(f, TRUE, <<>>)>>)
      BY <1>k, <3>1
    <3> QED
      BY <1>1, <2>1, <3>2
  <2>3. d2.state = "READ_FIXED_LENGTH_CONTENT_AS_CHUNKS" /\ d2.chunkSize = n
    BY <2>1, DecParts
  <2>4. PICK k, s2 : k = 0 /\ s2 = sent \o m
    OBVIOUS
  <2>5. m = SlicesSent(max, r, k)
    BY <1>1, <1>2, <2>1, <2>4, NoSlices
  <2>6. Sliced(max, r)
    BY <1>4, <1>10
  <2>7. k \in Nat /\ k * max = 0 /\ k * max < Len(r.body) /\ q = q + k * max /\ n = Len(r.body) - k * max
    <3>1. 0 * max = 0
      OBVIOUS
    <3>2. Len(r.body) = n /\ n \in Int /\ ~(n <= 0)
      BY <1>4, <1>10
    <3> QED
      BY <1>5, <2>4, <3>1, <3>2
  <2>8. ReadsSlice(max, R, i, q, d2, s2, k)
    <3>1. s2 = SentBefore(max, R, i) \o SlicesSent(max, R[i], k)
      BY <1>1, <2>4, <2>5
    <3>2. k * max < Len(R[i].body) /\ q = BodyAt(R, i) + k * max
      BY <1>1, <2>7
    <3>3. d2.chunkSize = Len(R[i].body) - k * max
      BY <1>1, <2>3, <2>7
    <3> QED
      BY <1>1, <1>8, <2>3, <2>6, <2>7, <3>1, <3>2, <3>3 DEF ReadsSlice
  <2>9. Reads(max, R, i, a, b2.reader, d2, s2)
    BY <1>1, <2>8 DEF Reads
  <2> QED
    BY <1>6, <1>8, <2>2, <2>4, <2>9, GoesChecked
<1>11. CASE ~(n <= 0) /\ ~(n > max \/ is100ContinueExpected(f))
  <2>1. PICK s, d2, e : /\ s = "READ_FIXED_LENGTH_CONTENT" /\ d2 = DecOf(s, c, f) /\ e = <<>>
    OBVIOUS
  <2>2. o = Checked(b2, d2, e)
    <3>1. ~isChunked(f) /\ ~(n <= 0) /\ ~(n > setup.max \/ is100ContinueExpected(f))
      BY <1>4, <1>11
    <3>2. HeadersRead(b2, f) = Checked(b2, DecOf("READ_FIXED_LENGTH_CONTENT", c, f), <<>>)
      BY <1>r, <3>1
    <3> QED
      BY <1>1, <2>1, <3>2
  <2>3. d2.state = "READ_FIXED_LENGTH_CONTENT" /\ d2.fields = f
    BY <2>1, DecParts
  <2>4. ~Sliced(max, r) /\ r.body # <<>>
    BY <1>4, <1>11
  <2>5. ReadsFixed(max, R, i, q, d2, sent)
    BY <1>1, <1>8, <2>3, <2>4 DEF ReadsFixed
  <2>6. Reads(max, R, i, a, b2.reader, d2, sent)
    BY <1>1, <2>5 DEF Reads
  <2>7. sent \o e = sent
    BY <1>7, <2>1, ConcatEmptySeq
  <2> QED
    BY <1>6, <1>8, <2>2, <2>6, <2>7, GoesChecked
<1> QED
  BY <1>9, <1>10, <1>11

LEMMA StepHeader ==
    ASSUME NEW b, NEW t, NEW R, NEW a, Context(b, t, R, a), dec \in Decoders,
           NEW max \in Nat \ {0}, max = setup.max, NEW i \in 1 .. Len(R) + 1, NEW sent,
           ReadsHeader(max, R, i, b.reader, dec, sent), NEW o, o = ReadHeader(b)
    PROVE  Continues(o, b.reader, t, max, R, i, a, sent)
<1>1. /\ IsBuffer(b) /\ R \in Seq(Requests) /\ Len(R) \in Nat /\ a \in Nat
      /\ b.reader \in Nat /\ b.reader <= a /\ Len(b.bytes) = a
  BY ContextFacts
<1>2. Unread(b, t)
  BY DEF Context
<1>3. dec.state = "READ_HEADER" /\ sent = SentBefore(max, R, i) /\ dec.fields = <<>>
  BY DEF ReadsHeader
<1>4. i <= Len(R) /\ b.reader = FieldsAt(R, i)
  BY DEF ReadsHeader
<1>5. i \in 1 .. Len(R)
  BY <1>1, <1>4
<1>6. CASE a < BodyAt(R, i)
  <2>1. Halts(o, b, dec, b.reader)
    BY <1>3, <1>4, <1>5, <1>6, HeaderWaits
  <2>2. Reads(max, R, i, a, b.reader, dec, sent)
    BY DEF Reads
  <2>3. Rests(max, R, i, a, b.reader, dec)
    BY <1>3, <1>6 DEF Rests
  <2>4. Stays(o, b.reader, t, max, R, i, a, sent)
    BY <1>2, <2>1, <2>2, <2>3 DEF Stays
  <2> QED
    BY <2>4 DEF Continues
<1>7. CASE ~(a < BodyAt(R, i))
  <2>1. BodyAt(R, i) \in Nat
    BY <1>1, <1>5, StartNext DEF Places
  <2>2. BodyAt(R, i) <= a
    BY <1>1, <1>7, <2>1
  <2>3. PICK b2 : /\ b2.reader = BodyAt(R, i) /\ Unread(b2, t)
                  /\ o = HeadersRead(b2, R[i].fields)
    BY <1>3, <1>4, <1>5, <2>2, HeaderStep
  <2>4. WellFormed(R[i])
    BY <1>5, ContextFacts
  <2>5. Goes(o, b.reader, t, max, R, a, sent)
    BY <1>1, <1>3, <1>4, <1>5, <2>3, <2>4, HeaderGoes
  <2>6. ~Rests(max, R, i, a, b.reader, dec)
    BY <1>3, <1>7 DEF Rests
  <2> QED
    BY <2>5, <2>6 DEF Continues
<1> QED
  BY <1>6, <1>7

(***************************************************************************)
(* The content of a request, whole or in slices.                           *)
(***************************************************************************)
LEMMA SliceOfBody ==
    ASSUME NEW b, NEW t, NEW R, NEW a, Context(b, t, R, a), NEW i \in 1 .. Len(R),
           NEW z \in Nat, NEW n \in Nat, b.reader = BodyAt(R, i) + z, z + n <= Len(R[i].body),
           n <= readableBytes(b)
    PROVE  /\ Slice(b, n) = SubSeq(R[i].body, z + 1, z + n) /\ Slice(b, n) \in Seq(Bytes)
           /\ b.reader + n \in b.reader .. Len(b.bytes)
<1>1. PICK w, q, p, x, y, e : /\ w = R[i].body /\ q = BodyAt(R, i) /\ p = b.reader /\ x = Slice(b, n)
                              /\ y = SubSeq(w, z + 1, z + n) /\ e = readableBytes(b)
  OBVIOUS
<1>2. /\ IsBuffer(b) /\ Len(b.bytes) = a /\ a \in Nat /\ R[i] \in Requests /\ Placed(t, R, i) /\ Places(R, i)
  BY ContextFacts
<1>3. q \in Nat /\ w \in Seq(Bytes)
  BY <1>1, <1>2, RequestFacts DEF Places
<1>4. e \in Nat /\ a = p + e /\ p \in Nat
  BY <1>1, <1>2, BufferFacts
<1>5. n \in 0 .. readableBytes(b) /\ p + n \in p .. a
  BY <1>1, <1>4
<1>6. x \in Seq(Bytes) /\ Len(x) = n /\ \A j \in 1 .. n : x[j] = b.bytes[p + j]
  BY <1>1, <1>2, <1>5, SliceType
<1>7. y \in Seq(Bytes) /\ Len(y) = n /\ \A j \in 1 .. n : y[j] = w[z + j]
  <2>1. z + n <= Len(w)
    BY <1>1
  <2>2. w \in Seq(Bytes) /\ y = SubSeq(w, z + 1, z + n)
    BY <1>1, <1>3
  <2>3. /\ SubSeq(w, z + 1, z + n) \in Seq(Bytes) /\ Len(SubSeq(w, z + 1, z + n)) = n
        /\ \A j \in 1 .. n : SubSeq(w, z + 1, z + n)[j] = w[z + j]
    BY <2>1, <2>2, PartOf
  <2> QED
    BY <2>2, <2>3
<1>8. \A j \in 1 .. Len(w) : t[q + j] = w[j]
  BY <1>1, <1>2 DEF Placed, At
<1>9. \A j \in p + 1 .. a : b.bytes[j] = t[j]
  BY <1>1, <1>2 DEF Context, Unread, Same
<1>10. p = q + z /\ z + n <= Len(w) /\ Len(w) \in Nat /\ n <= e
  BY <1>1, <1>3, LenProperties
<1>11. ASSUME NEW j \in 1 .. n PROVE x[j] = y[j]
  <2>1. PICK k, m : k = z + j /\ m = p + j
    OBVIOUS
  <2>2. k \in 1 .. Len(w) /\ m \in p + 1 .. a /\ m = q + k
    BY <1>3, <1>4, <1>10, <2>1
  <2>3. x[j] = b.bytes[m] /\ y[j] = w[k]
    BY <1>6, <1>7, <2>1
  <2>4. b.bytes[m] = t[m]
    BY <1>9, <2>2
  <2>5. t[m] = w[k]
    BY <1>8, <2>2
  <2> QED
    BY <2>3, <2>4, <2>5
<1>12. x = y
  <2>1. Len(x) = Len(y) /\ \A j \in 1 .. Len(x) : x[j] = y[j]
    BY <1>6, <1>7, <1>11
  <2>2. x \in Seq(Bytes) /\ y \in Seq(Bytes)
    BY <1>6, <1>7
  <2> QED
    BY <2>1, <2>2, SeqEqual
<1> QED
  BY <1>1, <1>2, <1>5, <1>6, <1>12

LEMMA StepFixed ==
    ASSUME NEW b, NEW t, NEW R, NEW a, Context(b, t, R, a), dec \in Decoders,
           NEW max \in Nat \ {0}, NEW i \in 1 .. Len(R) + 1, NEW sent,
           ReadsFixed(max, R, i, b.reader, dec, sent), NEW o, o = ReadFixedLength(b)
    PROVE  Continues(o, b.reader, t, max, R, i, a, sent)
<1>1. /\ IsBuffer(b) /\ R \in Seq(Requests) /\ Len(R) \in Nat /\ a \in Nat
      /\ b.reader \in Nat /\ b.reader <= a /\ Len(b.bytes) = a
  BY ContextFacts
<1>2. Unread(b, t)
  BY DEF Context
<1>3. dec.state = "READ_FIXED_LENGTH_CONTENT"
  BY DEF ReadsFixed
<1>4. /\ i <= Len(R) /\ b.reader = BodyAt(R, i) /\ dec.fields = R[i].fields /\ R[i].body # <<>>
      /\ ~Sliced(max, R[i]) /\ sent = SentBefore(max, R, i)
  BY DEF ReadsFixed
<1>5. i \in 1 .. Len(R)
  BY <1>1, <1>4
<1>6. PICK r, f, n, c, p, e : /\ r = R[i] /\ f = r.fields /\ n = getContentLength(f) /\ c = dec.chunkSize
                              /\ p = b.reader /\ e = readableBytes(b)
  OBVIOUS
<1>7. r \in Requests /\ WellFormed(r) /\ Places(R, i)
  BY <1>5, <1>6, ContextFacts
<1>8. /\ n \in Int /\ Len(r.body) \in Nat
      /\ n <= 0 => r.body = <<>>
      /\ ~(n <= 0) => Len(r.body) = n
  BY <1>6, <1>7, ContentIs
<1>9. ~(n <= 0)
  BY <1>4, <1>6, <1>8
<1>10. n \in Nat /\ Len(r.body) = n /\ n > 0
  BY <1>8, <1>9
<1>11. e \in Nat /\ a = p + e /\ p \in Nat
  BY <1>1, <1>6, BufferFacts
<1>12. n = getContentLength(dec.fields)
  BY <1>4, <1>6
<1>13. CASE e < n
  <2>1. readableBytes(b) < n
    BY <1>6, <1>13
  <2>2. o = Waiting(b, dec)
    BY <1>12, <2>1, FixedIs
  <2>3. Reads(max, R, i, a, p, dec, sent)
    BY <1>6 DEF Reads
  <2>4. a - p < Len(R[i].body)
    BY <1>6, <1>10, <1>11, <1>13
  <2>5. Rests(max, R, i, a, p, dec)
    BY <1>3, <2>4 DEF Rests
  <2>6. Stays(o, p, t, max, R, i, a, sent)
    BY <1>1, <1>2, <1>6, <2>2, <2>3, <2>5, StaysWaiting
  <2> QED
    BY <1>6, <2>6 DEF Continues
<1>14. CASE ~(e < n)
  <2>1. PICK s, d2, no, x, m, b2, p2 : /\ s = "SKIP_CONTROL_CHARS" /\ d2 = DecOf(s, c, f) /\ no = FALSE
              /\ x = Slice(b, n) /\ m = <<Message(f, no, x)>> /\ p2 = p + n /\ b2 = MoveTo(b, p2)
    OBVIOUS
  <2>2. ~(readableBytes(b) < n)
    BY <1>6, <1>14
  <2>3. o = Checked(b2, d2, m)
    <3>1. ReadFixedLength(b) = Checked(MoveTo(b, b.reader + n),
                                DecOf("SKIP_CONTROL_CHARS", dec.chunkSize, dec.fields),
                                <<Message(dec.fields, FALSE, Slice(b, n))>>)
      BY <1>12, <2>2, FixedIs
    <3>2. dec.fields = f /\ dec.chunkSize = c
      BY <1>4, <1>6
    <3>3. ReadFixedLength(b) = Checked(MoveTo(b, b.reader + n), DecOf("SKIP_CONTROL_CHARS", c, f),
                                       <<Message(f, FALSE, Slice(b, n))>>)
      BY <3>1, <3>2
    <3> QED
      BY <1>6, <2>1, <3>3
  <2>4. x = SubSeq(r.body, 1, n) /\ p2 \in b.reader .. Len(b.bytes)
    <3>1. PICK z, q : z = 0 /\ q = BodyAt(R, i)
      OBVIOUS
    <3>2. q \in Nat
      BY <1>7, <3>1 DEF Places
    <3>3. p = q
      BY <1>4, <1>6, <3>1
    <3>4. z \in Nat /\ p = q + z /\ z + n <= n /\ z + 1 = 1 /\ z + n = n
      BY <1>10, <3>1, <3>2, <3>3
    <3>5. n <= e
      BY <1>10, <1>11, <1>14
    <3>6. b.reader = BodyAt(R, i) + z /\ z + n <= Len(R[i].body) /\ n <= readableBytes(b)
      BY <1>6, <1>10, <3>1, <3>4, <3>5
    <3>7. Slice(b, n) = SubSeq(R[i].body, z + 1, z + n) /\ b.reader + n \in b.reader .. Len(b.bytes)
      BY <1>5, <1>10, <3>4, <3>6, SliceOfBody
    <3> QED
      BY <1>6, <2>1, <3>4, <3>7
  <2>5. x = r.body
    <3>1. r.body \in Seq(Bytes)
      BY <1>7, RequestFacts
    <3>2. SubSeq(r.body, 1, Len(r.body)) = r.body
      BY <3>1, SubSeqFull
    <3> QED
      BY <1>10, <2>4, <3>2
  <2>6. m = Whole(r)
    BY <1>6, <2>1, <2>5 DEF Whole
  <2>7. Full(max, r) = Whole(r)
    <3>1. PICK k : WholeSlices(max, r, k)
      <4>1. Len(r.body) \in Nat
        BY <1>8
      <4> QED
        BY <4>1, LastSlice DEF WholeSlices
    <3> QED
      BY <1>4, <1>6, <1>7, <3>1, FullIs
  <2>8. d2.state = "SKIP_CONTROL_CHARS"
    BY <2>1, DecParts
  <2>9. PICK s2, j : s2 = sent \o m /\ j = i + 1
    OBVIOUS
  <2>10. s2 = SentBefore(max, R, i) \o Full(max, R[i])
    BY <1>4, <1>6, <2>6, <2>7, <2>9
  <2>11. j \in 1 .. Len(R) + 1 /\ Reads(max, R, j, a, Start(R, j), d2, s2)
    BY <1>1, <1>5, <2>8, <2>9, <2>10, NextRequest
  <2>12. Start(R, j) = p2
    <3>1. Start(R, j) = BodyAt(R, i) + Len(r.body)
      BY <1>6, <1>7, <2>9 DEF Places
    <3> QED
      BY <1>4, <1>6, <1>10, <2>1, <3>1
  <2>13. Unread(b2, t) /\ b2.reader = p2
    BY <1>1, <1>2, <2>1, <2>4, UnreadMove
  <2>14. Reads(max, R, j, a, b2.reader, d2, s2)
    BY <2>11, <2>12, <2>13
  <2>15. p2 # p
    BY <1>10, <1>11, <2>1
  <2>16. Goes(o, p, t, max, R, a, sent)
    BY <2>3, <2>9, <2>11, <2>13, <2>14, <2>15, GoesChecked
  <2>17. ~(a - p < Len(R[i].body))
    BY <1>6, <1>10, <1>11, <1>14
  <2>18. ~Rests(max, R, i, a, p, dec)
    BY <1>3, <2>17 DEF Rests
  <2> QED
    BY <1>6, <2>16, <2>18 DEF Continues
<1> QED
  BY <1>13, <1>14

(* Slice k + 1 goes after the first k. *)
LEMMA SlicesGrow ==
    ASSUME NEW max \in Nat \ {0}, NEW r \in Requests, NEW k \in Nat, k * max < Len(r.body),
           NEW x, x = Chunk(SliceOf(max, r.body, k + 1))
    PROVE  /\ SlicesSent(max, r, k) \o <<x>> = SlicesSent(max, r, k + 1)
           /\ SlicesSent(max, r, k) \in Seq(Messages) /\ SlicesSent(max, r, k + 1) \in Seq(Messages)
           /\ <<x>> \in Seq(Messages)
<1>1. PICK m, y, z, k2, w, e : /\ m = <<Message(r.fields, TRUE, <<>>)>> /\ k2 = k + 1
               /\ y = [j \in 1 .. k |-> Chunk(SliceOf(max, r.body, j))]
               /\ z = [j \in 1 .. k2 |-> Chunk(SliceOf(max, r.body, j))]
               /\ e = <<x>> /\ w = k * max
  OBVIOUS
<1>2. k2 \in Nat /\ k2 - 1 = k /\ Len(r.body) \in Nat /\ w \in Nat
  BY <1>1, TextLen, Times
<1>3. k = 0 \/ (k - 1) * max < Len(r.body)
  <2>1. SUFFICES ASSUME k # 0 PROVE (k - 1) * max < Len(r.body)
    OBVIOUS
  <2>2. PICK k1, z1 : k1 = k - 1 /\ z1 = k1 * max
    OBVIOUS
  <2>3. k1 \in Nat /\ k1 <= k
    BY <2>1, <2>2
  <2>4. z1 <= w /\ z1 \in Nat
    BY <1>1, <2>2, <2>3, Times, TimesMono
  <2>5. w < Len(r.body)
    BY <1>1
  <2>6. z1 < Len(r.body)
    BY <1>2, <2>4, <2>5
  <2> QED
    BY <2>2, <2>6
<1>4. k2 = 0 \/ (k2 - 1) * max < Len(r.body)
  BY <1>2
<1>5. SlicesSent(max, r, k) \in Seq(Messages) /\ y \in Seq(Messages) /\ m \in Seq(Messages) /\ Len(y) = k
  BY <1>1, <1>3, SentType
<1>6. SlicesSent(max, r, k2) \in Seq(Messages) /\ z \in Seq(Messages) /\ Len(z) = k2
  BY <1>1, <1>2, <1>4, SentType
<1>7. z[k2] = x
  <2>1. k2 \in 1 .. k2
    BY <1>2, <1>1
  <2> QED
    BY <1>1, <2>1
<1>8. x \in Messages
  <2>1. k2 \in 1 .. Len(z)
    BY <1>1, <1>2, <1>6
  <2> QED
    BY <1>6, <1>7, <2>1, ElementOfSeq
<1>9. e \in Seq(Messages) /\ Len(e) = 1 /\ e[1] = x
  BY <1>1, <1>8
<1>10. z = y \o e
  <2>1. y \o e \in Seq(Messages) /\ Len(y \o e) = Len(y) + Len(e)
        /\ \A j \in 1 .. Len(y) + Len(e) : (y \o e)[j] = IF j <= Len(y) THEN y[j] ELSE e[j - Len(y)]
    <3>1. y \in Seq(Messages) /\ e \in Seq(Messages)
      BY <1>5, <1>9
    <3> QED
      BY <3>1, ConcatProperties
  <2>2. PICK v : v = y \o e
    OBVIOUS
  <2>3. /\ v \in Seq(Messages) /\ Len(v) = k2
        /\ \A j \in 1 .. k2 : v[j] = IF j <= k THEN y[j] ELSE e[j - k]
    BY <1>1, <1>5, <1>9, <2>1, <2>2
  <2>4. \A j \in 1 .. k2 : v[j] = z[j]
    <3> SUFFICES ASSUME NEW j \in 1 .. k2 PROVE v[j] = z[j]
      OBVIOUS
    <3>1. CASE j <= k
      <4>1. j \in 1 .. k
        BY <1>2, <3>1
      <4>2. y[j] = Chunk(SliceOf(max, r.body, j))
        BY <1>1, <4>1
      <4>3. z[j] = Chunk(SliceOf(max, r.body, j))
        BY <1>1
      <4> QED
        BY <2>3, <3>1, <4>2, <4>3
    <3>2. CASE ~(j <= k)
      <4>1. j = k2 /\ j - k = 1
        BY <1>1, <1>2, <3>2
      <4> QED
        BY <1>7, <1>9, <2>3, <3>2, <4>1
    <3> QED
      BY <3>1, <3>2
  <2>5. Len(v) = Len(z) /\ \A j \in 1 .. Len(v) : v[j] = z[j]
    BY <1>6, <2>3, <2>4
  <2>6. v \in Seq(Messages) /\ z \in Seq(Messages)
    BY <1>6, <2>3
  <2>7. v = z
    BY <2>5, <2>6, SeqEqual
  <2> QED
    BY <2>2, <2>7
<1>11. (m \o y) \o e = m \o (y \o e)
  <2>1. m \in Seq(Messages) /\ y \in Seq(Messages) /\ e \in Seq(Messages)
    BY <1>5, <1>9
  <2> QED
    BY <2>1, ConcatAssociative
<1>12. SlicesSent(max, r, k) = m \o y /\ SlicesSent(max, r, k2) = m \o z
  BY <1>1 DEF SlicesSent
<1>13. SlicesSent(max, r, k) \o e = SlicesSent(max, r, k2)
  BY <1>10, <1>11, <1>12
<1> QED
  BY <1>1, <1>5, <1>6, <1>9, <1>13

(* The k slices that are sent, and the next one, at z = k * max. *)
SliceParts(max, w, k, z, l, n) ==
    /\ n \in Nat /\ n > 0 /\ z \in Nat /\ z + n <= l
    /\ SliceOf(max, w, k + 1) = SubSeq(w, z + 1, z + n)
    /\ (l - z) - n = 0 => l <= (k + 1) * max
    /\ (l - z) - n # 0 => (k + 1) * max = z + n /\ (k + 1) * max < l

LEMMA NextSlice ==
    ASSUME NEW max \in Nat \ {0}, NEW w \in Seq(Bytes), NEW k \in Nat, NEW l, l = Len(w),
           NEW z, z = k * max, z < l, NEW n, n = Min({l - z, max})
    PROVE  SliceParts(max, w, k, z, l, n)
<1>1. PICK c, k2, z2 : c = l - z /\ k2 = k + 1 /\ z2 = k2 * max
  OBVIOUS
<1>2. l \in Nat /\ z \in Nat /\ z2 = z + max /\ z < l /\ k2 \in Nat
  BY <1>1, Times, LenProperties
<1>3. c \in Nat /\ c > 0 /\ c = l - z
  BY <1>1, <1>2
<1>4. n = Min({c, max})
  BY <1>1
<1>5. n \in Nat /\ n <= c /\ n <= max /\ (n = c \/ n = max)
  BY <1>3, <1>4, MinOfTwo
<1>6. n > 0 /\ z + n <= l
  BY <1>2, <1>3, <1>5
<1>7. PICK e : e = SliceEnd(max, w, k2)
  OBVIOUS
<1>8. e \in Nat /\ (z2 <= l => e = z2) /\ (l <= z2 => e = l)
  BY <1>1, <1>2, <1>7, SliceEndIs
<1>9. e = z + n
  BY <1>2, <1>3, <1>5, <1>8
<1>10. SliceOf(max, w, k2) = SubSeq(w, z + 1, z + n)
  <2>1. k2 - 1 = k
    BY <1>1, <1>2
  <2> QED
    BY <1>1, <1>7, <1>9, <2>1 DEF SliceOf
<1>11. c - n = 0 => l <= z2
  BY <1>2, <1>3, <1>5
<1>12. c - n # 0 => n = max /\ z2 = z + n /\ z2 < l
  BY <1>2, <1>3, <1>5
<1>13. (l - z) - n = c - n
  BY <1>1
<1> QED
  BY <1>1, <1>2, <1>5, <1>6, <1>10, <1>11, <1>12, <1>13 DEF SliceParts

(* Messages that are sent one after the other. *)
Assoc(x, y, z) == (x \o y) \o z = x \o (y \o z)

LEMMA MessagesAssoc ==
    ASSUME NEW x \in Seq(Messages), NEW y \in Seq(Messages), NEW z \in Seq(Messages)
    PROVE  Assoc(x, y, z)
  BY ConcatAssociative DEF Assoc

(* ReadFixedLengthAsChunks hands over the next slice, or waits for it. *)
LEMMA StepSlice ==
    ASSUME NEW b, NEW t, NEW R, NEW a, Context(b, t, R, a), dec \in Decoders, IsSetup(setup),
           NEW max \in Nat \ {0}, max = setup.max, NEW i \in 1 .. Len(R) + 1, NEW sent, NEW k,
           ReadsSlice(max, R, i, b.reader, dec, sent, k), NEW o, o = ReadFixedLengthAsChunks(b)
    PROVE  Continues(o, b.reader, t, max, R, i, a, sent)
<1>1. /\ IsBuffer(b) /\ R \in Seq(Requests) /\ Len(R) \in Nat /\ a \in Nat
      /\ b.reader \in Nat /\ b.reader <= a /\ Len(b.bytes) = a
  BY ContextFacts
<1>2. Unread(b, t)
  BY DEF Context
<1>3. dec.state = "READ_FIXED_LENGTH_CONTENT_AS_CHUNKS"
  BY DEF ReadsSlice
<1>4. /\ i <= Len(R) /\ Sliced(max, R[i]) /\ k \in Nat
      /\ k * max < Len(R[i].body) /\ b.reader = BodyAt(R, i) + k * max
      /\ dec.chunkSize = Len(R[i].body) - k * max
      /\ sent = SentBefore(max, R, i) \o SlicesSent(max, R[i], k)
  BY DEF ReadsSlice
<1>5. i \in 1 .. Len(R)
  BY <1>1, <1>4
<1>6. PICK r, w, n, c, p, e, z, q, l : /\ r = R[i] /\ w = r.body /\ n = SliceSize /\ c = dec.chunkSize
          /\ p = b.reader /\ e = readableBytes(b) /\ z = k * max /\ q = BodyAt(R, i) /\ l = Len(w)
  OBVIOUS
<1>7. r \in Requests /\ Places(R, i)
  BY <1>5, <1>6, ContextFacts
<1>8. w \in Seq(Bytes) /\ l \in Nat /\ q \in Nat
  BY <1>6, <1>7, TextLen DEF Places
<1>9. n = Min({l - z, max}) /\ c = l - z
  BY <1>4, <1>6 DEF SliceSize
<1>10. /\ n \in Nat /\ n > 0 /\ z \in Nat /\ z + n <= l
       /\ SliceOf(max, w, k + 1) = SubSeq(w, z + 1, z + n)
       /\ (l - z) - n = 0 => l <= (k + 1) * max
       /\ (l - z) - n # 0 => (k + 1) * max = z + n /\ (k + 1) * max < l
  <2>1. w \in Seq(Bytes) /\ k \in Nat /\ l = Len(w) /\ z = k * max
    BY <1>4, <1>6, <1>8
  <2>2. z < l
    BY <1>4, <1>6
  <2>3. SliceParts(max, w, k, z, l, n)
    BY <1>9, <2>1, <2>2, NextSlice
  <2> QED
    BY <2>3 DEF SliceParts
<1>11. e \in Nat /\ a = p + e /\ p \in Nat
  BY <1>1, <1>6, BufferFacts
<1>12. PICK nx, en : nx = "SKIP_CONTROL_CHARS" /\ en = <<LAST_CHUNK>>
  OBVIOUS
<1>13. o = ReadSlice(b, nx, en)
  BY <1>12 DEF ReadFixedLengthAsChunks
<1>14. PICK p2, b2, x, u : p2 = p + n /\ b2 = MoveTo(b, p2) /\ x = Chunk(Slice(b, n)) /\ u = <<x>>
  OBVIOUS
<1>s. PICK c2 : c2 = c - n
  OBVIOUS
<1>15. /\ n = SliceSize /\ b2 = MoveTo(b, b.reader + n) /\ x = Chunk(Slice(b, n))
       /\ c2 = dec.chunkSize - n
  BY <1>6, <1>14, <1>s
<1>16. CASE e < n
  <2>1. o = Waiting(b, dec)
    <3>1. readableBytes(b) < n
      BY <1>6, <1>16
    <3>2. ReadSlice(b, nx, en) = Waiting(b, dec)
      BY <1>15, <3>1, SliceIs
    <3> QED
      BY <1>13, <3>2
  <2>2. Reads(max, R, i, a, p, dec, sent)
    BY <1>6 DEF Reads
  <2>3. a - p = e
    BY <1>11
  <2>4. a - p < Min({dec.chunkSize, max})
    BY <1>6, <1>9, <1>16, <2>3
  <2>5. Rests(max, R, i, a, p, dec)
    BY <1>3, <2>4 DEF Rests
  <2>6. Stays(o, p, t, max, R, i, a, sent)
    BY <1>1, <1>2, <1>6, <2>1, <2>2, <2>5, StaysWaiting
  <2> QED
    BY <1>6, <2>6 DEF Continues
<1>17. CASE ~(e < n)
  <2>1. Slice(b, n) = SubSeq(w, z + 1, z + n) /\ p2 \in b.reader .. Len(b.bytes)
    <3>1. n <= e
      BY <1>10, <1>11, <1>17
    <3>2. b.reader = BodyAt(R, i) + z /\ z + n <= Len(R[i].body) /\ n <= readableBytes(b)
      BY <1>4, <1>6, <1>10, <3>1
    <3>3. Slice(b, n) = SubSeq(R[i].body, z + 1, z + n) /\ b.reader + n \in b.reader .. Len(b.bytes)
      BY <1>5, <1>10, <3>2, SliceOfBody
    <3> QED
      BY <1>6, <1>14, <3>3
  <2>2. x = Chunk(SliceOf(max, r.body, k + 1))
    BY <1>6, <1>10, <1>14, <2>1
  <2>3. PICK SB, SS, k2, S2 : /\ SB = SentBefore(max, R, i) /\ SS = SlicesSent(max, r, k)
                              /\ k2 = k + 1 /\ S2 = SlicesSent(max, r, k2)
    OBVIOUS
  <2>4. k * max < Len(r.body) /\ k \in Nat
    BY <1>4, <1>6
  <2>5. SS \o u = S2 /\ SS \in Seq(Messages) /\ S2 \in Seq(Messages) /\ u \in Seq(Messages)
    BY <1>7, <1>14, <2>2, <2>3, <2>4, SlicesGrow
  <2>6. SB \in Seq(Messages)
    BY <1>1, <1>5, <2>3, SentStep
  <2>7. sent = SB \o SS
    BY <1>4, <1>6, <2>3
  <2>8. sent \o u = SB \o S2 /\ sent \in Seq(Messages)
    <3>0. SB \in Seq(Messages) /\ SS \in Seq(Messages) /\ u \in Seq(Messages)
      BY <2>5, <2>6
    <3>1. (SB \o SS) \o u = SB \o (SS \o u)
      <4>1. Assoc(SB, SS, u)
        BY <3>0, MessagesAssoc
      <4> QED
        BY <4>1 DEF Assoc
    <3>2. SB \o SS \in Seq(Messages)
      BY <2>5, <2>6, ConcatProperties
    <3> QED
      BY <2>5, <2>7, <3>1, <3>2
  <2>9. Unread(b2, t) /\ b2.reader = p2
    BY <1>1, <1>2, <1>14, <2>1, UnreadMove
  <2>10. p2 # p /\ ~(a - p < n)
    BY <1>10, <1>11, <1>14, <1>17
  <2>11. ~(a - p < Min({dec.chunkSize, max}))
    BY <1>6, <1>9, <2>10
  <2>12. ~Rests(max, R, i, a, p, dec)
    BY <1>3, <2>11 DEF Rests
  <2>13. CASE c - n = 0
    <3>1. PICK d2, m, zero : zero = 0 /\ d2 = DecOf(nx, zero, dec.fields) /\ m = u \o en
      OBVIOUS
    <3>2. o = Checked(b2, d2, m)
      <4>1. ~(readableBytes(b) < n) /\ c2 = 0
        BY <1>6, <1>17, <1>s, <2>13
      <4>2. ReadSlice(b, nx, en) = Checked(b2, DecOf(nx, 0, dec.fields), <<x>> \o en)
        BY <1>15, <4>1, SliceIs
      <4> QED
        BY <1>13, <1>14, <3>1, <4>2
    <3>3. d2.state = "SKIP_CONTROL_CHARS"
      BY <1>12, <3>1, DecParts
    <3>4. en \in Seq(Messages)
      BY <1>12 DEF Messages
    <3>5. sent \o m = SB \o (S2 \o en)
      <4>1. (sent \o u) \o en = sent \o (u \o en)
        <5>1. sent \in Seq(Messages) /\ u \in Seq(Messages) /\ en \in Seq(Messages)
          BY <2>5, <2>8, <3>4
        <5>2. Assoc(sent, u, en)
          BY <5>1, MessagesAssoc
        <5> QED
          BY <5>2 DEF Assoc
      <4>2. (SB \o S2) \o en = SB \o (S2 \o en)
        <5>1. SB \in Seq(Messages) /\ S2 \in Seq(Messages) /\ en \in Seq(Messages)
          BY <2>5, <2>6, <3>4
        <5>2. Assoc(SB, S2, en)
          BY <5>1, MessagesAssoc
        <5> QED
          BY <5>2 DEF Assoc
      <4> QED
        BY <2>8, <3>1, <4>1, <4>2
    <3>6. Full(max, r) = S2 \o en
      <4>1. l <= k2 * max
        BY <1>9, <1>10, <2>3, <2>13
      <4>2. k2 \in Nat /\ k2 - 1 = k
        BY <2>3, <2>4
      <4>3. WholeSlices(max, r, k2)
        BY <1>6, <2>4, <4>1, <4>2 DEF WholeSlices
      <4>4. Sliced(max, r)
        BY <1>4, <1>6
      <4>5. Full(max, r) = SlicesSent(max, r, k2) \o <<LAST_CHUNK>>
        BY <1>7, <4>3, <4>4, FullIs
      <4> QED
        BY <1>12, <2>3, <4>5
    <3>7. PICK s2, j : s2 = sent \o m /\ j = i + 1
      OBVIOUS
    <3>8. s2 = SentBefore(max, R, i) \o Full(max, R[i])
      BY <1>6, <2>3, <3>5, <3>6, <3>7
    <3>9. j \in 1 .. Len(R) + 1 /\ Reads(max, R, j, a, Start(R, j), d2, s2)
      BY <1>1, <1>5, <3>3, <3>7, <3>8, NextRequest
    <3>10. Start(R, j) = p2
      <4>1. Start(R, j) = q + l
        BY <1>6, <1>7, <3>7 DEF Places
      <4>2. p = q + z /\ p2 = p + n /\ c = l - z
        BY <1>4, <1>6, <1>9, <1>14
      <4>3. p2 = q + l
        BY <1>8, <1>10, <2>13, <4>2
      <4> QED
        BY <4>1, <4>3
    <3>11. Reads(max, R, j, a, b2.reader, d2, s2)
      BY <2>9, <3>9, <3>10
    <3>12. b2.reader # p
      BY <2>9, <2>10
    <3>13. Goes(o, p, t, max, R, a, sent)
      BY <2>9, <3>2, <3>7, <3>9, <3>11, <3>12, GoesChecked
    <3> QED
      BY <1>6, <2>12, <3>13 DEF Continues
  <2>14. CASE c - n # 0
    <3>1. PICK d2, s : s = dec.state /\ d2 = DecOf(s, c2, dec.fields)
      OBVIOUS
    <3>2. o = Going(b2, d2, u)
      <4>1. ~(readableBytes(b) < n) /\ c2 # 0
        BY <1>6, <1>17, <1>s, <2>14
      <4>2. ReadSlice(b, nx, en) = Going(b2, DecOf(dec.state, c2, dec.fields), <<x>>)
        <5>1. /\ ~(readableBytes(b) < n) /\ c2 = 0 =>
                    ReadSlice(b, nx, en) = Checked(b2, DecOf(nx, 0, dec.fields), <<x>> \o en)
              /\ ~(readableBytes(b) < n) /\ c2 # 0 =>
                    ReadSlice(b, nx, en) = Going(b2, DecOf(dec.state, c2, dec.fields), <<x>>)
          BY <1>15, SliceIs
        <5> QED
          BY <4>1, <5>1
      <4> QED
        BY <1>6, <1>13, <1>14, <3>1, <4>2
    <3>3. d2.state = "READ_FIXED_LENGTH_CONTENT_AS_CHUNKS"
      BY <1>3, <3>1, DecParts
    <3>4. d2.chunkSize = c2
      BY <3>1, DecParts
    <3>5. PICK s2, z2 : s2 = sent \o u /\ z2 = k2 * max
      OBVIOUS
    <3>6. z2 = z + n /\ z2 < l
      BY <1>9, <1>10, <2>3, <2>14, <3>5
    <3>7. p2 = q + z2 /\ c2 = l - z2
      <4>1. p = q + z /\ p2 = p + n /\ c = l - z /\ c2 = c - n
        BY <1>4, <1>6, <1>9, <1>14, <1>s
      <4> QED
        BY <1>8, <1>10, <3>6, <4>1
    <3>8. k2 \in Nat
      BY <2>3, <2>4
    <3>9. ReadsSlice(max, R, i, p2, d2, s2, k2)
      <4>1. s2 = SentBefore(max, R, i) \o SlicesSent(max, R[i], k2)
        BY <1>6, <2>3, <2>8, <3>5
      <4>2. k2 * max < Len(R[i].body) /\ p2 = BodyAt(R, i) + k2 * max
        BY <1>6, <3>5, <3>6, <3>7
      <4>3. d2.chunkSize = Len(R[i].body) - k2 * max
        BY <1>6, <3>4, <3>5, <3>7
      <4> QED
        BY <1>4, <3>3, <3>8, <4>1, <4>2, <4>3 DEF ReadsSlice
    <3>10. Reads(max, R, i, a, b2.reader, d2, s2)
      BY <2>9, <3>9 DEF Reads
    <3>11. b2.reader # p
      BY <2>9, <2>10
    <3>12. Goes(o, p, t, max, R, a, sent)
      BY <2>9, <3>2, <3>5, <3>10, <3>11, GoesGoing
    <3> QED
      BY <1>6, <2>12, <3>12 DEF Continues
  <2> QED
    BY <2>13, <2>14
<1> QED
  BY <1>16, <1>17

(* Whatever part of the stream the decoder is at. *)
LEMMA DecodeReads ==
    ASSUME NEW b, NEW t, NEW R, NEW a, Context(b, t, R, a), dec \in Decoders, IsSetup(setup),
           NEW max \in Nat \ {0}, max = setup.max, NEW i \in 1 .. Len(R) + 1, NEW sent,
           Reads(max, R, i, a, b.reader, dec, sent), NEW o, o = decode(b)
    PROVE  Continues(o, b.reader, t, max, R, i, a, sent)
<1>1. CASE Skips(max, R, i, b.reader, dec, sent)
  <2>1. o = skipControlCharacters(b)
    BY <1>1 DEF Skips, decode
  <2> QED
    BY <1>1, <2>1, StepSkip
<1>2. CASE ReadsInitial(max, R, i, a, b.reader, dec, sent)
  <2>1. o = ReadInitial(b)
    BY <1>2 DEF ReadsInitial, decode
  <2> QED
    BY <1>2, <2>1, StepInitial
<1>3. CASE ReadsHeader(max, R, i, b.reader, dec, sent)
  <2>1. o = ReadHeader(b)
    BY <1>3 DEF ReadsHeader, decode
  <2> QED
    BY <1>3, <2>1, StepHeader
<1>4. CASE ReadsFixed(max, R, i, b.reader, dec, sent)
  <2>1. o = ReadFixedLength(b)
    BY <1>4 DEF ReadsFixed, decode
  <2> QED
    BY <1>4, <2>1, StepFixed
<1>5. CASE \E k : ReadsSlice(max, R, i, b.reader, dec, sent, k)
  <2>1. PICK k : ReadsSlice(max, R, i, b.reader, dec, sent, k)
    BY <1>5
  <2>2. o = ReadFixedLengthAsChunks(b)
    BY <2>1 DEF ReadsSlice, decode
  <2> QED
    BY <2>1, <2>2, StepSlice
<1> QED
  BY <1>1, <1>2, <1>3, <1>4, <1>5 DEF Reads

(***************************************************************************)
(* The buffer, the decoder and what has been sent follow the stream, and   *)
(* whether more has to arrive before the decoder can go on.                *)
(***************************************************************************)
Follows(max, R, b, t, a, d, sent) ==
    /\ Unread(b, t)
    /\ \E i \in 1 .. Len(R) + 1 : Reads(max, R, i, a, b.reader, d, sent)
Resting(max, R, b, t, a, d, sent) ==
    /\ Unread(b, t)
    /\ \E i \in 1 .. Len(R) + 1 :
          Reads(max, R, i, a, b.reader, d, sent) /\ Rests(max, R, i, a, b.reader, d)

LEMMA RestingFollows ==
    ASSUME NEW max, NEW R, NEW b, NEW t, NEW a, NEW d, NEW sent, Resting(max, R, b, t, a, d, sent)
    PROVE  Follows(max, R, b, t, a, d, sent)
BY DEF Resting, Follows

LEMMA RestingDue ==
    ASSUME NEW max \in Nat \ {0}, NEW R \in Seq(Requests), NEW b, IsBuffer(b), NEW t, NEW a,
           Len(b.bytes) = a, NEW d, NEW sent, Resting(max, R, b, t, a, d, sent)
    PROVE  sent = AllDue(max, R, a)
<1>1. PICK i \in 1 .. Len(R) + 1 : Reads(max, R, i, a, b.reader, d, sent) /\ Rests(max, R, i, a, b.reader, d)
  BY DEF Resting
<1>2. a \in Nat /\ b.reader <= a
  BY BufferFacts
<1>3. PICK p : p = b.reader
  OBVIOUS
<1>4. p <= a /\ Reads(max, R, i, a, p, d, sent) /\ Rests(max, R, i, a, p, d)
  BY <1>1, <1>2, <1>3
<1> QED
  BY <1>2, <1>4, RestsDue

LEMMA FollowStep ==
    ASSUME NEW b, NEW t, NEW R, NEW a, Context(b, t, R, a), dec \in Decoders, IsSetup(setup),
           NEW max \in Nat \ {0}, max = setup.max, NEW sent,
           Follows(max, R, b, t, a, dec, sent), NEW o, o = decode(b), NEW p, p = b.reader
    PROVE  \/ /\ o.ends = "returns" /\ ~o.more /\ (o.buf.reader # p \/ o.dec.state # dec.state)
              /\ Follows(max, R, o.buf, t, a, o.dec, sent \o o.msgs)
           \/ /\ o.ends = "returns" /\ o.more /\ o.msgs = <<>> /\ o.dec = dec
              /\ Resting(max, R, IF o.checked THEN o.buf ELSE MoveTo(o.buf, p), t, a, dec, sent)
<1>1. PICK i \in 1 .. Len(R) + 1 : Reads(max, R, i, a, b.reader, dec, sent)
  BY DEF Follows
<1>2. Continues(o, p, t, max, R, i, a, sent)
  BY <1>1, DecodeReads
<1>3. CASE Goes(o, p, t, max, R, a, sent)
  BY <1>3 DEF Goes, Follows
<1>4. CASE Stays(o, p, t, max, R, i, a, sent)
  <2>1. PICK b2 : /\ Halts(o, b2, dec, p) /\ Unread(b2, t)
                  /\ Reads(max, R, i, a, b2.reader, dec, sent) /\ Rests(max, R, i, a, b2.reader, dec)
    BY <1>4 DEF Stays
  <2>2. Resting(max, R, b2, t, a, dec, sent)
    BY <2>1 DEF Resting
  <2>3. /\ o.ends = "returns" /\ o.more /\ o.msgs = <<>> /\ o.dec = dec
        /\ (IF o.checked THEN o.buf ELSE MoveTo(o.buf, p)) = b2
    BY <2>1 DEF Halts
  <2> QED
    BY <2>2, <2>3
<1> QED
  BY <1>2, <1>3, <1>4 DEF Continues

LEMMA RestStep ==
    ASSUME NEW b, NEW t, NEW R, NEW a, Context(b, t, R, a), dec \in Decoders, IsSetup(setup),
           NEW max \in Nat \ {0}, max = setup.max, NEW sent,
           Resting(max, R, b, t, a, dec, sent), NEW o, o = decode(b)
    PROVE  o.msgs = <<>>
<1>1. PICK i \in 1 .. Len(R) + 1 : /\ Reads(max, R, i, a, b.reader, dec, sent)
                                   /\ Rests(max, R, i, a, b.reader, dec)
  BY DEF Resting
<1>2. Continues(o, b.reader, t, max, R, i, a, sent)
  BY <1>1, DecodeReads
<1>3. Stays(o, b.reader, t, max, R, i, a, sent)
  BY <1>1, <1>2 DEF Continues
<1> QED
  BY <1>3 DEF Stays, Halts

LEMMA FollowAllRead ==
    ASSUME NEW max \in Nat \ {0}, NEW R \in Seq(Requests), NEW b, NEW t, NEW a \in Nat, NEW d, NEW sent,
           Follows(max, R, b, t, a, d, sent), b.reader = a
    PROVE  Resting(max, R, b, t, a, d, sent)
<1>1. PICK i \in 1 .. Len(R) + 1 : Reads(max, R, i, a, a, d, sent)
  BY DEF Follows
<1>0. ASSUME i <= Len(R) PROVE Places(R, i) /\ R[i] \in Requests
  <2>1. Len(R) \in Nat
    BY LenProperties
  <2>2. i \in 1 .. Len(R)
    BY <1>0, <2>1
  <2> QED
    BY <2>2, StartNext
<1>2. Rests(max, R, i, a, a, d)
  <2>1. CASE Skips(max, R, i, a, d, sent)
    BY <2>1 DEF Skips, Rests
  <2>2. CASE ReadsInitial(max, R, i, a, a, d, sent)
    <3>1. a < a
      BY <2>2 DEF ReadsInitial
    <3> QED
      BY <3>1
  <2>3. CASE ReadsHeader(max, R, i, a, d, sent)
    <3>1. i <= Len(R) /\ a = FieldsAt(R, i)
      BY <2>3 DEF ReadsHeader
    <3>2. a < BodyAt(R, i)
      BY <1>0, <3>1 DEF Places
    <3>3. d.state = "READ_HEADER"
      BY <2>3 DEF ReadsHeader
    <3> QED
      BY <3>2, <3>3 DEF Rests
  <2>4. CASE ReadsFixed(max, R, i, a, d, sent)
    <3>1. i <= Len(R) /\ R[i].body # <<>>
      BY <2>4 DEF ReadsFixed
    <3>2. d.state = "READ_FIXED_LENGTH_CONTENT"
      BY <2>4 DEF ReadsFixed
    <3>3. PICK w : w = R[i].body
      OBVIOUS
    <3>4. w \in Seq(Bytes) /\ w # <<>>
      BY <1>0, <3>1, <3>3, RequestFacts
    <3>5. Len(w) \in Nat /\ Len(w) # 0
      BY <3>4, EmptySeq
    <3>6. a - a < Len(w)
      BY <3>5
    <3>7. a - a < Len(R[i].body)
      BY <3>3, <3>6
    <3> QED
      BY <3>2, <3>7 DEF Rests
  <2>5. CASE \E k : ReadsSlice(max, R, i, a, d, sent, k)
    <3>1. PICK k : ReadsSlice(max, R, i, a, d, sent, k)
      BY <2>5
    <3>2. d.state = "READ_FIXED_LENGTH_CONTENT_AS_CHUNKS"
      BY <3>1 DEF ReadsSlice
    <3>3. /\ i <= Len(R) /\ k \in Nat /\ k * max < Len(R[i].body)
          /\ d.chunkSize = Len(R[i].body) - k * max
      BY <3>1 DEF ReadsSlice
    <3>4. PICK w, l, z, c, n : w = R[i].body /\ l = Len(w) /\ z = k * max /\ c = l - z /\ n = Min({c, max})
      OBVIOUS
    <3>5. w \in Seq(Bytes) /\ k \in Nat /\ l = Len(w) /\ z = k * max
      BY <1>0, <3>3, <3>4, RequestFacts
    <3>6. z < l /\ n = Min({l - z, max})
      BY <3>3, <3>4
    <3>7. SliceParts(max, w, k, z, l, n)
      BY <3>5, <3>6, NextSlice
    <3>8. n \in Nat /\ n > 0
      BY <3>7 DEF SliceParts
    <3>9. a - a < n
      BY <3>8
    <3>10. n = Min({d.chunkSize, max})
      BY <3>3, <3>4
    <3>11. a - a < Min({d.chunkSize, max})
      BY <3>9, <3>10
    <3> QED
      BY <3>2, <3>11 DEF Rests
  <2> QED
    BY <1>1, <2>1, <2>2, <2>3, <2>4, <2>5 DEF Reads
<1> QED
  BY <1>1, <1>2 DEF Resting, Follows

LEMMA FollowReceive ==
    ASSUME NEW max, NEW R, NEW b, NEW b2, NEW t, NEW a \in Nat, NEW a2 \in Nat, a <= a2, NEW d, NEW sent,
           Follows(max, R, b, t, a, d, sent), b.reader \in Nat, b2.reader = b.reader, Unread(b2, t)
    PROVE  Follows(max, R, b2, t, a2, d, sent)
<1>1. PICK i \in 1 .. Len(R) + 1 : Reads(max, R, i, a, b.reader, d, sent)
  BY DEF Follows
<1>2. PICK p : p = b.reader
  OBVIOUS
<1>3. ASSUME p < a PROVE p < a2
  BY <1>2, <1>3
<1>4. ReadsInitial(max, R, i, a, p, d, sent) => ReadsInitial(max, R, i, a2, p, d, sent)
  BY <1>3 DEF ReadsInitial
<1>5. Reads(max, R, i, a2, p, d, sent)
  BY <1>1, <1>2, <1>4 DEF Reads
<1> QED
  BY <1>2, <1>5 DEF Follows

LEMMA UnreadReceive ==
    ASSUME NEW b, IsBuffer(b), NEW t \in Seq(Bytes), Unread(b, t), NEW a \in Nat, Len(b.bytes) = a,
           NEW n \in Nat, a + n <= Len(t), NEW b2, b2.reader = b.reader,
           b2.bytes = b.bytes \o SubSeq(t, a + 1, a + n)
    PROVE  Unread(b2, t)
<1>1. PICK u, v, p : u = b.bytes /\ v = SubSeq(t, a + 1, a + n) /\ p = b.reader
  OBVIOUS
<1>2. u \in Seq(Bytes) /\ Len(u) = a /\ p \in Nat
  BY <1>1, BufferFacts
<1>3. v \in Seq(Bytes) /\ Len(v) = n /\ \A i \in 1 .. n : v[i] = t[a + i]
  <2>1. /\ SubSeq(t, a + 1, a + n) \in Seq(Bytes) /\ Len(SubSeq(t, a + 1, a + n)) = n
        /\ \A i \in 1 .. n : SubSeq(t, a + 1, a + n)[i] = t[a + i]
    BY PartOf
  <2> QED
    BY <1>1, <2>1
<1>4. /\ Len(u \o v) = Len(u) + Len(v)
      /\ \A i \in 1 .. Len(u) + Len(v) : (u \o v)[i] = IF i <= Len(u) THEN u[i] ELSE v[i - Len(u)]
  <2>1. u \in Seq(Bytes) /\ v \in Seq(Bytes)
    BY <1>2, <1>3
  <2> QED
    BY <2>1, ConcatProperties
<1>5. PICK w : w = b2.bytes
  OBVIOUS
<1>6. w = u \o v
  BY <1>1, <1>5
<1>7. Len(w) = a + n /\ \A i \in 1 .. a + n : w[i] = IF i <= a THEN u[i] ELSE v[i - a]
  BY <1>2, <1>3, <1>4, <1>6
<1>8. \A i \in p + 1 .. a : u[i] = t[i]
  BY <1>1 DEF Unread, Same
<1>9. ASSUME NEW j \in p + 1 .. a + n PROVE w[j] = t[j]
  <2>1. j \in 1 .. a + n /\ j \in Nat
    BY <1>2
  <2>2. CASE j <= a
    <3>1. j \in p + 1 .. a
      BY <1>2, <2>2
    <3> QED
      BY <1>7, <1>8, <2>1, <2>2, <3>1
  <2>3. CASE ~(j <= a)
    <3>1. j - a \in 1 .. n /\ a + (j - a) = j
      BY <1>2, <2>1, <2>3
    <3> QED
      BY <1>3, <1>7, <2>1, <2>3, <3>1
  <2> QED
    BY <2>2, <2>3
<1>10. \A j \in p + 1 .. Len(w) : w[j] = t[j]
  BY <1>7, <1>9
<1> QED
  BY <1>1, <1>5, <1>10 DEF Unread, Same

LEMMA FirstRests ==
    ASSUME NEW max \in Nat \ {0}, NEW R \in Seq(Requests), NEW b, NEW t, Len(b.bytes) = 0, b.reader = 0,
           NEW d, d.state = "SKIP_CONTROL_CHARS"
    PROVE  Resting(max, R, b, t, 0, d, <<>>)
<1>1. PICK i, e, z : i = 1 /\ e = <<>> /\ z = 0
  OBVIOUS
<1>2. i \in 1 .. Len(R) + 1 /\ Len(R) \in Nat
  BY <1>1, LenProperties
<1>3. SentBefore(max, R, i) = e
  BY <1>1, SentFirst
<1>4. Start(R, i) = 0
  BY <1>1, StreamEnds
<1>5. z \in Start(R, i) .. LeadEnd(R, i)
  <2>1. CASE i <= Len(R)
    <3>1. PICK h, x : h = HeadAt(R, i) /\ x = Len(R[i].lead)
      OBVIOUS
    <3>2. i \in 1 .. Len(R)
      BY <1>2, <2>1
    <3>3. h \in Nat
      BY <3>1, <3>2, StartNext DEF Places
    <3> QED
      BY <1>1, <1>4, <2>1, <3>1, <3>3 DEF LeadEnd
  <2>2. CASE ~(i <= Len(R))
    BY <1>1, <1>4, <2>2 DEF LeadEnd
  <2> QED
    BY <2>1, <2>2
<1>6. Skips(max, R, i, z, d, e)
  BY <1>3, <1>5 DEF Skips
<1>7. Reads(max, R, i, z, z, d, e) /\ Rests(max, R, i, z, z, d)
  BY <1>6 DEF Reads, Rests
<1>8. Unread(b, t)
  BY DEF Unread, Same
<1> QED
  BY <1>1, <1>2, <1>7, <1>8 DEF Resting

LEMMA NoneInHead ==
    ASSUME NEW R \in Seq(Requests)
    PROVE  ~InHead(R, 0)
<1>1. DOMAIN R = 1 .. Len(R)
  BY LenProperties
<1>2. ASSUME NEW i \in 1 .. Len(R) PROVE 0 \notin HarmfulCuts(R, i)
  <2>1. Places(R, i) /\ R[i] \in Requests
    BY StartNext
  <2>2. PICK h, f, b, x : /\ h = HeadAt(R, i) /\ f = FieldsAt(R, i) /\ b = BodyAt(R, i)
                          /\ x = Len(FieldLine(R[i], R[i].fields[1]))
    OBVIOUS
  <2>3. h \in Nat /\ f \in Nat /\ b \in Nat /\ h < f
    BY <2>1, <2>2 DEF Places
  <2>4. R[i].fields # <<>> => x \in Nat
    <3>1. SUFFICES ASSUME R[i].fields # <<>> PROVE x \in Nat
      OBVIOUS
    <3>2. PICK g : g = R[i].fields
      OBVIOUS
    <3>3. g \in Seq(Fields) /\ g # <<>>
      BY <2>1, <3>1, <3>2, RequestFacts
    <3>4. 1 \in 1 .. Len(g)
      BY <3>3, EmptySeq
    <3>5. g[1] \in Fields
      BY <3>3, <3>4, ElementOfSeq
    <3>6. FieldLine(R[i], g[1]) \in Seq(Bytes)
      BY <2>1, <3>5, LinesOfRequest
    <3> QED
      BY <2>2, <3>2, <3>6, LenProperties
  <2>5. /\ 0 \notin h + 1 .. f - 1
        /\ x \in Nat => 0 \notin f + x .. b - 1
    BY <2>3
  <2>6. HarmfulCuts(R, i) = h + 1 .. f - 1 \cup (IF R[i].fields = <<>> THEN {} ELSE f + x .. b - 1)
    BY <2>2 DEF HarmfulCuts, HeadAt, FieldsAt, BodyAt
  <2>7. CASE R[i].fields = <<>>
    BY <2>5, <2>6, <2>7
  <2>8. CASE R[i].fields # <<>>
    BY <2>4, <2>5, <2>6, <2>8
  <2> QED
    BY <2>7, <2>8
<1> QED
  BY <1>1, <1>2 DEF InHead

(* The stream and its cuts; cleanup runs on a closed channel only.          *)
StreamInv ==
    /\ stream = FlattenSeq(Texts(setup.requests))
    /\ Len(buf.bytes) = arrived
    /\ ~split => ~InHead(setup.requests, arrived)
    /\ running \in {"cleanup", "last"} => ~open

(* In a stream of well-formed requests that no read has cut in a harmful    *)
(* place the decoder follows the stream while a read is handled, has to     *)
(* wait for more once it has been handled, and when the channel is closed   *)
(* all that was owed has been sent.                                         *)
SoundInv ==
    (Plain /\ ~split /\ ~fault) =>
        /\ running \in {"message", "cleanup"} =>
              Follows(setup.max, setup.requests, buf, stream, arrived, dec, out)
        /\ running = "last" \/ (running = "no" /\ open) =>
              Resting(setup.max, setup.requests, buf, stream, arrived, dec, out)
        /\ running = "no" /\ ~open => out = AllDue(setup.max, setup.requests, arrived)

LEMMA InitSound == Init => StreamInv /\ SoundInv
<1> SUFFICES ASSUME Init PROVE StreamInv /\ SoundInv
  OBVIOUS
<1>1. HttpInv
  BY InitInv
<1>2. setup \in Setups
  BY <1>1, InvParts
<1>3. PICK R, max, t, b, d : R = setup.requests /\ max = setup.max /\ t = stream /\ b = buf /\ d = dec
  OBVIOUS
<1>4. R \in Seq(Requests) /\ max \in Nat \ {0}
  BY <1>2, <1>3, SetupFacts DEF IsSetup
<1>5. PICK e, z, s : e = <<>> /\ z = 0 /\ s = "SKIP_CONTROL_CHARS"
  OBVIOUS
<1>6. b = [bytes |-> e, reader |-> z] /\ d = [state |-> s, chunkSize |-> z, fields |-> e]
  BY <1>3, <1>5 DEF Init
<1>7. b.bytes = e /\ b.reader = z /\ d.state = s
  BY <1>6
<1>8. Len(b.bytes) = 0 /\ b.reader = 0 /\ d.state = "SKIP_CONTROL_CHARS"
  BY <1>5, <1>7
<1>9. Resting(max, R, b, t, 0, d, <<>>)
  BY <1>4, <1>8, FirstRests
<1>10. ~InHead(R, 0)
  BY <1>4, NoneInHead
<1>11. arrived = 0 /\ running = "no" /\ out = <<>> /\ open = TRUE
  BY DEF Init
<1>12. stream = FlattenSeq(Texts(setup.requests))
  BY DEF Init, Texts
<1>13. StreamInv
  BY <1>3, <1>8, <1>10, <1>11, <1>12 DEF StreamInv
<1>14. SoundInv
  BY <1>3, <1>9, <1>11 DEF SoundInv
<1> QED
  BY <1>13, <1>14

LEMMA StreamStep == HttpInv /\ StreamInv /\ [Next]_vars => StreamInv'
<1> SUFFICES ASSUME HttpInv, StreamInv, [Next]_vars PROVE StreamInv'
  OBVIOUS
<1>0. /\ IsBuffer(buf) /\ IsDecoder(dec) /\ setup \in Setups
      /\ stream \in Seq(Bytes) /\ Len(stream) \in Nat /\ arrived \in 0 .. Len(stream)
  BY InvParts
<1>i. /\ stream = FlattenSeq(Texts(setup.requests)) /\ Len(buf.bytes) = arrived
      /\ ~split => ~InHead(setup.requests, arrived)
      /\ running \in {"cleanup", "last"} => ~open
  BY DEF StreamInv
<1>o. PICK o : o = decode(buf)
  OBVIOUS
<1>d. IsOutcome(buf, o)
  <2>1. PICK b : b = buf
    OBVIOUS
  <2>2. IsOutcome(b, decode(b))
    BY <1>0, <2>1, DecodeType
  <2> QED
    BY <1>o, <2>1, <2>2
<1>e. IsBuffer(o.buf) /\ Len(o.buf.bytes) = arrived
  BY <1>d, <1>i DEF IsOutcome
<1>l. ASSUME NEW b, NEW d, NEW next, Leave(b, d, next), Len(b.bytes) = arrived,
             next \in {"cleanup", "last"} => ~open
      PROVE  StreamInv'
  <2>1. /\ buf' = b /\ running' = next /\ setup' = setup
        /\ stream' = stream /\ arrived' = arrived /\ split' = split /\ open' = open
    BY <1>l DEF Leave
  <2> QED
    BY <1>i, <1>l, <2>1 DEF StreamInv
<1>m. AfterLoop \in {"cleanup", "last"} => ~open
  <2>1. CASE running = "cleanup"
    BY <1>i, <2>1
  <2>2. CASE running # "cleanup"
    BY <2>2 DEF AfterLoop
  <2> QED
    BY <2>1, <2>2
<1>1. ASSUME NEW n \in 1 .. Len(stream), Receive(n) PROVE StreamInv'
  <2>1. /\ buf' = [buf EXCEPT !.bytes = @ \o SubSeq(stream, arrived + 1, arrived + n)]
        /\ arrived' = arrived + n /\ arrived + n <= Len(stream) /\ running' = "message"
        /\ setup' = setup /\ stream' = stream
        /\ split' = (split \/ InHead(setup.requests, arrived + n))
    BY <1>1 DEF Receive
  <2>2. PICK t, s, a, p, r : /\ t = stream /\ a = arrived /\ s = buf.bytes /\ r = buf.reader
                             /\ p = SubSeq(stream, arrived + 1, arrived + n)
    OBVIOUS
  <2>3. t \in Seq(Bytes) /\ a \in Nat /\ n \in Nat /\ a + n <= Len(t)
    BY <1>0, <2>1, <2>2
  <2>4. p \in Seq(Bytes) /\ Len(p) = n
    BY <2>2, <2>3, PartOf
  <2>5. s \in Seq(Bytes) /\ Len(s) = a /\ buf = [bytes |-> s, reader |-> r]
    BY <1>0, <1>i, <2>2, BufferFacts
  <2>6. Len(s \o p) = Len(s) + Len(p)
    BY <2>4, <2>5, ConcatProperties
  <2>7. PICK w, b : w = s \o p /\ b = buf'
    OBVIOUS
  <2>8. b = [bytes |-> w, reader |-> r]
    <3>1. b = [buf EXCEPT !.bytes = w]
      BY <2>1, <2>2, <2>7
    <3> QED
      BY <2>5, <3>1
  <2>9. Len(b.bytes) = a + n
    BY <2>4, <2>5, <2>6, <2>7, <2>8
  <2>10. Len(buf'.bytes) = arrived'
    BY <2>1, <2>2, <2>7, <2>9
  <2>11. ~split' => ~InHead(setup'.requests, arrived')
    BY <2>1
  <2> QED
    BY <1>i, <2>1, <2>10, <2>11 DEF StreamInv
<1>2. ASSUME Iterate PROVE StreamInv'
  <2>1. /\ buf' = o.buf /\ setup' = setup /\ stream' = stream /\ arrived' = arrived /\ split' = split
        /\ running' = running /\ open' = open
    BY <1>2, <1>o DEF Iterate
  <2> QED
    BY <1>e, <1>i, <2>1 DEF StreamInv
<1>3. ASSUME WaitForMore PROVE StreamInv'
  <2>1. Leave(Rewound(o), o.dec, AfterLoop)
    BY <1>3, <1>o DEF WaitForMore
  <2>2. Len(Rewound(o).bytes) = arrived
    <3>1. PICK b, i : b = o.buf /\ i = buf.reader
      OBVIOUS
    <3>2. i \in 0 .. Len(b.bytes)
      BY <1>0, <1>e, <1>i, <3>1, BufferFacts
    <3>3. MoveTo(b, i).bytes = b.bytes
      BY <1>e, <3>1, <3>2, MoveType
    <3> QED
      BY <1>e, <3>1, <3>3 DEF Rewound
  <2>3. PICK b, d, next : b = Rewound(o) /\ d = o.dec /\ next = AfterLoop
    OBVIOUS
  <2> QED
    BY <1>l, <1>m, <2>1, <2>2, <2>3
<1>4. ASSUME AllRead PROVE StreamInv'
  <2>1. Leave(buf, dec, AfterLoop)
    BY <1>4 DEF AllRead
  <2>2. PICK b, d, next : b = buf /\ d = dec /\ next = AfterLoop
    OBVIOUS
  <2> QED
    BY <1>i, <1>l, <1>m, <2>1, <2>2
<1>5. ASSUME Throw PROVE StreamInv'
  <2>1. Leave(o.buf, o.dec, "no")
    BY <1>5, <1>o DEF Throw
  <2>2. PICK b, d, next : b = o.buf /\ d = o.dec /\ next = "no"
    OBVIOUS
  <2> QED
    BY <1>e, <1>l, <2>1, <2>2
<1>6. ASSUME Break PROVE StreamInv'
  <2>1. /\ setup' = setup /\ stream' = stream /\ arrived' = arrived
        /\ split' = split /\ buf' = buf /\ running' = running /\ open' = open
    BY <1>6 DEF Break
  <2> QED
    BY <1>i, <2>1 DEF StreamInv
<1>7. ASSUME decodeLast PROVE StreamInv'
  <2>1. Leave(o.buf, o.dec, "no")
    BY <1>7, <1>o DEF decodeLast
  <2>2. PICK b, d, next : b = o.buf /\ d = o.dec /\ next = "no"
    OBVIOUS
  <2> QED
    BY <1>e, <1>l, <2>1, <2>2
<1>8. ASSUME Close PROVE StreamInv'
  <2>1. /\ open' = FALSE /\ setup' = setup /\ stream' = stream /\ arrived' = arrived /\ split' = split
        /\ buf' = buf
    BY <1>8 DEF Close
  <2> QED
    BY <1>i, <2>1 DEF StreamInv
<1>9. ASSUME UNCHANGED vars PROVE StreamInv'
  BY <1>9 DEF vars, StreamInv
<1> QED
  BY <1>1, <1>2, <1>3, <1>4, <1>5, <1>6, <1>7, <1>8, <1>9 DEF Next

LEMMA SoundNext ==
    ASSUME NEW R, NEW max, NEW t, NEW b2, NEW a2, NEW d2, NEW s2,
           setup.requests = R, setup.max = max, setup' = setup, stream' = t, buf' = b2,
           arrived' = a2, dec' = d2, out' = s2,
           (Plain /\ ~split' /\ ~fault') =>
               /\ running' \in {"message", "cleanup"} => Follows(max, R, b2, t, a2, d2, s2)
               /\ running' = "last" \/ (running' = "no" /\ open') => Resting(max, R, b2, t, a2, d2, s2)
               /\ running' = "no" /\ ~open' => s2 = AllDue(max, R, a2)
    PROVE  SoundInv'
<1>1. Plain' => Plain
  BY DEF Plain
<1>2. setup'.requests = R /\ setup'.max = max
  OBVIOUS
<1> QED
  BY <1>1, <1>2 DEF SoundInv

(* What a call of decode may rely on. *)
LEMMA ContextNow ==
    ASSUME HttpInv, StreamInv, Plain, ~split, NEW b, b = buf, NEW t, t = stream, NEW R, R = setup.requests,
           NEW a, a = arrived, Unread(b, t)
    PROVE  Context(b, t, R, a)
<1>1. /\ IsBuffer(buf) /\ setup \in Setups /\ stream \in Seq(Bytes) /\ Len(stream) \in Nat
      /\ arrived \in 0 .. Len(stream)
  BY InvParts
<1>2. R \in Seq(Requests)
  BY <1>1, SetupFacts DEF IsSetup
<1>3. a <= Len(t)
  BY <1>1
<1>4. \A i \in 1 .. Len(R) : WellFormed(R[i])
  <2>1. DOMAIN R = 1 .. Len(R)
    BY <1>2, LenProperties
  <2> QED
    BY <2>1 DEF Plain
<1>5. t = FlattenSeq(Texts(R)) /\ Len(b.bytes) = a /\ ~InHead(R, a)
  BY DEF StreamInv
<1> QED
  BY <1>1, <1>2, <1>3, <1>4, <1>5 DEF Context

LEMMA SoundStep == HttpInv /\ StreamInv /\ SoundInv /\ [Next]_vars => SoundInv'
<1> SUFFICES ASSUME HttpInv, StreamInv, SoundInv, [Next]_vars PROVE SoundInv'
  OBVIOUS
<1>0. /\ IsBuffer(buf) /\ IsDecoder(dec) /\ setup \in Setups /\ out \in Seq(Messages)
      /\ stream \in Seq(Bytes) /\ Len(stream) \in Nat /\ arrived \in 0 .. Len(stream)
  BY InvParts
<1>s. IsSetup(setup) /\ dec \in Decoders
  BY <1>0, SetupFacts DEF IsDecoder
<1>c. PICK R, max, t, b, a, d, s : /\ R = setup.requests /\ max = setup.max /\ t = stream /\ b = buf
                                   /\ a = arrived /\ d = dec /\ s = out
  OBVIOUS
<1>r. R \in Seq(Requests) /\ max \in Nat \ {0}
  BY <1>c, <1>s DEF IsSetup
<1>b. IsBuffer(b) /\ Len(b.bytes) = a /\ a \in Nat /\ t \in Seq(Bytes) /\ s \in Seq(Messages)
  BY <1>0, <1>c DEF StreamInv
<1>h. (Plain /\ ~split /\ ~fault) =>
        /\ running \in {"message", "cleanup"} => Follows(max, R, b, t, a, d, s)
        /\ running = "last" \/ (running = "no" /\ open) => Resting(max, R, b, t, a, d, s)
        /\ running = "no" /\ ~open => s = AllDue(max, R, a)
  BY <1>c DEF SoundInv
<1>x. ASSUME Plain, ~split, Unread(b, t) PROVE Context(b, t, R, a)
  BY <1>c, <1>x, ContextNow
<1>o. PICK o, p : o = decode(b) /\ p = b.reader
  OBVIOUS
<1>oo. o = decode(buf) /\ p = buf.reader
  BY <1>o, <1>c
<1>f. ASSUME Plain, ~split, Follows(max, R, b, t, a, d, s)
      PROVE  \/ /\ o.ends = "returns" /\ ~o.more /\ (o.buf.reader # p \/ o.dec.state # dec.state)
                /\ Follows(max, R, o.buf, t, a, o.dec, s \o o.msgs)
             \/ /\ o.ends = "returns" /\ o.more /\ o.msgs = <<>> /\ o.dec = dec
                /\ Resting(max, R, IF o.checked THEN o.buf ELSE MoveTo(o.buf, p), t, a, dec, s)
  <2>1. Unread(b, t)
    BY <1>f DEF Follows
  <2>2. Context(b, t, R, a)
    BY <1>f, <1>x, <2>1
  <2>3. Follows(max, R, b, t, a, dec, s) /\ max = setup.max
    BY <1>c, <1>f
  <2> QED
    BY <1>o, <1>r, <1>s, <2>2, <2>3, FollowStep
<1>1. ASSUME NEW n \in 1 .. Len(stream), Receive(n) PROVE SoundInv'
  <2>1. /\ open /\ running = "no" /\ ~fault /\ arrived' = arrived + n /\ arrived + n <= Len(stream)
        /\ setup' = setup /\ stream' = stream /\ dec' = dec /\ out' = out /\ open' = open
        /\ running' = "message" /\ split' = (split \/ InHead(setup.requests, arrived + n))
    BY <1>1 DEF Receive
  <2>2. PICK b2, a2, w, u : b2 = buf' /\ a2 = a + n /\ u = SubSeq(t, a + 1, a + n) /\ w = b.bytes \o u
    OBVIOUS
  <2>3. b2 = [b EXCEPT !.bytes = w]
    BY <1>1, <1>c, <2>2 DEF Receive
  <2>4. b2.bytes = w /\ b2.reader = b.reader
    <3>1. PICK x, y : b = [bytes |-> x, reader |-> y] /\ x = b.bytes /\ y = b.reader
      BY <1>b, BufferFacts
    <3>2. b2 = [bytes |-> w, reader |-> y]
      BY <2>3, <3>1
    <3> QED
      BY <3>1, <3>2
  <2>5. ASSUME Plain, ~split' PROVE Follows(max, R, b2, t, a2, d, s)
    <3>1. ~split
      BY <2>1, <2>5
    <3>2. Resting(max, R, b, t, a, d, s)
      BY <1>h, <2>1, <2>5, <3>1
    <3>3. Unread(b, t) /\ Follows(max, R, b, t, a, d, s)
      BY <3>2, RestingFollows DEF Resting
    <3>4. n \in Nat /\ a + n <= Len(t) /\ a2 \in Nat /\ a <= a2
      BY <1>0, <1>b, <1>c, <2>1, <2>2
    <3>5. b2.bytes = b.bytes \o SubSeq(t, a + 1, a + n)
      BY <2>2, <2>4
    <3>6. Unread(b2, t)
      BY <1>b, <2>4, <3>3, <3>4, <3>5, UnreadReceive
    <3>7. b.reader \in Nat
      BY <1>b, BufferFacts
    <3> QED
      BY <1>b, <2>4, <3>3, <3>4, <3>6, <3>7, FollowReceive
  <2>6. /\ setup.requests = R /\ setup.max = max /\ stream' = t /\ buf' = b2 /\ arrived' = a2
        /\ dec' = d /\ out' = s
    BY <1>c, <2>1, <2>2
  <2>7. (Plain /\ ~split' /\ ~fault') =>
            /\ running' \in {"message", "cleanup"} => Follows(max, R, b2, t, a2, d, s)
            /\ running' = "last" \/ (running' = "no" /\ open') => Resting(max, R, b2, t, a2, d, s)
            /\ running' = "no" /\ ~open' => s = AllDue(max, R, a2)
    BY <2>1, <2>5
  <2> QED
    BY <2>1, <2>6, <2>7, SoundNext
<1>2. ASSUME Iterate PROVE SoundInv'
  <2>1. /\ buf' = o.buf /\ dec' = o.dec /\ out' = out \o o.msgs
        /\ setup' = setup /\ stream' = stream /\ arrived' = arrived /\ split' = split
        /\ running' = running /\ open' = open /\ fault' = fault
        /\ running \in {"message", "cleanup"} /\ (o.msgs # <<>> \/ ~o.more)
    BY <1>2, <1>oo DEF Iterate, Decoding
  <2>2. PICK b2, d2, s2 : b2 = o.buf /\ d2 = o.dec /\ s2 = s \o o.msgs
    OBVIOUS
  <2>3. ASSUME Plain, ~split', ~fault' PROVE Follows(max, R, b2, t, a, d2, s2)
    <3>1. Follows(max, R, b, t, a, d, s)
      BY <1>h, <2>1, <2>3
    <3> QED
      BY <1>f, <2>1, <2>2, <2>3, <3>1
  <2>4. /\ setup.requests = R /\ setup.max = max /\ stream' = t /\ buf' = b2 /\ arrived' = a
        /\ dec' = d2 /\ out' = s2
    BY <1>c, <2>1, <2>2
  <2>5. (Plain /\ ~split' /\ ~fault') =>
            /\ running' \in {"message", "cleanup"} => Follows(max, R, b2, t, a, d2, s2)
            /\ running' = "last" \/ (running' = "no" /\ open') => Resting(max, R, b2, t, a, d2, s2)
            /\ running' = "no" /\ ~open' => s2 = AllDue(max, R, a)
    BY <2>1, <2>3
  <2> QED
    BY <2>1, <2>4, <2>5, SoundNext
<1>l. ASSUME NEW b2, NEW d2, NEW next, Leave(b2, d2, next), out' = out, next \in {"no", "last"},
             (Plain /\ ~split /\ ~fault) => Resting(max, R, b2, t, a, d2, s),
             IsBuffer(b2), Len(b2.bytes) = a
      PROVE  SoundInv'
  <2>1. /\ buf' = b2 /\ dec' = d2 /\ running' = next /\ setup' = setup
        /\ stream' = stream /\ arrived' = arrived /\ split' = split /\ open' = open /\ fault' = fault
    BY <1>l DEF Leave
  <2>2. /\ setup.requests = R /\ setup.max = max /\ stream' = t /\ buf' = b2 /\ arrived' = a
        /\ dec' = d2 /\ out' = s
    BY <1>c, <1>l, <2>1
  <2>3. ASSUME Plain, ~split', ~fault' PROVE Resting(max, R, b2, t, a, d2, s) /\ s = AllDue(max, R, a)
    <3>1. Resting(max, R, b2, t, a, d2, s)
      BY <1>l, <2>1, <2>3
    <3> QED
      BY <1>l, <1>r, <3>1, RestingDue
  <2>4. (Plain /\ ~split' /\ ~fault') =>
            /\ running' \in {"message", "cleanup"} => Follows(max, R, b2, t, a, d2, s)
            /\ running' = "last" \/ (running' = "no" /\ open') => Resting(max, R, b2, t, a, d2, s)
            /\ running' = "no" /\ ~open' => s = AllDue(max, R, a)
    BY <1>l, <2>1, <2>3
  <2> QED
    BY <2>1, <2>2, <2>4, SoundNext
<1>m. AfterLoop \in {"no", "last"}
  BY DEF AfterLoop
<1>3. ASSUME WaitForMore PROVE SoundInv'
  <2>1. /\ Leave(Rewound(o), o.dec, AfterLoop) /\ out' = out /\ o.more
        /\ running \in {"message", "cleanup"}
    BY <1>3, <1>oo DEF WaitForMore, Decoding
  <2>2. PICK b2, d2, next : /\ b2 = (IF o.checked THEN o.buf ELSE MoveTo(o.buf, p))
                            /\ d2 = o.dec /\ next = AfterLoop
    OBVIOUS
  <2>3. b2 = Rewound(o)
    BY <1>oo, <2>2 DEF Rewound
  <2>4. ASSUME Plain, ~split, ~fault PROVE Resting(max, R, b2, t, a, d2, s)
    <3>1. Follows(max, R, b, t, a, d, s)
      BY <1>h, <2>1, <2>4
    <3>2. o.dec = dec /\ Resting(max, R, b2, t, a, dec, s)
      BY <1>f, <2>1, <2>2, <2>4, <3>1
    <3> QED
      BY <2>2, <3>2
  <2>5. IsBuffer(b2) /\ Len(b2.bytes) = a
    <3>1. IsOutcome(b, o)
      BY <1>0, <1>b, <1>o, DecodeType
    <3>2. IsBuffer(o.buf) /\ Len(o.buf.bytes) = a
      BY <1>b, <3>1 DEF IsOutcome
    <3>3. PICK b3 : b3 = o.buf
      OBVIOUS
    <3>4. p \in 0 .. Len(b3.bytes) /\ IsBuffer(b3)
      BY <1>b, <1>o, <3>2, <3>3, BufferFacts
    <3>5. IsBuffer(MoveTo(b3, p)) /\ MoveTo(b3, p).bytes = b3.bytes
      BY <3>4, MoveType
    <3> QED
      BY <2>2, <3>2, <3>3, <3>5
  <2>6. Leave(b2, d2, next) /\ next \in {"no", "last"}
    BY <1>m, <2>1, <2>2, <2>3
  <2> QED
    BY <1>l, <2>1, <2>4, <2>5, <2>6
<1>4. ASSUME AllRead PROVE SoundInv'
  <2>1. /\ Leave(buf, dec, AfterLoop) /\ out' = out /\ readableBytes(buf) = 0
        /\ running \in {"message", "cleanup"}
    BY <1>4 DEF AllRead
  <2>2. PICK next : next = AfterLoop
    OBVIOUS
  <2>3. Leave(b, d, next) /\ next \in {"no", "last"}
    BY <1>c, <1>m, <2>1, <2>2
  <2>4. b.reader = a
    <3>1. readableBytes(b) = 0 /\ b.reader \in Nat /\ a = b.reader + readableBytes(b)
      BY <1>b, <1>c, <2>1, BufferFacts
    <3> QED
      BY <3>1
  <2>5. ASSUME Plain, ~split, ~fault PROVE Resting(max, R, b, t, a, d, s)
    <3>1. Follows(max, R, b, t, a, d, s)
      BY <1>h, <2>1, <2>5
    <3> QED
      BY <1>b, <1>r, <2>4, <3>1, FollowAllRead
  <2> QED
    BY <1>b, <1>l, <2>1, <2>3, <2>5
<1>5. ASSUME Throw PROVE SoundInv'
  <2>1. /\ setup' = setup /\ stream' = stream /\ arrived' = arrived /\ split' = split /\ fault' = fault
        /\ running \in {"message", "cleanup"} /\ ~fault
        /\ buf' = o.buf /\ dec' = o.dec /\ out' = out
    BY <1>5, <1>oo DEF Throw, Leave, Decoding
  <2>2. \/ o.ends = "throws"
        \/ /\ o.ends = "returns" /\ ~(o.buf.reader # p \/ o.dec.state # dec.state)
           /\ (o.msgs # <<>> \/ ~o.more)
    BY <1>5, <1>oo DEF Throw, Progress
  <2>3. ASSUME Plain, ~split PROVE FALSE
    <3>1. Follows(max, R, b, t, a, d, s)
      BY <1>h, <2>1, <2>3
    <3> QED
      BY <1>f, <2>2, <2>3, <3>1
  <2>4. PICK b2, d2 : b2 = o.buf /\ d2 = o.dec
    OBVIOUS
  <2>5. /\ setup.requests = R /\ setup.max = max /\ stream' = t /\ buf' = b2 /\ arrived' = a
        /\ dec' = d2 /\ out' = s
    BY <1>c, <2>1, <2>4
  <2>6. ~(Plain /\ ~split' /\ ~fault')
    BY <2>1, <2>3
  <2> QED
    BY <2>1, <2>5, <2>6, SoundNext
<1>6. ASSUME Break PROVE SoundInv'
  <2>1. fault' = TRUE
    BY <1>6 DEF Break
  <2> QED
    BY <2>1 DEF SoundInv
<1>7. ASSUME decodeLast PROVE SoundInv'
  <2>1. /\ setup' = setup /\ stream' = stream /\ arrived' = arrived /\ split' = split /\ fault' = fault
        /\ running = "last" /\ ~fault /\ running' = "no" /\ open' = open
        /\ buf' = o.buf /\ dec' = o.dec /\ out' = out \o o.msgs
    BY <1>7, <1>oo DEF decodeLast, Leave
  <2>2. ~open
    BY <2>1 DEF StreamInv
  <2>3. PICK b2, d2, s2 : b2 = o.buf /\ d2 = o.dec /\ s2 = s \o o.msgs
    OBVIOUS
  <2>4. ASSUME Plain, ~split PROVE s2 = AllDue(max, R, a)
    <3>1. Resting(max, R, b, t, a, d, s)
      BY <1>h, <2>1, <2>4
    <3>2. s = AllDue(max, R, a)
      BY <1>b, <1>r, <3>1, RestingDue
    <3>3. Unread(b, t)
      BY <3>1 DEF Resting
    <3>4. Context(b, t, R, a)
      BY <1>x, <2>4, <3>3
    <3>5. Resting(max, R, b, t, a, dec, s) /\ max = setup.max
      BY <1>c, <3>1
    <3>6. o.msgs = <<>>
      BY <1>o, <1>r, <1>s, <3>4, <3>5, RestStep
    <3>7. s \o <<>> = s
      BY <1>b, ConcatEmptySeq
    <3> QED
      BY <2>3, <3>2, <3>6, <3>7
  <2>5. /\ setup.requests = R /\ setup.max = max /\ stream' = t /\ buf' = b2 /\ arrived' = a
        /\ dec' = d2 /\ out' = s2
    BY <1>c, <2>1, <2>3
  <2>6. (Plain /\ ~split' /\ ~fault') =>
            /\ running' \in {"message", "cleanup"} => Follows(max, R, b2, t, a, d2, s2)
            /\ running' = "last" \/ (running' = "no" /\ open') => Resting(max, R, b2, t, a, d2, s2)
            /\ running' = "no" /\ ~open' => s2 = AllDue(max, R, a)
    BY <2>1, <2>2, <2>4
  <2> QED
    BY <2>1, <2>5, <2>6, SoundNext
<1>8. ASSUME Close PROVE SoundInv'
  <2>1. /\ open /\ ~fault /\ open' = FALSE /\ fault' = (running # "no")
        /\ running' = (IF arrived > 0 THEN "cleanup" ELSE "no")
        /\ setup' = setup /\ stream' = stream /\ arrived' = arrived /\ split' = split
        /\ buf' = buf /\ dec' = dec /\ out' = out
    BY <1>8 DEF Close
  <2>2. ASSUME Plain, ~split', ~fault'
        PROVE  Resting(max, R, b, t, a, d, s) /\ Follows(max, R, b, t, a, d, s) /\ s = AllDue(max, R, a)
    <3>1. running = "no"
      BY <2>1, <2>2
    <3>2. Resting(max, R, b, t, a, d, s)
      BY <1>h, <2>1, <2>2, <3>1
    <3> QED
      BY <1>b, <1>r, <3>2, RestingDue, RestingFollows
  <2>3. /\ setup.requests = R /\ setup.max = max /\ stream' = t /\ buf' = b /\ arrived' = a
        /\ dec' = d /\ out' = s
    BY <1>c, <2>1
  <2>4. (Plain /\ ~split' /\ ~fault') =>
            /\ running' \in {"message", "cleanup"} => Follows(max, R, b, t, a, d, s)
            /\ running' = "last" \/ (running' = "no" /\ open') => Resting(max, R, b, t, a, d, s)
            /\ running' = "no" /\ ~open' => s = AllDue(max, R, a)
    BY <2>2
  <2> QED
    BY <2>1, <2>3, <2>4, SoundNext
<1>9. ASSUME UNCHANGED vars PROVE SoundInv'
  <2>1. /\ setup' = setup /\ stream' = stream /\ arrived' = arrived /\ split' = split /\ buf' = buf
        /\ dec' = dec /\ running' = running /\ out' = out /\ open' = open /\ fault' = fault
    BY <1>9 DEF vars
  <2>2. /\ setup.requests = R /\ setup.max = max /\ stream' = t /\ buf' = b /\ arrived' = a
        /\ dec' = d /\ out' = s
    BY <1>c, <2>1
  <2>3. (Plain /\ ~split' /\ ~fault') =>
            /\ running' \in {"message", "cleanup"} => Follows(max, R, b, t, a, d, s)
            /\ running' = "last" \/ (running' = "no" /\ open') => Resting(max, R, b, t, a, d, s)
            /\ running' = "no" /\ ~open' => s = AllDue(max, R, a)
    BY <1>h, <2>1
  <2> QED
    BY <2>1, <2>2, <2>3, SoundNext
<1> QED
  BY <1>1, <1>2, <1>3, <1>4, <1>5, <1>6, <1>7, <1>8, <1>9 DEF Next

(* The requests reach the handlers as they were sent, each once and in     *)
(* order, and as soon as their bytes are there: whenever no read is being  *)
(* handled, what HttpMessageDecoder has sent upstream is what the bytes    *)
(* that have arrived amount to.  It holds for all well-formed requests     *)
(* without chunked coding, all maximal sizes of a slice, all contents,     *)
(* however they are cut by the reads, with several requests in one read,   *)
(* and with a close after any read; the reads whose cuts do harm, in the   *)
(* first line or among the header lines, are those that split records.     *)
THEOREM RequestsReceived == Spec => []RequestsIntact
<1>1. Init => HttpInv /\ StreamInv /\ SoundInv
  BY InitInv, InitSound
<1>2. HttpInv /\ StreamInv /\ SoundInv /\ [Next]_vars => (HttpInv /\ StreamInv /\ SoundInv)'
  BY StepInv, StreamStep, SoundStep
<1>3. HttpInv /\ StreamInv /\ SoundInv => RequestsIntact
  <2> SUFFICES ASSUME HttpInv, StreamInv, SoundInv, AtRest, Plain, ~split
               PROVE  out = AllDue(setup.max, setup.requests, arrived)
    BY DEF RequestsIntact
  <2>1. running = "no" /\ ~fault
    BY DEF AtRest
  <2>2. CASE open
    <3>1. PICK R, max, t, b, a, d, s : /\ R = setup.requests /\ max = setup.max /\ t = stream /\ b = buf
                                       /\ a = arrived /\ d = dec /\ s = out
      OBVIOUS
    <3>2. Resting(max, R, b, t, a, d, s)
      BY <2>1, <2>2, <3>1 DEF SoundInv
    <3>3. IsBuffer(b) /\ Len(b.bytes) = a
      BY <3>1, InvParts DEF StreamInv
    <3>4. setup \in Setups
      BY InvParts
    <3>5. R \in Seq(Requests) /\ max \in Nat \ {0}
      BY <3>1, <3>4, SetupFacts DEF IsSetup
    <3>6. s = AllDue(max, R, a)
      BY <3>2, <3>3, <3>5, RestingDue
    <3> QED
      BY <3>1, <3>6
  <2>3. CASE ~open
    BY <2>1, <2>3 DEF SoundInv
  <2> QED
    BY <2>2, <2>3
<1> QED
  BY <1>1, <1>2, <1>3, PTL DEF Spec
=============================================================================
