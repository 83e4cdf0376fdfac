------------------------ MODULE SocketChannelProofs ------------------------
(***************************************************************************)
(* Proofs about the client channel and its write queue, for every set of   *)
(* messages, every assignment of sizes, every pair of water marks and every *)
(* number of calls.                                                        *)
(*                                                                         *)
(* The argument has four layers: what offer(), poll() and                  *)
(* cleanUpWriteBuffer() do to the size and the water marks of a queue      *)
(* (Exact, Calm); how the posted calls of one kind are counted; what the   *)
(* handlers do to the asynchronous operations; and the invariant MainInv,  *)
(* which ties the three together while the channel is open.  On it rest    *)
(* LifeInv, for the order of the lifecycle events, and SentInv, for the    *)
(* completion of writes.                                                   *)
(***************************************************************************)
EXTENDS SocketChannel, SequenceLemmas

(* What the size of each write means for a queue of them. *)
Sums(ops, n, f) == f = [i \in 0 .. n |-> IF i = 0 THEN 0 ELSE f[i - 1] + size[ops[i]]]

LEMMA SumsAt ==
    ASSUME NEW ops, NEW n \in Nat, NEW f, Sums(ops, n, f)
    PROVE  f[0] = 0 /\ \A i \in 1 .. n : f[i] = f[i - 1] + size[ops[i]]
BY DEF Sums

LEMMA SumsNext ==
    ASSUME NEW ops, NEW n \in Nat, NEW f, Sums(ops, n, f), NEW i, NEW j, NEW w,
           i \in 1 .. n, j = i - 1, w = ops[i]
    PROVE  f[i] = f[j] + size[w]
BY SumsAt

LEMMA SumsExist ==
    ASSUME NEW ops \in Seq(Writes)
    PROVE  \A n \in 0 .. Len(ops) : \E f : Sums(ops, n, f)
<1> DEFINE T == {n \in Nat : \E f : Sums(ops, n, f)}
<1>1. 0 \in T
  <2>1. Sums(ops, 0, [i \in 0 .. 0 |-> 0])
    BY DEF Sums
  <2> QED
    BY <2>1
<1>2. ASSUME NEW n \in 0 .. Len(ops) - 1, n \in T
      PROVE  n + 1 \in T
  <2>1. PICK f : Sums(ops, n, f)
    BY <1>2
  <2> DEFINE g == [i \in 0 .. n + 1 |-> IF i <= n THEN f[i] ELSE f[n] + size[ops[i]]]
  <2>2. ASSUME NEW i \in 0 .. n + 1
        PROVE  g[i] = IF i = 0 THEN 0 ELSE g[i - 1] + size[ops[i]]
    BY <2>1 DEF Sums
  <2>3. Sums(ops, n + 1, g)
    <3>1. g = [i \in 0 .. n + 1 |-> g[i]]
      OBVIOUS
    <3> HIDE DEF g
    <3> QED
      BY <2>2, <3>1 DEF Sums
  <2> QED
    BY <2>3
<1> HIDE DEF T
<1>3. \A n \in 0 .. Len(ops) : n \in T
  BY <1>1, <1>2, UpTo
<1> QED
  BY <1>3 DEF T

(* The sums of a queue that continues another one, d places on. *)
Grow(n, x, f, h) ==
    \A i \in 1 .. n : x[i] \in Nat /\ f[i] = f[i - 1] + x[i] /\ h[i] = h[i - 1] + x[i]

LEMMA BothGrow ==
    ASSUME NEW n \in Nat, NEW x, NEW f, NEW h, f[0] = 0, h[0] \in Nat, Grow(n, x, f, h)
    PROVE  f[n] \in Nat /\ h[n] = h[0] + f[n]
<1> DEFINE T == {i \in Nat : f[i] \in Nat /\ h[i] = h[0] + f[i]}
<1>1. 0 \in T
  OBVIOUS
<1>2. ASSUME NEW i \in 0 .. n - 1, i \in T
      PROVE  i + 1 \in T
  <2>1. /\ x[i + 1] \in Nat
        /\ f[i + 1] = f[i] + x[i + 1]
        /\ h[i + 1] = h[i] + x[i + 1]
    BY DEF Grow
  <2>2. f[i] \in Nat /\ h[i] = h[0] + f[i]
    BY <1>2
  <2> QED
    BY <2>1, <2>2
<1> HIDE DEF T
<1>3. \A i \in 0 .. n : i \in T
  BY <1>1, <1>2, UpTo
<1> QED
  BY <1>3 DEF T

Continues(s, t, d, n) == \A i \in 1 .. n : s[i] = t[i + d]

LEMMA SumsShift ==
    ASSUME NEW s \in Seq(Writes), NEW t \in Seq(Writes),
           NEW d \in Nat, NEW n \in Nat, n <= Len(s), n + d <= Len(t),
           size \in [Writes -> Nat], Continues(s, t, d, n),
           NEW f, NEW g, Sums(s, Len(s), f), Sums(t, Len(t), g),
           NEW b \in Nat, b = g[d], NEW e, e = n + d
    PROVE  f[n] \in Nat /\ g[e] = b + f[n]
<1> DEFINE x == [i \in 1 .. n |-> size[s[i]]]
           h == [i \in 0 .. n |-> g[i + d]]
<1>a. f[0] = 0 /\ \A i \in 1 .. Len(s) : f[i] = f[i - 1] + size[s[i]]
  BY SumsAt
<1>b. g[0] = 0 /\ \A i \in 1 .. Len(t) : g[i] = g[i - 1] + size[t[i]]
  BY SumsAt
<1>1. ASSUME NEW i \in 1 .. n
      PROVE  x[i] \in Nat /\ f[i] = f[i - 1] + x[i] /\ h[i] = h[i - 1] + x[i]
  <2>1. i \in 1 .. Len(s) /\ i + d \in 1 .. Len(t) /\ i + d - 1 = i - 1 + d
    OBVIOUS
  <2>2. s[i] \in Writes /\ t[i + d] = s[i]
    BY <2>1 DEF Continues
  <2>3. x[i] = size[s[i]] /\ x[i] \in Nat
    BY <2>2
  <2>4. f[i] = f[i - 1] + x[i]
    BY <1>a, <2>1, <2>3
  <2>5. g[i + d] = g[i + d - 1] + size[t[i + d]]
    BY <1>b, <2>1
  <2>6. h[i] = g[i + d] /\ h[i - 1] = g[i + d - 1]
    BY <2>1
  <2> HIDE DEF x, h
  <2> QED
    BY <2>2, <2>3, <2>4, <2>5, <2>6
<1>2. h[0] = g[d] /\ h[n] = g[n + d]
  OBVIOUS
<1> HIDE DEF x, h
<1>c. f[0] = 0
  BY <1>a
<1>d. h[0] \in Nat
  BY <1>2
<1>e. Grow(n, x, f, h)
  BY <1>1 DEF Grow
<1>3. f[n] \in Nat /\ h[n] = h[0] + f[n]
  BY <1>c, <1>d, <1>e, BothGrow
<1> QED
  BY <1>2, <1>3

LEMMA BytesAreSums ==
    ASSUME NEW ops \in Seq(Writes)
    PROVE  \E f : Sums(ops, Len(ops), f) /\ BytesOf(ops) = f[Len(ops)]
<1> DEFINE g == CHOOSE f : Sums(ops, Len(ops), f)
<1>1. \E f : Sums(ops, Len(ops), f)
  BY SumsExist
<1>2. Sums(ops, Len(ops), g)
  BY <1>1
<1>3. BytesOf(ops) = g[Len(ops)]
  BY DEF BytesOf, Sums
<1> QED
  BY <1>2, <1>3

(* offer() and poll() change the size of the queue by that of one write. *)
LEMMA BytesEmpty == BytesOf(<<>>) = 0
<1>1. <<>> \in Seq(Writes) /\ Len(<<>>) = 0
  BY EmptySeq
<1>2. PICK f : Sums(<<>>, 0, f) /\ BytesOf(<<>>) = f[0]
  BY <1>1, BytesAreSums
<1> QED
  BY <1>2 DEF Sums

LEMMA BytesNat ==
    ASSUME NEW ops \in Seq(Writes), size \in [Writes -> Nat]
    PROVE  BytesOf(ops) \in Nat
<1>1. PICK f : Sums(ops, Len(ops), f) /\ BytesOf(ops) = f[Len(ops)]
  BY BytesAreSums
<1>2. /\ 0 = f[0] /\ Len(ops) \in Nat /\ 0 \in Nat
      /\ Len(ops) = Len(ops) + 0 /\ Len(ops) + 0 <= Len(ops)
      /\ Continues(ops, ops, 0, Len(ops))
  BY <1>1, SumsAt DEF Continues
<1>3. f[Len(ops)] \in Nat
  BY <1>1, <1>2, SumsShift
<1> QED
  BY <1>1, <1>3

LEMMA BytesAppend ==
    ASSUME NEW ops \in Seq(Writes), NEW w \in Writes, size \in [Writes -> Nat]
    PROVE  BytesOf(Append(ops, w)) = BytesOf(ops) + size[w]
<1> DEFINE t == Append(ops, w)
<1>1. t \in Seq(Writes) /\ Len(t) = Len(ops) + 1 /\ t[Len(ops) + 1] = w
      /\ \A i \in 1 .. Len(ops) : ops[i] = t[i]
  OBVIOUS
<1> HIDE DEF t
<1>2. PICK f : Sums(ops, Len(ops), f) /\ BytesOf(ops) = f[Len(ops)]
  BY BytesAreSums
<1>3. PICK g : Sums(t, Len(t), g) /\ BytesOf(t) = g[Len(t)]
  BY <1>1, BytesAreSums
<1>a. PICK m \in Nat, k \in Nat : m = Len(ops) /\ k = Len(t) /\ k = m + 1
  BY <1>1
<1>4. /\ g[0] = 0 /\ 0 \in Nat /\ t \in Seq(Writes)
      /\ m = m + 0 /\ m + 0 <= Len(t) /\ m <= Len(ops)
      /\ Continues(ops, t, 0, m)
  BY <1>1, <1>3, <1>a, SumsAt DEF Continues
<1>5. f[m] \in Nat /\ g[m] = 0 + f[m]
  BY <1>2, <1>3, <1>4, SumsShift
<1>6. g[k] = g[m] + size[w]
  <2>1. Sums(t, k, g) /\ k \in 1 .. k /\ m = k - 1 /\ w = t[k]
    BY <1>1, <1>3, <1>a
  <2> QED
    BY <2>1, SumsNext
<1>7. BytesOf(ops) = f[m] /\ BytesOf(t) = g[k]
  BY <1>2, <1>3, <1>a
<1> QED
  BY <1>5, <1>6, <1>7 DEF t

LEMMA BytesTail ==
    ASSUME NEW ops \in Seq(Writes), ops # <<>>, size \in [Writes -> Nat]
    PROVE  BytesOf(ops) = BytesOf(Tail(ops)) + size[Head(ops)]
<1> DEFINE t == Tail(ops)
<1>1. /\ t \in Seq(Writes) /\ Len(t) = Len(ops) - 1 /\ Len(ops) \in Nat \ {0}
      /\ \A i \in 1 .. Len(t) : t[i] = ops[i + 1]
      /\ Head(ops) = ops[1] /\ ops[1] \in Writes
  BY HeadTailProperties, EmptySeq
<1> HIDE DEF t
<1>2. PICK f : Sums(t, Len(t), f) /\ BytesOf(t) = f[Len(t)]
  BY <1>1, BytesAreSums
<1>3. PICK g : Sums(ops, Len(ops), g) /\ BytesOf(ops) = g[Len(ops)]
  BY BytesAreSums
<1>4. PICK z \in Nat : z = size[Head(ops)]
  BY <1>1
<1>5. z = g[1]
  <2>1. Len(ops) \in Nat /\ 1 \in 1 .. Len(ops) /\ 0 = 1 - 1 /\ Head(ops) = ops[1]
    BY <1>1
  <2>2. g[0] = 0
    BY <1>3, <2>1, SumsAt
  <2>3. g[1] = g[0] + size[Head(ops)]
    BY <1>3, <2>1, SumsNext
  <2> QED
    BY <2>2, <2>3, <1>4
<1>6. /\ Len(t) \in Nat /\ 1 \in Nat /\ t \in Seq(Writes)
      /\ Len(ops) = Len(t) + 1 /\ Len(t) + 1 <= Len(ops) /\ Len(t) <= Len(t)
      /\ Continues(t, ops, 1, Len(t))
  BY <1>1 DEF Continues
<1>7. f[Len(t)] \in Nat /\ g[Len(ops)] = z + f[Len(t)]
  BY <1>2, <1>3, <1>5, <1>6, SumsShift
<1> QED
  BY <1>2, <1>3, <1>4, <1>7 DEF t

-----------------------------------------------------------------------------
(* No user waits in front of a queue below the low water mark. *)
Calm(q) == isConnected /\ q.stalled => q.bytes >= Low

Exact(q) == q.bytes = BytesOf(q.ops)

LEMMA OfferFacts ==
    ASSUME TypeOK, NEW q \in WriteQueues, NEW w \in Writes
    PROVE  /\ offer(q, w) \in WriteQueues
           /\ offer(q, w).ops = Append(q.ops, w)
           /\ Exact(q) => Exact(offer(q, w))
           /\ Calm(q) => Calm(offer(q, w))
<1> DEFINE p == [q EXCEPT !.ops = Append(@, w)]
<1>a. /\ q.ops \in Seq(Writes) /\ q.bytes \in Int /\ q.high \in Int /\ q.stalled \in BOOLEAN
      /\ size[w] \in Nat /\ size \in [Writes -> Nat]
  BY DEF WriteQueues, TypeOK
<1>b. PICK z \in Nat : z = size[w]
  BY <1>a
<1>1. /\ p.ops = Append(q.ops, w) /\ p.bytes = q.bytes
      /\ p.high = q.high /\ p.stalled = q.stalled
  BY DEF WriteQueues
<1> HIDE DEF p
<1>2. offer(q, w) = plusWriteBufferSize(p, z)
  BY <1>b DEF offer, p
<1> DEFINE r == plusWriteBufferSize(p, z)
           crossed == p.bytes + z >= High /\ p.bytes + z - z < High
<1>c. p.stalled \in BOOLEAN /\ p.bytes \in Int /\ p.high \in Int
  BY <1>a, <1>1
<1>d. r.ops = Append(q.ops, w) /\ r.bytes = q.bytes + z
  BY <1>1 DEF plusWriteBufferSize
<1>e. r.high = IF crossed THEN q.high + 1 ELSE q.high
  BY <1>1, <1>c DEF plusWriteBufferSize
<1>f. r.stalled = (q.stalled \/ crossed)
  BY <1>1, <1>c DEF plusWriteBufferSize
<1>g. r = [ops |-> r.ops, bytes |-> r.bytes, high |-> r.high, stalled |-> r.stalled]
  BY <1>c DEF plusWriteBufferSize
<1>3. /\ r.ops = Append(q.ops, w) /\ r.bytes = q.bytes + z
      /\ r.high = IF crossed THEN q.high + 1 ELSE q.high
      /\ r.stalled = (q.stalled \/ crossed)
      /\ r = [ops |-> r.ops, bytes |-> r.bytes, high |-> r.high, stalled |-> r.stalled]
  BY <1>d, <1>e, <1>f, <1>g
<1>4. r.ops \in Seq(Writes)
  BY <1>a, <1>3
<1>5. r.bytes \in Int /\ r.high \in Int /\ r.stalled \in BOOLEAN
  BY <1>a, <1>3
<1>6. crossed => q.bytes + z >= Low
  BY <1>a, <1>1, SocketAssumption
<1>7. q.bytes >= Low => q.bytes + z >= Low
  BY <1>a, SocketAssumption
<1> HIDE DEF r, crossed
<1>8. r \in WriteQueues
  BY <1>3, <1>4, <1>5 DEF WriteQueues
<1>9. Calm(q) => Calm(r)
  BY <1>3, <1>6, <1>7 DEF Calm
<1>10. Exact(q) => Exact(r)
  BY <1>3, <1>a, <1>b, BytesAppend DEF Exact
<1> QED
  BY <1>2, <1>3, <1>8, <1>9, <1>10 DEF r

LEMMA PollFacts ==
    ASSUME TypeOK, NEW q \in WriteQueues, q.ops # <<>>
    PROVE  /\ poll(q) \in WriteQueues
           /\ poll(q).ops = Tail(q.ops)
           /\ Exact(q) => Exact(poll(q))
           /\ Calm(q) => Calm(poll(q))
<1> DEFINE p == [q EXCEPT !.ops = Tail(@)]
<1>a. /\ q.ops \in Seq(Writes) /\ q.bytes \in Int /\ q.high \in Int /\ q.stalled \in BOOLEAN
      /\ size \in [Writes -> Nat]
  BY DEF WriteQueues, TypeOK
<1>b. Head(q.ops) \in Writes /\ Tail(q.ops) \in Seq(Writes)
  BY <1>a, HeadTailProperties
<1>c. PICK z \in Nat : z = size[Head(q.ops)]
  BY <1>a, <1>b
<1>1. /\ p.ops = Tail(q.ops) /\ p.bytes = q.bytes
      /\ p.high = q.high /\ p.stalled = q.stalled
  BY DEF WriteQueues
<1> HIDE DEF p
<1>2. poll(q) = minusWriteBufferSize(p, z)
  BY <1>c DEF poll, p
<1> DEFINE r == minusWriteBufferSize(p, z)
           crossed == (q.bytes - z = 0 \/ q.bytes - z < Low) /\ q.bytes - z + z >= Low
<1>3. /\ r.ops = Tail(q.ops) /\ r.bytes = q.bytes - z
      /\ r.high = IF crossed THEN q.high - 1 ELSE q.high
      /\ r.stalled = (q.stalled /\ ~(crossed /\ isConnected))
      /\ r = [ops |-> r.ops, bytes |-> r.bytes, high |-> r.high, stalled |-> r.stalled]
  BY <1>1 DEF minusWriteBufferSize
<1>5. r.bytes \in Int /\ r.high \in Int /\ r.stalled \in BOOLEAN
  BY <1>a, <1>3 DEF isConnected
<1>6. q.bytes >= Low /\ ~crossed => q.bytes - z >= Low
  BY <1>a, SocketAssumption
<1> HIDE DEF r, crossed
<1>8. r \in WriteQueues
  BY <1>3, <1>b, <1>5 DEF WriteQueues
<1>9. Calm(q) => Calm(r)
  BY <1>3, <1>6 DEF Calm
<1>10. Exact(q) => Exact(r)
  <2>1. BytesOf(q.ops) = BytesOf(Tail(q.ops)) + size[Head(q.ops)]
    BY <1>a, BytesTail
  <2>2. BytesOf(Tail(q.ops)) \in Nat
    BY <1>a, <1>b, BytesNat
  <2> QED
    BY <1>3, <1>c, <2>1, <2>2 DEF Exact
<1> QED
  BY <1>2, <1>3, <1>8, <1>9, <1>10 DEF r

(* cleanUpWriteBuffer: the queue after n polls. *)
Polls(q, n, f) == f = [i \in 0 .. n |-> IF i = 0 THEN q ELSE poll(f[i - 1])]

LEMMA PollsExist ==
    ASSUME NEW q, NEW k \in Nat
    PROVE  \E f : Polls(q, k, f)
<1> DEFINE T == {n \in Nat : \E f : Polls(q, n, f)}
<1>1. 0 \in T
  <2>1. Polls(q, 0, [i \in 0 .. 0 |-> q])
    BY DEF Polls
  <2> QED
    BY <2>1
<1>2. ASSUME NEW n \in 0 .. k - 1, n \in T
      PROVE  n + 1 \in T
  <2>1. PICK f : Polls(q, n, f)
    BY <1>2
  <2> DEFINE g == [i \in 0 .. n + 1 |-> IF i <= n THEN f[i] ELSE poll(f[n])]
  <2>2. ASSUME NEW i \in 0 .. n + 1
        PROVE  g[i] = IF i = 0 THEN q ELSE poll(g[i - 1])
    BY <2>1 DEF Polls
  <2>3. Polls(q, n + 1, g)
    <3>1. g = [i \in 0 .. n + 1 |-> g[i]]
      OBVIOUS
    <3> HIDE DEF g
    <3> QED
      BY <2>2, <3>1 DEF Polls
  <2> QED
    BY <2>3
<1> HIDE DEF T
<1>3. k \in T
  BY <1>1, <1>2, UpTo
<1> QED
  BY <1>3 DEF T

Follows(q, r, n) ==
    /\ r \in WriteQueues
    /\ Len(r.ops) = Len(q.ops) - n
    /\ Exact(q) => Exact(r)
    /\ Calm(q) => Calm(r)

LEMMA FollowsPoll ==
    ASSUME TypeOK, NEW q \in WriteQueues, NEW n \in Nat, n + 1 <= Len(q.ops),
           NEW r, Follows(q, r, n)
    PROVE  Follows(q, poll(r), n + 1)
<1>1. r.ops \in Seq(Writes) /\ q.ops \in Seq(Writes) /\ r.ops # <<>>
  BY DEF Follows, WriteQueues
<1>2. Len(Tail(r.ops)) = Len(r.ops) - 1
  BY <1>1, HeadTailProperties
<1>3. /\ poll(r) \in WriteQueues /\ poll(r).ops = Tail(r.ops)
      /\ Exact(r) => Exact(poll(r))
      /\ Calm(r) => Calm(poll(r))
  BY <1>1, PollFacts DEF Follows
<1>4. Len(poll(r).ops) = Len(q.ops) - (n + 1)
  BY <1>1, <1>2, <1>3 DEF Follows
<1> QED
  BY <1>3, <1>4 DEF Follows

LEMMA PollsFollow ==
    ASSUME TypeOK, NEW q \in WriteQueues, NEW k \in Nat, k <= Len(q.ops),
           NEW f, Polls(q, k, f)
    PROVE  Follows(q, f[k], k)
<1> DEFINE T == {n \in Nat : Follows(q, f[n], n)}
<1>a. f[0] = q /\ \A i \in 1 .. k : f[i] = poll(f[i - 1])
  BY DEF Polls
<1>1. 0 \in T
  BY <1>a DEF Follows, WriteQueues
<1>2. ASSUME NEW n \in 0 .. k - 1, n \in T
      PROVE  n + 1 \in T
  <2>1. f[n + 1] = poll(f[n])
    BY <1>a
  <2>2. Follows(q, f[n], n) /\ n \in Nat /\ n + 1 <= Len(q.ops)
    BY <1>2 DEF WriteQueues
  <2> QED
    BY <2>1, <2>2, FollowsPoll
<1> HIDE DEF T
<1>3. \A i \in 0 .. k : i \in T
  BY <1>1, <1>2, UpTo
<1>4. k \in T
  BY <1>3
<1> QED
  BY <1>4 DEF T

LEMMA CleanUpFacts ==
    ASSUME TypeOK, NEW q \in WriteQueues
    PROVE  /\ cleanUpWriteBuffer(q) \in WriteQueues
           /\ Exact(q) => Exact(cleanUpWriteBuffer(q))
           /\ Calm(q) => Calm(cleanUpWriteBuffer(q))
           /\ q.ops = <<>> => cleanUpWriteBuffer(q) = q
<1> DEFINE n == Len(Cleaned(q))
           g == CHOOSE f : Polls(q, n, f)
<1>1. n \in Nat /\ n <= Len(q.ops) /\ (q.ops = <<>> => n = 0)
  <2>1. q.ops \in Seq(Writes)
    BY DEF WriteQueues
  <2>2. CASE q.ops = <<>>
    BY <2>2 DEF Cleaned
  <2>3. CASE q.ops # <<>>
    <3>1. Len(q.ops) \in Nat \ {0}
      BY <2>1, <2>3, EmptySeq
    <3>2. Len(SubSeq(q.ops, 1, Len(q.ops) - 1)) = Len(q.ops) - 1
      BY <2>1, <3>1
    <3> QED
      BY <2>3, <3>1, <3>2 DEF Cleaned, Front
  <2> QED
    BY <2>2, <2>3
<1>2. Polls(q, n, g)
  BY <1>1, PollsExist
<1>3. cleanUpWriteBuffer(q) = g[n]
  BY DEF cleanUpWriteBuffer, Polls
<1> HIDE DEF n, g
<1>4. Follows(q, g[n], n)
  BY <1>1, <1>2, PollsFollow
<1>5. n = 0 => g[n] = q
  BY <1>2 DEF Polls
<1> QED
  BY <1>1, <1>3, <1>4, <1>5 DEF Follows

-----------------------------------------------------------------------------
(* The calls of one kind that wait for the I/O thread. *)
Count(p, c) == Cardinality({i \in DOMAIN p : p[i].call = c})
Kind(c) == {x \in Calls : x.call = c}

LEMMA CountMarked ==
    ASSUME NEW p \in Seq(Calls), NEW c
    PROVE  Count(p, c) = Cardinality(Marked(p, Kind(c))) /\ Count(p, c) \in Nat
<1>1. {i \in DOMAIN p : p[i].call = c} = Marked(p, Kind(c))
  BY DEF Marked, Kind
<1>2. Cardinality(Marked(p, Kind(c))) \in Nat
  BY MarkedFinite
<1> QED
  BY <1>1, <1>2 DEF Count

LEMMA CountAppend ==
    ASSUME NEW p \in Seq(Calls), NEW x \in Calls, NEW c
    PROVE  /\ Count(Append(p, x), c) = Count(p, c) + (IF x.call = c THEN 1 ELSE 0)
           /\ Append(p, x) \in Seq(Calls) /\ Count(p, c) \in Nat
<1>1. Append(p, x) \in Seq(Calls)
  OBVIOUS
<1>2. Cardinality(Marked(Append(p, x), Kind(c))) =
         Cardinality(Marked(p, Kind(c))) + (IF x \in Kind(c) THEN 1 ELSE 0)
  BY MarkedAppend
<1>3. x \in Kind(c) <=> x.call = c
  BY DEF Kind
<1> QED
  BY <1>1, <1>2, <1>3, CountMarked

LEMMA CountTail ==
    ASSUME NEW p \in Seq(Calls), p # <<>>, NEW c
    PROVE  /\ Count(p, c) = Count(Tail(p), c) + (IF Head(p).call = c THEN 1 ELSE 0)
           /\ Tail(p) \in Seq(Calls) /\ Head(p) \in Calls /\ Count(Tail(p), c) \in Nat
<1>1. Tail(p) \in Seq(Calls) /\ Head(p) \in Calls
  BY HeadTailProperties
<1>2. Cardinality(Marked(p, Kind(c))) =
         Cardinality(Marked(Tail(p), Kind(c))) + (IF Head(p) \in Kind(c) THEN 1 ELSE 0)
  BY MarkedTail
<1>3. Head(p) \in Kind(c) <=> Head(p).call = c
  BY <1>1 DEF Kind
<1> QED
  BY <1>1, <1>2, <1>3, CountMarked

-----------------------------------------------------------------------------
(* What handlers do to the asynchronous operations. *)
Reads(n) == n.busy + n.ok + n.err

LEMMA OperationFields ==
    ASSUME NEW n \in Operations
    PROVE  /\ n.conn \in {"none", "done"} \cup Statuses
           /\ n.writing \in Seq([w : Writes, st : Statuses])
           /\ n.busy \in Nat /\ n.ok \in Nat /\ n.err \in Nat
           /\ Len(n.writing) \in Nat /\ Reads(n) \in Nat
<1>1. /\ n.conn \in {"none", "done"} \cup Statuses
      /\ n.writing \in Seq([w : Writes, st : Statuses])
      /\ n.busy \in Nat /\ n.ok \in Nat /\ n.err \in Nat
  BY DEF Operations
<1>2. Len(n.writing) \in Nat
  BY <1>1, LenProperties
<1> QED
  BY <1>1, <1>2 DEF Reads

LEMMA SetConn ==
    ASSUME NEW n \in Operations, NEW st \in {"none", "done"} \cup Statuses
    PROVE  LET m == [n EXCEPT !.conn = st]
           IN  /\ m \in Operations /\ m.conn = st /\ m.writing = n.writing
               /\ Reads(m) = Reads(n) /\ m.busy = n.busy /\ m.ok = n.ok /\ m.err = n.err
BY DEF Operations, Reads

LEMMA StartReadFacts ==
    ASSUME NEW n \in Operations
    PROVE  /\ StartRead(n) \in Operations /\ Reads(StartRead(n)) > 0
           /\ StartRead(n).conn = n.conn /\ StartRead(n).writing = n.writing
<1>a. n.busy \in Nat /\ n.ok \in Nat /\ n.err \in Nat
  BY OperationFields
<1>1. CASE socketOpen
  <2> DEFINE m == [n EXCEPT !.busy = n.busy + 1]
  <2>1. /\ m \in Operations /\ m.busy = n.busy + 1 /\ m.ok = n.ok /\ m.err = n.err
        /\ m.conn = n.conn /\ m.writing = n.writing
    BY <1>a DEF Operations
  <2>2. StartRead(n) = m
    BY <1>1 DEF StartRead
  <2> HIDE DEF m
  <2> QED
    BY <1>a, <2>1, <2>2 DEF Reads
<1>2. CASE ~socketOpen
  <2> DEFINE m == [n EXCEPT !.err = n.err + 1]
  <2>1. /\ m \in Operations /\ m.busy = n.busy /\ m.ok = n.ok /\ m.err = n.err + 1
        /\ m.conn = n.conn /\ m.writing = n.writing
    BY <1>a DEF Operations
  <2>2. StartRead(n) = m
    BY <1>2 DEF StartRead
  <2> HIDE DEF m
  <2> QED
    BY <1>a, <2>1, <2>2 DEF Reads
<1> QED
  BY <1>1, <1>2

LEMMA AbortedReadsFacts ==
    ASSUME NEW n \in Operations
    PROVE  LET m == AbortedReads(n)
           IN  /\ m \in Operations /\ m.conn = n.conn /\ m.writing = n.writing
               /\ Reads(m) = Reads(n)
<1> DEFINE m == [conn |-> n.conn, writing |-> n.writing,
                 busy |-> 0, ok |-> n.ok, err |-> n.err + n.busy]
<1>a. n.busy \in Nat /\ n.ok \in Nat /\ n.err \in Nat
  BY OperationFields
<1>1. /\ m \in Operations /\ m.busy = 0 /\ m.ok = n.ok /\ m.err = n.err + n.busy
      /\ m.conn = n.conn /\ m.writing = n.writing
  BY <1>a DEF Operations
<1>2. AbortedReads(n) = m
  BY DEF AbortedReads
<1> HIDE DEF m
<1> QED
  BY <1>a, <1>1, <1>2 DEF Reads

LEMMA AbortedFacts ==
    ASSUME NEW n \in Operations
    PROVE  Aborted(n) \in Operations
<1> DEFINE S == [w : Writes, st : Statuses]
           v == [i \in DOMAIN n.writing |->
                   [w |-> n.writing[i].w, st |-> AbortedSt(n.writing[i].st)]]
           k == Len(n.writing)
           m == AbortedReads(n)
<1>a. /\ m \in Operations /\ n.conn \in {"none", "done"} \cup Statuses
      /\ n.writing \in Seq(S)
  BY AbortedReadsFacts, OperationFields
<1>1. \A st \in {"none", "done"} \cup Statuses :
         AbortedSt(st) \in {"none", "done"} \cup Statuses
         /\ (st \in Statuses => AbortedSt(st) \in Statuses)
  BY DEF AbortedSt, Statuses
<1>2. /\ DOMAIN n.writing = 1 .. k /\ k \in Nat
      /\ \A i \in 1 .. k : n.writing[i] \in S
  BY <1>a, LenProperties
<1>3. v \in [1 .. k -> S]
  BY <1>1, <1>2
<1>4. Aborted(n) = [m EXCEPT !.conn = AbortedSt(n.conn), !.writing = v]
  BY DEF Aborted
<1> HIDE DEF v, k, m, S
<1>5. v \in Seq(S)
  BY <1>2, <1>3, SeqDef
<1>6. AbortedSt(n.conn) \in {"none", "done"} \cup Statuses
  BY <1>a, <1>1
<1> QED
  BY <1>a, <1>4, <1>5, <1>6 DEF Operations, S

LEMMA WithoutFacts ==
    ASSUME NEW n \in Operations, NEW i \in DOMAIN n.writing
    PROVE  LET m == [n EXCEPT !.writing = Without(@, i)]
           IN  /\ m \in Operations /\ m.conn = n.conn /\ Reads(m) = Reads(n)
               /\ m.writing = Without(n.writing, i)
               /\ Len(m.writing) = Len(n.writing) - 1
<1> DEFINE S == [w : Writes, st : Statuses]
<1>a. /\ n.writing \in Seq(S) /\ Len(n.writing) \in Nat /\ i \in 1 .. Len(n.writing)
  BY OperationFields, LenProperties
<1>b. \A j \in 1 .. Len(n.writing) : n.writing[j] \in S
  BY <1>a, ElementOfSeq
<1>1. Without(n.writing, i) \in [1 .. (Len(n.writing) - 1) -> S]
  BY <1>a, <1>b DEF Without
<1>2. Without(n.writing, i) \in Seq(S) /\ Len(n.writing) - 1 \in Nat
  BY <1>a, <1>1, SeqDef
<1>3. Len(Without(n.writing, i)) = Len(n.writing) - 1
  BY <1>1, <1>2, LenProperties DEF Without
<1> QED
  BY <1>2, <1>3 DEF Operations, Reads

-----------------------------------------------------------------------------
(***************************************************************************)
(* The invariant of the channel.  It is about an open channel: after the   *)
(* close the queue and the operations need not match.                      *)
(***************************************************************************)
CloseInv == closeDone <=> state = "closed"

(* Before the connection is there, nothing was queued. *)
OpenInv ==
    state = "open" => /\ wq.ops = <<>> /\ ~wq.stalled
                      /\ net.writing = <<>> /\ Waiting("handleWrite") = 0

ConnInv == state = "connected" => net.conn = "done"

(* Every disconnect() that waits has a future to complete. *)
DiscInv == Waiting("disconnect") <= disconnects

MainInv ==
    /\ CloseInv /\ OpenInv /\ ConnInv /\ DiscInv
    /\ SizeAccounting /\ NoStalledWriter /\ HandlersMatchQueue /\ ReadArmed

Futures == {"none", "pending", "success", "failure"}
Events == {"connected", "disconnected", "unbound", "closed", "exception"}

LEMMA KeepsSizes ==
    ASSUME size' = size, Exact(wq')
    PROVE  SizeAccounting'
BY DEF Exact, SizeAccounting, BytesOf

LEMMA MainUnfold ==
    ASSUME MainInv
    PROVE  Exact(wq) /\ Calm(wq)
BY DEF MainInv, SizeAccounting, NoStalledWriter, Exact, Calm

LEMMA MainClosed ==
    ASSUME size' = size, state' = "closed", closeDone' = TRUE, DiscInv', Exact(wq')
    PROVE  MainInv'
<1>1. SizeAccounting'
  BY KeepsSizes
<1> QED
  BY <1>1 DEF MainInv, CloseInv, OpenInv, ConnInv, NoStalledWriter, HandlersMatchQueue,
              ReadArmed, isOpen, isConnected

(* A step of a channel that is connected and stays so. *)
LEMMA MainConnected ==
    ASSUME size' = size, state' = "connected", closeDone' = FALSE, DiscInv', Exact(wq'),
           wq'.stalled => wq'.bytes >= Low, net'.conn = "done",
           Len(wq'.ops) = Len(net'.writing) + Count(posted', "handleWrite"),
           readable' /\ socketOpen' => Reads(net') > 0
    PROVE  MainInv'
<1>1. SizeAccounting'
  BY KeepsSizes
<1>2. HandlersMatchQueue'
  BY DEF HandlersMatchQueue, Waiting, Count
<1>3. ReadArmed'
  BY DEF ReadArmed, Reads
<1> QED
  BY <1>1, <1>2, <1>3 DEF MainInv, CloseInv, OpenInv, ConnInv, NoStalledWriter

(* A step of a channel that waits for its connection. *)
LEMMA MainWaits ==
    ASSUME size' = size, state' = "open", closeDone' = FALSE, DiscInv', Exact(wq'),
           wq'.ops = <<>>, ~wq'.stalled, net'.writing = <<>>,
           Count(posted', "handleWrite") = 0
    PROVE  MainInv'
<1>1. SizeAccounting'
  BY KeepsSizes
<1>2. Waiting("handleWrite")' = 0
  BY DEF Waiting, Count
<1>3. Len(<<>>) = 0
  BY EmptySeq
<1>4. HandlersMatchQueue'
  BY <1>2, <1>3 DEF HandlersMatchQueue
<1> QED
  BY <1>1, <1>2, <1>4 DEF MainInv, CloseInv, OpenInv, ConnInv, NoStalledWriter, ReadArmed,
                          isConnected

(* What MainInv says of the state it is in. *)
LEMMA MainCases ==
    ASSUME TypeOK, MainInv
    PROVE  /\ Exact(wq) /\ Calm(wq) /\ Count(posted, "disconnect") <= disconnects
           /\ \/ state = "closed" /\ closeDone = TRUE
              \/ /\ state = "connected" /\ closeDone = FALSE
                 /\ wq.stalled => wq.bytes >= Low
                 /\ net.conn = "done"
                 /\ Len(wq.ops) = Len(net.writing) + Count(posted, "handleWrite")
                 /\ readable /\ socketOpen => Reads(net) > 0
              \/ /\ state = "open" /\ closeDone = FALSE
                 /\ wq.ops = <<>> /\ ~wq.stalled /\ net.writing = <<>>
                 /\ Count(posted, "handleWrite") = 0
<1>1. state \in {"open", "connected", "closed"} /\ closeDone \in BOOLEAN
  BY DEF TypeOK
<1>2. Waiting("disconnect") = Count(posted, "disconnect")
      /\ Waiting("handleWrite") = Count(posted, "handleWrite")
  BY DEF Waiting, Count
<1>3. closeDone <=> state = "closed"
  BY DEF MainInv, CloseInv
<1>4. CASE state = "connected"
  <2>1. wq.stalled => wq.bytes >= Low
    BY <1>4 DEF MainInv, NoStalledWriter, isConnected
  <2>2. Len(wq.ops) = Len(net.writing) + Count(posted, "handleWrite")
    BY <1>2, <1>4 DEF MainInv, HandlersMatchQueue, isOpen
  <2>3. net.conn = "done" /\ (readable /\ socketOpen => Reads(net) > 0)
    BY <1>4 DEF MainInv, ConnInv, ReadArmed, Reads, isConnected
  <2> QED
    BY <1>1, <1>2, <1>3, <1>4, <2>1, <2>2, <2>3, MainUnfold DEF MainInv, DiscInv
<1>5. CASE state = "open"
  BY <1>1, <1>2, <1>3, <1>5, MainUnfold DEF MainInv, DiscInv, OpenInv
<1>6. CASE state = "closed"
  BY <1>1, <1>2, <1>3, <1>6, MainUnfold DEF MainInv, DiscInv
<1> QED
  BY <1>1, <1>4, <1>5, <1>6

(* close(future): either it runs, or it changes nothing but what the        *)
(* handler has changed before.                                              *)
LEMMA CloseFacts ==
    ASSUME TypeOK, NEW q \in WriteQueues, NEW f \in [Writes -> Futures],
           NEW n \in Operations, Close(q, f, n)
    PROVE  /\ wq' \in WriteQueues /\ future' \in [Writes -> Futures] /\ net' \in Operations
           /\ state' \in {"open", "connected", "closed"} /\ closeDone' \in BOOLEAN
           /\ socketOpen' \in BOOLEAN /\ events' \in Seq(Events)
           /\ Exact(q) => Exact(wq')
           /\ \/ CloseRuns /\ state' = "closed" /\ closeDone' = TRUE
              \/ ~CloseRuns /\ wq' = q /\ future' = f /\ net' = n /\ UNCHANGED channel
<1>a. /\ state \in {"open", "connected", "closed"} /\ closeDone \in BOOLEAN
      /\ socketOpen \in BOOLEAN /\ events \in Seq(Events)
  BY DEF TypeOK, Events
<1>1. CASE ~CloseRuns
  BY <1>1, <1>a DEF Close, channel
<1>2. CASE CloseRuns /\ CloseSucceeds(q, f, n)
  <2> DEFINE r == cleanUpWriteBuffer(q)
  <2>1. r \in WriteQueues /\ (Exact(q) => Exact(r))
    BY CleanUpFacts
  <2>2. wq' = [r EXCEPT !.stalled = q.stalled]
    BY <1>2 DEF CloseSucceeds
  <2> HIDE DEF r
  <2>3. wq' \in WriteQueues /\ wq'.ops = r.ops /\ wq'.bytes = r.bytes
    BY <2>1, <2>2 DEF WriteQueues
  <2>4. future' \in [Writes -> Futures]
    BY <1>2 DEF CloseSucceeds, FailCleaned, Futures
  <2>5. net' \in Operations
    BY <1>2, AbortedFacts DEF CloseSucceeds
  <2>6. events' \in Seq(Events)
    <3>1. <<"disconnected", "unbound", "closed">> \in Seq(Events) /\ <<"closed">> \in Seq(Events)
      BY DEF Events
    <3>2. Ending \in Seq(Events)
      BY <3>1 DEF Ending
    <3>3. events' = events \o Ending
      BY <1>2 DEF CloseSucceeds
    <3> QED
      BY <1>a, <3>2, <3>3, ConcatProperties
  <2>7. state' = "closed" /\ closeDone' = TRUE /\ socketOpen' = FALSE
    BY <1>2 DEF Close, CloseSucceeds
  <2> QED
    BY <1>2, <2>1, <2>3, <2>4, <2>5, <2>6, <2>7 DEF Exact
<1>3. CASE CloseRuns /\ CloseThrows(q, f, n)
  <2>1. events' \in Seq(Events)
    BY <1>3, <1>a DEF CloseThrows, Events
  <2>2. net' \in Operations
    BY <1>3, AbortedFacts DEF CloseThrows
  <2>3. socketOpen' \in BOOLEAN
    BY <1>3, <1>a DEF CloseThrows
  <2>4. wq' = q /\ future' = f /\ state' = "closed" /\ closeDone' = TRUE
    BY <1>3 DEF Close, CloseThrows
  <2> QED
    BY <1>3, <2>1, <2>2, <2>3, <2>4
<1> QED
  BY <1>1, <1>2, <1>3 DEF Close

-----------------------------------------------------------------------------
(* Steps of the channel that do not close it. *)
LEMMA MainStays ==
    ASSUME TypeOK, MainInv, size' = size, state' = state, closeDone' = closeDone,
           Count(posted', "disconnect") <= disconnects', Exact(wq'),
           state = "connected" =>
              /\ wq'.stalled => wq'.bytes >= Low
              /\ net'.conn = "done"
              /\ Len(wq'.ops) = Len(net'.writing) + Count(posted', "handleWrite")
              /\ readable' /\ socketOpen' => Reads(net') > 0,
           state = "open" =>
              /\ wq'.ops = <<>> /\ ~wq'.stalled /\ net'.writing = <<>>
              /\ Count(posted', "handleWrite") = 0
    PROVE  MainInv'
<1>1. DiscInv'
  BY DEF DiscInv, Waiting, Count
<1>2. CASE state = "closed"
  BY <1>1, <1>2, MainCases, MainClosed
<1>3. CASE state = "connected"
  BY <1>1, <1>3, MainCases, MainConnected
<1>4. CASE state = "open"
  BY <1>1, <1>4, MainCases, MainWaits
<1> QED
  BY <1>2, <1>3, <1>4 DEF TypeOK

LEMMA InitMain == Init => TypeOK /\ MainInv
<1> SUFFICES ASSUME Init PROVE TypeOK /\ MainInv
  OBVIOUS
<1>1. TypeOK
  <2>1. size \in [Writes -> Nat] /\ inOrder \in BOOLEAN /\ budget \in BudgetType
    BY SocketAssumption DEF Init
  <2>2. wq \in WriteQueues /\ net \in Operations
    BY DEF Init, WriteQueues, Operations
  <2>3. future \in [Writes -> {"none", "pending", "success", "failure"}]
    BY DEF Init
  <2>4. /\ posted \in Seq(Calls)
        /\ events \in Seq({"connected", "disconnected", "unbound", "closed", "exception"})
    BY EmptySeq DEF Init
  <2>5. /\ state \in {"open", "connected", "closed"} /\ socketOpen \in BOOLEAN /\ left \in Nat
        /\ readable \in BOOLEAN /\ sent \subseteq Writes /\ closeDone \in BOOLEAN
        /\ disconnects \in Nat /\ fault \in BOOLEAN
    BY DEF Init
  <2> QED
    BY <2>1, <2>2, <2>3, <2>4, <2>5 DEF TypeOK
<1>2. Waiting("handleWrite") = 0 /\ Waiting("disconnect") = 0
  <2>1. \A c : {i \in DOMAIN posted : posted[i].call = c} = {}
    BY DEF Init
  <2> QED
    BY <2>1, FS_EmptySet DEF Waiting
<1>3. SizeAccounting /\ HandlersMatchQueue
  BY <1>2, BytesEmpty DEF Init, SizeAccounting, HandlersMatchQueue
<1> QED
  BY <1>1, <1>2, <1>3 DEF Init, MainInv, CloseInv, OpenInv, ConnInv, DiscInv, NoStalledWriter,
                          ReadArmed, isConnected

(* The calls of the users.  Everything the queue and the operations have to *)
(* do with each other is as before.                                         *)
LEMMA SpendType ==
    ASSUME TypeOK, NEW what \in {"writes", "reads", "toggles", "closes", "disconnects"},
           Spend(what)
    PROVE  budget' \in BudgetType
<1>1. budget[what] \in Nat /\ budget[what] > 0
  BY DEF TypeOK, BudgetType, Spend
<1>2. PICK n \in Nat : n = budget[what] - 1
  BY <1>1
<1>3. budget' = [budget EXCEPT ![what] = n]
  BY <1>2 DEF Spend
<1>4. budget \in [writes : Nat, reads : Nat, toggles : Nat, closes : Nat, disconnects : Nat]
  BY DEF TypeOK, BudgetType
<1> QED
  BY <1>3, <1>4 DEF BudgetType

LEMMA PostedMain ==
    ASSUME TypeOK, MainInv, UNCHANGED <<size, channel, readable, wq, net>>,
           NEW x \in Calls, posted' = Append(posted, x), x.call # "handleWrite",
           disconnects' = IF x.call = "disconnect" THEN disconnects + 1 ELSE disconnects
    PROVE  posted' \in Seq(Calls) /\ MainInv'
<1>a. posted \in Seq(Calls) /\ disconnects \in Nat
  BY DEF TypeOK
<1>1. /\ posted' \in Seq(Calls)
      /\ Count(posted', "handleWrite") = Count(posted, "handleWrite")
  BY <1>a, CountAppend
<1>2. Count(posted', "disconnect") =
         Count(posted, "disconnect") + (IF x.call = "disconnect" THEN 1 ELSE 0)
      /\ Count(posted, "disconnect") \in Nat
  BY <1>a, CountAppend
<1>3. Count(posted', "disconnect") <= disconnects'
  BY <1>a, <1>2, MainCases
<1>4. Exact(wq')
  BY MainCases DEF Exact
<1> QED
  BY <1>1, <1>3, <1>4, MainCases, MainStays DEF channel

LEMMA UserMain ==
    ASSUME TypeOK, MainInv, User
    PROVE  TypeOK' /\ MainInv'
<1>1. ASSUME NEW w \in Writes, Write(w)
      PROVE  TypeOK' /\ MainInv'
  <2>a. [call |-> "write", w |-> w] \in Calls
    BY DEF Calls
  <2>1. posted' \in Seq(Calls) /\ MainInv'
    BY <1>1, <2>a, PostedMain DEF Write, parameters
  <2>2. budget' \in BudgetType
    BY <1>1, SpendType DEF Write
  <2>3. future' \in [Writes -> {"none", "pending", "success", "failure"}]
    BY <1>1 DEF Write, TypeOK
  <2> QED
    BY <1>1, <2>1, <2>2, <2>3 DEF Write, TypeOK, parameters, channel
<1>2. ASSUME UserClose
      PROVE  TypeOK' /\ MainInv'
  <2>a. [call |-> "close"] \in Calls
    BY DEF Calls
  <2>1. posted' \in Seq(Calls) /\ MainInv'
    BY <1>2, <2>a, PostedMain DEF UserClose, parameters
  <2>2. budget' \in BudgetType
    BY <1>2, SpendType DEF UserClose
  <2> QED
    BY <1>2, <2>1, <2>2 DEF UserClose, TypeOK, parameters, channel
<1>3. ASSUME Disconnect
      PROVE  TypeOK' /\ MainInv'
  <2>a. [call |-> "disconnect"] \in Calls
    BY DEF Calls
  <2>1. posted' \in Seq(Calls) /\ MainInv'
    BY <1>3, <2>a, PostedMain DEF Disconnect, parameters
  <2>2. budget' \in BudgetType
    BY <1>3, SpendType DEF Disconnect
  <2> QED
    BY <1>3, <2>1, <2>2 DEF Disconnect, TypeOK, parameters, channel
<1>4. ASSUME NEW on \in BOOLEAN, SetReadable(on)
      PROVE  TypeOK' /\ MainInv'
  <2>a. [call |-> "interest", on |-> on] \in Calls
    BY DEF Calls
  <2>1. posted' \in Seq(Calls) /\ MainInv'
    BY <1>4, <2>a, PostedMain DEF SetReadable, parameters
  <2>2. budget' \in BudgetType
    BY <1>4, SpendType DEF SetReadable
  <2> QED
    BY <1>4, <2>1, <2>2 DEF SetReadable, TypeOK, parameters, channel
<1>5. ASSUME Connect
      PROVE  TypeOK' /\ MainInv'
  <2>1. net' = [net EXCEPT !.conn = "busy"] /\ net.conn = "none" /\ net \in Operations
    BY <1>5 DEF Connect, TypeOK
  <2>2. net' \in Operations /\ net'.writing = net.writing
    BY <2>1, SetConn DEF Statuses
  <2>3. left' \in Nat
    BY <1>5, SocketAssumption DEF Connect
  <2>4. state # "connected"
    BY <2>1, MainCases
  <2>5. MainInv'
    <3>1. /\ Exact(wq') /\ Count(posted', "disconnect") <= disconnects'
          /\ state = "open" => Count(posted', "handleWrite") = 0
      BY <1>5, MainCases DEF Connect, Exact, Count
    <3> QED
      BY <1>5, <2>2, <2>4, <3>1, MainCases, MainStays DEF Connect, parameters
  <2> QED
    BY <1>5, <2>2, <2>3, <2>5 DEF Connect, TypeOK, parameters
<1> QED
  BY <1>1, <1>2, <1>3, <1>4, <1>5 DEF User

-----------------------------------------------------------------------------
(* Steps that only change the asynchronous operations: the same number of   *)
(* writes, and at least one read where one is needed.                       *)
LEMMA NetMain ==
    ASSUME TypeOK, MainInv, UNCHANGED <<size, state, closeDone, wq, posted, disconnects>>,
           state = "open" => net'.writing = <<>>,
           state = "connected" =>
              /\ net'.conn = "done" /\ Len(net'.writing) = Len(net.writing)
              /\ readable' /\ socketOpen' => Reads(net') > 0
    PROVE  MainInv'
<1>1. /\ Exact(wq') /\ Count(posted', "disconnect") <= disconnects'
      /\ Count(posted', "handleWrite") = Count(posted, "handleWrite")
  BY MainCases DEF Exact, Count
<1> QED
  BY <1>1, MainCases, MainStays

LEMMA EndWrite ==
    ASSUME NEW n \in Operations, NEW i \in DOMAIN n.writing, NEW st \in Statuses
    PROVE  LET m == [n EXCEPT !.writing[i].st = st]
           IN  /\ m \in Operations /\ m.conn = n.conn /\ Reads(m) = Reads(n)
               /\ Len(m.writing) = Len(n.writing)
               /\ m.writing = [n.writing EXCEPT ![i].st = st]
<1> DEFINE S == [w : Writes, st : Statuses]
           v == [n.writing EXCEPT ![i].st = st]
<1>a. /\ n.writing \in Seq(S) /\ Len(n.writing) \in Nat /\ i \in 1 .. Len(n.writing)
      /\ DOMAIN n.writing = 1 .. Len(n.writing)
  BY OperationFields, LenProperties
<1>b. n.writing[i] \in S
  BY <1>a, ElementOfSeq
<1>1. [n.writing[i] EXCEPT !.st = st] \in S
  BY <1>b
<1>2. v = [n.writing EXCEPT ![i] = [n.writing[i] EXCEPT !.st = st]]
  OBVIOUS
<1>3. v \in Seq(S) /\ Len(v) = Len(n.writing)
  BY <1>a, <1>1, <1>2, ExceptSeq
<1> HIDE DEF v
<1>4. [n EXCEPT !.writing[i].st = st] = [n EXCEPT !.writing = v]
  BY DEF v
<1> QED
  BY <1>3, <1>4 DEF Operations, Reads, v

LEMMA SystemMain ==
    ASSUME TypeOK, MainInv, System \/ ReadArrives \/ ReadFails
    PROVE  TypeOK' /\ MainInv'
<1>a. net \in Operations /\ net.busy \in Nat /\ net.ok \in Nat /\ net.err \in Nat
  BY OperationFields DEF TypeOK
<1>1. ASSUME NEW i \in DOMAIN net.writing, NEW st \in {"ok", "err"}, WriteEnds(i, st)
      PROVE  TypeOK' /\ MainInv'
  <2>1. net' = [net EXCEPT !.writing[i].st = st] /\ st \in Statuses
    BY <1>1 DEF WriteEnds, Statuses
  <2>2. /\ net' \in Operations /\ net'.conn = net.conn /\ Reads(net') = Reads(net)
        /\ Len(net'.writing) = Len(net.writing)
    BY <1>a, <2>1, EndWrite
  <2>3. net.writing[i].w \in Writes /\ net.writing # <<>>
    <3>1. net.writing \in Seq([w : Writes, st : Statuses])
      BY <1>a, OperationFields
    <3>2. net.writing[i] \in [w : Writes, st : Statuses]
      BY <3>1, ElementOfSeq, LenProperties
    <3> QED
      BY <3>2
  <2>4. MainInv'
    BY <1>1, <2>2, <2>3, MainCases, NetMain DEF WriteEnds, parameters, channel
  <2>5. sent' \subseteq Writes
    BY <1>1, <2>3 DEF WriteEnds, TypeOK
  <2> QED
    BY <1>1, <2>2, <2>4, <2>5 DEF WriteEnds, TypeOK, parameters, channel
<1>2. ASSUME NEW st \in {"ok", "err"}, ConnectEnds(st)
      PROVE  TypeOK' /\ MainInv'
  <2>1. net' = [net EXCEPT !.conn = st] /\ net.conn = "busy" /\ st \in Statuses
    BY <1>2 DEF ConnectEnds, Statuses
  <2>2. net' \in Operations /\ net'.writing = net.writing
    BY <1>a, <2>1, SetConn
  <2>3. state # "connected"
    BY <2>1, MainCases
  <2>4. MainInv'
    BY <1>2, <2>2, <2>3, MainCases, NetMain DEF ConnectEnds, parameters, channel
  <2> QED
    BY <1>2, <2>2, <2>4 DEF ConnectEnds, TypeOK, parameters, channel
<1>3. ASSUME ReadArrives
      PROVE  TypeOK' /\ MainInv'
  <2>a. PICK b \in Nat, k \in Nat : b = net.busy - 1 /\ k = net.ok + 1
    BY <1>3, <1>a DEF ReadArrives
  <2>1. net' = [net EXCEPT !.busy = b, !.ok = k]
    BY <1>3, <2>a DEF ReadArrives
  <2>2. /\ net' \in Operations /\ net'.writing = net.writing /\ net'.conn = net.conn
        /\ net'.busy = b /\ net'.ok = k /\ net'.err = net.err
    BY <1>a, <2>1 DEF Operations
  <2>3. Reads(net') = Reads(net)
    BY <1>a, <2>a, <2>2 DEF Reads
  <2>4. MainInv'
    BY <1>3, <2>2, <2>3, MainCases, NetMain DEF ReadArrives, parameters, channel
  <2>5. budget' \in BudgetType
    BY <1>3, SpendType DEF ReadArrives
  <2> QED
    BY <1>3, <2>2, <2>4, <2>5 DEF ReadArrives, TypeOK, parameters, channel
<1>4. ASSUME ReadFails
      PROVE  TypeOK' /\ MainInv'
  <2>a. PICK b \in Nat, k \in Nat : b = net.busy - 1 /\ k = net.err + 1
    BY <1>4, <1>a DEF ReadFails
  <2>1. net' = [net EXCEPT !.busy = b, !.err = k]
    BY <1>4, <2>a DEF ReadFails
  <2>2. /\ net' \in Operations /\ net'.writing = net.writing /\ net'.conn = net.conn
        /\ net'.busy = b /\ net'.ok = net.ok /\ net'.err = k
    BY <1>a, <2>1 DEF Operations
  <2>3. Reads(net') = Reads(net)
    BY <1>a, <2>a, <2>2 DEF Reads
  <2>4. MainInv'
    BY <1>4, <2>2, <2>3, MainCases, NetMain DEF ReadFails, parameters, channel
  <2> QED
    BY <1>4, <2>2, <2>4 DEF ReadFails, TypeOK, parameters, channel
<1> QED
  BY <1>1, <1>2, <1>3, <1>4 DEF System

-----------------------------------------------------------------------------
(* The calls the I/O thread takes from the front of the posted ones. *)
LEMMA Taken ==
    ASSUME TypeOK, MainInv, posted # <<>>
    PROVE  /\ Head(posted) \in Calls /\ Tail(posted) \in Seq(Calls)
           /\ Head(posted).call \in {"write", "handleWrite"} => Head(posted).w \in Writes
           /\ Head(posted).call = "interest" => Head(posted).on \in BOOLEAN
           /\ Count(posted, "handleWrite") = Count(Tail(posted), "handleWrite")
                 + (IF Head(posted).call = "handleWrite" THEN 1 ELSE 0)
           /\ Count(Tail(posted), "disconnect") + (IF Head(posted).call = "disconnect" THEN 1 ELSE 0)
                 <= disconnects
           /\ Count(Tail(posted), "handleWrite") \in Nat
           /\ Count(Tail(posted), "disconnect") \in Nat
<1>a. posted \in Seq(Calls) /\ disconnects \in Nat
  BY DEF TypeOK
<1>1. /\ Head(posted) \in Calls /\ Tail(posted) \in Seq(Calls)
      /\ Count(posted, "handleWrite") = Count(Tail(posted), "handleWrite")
                 + (IF Head(posted).call = "handleWrite" THEN 1 ELSE 0)
      /\ Count(Tail(posted), "handleWrite") \in Nat
  BY <1>a, CountTail
<1>2. /\ Count(posted, "disconnect") = Count(Tail(posted), "disconnect")
                 + (IF Head(posted).call = "disconnect" THEN 1 ELSE 0)
      /\ Count(Tail(posted), "disconnect") \in Nat
  BY <1>a, CountTail
<1>3. ASSUME NEW x \in Calls
      PROVE  /\ x.call \in {"write", "handleWrite"} => x.w \in Writes
             /\ x.call = "interest" => x.on \in BOOLEAN
  BY DEF Calls
<1> QED
  BY <1>1, <1>2, <1>3, MainCases

(* A handler that ends in close(future): when that returns early on an open *)
(* channel, the socket is not open and no read is needed.                   *)
LEMMA CloseMain ==
    ASSUME TypeOK, MainInv, size' = size, NEW q \in WriteQueues, Exact(q),
           NEW f \in [Writes -> Futures], NEW n \in Operations, Close(q, f, n),
           Count(posted', "disconnect") <= disconnects',
           state = "connected" =>
              /\ q.stalled => q.bytes >= Low
              /\ n.conn = "done"
              /\ Len(q.ops) = Len(n.writing) + Count(posted', "handleWrite"),
           state = "open" =>
              /\ q.ops = <<>> /\ ~q.stalled /\ n.writing = <<>>
              /\ Count(posted', "handleWrite") = 0
    PROVE  MainInv'
<1>1. CASE CloseRuns /\ state' = "closed" /\ closeDone' = TRUE
  <2>1. DiscInv'
    BY DEF DiscInv, Waiting, Count
  <2> QED
    BY <1>1, <2>1, CloseFacts, MainClosed
<1>2. CASE ~CloseRuns /\ wq' = q /\ future' = f /\ net' = n /\ UNCHANGED channel
  <2>1. state # "closed" => ~socketOpen'
    BY <1>2 DEF CloseRuns, isOpen, channel
  <2>2. Exact(wq') /\ state' = state /\ closeDone' = closeDone
    BY <1>2 DEF channel
  <2> QED
    BY <1>2, <2>1, <2>2, MainStays
<1> QED
  BY <1>1, <1>2, CloseFacts

LEMMA RunWriteFailsMain ==
    ASSUME TypeOK, MainInv, RunWriteFails
    PROVE  TypeOK' /\ MainInv'
<1>a. /\ posted # <<>> /\ Head(posted).call = "write" /\ state # "connected"
      /\ posted' = Tail(posted) /\ wq' = cleanUpWriteBuffer(wq)
  BY DEF RunWriteFails, IsNext, isConnected
<1>b. UNCHANGED <<size, inOrder, budget, state, socketOpen, closeDone, events, left, readable,
                  net, sent, disconnects, fault>>
  BY DEF RunWriteFails, parameters, channel
<1>c. wq \in WriteQueues
  BY DEF TypeOK
<1>1. wq' \in WriteQueues /\ Exact(wq') /\ (wq.ops = <<>> => wq' = wq)
  BY <1>a, <1>c, CleanUpFacts, MainCases
<1>2. future' \in [Writes -> {"none", "pending", "success", "failure"}]
  BY DEF RunWriteFails, FailCleaned, TypeOK
<1>3. /\ posted' \in Seq(Calls)
      /\ Count(posted', "disconnect") <= disconnects'
      /\ Count(posted', "handleWrite") = Count(posted, "handleWrite")
  BY <1>a, <1>b, Taken
<1>4. MainInv'
  BY <1>a, <1>b, <1>1, <1>3, MainCases, MainStays
<1> QED
  BY <1>b, <1>1, <1>2, <1>3, <1>4 DEF TypeOK

LEMMA RunWriteMain ==
    ASSUME TypeOK, MainInv, RunWrite
    PROVE  TypeOK' /\ MainInv'
<1>a. posted # <<>> /\ Head(posted).call = "write" /\ state = "connected"
  BY DEF RunWrite, IsNext, isConnected
<1>b. UNCHANGED <<size, inOrder, budget, state, socketOpen, closeDone, events, left, readable,
                  future, sent, disconnects, fault>>
  BY DEF RunWrite, parameters, channel
<1>c. wq \in WriteQueues /\ net \in Operations /\ size \in [Writes -> Nat]
  BY DEF TypeOK
<1>d. PICK w \in Writes : w = Head(posted).w
  BY <1>a, Taken
<1>e. /\ wq' = offer(wq, w)
      /\ IF size[w] = 0
         THEN /\ posted' = Append(Tail(posted), [call |-> "handleWrite", w |-> w])
              /\ net' = net
         ELSE /\ posted' = Tail(posted)
              /\ net' = [net EXCEPT !.writing = Append(@, [w |-> w, st |-> "busy"])]
  BY <1>d DEF RunWrite
<1>1. /\ wq' \in WriteQueues /\ Exact(wq') /\ wq'.ops = Append(wq.ops, w)
      /\ wq'.stalled => wq'.bytes >= Low
  <2>1. Calm(wq) /\ Exact(wq)
    BY MainCases
  <2>2. wq' \in WriteQueues /\ wq'.ops = Append(wq.ops, w) /\ Exact(wq') /\ Calm(wq')
    BY <1>c, <1>e, <2>1, OfferFacts
  <2> QED
    BY <1>a, <2>2 DEF Calm, isConnected
<1>2. Len(wq'.ops) = Len(wq.ops) + 1 /\ Len(wq.ops) \in Nat
  BY <1>c, <1>1 DEF WriteQueues
<1>3. /\ Tail(posted) \in Seq(Calls)
      /\ Count(Tail(posted), "disconnect") <= disconnects
      /\ Count(Tail(posted), "handleWrite") = Count(posted, "handleWrite")
      /\ Count(posted, "handleWrite") \in Nat
  BY <1>a, Taken
<1>4. /\ posted' \in Seq(Calls) /\ net' \in Operations
      /\ Count(posted', "disconnect") <= disconnects
      /\ net'.conn = net.conn /\ Reads(net') = Reads(net)
      /\ Len(net'.writing) + Count(posted', "handleWrite") =
            Len(net.writing) + Count(posted, "handleWrite") + 1
  <2>0. Len(net.writing) \in Nat /\ net.writing \in Seq([w : Writes, st : Statuses])
    BY <1>c, OperationFields
  <2>1. CASE size[w] = 0
    <3> DEFINE x == [call |-> "handleWrite", w |-> w]
    <3>1. x \in Calls /\ x.call = "handleWrite"
      BY DEF Calls
    <3> HIDE DEF x
    <3>2. posted' = Append(Tail(posted), x) /\ net' = net
      BY <1>e, <2>1 DEF x
    <3>3. /\ posted' \in Seq(Calls)
          /\ Count(posted', "handleWrite") = Count(Tail(posted), "handleWrite") + 1
      BY <1>3, <3>1, <3>2, CountAppend
    <3>4. Count(posted', "disconnect") = Count(Tail(posted), "disconnect") + 0
          /\ Count(Tail(posted), "disconnect") \in Nat
      BY <1>3, <3>1, <3>2, CountAppend
    <3>5. net' = net
      BY <3>2
    <3>6. Count(posted', "disconnect") <= disconnects
      BY <1>3, <3>4
    <3>7. Len(net.writing) + Count(posted', "handleWrite") =
             Len(net.writing) + Count(posted, "handleWrite") + 1
      <4>1. PICK k \in Nat, c \in Nat : k = Len(net.writing) /\ c = Count(posted, "handleWrite")
        BY <1>3, <2>0
      <4>2. Count(posted', "handleWrite") = c + 1
        BY <1>3, <3>3, <4>1
      <4> QED
        BY <4>1, <4>2
    <3>8. /\ net' \in Operations /\ net'.conn = net.conn /\ Reads(net') = Reads(net)
          /\ Len(net'.writing) = Len(net.writing)
      BY <1>c, <3>5
    <3> QED
      BY <3>3, <3>6, <3>7, <3>8
  <2>2. CASE size[w] # 0
    <3> DEFINE x == [w |-> w, st |-> "busy"]
    <3>1. x \in [w : Writes, st : Statuses]
      BY DEF Statuses
    <3> HIDE DEF x
    <3>2. posted' = Tail(posted) /\ net' = [net EXCEPT !.writing = Append(net.writing, x)]
      BY <1>e, <2>2 DEF x
    <3>3. Append(net.writing, x) \in Seq([w : Writes, st : Statuses])
          /\ Len(Append(net.writing, x)) = Len(net.writing) + 1
      BY <2>0, <3>1, AppendProperties
    <3>4. /\ net' \in Operations /\ net'.conn = net.conn
          /\ net'.busy = net.busy /\ net'.ok = net.ok /\ net'.err = net.err
          /\ net'.writing = Append(net.writing, x)
      BY <1>c, <3>2, <3>3 DEF Operations
    <3> QED
      BY <1>3, <2>0, <3>2, <3>3, <3>4 DEF Reads
  <2> QED
    BY <2>1, <2>2
<1>5. MainInv'
  BY <1>a, <1>b, <1>1, <1>2, <1>4, MainCases, MainStays
<1> QED
  BY <1>b, <1>1, <1>4, <1>5 DEF TypeOK

LEMMA RunCloseMain ==
    ASSUME TypeOK, MainInv, RunClose \/ RunDisconnect
    PROVE  TypeOK' /\ MainInv'
<1>a. /\ posted # <<>> /\ posted' = Tail(posted) /\ Close(wq, future, net)
      /\ UNCHANGED <<size, inOrder, budget, left, readable, sent, fault>>
      /\ Head(posted).call \in {"close", "disconnect"}
  BY DEF RunClose, RunDisconnect, IsNext, parameters
<1>b. /\ wq \in WriteQueues /\ net \in Operations /\ future \in [Writes -> Futures]
      /\ disconnects \in Nat
  BY DEF TypeOK, Futures
<1>1. /\ disconnects' \in Nat /\ posted' \in Seq(Calls)
      /\ Count(posted', "disconnect") <= disconnects'
      /\ Count(posted', "handleWrite") = Count(posted, "handleWrite")
  BY <1>a, <1>b, Taken DEF RunClose, RunDisconnect, IsNext
<1>2. MainInv'
  BY <1>a, <1>b, <1>1, MainCases, CloseMain
<1>3. /\ wq' \in WriteQueues /\ future' \in [Writes -> Futures] /\ net' \in Operations
      /\ state' \in {"open", "connected", "closed"} /\ closeDone' \in BOOLEAN
      /\ socketOpen' \in BOOLEAN /\ events' \in Seq(Events)
  BY <1>a, <1>b, CloseFacts
<1> QED
  BY <1>a, <1>1, <1>2, <1>3 DEF TypeOK, Futures, Events

LEMMA RunInterestMain ==
    ASSUME TypeOK, MainInv, RunInterest
    PROVE  TypeOK' /\ MainInv'
<1>a. /\ posted # <<>> /\ Head(posted).call = "interest" /\ posted' = Tail(posted)
      /\ readable' = Head(posted).on
      /\ net' = IF isOpen /\ ~readable /\ readable' THEN StartRead(net) ELSE net
      /\ UNCHANGED <<size, inOrder, budget, state, socketOpen, closeDone, events, left, wq,
                     future, sent, disconnects, fault>>
  BY DEF RunInterest, IsNext, parameters, channel
<1>b. net \in Operations /\ wq \in WriteQueues
  BY DEF TypeOK
<1>1. /\ readable' \in BOOLEAN /\ posted' \in Seq(Calls)
      /\ Count(posted', "disconnect") <= disconnects'
      /\ Count(posted', "handleWrite") = Count(posted, "handleWrite")
  BY <1>a, Taken
<1>2. /\ net' \in Operations /\ net'.conn = net.conn /\ net'.writing = net.writing
      /\ net' = net \/ Reads(net') > 0
      /\ isOpen /\ ~readable /\ readable' => Reads(net') > 0
  BY <1>a, <1>b, StartReadFacts
<1>3. Exact(wq')
  BY <1>a, MainCases
<1>4. state = "connected" /\ readable' /\ socketOpen' => Reads(net') > 0
  BY <1>a, <1>2, MainCases DEF isOpen
<1>5. MainInv'
  BY <1>a, <1>1, <1>2, <1>3, <1>4, MainCases, MainStays
<1> QED
  BY <1>a, <1>1, <1>2, <1>5 DEF TypeOK

-----------------------------------------------------------------------------
(* handleWrite: one handler fewer and one queued write fewer. *)
LEMMA HandleWriteMain ==
    ASSUME TypeOK, MainInv, size' = size, readable' = readable,
           NEW ok \in BOOLEAN, NEW n \in Operations, HandleWrite(ok, n),
           n.conn = net.conn, Reads(n) = Reads(net),
           Count(posted', "disconnect") <= disconnects',
           NEW before \in Nat \ {0},
           before = Len(net.writing) + Count(posted, "handleWrite"),
           before - 1 = Len(n.writing) + Count(posted', "handleWrite")
    PROVE  /\ MainInv'
           /\ wq' \in WriteQueues /\ future' \in [Writes -> Futures] /\ net' \in Operations
           /\ state' \in {"open", "connected", "closed"} /\ closeDone' \in BOOLEAN
           /\ socketOpen' \in BOOLEAN /\ events' \in Seq(Events) /\ fault' \in BOOLEAN
<1> DEFINE q == poll(wq)
           f == [future EXCEPT ![Polled(wq)] = IF ok THEN "success" ELSE "failure"]
<1>a. /\ wq \in WriteQueues /\ future \in [Writes -> Futures] /\ fault \in BOOLEAN
      /\ state \in {"open", "connected", "closed"} /\ closeDone \in BOOLEAN
      /\ socketOpen \in BOOLEAN /\ events \in Seq(Events) /\ wq.ops \in Seq(Writes)
  BY DEF TypeOK, Futures, Events, WriteQueues
<1>b. state # "open"
  <2> SUFFICES ASSUME state = "open" PROVE FALSE
    OBVIOUS
  <2>1. net.writing = <<>> /\ Count(posted, "handleWrite") = 0
    BY MainCases
  <2>2. Len(net.writing) = 0
    BY <2>1
  <2> QED
    BY <2>1, <2>2
<1>c. state = "connected" => Len(wq.ops) = before
  BY MainCases
<1>1. CASE wq.ops = <<>>
  <2>1. fault' = TRUE /\ net' = n /\ UNCHANGED <<wq, future, channel>>
    BY <1>1 DEF HandleWrite
  <2>2. state = "closed"
    BY <1>1, <1>a, <1>b, <1>c, EmptySeq
  <2>3. Exact(wq') /\ state' = state /\ closeDone' = closeDone
    BY <2>1, MainCases DEF channel
  <2>4. MainInv'
    BY <2>2, <2>3, MainStays
  <2> QED
    BY <1>a, <2>1, <2>4 DEF channel
<1>2. CASE wq.ops # <<>>
  <2>1. /\ q \in WriteQueues /\ q.ops = Tail(wq.ops) /\ Exact(q) /\ Calm(q)
    BY <1>2, <1>a, PollFacts, MainCases
  <2>2. Head(wq.ops) \in Writes /\ Len(Tail(wq.ops)) = Len(wq.ops) - 1
    BY <1>2, <1>a, HeadTailProperties
  <2>3. f \in [Writes -> Futures]
    BY <1>a DEF Futures
  <2>4. /\ IF ok \/ closeDone
           THEN wq' = q /\ future' = f /\ net' = n /\ UNCHANGED channel
           ELSE Close(q, f, n)
        /\ fault' = fault
    BY <1>2 DEF HandleWrite
  <2> HIDE DEF q, f
  <2>5. state = "connected" =>
           /\ q.stalled => q.bytes >= Low
           /\ n.conn = "done"
           /\ Len(q.ops) = Len(n.writing) + Count(posted', "handleWrite")
           /\ readable /\ socketOpen => Reads(n) > 0
    <3>1. ASSUME state = "connected"
          PROVE  q.stalled => q.bytes >= Low
      BY <2>1, <3>1 DEF Calm, isConnected
    <3>2. ASSUME state = "connected"
          PROVE  Len(q.ops) = Len(n.writing) + Count(posted', "handleWrite")
      BY <1>c, <2>1, <2>2, <3>2
    <3> QED
      BY <3>1, <3>2, MainCases
  <2>6. CASE ok \/ closeDone
    <3>1. wq' = q /\ future' = f /\ net' = n /\ UNCHANGED channel
      BY <2>4, <2>6
    <3>2. Exact(wq') /\ state' = state /\ closeDone' = closeDone /\ socketOpen' = socketOpen
      BY <2>1, <3>1 DEF channel
    <3>3. MainInv'
      BY <1>b, <2>5, <3>1, <3>2, MainStays
    <3> QED
      BY <1>a, <2>1, <2>3, <2>4, <3>1, <3>3 DEF channel
  <2>7. CASE ~(ok \/ closeDone)
    <3>1. Close(q, f, n)
      BY <2>4, <2>7
    <3>2. MainInv'
      BY <1>b, <2>1, <2>3, <2>5, <3>1, CloseMain
    <3> QED
      BY <1>a, <2>1, <2>3, <2>4, <3>1, <3>2, CloseFacts
  <2> QED
    BY <2>6, <2>7
<1> QED
  BY <1>1, <1>2

LEMMA HandleEmptyWriteMain ==
    ASSUME TypeOK, MainInv, HandleEmptyWrite
    PROVE  TypeOK' /\ MainInv'
<1>a. /\ posted # <<>> /\ Head(posted).call = "handleWrite" /\ posted' = Tail(posted)
      /\ sent' = sent \cup {Head(posted).w} /\ HandleWrite(TRUE, net)
      /\ UNCHANGED <<size, inOrder, budget, left, readable, disconnects>>
  BY DEF HandleEmptyWrite, IsNext, parameters
<1>b. net \in Operations /\ sent \subseteq Writes /\ Len(net.writing) \in Nat
  BY OperationFields DEF TypeOK
<1>1. /\ posted' \in Seq(Calls) /\ sent' \subseteq Writes
      /\ Count(posted', "disconnect") <= disconnects'
      /\ Count(posted, "handleWrite") = Count(posted', "handleWrite") + 1
      /\ Count(posted', "handleWrite") \in Nat
  BY <1>a, <1>b, Taken
<1>2. PICK before \in Nat \ {0} :
         /\ before = Len(net.writing) + Count(posted, "handleWrite")
         /\ before - 1 = Len(net.writing) + Count(posted', "handleWrite")
  <2>1. PICK k \in Nat, c \in Nat : k = Len(net.writing) /\ c = Count(posted', "handleWrite")
    BY <1>b, <1>1
  <2>2. /\ k + c + 1 \in Nat \ {0} /\ k + c + 1 - 1 = k + c
        /\ k + c + 1 = Len(net.writing) + Count(posted, "handleWrite")
    BY <1>1, <2>1
  <2> QED
    BY <2>1, <2>2
<1>3. /\ MainInv'
      /\ wq' \in WriteQueues /\ future' \in [Writes -> Futures] /\ net' \in Operations
      /\ state' \in {"open", "connected", "closed"} /\ closeDone' \in BOOLEAN
      /\ socketOpen' \in BOOLEAN /\ events' \in Seq(Events) /\ fault' \in BOOLEAN
  BY <1>a, <1>b, <1>1, <1>2, HandleWriteMain
<1> QED
  BY <1>a, <1>1, <1>3 DEF TypeOK, Futures, Events

LEMMA HandleAsyncWriteMain ==
    ASSUME TypeOK, MainInv, NEW i \in DOMAIN net.writing, HandleAsyncWrite(i)
    PROVE  TypeOK' /\ MainInv'
<1> DEFINE n == [net EXCEPT !.writing = Without(@, i)]
           ok == net.writing[i].st = "ok"
<1>a. /\ HandleWrite(ok, n)
      /\ UNCHANGED <<size, inOrder, budget, left, readable, posted, sent, disconnects>>
  BY DEF HandleAsyncWrite, parameters
<1>b. net \in Operations /\ Len(net.writing) \in Nat /\ i \in 1 .. Len(net.writing)
  BY OperationFields, LenProperties DEF TypeOK
<1>c. /\ n \in Operations /\ n.conn = net.conn /\ Reads(n) = Reads(net)
      /\ Len(n.writing) = Len(net.writing) - 1
  BY <1>b, WithoutFacts
<1>d. ok \in BOOLEAN
  OBVIOUS
<1> HIDE DEF n, ok
<1>1. /\ Count(posted', "disconnect") <= disconnects'
      /\ Count(posted', "handleWrite") = Count(posted, "handleWrite")
      /\ Count(posted, "handleWrite") \in Nat
  BY <1>a, MainCases, CountMarked DEF TypeOK
<1>2. PICK before \in Nat \ {0} :
         /\ before = Len(net.writing) + Count(posted, "handleWrite")
         /\ before - 1 = Len(n.writing) + Count(posted', "handleWrite")
  <2>1. PICK k \in Nat, c \in Nat : k = Len(net.writing) /\ c = Count(posted, "handleWrite")
    BY <1>b, <1>1
  <2>2. k + c \in Nat \ {0} /\ k + c - 1 = k - 1 + c /\ Len(n.writing) = k - 1
    BY <1>b, <1>c, <2>1
  <2>3. k + c - 1 = Len(n.writing) + Count(posted', "handleWrite")
    BY <1>1, <2>1, <2>2
  <2> QED
    BY <2>1, <2>2, <2>3
<1>3. /\ MainInv'
      /\ wq' \in WriteQueues /\ future' \in [Writes -> Futures] /\ net' \in Operations
      /\ state' \in {"open", "connected", "closed"} /\ closeDone' \in BOOLEAN
      /\ socketOpen' \in BOOLEAN /\ events' \in Seq(Events) /\ fault' \in BOOLEAN
  BY <1>a, <1>c, <1>d, <1>1, <1>2, HandleWriteMain
<1> QED
  BY <1>a, <1>3 DEF TypeOK, Futures, Events

-----------------------------------------------------------------------------
(* The handlers of reads and of the connection. *)
LEMMA HandleReadMain ==
    ASSUME TypeOK, MainInv, HandleReadOk \/ HandleReadError
    PROVE  TypeOK' /\ MainInv'
<1>a. net \in Operations /\ net.busy \in Nat /\ net.ok \in Nat /\ net.err \in Nat
  BY OperationFields DEF TypeOK
<1>1. CASE HandleReadOk
  <2>0. /\ net.ok > 0
        /\ UNCHANGED <<size, inOrder, budget, state, socketOpen, closeDone, events, left,
                       readable, wq, posted, future, sent, disconnects, fault>>
    BY <1>1 DEF HandleReadOk, parameters, channel
  <2> DEFINE n == [net EXCEPT !.ok = net.ok - 1]
  <2>1. n \in Operations /\ n.conn = net.conn /\ n.writing = net.writing
    BY <1>a, <2>0 DEF Operations
  <2>2. net' = IF readable THEN StartRead(n) ELSE n
    BY <1>1 DEF HandleReadOk
  <2> HIDE DEF n
  <2>3. /\ net' \in Operations /\ net'.conn = net.conn /\ net'.writing = net.writing
        /\ readable => Reads(net') > 0
    BY <2>1, <2>2, StartReadFacts
  <2>4. MainInv'
    BY <2>0, <2>3, MainCases, NetMain
  <2> QED
    BY <2>0, <2>3, <2>4 DEF TypeOK
<1>2. CASE HandleReadError
  <2> DEFINE n == [net EXCEPT !.err = net.err - 1]
  <2>0. /\ net.err > 0
        /\ UNCHANGED <<size, inOrder, budget, left, readable, posted, sent, disconnects, fault>>
        /\ IF closeDone
           THEN net' = n /\ UNCHANGED <<wq, future, channel>>
           ELSE Close(wq, future, n)
    BY <1>2 DEF HandleReadError, parameters
  <2>1. n \in Operations /\ n.conn = net.conn /\ n.writing = net.writing
    BY <1>a, <2>0 DEF Operations
  <2> HIDE DEF n
  <2>2. CASE closeDone
    <3>1. net' = n /\ UNCHANGED <<wq, future, channel>>
      BY <2>0, <2>2
    <3>2. state = "closed"
      BY <2>2, MainCases
    <3>3. MainInv'
      BY <2>0, <3>1, <3>2, NetMain DEF channel
    <3> QED
      BY <2>0, <2>1, <3>1, <3>3 DEF TypeOK, channel
  <2>3. CASE ~closeDone
    <3>1. Close(wq, future, n)
      BY <2>0, <2>3
    <3>2. wq \in WriteQueues /\ future \in [Writes -> Futures]
      BY DEF TypeOK, Futures
    <3>3. /\ Count(posted', "disconnect") <= disconnects'
          /\ Count(posted', "handleWrite") = Count(posted, "handleWrite")
      BY <2>0, MainCases
    <3>4. MainInv'
      BY <2>0, <2>1, <3>1, <3>2, <3>3, MainCases, CloseMain
    <3>5. /\ wq' \in WriteQueues /\ future' \in [Writes -> Futures] /\ net' \in Operations
          /\ state' \in {"open", "connected", "closed"} /\ closeDone' \in BOOLEAN
          /\ socketOpen' \in BOOLEAN /\ events' \in Seq(Events)
      BY <2>1, <3>1, <3>2, CloseFacts
    <3> QED
      BY <2>0, <3>4, <3>5 DEF TypeOK, Futures, Events
  <2> QED
    BY <2>2, <2>3
<1> QED
  BY <1>1, <1>2

LEMMA HandleConnectMain ==
    ASSUME TypeOK, MainInv,
           HandleConnected \/ HandleConnectNext \/ HandleConnectFailed \/ ConnectThrows
    PROVE  TypeOK' /\ MainInv'
<1>a. net \in Operations /\ posted \in Seq(Calls)
  BY DEF TypeOK
<1>b. net.conn \in {"none", "ok", "err"} /\ state # "connected"
  BY MainCases DEF HandleConnected, HandleConnectNext, HandleConnectFailed, ConnectThrows
<1>1. CASE HandleConnected
  <2> DEFINE n == [net EXCEPT !.conn = "done"]
  <2>0. /\ state' = setConnected /\ events' = Append(events, "connected")
        /\ net' = IF isReadable THEN StartRead(n) ELSE n
        /\ UNCHANGED <<size, inOrder, budget, socketOpen, closeDone, left, readable, wq, posted,
                       future, sent, disconnects, fault>>
    BY <1>1 DEF HandleConnected, parameters
  <2>1. n \in Operations /\ n.conn = "done" /\ n.writing = net.writing
    BY <1>a, SetConn
  <2> HIDE DEF n
  <2>2. /\ net' \in Operations /\ net'.conn = "done" /\ net'.writing = net.writing
        /\ isReadable => Reads(net') > 0
    BY <2>0, <2>1, StartReadFacts
  <2>3. /\ events' \in Seq({"connected", "disconnected", "unbound", "closed", "exception"})
        /\ state' \in {"open", "connected", "closed"}
    BY <2>0 DEF TypeOK, setConnected
  <2>4. /\ Exact(wq') /\ Count(posted', "disconnect") <= disconnects'
        /\ Count(posted', "handleWrite") = Count(posted, "handleWrite")
    BY <2>0, MainCases
  <2>5. CASE state = "closed"
    <3>1. state' = "closed" /\ closeDone' = TRUE
      BY <2>0, <2>5, MainCases DEF setConnected, isOpen
    <3>2. MainInv'
      BY <2>0, <2>4, <2>5, <3>1, MainStays
    <3> QED
      BY <2>0, <2>2, <2>3, <3>2 DEF TypeOK
  <2>6. CASE state = "open"
    <3>1. /\ state' = "connected" /\ closeDone' = FALSE
          /\ wq'.ops = <<>> /\ ~wq'.stalled /\ net'.writing = <<>>
          /\ Count(posted', "handleWrite") = 0
      BY <2>0, <2>2, <2>4, <2>6, MainCases DEF setConnected, isOpen
    <3>2. DiscInv'
      BY <2>4 DEF DiscInv, Waiting, Count
    <3>3. Len(wq'.ops) = Len(net'.writing) + Count(posted', "handleWrite")
      <4>1. Len(wq'.ops) = 0 /\ Len(net'.writing) = 0
        BY <3>1
      <4> QED
        BY <3>1, <4>1
    <3>4. readable' /\ socketOpen' => Reads(net') > 0
      BY <2>0, <2>2, <2>6 DEF isReadable, isOpen
    <3>5. MainInv'
      BY <2>0, <2>2, <2>4, <3>1, <3>2, <3>3, <3>4, MainConnected
    <3> QED
      BY <2>0, <2>2, <2>3, <3>5 DEF TypeOK
  <2> QED
    BY <1>b, <2>5, <2>6 DEF TypeOK
<1>2. CASE HandleConnectNext
  <2> DEFINE n == AbortedReads(net)
  <2>0. /\ left > 0 /\ left' = left - 1 /\ socketOpen' = TRUE
        /\ net' = [n EXCEPT !.conn = "busy"]
        /\ UNCHANGED <<size, inOrder, budget, state, closeDone, events, readable, wq, posted,
                       future, sent, disconnects, fault>>
    BY <1>2 DEF HandleConnectNext, parameters
  <2>1. n \in Operations /\ n.writing = net.writing
    BY <1>a, AbortedReadsFacts
  <2> HIDE DEF n
  <2>2. net' \in Operations /\ net'.writing = net.writing
    BY <2>0, <2>1, SetConn DEF Statuses
  <2>3. MainInv'
    BY <1>b, <2>0, <2>2, MainCases, NetMain
  <2> QED
    BY <2>0, <2>2, <2>3 DEF TypeOK
<1>3. CASE HandleConnectFailed \/ ConnectThrows
  <2> DEFINE n == [net EXCEPT !.conn = "done"]
  <2>0. /\ UNCHANGED <<size, inOrder, budget, left, readable, posted, sent, disconnects, fault>>
        /\ Close(wq, future, n)
    BY <1>3 DEF HandleConnectFailed, ConnectThrows, parameters
  <2>1. n \in Operations /\ n.conn = "done" /\ n.writing = net.writing
    BY <1>a, SetConn
  <2> HIDE DEF n
  <2>2. wq \in WriteQueues /\ future \in [Writes -> Futures]
    BY DEF TypeOK, Futures
  <2>3. /\ Count(posted', "disconnect") <= disconnects'
        /\ Count(posted', "handleWrite") = Count(posted, "handleWrite")
    BY <2>0, MainCases
  <2>4. MainInv'
    BY <1>b, <2>0, <2>1, <2>2, <2>3, MainCases, CloseMain
  <2>5. /\ wq' \in WriteQueues /\ future' \in [Writes -> Futures] /\ net' \in Operations
        /\ state' \in {"open", "connected", "closed"} /\ closeDone' \in BOOLEAN
        /\ socketOpen' \in BOOLEAN /\ events' \in Seq(Events)
    BY <2>0, <2>1, <2>2, CloseFacts
  <2> QED
    BY <2>0, <2>4, <2>5 DEF TypeOK, Futures, Events
<1> QED
  BY <1>1, <1>2, <1>3

LEMMA StepMain ==
    ASSUME TypeOK, MainInv, [Next]_vars
    PROVE  TypeOK' /\ MainInv'
<1>1. CASE Next
  BY <1>1, UserMain, SystemMain, RunWriteFailsMain, RunWriteMain, RunCloseMain, RunInterestMain,
     HandleEmptyWriteMain, HandleAsyncWriteMain, HandleReadMain, HandleConnectMain
     DEF Next, RunPosted, Handlers
<1>2. CASE UNCHANGED vars
  <2>0. UNCHANGED <<size, inOrder, budget, state, socketOpen, closeDone, events, left, readable,
                    wq, net, posted, future, sent, disconnects, fault>>
    BY <1>2 DEF vars, parameters, channel
  <2>1. MainInv'
    BY <2>0, MainCases, NetMain
  <2> QED
    BY <2>0, <2>1 DEF TypeOK
<1> QED
  BY <1>1, <1>2

(* The inductive invariant: it implies the five invariants below. *)
LEMMA MainInvariant == Spec => [](TypeOK /\ MainInv)
<1>1. (TypeOK /\ MainInv) /\ [Next]_vars => (TypeOK /\ MainInv)'
  BY StepMain
<1> QED
  BY InitMain, <1>1, PTL DEF Spec

(* AsioSocketChannel: the state of the channel, of its write queue and of   *)
(* its asynchronous operations keeps its type; `left` stays a natural       *)
(* number, so handleConnect never steps past the resolver's last address.   *)
THEOREM TypeCorrect == Spec => []TypeOK
BY MainInvariant, PTL

(* AsioWriteRequestQueue: writeBufferSize is the sum of the sizes of the    *)
(* queued messages, for any number and any sizes of messages.               *)
THEOREM QueueSizeExact == Spec => []SizeAccounting
<1>1. TypeOK /\ MainInv => SizeAccounting
  BY DEF MainInv
<1> QED
  BY <1>1, MainInvariant, PTL

(* The water marks of the write queue: no user of a connected channel waits *)
(* for the low mark while the queue is already below it, for every pair of  *)
(* marks Low <= High and every sequence of writes and completions.          *)
THEOREM WritersResume == Spec => []NoStalledWriter
<1>1. TypeOK /\ MainInv => NoStalledWriter
  BY DEF MainInv
<1> QED
  BY <1>1, MainInvariant, PTL

(* handleWrite: an open channel has one handler to come for each queued     *)
(* write, so poll() never meets an empty queue before the close.            *)
THEOREM OneHandlerPerWrite == Spec => []HandlersMatchQueue
<1>1. TypeOK /\ MainInv => HandlersMatchQueue
  BY DEF MainInv
<1> QED
  BY <1>1, MainInvariant, PTL

(* setInterestOps and handleRead: a connected channel that wants to read    *)
(* has a read under way, however often reading is suspended and resumed.    *)
THEOREM ReadsGoOn == Spec => []ReadArmed
<1>1. TypeOK /\ MainInv => ReadArmed
  BY DEF MainInv
<1> QED
  BY <1>1, MainInvariant, PTL

-----------------------------------------------------------------------------
(* What one step may do to the lifecycle of the channel. *)
Unmoved == state' = state /\ closeDone' = closeDone /\ events' = events
Connects ==
    /\ closeDone' = closeDone /\ events' = Append(events, "connected")
    /\ state' = IF state = "closed" THEN "closed" ELSE "connected"
Closes ==
    /\ state # "closed" /\ state' = "closed" /\ closeDone' = TRUE
    /\ \/ state = "connected" /\ events' = events \o <<"disconnected", "unbound", "closed">>
       \/ events' = events \o <<"closed">>
       \/ events' = Append(events, "exception")

LEMMA CloseMoves ==
    ASSUME NEW q, NEW f, NEW n, Close(q, f, n)
    PROVE  Unmoved \/ Closes
<1>1. CASE ~CloseRuns
  BY <1>1 DEF Close, Unmoved, channel
<1>2. CASE CloseRuns /\ CloseSucceeds(q, f, n)
  BY <1>2 DEF Close, CloseSucceeds, CloseRuns, Ending, isOpen, isConnected, Closes
<1>3. CASE CloseRuns /\ CloseThrows(q, f, n)
  BY <1>3 DEF Close, CloseThrows, CloseRuns, isOpen, isConnected, Closes
<1> QED
  BY <1>1, <1>2, <1>3 DEF Close

LEMMA HandleWriteMoves ==
    ASSUME NEW ok, NEW n, HandleWrite(ok, n)
    PROVE  Unmoved \/ Closes
<1> DEFINE q == poll(wq)
           f == [future EXCEPT ![Polled(wq)] = IF ok THEN "success" ELSE "failure"]
<1>1. UNCHANGED channel \/ Close(q, f, n)
  BY DEF HandleWrite
<1>2. UNCHANGED channel => Unmoved
  BY DEF channel, Unmoved
<1> QED
  BY <1>1, <1>2, CloseMoves

LEMMA StepMoves ==
    ASSUME [Next]_vars
    PROVE  Unmoved \/ Connects \/ Closes
<1>1. CASE User \/ System \/ ReadArrives \/ ReadFails \/ UNCHANGED vars
  <2>1. UNCHANGED channel \/ UNCHANGED <<state, closeDone, events>>
    BY <1>1 DEF User, Write, UserClose, Disconnect, SetReadable, Connect, System, WriteEnds,
                ConnectEnds, ReadArrives, ReadFails, vars
  <2> QED
    BY <2>1 DEF channel, Unmoved
<1>2. CASE RunPosted
  <2>1. CASE RunWriteFails \/ RunWrite \/ RunInterest
    <3>1. UNCHANGED channel
      BY <2>1 DEF RunWriteFails, RunWrite, RunInterest
    <3> QED
      BY <3>1 DEF channel, Unmoved
  <2>2. CASE RunClose \/ RunDisconnect
    BY <2>2, CloseMoves DEF RunClose, RunDisconnect
  <2>3. CASE HandleEmptyWrite
    BY <2>3, HandleWriteMoves DEF HandleEmptyWrite
  <2> QED
    BY <1>2, <2>1, <2>2, <2>3 DEF RunPosted
<1>3. CASE Handlers
  <2>1. ASSUME NEW i \in DOMAIN net.writing, HandleAsyncWrite(i)
        PROVE  Unmoved \/ Closes
    BY <2>1, HandleWriteMoves DEF HandleAsyncWrite
  <2>2. CASE HandleReadOk \/ HandleConnectNext
    <3>1. UNCHANGED channel \/ UNCHANGED <<state, closeDone, events>>
      BY <2>2 DEF HandleReadOk, HandleConnectNext
    <3> QED
      BY <3>1 DEF channel, Unmoved
  <2>3. CASE HandleReadError
    <3>1. UNCHANGED channel \/ Close(wq, future, [net EXCEPT !.err = @ - 1])
      BY <2>3 DEF HandleReadError
    <3>2. UNCHANGED channel => Unmoved
      BY DEF channel, Unmoved
    <3> QED
      BY <3>1, <3>2, CloseMoves
  <2>4. CASE HandleConnected
    BY <2>4 DEF HandleConnected, setConnected, isOpen, Connects
  <2>5. CASE HandleConnectFailed
    BY <2>5, CloseMoves DEF HandleConnectFailed
  <2> QED
    BY <1>3, <2>1, <2>2, <2>3, <2>4, <2>5 DEF Handlers
<1>4. CASE ConnectThrows
  BY <1>4, CloseMoves DEF ConnectThrows
<1> QED
  BY <1>1, <1>2, <1>3, <1>4 DEF Next

(* Channel::close: no step of any thread, handler or operation reopens a    *)
(* closed channel, not even the success of a connect that was under way.    *)
THEOREM StaysClosed == Spec => ClosedForever
<1>1. TypeOK /\ MainInv /\ [Next]_vars => [closeDone => closeDone' /\ state' = "closed"]_vars
  <2> SUFFICES ASSUME TypeOK, MainInv, [Next]_vars, closeDone
               PROVE  closeDone' /\ state' = "closed"
    OBVIOUS
  <2>1. state = "closed"
    BY DEF MainInv, CloseInv
  <2> QED
    BY <2>1, StepMoves DEF Unmoved, Connects, Closes
<1> QED
  BY <1>1, MainInvariant, PTL DEF Spec, ClosedForever

-----------------------------------------------------------------------------
(* The order of the lifecycle events, as a statement about a sequence. *)
Ends == {"closed", "exception"}
OneEnd(ev) == \A i, j \in DOMAIN ev : ev[i] \in Ends /\ ev[j] \in Ends => i = j
Paired(ev) ==
    /\ \A i \in DOMAIN ev : ev[i] = "disconnected" =>
          /\ i + 1 \in DOMAIN ev /\ ev[i + 1] = "unbound"
          /\ i + 2 \in DOMAIN ev /\ ev[i + 2] = "closed"
          /\ \E j \in DOMAIN ev : ev[j] = "connected" /\ j < i
    /\ \A i \in DOMAIN ev : ev[i] = "unbound" =>
          i - 1 \in DOMAIN ev /\ ev[i - 1] = "disconnected"
Young(ev) == \A i \in DOMAIN ev : ev[i] = "connected"
Extends(ev, t, m) ==
    /\ DOMAIN t = 1 .. (Len(ev) + m)
    /\ \A i \in 1 .. Len(ev) : t[i] = ev[i]

LEMMA LifecycleSplit ==
    LifecycleOrder <=> OneEnd(events) /\ Paired(events)
BY DEF LifecycleOrder, OneEnd, Paired, Ends

LEMMA ConnectedAfter ==
    ASSUME NEW ev \in Seq(Events), OneEnd(ev), Paired(ev), NEW t, Extends(ev, t, 1),
           t[Len(ev) + 1] = "connected"
    PROVE  OneEnd(t) /\ Paired(t)
<1> DEFINE n == Len(ev)
<1>a. n \in Nat /\ DOMAIN ev = 1 .. n /\ DOMAIN t = 1 .. (n + 1) /\ t[n + 1] = "connected"
      /\ \A i \in 1 .. n : t[i] = ev[i]
  BY LenProperties DEF Extends
<1> HIDE DEF n
<1>b. \A i \in DOMAIN t : t[i] # "connected" => i \in 1 .. n /\ ev[i] = t[i]
  BY <1>a
<1>c. \A i \in 1 .. n : i \in DOMAIN t
  BY <1>a
<1>1. OneEnd(t)
  BY <1>a, <1>b DEF OneEnd, Ends
<1>2. ASSUME NEW i \in DOMAIN t, t[i] = "disconnected"
      PROVE  /\ i + 1 \in DOMAIN t /\ t[i + 1] = "unbound"
             /\ i + 2 \in DOMAIN t /\ t[i + 2] = "closed"
             /\ \E j \in DOMAIN t : t[j] = "connected" /\ j < i
  <2>1. i \in 1 .. n /\ ev[i] = "disconnected"
    BY <1>b, <1>2
  <2>2. /\ i + 1 \in 1 .. n /\ ev[i + 1] = "unbound"
        /\ i + 2 \in 1 .. n /\ ev[i + 2] = "closed"
        /\ \E j \in 1 .. n : ev[j] = "connected" /\ j < i
    BY <1>a, <2>1 DEF Paired
  <2> QED
    BY <1>a, <1>c, <2>2
<1>3. ASSUME NEW i \in DOMAIN t, t[i] = "unbound"
      PROVE  i - 1 \in DOMAIN t /\ t[i - 1] = "disconnected"
  <2>1. i \in 1 .. n /\ ev[i] = "unbound"
    BY <1>b, <1>3
  <2>2. i - 1 \in 1 .. n /\ ev[i - 1] = "disconnected"
    BY <1>a, <2>1 DEF Paired
  <2> QED
    BY <1>a, <1>c, <2>2
<1> QED
  BY <1>1, <1>2, <1>3 DEF Paired

LEMMA EndAfter ==
    ASSUME NEW ev \in Seq(Events), Young(ev), NEW t, Extends(ev, t, 1),
           t[Len(ev) + 1] \in Ends
    PROVE  OneEnd(t) /\ Paired(t)
<1> DEFINE n == Len(ev)
<1>a. n \in Nat /\ DOMAIN ev = 1 .. n /\ DOMAIN t = 1 .. (n + 1) /\ t[n + 1] \in Ends
      /\ \A i \in 1 .. n : t[i] = ev[i]
  BY LenProperties DEF Extends
<1>b. \A i \in 1 .. n : t[i] = "connected"
  BY <1>a DEF Young
<1> HIDE DEF n
<1>1. \A i \in DOMAIN t : t[i] \in Ends => i = n + 1
  BY <1>a, <1>b DEF Ends
<1>2. \A i \in DOMAIN t : t[i] # "disconnected" /\ t[i] # "unbound"
  BY <1>a, <1>b DEF Ends
<1> QED
  BY <1>1, <1>2 DEF OneEnd, Paired

LEMMA DisconnectedAfter ==
    ASSUME NEW ev \in Seq(Events), Young(ev), \E i \in DOMAIN ev : ev[i] = "connected",
           NEW t, Extends(ev, t, 3),
           t[Len(ev) + 1] = "disconnected", t[Len(ev) + 2] = "unbound",
           t[Len(ev) + 3] = "closed"
    PROVE  OneEnd(t) /\ Paired(t)
<1> DEFINE n == Len(ev)
<1>a. /\ n \in Nat /\ DOMAIN ev = 1 .. n /\ DOMAIN t = 1 .. (n + 3)
      /\ t[n + 1] = "disconnected" /\ t[n + 2] = "unbound" /\ t[n + 3] = "closed"
      /\ \A i \in 1 .. n : t[i] = ev[i]
  BY LenProperties DEF Extends
<1>b. \A i \in 1 .. n : t[i] = "connected"
  BY <1>a DEF Young
<1>c. PICK k \in 1 .. n : t[k] = "connected"
  BY <1>a
<1> HIDE DEF n
<1>1. \A i \in DOMAIN t : t[i] \in Ends => i = n + 3
  BY <1>a, <1>b DEF Ends
<1>2. \A i \in DOMAIN t : /\ t[i] = "disconnected" => i = n + 1
                          /\ t[i] = "unbound" => i = n + 2
  BY <1>a, <1>b
<1>3. Paired(t)
  <2>1. /\ n + 1 \in DOMAIN t /\ n + 2 \in DOMAIN t /\ n + 3 \in DOMAIN t
        /\ k \in DOMAIN t /\ k < n + 1
        /\ n + 1 + 1 = n + 2 /\ n + 1 + 2 = n + 3 /\ n + 2 - 1 = n + 1
    BY <1>a
  <2> QED
    BY <1>a, <1>c, <1>2, <2>1 DEF Paired
<1> QED
  BY <1>1, <1>3 DEF OneEnd

LifeInv ==
    /\ ~closeDone => Young(events)
    /\ isConnected => \E i \in DOMAIN events : events[i] = "connected"
    /\ OneEnd(events) /\ Paired(events)

LEMMA StepLife ==
    ASSUME TypeOK, MainInv, LifeInv, [Next]_vars
    PROVE  LifeInv'
<1>a. events \in Seq(Events) /\ Len(events) \in Nat /\ DOMAIN events = 1 .. Len(events)
  BY LenProperties DEF TypeOK, Events
<1>b. closeDone <=> state = "closed"
  BY DEF MainInv, CloseInv
<1>1. CASE Unmoved
  BY <1>1 DEF Unmoved, LifeInv, isConnected
<1>2. CASE Connects
  <2>0. "connected" \in Events
    BY DEF Events
  <2>1. /\ Extends(events, events', 1) /\ events'[Len(events) + 1] = "connected"
        /\ \A i \in 1 .. Len(events) : events'[i] = events[i]
        /\ DOMAIN events' = 1 .. (Len(events) + 1)
    BY <1>a, <1>2, <2>0, AppendProperties, LenProperties DEF Connects, Extends
  <2>2. OneEnd(events') /\ Paired(events')
    BY <1>a, <2>1, ConnectedAfter DEF LifeInv
  <2>3. Len(events) + 1 \in DOMAIN events'
    BY <1>a, <2>1
  <2>4. ~closeDone' => Young(events')
    BY <1>2, <1>a, <2>1 DEF Connects, LifeInv, Young
  <2> QED
    BY <2>1, <2>2, <2>3, <2>4 DEF LifeInv, Young, OneEnd, Paired
<1>3. CASE Closes
  <2>0. /\ ~closeDone /\ closeDone' = TRUE /\ state' = "closed" /\ Young(events)
    BY <1>3, <1>b DEF Closes, LifeInv
  <2>1. CASE events' = Append(events, "exception")
    <3>1. "exception" \in Events /\ "exception" \in Ends
      BY DEF Events, Ends
    <3>2. Extends(events, events', 1) /\ events'[Len(events) + 1] \in Ends
      BY <1>a, <2>1, <3>1, AppendProperties, LenProperties DEF Extends
    <3>3. OneEnd(events') /\ Paired(events')
      BY <1>a, <2>0, <3>2, EndAfter
    <3> QED
      BY <2>0, <3>3 DEF LifeInv, isConnected, OneEnd, Paired
  <2>2. CASE events' = events \o <<"closed">>
    <3>1. "closed" \in Events /\ "closed" \in Ends
      BY DEF Events, Ends
    <3>2. events' = Append(events, "closed")
      BY <1>a, <2>2, <3>1, AppendIsConcat
    <3>3. Extends(events, events', 1) /\ events'[Len(events) + 1] \in Ends
      BY <1>a, <3>1, <3>2, AppendProperties, LenProperties DEF Extends
    <3>4. OneEnd(events') /\ Paired(events')
      BY <1>a, <2>0, <3>3, EndAfter
    <3> QED
      BY <2>0, <3>4 DEF LifeInv, isConnected, OneEnd, Paired
  <2>3. CASE state = "connected"
             /\ events' = events \o <<"disconnected", "unbound", "closed">>
    <3> DEFINE d == <<"disconnected", "unbound", "closed">>
    <3>1. /\ d \in Seq(Events) /\ Len(d) = 3
          /\ d[1] = "disconnected" /\ d[2] = "unbound" /\ d[3] = "closed"
      BY DEF Events
    <3>2. events' = events \o d
      BY <2>3
    <3> HIDE DEF d
    <3>3. /\ events' \in Seq(Events) /\ Len(events') = Len(events) + Len(d)
          /\ \A i \in 1 .. (Len(events) + Len(d)) :
                events'[i] = IF i <= Len(events) THEN events[i] ELSE d[i - Len(events)]
      <4>1. /\ events \o d \in Seq(Events) /\ Len(events \o d) = Len(events) + Len(d)
            /\ \A i \in 1 .. Len(events) + Len(d) :
                  (events \o d)[i] = IF i <= Len(events) THEN events[i] ELSE d[i - Len(events)]
        BY <1>a, <3>1, ConcatProperties
      <4> QED
        BY <3>2, <4>1
    <3>4. Extends(events, events', 3)
      BY <1>a, <3>1, <3>3, LenProperties DEF Extends
    <3>5. /\ events'[Len(events) + 1] = "disconnected" /\ events'[Len(events) + 2] = "unbound"
          /\ events'[Len(events) + 3] = "closed"
      BY <1>a, <3>1, <3>3
    <3>6. OneEnd(events') /\ Paired(events')
      BY <1>a, <2>0, <2>3, <3>4, <3>5, DisconnectedAfter DEF LifeInv, isConnected
    <3> QED
      BY <2>0, <3>6 DEF LifeInv, isConnected, OneEnd, Paired
  <2> QED
    BY <1>3, <2>1, <2>2, <2>3 DEF Closes
<1> QED
  BY <1>1, <1>2, <1>3, StepMoves

(* The events close() fires: a channel ends once, and channelDisconnected   *)
(* is fired only on a channel that was connected and is followed at once by *)
(* channelUnbound and channelClosed.                                        *)
THEOREM LifecycleInOrder == Spec => []LifecycleOrder
<1>1. Init => LifeInv
  BY DEF Init, LifeInv, Young, OneEnd, Paired, isConnected
<1>2. TypeOK /\ MainInv /\ LifeInv /\ [Next]_vars => LifeInv'
  BY StepLife
<1>3. LifeInv => LifecycleOrder
  BY LifecycleSplit DEF LifeInv
<1> QED
  BY <1>1, <1>2, <1>3, MainInvariant, PTL DEF Spec

-----------------------------------------------------------------------------
(* Completions while the channel is open, if asio ends the writes in order  *)
(* and no message is empty: the queue and the writes under way are the same *)
(* writes in the same order, so handleWrite completes the one that ended.   *)
Steady == inOrder /\ \A w \in Writes : size[w] > 0
SentWriting(n, s) == \A i \in DOMAIN n.writing : n.writing[i].st = "ok" => n.writing[i].w \in s
Matches(q, n) == \A i \in DOMAIN n.writing : q.ops[i] = n.writing[i].w
Transferred(f, s) == \A w \in Writes : f[w] = "success" => w \in s

SentBody ==
    /\ Count(posted, "handleWrite") = 0
    /\ SentWriting(net, sent)
    /\ isOpen => Matches(wq, net) /\ Transferred(future, sent)

SentInv == Steady => SentBody

LEMMA AbortedSent ==
    ASSUME NEW n \in Operations, NEW s, SentWriting(n, s)
    PROVE  SentWriting(Aborted(n), s)
<1> DEFINE v == [i \in DOMAIN n.writing |->
                   [w |-> n.writing[i].w, st |-> AbortedSt(n.writing[i].st)]]
           m == AbortedReads(n)
           c == AbortedSt(n.conn)
<1>1. Aborted(n) = [m EXCEPT !.conn = c, !.writing = v]
  BY DEF Aborted
<1>2. DOMAIN v = DOMAIN n.writing
      /\ \A i \in DOMAIN n.writing : v[i].w = n.writing[i].w /\ (v[i].st = "ok" => n.writing[i].st = "ok")
  BY DEF AbortedSt
<1>3. m \in Operations
  BY AbortedReadsFacts
<1> HIDE DEF v, m, c
<1>4. Aborted(n).writing = v
  BY <1>1, <1>3 DEF Operations
<1> QED
  BY <1>2, <1>4 DEF SentWriting

(* The writes under way and the queue are left alone. *)
LEMMA SentKept ==
    ASSUME TypeOK, SentBody, state' = state, UNCHANGED <<wq, sent>>, net'.writing = net.writing,
           Count(posted', "handleWrite") = Count(posted, "handleWrite"),
           \A w \in Writes : future'[w] = "success" => future[w] = "success"
    PROVE  SentBody'
<1>1. SentWriting(net', sent') /\ (Matches(wq, net) => Matches(wq', net'))
  BY DEF SentBody, SentWriting, Matches
<1>2. Transferred(future, sent) => Transferred(future', sent')
  BY DEF Transferred
<1>3. isOpen' = isOpen
  BY DEF isOpen
<1>4. Count(posted', "handleWrite") = 0
  BY DEF SentBody
<1> QED
  BY <1>1, <1>2, <1>3, <1>4 DEF SentBody, Count, Matches, SentWriting, Transferred

LEMMA CloseSent ==
    ASSUME TypeOK, NEW q \in WriteQueues, NEW f \in [Writes -> Futures],
           NEW n \in Operations, Close(q, f, n), sent' = sent,
           Count(posted', "handleWrite") = 0, SentWriting(n, sent),
           isOpen => Matches(q, n) /\ Transferred(f, sent)
    PROVE  SentBody'
<1>1. CASE CloseRuns
  <2>1. state' = "closed" /\ (net' = Aborted(n) \/ net' = n)
    BY <1>1 DEF Close, CloseSucceeds, CloseThrows
  <2>2. SentWriting(net', sent')
    BY <2>1, AbortedSent
  <2> QED
    BY <2>1, <2>2 DEF SentBody, SentWriting, isOpen, Count
<1>2. CASE ~CloseRuns
  <2>1. wq' = q /\ future' = f /\ net' = n /\ state' = state
    BY <1>2 DEF Close, channel
  <2>2. isOpen' = isOpen
    BY <2>1 DEF isOpen
  <2> QED
    BY <2>1, <2>2 DEF SentBody, SentWriting, Matches, Transferred, Count
<1> QED
  BY <1>1, <1>2

LEMMA UserSent ==
    ASSUME TypeOK, MainInv, SentBody, User
    PROVE  SentBody'
<1>a. posted \in Seq(Calls) /\ net \in Operations /\ future \in [Writes -> Futures]
  BY DEF TypeOK, Futures
<1>1. ASSUME NEW w \in Writes, Write(w)
      PROVE  SentBody'
  <2>1. [call |-> "write", w |-> w] \in Calls
    BY DEF Calls
  <2>2. Count(posted', "handleWrite") = Count(posted, "handleWrite")
    BY <1>1, <1>a, <2>1, CountAppend DEF Write
  <2>3. \A v \in Writes : future'[v] = "success" => future[v] = "success"
    BY <1>1, <1>a DEF Write
  <2> QED
    BY <1>1, <2>2, <2>3, SentKept DEF Write, channel
<1>2. ASSUME UserClose
      PROVE  SentBody'
  <2>1. [call |-> "close"] \in Calls
    BY DEF Calls
  <2>2. Count(posted', "handleWrite") = Count(posted, "handleWrite")
    BY <1>2, <1>a, <2>1, CountAppend DEF UserClose
  <2> QED
    BY <1>2, <2>2, SentKept DEF UserClose, channel
<1>3. ASSUME Disconnect
      PROVE  SentBody'
  <2>1. [call |-> "disconnect"] \in Calls
    BY DEF Calls
  <2>2. Count(posted', "handleWrite") = Count(posted, "handleWrite")
    BY <1>3, <1>a, <2>1, CountAppend DEF Disconnect
  <2> QED
    BY <1>3, <2>2, SentKept DEF Disconnect, channel
<1>4. ASSUME NEW on \in BOOLEAN, SetReadable(on)
      PROVE  SentBody'
  <2>1. [call |-> "interest", on |-> on] \in Calls
    BY DEF Calls
  <2>2. Count(posted', "handleWrite") = Count(posted, "handleWrite")
    BY <1>4, <1>a, <2>1, CountAppend DEF SetReadable
  <2> QED
    BY <1>4, <2>2, SentKept DEF SetReadable, channel
<1>5. ASSUME Connect
      PROVE  SentBody'
  <2>1. net'.writing = net.writing
    BY <1>5, <1>a, SetConn DEF Connect, Statuses
  <2> QED
    BY <1>5, <2>1, SentKept DEF Connect
<1> QED
  BY <1>1, <1>2, <1>3, <1>4, <1>5 DEF User

LEMMA SystemSent ==
    ASSUME TypeOK, MainInv, SentBody, System \/ ReadArrives \/ ReadFails
    PROVE  SentBody'
<1>a. net \in Operations /\ net.writing \in Seq([w : Writes, st : Statuses])
  BY OperationFields DEF TypeOK
<1>1. ASSUME NEW i \in DOMAIN net.writing, NEW st \in {"ok", "err"}, WriteEnds(i, st)
      PROVE  SentBody'
  <2>0. /\ net' = [net EXCEPT !.writing[i].st = st] /\ st \in Statuses
        /\ sent' = IF st = "ok" THEN sent \cup {net.writing[i].w} ELSE sent
        /\ UNCHANGED <<state, wq, posted, future>>
    BY <1>1 DEF WriteEnds, Statuses, channel
  <2> DEFINE v == [net.writing EXCEPT ![i].st = st]
  <2>1. net'.writing = v
    BY <1>a, <2>0, EndWrite
  <2>2. \A j \in DOMAIN net.writing : net.writing[j] \in [w : Writes, st : Statuses]
    BY <1>a, ElementOfSeq, LenProperties
  <2>3. /\ DOMAIN v = DOMAIN net.writing
        /\ \A j \in DOMAIN net.writing : v[j].w = net.writing[j].w
        /\ \A j \in DOMAIN net.writing : j # i => v[j] = net.writing[j]
        /\ v[i].st = st
    BY <2>2
  <2> HIDE DEF v
  <2>4. SentWriting(net', sent')
    <3> SUFFICES ASSUME NEW j \in DOMAIN v, v[j].st = "ok"
                 PROVE  v[j].w \in sent'
      BY <2>1 DEF SentWriting
    <3>1. CASE j = i
      BY <2>0, <2>3, <3>1
    <3>2. CASE j # i
      BY <2>0, <2>3, <3>2 DEF SentBody, SentWriting
    <3> QED
      BY <3>1, <3>2
  <2>5. isOpen => Matches(wq', net') /\ Transferred(future', sent')
    BY <2>0, <2>1, <2>3 DEF SentBody, Matches, Transferred
  <2>6. isOpen' = isOpen /\ Count(posted', "handleWrite") = 0
    BY <2>0 DEF isOpen, SentBody
  <2> QED
    BY <2>4, <2>5, <2>6 DEF SentBody, SentWriting, Matches, Transferred, Count
<1>2. ASSUME NEW st \in {"ok", "err"}, ConnectEnds(st)
      PROVE  SentBody'
  <2>1. net'.writing = net.writing
    BY <1>2, <1>a, SetConn DEF ConnectEnds, Statuses
  <2> QED
    BY <1>2, <2>1, SentKept DEF ConnectEnds, channel
<1>3. ASSUME ReadArrives \/ ReadFails
      PROVE  SentBody'
  <2>1. net'.writing = net.writing
    BY <1>3, <1>a DEF ReadArrives, ReadFails, Operations
  <2> QED
    BY <1>3, <2>1, SentKept DEF ReadArrives, ReadFails, channel
<1> QED
  BY <1>1, <1>2, <1>3 DEF System

LEMMA RunWriteSent ==
    ASSUME TypeOK, MainInv, Steady, SentBody, RunWriteFails \/ RunWrite
    PROVE  SentBody'
<1>a. /\ posted # <<>> /\ Head(posted).call = "write" /\ UNCHANGED <<state, sent>>
      /\ net \in Operations /\ wq \in WriteQueues
  BY DEF RunWriteFails, RunWrite, IsNext, channel, TypeOK
<1>b. PICK w \in Writes : w = Head(posted).w
  BY <1>a, Taken
<1>c. Count(Tail(posted), "handleWrite") = 0
  <2>1. Count(posted, "handleWrite") = Count(Tail(posted), "handleWrite") + 0
        /\ Count(Tail(posted), "handleWrite") \in Nat
    BY <1>a, Taken
  <2> QED
    BY <2>1 DEF SentBody
<1>d. isOpen' = isOpen
  BY <1>a DEF isOpen
<1>1. CASE RunWriteFails
  <2>1. /\ posted' = Tail(posted) /\ net' = net /\ wq' = cleanUpWriteBuffer(wq)
        /\ future' = [FailCleaned(wq, future) EXCEPT ![Head(posted).w] = "failure"]
    BY <1>1 DEF RunWriteFails
  <2>2. \A v \in Writes : future'[v] = "success" => future[v] = "success"
    BY <2>1 DEF FailCleaned
  <2>3. isOpen => wq' = wq
    BY <1>1, <1>a, <2>1, CleanUpFacts, MainCases DEF isOpen, isConnected, RunWriteFails
  <2>4. isOpen => Matches(wq', net') /\ Transferred(future', sent')
    BY <1>a, <2>1, <2>2, <2>3 DEF SentBody, Matches, Transferred
  <2>5. SentWriting(net', sent') /\ Count(posted', "handleWrite") = 0
    BY <1>a, <1>c, <2>1 DEF SentBody
  <2> QED
    BY <1>d, <2>4, <2>5 DEF SentBody, SentWriting, Matches, Transferred, Count
<1>2. CASE RunWrite
  <2> DEFINE x == [w |-> w, st |-> "busy"]
  <2>1. size[w] # 0 /\ state = "connected"
    BY <1>2 DEF Steady, TypeOK, RunWrite, isConnected
  <2>2. /\ posted' = Tail(posted) /\ wq' = offer(wq, w) /\ future' = future
        /\ net' = [net EXCEPT !.writing = Append(net.writing, x)]
    BY <1>2, <1>b, <2>1 DEF RunWrite
  <2>3. wq'.ops = Append(wq.ops, w)
    BY <1>a, <2>2, OfferFacts
  <2>4. net'.writing = Append(net.writing, x)
    BY <1>a, <2>2 DEF Operations
  <2>5. x \in [w : Writes, st : Statuses] /\ x.w = w /\ x.st = "busy"
    BY DEF Statuses
  <2> HIDE DEF x
  <2>6. PICK k \in Nat : k = Len(net.writing) /\ k = Len(wq.ops)
    <3>1. Len(wq.ops) = Len(net.writing) + Count(posted, "handleWrite")
      BY <2>1, MainCases
    <3>2. Len(net.writing) \in Nat
      BY <1>a, OperationFields
    <3> QED
      BY <3>1, <3>2 DEF SentBody
  <2>7. /\ DOMAIN net.writing = 1 .. k /\ DOMAIN net'.writing = 1 .. (k + 1)
        /\ net'.writing[k + 1] = x
        /\ \A i \in 1 .. k : net'.writing[i] = net.writing[i]
    <3> DEFINE S == [w : Writes, st : Statuses]
    <3>1. PICK s \in Seq(S) : s = net.writing
      BY <1>a, OperationFields
    <3>2. x \in S
      BY <2>5
    <3> HIDE DEF S
    <3>3. /\ Append(s, x) \in Seq(S) /\ Len(Append(s, x)) = k + 1 /\ Append(s, x)[k + 1] = x
          /\ \A i \in 1 .. k : Append(s, x)[i] = s[i]
      <4>1. /\ Append(s, x) \in Seq(S) /\ Len(Append(s, x)) = Len(s) + 1
            /\ Append(s, x)[Len(s) + 1] = x
            /\ \A i \in 1 .. Len(s) : Append(s, x)[i] = s[i]
        BY <3>2, AppendProperties
      <4>2. Len(s) = k
        BY <2>6, <3>1
      <4> QED
        BY <4>1, <4>2
    <3>4. DOMAIN s = 1 .. k /\ DOMAIN Append(s, x) = 1 .. (k + 1)
      BY <2>6, <3>1, <3>3, LenProperties
    <3>5. net'.writing = Append(s, x)
      BY <2>4, <3>1
    <3> QED
      BY <3>1, <3>3, <3>4, <3>5
  <2>8. wq'.ops[k + 1] = w /\ \A i \in 1 .. k : wq'.ops[i] = wq.ops[i]
    <3>1. wq.ops \in Seq(Writes)
      BY <1>a DEF WriteQueues
    <3> QED
      BY <2>3, <2>6, <3>1, AppendProperties
  <2>9. SentWriting(net', sent')
    BY <1>a, <2>5, <2>7 DEF SentBody, SentWriting
  <2>10. isOpen => Matches(wq', net')
    BY <2>5, <2>7, <2>8 DEF SentBody, Matches
  <2>11. isOpen => Transferred(future', sent')
    BY <1>a, <2>2 DEF SentBody, Transferred
  <2>12. Count(posted', "handleWrite") = 0
    BY <1>c, <2>2
  <2> QED
    BY <1>d, <2>9, <2>10, <2>11, <2>12 DEF SentBody, SentWriting, Matches, Transferred, Count
<1> QED
  BY <1>1, <1>2

LEMMA RunOtherSent ==
    ASSUME TypeOK, MainInv, SentBody,
           RunClose \/ RunDisconnect \/ RunInterest \/ HandleEmptyWrite
    PROVE  SentBody'
<1>a. /\ posted # <<>> /\ posted' = Tail(posted)
      /\ net \in Operations /\ wq \in WriteQueues /\ future \in [Writes -> Futures]
  BY DEF RunClose, RunDisconnect, RunInterest, HandleEmptyWrite, IsNext, TypeOK, Futures
<1>b. /\ Head(posted).call # "handleWrite" /\ Count(posted', "handleWrite") = 0
  <2>1. /\ Count(posted, "handleWrite") = Count(Tail(posted), "handleWrite")
              + (IF Head(posted).call = "handleWrite" THEN 1 ELSE 0)
        /\ Count(Tail(posted), "handleWrite") \in Nat
    BY <1>a, Taken
  <2> QED
    BY <1>a, <2>1 DEF SentBody
<1>1. CASE RunClose \/ RunDisconnect
  BY <1>1, <1>a, <1>b, CloseSent DEF RunClose, RunDisconnect, SentBody
<1>2. CASE RunInterest
  <2>1. net'.writing = net.writing
    BY <1>2, <1>a, StartReadFacts DEF RunInterest
  <2>2. Count(posted', "handleWrite") = Count(posted, "handleWrite")
    BY <1>b DEF SentBody
  <2> QED
    BY <1>2, <2>1, <2>2, SentKept DEF RunInterest, channel
<1>3. CASE HandleEmptyWrite
  BY <1>3, <1>b DEF HandleEmptyWrite, IsNext
<1> QED
  BY <1>1, <1>2, <1>3

(* handleWrite takes the first of the writes under way and the first of the *)
(* queue, which are the same write.                                         *)
LEMMA HandleWriteSent ==
    ASSUME TypeOK, MainInv, Steady, SentBody,
           NEW i \in DOMAIN net.writing, HandleAsyncWrite(i)
    PROVE  SentBody'
<1> DEFINE S == [w : Writes, st : Statuses]
           n == [net EXCEPT !.writing = Without(@, 1)]
           ok == net.writing[1].st = "ok"
           q == poll(wq)
           f == [future EXCEPT ![Polled(wq)] = IF ok THEN "success" ELSE "failure"]
<1>0. i = 1
  BY DEF HandleAsyncWrite, Steady
<1>a. /\ HandleWrite(ok, n) /\ UNCHANGED <<posted, sent>>
      /\ net \in Operations /\ wq \in WriteQueues /\ future \in [Writes -> Futures]
  BY <1>0 DEF HandleAsyncWrite, TypeOK, Futures
<1>b. PICK k \in Nat \ {0} : k = Len(net.writing) /\ DOMAIN net.writing = 1 .. k
  BY <1>0, <1>a, OperationFields, LenProperties
<1>c. n \in Operations /\ n.writing = Without(net.writing, 1)
  BY <1>0, <1>a, WithoutFacts
<1>d. DOMAIN n.writing = 1 .. (k - 1) /\ \A j \in 1 .. (k - 1) : n.writing[j] = net.writing[j + 1]
  BY <1>b, <1>c DEF Without
<1>e. Count(posted', "handleWrite") = 0 /\ Count(posted, "handleWrite") = 0
  BY <1>a DEF SentBody
<1>1. SentWriting(n, sent)
  BY <1>b, <1>d DEF SentBody, SentWriting
<1> HIDE DEF n
<1>2. CASE wq.ops = <<>>
  <2>1. net' = n /\ state' = state
    BY <1>a, <1>2 DEF HandleWrite, channel
  <2>2. state = "closed"
    <3>1. Len(wq.ops) = 0
      BY <1>2
    <3>2. state = "connected" => Len(wq.ops) = k
      BY <1>b, <1>e, MainCases
    <3>3. state # "open"
      BY <1>b, MainCases
    <3> QED
      BY <3>1, <3>2, <3>3 DEF TypeOK
  <2> QED
    BY <1>a, <1>e, <1>1, <2>1, <2>2 DEF SentBody, SentWriting, isOpen, Count
<1>3. CASE wq.ops # <<>>
  <2>1. wq.ops \in Seq(Writes)
    BY <1>a DEF WriteQueues
  <2>2. /\ Head(wq.ops) = wq.ops[1] /\ wq.ops[1] \in Writes
        /\ q \in WriteQueues /\ q.ops = Tail(wq.ops)
    BY <1>a, <1>3, <2>1, PollFacts, HeadTailProperties
  <2>3. f \in [Writes -> Futures]
    BY <1>a DEF Futures
  <2>4. isOpen => Len(wq.ops) = k
    <3>1. state = "connected" => Len(wq.ops) = k
      BY <1>b, <1>e, MainCases
    <3>2. state # "open"
      BY <1>b, MainCases
    <3> QED
      BY <3>1, <3>2 DEF TypeOK, isOpen
  <2>5. isOpen => Matches(q, n)
    <3> SUFFICES ASSUME isOpen, NEW j \in DOMAIN n.writing
                 PROVE  q.ops[j] = n.writing[j].w
      BY DEF Matches
    <3>1. j \in 1 .. (k - 1) /\ j + 1 \in DOMAIN net.writing /\ Len(wq.ops) = k
      BY <1>b, <1>d, <2>4
    <3>2. Tail(wq.ops)[j] = wq.ops[j + 1]
      BY <1>3, <2>1, <3>1, HeadTailProperties
    <3>3. wq.ops[j + 1] = net.writing[j + 1].w
      BY <3>1 DEF SentBody, Matches
    <3> QED
      BY <1>d, <2>2, <3>1, <3>2, <3>3
  <2>6. isOpen => Transferred(f, sent)
    <3> SUFFICES ASSUME isOpen, NEW w \in Writes, f[w] = "success"
                 PROVE  w \in sent
      BY DEF Transferred
    <3>1. CASE w = Head(wq.ops)
      <4>1. ok
        BY <1>a, <3>1 DEF Polled
      <4>2. net.writing[1].w = w /\ 1 \in DOMAIN net.writing
        BY <1>b, <2>2, <3>1 DEF SentBody, Matches
      <4> QED
        BY <4>1, <4>2 DEF SentBody, SentWriting
    <3>2. CASE w # Head(wq.ops)
      BY <1>a, <3>2 DEF Polled, SentBody, Transferred
    <3> QED
      BY <3>1, <3>2
  <2>7. \/ wq' = q /\ future' = f /\ net' = n /\ state' = state
        \/ Close(q, f, n)
    BY <1>a, <1>3 DEF HandleWrite, channel
  <2> HIDE DEF q, f
  <2>8. CASE wq' = q /\ future' = f /\ net' = n /\ state' = state
    <3>1. isOpen' = isOpen
      BY <2>8 DEF isOpen
    <3> QED
      BY <1>a, <1>e, <1>1, <2>5, <2>6, <2>8, <3>1
         DEF SentBody, SentWriting, Matches, Transferred, Count
  <2>9. CASE Close(q, f, n)
    BY <1>a, <1>c, <1>e, <1>1, <2>2, <2>3, <2>5, <2>6, <2>9, CloseSent
  <2> QED
    BY <2>7, <2>8, <2>9
<1> QED
  BY <1>2, <1>3

LEMMA HandlersSent ==
    ASSUME TypeOK, MainInv, Steady, SentBody, Handlers \/ ConnectThrows
    PROVE  SentBody'
<1>a. /\ net \in Operations /\ wq \in WriteQueues /\ future \in [Writes -> Futures]
      /\ net.ok \in Nat /\ net.err \in Nat
  BY OperationFields DEF TypeOK, Futures
<1>1. CASE HandleReadOk
  <2> DEFINE n == [net EXCEPT !.ok = net.ok - 1]
  <2>1. n \in Operations /\ n.writing = net.writing
    BY <1>1, <1>a DEF Operations, HandleReadOk
  <2>2. net' = StartRead(n) \/ net' = n
    BY <1>1 DEF HandleReadOk
  <2> HIDE DEF n
  <2>3. net'.writing = net.writing
    BY <2>1, <2>2, StartReadFacts
  <2> QED
    BY <1>1, <2>3, SentKept DEF HandleReadOk, channel
<1>2. CASE HandleReadError
  <2> DEFINE n == [net EXCEPT !.err = net.err - 1]
  <2>1. n \in Operations /\ n.writing = net.writing
    BY <1>2, <1>a DEF Operations, HandleReadError
  <2>2. \/ net' = n /\ UNCHANGED <<wq, future, state>>
        \/ Close(wq, future, n)
    BY <1>2 DEF HandleReadError, channel
  <2>3. UNCHANGED <<posted, sent>>
    BY <1>2 DEF HandleReadError
  <2> HIDE DEF n
  <2>4. CASE net' = n /\ UNCHANGED <<wq, future, state>>
    BY <2>1, <2>3, <2>4, SentKept
  <2>5. CASE Close(wq, future, n)
    <3>1. SentWriting(n, sent) /\ (isOpen => Matches(wq, n))
      BY <2>1 DEF SentBody, SentWriting, Matches
    <3>2. Count(posted', "handleWrite") = 0 /\ (isOpen => Transferred(future, sent))
      BY <2>3 DEF SentBody
    <3> QED
      BY <1>a, <2>1, <2>3, <2>5, <3>1, <3>2, CloseSent
  <2> QED
    BY <2>2, <2>4, <2>5
<1>3. CASE HandleConnected
  <2> DEFINE n == [net EXCEPT !.conn = "done"]
  <2>1. n \in Operations /\ n.writing = net.writing
    BY <1>a, SetConn
  <2>2. (net' = StartRead(n) \/ net' = n) /\ UNCHANGED <<wq, sent, posted, future>>
    BY <1>3 DEF HandleConnected
  <2> HIDE DEF n
  <2>3. net'.writing = net.writing
    BY <2>1, <2>2, StartReadFacts
  <2>4. isOpen' => isOpen
    BY <1>3 DEF HandleConnected, setConnected, isOpen
  <2> QED
    BY <2>2, <2>3, <2>4 DEF SentBody, SentWriting, Matches, Transferred, Count
<1>4. CASE HandleConnectNext
  <2>1. AbortedReads(net) \in Operations /\ AbortedReads(net).writing = net.writing
    BY <1>a, AbortedReadsFacts
  <2>2. net'.writing = net.writing
    BY <1>4, <2>1, SetConn DEF HandleConnectNext, Statuses
  <2> QED
    BY <1>4, <2>2, SentKept DEF HandleConnectNext
<1>5. CASE HandleConnectFailed \/ ConnectThrows
  <2> DEFINE n == [net EXCEPT !.conn = "done"]
  <2>1. n \in Operations /\ n.writing = net.writing
    BY <1>a, SetConn
  <2>2. Close(wq, future, n) /\ UNCHANGED <<posted, sent>>
    BY <1>5 DEF HandleConnectFailed, ConnectThrows
  <2> HIDE DEF n
  <2>3. SentWriting(n, sent) /\ (isOpen => Matches(wq, n))
    BY <2>1 DEF SentBody, SentWriting, Matches
  <2>4. Count(posted', "handleWrite") = 0 /\ (isOpen => Transferred(future, sent))
    BY <2>2 DEF SentBody
  <2> QED
    BY <1>a, <2>1, <2>2, <2>3, <2>4, CloseSent
<1> QED
  BY <1>1, <1>2, <1>3, <1>4, <1>5, HandleWriteSent DEF Handlers

(* handleWrite and AsioWriteRequestQueue: completing whichever write is the *)
(* oldest is right as long as the channel is open, the writes end in order  *)
(* and none of them is empty: a successful write was transferred.           *)
THEOREM SuccessIsTransfer == Spec => []SuccessMeansSentWhileOpen
<1>1. Init => SentInv
  <2> SUFFICES ASSUME Init PROVE SentBody
    BY DEF SentInv
  <2>1. Count(posted, "handleWrite") = 0
    <3>1. {i \in DOMAIN posted : posted[i].call = "handleWrite"} = {}
      BY DEF Init
    <3> QED
      BY <3>1, FS_EmptySet DEF Count
  <2>2. net.writing = <<>> /\ \A w \in Writes : future[w] # "success"
    BY DEF Init
  <2> QED
    BY <2>1, <2>2 DEF SentBody, SentWriting, Matches, Transferred
<1>2. TypeOK /\ MainInv /\ SentInv /\ [Next]_vars => SentInv'
  <2> SUFFICES ASSUME TypeOK, MainInv, SentInv, [Next]_vars, Steady'
               PROVE  SentBody'
    BY DEF SentInv
  <2>1. UNCHANGED parameters
    BY DEF Next, User, System, RunPosted, Handlers, Write, UserClose, Disconnect, SetReadable,
           Connect, WriteEnds, ConnectEnds, ReadArrives, ReadFails, RunWriteFails, RunWrite,
           RunClose, RunDisconnect, RunInterest, HandleEmptyWrite, HandleAsyncWrite, HandleReadOk,
           HandleReadError, HandleConnected, HandleConnectNext, HandleConnectFailed,
           ConnectThrows, vars
  <2>2. Steady /\ SentBody
    BY <2>1 DEF parameters, Steady, SentInv
  <2>3. CASE UNCHANGED vars
    BY <2>2, <2>3, SentKept DEF vars, channel
  <2>4. CASE Next
    BY <2>2, <2>4, UserSent, SystemSent, RunWriteSent, RunOtherSent, HandlersSent
       DEF Next, RunPosted
  <2> QED
    BY <2>3, <2>4
<1>3. TypeOK /\ SentInv => SuccessMeansSentWhileOpen
  BY DEF SentInv, SentBody, Steady, Transferred, SuccessMeansSentWhileOpen
<1> QED
  BY <1>1, <1>2, <1>3, MainInvariant, PTL DEF Spec
=============================================================================
